----------------------------- MODULE ServedProofs -----------------------------
(***************************************************************************)
(* Proofs about the served wire, for every grid, start, threshold and set  *)
(* of teams, however many sub-games their programs start and give up and   *)
(* however many answers are lost: our steps never repeat nor go back, a    *)
(* session holds the commitments of one sub-game, and both sides read one  *)
(* that is over alike.  Where one team calls, a sub-game that ended is on  *)
(* file before its session is replaced, and is filed once.                 *)
(***************************************************************************)
EXTENDS ServedProperties, TLAPS

-----------------------------------------------------------------------------
(* The fields of what the door holds, and of the program that calls. *)

IsRecord(r, fields) == r = [f \in fields |-> r[f]]

SessionFields == {"sub", "declared", "opponent", "clash", "pos", "walls", "records", "held",
                  "seen", "caught", "ended", "owner", "resent"}
RecorderFields == {"opponent", "series", "recorded", "filed"}
DriverFields == {"game", "declared", "handed", "step", "pos", "walls", "unheard", "over",
                 "confirmed"}

IsPeer(w) == /\ IsRecord(w, {"session", "loop", "recorder"})
             /\ IsRecord(w.session, SessionFields)
             /\ IsRecord(w.recorder, RecorderFields)
             /\ w.loop \in Loops \cup {None}

-----------------------------------------------------------------------------
(* The inductive invariant. *)

\* A board: where its owner stands, and the walls it knows.
OnTheBoard(x) == x.pos \in Cells /\ x.walls \in SUBSET Cells

Ascending(records) == \A i, j \in DOMAIN records : i < j => records[i] < records[j]

\* The session holds commitments of their side.
Holds(s) == DOMAIN s.held # {}

\* The loop is of this session: it numbers its records, and none was sealed without
\* it.  A commitment is held only once something was absorbed, the first one always,
\* and by the end of that call a round was closed or the sub-game was over.
Chained(w) ==
    LET s == w.session IN
    /\ s.records \in Seq(Nat) /\ Ascending(s.records) /\ s.seen \in Nat
    /\ w.loop = None => s.records = <<>> /\ ~Holds(s)
    /\ w.loop # None => \A i \in DOMAIN s.records : s.records[i] \in 1 .. w.loop.round
    /\ w.loop # None /\ s.records = <<>> => w.loop.round = 0
    /\ s.seen > 0 <=> Holds(s)

OfOneGame(w) ==
    LET s == w.session IN
    /\ Holds(s) => 1 \in DOMAIN s.held /\ Played(w)
    /\ \A i \in DOMAIN s.held : s.held[i] = s.owner.id

Door(w) == IsPeer(w) /\ OnTheBoard(w.session) /\ Chained(w) /\ OfOneGame(w)

\* The driver has a turn behind it only if the session holds that sub-game's, and its
\* team is the one the session is for.
Caller(d, s) ==
    /\ IsRecord(d, DriverFields) /\ d.pos \in Cells /\ d.step \in Nat
    /\ d.step > 0 => /\ Holds(s) /\ s.owner = d.game /\ d.game.id > 0
                     /\ role = Cop => d.handed
    /\ d.game.id > 0 => d.game.group # None
    /\ d.game.group # None => s.opponent = d.game.group
    /\ d.unheard # None => /\ d.unheard.game = d.game /\ d.unheard.step = d.step
                           /\ d.unheard.nil <=> d.step = 0
                           /\ d.unheard.nil => role = Cop
                           /\ d.unheard.barrier \in Cells \cup {None}

Inv == /\ role \in {Cop, Thief}
       /\ Door(peer)
       /\ Caller(driver, peer.session)

-----------------------------------------------------------------------------
(* What is filed, at a door that one team calls.                            *)

OneCaller == \A g, h \in Callers : g = h

Key(w) == <<w.recorder.opponent, w.recorder.series, w.session.sub>>

\* The sub-games of a driver are numbered as it begins them.
Numbered(d, s) ==
    /\ begun \in Nat /\ d.game.id \in 0 .. begun
    /\ Holds(s) => /\ s.owner.id \in 1 .. begun
                   /\ s.owner.id = d.game.id => s.owner = d.game

Known(w, d) ==
    /\ d.game.group # None => d.game.group \in Callers
    /\ \A g \in Callers : /\ d.game.group # None \/ w.recorder.recorded # {}
                              => w.recorder.opponent = g

\* Before anything of theirs was absorbed at most one step was sealed and no wall is known.
Untouched(s) == ~Holds(s) => /\ Len(s.records) <= 1
                             /\ role = Thief => s.walls = {}

Listed(q) == q \in Seq({q[i] : i \in DOMAIN q})

\* The artifacts, and the keys they are filed under: of this series or an earlier one.
Kept(c) == /\ c.series \in Nat
           /\ Listed(c.filed)
           /\ \A k \in c.recorded : k[2] \in 0 .. c.series

OnFile(c, game) == \E i \in DOMAIN c.filed : c.filed[i].owner = game

\* If the session's own key is filed, the artifact is of the session's sub-game, and
\* another one cannot be played in it.
Filed(w) ==
    LET c == w.recorder IN
    /\ Kept(c)
    /\ Key(w) \in c.recorded =>
         /\ OnFile(c, w.session.owner)
         /\ w.loop # None
         /\ Holds(w.session) \/ w.loop.finished # None

Files == /\ Numbered(driver, peer.session)
         /\ Known(peer, driver)
         /\ Untouched(peer.session)
         /\ Filed(peer)

-----------------------------------------------------------------------------
(* Records. *)

LEMMA Values ==
    /\ None \notin Loops /\ None \notin Cells /\ None \notin Endings
    /\ Capture \in Endings /\ Survival \in Endings
    /\ NewLoop \in Loops
    /\ \A r : StartOf(r) \in Cells
BY ServedAssumption DEF Endings, NewLoop, Loops, StartOf

LEMMA WithLoopEffect ==
    ASSUME NEW w, IsPeer(w)
    PROVE  LET v == WithLoop(w) IN
           /\ IsPeer(v) /\ v.session = w.session /\ v.recorder = w.recorder
           /\ v.loop \in Loops /\ v.loop = IF w.loop = None THEN NewLoop ELSE w.loop
BY Values DEF WithLoop, IsPeer, IsRecord

LEMMA SettleEffect ==
    ASSUME NEW w, IsPeer(w), NEW ending
    PROVE  LET v == Settle(w, ending) IN
           /\ IsPeer(v) /\ v.session = w.session /\ v.loop = w.loop
           /\ v.recorder.opponent = w.recorder.opponent /\ v.recorder.series = w.recorder.series
           /\ v.recorder = w.recorder
              \/ /\ ending # None
                 /\ v.recorder.recorded = w.recorder.recorded \cup {Key(w)}
                 /\ v.recorder.filed = Append(w.recorder.filed, Row(w, ending))
           /\ ending # None => Key(w) \in v.recorder.recorded
BY DEF Settle, Key, IsPeer, IsRecord, RecorderFields

LEMMA OpenedEffect ==
    ASSUME NEW w, IsPeer(w), NEW n
    PROVE  LET v == Opened(w, n) IN
           /\ IsPeer(v) /\ v.session = w.session /\ v.loop = w.loop
           /\ v.recorder.opponent = w.recorder.opponent
           /\ v.recorder.recorded = w.recorder.recorded /\ v.recorder.filed = w.recorder.filed
           /\ v.recorder.series = IF <<w.recorder.opponent, w.recorder.series, n>> \in w.recorder.recorded
                                  THEN w.recorder.series + 1 ELSE w.recorder.series
BY DEF Opened, IsPeer, IsRecord, RecorderFields

\* s and z are one session, but for its number and their declaration.
Alike(s, z) == /\ s.pos = z.pos /\ s.walls = z.walls /\ s.records = z.records /\ s.held = z.held
               /\ s.seen = z.seen /\ s.owner = z.owner /\ s.opponent = z.opponent

\* Nothing was played in s yet.
Blank(s) == /\ s.records = <<>> /\ s.held = <<>> /\ s.seen = 0 /\ s.walls = {}
            /\ s.pos \in Cells

LEMMA NoteDeclarationEffect ==
    ASSUME NEW s, IsRecord(s, SessionFields), NEW n
    PROVE  LET z == NoteDeclaration(s, n) IN
           IsRecord(z, SessionFields) /\ Alike(z, s) /\ z.sub = s.sub
BY DEF NoteDeclaration, IsRecord, SessionFields, Alike

LEMMA FreshSessionEffect ==
    ASSUME NEW n, NEW o, NEW k
    PROVE  LET z == NoteDeclaration(FreshSession(n, o), k) IN
           IsRecord(z, SessionFields) /\ Blank(z) /\ z.sub = n /\ z.opponent = o
<1> DEFINE s == FreshSession(n, o)
<1>1. IsRecord(s, SessionFields)
  BY DEF FreshSession, IsRecord, SessionFields
<1>2. Blank(s) /\ s.sub = n /\ s.opponent = o
  BY Values DEF FreshSession, Blank
<1> DEFINE z == NoteDeclaration(s, k)
<1> HIDE DEF s
<1>3. IsRecord(z, SessionFields) /\ Alike(z, s) /\ z.sub = s.sub
  BY <1>1, NoteDeclarationEffect
<1> HIDE DEF z
<1>4. Blank(z) /\ z.sub = n /\ z.opponent = o
  BY <1>2, <1>3 DEF Blank, Alike
<1> QED BY <1>3, <1>4 DEF z, s

LEMMA NotedEffect ==
    ASSUME NEW w, IsPeer(w), NEW n
    PROVE  LET v == [w EXCEPT !.session = NoteDeclaration(@, n)] IN
           /\ IsPeer(v) /\ v.loop = w.loop /\ v.recorder = w.recorder
           /\ Alike(v.session, w.session) /\ v.session.sub = w.session.sub
<1> DEFINE z == NoteDeclaration(w.session, n)
           v == [w EXCEPT !.session = z]
<1>1. IsRecord(z, SessionFields) /\ Alike(z, w.session) /\ z.sub = w.session.sub
  BY NoteDeclarationEffect DEF IsPeer
<1> HIDE DEF z
<1>2. v.session = z /\ v.loop = w.loop /\ v.recorder = w.recorder
      /\ IsRecord(v, {"session", "loop", "recorder"})
  BY DEF IsPeer, IsRecord
<1> HIDE DEF v
<1>3. IsPeer(v)
  BY <1>1, <1>2 DEF IsPeer
<1> QED BY <1>1, <1>2, <1>3 DEF v, z


\* A sub-game that was played makes room for a blank session, whose key is not filed
\* yet; otherwise only the number may change.
LEMMA RestartEffect ==
    ASSUME NEW w, IsPeer(w), NEW n
    PROVE  LET v == Restart(w, n) IN
           /\ IsPeer(v)
           /\ Played(w) => /\ v.loop = None /\ Blank(v.session)
                           /\ v.session.opponent = w.session.opponent
           /\ ~Played(w) => v.loop = w.loop /\ Alike(v.session, w.session)
<1> DEFINE noted   == [w EXCEPT !.session = NoteDeclaration(@, n)]
           opening == OpeningNumber(noted.session, n, Played(w))
           fresh   == NoteDeclaration(FreshSession(opening, w.session.opponent), n)
           settled == Settle(noted, w.loop.finished)
           next    == [settled EXCEPT !.session = fresh, !.loop = None]
           moved   == [noted EXCEPT !.session.sub = opening]
<1>1. /\ IsPeer(noted) /\ noted.loop = w.loop /\ Alike(noted.session, w.session)
  BY NotedEffect
<1>2. /\ Restart(w, n) = IF Played(w) THEN Opened(next, opening) ELSE AdoptOrStay(noted, opening)
  BY DEF Restart
<1>3. IsRecord(fresh, SessionFields) /\ Blank(fresh) /\ fresh.opponent = w.session.opponent
  BY FreshSessionEffect
<1> HIDE DEF noted, opening, fresh
<1>4. IsPeer(settled)
  BY <1>1, SettleEffect
<1> HIDE DEF settled
<1>5. IsPeer(next) /\ next.session = fresh /\ next.loop = None
  BY <1>3, <1>4 DEF IsPeer, IsRecord
<1>6. IsPeer(moved) /\ Alike(moved.session, w.session) /\ moved.loop = w.loop
  BY <1>1 DEF IsPeer, IsRecord, SessionFields, Alike
<1>7. AdoptOrStay(noted, opening) \in {noted, Opened(moved, opening)}
  BY DEF AdoptOrStay
<1> HIDE DEF next, moved
<1>8. CASE Played(w)
  <2>1. LET v == Opened(next, opening) IN IsPeer(v) /\ v.session = next.session /\ v.loop = next.loop
    BY <1>5, OpenedEffect
  <2> QED BY <1>2, <1>3, <1>5, <1>8, <2>1
<1>9. CASE ~Played(w)
  <2>1. LET v == Opened(moved, opening) IN IsPeer(v) /\ v.session = moved.session /\ v.loop = moved.loop
    BY <1>6, OpenedEffect
  <2> QED BY <1>1, <1>2, <1>6, <1>7, <1>9, <2>1
<1> QED BY <1>8, <1>9

LEMMA AdoptEffect ==
    ASSUME NEW s, IsRecord(s, SessionFields), NEW g
    PROVE  LET z == Adopt(s, g) IN
           /\ IsRecord(z, SessionFields)
           /\ \/ z = s /\ (g = s.opponent \/ s.records # <<>>)
              \/ /\ g # s.opponent /\ s.records = <<>> /\ z.opponent = g /\ z.records = s.records
                 /\ z.held = s.held /\ z.owner = s.owner /\ z.walls = s.walls /\ z.seen = 0
                 /\ z.pos \in Cells
BY Values DEF Adopt, Refuses, IsRecord, SessionFields

-----------------------------------------------------------------------------
(* The door stays in order. *)

\* What Door says of a session and its loop depends on nothing else.
LEMMA DoorAlike ==
    ASSUME NEW w, Door(w), NEW v, IsPeer(v), v.loop = w.loop, Alike(v.session, w.session)
    PROVE  Door(v)
BY DEF Door, OnTheBoard, Chained, OfOneGame, Alike, Holds, Played

LEMMA BlankDoor ==
    ASSUME NEW w, IsPeer(w), w.loop = None, Blank(w.session)
    PROVE  Door(w)
<1>1. OnTheBoard(w.session)
  BY DEF Blank, OnTheBoard
<1>2. DOMAIN w.session.held = {} /\ DOMAIN w.session.records = {} /\ w.session.records \in Seq(Nat)
  BY DEF Blank
<1>3. Chained(w) /\ OfOneGame(w)
  BY <1>2 DEF Blank, Chained, OfOneGame, Holds, Ascending
<1> QED BY <1>1, <1>3 DEF Door

LEMMA RestartKeepsDoor ==
    ASSUME NEW w, Door(w), NEW n
    PROVE  Door(Restart(w, n))
<1>1. IsPeer(w)
  BY DEF Door
<1>2. CASE Played(w)
  BY <1>1, <1>2, RestartEffect, BlankDoor
<1>3. CASE ~Played(w)
  BY <1>1, <1>3, RestartEffect, DoorAlike
<1> QED BY <1>2, <1>3

LEMMA WithLoopKeepsDoor ==
    ASSUME NEW w, Door(w)
    PROVE  LET v == WithLoop(w) IN Door(v) /\ v.session = w.session /\ v.loop # None
<1> DEFINE v == WithLoop(w)
<1>1. /\ IsPeer(v) /\ v.session = w.session /\ v.loop # None
      /\ v.loop = IF w.loop = None THEN NewLoop ELSE w.loop
  BY WithLoopEffect, Values DEF Door
<1> HIDE DEF v
<1>2. CASE w.loop # None
  <2>1. v.loop = w.loop /\ Alike(v.session, w.session) /\ IsPeer(v)
    BY <1>1, <1>2 DEF Alike
  <2>2. Door(v)
    BY <2>1, DoorAlike
  <2> QED BY <1>1, <2>2 DEF v
<1>3. CASE w.loop = None
  <2>1. w.session.records = <<>> /\ ~Holds(w.session)
    BY <1>3 DEF Door, Chained
  <2>2. v.loop.round = 0 /\ DOMAIN w.session.records = {}
    BY <1>1, <1>3, <2>1 DEF NewLoop
  <2>3. Chained(v)
    BY <1>1, <2>1, <2>2 DEF Door, Chained
  <2>4. OfOneGame(v)
    BY <1>1, <2>1 DEF Door, OfOneGame, Holds
  <2>5. OnTheBoard(v.session)
    BY <1>1 DEF Door
  <2>6. Door(v)
    BY <1>1, <2>3, <2>4, <2>5 DEF Door
  <2> QED BY <1>1, <2>6 DEF v
<1> QED BY <1>1, <1>2, <1>3 DEF v

\* A caller that is not the one being played is admitted only to a blank board: either
\* the sub-game was over and is retired, or nothing was sealed and so nothing absorbed.
LEMMA AtTheDoorKeepsDoor ==
    ASSUME NEW w, Door(w), NEW g, NEW n
    PROVE  LET v == AtTheDoor(w, g, n) IN
           /\ Door(v)
           /\ v.session.opponent # g => v = w
           /\ g = w.session.opponent => v = w
<1> DEFINE retires == g # w.session.opponent /\ w.loop # None /\ w.loop.finished # None
           retired == IF retires THEN Restart(w, n) ELSE w
           z == Adopt(retired.session, g)
           v == [retired EXCEPT !.session = z]
<1>1. AtTheDoor(w, g, n) = v
  BY DEF AtTheDoor
<1>2. IsPeer(w) /\ IsPeer(retired) /\ (~retires => retired = w)
  BY RestartKeepsDoor DEF Door
<1>3. retires => retired.loop = None /\ Blank(retired.session)
  BY <1>2, RestartEffect DEF Played
<1> HIDE DEF retired
<1>4. /\ IsRecord(z, SessionFields)
      /\ \/ z = retired.session /\ (g = retired.session.opponent \/ retired.session.records # <<>>)
         \/ /\ g # retired.session.opponent
            /\ retired.session.records = <<>> /\ z.opponent = g /\ z.records = <<>>
            /\ z.held = retired.session.held /\ z.owner = retired.session.owner
            /\ z.walls = retired.session.walls /\ z.seen = 0 /\ z.pos \in Cells
  BY <1>2, AdoptEffect DEF IsPeer
<1> HIDE DEF z
<1>5. IsPeer(v) /\ v.session = z /\ v.loop = retired.loop
  BY <1>2, <1>4 DEF IsPeer, IsRecord
<1>6. z = retired.session => v = retired
  BY <1>2 DEF IsPeer, IsRecord
<1> HIDE DEF v
<1>7. CASE retires
  <2>1. v.loop = None /\ Blank(v.session)
    BY <1>3, <1>4, <1>5, <1>7 DEF Blank
  <2>2. v.session.opponent = g
    BY <1>3, <1>4, <1>5, <1>7 DEF Blank
  <2>3. Door(v)
    BY <1>5, <2>1, BlankDoor
  <2> QED BY <1>1, <1>7, <2>2, <2>3
<1>8. CASE ~retires /\ z = retired.session
  <2>1. v = w
    BY <1>2, <1>6, <1>8
  <2> QED BY <1>1, <2>1
<1>9. CASE ~retires /\ z # retired.session
  <2>1. /\ w.session.records = <<>> /\ g # w.session.opponent /\ z.opponent = g /\ z.records = <<>>
        /\ z.held = w.session.held /\ z.walls = w.session.walls /\ z.seen = 0 /\ z.pos \in Cells
    BY <1>2, <1>4, <1>9
  <2>2. ~Played(w)
    BY <1>9, <2>1 DEF Played, Door, Chained
  <2>3. ~Holds(w.session) /\ ~Holds(v.session)
    BY <1>5, <2>1, <2>2 DEF Door, OfOneGame, Holds
  <2>4. OnTheBoard(v.session)
    BY <1>5, <2>1 DEF Door, OnTheBoard
  <2>5. Chained(v)
    BY <1>2, <1>5, <1>9, <2>1, <2>3 DEF Door, Chained, Ascending
  <2>6. OfOneGame(v)
    BY <2>3 DEF OfOneGame, Holds
  <2>7. Door(v)
    BY <1>5, <2>4, <2>5, <2>6 DEF Door
  <2> QED BY <1>1, <1>5, <2>1, <2>7
<1> QED BY <1>7, <1>8, <1>9

-----------------------------------------------------------------------------
(* A turn. *)

\* A turn the driver can send: the opening nil turn is the thief's, and only a first
\* turn finds a session that is not of its sub-game.
Fits(t, s) ==
    /\ t.step \in Nat /\ (t.nil <=> t.step = 0) /\ (t.nil => role = Cop)
    /\ t.barrier \in Cells \cup {None}
    /\ t.step > 1 => Holds(s) /\ s.owner = t.game

\* What no turn changes.
Stays(v, w) ==
    /\ v.recorder = w.recorder
    /\ v.session.sub = w.session.sub /\ v.session.opponent = w.session.opponent
    /\ w.loop # None /\ w.loop.finished # None => v.loop.finished # None

\* All that the session holds is of this sub-game.
Own(s, game) == \A i \in DOMAIN s.held : s.held[i] = game.id

LEMMA ArrivedEffect ==
    ASSUME NEW w, Door(w), NEW t, Fits(t, w.session)
    PROVE  LET v == Arrived(w, t) IN
           /\ Door(v) /\ v.session.opponent = w.session.opponent
           /\ t.nil => ~Holds(v.session)
           /\ ~t.nil => Own(v.session, t.game)
           /\ Fits(t, v.session)
           /\ t.step > 1 => v = w
<1> DEFINE v == Arrived(w, t)
           restarts == t.step <= 1 /\ (w.loop = None \/ OpenerIsNew(w, t))
           u == Restart(w, 0)
<1>1. v = IF restarts THEN u ELSE w
  BY DEF Arrived
<1>2. IsPeer(w) /\ Door(u)
  BY RestartKeepsDoor DEF Door
<1>3. /\ Played(w) => Blank(u.session) /\ u.session.opponent = w.session.opponent
      /\ ~Played(w) => Alike(u.session, w.session)
  BY <1>2, RestartEffect
<1> HIDE DEF v, u
<1>4. Holds(w.session) => /\ 1 \in DOMAIN w.session.held /\ Played(w) /\ w.session.seen > 0
                          /\ w.loop # None
  BY DEF Door, OfOneGame, Chained
<1>5. Own(w.session, w.session.owner)
  BY DEF Door, OfOneGame, Own
<1>6. ~Holds(u.session)
  BY <1>3, <1>4 DEF Blank, Alike, Holds
<1>7. CASE restarts
  BY <1>1, <1>2, <1>3, <1>6, <1>7 DEF v, Alike, Own, Holds, Fits
<1>8. CASE ~restarts /\ t.step > 1
  BY <1>1, <1>2, <1>5, <1>8 DEF v, Fits, Own
<1>9. CASE ~restarts /\ t.nil
  <2>1. w.session.seen = 0
    BY <1>9 DEF Fits, OpenerIsNew, Door, Chained
  <2> QED BY <1>1, <1>4, <1>9, <2>1 DEF v, Fits
<1>10. CASE ~restarts /\ t.step = 1
  <2>1. ~Holds(w.session) \/ w.session.held[1] = t.game.id
    BY <1>4, <1>10 DEF OpenerIsNew
  <2>2. Own(w.session, t.game)
    BY <1>4, <1>5, <2>1 DEF Own, Holds
  <2> QED BY <1>1, <1>10, <2>2 DEF v, Fits
<1> QED BY <1>7, <1>8, <1>9, <1>10 DEF Fits, v

LEMMA AbsorbEffect ==
    ASSUME NEW w, Door(w), w.loop # None,
           NEW t, Fits(t, w.session), ~t.nil, Own(w.session, t.game)
    PROVE  LET u == Absorb(w, t) IN
           /\ IsPeer(u) /\ OnTheBoard(u.session) /\ Chained(u) /\ Stays(u, w)
           /\ u.loop # None /\ u.loop.round = w.loop.round
           /\ u.session.owner = t.game /\ Own(u.session, t.game)
           /\ 1 \in DOMAIN u.session.held
<1> DEFINE s == w.session
           held == [i \in DOMAIN s.held \cup {t.step} |-> IF i = t.step THEN t.game.id ELSE s.held[i]]
           walls == s.walls \cup (IF t.barrier = None THEN {} ELSE {t.barrier})
           hit == t.claim # None /\ t.claim = s.pos
           told == [s EXCEPT !.held = held, !.walls = walls,
                             !.seen = @ + 1, !.owner = t.game,
                             !.resent = @ \/ (t.step \in DOMAIN s.held
                                              /\ s.held[t.step] = t.game.id)]
           boxed == BoxedIn(told)
           after == [told EXCEPT !.caught = @ \/ hit \/ boxed]
           walled == Entering(s, t.barrier)
           u == [w EXCEPT !.session = after, !.loop.walled = walled,
                          !.loop.finished = CASE t.win -> Survival
                                              [] ~t.win /\ boxed -> Capture
                                              [] OTHER -> @]
<1>1. Absorb(w, t) = u
  BY DEF Absorb
<1>2. /\ IsPeer(w) /\ IsRecord(w, {"session", "loop", "recorder"}) /\ IsRecord(s, SessionFields)
      /\ w.loop \in Loops
  BY DEF Door, IsPeer
<1>3. /\ IsRecord(after, SessionFields)
      /\ after.sub = s.sub /\ after.opponent = s.opponent /\ after.pos = s.pos
      /\ after.records = s.records /\ after.held = held /\ after.walls = walls
      /\ after.seen = s.seen + 1 /\ after.owner = t.game
  BY <1>2 DEF IsRecord, SessionFields
<1>4. walled \in Cells \cup {None}
  BY DEF Entering, Door, OnTheBoard
<1> HIDE DEF after, walled, boxed, told
<1>5. /\ IsRecord(u, {"session", "loop", "recorder"})
      /\ u.session = after /\ u.recorder = w.recorder
  BY <1>2 DEF IsRecord
<1>6. /\ u.loop \in Loops /\ u.loop.round = w.loop.round
      /\ w.loop.finished # None => u.loop.finished # None
  BY <1>2, <1>4, Values DEF IsRecord, Loops
<1> HIDE DEF u
<1>7. IsPeer(u)
  BY <1>2, <1>3, <1>5, <1>6 DEF IsPeer
<1>8. OnTheBoard(u.session)
  BY <1>3, <1>5 DEF OnTheBoard, Door, Fits
<1>9. u.session.owner = t.game /\ Own(u.session, t.game) /\ 1 \in DOMAIN u.session.held
  <2>1. t.step = 1 \/ 1 \in DOMAIN s.held
    BY DEF Fits, Door, OfOneGame
  <2> QED BY <1>3, <1>5, <2>1 DEF Own
<1>10. u.loop # None
  BY <1>6, Values
<1>11. Chained(u)
  <2>1. Holds(u.session) /\ u.session.seen > 0 /\ u.session.seen \in Nat
    BY <1>3, <1>5, <1>9 DEF Door, Chained, Holds
  <2>2. u.session.records = s.records /\ u.loop.round = w.loop.round
    BY <1>3, <1>5, <1>6
  <2> QED BY <1>10, <2>1, <2>2 DEF Door, Chained
<1> QED BY <1>1, <1>3, <1>5, <1>6, <1>7, <1>8, <1>9, <1>10, <1>11 DEF Stays

\* What our own turn chooses stays on the board.
LEMMA DecisionsStay ==
    ASSUME NEW s, OnTheBoard(s), NEW d \in Decisions(s)
    PROVE  /\ d.aim \in Cells /\ d.barrier \in Cells \cup {None}
           /\ SettleMove(s.pos, d.aim, s.walls) \in Cells /\ ClaimOf(s, d) \in Cells \cup {None}
BY DEF Decisions, OnTheBoard, LegalMoves, Steps, Passable, BarrierTargets, SettleMove, ClaimOf

\* One more record, beyond all the others.
LEMMA OneMore ==
    ASSUME NEW q \in Seq(Nat), Ascending(q), NEW m \in Nat, NEW n \in Nat, n > m,
           \A i \in DOMAIN q : q[i] \in 1 .. m
    PROVE  LET p == Append(q, n) IN
           /\ p \in Seq(Nat) /\ p # <<>> /\ Len(p) = Len(q) + 1
           /\ Ascending(p) /\ \A i \in DOMAIN p : p[i] \in 1 .. n
<1> DEFINE p == Append(q, n)
<1>1. p \in Seq(Nat) /\ Len(p) = Len(q) + 1 /\ Len(q) \in Nat
  OBVIOUS
<1>2. /\ DOMAIN p = 1 .. Len(q) + 1 /\ DOMAIN q = 1 .. Len(q)
      /\ \A i \in 1 .. Len(q) : p[i] = q[i]
      /\ p[Len(q) + 1] = n
  OBVIOUS
<1> HIDE DEF p
<1>3. \A i \in DOMAIN p : i \in 1 .. Len(q) \/ i = Len(q) + 1
  BY <1>1, <1>2
<1>4. \A i \in DOMAIN p : p[i] \in 1 .. n
  BY <1>2, <1>3
<1>5. Ascending(p)
  <2> SUFFICES ASSUME NEW i \in DOMAIN p, NEW j \in DOMAIN p, i < j
               PROVE  p[i] < p[j]
    BY DEF Ascending
  <2>1. i \in 1 .. Len(q)
    BY <1>1, <1>2
  <2>2. CASE j \in 1 .. Len(q)
    BY <1>2, <2>1, <2>2 DEF Ascending
  <2>3. CASE j = Len(q) + 1
    BY <1>2, <2>1, <2>3
  <2> QED BY <1>3, <2>2, <2>3
<1>6. p # <<>>
  BY <1>1
<1> QED BY <1>1, <1>4, <1>5, <1>6 DEF p

\* Our turn of that sub-game, the n-th step, can be taken.
Ready(w, n, game) ==
    /\ IsPeer(w) /\ OnTheBoard(w.session) /\ Chained(w) /\ w.loop # None
    /\ Own(w.session, game) /\ (Holds(w.session) => 1 \in DOMAIN w.session.held)
    /\ n \in Nat /\ n > w.loop.round

LEMMA TakeTurnEffect ==
    ASSUME NEW w, NEW game, NEW n, Ready(w, n, game), NEW d, d \in Decisions(w.session)
    PROVE  LET r == TakeTurn(w, n, d, game) IN
           /\ Door(r) /\ Stays(r, w) /\ r.loop # None
           /\ r.session.owner = game /\ r.session.held = w.session.held
           /\ r.session.records = Append(w.session.records, n)
<1> DEFINE s == w.session
           moved == [s EXCEPT
                       !.pos = IF d.barrier = None THEN SettleMove(@, d.aim, s.walls) ELSE @,
                       !.walls = @ \cup (IF d.barrier = None THEN {} ELSE {d.barrier}),
                       !.records = Append(@, n), !.owner = game]
           lost == Leaving(moved, w.loop.walled) \/ BoxedIn(moved)
           after == [moved EXCEPT !.caught = @ \/ lost]
           l == [round    |-> n,
                 walled   |-> None,
                 claimed  |-> IF role = Cop THEN ClaimOf(s, d) ELSE w.loop.claimed,
                 finished |-> CASE lost -> Capture
                                [] ~lost /\ ClaimsSurvival(s) -> Survival
                                [] OTHER -> w.loop.finished]
           r == [w EXCEPT !.session = after, !.loop = l]
<1>0. /\ IsPeer(w) /\ OnTheBoard(w.session) /\ Chained(w) /\ w.loop # None
      /\ Own(w.session, game) /\ (Holds(w.session) => 1 \in DOMAIN w.session.held)
      /\ n \in Nat /\ n > w.loop.round
  BY DEF Ready
<1>1. TakeTurn(w, n, d, game) = r
  BY <1>0 DEF TakeTurn, IsPeer, IsRecord
<1>2. /\ IsRecord(w, {"session", "loop", "recorder"}) /\ IsRecord(s, SessionFields)
      /\ w.loop \in Loops
  BY <1>0 DEF IsPeer
<1>3. /\ IsRecord(after, SessionFields)
      /\ after.sub = s.sub /\ after.opponent = s.opponent
      /\ after.records = Append(s.records, n) /\ after.held = s.held
      /\ after.seen = s.seen /\ after.owner = game
      /\ after.pos = (IF d.barrier = None THEN SettleMove(s.pos, d.aim, s.walls) ELSE s.pos)
      /\ after.walls = s.walls \cup (IF d.barrier = None THEN {} ELSE {d.barrier})
  BY <1>2 DEF IsRecord, SessionFields
<1> HIDE DEF after, lost, moved
<1>4. l \in Loops /\ l.round = n /\ (w.loop.finished # None => l.finished # None)
  BY <1>0, <1>2, DecisionsStay, Values DEF Loops
<1> HIDE DEF l
<1>5. /\ IsRecord(r, {"session", "loop", "recorder"})
      /\ r.session = after /\ r.loop = l /\ r.recorder = w.recorder
  BY <1>2 DEF IsRecord
<1> HIDE DEF r
<1>6. IsPeer(r)
  BY <1>0, <1>3, <1>4, <1>5 DEF IsPeer
<1>7. OnTheBoard(r.session)
  BY <1>0, <1>3, <1>5, DecisionsStay DEF OnTheBoard
<1>8. r.loop # None
  BY <1>4, <1>5, Values
<1>9. Chained(r)
  <2>1. /\ r.session.records = Append(s.records, n) /\ s.records \in Seq(Nat)
        /\ \A i \in DOMAIN s.records : s.records[i] \in 1 .. w.loop.round
        /\ w.loop.round \in Nat /\ Ascending(s.records)
    BY <1>0, <1>2, <1>3, <1>5 DEF Chained, Loops
  <2>2. /\ r.session.records \in Seq(Nat) /\ r.session.records # <<>>
        /\ Ascending(r.session.records)
        /\ \A i \in DOMAIN r.session.records : r.session.records[i] \in 1 .. n
    BY <1>0, <2>1, OneMore
  <2>5. r.loop.round = n
    BY <1>4, <1>5
  <2>6. r.session.seen = s.seen /\ r.session.held = s.held
    BY <1>3, <1>5
  <2> QED BY <1>0, <1>8, <2>2, <2>5, <2>6 DEF Chained, Holds
<1>10. OfOneGame(r)
  <2>1. r.session.held = s.held /\ r.session.owner = game /\ r.loop.round > 0
    BY <1>0, <1>2, <1>3, <1>4, <1>5 DEF Loops
  <2> QED BY <1>0, <1>8, <2>1 DEF OfOneGame, Own, Holds, Played
<1> QED BY <1>1, <1>3, <1>4, <1>5, <1>6, <1>7, <1>8, <1>9, <1>10 DEF Door, Stays

\* A handover is met by our first turn, or by none.
LEMMA OpeningTurn ==
    ASSUME NEW w, Door(w), w.loop # None, ~Holds(w.session), MayAct(w)
    PROVE  w.session.records = <<>>
<1>1. /\ w.session.seen = 0 /\ w.loop.round \in Nat /\ w.session.records \in Seq(Nat)
      /\ \A i \in DOMAIN w.session.records : w.session.records[i] \in 1 .. w.loop.round
  BY DEF Door, Chained, IsPeer, Loops
<1>2. w.loop.round = 0
  BY <1>1 DEF MayAct
<1>3. DOMAIN w.session.records = 1 .. Len(w.session.records) /\ Len(w.session.records) \in Nat
  BY <1>1
<1>4. \A i \in DOMAIN w.session.records : FALSE
  BY <1>1, <1>2
<1>5. 1 \notin 1 .. Len(w.session.records)
  BY <1>3, <1>4
<1>6. Len(w.session.records) = 0
  BY <1>3, <1>5
<1> QED BY <1>1, <1>6

LEMMA AnswersEffect ==
    ASSUME NEW w, Door(w), NEW t, Fits(t, w.session),
           t.nil => ~Holds(w.session), ~t.nil => Own(w.session, t.game),
           NEW r \in Answers(w, t)
    PROVE  /\ Door(r.peer) /\ Stays(r.peer, w) /\ r.peer.loop # None
           /\ ~t.nil => Holds(r.peer.session) /\ r.peer.session.owner = t.game
           /\ t.nil => ~Holds(r.peer.session)
           /\ t.nil => \/ Len(r.peer.session.records) <= 1
                       \/ r.peer.session.records = w.session.records
<1> DEFINE l == WithLoop(w)
<1>0. Door(l) /\ l.session = w.session /\ l.loop # None /\ Stays(l, w)
  BY WithLoopKeepsDoor, WithLoopEffect DEF Stays, Door
<1> HIDE DEF l
<1>1. CASE t.nil
  <2>1. CASE ~MayAct(l)
    <3>1. r.peer = l
      BY <1>1, <2>1 DEF Answers, l
    <3> QED BY <1>0, <1>1, <3>1
  <2>2. CASE MayAct(l)
    <3>1. PICK d \in Decisions(l.session) : r.peer = TakeTurn(l, l.loop.round + 1, d, t.game)
      BY <1>1, <2>2 DEF Answers, l
    <3>2. l.session.records = <<>>
      BY <1>0, <1>1, <2>2, OpeningTurn
    <3>3. /\ IsPeer(l) /\ OnTheBoard(l.session) /\ Chained(l) /\ l.loop.round \in Nat
          /\ DOMAIN l.session.held = {}
      BY <1>0, <1>1 DEF Door, IsPeer, Loops, Holds
    <3>4. Own(l.session, t.game) /\ ~Holds(l.session)
          /\ l.loop.round + 1 \in Nat /\ l.loop.round + 1 > l.loop.round
      BY <3>3 DEF Own, Holds
    <3>5. /\ Door(r.peer) /\ Stays(r.peer, l) /\ r.peer.loop # None
          /\ r.peer.session.held = l.session.held
          /\ r.peer.session.records = Append(l.session.records, l.loop.round + 1)
      <4> DEFINE n == l.loop.round + 1
                 z == TakeTurn(l, n, d, t.game)
      <4>1. n \in Nat /\ n > l.loop.round
        BY <3>4
      <4> HIDE DEF n
      <4>2. Door(z) /\ Stays(z, l) /\ z.loop # None
            /\ z.session.held = l.session.held
            /\ z.session.records = Append(l.session.records, n)
        <5>1. Ready(l, n, t.game)
          BY <1>0, <3>3, <3>4, <4>1 DEF Ready
        <5> QED BY <3>1, <5>1, TakeTurnEffect
      <4> QED BY <3>1, <4>2 DEF n
    <3>6. Len(r.peer.session.records) = 1
      BY <3>2, <3>3, <3>5
    <3>7. ~Holds(r.peer.session) /\ Stays(r.peer, w)
      BY <1>0, <3>3, <3>5 DEF Holds, Stays
    <3> QED BY <1>1, <3>5, <3>6, <3>7
  <2> QED BY <2>1, <2>2
<1>2. CASE ~t.nil
  <2> DEFINE u == Absorb(l, t)
  <2>1. /\ IsPeer(u) /\ OnTheBoard(u.session) /\ Chained(u) /\ Stays(u, l)
        /\ u.loop # None /\ u.loop.round = l.loop.round
        /\ u.session.owner = t.game /\ Own(u.session, t.game)
        /\ 1 \in DOMAIN u.session.held
    BY <1>0, <1>2, AbsorbEffect
  <2> HIDE DEF u
  <2>2. Stays(u, w) /\ Holds(u.session)
    BY <1>0, <2>1 DEF Stays, Holds
  <2>3. CASE u.session.caught
    <3> DEFINE z == [u EXCEPT !.loop.finished = Capture]
    <3>1. r.peer = z
      BY <1>2, <2>3 DEF Answers, l, u
    <3>2. /\ IsRecord(z, {"session", "loop", "recorder"})
          /\ z.session = u.session /\ z.recorder = u.recorder
          /\ z.loop \in Loops /\ z.loop.round = u.loop.round /\ z.loop.finished = Capture
      BY <2>1, Values DEF IsPeer, IsRecord, Loops
    <3> HIDE DEF z
    <3>3. z.loop # None /\ Played(z)
      BY <3>2, Values DEF Played
    <3>4. IsPeer(z) /\ OnTheBoard(z.session)
      BY <2>1, <3>2 DEF IsPeer
    <3>5. Chained(z)
      BY <2>1, <3>2, <3>3 DEF Chained
    <3>6. OfOneGame(z)
      BY <2>1, <3>2, <3>3 DEF OfOneGame, Own
    <3>7. Door(z) /\ Stays(z, w)
      BY <2>2, <3>2, <3>3, <3>4, <3>5, <3>6, Values DEF Door, Stays
    <3> QED BY <1>2, <2>1, <2>2, <3>1, <3>2, <3>3, <3>7
  <2>4. CASE ~u.session.caught
    <3> DEFINE n == ReplyStep(u, t.step)
    <3>1. PICK d \in Decisions(u.session) : r.peer = TakeTurn(u, n, d, t.game)
      BY <1>2, <2>4 DEF Answers, l, u
    <3>2. u.loop.round \in Nat /\ t.step \in Nat
      BY <2>1 DEF IsPeer, Loops, Fits
    <3>3. n \in Nat /\ n > u.loop.round
      BY <3>2 DEF ReplyStep
    <3> HIDE DEF n
    <3>4. /\ Door(r.peer) /\ Stays(r.peer, u) /\ r.peer.loop # None
          /\ r.peer.session.owner = t.game /\ r.peer.session.held = u.session.held
      <4> DEFINE z == TakeTurn(u, n, d, t.game)
      <4>1. Door(z) /\ Stays(z, u) /\ z.loop # None
            /\ z.session.owner = t.game /\ z.session.held = u.session.held
        <5>1. Ready(u, n, t.game)
          BY <2>1, <3>3 DEF Ready
        <5> QED BY <3>1, <5>1, TakeTurnEffect
      <4> QED BY <3>1, <4>1
    <3>5. Stays(r.peer, w)
      BY <2>2, <3>4, <2>1, <1>0 DEF Stays
    <3> QED BY <1>2, <2>2, <3>4, <3>5 DEF Holds
  <2> QED BY <2>3, <2>4
<1> QED BY <1>1, <1>2

-----------------------------------------------------------------------------
(* The calls that carry no turn. *)

\* What Door says of a loop depends on its round, and on whether it has ended.
LEMMA DoorKept ==
    ASSUME NEW w, Door(w), w.loop # None,
           NEW v, IsPeer(v), v.loop # None, v.loop.round = w.loop.round,
           w.loop.finished # None => v.loop.finished # None,
           Alike(v.session, w.session)
    PROVE  Door(v)
BY DEF Door, OnTheBoard, Chained, OfOneGame, Alike, Holds, Played

LEMMA ConcedeEffect ==
    ASSUME NEW l \in Loops, NEW ending, NEW cell
    PROVE  LET z == Concede(l, ending, cell) IN
           /\ z \in Loops /\ z.round = l.round
           /\ l.finished # None => z.finished # None
BY Values DEF Concede, Loops

\* Fields of the session no rule reads.
LEMMA SessionNoted ==
    ASSUME NEW s, IsRecord(s, SessionFields), NEW x
    PROVE  LET e == [s EXCEPT !.ended = x]
               c == [s EXCEPT !.clash = x]
               k == [s EXCEPT !.caught = x] IN
           /\ IsRecord(e, SessionFields) /\ Alike(e, s) /\ e.sub = s.sub
           /\ IsRecord(c, SessionFields) /\ Alike(c, s) /\ c.sub = s.sub
           /\ IsRecord(k, SessionFields) /\ Alike(k, s) /\ k.sub = s.sub
BY DEF IsRecord, SessionFields, Alike

LEMMA WithSession ==
    ASSUME NEW w, IsPeer(w), NEW z, IsRecord(z, SessionFields)
    PROVE  LET v == [w EXCEPT !.session = z] IN
           IsPeer(v) /\ v.session = z /\ v.loop = w.loop /\ v.recorder = w.recorder
BY DEF IsPeer, IsRecord

LEMMA NoteCallerEffect ==
    ASSUME NEW w, IsPeer(w), NEW g
    PROVE  LET v == NoteCaller(w, g) IN
           /\ IsPeer(v) /\ v.session = w.session /\ v.loop = w.loop
           /\ v.recorder.opponent = g /\ v.recorder.series = w.recorder.series
           /\ v.recorder.recorded = w.recorder.recorded /\ v.recorder.filed = w.recorder.filed
           /\ w.recorder.opponent = g => v = w
BY DEF NoteCaller, IsPeer, IsRecord, RecorderFields

LEMMA NoteCallerKeepsDoor ==
    ASSUME NEW w, Door(w), NEW g
    PROVE  Door(NoteCaller(w, g))
<1> DEFINE v == NoteCaller(w, g)
<1>1. IsPeer(v) /\ v.session = w.session /\ v.loop = w.loop
  BY NoteCallerEffect DEF Door
<1> HIDE DEF v
<1>2. Alike(v.session, w.session)
  BY <1>1 DEF Alike
<1>3. Door(v)
  BY <1>1, <1>2, DoorAlike
<1> QED BY <1>3 DEF v

\* A driver that begins.
LEMMA NewSubGameEffect ==
    ASSUME NEW g, NEW id, NEW n
    PROVE  LET d == NewSubGame(g, id, n) IN
           /\ IsRecord(d, DriverFields) /\ d.pos \in Cells /\ d.step = 0 /\ d.unheard = None
           /\ d.game.group = g /\ d.game.id = id
BY Values DEF NewSubGame, IsRecord, DriverFields

LEMMA NewCaller ==
    ASSUME NEW g, NEW id, NEW n, NEW s, g # None => s.opponent = g, id > 0 => g # None
    PROVE  Caller(NewSubGame(g, id, n), s)
<1> DEFINE d == NewSubGame(g, id, n)
<1>1. /\ IsRecord(d, DriverFields) /\ d.pos \in Cells /\ d.step = 0 /\ d.unheard = None
      /\ d.game.group = g /\ d.game.id = id
  BY NewSubGameEffect
<1> HIDE DEF d
<1>2. Caller(d, s)
  BY <1>1 DEF Caller
<1> QED BY <1>2 DEF d

LEMMA Initially == Init => Inv
<1> SUFFICES ASSUME Init PROVE Inv
  OBVIOUS
<1>1. role \in {Cop, Thief}
  BY DEF Init
<1>2. Door(peer)
  <2> DEFINE s == FreshSession(1, GameGroup)
             c == [opponent |-> None, series |-> 0, recorded |-> {}, filed |-> <<>>]
  <2>1. IsRecord(s, SessionFields) /\ Blank(s)
    BY Values DEF FreshSession, IsRecord, SessionFields, Blank
  <2>2. IsRecord(c, RecorderFields)
    BY DEF IsRecord, RecorderFields
  <2> HIDE DEF s, c
  <2>3. peer = [session |-> s, loop |-> None, recorder |-> c]
    BY DEF Init, s, c
  <2>4. IsPeer(peer)
    BY <2>1, <2>2, <2>3 DEF IsPeer, IsRecord
  <2> QED BY <2>1, <2>3, <2>4, BlankDoor
<1>3. Caller(driver, peer.session)
  <2>1. driver = NewSubGame(None, 0, 0)
    BY DEF Init
  <2> QED BY <2>1, NewCaller
<1> QED BY <1>1, <1>2, <1>3 DEF Inv

LEMMA HelloKeeps ==
    ASSUME Inv, NEW g \in Callers, Hello(g)
    PROVE  Door(peer') /\ Caller(driver', peer'.session)
<1> DEFINE noted == NoteCaller(peer, g)
           w == AtTheDoor(noted, g, 0)
<1>1. Door(noted) /\ noted.session = peer.session
  BY NoteCallerKeepsDoor, NoteCallerEffect DEF Inv, Door
<1> HIDE DEF noted
<1>2. /\ Door(w) /\ (w.session.opponent # g => w = noted)
      /\ g = noted.session.opponent => w = noted
  BY <1>1, AtTheDoorKeepsDoor
<1> HIDE DEF w
<1>3. /\ peer' = w
      /\ driver' = IF g # driver.game.group /\ w.session.opponent = g
                     THEN NewSubGame(g, 0, 0) ELSE driver
  BY DEF Hello, w, noted
<1>4. CASE g # driver.game.group /\ w.session.opponent = g
  BY <1>2, <1>3, <1>4, NewCaller
<1>5. CASE ~(g # driver.game.group /\ w.session.opponent = g)
  <2>1. driver' = driver
    BY <1>3, <1>5
  <2>2. CASE w = noted
    BY <1>1, <1>2, <1>3, <2>1, <2>2 DEF Inv, Caller
  <2>3. CASE w # noted
    <3>1. g = driver.game.group /\ driver.game.group = None /\ w.session.opponent = g
      BY <1>1, <1>2, <1>5, <2>3 DEF Inv, Caller
    <3>2. driver.step = 0
      BY <3>1 DEF Inv, Caller
    <3> QED BY <1>2, <1>3, <2>1, <3>1, <3>2 DEF Inv, Caller
  <2> QED BY <2>2, <2>3
<1> QED BY <1>4, <1>5

LEMMA BeginKeeps ==
    ASSUME Inv, Begin
    PROVE  Door(peer') /\ Caller(driver', peer'.session)
<1>1. PICK id, n : driver' = NewSubGame(driver.game.group, id, n)
  BY DEF Begin
<1>2. driver.game.group # None /\ peer' = peer
  BY DEF Begin
<1>3. peer.session.opponent = driver.game.group
  BY <1>2 DEF Inv, Caller
<1> DEFINE d == NewSubGame(driver.game.group, id, n)
<1>4. Caller(d, peer.session)
  BY <1>2, <1>3, NewCaller
<1> HIDE DEF d
<1>5. driver' = d
  BY <1>1 DEF d
<1> QED BY <1>2, <1>4, <1>5 DEF Inv

\* v is w, but for marks on the session that nothing here depends on, and an ending.
Remarks(v, w) ==
    /\ v.recorder = w.recorder /\ v.session.sub = w.session.sub
    /\ Alike(v.session, w.session)
    /\ w.loop # None => /\ v.loop # None
                        /\ w.loop.finished # None => v.loop.finished # None

\* The declared sub-game is started over at a door that is already its team's.
LEMMA DeclareKeeps ==
    ASSUME Inv, NEW clash \in BOOLEAN, Declare(clash)
    PROVE  LET noted == NoteCaller(peer, driver.game.group)
               u == Restart(noted, driver.game.number) IN
           /\ Door(peer') /\ Caller(driver', peer'.session)
           /\ Door(noted) /\ noted.session = peer.session /\ noted.loop = peer.loop
           /\ Remarks(peer', u) /\ peer'.loop = u.loop
           /\ peer'.session.caught = u.session.caught
           /\ driver.game.group # None /\ driver'.game = driver.game
<1> DEFINE g == driver.game.group
           n == driver.game.number
           noted == NoteCaller(peer, g)
           w == AtTheDoor(noted, g, n)
           u == Restart(w, n)
           z == NoteDeclaration(u.session, n)
           c == [z EXCEPT !.clash = clash]
           v == [u EXCEPT !.session = c]
<1>1. g # None /\ peer.session.opponent = g /\ driver.step = 0
  BY DEF Declare, Playing, Inv, Caller
<1>2. Door(noted) /\ noted.session = peer.session /\ noted.loop = peer.loop
  BY NoteCallerKeepsDoor, NoteCallerEffect DEF Inv, Door
<1> HIDE DEF noted
<1>3. w = noted
  BY <1>1, <1>2, AtTheDoorKeepsDoor
<1> HIDE DEF w
<1>4. Door(u) /\ u.session.opponent = g
  BY <1>1, <1>2, <1>3, RestartKeepsDoor, RestartEffect DEF Door, Alike
<1> HIDE DEF u
<1>5. IsRecord(z, SessionFields) /\ Alike(z, u.session) /\ z.sub = u.session.sub
  BY <1>4, NoteDeclarationEffect DEF Door, IsPeer
<1>16. z.caught = u.session.caught
  BY <1>4 DEF NoteDeclaration, Door, IsPeer, IsRecord, SessionFields
<1> HIDE DEF z
<1>6. IsRecord(c, SessionFields) /\ Alike(c, z) /\ c.sub = z.sub
  BY <1>5, SessionNoted
<1>17. c.caught = u.session.caught
  BY <1>5, <1>16 DEF IsRecord, SessionFields
<1> HIDE DEF c
<1>7. IsPeer(v) /\ v.session = c /\ v.loop = u.loop /\ v.recorder = u.recorder
  BY <1>4, <1>6, WithSession DEF Door
<1> HIDE DEF v
<1>8. Alike(v.session, u.session)
  BY <1>5, <1>6, <1>7 DEF Alike
<1>9. Door(v) /\ v.session.opponent = g
  BY <1>4, <1>7, <1>8, DoorAlike DEF Alike
<1>10. peer' = v
  BY <1>1, <1>2, <1>3 DEF Declare, v, c, z, u, w, noted
<1>11. /\ IsRecord(driver', DriverFields) /\ driver'.pos = driver.pos
       /\ driver'.step = driver.step /\ driver'.game = driver.game
       /\ driver'.unheard = driver.unheard
  BY DEF Declare, Inv, Caller, IsRecord, DriverFields
<1>12. Caller(driver', v.session)
  BY <1>1, <1>9, <1>11 DEF Inv, Caller, Declare
<1>13. Remarks(v, u)
  BY <1>5, <1>6, <1>7, <1>8 DEF Remarks
<1>14. u = Restart(noted, n)
  BY <1>3 DEF u
<1>15. /\ Door(peer') /\ Caller(driver', peer'.session)
       /\ Remarks(peer', Restart(noted, n)) /\ peer'.loop = Restart(noted, n).loop
       /\ peer'.session.caught = Restart(noted, n).session.caught
  BY <1>7, <1>9, <1>10, <1>12, <1>13, <1>14, <1>17
<1> QED BY <1>1, <1>2, <1>11, <1>15 DEF noted

LEMMA ConfirmResultKeeps ==
    ASSUME Inv, ConfirmResult
    PROVE  /\ Door(peer') /\ Caller(driver', peer'.session)
           /\ Remarks(peer', peer) /\ driver'.game = driver.game
<1> DEFINE w == WithLoop(peer)
<1>1. Door(w) /\ w.session = peer.session /\ w.loop # None
  BY WithLoopKeepsDoor DEF Inv
<1>0. w.recorder = peer.recorder /\ (peer.loop # None => w.loop = peer.loop)
  BY WithLoopEffect DEF Inv, Door
<1>2. PICK ending, cell :
        peer' = [w EXCEPT !.session.ended = RecordEnding(@, ending),
                          !.loop = Concede(@, ending, cell)]
  BY DEF ConfirmResult
<1> HIDE DEF w
<1> DEFINE x == RecordEnding(w.session.ended, ending)
           z == [w.session EXCEPT !.ended = x]
           l == Concede(w.loop, ending, cell)
           v == [w EXCEPT !.session = z, !.loop = l]
<1>3. IsPeer(w) /\ IsRecord(w.session, SessionFields) /\ w.loop \in Loops
  BY <1>1 DEF Door, IsPeer
<1>4. IsRecord(z, SessionFields) /\ Alike(z, w.session) /\ z.sub = w.session.sub
  BY <1>3, SessionNoted
<1>5. /\ l \in Loops /\ l.round = w.loop.round
      /\ w.loop.finished # None => l.finished # None
  BY <1>3, ConcedeEffect
<1>6. peer' = v
  BY <1>2, <1>3 DEF IsPeer, IsRecord
<1> HIDE DEF z, l, x
<1>7. IsPeer(v) /\ v.session = z /\ v.loop = l /\ v.recorder = w.recorder
  BY <1>3, <1>4, <1>5 DEF IsPeer, IsRecord
<1> HIDE DEF v
<1>8. v.loop # None
  BY <1>5, <1>7, Values
<1>9. Door(v)
  BY <1>1, <1>4, <1>5, <1>7, <1>8, DoorKept
<1>10. /\ IsRecord(driver', DriverFields) /\ driver'.pos = driver.pos
       /\ driver'.step = driver.step /\ driver'.game = driver.game
       /\ driver'.unheard = driver.unheard /\ driver'.handed = driver.handed
  BY DEF ConfirmResult, Inv, Caller, IsRecord, DriverFields
<1>11. role' = role /\ Caller(driver', peer.session)
  BY <1>10 DEF Inv, Caller, ConfirmResult
<1>12. Caller(driver', v.session)
  BY <1>1, <1>4, <1>7, <1>11 DEF Caller, Alike, Holds
<1>13. Remarks(v, peer)
  BY <1>0, <1>1, <1>4, <1>5, <1>7, <1>8 DEF Remarks
<1> QED BY <1>6, <1>9, <1>10, <1>12, <1>13

LEMMA FinalAuditKeeps ==
    ASSUME Inv, FinalAudit
    PROVE  Door(peer') /\ Caller(driver', peer'.session) /\ Remarks(peer', peer)
<1> DEFINE x == RecordEnding(peer.session.ended, driver.over)
           z == [peer.session EXCEPT !.ended = x]
           v == [peer EXCEPT !.session = z]
<1>1. IsPeer(peer) /\ IsRecord(peer.session, SessionFields)
  BY DEF Inv, Door, IsPeer
<1>2. IsRecord(z, SessionFields) /\ Alike(z, peer.session) /\ z.sub = peer.session.sub
  BY <1>1, SessionNoted
<1>3. peer' = v
  BY <1>1 DEF FinalAudit, IsPeer, IsRecord
<1> HIDE DEF z, x
<1>4. IsPeer(v) /\ v.session = z /\ v.loop = peer.loop /\ v.recorder = peer.recorder
  BY <1>1, <1>2, WithSession
<1> HIDE DEF v
<1>5. Door(v)
  BY <1>2, <1>4, DoorAlike DEF Inv
<1>6. Caller(driver, v.session)
  BY <1>2, <1>4 DEF Inv, Caller, Alike, Holds
<1>7. Remarks(v, peer)
  BY <1>2, <1>4 DEF Remarks
<1> QED BY <1>3, <1>5, <1>6, <1>7 DEF FinalAudit

LEMMA AgreeResultKeeps ==
    ASSUME Inv, AgreeResult
    PROVE  /\ Door(peer') /\ Caller(driver', peer'.session)
           /\ LET w == WithLoop(peer) IN
              \E read : /\ IsPeer(read) /\ Remarks(read, w) /\ read.loop = w.loop
                        /\ peer' = Settle(read, Outcome(w))
<1> DEFINE w == WithLoop(peer)
           boxed == w.loop.finished = None /\ BoxedIn(w.session)
           z == [w.session EXCEPT !.caught = @ \/ boxed]
           read == [w EXCEPT !.session = z]
           v == Settle(read, Outcome(w))
<1>1. Door(w) /\ w.session = peer.session
  BY WithLoopKeepsDoor DEF Inv
<1>2. peer' = Settle([w EXCEPT !.session.caught = @ \/ boxed], Outcome(w))
  BY DEF AgreeResult
<1> HIDE DEF w, boxed
<1>3. IsPeer(w) /\ IsRecord(w.session, SessionFields)
  BY <1>1 DEF Door, IsPeer
<1>4. IsRecord(z, SessionFields) /\ Alike(z, w.session) /\ z.sub = w.session.sub
  BY <1>3 DEF IsRecord, SessionFields, Alike
<1>5. peer' = v
  BY <1>2, <1>3 DEF IsPeer, IsRecord
<1> HIDE DEF z
<1>6. IsPeer(read) /\ read.session = z /\ read.loop = w.loop /\ read.recorder = w.recorder
  BY <1>3, <1>4, WithSession
<1> HIDE DEF read
<1>10. Remarks(read, w)
  BY <1>4, <1>6 DEF Remarks
<1>11. \E r : /\ IsPeer(r) /\ Remarks(r, w) /\ r.loop = w.loop
              /\ peer' = Settle(r, Outcome(w))
  BY <1>5, <1>6, <1>10
<1>7. IsPeer(v) /\ v.session = z /\ v.loop = w.loop
  BY <1>6, SettleEffect
<1> HIDE DEF v
<1>8. Door(v)
  BY <1>1, <1>4, <1>7, DoorAlike
<1>9. Caller(driver, v.session)
  BY <1>1, <1>4, <1>7 DEF Inv, Caller, Alike, Holds
<1> QED BY <1>5, <1>8, <1>9, <1>11 DEF AgreeResult, w

-----------------------------------------------------------------------------
(* The calls that carry a turn. *)

\* The driver as it sends turn t.
Sends(sent, t) ==
    /\ IsRecord(sent, DriverFields) /\ sent.pos \in Cells
    /\ sent.game = driver.game /\ sent.game = t.game /\ sent.step = t.step
    /\ sent.step > 0 /\ role = Cop => sent.handed

LEMMA HearsEffect ==
    ASSUME NEW d, IsRecord(d, DriverFields), NEW a
    PROVE  LET h == Hears(d, a) IN
           /\ IsRecord(h, DriverFields) /\ h.pos = d.pos /\ h.game = d.game
           /\ h.step = d.step /\ h.handed = d.handed /\ h.unheard = None
BY DEF Hears, IsRecord, DriverFields

LEMMA UnheardEffect ==
    ASSUME NEW d, IsRecord(d, DriverFields), NEW t
    PROVE  LET h == [d EXCEPT !.unheard = t] IN
           /\ IsRecord(h, DriverFields) /\ h.pos = d.pos /\ h.game = d.game
           /\ h.step = d.step /\ h.handed = d.handed /\ h.unheard = t
BY DEF IsRecord, DriverFields

LEMMA SubmitTurnKeeps ==
    ASSUME Inv, NEW t, NEW sent, SubmitTurn(t, sent), Fits(t, peer.session),
           Sends(sent, t), Playing(driver)
    PROVE  Door(peer') /\ Caller(driver', peer'.session) /\ driver'.game = driver.game
<1> DEFINE w == Arrived(peer, t)
<1>1. PICK r \in Answers(w, t) :
        /\ peer' = r.peer
        /\ driver' = Hears(sent, r.answer) \/ driver' = [sent EXCEPT !.unheard = t]
  BY DEF SubmitTurn
<1>2. /\ Door(w) /\ w.session.opponent = peer.session.opponent
      /\ t.nil => ~Holds(w.session)
      /\ ~t.nil => Own(w.session, t.game)
      /\ Fits(t, w.session)
  BY ArrivedEffect DEF Inv
<1> HIDE DEF w
<1>3. /\ Door(r.peer) /\ Stays(r.peer, w)
      /\ ~t.nil => Holds(r.peer.session) /\ r.peer.session.owner = t.game
  BY <1>2, AnswersEffect
<1>4. /\ IsRecord(driver', DriverFields) /\ driver'.pos \in Cells
      /\ driver'.game = driver.game /\ driver'.step = t.step /\ driver'.handed = sent.handed
      /\ driver'.unheard \in {None, t}
  <2>1. IsRecord(sent, DriverFields)
    BY DEF Sends
  <2> DEFINE h == Hears(sent, r.answer)
             m == [sent EXCEPT !.unheard = t]
  <2>2. /\ IsRecord(h, DriverFields) /\ h.pos = sent.pos /\ h.game = sent.game
        /\ h.step = sent.step /\ h.handed = sent.handed /\ h.unheard = None
    BY <2>1, HearsEffect
  <2>3. /\ IsRecord(m, DriverFields) /\ m.pos = sent.pos /\ m.game = sent.game
        /\ m.step = sent.step /\ m.handed = sent.handed /\ m.unheard = t
    BY <2>1, UnheardEffect
  <2>4. driver' = h \/ driver' = m
    BY <1>1
  <2> HIDE DEF h, m
  <2> QED BY <2>2, <2>3, <2>4 DEF Sends
<1>5. r.peer.session.opponent = peer.session.opponent
  BY <1>2, <1>3 DEF Stays
<1>6. /\ driver.game.id > 0 /\ driver.game.group # None /\ driver.game = t.game
      /\ r.peer.session.opponent = driver.game.group
  BY <1>5 DEF Inv, Caller, Playing, Sends
<1>7. driver'.step > 0 => /\ Holds(r.peer.session) /\ r.peer.session.owner = t.game
                          /\ role = Cop => driver'.handed
  BY <1>3, <1>4 DEF Fits, Sends
<1>8. Caller(driver', r.peer.session)
  BY <1>4, <1>6, <1>7 DEF Caller, Fits
<1> QED BY <1>1, <1>3, <1>4, <1>8

\* What a driver can send first: the cop cannot be where the thief starts after its first
\* turn, so that turn neither claims nor walls that cell, and it claims no survival.
ApartAtStart == ThiefStart \notin LegalMoves(CopStart, {})

Other == IF role = Cop THEN Thief ELSE Cop

Mild(t) == /\ role = Cop => t.claim = None
           /\ t.step <= 1 => /\ ~t.win
                             /\ role = Thief => t.claim # ThiefStart /\ t.barrier # ThiefStart

\* Until an answer to its opening is heard the driver is where it starts.
Opens(d) == /\ d.game # None
            /\ role = Thief => ~d.handed
            /\ d.step = 0 /\ d.unheard # None => d.handed
            /\ d.step = 0 /\ (d.handed => d.unheard # None)
               => d.walls = {} /\ d.pos = StartOf(Other)
            /\ d.unheard # None => Mild(d.unheard)

\* The driver as it sends turn t of the sub-game it plays.
Plays(t, sent) ==
    /\ driver.over = None /\ Mild(t) /\ driver.step <= t.step
    /\ role = Thief => ~sent.handed
    /\ t.step = 0 => /\ sent.handed /\ sent.over = None
                     /\ sent.walls = {} /\ sent.pos = StartOf(Other)

Fair == Opens(driver) /\ ApartAtStart /\ SurvivalThreshold > 1

\* What a driver has seen: only a thief may call the game by itself, once it survived.
Seeing(d) == /\ d.over \in Endings \cup {None}
             /\ d.confirmed => d.over # None
             /\ role = Cop /\ d.over = Survival => d.step >= SurvivalThreshold
             /\ role = Cop /\ d.unheard # None => d.unheard.claim = None

\* What it says of that in turn t.
Reports(t, sent) ==
    /\ driver.over = None /\ t.step <= driver.step + 1
    /\ role = Cop => t.claim = None
    /\ sent.over \in {None, Survival}
    /\ sent.over = Survival => role = Cop /\ t.step >= SurvivalThreshold
    /\ sent.confirmed = driver.confirmed

\* One of the calls that carry a turn.
ATurn == \E t, sent : /\ SubmitTurn(t, sent) /\ Fits(t, peer.session) /\ Sends(sent, t)
                      /\ Playing(driver)
                      /\ Fair => Plays(t, sent)
                      /\ Seeing(driver) => Reports(t, sent)

LEMMA HandoverIsATurn ==
    ASSUME Inv, Handover
    PROVE  ATurn
<1> DEFINE t == [game |-> driver.game, step |-> 0, nil |-> TRUE, barrier |-> None,
                 claim |-> None, win |-> FALSE]
           sent == [driver EXCEPT !.handed = TRUE]
<1>1. SubmitTurn(t, sent) /\ Playing(driver) /\ role = Cop /\ ~driver.handed
  BY DEF Handover, MayPlay
<1>2. driver.step = 0
  BY <1>1 DEF Inv, Caller
<1>3. Fits(t, peer.session)
  BY <1>1 DEF Fits
<1>4. Sends(sent, t)
  BY <1>1, <1>2 DEF Sends, Inv, Caller, IsRecord, DriverFields
<1>5. Fair => Plays(t, sent)
  <2>1. driver.over = None /\ IsRecord(driver, DriverFields) /\ role # Thief
    BY <1>1 DEF Handover, MayPlay, Inv, Caller, Cop, Thief
  <2>2. /\ sent.handed /\ sent.over = None /\ sent.walls = driver.walls /\ sent.pos = driver.pos
    BY <2>1 DEF IsRecord, DriverFields
  <2> HIDE DEF sent
  <2> QED BY <1>1, <1>2, <2>1, <2>2 DEF Fair, Opens, Plays, Mild
<1>6. Reports(t, sent)
  <2>1. driver.over = None /\ IsRecord(driver, DriverFields)
    BY DEF Handover, MayPlay, Inv, Caller
  <2>2. sent.over = driver.over /\ sent.confirmed = driver.confirmed
    BY <2>1 DEF IsRecord, DriverFields
  <2> HIDE DEF sent
  <2> QED BY <1>2, <2>1, <2>2, Values DEF Reports
<1> HIDE DEF t, sent
<1> QED BY <1>1, <1>3, <1>4, <1>5, <1>6 DEF ATurn

LEMMA ThiefTurnIsATurn ==
    ASSUME Inv, ThiefTurn
    PROVE  ATurn
<1> DEFINE step == driver.step + 1
           over == step >= SurvivalThreshold
           T(win) == [game |-> driver.game, step |-> step, nil |-> FALSE,
                      barrier |-> None, claim |-> None, win |-> win]
           S(c) == [driver EXCEPT !.step = step, !.pos = c,
                                  !.over = IF over THEN Survival ELSE None]
<1>1. PICK c \in LegalMoves(driver.pos, driver.walls), win \in BOOLEAN :
        SubmitTurn(T(win), S(c)) /\ (win => over)
  BY DEF ThiefTurn
<1>2. Playing(driver) /\ driver.handed
  BY DEF ThiefTurn, MayPlay
<1>3. /\ driver.step \in Nat /\ driver.pos \in Cells /\ IsRecord(driver, DriverFields)
      /\ driver.step > 0 => Holds(peer.session) /\ peer.session.owner = driver.game
  BY DEF Inv, Caller
<1>4. Fits(T(win), peer.session)
  BY <1>3 DEF Fits
<1>5. c \in Cells
  BY <1>3 DEF LegalMoves, Steps, Passable
<1>6. Sends(S(c), T(win))
  BY <1>2, <1>3, <1>5 DEF Sends, IsRecord, DriverFields
<1>7. Fair => Plays(T(win), S(c))
  <2>1. driver.over = None /\ role # Thief
    BY <1>1 DEF ThiefTurn, MayPlay, Cop, Thief
  <2>2. Fair => Mild(T(win))
    BY <1>1, <1>3, <2>1, ServedAssumption DEF Fair, Mild
  <2>3. T(win).step = driver.step + 1 /\ driver.step <= T(win).step /\ T(win).step # 0
    BY <1>3
  <2> HIDE DEF T, S
  <2> QED BY <2>1, <2>2, <2>3 DEF Plays
<1>8. Reports(T(win), S(c))
  <2>1. driver.over = None /\ role = Cop
    BY DEF ThiefTurn, MayPlay
  <2>2. S(c).over = (IF over THEN Survival ELSE None) /\ S(c).confirmed = driver.confirmed
    BY <1>3 DEF IsRecord, DriverFields
  <2>3. T(win).step = step /\ T(win).claim = None
    OBVIOUS
  <2> HIDE DEF S, T
  <2> QED BY <1>3, <2>1, <2>2, <2>3, Values DEF Reports
<1> HIDE DEF T, S
<1> QED BY <1>1, <1>2, <1>4, <1>6, <1>7, <1>8 DEF ATurn

LEMMA CopTurnIsATurn ==
    ASSUME Inv, CopTurn
    PROVE  ATurn
<1> DEFINE step == driver.step + 1
           T(barrier, claim) == [game |-> driver.game, step |-> step, nil |-> FALSE,
                                 barrier |-> barrier, claim |-> claim, win |-> FALSE]
           Moved(c) == [driver EXCEPT !.step = @ + 1, !.pos = c]
           Built(b) == [driver EXCEPT !.step = @ + 1, !.walls = @ \cup {b}]
<1>1. Playing(driver) /\ role = Thief
  BY DEF CopTurn, MayPlay
<1>2. /\ driver.step \in Nat /\ driver.pos \in Cells /\ IsRecord(driver, DriverFields)
      /\ driver.step > 0 => Holds(peer.session) /\ peer.session.owner = driver.game
  BY DEF Inv, Caller
<1>3. ASSUME NEW barrier \in Cells \cup {None}, NEW claim PROVE Fits(T(barrier, claim), peer.session)
  BY <1>2 DEF Fits
<1>4. /\ driver.over = None /\ role # Cop
      /\ Fair /\ driver.step = 0 => driver.pos = CopStart /\ driver.walls = {}
  BY <1>1 DEF CopTurn, MayPlay, Fair, Opens, Other, StartOf, Cop, Thief
<1>5. ASSUME NEW barrier, NEW claim, NEW sent, sent.handed = driver.handed,
             Fair /\ driver.step = 0 => claim # ThiefStart /\ barrier # ThiefStart
      PROVE  Fair => Plays(T(barrier, claim), sent)
  <2>1. Fair => Mild(T(barrier, claim))
    BY <1>2, <1>4, <1>5 DEF Mild
  <2>2. driver.step <= T(barrier, claim).step /\ T(barrier, claim).step # 0
    BY <1>2
  <2>3. Fair => ~sent.handed
    BY <1>1, <1>5 DEF Fair, Opens
  <2> HIDE DEF T
  <2> QED BY <1>4, <2>1, <2>2, <2>3 DEF Plays
<1>6. ThiefStart # None
  BY ServedAssumption
<1>10. ASSUME NEW barrier, NEW claim, NEW sent,
              sent.over = driver.over, sent.confirmed = driver.confirmed
       PROVE  Reports(T(barrier, claim), sent)
  BY <1>2, <1>4, <1>10, Values DEF Reports
<1>7. ASSUME NEW c \in LegalMoves(driver.pos, driver.walls), SubmitTurn(T(None, c), Moved(c))
      PROVE  ATurn
  <2>1. c \in Cells
    BY <1>2 DEF LegalMoves, Steps, Passable
  <2>2. Sends(Moved(c), T(None, c))
    BY <1>1, <1>2, <2>1 DEF Sends, IsRecord, DriverFields, Cop, Thief
  <2>3. Fits(T(None, c), peer.session)
    BY <1>3
  <2>4. Fair /\ driver.step = 0 => c # ThiefStart
    BY <1>4 DEF Fair, ApartAtStart
  <2>5. /\ Moved(c).handed = driver.handed /\ Moved(c).over = driver.over
        /\ Moved(c).confirmed = driver.confirmed
    BY <1>2 DEF IsRecord, DriverFields
  <2> HIDE DEF T, Moved
  <2>6. Fair => Plays(T(None, c), Moved(c))
    BY <1>5, <1>6, <2>4, <2>5
  <2>7. Reports(T(None, c), Moved(c))
    BY <1>10, <2>5
  <2> QED BY <1>1, <1>7, <2>2, <2>3, <2>6, <2>7 DEF ATurn
<1>8. ASSUME NEW b \in BarrierTargets(driver.pos, driver.walls) \ {driver.pos},
             NEW claim \in {None, b},
             SubmitTurn(T(b, claim), Built(b))
      PROVE  ATurn
  <2>1. b \in Cells
    BY DEF BarrierTargets, Passable
  <2>2. Sends(Built(b), T(b, claim))
    BY <1>1, <1>2 DEF Sends, IsRecord, DriverFields, Cop, Thief
  <2>3. Fits(T(b, claim), peer.session)
    BY <1>3, <2>1
  <2>4. Fair /\ driver.step = 0 => b # ThiefStart
    BY <1>4 DEF Fair, ApartAtStart, BarrierTargets, LegalMoves, Steps
  <2>5. /\ Built(b).handed = driver.handed /\ Built(b).over = driver.over
        /\ Built(b).confirmed = driver.confirmed
    BY <1>2 DEF IsRecord, DriverFields
  <2> HIDE DEF T, Built
  <2>6. Fair => Plays(T(b, claim), Built(b))
    BY <1>5, <1>6, <2>4, <2>5
  <2>7. Reports(T(b, claim), Built(b))
    BY <1>10, <2>5
  <2> QED BY <1>1, <1>8, <2>2, <2>3, <2>6, <2>7 DEF ATurn
<1>9. \/ \E c \in LegalMoves(driver.pos, driver.walls) : SubmitTurn(T(None, c), Moved(c))
      \/ \E b \in BarrierTargets(driver.pos, driver.walls) \ {driver.pos} :
           \E claim \in {None, b} : SubmitTurn(T(b, claim), Built(b))
  BY DEF CopTurn
<1> HIDE DEF T, Moved, Built
<1> QED BY <1>7, <1>8, <1>9

LEMMA SendAgainIsATurn ==
    ASSUME Inv, SendAgain
    PROVE  ATurn
<1> DEFINE t == driver.unheard
<1>1. SubmitTurn(t, driver) /\ Playing(driver) /\ t # None
  BY DEF SendAgain, MayPlay
<1>2. /\ t.game = driver.game /\ t.step = driver.step
      /\ t.nil <=> t.step = 0
      /\ t.nil => role = Cop
      /\ t.barrier \in Cells \cup {None}
      /\ driver.step \in Nat
  BY <1>1 DEF Inv, Caller
<1>3. Fits(t, peer.session)
  BY <1>2 DEF Inv, Caller, Fits
<1>4. Sends(driver, t)
  BY <1>2 DEF Inv, Caller, Sends
<1>5. Fair => Plays(t, driver)
  BY <1>1, <1>2 DEF Fair, Opens, Plays, SendAgain, MayPlay
<1>6. Seeing(driver) => Reports(t, driver)
  BY <1>1, <1>2, Values DEF Seeing, Reports, SendAgain, MayPlay
<1> QED BY <1>1, <1>3, <1>4, <1>5, <1>6 DEF ATurn

-----------------------------------------------------------------------------
(* The specification. *)

LEMMA EveryStepKeepsInv == Inv /\ [Next]_vars => Inv'
<1> SUFFICES ASSUME Inv, [Next]_vars PROVE Inv'
  OBVIOUS
<1>1. CASE UNCHANGED vars
  BY <1>1 DEF vars, Inv, Caller
<1>2. CASE Next
  <2>1. role' = role
    BY <1>2 DEF Next, Hello, Begin, Declare, Handover, ThiefTurn, CopTurn, SendAgain,
                ConfirmResult, FinalAudit, AgreeResult
  <2>2. ATurn => Door(peer') /\ Caller(driver', peer'.session)
    BY SubmitTurnKeeps DEF ATurn
  <2>3. Door(peer') /\ Caller(driver', peer'.session)
    BY <1>2, <2>2, HelloKeeps, BeginKeeps, DeclareKeeps, HandoverIsATurn, ThiefTurnIsATurn,
       CopTurnIsATurn, SendAgainIsATurn, ConfirmResultKeeps, FinalAuditKeeps, AgreeResultKeeps
       DEF Next
  <2> QED BY <2>1, <2>3 DEF Inv, Caller
<1> QED BY <1>1, <1>2

\* The invariant of the door and its caller (mcp/interop.py, runtime/turn_loop.py).
THEOREM Invariance == Spec => []Inv
<1>1. Init => Inv
  BY Initially
<1>2. Inv /\ [Next]_vars => Inv'
  BY EveryStepKeepsInv
<1> QED BY <1>1, <1>2, PTL DEF Spec

\* Whatever steps arrive, lost answers and repeats included, no two of our records
\* share a step and none goes back (TurnLoop._reply_step).
THEOREM StepsNeverGoBack == Spec => []StepsAreMonotone
<1>1. Inv => StepsAreMonotone
  BY DEF Inv, Door, Chained, Ascending, StepsAreMonotone, session
<1> QED BY <1>1, Invariance, PTL

\* Whichever teams call, and whatever they give up or send again, every commitment of
\* a session is of one sub-game (_opener_is_a_retry, pairing_guard.at_the_door).
THEOREM OneGamePerSession == Spec => []SessionHoldsOneGame
<1>1. Inv => SessionHoldsOneGame
  BY DEF Inv, Door, OfOneGame, SessionHoldsOneGame, session
<1> QED BY <1>1, Invariance, PTL

-----------------------------------------------------------------------------
(* What is filed. *)

LEMMA Filing ==
    ASSUME NEW q, Listed(q), NEW x
    PROVE  LET p == Append(q, x) IN
           /\ Listed(p)
           /\ \A i \in DOMAIN q : i \in DOMAIN p /\ p[i] = q[i]
           /\ \E i \in DOMAIN p : p[i] = x
<1> DEFINE S == {q[i] : i \in DOMAIN q}
           p == Append(q, x)
<1>1. q \in Seq(S \cup {x}) /\ Len(q) \in Nat /\ DOMAIN q = 1 .. Len(q)
  BY DEF Listed
<1> HIDE DEF S
<1>2. /\ p \in Seq(S \cup {x}) /\ Len(p) = Len(q) + 1 /\ DOMAIN p = 1 .. Len(q) + 1
      /\ \A i \in 1 .. Len(q) : p[i] = q[i]
      /\ p[Len(q) + 1] = x
  BY <1>1
<1> HIDE DEF p
<1>3. p \in Seq({p[i] : i \in DOMAIN p})
  BY <1>1, <1>2
<1> QED BY <1>1, <1>2, <1>3 DEF p, Listed

\* Nothing that Filed tells of the session was undone, and nothing was filed.
LEMMA FiledKept ==
    ASSUME NEW w, Filed(w), NEW v, v.recorder = w.recorder,
           v.session.sub = w.session.sub, v.session.owner = w.session.owner,
           Holds(w.session) => Holds(v.session),
           w.loop # None => /\ v.loop # None
                            /\ w.loop.finished # None => v.loop.finished # None
    PROVE  Filed(v)
BY DEF Filed, Key

\* Settled: its key and its artifact go together.
LEMMA SettleFiles ==
    ASSUME NEW w, IsPeer(w), Filed(w), NEW ending,
           ending # None => w.loop # None /\ (Holds(w.session) \/ w.loop.finished # None)
    PROVE  LET v == Settle(w, ending) IN
           /\ Filed(v)
           /\ ending # None => OnFile(v.recorder, w.session.owner)
<1> DEFINE v == Settle(w, ending)
           q == w.recorder.filed
           row == Row(w, ending)
<1>1. /\ IsPeer(v) /\ v.session = w.session /\ v.loop = w.loop
      /\ v.recorder.opponent = w.recorder.opponent /\ v.recorder.series = w.recorder.series
      /\ v.recorder = w.recorder
         \/ /\ ending # None
            /\ v.recorder.recorded = w.recorder.recorded \cup {Key(w)}
            /\ v.recorder.filed = Append(q, row)
      /\ ending # None => Key(w) \in v.recorder.recorded
  BY SettleEffect
<1>2. row.owner = w.session.owner
  BY DEF Row
<1> HIDE DEF v, row
<1>3. CASE v.recorder = w.recorder
  <2>1. Filed(v)
    BY <1>1, <1>3, FiledKept
  <2>2. Key(v) = Key(w)
    BY <1>1 DEF Key
  <2> QED BY <1>1, <1>3, <2>1, <2>2 DEF v, Filed
<1>4. CASE v.recorder # w.recorder
  <2> DEFINE p == Append(q, row)
  <2>1. Listed(p) /\ \E i \in DOMAIN p : p[i] = row
    <3>1. Listed(q)
      BY DEF Filed, Kept
    <3>2. ASSUME NEW x PROVE LET a == Append(q, x) IN Listed(a) /\ \E i \in DOMAIN a : a[i] = x
      BY <3>1, Filing
    <3> QED BY <3>2
  <2> HIDE DEF p
  <2>2. /\ ending # None /\ v.recorder.filed = p
        /\ v.recorder.recorded = w.recorder.recorded \cup {Key(w)}
    BY <1>1, <1>4 DEF p
  <2>3. OnFile(v.recorder, w.session.owner)
    BY <1>2, <2>1, <2>2 DEF OnFile
  <2>4. Key(w)[2] = w.recorder.series
    BY DEF Key
  <2>5. Kept(v.recorder)
    BY <1>1, <2>1, <2>2, <2>4 DEF Filed, Kept
  <2>6. Filed(v)
    BY <1>1, <2>2, <2>3, <2>5 DEF Filed
  <2> QED BY <2>3, <2>6 DEF v
<1> QED BY <1>3, <1>4

\* A number that is filed already opens a series in which it is not.
LEMMA OpenedFiles ==
    ASSUME NEW w, IsPeer(w), Kept(w.recorder), NEW n, w.session.sub = n
    PROVE  LET v == Opened(w, n) IN Filed(v) /\ v.recorder.filed = w.recorder.filed
<1> DEFINE v == Opened(w, n)
           k == <<w.recorder.opponent, w.recorder.series, n>>
<1>1. /\ v.session = w.session /\ v.recorder.opponent = w.recorder.opponent
      /\ v.recorder.recorded = w.recorder.recorded /\ v.recorder.filed = w.recorder.filed
      /\ v.recorder.series = IF k \in w.recorder.recorded
                               THEN w.recorder.series + 1 ELSE w.recorder.series
  BY OpenedEffect
<1> HIDE DEF v
<1>2. Key(v) = <<w.recorder.opponent, v.recorder.series, n>>
  BY <1>1 DEF Key
<1>3. Key(v)[2] = v.recorder.series
  BY <1>2
<1>4. Key(v) \notin w.recorder.recorded
  <2>1. CASE k \in w.recorder.recorded
    BY <1>1, <1>3, <2>1 DEF Kept
  <2>2. CASE k \notin w.recorder.recorded
    BY <1>1, <1>2, <2>2
  <2> QED BY <2>1, <2>2
<1>5. Kept(v.recorder)
  BY <1>1 DEF Kept
<1>6. Filed(v)
  BY <1>1, <1>4, <1>5 DEF Filed
<1> QED BY <1>1, <1>6 DEF v

\* The sub-game left behind is on file if its ending was seen.
LEMMA RestartFiles ==
    ASSUME NEW w, Door(w), Filed(w), NEW n
    PROVE  LET v == Restart(w, n) IN
           /\ Filed(v) /\ v.recorder.opponent = w.recorder.opponent
           /\ Played(w) /\ w.loop.finished # None => OnFile(v.recorder, w.session.owner)
<1> DEFINE noted   == [w EXCEPT !.session = NoteDeclaration(@, n)]
           opening == OpeningNumber(noted.session, n, Played(w))
           fresh   == NoteDeclaration(FreshSession(opening, w.session.opponent), n)
           settled == Settle(noted, w.loop.finished)
           next    == [settled EXCEPT !.session = fresh, !.loop = None]
           moved   == [noted EXCEPT !.session.sub = opening]
<1>1. /\ IsPeer(noted) /\ noted.loop = w.loop /\ noted.recorder = w.recorder
      /\ Alike(noted.session, w.session) /\ noted.session.sub = w.session.sub
  BY NotedEffect DEF Door
<1>2. Restart(w, n) = IF Played(w) THEN Opened(next, opening) ELSE AdoptOrStay(noted, opening)
  BY DEF Restart
<1>3. IsRecord(fresh, SessionFields) /\ fresh.sub = opening
  BY FreshSessionEffect
<1>4. AdoptOrStay(noted, opening) \in {noted, Opened(moved, opening)}
  BY DEF AdoptOrStay
<1> HIDE DEF noted, opening, fresh
<1>5. Filed(noted) /\ noted.session.owner = w.session.owner
  <2>1. noted.session.owner = w.session.owner /\ (Holds(w.session) => Holds(noted.session))
    BY <1>1 DEF Alike, Holds
  <2> QED BY <1>1, <2>1, FiledKept
<1>6. CASE Played(w)
  <2>1. /\ IsPeer(settled) /\ settled.recorder.opponent = w.recorder.opponent /\ Filed(settled)
        /\ w.loop.finished # None => OnFile(settled.recorder, w.session.owner)
    BY <1>1, <1>5, <1>6, SettleEffect, SettleFiles DEF Played
  <2> HIDE DEF settled
  <2>2. /\ IsPeer(next) /\ next.session = fresh /\ next.recorder = settled.recorder
    BY <1>3, <2>1 DEF IsPeer, IsRecord
  <2> HIDE DEF next
  <2> DEFINE v == Opened(next, opening)
  <2>3. Kept(next.recorder) /\ next.session.sub = opening
    BY <1>3, <2>1, <2>2 DEF Filed
  <2>4. Filed(v) /\ v.recorder.filed = next.recorder.filed
    BY <2>2, <2>3, OpenedFiles
  <2>5. v.recorder.opponent = next.recorder.opponent
    BY <2>2, OpenedEffect
  <2> HIDE DEF v
  <2>6. Restart(w, n) = v
    BY <1>2, <1>6 DEF v
  <2>7. w.loop.finished # None => OnFile(v.recorder, w.session.owner)
    BY <2>1, <2>2, <2>4 DEF OnFile
  <2> QED BY <2>1, <2>2, <2>4, <2>5, <2>6, <2>7
<1>7. CASE ~Played(w)
  <2>1. /\ IsPeer(moved) /\ moved.session.sub = opening /\ moved.recorder = noted.recorder
    BY <1>1 DEF IsPeer, IsRecord, SessionFields
  <2> HIDE DEF moved
  <2> DEFINE v == Opened(moved, opening)
  <2>2. Filed(v)
    BY <1>5, <2>1, OpenedFiles DEF Filed
  <2>3. v.recorder.opponent = moved.recorder.opponent
    BY <2>1, OpenedEffect
  <2> HIDE DEF v
  <2>4. Restart(w, n) = noted \/ Restart(w, n) = v
    BY <1>2, <1>4, <1>7 DEF v
  <2> QED BY <1>1, <1>5, <1>7, <2>1, <2>2, <2>3, <2>4
<1> QED BY <1>6, <1>7

LEMMA RestartUntouched ==
    ASSUME NEW w, Door(w), Untouched(w.session), NEW n
    PROVE  LET v == Restart(w, n) IN
           /\ Untouched(v.session)
           /\ Holds(v.session) => Holds(w.session) /\ v.session.owner = w.session.owner
<1> DEFINE v == Restart(w, n)
<1>1. /\ Played(w) => Blank(v.session)
      /\ ~Played(w) => Alike(v.session, w.session)
  BY RestartEffect DEF Door
<1> HIDE DEF v
<1>2. Blank(v.session) => Untouched(v.session) /\ ~Holds(v.session)
  BY DEF Blank, Untouched, Holds
<1>3. Alike(v.session, w.session) => /\ Untouched(v.session)
                                     /\ Holds(v.session) => Holds(w.session)
                                     /\ v.session.owner = w.session.owner
  BY DEF Alike, Untouched, Holds
<1> QED BY <1>1, <1>2, <1>3 DEF v

LEMMA WithLoopFiles ==
    ASSUME NEW w, IsPeer(w), Filed(w)
    PROVE  Filed(WithLoop(w))
<1> DEFINE v == WithLoop(w)
<1>1. /\ IsPeer(v) /\ v.session = w.session /\ v.recorder = w.recorder /\ v.loop \in Loops
      /\ v.loop = IF w.loop = None THEN NewLoop ELSE w.loop
  BY WithLoopEffect
<1> HIDE DEF v
<1>2. v.loop # None
  BY <1>1, Values
<1>3. Filed(v)
  BY <1>1, <1>2, FiledKept
<1> QED BY <1>3 DEF v

\* A door that one team calls does not change hands while anything is held or filed.
LEMMA AtTheDoorFiles ==
    ASSUME NEW w, Door(w), Filed(w), Untouched(w.session), NEW g, NEW n
    PROVE  LET v == AtTheDoor(w, g, n) IN
           /\ Filed(v) /\ v.recorder.opponent = w.recorder.opponent
           /\ Untouched(v.session)
           /\ Holds(v.session) => Holds(w.session) /\ v.session.owner = w.session.owner
           /\ w.loop # None /\ w.loop.finished # None /\ v.loop = None
              => OnFile(v.recorder, w.session.owner)
<1> DEFINE retires == g # w.session.opponent /\ w.loop # None /\ w.loop.finished # None
           retired == IF retires THEN Restart(w, n) ELSE w
           z == Adopt(retired.session, g)
           v == [retired EXCEPT !.session = z]
<1>1. AtTheDoor(w, g, n) = v
  BY DEF AtTheDoor
<1>2. /\ Door(retired) /\ Filed(retired) /\ Untouched(retired.session)
      /\ retired.recorder.opponent = w.recorder.opponent
      /\ Holds(retired.session) => Holds(w.session) /\ retired.session.owner = w.session.owner
      /\ retires => OnFile(retired.recorder, w.session.owner)
      /\ ~retires => retired = w
  BY RestartKeepsDoor, RestartFiles, RestartUntouched DEF Played
<1> HIDE DEF retired
<1>3. IsPeer(retired) /\ IsRecord(retired.session, SessionFields)
  BY <1>2 DEF Door, IsPeer
<1>4. /\ IsRecord(z, SessionFields) /\ z.held = retired.session.held
      /\ z.owner = retired.session.owner /\ z.walls = retired.session.walls
      /\ z.records = retired.session.records
  BY <1>3, AdoptEffect
<1>5. z.sub = retired.session.sub
  BY <1>3 DEF Adopt, IsRecord, SessionFields
<1> HIDE DEF z
<1>6. /\ IsPeer(v) /\ v.session = z /\ v.loop = retired.loop /\ v.recorder = retired.recorder
  BY <1>3, <1>4, WithSession
<1> HIDE DEF v
<1>7. Holds(v.session) <=> Holds(retired.session)
  BY <1>4, <1>6 DEF Holds
<1>8. Filed(v)
  BY <1>2, <1>4, <1>5, <1>6, <1>7, FiledKept
<1>9. Untouched(v.session)
  BY <1>2, <1>4, <1>6, <1>7 DEF Untouched
<1>10. w.loop # None /\ w.loop.finished # None /\ v.loop = None
       => OnFile(v.recorder, w.session.owner)
  BY <1>2, <1>6
<1> QED BY <1>1, <1>2, <1>4, <1>6, <1>7, <1>8, <1>9, <1>10

LEMMA ArrivedFiles ==
    ASSUME NEW w, Door(w), Filed(w), Untouched(w.session), NEW t, Fits(t, w.session)
    PROVE  LET v == Arrived(w, t) IN
           /\ Filed(v) /\ Untouched(v.session) /\ v.recorder.opponent = w.recorder.opponent
           /\ Holds(v.session) => Holds(w.session) /\ v.session.owner = w.session.owner
           /\ t.step <= 1 => v.loop = None \/ v.loop.finished = None
<1> DEFINE v == Arrived(w, t)
           restarts == t.step <= 1 /\ (w.loop = None \/ OpenerIsNew(w, t))
           u == Restart(w, 0)
<1>1. v = IF restarts THEN u ELSE w
  BY DEF Arrived
<1>2. /\ Filed(u) /\ Untouched(u.session) /\ u.recorder.opponent = w.recorder.opponent
      /\ Holds(u.session) => Holds(w.session) /\ u.session.owner = w.session.owner
  BY RestartFiles, RestartUntouched
<1>3. u.loop = None \/ (~Played(w) /\ u.loop = w.loop)
  BY RestartEffect DEF Door
<1> HIDE DEF v, u
<1>4. u.loop = None \/ u.loop.finished = None
  BY <1>3 DEF Played
<1>5. ~restarts /\ t.step <= 1 => w.loop.finished = None
  BY DEF OpenerIsNew
<1> HIDE DEF restarts
<1>6. CASE restarts
  BY <1>1, <1>2, <1>4, <1>6 DEF v
<1>7. CASE ~restarts
  BY <1>1, <1>5, <1>7 DEF v
<1> QED BY <1>6, <1>7

\* What is on file when a turn is answered is of its sub-game.
LEMMA FiledIsOurs ==
    ASSUME Inv, Files, NEW t, Fits(t, peer.session), t.game = driver.game
    PROVE  LET w == Arrived(peer, t) IN
           Key(w) \in w.recorder.recorded => ~t.nil /\ w.session.owner = t.game
<1> DEFINE w == Arrived(peer, t)
<1>1. /\ Door(w) /\ Fits(t, w.session)
      /\ t.nil => ~Holds(w.session)
      /\ ~t.nil => Own(w.session, t.game)
  BY ArrivedEffect DEF Inv
<1>2. /\ Filed(w) /\ Untouched(w.session) /\ w.recorder.opponent = peer.recorder.opponent
      /\ Holds(w.session) => Holds(peer.session) /\ w.session.owner = peer.session.owner
      /\ t.step <= 1 => w.loop = None \/ w.loop.finished = None
  BY ArrivedFiles DEF Inv, Files
<1> HIDE DEF w
<1> SUFFICES ASSUME Key(w) \in w.recorder.recorded
             PROVE  ~t.nil /\ w.session.owner = t.game
  BY DEF w
<1>3. w.loop # None /\ (Holds(w.session) \/ w.loop.finished # None)
  BY <1>2 DEF Filed
<1>4. CASE t.step > 1
  BY <1>1, <1>4 DEF Fits
<1>5. CASE t.step <= 1
  <2>1. Holds(w.session) /\ ~t.nil
    BY <1>1, <1>2, <1>3, <1>5
  <2>2. w.session.owner.id = t.game.id
    BY <1>1, <2>1 DEF Own, Door, OfOneGame
  <2>3. peer.session.owner.id = driver.game.id => peer.session.owner = driver.game
    BY <1>2, <2>1 DEF Files, Numbered
  <2> QED BY <1>2, <2>1, <2>2, <2>3
<1> QED BY <1>1, <1>4, <1>5 DEF Fits

LEMMA SubmitTurnFiles ==
    ASSUME Inv, Files, NEW t, NEW sent, SubmitTurn(t, sent), Fits(t, peer.session),
           Sends(sent, t), Playing(driver)
    PROVE  /\ Filed(peer') /\ Untouched(peer'.session)
           /\ peer'.recorder.opponent = peer.recorder.opponent /\ peer'.loop # None
           /\ Holds(peer'.session) => peer'.session.owner = driver.game
<1> DEFINE w == Arrived(peer, t)
<1>1. PICK r \in Answers(w, t) : peer' = r.peer
  BY DEF SubmitTurn
<1>2. /\ Door(w) /\ Fits(t, w.session)
      /\ t.nil => ~Holds(w.session)
      /\ ~t.nil => Own(w.session, t.game)
  BY ArrivedEffect DEF Inv
<1>3. /\ Filed(w) /\ Untouched(w.session) /\ w.recorder.opponent = peer.recorder.opponent
      /\ Holds(w.session) => Holds(peer.session) /\ w.session.owner = peer.session.owner
      /\ t.step <= 1 => w.loop = None \/ w.loop.finished = None
  BY ArrivedFiles DEF Inv, Files
<1> HIDE DEF w
<1>4. /\ Door(r.peer) /\ Stays(r.peer, w) /\ r.peer.loop # None
      /\ ~t.nil => Holds(r.peer.session) /\ r.peer.session.owner = t.game
      /\ t.nil => ~Holds(r.peer.session)
      /\ t.nil => \/ Len(r.peer.session.records) <= 1
                  \/ r.peer.session.records = w.session.records
  BY <1>2, AnswersEffect
<1>5. t.game = driver.game
  BY DEF Sends
<1>6. Key(w) \in w.recorder.recorded => ~t.nil /\ w.session.owner = t.game
  BY <1>5, FiledIsOurs DEF w
<1>7. /\ r.peer.recorder = w.recorder /\ Key(r.peer) = Key(w)
  BY <1>4 DEF Stays, Key
<1>8. Filed(r.peer)
  <2>1. CASE Key(w) \notin w.recorder.recorded
    BY <1>3, <1>7, <2>1 DEF Filed
  <2>2. CASE Key(w) \in w.recorder.recorded
    <3>1. Holds(r.peer.session) /\ r.peer.session.owner = w.session.owner
      BY <1>4, <1>6, <2>2
    <3> QED BY <1>3, <1>4, <1>7, <2>2, <3>1 DEF Filed
  <2> QED BY <2>1, <2>2
<1>9. Untouched(r.peer.session)
  <2>1. CASE ~t.nil
    BY <1>4, <2>1 DEF Untouched
  <2>2. CASE t.nil
    <3>1. role # Thief /\ Len(r.peer.session.records) <= 1
      BY <1>2, <1>3, <1>4, <2>2 DEF Untouched, Fits, Cop, Thief
    <3> QED BY <3>1 DEF Untouched
  <2> QED BY <2>1, <2>2
<1>10. Holds(r.peer.session) => r.peer.session.owner = driver.game
  BY <1>4, <1>5
<1> QED BY <1>1, <1>3, <1>4, <1>7, <1>8, <1>9, <1>10

LEMMA RemarksFile ==
    ASSUME NEW w, Filed(w), Untouched(w.session), NEW v, Remarks(v, w)
    PROVE  /\ Filed(v) /\ Untouched(v.session)
           /\ Holds(v.session) => Holds(w.session) /\ v.session.owner = w.session.owner
<1>1. /\ v.recorder = w.recorder /\ v.session.sub = w.session.sub
      /\ v.session.owner = w.session.owner /\ (Holds(v.session) <=> Holds(w.session))
      /\ w.loop # None => /\ v.loop # None
                          /\ w.loop.finished # None => v.loop.finished # None
      /\ v.session.walls = w.session.walls /\ v.session.records = w.session.records
  BY DEF Remarks, Alike, Holds
<1>2. Filed(v)
  BY <1>1, FiledKept
<1> QED BY <1>1, <1>2 DEF Untouched

\* Two cells a side: without walls there is a step from every cell.
LEMMA OpenBoard ==
    ASSUME NEW c \in Cells
    PROVE  HasEscape(c, {})
<1>1. /\ c[1] \in 0 .. GridSize - 1 /\ c[2] \in 0 .. GridSize - 1
      /\ GridSize \in Nat /\ GridSize > 1
  BY BoardAssumption DEF Cells
<1> DEFINE x == IF c[1] = 0 THEN 1 ELSE c[1] - 1
           d == <<x, c[2]>>
<1>2. x \in 0 .. GridSize - 1 /\ Distance(c[1], x) = 1 /\ Distance(c[2], c[2]) = 0
  BY <1>1 DEF Distance
<1> HIDE DEF x
<1>3. d \in Cells /\ Adjacent(c, d)
  BY <1>1, <1>2 DEF Cells, Adjacent
<1> QED BY <1>3 DEF HasEscape, Steps, Passable

\* No ending is read off a board on which nothing of theirs was played, but one that
\* was announced.
LEMMA NothingPlayed ==
    ASSUME SurvivalThreshold > 1, NEW w, Door(w), Untouched(w.session), Outcome(w) # None
    PROVE  Holds(w.session) \/ w.loop.finished # None
<1> SUFFICES ASSUME ~Holds(w.session), w.loop.finished = None PROVE FALSE
  OBVIOUS
<1>1. w.session.records \in Seq(Nat) /\ Len(w.session.records) <= 1
  BY DEF Door, Chained, Untouched
<1>2. ~SurvivalReached(w.session)
  BY <1>1, ServedAssumption DEF SurvivalReached
<1>3. ~BoxedIn(w.session)
  BY OpenBoard DEF BoxedIn, Untouched, Door, OnTheBoard
<1> QED BY <1>2, <1>3 DEF Outcome

\* What a call leaves of the files: the session is of the sub-game it was of, or of the
\* one being played.
OfTheGame == Holds(peer'.session) =>
    \/ Holds(peer.session) /\ peer'.session.owner = peer.session.owner
    \/ Playing(driver) /\ peer'.session.owner = driver.game

\* The session that was over is on file.
EndingKept ==
    loop # None /\ loop.finished # None /\ loop' = None => OnFile(recorder', session.owner)

LEMMA HelloFiles ==
    ASSUME OneCaller, Inv, Files, NEW g \in Callers, Hello(g)
    PROVE  /\ Filed(peer') /\ Untouched(peer'.session) /\ OfTheGame /\ EndingKept
           /\ peer'.recorder.opponent = g
           /\ \/ driver' = driver
              \/ driver'.game.id = 0 /\ driver'.game.group = g
<1> DEFINE noted == NoteCaller(peer, g)
           w == AtTheDoor(noted, g, 0)
<1>1. /\ Door(noted) /\ noted.session = peer.session /\ noted.loop = peer.loop
      /\ noted.recorder.opponent = g
  BY NoteCallerKeepsDoor, NoteCallerEffect DEF Inv, Door
<1>2. Filed(noted)
  <2>1. CASE peer.recorder.recorded = {}
    <3>1. /\ noted.recorder.series = peer.recorder.series
          /\ noted.recorder.recorded = {} /\ noted.recorder.filed = peer.recorder.filed
      BY <2>1, NoteCallerEffect DEF Inv, Door
    <3> HIDE DEF noted
    <3> QED BY <3>1 DEF Filed, Kept, Files
  <2>2. CASE peer.recorder.recorded # {}
    <3>1. noted = peer
      BY <2>2, NoteCallerEffect DEF Files, Known, Inv, Door
    <3> QED BY <3>1 DEF Files
  <2> QED BY <2>1, <2>2
<1> HIDE DEF noted
<1>3. /\ Filed(w) /\ w.recorder.opponent = noted.recorder.opponent
      /\ Untouched(w.session)
      /\ Holds(w.session) => Holds(noted.session) /\ w.session.owner = noted.session.owner
      /\ noted.loop # None /\ noted.loop.finished # None /\ w.loop = None
         => OnFile(w.recorder, noted.session.owner)
  BY <1>1, <1>2, AtTheDoorFiles DEF Files
<1>4. peer' = w
  BY DEF Hello, w, noted
<1> HIDE DEF w
<1>5. driver' = driver \/ driver' = NewSubGame(g, 0, 0)
  BY DEF Hello
<1>6. driver' = driver \/ (driver'.game.id = 0 /\ driver'.game.group = g)
  BY <1>5, NewSubGameEffect
<1> QED BY <1>1, <1>3, <1>4, <1>6 DEF OfTheGame, EndingKept, loop, recorder, session

LEMMA DeclareFiles ==
    ASSUME OneCaller, Inv, Files, NEW clash \in BOOLEAN, Declare(clash)
    PROVE  /\ Filed(peer') /\ Untouched(peer'.session) /\ OfTheGame /\ EndingKept
           /\ peer'.recorder.opponent = peer.recorder.opponent /\ driver'.game = driver.game
<1> DEFINE g == driver.game.group
           noted == NoteCaller(peer, g)
           u == Restart(noted, driver.game.number)
<1>1. /\ Remarks(peer', u) /\ peer'.loop = u.loop /\ g # None /\ driver'.game = driver.game
  BY DeclareKeeps
<1>2. noted = peer
  BY <1>1, NoteCallerEffect DEF Files, Known, Inv, Door
<1>3. /\ Filed(u) /\ u.recorder.opponent = peer.recorder.opponent
      /\ Played(peer) /\ peer.loop.finished # None => OnFile(u.recorder, peer.session.owner)
      /\ Untouched(u.session)
      /\ Holds(u.session) => Holds(peer.session) /\ u.session.owner = peer.session.owner
  BY <1>2, RestartFiles, RestartUntouched DEF Files, Inv
<1> HIDE DEF u, noted
<1>4. /\ Filed(peer') /\ Untouched(peer'.session)
      /\ Holds(peer'.session) => Holds(u.session) /\ peer'.session.owner = u.session.owner
      /\ peer'.recorder = u.recorder
  BY <1>1, <1>3, RemarksFile DEF Remarks
<1>5. EndingKept
  BY <1>3, <1>4 DEF EndingKept, Played, loop, recorder, session
<1> QED BY <1>1, <1>3, <1>4, <1>5 DEF OfTheGame

LEMMA TurnFiles ==
    ASSUME Inv, Files, ATurn
    PROVE  /\ Filed(peer') /\ Untouched(peer'.session) /\ OfTheGame /\ EndingKept
           /\ peer'.recorder.opponent = peer.recorder.opponent /\ driver'.game = driver.game
<1>1. PICK t, sent : /\ SubmitTurn(t, sent) /\ Fits(t, peer.session) /\ Sends(sent, t)
                     /\ Playing(driver)
  BY DEF ATurn
<1>2. driver'.game = driver.game
  BY <1>1, SubmitTurnKeeps
<1>3. /\ Filed(peer') /\ Untouched(peer'.session)
      /\ peer'.recorder.opponent = peer.recorder.opponent /\ peer'.loop # None
      /\ Holds(peer'.session) => peer'.session.owner = driver.game
  BY <1>1, SubmitTurnFiles
<1> QED BY <1>1, <1>2, <1>3 DEF OfTheGame, EndingKept, loop

LEMMA RemarkFiles ==
    ASSUME Files, Remarks(peer', peer)
    PROVE  /\ Filed(peer') /\ Untouched(peer'.session) /\ OfTheGame /\ EndingKept
           /\ peer'.recorder.opponent = peer.recorder.opponent
<1>1. /\ Filed(peer') /\ Untouched(peer'.session)
      /\ Holds(peer'.session) => Holds(peer.session) /\ peer'.session.owner = peer.session.owner
  BY RemarksFile DEF Files
<1> QED BY <1>1 DEF Remarks, OfTheGame, EndingKept, loop

LEMMA AgreeResultFiles ==
    ASSUME SurvivalThreshold > 1, Inv, Files, AgreeResult
    PROVE  /\ Filed(peer') /\ Untouched(peer'.session) /\ OfTheGame /\ EndingKept
           /\ peer'.recorder.opponent = peer.recorder.opponent
<1> DEFINE w == WithLoop(peer)
<1>1. PICK read : /\ IsPeer(read) /\ Remarks(read, w) /\ read.loop = w.loop
                  /\ peer' = Settle(read, Outcome(w))
  BY AgreeResultKeeps
<1>2. /\ Door(w) /\ w.session = peer.session /\ w.loop # None /\ Filed(w)
      /\ w.recorder = peer.recorder
  BY WithLoopKeepsDoor, WithLoopFiles, WithLoopEffect DEF Inv, Files, Door
<1> HIDE DEF w
<1>3. /\ Filed(read) /\ Untouched(read.session)
      /\ Holds(read.session) <=> Holds(w.session)
      /\ read.session.owner = w.session.owner
  BY <1>1, <1>2, RemarksFile DEF Files, Remarks, Alike, Holds
<1>4. Outcome(w) # None => Holds(read.session) \/ read.loop.finished # None
  BY <1>1, <1>2, <1>3, NothingPlayed DEF Files
<1> DEFINE v == Settle(read, Outcome(w))
<1>5. /\ v.session = read.session /\ v.loop = read.loop
      /\ v.recorder.opponent = read.recorder.opponent
  BY <1>1, SettleEffect
<1>6. Filed(v)
  BY <1>1, <1>2, <1>3, <1>4, SettleFiles
<1> HIDE DEF v
<1>7. peer' = v
  BY <1>1 DEF v
<1>8. read.recorder = w.recorder
  BY <1>1 DEF Remarks
<1> QED BY <1>1, <1>2, <1>3, <1>5, <1>6, <1>7, <1>8 DEF OfTheGame, EndingKept, loop

LEMMA InitiallyFiles == Init => Files
<1> SUFFICES ASSUME Init PROVE Files
  OBVIOUS
<1>1. driver.game.id = 0 /\ driver.game.group = None /\ begun = 0
  BY NewSubGameEffect DEF Init
<1>2. /\ peer.session = FreshSession(1, GameGroup)
      /\ peer.recorder.recorded = {} /\ peer.recorder.filed = <<>> /\ peer.recorder.series = 0
  BY DEF Init
<1>3. ~Holds(peer.session) /\ Untouched(peer.session)
  BY <1>2 DEF FreshSession, Holds, Untouched
<1>4. Listed(peer.recorder.filed)
  BY <1>2 DEF Listed
<1>5. Filed(peer)
  BY <1>2, <1>4 DEF Filed, Kept
<1> QED BY <1>1, <1>2, <1>3, <1>5 DEF Files, Numbered, Known

LEMMA EveryStepFiles ==
    ASSUME OneCaller, SurvivalThreshold > 1, Inv, Files, Next
    PROVE  Files' /\ EndingKept
<1>1. role' = role
  BY DEF Next, Hello, Begin, Declare, Handover, ThiefTurn, CopTurn, SendAgain,
         ConfirmResult, FinalAudit, AgreeResult
<1>2. ASSUME Filed(peer'), Untouched(peer'.session), OfTheGame,
             peer'.recorder.opponent = peer.recorder.opponent
             \/ \E g \in Callers : peer'.recorder.opponent = g,
             begun' = begun, driver'.game = driver.game,
             driver.game.group = None /\ peer.recorder.recorded = {}
             => \/ peer'.recorder.recorded = {}
                \/ \E g \in Callers : peer'.recorder.opponent = g
      PROVE  Files'
  <2>1. Numbered(driver, peer.session)'
    BY <1>2 DEF Files, Numbered, OfTheGame, Playing
  <2>2. Known(peer, driver)'
    BY <1>2 DEF Files, Known, OneCaller
  <2> QED BY <1>1, <1>2, <2>1, <2>2 DEF Files, Untouched
<1>3. ASSUME NEW g \in Callers, Hello(g) PROVE Files' /\ EndingKept
  <2>1. /\ Filed(peer') /\ Untouched(peer'.session) /\ OfTheGame /\ EndingKept
        /\ peer'.recorder.opponent = g
        /\ \/ driver' = driver
           \/ driver'.game.id = 0 /\ driver'.game.group = g
    BY <1>3, HelloFiles
  <2>2. begun' = begun
    BY <1>3 DEF Hello
  <2>3. Numbered(driver, peer.session)'
    <3>1. CASE driver' = driver
      BY <2>1, <2>2, <3>1 DEF Files, Numbered, OfTheGame, Playing
    <3>2. CASE driver'.game.id = 0
      BY <2>1, <2>2, <3>2 DEF Files, Numbered, OfTheGame, Playing
    <3> QED BY <2>1, <3>1, <3>2
  <2>4. Known(peer, driver)'
    BY <2>1 DEF Files, Known, OneCaller
  <2> QED BY <1>1, <2>1, <2>3, <2>4 DEF Files, Untouched
<1>4. ASSUME Begin PROVE Files' /\ EndingKept
  <2>1. /\ peer' = peer /\ begun' = begun + 1
        /\ driver'.game.id = begun' /\ driver'.game.group = driver.game.group
    BY <1>4, NewSubGameEffect DEF Begin
  <2>2. Numbered(driver, peer.session)'
    BY <2>1 DEF Files, Numbered
  <2>3. Known(peer, driver)'
    BY <2>1 DEF Files, Known
  <2>4. EndingKept
    BY <2>1 DEF EndingKept, loop
  <2> QED BY <1>1, <2>1, <2>2, <2>3, <2>4 DEF Files, Untouched
<1>5. ASSUME NEW clash \in BOOLEAN, Declare(clash) PROVE Files' /\ EndingKept
  <2>1. begun' = begun /\ driver.game.group # None
    BY <1>5, DeclareKeeps DEF Declare
  <2> QED BY <1>2, <1>5, <2>1, DeclareFiles
<1>6. ASSUME Handover \/ ThiefTurn \/ CopTurn \/ SendAgain PROVE Files' /\ EndingKept
  <2>1. ATurn /\ begun' = begun
    BY <1>6, HandoverIsATurn, ThiefTurnIsATurn, CopTurnIsATurn, SendAgainIsATurn
       DEF Handover, ThiefTurn, CopTurn, SendAgain
  <2>2. driver.game.group # None
    BY <2>1 DEF ATurn, Playing, Inv, Caller
  <2> QED BY <1>2, <2>1, <2>2, TurnFiles
<1>7. ASSUME ConfirmResult PROVE Files' /\ EndingKept
  <2>1. Remarks(peer', peer) /\ driver'.game = driver.game /\ begun' = begun
        /\ driver.game.group # None
    BY <1>7, ConfirmResultKeeps DEF ConfirmResult, Playing, Inv, Caller
  <2> QED BY <1>2, <2>1, RemarkFiles
<1>8. ASSUME FinalAudit PROVE Files' /\ EndingKept
  <2>1. Remarks(peer', peer) /\ driver' = driver /\ begun' = begun
        /\ driver.game.group # None
    BY <1>8, FinalAuditKeeps DEF FinalAudit, Playing, Inv, Caller
  <2> QED BY <1>2, <2>1, RemarkFiles
<1>9. ASSUME AgreeResult PROVE Files' /\ EndingKept
  <2>1. driver' = driver /\ begun' = begun /\ driver.game.group # None
    BY <1>9 DEF AgreeResult, Playing, Inv, Caller
  <2> QED BY <1>2, <1>9, <2>1, AgreeResultFiles
<1> QED BY <1>3, <1>4, <1>5, <1>6, <1>7, <1>8, <1>9 DEF Next

\* At a door that one team calls, and with the floor the configuration has for the
\* horizon, a sub-game whose ending was seen is on file when its session is replaced
\* (_restart_if_a_new_sub_game, ServedRecorder.settle, ServedRecorder.opened).
THEOREM EndedGamesAreFiled ==
    ASSUME OneCaller, SurvivalThreshold > 1
    PROVE  Spec => EndedGameIsFiled
<1>1. Init => Inv /\ Files
  BY Initially, InitiallyFiles
<1>2. Inv /\ Files /\ [Next]_vars => (Inv /\ Files)'
  <2> SUFFICES ASSUME Inv, Files, [Next]_vars PROVE (Inv /\ Files)'
    OBVIOUS
  <2>1. CASE UNCHANGED vars
    BY <2>1 DEF vars, Inv, Caller, Files, Numbered, Known, Untouched
  <2>2. CASE Next
    BY <2>2, EveryStepKeepsInv, EveryStepFiles
  <2> QED BY <2>1, <2>2
<1> DEFINE Step == (loop # None /\ loop' = None /\ loop.finished # None /\ session.owner # None)
                   => \E i \in DOMAIN recorder'.filed : recorder'.filed[i].owner = session.owner
<1>3. Inv /\ Files /\ [Next]_vars => [Step]_vars
  <2> SUFFICES ASSUME Inv, Files, Next PROVE Step
    OBVIOUS
  <2> QED BY EveryStepFiles DEF EndingKept, OnFile
<1>4. Spec => [](Inv /\ Files)
  BY <1>1, <1>2, PTL DEF Spec
<1> QED BY <1>3, <1>4, PTL DEF Spec, EndedGameIsFiled

-----------------------------------------------------------------------------
(* One artifact set per sub-game, at a door that one team calls.            *)

Begun(game) == game # None /\ game.id \in 1 .. begun

AllBegun(c) == \A i \in DOMAIN c.filed : Begun(c.filed[i].owner)

\* Sub-games filed from a session whose turns came once are filed once.
FiledApart(c) == \A i, j \in DOMAIN c.filed :
    /\ c.filed[i].owner = c.filed[j].owner
    /\ ~c.filed[i].resent /\ ~c.filed[j].resent
    => i = j

\* Game is filed from sessions that a turn came twice to, or not at all.
Clear(c, game)  == \A i \in DOMAIN c.filed : c.filed[i].owner = game => c.filed[i].resent
Absent(c, game) == \A i \in DOMAIN c.filed : c.filed[i].owner # game

\* Only a thief watches a wall.
Unwatched(w) == role = Cop /\ w.loop # None => w.loop.walled = None

\* A session is some sub-game's exactly when something was played in it.
Owned(w) == /\ w.session.owner # None <=> Played(w)
            /\ w.session.owner # None => Begun(w.session.owner)
            /\ Unwatched(w)

\* Before anything of theirs is absorbed.
Early(s) == /\ ~Holds(s) => /\ ~s.resent /\ ~s.caught
                            /\ role = Thief => s.pos = ThiefStart
            /\ role = Cop => ~s.caught

Once(w) == /\ FiledApart(w.recorder) /\ AllBegun(w.recorder)
           /\ Key(w) \notin w.recorder.recorded => Clear(w.recorder, w.session.owner)

\* The driver's sub-game is not filed before the session is of it, nor while it is
\* played; and a first turn that came once ends nothing.
AtIt(w, d) ==
    /\ w.session.owner # d.game => Absent(w.recorder, d.game)
    /\ d.over # None => w.session.owner = d.game
    /\ d.over = None /\ w.session.owner = d.game =>
         /\ Key(w) \notin w.recorder.recorded
         /\ d.step <= 1 /\ ~w.session.resent => w.loop.finished = None
    /\ d.step = 0 /\ ~d.handed => w.session.owner # d.game

Idle(w, d) == d.game.group = None =>
                w.loop = None /\ w.recorder.recorded = {} /\ w.recorder.filed = <<>>

Single(w, d) == /\ Owned(w) /\ Early(w.session) /\ Once(w)
                /\ AtIt(w, d) /\ Idle(w, d) /\ Opens(d)

-----------------------------------------------------------------------------
\* Sub-games have names.
LEMMA Named ==
    ASSUME NEW g \in Groups \cup {None}, NEW id \in 0 .. MaxGames, NEW n \in {0} \cup Numbers
    PROVE  NewSubGame(g, id, n).game # None
BY ServedAssumption DEF NewSubGame, GamesOf

LEMMA NewSubGameOpens ==
    ASSUME NEW g \in Groups \cup {None}, NEW id \in 0 .. MaxGames, NEW n \in {0} \cup Numbers
    PROVE  LET d == NewSubGame(g, id, n) IN Opens(d) /\ d.over = None /\ d.step = 0 /\ ~d.handed
BY Named, Values DEF Opens, NewSubGame, Other

\* What a call filed: nothing, or w's sub-game.
Adds(c, w, ending) ==
    \/ c.filed = w.recorder.filed
    \/ /\ ending # None /\ Key(w) \notin w.recorder.recorded
       /\ \E row : /\ row.owner = w.session.owner /\ row.resent = w.session.resent
                   /\ c.filed = Append(w.recorder.filed, row)

LEMMA AddsKeeps ==
    ASSUME NEW w, Listed(w.recorder.filed), Once(w), NEW ending,
           ending # None => Begun(w.session.owner),
           NEW c, Adds(c, w, ending)
    PROVE  /\ FiledApart(c) /\ AllBegun(c)
           /\ \A game : /\ Clear(w.recorder, game)
                        /\ game = w.session.owner => w.session.resent \/ ending = None
                        => Clear(c, game)
           /\ \A game : Absent(w.recorder, game) /\ game # w.session.owner => Absent(c, game)
<1> DEFINE q == w.recorder.filed
<1>1. CASE c.filed = q
  BY <1>1 DEF Once, FiledApart, AllBegun, Clear, Absent
<1>2. CASE c.filed # q
  <2>1. PICK row : /\ row.owner = w.session.owner /\ row.resent = w.session.resent
                   /\ c.filed = Append(q, row)
    BY <1>2 DEF Adds
  <2>2. ending # None /\ Key(w) \notin w.recorder.recorded
    BY <1>2 DEF Adds
  <2> DEFINE S == {q[i] : i \in DOMAIN q}
             n == Len(q)
  <2>3. q \in Seq(S)
    BY DEF Listed
  <2>4. n \in Nat /\ DOMAIN q = 1 .. n /\ q \in Seq(S \cup {row})
    BY <2>3
  <2> HIDE DEF S
  <2>5. /\ DOMAIN c.filed = 1 .. n + 1
        /\ \A i \in 1 .. n : c.filed[i] = q[i]
        /\ c.filed[n + 1] = row
    BY <2>1, <2>4
  <2> DEFINE f == c.filed
  <2> HIDE DEF n, q
  <2>6. \A i \in DOMAIN f : \/ i \in DOMAIN q /\ f[i] = q[i]
                            \/ i = n + 1 /\ f[i] = row
    BY <2>4, <2>5
  <2>7. Clear(w.recorder, w.session.owner) /\ Begun(w.session.owner)
    BY <2>2 DEF Once
  <2>8. FiledApart(c)
    BY <2>1, <2>6, <2>7 DEF Once, FiledApart, Clear, q
  <2>9. AllBegun(c)
    BY <2>1, <2>6, <2>7 DEF Once, AllBegun, q
  <2>10. ASSUME NEW game, Clear(w.recorder, game), game = w.session.owner => w.session.resent
         PROVE  Clear(c, game)
    BY <2>1, <2>6, <2>10 DEF Clear, q
  <2>11. ASSUME NEW game, Absent(w.recorder, game), game # w.session.owner
         PROVE  Absent(c, game)
    BY <2>1, <2>6, <2>11 DEF Absent, q
  <2> QED BY <2>2, <2>8, <2>9, <2>10, <2>11
<1> QED BY <1>1, <1>2 DEF q

-----------------------------------------------------------------------------
\* A new session, and one that carries what another carries.
Renewed(s) == /\ s.owner = None /\ s.held = <<>> /\ ~s.resent /\ ~s.caught
              /\ s.pos = StartOf(role)

Marked(s, z) == /\ s.owner = z.owner /\ s.held = z.held /\ s.resent = z.resent
                /\ s.caught = z.caught /\ s.pos = z.pos

LEMMA RenewedIsEarly ==
    ASSUME NEW s, Renewed(s), role \in {Cop, Thief}
    PROVE  Early(s)
BY DEF Renewed, Early, Holds, StartOf, Cop, Thief

LEMMA MarkedIsEarly ==
    ASSUME NEW z, Early(z), NEW s, Marked(s, z)
    PROVE  Early(s)
BY DEF Marked, Early, Holds

LEMMA NotedMarks ==
    ASSUME NEW s, IsRecord(s, SessionFields), NEW n
    PROVE  Marked(NoteDeclaration(s, n), s)
BY DEF NoteDeclaration, IsRecord, SessionFields, Marked

LEMMA FreshIsRenewed ==
    ASSUME NEW n, NEW o, NEW k
    PROVE  Renewed(NoteDeclaration(FreshSession(n, o), k))
BY DEF NoteDeclaration, FreshSession, Renewed

\* A session in which nothing was played is not on file.
LEMMA UnplayedUnfiled ==
    ASSUME NEW w, Door(w), Filed(w), ~Played(w)
    PROVE  Key(w) \notin w.recorder.recorded
BY DEF Filed, Played, Door, OfOneGame

LEMMA SettleAdds ==
    ASSUME NEW w, IsPeer(w), NEW ending
    PROVE  Adds(Settle(w, ending).recorder, w, ending)
<1> DEFINE row == Row(w, ending)
<1>1. row.owner = w.session.owner /\ row.resent = w.session.resent
  BY DEF Row
<1>2. \/ Settle(w, ending) = w
      \/ /\ ending # None /\ Key(w) \notin w.recorder.recorded
         /\ Settle(w, ending).recorder.filed = Append(w.recorder.filed, row)
  BY DEF Settle, Key, IsPeer, IsRecord, RecorderFields
<1> HIDE DEF row
<1> QED BY <1>1, <1>2 DEF Adds

LEMMA RestartMarks ==
    ASSUME NEW w, IsPeer(w), NEW n
    PROVE  LET v == Restart(w, n) IN
           /\ Played(w) => Renewed(v.session) /\ Adds(v.recorder, w, w.loop.finished)
           /\ ~Played(w) => Marked(v.session, w.session) /\ v.recorder.filed = w.recorder.filed
<1> DEFINE noted   == [w EXCEPT !.session = NoteDeclaration(@, n)]
           opening == OpeningNumber(noted.session, n, Played(w))
           fresh   == NoteDeclaration(FreshSession(opening, w.session.opponent), n)
           settled == Settle(noted, w.loop.finished)
           next    == [settled EXCEPT !.session = fresh, !.loop = None]
           moved   == [noted EXCEPT !.session.sub = opening]
<1>1. /\ IsPeer(noted) /\ noted.recorder = w.recorder /\ noted.session.sub = w.session.sub
  BY NotedEffect
<1>2. Marked(noted.session, w.session)
  BY NotedMarks DEF IsPeer, IsRecord
<1>3. Restart(w, n) = IF Played(w) THEN Opened(next, opening) ELSE AdoptOrStay(noted, opening)
  BY DEF Restart
<1>4. Renewed(fresh) /\ IsRecord(fresh, SessionFields)
  BY FreshIsRenewed, FreshSessionEffect
<1>5. AdoptOrStay(noted, opening) \in {noted, Opened(moved, opening)}
  BY DEF AdoptOrStay
<1> HIDE DEF noted, opening, fresh
<1>6. CASE Played(w)
  <2>1. Adds(settled.recorder, noted, w.loop.finished) /\ IsPeer(settled)
    BY <1>1, SettleAdds, SettleEffect
  <2> HIDE DEF settled
  <2>2. Key(noted) = Key(w)
    BY <1>1 DEF Key
  <2>3. Adds(settled.recorder, w, w.loop.finished)
    BY <1>1, <1>2, <2>1, <2>2 DEF Adds, Marked
  <2>4. IsPeer(next) /\ next.session = fresh /\ next.recorder = settled.recorder
    BY <1>4, <2>1 DEF IsPeer, IsRecord
  <2> HIDE DEF next
  <2> DEFINE v == Opened(next, opening)
  <2>5. v.session = next.session /\ v.recorder.filed = next.recorder.filed
    BY <2>4, OpenedEffect
  <2> HIDE DEF v
  <2>6. Restart(w, n) = v
    BY <1>3, <1>6 DEF v
  <2>7. Adds(v.recorder, w, w.loop.finished)
    BY <2>3, <2>4, <2>5 DEF Adds
  <2> QED BY <1>4, <1>6, <2>4, <2>5, <2>6, <2>7
<1>7. CASE ~Played(w)
  <2>1. /\ IsPeer(moved) /\ Marked(moved.session, w.session) /\ moved.recorder = w.recorder
    BY <1>1, <1>2 DEF IsPeer, IsRecord, SessionFields, Marked
  <2> HIDE DEF moved
  <2> DEFINE v == Opened(moved, opening)
  <2>2. v.session = moved.session /\ v.recorder.filed = moved.recorder.filed
    BY <2>1, OpenedEffect
  <2> HIDE DEF v
  <2>3. Restart(w, n) = noted \/ Restart(w, n) = v
    BY <1>3, <1>5, <1>7 DEF v
  <2> QED BY <1>1, <1>2, <1>7, <2>1, <2>2, <2>3
<1> QED BY <1>6, <1>7

-----------------------------------------------------------------------------
(* What a first turn can do. *)

\* One wall closes nobody in.
LEMMA OneWall ==
    ASSUME NEW c \in Cells, NEW walls, NEW b, walls \subseteq {b}
    PROVE  HasEscape(c, walls)
<1>1. /\ c[1] \in 0 .. GridSize - 1 /\ c[2] \in 0 .. GridSize - 1
      /\ GridSize \in Nat /\ GridSize > 1
  BY BoardAssumption DEF Cells
<1> DEFINE x == IF c[1] = 0 THEN 1 ELSE c[1] - 1
           y == IF c[2] = 0 THEN 1 ELSE c[2] - 1
           d == <<x, c[2]>>
           e == <<c[1], y>>
<1>2. /\ x \in 0 .. GridSize - 1 /\ Distance(c[1], x) = 1 /\ Distance(c[2], c[2]) = 0
      /\ y \in 0 .. GridSize - 1 /\ Distance(c[2], y) = 1 /\ Distance(c[1], c[1]) = 0
      /\ x # c[1]
  BY <1>1 DEF Distance
<1> HIDE DEF x, y
<1>3. /\ d \in Cells /\ Adjacent(c, d)
      /\ e \in Cells /\ Adjacent(c, e)
      /\ d # e
  BY <1>1, <1>2 DEF Cells, Adjacent
<1>4. d \notin walls \/ e \notin walls
  BY <1>3
<1> HIDE DEF d, e
<1> QED BY <1>3, <1>4 DEF HasEscape, Steps, Passable

LEMMA AbsorbMarks ==
    ASSUME NEW w, IsPeer(w), w.loop # None, NEW t
    PROVE  LET s == w.session
               u == Absorb(w, t) IN
           /\ u.session.pos = s.pos /\ u.session.records = s.records
           /\ u.session.walls = s.walls \cup (IF t.barrier = None THEN {} ELSE {t.barrier})
           /\ ~u.session.resent => /\ ~s.resent
                                   /\ ~(t.step \in DOMAIN s.held /\ s.held[t.step] = t.game.id)
           /\ u.session.caught => \/ s.caught \/ BoxedIn(u.session)
                                  \/ t.claim # None /\ t.claim = s.pos
           /\ u.loop.walled = Entering(s, t.barrier)
           /\ ~t.win /\ ~BoxedIn(u.session) => u.loop.finished = w.loop.finished
<1> DEFINE s == w.session
           held == [i \in DOMAIN s.held \cup {t.step} |-> IF i = t.step THEN t.game.id ELSE s.held[i]]
           walls == s.walls \cup (IF t.barrier = None THEN {} ELSE {t.barrier})
           hit == t.claim # None /\ t.claim = s.pos
           again == t.step \in DOMAIN s.held /\ s.held[t.step] = t.game.id
           told == [s EXCEPT !.held = held, !.walls = walls,
                             !.seen = @ + 1, !.owner = t.game,
                             !.resent = @ \/ again]
           boxed == BoxedIn(told)
           after == [told EXCEPT !.caught = @ \/ hit \/ boxed]
           walled == Entering(s, t.barrier)
           u == [w EXCEPT !.session = after, !.loop.walled = walled,
                          !.loop.finished = CASE t.win -> Survival
                                              [] ~t.win /\ boxed -> Capture
                                              [] OTHER -> @]
<1>1. Absorb(w, t) = u
  BY DEF Absorb
<1>2. /\ IsRecord(w, {"session", "loop", "recorder"}) /\ IsRecord(s, SessionFields)
      /\ w.loop \in Loops
  BY DEF IsPeer
<1> HIDE DEF held, walls, hit, again
<1>3. /\ told.pos = s.pos /\ told.records = s.records /\ told.walls = walls
      /\ told.resent = (s.resent \/ again) /\ told.caught = s.caught
      /\ IsRecord(told, SessionFields)
  BY <1>2 DEF IsRecord, SessionFields
<1> HIDE DEF told, boxed
<1>4. /\ after.pos = s.pos /\ after.records = s.records /\ after.walls = walls
      /\ after.resent = (s.resent \/ again) /\ after.caught = (s.caught \/ hit \/ boxed)
  BY <1>3 DEF IsRecord, SessionFields
<1> HIDE DEF after, walled
<1>5. /\ u.session = after /\ u.loop.walled = walled
      /\ ~t.win /\ ~boxed => u.loop.finished = w.loop.finished
  BY <1>2 DEF IsRecord, Loops
<1> HIDE DEF u
<1>6. boxed <=> BoxedIn(u.session)
  BY <1>3, <1>4, <1>5 DEF boxed, BoxedIn
<1>7. u.session.caught <=> s.caught \/ hit \/ boxed
  BY <1>4, <1>5
<1>8. ~u.session.resent => ~s.resent /\ ~again
  BY <1>4, <1>5
<1> QED BY <1>1, <1>4, <1>5, <1>6, <1>7, <1>8 DEF hit, again, walls, walled

LEMMA TakeTurnMarks ==
    ASSUME NEW w, IsPeer(w), w.loop # None, NEW n, NEW d, NEW game
    PROVE  LET s == w.session
               r == TakeTurn(w, n, d, game)
               lost == Leaving(r.session, w.loop.walled) \/ BoxedIn(r.session) IN
           /\ r.session.pos = (IF d.barrier = None THEN SettleMove(s.pos, d.aim, s.walls) ELSE s.pos)
           /\ r.session.walls = s.walls \cup (IF d.barrier = None THEN {} ELSE {d.barrier})
           /\ r.session.resent = s.resent /\ r.session.held = s.held /\ r.session.owner = game
           /\ r.session.records = Append(s.records, n)
           /\ r.session.caught <=> s.caught \/ lost
           /\ r.loop.round = n /\ r.loop.walled = None
           /\ ~lost => r.loop.finished = IF ClaimsSurvival(s) THEN Survival ELSE w.loop.finished
<1> DEFINE s == w.session
           moved == [s EXCEPT
                       !.pos = IF d.barrier = None THEN SettleMove(@, d.aim, s.walls) ELSE @,
                       !.walls = @ \cup (IF d.barrier = None THEN {} ELSE {d.barrier}),
                       !.records = Append(@, n), !.owner = game]
           lost == Leaving(moved, w.loop.walled) \/ BoxedIn(moved)
           after == [moved EXCEPT !.caught = @ \/ lost]
           l == [round    |-> n,
                 walled   |-> None,
                 claimed  |-> IF role = Cop THEN ClaimOf(s, d) ELSE w.loop.claimed,
                 finished |-> CASE lost -> Capture
                                [] ~lost /\ ClaimsSurvival(s) -> Survival
                                [] OTHER -> w.loop.finished]
           r == [w EXCEPT !.session = after, !.loop = l]
<1>1. TakeTurn(w, n, d, game) = r
  BY DEF TakeTurn, IsPeer, IsRecord
<1>2. IsRecord(w, {"session", "loop", "recorder"}) /\ IsRecord(s, SessionFields)
  BY DEF IsPeer
<1>3. /\ IsRecord(moved, SessionFields) /\ moved.resent = s.resent /\ moved.held = s.held
      /\ moved.owner = game /\ moved.caught = s.caught /\ moved.records = Append(s.records, n)
      /\ moved.pos = (IF d.barrier = None THEN SettleMove(s.pos, d.aim, s.walls) ELSE s.pos)
      /\ moved.walls = s.walls \cup (IF d.barrier = None THEN {} ELSE {d.barrier})
  BY <1>2 DEF IsRecord, SessionFields
<1> HIDE DEF moved, lost
<1>4. /\ after.resent = moved.resent /\ after.held = moved.held /\ after.owner = moved.owner
      /\ after.pos = moved.pos /\ after.walls = moved.walls /\ after.records = moved.records
      /\ after.caught = (moved.caught \/ lost)
  BY <1>3 DEF IsRecord, SessionFields
<1>5. /\ l.round = n /\ l.walled = None
      /\ ~lost => l.finished = IF ClaimsSurvival(s) THEN Survival ELSE w.loop.finished
  OBVIOUS
<1> HIDE DEF after, l
<1>6. r.session = after /\ r.loop = l
  BY <1>2 DEF IsRecord
<1> HIDE DEF r
<1>7. lost <=> Leaving(r.session, w.loop.walled) \/ BoxedIn(r.session)
  BY <1>3, <1>4, <1>6 DEF lost, Leaving, BoxedIn
<1>8. r.session.caught <=> s.caught \/ lost
  BY <1>3, <1>4, <1>6
<1> QED BY <1>1, <1>3, <1>4, <1>5, <1>6, <1>7, <1>8

\* What a turn makes of the door: our turn of their sub-game, or silence; and a first
\* turn that came once ends nothing.
LEMMA AnswersOnce ==
    ASSUME NEW w, Door(w), Untouched(w.session), Early(w.session), Unwatched(w),
           SurvivalThreshold > 1, role \in {Cop, Thief},
           NEW t, Fits(t, w.session), Mild(t),
           t.nil => ~Holds(w.session), ~t.nil => Own(w.session, t.game),
           t.step <= 1 => w.loop = None \/ w.loop.finished = None,
           NEW r \in Answers(w, t)
    PROVE  /\ Early(r.peer.session) /\ Unwatched(r.peer)
           /\ \/ r.peer.session.owner = t.game /\ Played(r.peer)
              \/ t.nil /\ r.answer = Silence /\ r.peer = WithLoop(w) /\ ~MayAct(r.peer)
           /\ t.step <= 1 /\ ~r.peer.session.resent => r.peer.loop.finished = None
<1> DEFINE l == WithLoop(w)
<1>1. /\ Door(l) /\ l.session = w.session /\ l.loop # None
      /\ t.step <= 1 => l.loop.finished = None
      /\ Unwatched(l)
  BY WithLoopKeepsDoor, WithLoopEffect, Values DEF Door, NewLoop, Unwatched
<1>2. /\ r.peer.loop # None /\ Door(r.peer)
      /\ ~t.nil => Holds(r.peer.session) /\ r.peer.session.owner = t.game
  BY AnswersEffect
<1> HIDE DEF l
<1>3. CASE t.nil /\ ~MayAct(l)
  <2>1. r.peer = l /\ r.answer = Silence
    BY <1>3 DEF Answers, l
  <2> QED BY <1>1, <1>3, <2>1 DEF l, Fits
<1>4. CASE t.nil /\ MayAct(l)
  <2> DEFINE n == l.loop.round + 1
  <2>1. PICK d \in Decisions(l.session) : r.peer = TakeTurn(l, n, d, t.game)
    BY <1>4 DEF Answers, l
  <2>2. role = Cop /\ role # Thief /\ t.step = 0
    BY <1>4 DEF Fits, Cop, Thief
  <2>3. l.loop.round \in Nat /\ n > 0
    BY <1>1 DEF Door, IsPeer, Loops
  <2> HIDE DEF n
  <2> DEFINE z == TakeTurn(l, n, d, t.game)
             lost == Leaving(z.session, l.loop.walled) \/ BoxedIn(z.session)
  <2>4. /\ z.session.owner = t.game /\ z.loop.round = n /\ z.loop.walled = None
        /\ z.session.resent = l.session.resent /\ z.session.held = l.session.held
        /\ z.session.caught => l.session.caught \/ lost
        /\ ~lost /\ ~ClaimsSurvival(l.session) => z.loop.finished = l.loop.finished
    BY <1>1, TakeTurnMarks DEF Door
  <2> HIDE DEF z
  <2>5. ~lost /\ ~ClaimsSurvival(l.session)
    BY <1>1, <2>2 DEF Leaving, BoxedIn, ClaimsSurvival, Unwatched
  <2>6. z.loop.finished = None /\ ~z.session.caught
    BY <1>1, <2>2, <2>4, <2>5 DEF Early
  <2>7. r.peer = z
    BY <2>1 DEF z
  <2>8. Early(z.session)
    BY <1>1, <2>2, <2>4, <2>6 DEF Early, Holds
  <2>9. Played(z)
    BY <1>2, <2>3, <2>4, <2>7 DEF Played
  <2> QED BY <2>4, <2>6, <2>7, <2>8, <2>9 DEF Unwatched
<1>5. CASE ~t.nil
  <2> DEFINE u == Absorb(l, t)
             s == w.session
  <2>1. /\ IsPeer(u) /\ OnTheBoard(u.session) /\ u.loop # None
        /\ u.session.owner = t.game
    BY <1>1, <1>5, AbsorbEffect
  <2>0. /\ u.session.pos = l.session.pos /\ u.session.records = l.session.records
        /\ u.session.walls = l.session.walls \cup (IF t.barrier = None THEN {} ELSE {t.barrier})
        /\ ~u.session.resent => /\ ~l.session.resent
                                /\ ~(t.step \in DOMAIN l.session.held /\ l.session.held[t.step] = t.game.id)
        /\ u.session.caught => \/ l.session.caught \/ BoxedIn(u.session)
                               \/ t.claim # None /\ t.claim = l.session.pos
        /\ u.loop.walled = Entering(l.session, t.barrier)
        /\ ~t.win /\ ~BoxedIn(u.session) => u.loop.finished = l.loop.finished
    BY <1>1, AbsorbMarks DEF Door
  <2> HIDE DEF u
  <2>2. /\ u.session.pos = s.pos /\ u.session.records = s.records
        /\ u.session.walls = s.walls \cup (IF t.barrier = None THEN {} ELSE {t.barrier})
        /\ ~u.session.resent => /\ ~s.resent
                                /\ ~(t.step \in DOMAIN s.held /\ s.held[t.step] = t.game.id)
        /\ u.session.caught => \/ s.caught \/ BoxedIn(u.session)
                               \/ t.claim # None /\ t.claim = s.pos
        /\ u.loop.walled = Entering(s, t.barrier)
        /\ ~t.win /\ ~BoxedIn(u.session) => u.loop.finished = l.loop.finished
    BY <1>1, <2>0
  <2>3. Played(r.peer) /\ r.peer.session.owner = t.game /\ Holds(r.peer.session)
    BY <1>2, <1>5 DEF Door, OfOneGame
  <2>4. \/ u.session.caught /\ r.peer = [u EXCEPT !.loop.finished = Capture]
        \/ /\ ~u.session.caught
           /\ \E d \in Decisions(u.session) : r.peer = TakeTurn(u, ReplyStep(u, t.step), d, t.game)
    BY <1>5 DEF Answers, l, u
  \* An answer that is a turn of ours.
  <2>5. ASSUME ~u.session.caught, NEW d \in Decisions(u.session),
               r.peer = TakeTurn(u, ReplyStep(u, t.step), d, t.game)
        PROVE  LET z == r.peer
                   lost == Leaving(z.session, u.loop.walled) \/ BoxedIn(z.session) IN
               /\ z.session.resent = u.session.resent /\ z.loop.walled = None
               /\ z.session.pos = (IF d.barrier = None THEN SettleMove(u.session.pos, d.aim, u.session.walls)
                                                       ELSE u.session.pos)
               /\ z.session.walls = u.session.walls \cup (IF d.barrier = None THEN {} ELSE {d.barrier})
               /\ z.session.caught => lost
               /\ ~lost /\ ~ClaimsSurvival(u.session) => z.loop.finished = u.loop.finished
    <3> DEFINE n == ReplyStep(u, t.step)
               z == TakeTurn(u, n, d, t.game)
    <3> HIDE DEF n
    <3>1. LET lost == Leaving(z.session, u.loop.walled) \/ BoxedIn(z.session) IN
          /\ z.session.resent = u.session.resent /\ z.loop.walled = None
          /\ z.session.pos = (IF d.barrier = None THEN SettleMove(u.session.pos, d.aim, u.session.walls)
                                                  ELSE u.session.pos)
          /\ z.session.walls = u.session.walls \cup (IF d.barrier = None THEN {} ELSE {d.barrier})
          /\ z.session.caught => u.session.caught \/ lost
          /\ ~lost /\ ~ClaimsSurvival(u.session) => z.loop.finished = u.loop.finished
      BY <2>1, TakeTurnMarks
    <3>2. r.peer = z
      BY <2>5 DEF n
    <3> HIDE DEF z
    <3> QED BY <2>5, <3>1, <3>2
  <2>6. CASE role = Cop
    <3>1. role # Thief /\ t.claim = None /\ ~s.caught
      BY <2>6 DEF Mild, Early, Cop, Thief
    <3>2. ~u.session.caught /\ u.loop.walled = None
      BY <2>2, <3>1 DEF BoxedIn, Entering
    <3>3. PICK d \in Decisions(u.session) : r.peer = TakeTurn(u, ReplyStep(u, t.step), d, t.game)
      BY <2>4, <3>2
    <3>4. /\ r.peer.session.resent = u.session.resent /\ r.peer.loop.walled = None
          /\ ~r.peer.session.caught /\ r.peer.loop.finished = u.loop.finished
      BY <2>5, <3>1, <3>2, <3>3 DEF Leaving, BoxedIn, ClaimsSurvival
    <3>5. t.step <= 1 => r.peer.loop.finished = None
      BY <1>1, <2>2, <3>1, <3>4 DEF Mild, BoxedIn
    <3> QED BY <2>3, <3>1, <3>4, <3>5 DEF Early, Unwatched
  <2>7. CASE role = Thief
    <3>1. role # Cop
      BY <2>7 DEF Cop, Thief
    <3>2. ASSUME t.step <= 1, ~r.peer.session.resent PROVE r.peer.loop.finished = None
      <4>1. t.step = 1
        BY <1>5, <3>2 DEF Fits
      <4>2. ~u.session.resent
        <5>1. CASE u.session.caught
          <6>1. r.peer.session = u.session
            BY <2>1, <2>4, <5>1 DEF IsPeer, IsRecord
          <6> QED BY <3>2, <6>1
        <5>2. CASE ~u.session.caught
          BY <2>4, <2>5, <3>2, <5>2
        <5> QED BY <5>1, <5>2
      <4>3. ~Holds(s)
        BY <1>5, <2>2, <4>1, <4>2 DEF Door, OfOneGame, Own
      <4>4. /\ s.pos = ThiefStart /\ ~s.caught /\ s.walls = {}
            /\ Len(s.records) <= 1 /\ s.records \in Seq(Nat) /\ s.pos \in Cells
        BY <2>7, <4>3 DEF Early, Untouched, Door, Chained, OnTheBoard
      <4>5. t.claim # s.pos /\ t.barrier # s.pos /\ ~t.win
        BY <2>7, <4>1, <4>4 DEF Mild
      <4>6. u.session.walls \subseteq {t.barrier}
        BY <2>2, <4>4
      <4>7. ~BoxedIn(u.session)
        BY <2>1, <4>6, OneWall DEF BoxedIn, OnTheBoard
      <4>8. ~u.session.caught /\ u.loop.finished = None /\ u.loop.walled = None
        BY <1>1, <2>2, <4>1, <4>4, <4>5, <4>7 DEF Entering
      <4>9. PICK d \in Decisions(u.session) : r.peer = TakeTurn(u, ReplyStep(u, t.step), d, t.game)
        BY <2>4, <4>8
      <4>10. d.barrier = None
        BY <3>1, <2>7 DEF Decisions
      <4>11. r.peer.session.walls = u.session.walls /\ r.peer.session.pos \in Cells
        BY <1>2, <2>5, <4>8, <4>9, <4>10 DEF Door, OnTheBoard
      <4>12. ~BoxedIn(r.peer.session) /\ ~Leaving(r.peer.session, u.loop.walled)
        BY <4>6, <4>8, <4>11, OneWall DEF BoxedIn, Leaving
      <4>13. ~ClaimsSurvival(u.session)
        BY <2>2, <4>4, ServedAssumption DEF ClaimsSurvival, SurvivalReached
      <4> QED BY <2>5, <4>8, <4>9, <4>12, <4>13
    <3> QED BY <2>3, <3>1, <3>2 DEF Early, Unwatched
  <2> QED BY <2>6, <2>7
<1> QED BY <1>3, <1>4, <1>5

-----------------------------------------------------------------------------
(* The turns. *)

\* Where a turn of the driver's sub-game arrives, that sub-game is not on file from a
\* session whose turns came once.
LEMMA ArrivedOnce ==
    ASSUME Inv, Files, Single(peer, driver), driver.over = None, driver.game.id > 0,
           NEW t, Fits(t, peer.session), t.game = driver.game, driver.step <= t.step
    PROVE  LET w == Arrived(peer, t) IN
           /\ Early(w.session) /\ Unwatched(w)
           /\ Key(w) \notin w.recorder.recorded
           /\ FiledApart(w.recorder) /\ AllBegun(w.recorder)
           /\ Clear(w.recorder, driver.game)
           /\ w = peer \/ ~Played(w)
<1> DEFINE w == Arrived(peer, t)
           u == Restart(peer, 0)
<1>1. w = peer \/ (w = u /\ t.step <= 1)
  BY DEF Arrived
<1>2. Key(w) \in w.recorder.recorded => ~t.nil /\ w.session.owner = t.game
  BY FiledIsOurs
<1>3. IsPeer(peer) /\ Door(peer) /\ role \in {Cop, Thief} /\ Listed(peer.recorder.filed)
  BY DEF Inv, Door, Files, Filed, Kept
<1>4. /\ Played(peer) => /\ Renewed(u.session) /\ Adds(u.recorder, peer, peer.loop.finished)
                         /\ u.loop = None
      /\ ~Played(peer) => /\ Marked(u.session, peer.session)
                          /\ u.recorder.filed = peer.recorder.filed
                          /\ u.loop = peer.loop
  BY <1>3, RestartMarks, RestartEffect
<1> HIDE DEF w, u
<1>5. /\ driver.game # None /\ Owned(peer) /\ Early(peer.session) /\ Once(peer) /\ AtIt(peer, driver)
  BY DEF Single, Opens
<1>6. Clear(peer.recorder, driver.game)
  BY <1>5 DEF Once, AtIt, Clear, Absent
<1>7. CASE w = peer
  <2>1. Key(w) \notin w.recorder.recorded
    BY <1>2, <1>5, <1>7 DEF AtIt
  <2> QED BY <1>5, <1>6, <1>7, <2>1 DEF Once, Owned, w
<1>8. CASE w = u /\ t.step <= 1 /\ Played(peer)
  <2>1. Early(w.session) /\ Unwatched(w) /\ ~Played(w)
    BY <1>3, <1>4, <1>8, RenewedIsEarly DEF Unwatched, Played
  <2>2. Key(w) \notin w.recorder.recorded
    BY <1>2, <1>4, <1>5, <1>8 DEF Renewed
  <2>3. peer.loop.finished # None => Begun(peer.session.owner)
    BY <1>5, <1>8 DEF Owned
  <2>4. /\ FiledApart(w.recorder) /\ AllBegun(w.recorder)
        /\ \A game : /\ Clear(peer.recorder, game)
                     /\ game = peer.session.owner => peer.session.resent \/ peer.loop.finished = None
                     => Clear(w.recorder, game)
    BY <1>3, <1>4, <1>5, <1>8, <2>3, AddsKeeps
  <2>5. driver.game = peer.session.owner => peer.session.resent \/ peer.loop.finished = None
    <3>1. driver.step <= 1
      BY <1>3, <1>8 DEF Inv, Caller, Fits
    <3> QED BY <1>5, <3>1 DEF AtIt
  <2>6. Clear(w.recorder, driver.game)
    BY <1>6, <2>4, <2>5
  <2> QED BY <2>1, <2>2, <2>4, <2>6 DEF w
<1>9. CASE w = u /\ ~Played(peer)
  <2>1. Early(w.session) /\ Unwatched(w) /\ ~Played(w)
    BY <1>4, <1>5, <1>9, MarkedIsEarly DEF Unwatched, Owned, Played
  <2>2. w.session.owner = None
    BY <1>4, <1>5, <1>9 DEF Marked, Owned
  <2>3. Key(w) \notin w.recorder.recorded
    BY <1>2, <1>5, <2>2
  <2>4. FiledApart(w.recorder) /\ AllBegun(w.recorder) /\ Clear(w.recorder, driver.game)
    BY <1>4, <1>5, <1>6, <1>9 DEF Once, FiledApart, AllBegun, Clear
  <2> QED BY <2>1, <2>3, <2>4 DEF w
<1> QED BY <1>1, <1>7, <1>8, <1>9

\* Silence takes nobody.
LEMMA HearsSilence ==
    ASSUME NEW d, IsRecord(d, DriverFields), d.walls = {}, d.pos \in Cells, d.over = None
    PROVE  Hears(d, Silence).over = None
<1>1. HasEscape(d.pos, {} \cup {}) /\ None # d.pos
  BY OpenBoard, Values
<1> QED BY <1>1 DEF Hears, Silence, IsRecord, DriverFields

LEMMA SubmitTurnOnce ==
    ASSUME SurvivalThreshold > 1, Inv, Files, Single(peer, driver), NEW t, NEW sent,
           SubmitTurn(t, sent), Fits(t, peer.session), Sends(sent, t), Playing(driver),
           Plays(t, sent)
    PROVE  Single(peer', driver')
<1> DEFINE w == Arrived(peer, t)
<1>1. PICK r \in Answers(w, t) :
        /\ peer' = r.peer
        /\ driver' = Hears(sent, r.answer) \/ driver' = [sent EXCEPT !.unheard = t]
  BY DEF SubmitTurn
<1>2. /\ Door(w) /\ Fits(t, w.session)
      /\ t.nil => ~Holds(w.session)
      /\ ~t.nil => Own(w.session, t.game)
  BY ArrivedEffect DEF Inv
<1>3. /\ Filed(w) /\ Untouched(w.session)
      /\ t.step <= 1 => w.loop = None \/ w.loop.finished = None
  BY ArrivedFiles DEF Inv, Files
<1>4. t.game = driver.game /\ driver.game.id > 0 /\ driver.over = None /\ driver.step <= t.step
  BY DEF Sends, Playing, Plays
<1>5. /\ Early(w.session) /\ Unwatched(w)
      /\ Key(w) \notin w.recorder.recorded
      /\ FiledApart(w.recorder) /\ AllBegun(w.recorder)
      /\ Clear(w.recorder, driver.game)
      /\ w = peer \/ ~Played(w)
  BY <1>4, ArrivedOnce
<1> HIDE DEF w
<1>6. Door(r.peer) /\ Stays(r.peer, w) /\ r.peer.loop # None
  BY <1>2, AnswersEffect
<1>7. /\ Early(r.peer.session) /\ Unwatched(r.peer)
      /\ \/ r.peer.session.owner = t.game /\ Played(r.peer)
         \/ t.nil /\ r.answer = Silence /\ r.peer = WithLoop(w) /\ ~MayAct(r.peer)
      /\ t.step <= 1 /\ ~r.peer.session.resent => r.peer.loop.finished = None
  BY <1>2, <1>3, <1>5, AnswersOnce DEF Inv, Plays
<1>8. /\ driver'.game = driver.game /\ driver'.step = t.step /\ driver'.handed = sent.handed
      /\ \/ driver'.unheard = None
         \/ /\ driver'.unheard = t /\ driver'.walls = sent.walls
            /\ driver'.pos = sent.pos /\ driver'.over = sent.over
  <2>1. IsRecord(sent, DriverFields) /\ sent.game = driver.game /\ sent.step = t.step
    BY DEF Sends
  <2> DEFINE h == Hears(sent, r.answer)
             m == [sent EXCEPT !.unheard = t]
  <2>2. /\ h.game = sent.game /\ h.step = sent.step /\ h.handed = sent.handed /\ h.unheard = None
    BY <2>1, HearsEffect
  <2>3. /\ m.game = sent.game /\ m.step = sent.step /\ m.handed = sent.handed /\ m.unheard = t
        /\ m.walls = sent.walls /\ m.pos = sent.pos /\ m.over = sent.over
    BY <2>1 DEF IsRecord, DriverFields
  <2>4. driver' = h \/ driver' = m
    BY <1>1
  <2> HIDE DEF h, m
  <2> QED BY <2>1, <2>2, <2>3, <2>4
<1>9. Opens(driver')
  <2>1. driver.game # None
    BY DEF Single, Opens
  <2> QED BY <1>8, <2>1 DEF Opens, Plays
<1>10. Idle(peer', driver')
  BY <1>4, <1>8 DEF Idle, Inv, Caller
<1>11. /\ r.peer.recorder = w.recorder /\ Key(r.peer) = Key(w)
  BY <1>6 DEF Stays, Key
<1>12. driver.game # None /\ Begun(driver.game)
  BY <1>4 DEF Single, Opens, Begun, Files, Numbered
<1>13. CASE r.peer.session.owner = t.game /\ Played(r.peer)
  <2>1. Owned(r.peer)
    BY <1>4, <1>7, <1>12, <1>13 DEF Owned
  <2>2. Once(r.peer)
    BY <1>4, <1>5, <1>11, <1>13 DEF Once
  <2>3. AtIt(r.peer, driver')
    <3>1. ~(driver'.step = 0 /\ ~driver'.handed)
      BY <1>8 DEF Plays
    <3> QED BY <1>4, <1>5, <1>7, <1>8, <1>11, <1>13, <3>1 DEF AtIt
  <2> QED BY <1>1, <1>7, <1>9, <1>10, <2>1, <2>2, <2>3 DEF Single
<1>14. CASE t.nil /\ r.answer = Silence /\ r.peer = WithLoop(w) /\ ~MayAct(r.peer)
  <2>1. w = peer /\ r.peer = peer
    <3>1. /\ r.peer.session = w.session /\ r.peer.recorder = w.recorder
          /\ r.peer.loop = IF w.loop = None THEN NewLoop ELSE w.loop
          /\ IsPeer(r.peer) /\ IsPeer(w)
      BY <1>2, <1>14, WithLoopEffect DEF Door
    <3>2. r.peer.loop.round \in Nat /\ w.session.seen \in Nat
      BY <1>2, <1>6, <3>1 DEF Door, IsPeer, Loops, Chained
    <3>3. r.peer.loop.round > 0
      BY <1>14, <3>1, <3>2 DEF MayAct
    <3>4. w.loop # None /\ r.peer.loop = w.loop
      BY <3>1, <3>3 DEF NewLoop
    <3>5. Played(w)
      BY <3>3, <3>4 DEF Played
    <3> QED BY <1>5, <1>14, <3>4, <3>5 DEF WithLoop
  <2>2. t.step = 0
    BY <1>14 DEF Fits
  <2>3. driver'.over = None
    <3>1. Hears(sent, r.answer).over = None
      BY <1>14, <2>2, HearsSilence DEF Plays, Sends
    <3>2. [sent EXCEPT !.unheard = t].over = None
      BY <2>2 DEF Plays, Sends, IsRecord, DriverFields
    <3> QED BY <1>1, <3>1, <3>2
  <2>4. AtIt(peer, driver')
    <3>1. driver'.handed /\ driver.step <= 1
      BY <1>8, <1>4, <2>2 DEF Plays, Inv, Caller
    <3> QED BY <1>4, <1>8, <2>2, <2>3, <3>1 DEF Single, AtIt
  <2> QED BY <1>1, <1>9, <1>10, <2>1, <2>4 DEF Single
<1> QED BY <1>7, <1>13, <1>14

-----------------------------------------------------------------------------
(* The calls that carry no turn. *)

LEMMA HelloOnce ==
    ASSUME OneCaller, Inv, Files, Single(peer, driver), NEW g \in Callers, Hello(g)
    PROVE  Single(peer', driver')
<1> DEFINE noted == NoteCaller(peer, g)
           w == AtTheDoor(noted, g, 0)
<1>1. /\ Door(noted) /\ noted.session = peer.session /\ noted.loop = peer.loop
      /\ noted.recorder.recorded = peer.recorder.recorded
      /\ noted.recorder.filed = peer.recorder.filed
      /\ peer.recorder.opponent = g => noted = peer
  BY NoteCallerKeepsDoor, NoteCallerEffect DEF Inv, Door
<1>2. /\ peer' = w
      /\ driver' = IF g # driver.game.group /\ w.session.opponent = g
                     THEN NewSubGame(g, 0, 0) ELSE driver
  BY DEF Hello
<1> HIDE DEF noted
<1>3. CASE driver.game.group # None
  <2>1. driver.game.group = g /\ peer.recorder.opponent = g /\ peer.session.opponent = g
    BY <1>3 DEF OneCaller, Files, Known, Inv, Caller
  <2>2. w = peer
    BY <1>1, <2>1, AtTheDoorKeepsDoor
  <2> HIDE DEF w
  <2> QED BY <1>2, <2>1, <2>2
<1>4. CASE driver.game.group = None
  <2> DEFINE z == Adopt(noted.session, g)
             v == [noted EXCEPT !.session = z]
  <2>1. /\ peer.loop = None /\ peer.recorder.recorded = {} /\ peer.recorder.filed = <<>>
        /\ peer.session.owner = None /\ ~Played(peer) /\ Early(peer.session)
        /\ driver.game # None
    BY <1>4 DEF Single, Idle, Owned, Played, Opens
  <2>2. w = v
    BY <1>1, <2>1 DEF AtTheDoor
  <2> HIDE DEF w
  <2>3. IsPeer(noted) /\ IsRecord(noted.session, SessionFields)
    BY <1>1 DEF Door, IsPeer
  <2>4. /\ z.owner = peer.session.owner /\ z.held = peer.session.held
        /\ z.resent = peer.session.resent /\ z.caught = peer.session.caught
        /\ z.pos \in {peer.session.pos, StartOf(role)}
    BY <1>1, <2>3 DEF Adopt, IsRecord, SessionFields
  <2>5. IsRecord(z, SessionFields)
    BY <2>3, AdoptEffect
  <2> HIDE DEF z
  <2>6. v.session = z /\ v.loop = noted.loop /\ v.recorder = noted.recorder
    BY <2>3, <2>5, WithSession
  <2> HIDE DEF v
  <2>7. Early(v.session)
    BY <2>1, <2>4, <2>6 DEF Early, Holds, StartOf, Cop, Thief
  <2>8. /\ v.loop = None /\ v.recorder.recorded = {} /\ v.recorder.filed = <<>>
        /\ v.session.owner = None
    BY <1>1, <2>1, <2>4, <2>6
  <2>9. Owned(v) /\ Once(v)
    BY <2>8 DEF Owned, Played, Unwatched, Once, FiledApart, AllBegun, Clear
  <2>10. driver'.game # None /\ driver'.over = None /\ Opens(driver')
    <3>1. CASE driver' = driver
      BY <2>1, <3>1 DEF Single, AtIt
    <3>2. CASE driver' = NewSubGame(g, 0, 0)
      BY <3>2, ServedAssumption, NewSubGameOpens DEF Opens
    <3> QED BY <1>2, <3>1, <3>2
  <2>11. AtIt(v, driver') /\ Idle(v, driver')
    BY <2>8, <2>10 DEF AtIt, Absent, Idle
  <2> QED BY <1>2, <2>2, <2>7, <2>9, <2>10, <2>11 DEF Single
<1> QED BY <1>3, <1>4

LEMMA BeginOnce ==
    ASSUME Files, Single(peer, driver), Begin
    PROVE  Single(peer, driver)' /\ role' = role
<1>1. /\ begun' = begun + 1 /\ begun \in Nat /\ begun < MaxGames
      /\ driver.game.group # None /\ peer' = peer /\ role' = role
  BY DEF Begin, Files, Numbered
<1>2. PICK n \in {0} \cup Numbers : driver' = NewSubGame(driver.game.group, begun', n)
  BY ServedAssumption DEF Begin, Numbers
<1>3. begun' \in 0 .. MaxGames
  BY <1>1, ServedAssumption
<1>4. driver.game.group \in Groups
  BY <1>1, ServedAssumption DEF Files, Known
<1>5. /\ Opens(driver') /\ driver'.over = None /\ driver'.step = 0 /\ ~driver'.handed
      /\ driver'.game.id = begun' /\ driver'.game.group = driver.game.group
  BY <1>2, <1>3, <1>4, NewSubGameOpens, NewSubGameEffect
<1>6. ASSUME NEW game, Begun(game) PROVE Begun(game)' /\ game # driver'.game
  BY <1>1, <1>5, <1>6 DEF Begun
<1>7. Owned(peer)' /\ Early(peer.session)' /\ Once(peer)'
  BY <1>1, <1>6 DEF Single, Owned, Unwatched, Played, Early, Once, FiledApart, AllBegun, Clear, Key
<1>8. AtIt(peer, driver)'
  <2>1. peer.session.owner # driver'.game
    BY <1>1, <1>5, <1>6 DEF Single, Owned, Opens
  <2>2. Absent(peer.recorder, driver'.game)
    BY <1>6 DEF Single, Once, AllBegun, Absent
  <2> QED BY <1>1, <1>5, <2>1, <2>2 DEF AtIt
<1>9. Idle(peer, driver)' /\ Opens(driver)'
  BY <1>1, <1>5 DEF Idle, Opens, Other, StartOf, Mild
<1> QED BY <1>1, <1>7, <1>8, <1>9 DEF Single

LEMMA DeclareOnce ==
    ASSUME OneCaller, Inv, Files, Single(peer, driver), NEW clash \in BOOLEAN, Declare(clash)
    PROVE  Single(peer', driver')
<1> DEFINE g == driver.game.group
           n == driver.game.number
           u == Restart(peer, n)
           z == NoteDeclaration(u.session, n)
           c == [z EXCEPT !.clash = clash]
           v == [u EXCEPT !.session = c]
<1>1. /\ driver.game.id > 0 /\ g # None /\ peer.session.opponent = g
      /\ driver.step = 0 /\ ~driver.handed
  BY DEF Declare, Playing, Inv, Caller
<1>2. NoteCaller(peer, g) = peer
  BY <1>1, NoteCallerEffect DEF Files, Known, Inv, Door
<1>3. AtTheDoor(peer, g, n) = peer
  BY <1>1, AtTheDoorKeepsDoor DEF Inv
<1>4. peer' = v
  BY <1>1, <1>2, <1>3 DEF Declare
<1>5. /\ Door(u) /\ Filed(u)
      /\ Played(peer) => /\ u.loop = None /\ Renewed(u.session)
                         /\ Adds(u.recorder, peer, peer.loop.finished)
      /\ ~Played(peer) => /\ u.loop = peer.loop /\ Marked(u.session, peer.session)
                          /\ u.recorder.filed = peer.recorder.filed
  BY RestartKeepsDoor, RestartFiles, RestartEffect, RestartMarks DEF Inv, Files, Door
<1> HIDE DEF u
<1>6. IsRecord(z, SessionFields) /\ Marked(z, u.session) /\ z.sub = u.session.sub
  BY <1>5, NoteDeclarationEffect, NotedMarks DEF Door, IsPeer
<1> HIDE DEF z
<1>7. IsRecord(c, SessionFields) /\ Marked(c, z) /\ c.sub = z.sub
  BY <1>6 DEF IsRecord, SessionFields, Marked
<1> HIDE DEF c
<1>8. v.session = c /\ v.loop = u.loop /\ v.recorder = u.recorder
  BY <1>5, <1>7, WithSession DEF Door
<1> HIDE DEF v
<1>9. Key(v) = Key(u) /\ Marked(v.session, u.session)
  BY <1>6, <1>7, <1>8 DEF Key, Marked
<1>10. /\ Owned(peer) /\ Early(peer.session) /\ Once(peer) /\ AtIt(peer, driver) /\ Opens(driver)
       /\ role \in {Cop, Thief} /\ Listed(peer.recorder.filed)
  BY DEF Single, Inv, Files, Filed, Kept
<1>11. ~Played(v) /\ ~Played(u) /\ Unwatched(v) /\ v.session.owner = None /\ Early(v.session)
  <2>1. CASE Played(peer)
    BY <1>5, <1>8, <1>9, <1>10, <2>1, RenewedIsEarly, MarkedIsEarly
       DEF Played, Unwatched, Renewed, Marked
  <2>2. CASE ~Played(peer)
    <3>1. Marked(v.session, peer.session)
      BY <1>5, <1>9, <2>2 DEF Marked
    <3> QED BY <1>5, <1>8, <1>10, <2>2, <3>1, MarkedIsEarly DEF Played, Unwatched, Owned, Marked
  <2> QED BY <2>1, <2>2
<1>12. Key(v) \notin v.recorder.recorded
  BY <1>5, <1>8, <1>9, <1>11, UnplayedUnfiled
<1>13. Absent(peer.recorder, driver.game) /\ driver.game # peer.session.owner
  BY <1>1, <1>10 DEF AtIt
<1>14. FiledApart(v.recorder) /\ AllBegun(v.recorder) /\ Absent(v.recorder, driver.game)
  <2>1. CASE Played(peer)
    <3>1. peer.loop.finished # None => Begun(peer.session.owner)
      BY <1>10, <2>1 DEF Owned
    <3> QED BY <1>5, <1>8, <1>10, <1>13, <2>1, <3>1, AddsKeeps
  <2>2. CASE ~Played(peer)
    BY <1>5, <1>8, <1>10, <1>13, <2>2 DEF Once, FiledApart, AllBegun, Absent
  <2> QED BY <2>1, <2>2
<1>15. Owned(v) /\ Once(v)
  BY <1>11, <1>14 DEF Owned, Once, AllBegun, Clear, Begun
<1>16. /\ driver'.game = driver.game /\ driver'.over = driver.over /\ driver'.step = driver.step
       /\ driver'.handed = driver.handed /\ driver'.unheard = driver.unheard
       /\ driver'.walls = driver.walls /\ driver'.pos = driver.pos
  BY DEF Declare, Inv, Caller, IsRecord, DriverFields
<1>17. Opens(driver')
  BY <1>10, <1>16 DEF Opens
<1>18. AtIt(v, driver') /\ Idle(v, driver')
  BY <1>1, <1>10, <1>11, <1>13, <1>14, <1>16 DEF AtIt, Idle, Opens
<1> QED BY <1>4, <1>11, <1>15, <1>17, <1>18 DEF Single

\* Marks on a session that is over are no new sub-game.
LEMMA RemarkOnce ==
    ASSUME NEW w, NEW d, Single(w, d), d.over # None, d.game.group # None,
           NEW v, v.recorder = w.recorder, v.session.sub = w.session.sub,
           v.session.owner = w.session.owner, Early(v.session), Unwatched(v),
           Played(w) => Played(v)
    PROVE  Single(v, d)
<1>1. Key(v) = Key(w)
  BY DEF Key
<1>2. Owned(v)
  BY DEF Single, Owned, AtIt, Opens
<1> QED BY <1>1, <1>2 DEF Single, Once, AtIt, Idle

\* A driver that saw an ending: the session is of its sub-game, and was played.
LEMMA EndingSeen ==
    ASSUME Single(peer, driver), driver.over # None
    PROVE  /\ peer.session.owner = driver.game /\ Begun(driver.game)
           /\ Played(peer) /\ peer.loop # None /\ WithLoop(peer) = peer
BY DEF Single, AtIt, Opens, Owned, Played, WithLoop

LEMMA ConfirmResultOnce ==
    ASSUME Inv, Single(peer, driver), ConfirmResult
    PROVE  Single(peer', driver')
<1>1. driver.over # None /\ driver.game.group # None
  BY DEF ConfirmResult, Playing, Inv, Caller
<1>2. Played(peer) /\ peer.loop # None /\ WithLoop(peer) = peer
  BY <1>1, EndingSeen
<1>3. PICK ending, cell :
        peer' = [peer EXCEPT !.session.ended = RecordEnding(@, ending),
                             !.loop = Concede(@, ending, cell)]
  BY <1>2 DEF ConfirmResult
<1> DEFINE x == RecordEnding(peer.session.ended, ending)
           z == [peer.session EXCEPT !.ended = x]
           l == Concede(peer.loop, ending, cell)
           v == [peer EXCEPT !.session = z, !.loop = l]
<1>4. IsPeer(peer) /\ IsRecord(peer.session, SessionFields) /\ peer.loop \in Loops
  BY <1>2 DEF Inv, Door, IsPeer
<1>5. Marked(z, peer.session) /\ z.sub = peer.session.sub
  BY <1>4 DEF IsRecord, SessionFields, Marked
<1>6. /\ l \in Loops /\ l.round = peer.loop.round /\ l.walled = peer.loop.walled
      /\ peer.loop.finished # None => l.finished # None
  <2>1. l.walled = peer.loop.walled
    BY <1>4 DEF Concede, Loops
  <2> QED BY <1>4, <2>1, ConcedeEffect
<1>7. peer' = v
  BY <1>3, <1>4 DEF IsPeer, IsRecord
<1> HIDE DEF z, l, x
<1>8. v.session = z /\ v.loop = l /\ v.recorder = peer.recorder
  BY <1>4 DEF IsPeer, IsRecord
<1> HIDE DEF v
<1>9. Played(v) /\ Unwatched(v)
  BY <1>2, <1>6, <1>8, Values DEF Played, Unwatched, Single, Owned
<1>10. Early(v.session) /\ v.session.owner = peer.session.owner
  BY <1>5, <1>8, MarkedIsEarly DEF Single, Marked
<1>11. Single(v, driver)
  BY <1>1, <1>5, <1>8, <1>9, <1>10, RemarkOnce
<1>12. /\ driver'.game = driver.game /\ driver'.over = driver.over /\ driver'.step = driver.step
       /\ driver'.handed = driver.handed /\ driver'.unheard = driver.unheard
       /\ driver'.walls = driver.walls /\ driver'.pos = driver.pos
  BY DEF ConfirmResult, Inv, Caller, IsRecord, DriverFields
<1>13. Opens(driver')
  BY <1>11, <1>12 DEF Single, Opens
<1>14. AtIt(v, driver') /\ Idle(v, driver')
  BY <1>11, <1>12 DEF Single, AtIt, Idle
<1> QED BY <1>7, <1>11, <1>13, <1>14 DEF Single

LEMMA FinalAuditOnce ==
    ASSUME Inv, Single(peer, driver), FinalAudit
    PROVE  Single(peer', driver')
<1> DEFINE x == RecordEnding(peer.session.ended, driver.over)
           z == [peer.session EXCEPT !.ended = x]
           v == [peer EXCEPT !.session = z]
<1>1. driver.over # None /\ driver.game.group # None /\ driver' = driver
  BY DEF FinalAudit, Playing, Inv, Caller
<1>2. IsPeer(peer) /\ IsRecord(peer.session, SessionFields)
  BY DEF Inv, Door, IsPeer
<1>3. Marked(z, peer.session) /\ z.sub = peer.session.sub
  BY <1>2 DEF IsRecord, SessionFields, Marked
<1>4. peer' = v
  BY <1>2 DEF FinalAudit, IsPeer, IsRecord
<1> HIDE DEF z, x
<1>5. v.session = z /\ v.loop = peer.loop /\ v.recorder = peer.recorder
  BY <1>2 DEF IsPeer, IsRecord
<1> HIDE DEF v
<1>6. Early(v.session) /\ v.session.owner = peer.session.owner
  BY <1>3, <1>5, MarkedIsEarly DEF Single, Marked
<1>7. Unwatched(v) /\ (Played(peer) => Played(v))
  BY <1>5 DEF Unwatched, Played, Single, Owned
<1>8. Single(v, driver)
  BY <1>1, <1>3, <1>5, <1>6, <1>7, RemarkOnce
<1> QED BY <1>1, <1>4, <1>8

LEMMA AgreeResultOnce ==
    ASSUME Inv, Files, Single(peer, driver), AgreeResult
    PROVE  Single(peer', driver')
<1> DEFINE boxed == peer.loop.finished = None /\ BoxedIn(peer.session)
           z == [peer.session EXCEPT !.caught = @ \/ boxed]
           read == [peer EXCEPT !.session = z]
           ending == Outcome(peer)
           v == Settle(read, ending)
<1>1. driver.over # None /\ driver.game.group # None /\ driver' = driver
  BY DEF AgreeResult, Playing, Inv, Caller
<1>2. /\ peer.session.owner = driver.game /\ Begun(driver.game)
      /\ Played(peer) /\ WithLoop(peer) = peer
  BY <1>1, EndingSeen
<1>3. peer' = Settle([peer EXCEPT !.session.caught = @ \/ boxed], ending)
  BY <1>2 DEF AgreeResult
<1> HIDE DEF boxed, ending
<1>4. IsPeer(peer) /\ IsRecord(peer.session, SessionFields)
  BY DEF Inv, Door, IsPeer
<1>5. /\ IsRecord(z, SessionFields) /\ z.sub = peer.session.sub /\ z.owner = peer.session.owner
      /\ z.held = peer.session.held /\ z.resent = peer.session.resent
      /\ z.pos = peer.session.pos /\ z.caught = (peer.session.caught \/ boxed)
  BY <1>4 DEF IsRecord, SessionFields
<1>6. peer' = v
  BY <1>3, <1>4 DEF IsPeer, IsRecord
<1> HIDE DEF z
<1>7. IsPeer(read) /\ read.session = z /\ read.loop = peer.loop /\ read.recorder = peer.recorder
  BY <1>4, <1>5, WithSession
<1> HIDE DEF read
<1>8. boxed => role = Thief /\ Holds(peer.session)
  BY OpenBoard DEF boxed, BoxedIn, Files, Untouched, Inv, Door, OnTheBoard
<1>9. Early(read.session)
  BY <1>5, <1>7, <1>8 DEF Single, Early, Holds, Cop, Thief
<1>10. Unwatched(read) /\ Played(read)
  BY <1>2, <1>7 DEF Unwatched, Played, Single, Owned
<1>11. Single(read, driver)
  BY <1>1, <1>5, <1>7, <1>9, <1>10, RemarkOnce
<1>12. /\ v.session = read.session /\ v.loop = read.loop
       /\ v.recorder.opponent = read.recorder.opponent /\ v.recorder.series = read.recorder.series
       /\ v.recorder = read.recorder \/ ending # None
       /\ ending # None => Key(read) \in v.recorder.recorded
       /\ Adds(v.recorder, read, ending)
  BY <1>7, SettleEffect, SettleAdds
<1> HIDE DEF v
<1>13. Key(v) = Key(read)
  BY <1>12 DEF Key
<1>14. FiledApart(v.recorder) /\ AllBegun(v.recorder)
  <2>1. Once(read) /\ Begun(read.session.owner)
    BY <1>2, <1>5, <1>7, <1>11 DEF Single
  <2>2. Listed(read.recorder.filed)
    BY <1>7 DEF Files, Filed, Kept
  <2> QED BY <1>12, <2>1, <2>2, AddsKeeps
<1>15. Once(v)
  BY <1>11, <1>12, <1>13, <1>14 DEF Once, Single
<1>16. Owned(v) /\ Early(v.session)
  BY <1>11, <1>12 DEF Single, Owned, Unwatched, Played
<1>17. AtIt(v, driver) /\ Idle(v, driver)
  BY <1>1, <1>2, <1>5, <1>7, <1>11, <1>12 DEF Single, AtIt, Idle
<1> QED BY <1>1, <1>6, <1>11, <1>15, <1>16, <1>17 DEF Single

-----------------------------------------------------------------------------
LEMMA InitiallyOnce == Init => Single(peer, driver)
<1> SUFFICES ASSUME Init PROVE Single(peer, driver)
  OBVIOUS
<1>1. driver = NewSubGame(None, 0, 0) /\ role \in {Cop, Thief}
  BY DEF Init
<1>2. Opens(driver) /\ driver.over = None
  BY <1>1, ServedAssumption, NewSubGameOpens
<1>3. /\ peer.session = FreshSession(1, GameGroup) /\ peer.loop = None
      /\ peer.recorder.recorded = {} /\ peer.recorder.filed = <<>>
  BY DEF Init
<1>4. Renewed(peer.session)
  BY <1>3 DEF FreshSession, Renewed
<1>5. Early(peer.session) /\ peer.session.owner = None
  BY <1>1, <1>4, RenewedIsEarly DEF Renewed
<1>6. Owned(peer) /\ Once(peer)
  BY <1>3, <1>5 DEF Owned, Played, Unwatched, Once, FiledApart, AllBegun, Clear
<1>7. AtIt(peer, driver) /\ Idle(peer, driver)
  BY <1>2, <1>3, <1>5 DEF AtIt, Absent, Idle, Opens
<1> QED BY <1>2, <1>5, <1>6, <1>7 DEF Single

LEMMA EveryStepOnce ==
    ASSUME OneCaller, SurvivalThreshold > 1, ApartAtStart, Inv, Files, Single(peer, driver), Next
    PROVE  Single(peer, driver)'
<1>1. ASSUME Single(peer', driver'), role' = role, begun' = begun PROVE Single(peer, driver)'
  BY <1>1 DEF Single, Owned, Unwatched, Begun, Early, Once, FiledApart, AllBegun, Clear, Absent,
              Key, Played, AtIt, Idle, Opens, Other, StartOf, Mild, Holds
<1>2. CASE \E g \in Callers : Hello(g)
  BY <1>1, <1>2, HelloOnce DEF Hello
<1>3. CASE Begin
  BY <1>3, BeginOnce
<1>4. CASE \E clash \in BOOLEAN : Declare(clash)
  BY <1>1, <1>4, DeclareOnce DEF Declare
<1>5. CASE Handover \/ ThiefTurn \/ CopTurn \/ SendAgain
  <2>1. ATurn /\ role' = role /\ begun' = begun
    BY <1>5, HandoverIsATurn, ThiefTurnIsATurn, CopTurnIsATurn, SendAgainIsATurn
       DEF Handover, ThiefTurn, CopTurn, SendAgain
  <2>2. Fair
    BY DEF Single, Fair
  <2> QED BY <1>1, <2>1, <2>2, SubmitTurnOnce DEF ATurn
<1>6. CASE ConfirmResult
  BY <1>1, <1>6, ConfirmResultOnce DEF ConfirmResult
<1>7. CASE FinalAudit
  BY <1>1, <1>7, FinalAuditOnce DEF FinalAudit
<1>8. CASE AgreeResult
  BY <1>1, <1>8, AgreeResultOnce DEF AgreeResult
<1> QED BY <1>2, <1>3, <1>4, <1>5, <1>6, <1>7, <1>8 DEF Next

\* At a door that one team calls, from starts that are not neighbours, a sub-game is
\* filed once from sessions that no turn came twice to, however often its result is
\* agreed and whatever the driver gives up and starts over (ServedRecorder.settle).
\* Neighbouring starts would not do: a first turn that captures, its answer lost, is
\* sent again to a sub-game that is over, and starts the next one.
THEOREM OneSetPerSubGame ==
    ASSUME OneCaller, SurvivalThreshold > 1, ApartAtStart
    PROVE  Spec => []FiledOnce
<1> DEFINE All == Inv /\ Files /\ Single(peer, driver)
<1>1. Init => All
  BY Initially, InitiallyFiles, InitiallyOnce
<1>2. All /\ [Next]_vars => All'
  <2> SUFFICES ASSUME All, [Next]_vars PROVE All'
    OBVIOUS
  <2>1. CASE UNCHANGED vars
    BY <2>1 DEF vars, Inv, Caller, Files, Numbered, Known, Untouched, Single, Owned, Unwatched,
                Begun, Early, Once, FiledApart, AllBegun, Clear, Absent, Key, Played, AtIt, Idle,
                Opens, Other, StartOf, Mild, Holds
  <2>2. CASE Next
    BY <2>2, EveryStepKeepsInv, EveryStepFiles, EveryStepOnce
  <2> QED BY <2>1, <2>2
<1>3. All => FiledOnce
  BY DEF Single, Once, FiledApart, FiledOnce, recorder
<1> HIDE DEF All
<1> QED BY <1>1, <1>2, <1>3, PTL DEF Spec

-----------------------------------------------------------------------------
(* Both sides read a sub-game that is over alike.                           *)

\* The driver's ending is one that we observed, or that our records bear out: a thief
\* said it was caught or that it survived; a cop has a record for each of their turns,
\* and holds a capture only where one was conceded.
Agreeing(w, d) ==
    LET s == w.session
        l == w.loop IN
    /\ role = Thief =>
         /\ d.over = Capture => l # None /\ l.finished = Capture
         /\ d.over = Survival => s.caught \/ (l # None /\ l.finished = Survival)
    /\ role = Cop =>
         /\ Len(s.records) >= d.step
         /\ d.step > 0 /\ d.over # Capture => l.finished # Capture
         /\ d.confirmed => /\ l # None
                           /\ d.over = Capture /\ d.pos = l.claimed => l.finished = Capture

\* A cop is never caught.
Chasing(w) == /\ Unwatched(w)
              /\ role = Cop => ~w.session.caught

\* Something was played in s.
Taken(s) == s.owner # None \/ Holds(s)

Accord(w, d) == /\ Chasing(w) /\ Seeing(d)
                /\ Taken(w.session) /\ w.session.owner = d.game => Agreeing(w, d)

LEMMA ArrivedChasing ==
    ASSUME NEW w, Door(w), Chasing(w), NEW t
    PROVE  LET v == Arrived(w, t) IN
           /\ Chasing(v)
           /\ t.step <= 1 => v.loop = None \/ v.loop.finished = None
<1> DEFINE v == Arrived(w, t)
           restarts == t.step <= 1 /\ (w.loop = None \/ OpenerIsNew(w, t))
           u == Restart(w, 0)
<1>1. v = IF restarts THEN u ELSE w
  BY DEF Arrived
<1>2. /\ Played(w) => u.loop = None /\ Renewed(u.session)
      /\ ~Played(w) => u.loop = w.loop /\ Marked(u.session, w.session)
  BY RestartEffect, RestartMarks DEF Door
<1> HIDE DEF v, u
<1>3. ~restarts /\ t.step <= 1 => w.loop.finished = None
  BY DEF OpenerIsNew
<1> HIDE DEF restarts
<1>4. Chasing(u) /\ (u.loop = None \/ u.loop.finished = None)
  BY <1>2 DEF Chasing, Unwatched, Renewed, Marked, Played
<1> QED BY <1>1, <1>3, <1>4 DEF v

\* What an answer says is what the door holds when it is given.
LEMMA AnswersTruly ==
    ASSUME NEW w, Door(w), Chasing(w), role \in {Cop, Thief},
           NEW t, Fits(t, w.session), role = Cop => t.claim = None,
           t.nil => ~Holds(w.session), ~t.nil => Own(w.session, t.game),
           NEW r \in Answers(w, t)
    PROVE  /\ Chasing(r.peer)
           /\ role = Thief =>
                /\ r.answer.caught => r.peer.loop.finished = Capture
                /\ r.answer.win => r.peer.session.caught \/ r.peer.loop.finished = Survival
           /\ role = Cop =>
                /\ ~r.answer.win
                /\ ~t.nil =>
                     /\ r.peer.session.records = Append(w.session.records, r.peer.loop.round)
                     /\ r.peer.loop.finished = Capture
                        => w.loop # None /\ w.loop.finished = Capture
<1> DEFINE l == WithLoop(w)
           s == w.session
<1>1. /\ Door(l) /\ l.session = w.session /\ l.loop # None
      /\ l.loop.finished = Capture => w.loop # None /\ w.loop.finished = Capture
      /\ Chasing(l)
  BY WithLoopKeepsDoor, WithLoopEffect, Values DEF Door, NewLoop, Chasing, Unwatched
<1>2. Capture # Survival /\ (role = Thief <=> role # Cop)
  BY DEF Capture, Survival, Cop, Thief
<1> HIDE DEF l
<1>3. CASE t.nil
  <2>1. role = Cop
    BY <1>3 DEF Fits
  <2>2. CASE ~MayAct(l)
    <3>1. r.peer = l /\ r.answer = Silence
      BY <1>3, <2>2 DEF Answers, l
    <3> QED BY <1>1, <1>2, <1>3, <2>1, <3>1 DEF Silence
  <2>3. CASE MayAct(l)
    <3> DEFINE n == l.loop.round + 1
               z(d) == TakeTurn(l, n, d, t.game)
    <3>1. PICK d \in Decisions(l.session) :
            r.peer = z(d) /\ r.answer.win = ClaimsSurvival(l.session)
      BY <1>3, <2>3 DEF Answers, l
    <3> HIDE DEF n
    <3>2. LET lost == Leaving(z(d).session, l.loop.walled) \/ BoxedIn(z(d).session) IN
          z(d).loop.walled = None /\ (z(d).session.caught => l.session.caught \/ lost)
      BY <1>1, TakeTurnMarks DEF Door
    <3> HIDE DEF z
    <3>3. ~r.peer.session.caught /\ r.peer.loop.walled = None /\ ~r.answer.win
      BY <1>1, <1>2, <2>1, <3>1, <3>2 DEF Leaving, BoxedIn, ClaimsSurvival, Chasing, Unwatched
    <3> QED BY <1>2, <1>3, <2>1, <3>3 DEF Chasing, Unwatched
  <2> QED BY <2>2, <2>3
<1>4. CASE ~t.nil
  <2> DEFINE u == Absorb(l, t)
             n == ReplyStep(u, t.step)
             z(d) == TakeTurn(u, n, d, t.game)
  <2>1. /\ IsPeer(u) /\ OnTheBoard(u.session) /\ u.loop # None /\ Chained(u)
        /\ Own(u.session, t.game) /\ 1 \in DOMAIN u.session.held
        /\ u.loop.round \in Nat
    BY <1>1, <1>4, AbsorbEffect DEF IsPeer, Loops
  <2>2. /\ u.session.records = l.session.records
        /\ u.session.caught => \/ l.session.caught \/ BoxedIn(u.session)
                               \/ t.claim # None /\ t.claim = l.session.pos
        /\ u.loop.walled = Entering(l.session, t.barrier)
        /\ ~t.win /\ ~BoxedIn(u.session) => u.loop.finished = l.loop.finished
    BY <1>1, AbsorbMarks DEF Door
  <2>3. role = Cop /\ t.win => u.loop.finished = Survival
    BY <1>1 DEF Absorb, Door, IsPeer, IsRecord, Loops
  <2>4. n \in Nat /\ n > u.loop.round
    BY <2>1 DEF ReplyStep, Fits
  <2>5. \/ /\ u.session.caught
           /\ r = [peer   |-> [u EXCEPT !.loop.finished = Capture],
                   answer |-> [Silence EXCEPT !.caught = TRUE]]
        \/ /\ ~u.session.caught
           /\ \E d \in Decisions(u.session) :
                r.peer = z(d) /\ ~r.answer.caught /\ r.answer.win = ClaimsSurvival(u.session)
    BY <1>4 DEF Answers, l, u
  <2> HIDE DEF u, n
  <2>6. ASSUME NEW d \in Decisions(u.session)
        PROVE  LET lost == Leaving(z(d).session, u.loop.walled) \/ BoxedIn(z(d).session) IN
               /\ z(d).loop.walled = None /\ z(d).loop.round = n
               /\ z(d).session.caught <=> u.session.caught \/ lost
               /\ z(d).session.records = Append(u.session.records, n)
               /\ ~lost => z(d).loop.finished = IF ClaimsSurvival(u.session) THEN Survival
                                                                    ELSE u.loop.finished
    BY <2>1, TakeTurnMarks
  <2> HIDE DEF z
  <2>7. CASE role = Cop
    <3>1. role # Thief /\ t.claim = None /\ ~l.session.caught
      BY <1>1, <1>2, <2>7 DEF Chasing
    <3>2. ~u.session.caught /\ u.loop.walled = None
      BY <2>2, <3>1 DEF BoxedIn, Entering
    <3>3. PICK d \in Decisions(u.session) :
            r.peer = z(d) /\ ~r.answer.caught /\ r.answer.win = ClaimsSurvival(u.session)
      BY <2>5, <3>2
    <3>4. ~ClaimsSurvival(u.session) /\ ~BoxedIn(u.session)
      BY <3>1 DEF ClaimsSurvival, BoxedIn
    <3>5. ~(Leaving(z(d).session, u.loop.walled) \/ BoxedIn(z(d).session))
      BY <3>1, <3>2 DEF Leaving, BoxedIn
    <3>6. /\ ~r.peer.session.caught /\ r.peer.loop.walled = None /\ r.peer.loop.round = n
          /\ r.peer.session.records = Append(s.records, n)
          /\ r.peer.loop.finished = u.loop.finished
      BY <1>1, <2>2, <2>6, <3>2, <3>3, <3>4, <3>5
    <3>7. u.loop.finished = Capture => w.loop # None /\ w.loop.finished = Capture
      BY <1>1, <1>2, <2>2, <2>3, <2>7, <3>4
    <3>8. ~r.answer.win
      BY <3>3, <3>4
    <3>9. Chasing(r.peer)
      BY <3>6 DEF Chasing, Unwatched
    <3>10. r.peer.session.records = Append(s.records, r.peer.loop.round)
      BY <3>6
    <3>11. r.peer.loop.finished = Capture => w.loop # None /\ w.loop.finished = Capture
      BY <3>6, <3>7
    <3> QED BY <3>1, <3>8, <3>9, <3>10, <3>11
  <2>8. CASE role = Thief
    <3>1. role # Cop
      BY <1>2, <2>8
    <3>2. CASE u.session.caught
      <4>1. /\ r.peer = [u EXCEPT !.loop.finished = Capture]
            /\ r.answer = [Silence EXCEPT !.caught = TRUE]
        BY <2>5, <3>2
      <4>2. r.peer.loop.finished = Capture /\ ~r.answer.win
        BY <2>1, <4>1 DEF IsPeer, IsRecord, Loops, Silence
      <4> QED BY <3>1, <4>2 DEF Chasing, Unwatched
    <3>3. CASE ~u.session.caught
      BY <2>5, <2>6, <3>1, <3>3 DEF Chasing, Unwatched
    <3> QED BY <3>2, <3>3
  <2> QED BY <1>2, <2>7, <2>8
<1> QED BY <1>3, <1>4


\* What the driver makes of an answer.
LEMMA HearsTruly ==
    ASSUME NEW d, IsRecord(d, DriverFields), NEW a
    PROVE  LET h == Hears(d, a) IN
           /\ h.confirmed = d.confirmed
           /\ d.over # None => h.over = d.over
           /\ d.over = None => \/ h.over = Capture /\ (a.caught \/ role = Cop)
                               \/ h.over = Survival /\ a.win
                               \/ h.over = None
BY DEF Hears, IsRecord, DriverFields

LEMMA SubmitTurnAccord ==
    ASSUME Inv, Accord(peer, driver), NEW t, NEW sent, SubmitTurn(t, sent),
           Fits(t, peer.session), Sends(sent, t), Playing(driver), Reports(t, sent)
    PROVE  Accord(peer', driver')
<1> DEFINE w == Arrived(peer, t)
<1>1. PICK r \in Answers(w, t) :
        /\ peer' = r.peer
        /\ driver' = Hears(sent, r.answer) \/ driver' = [sent EXCEPT !.unheard = t]
  BY DEF SubmitTurn
<1>2. /\ Door(w) /\ Fits(t, w.session)
      /\ t.nil => ~Holds(w.session)
      /\ ~t.nil => Own(w.session, t.game)
      /\ t.step > 1 => w = peer
  BY ArrivedEffect DEF Inv
<1>3. Chasing(w) /\ (t.step <= 1 => w.loop = None \/ w.loop.finished = None)
  BY ArrivedChasing DEF Inv, Accord
<1> HIDE DEF w
<1>4. /\ Chasing(r.peer)
      /\ role = Thief =>
           /\ r.answer.caught => r.peer.loop.finished = Capture
           /\ r.answer.win => r.peer.session.caught \/ r.peer.loop.finished = Survival
      /\ role = Cop =>
           /\ ~r.answer.win
           /\ ~t.nil =>
                /\ r.peer.session.records = Append(w.session.records, r.peer.loop.round)
                /\ r.peer.loop.finished = Capture
                   => w.loop # None /\ w.loop.finished = Capture
  BY <1>2, <1>3, AnswersTruly DEF Inv, Reports
<1>5. Door(r.peer) /\ r.peer.loop # None
  BY <1>2, AnswersEffect
<1>6. role \in {Cop, Thief} /\ (role = Thief <=> role # Cop)
  BY DEF Inv, Cop, Thief
<1>7. /\ driver'.game = t.game /\ driver'.step = t.step
      /\ ~driver'.confirmed
      /\ driver'.unheard \in {None, t}
      /\ \/ driver'.over = sent.over
         \/ sent.over = None /\ driver'.over = Capture /\ (r.answer.caught \/ role = Cop)
         \/ sent.over = None /\ driver'.over = Survival /\ r.answer.win
         \/ sent.over = None /\ driver'.over = None
  <2>1. IsRecord(sent, DriverFields) /\ sent.game = t.game /\ sent.step = t.step
    BY DEF Sends
  <2>2. ~sent.confirmed
    BY DEF Reports, Accord, Seeing
  <2> DEFINE h == Hears(sent, r.answer)
             m == [sent EXCEPT !.unheard = t]
  <2>3. /\ h.game = sent.game /\ h.step = sent.step /\ h.unheard = None
        /\ h.confirmed = sent.confirmed
        /\ sent.over # None => h.over = sent.over
        /\ sent.over = None => \/ h.over = Capture /\ (r.answer.caught \/ role = Cop)
                               \/ h.over = Survival /\ r.answer.win
                               \/ h.over = None
    <3>1. /\ h.game = sent.game /\ h.step = sent.step /\ h.unheard = None
      BY <2>1, HearsEffect
    <3> QED BY <2>1, <3>1, HearsTruly
  <2>4. /\ m.game = sent.game /\ m.step = sent.step /\ m.unheard = t
        /\ m.confirmed = sent.confirmed /\ m.over = sent.over
    BY <2>1 DEF IsRecord, DriverFields
  <2>5. driver' = h \/ driver' = m
    BY <1>1
  <2> HIDE DEF h, m
  <2> QED BY <2>1, <2>2, <2>3, <2>4, <2>5
<1>8. Seeing(driver')
  <2>1. driver'.over \in Endings \cup {None}
    BY <1>7, Values DEF Reports
  <2>2. role = Cop /\ driver'.over = Survival => driver'.step >= SurvivalThreshold
    <3>1. Capture # Survival /\ None # Survival
      BY Values DEF Capture, Survival
    <3> QED BY <1>4, <1>7, <3>1 DEF Reports
  <2>3. role = Cop /\ driver'.unheard # None => driver'.unheard.claim = None
    BY <1>7 DEF Reports
  <2> QED BY <1>7, <2>1, <2>2, <2>3 DEF Seeing
<1>9. Agreeing(r.peer, driver')
  <2>1. CASE role = Thief
    <3>1. Capture # Survival /\ None # Survival /\ None # Capture /\ sent.over = None
      BY <1>6, <2>1, Values DEF Capture, Survival, Reports
    <3>2. driver'.over = Capture => r.peer.loop.finished = Capture
      BY <1>4, <1>6, <1>7, <2>1, <3>1
    <3>3. driver'.over = Survival => r.peer.session.caught \/ r.peer.loop.finished = Survival
      BY <1>4, <1>7, <2>1, <3>1
    <3> QED BY <1>5, <1>6, <2>1, <3>2, <3>3 DEF Agreeing
  <2>2. CASE role = Cop /\ t.nil
    <3>1. driver'.step = 0
      BY <1>7, <2>2 DEF Fits
    <3>2. Len(r.peer.session.records) \in Nat
      BY <1>5 DEF Door, Chained
    <3> QED BY <1>6, <1>7, <2>2, <3>1, <3>2 DEF Agreeing
  <2>3. CASE role = Cop /\ ~t.nil
    <3>1. w.session.records \in Seq(Nat) /\ peer.session.records \in Seq(Nat)
      BY <1>2 DEF Inv, Door, Chained
    <3>2. Len(r.peer.session.records) = Len(w.session.records) + 1
          /\ Len(w.session.records) \in Nat
      <4>1. r.peer.session.records = Append(w.session.records, r.peer.loop.round)
        BY <1>4, <2>3
      <4>2. r.peer.loop.round \in Nat
        BY <1>5 DEF Door, IsPeer, Loops
      <4> QED BY <3>1, <4>1, <4>2
    <3>3. r.peer.loop.finished = Capture => w.loop # None /\ w.loop.finished = Capture
      BY <1>4, <2>3
    <3>4. t.step \in Nat /\ driver.step \in Nat /\ t.step <= driver.step + 1 /\ driver.over = None
      BY DEF Fits, Inv, Caller, Reports
    <3>5. CASE t.step <= 1
      <4>1. r.peer.loop.finished # Capture
        BY <1>3, <3>3, <3>5, Values
      <4>2. Len(r.peer.session.records) >= driver'.step
        BY <1>7, <3>2, <3>4, <3>5
      <4> QED BY <1>6, <1>7, <2>3, <4>1, <4>2 DEF Agreeing
    <3>6. CASE t.step > 1
      <4>1. w = peer /\ driver.step > 0
        BY <1>2, <3>4, <3>6
      <4>2. Holds(peer.session) /\ peer.session.owner = driver.game
        BY <4>1 DEF Inv, Caller
      <4>3. Agreeing(peer, driver)
        BY <4>2 DEF Accord, Taken
      <4>4. Capture # None
        BY Values
      <4>5. Len(peer.session.records) >= driver.step /\ peer.loop.finished # Capture
        BY <2>3, <3>4, <4>1, <4>3, <4>4 DEF Agreeing
      <4>6. r.peer.loop.finished # Capture
        BY <3>3, <4>1, <4>5
      <4>7. Len(r.peer.session.records) >= driver'.step
        BY <1>7, <3>2, <3>4, <4>1, <4>5
      <4> QED BY <1>6, <1>7, <2>3, <4>6, <4>7 DEF Agreeing
    <3> QED BY <3>4, <3>5, <3>6
  <2> QED BY <1>6, <2>1, <2>2, <2>3
<1> QED BY <1>1, <1>4, <1>8, <1>9 DEF Accord

\* What Accord reads of a door, carried over.
Carried(v, w) ==
    /\ v.loop = w.loop
    /\ v.session.owner = w.session.owner /\ v.session.held = w.session.held
    /\ v.session.records = w.session.records /\ v.session.caught = w.session.caught

LEMMA CarriedAccord ==
    ASSUME NEW w, NEW d, Accord(w, d), NEW v, Carried(v, w)
    PROVE  Accord(v, d)
BY DEF Carried, Accord, Chasing, Unwatched, Taken, Holds, Agreeing

\* A session in which nothing was played yet.
LEMMA EmptyAccord ==
    ASSUME NEW w, NEW d, Seeing(d), w.loop = None, ~Taken(w.session), ~w.session.caught
    PROVE  Accord(w, d)
BY DEF Accord, Chasing, Unwatched

\* A driver that begins has seen nothing.
LEMMA NewAccord ==
    ASSUME NEW w, Door(w), Chasing(w), NEW g, NEW id, NEW n
    PROVE  Accord(w, NewSubGame(g, id, n))
<1> DEFINE d == NewSubGame(g, id, n)
<1>1. d.over = None /\ ~d.confirmed /\ d.step = 0 /\ d.unheard = None
  BY DEF NewSubGame
<1>2. Len(w.session.records) \in Nat
  BY DEF Door, Chained
<1> HIDE DEF d
<1>3. Seeing(d) /\ Agreeing(w, d)
  BY <1>1, <1>2, Values DEF Seeing, Agreeing
<1>4. Accord(w, d)
  BY <1>3 DEF Accord
<1> QED BY <1>4 DEF d

LEMMA WithLoopAccord ==
    ASSUME NEW w, IsPeer(w), NEW d, Accord(w, d)
    PROVE  Accord(WithLoop(w), d) /\ WithLoop(w).loop # None
<1> DEFINE v == WithLoop(w)
<1>1. v.session = w.session /\ v.loop \in Loops /\ v.loop = IF w.loop = None THEN NewLoop ELSE w.loop
  BY WithLoopEffect
<1> HIDE DEF v
<1>2. CASE w.loop # None
  <2>1. Carried(v, w)
    BY <1>1, <1>2 DEF Carried
  <2> QED BY <1>1, <1>2, <2>1, CarriedAccord DEF v
<1>3. CASE w.loop = None
  <2>1. v.loop.finished = None /\ v.loop.walled = None /\ v.loop # None /\ None # Capture
    BY <1>1, <1>3, Values DEF NewLoop
  <2>2. Accord(v, d)
    BY <1>1, <1>3, <2>1 DEF Accord, Chasing, Unwatched, Agreeing
  <2> QED BY <2>1, <2>2 DEF v
<1> QED BY <1>2, <1>3

LEMMA HelloAccord ==
    ASSUME Inv, Accord(peer, driver), NEW g \in Callers, Hello(g)
    PROVE  Accord(peer', driver')
<1> DEFINE noted == NoteCaller(peer, g)
           retires == g # noted.session.opponent /\ noted.loop # None /\ noted.loop.finished # None
           retired == IF retires THEN Restart(noted, 0) ELSE noted
           z == Adopt(retired.session, g)
           w == [retired EXCEPT !.session = z]
<1>1. Door(noted) /\ Carried(noted, peer)
  BY NoteCallerKeepsDoor, NoteCallerEffect DEF Inv, Door, Carried
<1>2. peer' = w /\ (driver' = driver \/ \E id, n : driver' = NewSubGame(g, id, n))
  BY DEF Hello, AtTheDoor
<1> HIDE DEF noted
<1>3. retires => retired.loop = None /\ Renewed(retired.session)
  BY <1>1, RestartEffect, RestartMarks DEF Door, Played
<1>4. Door(retired) /\ (~retires => retired = noted)
  BY <1>1, RestartKeepsDoor
<1> HIDE DEF retired, retires
<1>5. /\ IsRecord(z, SessionFields)
      /\ z.owner = retired.session.owner /\ z.held = retired.session.held
      /\ z.records = retired.session.records /\ z.caught = retired.session.caught
  BY <1>4 DEF Adopt, Door, IsPeer, IsRecord, SessionFields
<1> HIDE DEF z
<1>6. w.session = z /\ w.loop = retired.loop
  BY <1>4, <1>5, WithSession DEF Door
<1> HIDE DEF w
<1>7. Accord(w, driver)
  <2>1. CASE retires
    <3>1. ~Taken(w.session) /\ ~w.session.caught /\ w.loop = None
      BY <1>3, <1>5, <1>6, <2>1 DEF Renewed, Taken, Holds
    <3> QED BY <3>1, EmptyAccord DEF Accord
  <2>2. CASE ~retires
    <3>1. Carried(w, peer)
      BY <1>1, <1>4, <1>5, <1>6, <2>2 DEF Carried
    <3> QED BY <3>1, CarriedAccord
  <2> QED BY <2>1, <2>2
<1>8. Door(w)
  BY <1>2, HelloKeeps
<1> QED BY <1>2, <1>7, <1>8, NewAccord DEF Accord

LEMMA BeginAccord ==
    ASSUME Inv, Accord(peer, driver), Begin
    PROVE  Accord(peer', driver')
<1>1. peer' = peer /\ \E id, n : driver' = NewSubGame(driver.game.group, id, n)
  BY DEF Begin
<1> QED BY <1>1, NewAccord DEF Inv, Accord

\* What Accord reads of a driver.
LEMMA DriverAccord ==
    ASSUME NEW w, NEW d, Accord(w, d), NEW e,
           e.game = d.game, e.over = d.over, e.confirmed = d.confirmed, e.step = d.step,
           e.pos = d.pos, e.unheard = d.unheard
    PROVE  Accord(w, e)
BY DEF Accord, Seeing, Agreeing

LEMMA DeclareAccord ==
    ASSUME Inv, Accord(peer, driver), NEW clash \in BOOLEAN, Declare(clash)
    PROVE  Accord(peer', driver')
<1> DEFINE noted == NoteCaller(peer, driver.game.group)
           u == Restart(noted, driver.game.number)
<1>1. /\ Door(noted) /\ noted.session = peer.session /\ noted.loop = peer.loop
      /\ Remarks(peer', u) /\ peer'.loop = u.loop /\ peer'.session.caught = u.session.caught
  BY DeclareKeeps
<1> HIDE DEF noted
<1>2. /\ Played(noted) => u.loop = None /\ Renewed(u.session)
      /\ ~Played(noted) => /\ u.loop = noted.loop /\ Alike(u.session, noted.session)
                           /\ Marked(u.session, noted.session)
  BY <1>1, RestartEffect, RestartMarks DEF Door
<1> HIDE DEF u
<1>3. Accord(peer', driver)
  <2>1. CASE Played(noted)
    <3>1. ~Taken(peer'.session) /\ ~peer'.session.caught /\ peer'.loop = None
      BY <1>1, <1>2, <2>1 DEF Remarks, Alike, Renewed, Taken, Holds
    <3> QED BY <3>1, EmptyAccord DEF Accord
  <2>2. CASE ~Played(noted)
    <3>1. Carried(peer', peer)
      BY <1>1, <1>2, <2>2 DEF Remarks, Alike, Marked, Carried
    <3> QED BY <3>1, CarriedAccord
  <2> QED BY <2>1, <2>2
<1>4. /\ driver'.game = driver.game /\ driver'.over = driver.over
      /\ driver'.confirmed = driver.confirmed /\ driver'.step = driver.step
      /\ driver'.pos = driver.pos /\ driver'.unheard = driver.unheard
  BY DEF Declare, Inv, Caller, IsRecord, DriverFields
<1> QED BY <1>3, <1>4, DriverAccord

\* A capture conceded is held where it is the cell we claimed.
LEMMA ConfirmResultAccord ==
    ASSUME ~Unstated, Inv, Accord(peer, driver), ConfirmResult
    PROVE  Accord(peer', driver')
<1> DEFINE w == WithLoop(peer)
           over == driver.over
<1>1. Accord(w, driver) /\ w.loop # None /\ Door(w) /\ over # None
  BY WithLoopAccord, WithLoopKeepsDoor DEF Inv, Door, ConfirmResult
<1>2. PICK cell \in {None} \cup (IF over = Capture THEN {driver.pos} ELSE {}) :
        peer' = [w EXCEPT !.session.ended = RecordEnding(@, over),
                          !.loop = Concede(@, over, cell)]
  BY DEF ConfirmResult
<1> HIDE DEF w
<1> DEFINE z == [w.session EXCEPT !.ended = RecordEnding(@, over)]
           l == Concede(w.loop, over, cell)
           v == [w EXCEPT !.session = z, !.loop = l]
<1>3. IsPeer(w) /\ IsRecord(w.session, SessionFields) /\ w.loop \in Loops
  BY <1>1 DEF Door, IsPeer
<1>4. /\ z.owner = w.session.owner /\ z.held = w.session.held
      /\ z.records = w.session.records /\ z.caught = w.session.caught
  BY <1>3 DEF IsRecord, SessionFields
<1>5. /\ l \in Loops /\ l.walled = w.loop.walled /\ l.claimed = w.loop.claimed
      /\ over = Survival => l.finished = IF w.loop.finished = None THEN Survival ELSE w.loop.finished
      /\ over # Survival => /\ l.finished \in {w.loop.finished, Capture}
                            /\ driver.pos = w.loop.claimed => l.finished = Capture
  <2>1. driver.pos # None
    BY Values DEF Inv, Caller
  <2>2. l \in Loops
    BY <1>3, ConcedeEffect
  <2>3. l.walled = w.loop.walled /\ l.claimed = w.loop.claimed
    BY <1>3 DEF Concede, Loops
  <2>4. over = Survival => l.finished = IF w.loop.finished = None THEN Survival ELSE w.loop.finished
    BY <1>3 DEF Concede, Loops
  <2>5. over # Survival => l.finished \in {w.loop.finished, Capture}
    BY <1>3 DEF Concede, Loops
  <2>6. over # Survival /\ driver.pos = w.loop.claimed => l.finished = Capture
    BY <1>2, <1>3, <2>1 DEF Concede, Loops
  <2> QED BY <2>2, <2>3, <2>4, <2>5, <2>6
<1>6. peer' = v
  BY <1>2, <1>3 DEF IsPeer, IsRecord
<1> HIDE DEF z, l
<1>7. v.session = z /\ v.loop = l
  BY <1>3 DEF IsPeer, IsRecord
<1> HIDE DEF v
<1>8. /\ driver'.game = driver.game /\ driver'.over = over /\ driver'.step = driver.step
      /\ driver'.pos = driver.pos /\ driver'.unheard = driver.unheard
  BY DEF ConfirmResult, Inv, Caller, IsRecord, DriverFields
<1>9. Capture # Survival /\ Capture # None /\ l # None /\ over \in Endings \cup {None}
  BY <1>1, <1>5, Values DEF Capture, Survival, Accord, Seeing
<1>10. Chasing(v)
  BY <1>1, <1>4, <1>5, <1>7 DEF Accord, Chasing, Unwatched
<1>11. Seeing(driver')
  BY <1>1, <1>8 DEF Accord, Seeing
<1>12. ASSUME Agreeing(w, driver) PROVE Agreeing(v, driver')
  <2>1. CASE over = Survival
    <3>1. role = Thief => v.session.caught \/ v.loop.finished = Survival
      BY <1>1, <1>4, <1>5, <1>7, <1>12, <2>1 DEF Agreeing
    <3>2. role = Cop => /\ Len(v.session.records) >= driver'.step
                        /\ driver'.step > 0 => v.loop.finished # Capture
      BY <1>4, <1>5, <1>7, <1>8, <1>9, <1>12, <2>1 DEF Agreeing
    <3> QED BY <1>7, <1>8, <1>9, <2>1, <3>1, <3>2 DEF Agreeing
  <2>2. CASE over = Capture
    <3>1. role = Thief => v.loop.finished = Capture
      BY <1>5, <1>7, <1>9, <1>12, <2>2 DEF Agreeing
    <3>2. role = Cop => /\ Len(v.session.records) >= driver'.step
                        /\ driver'.pos = v.loop.claimed => v.loop.finished = Capture
      BY <1>4, <1>5, <1>7, <1>8, <1>9, <1>12, <2>2 DEF Agreeing
    <3> QED BY <1>7, <1>8, <1>9, <2>2, <3>1, <3>2 DEF Agreeing
  <2> QED BY <1>1, <1>9, <2>1, <2>2 DEF Endings
<1>13. Taken(v.session) => Taken(w.session)
  BY <1>4, <1>7 DEF Taken, Holds
<1> QED BY <1>1, <1>4, <1>6, <1>7, <1>8, <1>10, <1>11, <1>12, <1>13 DEF Accord

LEMMA FinalAuditAccord ==
    ASSUME Inv, Accord(peer, driver), FinalAudit
    PROVE  Accord(peer', driver')
<1>1. Carried(peer', peer) /\ driver' = driver
  BY DEF FinalAudit, Carried, Inv, Door, IsPeer, IsRecord, SessionFields
<1> QED BY <1>1, CarriedAccord

\* Reading the board may find our thief boxed in.
LEMMA AgreeResultAccord ==
    ASSUME Inv, Accord(peer, driver), AgreeResult
    PROVE  Accord(peer', driver')
<1> DEFINE w == WithLoop(peer)
           boxed == w.loop.finished = None /\ BoxedIn(w.session)
           z == [w.session EXCEPT !.caught = @ \/ boxed]
           read == [w EXCEPT !.session = z]
           ending == Outcome(w)
<1>1. Accord(w, driver) /\ Door(w)
  BY WithLoopAccord, WithLoopKeepsDoor DEF Inv, Door
<1>2. peer' = Settle([w EXCEPT !.session.caught = @ \/ boxed], ending) /\ driver' = driver
  BY DEF AgreeResult
<1>3. boxed => role = Thief
  BY DEF BoxedIn
<1> HIDE DEF w, boxed, ending
<1>4. IsPeer(w) /\ IsRecord(w.session, SessionFields)
  BY <1>1 DEF Door, IsPeer
<1>5. /\ IsRecord(z, SessionFields)
      /\ z.owner = w.session.owner /\ z.held = w.session.held
      /\ z.records = w.session.records /\ z.caught = (w.session.caught \/ boxed)
  BY <1>4 DEF IsRecord, SessionFields
<1>6. peer' = Settle(read, ending)
  BY <1>2, <1>4 DEF IsPeer, IsRecord
<1> HIDE DEF z
<1>7. IsPeer(read) /\ read.session = z /\ read.loop = w.loop
  BY <1>4, <1>5, WithSession
<1> HIDE DEF read
<1>8. peer'.session = z /\ peer'.loop = w.loop
  BY <1>6, <1>7, SettleEffect
<1>9. role = Thief => role # Cop
  BY DEF Cop, Thief
<1> QED BY <1>1, <1>2, <1>3, <1>5, <1>8, <1>9 DEF Accord, Chasing, Unwatched, Taken, Holds, Agreeing

LEMMA InitiallyAccord == Init => Accord(peer, driver)
<1> SUFFICES ASSUME Init PROVE Accord(peer, driver)
  OBVIOUS
<1>1. driver = NewSubGame(None, 0, 0) /\ peer.loop = None /\ ~peer.session.caught
  BY DEF Init, FreshSession
<1>2. Door(peer) /\ Chasing(peer)
  BY <1>1, Initially DEF Inv, Chasing, Unwatched
<1> QED BY <1>1, <1>2, NewAccord

LEMMA EveryStepAccord ==
    ASSUME ~Unstated, Inv, Accord(peer, driver), Next
    PROVE  Accord(peer, driver)'
<1>1. role' = role
  BY DEF Next, Hello, Begin, Declare, Handover, ThiefTurn, CopTurn, SendAgain,
         ConfirmResult, FinalAudit, AgreeResult
<1>2. Accord(peer', driver') => Accord(peer, driver)'
  BY <1>1 DEF Accord, Chasing, Unwatched, Seeing, Taken, Holds, Agreeing
<1>3. CASE Handover \/ ThiefTurn \/ CopTurn \/ SendAgain
  <2>1. ATurn
    BY <1>3, HandoverIsATurn, ThiefTurnIsATurn, CopTurnIsATurn, SendAgainIsATurn
  <2> QED BY <1>2, <2>1, SubmitTurnAccord DEF ATurn, Accord
<1> QED BY <1>2, <1>3, HelloAccord, BeginAccord, DeclareAccord, ConfirmResultAccord,
           FinalAuditAccord, AgreeResultAccord DEF Next

\* Whichever teams call, whatever they give up, and whichever answers are lost and turns
\* sent again, both sides read a sub-game that is over alike, so long as a driver that
\* confirms a result names it (TurnLoop.outcome, TurnLoop.concede).
THEOREM BothReadTheSame ==
    ASSUME ~Unstated
    PROVE  Spec => []OutcomesAgree
<1> DEFINE All == Inv /\ Accord(peer, driver)
<1>1. Init => All
  BY Initially, InitiallyAccord
<1>2. All /\ [Next]_vars => All'
  <2> SUFFICES ASSUME All, [Next]_vars PROVE All'
    OBVIOUS
  <2>1. CASE UNCHANGED vars
    BY <2>1 DEF vars, Inv, Caller, Accord, Chasing, Unwatched, Seeing, Taken, Holds, Agreeing
  <2>2. CASE Next
    BY <2>2, EveryStepKeepsInv, EveryStepAccord
  <2> QED BY <2>1, <2>2
<1>3. All => OutcomesAgree
  <2> SUFFICES ASSUME All, SameGame, driver.over # None,
                      \/ role = Thief /\ (driver.over = Survival => ~session.caught)
                      \/ role = Cop /\ driver.over = Survival
                      \/ role = Cop /\ driver.confirmed /\ driver.pos = loop.claimed
               PROVE  Outcome(peer) = driver.over
    BY DEF OutcomesAgree
  <2>1. Agreeing(peer, driver) /\ Seeing(driver)
    BY DEF Accord, Taken, SameGame, session
  <2>2. driver.over \in {Capture, Survival} /\ None \notin {Capture, Survival} /\ Capture # Survival
    BY <2>1, Values DEF Seeing, Endings, Capture, Survival
  <2>3. CASE peer.loop # None /\ peer.loop.finished = driver.over
    BY <2>3 DEF Outcome
  <2>4. CASE role = Thief
    <3>1. peer.loop # None /\ peer.loop.finished = driver.over
      BY <2>1, <2>2, <2>4 DEF Agreeing, session, Cop, Thief
    <3> QED BY <2>3, <3>1
  <2>5. CASE role = Cop /\ driver.over = Survival
    <3>1. driver.step >= SurvivalThreshold /\ driver.step \in Nat
      BY <2>1, <2>5 DEF Seeing, Inv, Caller
    <3>2. driver.step > 0 /\ SurvivalThreshold \in Nat
      BY <3>1, ServedAssumption
    <3>3. peer.loop \in Loops
      BY <3>2 DEF Inv, Caller, Door, Chained, IsPeer
    <3>4. peer.loop.finished \in {None, Survival}
      BY <2>1, <2>2, <2>5, <3>2, <3>3 DEF Agreeing, Loops, Endings
    <3>5. Len(peer.session.records) >= driver.step /\ Len(peer.session.records) \in Nat
      BY <2>1, <2>5 DEF Agreeing, Inv, Door, Chained
    <3>6. SurvivalReached(peer.session) /\ ~BoxedIn(peer.session)
      BY <2>5, <3>1, <3>2, <3>5 DEF SurvivalReached, BoxedIn, Cop, Thief
    <3> QED BY <2>2, <2>5, <3>4, <3>6 DEF Outcome
  <2>6. CASE role = Cop /\ driver.over = Capture
    <3>1. driver.confirmed /\ driver.pos = peer.loop.claimed
      BY <2>2, <2>6 DEF loop, Cop, Thief
    <3>2. peer.loop # None /\ peer.loop.finished = Capture
      BY <2>1, <2>6, <3>1 DEF Agreeing
    <3> QED BY <2>3, <2>6, <3>2
  <2> QED BY <2>2, <2>4, <2>5, <2>6
<1> HIDE DEF All
<1> QED BY <1>1, <1>2, <1>3, PTL DEF Spec

=============================================================================
