--------------------------- MODULE ReferenceProofs ---------------------------
(***************************************************************************)
(* Proofs about one sub-game on the reference wire, for every grid, start, *)
(* quota, threshold and horizon, and however many calls raise, deadlines   *)
(* run out and turns arrive twice: nobody acts twice in a round, and the   *)
(* thief's board never runs ahead of the cop's nor misses a wall it read.  *)
(* While no fault has happened neither side files a technical loss, and    *)
(* both file the same ending.                                              *)
(***************************************************************************)
EXTENDS ReferenceProperties, TLAPS, FiniteSetTheorems

-----------------------------------------------------------------------------
(* The types of a driver and of what it is sent. *)

PCs == {"push", "agree", "act", "wait", "close", "closing", "submit", "audits", "done",
        "crashed"}

Answers == [cell : Cells, caught : BOOLEAN]

Turns == [step : Nat, barrier : Cells \cup {None}, claim : Cells \cup {None},
          response : Answers \cup {None}, win : BOOLEAN]

Drivers ==
    [pc : PCs, step : Nat,
     agreements : Nat, turns : Seq(Turns), audits : Seq(Outcomes),
     pos : Cells, walls : SUBSET Cells, sealed : Seq(Nat),
     held : SUBSET Nat, caught : BOOLEAN, ended : Outcomes \cup {None},
     finished : Outcomes \cup {None}, claimed : Cells \cup {None}, walled : Cells \cup {None},
     owed : Answers \cup {None}, terminal : BOOLEAN, idle : BOOLEAN,
     outcome : Outcomes \cup {None}, last : Turns \cup {None}]

TypeOK ==
    /\ peer \in [Peers -> Drivers]
    /\ stops \in BOOLEAN
    /\ faults \in 0 .. MaxFaults
    /\ copies \in 0 .. MaxCopies
    /\ \A p \in Peers : peer[p].pc \in {"submit", "audits", "done"} => peer[p].outcome \in Outcomes

-----------------------------------------------------------------------------
(* The inductive invariant. *)

\* How many steps a driver has sealed, and how many of the other's it has read.
Acted(w) == Len(w.sealed)
Read(w)  == Cardinality(w.held)

Opening == {"push", "agree"}
InRound == Opening \cup {"act", "wait", "close"}

\* A driver reads the other's turns in order, one per round; where it is says how
\* many it has taken itself.
Rounds(p, w) ==
    /\ Read(w) \in Nat /\ w.held = 1 .. Read(w)
    /\ w.pc \in Opening => w.step = 1 /\ Acted(w) = 0 /\ Read(w) = 0
    /\ w.pc = "act"  => /\ Acted(w) = w.step - 1
                        /\ Read(w) = IF p = Thief THEN w.step - 1 ELSE w.step
    /\ w.pc = "wait" => /\ Acted(w) = IF p = Thief THEN w.step ELSE w.step - 1
                        /\ Read(w) = w.step - 1
    /\ w.pc = "close" => Acted(w) = w.step - 1
    /\ w.pc \in InRound => ~w.terminal
    /\ p = Cop => ~w.terminal /\ w.pc # "close"
    /\ ~w.terminal => Acted(w) <= Read(w) + (IF p = Thief THEN 1 ELSE 0)

\* m is of a step that p has sealed; the thief builds nothing.
OfASealedStep(p, w, m) == m.step \in 1 .. Acted(w) /\ (p = Thief => m.barrier = None)

\* So is every turn of p's on its way or about to be sent again, and the other, z,
\* has read no more of them than there are.
Sent(p, w, z) ==
    /\ w.last # None => OfASealedStep(p, w, w.last)
    /\ \A i \in DOMAIN z.turns : OfASealedStep(p, w, z.turns[i])
    /\ Read(z) <= Acted(w)

\* m carries the wall the cop c has built last, if the thief t has not read it yet.
Carries(c, t, m) ==
    /\ m.barrier \in c.walls \cup {None}
    /\ m.step = Acted(c) /\ Acted(c) = Read(t) + 1 => c.walls = t.walls \cup ({m.barrier} \ {None})

Boards(c, t) ==
    /\ t.walls \subseteq c.walls
    /\ Read(t) = Acted(c) => t.walls = c.walls
    /\ c.last # None => Carries(c, t, c.last)
    /\ \A i \in DOMAIN t.turns : Carries(c, t, t.turns[i])

Inv == /\ TypeOK
       /\ \A p \in Peers : Rounds(p, peer[p]) /\ Sent(p, peer[p], peer[Other(p)])
       /\ Boards(peer[Cop], peer[Thief])

-----------------------------------------------------------------------------
(* Facts about the inbox. *)

LEMMA PeersAreTwo ==
    /\ Cop \in Peers /\ Thief \in Peers /\ Cop # Thief
    /\ Other(Cop) = Thief /\ Other(Thief) = Cop
    /\ \A p \in Peers : (p = Cop \/ p = Thief) /\ Other(p) \in Peers /\ Other(p) # p
                        /\ Other(Other(p)) = p
    /\ \A p, q \in Peers : q # p => q = Other(p)
BY DEF Peers, Other, Cop, Thief

LEMMA IntervalSize == \A n \in Nat : IsFiniteSet(1 .. n) /\ Cardinality(1 .. n) = n
BY FS_Interval

\* A set of naturals that is not empty has a least member.
LEMMA LeastNatural ==
    ASSUME NEW S, S \subseteq Nat, S # {}
    PROVE  \E i \in S : \A j \in S : i <= j
<1> DEFINE R == StrictSubsetOrdering(Nat)
           T == {1 .. i : i \in S}
<1>1. IsWellFoundedOn(R, FiniteSubsetsOf(Nat))
  BY FS_StrictSubsetOrderingWellFounded
<1>2. T \subseteq FiniteSubsetsOf(Nat) /\ T # {}
  <2>1. \A i \in S : 1 .. i \in FiniteSubsetsOf(Nat)
    BY IntervalSize DEF FiniteSubsetsOf
  <2>2. QED
    BY <2>1
<1>3. \E x \in T : \A y \in T : <<y, x>> \notin R
  <2> HIDE DEF R, T
  <2>1. QED
    BY <1>1, <1>2, WFMin
<1>4. PICK i \in S : \A j \in S : <<1 .. j, 1 .. i>> \notin R
  BY <1>3
<1>5. ASSUME NEW j \in S, j < i
      PROVE  FALSE
  <2>1. 1 .. j \subseteq 1 .. i
    BY <1>5
  <2>2. i \in 1 .. i /\ i \notin 1 .. j
    BY <1>5
  <2>3. <<1 .. j, 1 .. i>> \in (SUBSET Nat) \X (SUBSET Nat)
    OBVIOUS
  <2>4. <<1 .. j, 1 .. i>> \in R
    BY <2>1, <2>2, <2>3 DEF StrictSubsetOrdering
  <2>5. QED
    BY <1>4, <2>4
<1>6. QED
  BY <1>4, <1>5

\* The members of S that come no later than i.
Upto(S, i) == {j \in S : j <= i}

\* The k-th member of a finite set of naturals.
LEMMA KthMember ==
    ASSUME NEW n \in Nat, NEW S, S \subseteq 1 .. n, NEW k \in 1 .. Cardinality(S)
    PROVE  \E i \in S : Cardinality(Upto(S, i)) = k
<1> DEFINE Q == {i \in 0 .. n : k <= Cardinality(Upto(S, i))}
<1>1. IsFiniteSet(S) /\ Cardinality(S) \in Nat
  BY IntervalSize, FS_Subset, FS_CardinalityType
<1>2. \A i : Upto(S, i) \subseteq S
  BY DEF Upto
<1>3. \A i : IsFiniteSet(Upto(S, i)) /\ Cardinality(Upto(S, i)) \in Nat
  BY <1>1, <1>2, FS_Subset, FS_CardinalityType
<1>0. \A x \in S : x \in Int /\ 1 <= x /\ x <= n
  OBVIOUS
<1>4. Upto(S, n) = S /\ Upto(S, 0) = {}
  <2>1. Upto(S, n) = S
    BY <1>0 DEF Upto
  <2>2. \A x \in S : ~(x <= 0)
    BY <1>0
  <2>3. Upto(S, 0) = {}
    BY <2>2 DEF Upto
  <2>4. QED
    BY <2>1, <2>3
<1>5. Cardinality(Upto(S, 0)) = 0
  BY <1>4, FS_EmptySet
<1>6. Q \subseteq Nat /\ n \in Q
  BY <1>1, <1>4
<1>7. PICK i \in Q : \A j \in Q : i <= j
  <2> HIDE DEF Q
  <2>1. QED
    BY <1>6, LeastNatural
<1>8. i \in 0 .. n /\ k <= Cardinality(Upto(S, i)) /\ i # 0
  BY <1>5, <1>7
<1>9. i - 1 \in 0 .. n /\ i - 1 \notin Q
  <2> HIDE DEF Q
  <2>1. QED
    BY <1>7, <1>8
<1>10. Cardinality(Upto(S, i - 1)) < k
  BY <1>3, <1>9
<1>11. i \in S
  <2>1. SUFFICES ASSUME i \notin S PROVE FALSE
    OBVIOUS
  <2>2. Upto(S, i) = Upto(S, i - 1)
    <3>1. \A x \in S : x <= i <=> x <= i - 1
      BY <1>0, <1>8, <2>1
    <3>2. QED
      BY <3>1 DEF Upto
  <2>3. QED
    BY <1>3, <1>8, <1>10, <2>2
<1>12. Upto(S, i) = Upto(S, i - 1) \cup {i} /\ i \notin Upto(S, i - 1)
  <2>1. \A x \in S : x <= i <=> x <= i - 1 \/ x = i
    BY <1>0, <1>8
  <2>2. i <= i /\ ~(i <= i - 1)
    BY <1>8
  <2>3. QED
    BY <1>11, <2>1, <2>2 DEF Upto
<1>13. Cardinality(Upto(S, i)) = Cardinality(Upto(S, i - 1)) + 1
  BY <1>3, <1>12, FS_AddElement
<1>14. Cardinality(Upto(S, i)) = k
  BY <1>3, <1>8, <1>10, <1>13
<1>15. QED
  BY <1>11, <1>14

\* The turn taken is of this step and one of those in the inbox.
LEMMA FirstIsFound ==
    ASSUME NEW w, w.turns \in Seq(Turns), Found(w) # {}
    PROVE  /\ FirstFound(w) \in DOMAIN w.turns
           /\ w.turns[FirstFound(w)] \in Turns
           /\ w.turns[FirstFound(w)].step = w.step
<1>1. Found(w) \subseteq Nat
  BY DEF Found
<1>2. \E i \in Found(w) : \A j \in Found(w) : i <= j
  BY <1>1, LeastNatural
<1>3. FirstFound(w) \in Found(w)
  BY <1>2 DEF FirstFound
<1>4. QED
  BY <1>3 DEF Found

\* What is left in the inbox was in it.
LEMMA KeptWasThere ==
    ASSUME NEW w, w.turns \in Seq(Turns)
    PROVE  /\ Kept(w) \in Seq(Turns)
           /\ \A k \in DOMAIN Kept(w) : \E i \in DOMAIN w.turns : Kept(w)[k] = w.turns[i]
<1> DEFINE left == {i \in DOMAIN w.turns : i # FirstFound(w) /\ w.turns[i].step >= w.step}
           Nth(k) == CHOOSE i \in left : Cardinality({j \in left : j <= i}) = k
<1>1. Kept(w) = [k \in 1 .. Cardinality(left) |-> w.turns[Nth(k)]]
  BY DEF Kept
<1>2. left \subseteq 1 .. Len(w.turns) /\ Len(w.turns) \in Nat /\ left \subseteq DOMAIN w.turns
  OBVIOUS
<1> HIDE DEF left
<1>3. Cardinality(left) \in Nat
  BY <1>2, IntervalSize, FS_Subset, FS_CardinalityType
<1>4. ASSUME NEW k \in 1 .. Cardinality(left)
      PROVE  Nth(k) \in left
  <2>1. \E i \in left : Cardinality({j \in left : j <= i}) = k
    <3>1. \E i \in left : Cardinality(Upto(left, i)) = k
      BY <1>2, KthMember
    <3>2. QED
      BY <3>1 DEF Upto
  <2>2. QED
    BY <2>1
<1> HIDE DEF Nth
<1>5. \A k \in 1 .. Cardinality(left) : Nth(k) \in DOMAIN w.turns /\ w.turns[Nth(k)] \in Turns
  BY <1>2, <1>4
<1>6. QED
  BY <1>1, <1>3, <1>5

-----------------------------------------------------------------------------
(* What the helpers make of a driver. *)

\* v has acted, read and told as w has.
Same(v, w) == /\ v.turns = w.turns /\ v.sealed = w.sealed /\ v.held = w.held
              /\ v.walls = w.walls /\ v.terminal = w.terminal /\ v.last = w.last

\* A driver that discloses its chain, or has, has an outcome to disclose.
Settled(w) == w.pc \in {"submit", "audits", "done"} => w.outcome \in Outcomes

LEMMA OutcomeValues ==
    /\ Capture \in Outcomes /\ Survival \in Outcomes /\ TechnicalLoss \in Outcomes
    /\ None \notin Outcomes /\ None \notin Cells
BY ReferenceAssumption DEF Outcomes

LEMMA WrapUpEffect ==
    ASSUME NEW p \in Peers, NEW w \in Drivers
    PROVE  LET v == WrapUp(p, w) IN
           /\ v \in Drivers /\ Settled(v) /\ Same(v, w)
           /\ v.step = w.step + 1
           /\ v.pc \in {"submit", "close", "closing"}
           /\ v.pc = "close" => p = Thief /\ ~w.terminal
<1> DEFINE k == CASE w.terminal -> "submit"
                  [] ~w.terminal /\ p = Thief -> "close"
                  [] OTHER -> IF w.finished # None \/ w.claimed = None THEN "submit"
                                                                       ELSE "closing"
           o == IF k = "submit" THEN Or(w.finished, Survival) ELSE w.outcome
           n == w.step + 1
           v == [w EXCEPT !.pc = k, !.step = n, !.outcome = o]
<1>1. WrapUp(p, w) = v
  BY DEF WrapUp
<1>2. k \in {"submit", "close", "closing"} /\ (k = "close" => p = Thief /\ ~w.terminal)
  <2>1. CASE w.terminal
    BY <2>1
  <2>2. CASE ~w.terminal /\ p = Thief
    BY <2>2
  <2>3. CASE ~w.terminal /\ p # Thief
    BY <2>3
  <2>4. QED
    BY <2>1, <2>2, <2>3
<1> HIDE DEF k
<1>3. o \in Outcomes \cup {None} /\ (k = "submit" => o \in Outcomes)
  BY OutcomeValues DEF Drivers, Or
<1> HIDE DEF o
<1>4. k \in PCs /\ n \in Nat
  BY <1>2 DEF PCs, Drivers
<1> HIDE DEF n
<1>5. v \in Drivers
  BY <1>3, <1>4 DEF Drivers
<1>6. /\ v.pc = k /\ v.outcome = o /\ v.step = n
      /\ Same(v, w)
  BY DEF Drivers, Same
<1>7. QED
  BY <1>1, <1>2, <1>3, <1>5, <1>6 DEF Settled, n

LEMMA NextRoundEffect ==
    ASSUME NEW p \in Peers, NEW w \in Drivers
    PROVE  LET v == NextRound(p, w) IN
           /\ v \in Drivers /\ Settled(v) /\ Same(v, w)
           /\ v.step = w.step + 1
           /\ v.pc \in {"submit", "close", "closing", StartPc(p)}
           /\ v.pc = "close" => p = Thief /\ ~w.terminal
<1> DEFINE n == w.step + 1
           k == StartPc(p)
           v == [w EXCEPT !.pc = k, !.step = n]
<1>1. n \in Nat /\ k \in PCs /\ k \in {"act", "wait"}
  BY DEF Drivers, StartPc, PCs
<1>2. NextRound(p, w) = WrapUp(p, w) \/ NextRound(p, w) = v
  BY DEF NextRound
<1> HIDE DEF n, k
<1>3. v \in Drivers
  BY <1>1 DEF Drivers
<1>4. v.pc = k /\ v.step = n /\ Same(v, w) /\ Settled(v)
  BY <1>1 DEF Drivers, Same, Settled
<1> HIDE DEF v
<1>5. QED
  BY <1>1, <1>2, <1>3, <1>4, WrapUpEffect DEF n, k

\* v plays and reads as w does: what a turn changes is told apart.
Unmoved(v, w) == /\ v.pc = w.pc /\ v.step = w.step /\ v.turns = w.turns
                 /\ v.terminal = w.terminal /\ v.last = w.last /\ v.outcome = w.outcome

LEMMA ConcessionEffect ==
    ASSUME NEW w \in Drivers, NEW m
    PROVE  LET v == ReadConcession(w, m) IN
           v \in Drivers /\ Same(v, w) /\ Unmoved(v, w)
<1>1. [w EXCEPT !.finished = Capture] \in Drivers
  BY OutcomeValues DEF Drivers
<1>2. Same([w EXCEPT !.finished = Capture], w) /\ Unmoved([w EXCEPT !.finished = Capture], w)
  BY DEF Drivers, Same, Unmoved
<1>3. QED
  BY <1>1, <1>2 DEF ReadConcession, Same, Unmoved

LEMMA HearingIsTyped ==
    ASSUME NEW w \in Drivers, NEW c \in BOOLEAN, NEW e \in Cells \cup {None},
           NEW f \in Outcomes \cup {None}, NEW o \in Answers \cup {None}
    PROVE  [w EXCEPT !.caught = c, !.walled = e, !.finished = f, !.owed = o] \in Drivers
BY DEF Drivers

LEMMA AbsorbEffect ==
    ASSUME NEW p \in Peers, NEW w \in Drivers, NEW m \in Turns
    PROVE  LET v == Absorb(p, w, m) IN
           /\ v \in Drivers /\ Unmoved(v, w) /\ v.sealed = w.sealed
           /\ v.held = w.held \cup {m.step}
           /\ v.walls = w.walls \cup ({m.barrier} \ {None})
<1> DEFINE held  == w.held \cup {m.step}
           walls == w.walls \cup (IF m.barrier = None THEN {} ELSE {m.barrier})
           told  == [w EXCEPT !.held = held, !.walls = walls]
           hit   == m.claim # None /\ m.claim = w.pos
           boxed == BoxedIn(p, told)
           c == told.caught \/ hit \/ boxed
           e == Entering(p, w, m.barrier)
           f == CASE m.win -> Survival
                  [] ~m.win /\ boxed -> Capture
                  [] OTHER -> told.finished
           o == IF m.claim = None THEN None ELSE [cell |-> m.claim, caught |-> hit]
           v == [told EXCEPT !.caught = c, !.walled = e, !.finished = f, !.owed = o]
<1>1. Absorb(p, w, m) = v
  BY DEF Absorb
<1>2. held \subseteq Nat /\ walls \subseteq Cells /\ walls = w.walls \cup ({m.barrier} \ {None})
  BY DEF Drivers, Turns
<1> HIDE DEF held, walls
<1>3. told \in Drivers
  BY <1>2 DEF Drivers
<1>4. told.held = held /\ told.walls = walls /\ told.sealed = w.sealed /\ Unmoved(told, w)
  BY DEF Drivers, Unmoved
<1>5. c \in BOOLEAN
  OBVIOUS
<1>6. e \in Cells \cup {None}
  BY DEF Entering, Drivers
<1>7. f \in Outcomes \cup {None}
  <2>1. told.finished \in Outcomes \cup {None}
    BY <1>3 DEF Drivers
  <2> HIDE DEF told
  <2>2. CASE m.win
    BY <2>2, OutcomeValues
  <2>3. CASE ~m.win /\ boxed
    BY <2>3, OutcomeValues
  <2>4. CASE ~m.win /\ ~boxed
    BY <2>1, <2>4
  <2>5. QED
    BY <2>2, <2>3, <2>4
<1>8. o \in Answers \cup {None}
  <2>1. hit \in BOOLEAN
    OBVIOUS
  <2> HIDE DEF hit
  <2>2. QED
    BY <2>1 DEF Answers, Turns
<1> HIDE DEF told, c, e, f, o
<1>9. v \in Drivers
  BY <1>3, <1>5, <1>6, <1>7, <1>8, HearingIsTyped
<1>10. v.held = told.held /\ v.walls = told.walls /\ v.sealed = told.sealed /\ Unmoved(v, told)
  BY <1>3 DEF Drivers, Unmoved
<1> HIDE DEF v
<1>11. QED
  BY <1>1, <1>2, <1>4, <1>9, <1>10 DEF held, Unmoved

LEMMA DecisionFields ==
    ASSUME NEW p \in Peers, NEW w \in Drivers, NEW d \in Decisions(p, w)
    PROVE  d.aim \in Cells /\ d.barrier \in Cells \cup {None} /\ (p = Thief => d.barrier = None)
BY PeersAreTwo DEF Decisions, Drivers, LegalMoves, Steps, Passable, BarrierTargets

LEMMA ClaimIsACell ==
    ASSUME NEW p \in Peers, NEW w \in Drivers, NEW d \in Decisions(p, w)
    PROVE  ClaimOf(p, w, d) \in Cells \cup {None}
<1>1. CASE p = Thief
  <2>1. ClaimOf(p, w, d) = None
    BY <1>1, PeersAreTwo DEF ClaimOf
  <2>2. QED
    BY <2>1
<1>2. CASE p = Cop /\ d.barrier # None
  BY <1>2, DecisionFields, PeersAreTwo DEF ClaimOf
<1>3. CASE p = Cop /\ d.barrier = None
  <2>1. ClaimOf(p, w, d) = SettleMove(w.pos, d.aim, w.walls)
    BY <1>3, PeersAreTwo DEF ClaimOf
  <2>2. w.pos \in Cells
    BY DEF Drivers
  <2>3. QED
    BY <2>1, <2>2, DecisionFields DEF SettleMove
<1>4. QED
  BY <1>1, <1>2, <1>3, PeersAreTwo

LEMMA TurningIsTyped ==
    ASSUME NEW w \in Drivers, NEW c \in BOOLEAN, NEW f \in Outcomes \cup {None}
    PROVE  [w EXCEPT !.caught = c, !.finished = f, !.walled = None] \in Drivers
BY DEF Drivers

LEMMA MovingIsTyped ==
    ASSUME NEW w \in Drivers, NEW c \in Cells, NEW u \in SUBSET Cells, NEW s \in Seq(Nat),
           NEW k \in Cells \cup {None}
    PROVE  [w EXCEPT !.pos = c, !.walls = u, !.sealed = s, !.claimed = k] \in Drivers
BY DEF Drivers

LEMMA TakeTurnEffect ==
    ASSUME NEW p \in Peers, NEW w \in Drivers, NEW d \in Decisions(p, w)
    PROVE  LET v == TakeTurn(p, w, d) IN
           /\ v \in Drivers /\ Unmoved(v, w) /\ v.held = w.held
           /\ v.sealed = Append(w.sealed, w.step)
           /\ v.walls = w.walls \cup ({d.barrier} \ {None})
<1> DEFINE claim == ClaimOf(p, w, d)
           pos   == SettleMove(w.pos, d.aim, w.walls)
           walls == w.walls \cup (IF d.barrier = None THEN {} ELSE {d.barrier})
           steps == Append(w.sealed, w.step)
           k     == Or(claim, w.claimed)
           moved == [w EXCEPT !.pos = pos, !.walls = walls, !.sealed = steps, !.claimed = k]
           lost  == Leaving(moved, w.walled) \/ BoxedIn(p, moved)
           c     == moved.caught \/ lost
           f     == CASE lost -> Capture
                      [] ~lost /\ ClaimsSurvival(p, w) -> Survival
                      [] OTHER -> moved.finished
           v     == [moved EXCEPT !.caught = c, !.finished = f, !.walled = None]
<1>1. TakeTurn(p, w, d) = v
  BY DEF TakeTurn
<1>2. d.aim \in Cells /\ d.barrier \in Cells \cup {None}
  BY DecisionFields
<1>3. pos \in Cells /\ walls \in SUBSET Cells /\ walls = w.walls \cup ({d.barrier} \ {None})
  BY <1>2 DEF SettleMove, Drivers
<1>4. steps \in Seq(Nat)
  BY DEF Drivers
<1>5. k \in Cells \cup {None}
  BY ClaimIsACell DEF Or, Drivers
<1> HIDE DEF pos, walls, steps, k
<1>6. moved \in Drivers
  BY <1>3, <1>4, <1>5, MovingIsTyped
<1>7. moved.held = w.held /\ moved.walls = walls /\ moved.sealed = steps /\ Unmoved(moved, w)
  BY DEF Drivers, Unmoved
<1>8. c \in BOOLEAN
  OBVIOUS
<1>9. f \in Outcomes \cup {None}
  <2>1. moved.finished \in Outcomes \cup {None}
    BY <1>6 DEF Drivers
  <2> HIDE DEF moved
  <2>2. CASE lost
    BY <2>2, OutcomeValues
  <2>3. CASE ~lost /\ ClaimsSurvival(p, w)
    BY <2>3, OutcomeValues
  <2>4. CASE ~lost /\ ~ClaimsSurvival(p, w)
    BY <2>1, <2>4
  <2>5. QED
    BY <2>2, <2>3, <2>4
<1> HIDE DEF moved, c, f
<1>10. v \in Drivers
  BY <1>6, <1>8, <1>9, TurningIsTyped
<1>11. v.held = moved.held /\ v.walls = moved.walls /\ v.sealed = moved.sealed /\ Unmoved(v, moved)
  BY <1>6 DEF Drivers, Unmoved
<1> HIDE DEF v
<1>12. QED
  BY <1>1, <1>3, <1>7, <1>10, <1>11 DEF Unmoved, steps

LEMMA TurnOfIsATurn ==
    ASSUME NEW p \in Peers, NEW w \in Drivers, NEW d \in Decisions(p, w)
    PROVE  LET m == TurnOf(p, w, d) IN
           /\ m \in Turns /\ m.step = w.step /\ m.barrier = d.barrier
<1>1. ClaimOf(p, w, d) \in Cells \cup {None} /\ d.barrier \in Cells \cup {None}
  BY ClaimIsACell, DecisionFields
<1>2. ClaimsSurvival(p, w) \in BOOLEAN
  BY DEF ClaimsSurvival
<1>3. w.step \in Nat /\ w.owed \in Answers \cup {None}
  BY DEF Drivers
<1>4. QED
  BY <1>1, <1>2, <1>3 DEF TurnOf, Turns

LEMMA TerminalIsATurn ==
    ASSUME NEW p \in Peers, NEW w \in Drivers
    PROVE  LET m == TerminalOf(p, w) IN
           /\ m \in Turns /\ m.step = w.step /\ m.barrier = None
<1> DEFINE win == p = Thief /\ SurvivalReached(w) /\ ~w.caught /\ ~BoxedIn(p, w)
<1>1. win \in BOOLEAN
  OBVIOUS
<1>2. w.step \in Nat /\ w.owed \in Answers \cup {None}
  BY DEF Drivers
<1>3. TerminalOf(p, w) = [step |-> w.step, barrier |-> None, claim |-> None,
                          response |-> w.owed, win |-> win]
  BY DEF TerminalOf
<1> HIDE DEF win
<1>4. QED
  BY <1>1, <1>2, <1>3 DEF Turns

-----------------------------------------------------------------------------
(* What a step makes of the invariant. *)

\* A step leaves p as v and the other as u.
Becomes(p, v, u) ==
    /\ v \in Drivers /\ Settled(v) /\ u \in Drivers /\ Settled(u)
    /\ peer' = [x \in Peers |-> IF x = p THEN v ELSE u]
    /\ UNCHANGED stops /\ faults' \in 0 .. MaxFaults /\ copies' \in 0 .. MaxCopies

\* The turns in v's inbox were in w's.
Fewer(v, w) == \A k \in DOMAIN v.turns : \E i \in DOMAIN w.turns : v.turns[k] = w.turns[i]

\* v has acted, read and told as w has, and has been sent nothing new.
Idle(v, w) == /\ v.sealed = w.sealed /\ v.held = w.held /\ v.walls = w.walls
              /\ v.terminal = w.terminal /\ v.last = w.last
              /\ Fewer(v, w)

LEMMA SameIsIdle ==
    ASSUME NEW v, NEW w, Same(v, w)
    PROVE  Idle(v, w)
BY DEF Same, Idle, Fewer

LEMMA InvOfTwo ==
    ASSUME Inv, NEW p \in Peers, NEW v, NEW u, Becomes(p, v, u),
           Rounds(p, v), Rounds(Other(p), u), Sent(p, v, u), Sent(Other(p), u, v),
           Boards(IF p = Cop THEN v ELSE u, IF p = Cop THEN u ELSE v)
    PROVE  Inv'
<1> USE PeersAreTwo
<1>1. peer'[p] = v /\ peer'[Other(p)] = u
  BY DEF Becomes
<1>2. TypeOK'
  <2>1. peer' \in [Peers -> Drivers]
    BY DEF Becomes
  <2>2. stops' \in BOOLEAN
    BY DEF Inv, TypeOK, Becomes
  <2>3. faults' \in 0 .. MaxFaults /\ copies' \in 0 .. MaxCopies
    BY DEF Becomes
  <2>4. \A x \in Peers : peer'[x].pc \in {"submit", "audits", "done"} => peer'[x].outcome \in Outcomes
    BY DEF Becomes, Settled
  <2>5. QED
    BY <2>1, <2>2, <2>3, <2>4 DEF TypeOK
<1>3. \A x \in Peers : Rounds(x, peer'[x]) /\ Sent(x, peer'[x], peer'[Other(x)])
  BY <1>1
<1>4. Boards(peer'[Cop], peer'[Thief])
  <2>1. CASE p = Cop
    BY <1>1, <2>1
  <2>2. CASE p = Thief
    BY <1>1, <2>2
  <2>3. QED
    BY <2>1, <2>2
<1>5. QED
  BY <1>2, <1>3, <1>4 DEF Inv

\* A step in which nobody acts, reads or tells anything new.
LEMMA IdleKeeps ==
    ASSUME Inv, NEW p \in Peers, NEW v, NEW u, Becomes(p, v, u),
           Idle(v, peer[p]), Idle(u, peer[Other(p)]),
           Rounds(p, v), u.pc = peer[Other(p)].pc, u.step = peer[Other(p)].step
    PROVE  Inv'
<1> USE PeersAreTwo
<1> DEFINE w == peer[p]
           z == peer[Other(p)]
<1>1. Rounds(Other(p), u)
  BY DEF Inv, Rounds, Idle, Acted, Read
<1>2. Sent(p, w, z) /\ Sent(Other(p), z, w)
  BY DEF Inv
<1>3. Sent(p, v, u) /\ Sent(Other(p), u, v)
  BY <1>2 DEF Sent, Idle, Fewer, OfASealedStep, Acted, Read
<1>4. Boards(IF p = Cop THEN w ELSE z, IF p = Cop THEN z ELSE w)
  BY DEF Inv
<1>5. ASSUME NEW c, NEW t, NEW cc, NEW tt, Boards(c, t), Idle(cc, c), Idle(tt, t)
      PROVE  Boards(cc, tt)
  BY <1>5 DEF Boards, Idle, Fewer, Carries, Acted, Read
<1>6. Boards(IF p = Cop THEN v ELSE u, IF p = Cop THEN u ELSE v)
  BY <1>4, <1>5
<1>7. QED
  BY <1>1, <1>3, <1>6, InvOfTwo

\* Who has left the rounds stays as it was.
LEMMA ParkedKeepsRounds ==
    ASSUME NEW p \in Peers, NEW v, NEW w, Rounds(p, w), Idle(v, w), v.pc \notin InRound
    PROVE  Rounds(p, v)
BY DEF Rounds, Idle, Acted, Read, InRound, Opening

\* Who goes to its terminal step has counted the step on.
LEMMA EndedKeepsRounds ==
    ASSUME NEW p \in Peers, NEW v, NEW w, Rounds(p, w), Idle(v, w),
           v.pc \in {"submit", "close", "closing"},
           v.pc = "close" => p = Thief /\ ~w.terminal /\ Acted(w) = v.step - 1
    PROVE  Rounds(p, v)
<1>1. Acted(v) = Acted(w) /\ Read(v) = Read(w) /\ v.held = w.held /\ v.terminal = w.terminal
  BY DEF Idle, Acted, Read
<1>2. v.pc \notin Opening \cup {"act", "wait"}
  BY DEF Opening
<1>3. v.pc \in InRound => v.pc = "close"
  BY DEF InRound, Opening
<1>4. QED
  BY <1>1, <1>2, <1>3, PeersAreTwo DEF Rounds, Opening

LEMMA DriversNow ==
    ASSUME Inv, NEW p \in Peers
    PROVE  /\ peer[p] \in Drivers /\ Settled(peer[p]) /\ Rounds(p, peer[p])
           /\ peer = [x \in Peers |-> peer[x]]
           /\ faults \in 0 .. MaxFaults /\ copies \in 0 .. MaxCopies
BY DEF Inv, TypeOK, Settled

LEMMA StaysIdle ==
    ASSUME NEW w \in Drivers
    PROVE  Idle(w, w)
BY DEF Idle, Fewer

\* Only p changes.
LEMMA IdleAlone ==
    ASSUME Inv, NEW p \in Peers, NEW v \in Drivers, Settled(v), Idle(v, peer[p]),
           Rounds(p, v), peer' = [peer EXCEPT ![p] = v],
           UNCHANGED stops, faults' \in 0 .. MaxFaults, copies' \in 0 .. MaxCopies
    PROVE  Inv'
<1> DEFINE u == peer[Other(p)]
<1>1. u \in Drivers /\ Settled(u) /\ Idle(u, u)
  BY DriversNow, StaysIdle, PeersAreTwo
<1>2. peer' = [x \in Peers |-> IF x = p THEN v ELSE u]
  BY DriversNow, PeersAreTwo
<1>3. Becomes(p, v, u)
  BY <1>1, <1>2 DEF Becomes
<1>4. QED
  BY <1>1, <1>3, IdleKeeps

LEMMA PatienceIsBounded ==
    ASSUME Inv, NEW p \in Peers, Patience(p)
    PROVE  faults' \in 0 .. MaxFaults
<1>1. faults \in 0 .. MaxFaults
  BY DEF Inv, TypeOK
<1>2. CASE UNCHANGED faults
  BY <1>1, <1>2
<1>3. CASE faults > 0 /\ faults' = faults - 1
  BY <1>1, <1>3, ReferenceAssumption
<1>4. QED
  BY <1>2, <1>3 DEF Patience

-----------------------------------------------------------------------------
(* The steps in which nobody acts and nothing is read. *)

\* The opening is over, whether or not their agreement came.
LEMMA BeginningIsIdle ==
    ASSUME Inv, NEW p \in Peers, peer[p].pc = "agree",
           NEW a \in Nat, NEW b \in BOOLEAN
    PROVE  LET v == [peer[p] EXCEPT !.pc = StartPc(p), !.agreements = a, !.idle = b] IN
           v \in Drivers /\ Settled(v) /\ Idle(v, peer[p]) /\ Rounds(p, v)
<1> DEFINE w == peer[p]
           k == StartPc(p)
           v == [w EXCEPT !.pc = k, !.agreements = a, !.idle = b]
<1>1. k \in PCs /\ (p = Thief => k = "act") /\ (p # Thief => k = "wait")
  BY DEF StartPc, PCs
<1>2. w \in Drivers /\ Rounds(p, w) /\ w.pc = "agree"
  BY DriversNow
<1> HIDE DEF k, w
<1>3. v \in Drivers
  BY <1>1, <1>2 DEF Drivers
<1>4. /\ v.pc = k /\ v.turns = w.turns /\ v.sealed = w.sealed /\ v.held = w.held
      /\ v.walls = w.walls /\ v.terminal = w.terminal /\ v.last = w.last /\ v.step = w.step
  BY <1>2 DEF Drivers
<1> HIDE DEF v
<1>5. Idle(v, w)
  BY <1>4 DEF Idle, Fewer
<1>6. Settled(v)
  BY <1>1, <1>4 DEF Settled
<1>7. w.step = 1 /\ Acted(w) = 0 /\ Read(w) = 0 /\ ~w.terminal /\ w.held = 1 .. 0
  BY <1>2 DEF Rounds, Opening, InRound
<1>8. Rounds(p, v)
  <2>1. v.pc \in {"act", "wait"} /\ v.pc \notin Opening /\ v.pc # "close"
    BY <1>1, <1>4 DEF Opening
  <2>2. v.step = 1 /\ Acted(v) = 0 /\ Read(v) = 0 /\ v.held = 1 .. 0 /\ ~v.terminal
    BY <1>4, <1>7 DEF Acted, Read
  <2>3. QED
    BY <1>1, <1>4, <2>1, <2>2, PeersAreTwo DEF Rounds
<1>9. QED
  BY <1>3, <1>5, <1>6, <1>8 DEF v, w, k

LEMMA TakeAgreementKeeps ==
    ASSUME Inv, NEW p \in Peers, TakeAgreement(p)
    PROVE  Inv'
<1> DEFINE w == peer[p]
           a == w.agreements - 1
           v == [w EXCEPT !.pc = StartPc(p), !.agreements = a, !.idle = w.idle]
<1>1. w \in Drivers /\ w.pc = "agree" /\ w.agreements > 0
  BY DriversNow DEF TakeAgreement
<1>2. a \in Nat /\ w.idle \in BOOLEAN
  BY <1>1 DEF Drivers
<1>3. v \in Drivers /\ Settled(v) /\ Idle(v, w) /\ Rounds(p, v)
  BY <1>1, <1>2, BeginningIsIdle
<1>4. v = [w EXCEPT !.pc = StartPc(p), !.agreements = a]
  BY <1>1 DEF Drivers
<1>5. peer' = [peer EXCEPT ![p] = v]
  BY <1>4, DriversNow DEF TakeAgreement
<1>6. QED
  BY <1>3, <1>5, IdleAlone, DriversNow DEF TakeAgreement

LEMMA NoAgreementKeeps ==
    ASSUME Inv, NEW p \in Peers, NoAgreement(p)
    PROVE  Inv'
<1> DEFINE w == peer[p]
           v == [w EXCEPT !.pc = StartPc(p), !.agreements = w.agreements, !.idle = TRUE]
<1>1. w \in Drivers /\ w.pc = "agree" /\ w.agreements \in Nat
  BY DriversNow DEF NoAgreement, Drivers
<1>3. v \in Drivers /\ Settled(v) /\ Idle(v, w) /\ Rounds(p, v)
  BY <1>1, BeginningIsIdle
<1>4. v = [w EXCEPT !.pc = StartPc(p), !.idle = TRUE]
  BY <1>1 DEF Drivers
<1>5. peer' = [peer EXCEPT ![p] = v]
  BY <1>4, DriversNow DEF NoAgreement
<1>6. faults' \in 0 .. MaxFaults
  BY PatienceIsBounded DEF NoAgreement
<1>7. QED
  BY <1>3, <1>5, <1>6, IdleAlone, DriversNow DEF NoAgreement

\* A driver stops playing with an outcome to disclose, or none and nothing to add.
LEMMA StoppingIsIdle ==
    ASSUME NEW p \in Peers, NEW w \in Drivers, Rounds(p, w),
           NEW o \in Outcomes, NEW e \in Outcomes \cup {None}
    PROVE  LET v == [w EXCEPT !.pc = "submit", !.ended = e, !.outcome = o] IN
           v \in Drivers /\ Settled(v) /\ Idle(v, w) /\ Rounds(p, v)
<1> DEFINE v == [w EXCEPT !.pc = "submit", !.ended = e, !.outcome = o]
<1>1. v \in Drivers
  BY DEF Drivers, PCs
<1>2. /\ v.pc = "submit" /\ v.outcome = o /\ v.turns = w.turns /\ v.sealed = w.sealed
      /\ v.held = w.held /\ v.walls = w.walls /\ v.terminal = w.terminal /\ v.last = w.last
  BY DEF Drivers
<1> HIDE DEF v
<1>3. Idle(v, w) /\ Settled(v)
  BY <1>2 DEF Idle, Fewer, Settled
<1>4. Rounds(p, v)
  BY <1>2, <1>3, EndedKeepsRounds
<1>5. QED
  BY <1>1, <1>3, <1>4 DEF v

LEMMA StallingIsIdle ==
    ASSUME NEW p \in Peers, NEW w \in Drivers, Rounds(p, w)
    PROVE  LET v == Stalled(w) IN v \in Drivers /\ Settled(v) /\ Idle(v, w) /\ Rounds(p, v)
<1> DEFINE o == Or(w.finished, TechnicalLoss)
<1>1. o \in Outcomes /\ w.ended \in Outcomes \cup {None}
  BY OutcomeValues DEF Or, Drivers
<1>2. Stalled(w) = [w EXCEPT !.pc = "submit", !.ended = w.ended, !.outcome = o]
  BY DEF Stalled, Drivers
<1> HIDE DEF o
<1> DEFINE v == [w EXCEPT !.pc = "submit", !.ended = w.ended, !.outcome = o]
<1>3. v \in Drivers /\ Settled(v) /\ Idle(v, w) /\ Rounds(p, v)
  BY <1>1, StoppingIsIdle
<1>4. QED
  BY <1>2, <1>3

\* The last wait of a thief at the ceiling, given up, leads to its terminal step.
LEMMA WrapUpIsIdle ==
    ASSUME NEW p \in Peers, NEW w \in Drivers, Rounds(p, w), w.pc = "wait"
    PROVE  LET v == WrapUp(p, w) IN v \in Drivers /\ Settled(v) /\ Idle(v, w) /\ Rounds(p, v)
<1> DEFINE v == WrapUp(p, w)
<1>1. /\ v \in Drivers /\ Settled(v) /\ Same(v, w) /\ v.step = w.step + 1
      /\ v.pc \in {"submit", "close", "closing"}
      /\ v.pc = "close" => p = Thief /\ ~w.terminal
  BY WrapUpEffect
<1> HIDE DEF v
<1>2. Idle(v, w)
  BY <1>1, SameIsIdle
<1>3. p = Thief => Acted(w) = w.step
  BY DEF Rounds
<1>4. Rounds(p, v)
  <2>1. v.pc = "close" => Acted(w) = v.step - 1
    BY <1>1, <1>3 DEF Drivers
  <2>2. QED
    BY <1>1, <1>2, <2>1, EndedKeepsRounds
<1>5. QED
  BY <1>1, <1>2, <1>4 DEF v

LEMMA DeadlineKeeps ==
    ASSUME Inv, NEW p \in Peers, Deadline(p)
    PROVE  Inv'
<1> DEFINE w == peer[p]
           v == IF p = Thief /\ SurvivalReached(w) THEN WrapUp(p, w) ELSE Stalled(w)
<1>1. w \in Drivers /\ Rounds(p, w) /\ w.pc = "wait"
  BY DriversNow DEF Deadline
<1>2. v \in Drivers /\ Settled(v) /\ Idle(v, w) /\ Rounds(p, v)
  BY <1>1, WrapUpIsIdle, StallingIsIdle
<1>3. peer' = [peer EXCEPT ![p] = v] /\ UNCHANGED <<stops, copies>>
  BY DEF Deadline
<1>4. faults' \in 0 .. MaxFaults
  BY PatienceIsBounded DEF Deadline
<1> HIDE DEF v
<1>5. QED
  BY <1>2, <1>3, <1>4, IdleAlone, DriversNow

LEMMA WatchdogKeeps ==
    ASSUME Inv, NEW p \in Peers, WatchdogTrips(p)
    PROVE  Inv'
<1>1. peer[p] \in Drivers /\ Rounds(p, peer[p])
  BY DriversNow
<1>2. QED
  BY <1>1, StallingIsIdle, IdleAlone, DriversNow DEF WatchdogTrips

LEMMA AuditInsteadKeeps ==
    ASSUME Inv, NEW p \in Peers, AuditInstead(p)
    PROVE  Inv'
<1> DEFINE w == peer[p]
           v(o, e) == [w EXCEPT !.pc = "submit", !.ended = e, !.outcome = o]
<1>1. w \in Drivers /\ Rounds(p, w)
  BY DriversNow
<1>2. Head(w.audits) \in Outcomes /\ w.ended \in Outcomes \cup {None}
  BY <1>1 DEF AuditInstead, Drivers
<1>3. PICK o \in Outcomes, e \in Outcomes \cup {None} : peer' = [peer EXCEPT ![p] = v(o, e)]
  <2>1. CASE w.pc = "wait"
    <3>1. Or(w.ended, Head(w.audits)) \in Outcomes
      BY <1>2 DEF Or
    <3>2. peer' = [peer EXCEPT ![p] = v(Or(w.ended, Head(w.audits)), Or(w.ended, Head(w.audits)))]
      BY <2>1 DEF AuditInstead
    <3>3. QED
      BY <3>1, <3>2
  <2>2. CASE w.pc # "wait"
    <3>1. [w EXCEPT !.pc = "submit", !.outcome = Survival] = v(Survival, w.ended)
      BY <1>1 DEF Drivers
    <3>2. peer' = [peer EXCEPT ![p] = v(Survival, w.ended)]
      BY <2>2, <3>1 DEF AuditInstead
    <3>3. QED
      BY <1>2, <3>2, OutcomeValues
  <2>3. QED
    BY <2>1, <2>2
<1>4. v(o, e) \in Drivers /\ Settled(v(o, e)) /\ Idle(v(o, e), w) /\ Rounds(p, v(o, e))
  BY <1>1, StoppingIsIdle
<1> HIDE DEF v
<1>5. QED
  BY <1>3, <1>4, IdleAlone, DriversNow DEF AuditInstead

LEMMA NoTerminalKeeps ==
    ASSUME Inv, NEW p \in Peers, NoTerminal(p)
    PROVE  Inv'
<1> DEFINE w == peer[p]
           v == [w EXCEPT !.pc = "submit", !.ended = w.ended, !.outcome = Survival]
<1>1. w \in Drivers /\ Rounds(p, w) /\ w.ended \in Outcomes \cup {None}
  BY DriversNow DEF Drivers
<1>2. v \in Drivers /\ Settled(v) /\ Idle(v, w) /\ Rounds(p, v)
  BY <1>1, StoppingIsIdle, OutcomeValues
<1>3. v = [w EXCEPT !.pc = "submit", !.outcome = Survival]
  BY <1>1 DEF Drivers
<1>4. peer' = [peer EXCEPT ![p] = v]
  BY <1>3, DriversNow DEF NoTerminal
<1>5. faults' \in 0 .. MaxFaults
  BY PatienceIsBounded DEF NoTerminal
<1>6. QED
  BY <1>2, <1>4, <1>5, IdleAlone, DriversNow DEF NoTerminal

\* The turns that stay in the inbox were there.
LEMMA KeepingIsIdle ==
    ASSUME NEW w \in Drivers
    PROVE  LET v == [w EXCEPT !.turns = Kept(w)] IN
           v \in Drivers /\ Idle(v, w) /\ v.pc = w.pc /\ v.step = w.step
<1> DEFINE k == Kept(w)
           v == [w EXCEPT !.turns = k]
<1>1. k \in Seq(Turns) /\ \A i \in DOMAIN k : \E j \in DOMAIN w.turns : k[i] = w.turns[j]
  BY KeptWasThere DEF Drivers
<1> HIDE DEF k
<1>2. v \in Drivers
  BY <1>1 DEF Drivers
<1>3. /\ v.turns = k /\ v.sealed = w.sealed /\ v.held = w.held /\ v.walls = w.walls
      /\ v.terminal = w.terminal /\ v.last = w.last /\ v.pc = w.pc /\ v.step = w.step
  BY DEF Drivers
<1> HIDE DEF v
<1>4. QED
  BY <1>1, <1>2, <1>3 DEF Idle, Fewer, v, k

LEMMA IdleIdle ==
    ASSUME NEW a, NEW b, NEW c, Idle(a, b), Idle(b, c)
    PROVE  Idle(a, c)
<1>1. \A k \in DOMAIN a.turns : \E i \in DOMAIN c.turns : a.turns[k] = c.turns[i]
  BY DEF Idle, Fewer
<1>2. QED
  BY <1>1 DEF Idle, Fewer

LEMMA IdleRounds ==
    ASSUME NEW p \in Peers, NEW v, NEW w, Rounds(p, w), Idle(v, w), v.pc = w.pc, v.step = w.step
    PROVE  Rounds(p, v)
BY DEF Rounds, Idle, Acted, Read

LEMMA ReadTerminalKeeps ==
    ASSUME Inv, NEW p \in Peers, ReadTerminal(p)
    PROVE  Inv'
<1> DEFINE w     == peer[p]
           kept  == [w EXCEPT !.turns = Kept(w)]
           heard == ReadConcession(kept, w.turns[FirstFound(w)])
           o     == Or(heard.finished, Survival)
           v     == [heard EXCEPT !.pc = "submit", !.ended = heard.ended, !.outcome = o]
<1>1. w \in Drivers /\ Rounds(p, w)
  BY DriversNow
<1>2. kept \in Drivers /\ Idle(kept, w) /\ Rounds(p, kept)
  <2>1. kept \in Drivers /\ Idle(kept, w) /\ kept.pc = w.pc /\ kept.step = w.step
    BY <1>1, KeepingIsIdle
  <2> HIDE DEF kept, w
  <2>2. QED
    BY <1>1, <2>1, IdleRounds
<1>3. peer' = [peer EXCEPT ![p] = [heard EXCEPT !.pc = "submit", !.outcome = o]]
  BY DEF ReadTerminal
<1> HIDE DEF kept
<1>4. heard \in Drivers /\ Same(heard, kept) /\ Unmoved(heard, kept)
  BY <1>2, ConcessionEffect
<1> HIDE DEF heard
<1>5. Idle(heard, kept) /\ Rounds(p, heard)
  BY <1>2, <1>4, SameIsIdle, IdleRounds DEF Unmoved
<1>6. o \in Outcomes /\ heard.ended \in Outcomes \cup {None}
  BY <1>4, OutcomeValues DEF Or, Drivers
<1> HIDE DEF o
<1>7. v \in Drivers /\ Settled(v) /\ Idle(v, heard) /\ Rounds(p, v)
  BY <1>4, <1>5, <1>6, StoppingIsIdle
<1>8. v = [heard EXCEPT !.pc = "submit", !.outcome = o]
  BY <1>4 DEF Drivers
<1> HIDE DEF v
<1>9. Idle(v, w)
  BY <1>2, <1>5, <1>7, IdleIdle
<1>10. QED
  BY <1>3, <1>7, <1>8, <1>9, IdleAlone, DriversNow DEF ReadTerminal

\* Emptying the inbox.
LEMMA ClearingIsIdle ==
    ASSUME NEW p \in Peers, NEW w \in Drivers, Rounds(p, w), w.outcome \in Outcomes
    PROVE  LET v == Cleared(w) IN v \in Drivers /\ Settled(v) /\ Idle(v, w) /\ Rounds(p, v)
<1> DEFINE v == Cleared(w)
<1>1. v \in Drivers
  <2>1. ASSUME NEW s \in Seq(Turns), NEW a \in Seq(Outcomes), NEW k \in PCs
        PROVE  [w EXCEPT !.pc = k, !.turns = s, !.audits = a] \in Drivers
    BY DEF Drivers
  <2>2. <<>> \in Seq(Turns) /\ <<>> \in Seq(Outcomes) /\ "done" \in PCs
    BY DEF PCs
  <2>3. QED
    BY <2>1, <2>2 DEF Cleared
<1>2. /\ v.pc = "done" /\ v.outcome = w.outcome /\ v.turns = <<>> /\ v.sealed = w.sealed /\ v.held = w.held
      /\ v.walls = w.walls /\ v.terminal = w.terminal /\ v.last = w.last
  BY DEF Cleared, Drivers
<1> HIDE DEF v
<1>3. Idle(v, w) /\ Settled(v)
  BY <1>2 DEF Idle, Fewer, Settled
<1>4. Rounds(p, v)
  BY <1>2, <1>3, ParkedKeepsRounds DEF InRound, Opening
<1>5. QED
  BY <1>1, <1>3, <1>4 DEF v

LEMMA AuditsKeep ==
    ASSUME Inv, NEW p \in Peers, TakeAudit(p) \/ NoAudit(p)
    PROVE  Inv'
<1>1. /\ peer[p] \in Drivers /\ Rounds(p, peer[p]) /\ peer' = [peer EXCEPT ![p] = Cleared(peer[p])]
      /\ UNCHANGED <<stops, copies>> /\ peer[p].outcome \in Outcomes
  BY DriversNow DEF TakeAudit, NoAudit, Settled
<1>2. faults' \in 0 .. MaxFaults
  BY PatienceIsBounded, DriversNow DEF TakeAudit, NoAudit
<1>3. QED
  BY <1>1, <1>2, ClearingIsIdle, IdleAlone, DriversNow

-----------------------------------------------------------------------------
(* The steps that call on the other peer. *)

\* A call arrives or it does not.
LEMMA CallEffect ==
    ASSUME Inv, NEW p \in Peers, NEW s, NEW a, Delivered(p, s, a) \/ Raised(p, s, a)
    PROVE  /\ faults' \in 0 .. MaxFaults
           /\ \E u \in {a, peer[Other(p)]} : peer' = [x \in Peers |-> IF x = p THEN s ELSE u]
<1> DEFINE z == peer[Other(p)]
           both(u) == [x \in Peers |-> IF x = p THEN s ELSE u]
<1> USE PeersAreTwo
<1>0. peer = [x \in Peers |-> peer[x]] /\ faults \in 0 .. MaxFaults
  BY DriversNow
<1>1. \A u : [peer EXCEPT ![p] = s, ![Other(p)] = u] = both(u)
  BY <1>0
<1>2. [peer EXCEPT ![p] = s] = both(z)
  BY <1>0
<1>3. faults > 0 /\ faults' = faults - 1 => faults' \in 0 .. MaxFaults
  BY <1>0, ReferenceAssumption
<1>4. CASE Delivered(p, s, a)
  BY <1>0, <1>1, <1>4 DEF Delivered
<1>5. CASE Raised(p, s, a)
  BY <1>0, <1>1, <1>2, <1>3, <1>5 DEF Raised
<1>6. QED
  BY <1>4, <1>5

LEMMA CallIsTyped ==
    ASSUME NEW w \in Drivers
    PROVE  /\ \A k \in PCs : [w EXCEPT !.pc = k] \in Drivers
           /\ \A n \in Nat : [w EXCEPT !.agreements = n] \in Drivers
           /\ \A s \in Seq(Outcomes) : [w EXCEPT !.audits = s] \in Drivers
<1>1. ASSUME NEW k \in PCs PROVE [w EXCEPT !.pc = k] \in Drivers
  BY DEF Drivers
<1>2. ASSUME NEW n \in Nat PROVE [w EXCEPT !.agreements = n] \in Drivers
  BY DEF Drivers
<1>3. ASSUME NEW s \in Seq(Outcomes) PROVE [w EXCEPT !.audits = s] \in Drivers
  BY DEF Drivers
<1>4. QED
  BY <1>1, <1>2, <1>3

LEMMA PushAgreementKeeps ==
    ASSUME Inv, NEW p \in Peers, PushAgreement(p)
    PROVE  Inv'
<1> DEFINE w == peer[p]
           z == peer[Other(p)]
           v == [w EXCEPT !.pc = "agree"]
           n == z.agreements + 1
           a == [z EXCEPT !.agreements = n]
<1>1. w \in Drivers /\ z \in Drivers /\ w.pc = "push" /\ Settled(z) /\ Rounds(p, w)
  BY DriversNow, PeersAreTwo DEF PushAgreement
<1>2. PICK u \in {a, z} : peer' = [x \in Peers |-> IF x = p THEN v ELSE u]
  BY CallEffect DEF PushAgreement
<1>3. faults' \in 0 .. MaxFaults /\ UNCHANGED stops /\ copies' \in 0 .. MaxCopies
  BY CallEffect, DriversNow DEF PushAgreement
<1>4. n \in Nat
  BY <1>1 DEF Drivers
<1> HIDE DEF w, z, n
<1>5. v \in Drivers /\ a \in Drivers
  BY <1>1, <1>4, CallIsTyped DEF PCs
<1>6. /\ a.turns = z.turns /\ a.sealed = z.sealed /\ a.held = z.held /\ a.walls = z.walls
      /\ a.terminal = z.terminal /\ a.last = z.last /\ a.pc = z.pc /\ a.step = z.step
      /\ a.outcome = z.outcome
  BY <1>1 DEF Drivers
<1>7. /\ v.turns = w.turns /\ v.sealed = w.sealed /\ v.held = w.held /\ v.walls = w.walls
      /\ v.terminal = w.terminal /\ v.last = w.last /\ v.pc = "agree" /\ v.step = w.step
  BY <1>1 DEF Drivers
<1> HIDE DEF v, a
<1>8. Idle(a, z) /\ Idle(z, z) /\ Settled(a)
  BY <1>1, <1>6 DEF Idle, Fewer, Settled
<1>9. u \in Drivers /\ Settled(u) /\ Idle(u, z) /\ u.pc = z.pc /\ u.step = z.step
  BY <1>1, <1>5, <1>6, <1>8
<1>10. Idle(v, w) /\ Settled(v)
  BY <1>7 DEF Idle, Fewer, Settled
<1>11. Rounds(p, v)
  <2>1. w.step = 1 /\ Acted(w) = 0 /\ Read(w) = 0 /\ ~w.terminal /\ w.held = 1 .. 0
    BY <1>1 DEF Rounds, Opening, InRound
  <2>2. v.step = 1 /\ Acted(v) = 0 /\ Read(v) = 0 /\ ~v.terminal /\ v.held = 1 .. 0
    BY <2>1, <1>7 DEF Acted, Read
  <2>3. QED
    BY <1>7, <2>2 DEF Rounds
<1>12. Becomes(p, v, u)
  BY <1>2, <1>3, <1>5, <1>9, <1>10 DEF Becomes
<1>13. QED
  BY <1>9, <1>10, <1>11, <1>12, IdleKeeps DEF w, z

LEMMA SubmitAuditKeeps ==
    ASSUME Inv, NEW p \in Peers, SubmitAudit(p)
    PROVE  Inv'
<1> DEFINE w == peer[p]
           z == peer[Other(p)]
           v == [w EXCEPT !.pc = "audits"]
           s == Append(z.audits, w.outcome)
           a == [z EXCEPT !.audits = s]
<1>1. /\ w \in Drivers /\ z \in Drivers /\ w.outcome \in Outcomes /\ Settled(z)
      /\ Rounds(p, w)
  BY DriversNow, PeersAreTwo DEF SubmitAudit, Settled
<1>2. PICK u \in {a, z} : peer' = [x \in Peers |-> IF x = p THEN v ELSE u]
  BY CallEffect DEF SubmitAudit
<1>3. faults' \in 0 .. MaxFaults /\ UNCHANGED stops /\ copies' \in 0 .. MaxCopies
  BY CallEffect, DriversNow DEF SubmitAudit
<1>4. s \in Seq(Outcomes)
  BY <1>1 DEF Drivers
<1> HIDE DEF w, z, s
<1>5. v \in Drivers /\ a \in Drivers
  BY <1>1, <1>4, CallIsTyped DEF PCs
<1>6. /\ a.turns = z.turns /\ a.sealed = z.sealed /\ a.held = z.held /\ a.walls = z.walls
      /\ a.terminal = z.terminal /\ a.last = z.last /\ a.pc = z.pc /\ a.step = z.step
      /\ a.outcome = z.outcome
  BY <1>1 DEF Drivers
<1>7. /\ v.turns = w.turns /\ v.sealed = w.sealed /\ v.held = w.held /\ v.walls = w.walls
      /\ v.terminal = w.terminal /\ v.last = w.last /\ v.pc = "audits"
      /\ v.outcome = w.outcome
  BY <1>1 DEF Drivers
<1> HIDE DEF v, a
<1>8. Idle(a, z) /\ Idle(z, z) /\ Settled(a)
  BY <1>1, <1>6 DEF Idle, Fewer, Settled
<1>9. u \in Drivers /\ Settled(u) /\ Idle(u, z) /\ u.pc = z.pc /\ u.step = z.step
  BY <1>1, <1>5, <1>6, <1>8
<1>10. Idle(v, w) /\ Settled(v)
  BY <1>1, <1>7 DEF Idle, Fewer, Settled
<1>11. Rounds(p, v)
  BY <1>1, <1>7, <1>10, ParkedKeepsRounds DEF InRound, Opening
<1>12. Becomes(p, v, u)
  BY <1>2, <1>3, <1>5, <1>9, <1>10 DEF Becomes
<1>13. QED
  BY <1>9, <1>10, <1>11, <1>12, IdleKeeps DEF w, z

\* v is s with the call made: m is kept for a repeat, or the call took p down.
AfterCall(v, s, m) == v = [s EXCEPT !.last = m] \/ v = [s EXCEPT !.pc = "crashed"]

\* A push leaves p and the other so.
Pushed(p, s, m) ==
    \E v, u : /\ AfterCall(v, s, m) /\ u \in {InTurns(Other(p), m), peer[Other(p)]}
             /\ peer' = [x \in Peers |-> IF x = p THEN v ELSE u]

LEMMA PushEffect ==
    ASSUME Inv, NEW p \in Peers, NEW s, NEW m, PushTurn(p, m, s)
    PROVE  faults' \in 0 .. MaxFaults /\ Pushed(p, s, m)
<1> DEFINE a  == InTurns(Other(p), m)
           v1 == [s EXCEPT !.last = m]
           v2 == [s EXCEPT !.pc = "crashed"]
<1>1. Delivered(p, v1, a) \/ Raised(p, v2, a)
  BY DEF PushTurn
<1>2. AfterCall(v1, s, m) /\ AfterCall(v2, s, m)
  BY DEF AfterCall
<1> HIDE DEF a, v1, v2
<1>3. CASE Delivered(p, v1, a)
  BY <1>2, <1>3, CallEffect DEF a, Pushed
<1>4. CASE Raised(p, v2, a)
  BY <1>2, <1>4, CallEffect DEF a, Pushed
<1>5. QED
  BY <1>1, <1>3, <1>4

LEMMA AfterCallEffect ==
    ASSUME NEW p \in Peers, NEW s \in Drivers, Settled(s), Rounds(p, s), NEW m \in Turns,
           NEW v, AfterCall(v, s, m)
    PROVE  /\ v \in Drivers /\ Settled(v) /\ Rounds(p, v)
           /\ v.turns = s.turns /\ v.sealed = s.sealed /\ v.held = s.held
           /\ v.walls = s.walls /\ v.last \in {s.last, m}
<1>1. CASE v = [s EXCEPT !.last = m]
  <2>1. v \in Drivers
    BY <1>1 DEF Drivers
  <2>2. /\ v.turns = s.turns /\ v.sealed = s.sealed /\ v.held = s.held /\ v.walls = s.walls
        /\ v.last = m /\ v.pc = s.pc /\ v.step = s.step /\ v.terminal = s.terminal
        /\ v.outcome = s.outcome
    BY <1>1 DEF Drivers
  <2>3. QED
    BY <2>1, <2>2 DEF Settled, Rounds, Acted, Read
<1>2. CASE v = [s EXCEPT !.pc = "crashed"]
  <2>1. v \in Drivers
    BY <1>2, CallIsTyped DEF PCs
  <2>2. /\ v.turns = s.turns /\ v.sealed = s.sealed /\ v.held = s.held /\ v.walls = s.walls
        /\ v.last = s.last /\ v.pc = "crashed" /\ v.terminal = s.terminal
    BY <1>2 DEF Drivers
  <2>3. Idle(v, s) /\ Settled(v)
    BY <2>2 DEF Idle, Fewer, Settled
  <2>4. Rounds(p, v)
    BY <2>2, <2>3, ParkedKeepsRounds DEF InRound, Opening
  <2>5. QED
    BY <2>1, <2>2, <2>3, <2>4
<1>3. QED
  BY <1>1, <1>2 DEF AfterCall

LEMMA ArrivalEffect ==
    ASSUME Inv, NEW q \in Peers, NEW m \in Turns, NEW u \in {InTurns(q, m), peer[q]}
    PROVE  /\ u \in Drivers /\ Settled(u) /\ Rounds(q, u)
           /\ u.sealed = peer[q].sealed /\ u.held = peer[q].held /\ u.walls = peer[q].walls
           /\ u.last = peer[q].last /\ u.terminal = peer[q].terminal
           /\ \A i \in DOMAIN u.turns :
                u.turns[i] = m \/ \E j \in DOMAIN peer[q].turns : u.turns[i] = peer[q].turns[j]
<1> DEFINE z == peer[q]
           t == Append(z.turns, m)
           a == [z EXCEPT !.turns = t]
<1>1. z \in Drivers /\ Settled(z) /\ Rounds(q, z)
  BY DriversNow
<1>2. t \in Seq(Turns) /\ \A i \in DOMAIN t : t[i] = m \/ \E j \in DOMAIN z.turns : t[i] = z.turns[j]
  <2>1. z.turns \in Seq(Turns)
    BY <1>1 DEF Drivers
  <2>2. QED
    BY <2>1
<1>3. InTurns(q, m) = a
  BY DEF InTurns
<1> HIDE DEF z, t
<1>4. a \in Drivers
  BY <1>1, <1>2 DEF Drivers
<1>5. /\ a.turns = t /\ a.sealed = z.sealed /\ a.held = z.held /\ a.walls = z.walls
      /\ a.last = z.last /\ a.terminal = z.terminal /\ a.pc = z.pc /\ a.step = z.step
      /\ a.outcome = z.outcome
  BY <1>1 DEF Drivers
<1> HIDE DEF a
<1>6. Settled(a) /\ Rounds(q, a)
  BY <1>1, <1>5 DEF Settled, Rounds, Acted, Read
<1>7. u = a \/ u = z
  BY <1>3 DEF z
<1>8. CASE u = a
  BY <1>2, <1>4, <1>5, <1>6, <1>8 DEF z
<1>9. CASE u = z
  BY <1>1, <1>9 DEF z
<1>10. QED
  BY <1>7, <1>8, <1>9

\* p seals a step and sends the turn m of it.
LEMMA TurnKeeps ==
    ASSUME Inv, NEW p \in Peers, NEW m \in Turns, NEW s \in Drivers, Settled(s), Rounds(p, s),
           s.sealed = Append(peer[p].sealed, peer[p].step), s.held = peer[p].held,
           s.turns = peer[p].turns, s.last = peer[p].last,
           s.walls = peer[p].walls \cup ({m.barrier} \ {None}),
           p = Thief => m.barrier = None,
           m.step = Acted(peer[p]) + 1,
           PushTurn(p, m, s), UNCHANGED <<stops, copies>>
    PROVE  Inv'
<1>0. p \in Peers /\ Other(p) \in Peers
  BY PeersAreTwo
<1>a. Pushed(p, s, m)
  BY PushEffect
<1>1. PICK v, u : /\ AfterCall(v, s, m) /\ u \in {InTurns(Other(p), m), peer[Other(p)]}
                  /\ peer' = [x \in Peers |-> IF x = p THEN v ELSE u]
  BY <1>a DEF Pushed
<1> DEFINE w == peer[p]
           z == peer[Other(p)]
<1>2. faults' \in 0 .. MaxFaults
  BY PushEffect
<1>3. /\ v \in Drivers /\ Settled(v) /\ Rounds(p, v)
      /\ v.turns = w.turns /\ v.sealed = s.sealed /\ v.held = w.held
      /\ v.walls = s.walls /\ v.last \in {w.last, m}
  BY <1>1, AfterCallEffect
<1>4. /\ u \in Drivers /\ Settled(u) /\ Rounds(Other(p), u)
      /\ u.sealed = z.sealed /\ u.held = z.held /\ u.walls = z.walls
      /\ u.last = z.last /\ u.terminal = z.terminal
      /\ \A i \in DOMAIN u.turns :
           u.turns[i] = m \/ \E j \in DOMAIN z.turns : u.turns[i] = z.turns[j]
  BY <1>0, <1>1, ArrivalEffect
<1>5. Becomes(p, v, u)
  BY <1>1, <1>2, <1>3, <1>4, DriversNow DEF Becomes
<1>6. /\ Acted(v) = Acted(w) + 1 /\ Acted(w) \in Nat /\ Read(v) = Read(w)
      /\ Acted(u) = Acted(z) /\ Read(u) = Read(z)
  <2>1. w.sealed \in Seq(Nat) /\ w.step \in Nat
    BY DriversNow DEF Drivers
  <2>2. QED
    BY <2>1, <1>3, <1>4 DEF Acted, Read
<1>7. Sent(p, w, z) /\ Sent(Other(p), z, w) /\ Boards(IF p = Cop THEN w ELSE z, IF p = Cop THEN z ELSE w)
  BY PeersAreTwo DEF Inv
<1>8. Read(z) \in Nat
  BY <1>0, DriversNow DEF Rounds
<1>9. ASSUME NEW x, OfASealedStep(p, w, x)
      PROVE  OfASealedStep(p, v, x) /\ x.step < Acted(v)
  BY <1>6, <1>9 DEF OfASealedStep
<1>10. OfASealedStep(p, v, m)
  BY <1>6 DEF OfASealedStep
<1>11. Sent(p, v, u)
  <2>1. v.last # None => OfASealedStep(p, v, v.last)
    BY <1>3, <1>7, <1>9, <1>10 DEF Sent
  <2>2. \A i \in DOMAIN u.turns : OfASealedStep(p, v, u.turns[i])
    BY <1>4, <1>7, <1>9, <1>10 DEF Sent
  <2>3. Read(u) <= Acted(v)
    BY <1>6, <1>7, <1>8 DEF Sent
  <2>4. QED
    BY <2>1, <2>2, <2>3 DEF Sent
<1>12. Sent(Other(p), u, v)
  BY <1>3, <1>4, <1>6, <1>7 DEF Sent, OfASealedStep
<1>13. CASE p = Cop
  <2>1. Boards(w, z) /\ Read(z) <= Acted(w)
    BY <1>7, <1>13 DEF Sent
  <2>2. w.walls \subseteq v.walls /\ v.walls = w.walls \cup ({m.barrier} \ {None})
    BY <1>3
  <2>3. Carries(v, u, m)
    <3>1. m.barrier \in v.walls \cup {None}
      BY <2>2
    <3>2. ASSUME Acted(v) = Read(u) + 1
          PROVE  v.walls = u.walls \cup ({m.barrier} \ {None})
      <4>1. Read(z) = Acted(w)
        BY <1>6, <1>8, <3>2
      <4>2. z.walls = w.walls
        BY <2>1, <4>1 DEF Boards
      <4>3. QED
        BY <1>4, <2>2, <4>2
    <3>3. QED
      BY <3>1, <3>2 DEF Carries
  <2>4. ASSUME NEW x, Carries(w, z, x), OfASealedStep(p, w, x)
        PROVE  Carries(v, u, x)
    <3>1. x.step # Acted(v)
      BY <1>6, <1>9, <2>4 DEF OfASealedStep
    <3>2. QED
      BY <2>2, <2>4, <3>1 DEF Carries
  <2>5. v.last # None => Carries(v, u, v.last)
    BY <1>3, <1>7, <2>1, <2>3, <2>4 DEF Boards, Sent
  <2>6. \A i \in DOMAIN u.turns : Carries(v, u, u.turns[i])
    BY <1>4, <1>7, <2>1, <2>3, <2>4 DEF Boards, Sent
  <2>7. u.walls \subseteq v.walls /\ ~(Read(u) = Acted(v))
    BY <1>4, <1>6, <1>8, <2>1, <2>2 DEF Boards
  <2>8. Boards(v, u)
    BY <2>5, <2>6, <2>7 DEF Boards
  <2>9. QED
    BY <1>3, <1>4, <1>5, <1>11, <1>12, <1>13, <2>8, InvOfTwo
<1>14. CASE p = Thief
  <2>1. Boards(z, w) /\ v.walls = w.walls
    BY <1>3, <1>7, <1>14, PeersAreTwo
  <2>2. Boards(u, v)
    <3>1. ASSUME NEW x, Carries(z, w, x)
          PROVE  Carries(u, v, x)
      BY <1>4, <1>6, <2>1, <3>1 DEF Carries
    <3>2. u.last # None => Carries(u, v, u.last)
      BY <1>4, <2>1, <3>1 DEF Boards
    <3>3. \A i \in DOMAIN v.turns : Carries(u, v, v.turns[i])
      BY <1>3, <2>1, <3>1 DEF Boards
    <3>4. QED
      BY <1>4, <1>6, <2>1, <3>2, <3>3 DEF Boards
  <2>3. QED
    BY <1>3, <1>4, <1>5, <1>11, <1>12, <1>14, <2>2, InvOfTwo, PeersAreTwo
<1>15. QED
  BY <1>13, <1>14, PeersAreTwo

\* The round after a turn, whichever way play_round goes on.
LEMMA ActedRounds ==
    ASSUME NEW p \in Peers, NEW w \in Drivers, Rounds(p, w), w.pc = "act",
           NEW s \in Drivers, s.sealed = Append(w.sealed, w.step), s.held = w.held,
           s.terminal = w.terminal,
           \/ /\ s.pc \in {"submit", "close", "closing"} /\ s.step = w.step + 1
              /\ s.pc = "close" => p = Thief
           \/ s.pc = "wait" /\ s.step = IF p = Thief THEN w.step ELSE w.step + 1
    PROVE  Rounds(p, s)
<1>1. /\ w.step \in Nat /\ Acted(w) = w.step - 1 /\ ~w.terminal
      /\ Read(w) \in Nat /\ Read(w) = (IF p = Thief THEN w.step - 1 ELSE w.step)
      /\ w.held = 1 .. Read(w)
  BY DEF Rounds, InRound, Drivers
<1>2. Acted(s) = w.step /\ Read(s) = Read(w)
  <2>1. w.sealed \in Seq(Nat)
    BY DEF Drivers
  <2>2. QED
    BY <1>1, <2>1 DEF Acted, Read
<1>3. s.pc \in {"submit", "close", "closing", "wait"} /\ s.pc \notin Opening /\ s.pc # "act"
  BY DEF Opening
<1>4. s.pc = "wait" => s.step = IF p = Thief THEN w.step ELSE w.step + 1
  OBVIOUS
<1>5. s.pc = "close" => s.step = w.step + 1 /\ p = Thief
  OBVIOUS
<1>6. ~s.terminal /\ s.held = 1 .. Read(s)
  BY <1>1, <1>2
<1>7. CASE p = Thief
  BY <1>1, <1>2, <1>3, <1>4, <1>5, <1>6, <1>7, PeersAreTwo DEF Rounds
<1>8. CASE p = Cop
  BY <1>1, <1>2, <1>3, <1>4, <1>5, <1>6, <1>8, PeersAreTwo DEF Rounds
<1>9. QED
  BY <1>7, <1>8, PeersAreTwo

\* What act leads to.
LEMMA ActEffect ==
    ASSUME NEW p \in Peers, NEW w \in Drivers, Rounds(p, w), w.pc = "act",
           NEW a \in Drivers, a.step = w.step, a.terminal = w.terminal
    PROVE  LET s == CASE a.finished # None -> WrapUp(p, a)
                      [] a.finished = None /\ p = Thief -> [a EXCEPT !.pc = "wait"]
                      [] OTHER -> NextRound(p, a)
           IN /\ s \in Drivers /\ Settled(s) /\ Same(s, a)
              /\ \/ /\ s.pc \in {"submit", "close", "closing"} /\ s.step = w.step + 1
                    /\ s.pc = "close" => p = Thief
                 \/ s.pc = "wait" /\ s.step = IF p = Thief THEN w.step ELSE w.step + 1
<1> DEFINE s == CASE a.finished # None -> WrapUp(p, a)
                  [] a.finished = None /\ p = Thief -> [a EXCEPT !.pc = "wait"]
                  [] OTHER -> NextRound(p, a)
           G(x) == /\ x \in Drivers /\ Settled(x) /\ Same(x, a)
                   /\ \/ /\ x.pc \in {"submit", "close", "closing"} /\ x.step = w.step + 1
                         /\ x.pc = "close" => p = Thief
                      \/ x.pc = "wait" /\ x.step = IF p = Thief THEN w.step ELSE w.step + 1
<1>1. G(WrapUp(p, a))
  BY WrapUpEffect
<1>2. ASSUME p # Thief
      PROVE  G(NextRound(p, a))
  <2>1. StartPc(p) = "wait"
    BY <1>2 DEF StartPc
  <2>2. QED
    BY <1>2, <2>1, NextRoundEffect
<1>3. ASSUME p = Thief
      PROVE  G([a EXCEPT !.pc = "wait"])
  <2> DEFINE x == [a EXCEPT !.pc = "wait"]
  <2>1. x \in Drivers
    BY CallIsTyped DEF PCs
  <2>2. x.pc = "wait" /\ x.step = a.step /\ Same(x, a)
    BY DEF Drivers, Same
  <2> HIDE DEF x
  <2>3. G(x)
    BY <1>3, <2>1, <2>2 DEF Settled
  <2>4. QED
    BY <2>3 DEF x
<1> HIDE DEF G
<1>4. CASE a.finished # None
  <2>1. s = WrapUp(p, a)
    BY <1>4
  <2>2. QED
    BY <1>1, <2>1 DEF G
<1>5. CASE a.finished = None /\ p = Thief
  <2>1. s = [a EXCEPT !.pc = "wait"]
    BY <1>5
  <2>2. QED
    BY <1>3, <1>5, <2>1 DEF G
<1>6. CASE a.finished = None /\ p # Thief
  <2>1. s = NextRound(p, a)
    BY <1>6
  <2>2. QED
    BY <1>2, <1>6, <2>1 DEF G
<1>7. QED
  BY <1>4, <1>5, <1>6

LEMMA ActKeeps ==
    ASSUME Inv, NEW p \in Peers, Act(p)
    PROVE  Inv'
<1> DEFINE w == peer[p]
<1>1. w \in Drivers /\ Rounds(p, w) /\ w.pc = "act"
  BY DriversNow DEF Act
<1>2. PICK d \in Decisions(p, w) :
        LET a == [TakeTurn(p, w, d) EXCEPT !.owed = None]
            s == CASE a.finished # None -> WrapUp(p, a)
                   [] a.finished = None /\ p = Thief -> [a EXCEPT !.pc = "wait"]
                   [] OTHER -> NextRound(p, a)
        IN  PushTurn(p, TurnOf(p, w, d), s)
  BY DEF Act
<1> DEFINE t == TakeTurn(p, w, d)
           a == [t EXCEPT !.owed = None]
           m == TurnOf(p, w, d)
           s == CASE a.finished # None -> WrapUp(p, a)
                  [] a.finished = None /\ p = Thief -> [a EXCEPT !.pc = "wait"]
                  [] OTHER -> NextRound(p, a)
<1>3. /\ t \in Drivers /\ Unmoved(t, w) /\ t.held = w.held
      /\ t.sealed = Append(w.sealed, w.step)
      /\ t.walls = w.walls \cup ({d.barrier} \ {None})
  BY <1>1, TakeTurnEffect
<1>4. m \in Turns /\ m.step = w.step /\ m.barrier = d.barrier
  BY <1>1, TurnOfIsATurn
<1>5. p = Thief => d.barrier = None
  BY <1>1, DecisionFields
<1>6. PushTurn(p, m, s)
  BY <1>2
<1> HIDE DEF w, t, m
<1>7. a \in Drivers
  BY <1>3 DEF Drivers
<1>8. /\ a.held = t.held /\ a.sealed = t.sealed /\ a.walls = t.walls /\ a.step = t.step
      /\ a.terminal = t.terminal /\ a.turns = t.turns /\ a.last = t.last
  BY <1>3 DEF Drivers
<1> HIDE DEF a
<1>9. /\ s \in Drivers /\ Settled(s) /\ Same(s, a)
      /\ \/ /\ s.pc \in {"submit", "close", "closing"} /\ s.step = w.step + 1
            /\ s.pc = "close" => p = Thief
         \/ s.pc = "wait" /\ s.step = IF p = Thief THEN w.step ELSE w.step + 1
  BY <1>1, <1>3, <1>7, <1>8, ActEffect DEF Unmoved
<1> HIDE DEF s
<1>10. /\ s.sealed = Append(w.sealed, w.step) /\ s.held = w.held /\ s.turns = w.turns
       /\ s.last = w.last /\ s.terminal = w.terminal
       /\ s.walls = w.walls \cup ({m.barrier} \ {None})
  BY <1>3, <1>4, <1>8, <1>9 DEF Same, Unmoved
<1>11. Rounds(p, s)
  BY <1>1, <1>9, <1>10, ActedRounds
<1>12. m.step = Acted(w) + 1
  BY <1>1, <1>4 DEF Rounds, Drivers
<1>13. UNCHANGED <<stops, copies>>
  BY DEF Act
<1>14. QED
  BY <1>4, <1>5, <1>6, <1>9, <1>10, <1>11, <1>12, <1>13, TurnKeeps DEF w

LEMMA CloseKeeps ==
    ASSUME Inv, NEW p \in Peers, Close(p)
    PROVE  Inv'
<1> DEFINE w == peer[p]
           m == TerminalOf(p, w)
           e == IF w.caught THEN Capture ELSE w.finished
           n == Append(w.sealed, w.step)
           o == Or(e, Survival)
           s == [w EXCEPT !.pc = "submit", !.sealed = n, !.owed = None,
                          !.terminal = TRUE, !.finished = e, !.outcome = o]
<1>1. w \in Drivers /\ Rounds(p, w) /\ w.pc = "close" /\ UNCHANGED <<stops, copies>>
  BY DriversNow DEF Close
<1>2. m \in Turns /\ m.step = w.step /\ m.barrier = None
  BY <1>1, TerminalIsATurn
<1>3. PushTurn(p, m, s)
  BY DEF Close
<1>4. e \in Outcomes \cup {None} /\ n \in Seq(Nat)
  BY <1>1, OutcomeValues DEF Drivers
<1>5. m.step = Acted(w) + 1
  BY <1>1, <1>2 DEF Rounds, Drivers
<1> HIDE DEF e
<1>6. o \in Outcomes
  BY <1>4, OutcomeValues DEF Or
<1> HIDE DEF w, n, o, m
<1>7. s \in Drivers
  BY <1>1, <1>4, <1>6 DEF Drivers, PCs
<1>8. /\ s.sealed = n /\ s.held = w.held /\ s.turns = w.turns /\ s.last = w.last
      /\ s.walls = w.walls /\ s.pc = "submit" /\ s.outcome = o /\ s.terminal
  BY <1>1 DEF Drivers
<1> HIDE DEF s
<1>9. Settled(s)
  BY <1>6, <1>8 DEF Settled
<1>10. Rounds(p, s)
  <2>1. p # Cop
    BY <1>1 DEF Rounds
  <2>2. Read(s) = Read(w) /\ Read(w) \in Nat /\ w.held = 1 .. Read(w)
    BY <1>1, <1>8 DEF Rounds, Read
  <2>3. s.pc \notin InRound
    BY <1>8 DEF InRound, Opening
  <2>4. QED
    BY <1>8, <2>1, <2>2, <2>3 DEF Rounds, InRound, Opening
<1>11. s.walls = w.walls \cup ({m.barrier} \ {None})
  BY <1>2, <1>8
<1>12. QED
  BY <1>1, <1>2, <1>3, <1>5, <1>7, <1>8, <1>9, <1>10, <1>11, TurnKeeps DEF w, n

\* A turn that arrives again is one of those that were sent.
LEMMA CopiedKeeps ==
    ASSUME Inv, NEW p \in Peers, Copied(p)
    PROVE  Inv'
<1> DEFINE w == peer[p]
           z == peer[Other(p)]
           m == w.last
           u == InTurns(Other(p), m)
<1>1. /\ w \in Drivers /\ Settled(w) /\ Rounds(p, w) /\ Other(p) \in Peers
      /\ Sent(p, w, z) /\ Sent(Other(p), z, w)
      /\ Boards(IF p = Cop THEN w ELSE z, IF p = Cop THEN z ELSE w)
  BY DriversNow, PeersAreTwo DEF Inv
<1>2. m \in Turns
  BY <1>1 DEF Copied, Drivers
<1>3. /\ u \in Drivers /\ Settled(u) /\ Rounds(Other(p), u)
      /\ u.sealed = z.sealed /\ u.held = z.held /\ u.walls = z.walls
      /\ u.last = z.last /\ u.terminal = z.terminal
      /\ \A i \in DOMAIN u.turns :
           u.turns[i] = m \/ \E j \in DOMAIN z.turns : u.turns[i] = z.turns[j]
  BY <1>1, <1>2, ArrivalEffect
<1>4. m # None /\ peer' = [x \in Peers |-> IF x = p THEN w ELSE u]
  <2>1. m # None /\ peer' = [peer EXCEPT ![Other(p)] = u]
    BY DEF Copied
  <2>2. peer = [x \in Peers |-> peer[x]]
    BY DriversNow
  <2> HIDE DEF u
  <2>3. \A x \in Peers : peer'[x] = IF x = p THEN w ELSE u
    BY <2>1, <2>2, PeersAreTwo
  <2>4. peer' = [x \in Peers |-> peer'[x]]
    BY <2>1, <2>2
  <2>5. QED
    BY <2>1, <2>3, <2>4
<1>5. copies' \in 0 .. MaxCopies
  <2>1. copies \in 0 .. MaxCopies /\ copies > 0 /\ copies' = copies - 1
    BY DriversNow DEF Copied
  <2>2. QED
    BY <2>1, ReferenceAssumption
<1>6. Becomes(p, w, u)
  BY <1>1, <1>3, <1>4, <1>5, DriversNow DEF Becomes, Copied
<1> HIDE DEF w, z, m, u
<1>7. Acted(u) = Acted(z) /\ Read(u) = Read(z)
  BY <1>3 DEF Acted, Read
<1>8. Sent(p, w, u)
  <2>1. OfASealedStep(p, w, m)
    BY <1>1, <1>4 DEF Sent, m
  <2>2. \A i \in DOMAIN u.turns : OfASealedStep(p, w, u.turns[i])
    BY <1>1, <1>3, <2>1 DEF Sent
  <2>3. QED
    BY <1>1, <1>7, <2>2 DEF Sent
<1>9. Sent(Other(p), u, w)
  BY <1>1, <1>3, <1>7 DEF Sent, OfASealedStep
<1>10. CASE p = Cop
  <2>1. Boards(w, z)
    BY <1>1, <1>10
  <2>2. ASSUME NEW x, Carries(w, z, x) PROVE Carries(w, u, x)
    BY <1>3, <1>7, <2>2 DEF Carries
  <2>3. Carries(w, z, m)
    BY <1>4, <2>1 DEF Boards, m
  <2>4. \A i \in DOMAIN u.turns : Carries(w, u, u.turns[i])
    BY <1>3, <2>1, <2>2, <2>3 DEF Boards
  <2>5. Boards(w, u)
    BY <1>3, <1>7, <2>1, <2>2, <2>4 DEF Boards
  <2>6. QED
    BY <1>1, <1>3, <1>6, <1>8, <1>9, <1>10, <2>5, InvOfTwo
<1>11. CASE p = Thief
  <2>1. Boards(z, w)
    BY <1>1, <1>11, PeersAreTwo
  <2>2. ASSUME NEW x, Carries(z, w, x) PROVE Carries(u, w, x)
    BY <1>3, <1>7, <2>2 DEF Carries
  <2>3. Boards(u, w)
    BY <1>3, <1>7, <2>1, <2>2 DEF Boards
  <2>4. QED
    BY <1>1, <1>3, <1>6, <1>8, <1>9, <1>11, <2>3, InvOfTwo, PeersAreTwo
<1>12. QED
  BY <1>10, <1>11, PeersAreTwo

-----------------------------------------------------------------------------
(* The step that reads. *)

\* What the awaited turn makes of the driver that takes it.
LEMMA HeardEffect ==
    ASSUME NEW p \in Peers, NEW w \in Drivers, Found(w) # {}
    PROVE  LET m     == w.turns[FirstFound(w)]
               taken == [w EXCEPT !.turns = Kept(w), !.idle = FALSE]
               h     == ReadConcession(Absorb(p, taken, m), m)
           IN  /\ h \in Drivers /\ h.pc = w.pc /\ h.step = w.step
               /\ h.terminal = w.terminal /\ h.last = w.last /\ h.sealed = w.sealed
               /\ h.turns = Kept(w) /\ h.held = w.held \cup {m.step}
               /\ h.walls = w.walls \cup ({m.barrier} \ {None})
<1> DEFINE m == w.turns[FirstFound(w)]
           k == Kept(w)
           t == [w EXCEPT !.turns = k, !.idle = FALSE]
           a == Absorb(p, t, m)
           h == ReadConcession(a, m)
<1>1. k \in Seq(Turns)
  BY KeptWasThere DEF Drivers
<1>2. m \in Turns
  BY FirstIsFound DEF Drivers
<1> HIDE DEF k, m
<1>3. t \in Drivers
  BY <1>1 DEF Drivers
<1>4. /\ t.turns = k /\ t.pc = w.pc /\ t.step = w.step /\ t.terminal = w.terminal
      /\ t.last = w.last /\ t.sealed = w.sealed /\ t.held = w.held /\ t.walls = w.walls
  BY DEF Drivers
<1> HIDE DEF t
<1>5. /\ a \in Drivers /\ Unmoved(a, t) /\ a.sealed = t.sealed /\ a.held = t.held \cup {m.step}
      /\ a.walls = t.walls \cup ({m.barrier} \ {None})
  BY <1>2, <1>3, AbsorbEffect
<1> HIDE DEF a
<1>6. h \in Drivers /\ Same(h, a) /\ Unmoved(h, a)
  BY <1>5, ConcessionEffect
<1> HIDE DEF h
<1>7. /\ h \in Drivers /\ h.pc = w.pc /\ h.step = w.step
      /\ h.terminal = w.terminal /\ h.last = w.last /\ h.sealed = w.sealed
      /\ h.turns = k /\ h.held = w.held \cup {m.step}
      /\ h.walls = w.walls \cup ({m.barrier} \ {None})
  BY <1>4, <1>5, <1>6 DEF Same, Unmoved
<1>8. QED
  BY <1>7 DEF h, a, t, m, k

\* Where a driver that has heard a turn goes on.
GoesOn(p, s, h) ==
    /\ s \in Drivers /\ Settled(s) /\ Same(s, h)
    /\ \/ s.pc \in {"submit", "closing"}
       \/ s.pc = "act" /\ s.step = IF p = Thief THEN h.step + 1 ELSE h.step
       \/ s.pc = "close" /\ p = Thief /\ s.step = h.step + 1

LEMMA ReceiveEffect ==
    ASSUME NEW p \in Peers, NEW h \in Drivers
    PROVE  LET s == CASE p = Cop /\ h.finished # None -> WrapUp(p, h)
                      [] p = Cop /\ h.finished = None /\ StopsHere(p, h) ->
                           [h EXCEPT !.pc = "submit", !.outcome = Survival]
                      [] p = Cop /\ h.finished = None /\ ~StopsHere(p, h) ->
                           [h EXCEPT !.pc = "act"]
                      [] p = Thief /\ h.caught -> [h EXCEPT !.pc = "close", !.step = @ + 1]
                      [] p = Thief /\ ~h.caught /\ h.finished # None -> WrapUp(p, h)
                      [] OTHER -> NextRound(p, h)
           IN  GoesOn(p, s, h)
<1> DEFINE k1 == [h EXCEPT !.pc = "submit", !.outcome = Survival]
           k2 == [h EXCEPT !.pc = "act"]
           k3 == [h EXCEPT !.pc = "close", !.step = @ + 1]
           s == CASE p = Cop /\ h.finished # None -> WrapUp(p, h)
                  [] p = Cop /\ h.finished = None /\ StopsHere(p, h) -> k1
                  [] p = Cop /\ h.finished = None /\ ~StopsHere(p, h) -> k2
                  [] p = Thief /\ h.caught -> k3
                  [] p = Thief /\ ~h.caught /\ h.finished # None -> WrapUp(p, h)
                  [] OTHER -> NextRound(p, h)
<1>1. GoesOn(p, WrapUp(p, h), h)
  BY WrapUpEffect DEF GoesOn
<1>2. p = Thief => GoesOn(p, NextRound(p, h), h)
  <2>1. ASSUME p = Thief PROVE StartPc(p) = "act"
    BY <2>1 DEF StartPc
  <2>2. QED
    BY <2>1, NextRoundEffect DEF GoesOn
<1>3. GoesOn(p, k1, h)
  <2>1. k1 \in Drivers
    BY OutcomeValues DEF Drivers, PCs
  <2>2. k1.pc = "submit" /\ k1.outcome = Survival /\ Same(k1, h)
    BY DEF Drivers, Same
  <2> HIDE DEF k1
  <2>3. QED
    BY <2>1, <2>2, OutcomeValues DEF GoesOn, Settled
<1>4. p = Cop => GoesOn(p, k2, h)
  <2>1. k2 \in Drivers
    BY CallIsTyped DEF PCs
  <2>2. k2.pc = "act" /\ k2.step = h.step /\ Same(k2, h)
    BY DEF Drivers, Same
  <2> HIDE DEF k2
  <2>3. QED
    BY <2>1, <2>2, PeersAreTwo DEF GoesOn, Settled
<1>5. p = Thief => GoesOn(p, k3, h)
  <2> DEFINE n == h.step + 1
  <2>1. n \in Nat
    BY DEF Drivers
  <2>2. k3 = [h EXCEPT !.pc = "close", !.step = n]
    OBVIOUS
  <2> HIDE DEF n, k3
  <2>3. k3 \in Drivers
    BY <2>1, <2>2 DEF Drivers, PCs
  <2>4. k3.pc = "close" /\ k3.step = n /\ Same(k3, h)
    BY <2>2 DEF Drivers, Same
  <2>5. QED
    BY <2>3, <2>4 DEF GoesOn, Settled, n
<1> HIDE DEF GoesOn, k1, k2, k3
<1>6. CASE p = Cop
  <2>0. p # Thief
    BY <1>6, PeersAreTwo
  <2>1. CASE h.finished # None
    BY <1>1, <1>6, <2>0, <2>1 DEF k1, k2, k3
  <2>2. CASE h.finished = None /\ StopsHere(p, h)
    BY <1>3, <1>6, <2>0, <2>2 DEF k1, k2, k3
  <2>3. CASE h.finished = None /\ ~StopsHere(p, h)
    BY <1>4, <1>6, <2>0, <2>3 DEF k1, k2, k3
  <2>4. QED
    BY <2>1, <2>2, <2>3
<1>7. CASE p = Thief
  <2>0. p # Cop
    BY <1>7, PeersAreTwo
  <2>1. CASE h.caught
    BY <1>5, <1>7, <2>0, <2>1 DEF k1, k2, k3
  <2>2. CASE ~h.caught /\ h.finished # None
    BY <1>1, <1>7, <2>0, <2>2 DEF k1, k2, k3
  <2>3. CASE ~h.caught /\ h.finished = None
    BY <1>2, <1>7, <2>0, <2>3 DEF k1, k2, k3
  <2>4. QED
    BY <2>1, <2>2, <2>3
<1>8. QED
  BY <1>6, <1>7, PeersAreTwo

\* A driver that reads the turn m of the round it waits in.
LEMMA ReadingRounds ==
    ASSUME NEW p \in Peers, NEW w \in Drivers, Rounds(p, w), w.pc = "wait", NEW s,
           s.held = w.held \cup {w.step}, s.sealed = w.sealed, s.terminal = w.terminal,
           \/ s.pc \in {"submit", "closing"}
           \/ s.pc = "act" /\ s.step = IF p = Thief THEN w.step + 1 ELSE w.step
           \/ s.pc = "close" /\ p = Thief /\ s.step = w.step + 1
    PROVE  Rounds(p, s) /\ Read(s) = w.step /\ Acted(s) = Acted(w)
<1>1. /\ w.step \in Nat /\ Read(w) \in Nat /\ Read(w) = w.step - 1 /\ w.held = 1 .. Read(w)
      /\ Acted(w) = (IF p = Thief THEN w.step ELSE w.step - 1) /\ ~w.terminal
  BY DEF Rounds, InRound, Drivers
<1>2. s.held = 1 .. w.step
  BY <1>1
<1>3. Read(s) = w.step /\ Acted(s) = Acted(w)
  BY <1>1, <1>2, IntervalSize DEF Read, Acted
<1>4. s.pc \in {"submit", "closing", "act", "close"} /\ s.pc \notin Opening /\ s.pc # "wait"
  BY DEF Opening
<1>5. s.pc = "act" => s.step = IF p = Thief THEN w.step + 1 ELSE w.step
  OBVIOUS
<1>6. s.pc = "close" => s.step = w.step + 1 /\ p = Thief
  OBVIOUS
<1>7. CASE p = Thief
  BY <1>1, <1>2, <1>3, <1>4, <1>5, <1>6, <1>7, PeersAreTwo DEF Rounds
<1>8. CASE p = Cop
  BY <1>1, <1>2, <1>3, <1>4, <1>5, <1>6, <1>8, PeersAreTwo DEF Rounds
<1>9. QED
  BY <1>3, <1>7, <1>8, PeersAreTwo

LEMMA ReceiveKeeps ==
    ASSUME Inv, NEW p \in Peers, Receive(p)
    PROVE  Inv'
<1> DEFINE w == peer[p]
           z == peer[Other(p)]
           m == w.turns[FirstFound(w)]
           h == ReadConcession(Absorb(p, [w EXCEPT !.turns = Kept(w), !.idle = FALSE], m), m)
<1>1. /\ w \in Drivers /\ Rounds(p, w) /\ w.pc = "wait" /\ Found(w) # {}
      /\ z \in Drivers /\ Settled(z) /\ Rounds(Other(p), z) /\ Other(p) \in Peers
  BY DriversNow, PeersAreTwo DEF Receive
<1>2. /\ Sent(p, w, z) /\ Sent(Other(p), z, w)
      /\ Boards(IF p = Cop THEN w ELSE z, IF p = Cop THEN z ELSE w)
  BY PeersAreTwo DEF Inv
<1>3. /\ h \in Drivers /\ h.pc = w.pc /\ h.step = w.step
      /\ h.terminal = w.terminal /\ h.last = w.last /\ h.sealed = w.sealed
      /\ h.turns = Kept(w) /\ h.held = w.held \cup {m.step}
      /\ h.walls = w.walls \cup ({m.barrier} \ {None})
  BY <1>1, HeardEffect
<1>4. PICK s : GoesOn(p, s, h) /\ peer' = [peer EXCEPT ![p] = s]
  <2> DEFINE s == CASE p = Cop /\ h.finished # None -> WrapUp(p, h)
                    [] p = Cop /\ h.finished = None /\ StopsHere(p, h) ->
                         [h EXCEPT !.pc = "submit", !.outcome = Survival]
                    [] p = Cop /\ h.finished = None /\ ~StopsHere(p, h) ->
                         [h EXCEPT !.pc = "act"]
                    [] p = Thief /\ h.caught -> [h EXCEPT !.pc = "close", !.step = @ + 1]
                    [] p = Thief /\ ~h.caught /\ h.finished # None -> WrapUp(p, h)
                    [] OTHER -> NextRound(p, h)
  <2>1. peer' = [peer EXCEPT ![p] = s]
    BY DEF Receive
  <2> HIDE DEF h
  <2>2. GoesOn(p, s, h)
    BY <1>3, ReceiveEffect
  <2> HIDE DEF s
  <2>3. QED
    BY <2>1, <2>2
<1>5. /\ m.step = w.step
      /\ \E i \in DOMAIN w.turns : m = w.turns[i]
  BY <1>1, FirstIsFound DEF Drivers
<1>6. UNCHANGED <<stops, faults, copies>>
  BY DEF Receive
<1>7. peer' = [x \in Peers |-> IF x = p THEN s ELSE z]
  BY <1>4, DriversNow, PeersAreTwo
<1> HIDE DEF w, z, m, h
<1>8. /\ s \in Drivers /\ Settled(s) /\ s.turns = Kept(w) /\ s.sealed = w.sealed
      /\ s.held = w.held \cup {w.step} /\ s.walls = w.walls \cup ({m.barrier} \ {None})
      /\ s.terminal = w.terminal /\ s.last = w.last
  BY <1>3, <1>4, <1>5 DEF GoesOn, Same
<1>9. Rounds(p, s) /\ Read(s) = w.step /\ Acted(s) = Acted(w)
  <2>1. \/ s.pc \in {"submit", "closing"}
        \/ s.pc = "act" /\ s.step = IF p = Thief THEN w.step + 1 ELSE w.step
        \/ s.pc = "close" /\ p = Thief /\ s.step = w.step + 1
    BY <1>3, <1>4 DEF GoesOn
  <2>2. QED
    BY <1>1, <1>8, <2>1, ReadingRounds
<1>10. Becomes(p, s, z)
  <2>1. faults \in 0 .. MaxFaults /\ copies \in 0 .. MaxCopies
    BY DriversNow
  <2>2. QED
    BY <1>1, <1>6, <1>7, <1>8, <2>1 DEF Becomes
<1>11. OfASealedStep(Other(p), z, m)
  BY <1>2, <1>5 DEF Sent
<1>12. \A k \in DOMAIN s.turns : \E i \in DOMAIN w.turns : s.turns[k] = w.turns[i]
  <2>1. w.turns \in Seq(Turns)
    BY <1>1 DEF Drivers
  <2>2. QED
    BY <1>8, <2>1, KeptWasThere
<1>13. /\ Read(w) \in Nat /\ w.step \in Nat /\ Read(w) = w.step - 1 /\ w.step <= Acted(z)
       /\ Acted(w) = (IF p = Thief THEN w.step ELSE w.step - 1)
       /\ Acted(z) \in Nat /\ Read(z) \in Nat
  <2>1. z.sealed \in Seq(Nat) /\ w.step \in Nat
    BY <1>1 DEF Drivers
  <2>2. QED
    BY <1>1, <1>5, <1>11, <2>1 DEF Rounds, OfASealedStep, Acted
<1>14. Sent(p, s, z)
  BY <1>2, <1>8, <1>9 DEF Sent, OfASealedStep
<1>15. Sent(Other(p), z, s)
  <2>1. \A k \in DOMAIN s.turns : OfASealedStep(Other(p), z, s.turns[k])
    BY <1>2, <1>12 DEF Sent
  <2>2. QED
    BY <1>2, <1>9, <1>13, <2>1 DEF Sent
<1>16. CASE p = Cop
  <2>1. Boards(w, z) /\ m.barrier = None
    BY <1>2, <1>11, <1>16, PeersAreTwo DEF OfASealedStep
  <2>2. s.walls = w.walls
    BY <1>8, <2>1
  <2>3. ASSUME NEW x, Carries(w, z, x) PROVE Carries(s, z, x)
    BY <1>9, <2>2, <2>3 DEF Carries
  <2>4. Boards(s, z)
    BY <1>8, <1>9, <2>1, <2>2, <2>3 DEF Boards
  <2>5. QED
    BY <1>1, <1>9, <1>10, <1>14, <1>15, <1>16, <2>4, InvOfTwo
<1>17. CASE p = Thief
  <2>1. Boards(z, w) /\ p # Cop /\ Other(p) = Cop
    BY <1>2, <1>17, PeersAreTwo
  <2>2. Acted(z) <= Read(z) /\ Read(z) <= Acted(w) /\ Acted(w) = w.step
    <3>1. ~z.terminal /\ (~z.terminal => Acted(z) <= Read(z) + 0)
      BY <1>1, <2>1, PeersAreTwo DEF Rounds
    <3>2. QED
      BY <1>2, <1>13, <1>17, <3>1 DEF Sent
  <2>3. Acted(z) = w.step /\ Acted(z) = Read(w) + 1 /\ m.step = Acted(z)
    BY <1>5, <1>13, <2>2
  <2>4. Carries(z, w, m)
    BY <1>5, <2>1 DEF Boards
  <2>5. z.walls = s.walls
    BY <1>8, <2>3, <2>4 DEF Carries
  <2>6. ~(Acted(z) = Read(s) + 1)
    BY <1>9, <1>13, <2>3
  <2>7. ASSUME NEW x, Carries(z, w, x) PROVE Carries(z, s, x)
    BY <2>6, <2>7 DEF Carries
  <2>8. \A k \in DOMAIN s.turns : Carries(z, s, s.turns[k])
    BY <1>12, <2>1, <2>7 DEF Boards
  <2>9. Boards(z, s)
    BY <2>1, <2>5, <2>7, <2>8 DEF Boards
  <2>10. QED
    BY <1>1, <1>9, <1>10, <1>14, <1>15, <1>17, <2>1, <2>9, InvOfTwo
<1>18. QED
  BY <1>16, <1>17, PeersAreTwo

-----------------------------------------------------------------------------
(* The theorems. *)

LEMMA InitInv == Init => Inv
<1> SUFFICES ASSUME Init PROVE Inv
  OBVIOUS
<1>1. ASSUME NEW p \in Peers
      PROVE  /\ NewDriver(p) \in Drivers
             /\ NewDriver(p).pc = "push" /\ NewDriver(p).step = 1 /\ NewDriver(p).sealed = <<>>
             /\ NewDriver(p).held = {} /\ NewDriver(p).walls = {} /\ ~NewDriver(p).terminal
             /\ NewDriver(p).last = None /\ NewDriver(p).turns = <<>>
  <2> DEFINE c == IF p = Cop THEN CopStart ELSE ThiefStart
  <2>1. c \in Cells
    BY ReferenceAssumption
  <2>2. NewDriver(p) =
          [pc |-> "push", step |-> 1, agreements |-> 0, turns |-> <<>>, audits |-> <<>>,
           pos |-> c, walls |-> {}, sealed |-> <<>>,
           held |-> {}, caught |-> FALSE, ended |-> None,
           finished |-> None, claimed |-> None, walled |-> None,
           owed |-> None, terminal |-> FALSE, idle |-> FALSE, outcome |-> None, last |-> None]
    BY DEF NewDriver
  <2> HIDE DEF c
  <2>3. NewDriver(p) \in Drivers
    BY <2>1, <2>2 DEF Drivers, PCs
  <2>4. QED
    BY <2>2, <2>3
<1>2. peer = [p \in Peers |-> NewDriver(p)]
  BY DEF Init
<1>3. Cardinality({}) = 0 /\ {} = 1 .. 0
  BY FS_EmptySet
<1>4. TypeOK
  <2>1. peer \in [Peers -> Drivers]
    BY <1>1, <1>2
  <2>2. \A p \in Peers : peer[p].pc \notin {"submit", "audits", "done"}
    BY <1>1, <1>2
  <2>3. stops \in BOOLEAN
    BY ReferenceAssumption DEF Init
  <2>4. faults \in 0 .. MaxFaults /\ copies \in 0 .. MaxCopies
    BY ReferenceAssumption DEF Init
  <2>5. QED
    BY <2>1, <2>2, <2>3, <2>4 DEF TypeOK
<1>5. ASSUME NEW p \in Peers
      PROVE  /\ peer[p].pc = "push" /\ peer[p].step = 1 /\ peer[p].held = {}
             /\ peer[p].walls = {} /\ ~peer[p].terminal /\ peer[p].last = None
             /\ DOMAIN peer[p].turns = {} /\ Acted(peer[p]) = 0 /\ Read(peer[p]) = 0
  <2>1. peer[p] = NewDriver(p)
    BY <1>2
  <2>2. DOMAIN <<>> = {} /\ Len(<<>>) = 0
    OBVIOUS
  <2>3. QED
    BY <1>1, <1>3, <2>1, <2>2 DEF Acted, Read
<1>6. ASSUME NEW p \in Peers
      PROVE  Rounds(p, peer[p])
  <2>1. Read(peer[p]) \in Nat /\ peer[p].held = 1 .. Read(peer[p])
    <3>1. Read(peer[p]) = 0 /\ peer[p].held = {} /\ {} = 1 .. 0
      BY <1>3, <1>5
    <3>2. peer[p].held = 1 .. Read(peer[p])
      BY ONLY <3>1
    <3>3. QED
      BY <3>1, <3>2
  <2>2. ~peer[p].terminal => Acted(peer[p]) <= Read(peer[p]) + (IF p = Thief THEN 1 ELSE 0)
    BY <1>5
  <2>3. QED
    BY <1>5, <2>1, <2>2 DEF Rounds
<1>7. \A p \in Peers : Sent(p, peer[p], peer[Other(p)])
  BY <1>5, PeersAreTwo DEF Sent
<1>8. Boards(peer[Cop], peer[Thief])
  BY <1>5, PeersAreTwo DEF Boards
<1>9. QED
  BY <1>4, <1>6, <1>7, <1>8 DEF Inv

LEMMA NextInv == Inv /\ [Next]_vars => Inv'
<1> SUFFICES ASSUME Inv, [Next]_vars PROVE Inv'
  OBVIOUS
<1>1. CASE UNCHANGED vars
  BY <1>1 DEF vars, Inv, TypeOK
<1>2. ASSUME NEW p \in Peers, Drive(p)
      PROVE  Inv'
  <2>1. CASE PushAgreement(p)
    BY <2>1, PushAgreementKeeps
  <2>2. CASE TakeAgreement(p)
    BY <2>2, TakeAgreementKeeps
  <2>3. CASE NoAgreement(p)
    BY <2>3, NoAgreementKeeps
  <2>4. CASE Act(p)
    BY <2>4, ActKeeps
  <2>5. CASE Receive(p)
    BY <2>5, ReceiveKeeps
  <2>6. CASE AuditInstead(p)
    BY <2>6, AuditInsteadKeeps
  <2>7. CASE Deadline(p)
    BY <2>7, DeadlineKeeps
  <2>8. CASE WatchdogTrips(p)
    BY <2>8, WatchdogKeeps
  <2>9. CASE Close(p)
    BY <2>9, CloseKeeps
  <2>10. CASE ReadTerminal(p)
    BY <2>10, ReadTerminalKeeps
  <2>11. CASE NoTerminal(p)
    BY <2>11, NoTerminalKeeps
  <2>12. CASE SubmitAudit(p)
    BY <2>12, SubmitAuditKeeps
  <2>13. CASE TakeAudit(p) \/ NoAudit(p)
    BY <2>13, AuditsKeep
  <2>14. QED
    BY <1>2, <2>1, <2>2, <2>3, <2>4, <2>5, <2>6, <2>7, <2>8, <2>9, <2>10, <2>11, <2>12, <2>13
       DEF Drive
<1>3. QED
  BY <1>1, <1>2, CopiedKeeps DEF Next

LEMMA Invariance == Spec => []Inv
<1>1. QED
  BY InitInv, NextInv, PTL DEF Spec

\* Every driver stays a driver, and one that discloses its chain discloses an
\* outcome, whatever arrives or does not (reference_driver.exchange_chains).
THEOREM TypeCorrectness == Spec => []TypeOK
<1>1. Inv => TypeOK
  BY DEF Inv
<1>2. QED
  BY <1>1, Invariance, PTL

\* Whatever arrives twice, late or not at all, nobody acts again before it has read
\* the other's turn of the round (reference_inbox.take_turn_at, play_round).
THEOREM NobodyActsTwice == Spec => []OneActionEach
<1>1. Inv => OneActionEach
  BY DEF Inv, Rounds, OneActionEach, Acted, Read
<1>2. QED
  BY <1>1, Invariance, PTL

\* The thief's board never has a wall the cop did not build, and misses none of
\* those it was told of, however often a turn arrives (TurnLoop.absorb).
THEOREM WallsAreShared == Spec => []BoardsAgree
<1>1. Inv => BoardsAgree
  BY DEF Inv, Boards, BoardsAgree, Acted, Read
<1>2. QED
  BY <1>1, Invariance, PTL

-----------------------------------------------------------------------------
(* How a sub-game ends: the second invariant, relative to the first.       *)

Early == Opening \cup {"act", "wait"}
Past  == {"submit", "audits", "done"}

\* Whoever still plays has seen no ending; the cop waits for a terminal step only at
\* the ceiling; a thief that knows it is caught files it.
Running(p, w) ==
    /\ w.finished # TechnicalLoss
    /\ w.pc \in Early => w.finished = None /\ w.step <= MaxMoves
    /\ p = Cop => /\ w.walled = None
                  /\ w.pc = "closing" => /\ w.finished = None /\ Acted(w) = w.step - 1
                                         /\ w.step > MaxMoves \/ Acted(w) >= SurvivalThreshold
    /\ p = Thief => /\ w.pc # "closing" /\ w.claimed = None
                    /\ w.pc \in Early => ~w.caught
                    /\ w.pc = "act" => Acted(w) < SurvivalThreshold
                    /\ w.walled # None => w.caught
                    /\ w.pc \in Past /\ w.caught => w.outcome = Capture

Concedes(a) == a # None /\ a.caught

\* What the cop says of its cell, and its last turn of the claim it made last.
Claimed(c, m) ==
    /\ ~m.win /\ m.claim # None
    /\ m.barrier # None => m.claim = m.barrier
    /\ m.step = Acted(c) => m.claim = c.claimed

\* Only on its terminal step does the thief claim survival, or concede, and only if caught.
Answered(t, m) ==
    /\ m.win \/ Concedes(m.response) => t.terminal
    /\ Concedes(m.response) => t.caught

Claims(c, t) ==
    /\ c.last # None => Claimed(c, c.last)
    /\ \A i \in DOMAIN t.turns : Claimed(c, t.turns[i])
    /\ t.last # None => Answered(t, t.last)
    /\ \A i \in DOMAIN c.turns : Answered(t, c.turns[i])
    /\ Concedes(t.owed) => t.caught
    /\ t.owed # None /\ Read(t) = Acted(c) => t.owed.cell = c.claimed

\* A capture that anybody has seen, filed or been told of is one.
Captured(w) == \/ Capture \in {w.finished, w.outcome, w.ended}
               \/ \E i \in DOMAIN w.audits : w.audits[i] = Capture

Grounded(c, t) == Captured(c) \/ Captured(t) => t.caught

Story(c, t) == Running(Cop, c) /\ Running(Thief, t) /\ Claims(c, t) /\ Grounded(c, t)

\* Nothing is lost between w and z while no fault has happened, and nobody is gone
\* whom the other still needs.
Smooth(w, z) ==
    /\ w.pc # "crashed" /\ ~w.idle
    /\ TechnicalLoss \notin {w.outcome, w.ended}
    /\ \A i \in DOMAIN w.audits : w.audits[i] # TechnicalLoss
    /\ w.pc \in Opening /\ z.pc # "push" => w.agreements > 0
    /\ w.audits # <<>> \/ w.pc = "done" => z.pc \in {"audits", "done"}
    /\ w.pc \in {"audits", "done"} /\ z.pc # "done" => z.audits # <<>>

\* A cop that has left leaves a thief waiting only at the ceiling, with nothing of its
\* own to be read.
LeftBehind(c, t) ==
    c.pc \in Past => /\ t.pc \notin Opening \cup {"act"}
                     /\ t.pc = "wait" => Acted(t) >= SurvivalThreshold /\ Acted(c) < t.step

\* The answer a concedes the claim c made last.
Grants(c, a) == Concedes(a) /\ a.cell = c.claimed

\* The thief's concession waits in the cop's inbox.
Due(c, t) ==
    /\ c.pc \in {"wait", "closing"} /\ c.step = Acted(t) /\ Found(c) # {}
    /\ \A i \in Found(c) : Grants(c, c.turns[i].response)
    /\ Grants(c, t.last.response)

\* A thief caught by a claim owes its cop a concession until the cop has read it.
Admitted(c, t) ==
    t.caught /\ ~BoxedIn(Thief, t) =>
      /\ t.pc = "close" => /\ c.pc \in {"wait", "closing"} /\ c.step = t.step
                           /\ Grants(c, t.owed)
      /\ t.pc \in Past => (c.pc \in Past /\ c.outcome = Capture) \/ Due(c, t)

Calm(c, t) == Smooth(c, t) /\ Smooth(t, c) /\ LeftBehind(c, t) /\ Admitted(c, t)

Ending == /\ Story(peer[Cop], peer[Thief])
          /\ FaultFree => Calm(peer[Cop], peer[Thief])

-----------------------------------------------------------------------------
(* What stays the same. *)

SamePlay(v, w) ==
    /\ v.pos = w.pos /\ v.walls = w.walls /\ v.sealed = w.sealed /\ v.held = w.held
    /\ v.caught = w.caught /\ v.claimed = w.claimed /\ v.walled = w.walled /\ v.owed = w.owed
    /\ v.terminal = w.terminal /\ v.last = w.last

SameMail(v, w) == v.agreements = w.agreements /\ v.turns = w.turns /\ v.audits = w.audits

SameEnd(v, w) == /\ v.finished = w.finished /\ v.ended = w.ended /\ v.outcome = w.outcome
                 /\ v.idle = w.idle

SamePlace(v, w) == v.pc = w.pc /\ v.step = w.step

\* The other peer of a step: it may have been sent something.
Bystander(u, z) == SamePlay(u, z) /\ SameEnd(u, z) /\ SamePlace(u, z)

\* No turn is sent, taken or built in the step.
Hushed(v, w) == SamePlay(v, w) /\ Fewer(v, w)

LEMMA BystanderRuns ==
    ASSUME NEW p \in Peers, NEW u, NEW z, Running(p, z), Bystander(u, z)
    PROVE  Running(p, u)
BY DEF Running, Bystander, SamePlay, SameEnd, SamePlace, Acted

LEMMA HushedClaims ==
    ASSUME NEW c, NEW t, NEW cc, NEW tt, Claims(c, t), Hushed(cc, c), Hushed(tt, t)
    PROVE  Claims(cc, tt)
<1>1. \A m : Claimed(c, m) => Claimed(cc, m)
  BY DEF Claimed, Hushed, SamePlay, Acted
<1>2. \A m : Answered(t, m) => Answered(tt, m)
  BY DEF Answered, Hushed, SamePlay
<1>3. \A i \in DOMAIN tt.turns : Claimed(cc, tt.turns[i])
  BY <1>1 DEF Claims, Hushed, Fewer
<1>4. \A i \in DOMAIN cc.turns : Answered(tt, cc.turns[i])
  BY <1>2 DEF Claims, Hushed, Fewer
<1>5. QED
  BY <1>1, <1>2, <1>3, <1>4 DEF Claims, Hushed, SamePlay, Read, Acted

\* A step of p that leaves it as v and the other as u keeps the story.
StoryBy(p, v, u) == IF p = Cop THEN Story(v, u) ELSE Story(u, v)
CalmBy(p, v, u)  == IF p = Cop THEN Calm(v, u) ELSE Calm(u, v)

LEMMA HushedStory ==
    ASSUME NEW p \in Peers, NEW w, NEW z, NEW v, NEW u, StoryBy(p, w, z),
           Hushed(v, w), Hushed(u, z), Bystander(u, z), Running(p, v),
           Captured(v) \/ Captured(u) => Captured(w) \/ Captured(z) \/ (p = Cop /\ z.caught)
    PROVE  StoryBy(p, v, u)
<1>1. CASE p = Cop
  <2>1. Story(w, z)
    BY <1>1 DEF StoryBy
  <2>2. Claims(v, u)
    BY <2>1, HushedClaims DEF Story
  <2>3. Running(Thief, u)
    BY <2>1, BystanderRuns, PeersAreTwo DEF Story
  <2>4. Grounded(v, u)
    BY <2>1 DEF Story, Grounded, Hushed, SamePlay, Bystander
  <2>5. QED
    BY <1>1, <2>2, <2>3, <2>4 DEF StoryBy, Story
<1>2. CASE p = Thief
  <2>1. Story(z, w) /\ p # Cop
    BY <1>2, PeersAreTwo DEF StoryBy
  <2>2. Claims(u, v)
    BY <2>1, HushedClaims DEF Story
  <2>3. Running(Cop, u)
    BY <2>1, BystanderRuns, PeersAreTwo DEF Story
  <2>4. Grounded(u, v)
    BY <2>1 DEF Story, Grounded, Hushed, SamePlay
  <2>5. QED
    BY <1>2, <2>1, <2>2, <2>3, <2>4 DEF StoryBy, Story
<1>3. QED
  BY <1>1, <1>2, PeersAreTwo

-----------------------------------------------------------------------------
(* From two drivers to the state and back. *)

LEMMA EndingNow ==
    ASSUME Inv, Ending, NEW p \in Peers
    PROVE  /\ peer[p] \in Drivers /\ peer[Other(p)] \in Drivers
           /\ Settled(peer[p]) /\ Settled(peer[Other(p)])
           /\ Rounds(p, peer[p]) /\ Rounds(Other(p), peer[Other(p)])
           /\ Sent(p, peer[p], peer[Other(p)]) /\ Sent(Other(p), peer[Other(p)], peer[p])
           /\ Running(p, peer[p]) /\ Running(Other(p), peer[Other(p)])
           /\ StoryBy(p, peer[p], peer[Other(p)])
           /\ FaultFree => CalmBy(p, peer[p], peer[Other(p)])
           /\ peer = [x \in Peers |-> IF x = p THEN peer[p] ELSE peer[Other(p)]]
<1>1. /\ peer[p] \in Drivers /\ peer[Other(p)] \in Drivers
      /\ Settled(peer[p]) /\ Settled(peer[Other(p)])
      /\ Rounds(p, peer[p]) /\ Rounds(Other(p), peer[Other(p)])
      /\ Sent(p, peer[p], peer[Other(p)]) /\ Sent(Other(p), peer[Other(p)], peer[p])
  BY PeersAreTwo, DriversNow DEF Inv
<1>2. peer = [x \in Peers |-> IF x = p THEN peer[p] ELSE peer[Other(p)]]
  BY DriversNow, PeersAreTwo
<1>3. CASE p = Cop
  BY <1>1, <1>2, <1>3, PeersAreTwo DEF Ending, StoryBy, CalmBy, Story
<1>4. CASE p = Thief
  BY <1>1, <1>2, <1>4, PeersAreTwo DEF Ending, StoryBy, CalmBy, Story
<1>5. QED
  BY <1>3, <1>4, PeersAreTwo

LEMMA EndingOfTwo ==
    ASSUME NEW p \in Peers, NEW v, NEW u,
           peer' = [x \in Peers |-> IF x = p THEN v ELSE u],
           StoryBy(p, v, u), FaultFree' => CalmBy(p, v, u)
    PROVE  Ending'
<1>1. peer'[p] = v /\ peer'[Other(p)] = u
  BY PeersAreTwo
<1>2. CASE p = Cop
  BY <1>1, <1>2, PeersAreTwo DEF Ending, StoryBy, CalmBy
<1>3. CASE p = Thief
  BY <1>1, <1>3, PeersAreTwo DEF Ending, StoryBy, CalmBy
<1>4. QED
  BY <1>2, <1>3, PeersAreTwo

\* A step that leaves the sub-game without a fault is not a fault.
LEMMA NoFaultYet ==
    ASSUME Inv, FaultFree'
    PROVE  /\ \A p \in Peers : Patience(p) => FaultFree /\ Silent(Other(p), p)
           /\ UNCHANGED faults => FaultFree
           /\ faults > 0 => faults' # faults - 1
<1>1. faults \in 0 .. MaxFaults /\ MaxFaults \in Nat /\ faults' = MaxFaults
  BY ReferenceAssumption DEF Inv, TypeOK, FaultFree
<1>2. faults > 0 => faults' # faults - 1
  BY <1>1
<1>3. UNCHANGED faults => FaultFree
  BY <1>1 DEF FaultFree
<1>4. QED
  BY <1>2, <1>3 DEF Patience

\* Without a fault a call arrives, unless the other is gone.
LEMMA FaultlessCall ==
    ASSUME Inv, FaultFree', NEW p \in Peers, NEW s, NEW a, NEW r, Delivered(p, s, a) \/ Raised(p, r, a)
    PROVE  /\ FaultFree
           /\ \/ /\ ~Gone(Other(p)) /\ peer' = [x \in Peers |-> IF x = p THEN s ELSE a]
              \/ /\ Gone(Other(p)) /\ peer' = [x \in Peers |-> IF x = p THEN r ELSE peer[Other(p)]]
<1> USE PeersAreTwo
<1>0. peer = [x \in Peers |-> peer[x]]
  BY DriversNow
<1>1. [peer EXCEPT ![p] = s, ![Other(p)] = a] = [x \in Peers |-> IF x = p THEN s ELSE a]
  BY <1>0
<1>2. [peer EXCEPT ![p] = r] = [x \in Peers |-> IF x = p THEN r ELSE peer[Other(p)]]
  BY <1>0
<1>3. CASE Delivered(p, s, a)
  BY <1>1, <1>3, NoFaultYet DEF Delivered
<1>4. CASE Raised(p, r, a)
  BY <1>2, <1>4, NoFaultYet DEF Raised
<1>5. QED
  BY <1>3, <1>4

-----------------------------------------------------------------------------
(* What keeps the calm. *)

\* The thief's debt is as it was when the cop, not waiting, does nothing about it.
LEMMA DebtOfTheCop ==
    ASSUME NEW c, NEW t, NEW cc, NEW tt, Admitted(c, t), SamePlay(cc, c), Bystander(tt, t),
           c.pc \notin {"wait", "closing"}, cc.outcome = c.outcome,
           c.pc \in Past => cc.pc \in Past
    PROVE  Admitted(cc, tt)
BY DEF Admitted, SamePlay, Bystander, SamePlace, SameEnd, Due, BoxedIn

\* Nor does a thief that has sent its terminal step, or owes none.
LEMMA DebtOfTheThief ==
    ASSUME NEW c, NEW t, NEW cc, NEW tt, Admitted(c, t), SamePlay(tt, t), Bystander(cc, c),
           cc.turns = c.turns, t.caught => t.pc \in Past /\ tt.pc # "close"
    PROVE  Admitted(cc, tt)
<1>1. Found(cc) = Found(c) /\ \A a : Grants(cc, a) = Grants(c, a)
  BY DEF Found, Grants, Bystander, SamePlace, SamePlay
<1>2. Due(c, t) => Due(cc, tt)
  BY <1>1 DEF Due, Bystander, SamePlace, SamePlay, Acted
<1>3. t.caught /\ ~BoxedIn(Thief, t) => (c.pc \in Past /\ c.outcome = Capture) \/ Due(c, t)
  BY DEF Admitted
<1>4. (tt.caught /\ ~BoxedIn(Thief, tt)) => (t.caught /\ ~BoxedIn(Thief, t))
  BY DEF SamePlay, BoxedIn
<1>5. cc.outcome = c.outcome /\ cc.pc = c.pc
  BY DEF Bystander, SameEnd, SamePlace
<1>6. QED
  BY <1>2, <1>3, <1>4, <1>5 DEF Admitted

-----------------------------------------------------------------------------
(* The opening. *)

LEMMA PushAgreementEnds ==
    ASSUME Inv, Ending, NEW p \in Peers, PushAgreement(p)
    PROVE  Ending'
<1> DEFINE w == peer[p]
           z == peer[Other(p)]
           v == [w EXCEPT !.pc = "agree"]
           n == z.agreements + 1
           a == [z EXCEPT !.agreements = n]
<1>1. /\ w \in Drivers /\ z \in Drivers /\ w.pc = "push" /\ Running(p, w)
      /\ StoryBy(p, w, z) /\ (FaultFree => CalmBy(p, w, z))
  BY EndingNow DEF PushAgreement
<1>2. PICK u \in {a, z} : peer' = [x \in Peers |-> IF x = p THEN v ELSE u]
  BY CallEffect DEF PushAgreement
<1>3. ASSUME FaultFree'
      PROVE  FaultFree /\ (Gone(Other(p)) \/ peer' = [x \in Peers |-> IF x = p THEN v ELSE a])
  BY <1>3, FaultlessCall DEF PushAgreement
<1>4. Gone(Other(p)) => z.pc \in {"done", "crashed"}
  BY DEF Gone
<1>5. z.agreements \in Nat
  BY <1>1 DEF Drivers
<1> HIDE DEF w, z
<1>6. SamePlay(v, w) /\ SameMail(v, w) /\ SameEnd(v, w) /\ v.step = w.step /\ v.pc = "agree"
  BY <1>1 DEF Drivers, SamePlay, SameMail, SameEnd
<1>7. /\ Bystander(a, z) /\ a.turns = z.turns /\ a.audits = z.audits
      /\ a.agreements = z.agreements + 1
  BY <1>1 DEF Drivers, SamePlay, SameEnd, SamePlace, Bystander
<1>8. Bystander(z, z)
  BY DEF SamePlay, SameEnd, SamePlace, Bystander
<1> HIDE DEF v, a
<1>9. Bystander(u, z) /\ u.turns = z.turns /\ u.audits = z.audits
  BY <1>2, <1>7, <1>8
<1>10. StoryBy(p, v, u)
  <2>1. Hushed(v, w) /\ Hushed(u, z)
    BY <1>6, <1>9 DEF Hushed, SameMail, Fewer, Bystander
  <2>2. Running(p, v)
    BY <1>1, <1>6, PeersAreTwo DEF Running, SamePlay, SameEnd, Early, Opening, Past, Acted
  <2>3. Captured(v) \/ Captured(u) => Captured(w) \/ Captured(z)
    BY <1>6, <1>9 DEF Captured, SameEnd, SameMail, Bystander
  <2>4. QED
    BY <1>1, <1>9, <2>1, <2>2, <2>3, HushedStory
<1>11. ASSUME FaultFree' PROVE CalmBy(p, v, u)
  <2>1. CalmBy(p, w, z)
    BY <1>1, <1>3, <1>11
  <2>2. Smooth(w, z) /\ Smooth(z, w)
    BY <2>1 DEF CalmBy, Calm
  <2>3. u.agreements = z.agreements + 1
    <3>1. ~Gone(Other(p))
      BY <1>1, <1>4, <2>2 DEF Smooth
    <3>2. peer'[Other(p)] = a /\ peer'[Other(p)] = u
      BY <1>2, <1>3, <1>11, <3>1, PeersAreTwo
    <3>3. QED
      BY <1>7, <3>2
  <2>4. Smooth(v, u) /\ Smooth(u, v)
    BY <1>1, <1>5, <1>6, <1>9, <2>2, <2>3 DEF Smooth, SameEnd, SameMail, Bystander, SamePlace, Opening
  <2>5. CASE p = Cop
    <3>1. LeftBehind(v, u)
      BY <1>6 DEF LeftBehind, Past
    <3>2. Admitted(v, u)
      BY <1>1, <1>6, <1>9, <2>1, <2>5, DebtOfTheCop DEF CalmBy, Calm, SameEnd, Past
    <3>3. QED
      BY <2>4, <2>5, <3>1, <3>2 DEF CalmBy, Calm
  <2>6. CASE p = Thief
    <3>0. p # Cop /\ LeftBehind(z, w) /\ Admitted(z, w)
      BY <2>1, <2>6, PeersAreTwo DEF CalmBy, Calm
    <3>1. LeftBehind(u, v)
      BY <1>1, <1>9, <3>0 DEF LeftBehind, Bystander, SamePlace, Opening
    <3>2. ~w.caught
      BY <1>1, <2>6 DEF Running, Early, Opening
    <3>3. Admitted(u, v)
      BY <1>6, <1>9, <3>0, <3>2, DebtOfTheThief
    <3>4. QED
      BY <2>4, <3>0, <3>1, <3>3 DEF CalmBy, Calm
  <2>7. QED
    BY <2>5, <2>6, PeersAreTwo
<1>12. QED
  BY <1>2, <1>10, <1>11, EndingOfTwo

LEMMA BeginningStory ==
    ASSUME Inv, Ending, NEW p \in Peers, peer[p].pc = "agree", NEW v,
           SamePlay(v, peer[p]), v.turns = peer[p].turns, v.audits = peer[p].audits,
           v.finished = peer[p].finished, v.ended = peer[p].ended,
           v.outcome = peer[p].outcome, v.step = peer[p].step, v.pc = StartPc(p)
    PROVE  StoryBy(p, v, peer[Other(p)])
<1> DEFINE w == peer[p]
           z == peer[Other(p)]
<1>1. w \in Drivers /\ w.pc = "agree" /\ Rounds(p, w) /\ Running(p, w) /\ StoryBy(p, w, z)
  BY EndingNow
<1>2. Acted(w) = 0
  BY <1>1 DEF Rounds, Opening
<1> HIDE DEF w, z
<1>3. /\ SamePlay(v, w) /\ v.turns = w.turns /\ v.audits = w.audits /\ v.finished = w.finished
      /\ v.ended = w.ended /\ v.outcome = w.outcome /\ v.step = w.step
  BY DEF w
<1>4. Bystander(z, z) /\ Hushed(z, z) /\ Hushed(v, w)
  BY <1>3 DEF SamePlay, SameEnd, SamePlace, Bystander, Hushed, Fewer
<1>5. v.pc = IF p = Thief THEN "act" ELSE "wait"
  BY DEF StartPc
<1>6. Running(p, v)
  <2>1. /\ v.finished # TechnicalLoss /\ v.finished = None /\ v.step <= MaxMoves /\ v.pc # "closing"
        /\ (p = Cop => v.walled = None)
        /\ (p = Thief => ~v.caught /\ v.walled = None /\ v.claimed = None
                          /\ Acted(v) < SurvivalThreshold)
    BY <1>1, <1>2, <1>3, <1>5, ReferenceAssumption, PeersAreTwo DEF Running, SamePlay, Early, Opening, Acted
  <2>2. QED
    BY <1>5, <2>1, PeersAreTwo DEF Running, Past
<1>7. Captured(v) => Captured(w)
  BY <1>3 DEF Captured
<1>8. QED
  BY <1>1, <1>4, <1>6, <1>7, HushedStory DEF z

LEMMA TakeAgreementEnds ==
    ASSUME Inv, Ending, NEW p \in Peers, TakeAgreement(p)
    PROVE  Ending'
<1> DEFINE w == peer[p]
           z == peer[Other(p)]
           n == w.agreements - 1
           v == [w EXCEPT !.pc = StartPc(p), !.agreements = n]
<1>1. /\ w \in Drivers /\ z \in Drivers /\ w.pc = "agree" /\ Running(p, w)
      /\ (FaultFree => CalmBy(p, w, z))
  BY EndingNow DEF TakeAgreement
<1>2. peer' = [x \in Peers |-> IF x = p THEN v ELSE z]
  BY EndingNow, DriversNow, PeersAreTwo DEF TakeAgreement
<1>3. FaultFree' => FaultFree
  BY NoFaultYet DEF TakeAgreement
<1> HIDE DEF w
<1>4. /\ SamePlay(v, w) /\ SameEnd(v, w) /\ v.step = w.step /\ v.pc = StartPc(p)
      /\ v.turns = w.turns /\ v.audits = w.audits
  BY <1>1 DEF Drivers, SamePlay, SameEnd
<1> HIDE DEF v, z
<1>5. StoryBy(p, v, z)
  BY <1>1, <1>4, BeginningStory DEF w, z, SameEnd
<1>6. v.pc = IF p = Thief THEN "act" ELSE "wait"
  BY <1>4 DEF StartPc
<1>7. Bystander(z, z)
  BY DEF SamePlay, SameEnd, SamePlace, Bystander
<1>8. ASSUME FaultFree' PROVE CalmBy(p, v, z)
  <2>1. CalmBy(p, w, z)
    BY <1>1, <1>3, <1>8
  <2>2. Smooth(w, z) /\ Smooth(z, w)
    BY <2>1 DEF CalmBy, Calm
  <2>3. Smooth(v, z) /\ Smooth(z, v)
    BY <1>1, <1>4, <1>6, <2>2 DEF Smooth, SameEnd, Opening
  <2>4. CASE p = Cop
    <3>1. LeftBehind(v, z)
      BY <1>6, <2>4, PeersAreTwo DEF LeftBehind, Past
    <3>2. Admitted(v, z)
      BY <1>1, <1>4, <1>7, <2>1, <2>4, DebtOfTheCop DEF CalmBy, Calm, SameEnd, Past
    <3>3. QED
      BY <2>3, <2>4, <3>1, <3>2 DEF CalmBy, Calm
  <2>5. CASE p = Thief
    <3>0. p # Cop /\ LeftBehind(z, w) /\ Admitted(z, w)
      BY <2>1, <2>5, PeersAreTwo DEF CalmBy, Calm
    <3>1. LeftBehind(z, v)
      BY <1>1, <3>0 DEF LeftBehind, Opening
    <3>2. ~w.caught
      BY <1>1, <2>5 DEF Running, Early, Opening
    <3>3. Admitted(z, v)
      BY <1>4, <1>7, <3>0, <3>2, DebtOfTheThief
    <3>4. QED
      BY <2>3, <3>0, <3>1, <3>3 DEF CalmBy, Calm
  <2>6. QED
    BY <2>4, <2>5, PeersAreTwo
<1>9. QED
  BY <1>2, <1>5, <1>8, EndingOfTwo

\* Without a fault the agreement comes.
LEMMA NoAgreementEnds ==
    ASSUME Inv, Ending, NEW p \in Peers, NoAgreement(p)
    PROVE  Ending'
<1> DEFINE w == peer[p]
           z == peer[Other(p)]
           v == [w EXCEPT !.pc = StartPc(p), !.idle = TRUE]
<1>1. /\ w \in Drivers /\ z \in Drivers /\ w.pc = "agree" /\ w.agreements = 0
      /\ (FaultFree => CalmBy(p, w, z))
  BY EndingNow DEF NoAgreement
<1>2. peer' = [x \in Peers |-> IF x = p THEN v ELSE z]
  BY EndingNow, DriversNow, PeersAreTwo DEF NoAgreement
<1>3. FaultFree' => FaultFree /\ Silent(Other(p), p)
  BY NoFaultYet DEF NoAgreement
<1>4. Silent(Other(p), p) => z.pc # "push"
  BY DEF Silent, Gone
<1> HIDE DEF w
<1>5. /\ SamePlay(v, w) /\ v.turns = w.turns /\ v.audits = w.audits
      /\ v.finished = w.finished /\ v.ended = w.ended /\ v.outcome = w.outcome
      /\ v.step = w.step /\ v.pc = StartPc(p)
  BY <1>1 DEF Drivers, SamePlay
<1> HIDE DEF v, z
<1>6. StoryBy(p, v, z)
  BY <1>1, <1>5, BeginningStory DEF w, z
<1>7. ~FaultFree'
  <2>1. SUFFICES ASSUME FaultFree' PROVE FALSE
    OBVIOUS
  <2>2. Smooth(w, z) /\ z.pc # "push"
    BY <1>1, <1>3, <1>4, <2>1 DEF CalmBy, Calm
  <2>3. QED
    BY <1>1, <2>2 DEF Smooth, Opening
<1>8. QED
  BY <1>2, <1>6, <1>7, EndingOfTwo

-----------------------------------------------------------------------------
(* Waits that end without a turn. *)

LEMMA WrapUpFields ==
    ASSUME NEW p \in Peers, NEW w \in Drivers, ~w.terminal
    PROVE  LET v == WrapUp(p, w) IN
           /\ SamePlay(v, w) /\ SameMail(v, w) /\ v.finished = w.finished
           /\ v.ended = w.ended /\ v.idle = w.idle /\ v.step = w.step + 1
           /\ p = Thief => v.pc = "close" /\ v.outcome = w.outcome
           /\ p = Cop => IF w.finished # None \/ w.claimed = None
                           THEN v.pc = "submit" /\ v.outcome = Or(w.finished, Survival)
                           ELSE v.pc = "closing" /\ v.outcome = w.outcome
<1> DEFINE k == CASE w.terminal -> "submit"
                  [] ~w.terminal /\ p = Thief -> "close"
                  [] OTHER -> IF w.finished # None \/ w.claimed = None THEN "submit"
                                                                       ELSE "closing"
           o == IF k = "submit" THEN Or(w.finished, Survival) ELSE w.outcome
           n == w.step + 1
           v == [w EXCEPT !.pc = k, !.step = n, !.outcome = o]
<1>1. WrapUp(p, w) = v
  BY DEF WrapUp
<1>2. p = Thief => k = "close" /\ o = w.outcome
  OBVIOUS
<1>3. p = Cop => IF w.finished # None \/ w.claimed = None
                   THEN k = "submit" /\ o = Or(w.finished, Survival)
                   ELSE k = "closing" /\ o = w.outcome
  BY PeersAreTwo
<1> HIDE DEF k, o, n
<1>4. /\ v.pc = k /\ v.step = n /\ v.outcome = o
      /\ SamePlay(v, w) /\ SameMail(v, w) /\ v.finished = w.finished
      /\ v.ended = w.ended /\ v.idle = w.idle
  BY DEF Drivers, SamePlay, SameMail
<1> HIDE DEF v
<1>5. QED
  BY <1>1, <1>2, <1>3, <1>4 DEF n

\* p stops in v, of w, with the outcome and the ending that v says.
Stops(v, w) == /\ SamePlay(v, w) /\ SameMail(v, w) /\ v.finished = w.finished /\ v.idle = w.idle
               /\ v.pc = "submit" /\ w.pc \in {"wait", "closing"}

LEMMA StoppingStory ==
    ASSUME Inv, Ending, NEW p \in Peers, NEW v, Stops(v, peer[p]),
           Capture \in {v.outcome, v.ended} => Captured(peer[p])
    PROVE  StoryBy(p, v, peer[Other(p)])
<1> DEFINE w == peer[p]
           z == peer[Other(p)]
<1>1. w \in Drivers /\ Running(p, w) /\ StoryBy(p, w, z) /\ Stops(v, w)
  BY EndingNow
<1>2. Capture \in {v.outcome, v.ended} => Captured(w)
  OBVIOUS
<1> HIDE DEF w, z
<1>3. Bystander(z, z) /\ Hushed(z, z) /\ Hushed(v, w)
  BY <1>1 DEF SamePlay, SameEnd, SamePlace, Bystander, Hushed, Fewer, Stops, SameMail
<1>4. Running(p, v)
  <2>1. p = Thief => ~w.caught
    BY <1>1 DEF Running, Early, Stops
  <2>2. QED
    BY <1>1, <2>1, PeersAreTwo DEF Running, SamePlay, Early, Opening, Stops
<1>5. Captured(v) => Captured(w)
  BY <1>1, <1>2 DEF Captured, Stops, SameMail
<1>6. QED
  BY <1>1, <1>3, <1>4, <1>5, HushedStory DEF z

\* Stopping is in order when the other has disclosed its chain, and owed nothing.
LEMMA StoppingIsCalm ==
    ASSUME Inv, Ending, FaultFree, NEW p \in Peers, NEW v, Stops(v, peer[p]),
           TechnicalLoss \notin {v.outcome, v.ended}, Found(peer[p]) = {},
           peer[Other(p)].pc \in {"audits", "done"}
    PROVE  CalmBy(p, v, peer[Other(p)])
<1> DEFINE w == peer[p]
           z == peer[Other(p)]
<1>1. w \in Drivers /\ Running(p, w) /\ CalmBy(p, w, z) /\ Stops(v, w)
  BY EndingNow
<1>2. TechnicalLoss \notin {v.outcome, v.ended} /\ Found(w) = {} /\ z.pc \in {"audits", "done"}
  OBVIOUS
<1> HIDE DEF w, z
<1>3. Smooth(w, z) /\ Smooth(z, w)
  BY <1>1 DEF CalmBy, Calm
<1>4. Smooth(v, z) /\ Smooth(z, v)
  BY <1>1, <1>2, <1>3 DEF Smooth, Stops, SameMail, Opening
<1>5. CASE p = Cop
  <2>1. Admitted(w, z)
    BY <1>1, <1>5 DEF CalmBy, Calm
  <2>2. LeftBehind(v, z)
    BY <1>2 DEF LeftBehind, Opening
  <2>3. ~(z.caught /\ ~BoxedIn(Thief, z))
    BY <1>1, <1>2, <2>1 DEF Admitted, Due, Past, Stops
  <2>4. Admitted(v, z)
    BY <2>3 DEF Admitted
  <2>5. QED
    BY <1>4, <1>5, <2>2, <2>4 DEF CalmBy, Calm, z
<1>6. CASE p = Thief
  <2>1. p # Cop /\ ~w.caught
    BY <1>1, <1>6, PeersAreTwo DEF Running, Early, Stops
  <2>2. LeftBehind(z, v)
    BY <1>1 DEF LeftBehind, Opening, Stops
  <2>3. Admitted(z, v)
    BY <1>1, <2>1 DEF Admitted, Stops, SamePlay
  <2>4. QED
    BY <1>4, <2>1, <2>2, <2>3 DEF CalmBy, Calm, z
<1>7. QED
  BY <1>5, <1>6, PeersAreTwo

\* While nobody is gone and a chain disclosed arrives, nothing but a chain is waited for.
LEMMA SilenceTells ==
    ASSUME Inv, Ending, FaultFree, NEW p \in Peers, Silent(Other(p), p),
           peer[p].pc \in {"wait", "closing", "audits"}, peer[p].audits = <<>>
    PROVE  /\ peer[p].pc = "wait"
           /\ StopsHere(Other(p), peer[Other(p)]) /\ peer[Other(p)].pc = "submit"
<1> DEFINE w == peer[p]
           z == peer[Other(p)]
<1>1. CalmBy(p, w, z)
  BY EndingNow
<1>2. Smooth(w, z) /\ Smooth(z, w)
  BY <1>1 DEF CalmBy, Calm
<1>3. \/ z.pc \in {"done", "crashed", "audits"}
      \/ StopsHere(Other(p), z) /\ z.pc = "submit" /\ w.pc = "wait"
  BY DEF Silent, Gone
<1>4. QED
  BY <1>2, <1>3 DEF Smooth

LEMMA AuditInsteadEnds ==
    ASSUME Inv, Ending, NEW p \in Peers, AuditInstead(p)
    PROVE  Ending'
<1> DEFINE w == peer[p]
           z == peer[Other(p)]
           h == Head(w.audits)
           o == Or(w.ended, h)
           v1 == [w EXCEPT !.pc = "submit", !.ended = o, !.outcome = o]
           v2 == [w EXCEPT !.pc = "submit", !.outcome = Survival]
           v == IF w.pc = "wait" THEN v1 ELSE v2
<1>1. /\ w \in Drivers /\ w.pc \in {"wait", "closing"} /\ Found(w) = {} /\ w.audits # <<>>
      /\ (FaultFree => CalmBy(p, w, z))
  BY EndingNow DEF AuditInstead
<1>2. peer' = [x \in Peers |-> IF x = p THEN v ELSE z]
  BY EndingNow, DriversNow, PeersAreTwo DEF AuditInstead
<1>3. FaultFree' => FaultFree
  BY NoFaultYet DEF AuditInstead
<1>4. \E i \in DOMAIN w.audits : w.audits[i] = h
  <2>1. w.audits \in Seq(Outcomes)
    BY <1>1 DEF Drivers
  <2>2. QED
    BY <1>1, <2>1
<1>5. o \in {w.ended, h}
  BY DEF Or
<1> HIDE DEF w, h, o
<1>6. Stops(v1, w) /\ v1.outcome = o /\ v1.ended = o
  BY <1>1 DEF Drivers, SamePlay, SameMail, Stops
<1>7. Stops(v2, w) /\ v2.outcome = Survival /\ v2.ended = w.ended
  BY <1>1 DEF Drivers, SamePlay, SameMail, Stops
<1> HIDE DEF v1, v2
<1>8. /\ Stops(v, w) /\ v.outcome \in {w.ended, h, Survival} /\ v.ended \in {w.ended, h}
  BY <1>5, <1>6, <1>7
<1> HIDE DEF v, z
<1>9. Capture \in {v.outcome, v.ended} => Captured(w)
  BY <1>4, <1>8 DEF Captured, Capture, Survival
<1>10. StoryBy(p, v, z)
  BY <1>8, <1>9, StoppingStory DEF w, z
<1>11. ASSUME FaultFree' PROVE CalmBy(p, v, z)
  <2>1. Smooth(w, z)
    BY <1>1, <1>3, <1>11 DEF CalmBy, Calm
  <2>2. z.pc \in {"audits", "done"} /\ TechnicalLoss \notin {v.outcome, v.ended}
    BY <1>1, <1>4, <1>8, <2>1 DEF Smooth, TechnicalLoss, Survival
  <2>3. QED
    BY <1>1, <1>3, <1>8, <1>11, <2>2, StoppingIsCalm DEF w, z
<1>12. QED
  BY <1>2, <1>10, <1>11, EndingOfTwo

LEMMA StalledFields ==
    ASSUME NEW w \in Drivers
    PROVE  LET v == Stalled(w) IN
           /\ SamePlay(v, w) /\ SameMail(v, w) /\ v.finished = w.finished /\ v.idle = w.idle
           /\ v.pc = "submit" /\ v.ended = w.ended /\ v.outcome = Or(w.finished, TechnicalLoss)
<1> DEFINE o == Or(w.finished, TechnicalLoss)
           v == [w EXCEPT !.pc = "submit", !.outcome = o]
<1>1. Stalled(w) = v
  BY DEF Stalled
<1> HIDE DEF o
<1>2. /\ SamePlay(v, w) /\ SameMail(v, w) /\ v.finished = w.finished /\ v.idle = w.idle
      /\ v.pc = "submit" /\ v.ended = w.ended /\ v.outcome = o
  BY DEF Drivers, SamePlay, SameMail
<1>3. QED
  BY <1>1, <1>2 DEF o

LEMMA StallingStory ==
    ASSUME Inv, Ending, NEW p \in Peers, peer[p].pc = "wait"
    PROVE  StoryBy(p, Stalled(peer[p]), peer[Other(p)])
<1> DEFINE w == peer[p]
           v == Stalled(w)
<1>1. w \in Drivers
  BY EndingNow
<1>2. Stops(v, w) /\ v.ended = w.ended /\ v.outcome = Or(w.finished, TechnicalLoss)
  BY <1>1, StalledFields DEF Stops
<1>3. Capture \in {v.outcome, v.ended} => Captured(w)
  BY <1>2 DEF Captured, Or, Capture, TechnicalLoss
<1>4. QED
  BY <1>2, <1>3, StoppingStory

\* The watchdog never trips when no fault has happened.
LEMMA WatchdogEnds ==
    ASSUME Inv, Ending, NEW p \in Peers, WatchdogTrips(p)
    PROVE  Ending'
<1> DEFINE w == peer[p]
           z == peer[Other(p)]
           v == Stalled(w)
<1>1. w.pc = "wait" /\ w.idle /\ (FaultFree => CalmBy(p, w, z))
  BY EndingNow DEF WatchdogTrips
<1>2. peer' = [x \in Peers |-> IF x = p THEN v ELSE z]
  BY EndingNow, DriversNow, PeersAreTwo DEF WatchdogTrips
<1>3. StoryBy(p, v, z)
  BY <1>1, StallingStory
<1>4. ~FaultFree'
  BY <1>1, NoFaultYet DEF CalmBy, Calm, Smooth, WatchdogTrips
<1> HIDE DEF v, z
<1>5. QED
  BY <1>2, <1>3, <1>4, EndingOfTwo

\* Nor does the wait for a terminal step end without it.
LEMMA NoTerminalEnds ==
    ASSUME Inv, Ending, NEW p \in Peers, NoTerminal(p)
    PROVE  Ending'
<1> DEFINE w == peer[p]
           z == peer[Other(p)]
           v == [w EXCEPT !.pc = "submit", !.outcome = Survival]
<1>1. w \in Drivers /\ w.pc = "closing" /\ w.audits = <<>>
  BY EndingNow DEF NoTerminal, Empty
<1>2. peer' = [x \in Peers |-> IF x = p THEN v ELSE z]
  BY EndingNow, DriversNow, PeersAreTwo DEF NoTerminal
<1>3. ~FaultFree'
  <2>1. Patience(p)
    BY DEF NoTerminal
  <2>2. QED
    BY <1>1, <2>1, NoFaultYet, SilenceTells
<1> HIDE DEF w
<1>4. Stops(v, w) /\ v.ended = w.ended /\ v.outcome = Survival
  BY <1>1 DEF Drivers, SamePlay, SameMail, Stops
<1> HIDE DEF v
<1>5. Capture \in {v.outcome, v.ended} => Captured(w)
  BY <1>4 DEF Captured, Capture, Survival
<1>6. StoryBy(p, v, z)
  BY <1>4, <1>5, StoppingStory DEF w
<1> HIDE DEF z
<1>7. QED
  BY <1>2, <1>3, <1>6, EndingOfTwo

\* A thief at the ceiling goes on to its terminal step.
LEMMA WrappingUpAlone ==
    ASSUME Inv, Ending, peer[Thief].pc = "wait"
    PROVE  LET v == WrapUp(Thief, peer[Thief]) IN
           /\ Story(peer[Cop], v)
           /\ FaultFree => Calm(peer[Cop], v)
<1> DEFINE c == peer[Cop]
           t == peer[Thief]
           v == WrapUp(Thief, t)
<1>1. /\ t \in Drivers /\ Rounds(Thief, t) /\ Running(Thief, t) /\ Story(c, t)
      /\ t.pc = "wait" /\ (FaultFree => Calm(c, t))
  BY EndingNow, PeersAreTwo DEF Ending
<1>2. ~t.terminal
  BY <1>1 DEF Rounds, InRound
<1>3. /\ SamePlay(v, t) /\ SameMail(v, t) /\ v.finished = t.finished
      /\ v.ended = t.ended /\ v.idle = t.idle /\ v.pc = "close" /\ v.outcome = t.outcome
  BY <1>1, <1>2, WrapUpFields, PeersAreTwo
<1> HIDE DEF c, t, v
<1>4. Bystander(c, c) /\ Hushed(c, c) /\ Hushed(v, t)
  BY <1>3 DEF SamePlay, SameEnd, SamePlace, Bystander, Hushed, Fewer, SameMail
<1>5. Running(Thief, v)
  BY <1>1, <1>3, PeersAreTwo DEF Running, SamePlay, Early, Opening, Past
<1>6. Captured(v) => Captured(t)
  BY <1>3 DEF Captured, SameMail
<1>7. Story(c, v)
  <2>1. StoryBy(Thief, t, c)
    BY <1>1, PeersAreTwo DEF StoryBy
  <2>2. StoryBy(Thief, v, c)
    BY <1>4, <1>5, <1>6, <2>1, HushedStory, PeersAreTwo
  <2>3. QED
    BY <2>2, PeersAreTwo DEF StoryBy
<1>8. ASSUME FaultFree PROVE Calm(c, v)
  <2>1. Smooth(c, t) /\ Smooth(t, c)
    BY <1>1, <1>8 DEF Calm
  <2>2. Smooth(c, v) /\ Smooth(v, c)
    BY <1>1, <1>3, <2>1 DEF Smooth, SameMail, Opening
  <2>3. LeftBehind(c, v)
    BY <1>3 DEF LeftBehind, Opening
  <2>4. ~v.caught
    BY <1>1, <1>3, PeersAreTwo DEF Running, Early, SamePlay
  <2>5. QED
    BY <2>2, <2>3, <2>4 DEF Calm, Admitted
<1>9. QED
  BY <1>7, <1>8 DEF c, t, v

LEMMA DeadlineEnds ==
    ASSUME Inv, Ending, NEW p \in Peers, Deadline(p)
    PROVE  Ending'
<1> DEFINE w == peer[p]
           z == peer[Other(p)]
           v == IF p = Thief /\ SurvivalReached(w) THEN WrapUp(p, w) ELSE Stalled(w)
<1>1. w.pc = "wait" /\ w.audits = <<>> /\ Patience(p)
  BY DEF Deadline, Empty
<1>2. peer' = [x \in Peers |-> IF x = p THEN v ELSE z]
  BY EndingNow, DriversNow, PeersAreTwo DEF Deadline
<1>3. CASE p = Thief /\ SurvivalReached(w)
  <2>1. v = WrapUp(Thief, peer[Thief]) /\ z = peer[Cop] /\ p # Cop
    BY <1>3, PeersAreTwo
  <2>2. StoryBy(p, v, z)
    BY <1>1, <1>3, <2>1, WrappingUpAlone DEF StoryBy
  <2>3. FaultFree' => CalmBy(p, v, z)
    BY <1>1, <1>3, <2>1, WrappingUpAlone, NoFaultYet DEF CalmBy
  <2> HIDE DEF v, z
  <2>4. QED
    BY <1>2, <2>2, <2>3, EndingOfTwo
<1>4. CASE ~(p = Thief /\ SurvivalReached(w))
  <2>1. v = Stalled(w)
    BY <1>4
  <2>2. StoryBy(p, v, z)
    BY <1>1, <2>1, StallingStory
  <2>3. ~FaultFree'
    <3>1. SUFFICES ASSUME FaultFree' PROVE FALSE
      OBVIOUS
    <3>2. FaultFree /\ StopsHere(Other(p), z) /\ z.pc = "submit"
      BY <1>1, <3>1, NoFaultYet, SilenceTells
    <3>3. p = Thief /\ z = peer[Cop] /\ w = peer[Thief]
      BY <3>2, PeersAreTwo DEF StopsHere
    <3>4. LeftBehind(z, w)
      BY <3>2, <3>3 DEF Ending, Calm
    <3>5. Acted(w) >= SurvivalThreshold
      BY <1>1, <3>2, <3>4 DEF LeftBehind, Past
    <3>6. QED
      BY <1>4, <3>3, <3>5 DEF SurvivalReached, Acted
  <2> HIDE DEF v, z
  <2>4. QED
    BY <1>2, <2>2, <2>3, EndingOfTwo
<1>5. QED
  BY <1>3, <1>4

-----------------------------------------------------------------------------
(* The cop reads the terminal step. *)

LEMMA ConcessionFields ==
    ASSUME NEW w \in Drivers, NEW m
    PROVE  LET v == ReadConcession(w, m) IN
           /\ SamePlay(v, w) /\ SameMail(v, w) /\ SamePlace(v, w)
           /\ v.ended = w.ended /\ v.outcome = w.outcome /\ v.idle = w.idle
           /\ v.finished = IF Grants(w, m.response) THEN Capture ELSE w.finished
<1> DEFINE x == [w EXCEPT !.finished = Capture]
<1>1. /\ SamePlay(x, w) /\ SameMail(x, w) /\ SamePlace(x, w)
      /\ x.ended = w.ended /\ x.outcome = w.outcome /\ x.idle = w.idle /\ x.finished = Capture
  BY DEF Drivers, SamePlay, SameMail, SamePlace
<1>2. SamePlay(w, w) /\ SameMail(w, w) /\ SamePlace(w, w)
  BY DEF SamePlay, SameMail, SamePlace
<1>3. ReadConcession(w, m) = IF Grants(w, m.response) THEN x ELSE w
  BY DEF ReadConcession, Grants, Concedes
<1> HIDE DEF x
<1>4. QED
  BY <1>1, <1>2, <1>3

LEMMA ReadTerminalEnds ==
    ASSUME Inv, Ending, NEW p \in Peers, ReadTerminal(p)
    PROVE  Ending'
<1> DEFINE w == peer[p]
           z == peer[Other(p)]
           m == w.turns[FirstFound(w)]
           k == Kept(w)
           x == [w EXCEPT !.turns = k]
           h == ReadConcession(x, m)
           o == Or(h.finished, Survival)
           v == [h EXCEPT !.pc = "submit", !.outcome = o]
<1>1. /\ w \in Drivers /\ w.pc = "closing" /\ Found(w) # {}
      /\ Running(p, w) /\ Running(Other(p), z) /\ Rounds(p, w) /\ Rounds(Other(p), z)
      /\ Sent(Other(p), z, w) /\ z \in Drivers
      /\ StoryBy(p, w, z) /\ (FaultFree => CalmBy(p, w, z))
  BY EndingNow DEF ReadTerminal
<1>2. peer' = [y \in Peers |-> IF y = p THEN v ELSE z]
  BY EndingNow, DriversNow, PeersAreTwo DEF ReadTerminal
<1>3. FaultFree' => FaultFree
  BY NoFaultYet DEF ReadTerminal
<1>4. p = Cop /\ p # Thief /\ Other(p) = Thief
  BY <1>1, PeersAreTwo DEF Running
<1>5. FirstFound(w) \in DOMAIN w.turns /\ m.step = w.step /\ FirstFound(w) \in Found(w)
  BY <1>1, FirstIsFound DEF Drivers, Found
<1>6. k \in Seq(Turns) /\ \A i \in DOMAIN k : \E j \in DOMAIN w.turns : k[i] = w.turns[j]
  BY <1>1, KeptWasThere DEF Drivers
<1>7. Grants(w, m.response) => z.caught
  BY <1>1, <1>4, <1>5 DEF StoryBy, Story, Claims, Answered, Grants
<1>8. Acted(z) \in Nat /\ z.step \in Nat /\ w.step \in 1 .. Acted(z)
  <2>1. z.sealed \in Seq(Nat) /\ z.step \in Nat
    BY <1>1 DEF Drivers
  <2>2. OfASealedStep(Other(p), z, m)
    BY <1>1, <1>5 DEF Sent
  <2>3. QED
    BY <1>5, <2>1, <2>2 DEF OfASealedStep, Acted
<1>9. FaultFree /\ z.caught /\ ~BoxedIn(Thief, z) /\ z.pc \in Past => Grants(w, m.response)
  <2>1. SUFFICES ASSUME FaultFree, z.caught, ~BoxedIn(Thief, z), z.pc \in Past
                 PROVE  Grants(w, m.response)
    OBVIOUS
  <2>2. Due(w, z)
    BY <1>1, <1>4, <2>1 DEF CalmBy, Calm, Admitted, Past
  <2>3. QED
    BY <1>5, <2>2 DEF Due
<1> HIDE DEF w, k, m
<1>10. x \in Drivers
  BY <1>1, <1>6 DEF Drivers
<1>11. /\ SamePlay(x, w) /\ SamePlace(x, w) /\ x.turns = k /\ x.audits = w.audits
       /\ x.agreements = w.agreements /\ SameEnd(x, w)
  BY <1>1 DEF Drivers, SamePlay, SamePlace, SameEnd
<1> HIDE DEF x
<1>12. /\ SamePlay(h, x) /\ SameMail(h, x) /\ SamePlace(h, x)
       /\ h.ended = x.ended /\ h.outcome = x.outcome /\ h.idle = x.idle
       /\ h.finished = IF Grants(x, m.response) THEN Capture ELSE x.finished
  BY <1>10, ConcessionFields
<1>13. h \in Drivers
  BY <1>10, ConcessionEffect
<1>14. /\ SamePlay(h, w) /\ h.turns = k /\ h.audits = w.audits /\ h.agreements = w.agreements
       /\ h.ended = w.ended /\ h.idle = w.idle
       /\ h.finished = IF Grants(w, m.response) THEN Capture ELSE w.finished
  BY <1>11, <1>12 DEF SamePlay, SameMail, SameEnd, Grants
<1> HIDE DEF h, o
<1>15. /\ SamePlay(v, h) /\ SameMail(v, h) /\ v.finished = h.finished
       /\ v.ended = h.ended /\ v.idle = h.idle /\ v.pc = "submit" /\ v.outcome = o
  BY <1>13 DEF Drivers, SamePlay, SameMail
<1>16. w.finished = None
  BY <1>1, <1>4 DEF Running
<1> HIDE DEF v, z
<1>17. /\ SamePlay(v, w) /\ v.turns = k /\ v.audits = w.audits /\ v.agreements = w.agreements
       /\ v.ended = w.ended /\ v.idle = w.idle /\ v.pc = "submit"
       /\ v.finished = IF Grants(w, m.response) THEN Capture ELSE None
       /\ v.outcome = IF Grants(w, m.response) THEN Capture ELSE Survival
  BY <1>14, <1>15, <1>16, OutcomeValues DEF SamePlay, SameMail, Or, o
<1>18. StoryBy(p, v, z)
  <2>1. Hushed(v, w) /\ Hushed(z, z) /\ Bystander(z, z)
    BY <1>6, <1>17 DEF Hushed, SamePlay, SameEnd, SamePlace, Bystander, Fewer
  <2>2. Running(p, v)
    BY <1>1, <1>4, <1>17, OutcomeValues DEF Running, Early, Opening, SamePlay, Capture, TechnicalLoss
  <2>3. Captured(v) => Captured(w) \/ z.caught
    BY <1>7, <1>17, OutcomeValues DEF Captured, Capture, Survival
  <2>4. QED
    BY <1>1, <1>4, <2>1, <2>2, <2>3, HushedStory
<1>19. ASSUME FaultFree' PROVE CalmBy(p, v, z)
  <2>1. Smooth(w, z) /\ Smooth(z, w) /\ Admitted(w, z)
    BY <1>1, <1>3, <1>4, <1>19 DEF CalmBy, Calm
  <2>2. Smooth(v, z) /\ Smooth(z, v)
    BY <1>1, <1>17, <2>1 DEF Smooth, Opening, Capture, Survival, TechnicalLoss
  <2>3. Acted(w) = w.step - 1 /\ (w.step > MaxMoves \/ Acted(w) >= SurvivalThreshold)
    BY <1>1, <1>4 DEF Running
  <2>4. w.step \in Nat /\ MaxMoves \in Nat /\ SurvivalThreshold \in Nat
    BY <1>1, ReferenceAssumption DEF Drivers
  <2>5. LeftBehind(v, z)
    <3>1. z.pc \notin Opening
      BY <1>1, <1>4, <1>8, <2>4, PeersAreTwo DEF Rounds
    <3>2. z.pc # "act"
      <4>1. SUFFICES ASSUME z.pc = "act" PROVE FALSE
        OBVIOUS
      <4>2. Acted(z) = z.step - 1 /\ Acted(z) < SurvivalThreshold /\ z.step <= MaxMoves
        BY <1>1, <1>4, <4>1, PeersAreTwo DEF Rounds, Running, Early
      <4>3. QED
        BY <1>8, <2>3, <2>4, <4>2
    <3>3. ASSUME z.pc = "wait" PROVE Acted(z) >= SurvivalThreshold /\ Acted(v) < z.step
      <4>1. Acted(z) = z.step /\ z.step <= MaxMoves
        BY <1>1, <1>4, <3>3, PeersAreTwo DEF Rounds, Running, Early
      <4>2. Acted(v) = Acted(w)
        BY <1>17 DEF SamePlay, Acted
      <4>3. QED
        BY <1>8, <2>3, <2>4, <4>1, <4>2
    <3>4. QED
      BY <3>1, <3>2, <3>3 DEF LeftBehind
  <2>6. Admitted(v, z)
    <3>1. ASSUME z.caught, ~BoxedIn(Thief, z), z.pc = "close" PROVE FALSE
      <4>1. w.step = z.step /\ Acted(z) = z.step - 1
        BY <1>1, <1>4, <2>1, <3>1 DEF Admitted, Rounds
      <4>2. QED
        BY <1>8, <2>4, <4>1
    <3>2. z.caught /\ ~BoxedIn(Thief, z) /\ z.pc \in Past => v.outcome = Capture
      BY <1>3, <1>9, <1>17, <1>19
    <3>3. QED
      BY <1>17, <3>1, <3>2 DEF Admitted, Past
  <2>7. QED
    BY <1>4, <2>2, <2>5, <2>6 DEF CalmBy, Calm
<1>20. QED
  BY <1>2, <1>18, <1>19, EndingOfTwo

-----------------------------------------------------------------------------
(* The chains are exchanged. *)

LEMMA SubmitAuditEnds ==
    ASSUME Inv, Ending, NEW p \in Peers, SubmitAudit(p)
    PROVE  Ending'
<1> DEFINE w == peer[p]
           z == peer[Other(p)]
           v == [w EXCEPT !.pc = "audits"]
           s == Append(z.audits, w.outcome)
           a == [z EXCEPT !.audits = s]
<1>1. /\ w \in Drivers /\ z \in Drivers /\ w.pc = "submit" /\ Running(p, w)
      /\ StoryBy(p, w, z) /\ (FaultFree => CalmBy(p, w, z))
  BY EndingNow DEF SubmitAudit
<1>2. PICK u \in {a, z} : peer' = [x \in Peers |-> IF x = p THEN v ELSE u]
  BY CallEffect DEF SubmitAudit
<1>3. ASSUME FaultFree'
      PROVE  FaultFree /\ (Gone(Other(p)) \/ peer' = [x \in Peers |-> IF x = p THEN v ELSE a])
  <2>1. Delivered(p, v, a) \/ Raised(p, v, a)
    BY DEF SubmitAudit
  <2> HIDE DEF v, a
  <2>2. QED
    BY <1>3, <2>1, FaultlessCall
<1>4. Gone(Other(p)) => z.pc \in {"done", "crashed"}
  BY DEF Gone
<1>5. s # <<>> /\ \A i \in DOMAIN s : s[i] = w.outcome \/ \E j \in DOMAIN z.audits : s[i] = z.audits[j]
  <2>1. z.audits \in Seq(Outcomes)
    BY <1>1 DEF Drivers
  <2>2. QED
    BY <2>1
<1> HIDE DEF w, z, s
<1>6. SamePlay(v, w) /\ SameMail(v, w) /\ SameEnd(v, w) /\ v.step = w.step /\ v.pc = "audits"
  BY <1>1 DEF Drivers, SamePlay, SameMail, SameEnd
<1>7. /\ Bystander(a, z) /\ a.turns = z.turns /\ a.audits = s /\ a.agreements = z.agreements
  BY <1>1 DEF Drivers, SamePlay, SameEnd, SamePlace, Bystander
<1>8. Bystander(z, z)
  BY DEF SamePlay, SameEnd, SamePlace, Bystander
<1> HIDE DEF v, a
<1>9. Bystander(u, z) /\ u.turns = z.turns /\ u.audits \in {s, z.audits}
  BY <1>2, <1>7, <1>8
<1>10. StoryBy(p, v, u)
  <2>1. Hushed(v, w) /\ Hushed(u, z)
    BY <1>6, <1>9 DEF Hushed, SameMail, Fewer, Bystander
  <2>2. Running(p, v)
    BY <1>1, <1>6, PeersAreTwo DEF Running, SamePlay, SameEnd, Early, Opening, Past, Acted
  <2>3. Captured(v) \/ Captured(u) => Captured(w) \/ Captured(z)
    <3>1. Captured(v) => Captured(w)
      BY <1>6 DEF Captured, SameEnd, SameMail
    <3>2. Captured(u) => Captured(w) \/ Captured(z)
      BY <1>5, <1>9 DEF Captured, SameEnd, Bystander
    <3>3. QED
      BY <3>1, <3>2
  <2>4. QED
    BY <1>1, <1>9, <2>1, <2>2, <2>3, HushedStory
<1>11. ASSUME FaultFree' PROVE CalmBy(p, v, u)
  <2>1. CalmBy(p, w, z)
    BY <1>1, <1>3, <1>11
  <2>2. Smooth(w, z) /\ Smooth(z, w)
    BY <2>1 DEF CalmBy, Calm
  <2>3. u.audits = s /\ u.agreements = z.agreements
    <3>1. ~Gone(Other(p))
      BY <1>1, <1>4, <2>2 DEF Smooth
    <3>2. peer'[Other(p)] = a /\ peer'[Other(p)] = u
      BY <1>2, <1>3, <1>11, <3>1, PeersAreTwo
    <3>3. QED
      BY <1>7, <3>2
  <2>4. \A i \in DOMAIN u.audits : u.audits[i] # TechnicalLoss
    BY <1>5, <2>2, <2>3 DEF Smooth
  <2>5. Smooth(v, u) /\ Smooth(u, v)
    BY <1>1, <1>5, <1>6, <1>9, <2>2, <2>3, <2>4 DEF Smooth, SameEnd, SameMail, Bystander, SamePlace, Opening
  <2>6. CASE p = Cop
    <3>1. LeftBehind(v, u)
      BY <1>1, <1>6, <1>9, <2>1, <2>6 DEF CalmBy, Calm, LeftBehind, Past, Bystander, SamePlace, SamePlay, Acted
    <3>2. Admitted(v, u)
      BY <1>1, <1>6, <1>9, <2>1, <2>6, DebtOfTheCop DEF CalmBy, Calm, SameEnd, Past
    <3>3. QED
      BY <2>5, <2>6, <3>1, <3>2 DEF CalmBy, Calm
  <2>7. CASE p = Thief
    <3>0. p # Cop /\ Admitted(z, w)
      BY <2>1, <2>7, PeersAreTwo DEF CalmBy, Calm
    <3>1. LeftBehind(u, v)
      BY <1>6 DEF LeftBehind, Opening
    <3>2. Admitted(u, v)
      BY <1>1, <1>6, <1>9, <3>0, DebtOfTheThief DEF Past
    <3>3. QED
      BY <2>5, <3>0, <3>1, <3>2 DEF CalmBy, Calm
  <2>8. QED
    BY <2>6, <2>7, PeersAreTwo
<1>12. QED
  BY <1>2, <1>10, <1>11, EndingOfTwo

\* Without a fault nobody goes before their chain has come.
LEMMA AuditsEnd ==
    ASSUME Inv, Ending, NEW p \in Peers, TakeAudit(p) \/ NoAudit(p)
    PROVE  Ending'
<1> DEFINE w == peer[p]
           z == peer[Other(p)]
           v == Cleared(w)
<1>1. /\ w \in Drivers /\ w.pc = "audits" /\ Running(p, w)
      /\ StoryBy(p, w, z) /\ (FaultFree => CalmBy(p, w, z))
  BY EndingNow DEF TakeAudit, NoAudit
<1>2. peer' = [x \in Peers |-> IF x = p THEN v ELSE z]
  BY EndingNow, DriversNow, PeersAreTwo DEF TakeAudit, NoAudit
<1>3. FaultFree' => FaultFree /\ w.audits # <<>>
  <2>1. CASE TakeAudit(p)
    BY <2>1, NoFaultYet DEF TakeAudit
  <2>2. CASE NoAudit(p)
    BY <1>1, <2>2, NoFaultYet, SilenceTells DEF NoAudit
  <2>3. QED
    BY <2>1, <2>2
<1> HIDE DEF w
<1>4. /\ SamePlay(v, w) /\ SameEnd(v, w) /\ v.step = w.step /\ v.agreements = w.agreements
      /\ v.pc = "done" /\ v.turns = <<>> /\ v.audits = <<>>
  BY <1>1 DEF Drivers, SamePlay, SameEnd, Cleared
<1> HIDE DEF v, z
<1>5. StoryBy(p, v, z)
  <2>1. Hushed(v, w) /\ Hushed(z, z) /\ Bystander(z, z)
    BY <1>4 DEF Hushed, SamePlay, SameEnd, SamePlace, Bystander, Fewer
  <2>2. Running(p, v)
    BY <1>1, <1>4, PeersAreTwo DEF Running, SamePlay, SameEnd, Early, Opening, Past, Acted
  <2>3. Captured(v) => Captured(w)
    BY <1>4 DEF Captured, SameEnd
  <2>4. QED
    BY <1>1, <2>1, <2>2, <2>3, HushedStory
<1>6. ASSUME FaultFree' PROVE CalmBy(p, v, z)
  <2>1. CalmBy(p, w, z)
    BY <1>1, <1>3, <1>6
  <2>2. Smooth(w, z) /\ Smooth(z, w) /\ w.audits # <<>>
    BY <1>3, <1>6, <2>1 DEF CalmBy, Calm
  <2>3. Smooth(v, z) /\ Smooth(z, v) /\ z.pc \in {"audits", "done"}
    BY <1>1, <1>4, <2>2 DEF Smooth, SameEnd, Opening
  <2>4. Bystander(z, z)
    BY DEF SamePlay, SameEnd, SamePlace, Bystander
  <2>5. CASE p = Cop
    <3>1. LeftBehind(v, z)
      BY <2>3 DEF LeftBehind, Opening
    <3>2. Admitted(v, z)
      BY <1>1, <1>4, <2>1, <2>4, <2>5, DebtOfTheCop DEF CalmBy, Calm, SameEnd, Past
    <3>3. QED
      BY <2>3, <2>5, <3>1, <3>2 DEF CalmBy, Calm
  <2>6. CASE p = Thief
    <3>0. p # Cop /\ Admitted(z, w)
      BY <2>1, <2>6, PeersAreTwo DEF CalmBy, Calm
    <3>1. LeftBehind(z, v)
      BY <1>4 DEF LeftBehind, Opening
    <3>2. Admitted(z, v)
      BY <1>1, <1>4, <2>4, <3>0, DebtOfTheThief DEF Past
    <3>3. QED
      BY <2>3, <3>0, <3>1, <3>2 DEF CalmBy, Calm
  <2>7. QED
    BY <2>5, <2>6, PeersAreTwo
<1>7. QED
  BY <1>2, <1>5, <1>6, EndingOfTwo

-----------------------------------------------------------------------------
(* A turn arrives again. *)

\* The other of p has been sent m, and nothing else.
Reached(q, u, m) ==
    /\ Bystander(u, peer[q]) /\ u.audits = peer[q].audits /\ u.agreements = peer[q].agreements
    /\ \A i \in DOMAIN u.turns :
         u.turns[i] = m \/ \E j \in DOMAIN peer[q].turns : u.turns[i] = peer[q].turns[j]

LEMMA ArrivalFields ==
    ASSUME Inv, NEW q \in Peers, NEW m \in Turns
    PROVE  /\ Reached(q, peer[q], m)
           /\ LET u == InTurns(q, m) IN
                /\ Reached(q, u, m)
                /\ \E i \in DOMAIN u.turns : u.turns[i] = m
                /\ \A j \in DOMAIN peer[q].turns :
                     \E i \in DOMAIN u.turns : u.turns[i] = peer[q].turns[j]
<1> DEFINE z == peer[q]
           s == Append(z.turns, m)
           u == [z EXCEPT !.turns = s]
<1>1. z \in Drivers
  BY DriversNow
<1>2. /\ \A i \in DOMAIN s : s[i] = m \/ \E j \in DOMAIN z.turns : s[i] = z.turns[j]
      /\ \E i \in DOMAIN s : s[i] = m
      /\ \A j \in DOMAIN z.turns : \E i \in DOMAIN s : s[i] = z.turns[j]
  <2>1. z.turns \in Seq(Turns)
    BY <1>1 DEF Drivers
  <2> HIDE DEF z
  <2>2. DOMAIN s = 1 .. Len(z.turns) + 1 /\ DOMAIN z.turns = 1 .. Len(z.turns)
        /\ Len(z.turns) \in Nat
    BY <2>1
  <2>3. s[Len(z.turns) + 1] = m /\ \A j \in DOMAIN z.turns : s[j] = z.turns[j]
    BY <2>1
  <2> HIDE DEF s
  <2>4. \A i \in DOMAIN s : i = Len(z.turns) + 1 \/ i \in DOMAIN z.turns
    BY <2>2
  <2>5. Len(z.turns) + 1 \in DOMAIN s /\ \A j \in DOMAIN z.turns : j \in DOMAIN s
    BY <2>2
  <2>6. QED
    BY <2>3, <2>4, <2>5
<1>3. InTurns(q, m) = u
  BY DEF InTurns
<1> HIDE DEF z, s
<1>4. /\ SamePlay(u, z) /\ SameEnd(u, z) /\ SamePlace(u, z) /\ u.audits = z.audits
      /\ u.agreements = z.agreements /\ u.turns = s
  BY <1>1 DEF Drivers, SamePlay, SameEnd, SamePlace
<1>5. SamePlay(z, z) /\ SameEnd(z, z) /\ SamePlace(z, z)
  BY DEF SamePlay, SameEnd, SamePlace
<1> HIDE DEF u
<1>6. QED
  BY <1>2, <1>3, <1>4, <1>5 DEF Reached, Bystander, z

LEMMA CopiedEnds ==
    ASSUME Inv, Ending, NEW p \in Peers, Copied(p)
    PROVE  Ending'
<1> DEFINE w == peer[p]
           z == peer[Other(p)]
           m == w.last
           u == InTurns(Other(p), m)
<1>1. /\ w \in Drivers /\ z \in Drivers /\ Running(p, w) /\ Running(Other(p), z)
      /\ StoryBy(p, w, z) /\ (FaultFree => CalmBy(p, w, z))
      /\ m # None /\ m \in Turns
  <2>1. w \in Drivers /\ m # None
    BY EndingNow DEF Copied
  <2>2. m \in Turns
    BY <2>1 DEF Drivers
  <2>3. QED
    BY <2>1, <2>2, EndingNow
<1>2. peer' = [x \in Peers |-> IF x = p THEN w ELSE u]
  <2>1. peer = [x \in Peers |-> peer[x]]
    BY DriversNow
  <2>2. QED
    BY <2>1, PeersAreTwo DEF Copied
<1>3. FaultFree' => FaultFree
  BY NoFaultYet DEF Copied
<1>4. /\ Reached(Other(p), u, m)
      /\ \E i \in DOMAIN u.turns : u.turns[i] = m
      /\ \A j \in DOMAIN z.turns : \E i \in DOMAIN u.turns : u.turns[i] = z.turns[j]
  BY <1>1, ArrivalFields, PeersAreTwo
<1> HIDE DEF w, z, m, u
<1>5. /\ Bystander(u, z) /\ u.audits = z.audits /\ u.agreements = z.agreements
      /\ \A i \in DOMAIN u.turns : u.turns[i] = m \/ \E j \in DOMAIN z.turns : u.turns[i] = z.turns[j]
  BY <1>4 DEF Reached, z
<1>6. Running(Other(p), u)
  BY <1>1, <1>5, BystanderRuns, PeersAreTwo
<1>7. Captured(u) => Captured(z)
  BY <1>5 DEF Captured, Bystander, SameEnd
<1>8. StoryBy(p, w, u)
  <2>1. CASE p = Cop
    <3>1. Story(w, z)
      BY <1>1, <2>1 DEF StoryBy
    <3>2. Claims(w, u)
      BY <1>1, <1>5, <3>1 DEF Story, Claims, m, Bystander, SamePlay, Answered, Read
    <3>3. Grounded(w, u)
      BY <1>5, <1>7, <3>1 DEF Story, Grounded, Bystander, SamePlay
    <3>4. QED
      BY <1>1, <1>6, <2>1, <3>2, <3>3, PeersAreTwo DEF StoryBy, Story
  <2>2. CASE p = Thief
    <3>1. Story(z, w) /\ p # Cop
      BY <1>1, <2>2, PeersAreTwo DEF StoryBy
    <3>2. Claims(u, w)
      BY <1>1, <1>5, <3>1 DEF Story, Claims, m, Bystander, SamePlay, Claimed, Acted
    <3>3. Grounded(u, w)
      BY <1>7, <3>1 DEF Story, Grounded
    <3>4. QED
      BY <1>1, <1>6, <2>2, <3>1, <3>2, <3>3, PeersAreTwo DEF StoryBy, Story
  <2>3. QED
    BY <2>1, <2>2, PeersAreTwo
<1>9. ASSUME FaultFree' PROVE CalmBy(p, w, u)
  <2>1. CalmBy(p, w, z)
    BY <1>1, <1>3, <1>9
  <2>2. Smooth(w, z) /\ Smooth(z, w)
    BY <2>1 DEF CalmBy, Calm
  <2>3. Smooth(w, u) /\ Smooth(u, w)
    BY <1>5, <2>2 DEF Smooth, SameEnd, Bystander, SamePlace
  <2>4. CASE p = Cop
    <3>1. LeftBehind(w, u)
      BY <1>5, <2>1, <2>4 DEF CalmBy, Calm, LeftBehind, Bystander, SamePlace, SamePlay, Acted
    <3>2. Admitted(w, u)
      BY <1>5, <2>1, <2>4 DEF CalmBy, Calm, Admitted, Due, Bystander, SamePlace, SamePlay, BoxedIn, Acted
    <3>3. QED
      BY <2>3, <2>4, <3>1, <3>2 DEF CalmBy, Calm
  <2>5. CASE p = Thief
    <3>0. p # Cop /\ LeftBehind(z, w) /\ Admitted(z, w)
      BY <2>1, <2>5, PeersAreTwo DEF CalmBy, Calm
    <3>1. LeftBehind(u, w)
      BY <1>5, <3>0 DEF LeftBehind, Bystander, SamePlace, SamePlay, Acted
    <3>2. Due(z, w) => Due(u, w)
      <4>1. SUFFICES ASSUME Due(z, w) PROVE Due(u, w)
        OBVIOUS
      <4>2. \A a : Grants(z, a) = Grants(u, a)
        BY <1>5 DEF Grants, Bystander, SamePlay
      <4>3. Found(u) # {}
        BY <1>4, <1>5, <4>1 DEF Due, Found, Bystander, SamePlace
      <4>4. \A i \in Found(u) : Grants(z, u.turns[i].response)
        BY <1>5, <4>1 DEF Due, Found, Bystander, SamePlace, m
      <4>5. QED
        BY <1>5, <4>1, <4>2, <4>3, <4>4 DEF Due, Bystander, SamePlace
    <3>3. Admitted(u, w)
      BY <1>5, <3>0, <3>2 DEF Admitted, Grants, Bystander, SamePlace, SamePlay, SameEnd
    <3>4. QED
      BY <2>3, <3>0, <3>1, <3>3 DEF CalmBy, Calm
  <2>6. QED
    BY <2>4, <2>5, PeersAreTwo
<1>10. QED
  BY <1>2, <1>8, <1>9, EndingOfTwo

-----------------------------------------------------------------------------
(* A turn is sent. *)

\* What is left of s once its turn is sent, or was not.
LEMMA SendingFields ==
    ASSUME NEW s \in Drivers, NEW m, NEW v, AfterCall(v, s, m)
    PROVE  /\ v.pos = s.pos /\ v.walls = s.walls /\ v.sealed = s.sealed /\ v.held = s.held
           /\ v.caught = s.caught /\ v.claimed = s.claimed /\ v.walled = s.walled
           /\ v.owed = s.owed /\ v.terminal = s.terminal
           /\ SameMail(v, s) /\ SameEnd(v, s) /\ v.step = s.step
           /\ (v.pc = s.pc /\ v.last = m) \/ (v.pc = "crashed" /\ v.last = s.last)
<1>1. CASE v = [s EXCEPT !.last = m]
  BY <1>1 DEF Drivers, SameMail, SameEnd
<1>2. CASE v = [s EXCEPT !.pc = "crashed"]
  BY <1>2 DEF Drivers, SameMail, SameEnd
<1>3. QED
  BY <1>1, <1>2 DEF AfterCall

\* Without a fault the turn arrives, unless the other is gone.
LEMMA FaultlessPush ==
    ASSUME Inv, FaultFree', NEW p \in Peers, ~Gone(Other(p)), NEW s \in Drivers, NEW m,
           PushTurn(p, m, s)
    PROVE  /\ FaultFree
           /\ peer' = [x \in Peers |-> IF x = p THEN [s EXCEPT !.last = m]
                                                ELSE InTurns(Other(p), m)]
<1> DEFINE a  == InTurns(Other(p), m)
           v1 == [s EXCEPT !.last = m]
           v2 == [s EXCEPT !.pc = "crashed"]
<1>1. Delivered(p, v1, a) \/ Raised(p, v2, a)
  BY DEF PushTurn
<1> HIDE DEF a, v1, v2
<1>2. QED
  BY <1>1, FaultlessCall DEF a, v1

\* What a turn makes of a driver that has seen no ending.
LEMMA TakeTurnFields ==
    ASSUME NEW p \in Peers, NEW w \in Drivers, NEW d \in Decisions(p, w),
           w.walled = None, w.finished = None, ~ClaimsSurvival(p, w)
    PROVE  LET v == [TakeTurn(p, w, d) EXCEPT !.owed = None]
               lost == BoxedIn(p, v) IN
           /\ v \in Drivers
           /\ v.sealed = Append(w.sealed, w.step) /\ v.held = w.held
           /\ v.caught = (w.caught \/ lost) /\ v.claimed = Or(ClaimOf(p, w, d), w.claimed)
           /\ v.walled = None /\ v.owed = None /\ v.terminal = w.terminal /\ v.last = w.last
           /\ SameMail(v, w) /\ SamePlace(v, w)
           /\ v.ended = w.ended /\ v.outcome = w.outcome /\ v.idle = w.idle
           /\ v.finished = IF lost THEN Capture ELSE None
<1> DEFINE claim == ClaimOf(p, w, d)
           pos   == SettleMove(w.pos, d.aim, w.walls)
           walls == w.walls \cup (IF d.barrier = None THEN {} ELSE {d.barrier})
           steps == Append(w.sealed, w.step)
           k     == Or(claim, w.claimed)
           moved == [w EXCEPT !.pos = pos, !.walls = walls, !.sealed = steps, !.claimed = k]
           lost  == Leaving(moved, w.walled) \/ BoxedIn(p, moved)
           c     == moved.caught \/ lost
           f     == CASE lost -> Capture
                      [] ~lost /\ ClaimsSurvival(p, w) -> Survival
                      [] OTHER -> moved.finished
           v     == [moved EXCEPT !.caught = c, !.finished = f, !.walled = None]
           x     == [v EXCEPT !.owed = None]
<1>1. TakeTurn(p, w, d) = v
  BY DEF TakeTurn
<1>2. v \in Drivers
  BY <1>1, TakeTurnEffect
<1> HIDE DEF pos, walls, steps, k
<1>3. /\ moved.pos = pos /\ moved.walls = walls /\ moved.sealed = steps /\ moved.claimed = k
      /\ moved.held = w.held /\ moved.caught = w.caught /\ moved.terminal = w.terminal
      /\ moved.last = w.last /\ moved.finished = None
      /\ SameMail(moved, w) /\ SamePlace(moved, w)
      /\ moved.ended = w.ended /\ moved.outcome = w.outcome /\ moved.idle = w.idle
  BY DEF Drivers, SameMail, SamePlace
<1>4. lost = BoxedIn(p, moved)
  <2> HIDE DEF moved
  <2>1. QED
    BY DEF Leaving, BoxedIn
<1>5. f = IF lost THEN Capture ELSE None
  BY <1>3
<1>6. c = (w.caught \/ BoxedIn(p, moved))
  BY <1>3, <1>4
<1>7. /\ x.pos = moved.pos /\ x.walls = moved.walls /\ x.sealed = moved.sealed
      /\ x.claimed = moved.claimed /\ x.held = moved.held /\ x.caught = c
      /\ x.terminal = moved.terminal /\ x.last = moved.last /\ x.finished = f
      /\ x.walled = None /\ x.owed = None
      /\ SameMail(x, moved) /\ SamePlace(x, moved)
      /\ x.ended = moved.ended /\ x.outcome = moved.outcome /\ x.idle = moved.idle
  <2> HIDE DEF lost, f, c
  <2>1. moved = [w EXCEPT !.pos = pos, !.walls = walls, !.sealed = steps, !.claimed = k]
    OBVIOUS
  <2> HIDE DEF moved
  <2>2. QED
    BY <2>1 DEF Drivers, SameMail, SamePlace
<1>8. BoxedIn(p, x) = BoxedIn(p, moved)
  BY <1>7 DEF BoxedIn
<1>9. x \in Drivers
  <2> HIDE DEF v
  <2>1. QED
    BY <1>2 DEF Drivers
<1> HIDE DEF v, moved, lost, c, f, x
<1>10. x = [TakeTurn(p, w, d) EXCEPT !.owed = None]
  BY <1>1 DEF x
<1>11. /\ x.sealed = Append(w.sealed, w.step) /\ x.held = w.held
       /\ x.claimed = Or(ClaimOf(p, w, d), w.claimed)
       /\ x.walled = None /\ x.owed = None /\ x.terminal = w.terminal /\ x.last = w.last
       /\ SameMail(x, w) /\ SamePlace(x, w)
       /\ x.ended = w.ended /\ x.outcome = w.outcome /\ x.idle = w.idle
  BY <1>3, <1>7 DEF SameMail, SamePlace, steps, k
<1>12. /\ x.caught = (w.caught \/ BoxedIn(p, x))
       /\ x.finished = IF BoxedIn(p, x) THEN Capture ELSE None
  BY <1>4, <1>5, <1>6, <1>7, <1>8
<1> HIDE DEF x
<1>13. QED
  BY <1>9, <1>10, <1>11, <1>12

LEMMA SendingRuns ==
    ASSUME NEW p \in Peers, NEW s \in Drivers, Running(p, s), NEW m, NEW v, AfterCall(v, s, m)
    PROVE  Running(p, v)
<1>1. /\ v.sealed = s.sealed /\ v.caught = s.caught /\ v.claimed = s.claimed
      /\ v.walled = s.walled /\ v.finished = s.finished /\ v.outcome = s.outcome
      /\ v.step = s.step /\ v.pc \in {s.pc, "crashed"}
  BY SendingFields DEF SameEnd
<1>2. CASE v.pc = s.pc
  BY <1>1, <1>2 DEF Running, Acted
<1>3. CASE v.pc = "crashed"
  BY <1>1, <1>3 DEF Running, Early, Opening, Past
<1>4. QED
  BY <1>1, <1>2, <1>3

\* The thief sends the turn m and goes on as s.
LEMMA ThiefSends ==
    ASSUME Inv, Ending, NEW m \in Turns, NEW s \in Drivers, PushTurn(Thief, m, s),
           peer[Thief].pc \in {"act", "close"}, s.pc \in {"wait", "close", "submit"},
           Running(Thief, s), Answered(s, m), SameMail(s, peer[Thief]),
           s.last = peer[Thief].last, s.ended = peer[Thief].ended, s.idle = peer[Thief].idle,
           s.owed = None, s.outcome \in {peer[Thief].outcome, Capture, Survival},
           peer[Thief].terminal => s.terminal, peer[Thief].caught => s.caught,
           Capture \in {s.finished, s.outcome} => s.caught \/ Captured(peer[Thief]),
           FaultFree => LeftBehind(peer[Cop], s),
           FaultFree => Admitted(InTurns(Cop, m), [s EXCEPT !.last = m])
    PROVE  Ending'
<1> DEFINE t == peer[Thief]
           c == peer[Cop]
           v1 == [s EXCEPT !.last = m]
           u1 == InTurns(Cop, m)
<1> USE PeersAreTwo
<1>1. /\ Story(c, t) /\ (FaultFree => Calm(c, t))
  BY DEF Ending
<1>2. PICK v, u : /\ AfterCall(v, s, m) /\ u \in {u1, c}
                  /\ peer' = [x \in Peers |-> IF x = Thief THEN v ELSE u]
  BY PushEffect DEF Pushed
<1>3. AfterCall(v1, s, m)
  BY DEF AfterCall
<1>4. Reached(Cop, u1, m) /\ Reached(Cop, u, m)
  BY <1>2, ArrivalFields
<1>5. ASSUME FaultFree'
      PROVE  FaultFree /\ v = v1 /\ u = u1
  <2>1. FaultFree
    BY <1>5, NoFaultYet DEF PushTurn, Delivered, Raised
  <2>2. ~Gone(Cop)
    BY <1>1, <2>1 DEF Calm, Smooth, Gone
  <2>3. peer' = [x \in Peers |-> IF x = Thief THEN v1 ELSE u1]
    BY <1>5, <2>2, FaultlessPush
  <2>4. peer'[Thief] = v /\ peer'[Cop] = u
    BY <1>2
  <2>5. peer'[Thief] = v1 /\ peer'[Cop] = u1
    <3> HIDE DEF v1, u1
    <3>1. QED
      BY <2>3
  <2>6. QED
    BY <2>1, <2>4, <2>5
<1>6. FaultFree => LeftBehind(c, s) /\ Admitted(u1, v1)
  OBVIOUS
<1>7. /\ SameMail(s, t) /\ s.last = t.last /\ s.ended = t.ended /\ s.idle = t.idle
      /\ s.outcome \in {t.outcome, Capture, Survival} /\ (t.terminal => s.terminal)
      /\ (t.caught => s.caught) /\ t.pc \in {"act", "close"}
      /\ (Capture \in {s.finished, s.outcome} => s.caught \/ Captured(t))
  OBVIOUS
<1> HIDE DEF t, c, v1, u1
<1>8. /\ v.pos = s.pos /\ v.walls = s.walls /\ v.sealed = s.sealed /\ v.held = s.held
      /\ v.caught = s.caught /\ v.terminal = s.terminal /\ v.owed = s.owed
      /\ SameMail(v, s) /\ SameEnd(v, s) /\ v.step = s.step
      /\ (v.pc = s.pc /\ v.last = m) \/ (v.pc = "crashed" /\ v.last = s.last)
  BY <1>2, SendingFields
<1>9. /\ Bystander(u, c) /\ u.audits = c.audits /\ u.agreements = c.agreements
      /\ \A i \in DOMAIN u.turns : u.turns[i] = m \/ \E j \in DOMAIN c.turns : u.turns[i] = c.turns[j]
  BY <1>4 DEF Reached, c
<1>10. Story(u, v)
  <2>1. Running(Thief, v) /\ Running(Cop, u)
    BY <1>1, <1>2, <1>9, SendingRuns, BystanderRuns DEF Story
  <2>2. \A x : Answered(t, x) => Answered(v, x)
    BY <1>7, <1>8 DEF Answered
  <2>3. Answered(v, m)
    BY <1>8 DEF Answered
  <2>4. \A x : Claimed(c, x) => Claimed(u, x)
    BY <1>9 DEF Claimed, Bystander, SamePlay, Acted
  <2>5. Claims(u, v)
    <3>1. u.last # None => Claimed(u, u.last)
      BY <1>1, <1>9, <2>4 DEF Story, Claims, Bystander, SamePlay
    <3>2. \A i \in DOMAIN v.turns : Claimed(u, v.turns[i])
      BY <1>1, <1>7, <1>8, <2>4 DEF Story, Claims, SameMail
    <3>3. v.last # None => Answered(v, v.last)
      BY <1>1, <1>7, <1>8, <2>2, <2>3 DEF Story, Claims
    <3>4. \A i \in DOMAIN u.turns : Answered(v, u.turns[i])
      BY <1>1, <1>9, <2>2, <2>3 DEF Story, Claims
    <3>5. QED
      BY <1>8, <3>1, <3>2, <3>3, <3>4 DEF Claims, Concedes
  <2>6. Grounded(u, v)
    <3>1. Captured(u) => Captured(c)
      BY <1>9 DEF Captured, Bystander, SameEnd
    <3>2. Captured(v) => s.caught \/ Captured(t)
      BY <1>7, <1>8 DEF Captured, SameEnd, SameMail
    <3>3. QED
      BY <1>1, <1>7, <1>8, <3>1, <3>2 DEF Story, Grounded
  <2>7. QED
    BY <2>1, <2>5, <2>6 DEF Story
<1>11. ASSUME FaultFree' PROVE Calm(u, v)
  <2>1. Smooth(c, t) /\ Smooth(t, c) /\ LeftBehind(c, s) /\ Admitted(u, v)
    BY <1>1, <1>5, <1>6, <1>11 DEF Calm
  <2>2. v.pc = s.pc
    <3>1. v1.pc = s.pc
      BY DEF v1, Drivers
    <3>2. QED
      BY <1>5, <1>11, <3>1
  <2>3. Smooth(v, u)
    BY <1>7, <1>8, <1>9, <2>1, <2>2 DEF Smooth, SameMail, SameEnd, Opening, Bystander, SamePlace, Capture, Survival, TechnicalLoss
  <2>4. Smooth(u, v)
    BY <1>7, <1>8, <1>9, <2>1, <2>2 DEF Smooth, SameMail, SameEnd, Opening, Bystander, SamePlace
  <2>5. LeftBehind(u, v)
    BY <1>8, <1>9, <2>1, <2>2 DEF LeftBehind, Bystander, SamePlace, SamePlay, Acted
  <2>6. QED
    BY <2>1, <2>3, <2>4, <2>5 DEF Calm
<1>12. StoryBy(Thief, v, u) /\ (FaultFree' => CalmBy(Thief, v, u))
  BY <1>10, <1>11 DEF StoryBy, CalmBy
<1>13. peer' = [x \in Peers |-> IF x = Thief THEN v ELSE u]
  BY <1>2
<1>14. QED
  BY <1>12, <1>13, EndingOfTwo

\* A thief that acts has seen no ending; its own move may box it in.
LEMMA ThiefActs ==
    ASSUME Inv, Ending, Act(Thief)
    PROVE  Ending'
<1> USE PeersAreTwo
<1> DEFINE w == peer[Thief]
<1>1. /\ w \in Drivers /\ w.pc = "act" /\ Rounds(Thief, w) /\ Running(Thief, w)
      /\ Story(peer[Cop], w) /\ (FaultFree => Calm(peer[Cop], w))
  BY EndingNow DEF Act, Ending
<1>2. PICK d \in Decisions(Thief, w) :
        LET a == [TakeTurn(Thief, w, d) EXCEPT !.owed = None]
            s == CASE a.finished # None -> WrapUp(Thief, a)
                   [] a.finished = None /\ Thief = Thief -> [a EXCEPT !.pc = "wait"]
                   [] OTHER -> NextRound(Thief, a)
        IN  PushTurn(Thief, TurnOf(Thief, w, d), s)
  BY DEF Act
<1> DEFINE a == [TakeTurn(Thief, w, d) EXCEPT !.owed = None]
           m == TurnOf(Thief, w, d)
           s == IF BoxedIn(Thief, a) THEN WrapUp(Thief, a) ELSE [a EXCEPT !.pc = "wait"]
<1>3. /\ w.walled = None /\ w.finished = None /\ ~w.caught /\ ~w.terminal /\ w.step <= MaxMoves
      /\ Acted(w) < SurvivalThreshold /\ ~Concedes(w.owed) /\ w.claimed = None
  BY <1>1 DEF Running, Early, Rounds, InRound, Story, Claims
<1>4. ~SurvivalReached(w)
  <2>1. Acted(w) \in Nat /\ SurvivalThreshold \in Nat
    BY <1>1, ReferenceAssumption DEF Drivers, Acted
  <2>2. QED
    BY <1>3, <2>1 DEF SurvivalReached, Acted
<1>5. ~ClaimsSurvival(Thief, w) /\ ClaimOf(Thief, w, d) = None
  BY <1>4 DEF ClaimsSurvival, ClaimOf
<1>6. /\ a \in Drivers /\ a.caught = BoxedIn(Thief, a) /\ a.claimed = None
      /\ a.walled = None /\ a.owed = None /\ a.terminal = w.terminal /\ a.last = w.last
      /\ SameMail(a, w) /\ SamePlace(a, w)
      /\ a.ended = w.ended /\ a.outcome = w.outcome /\ a.idle = w.idle
      /\ a.finished = IF BoxedIn(Thief, a) THEN Capture ELSE None
  <2>1. /\ a \in Drivers /\ a.caught = (w.caught \/ BoxedIn(Thief, a))
        /\ a.claimed = Or(ClaimOf(Thief, w, d), w.claimed)
        /\ a.walled = None /\ a.owed = None /\ a.terminal = w.terminal /\ a.last = w.last
        /\ SameMail(a, w) /\ SamePlace(a, w)
        /\ a.ended = w.ended /\ a.outcome = w.outcome /\ a.idle = w.idle
        /\ a.finished = IF BoxedIn(Thief, a) THEN Capture ELSE None
    BY <1>1, <1>3, <1>5, TakeTurnFields
  <2> HIDE DEF a
  <2>2. a.caught = BoxedIn(Thief, a)
    BY <1>3, <2>1 DEF BoxedIn
  <2>3. QED
    BY <1>3, <1>5, <2>1, <2>2 DEF Or
<1>7. m \in Turns /\ ~m.win /\ m.response = w.owed
  BY <1>1, <1>5, TurnOfIsATurn DEF TurnOf
<1>8. PushTurn(Thief, m, s)
  <2> HIDE DEF w
  <2>1. a.finished # None <=> BoxedIn(Thief, a)
    BY <1>6, OutcomeValues
  <2> HIDE DEF a, m
  <2>2. CASE BoxedIn(Thief, a)
    BY <1>2, <2>1, <2>2 DEF a, m
  <2>3. CASE ~BoxedIn(Thief, a)
    BY <1>2, <2>1, <2>3 DEF a, m
  <2>4. QED
    BY <2>2, <2>3
<1> HIDE DEF a, m
<1> DEFINE G(x) == /\ x \in Drivers
                   /\ SamePlay(x, a) /\ SameMail(x, a) /\ SameEnd(x, a)
<1>9. LET x == [a EXCEPT !.pc = "wait"] IN G(x) /\ x.step = a.step /\ x.pc = "wait"
  <2> DEFINE x == [a EXCEPT !.pc = "wait"]
  <2>1. x \in Drivers
    BY <1>6, CallIsTyped DEF PCs
  <2>2. /\ SamePlay(x, a) /\ SameMail(x, a) /\ SameEnd(x, a)
        /\ x.step = a.step /\ x.pc = "wait"
    BY <1>6 DEF Drivers, SamePlay, SameMail, SameEnd
  <2>3. QED
    BY <2>1, <2>2
<1>10. LET x == WrapUp(Thief, a) IN G(x) /\ x.pc = "close"
  <2> DEFINE x == WrapUp(Thief, a)
  <2>1. x \in Drivers
    BY <1>6, WrapUpEffect
  <2>2. /\ SamePlay(x, a) /\ SameMail(x, a) /\ SameEnd(x, a) /\ x.pc = "close"
    BY <1>3, <1>6, WrapUpFields DEF SameEnd
  <2>3. QED
    BY <2>1, <2>2
<1>11. /\ s \in Drivers /\ SamePlay(s, a) /\ SameMail(s, a) /\ SameEnd(s, a)
       /\ IF BoxedIn(Thief, a) THEN s.pc = "close" ELSE s.pc = "wait" /\ s.step = a.step
  BY <1>9, <1>10
<1> HIDE DEF s
<1>12. Running(Thief, s)
  <2>1. CASE BoxedIn(Thief, a)
    BY <1>6, <1>11, <2>1, OutcomeValues DEF Running, SamePlay, SameEnd, Early, Opening, Past, Capture, TechnicalLoss
  <2>2. CASE ~BoxedIn(Thief, a)
    BY <1>3, <1>6, <1>11, <2>2, OutcomeValues DEF Running, SamePlay, SameEnd, SamePlace, Early, Opening, Past
  <2>3. QED
    BY <2>1, <2>2
<1>13. Answered(s, m)
  BY <1>3, <1>7 DEF Answered
<1>14. FaultFree => LeftBehind(peer[Cop], s)
  BY <1>1 DEF Calm, LeftBehind
<1>15. Admitted(InTurns(Cop, m), [s EXCEPT !.last = m])
  <2> DEFINE x == [s EXCEPT !.last = m]
  <2>1. x.caught = s.caught /\ x.pos = s.pos /\ x.walls = s.walls
    BY <1>11 DEF Drivers
  <2> HIDE DEF x
  <2>2. x.caught => BoxedIn(Thief, x)
    BY <1>6, <1>11, <2>1 DEF SamePlay, BoxedIn
  <2>3. Admitted(InTurns(Cop, m), x)
    BY <2>2 DEF Admitted
  <2>4. QED
    BY <2>3 DEF x
<1>16. /\ SameMail(s, w) /\ s.last = w.last /\ s.ended = w.ended /\ s.idle = w.idle
       /\ s.owed = None /\ s.outcome = w.outcome /\ s.terminal = w.terminal
       /\ s.pc \in {"wait", "close"} /\ s.caught = a.caught /\ s.finished = a.finished
  BY <1>6, <1>11 DEF SameMail, SamePlay, SameEnd
<1>17. Capture \in {s.finished, s.outcome} => s.caught \/ Captured(w)
  BY <1>6, <1>16, OutcomeValues DEF Captured
<1>18. QED
  BY <1>1, <1>3, <1>7, <1>8, <1>11, <1>12, <1>13, <1>14, <1>15, <1>16, <1>17, ThiefSends

\* The terminal step of a thief that was caught on a claim concedes it.
LEMMA CloseEnds ==
    ASSUME Inv, Ending, NEW p \in Peers, Close(p)
    PROVE  Ending'
<1> USE PeersAreTwo
<1> DEFINE w == peer[Thief]
           c == peer[Cop]
           k == Append(w.sealed, w.step)
           e == IF w.caught THEN Capture ELSE w.finished
           o == Or(e, Survival)
           s == [w EXCEPT !.pc = "submit", !.sealed = k, !.owed = None,
                          !.terminal = TRUE, !.finished = e, !.outcome = o]
           m == TerminalOf(Thief, w)
           u == InTurns(Cop, m)
           x == [s EXCEPT !.last = m]
<1>1. p = Thief
  <2>1. peer[p].pc = "close" /\ Rounds(p, peer[p])
    BY DriversNow DEF Close
  <2>2. QED
    BY <2>1 DEF Rounds
<1>2. /\ w \in Drivers /\ w.pc = "close" /\ Rounds(Thief, w) /\ Running(Thief, w)
      /\ Story(c, w) /\ (FaultFree => Calm(c, w)) /\ Sent(Thief, w, c)
  BY <1>1, EndingNow DEF Close, Ending
<1>3. PushTurn(Thief, m, s)
  BY <1>1 DEF Close
<1>4. m \in Turns /\ m.step = w.step /\ m.response = w.owed
  BY <1>2, TerminalIsATurn DEF TerminalOf
<1>5. /\ Reached(Cop, u, m) /\ \E i \in DOMAIN u.turns : u.turns[i] = m
  BY <1>4, ArrivalFields
<1>6. e \in Outcomes \cup {None} /\ e \in {w.finished, Capture} /\ e # TechnicalLoss
      /\ o \in Outcomes /\ o \in {e, Survival} /\ (w.caught => e = Capture)
      /\ (~w.caught => e = w.finished)
  BY <1>2, OutcomeValues DEF Drivers, Running, Or, Capture, TechnicalLoss
<1>7. k \in Seq(Nat) /\ Len(k) = Acted(w) + 1 /\ w.step \in Nat /\ Acted(w) = w.step - 1
  BY <1>2 DEF Drivers, Acted, Rounds
<1> HIDE DEF w, c, k, e, o, m
<1>8. s \in Drivers
  <2>1. ASSUME NEW kk \in Seq(Nat), NEW ee \in Outcomes \cup {None}, NEW oo \in Outcomes
        PROVE  [w EXCEPT !.pc = "submit", !.sealed = kk, !.owed = None,
                         !.terminal = TRUE, !.finished = ee, !.outcome = oo] \in Drivers
    BY <1>2 DEF Drivers, PCs
  <2>2. QED
    BY <1>6, <1>7, <2>1
<1>9. /\ s.pc = "submit" /\ s.sealed = k /\ s.owed = None /\ s.terminal = TRUE
      /\ s.finished = e /\ s.outcome = o /\ SameMail(s, w) /\ s.last = w.last
      /\ s.ended = w.ended /\ s.idle = w.idle /\ s.pos = w.pos /\ s.walls = w.walls
      /\ s.caught = w.caught /\ s.claimed = w.claimed /\ s.walled = w.walled
  BY <1>2 DEF Drivers, SameMail
<1> HIDE DEF s
<1>10. Running(Thief, s)
  BY <1>2, <1>6, <1>9, OutcomeValues DEF Running, Early, Opening, Or, o
<1>11. Answered(s, m)
  BY <1>2, <1>4, <1>9 DEF Answered, Story, Claims
<1>12. Capture \in {s.finished, s.outcome} => s.caught \/ Captured(w)
  BY <1>6, <1>9 DEF Captured, Capture, Survival
<1>13. LeftBehind(c, s)
  BY <1>9 DEF LeftBehind, Opening
<1>14. ASSUME FaultFree PROVE Admitted(u, x)
  <2>1. /\ x.caught = s.caught /\ x.pos = s.pos /\ x.walls = s.walls /\ x.pc = s.pc
        /\ x.sealed = s.sealed /\ x.last = m
    BY <1>8 DEF Drivers
  <2> HIDE DEF x, u
  <2>2. /\ Bystander(u, c)
        /\ \A i \in DOMAIN u.turns : u.turns[i] = m \/ \E j \in DOMAIN c.turns : u.turns[i] = c.turns[j]
    BY <1>5 DEF Reached, c
  <2>3. ASSUME x.caught, ~BoxedIn(Thief, x)
        PROVE  Due(u, x)
    <3>1. w.caught /\ ~BoxedIn(Thief, w)
      BY <1>9, <2>1, <2>3 DEF BoxedIn
    <3>2. c.pc \in {"wait", "closing"} /\ c.step = w.step /\ Grants(c, w.owed)
      BY <1>2, <1>14, <3>1 DEF Calm, Admitted
    <3>3. u.pc \in {"wait", "closing"} /\ u.step = w.step /\ Grants(u, m.response)
      BY <1>4, <2>2, <3>2 DEF Bystander, SamePlace, SamePlay, Grants
    <3>4. u.step = Acted(x)
      BY <1>7, <1>9, <2>1, <3>3 DEF Acted
    <3>5. Found(u) # {}
      BY <1>4, <1>5, <3>3 DEF Found
    <3>6. ASSUME NEW i \in Found(u) PROVE u.turns[i] = m
      <4>1. i \in DOMAIN u.turns /\ u.turns[i].step = w.step
        BY <3>3 DEF Found
      <4>2. ASSUME NEW j \in DOMAIN c.turns, u.turns[i] = c.turns[j] PROVE FALSE
        <5>1. w.step \in 1 .. w.step - 1
          BY <1>2, <1>7, <4>1, <4>2 DEF Sent, OfASealedStep
        <5>2. QED
          BY <1>7, <5>1
      <4>3. QED
        BY <2>2, <4>1, <4>2
    <3>7. QED
      BY <2>1, <3>3, <3>4, <3>5, <3>6 DEF Due
  <2>4. QED
    BY <1>9, <2>1, <2>3 DEF Admitted
<1>15. s.outcome \in {w.outcome, Capture, Survival}
  <2>1. e = Capture \/ e = w.finished
    BY <1>6
  <2>2. w.finished \in Outcomes \cup {None}
    BY <1>2 DEF Drivers
  <2>3. QED
    BY <1>6, <1>9, <2>2, OutcomeValues DEF Outcomes
<1>16. QED
  BY <1>2, <1>3, <1>4, <1>8, <1>9, <1>10, <1>11, <1>12, <1>13, <1>14, <1>15, ThiefSends DEF w, c, u, x

\* A cop that acts claims a cell, and waits for the answer.
LEMMA CopActs ==
    ASSUME Inv, Ending, Act(Cop)
    PROVE  Ending'
<1> USE PeersAreTwo
<1> DEFINE w == peer[Cop]
           t == peer[Thief]
<1>1. /\ w \in Drivers /\ w.pc = "act" /\ Rounds(Cop, w) /\ Running(Cop, w)
      /\ Story(w, t) /\ (FaultFree => Calm(w, t)) /\ Sent(Cop, w, t) /\ t \in Drivers
  BY EndingNow DEF Act, Ending
<1>2. PICK d \in Decisions(Cop, w) :
        LET a == [TakeTurn(Cop, w, d) EXCEPT !.owed = None]
            s == CASE a.finished # None -> WrapUp(Cop, a)
                   [] a.finished = None /\ Cop = Thief -> [a EXCEPT !.pc = "wait"]
                   [] OTHER -> NextRound(Cop, a)
        IN  PushTurn(Cop, TurnOf(Cop, w, d), s)
  BY DEF Act
<1> DEFINE a == [TakeTurn(Cop, w, d) EXCEPT !.owed = None]
           m == TurnOf(Cop, w, d)
           s == NextRound(Cop, a)
<1>3. /\ w.walled = None /\ w.finished = None /\ ~w.terminal /\ w.step <= MaxMoves
      /\ Acted(w) = w.step - 1 /\ w.step \in Nat
  BY <1>1 DEF Running, Early, Rounds, Drivers
<1>4. ~ClaimsSurvival(Cop, w) /\ \A y : ~BoxedIn(Cop, y)
  BY DEF ClaimsSurvival, BoxedIn
<1>5. ClaimOf(Cop, w, d) # None /\ (d.barrier # None => ClaimOf(Cop, w, d) = d.barrier)
  <2>1. d.aim \in Cells /\ w.pos \in Cells
    BY <1>1, DecisionFields DEF Drivers
  <2>2. SettleMove(w.pos, d.aim, w.walls) \in Cells
    BY <2>1 DEF SettleMove
  <2>3. QED
    BY <2>2, OutcomeValues DEF ClaimOf
<1>6. /\ a \in Drivers /\ a.sealed = Append(w.sealed, w.step) /\ a.caught = (w.caught \/ BoxedIn(Cop, a))
      /\ a.claimed = Or(ClaimOf(Cop, w, d), w.claimed)
      /\ a.walled = None /\ a.owed = None /\ a.terminal = w.terminal /\ a.last = w.last
      /\ SameMail(a, w) /\ SamePlace(a, w)
      /\ a.ended = w.ended /\ a.outcome = w.outcome /\ a.idle = w.idle
      /\ a.finished = IF BoxedIn(Cop, a) THEN Capture ELSE None
  BY <1>1, <1>3, <1>4, TakeTurnFields
<1>7. /\ m \in Turns /\ ~m.win /\ m.claim = ClaimOf(Cop, w, d) /\ m.barrier = d.barrier
      /\ m.step = w.step
  BY <1>1, <1>4, TurnOfIsATurn DEF TurnOf
<1>8. PushTurn(Cop, m, s)
  <2> HIDE DEF w
  <2>1. a.finished = None
    BY <1>4, <1>6
  <2> HIDE DEF a, m
  <2>2. QED
    BY <1>2, <2>1 DEF a, m
<1> HIDE DEF a, m
<1>9. /\ a.claimed = m.claim /\ m.claim # None /\ (m.barrier # None => m.claim = m.barrier)
      /\ a.finished = None /\ Acted(a) = w.step /\ ~a.terminal
  <2>1. a.claimed = m.claim /\ m.claim # None /\ (m.barrier # None => m.claim = m.barrier)
    BY <1>5, <1>6, <1>7 DEF Or
  <2>2. Acted(a) = Acted(w) + 1
    BY <1>1, <1>6 DEF Acted, Drivers
  <2>3. QED
    BY <1>3, <1>4, <1>6, <2>1, <2>2
<1>10. /\ s \in Drivers /\ SamePlay(s, a) /\ SameMail(s, a) /\ SameEnd(s, a)
       /\ s.step = w.step + 1
       /\ IF SurvivalReached(a) \/ a.step = MaxMoves THEN s.pc = "closing" ELSE s.pc = "wait"
  <2>1. s \in Drivers /\ a.step = w.step
    BY <1>6, NextRoundEffect DEF SamePlace
  <2>2. CASE SurvivalReached(a) \/ a.step = MaxMoves
    <3>1. s = WrapUp(Cop, a)
      BY <2>2 DEF NextRound
    <3>2. QED
      BY <1>6, <1>9, <2>1, <2>2, <3>1, WrapUpFields DEF SameEnd
  <2>3. CASE ~(SurvivalReached(a) \/ a.step = MaxMoves)
    <3> DEFINE n == a.step + 1
    <3>1. s = [a EXCEPT !.pc = "wait", !.step = n]
      BY <2>3 DEF NextRound, StartPc
    <3> HIDE DEF s, n
    <3>2. /\ SamePlay(s, a) /\ SameMail(s, a) /\ SameEnd(s, a) /\ s.step = n /\ s.pc = "wait"
      BY <1>6, <3>1 DEF Drivers, SamePlay, SameMail, SameEnd
    <3>3. QED
      BY <2>1, <2>3, <3>2 DEF n
  <2>4. QED
    BY <2>2, <2>3
<1> HIDE DEF s
<1>11. Running(Cop, s)
  <2>1. /\ s.finished = None /\ s.walled = None /\ Acted(s) = w.step /\ s.claimed = m.claim
    BY <1>6, <1>9, <1>10 DEF SameEnd, SamePlay, Acted
  <2>2. a.step = w.step /\ MaxMoves \in Nat /\ SurvivalThreshold \in Nat
    BY <1>6, ReferenceAssumption DEF SamePlace
  <2>3. CASE SurvivalReached(a) \/ a.step = MaxMoves
    BY <1>3, <1>9, <1>10, <2>1, <2>2, <2>3, OutcomeValues DEF Running, Early, Opening, SurvivalReached, Acted
  <2>4. CASE ~(SurvivalReached(a) \/ a.step = MaxMoves)
    BY <1>3, <1>10, <2>1, <2>2, <2>4, OutcomeValues DEF Running, Early, Opening
  <2>5. QED
    BY <2>3, <2>4
<1>12. PICK v, u : /\ AfterCall(v, s, m) /\ u \in {InTurns(Thief, m), t}
                   /\ peer' = [x \in Peers |-> IF x = Cop THEN v ELSE u]
  BY <1>8, PushEffect DEF Pushed
<1>13. Reached(Thief, u, m)
  BY <1>7, <1>12, ArrivalFields
<1>14. /\ v.pos = s.pos /\ v.walls = s.walls /\ v.sealed = s.sealed /\ v.held = s.held
       /\ v.caught = s.caught /\ v.claimed = s.claimed
       /\ SameMail(v, s) /\ SameEnd(v, s)
       /\ (v.pc = s.pc /\ v.last = m) \/ (v.pc = "crashed" /\ v.last = s.last)
  BY <1>10, <1>12, SendingFields
<1>15. ASSUME FaultFree'
       PROVE  FaultFree /\ v.pc = s.pc
  <2>1. FaultFree
    BY <1>8, <1>15, NoFaultYet DEF PushTurn, Delivered, Raised
  <2>2. ~Gone(Thief)
    BY <1>1, <2>1 DEF Calm, Smooth, Gone
  <2> DEFINE x == [s EXCEPT !.last = m]
             y == InTurns(Thief, m)
  <2>3. peer' = [q \in Peers |-> IF q = Cop THEN x ELSE y]
    BY <1>7, <1>8, <1>10, <1>15, <2>2, FaultlessPush
  <2>4. x.pc = s.pc
    BY <1>10 DEF Drivers
  <2> HIDE DEF x, y
  <2>5. peer'[Cop] = x
    BY <2>3
  <2>6. peer'[Cop] = v
    BY <1>12
  <2>7. QED
    BY <2>1, <2>4, <2>5, <2>6
<1> HIDE DEF w, t
<1>16. /\ Bystander(u, t) /\ u.audits = t.audits /\ u.agreements = t.agreements
       /\ \A i \in DOMAIN u.turns : u.turns[i] = m \/ \E j \in DOMAIN t.turns : u.turns[i] = t.turns[j]
  BY <1>13 DEF Reached, t
<1>17. /\ SameMail(v, w) /\ SameEnd(v, a) /\ Acted(v) = w.step /\ v.claimed = m.claim
       /\ v.last \in {m, w.last} /\ v.ended = w.ended /\ v.outcome = w.outcome
       /\ v.idle = w.idle /\ v.finished = None
  BY <1>6, <1>9, <1>10, <1>14 DEF SameMail, SameEnd, SamePlay, Acted
<1>18. Story(v, u)
  <2>1. Running(Cop, v) /\ Running(Thief, u)
    BY <1>1, <1>10, <1>11, <1>12, <1>16, SendingRuns, BystanderRuns DEF Story
  <2>2. ASSUME NEW x, Claimed(w, x), OfASealedStep(Cop, w, x)
        PROVE  Claimed(v, x)
    <3>1. x.step # w.step
      BY <1>3, <2>2 DEF OfASealedStep
    <3>2. QED
      BY <1>17, <2>2, <3>1 DEF Claimed
  <2>3. Claimed(v, m)
    BY <1>7, <1>9, <1>17 DEF Claimed
  <2>4. \A x : Answered(t, x) => Answered(u, x)
    BY <1>16 DEF Answered, Bystander, SamePlay
  <2>5. v.last # None => Claimed(v, v.last)
    BY <1>1, <1>17, <2>2, <2>3 DEF Story, Claims, Sent
  <2>6. \A i \in DOMAIN u.turns : Claimed(v, u.turns[i])
    BY <1>1, <1>16, <2>2, <2>3 DEF Story, Claims, Sent
  <2>7. u.last # None => Answered(u, u.last)
    BY <1>1, <1>16, <2>4 DEF Story, Claims, Bystander, SamePlay
  <2>8. \A i \in DOMAIN v.turns : Answered(u, v.turns[i])
    BY <1>1, <1>17, <2>4 DEF Story, Claims, SameMail
  <2>9. Concedes(u.owed) => u.caught
    BY <1>1, <1>16 DEF Story, Claims, Bystander, SamePlay
  <2>10. Read(u) # Acted(v)
    <3>1. Read(t) <= w.step - 1 /\ Read(u) = Read(t)
      BY <1>1, <1>3, <1>16 DEF Sent, Bystander, SamePlay, Read
    <3>2. Read(t) \in Nat
      BY EndingNow DEF Rounds, t
    <3>3. QED
      BY <1>3, <1>17, <3>1, <3>2
  <2>11. Claims(v, u)
    BY <2>5, <2>6, <2>7, <2>8, <2>9, <2>10 DEF Claims
  <2>12. Grounded(v, u)
    <3>1. Captured(u) => Captured(t)
      BY <1>16 DEF Captured, Bystander, SameEnd
    <3>2. Captured(v) => Captured(w)
      BY <1>17, OutcomeValues DEF Captured, SameMail
    <3>3. QED
      BY <1>1, <1>16, <3>1, <3>2 DEF Story, Grounded, Bystander, SamePlay
  <2>13. QED
    BY <2>1, <2>11, <2>12 DEF Story
<1>19. ASSUME FaultFree' PROVE Calm(v, u)
  <2>1. Smooth(w, t) /\ Smooth(t, w) /\ Admitted(w, t)
    BY <1>1, <1>15, <1>19 DEF Calm
  <2>2. v.pc \in {"wait", "closing"}
    BY <1>10, <1>15, <1>19
  <2>3. Smooth(v, u) /\ Smooth(u, v)
    BY <1>1, <1>16, <1>17, <2>1, <2>2 DEF Smooth, SameMail, SameEnd, Opening, Bystander, SamePlace
  <2>4. LeftBehind(v, u)
    BY <2>2 DEF LeftBehind, Past
  <2>5. t.caught /\ ~BoxedIn(Thief, t) => t.pc # "close" /\ t.pc \notin Past
    BY <1>1, <2>1 DEF Admitted, Due, Past
  <2>6. Admitted(v, u)
    BY <1>16, <2>5 DEF Admitted, Bystander, SamePlay, SamePlace, BoxedIn
  <2>7. QED
    BY <2>3, <2>4, <2>6 DEF Calm
<1>20. StoryBy(Cop, v, u) /\ (FaultFree' => CalmBy(Cop, v, u))
  BY <1>18, <1>19 DEF StoryBy, CalmBy
<1>21. peer' = [x \in Peers |-> IF x = Cop THEN v ELSE u]
  BY <1>12
<1>22. QED
  BY <1>20, <1>21, EndingOfTwo

-----------------------------------------------------------------------------
(* A turn is read. *)

\* Whether the turn m claims the cell w stands on.
Hits(w, m) == m.claim # None /\ m.claim = w.pos

\* What w hears in its first turn of the step.
Heard(p, w) ==
    LET m == w.turns[FirstFound(w)]
    IN  ReadConcession(Absorb(p, [w EXCEPT !.turns = Kept(w), !.idle = FALSE], m), m)

LEMMA AbsorbFields ==
    ASSUME NEW p \in Peers, NEW w \in Drivers, NEW m \in Turns
    PROVE  LET v == Absorb(p, w, m) IN
           /\ SameMail(v, w) /\ SamePlace(v, w)
           /\ v.pos = w.pos /\ v.claimed = w.claimed /\ v.ended = w.ended
           /\ v.outcome = w.outcome /\ v.idle = w.idle
           /\ v.caught <=> w.caught \/ Hits(w, m) \/ BoxedIn(p, v)
           /\ v.walled = Entering(p, w, m.barrier)
           /\ v.owed = IF m.claim = None THEN None ELSE [cell |-> m.claim, caught |-> Hits(w, m)]
           /\ v.finished = IF m.win THEN Survival ELSE IF BoxedIn(p, v) THEN Capture
                                                                        ELSE w.finished
<1> DEFINE held  == w.held \cup {m.step}
           walls == w.walls \cup (IF m.barrier = None THEN {} ELSE {m.barrier})
           told  == [w EXCEPT !.held = held, !.walls = walls]
           hit   == m.claim # None /\ m.claim = w.pos
           boxed == BoxedIn(p, told)
           c == told.caught \/ hit \/ boxed
           e == Entering(p, w, m.barrier)
           f == CASE m.win -> Survival
                  [] ~m.win /\ boxed -> Capture
                  [] OTHER -> told.finished
           o == IF m.claim = None THEN None ELSE [cell |-> m.claim, caught |-> hit]
           v == [told EXCEPT !.caught = c, !.walled = e, !.finished = f, !.owed = o]
<1>1. Absorb(p, w, m) = v
  BY DEF Absorb
<1> HIDE DEF held, walls
<1>2. /\ told.pos = w.pos /\ told.walls = walls /\ told.claimed = w.claimed
      /\ told.ended = w.ended /\ told.outcome = w.outcome /\ told.idle = w.idle
      /\ told.caught = w.caught /\ told.finished = w.finished
      /\ SameMail(told, w) /\ SamePlace(told, w)
  BY DEF Drivers, SameMail, SamePlace
<1>3. m.win \in BOOLEAN
  BY DEF Turns
<1>4. f = IF m.win THEN Survival ELSE IF boxed THEN Capture ELSE told.finished
  <2> HIDE DEF told, boxed
  <2>1. QED
    BY <1>3
<1>5. o = IF m.claim = None THEN None ELSE [cell |-> m.claim, caught |-> Hits(w, m)]
  BY DEF Hits
<1>6. c <=> w.caught \/ Hits(w, m) \/ boxed
  BY <1>2 DEF Hits
<1> HIDE DEF e, f, o, c
<1>7. /\ v.pos = told.pos /\ v.walls = told.walls /\ v.claimed = told.claimed
      /\ v.ended = told.ended /\ v.outcome = told.outcome /\ v.idle = told.idle
      /\ v.caught = c /\ v.walled = e /\ v.finished = f /\ v.owed = o
      /\ SameMail(v, told) /\ SamePlace(v, told)
  BY DEF Drivers, SameMail, SamePlace
<1> HIDE DEF v, told, boxed
<1>8. BoxedIn(p, v) = boxed
  BY <1>7 DEF BoxedIn, boxed
<1>9. SameMail(v, w) /\ SamePlace(v, w)
  BY <1>2, <1>7 DEF SameMail, SamePlace
<1>10. QED
  BY <1>1, <1>2, <1>4, <1>5, <1>6, <1>7, <1>8, <1>9 DEF e

\* h is w after it has heard the turn m.
HeardAs(p, w, m, h) ==
    /\ m \in Turns /\ m.step = w.step
    /\ FirstFound(w) \in Found(w) /\ FirstFound(w) \in DOMAIN w.turns
    /\ h \in Drivers /\ SamePlace(h, w) /\ Fewer(h, w)
    /\ h.audits = w.audits /\ h.agreements = w.agreements
    /\ h.held = w.held \cup {w.step} /\ h.sealed = w.sealed
    /\ h.terminal = w.terminal /\ h.last = w.last
    /\ h.pos = w.pos /\ h.claimed = w.claimed /\ h.ended = w.ended
    /\ h.outcome = w.outcome /\ h.idle = FALSE
    /\ h.caught <=> w.caught \/ Hits(w, m) \/ BoxedIn(p, h)
    /\ h.walled = Entering(p, w, m.barrier)
    /\ h.owed = IF m.claim = None THEN None ELSE [cell |-> m.claim, caught |-> Hits(w, m)]
    /\ h.finished = IF Grants(w, m.response) THEN Capture
                    ELSE IF m.win THEN Survival
                    ELSE IF BoxedIn(p, h) THEN Capture ELSE w.finished

LEMMA HeardFields ==
    ASSUME NEW p \in Peers, NEW w \in Drivers, Found(w) # {}
    PROVE  HeardAs(p, w, w.turns[FirstFound(w)], Heard(p, w))
<1> DEFINE m == w.turns[FirstFound(w)]
           k == Kept(w)
           t == [w EXCEPT !.turns = k, !.idle = FALSE]
           a == Absorb(p, t, m)
           h == ReadConcession(a, m)
<1>1. /\ m \in Turns /\ m.step = w.step
      /\ FirstFound(w) \in Found(w) /\ FirstFound(w) \in DOMAIN w.turns
  BY FirstIsFound DEF Drivers, Found
<1>2. k \in Seq(Turns) /\ \A j \in DOMAIN k : \E i \in DOMAIN w.turns : k[j] = w.turns[i]
  BY KeptWasThere DEF Drivers
<1>3. /\ h \in Drivers /\ h.pc = w.pc /\ h.step = w.step
      /\ h.terminal = w.terminal /\ h.last = w.last /\ h.sealed = w.sealed
      /\ h.turns = k /\ h.held = w.held \cup {m.step}
  BY HeardEffect
<1> HIDE DEF k, m
<1>4. t \in Drivers
  BY <1>2 DEF Drivers
<1>5. /\ t.pos = w.pos /\ t.claimed = w.claimed /\ t.ended = w.ended /\ t.outcome = w.outcome
      /\ t.idle = FALSE /\ t.caught = w.caught /\ t.finished = w.finished
      /\ t.audits = w.audits /\ t.agreements = w.agreements
  BY DEF Drivers
<1> HIDE DEF t
<1>6. /\ SameMail(a, t)
      /\ a.pos = t.pos /\ a.claimed = t.claimed /\ a.ended = t.ended
      /\ a.outcome = t.outcome /\ a.idle = t.idle
      /\ a.caught <=> t.caught \/ Hits(t, m) \/ BoxedIn(p, a)
      /\ a.walled = Entering(p, t, m.barrier)
      /\ a.owed = IF m.claim = None THEN None ELSE [cell |-> m.claim, caught |-> Hits(t, m)]
      /\ a.finished = IF m.win THEN Survival ELSE IF BoxedIn(p, a) THEN Capture
                                                                   ELSE t.finished
  BY <1>1, <1>4, AbsorbFields
<1>7. a \in Drivers
  BY <1>1, <1>4, AbsorbEffect
<1> HIDE DEF a
<1>8. /\ SamePlay(h, a) /\ SameMail(h, a)
      /\ h.ended = a.ended /\ h.outcome = a.outcome /\ h.idle = a.idle
      /\ h.finished = IF Grants(a, m.response) THEN Capture ELSE a.finished
  BY <1>7, ConcessionFields
<1> HIDE DEF h
<1>9. /\ Hits(t, m) = Hits(w, m) /\ Entering(p, t, m.barrier) = Entering(p, w, m.barrier)
      /\ Grants(a, m.response) = Grants(w, m.response) /\ BoxedIn(p, a) = BoxedIn(p, h)
  BY <1>5, <1>6, <1>8 DEF Hits, Entering, Grants, BoxedIn, SamePlay
<1>10. /\ h.audits = w.audits /\ h.agreements = w.agreements
       /\ h.pos = w.pos /\ h.claimed = w.claimed /\ h.ended = w.ended
       /\ h.outcome = w.outcome /\ h.idle = FALSE
       /\ h.caught = a.caught /\ h.walled = a.walled /\ h.owed = a.owed
  BY <1>5, <1>6, <1>8 DEF SamePlay, SameMail
<1>11. /\ h.caught <=> w.caught \/ Hits(w, m) \/ BoxedIn(p, h)
       /\ h.walled = Entering(p, w, m.barrier)
       /\ h.owed = IF m.claim = None THEN None ELSE [cell |-> m.claim, caught |-> Hits(w, m)]
       /\ h.finished = IF Grants(w, m.response) THEN Capture
                       ELSE IF m.win THEN Survival
                       ELSE IF BoxedIn(p, h) THEN Capture ELSE w.finished
  BY <1>5, <1>6, <1>8, <1>9, <1>10
<1>12. SamePlace(h, w) /\ Fewer(h, w)
  BY <1>2, <1>3 DEF SamePlace, Fewer
<1>13. h = Heard(p, w)
  BY DEF h, a, t, k, m, Heard
<1>14. HeardAs(p, w, m, h)
  BY <1>1, <1>3, <1>10, <1>11, <1>12 DEF HeardAs
<1>15. QED
  BY <1>13, <1>14 DEF m

\* After a turn the thief acts again, or owes its terminal step.
LEMMA ThiefGoesOn ==
    ASSUME NEW h \in Drivers, ~h.terminal, h.pc = "wait"
    PROVE  LET s == CASE h.caught -> [h EXCEPT !.pc = "close", !.step = @ + 1]
                      [] ~h.caught /\ h.finished # None -> WrapUp(Thief, h)
                      [] OTHER -> NextRound(Thief, h)
           IN  /\ s \in Drivers /\ SamePlay(s, h) /\ SameMail(s, h) /\ SameEnd(s, h)
               /\ s.step = h.step + 1
               /\ \/ s.pc = "close"
                  \/ /\ s.pc = "act" /\ ~h.caught /\ h.finished = None
                     /\ ~SurvivalReached(h) /\ h.step # MaxMoves
<1> USE PeersAreTwo
<1> DEFINE n  == h.step + 1
           k1 == [h EXCEPT !.pc = "close", !.step = n]
           k2 == [h EXCEPT !.pc = "act", !.step = n]
           s  == CASE h.caught -> k1
                   [] ~h.caught /\ h.finished # None -> WrapUp(Thief, h)
                   [] OTHER -> NextRound(Thief, h)
           G(x) == /\ x \in Drivers /\ SamePlay(x, h) /\ SameMail(x, h) /\ SameEnd(x, h)
                   /\ x.step = n
<1>1. n \in Nat
  BY DEF Drivers
<1> HIDE DEF n
<1>2. G(k1) /\ k1.pc = "close"
  <2>1. k1 \in Drivers
    BY <1>1 DEF Drivers, PCs
  <2>2. SamePlay(k1, h) /\ SameMail(k1, h) /\ SameEnd(k1, h) /\ k1.step = n /\ k1.pc = "close"
    BY DEF Drivers, SamePlay, SameMail, SameEnd
  <2>3. QED
    BY <2>1, <2>2
<1>3. G(k2) /\ k2.pc = "act"
  <2>1. k2 \in Drivers
    BY <1>1 DEF Drivers, PCs
  <2>2. SamePlay(k2, h) /\ SameMail(k2, h) /\ SameEnd(k2, h) /\ k2.step = n /\ k2.pc = "act"
    BY DEF Drivers, SamePlay, SameMail, SameEnd
  <2>3. QED
    BY <2>1, <2>2
<1>4. G(WrapUp(Thief, h)) /\ WrapUp(Thief, h).pc = "close"
  <2> DEFINE x == WrapUp(Thief, h)
  <2>1. x \in Drivers
    BY WrapUpEffect
  <2>2. SamePlay(x, h) /\ SameMail(x, h) /\ SameEnd(x, h) /\ x.step = h.step + 1 /\ x.pc = "close"
    BY WrapUpFields DEF SameEnd
  <2> HIDE DEF x
  <2>3. G(x) /\ x.pc = "close"
    BY <2>1, <2>2 DEF n
  <2>4. QED
    BY <2>3 DEF x
<1>5. IF SurvivalReached(h) \/ h.step = MaxMoves THEN NextRound(Thief, h) = WrapUp(Thief, h)
                                                  ELSE NextRound(Thief, h) = k2
  BY DEF NextRound, StartPc, n
<1> HIDE DEF k1, k2, G
<1>6. /\ G(s)
      /\ \/ s.pc = "close"
         \/ /\ s.pc = "act" /\ ~h.caught /\ h.finished = None
            /\ ~SurvivalReached(h) /\ h.step # MaxMoves
  <2>1. CASE h.caught
    <3>1. s = k1
      BY <2>1
    <3>2. QED
      BY <1>2, <3>1
  <2>2. CASE ~h.caught /\ h.finished # None
    <3>1. s = WrapUp(Thief, h)
      BY <2>2
    <3>2. QED
      BY <1>4, <3>1
  <2>3. CASE ~h.caught /\ h.finished = None
    <3>1. s = NextRound(Thief, h)
      BY <2>3
    <3> HIDE DEF s
    <3>2. QED
      BY <1>3, <1>4, <1>5, <2>3, <3>1
  <2>4. QED
    BY <2>1, <2>2, <2>3
<1>7. s = CASE h.caught -> [h EXCEPT !.pc = "close", !.step = @ + 1]
            [] ~h.caught /\ h.finished # None -> WrapUp(Thief, h)
            [] OTHER -> NextRound(Thief, h)
  BY DEF k1, n
<1> HIDE DEF s
<1>8. QED
  BY <1>6, <1>7 DEF G, n

\* A claim that hits is owed a concession; nothing else ends a thief's round early.
LEMMA ThiefReceives ==
    ASSUME Inv, Ending, Receive(Thief)
    PROVE  Ending'
<1> USE PeersAreTwo
<1> DEFINE w == peer[Thief]
           c == peer[Cop]
           m == w.turns[FirstFound(w)]
           h == Heard(Thief, w)
           s == CASE h.caught -> [h EXCEPT !.pc = "close", !.step = @ + 1]
                  [] ~h.caught /\ h.finished # None -> WrapUp(Thief, h)
                  [] OTHER -> NextRound(Thief, h)
<1>1. /\ w \in Drivers /\ c \in Drivers /\ w.pc = "wait" /\ Found(w) # {}
      /\ Rounds(Thief, w) /\ Rounds(Cop, c) /\ Sent(Thief, w, c) /\ Sent(Cop, c, w)
      /\ Running(Thief, w) /\ Running(Cop, c)
      /\ Story(c, w) /\ (FaultFree => Calm(c, w))
  BY EndingNow DEF Receive, Ending
<1>2. peer' = [x \in Peers |-> IF x = Thief THEN s ELSE c]
  <2>1. peer' = [peer EXCEPT ![Thief] = s]
    BY DEF Receive, Heard
  <2> HIDE DEF s
  <2>2. QED
    BY <2>1, DriversNow
<1>3. FaultFree' => FaultFree
  BY NoFaultYet DEF Receive
<1> HIDE DEF w, c, s
<1>4. HeardAs(Thief, w, m, h)
  BY <1>1, HeardFields
<1>5. Claimed(c, m) /\ OfASealedStep(Cop, c, m)
  BY <1>1, <1>4 DEF Story, Claims, Sent, HeardAs
<1> HIDE DEF m, h
<1>6. /\ w.finished = None /\ ~w.caught /\ w.walled = None /\ w.claimed = None
      /\ w.step <= MaxMoves /\ ~w.terminal
      /\ w.step \in Nat /\ Acted(w) = w.step /\ Read(w) = w.step - 1
  BY <1>1 DEF Running, Early, Rounds, InRound, Drivers
<1>7. ~Grants(w, m.response)
  BY <1>4, <1>6, ReferenceAssumption DEF Grants, Concedes, Turns, Answers, HeardAs
<1>8. Acted(c) = w.step /\ Read(c) = w.step /\ w.step >= 1
  <2>1. w.step \in 1 .. Acted(c)
    BY <1>4, <1>5 DEF OfASealedStep, HeardAs
  <2>2. Acted(c) <= Read(c) + 0 /\ Read(c) <= Acted(w)
    BY <1>1 DEF Rounds, Sent
  <2>3. Acted(c) \in Nat /\ Read(c) \in Nat
    BY <1>1 DEF Rounds, Drivers, Acted
  <2>4. QED
    BY <1>6, <2>1, <2>2, <2>3
<1>9. m.claim = c.claimed /\ m.claim # None /\ ~m.win /\ (m.barrier # None => m.claim = m.barrier)
  BY <1>4, <1>5, <1>8 DEF Claimed, HeardAs
<1>10. /\ h.caught <=> Hits(w, m) \/ BoxedIn(Thief, h)
       /\ h.finished = IF BoxedIn(Thief, h) THEN Capture ELSE None
       /\ h.owed = [cell |-> c.claimed, caught |-> Hits(w, m)]
       /\ h.walled # None => h.caught
  <2>1. h.walled # None => Hits(w, m)
    <3>1. w.pos # None
      BY <1>1, OutcomeValues DEF Drivers
    <3>2. QED
      BY <1>4, <1>9, <3>1 DEF Entering, Hits, HeardAs
  <2>2. QED
    BY <1>4, <1>6, <1>7, <1>9, <2>1 DEF HeardAs
<1> USE DEF s
<1>11. /\ s \in Drivers /\ SamePlay(s, h) /\ SameMail(s, h) /\ SameEnd(s, h)
       /\ s.step = w.step + 1
       /\ \/ s.pc = "close"
          \/ /\ s.pc = "act" /\ ~h.caught /\ h.finished = None
             /\ ~SurvivalReached(h) /\ w.step # MaxMoves
  <2>1. ~h.terminal /\ h.pc = "wait" /\ h.step = w.step
    BY <1>1, <1>4, <1>6 DEF SamePlace, HeardAs
  <2>2. /\ s \in Drivers /\ SamePlay(s, h) /\ SameMail(s, h) /\ SameEnd(s, h)
        /\ s.step = h.step + 1
        /\ \/ s.pc = "close"
           \/ /\ s.pc = "act" /\ ~h.caught /\ h.finished = None
              /\ ~SurvivalReached(h) /\ h.step # MaxMoves
    BY <1>4, <2>1, ThiefGoesOn DEF HeardAs
  <2> HIDE DEF s
  <2>3. QED
    BY <2>1, <2>2
<1> HIDE DEF s
<1>12. Acted(s) = w.step /\ Read(s) = w.step
  <2>1. Acted(s) = Acted(w) /\ s.held = w.held \cup {w.step}
    BY <1>4, <1>11 DEF SamePlay, Acted, HeardAs
  <2>2. w.held = 1 .. w.step - 1
    BY <1>1, <1>6 DEF Rounds
  <2>3. s.held = 1 .. w.step
    BY <1>6, <1>8, <2>1, <2>2
  <2>4. QED
    BY <1>6, <2>1, <2>3, IntervalSize DEF Read
<1>13. Running(Thief, s)
  <2>1. /\ s.claimed = None /\ s.finished = h.finished /\ s.caught = h.caught /\ s.walled = h.walled
    BY <1>4, <1>6, <1>11 DEF SamePlay, SameEnd, HeardAs
  <2>2. CASE s.pc = "close"
    BY <1>10, <2>1, <2>2, OutcomeValues DEF Running, Early, Opening, Past, Capture, TechnicalLoss
  <2>3. CASE s.pc # "close"
    <3>1. s.pc = "act" /\ ~h.caught /\ h.finished = None /\ ~SurvivalReached(h) /\ w.step # MaxMoves
      BY <1>11, <2>3
    <3>2. Acted(s) < SurvivalThreshold
      <4>1. Len(h.sealed) = w.step
        BY <1>4, <1>6 DEF Acted, HeardAs
      <4>2. QED
        BY <1>6, <1>12, <3>1, <4>1, ReferenceAssumption DEF SurvivalReached
    <3>3. s.step <= MaxMoves
      BY <1>6, <1>11, <3>1, ReferenceAssumption
    <3>4. QED
      BY <1>10, <2>1, <3>1, <3>2, <3>3, OutcomeValues DEF Running, Past
  <2>4. QED
    BY <2>2, <2>3
<1>14. Claims(c, s)
  <2>1. \A x : Answered(w, x) => Answered(s, x)
    BY <1>4, <1>6, <1>11 DEF Answered, SamePlay, HeardAs
  <2>2. \A i \in DOMAIN s.turns : Claimed(c, s.turns[i])
    BY <1>1, <1>4, <1>11 DEF Story, Claims, Fewer, SameMail, HeardAs
  <2>3. s.last # None => Answered(s, s.last)
    BY <1>1, <1>4, <1>11, <2>1 DEF Story, Claims, SamePlay, HeardAs
  <2>4. \A i \in DOMAIN c.turns : Answered(s, c.turns[i])
    BY <1>1, <2>1 DEF Story, Claims
  <2>5. s.owed.cell = c.claimed /\ (Concedes(s.owed) => s.caught)
    BY <1>10, <1>11 DEF SamePlay, Concedes
  <2>6. QED
    BY <1>1, <2>2, <2>3, <2>4, <2>5 DEF Story, Claims
<1>15. Grounded(c, s)
  <2>1. Captured(s) => Captured(w) \/ s.caught
    BY <1>4, <1>10, <1>11, OutcomeValues DEF Captured, SameMail, SameEnd, SamePlay, HeardAs
  <2>2. QED
    BY <1>1, <1>6, <2>1 DEF Story, Grounded
<1>16. ASSUME FaultFree' PROVE Calm(c, s)
  <2>1. Smooth(c, w) /\ Smooth(w, c) /\ LeftBehind(c, w)
    BY <1>1, <1>3, <1>16 DEF Calm
  <2>2. /\ s.idle = FALSE /\ s.outcome = w.outcome /\ s.ended = w.ended
        /\ s.audits = w.audits /\ s.agreements = w.agreements /\ s.pc \in {"close", "act"}
    BY <1>4, <1>11 DEF SameEnd, SameMail, HeardAs
  <2>3. Smooth(c, s)
    BY <1>1, <2>1, <2>2 DEF Smooth
  <2>4. Smooth(s, c)
    BY <1>1, <2>1, <2>2 DEF Smooth, Opening
  <2>5. c.pc \notin Past
    BY <1>1, <1>6, <1>8, <2>1 DEF LeftBehind
  <2>6. c.pc \in {"wait", "closing"} /\ c.step = w.step + 1
    <3>1. c.pc \notin Opening
      BY <1>1, <1>8 DEF Rounds
    <3>2. c.step \in Nat
      BY <1>1 DEF Drivers
    <3>3. c.pc # "act"
      BY <1>1, <1>6, <1>8, <3>2 DEF Rounds
    <3>4. c.pc \in PCs /\ c.pc # "close" /\ c.pc # "crashed"
      BY <1>1, <2>1 DEF Drivers, Rounds, Smooth
    <3>5. c.pc \in {"wait", "closing"}
      BY <2>5, <3>1, <3>3, <3>4 DEF PCs, Past, Opening
    <3>6. Acted(c) = c.step - 1
      BY <1>1, <3>5 DEF Rounds, Running
    <3>7. QED
      BY <1>6, <1>8, <3>2, <3>5, <3>6
  <2>7. LeftBehind(c, s)
    BY <2>5 DEF LeftBehind
  <2>8. Admitted(c, s)
    <3>1. ASSUME s.caught, ~BoxedIn(Thief, s) PROVE Grants(c, s.owed)
      <4>1. Hits(w, m)
        BY <1>10, <1>11, <3>1 DEF SamePlay, BoxedIn
      <4>2. s.owed = [cell |-> c.claimed, caught |-> TRUE]
        BY <1>10, <1>11, <4>1 DEF SamePlay
      <4>3. s.owed # None
        <5>1. c.claimed \in Cells
          BY <1>1, <1>9 DEF Drivers
        <5>2. s.owed \in [cell : Cells, caught : BOOLEAN]
          BY <4>2, <5>1
        <5>3. QED
          BY <5>2, ReferenceAssumption
      <4>4. QED
        BY <4>2, <4>3 DEF Grants, Concedes
    <3>2. s.pc \notin Past
      BY <2>2 DEF Past
    <3>3. QED
      BY <1>11, <2>6, <3>1, <3>2 DEF Admitted
  <2>9. QED
    BY <2>3, <2>4, <2>7, <2>8 DEF Calm
<1>17. StoryBy(Thief, s, c) /\ (FaultFree' => CalmBy(Thief, s, c))
  BY <1>1, <1>13, <1>14, <1>15, <1>16 DEF StoryBy, CalmBy, Story
<1>18. QED
  BY <1>2, <1>17, EndingOfTwo

\* After a turn the cop acts, or has seen the end, or stops at the ceiling.
LEMMA CopGoesOn ==
    ASSUME NEW h \in Drivers, ~h.terminal
    PROVE  LET s == CASE h.finished # None -> WrapUp(Cop, h)
                      [] h.finished = None /\ StopsHere(Cop, h) ->
                           [h EXCEPT !.pc = "submit", !.outcome = Survival]
                      [] OTHER -> [h EXCEPT !.pc = "act"]
           IN  /\ s \in Drivers /\ SamePlay(s, h) /\ SameMail(s, h)
               /\ s.finished = h.finished /\ s.ended = h.ended /\ s.idle = h.idle
               /\ \/ h.finished # None /\ s.pc = "submit" /\ s.outcome = h.finished
                  \/ /\ h.finished = None /\ h.step = SurvivalThreshold
                     /\ s.pc = "submit" /\ s.outcome = Survival
                  \/ /\ h.finished = None
                     /\ s.pc = "act" /\ s.outcome = h.outcome /\ s.step = h.step
<1> USE PeersAreTwo
<1> DEFINE k1 == [h EXCEPT !.pc = "submit", !.outcome = Survival]
           k2 == [h EXCEPT !.pc = "act"]
           k3 == WrapUp(Cop, h)
           s  == CASE h.finished # None -> WrapUp(Cop, h)
                   [] h.finished = None /\ StopsHere(Cop, h) -> k1
                   [] OTHER -> k2
           G(x) == /\ x \in Drivers /\ SamePlay(x, h) /\ SameMail(x, h)
                   /\ x.finished = h.finished /\ x.ended = h.ended /\ x.idle = h.idle
<1>1. G(k1) /\ k1.pc = "submit" /\ k1.outcome = Survival
  <2>1. k1 \in Drivers
    BY OutcomeValues DEF Drivers, PCs
  <2>2. /\ SamePlay(k1, h) /\ SameMail(k1, h) /\ k1.finished = h.finished
        /\ k1.ended = h.ended /\ k1.idle = h.idle /\ k1.pc = "submit" /\ k1.outcome = Survival
    BY DEF Drivers, SamePlay, SameMail
  <2>3. QED
    BY <2>1, <2>2
<1>2. G(k2) /\ k2.pc = "act" /\ k2.outcome = h.outcome /\ k2.step = h.step
  <2>1. k2 \in Drivers
    BY CallIsTyped DEF PCs
  <2>2. /\ SamePlay(k2, h) /\ SameMail(k2, h) /\ k2.finished = h.finished
        /\ k2.ended = h.ended /\ k2.idle = h.idle /\ k2.pc = "act" /\ k2.outcome = h.outcome
        /\ k2.step = h.step
    BY DEF Drivers, SamePlay, SameMail
  <2>3. QED
    BY <2>1, <2>2
<1>3. G(k3) /\ (h.finished # None => k3.pc = "submit" /\ k3.outcome = h.finished)
  <2>1. k3 \in Drivers
    BY WrapUpEffect
  <2>2. /\ SamePlay(k3, h) /\ SameMail(k3, h) /\ k3.finished = h.finished
        /\ k3.ended = h.ended /\ k3.idle = h.idle
        /\ (h.finished # None => k3.pc = "submit" /\ k3.outcome = Or(h.finished, Survival))
    BY WrapUpFields
  <2> HIDE DEF k3
  <2>3. QED
    BY <2>1, <2>2 DEF Or
<1> HIDE DEF k1, k2, k3, G
<1>4. /\ G(s)
      /\ \/ h.finished # None /\ s.pc = "submit" /\ s.outcome = h.finished
         \/ /\ h.finished = None /\ h.step = SurvivalThreshold
            /\ s.pc = "submit" /\ s.outcome = Survival
         \/ h.finished = None /\ s.pc = "act" /\ s.outcome = h.outcome /\ s.step = h.step
  <2>1. CASE h.finished # None
    <3>1. s = k3
      BY <2>1 DEF k3
    <3>2. QED
      BY <1>3, <2>1, <3>1
  <2>2. CASE h.finished = None /\ StopsHere(Cop, h)
    <3>1. s = k1
      BY <2>2
    <3>2. QED
      BY <1>1, <2>2, <3>1 DEF StopsHere
  <2>3. CASE h.finished = None /\ ~StopsHere(Cop, h)
    <3>1. s = k2
      BY <2>3
    <3>2. QED
      BY <1>2, <2>3, <3>1
  <2>4. QED
    BY <2>1, <2>2, <2>3
<1> HIDE DEF s
<1>5. QED
  BY <1>4 DEF s, k1, k2, G

\* A concession, or a claim of survival, is of a thief that has sent its terminal step.
LEMMA CopReceives ==
    ASSUME Inv, Ending, Receive(Cop)
    PROVE  Ending'
<1> USE PeersAreTwo
<1> DEFINE w == peer[Cop]
           t == peer[Thief]
           m == w.turns[FirstFound(w)]
           h == Heard(Cop, w)
           s == CASE h.finished # None -> WrapUp(Cop, h)
                  [] h.finished = None /\ StopsHere(Cop, h) ->
                       [h EXCEPT !.pc = "submit", !.outcome = Survival]
                  [] OTHER -> [h EXCEPT !.pc = "act"]
<1>1. /\ w \in Drivers /\ t \in Drivers /\ w.pc = "wait" /\ Found(w) # {}
      /\ Rounds(Cop, w) /\ Rounds(Thief, t) /\ Sent(Thief, t, w)
      /\ Running(Cop, w) /\ Running(Thief, t)
      /\ Story(w, t) /\ (FaultFree => Calm(w, t))
  BY EndingNow DEF Receive, Ending
<1>2. peer' = [x \in Peers |-> IF x = Cop THEN s ELSE t]
  <2> DEFINE s0 == CASE Cop = Cop /\ h.finished # None -> WrapUp(Cop, h)
                     [] Cop = Cop /\ h.finished = None /\ StopsHere(Cop, h) ->
                          [h EXCEPT !.pc = "submit", !.outcome = Survival]
                     [] Cop = Cop /\ h.finished = None /\ ~StopsHere(Cop, h) ->
                          [h EXCEPT !.pc = "act"]
                     [] Cop = Thief /\ h.caught -> [h EXCEPT !.pc = "close", !.step = @ + 1]
                     [] Cop = Thief /\ ~h.caught /\ h.finished # None -> WrapUp(Cop, h)
                     [] OTHER -> NextRound(Cop, h)
  <2>1. peer' = [peer EXCEPT ![Cop] = s0]
    BY DEF Receive, Heard
  <2>2. s0 = s
    <3> HIDE DEF h
    <3>1. QED
      OBVIOUS
  <2> HIDE DEF s0, s
  <2>3. QED
    BY <2>1, <2>2, DriversNow
<1>3. FaultFree' => FaultFree
  BY NoFaultYet DEF Receive
<1> HIDE DEF w, t, s
<1>4. HeardAs(Cop, w, m, h)
  BY <1>1, HeardFields
<1> HIDE DEF h
<1>5. Answered(t, m) /\ OfASealedStep(Thief, t, m)
  BY <1>1, <1>4 DEF Story, Claims, Sent, HeardAs
<1>6. /\ w.finished = None /\ w.walled = None /\ w.step <= MaxMoves /\ ~w.terminal
      /\ w.step \in Nat /\ Acted(w) = w.step - 1
  BY <1>1 DEF Running, Early, Rounds, InRound, Drivers
<1>7. FaultFree /\ t.caught /\ ~BoxedIn(Thief, t) /\ t.pc \in Past => Grants(w, m.response)
  <2>1. SUFFICES ASSUME FaultFree, t.caught, ~BoxedIn(Thief, t), t.pc \in Past
                 PROVE  Grants(w, m.response)
    OBVIOUS
  <2>2. Due(w, t)
    BY <1>1, <2>1 DEF Calm, Admitted, Past
  <2>3. QED
    BY <1>4, <2>2 DEF Due, HeardAs
<1> HIDE DEF m
<1>8. /\ h.finished = IF Grants(w, m.response) THEN Capture
                      ELSE IF m.win THEN Survival ELSE None
      /\ h.walled = None
  BY <1>4, <1>6 DEF HeardAs, BoxedIn, Entering
<1>9. Grants(w, m.response) => t.caught
  BY <1>5 DEF Answered, Grants
<1>10. h.finished # None => t.pc \notin InRound
  <2>1. h.finished # None => t.terminal
    BY <1>5, <1>8 DEF Answered, Grants
  <2>2. QED
    BY <1>1, <2>1 DEF Rounds
<1>11. w.step \in 1 .. Acted(t) /\ Acted(t) \in Nat /\ t.step \in Nat
  <2>1. t.sealed \in Seq(Nat) /\ t.step \in Nat
    BY <1>1 DEF Drivers
  <2>2. m.step = w.step
    BY <1>4 DEF HeardAs
  <2>3. QED
    BY <1>5, <2>1, <2>2 DEF OfASealedStep, Acted
<1>12. /\ s \in Drivers /\ SamePlay(s, h) /\ SameMail(s, h)
       /\ s.finished = h.finished /\ s.ended = h.ended /\ s.idle = h.idle
       /\ \/ h.finished # None /\ s.pc = "submit" /\ s.outcome = h.finished
          \/ /\ h.finished = None /\ w.step = SurvivalThreshold
             /\ s.pc = "submit" /\ s.outcome = Survival
          \/ /\ h.finished = None
             /\ s.pc = "act" /\ s.outcome = h.outcome /\ s.step = h.step
  <2>1. h \in Drivers /\ ~h.terminal /\ h.step = w.step
    BY <1>4, <1>6 DEF HeardAs, SamePlace
  <2> USE DEF s
  <2>2. /\ s \in Drivers /\ SamePlay(s, h) /\ SameMail(s, h)
        /\ s.finished = h.finished /\ s.ended = h.ended /\ s.idle = h.idle
        /\ \/ h.finished # None /\ s.pc = "submit" /\ s.outcome = h.finished
           \/ /\ h.finished = None /\ h.step = SurvivalThreshold
              /\ s.pc = "submit" /\ s.outcome = Survival
           \/ /\ h.finished = None
              /\ s.pc = "act" /\ s.outcome = h.outcome /\ s.step = h.step
    BY <2>1, CopGoesOn
  <2> HIDE DEF s
  <2>3. QED
    BY <2>1, <2>2
<1>13. /\ s.finished = h.finished /\ s.walled = None /\ Acted(s) = Acted(w)
       /\ s.claimed = w.claimed /\ s.last = w.last
       /\ s.audits = w.audits /\ s.agreements = w.agreements /\ Fewer(s, w)
       /\ s.ended = w.ended /\ s.idle = FALSE
  BY <1>4, <1>8, <1>12 DEF HeardAs, SamePlay, SameMail, Acted, Fewer
<1>14. Running(Cop, s)
  BY <1>4, <1>6, <1>8, <1>12, <1>13, OutcomeValues DEF Running, Early, Opening, HeardAs, SamePlace, Capture, Survival, TechnicalLoss
<1>15. Claims(s, t)
  <2>1. \A x : Claimed(w, x) => Claimed(s, x)
    BY <1>13 DEF Claimed
  <2>2. \A i \in DOMAIN s.turns : Answered(t, s.turns[i])
    BY <1>1, <1>13 DEF Story, Claims, Fewer
  <2>3. QED
    BY <1>1, <1>13, <2>1, <2>2 DEF Story, Claims
<1>16. Grounded(s, t)
  <2>1. Captured(s) => Captured(w) \/ t.caught
    BY <1>4, <1>8, <1>9, <1>12, <1>13, OutcomeValues DEF Captured, HeardAs, Capture, Survival
  <2>2. QED
    BY <1>1, <2>1 DEF Story, Grounded
<1>17. ASSUME FaultFree' PROVE Calm(s, t)
  <2>1. Smooth(w, t) /\ Smooth(t, w) /\ Admitted(w, t)
    BY <1>1, <1>3, <1>17 DEF Calm
  <2>2. s.pc \in {"submit", "act"} /\ s.outcome # TechnicalLoss
    BY <1>4, <1>8, <1>12, <2>1, OutcomeValues DEF HeardAs, Smooth, Capture, Survival, TechnicalLoss
  <2>3. Smooth(s, t) /\ Smooth(t, s)
    BY <1>1, <1>13, <2>1, <2>2 DEF Smooth, Opening
  <2>4. LeftBehind(s, t)
    <3>1. ASSUME h.finished = None, w.step = SurvivalThreshold
          PROVE  /\ t.pc \notin Opening \cup {"act"}
                 /\ t.pc = "wait" => Acted(t) >= SurvivalThreshold /\ Acted(s) < t.step
      <4>1. SurvivalThreshold \in Nat
        BY ReferenceAssumption
      <4>2. t.pc \notin Opening
        BY <1>1, <1>11 DEF Rounds
      <4>3. t.pc # "act"
        BY <1>1, <1>11, <3>1, <4>1 DEF Running
      <4>4. t.pc = "wait" => Acted(t) = t.step
        BY <1>1 DEF Rounds
      <4>5. QED
        BY <1>6, <1>11, <1>13, <3>1, <4>1, <4>2, <4>3, <4>4
    <3>2. CASE h.finished # None
      BY <1>10, <3>2 DEF LeftBehind, InRound
    <3>3. CASE h.finished = None
      BY <1>12, <3>1, <3>3 DEF LeftBehind, Past
    <3>4. QED
      BY <3>2, <3>3
  <2>5. Admitted(s, t)
    <3>1. ASSUME t.caught, ~BoxedIn(Thief, t), t.pc = "close" PROVE FALSE
      <4>1. w.step = t.step /\ Acted(t) = t.step - 1
        BY <1>1, <2>1, <3>1 DEF Admitted, Rounds
      <4>2. QED
        BY <1>11, <4>1
    <3>2. ASSUME t.caught, ~BoxedIn(Thief, t), t.pc \in Past
          PROVE  s.pc \in Past /\ s.outcome = Capture
      BY <1>3, <1>7, <1>8, <1>12, <1>17, <3>2, OutcomeValues DEF Past
    <3>3. QED
      BY <3>1, <3>2 DEF Admitted
  <2>6. QED
    BY <2>3, <2>4, <2>5 DEF Calm
<1>18. StoryBy(Cop, s, t) /\ (FaultFree' => CalmBy(Cop, s, t))
  BY <1>1, <1>14, <1>15, <1>16, <1>17 DEF StoryBy, CalmBy, Story
<1>19. QED
  BY <1>2, <1>18, EndingOfTwo

-----------------------------------------------------------------------------
LEMMA InitEnding == Init => Ending
<1> SUFFICES ASSUME Init PROVE Ending
  OBVIOUS
<1> USE PeersAreTwo
<1>1. ASSUME NEW p \in Peers
      PROVE  /\ peer[p].pc = "push" /\ peer[p].step = 1 /\ peer[p].sealed = <<>>
             /\ peer[p].turns = <<>> /\ peer[p].audits = <<>> /\ peer[p].last = None
             /\ ~peer[p].caught /\ ~peer[p].idle /\ peer[p].owed = None
             /\ peer[p].finished = None /\ peer[p].ended = None /\ peer[p].outcome = None
             /\ peer[p].claimed = None /\ peer[p].walled = None
  BY DEF Init, NewDriver
<1>2. 1 <= MaxMoves
  BY ReferenceAssumption
<1>3. \A p \in Peers : Running(p, peer[p])
  BY <1>1, <1>2, OutcomeValues DEF Running, Past
<1>4. Claims(peer[Cop], peer[Thief])
  BY <1>1 DEF Claims, Concedes
<1>5. \A p \in Peers : ~Captured(peer[p])
  BY <1>1, OutcomeValues DEF Captured
<1>6. Calm(peer[Cop], peer[Thief])
  <2>1. \A p \in Peers : Smooth(peer[p], peer[Other(p)])
    BY <1>1, OutcomeValues DEF Smooth
  <2>2. QED
    BY <1>1, <2>1 DEF Calm, LeftBehind, Admitted, Past
<1>7. QED
  BY <1>3, <1>4, <1>5, <1>6 DEF Ending, Story, Grounded

LEMMA NextEnding == Inv /\ Ending /\ [Next]_vars => Ending'
<1> SUFFICES ASSUME Inv, Ending, [Next]_vars PROVE Ending'
  OBVIOUS
<1>1. CASE UNCHANGED vars
  BY <1>1 DEF vars, Ending, FaultFree
<1>2. ASSUME NEW p \in Peers, Drive(p)
      PROVE  Ending'
  <2>1. CASE PushAgreement(p)
    BY <2>1, PushAgreementEnds
  <2>2. CASE TakeAgreement(p)
    BY <2>2, TakeAgreementEnds
  <2>3. CASE NoAgreement(p)
    BY <2>3, NoAgreementEnds
  <2>4. CASE Act(p)
    BY <2>4, CopActs, ThiefActs, PeersAreTwo
  <2>5. CASE Receive(p)
    BY <2>5, CopReceives, ThiefReceives, PeersAreTwo
  <2>6. CASE AuditInstead(p)
    BY <2>6, AuditInsteadEnds
  <2>7. CASE Deadline(p)
    BY <2>7, DeadlineEnds
  <2>8. CASE WatchdogTrips(p)
    BY <2>8, WatchdogEnds
  <2>9. CASE Close(p)
    BY <2>9, CloseEnds
  <2>10. CASE ReadTerminal(p)
    BY <2>10, ReadTerminalEnds
  <2>11. CASE NoTerminal(p)
    BY <2>11, NoTerminalEnds
  <2>12. CASE SubmitAudit(p)
    BY <2>12, SubmitAuditEnds
  <2>13. CASE TakeAudit(p) \/ NoAudit(p)
    BY <2>13, AuditsEnd
  <2>14. QED
    BY <1>2, <2>1, <2>2, <2>3, <2>4, <2>5, <2>6, <2>7, <2>8, <2>9, <2>10, <2>11, <2>12, <2>13
       DEF Drive
<1>3. QED
  BY <1>1, <1>2, CopiedEnds DEF Next

LEMMA EndingInvariance == Spec => [](Inv /\ Ending)
<1>1. QED
  BY InitInv, NextInv, InitEnding, NextEnding, PTL DEF Spec

\* While every call goes through and no deadline runs out on a peer that would have
\* answered, neither side files a technical loss: the one silence that is in order, of
\* a cop that stops at the ceiling, the thief takes for what it is (play_round).
THEOREM NobodyStalls == Spec => []NoTechnicalLoss
<1>1. Ending => NoTechnicalLoss
  BY PeersAreTwo DEF Ending, Calm, Smooth, NoTechnicalLoss
<1>2. QED
  BY <1>1, EndingInvariance, PTL

\* Then both file the same ending, and a thief caught on a claim has conceded it to a
\* cop that files the capture too, the claim of the last round included (wrap_up).
THEOREM OneEnding == Spec => []OutcomesAgree
<1>1. Inv /\ Ending => OutcomesAgree
  <2> USE PeersAreTwo
  <2> DEFINE c == peer[Cop]
             t == peer[Thief]
  <2>1. SUFFICES ASSUME Inv, Ending, FaultFree, BothEnded, ~BoxedIn(Thief, t)
                 PROVE  c.outcome = t.outcome /\ (t.caught => c.outcome = Capture)
    BY DEF OutcomesAgree
  <2>2. /\ Story(c, t) /\ Calm(c, t) /\ c.pc = "done" /\ t.pc = "done"
        /\ c.outcome \in Outcomes /\ t.outcome \in Outcomes
    BY <2>1 DEF Ending, BothEnded, Inv, TypeOK
  <2> HIDE DEF c, t
  <2>3. c.outcome \in {Capture, Survival} /\ t.outcome \in {Capture, Survival}
    BY <2>2 DEF Calm, Smooth, Outcomes
  <2>4. CASE t.caught
    BY <2>1, <2>2, <2>4 DEF Story, Running, Past, Calm, Admitted, Due
  <2>5. CASE ~t.caught
    BY <2>2, <2>3, <2>5 DEF Story, Grounded, Captured
  <2>6. QED
    BY <2>4, <2>5
<1>2. QED
  BY <1>1, EndingInvariance, PTL

=============================================================================
