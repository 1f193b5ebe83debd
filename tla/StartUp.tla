------------------------------ MODULE StartUp ------------------------------
(***************************************************************************)
(* From two commands typed by two teams to the first step of a sub-game    *)
(* (runtime/peer_host.py).  Each process serves and plays: it knocks until *)
(* the other server is up, judges its greeting, declares its role at step  *)
(* 0 and pushes its first commitment, while its own handlers answer the    *)
(* other process doing the same.  A call is one step, of the caller and of *)
(* the handler that serves it; it may also fail before or after it was     *)
(* served, or be served when the caller has given it up.                   *)
(***************************************************************************)
EXTENDS Roles

CONSTANTS
    Peers,      \* the two processes
    Configs,    \* for each, the configurations its operator may start it with
    SubGames,   \* the signed num_sub_games
    MaxFaults,  \* bound: calls that fail and clocks that run out while the
                \* other process goes on
    None

ASSUME StartUpAssumption ==
    /\ \E p, q \in Peers : p # q /\ Peers = {p, q}
    /\ DOMAIN Configs = Peers
    /\ \A p \in Peers : \A c \in Configs[p] :
            c.group \in Nat /\ c.typed \in Roles \cup {None}
    /\ SubGames \in Nat \ {0}
    /\ MaxFaults \in Nat

Other(p) == CHOOSE q \in Peers : q # p

VARIABLES
    conf,       \* how each process was started
    pc,         \* where each is
    clash,      \* session.role_clash, not empty
    held,       \* the other's first commitment is in the session
    applied,    \* the other's first reveal is in the session
    told,       \* handlers.aborted_reason, not empty
    heard,      \* those whose declaration was served before they went on
    late,       \* calls given up that may still be served
    faults

session == <<clash, held, applied, told>>
vars == <<conf, pc, session, heard, late, faults>>

Gone == {"absent", "raised", "lost"}
Waiting == {"awaitCommit", "awaitReveal"}
\* its server task runs
Up(p) == pc[p] \notin {"off"} \cup Gone

(***************************************************************************)
(* A role is derived from the group ids, the sub-game and the convention,  *)
(* unless the operator typed one and named no opponent.                    *)
(***************************************************************************)
Role(p) ==
    IF conf[p].typed # None THEN conf[p].typed
    ELSE RoleFor(conf[p].group, conf[Other(p)].group, conf[p].number, SubGames,
                 conf[p].convention)

\* step0_role_check of the declaration of p by q, under the number p declares
StepZeroClash(q, p) ==
    \/ Role(p) = Role(q)
    \/ /\ conf[p].group # conf[q].group
       /\ RoleClash(Role(q), Role(p), conf[q].group, conf[p].group,
                    conf[p].number, SubGames, conf[q].convention)

\* mutant: silence refuses
DifferOrSilent(ours, theirs) ==
    DOMAIN ours # DOMAIN theirs \/ ours # theirs

\* lock_refuses: both declare it, and differ
Differ(ours, theirs) ==
    \E f \in DOMAIN ours \cap DOMAIN theirs : ours[f] # theirs[f]

\* a greeting says who sends it, on its own or under identity
Named(q) == conf[q].named

\* the terms and fingerprints it states
Declared(q) == conf[q].declares

\* the floor: nobody to compare with, or nothing to compare
BelowTheFloor(q) == ~Named(q) \/ Declared(q) = <<>>

\* NegotiationService.compare
Refuses(p, q) ==
    \/ BelowTheFloor(q)
    \/ Differ(Declared(p), Declared(q))
    \/ conf[p].group = conf[q].group

\* select_driver: they publish receive_turn and not commit_step
SpeaksReference(q) == conf[q].wire = "reference"

Init ==
    /\ conf \in {c \in [Peers -> UNION {Configs[p] : p \in Peers}] :
                    \A p \in Peers : c[p] \in Configs[p]}
    /\ pc = [p \in Peers |-> "off"]
    /\ clash = [p \in Peers |-> FALSE]
    /\ held = [p \in Peers |-> FALSE]
    /\ applied = [p \in Peers |-> FALSE]
    /\ told = [p \in Peers |-> FALSE]
    /\ heard = {}
    /\ late = {}
    /\ faults = 0

-----------------------------------------------------------------------------
(***************************************************************************)
(* What the handlers of q do with a call of p.                             *)
(***************************************************************************)
\* mutant: a refused step 0 refuses that one call
AdmitsAnyway(q, p) == conf[p].number = conf[q].number

\* _check_game: no clash outstanding, and the sub-game we are on
Admits(q, p) == ~clash[q] /\ conf[p].number = conf[q].number

ServeDeclaration(q, p) ==
    /\ clash' = [clash EXCEPT ![q] = StepZeroClash(q, p)]
    /\ UNCHANGED <<held, applied, told>>

ServeCommit(q, p) ==
    /\ held' = [held EXCEPT ![q] = @ \/ Admits(q, p)]
    /\ UNCHANGED <<clash, applied, told>>

\* on_reveal wants the commitment first
ServeReveal(q, p) ==
    /\ applied' = [applied EXCEPT ![q] = @ \/ (Admits(q, p) /\ held[q])]
    /\ UNCHANGED <<clash, held, told>>

ServeAbort(q) ==
    /\ told' = [told EXCEPT ![q] = TRUE]
    /\ UNCHANGED <<clash, held, applied>>

Serve(kind, q, p) ==
    CASE kind = "declare" -> ServeDeclaration(q, p)
      [] kind = "commit"  -> ServeCommit(q, p)
      [] kind = "reveal"  -> ServeReveal(q, p)
      [] kind = "abort"   -> ServeAbort(q)

(***************************************************************************)
(* How a call fails.  Nobody serves it; or it is lost, delayed, or its     *)
(* answer is lost.                                                         *)
(***************************************************************************)
Fault == faults < MaxFaults /\ faults' = faults + 1

Unserved(p) ==
    /\ IF Up(Other(p)) THEN Fault ELSE UNCHANGED faults
    /\ UNCHANGED <<session, late>>

Delayed(kind, p) ==
    /\ Up(Other(p)) /\ Fault
    /\ late' = late \cup {<<kind, p>>}
    /\ UNCHANGED session

Unanswered(kind, p) ==
    /\ Up(Other(p)) /\ Fault
    /\ Serve(kind, Other(p), p)
    /\ UNCHANGED late

CallFails(kind, p) == Unserved(p) \/ Delayed(kind, p) \/ Unanswered(kind, p)

CallServed(kind, p) ==
    /\ Up(Other(p))
    /\ Serve(kind, Other(p), p)
    /\ UNCHANGED <<late, faults>>

LateCall(kind, p) ==
    /\ <<kind, p>> \in late
    /\ late' = late \ {<<kind, p>>}
    /\ Up(Other(p))
    /\ Serve(kind, Other(p), p)
    /\ UNCHANGED <<conf, pc, heard, faults>>

Goes(p, from, to) == pc[p] = from /\ pc' = [pc EXCEPT ![p] = to]

-----------------------------------------------------------------------------
(***************************************************************************)
(* host_and_play.  A peer on the reference wire is another program: it is  *)
(* up, and what it does is the subject of ReferenceWire.                   *)
(***************************************************************************)
Start(p) ==
    /\ Goes(p, "off", "knocking")
    /\ UNCHANGED <<conf, session, heard, late, faults>>

Runs(p) == ~SpeaksReference(p)

\* _await_opponent: tools/list is answered
Knock(p) ==
    /\ Runs(p)
    /\ Up(Other(p))
    /\ Goes(p, "knocking",
            IF conf[Other(p)].hello = "none" THEN "opening" ELSE "greeting")
    /\ UNCHANGED <<conf, session, heard, late, faults>>

\* mutant: a peer that has been up is waited for
GiveUpOnNoShow(p) ==
    /\ Runs(p)
    /\ pc[Other(p)] = "off"
    /\ Goes(p, "knocking", "absent")
    /\ UNCHANGED <<conf, session, heard, late, faults>>

\* ... or not before the deadline, which is raised to the operator
GiveUp(p) ==
    /\ Runs(p)
    /\ ~Up(Other(p))
    /\ Goes(p, "knocking", "absent")
    /\ UNCHANGED <<conf, session, heard, late, faults>>

\* mutant: greeted, whatever they declare
JudgeNothing(p, q) == "opening"

\* on_handshake, unless the answer carries no handshake
Judge(p, q) ==
    IF conf[q].hello = "nested" /\ Refuses(p, q) THEN "aborting" ELSE "opening"

Greet(p) ==
    /\ \/ /\ Up(Other(p))
          /\ Goes(p, "greeting", Judge(p, Other(p)))
          /\ UNCHANGED <<session, late, faults>>
       \/ Goes(p, "greeting", "raised") /\ Unserved(p)
    /\ UNCHANGED <<conf, heard>>

\* client.open, and the dialect
Open(p) ==
    /\ \/ /\ Up(Other(p))
          /\ Goes(p, "opening", IF SpeaksReference(Other(p))
                                THEN "reference" ELSE "declaring")
          /\ UNCHANGED <<session, late, faults>>
       \/ Goes(p, "opening", "raised") /\ Unserved(p)
    /\ UNCHANGED <<conf, heard>>

(***************************************************************************)
(* declare_step0: refused is the end of it, but whatever goes wrong with   *)
(* the call itself is taken for a tool they do not have.                   *)
(***************************************************************************)
Declare(p) ==
    /\ conf[Other(p)].step0
    /\ Goes(p, "declaring", IF StepZeroClash(Other(p), p)
                            THEN "aborting" ELSE "committing")
    /\ CallServed("declare", p)
    /\ heard' = heard \cup {p}
    /\ UNCHANGED conf

DeclareUnanswered(p) ==
    /\ Goes(p, "declaring", "committing")
    /\ \/ /\ conf[Other(p)].step0
          /\ Unanswered("declare", p)
          /\ heard' = heard \cup {p}
       \/ /\ conf[Other(p)].step0
          /\ Unserved(p) \/ Delayed("declare", p)
          /\ UNCHANGED heard
       \/ /\ ~conf[Other(p)].step0
          /\ UNCHANGED <<session, heard, late, faults>>
    /\ UNCHANGED conf

-----------------------------------------------------------------------------
(***************************************************************************)
(* The first step of run_sub_game.  The answers to a push are not read:    *)
(* a peer that is refused waits like one that is not.                      *)
(***************************************************************************)
Push(kind, p, from, to) ==
    /\ \/ Goes(p, from, to) /\ CallServed(kind, p)
       \/ Goes(p, from, "aborting") /\ CallFails(kind, p)
    /\ UNCHANGED <<conf, heard>>

Commit(p) == Push("commit", p, "committing", "awaitCommit")
Reveal(p) == Push("reveal", p, "revealing", "awaitReveal")

HasCommit(p) == held[p]

AwaitCommit(p) ==
    /\ HasCommit(p)
    /\ Goes(p, "awaitCommit", "revealing")
    /\ UNCHANGED <<conf, session, heard, late, faults>>

\* from here on the sub-game is the subject of PeerProtocol
AwaitReveal(p) ==
    /\ applied[p]
    /\ Goes(p, "awaitReveal", "playing")
    /\ UNCHANGED <<conf, session, heard, late, faults>>

\* what p waits for has come, or is still to be pushed
Coming(p) ==
    LET q == Other(p)
        pushing == Up(q) /\ pc[q] \notin {"aborting", "awaitReveal", "playing"}
    IN  \/ /\ pc[p] = "awaitCommit"
           /\ held[p] \/ (pushing /\ pc[q] \notin {"awaitCommit", "revealing"})
        \/ /\ pc[p] = "awaitReveal"
           /\ applied[p] \/ (pushing /\ held[q])

\* the turn deadline
Deadline(p) ==
    /\ pc[p] \in Waiting
    /\ pc' = [pc EXCEPT ![p] = "aborting"]
    /\ IF Coming(p) THEN Fault ELSE UNCHANGED faults
    /\ UNCHANGED <<conf, session, heard, late>>

\* abort: best effort, and the server goes down
Abort(p) ==
    /\ Goes(p, "aborting", "lost")
    /\ CallServed("abort", p) \/ CallFails("abort", p)
    /\ UNCHANGED <<conf, heard>>

Client(p) ==
    \/ Knock(p) \/ GiveUp(p) \/ Greet(p) \/ Open(p) \/ Declare(p)
    \/ DeclareUnanswered(p) \/ Commit(p) \/ Reveal(p) \/ AwaitCommit(p)
    \/ AwaitReveal(p) \/ Deadline(p) \/ Abort(p)

Next ==
    \E p \in Peers :
        \/ Start(p) \/ Client(p)
        \/ \E kind \in {"declare", "commit", "reveal", "abort"} :
                LateCall(kind, p)

Spec == Init /\ [][Next]_vars
\* a started process runs, and its clocks do
FairSpec == Spec /\ \A p \in Peers : WF_vars(Client(p))
=============================================================================
