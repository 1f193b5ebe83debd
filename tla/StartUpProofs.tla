--------------------------- MODULE StartUpProofs ---------------------------
(***************************************************************************)
(* Proofs about start-up, for any two configurations and any number of     *)
(* lost, late and unanswered calls: two peers of one role never play, and  *)
(* two that answer hello play only if they declare the same.               *)
(***************************************************************************)
EXTENDS StartUpProperties, TLAPS

-----------------------------------------------------------------------------
(* Roles. *)

\* Whoever names the other first, one of them is the cop and the other the thief.
LEMMA RolesAreComplementary ==
    ASSUME NEW a \in Nat, NEW b \in Nat, a # b, NEW n, NEW games, NEW convention
    PROVE  /\ RoleFor(a, b, n, games, convention) \in Roles
           /\ RoleFor(a, b, n, games, convention) # RoleFor(b, a, n, games, convention)
<1>1. FirstOf(a, b) = FirstOf(b, a) /\ SecondOf(a, b) = SecondOf(b, a)
  BY DEF FirstOf, SecondOf
<1>2. FirstOf(a, b) \in {a, b} /\ SecondOf(a, b) \in {a, b} /\ FirstOf(a, b) # SecondOf(a, b)
  BY DEF FirstOf, SecondOf
<1>3. CopGroup(a, b, n, games, convention) = CopGroup(b, a, n, games, convention)
  BY <1>1 DEF CopGroup
<1>4. CopGroup(a, b, n, games, convention) \in {a, b}
  BY <1>2 DEF CopGroup
<1> QED BY <1>3, <1>4 DEF RoleFor, Roles

LEMMA OtherIsAPeer ==
    ASSUME NEW p \in Peers
    PROVE  /\ Other(p) \in Peers /\ Other(p) # p /\ Other(Other(p)) = p
           /\ \A x \in Peers : x = p \/ x = Other(p)
<1>1. PICK a \in Peers, b \in Peers : a # b /\ Peers = {a, b}
  BY StartUpAssumption
<1>2. \E x \in Peers : x # p
  BY <1>1
<1>3. Other(p) \in Peers /\ Other(p) # p
  BY <1>2 DEF Other
<1>4. \E x \in Peers : x # Other(p)
  BY <1>3
<1>5. Other(Other(p)) \in Peers /\ Other(Other(p)) # Other(p)
  BY <1>4 DEF Other
<1> HIDE DEF Other
<1> QED BY <1>1, <1>3, <1>5

-----------------------------------------------------------------------------
(***************************************************************************)
(* The invariant.  For each caller p and its callee q: once p's            *)
(* declaration was served in time, q's clash is the verdict on it, and q   *)
(* holds a commitment of p only if the verdict was good.  That q holds     *)
(* none earlier, and that q's reveal can only be answered by a peer that   *)
(* holds p's commitment, is what makes the two facts inductive.  Likewise  *)
(* p goes on from its greeting, and so has a commitment to push, only if   *)
(* it found nothing to refuse in an answer of q that could be judged.      *)
(***************************************************************************)
Kinds  == {"declare", "commit", "reveal", "abort"}
Before == {"off", "knocking", "greeting", "opening", "declaring"}
Past   == {"revealing", "awaitReveal", "playing"}
Through == {"opening", "declaring", "committing", "awaitCommit"} \cup Past
Places == Before \cup Past \cup {"committing", "awaitCommit", "aborting", "reference"}
            \cup Gone

Typed ==
    /\ \A p \in Peers : conf[p].group \in Nat /\ conf[p].typed \in Roles \cup {None}
    /\ pc \in [Peers -> Places]
    /\ heard \subseteq Peers
    /\ clash \in [Peers -> BOOLEAN]
    /\ held \in [Peers -> BOOLEAN]
    /\ applied \in [Peers -> BOOLEAN]

Judged(p, q) == p \in heard => clash[q] = StepZeroClash(q, p)

Bound(p, q) ==
    /\ p \in heard /\ held[q] => ~StepZeroClash(q, p)
    /\ held[q] => conf[p].number = conf[q].number
    /\ pc[p] \in Before => ~held[q] /\ <<"commit", p>> \notin late

Opened(p, q) ==
    /\ (pc[p] \in Past \/ <<"reveal", p>> \in late \/ applied[q]) => held[p]
    /\ applied[q] => held[q]

Met(p, q) ==
    conf[q].hello = "nested" /\ Refuses(p, q) =>
        pc[p] \notin Through /\ <<"commit", p>> \notin late /\ ~held[q]

Inv ==
    /\ Typed
    /\ \A p \in Peers : /\ Judged(p, Other(p)) /\ Bound(p, Other(p))
                         /\ Opened(p, Other(p)) /\ Met(p, Other(p))

LEMMA InitInv == Init => Inv
<1> SUFFICES ASSUME Init PROVE Inv
  OBVIOUS
<1>1. ASSUME NEW p \in Peers PROVE conf[p].group \in Nat /\ conf[p].typed \in Roles \cup {None}
  BY StartUpAssumption DEF Init
<1>2. /\ pc \in [Peers -> Places] /\ heard \subseteq Peers
      /\ clash \in [Peers -> BOOLEAN] /\ held \in [Peers -> BOOLEAN]
      /\ applied \in [Peers -> BOOLEAN]
  BY DEF Init, Places, Before
<1>3. ASSUME NEW p \in Peers
      PROVE  /\ Judged(p, Other(p)) /\ Bound(p, Other(p)) /\ Opened(p, Other(p))
             /\ Met(p, Other(p))
  BY OtherIsAPeer DEF Init, Judged, Bound, Opened, Met, Through, Past
<1> QED BY <1>1, <1>2, <1>3 DEF Inv, Typed

-----------------------------------------------------------------------------
(* Steps. *)

\* Both verdicts are a matter of the two configurations.
LEMMA ConfStays ==
    ASSUME UNCHANGED conf, NEW p, NEW q
    PROVE  /\ StepZeroClash(q, p)' = StepZeroClash(q, p)
           /\ Refuses(q, p)' = Refuses(q, p)
<1>1. StepZeroClash(q, p)' = StepZeroClash(q, p)
  BY DEF StepZeroClash, Role
<1>2. Refuses(q, p)' = Refuses(q, p)
  BY DEF Refuses, BelowTheFloor, Named, Declared
<1> QED BY <1>1, <1>2

\* What a call of p does to the two sessions.
LEMMA ServeEffect ==
    ASSUME Inv, NEW p \in Peers, NEW q \in Peers, q # p, NEW kind \in Kinds,
           UNCHANGED conf,
           UNCHANGED session \/ Serve(kind, q, p)
    PROVE  /\ clash' \in [Peers -> BOOLEAN]
           /\ held' \in [Peers -> BOOLEAN]
           /\ applied' \in [Peers -> BOOLEAN]
           /\ clash'[p] = clash[p] /\ held'[p] = held[p] /\ applied'[p] = applied[p]
           /\ clash'[q] = clash[q] \/ (kind = "declare" /\ clash'[q] = StepZeroClash(q, p))
           /\ held[q] => held'[q]
           /\ held'[q] => held[q] \/ (kind = "commit" /\ Admits(q, p))
           /\ applied'[q] => applied[q] \/ (kind = "reveal" /\ held[q])
<1>1. /\ clash \in [Peers -> BOOLEAN] /\ held \in [Peers -> BOOLEAN]
      /\ applied \in [Peers -> BOOLEAN]
  BY DEF Inv, Typed
<1>2. StepZeroClash(q, p) \in BOOLEAN /\ Admits(q, p) \in BOOLEAN
  BY DEF StepZeroClash, Admits
<1>3. CASE UNCHANGED session
  BY <1>1, <1>3 DEF session
<1>4. CASE Serve(kind, q, p) /\ kind = "declare"
  <2>1. ServeDeclaration(q, p)
    BY <1>4 DEF Serve
  <2> QED BY <2>1, <1>1, <1>2, <1>4 DEF ServeDeclaration
<1>5. CASE Serve(kind, q, p) /\ kind = "commit"
  <2>1. ServeCommit(q, p)
    BY <1>5 DEF Serve
  <2> QED BY <2>1, <1>1, <1>2, <1>5 DEF ServeCommit
<1>6. CASE Serve(kind, q, p) /\ kind = "reveal"
  <2>1. ServeReveal(q, p)
    BY <1>6 DEF Serve
  <2> QED BY <2>1, <1>1, <1>2, <1>6 DEF ServeReveal
<1>7. CASE Serve(kind, q, p) /\ kind = "abort"
  <2>1. ServeAbort(q)
    BY <1>7 DEF Serve
  <2> QED BY <2>1, <1>1 DEF ServeAbort
<1> QED BY <1>3, <1>4, <1>5, <1>6, <1>7 DEF Kinds

\* Nobody passes its greeting with something to refuse.
Passes(p, x) ==
    x \in Through =>
        pc[p] \in Through \/ ~(conf[Other(p)].hello = "nested" /\ Refuses(p, Other(p)))

\* A step of p, or a late call of p: it may move p on, leave a call behind, change
\* the session of the other by the call it makes, and be heard.
Steps(p, kind, x) ==
    /\ UNCHANGED conf
    /\ x \in Places
    /\ pc' = [pc EXCEPT ![p] = x]
    /\ x \in Before => pc[p] \in Before
    /\ x \in Past => held[p]
    /\ Passes(p, x)
    /\ kind = "commit" => pc[p] \in Through \/ <<kind, p>> \in late
    /\ kind = "commit" =>
            x \notin Before /\ (pc[p] \notin Before \/ <<kind, p>> \in late)
    /\ kind = "reveal" => held[p]
    /\ late' \subseteq late \cup {<<kind, p>>}
    /\ UNCHANGED session \/ Serve(kind, Other(p), p)
    /\ \/ UNCHANGED heard
       \/ /\ heard' = heard \cup {p}
          /\ kind = "declare" /\ pc[p] = "declaring"
          /\ Serve(kind, Other(p), p)

LEMMA StepsKeepInv ==
    ASSUME Inv, NEW p \in Peers, NEW kind \in Kinds, NEW x, Steps(p, kind, x)
    PROVE  Inv'
<1> DEFINE q == Other(p)
<1>1. q \in Peers /\ q # p /\ Other(q) = p /\ \A y \in Peers : y = p \/ y = q
  BY OtherIsAPeer
<1>a. Serve(kind, Other(p), p) = Serve(kind, q, p)
  OBVIOUS
<1>b. Other(p) = q
  OBVIOUS
<1> HIDE DEF q
<1>2. /\ StepZeroClash(q, p)' = StepZeroClash(q, p)
      /\ StepZeroClash(p, q)' = StepZeroClash(p, q)
      /\ Refuses(q, p)' = Refuses(q, p) /\ Refuses(p, q)' = Refuses(p, q)
  BY ConfStays DEF Steps
<1>3. pc'[q] = pc[q] /\ pc'[p] = x /\ pc' \in [Peers -> Places]
  BY <1>1 DEF Inv, Typed, Steps
<1>4. /\ <<"commit", q>> \in late' => <<"commit", q>> \in late
      /\ <<"reveal", q>> \in late' => <<"reveal", q>> \in late
      /\ <<"commit", p>> \in late' => <<"commit", p>> \in late \/ kind = "commit"
      /\ <<"reveal", p>> \in late' => <<"reveal", p>> \in late \/ kind = "reveal"
  BY <1>1 DEF Steps
<1>5. /\ clash' \in [Peers -> BOOLEAN]
      /\ held' \in [Peers -> BOOLEAN]
      /\ applied' \in [Peers -> BOOLEAN]
      /\ clash'[p] = clash[p] /\ held'[p] = held[p] /\ applied'[p] = applied[p]
      /\ clash'[q] = clash[q] \/ (kind = "declare" /\ clash'[q] = StepZeroClash(q, p))
      /\ held[q] => held'[q]
      /\ held'[q] => held[q] \/ (kind = "commit" /\ Admits(q, p))
      /\ applied'[q] => applied[q] \/ (kind = "reveal" /\ held[q])
  BY <1>a, <1>1, ServeEffect DEF Steps
<1>6. Typed'
  BY <1>3, <1>5 DEF Typed, Inv, Steps
<1>7. /\ Judged(p, q) /\ Bound(p, q) /\ Opened(p, q) /\ Met(p, q)
      /\ Judged(q, p) /\ Bound(q, p) /\ Opened(q, p) /\ Met(q, p)
  BY <1>1, <1>b DEF Inv
<1>8. /\ q \in heard' => q \in heard
      /\ p \in heard' => p \in heard \/ (kind = "declare" /\ pc[p] = "declaring"
                                          /\ Serve(kind, q, p))
  BY <1>a, <1>1 DEF Steps
<1>9. conf'[p].number = conf[p].number /\ conf'[q].number = conf[q].number
  BY DEF Steps
<1>10. Judged(p, q)'
  <2>1. CASE p \in heard
    BY <2>1, <1>2, <1>5, <1>7 DEF Judged
  <2>2. CASE kind = "declare" /\ Serve(kind, q, p)
    <3>1. ServeDeclaration(q, p)
      BY <2>2 DEF Serve
    <3>2. clash'[q] = StepZeroClash(q, p)
      BY <3>1, <1>1 DEF ServeDeclaration, Inv, Typed
    <3> QED BY <3>2, <1>2 DEF Judged
  <2> QED BY <2>1, <2>2, <1>8 DEF Judged
<1>11. Judged(q, p)'
  BY <1>2, <1>5, <1>7, <1>8 DEF Judged
<1>12. Bound(q, p)'
  BY <1>2, <1>3, <1>4, <1>5, <1>7, <1>8, <1>9 DEF Bound
<1>13. Bound(p, q)'
  <2>1. p \in heard' /\ held'[q] => ~StepZeroClash(q, p)
    BY <1>5, <1>7, <1>8 DEF Bound, Judged, Admits, Before
  <2>2. held'[q] => conf[p].number = conf[q].number
    BY <1>5, <1>7 DEF Bound, Admits
  <2>3. x \in Before => ~held'[q] /\ <<"commit", p>> \notin late'
    BY <1>4, <1>5, <1>7 DEF Bound, Steps
  <2> QED BY <2>1, <2>2, <2>3, <1>2, <1>3, <1>9 DEF Bound
<1>14. Opened(p, q)'
  BY <1>3, <1>4, <1>5, <1>7 DEF Opened, Steps
<1>15. Opened(q, p)'
  BY <1>3, <1>4, <1>5, <1>7 DEF Opened
<1>16. conf'[p].hello = conf[p].hello /\ conf'[q].hello = conf[q].hello
  BY DEF Steps
<1>17. Met(p, q)'
  <2> SUFFICES ASSUME conf[q].hello = "nested" /\ Refuses(p, q)
               PROVE  x \notin Through /\ <<"commit", p>> \notin late' /\ ~held'[q]
    BY <1>2, <1>3, <1>16 DEF Met
  <2>1. pc[p] \notin Through /\ <<"commit", p>> \notin late /\ ~held[q]
    BY <1>7 DEF Met
  <2>2. x \notin Through /\ kind # "commit"
    BY <1>b, <2>1 DEF Steps, Passes
  <2> QED BY <1>4, <1>5, <2>1, <2>2
<1>18. Met(q, p)'
  BY <1>2, <1>3, <1>4, <1>5, <1>7, <1>16 DEF Met
<1> QED
  <2> SUFFICES ASSUME NEW y \in Peers
               PROVE  (/\ Judged(y, Other(y)) /\ Bound(y, Other(y))
                       /\ Opened(y, Other(y)) /\ Met(y, Other(y)))'
    BY <1>6 DEF Inv
  <2>1. CASE y = p
    BY <2>1, <1>b, <1>10, <1>13, <1>14, <1>17
  <2>2. CASE y = q
    BY <2>2, <1>1, <1>11, <1>12, <1>15, <1>18
  <2> QED BY <2>1, <2>2, <1>1

\* A call that fails is lost, delayed, or served all the same.
LEMMA FailedCall ==
    ASSUME NEW p \in Peers, NEW kind \in Kinds, CallServed(kind, p) \/ CallFails(kind, p)
    PROVE  /\ late' \subseteq late \cup {<<kind, p>>}
           /\ UNCHANGED session \/ Serve(kind, Other(p), p)
BY DEF CallServed, CallFails, Unserved, Delayed, Unanswered

LEMMA PushSteps ==
    ASSUME Inv, NEW p \in Peers, NEW kind \in {"commit", "reveal"}, NEW from, NEW to,
           Push(kind, p, from, to),
           kind = "commit" => from = "committing" /\ to = "awaitCommit",
           kind = "reveal" => from = "revealing" /\ to = "awaitReveal"
    PROVE  Steps(p, kind, to) \/ Steps(p, kind, "aborting")
<1>1. /\ late' \subseteq late \cup {<<kind, p>>}
      /\ UNCHANGED session \/ Serve(kind, Other(p), p)
  BY FailedCall DEF Push, Kinds
<1>2. pc[p] = from /\ UNCHANGED <<conf, heard>>
  BY DEF Push, Goes
<1>3. pc' = [pc EXCEPT ![p] = to] \/ pc' = [pc EXCEPT ![p] = "aborting"]
  BY DEF Push, Goes
<1>4. kind = "reveal" => held[p]
  BY <1>2 DEF Inv, Opened, Past
<1> QED BY <1>1, <1>2, <1>3, <1>4 DEF Steps, Passes, Through, Places, Before, Past

\* Every step of a process, and every late call of it, is such a step.
LEMMA ClientKeepsInv ==
    ASSUME Inv, NEW p \in Peers, Start(p) \/ Client(p)
    PROVE  Inv'
<1> USE DEF Kinds, Gone
<1>1. Opened(p, Other(p)) /\ Opened(Other(p), p) /\ Other(p) \in Peers
  BY OtherIsAPeer DEF Inv
<1>2. CASE Start(p)
  <2> QED BY <1>2, StepsKeepInv DEF Start, Goes, Steps, Passes, Through, Places, Before, Past
<1>3. CASE Knock(p)
  <2>1. Steps(p, "abort", "opening") \/ Steps(p, "abort", "greeting")
    BY <1>3 DEF Knock, Goes, Steps, Passes, Through, Places, Before, Past
  <2> QED BY <2>1, StepsKeepInv
<1>4. CASE GiveUp(p)
  <2>1. Steps(p, "abort", "absent")
    BY <1>4 DEF GiveUp, Goes, Steps, Passes, Through, Places, Before, Past
  <2> QED BY <2>1, StepsKeepInv
<1>5. CASE Greet(p)
  <2>1. /\ Judge(p, Other(p)) \in {"aborting", "opening"}
        /\ conf[Other(p)].hello = "nested" /\ Refuses(p, Other(p)) =>
               Judge(p, Other(p)) = "aborting"
    BY DEF Judge
  <2>2. Steps(p, "abort", "aborting") \/ Steps(p, "abort", "opening")
            \/ Steps(p, "abort", "raised")
    BY <1>5, <2>1 DEF Greet, Goes, Unserved, Steps, Passes, Through, Places, Before, Past
  <2> QED BY <2>2, StepsKeepInv
<1>6. CASE Open(p)
  <2>1. Steps(p, "abort", "reference") \/ Steps(p, "abort", "declaring")
            \/ Steps(p, "abort", "raised")
    BY <1>6 DEF Open, Goes, Unserved, Steps, Passes, Through, Places, Before, Past
  <2> QED BY <2>1, StepsKeepInv
<1>7. CASE Declare(p)
  <2>1. Serve("declare", Other(p), p) /\ UNCHANGED late
    BY <1>7 DEF Declare, CallServed
  <2>2. \/ pc' = [pc EXCEPT ![p] = "aborting"]
        \/ pc' = [pc EXCEPT ![p] = "committing"]
    BY <1>7 DEF Declare, Goes
  <2>3. UNCHANGED conf /\ heard' = heard \cup {p} /\ pc[p] = "declaring"
    BY <1>7 DEF Declare, Goes
  <2>4. Steps(p, "declare", "aborting") \/ Steps(p, "declare", "committing")
    BY <2>1, <2>2, <2>3 DEF Steps, Passes, Through, Places, Before, Past
  <2> QED BY <2>4, StepsKeepInv
<1>8. CASE DeclareUnanswered(p)
  <2>1. /\ late' \subseteq late \cup {<<"declare", p>>}
        /\ UNCHANGED session \/ Serve("declare", Other(p), p)
    BY <1>8 DEF DeclareUnanswered, Unanswered, Unserved, Delayed
  <2>2. UNCHANGED heard
            \/ (heard' = heard \cup {p} /\ Serve("declare", Other(p), p))
    BY <1>8 DEF DeclareUnanswered, Unanswered
  <2>3. /\ UNCHANGED conf /\ pc[p] = "declaring"
        /\ pc' = [pc EXCEPT ![p] = "committing"]
    BY <1>8 DEF DeclareUnanswered, Goes
  <2>4. Steps(p, "declare", "committing")
    BY <2>1, <2>2, <2>3 DEF Steps, Passes, Through, Places, Before, Past
  <2> QED BY <2>4, StepsKeepInv
<1>9. CASE Commit(p)
  BY <1>9, PushSteps, StepsKeepInv DEF Commit
<1>10. CASE Reveal(p)
  BY <1>10, PushSteps, StepsKeepInv DEF Reveal
<1>11. CASE AwaitCommit(p)
  <2>1. Steps(p, "abort", "revealing")
    BY <1>11 DEF AwaitCommit, HasCommit, Goes, Steps, Passes, Through, Places, Before, Past
  <2> QED BY <2>1, StepsKeepInv
<1>12. CASE AwaitReveal(p)
  <2>1. Steps(p, "abort", "playing")
    BY <1>1, <1>12 DEF AwaitReveal, Goes, Steps, Passes, Through, Opened, Places, Before, Past
  <2> QED BY <2>1, StepsKeepInv
<1>13. CASE Deadline(p)
  <2>1. Steps(p, "abort", "aborting")
    BY <1>13 DEF Deadline, Steps, Passes, Through, Places, Before, Past
  <2> QED BY <2>1, StepsKeepInv
<1>14. CASE Abort(p)
  <2>1. /\ late' \subseteq late \cup {<<"abort", p>>}
        /\ UNCHANGED session \/ Serve("abort", Other(p), p)
    BY <1>14, FailedCall DEF Abort
  <2>2. UNCHANGED <<conf, heard>> /\ pc' = [pc EXCEPT ![p] = "lost"]
    BY <1>14 DEF Abort, Goes
  <2>3. Steps(p, "abort", "lost")
    BY <2>1, <2>2 DEF Steps, Passes, Through, Places, Before, Past
  <2> QED BY <2>3, StepsKeepInv
<1> QED
  BY <1>2, <1>3, <1>4, <1>5, <1>6, <1>7, <1>8, <1>9, <1>10, <1>11, <1>12,
     <1>13, <1>14 DEF Client

LEMMA LateCallKeepsInv ==
    ASSUME Inv, NEW p \in Peers, NEW kind \in Kinds, LateCall(kind, p)
    PROVE  Inv'
<1>1. Bound(p, Other(p)) /\ Opened(p, Other(p)) /\ pc \in [Peers -> Places]
  BY DEF Inv, Typed
<1>2. <<kind, p>> \in late /\ UNCHANGED <<conf, pc, heard>>
  BY DEF LateCall
<1>3. late' \subseteq late \cup {<<kind, p>>} /\ Serve(kind, Other(p), p)
  BY DEF LateCall
<1>4. pc' = [pc EXCEPT ![p] = pc[p]]
  BY <1>1, <1>2
<1>5. kind = "commit" => pc[p] \notin Before
  BY <1>1, <1>2 DEF Bound
<1>6. kind = "reveal" => held[p]
  BY <1>1, <1>2 DEF Opened
<1>7. pc[p] \in Places /\ (pc[p] \in Past => held[p])
  BY <1>1 DEF Opened
<1>8. Steps(p, kind, pc[p])
  BY <1>2, <1>3, <1>4, <1>5, <1>6, <1>7 DEF Steps, Passes
<1> QED BY <1>8, StepsKeepInv

THEOREM Invariance == Spec => []Inv
<1>1. Inv /\ [Next]_vars => Inv'
  <2> SUFFICES ASSUME Inv, [Next]_vars PROVE Inv'
    OBVIOUS
  <2>1. CASE Next
    BY <2>1, ClientKeepsInv, LateCallKeepsInv DEF Next, Kinds
  <2>2. CASE UNCHANGED vars
    <3>1. UNCHANGED <<conf, pc, clash, held, applied, heard, late>>
      BY <2>2 DEF vars, session
    <3>2. \A p, q \in Peers : /\ StepZeroClash(q, p)' = StepZeroClash(q, p)
                               /\ Refuses(q, p)' = Refuses(q, p)
      BY <3>1, ConfStays
    <3>3. Typed'
      BY <3>1 DEF Inv, Typed
    <3>4. ASSUME NEW p \in Peers
          PROVE  (/\ Judged(p, Other(p)) /\ Bound(p, Other(p))
                  /\ Opened(p, Other(p)) /\ Met(p, Other(p)))'
      <4>1. Other(p) \in Peers /\ Other(p)' = Other(p)
        BY OtherIsAPeer DEF Other
      <4> QED BY <3>1, <3>2, <4>1 DEF Inv, Judged, Bound, Opened, Met
    <3> QED BY <3>3, <3>4 DEF Inv
  <2> QED BY <2>1, <2>2
<1> QED BY InitInv, <1>1, PTL DEF Spec

-----------------------------------------------------------------------------
(* What follows. *)

\* A verdict that is no clash leaves a pair that can play.
LEMMA NoClashPlays ==
    ASSUME Inv, NEW p \in Peers, NEW q \in Peers, q = Other(p), p = Other(q), p # q,
           ~StepZeroClash(q, p), conf[p].number = conf[q].number
    PROVE  Playable(p, q) /\ Playable(q, p)
<1>1. conf[p].group \in Nat /\ conf[q].group \in Nat
  BY DEF Inv, Typed
<1>2. Role(p) # Role(q)
  BY DEF StepZeroClash
<1>3. Role(p) \in Roles /\ Role(q) \in Roles
  BY DEF Inv, Typed, Role, RoleFor, Roles
<1>4. ASSUME conf[p].group # conf[q].group
      PROVE  Role(q) = RoleFor(conf[q].group, conf[p].group, conf[p].number,
                               SubGames, conf[q].convention)
  BY <1>4 DEF StepZeroClash, RoleClash
<1>5. ASSUME conf[p].group # conf[q].group
      PROVE  Role(p) = RoleFor(conf[p].group, conf[q].group, conf[p].number,
                               SubGames, conf[q].convention)
  BY <1>1, <1>2, <1>3, <1>4, <1>5, RolesAreComplementary DEF Roles
<1> QED BY <1>2, <1>4, <1>5 DEF Playable

\* No step is played between two peers of one role, or in roles their convention
\* gives the other way round, once a declaration was served in time
\* (declare_step0, step0_role_check, outstanding_clash).
THEOREM ClashNotPlayed == Spec => []ClashIsNotPlayed
<1>1. Inv => ClashIsNotPlayed
  <2> SUFFICES ASSUME Inv, NEW p \in Peers, applied[p], heard # {}
               PROVE  Playable(p, Other(p))
    BY DEF ClashIsNotPlayed
  <2> DEFINE q == Other(p)
  <2>1. q \in Peers /\ q # p /\ Other(q) = p /\ \A y \in Peers : y = p \/ y = q
    BY OtherIsAPeer
  <2>2. /\ Judged(p, q) /\ Bound(p, q) /\ Opened(p, q)
        /\ Judged(q, p) /\ Bound(q, p) /\ Opened(q, p)
    BY <2>1 DEF Inv
  <2> HIDE DEF q
  <2>3. held[p] /\ held[q]
    BY <2>2 DEF Opened
  <2>4. conf[p].number = conf[q].number
    BY <2>2, <2>3 DEF Bound
  <2>5. q = Other(p)
    BY DEF q
  <2>6. CASE p \in heard
    BY <2>1, <2>2, <2>3, <2>4, <2>5, <2>6, NoClashPlays DEF Bound
  <2>7. CASE q \in heard
    BY <2>1, <2>2, <2>3, <2>4, <2>5, <2>7, NoClashPlays DEF Bound
  <2>8. p \in heard \/ q \in heard
    BY <2>1 DEF Inv, Typed
  <2> QED BY <2>5, <2>6, <2>7, <2>8
<1> QED BY Invariance, <1>1, PTL

\* Whatever is lost or late, a step is played only in the sub-game both number the
\* same, and by two teams that have greeted each other and declare the same, unless
\* one of them answers hello with nothing that can be judged (_check_game,
\* NegotiationService.compare on both sides).
THEOREM AgreedBeforePlay == Spec => []PlayedAsAgreed
<1>1. Inv => PlayedAsAgreed
  <2> SUFFICES ASSUME Inv, NEW p \in Peers, applied[p]
               PROVE  /\ conf[p].number = conf[Other(p)].number
                      /\ \/ Consistent(p, Other(p))
                         \/ \E r \in Peers : conf[r].hello # "nested"
    BY DEF PlayedAsAgreed
  <2> DEFINE q == Other(p)
  <2>1. q \in Peers /\ Other(q) = p
    BY OtherIsAPeer
  <2>2. /\ Bound(p, q) /\ Opened(p, q) /\ Met(p, q)
        /\ Bound(q, p) /\ Opened(q, p) /\ Met(q, p)
    BY <2>1 DEF Inv
  <2> HIDE DEF q
  <2>3. held[p] /\ held[q]
    BY <2>2 DEF Opened
  <2>4. conf[p].number = conf[q].number
    BY <2>2, <2>3 DEF Bound
  <2>5. ASSUME conf[p].hello = "nested", conf[q].hello = "nested"
        PROVE  Consistent(p, q)
    <3>1. ~Refuses(p, q) /\ ~Refuses(q, p)
      BY <2>2, <2>3, <2>5 DEF Met
    <3> QED
      BY <3>1 DEF Refuses, BelowTheFloor, Named, Declared, Differ, Consistent
  <2> QED BY <2>1, <2>4, <2>5 DEF q
<1> QED BY Invariance, <1>1, PTL

=============================================================================
