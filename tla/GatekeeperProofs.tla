-------------------------- MODULE GatekeeperProofs --------------------------
(***************************************************************************)
(* Proofs about the gatekeeper, for any number of threads, any quota,      *)
(* bucket, window, queue and retry policy: the state stays well typed, the *)
(* quota is overshot by less than one call per thread, and no more calls   *)
(* than the burst threshold leave within one window.                       *)
(***************************************************************************)
EXTENDS GatekeeperProperties, FiniteSetTheorems, SequenceTheorems, TLAPS

-----------------------------------------------------------------------------
(* Facts about the operators. *)

\* A ticket taken out of the line leaves a line.
LEMMA WithoutIsALine ==
    ASSUME NEW c \in Callers, waiting \in Seq(Callers)
    PROVE  Without(c) \in Seq(Callers)
<1> DEFINE place == CHOOSE i \in DOMAIN waiting : waiting[i] = c
           rest(i) == waiting[IF i < place THEN i ELSE i + 1]
           n == IF Len(waiting) = 0 THEN 0 ELSE Len(waiting) - 1
<1>1. Len(waiting) \in Nat
  BY LenProperties
<1>2. n \in Nat /\ 1 .. n = 1 .. Len(waiting) - 1
  BY <1>1
<1>3. ASSUME NEW i \in 1 .. n PROVE rest(i) \in Callers
  <2>1. (IF i < place THEN i ELSE i + 1) \in 1 .. Len(waiting)
    BY <1>1
  <2> QED BY <2>1, ElementOfSeq
<1> HIDE DEF rest, n
<1>4. [i \in 1 .. n |-> rest(i)] \in Seq(Callers)
  BY <1>2, <1>3, IsASeq
<1> QED BY <1>2, <1>4 DEF Without, rest

LEMMA CappedIsBounded ==
    ASSUME NEW n \in Nat, NEW top \in Nat
    PROVE  Capped(n, top) \in 0 .. top
BY DEF Capped

\* The calls of every age move one age up.
LEMMA OlderIsTyped ==
    ASSUME NEW count \in [Ages -> Nat]
    PROVE  Older(count) \in [Ages -> Nat]
<1>1. ASSUME NEW a \in Ages, a # 0 PROVE a - 1 \in Ages
  BY <1>1, GatekeeperAssumption DEF Ages
<1> QED BY <1>1 DEF Older

\* One event more among those of this tick.
LEMMA OneMoreIsTyped ==
    ASSUME NEW count \in [Ages -> Nat]
    PROVE  OneMore(count) \in [Ages -> Nat]
BY DEF OneMore

LEMMA IdleIsAThread == Idle \in Threads
BY GatekeeperAssumption DEF Threads, Idle, Points

\* A thread's record with one or two of its fields rewritten is a thread's record.
LEMMA ThreadsChange ==
    ASSUME NEW t \in Threads
    PROVE  /\ \A p \in Points : [t EXCEPT !.at = p] \in Threads
           /\ \A p \in Points, s \in 0 .. Capacity :
                 /\ [t EXCEPT !.at = p, !.seen = s] \in Threads
                 /\ [t EXCEPT !.seen = s, !.at = p] \in Threads
           /\ \A p \in Points : [t EXCEPT !.at = p, !.waited = 0] \in Threads
           /\ \A w \in 0 .. MaxWait, s \in 0 .. Capacity :
                 [t EXCEPT !.waited = w, !.seen = s] \in Threads
           /\ \A n \in 0 .. MaxRetries : [t EXCEPT !.attempt = n] \in Threads
<1>1. \A p \in Points : [t EXCEPT !.at = p] \in Threads
  BY DEF Threads
<1>2. \A p \in Points, s \in 0 .. Capacity : [t EXCEPT !.at = p, !.seen = s] \in Threads
  BY DEF Threads
<1>3. \A p \in Points, s \in 0 .. Capacity : [t EXCEPT !.seen = s, !.at = p] \in Threads
  BY DEF Threads
<1>4. 0 \in 0 .. MaxWait
  BY GatekeeperAssumption
<1>5. \A p \in Points : [t EXCEPT !.at = p, !.waited = 0] \in Threads
  BY <1>4 DEF Threads
<1>6. \A w \in 0 .. MaxWait, s \in 0 .. Capacity :
        [t EXCEPT !.waited = w, !.seen = s] \in Threads
  BY DEF Threads
<1>7. \A n \in 0 .. MaxRetries : [t EXCEPT !.attempt = n] \in Threads
  BY DEF Threads
<1> QED BY <1>1, <1>2, <1>3, <1>5, <1>6, <1>7

-----------------------------------------------------------------------------
(* Types. *)

LEMMA InitTyped == Init => TypeOK
<1> SUFFICES ASSUME Init PROVE TypeOK
  OBVIOUS
<1>1. caller \in [Callers -> Threads]
  BY IdleIsAThread DEF Init
<1>2. waiting \in Seq(Callers)
  BY EmptySeq DEF Init
<1>3. events \in [Ages -> Nat] /\ cleared \in [Ages -> Nat]
  BY DEF Init
<1>4. tokens \in 0 .. Capacity /\ used \in 0 .. DailyLimit
  BY GatekeeperAssumption DEF Init
<1>5. left \in 0 .. MaxCalls /\ spent \in Nat
  BY GatekeeperAssumption DEF Init
<1>6. locked \in BOOLEAN
  BY DEF Init
<1> QED BY <1>1, <1>2, <1>3, <1>4, <1>5, <1>6 DEF TypeOK

LEMMA EndTyped ==
    ASSUME TypeOK, NEW c \in Callers, End(c)
    PROVE  caller' \in [Callers -> Threads]
BY IdleIsAThread DEF TypeOK, End

LEMMA GoToTyped ==
    ASSUME TypeOK, NEW c \in Callers, NEW p \in Points, GoTo(c, p)
    PROVE  caller' \in [Callers -> Threads]
BY ThreadsChange DEF TypeOK, GoTo

LEMMA PointsArePoints ==
    /\ "idle" \in Points /\ "peek" \in Points /\ "take" \in Points
    /\ "join" \in Points /\ "queued" \in Points /\ "leave" \in Points
    /\ "record" \in Points /\ "judge" \in Points /\ "quota" \in Points
    /\ "call" \in Points /\ "denied" \in Points /\ "nap" \in Points
BY DEF Points

LEMMA CheckTyped == ASSUME TypeOK, NEW c \in Callers, Check(c) PROVE TypeOK'
<1>1. End(c) \/ GoTo(c, "peek")
  BY DEF Check
<1>2. caller' \in [Callers -> Threads]
  BY <1>1, EndTyped, GoToTyped, PointsArePoints
<1>3. left' \in 0 .. MaxCalls
  BY GatekeeperAssumption DEF Check, TypeOK
<1> QED BY <1>2, <1>3 DEF TypeOK, Check

LEMMA PeekTyped == ASSUME TypeOK, NEW c \in Callers, Peek(c) PROVE TypeOK'
<1>1. caller' = [caller EXCEPT ![c] = [caller[c] EXCEPT !.at = "take", !.seen = tokens]]
  BY DEF Peek, TypeOK
<1>2. [caller[c] EXCEPT !.at = "take", !.seen = tokens] \in Threads
  BY ThreadsChange, PointsArePoints DEF TypeOK
<1>3. caller' \in [Callers -> Threads]
  BY <1>1, <1>2 DEF TypeOK
<1> QED BY <1>3 DEF TypeOK, Peek

LEMMA TakeTyped == ASSUME TypeOK, NEW c \in Callers, Take(c) PROVE TypeOK'
<1>1. caller[c] \in Threads /\ caller[c].seen \in 0 .. Capacity
  BY DEF TypeOK, Threads
<1>2. CASE caller[c].seen >= 1
  <2> DEFINE p == IF InLine(c) THEN "leave" ELSE "record"
  <2>1. caller' = [caller EXCEPT ![c] = [caller[c] EXCEPT !.seen = 0, !.at = p]]
    BY <1>2 DEF Take, TypeOK
  <2>2. p \in Points /\ 0 \in 0 .. Capacity
    BY PointsArePoints, GatekeeperAssumption
  <2> HIDE DEF p
  <2>3. [caller[c] EXCEPT !.seen = 0, !.at = p] \in Threads
    BY <1>1, <2>2, ThreadsChange
  <2>4. caller' \in [Callers -> Threads]
    BY <2>1, <2>3 DEF TypeOK
  <2>5. tokens' = caller[c].seen - 1
    BY <1>2 DEF Take
  <2>6. tokens' \in 0 .. Capacity
    BY <1>1, <1>2, <2>5, GatekeeperAssumption
  <2> QED BY <2>4, <2>6 DEF TypeOK, Take
<1>3. CASE ~ (caller[c].seen >= 1)
  <2>1. tokens' = 0 /\ GoTo(c, IF InLine(c) THEN "denied" ELSE "join")
    BY <1>3 DEF Take
  <2>2. caller' \in [Callers -> Threads]
    BY <2>1, GoToTyped, PointsArePoints
  <2>3. tokens' \in 0 .. Capacity
    BY <2>1, GatekeeperAssumption
  <2> QED BY <2>2, <2>3 DEF TypeOK, Take
<1> QED BY <1>2, <1>3

LEMMA MeasureTyped == ASSUME TypeOK, NEW c \in Callers, Measure(c) PROVE TypeOK'
<1>1. caller' = [caller EXCEPT ![c] = [caller[c] EXCEPT !.at = "nap", !.seen = tokens]]
  BY DEF Measure, TypeOK
<1>2. [caller[c] EXCEPT !.at = "nap", !.seen = tokens] \in Threads
  BY ThreadsChange, PointsArePoints DEF TypeOK
<1>3. caller' \in [Callers -> Threads]
  BY <1>1, <1>2 DEF TypeOK
<1> QED BY <1>3 DEF TypeOK, Measure

LEMMA NapTyped == ASSUME TypeOK, NEW c \in Callers, Nap(c) PROVE TypeOK'
<1>1. caller' = [caller EXCEPT ![c] = [caller[c] EXCEPT !.at = "queued", !.seen = 0]]
  BY DEF Nap, TypeOK
<1>2. 0 \in 0 .. Capacity
  BY GatekeeperAssumption
<1>3. [caller[c] EXCEPT !.at = "queued", !.seen = 0] \in Threads
  BY <1>2, ThreadsChange, PointsArePoints DEF TypeOK
<1>4. caller' \in [Callers -> Threads]
  BY <1>1, <1>3 DEF TypeOK
<1>5. tokens' \in 0 .. Capacity
  BY DEF Nap, TypeOK, Threads
<1> QED BY <1>4, <1>5 DEF TypeOK, Nap

LEMMA QueueTyped ==
    ASSUME TypeOK, NEW c \in Callers, Join(c) \/ HeadTries(c) \/ GiveUp(c) \/ Leave(c)
    PROVE  TypeOK'
<1>1. CASE Join(c)
  <2>1. End(c) \/ GoTo(c, "queued")
    BY <1>1 DEF Join
  <2>2. caller' \in [Callers -> Threads]
    BY <2>1, EndTyped, GoToTyped, PointsArePoints
  <2>3. waiting' = waiting \/ waiting' = Append(waiting, c)
    BY <1>1 DEF Join
  <2>4. waiting \in Seq(Callers) /\ Append(waiting, c) \in Seq(Callers)
    BY AppendProperties DEF TypeOK
  <2>5. waiting' \in Seq(Callers)
    BY <2>3, <2>4
  <2> QED BY <1>1, <2>2, <2>5 DEF TypeOK, Join
<1>2. CASE HeadTries(c)
  <2>1. caller' \in [Callers -> Threads]
    BY <1>2, GoToTyped, PointsArePoints DEF HeadTries
  <2> QED BY <1>2, <2>1 DEF TypeOK, HeadTries
<1>3. CASE GiveUp(c)
  <2>1. caller' \in [Callers -> Threads]
    BY <1>3, EndTyped DEF GiveUp
  <2>2. waiting' \in Seq(Callers)
    BY <1>3, WithoutIsALine DEF GiveUp, TypeOK
  <2> QED BY <1>3, <2>1, <2>2 DEF TypeOK, GiveUp
<1>4. CASE Leave(c)
  <2>1. caller' = [caller EXCEPT ![c] = [caller[c] EXCEPT !.at = "record", !.waited = 0]]
    BY <1>4 DEF Leave, TypeOK
  <2>2. [caller[c] EXCEPT !.at = "record", !.waited = 0] \in Threads
    BY ThreadsChange, PointsArePoints DEF TypeOK
  <2>3. caller' \in [Callers -> Threads]
    BY <2>1, <2>2 DEF TypeOK
  <2>4. waiting' \in Seq(Callers)
    BY <1>4, WithoutIsALine DEF Leave, TypeOK
  <2> QED BY <1>4, <2>3, <2>4 DEF TypeOK, Leave
<1> QED BY <1>1, <1>2, <1>3, <1>4

LEMMA VerdictTyped ==
    ASSUME TypeOK, NEW c \in Callers, Record(c) \/ Judge(c) \/ Consume(c)
    PROVE  TypeOK'
<1>1. CASE Record(c)
  <2>1. End(c) \/ GoTo(c, "judge")
    BY <1>1 DEF Record
  <2>2. caller' \in [Callers -> Threads]
    BY <2>1, EndTyped, GoToTyped, PointsArePoints
  <2>3. events' \in [Ages -> Nat]
    BY <1>1, OneMoreIsTyped DEF Record, TypeOK
  <2> QED BY <1>1, <2>2, <2>3 DEF TypeOK, Record
<1>2. CASE Judge(c)
  <2>1. End(c) \/ GoTo(c, "quota")
    BY <1>2 DEF Judge
  <2>2. caller' \in [Callers -> Threads]
    BY <2>1, EndTyped, GoToTyped, PointsArePoints
  <2>3. cleared' \in [Ages -> Nat]
    BY <1>2, OneMoreIsTyped DEF Judge, TypeOK
  <2>4. locked' \in BOOLEAN
    BY <1>2 DEF Judge, TypeOK
  <2> QED BY <1>2, <2>2, <2>3, <2>4 DEF TypeOK, Judge
<1>3. CASE Consume(c)
  <2>1. caller' \in [Callers -> Threads]
    BY <1>3, GoToTyped, PointsArePoints DEF Consume
  <2>2. used + 1 \in Nat /\ DailyLimit \in Nat /\ spent' \in Nat
    BY <1>3, GatekeeperAssumption DEF TypeOK, Consume
  <2>3. used' \in 0 .. DailyLimit
    BY <1>3, <2>2, CappedIsBounded DEF Consume
  <2> QED BY <1>3, <2>1, <2>2, <2>3 DEF TypeOK, Consume
<1> QED BY <1>1, <1>2, <1>3

LEMMA CallTyped ==
    ASSUME TypeOK, NEW c \in Callers, CallAnswers(c) \/ CallFails(c) \/ CallIsRateLimited(c)
    PROVE  TypeOK'
<1> DEFINE again == [caller[c] EXCEPT !.attempt = @ + 1]
<1>1. caller[c] \in Threads /\ caller[c].attempt \in 0 .. MaxRetries
  BY DEF TypeOK, Threads
<1>2. ASSUME caller[c].attempt < MaxRetries, caller' = [caller EXCEPT ![c] = again]
      PROVE  caller' \in [Callers -> Threads]
  <2>1. caller[c].attempt + 1 \in 0 .. MaxRetries
    BY <1>1, <1>2, GatekeeperAssumption
  <2>2. again \in Threads
    BY <1>1, <2>1, ThreadsChange
  <2> QED BY <1>2, <2>2 DEF TypeOK
<1>3. CASE CallAnswers(c)
  <2>1. caller' \in [Callers -> Threads]
    BY <1>3, EndTyped DEF CallAnswers
  <2> QED BY <1>3, <2>1 DEF TypeOK, CallAnswers
<1>4. CASE CallFails(c)
  <2>1. \/ End(c)
        \/ caller[c].attempt < MaxRetries /\ caller' = [caller EXCEPT ![c] = again]
    BY <1>4 DEF CallFails, TypeOK
  <2>2. caller' \in [Callers -> Threads]
    BY <1>2, <2>1, EndTyped
  <2> QED BY <1>4, <2>2 DEF TypeOK, CallFails
<1>5. CASE CallIsRateLimited(c)
  <2>1. caller[c].attempt < MaxRetries /\ caller' = [caller EXCEPT ![c] = again]
    BY <1>5 DEF CallIsRateLimited, TypeOK
  <2>2. caller' \in [Callers -> Threads]
    BY <1>2, <2>1
  <2>3. tokens' \in 0 .. Capacity
    BY <1>5, GatekeeperAssumption DEF CallIsRateLimited
  <2> QED BY <1>5, <2>2, <2>3 DEF TypeOK, CallIsRateLimited
<1> QED BY <1>3, <1>4, <1>5

LEMMA TickTyped == ASSUME TypeOK, Tick PROVE TypeOK'
<1> DEFINE older(c) == IF InLine(c)
                         THEN [caller[c] EXCEPT !.waited = Capped(@ + 1, MaxWait),
                                                !.seen = Earned(c)]
                         ELSE caller[c]
<1>1. tokens' \in 0 .. Capacity
  <2>1. tokens' = Capped(tokens + 1, Capacity)
    BY DEF Tick
  <2>2. tokens + 1 \in Nat /\ Capacity \in Nat
    BY GatekeeperAssumption DEF TypeOK
  <2> QED BY <2>1, <2>2, CappedIsBounded
<1>2. events' \in [Ages -> Nat] /\ cleared' \in [Ages -> Nat]
  BY OlderIsTyped DEF Tick, TypeOK
<1>3. ASSUME NEW c \in Callers PROVE older(c) \in Threads
  <2>1. caller[c] \in Threads /\ caller[c].waited + 1 \in Nat /\ MaxWait \in Nat
    BY GatekeeperAssumption DEF TypeOK, Threads
  <2>2. Capped(caller[c].waited + 1, MaxWait) \in 0 .. MaxWait
    BY <2>1, CappedIsBounded
  <2>3. Earned(c) \in 0 .. Capacity
    <3>1. caller[c].seen \in 0 .. Capacity /\ Capacity \in Nat
      BY GatekeeperAssumption DEF TypeOK, Threads
    <3>2. caller[c].seen + 1 \in Nat
      BY <3>1
    <3>3. Capped(caller[c].seen + 1, Capacity) \in 0 .. Capacity
      BY <3>1, <3>2, CappedIsBounded
    <3> QED BY <3>1, <3>3 DEF Earned
  <2> QED BY <2>1, <2>2, <2>3, ThreadsChange
<1>4. caller' = [c \in Callers |-> older(c)]
  BY DEF Tick
<1> HIDE DEF older
<1>5. caller' \in [Callers -> Threads]
  BY <1>3, <1>4
<1> QED BY <1>1, <1>2, <1>5 DEF TypeOK, Tick

LEMMA MidnightTyped == ASSUME TypeOK, Midnight PROVE TypeOK'
<1>1. used' \in 0 .. DailyLimit /\ spent' \in Nat
  BY GatekeeperAssumption DEF Midnight
<1> QED BY <1>1 DEF TypeOK, Midnight

LEMMA StepTyped == TypeOK /\ [Next]_vars => TypeOK'
<1> SUFFICES ASSUME TypeOK, [Next]_vars PROVE TypeOK'
  OBVIOUS
<1>1. CASE UNCHANGED vars
  BY <1>1 DEF TypeOK, vars
<1>2. ASSUME NEW c \in Callers, Check(c) \/ Proceed(c) PROVE TypeOK'
  BY <1>2, CheckTyped, PeekTyped, TakeTyped, MeasureTyped, NapTyped, QueueTyped,
     VerdictTyped, CallTyped
     DEF Proceed
<1> QED BY <1>1, <1>2, TickTyped, MidnightTyped DEF Next

\* Whatever its threads do, the gatekeeper's bucket, quota, detector and queue
\* keep to the values the code gives them: no stale store by one thread leaves
\* more tokens than the capacity, no count passes its cap.
THEOREM TypeCorrectness == Spec => []TypeOK
<1>1. Init => TypeOK
  BY InitTyped
<1>2. TypeOK /\ [Next]_vars => TypeOK'
  BY StepTyped
<1> QED BY <1>1, <1>2, PTL DEF Spec

-----------------------------------------------------------------------------
(***************************************************************************)
(* The quota.  check reads it and allow, much later, counts against it.    *)
(* The threads in between have passed the check and are not counted yet:   *)
(* the bound on what is spent is inductive only together with them.        *)
(***************************************************************************)

Passed == {c \in Callers : caller[c].at \notin {"idle", "call"}}

Admission ==
    /\ used = Capped(spent, DailyLimit)
    /\ spent + Cardinality(Passed) <= DailyLimit + Cardinality(Callers) - 1

LEMMA PassedIsFinite ==
    /\ IsFiniteSet(Passed) /\ Cardinality(Passed) \in Nat
    /\ Cardinality(Callers) \in Nat /\ Cardinality(Passed) <= Cardinality(Callers)
<1>1. Passed \subseteq Callers
  BY DEF Passed
<1> QED BY <1>1, GatekeeperAssumption, FS_Subset, FS_CardinalityType

\* A step that admits nobody and counts nothing keeps the bound.
LEMMA NobodyEnters ==
    ASSUME TypeOK, Admission, Passed' \subseteq Passed, UNCHANGED <<used, spent>>
    PROVE  Admission'
<1>1. Cardinality(Passed') <= Cardinality(Passed) /\ Cardinality(Passed') \in Nat
  BY PassedIsFinite, FS_Subset, FS_CardinalityType
<1>2. spent \in Nat /\ DailyLimit \in Nat
  BY GatekeeperAssumption DEF TypeOK
<1>3. spent + Cardinality(Passed') <= DailyLimit + Cardinality(Callers) - 1
  BY <1>1, <1>2, PassedIsFinite DEF Admission
<1> QED BY <1>3 DEF Admission

LEMMA CheckKeepsAdmission ==
    ASSUME TypeOK, TypeOK', Admission, NEW c \in Callers, Check(c)
    PROVE  Admission'
<1>1. CASE locked \/ AtLeastZero(DailyLimit - used) = 0
  <2>1. caller' = [caller EXCEPT ![c] = Idle] /\ UNCHANGED <<used, spent>>
    BY <1>1 DEF Check, End
  <2>2. Passed' \subseteq Passed
    BY <2>1 DEF Passed, Idle, TypeOK
  <2> QED BY <2>1, <2>2, NobodyEnters
<1>2. CASE ~ (locked \/ AtLeastZero(DailyLimit - used) = 0)
  <2>1. spent \in Nat /\ DailyLimit \in Nat /\ used \in 0 .. DailyLimit
    BY GatekeeperAssumption DEF TypeOK
  <2>2. used < DailyLimit
    BY <1>2, <2>1 DEF AtLeastZero
  <2>3. spent < DailyLimit
    BY <2>1, <2>2 DEF Admission, Capped
  <2>4. UNCHANGED <<used, spent>>
    BY DEF Check
  <2>5. Passed' \subseteq Callers
    BY DEF Passed
  <2>6. Cardinality(Passed') \in Nat /\ Cardinality(Passed') <= Cardinality(Callers)
    BY <2>5, GatekeeperAssumption, FS_Subset, FS_CardinalityType
  <2>7. spent + Cardinality(Passed') <= DailyLimit + Cardinality(Callers) - 1
    BY <2>1, <2>3, <2>6, PassedIsFinite
  <2> QED BY <2>4, <2>7 DEF Admission
<1> QED BY <1>1, <1>2

LEMMA ConsumeKeepsAdmission ==
    ASSUME TypeOK, Admission, NEW c \in Callers, Consume(c)
    PROVE  Admission'
<1>1. spent \in Nat /\ DailyLimit \in Nat
  BY GatekeeperAssumption DEF TypeOK
<1>2. used' = Capped(used + 1, DailyLimit) /\ spent' = spent + 1
  BY DEF Consume
<1>3. used' = Capped(spent', DailyLimit)
  BY <1>1, <1>2 DEF Admission, Capped
<1>4. c \in Passed /\ caller' = [caller EXCEPT ![c].at = "call"]
  BY DEF Consume, GoTo, Passed
<1>5. caller'[c].at = "call" /\ \A d \in Callers \ {c} : caller'[d] = caller[d]
  BY <1>4 DEF TypeOK, Threads
<1>6. Passed' = Passed \ {c}
  BY <1>4, <1>5 DEF Passed
<1>7. Cardinality(Passed') = Cardinality(Passed) - 1
  BY <1>4, <1>6, PassedIsFinite, FS_RemoveElement
<1>8. spent' + Cardinality(Passed') <= DailyLimit + Cardinality(Callers) - 1
  BY <1>1, <1>2, <1>7, PassedIsFinite DEF Admission
<1> QED BY <1>3, <1>8 DEF Admission

\* Between the check and the count a thread only moves on or ends its call.
LEMMA ProceedEntersNobody ==
    ASSUME TypeOK, NEW c \in Callers, Proceed(c), ~ Consume(c)
    PROVE  Passed' \subseteq Passed /\ UNCHANGED <<used, spent>>
<1>1. UNCHANGED <<used, spent>>
  BY DEF Proceed, Peek, Take, Join, HeadTries, Measure, Nap, GiveUp, Leave, Record, Judge,
         CallAnswers, CallFails, CallIsRateLimited
<1>2. \A d \in Callers \ {c} : caller'[d] = caller[d]
  BY DEF Proceed, Peek, Take, Join, HeadTries, Measure, Nap, GiveUp, Leave, Record, Judge,
         CallAnswers, CallFails, CallIsRateLimited, End, GoTo, TypeOK
<1>3. c \in Passed' => c \in Passed
  <2>1. CASE caller[c].at \notin {"idle", "call"}
    BY <2>1 DEF Passed
  <2>2. CASE caller[c].at \in {"idle", "call"}
    <3>1. CallAnswers(c) \/ CallFails(c) \/ CallIsRateLimited(c)
      BY <2>2 DEF Proceed, Peek, Take, Join, HeadTries, Measure, Nap, GiveUp, Leave, Record, Judge
    <3>2. caller[c].at = "call"
      BY <3>1 DEF CallAnswers, CallFails, CallIsRateLimited
    <3>3. \/ caller' = [caller EXCEPT ![c] = Idle]
          \/ caller' = [caller EXCEPT ![c].attempt = @ + 1]
      BY <3>1 DEF CallAnswers, CallFails, CallIsRateLimited, End
    <3>4. caller'[c].at \in {"idle", "call"}
      BY <3>2, <3>3 DEF Idle, TypeOK, Threads
    <3> QED BY <3>4 DEF Passed
  <2> QED BY <2>1, <2>2
<1>4. Passed' \subseteq Passed
  BY <1>2, <1>3 DEF Passed
<1> QED BY <1>1, <1>4

LEMMA TickEntersNobody ==
    ASSUME TypeOK, Tick
    PROVE  Passed' \subseteq Passed /\ UNCHANGED <<used, spent>>
<1>1. \A c \in Callers : caller'[c].at = caller[c].at
  BY DEF Tick, TypeOK, Threads
<1>2. UNCHANGED <<used, spent>>
  BY DEF Tick
<1> QED BY <1>1, <1>2 DEF Passed

LEMMA MidnightKeepsAdmission ==
    ASSUME TypeOK, Midnight
    PROVE  Admission'
<1>1. used' = 0 /\ spent' = 0 /\ Passed' = Passed
  BY DEF Midnight, Passed
<1>2. DailyLimit \in Nat /\ DailyLimit >= 1
  BY GatekeeperAssumption
<1>3. used' = Capped(spent', DailyLimit)
  BY <1>1, <1>2 DEF Capped
<1>4. spent' + Cardinality(Passed') <= DailyLimit + Cardinality(Callers) - 1
  BY <1>1, <1>2, PassedIsFinite
<1> QED BY <1>3, <1>4 DEF Admission

LEMMA InitAdmission == Init => Admission
<1> SUFFICES ASSUME Init PROVE Admission
  OBVIOUS
<1>1. used = 0 /\ spent = 0
  BY DEF Init
<1>2. DailyLimit \in Nat /\ DailyLimit >= 1
  BY GatekeeperAssumption
<1>3. used = Capped(spent, DailyLimit)
  BY <1>1, <1>2 DEF Capped
<1>4. spent + Cardinality(Passed) <= DailyLimit + Cardinality(Callers) - 1
  BY <1>1, <1>2, PassedIsFinite
<1> QED BY <1>3, <1>4 DEF Admission

LEMMA StepKeepsAdmission == TypeOK /\ TypeOK' /\ Admission /\ [Next]_vars => Admission'
<1> SUFFICES ASSUME TypeOK, TypeOK', Admission, [Next]_vars PROVE Admission'
  OBVIOUS
<1>1. CASE UNCHANGED vars
  <2>1. Passed' = Passed /\ UNCHANGED <<used, spent>>
    BY <1>1 DEF vars, Passed
  <2> QED BY <2>1, NobodyEnters
<1>2. ASSUME NEW c \in Callers, Check(c) PROVE Admission'
  BY <1>2, CheckKeepsAdmission
<1>3. ASSUME NEW c \in Callers, Proceed(c) PROVE Admission'
  BY <1>3, ConsumeKeepsAdmission, ProceedEntersNobody, NobodyEnters
<1>4. CASE Tick
  BY <1>4, TickEntersNobody, NobodyEnters
<1>5. CASE Midnight
  BY <1>5, MidnightKeepsAdmission
<1> QED BY <1>1, <1>2, <1>3, <1>4, <1>5 DEF Next

\* However many threads wait between the quota's two readings, and however they
\* are interleaved, fewer calls than there are threads pass beyond the quota.
THEOREM OvershootBounded == Spec => []OvershootIsBounded
<1>1. Init => TypeOK /\ Admission
  BY InitTyped, InitAdmission
<1>2. TypeOK /\ Admission /\ [Next]_vars => TypeOK' /\ Admission'
  BY StepTyped, StepKeepsAdmission
<1>3. TypeOK /\ Admission => OvershootIsBounded
  <2> SUFFICES ASSUME TypeOK, Admission PROVE OvershootIsBounded
    OBVIOUS
  <2>1. spent \in Nat /\ DailyLimit \in Nat
    BY GatekeeperAssumption DEF TypeOK
  <2> QED BY <2>1, PassedIsFinite DEF Admission, OvershootIsBounded
<1> QED BY <1>1, <1>2, <1>3, PTL DEF Spec

-----------------------------------------------------------------------------
(***************************************************************************)
(* The detector.  It counts an event in one step and judges the count in   *)
(* another, and other threads come in between.  Whoever is in between is   *)
(* counted and not cleared yet, so at every age there are at least that    *)
(* many more events than cleared calls.                                    *)
(***************************************************************************)

Judging == {c \in Callers : caller[c].at = "judge"}

Detected ==
    /\ \A a \in Ages : cleared[a] + Cardinality(Judging) <= events[a]
    /\ \A a \in Ages \ {0} : cleared[a - 1] <= cleared[a]
    /\ BurstIsBounded

LEMMA JudgingIsFinite == IsFiniteSet(Judging) /\ Cardinality(Judging) \in Nat
<1>1. Judging \subseteq Callers
  BY DEF Judging
<1> QED BY <1>1, GatekeeperAssumption, FS_Subset, FS_CardinalityType

LEMMA AgesTyped ==
    /\ 0 \in Ages /\ Window \in Ages /\ Ages \subseteq Nat
    /\ \A a \in Ages \ {0} : a - 1 \in Ages
    /\ BurstThreshold \in Nat
BY GatekeeperAssumption DEF Ages

\* A step that counts nothing and clears nothing.
LEMMA NothingDetected ==
    ASSUME TypeOK, Detected, Judging' \subseteq Judging, UNCHANGED <<events, cleared>>
    PROVE  Detected'
<1>1. /\ Cardinality(Judging') <= Cardinality(Judging)
      /\ Cardinality(Judging') \in Nat /\ Cardinality(Judging) \in Nat
  BY JudgingIsFinite, FS_Subset, FS_CardinalityType
<1>2. ASSUME NEW a \in Ages PROVE cleared'[a] + Cardinality(Judging') <= events'[a]
  <2>1. cleared[a] \in Nat /\ events[a] \in Nat
    BY DEF TypeOK
  <2>2. cleared[a] + Cardinality(Judging) <= events[a]
    BY DEF Detected
  <2> QED BY <1>1, <2>1, <2>2
<1> QED BY <1>2 DEF Detected, BurstIsBounded, InWindow

LEMMA RecordDetected ==
    ASSUME TypeOK, Detected, NEW c \in Callers, Record(c)
    PROVE  Detected'
<1>1. \A d \in Callers \ {c} : caller'[d] = caller[d]
  BY DEF Record, End, GoTo, TypeOK
<1>2. CASE locked
  <2>1. caller'[c].at # "judge" /\ UNCHANGED <<events, cleared>>
    BY <1>2 DEF Record, End, Idle, TypeOK
  <2>2. Judging' \subseteq Judging
    BY <1>1, <2>1 DEF Judging
  <2> QED BY <2>1, <2>2, NothingDetected
<1>3. CASE ~locked
  <2>1. /\ events' = OneMore(events) /\ cleared' = cleared
        /\ c \notin Judging /\ caller'[c].at = "judge"
    BY <1>3 DEF Record, GoTo, Judging, TypeOK, Threads
  <2>2. Judging' = Judging \cup {c}
    BY <1>1, <2>1 DEF Judging
  <2>3. Cardinality(Judging') = Cardinality(Judging) + 1
    BY <2>1, <2>2, JudgingIsFinite, FS_AddElement
  <2>4. ASSUME NEW a \in Ages PROVE cleared'[a] + Cardinality(Judging') <= events'[a]
    <3>1. cleared[a] \in Nat /\ events[a] \in Nat /\ Cardinality(Judging) \in Nat
      BY JudgingIsFinite DEF TypeOK
    <3>2. cleared[a] + Cardinality(Judging) <= events[a] /\ events'[a] = events[a] + 1
      BY <2>1 DEF Detected, OneMore
    <3> QED BY <2>1, <2>3, <3>1, <3>2
  <2> QED BY <2>1, <2>4 DEF Detected, BurstIsBounded, InWindow
<1> QED BY <1>2, <1>3

\* The verdict: with this call there are still no more cleared than there are events,
\* and of those no more than the threshold.
LEMMA JudgeDetected ==
    ASSUME TypeOK, Detected, NEW c \in Callers, Judge(c)
    PROVE  Detected'
<1>1. /\ c \in Judging /\ caller'[c].at # "judge" /\ events' = events
      /\ \A d \in Callers \ {c} : caller'[d] = caller[d]
  BY DEF Judge, End, GoTo, Idle, Judging, TypeOK, Threads
<1>2. Judging' = Judging \ {c}
  BY <1>1 DEF Judging
<1>3. CASE cleared' = cleared
  BY <1>1, <1>2, <1>3, NothingDetected
<1>4. CASE cleared' # cleared
  <2>1. cleared' = OneMore(cleared) /\ InWindow(events) <= BurstThreshold
    <3>1. InWindow(events) \in Nat
      BY AgesTyped DEF InWindow, TypeOK
    <3> QED BY <1>4, <3>1, AgesTyped DEF Judge
  <2>2. /\ Cardinality(Judging') = Cardinality(Judging) - 1 /\ Cardinality(Judging) \in Nat
        /\ Cardinality(Judging') \in Nat
    <3>1. IsFiniteSet(Judging \ {c})
      BY JudgingIsFinite, FS_Subset
    <3> QED BY <1>1, <1>2, <3>1, JudgingIsFinite, FS_RemoveElement, FS_CardinalityType
  <2>3. ASSUME NEW a \in Ages
        PROVE  cleared'[a] = cleared[a] + 1 /\ cleared'[a] + Cardinality(Judging') <= events'[a]
    <3>1. cleared[a] \in Nat /\ events[a] \in Nat
      BY DEF TypeOK
    <3>2. cleared[a] + Cardinality(Judging) <= events[a] /\ cleared'[a] = cleared[a] + 1
      BY <2>1 DEF Detected, OneMore
    <3> QED BY <1>1, <2>2, <3>1, <3>2
  <2>4. InWindow(cleared') <= BurstThreshold
    <3>1. cleared'[Window] \in Nat /\ events[Window] \in Nat
      BY <2>3, AgesTyped DEF TypeOK
    <3> QED BY <1>1, <2>1, <2>2, <2>3, <3>1, AgesTyped DEF InWindow
  <2>5. ASSUME NEW a \in Ages \ {0} PROVE cleared'[a - 1] <= cleared'[a]
    <3>1. a - 1 \in Ages /\ cleared[a - 1] <= cleared[a]
      BY AgesTyped DEF Detected
    <3> QED BY <2>3, <3>1 DEF TypeOK
  <2> QED BY <2>3, <2>4, <2>5 DEF Detected, BurstIsBounded
<1> QED BY <1>3, <1>4

\* Nobody is between the count and the verdict when a tick passes.
LEMMA TickDetected ==
    ASSUME TypeOK, Detected, Tick
    PROVE  Detected'
<1>1. \A c \in Callers : caller'[c].at = caller[c].at /\ caller[c].at # "judge"
  BY DEF Tick, TypeOK, Threads
<1>2. Judging = {} /\ Judging' = {}
  BY <1>1 DEF Judging
<1>3. Cardinality(Judging) = 0 /\ Cardinality(Judging') = 0
  BY <1>2, FS_EmptySet
<1>4. events' = Older(events) /\ cleared' = Older(cleared)
  BY DEF Tick
<1>5. ASSUME NEW a \in Ages
      PROVE  /\ cleared'[a] \in Nat /\ events'[a] \in Nat
             /\ cleared'[a] <= events'[a] /\ cleared'[a] <= cleared[a]
  <2>1. CASE a = 0
    BY <1>4, <2>1 DEF Older, TypeOK
  <2>2. CASE a # 0
    <3>1. a - 1 \in Ages /\ a \in Ages \ {0}
      BY <2>2, AgesTyped
    <3>2. cleared'[a] = cleared[a - 1] /\ events'[a] = events[a - 1]
      BY <1>4, <2>2 DEF Older
    <3>3. cleared[a - 1] \in Nat /\ events[a - 1] \in Nat
      BY <3>1 DEF TypeOK
    <3>4. cleared[a - 1] + 0 <= events[a - 1] /\ cleared[a - 1] <= cleared[a]
      BY <1>3, <3>1 DEF Detected
    <3> QED BY <3>2, <3>3, <3>4
  <2> QED BY <2>1, <2>2
<1>6. ASSUME NEW a \in Ages PROVE cleared'[a] + Cardinality(Judging') <= events'[a]
  BY <1>3, <1>5
<1>7. ASSUME NEW a \in Ages \ {0} PROVE cleared'[a - 1] <= cleared'[a]
  <2>1. a - 1 \in Ages /\ cleared'[a] = cleared[a - 1]
    BY <1>4, AgesTyped DEF Older
  <2> QED BY <1>5, <2>1
<1>8. InWindow(cleared') <= BurstThreshold
  <2>1. cleared'[Window] <= cleared[Window] /\ cleared'[Window] \in Nat /\ cleared[Window] \in Nat
    BY <1>5, AgesTyped DEF TypeOK
  <2>2. cleared[Window] <= BurstThreshold
    BY DEF Detected, BurstIsBounded, InWindow
  <2> QED BY <2>1, <2>2, AgesTyped DEF InWindow
<1> QED BY <1>6, <1>7, <1>8 DEF Detected, BurstIsBounded

LEMMA InitDetected == Init => Detected
<1> SUFFICES ASSUME Init PROVE Detected
  OBVIOUS
<1>1. \A a \in Ages : cleared[a] = 0 /\ events[a] = 0
  BY DEF Init
<1>2. Judging = {}
  BY DEF Judging, Init, Idle
<1>3. Cardinality(Judging) = 0
  BY <1>2, FS_EmptySet
<1> QED BY <1>1, <1>3, AgesTyped DEF Detected, BurstIsBounded, InWindow

\* Everything else a thread does leaves the detector alone.
LEMMA ElsewhereDetected ==
    ASSUME TypeOK, Detected, NEW c \in Callers, Check(c) \/ Proceed(c), ~Record(c), ~Judge(c)
    PROVE  Detected'
<1>1. UNCHANGED <<events, cleared>>
  BY DEF Check, Proceed, Peek, Take, Join, HeadTries, Measure, Nap, GiveUp, Leave, Consume,
         CallAnswers, CallFails, CallIsRateLimited
<1>2. \A d \in Callers \ {c} : caller'[d] = caller[d]
  BY DEF Check, Proceed, Peek, Take, Join, HeadTries, Measure, Nap, GiveUp, Leave, Consume,
         CallAnswers, CallFails, CallIsRateLimited, End, GoTo, TypeOK
<1>3. caller'[c].at # "judge"
  <2>1. \/ End(c)
        \/ \E p \in {"peek", "join", "queued", "call"} : GoTo(c, p)
        \/ Peek(c) \/ Take(c) \/ Measure(c) \/ Nap(c) \/ Leave(c)
        \/ caller[c].at = "call" /\ caller' = [caller EXCEPT ![c].attempt = @ + 1]
    BY DEF Check, Proceed, Join, HeadTries, GiveUp, Consume, CallAnswers, CallFails,
           CallIsRateLimited
  <2>2. End(c) => caller'[c].at = "idle"
    BY DEF End, Idle, TypeOK
  <2>3. \A p \in {"peek", "join", "queued", "call"} : GoTo(c, p) => caller'[c].at = p
    BY DEF GoTo, TypeOK, Threads
  <2>4. Peek(c) => caller'[c].at = "take"
    BY DEF Peek, TypeOK, Threads
  <2>5. Take(c) => caller'[c].at \in {"leave", "record", "denied", "join"}
    BY DEF Take, GoTo, TypeOK, Threads
  <2>6. /\ Leave(c) => caller'[c].at = "record"
        /\ Measure(c) => caller'[c].at = "nap"
        /\ Nap(c) => caller'[c].at = "queued"
    BY DEF Leave, Measure, Nap, TypeOK, Threads
  <2>7. caller[c].at = "call" /\ caller' = [caller EXCEPT ![c].attempt = @ + 1]
        => caller'[c].at = "call"
    BY DEF TypeOK, Threads
  <2> QED BY <2>1, <2>2, <2>3, <2>4, <2>5, <2>6, <2>7
<1>4. Judging' \subseteq Judging
  BY <1>2, <1>3 DEF Judging
<1> QED BY <1>1, <1>4, NothingDetected

LEMMA StepDetected == TypeOK /\ Detected /\ [Next]_vars => Detected'
<1> SUFFICES ASSUME TypeOK, Detected, [Next]_vars PROVE Detected'
  OBVIOUS
<1>1. CASE UNCHANGED vars \/ Midnight
  <2>1. Judging' = Judging /\ UNCHANGED <<events, cleared>>
    BY <1>1 DEF vars, Midnight, Judging
  <2> QED BY <2>1, NothingDetected
<1>2. ASSUME NEW c \in Callers, Check(c) \/ Proceed(c) PROVE Detected'
  BY <1>2, RecordDetected, JudgeDetected, ElsewhereDetected
<1> QED BY <1>1, <1>2, TickDetected DEF Next

\* However the threads come between the detector's count and its verdict, and
\* whatever its window and threshold, no more calls than the threshold leave within
\* one window (DosDetector.record).
THEOREM BurstBounded == Spec => []BurstIsBounded
<1>1. Init => TypeOK /\ Detected
  BY InitTyped, InitDetected
<1>2. TypeOK /\ Detected /\ [Next]_vars => TypeOK' /\ Detected'
  BY StepTyped, StepDetected
<1>3. Detected => BurstIsBounded
  BY DEF Detected
<1> QED BY <1>1, <1>2, <1>3, PTL DEF Spec

=============================================================================
