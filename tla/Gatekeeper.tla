----------------------------- MODULE Gatekeeper -----------------------------
(***************************************************************************)
(* The single door in front of every external call (infra/gatekeeper.py,   *)
(* queueing.py, rate_limiter.py, retrying.py), crossed by several threads  *)
(* at once.  Only the overflow queue takes a lock.  A thread of the        *)
(* interpreter may be suspended at any call, so each action runs from one  *)
(* call that touches shared state to the next.                             *)
(*                                                                         *)
(* A tick is the time in which the bucket earns one token: seconds, so no  *)
(* tick falls inside a call of allow or record; one may while the value    *)
(* that seconds_until read is on its way back into the bucket.             *)
(***************************************************************************)
EXTENDS Integers, Sequences, FiniteSets

CONSTANTS Callers,
          Capacity,         \* bucket_capacity
          Window,           \* burst_window_seconds, in ticks
          BurstThreshold,
          DailyLimit,
          MaxDepth,         \* queue_depth
          MaxRetries,
          MaxWait,          \* max_wait_sec, in ticks
          MaxCalls          \* bound: calls made

ASSUME GatekeeperAssumption ==
    /\ IsFiniteSet(Callers) /\ Callers # {}
    /\ Capacity \in Nat \ {0} /\ Window \in Nat /\ BurstThreshold \in Nat
    /\ DailyLimit \in Nat \ {0} /\ MaxDepth \in Nat
    /\ MaxRetries \in Nat /\ MaxWait \in Nat /\ MaxCalls \in Nat

VARIABLES
    tokens,   \* TokenBucket.tokens, refilled
    used,     \* QuotaManager._count
    events,   \* DosDetector._events: how many in the window are of each age or younger
    locked,   \* DosDetector.locked
    waiting,  \* OverflowQueue._waiting: the threads whose tickets are in line
    caller,   \* [Callers -> where a thread is in execute]
    left,     \* calls yet to be made
    cleared,  \* so many calls of each age or younger the detector let pass
    spent     \* calls that passed the quota since midnight

vars == <<tokens, used, events, locked, waiting, caller, left, cleared, spent>>

Ages  == 0 .. Window

Points == {"idle", "peek", "take", "join", "queued", "denied", "nap", "leave",
           "record", "judge", "quota", "call"}

Threads == [at : Points, seen : 0 .. Capacity, waited : 0 .. MaxWait,
            attempt : 0 .. MaxRetries]

Idle == [at |-> "idle", seen |-> 0, waited |-> 0, attempt |-> 0]

InWindow(count) == count[Window]

OneMore(count) == [a \in Ages |-> count[a] + 1]

AtLeastZero(n) == IF n < 0 THEN 0 ELSE n
Capped(n, top) == IF n > top THEN top ELSE n

InLine(c) == c \in {waiting[i] : i \in DOMAIN waiting}

GoTo(c, point) == caller' = [caller EXCEPT ![c].at = point]

\* execute returns or raises.
End(c) == caller' = [caller EXCEPT ![c] = Idle]

-----------------------------------------------------------------------------
(* The gates that refuse. *)

\* check, first thing in execute.
Check(c) ==
    /\ caller[c].at = "idle" /\ left > 0
    /\ left' = left - 1
    /\ IF locked \/ AtLeastZero(DailyLimit - used) = 0
         THEN End(c)
         ELSE GoTo(c, "peek")
    /\ UNCHANGED <<tokens, used, events, locked, waiting, cleared, spent>>

-----------------------------------------------------------------------------
(* The bucket and the queue. *)

\* TokenBucket._refill, up to the value it is about to store.
Peek(c) ==
    /\ caller[c].at = "peek"
    /\ caller' = [caller EXCEPT ![c].at = "take", ![c].seen = tokens]
    /\ UNCHANGED <<left, tokens, used, events, locked, waiting, cleared, spent>>

\* TokenBucket.allow: the value is stored, whatever was taken meanwhile.
Take(c) ==
    /\ caller[c].at = "take"
    /\ IF caller[c].seen >= 1
         THEN /\ tokens' = caller[c].seen - 1
              /\ caller' = [caller EXCEPT ![c].seen = 0,
                              ![c].at = IF InLine(c) THEN "leave" ELSE "record"]
         ELSE /\ tokens' = 0
              /\ GoTo(c, IF InLine(c) THEN "denied" ELSE "join")
    /\ UNCHANGED <<left, used, events, locked, waiting, cleared, spent>>

\* OverflowQueue.take_ticket.
Join(c) ==
    /\ caller[c].at = "join"
    /\ IF Len(waiting) >= MaxDepth
         THEN End(c) /\ UNCHANGED waiting
         ELSE /\ waiting' = Append(waiting, c)
              /\ GoTo(c, "queued")
    /\ UNCHANGED <<left, tokens, used, events, locked, cleared, spent>>

\* is_next: only the head of the line tries the bucket again.
HeadTries(c) ==
    /\ caller[c].at = "queued" /\ caller[c].waited < MaxWait
    /\ Head(waiting) = c
    /\ GoTo(c, "peek")
    /\ UNCHANGED <<left, tokens, used, events, locked, waiting, cleared, spent>>

\* seconds_until, which the others call at once and the head when it was denied:
\* it refills the bucket as well, so what it read is stored, then the thread sleeps.
Measure(c) ==
    /\ \/ caller[c].at = "denied"
       \/ caller[c].at = "queued" /\ caller[c].waited < MaxWait /\ Head(waiting) # c
    /\ caller' = [caller EXCEPT ![c].at = "nap", ![c].seen = tokens]
    /\ UNCHANGED <<left, tokens, used, events, locked, waiting, cleared, spent>>

Nap(c) ==
    /\ caller[c].at = "nap"
    /\ tokens' = caller[c].seen
    /\ caller' = [caller EXCEPT ![c].at = "queued", ![c].seen = 0]
    /\ UNCHANGED <<left, used, events, locked, waiting, cleared, spent>>

\* release, by ticket and not from the head: the rest of the line moves up.
Without(c) ==
    LET place == CHOOSE i \in DOMAIN waiting : waiting[i] = c
    IN  [i \in 1 .. Len(waiting) - 1 |-> waiting[IF i < place THEN i ELSE i + 1]]

GiveUp(c) ==
    /\ caller[c].at = "queued" /\ caller[c].waited = MaxWait
    /\ waiting' = Without(c)
    /\ End(c)
    /\ UNCHANGED <<left, tokens, used, events, locked, cleared, spent>>

Leave(c) ==
    /\ caller[c].at = "leave"
    /\ waiting' = Without(c)
    /\ caller' = [caller EXCEPT ![c].at = "record", ![c].waited = 0]
    /\ UNCHANGED <<left, tokens, used, events, locked, cleared, spent>>

-----------------------------------------------------------------------------
(* DosDetector.record, then QuotaManager.allow, whose verdict is dropped. *)

Record(c) ==
    /\ caller[c].at = "record"
    /\ IF locked
         THEN End(c) /\ UNCHANGED events
         ELSE /\ events' = OneMore(events)
              /\ GoTo(c, "judge")
    /\ UNCHANGED <<left, tokens, used, locked, waiting, cleared, spent>>

\* Mutant: the call that crosses the threshold is still let through.
JudgeLate(c) ==
    /\ caller[c].at = "judge"
    /\ locked' = (locked \/ InWindow(events) > BurstThreshold)
    /\ IF locked
         THEN End(c) /\ UNCHANGED cleared
         ELSE /\ cleared' = OneMore(cleared)
              /\ GoTo(c, "quota")
    /\ UNCHANGED <<left, tokens, used, events, waiting, spent>>

Judge(c) ==
    /\ caller[c].at = "judge"
    /\ IF InWindow(events) > BurstThreshold
         THEN locked' = TRUE /\ End(c) /\ UNCHANGED cleared
         ELSE /\ cleared' = OneMore(cleared)
              /\ GoTo(c, "quota") /\ UNCHANGED locked
    /\ UNCHANGED <<left, tokens, used, events, waiting, spent>>

\* Mutant: the count is not taken.
ConsumeNothing(c) ==
    /\ caller[c].at = "quota"
    /\ spent' = spent + 1
    /\ GoTo(c, "call")
    /\ UNCHANGED <<left, tokens, used, events, locked, waiting, cleared>>

Consume(c) ==
    /\ caller[c].at = "quota"
    /\ used' = Capped(used + 1, DailyLimit)
    /\ spent' = spent + 1
    /\ GoTo(c, "call")
    /\ UNCHANGED <<left, tokens, events, locked, waiting, cleared>>

-----------------------------------------------------------------------------
(* RetryPolicy.run.  A retry, after its delay, passes none of the gates.   *)

CallAnswers(c) ==
    /\ caller[c].at = "call"
    /\ End(c)
    /\ UNCHANGED <<left, tokens, used, events, locked, waiting, cleared, spent>>

\* Mutant: one retry too many.
CallFailsOnceMore(c) ==
    /\ caller[c].at = "call"
    /\ \/ End(c)
       \/ /\ caller[c].attempt <= MaxRetries
          /\ caller' = [caller EXCEPT ![c].attempt = @ + 1]
    /\ UNCHANGED <<left, tokens, used, events, locked, waiting, cleared, spent>>

\* Attempts 1 .. max_retries + 1; a permanent error ends the call at once.
CallFails(c) ==
    /\ caller[c].at = "call"
    /\ \/ End(c)
       \/ /\ caller[c].attempt < MaxRetries
          /\ caller' = [caller EXCEPT ![c].attempt = @ + 1]
    /\ UNCHANGED <<left, tokens, used, events, locked, waiting, cleared, spent>>

\* Mutant: a 429 does not count as an attempt.
CallIsRateLimitedUncounted(c) ==
    /\ caller[c].at = "call"
    /\ tokens' = 0
    /\ UNCHANGED <<left, used, events, locked, waiting, caller, cleared, spent>>

\* HTTP 429: honour_429 drains the bucket before the wait.
CallIsRateLimited(c) ==
    /\ caller[c].at = "call"
    /\ caller[c].attempt < MaxRetries
    /\ tokens' = 0
    /\ caller' = [caller EXCEPT ![c].attempt = @ + 1]
    /\ UNCHANGED <<left, used, events, locked, waiting, cleared, spent>>

-----------------------------------------------------------------------------
(* Time. *)

Older(count) == [a \in Ages |-> IF a = 0 THEN 0 ELSE count[a - 1]]

\* what was read is stored with the time it was read at, so it earns until then
Earned(c) == IF caller[c].at = "nap" THEN Capped(caller[c].seen + 1, Capacity)
                                     ELSE caller[c].seen

Tick ==
    /\ \A c \in Callers : caller[c].at \notin {"take", "judge"}
    /\ tokens' = Capped(tokens + 1, Capacity)
    /\ events' = Older(events) /\ cleared' = Older(cleared)
    /\ caller' = [c \in Callers |-> IF InLine(c)
                    THEN [caller[c] EXCEPT !.waited = Capped(@ + 1, MaxWait),
                                           !.seen = Earned(c)]
                    ELSE caller[c]]
    /\ UNCHANGED <<left, used, locked, waiting, spent>>

\* QuotaManager._roll_over.
Midnight ==
    /\ used' = 0 /\ spent' = 0
    /\ UNCHANGED <<left, tokens, events, locked, waiting, caller, cleared>>

-----------------------------------------------------------------------------
Init ==
    /\ tokens = Capacity
    /\ used = 0 /\ spent = 0
    /\ events = [a \in Ages |-> 0] /\ cleared = [a \in Ages |-> 0]
    /\ locked = FALSE
    /\ waiting = <<>>
    /\ caller = [c \in Callers |-> Idle]
    /\ left = MaxCalls

Proceed(c) ==
    \/ Peek(c) \/ Take(c) \/ Join(c) \/ HeadTries(c) \/ Measure(c) \/ Nap(c)
    \/ GiveUp(c) \/ Leave(c)
    \/ Record(c) \/ Judge(c) \/ Consume(c)
    \/ CallAnswers(c) \/ CallFails(c) \/ CallIsRateLimited(c)

Next ==
    \/ \E c \in Callers : Check(c) \/ Proceed(c)
    \/ Tick \/ Midnight

Spec == Init /\ [][Next]_vars

\* Threads are scheduled, sleeps and calls end, and time goes on: it is only the
\* model that holds it back inside a call.
FairSpec == Spec /\ SF_vars(Tick) /\ \A c \in Callers : WF_vars(Proceed(c))

=============================================================================
