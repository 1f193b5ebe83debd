------------------------ MODULE GatekeeperProperties ------------------------
(* What the four gates promise, whatever threads cross them (Gatekeeper).  *)
EXTENDS Gatekeeper

TypeOK ==
    /\ tokens \in 0 .. Capacity
    /\ used \in 0 .. DailyLimit
    /\ events \in [Ages -> Nat] /\ cleared \in [Ages -> Nat]
    /\ locked \in BOOLEAN
    /\ waiting \in Seq(Callers)
    /\ caller \in [Callers -> Threads]
    /\ left \in 0 .. MaxCalls /\ spent \in Nat

\* No more calls than the burst threshold leave within one window, however their
\* threads interleave between the detector's count and its verdict.
BurstIsBounded == InWindow(cleared) <= BurstThreshold

\* The quota is read before the wait and its second verdict ignored: each of the
\* threads that were waiting may pass the last unit, and no more than that.
OvershootIsBounded == spent <= DailyLimit + Cardinality(Callers) - 1

\* Every call ends: a token is found, or the wait for one is cut off, and the door
\* falls quiet with no ticket left in line: one that outlived its caller would hold
\* up everybody behind it.
EveryCallEnds == []<>(waiting = <<>> /\ \A c \in Callers : caller[c].at = "idle")
=============================================================================
