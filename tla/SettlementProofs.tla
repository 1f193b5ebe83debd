-------------------------- MODULE SettlementProofs --------------------------
(***************************************************************************)
(* Proofs about settlement, for any number of sub-games, replays, crashes  *)
(* and syncs and however the two repositories keep their ledgers: the      *)
(* sentinel holds within a process, and no report leaves before the game   *)
(* is in its sender's ledger, whence only a sync takes it out.             *)
(***************************************************************************)
EXTENDS SettlementProperties, TLAPS, FiniteSetTheorems

\* What the proofs need to know of the types.
Typed ==
    /\ pc \in [Roles -> Points]
    /\ receipt \in [Roles -> {None, "sent", "failed"}]
    /\ attempts \in [Roles -> Nat] /\ cut \in [Roles -> Nat]
    /\ syncs \in Nat
    /\ \A mail \in mails : mail.from \in Roles

One(condition) == IF condition THEN 1 ELSE 0

\* A send is of the process under way, or has left its receipt, or was cut off from
\* it by a crash.
Accounted(r) ==
    /\ attempts[r] = cut[r] + One(pc[r] = "sent") + One(receipt[r] # None)
    /\ pc[r] \in {"counting", "counted", "sent"} => receipt[r] = None

\* The thief's repository was copied over.
CopiedOver(r) == r = "thief" /\ syncs > 0

\* Past the ledger, or with a receipt of having been there, the game is in it.
InLedger(r) ==
    \/ Opponent \in ledger[Home[r]]
    \/ CopiedOver(r)
    \/ /\ pc[r] \notin {"counted", "sent"}
       /\ receipt[r] = None
       /\ \A mail \in mails : mail.from # r

Settled ==
    /\ Typed
    /\ DOMAIN ledger = Homes
    /\ \A r \in Roles : Accounted(r)
    /\ \A r \in Roles : InLedger(r)

LEMMA NoneIsNoReceipt == None # "sent" /\ None # "failed"
BY SettlementAssumption

LEMMA InitSettled == Init => Settled
<1> SUFFICES ASSUME Init PROVE Settled
  OBVIOUS
<1>1. Typed
  BY DEF Init, Typed, Points
<1>2. ASSUME NEW r \in Roles PROVE Accounted(r)
  <2>1. attempts[r] = 0 /\ cut[r] = 0 /\ pc[r] = "idle" /\ receipt[r] = None
    BY DEF Init
  <2> QED BY <2>1 DEF Accounted, One
<1>3. (\A r \in Roles : InLedger(r)) /\ DOMAIN ledger = Homes
  BY DEF Init, InLedger
<1> QED BY <1>1, <1>2, <1>3 DEF Settled

-----------------------------------------------------------------------------
(* Steps that touch neither the sends nor the ledger. *)

\* r moves between two points neither of which is past the ledger.
LEMMA QuietMove ==
    ASSUME Settled, NEW r \in Roles, NEW p \in Points,
           pc' = [pc EXCEPT ![r] = p],
           p \notin {"counting", "counted", "sent"}, pc[r] # "sent",
           UNCHANGED <<receipt, attempts, cut, ledger, mails, syncs>>
    PROVE  Settled'
<1>1. Typed' /\ DOMAIN ledger' = Homes
  BY DEF Settled, Typed
<1>2. \A q \in Roles : Accounted(q)'
  BY DEF Settled, Typed, Accounted, One
<1>3. \A q \in Roles : InLedger(q)'
  BY DEF Settled, Typed, InLedger, CopiedOver
<1> QED BY <1>1, <1>2, <1>3 DEF Settled

LEMMA QuietStep ==
    ASSUME Settled, UNCHANGED <<pc, receipt, attempts, cut, ledger, mails, syncs>>
    PROVE  Settled'
BY DEF Settled, Typed, Accounted, InLedger, CopiedOver, One

LEMMA RecordingKeepsSettled ==
    ASSUME Settled, NEW r \in Roles,
           OpenLog(r) \/ CloseLog(r) \/ GatherLogs(r) \/ WriteResult(r) \/ NotDue(r)
    PROVE  Settled'
<1>1. /\ UNCHANGED <<receipt, attempts, cut, ledger, mails, syncs>>
      /\ pc[r] \in {"idle", "writing", "logged", "gathered", "refreshed"}
      /\ \E p \in {"idle", "writing", "logged", "gathered", "refreshed"} :
            pc' = [pc EXCEPT ![r] = p]
  BY DEF OpenLog, CloseLog, GatherLogs, WriteResult, NotDue, At, BackToIdle, Match, files
<1> QED BY <1>1, QuietMove DEF Points

-----------------------------------------------------------------------------
(* fire_if_settled. *)

LEMMA ReadLedgerKeepsSettled ==
    ASSUME Settled, NEW r \in Roles, ReadLedger(r)
    PROVE  Settled'
<1>1. /\ UNCHANGED <<receipt, attempts, cut, ledger, mails, syncs>>
      /\ pc[r] = "refreshed" /\ receipt[r] = None
  BY DEF ReadLedger, Due, Match, files
<1>2. PICK p \in {"counting", "counted"} :
        /\ pc' = [pc EXCEPT ![r] = p]
        /\ p = "counted" => Opponent \in ledger[Home[r]]
  BY DEF ReadLedger, Entries
<1>3. Typed' /\ DOMAIN ledger' = Homes
  BY <1>1, <1>2 DEF Settled, Typed, Points
<1>4. \A q \in Roles : Accounted(q)'
  BY <1>1, <1>2 DEF Settled, Typed, Accounted, One
<1>5. \A q \in Roles : InLedger(q)'
  BY <1>1, <1>2 DEF Settled, Typed, InLedger, CopiedOver
<1> QED BY <1>3, <1>4, <1>5 DEF Settled

LEMMA WriteLedgerKeepsSettled ==
    ASSUME Settled, NEW r \in Roles, WriteLedger(r)
    PROVE  Settled'
<1>1. /\ UNCHANGED <<receipt, attempts, cut, mails, syncs>>
      /\ pc[r] = "counting" /\ pc' = [pc EXCEPT ![r] = "counted"]
  BY DEF WriteLedger, At, Match
<1>2. ledger' = [ledger EXCEPT ![Home[r]] = job[r].entries \cup {Opponent}]
  BY DEF WriteLedger
<1>3. \A q \in Roles : Home[q] \in Homes
  BY SettlementAssumption
<1>4. ASSUME NEW q \in Roles
      PROVE  \/ Opponent \in ledger'[Home[q]]
             \/ q # r /\ ledger'[Home[q]] = ledger[Home[q]]
  <2>1. ledger'[Home[r]] = job[r].entries \cup {Opponent}
    BY <1>2, <1>3 DEF Settled
  <2>2. CASE Home[q] = Home[r]
    BY <2>1, <2>2
  <2>3. CASE Home[q] # Home[r]
    BY <1>2, <1>3, <2>3 DEF Settled
  <2> QED BY <2>2, <2>3
<1>5. Typed' /\ DOMAIN ledger' = Homes
  BY <1>1, <1>2 DEF Settled, Typed, Points
<1>6. \A q \in Roles : Accounted(q)'
  BY <1>1 DEF Settled, Typed, Accounted, One
<1>7. \A q \in Roles : InLedger(q)'
  BY <1>1, <1>4 DEF Settled, Typed, InLedger, CopiedOver
<1> QED BY <1>5, <1>6, <1>7 DEF Settled

LEMMA SendKeepsSettled ==
    ASSUME Settled, NEW r \in Roles, Send(r)
    PROVE  Settled'
<1>1. /\ UNCHANGED <<receipt, cut, ledger, syncs>>
      /\ pc[r] = "counted" /\ pc' = [pc EXCEPT ![r] = "sent"]
      /\ attempts' = [attempts EXCEPT ![r] = @ + 1]
  BY DEF Send, At, Match, files
<1>2. \A mail \in mails' : mail \in mails \/ mail.from = r
  BY DEF Send, Mailed
<1>3. Typed' /\ DOMAIN ledger' = Homes
  BY <1>1, <1>2 DEF Settled, Typed, Points
<1>4. \A q \in Roles : Accounted(q)'
  BY <1>1 DEF Settled, Typed, Accounted, One
<1>5. Opponent \in ledger[Home[r]] \/ CopiedOver(r)
  BY <1>1 DEF Settled, InLedger
<1>6. \A q \in Roles : InLedger(q)'
  BY <1>1, <1>2, <1>5 DEF Settled, Typed, InLedger, CopiedOver
<1> QED BY <1>3, <1>4, <1>6 DEF Settled

LEMMA WriteReceiptKeepsSettled ==
    ASSUME Settled, NEW r \in Roles, WriteReceipt(r)
    PROVE  Settled'
<1>1. /\ UNCHANGED <<attempts, cut, ledger, mails, syncs>>
      /\ pc[r] = "sent" /\ pc' = [pc EXCEPT ![r] = "idle"]
  BY DEF WriteReceipt, BackToIdle, Match
<1>2. PICK e \in {"sent", "failed"} : receipt' = [receipt EXCEPT ![r] = e]
  BY DEF WriteReceipt
<1>3. Typed' /\ DOMAIN ledger' = Homes
  BY <1>1, <1>2 DEF Settled, Typed, Points
<1>4. \A q \in Roles : Accounted(q)'
  BY <1>1, <1>2, NoneIsNoReceipt DEF Settled, Typed, Accounted, One
<1>5. \A q \in Roles : InLedger(q)'
  BY <1>1, <1>2 DEF Settled, Typed, InLedger, CopiedOver
<1> QED BY <1>3, <1>4, <1>5 DEF Settled

-----------------------------------------------------------------------------
(* What the operator does, and what befalls a process. *)

LEMMA CrashKeepsSettled ==
    ASSUME Settled, NEW r \in Roles, Crash(r)
    PROVE  Settled'
<1>1. /\ UNCHANGED <<receipt, attempts, ledger, mails, syncs>>
      /\ pc' = [pc EXCEPT ![r] = "idle"]
      /\ cut' = [cut EXCEPT ![r] = IF pc[r] = "sent" THEN @ + 1 ELSE @]
  BY DEF Crash, BackToIdle, files
<1>2. Typed' /\ DOMAIN ledger' = Homes
  BY <1>1 DEF Settled, Typed, Points
<1>3. \A q \in Roles : Accounted(q)'
  BY <1>1 DEF Settled, Typed, Accounted, One
<1>4. \A q \in Roles : InLedger(q)'
  BY <1>1 DEF Settled, Typed, InLedger, CopiedOver
<1> QED BY <1>2, <1>3, <1>4 DEF Settled

LEMMA SendByHandKeepsSettled ==
    ASSUME Settled, NEW r \in Roles, SendByHand(r)
    PROVE  Settled'
<1>1. /\ UNCHANGED <<pc, receipt, attempts, cut, ledger, syncs>>
      /\ receipt[r] = "failed"
  BY DEF SendByHand, Match, files
<1>2. \A mail \in mails' : mail \in mails \/ mail.from = r
  BY DEF SendByHand, Mailed
<1>3. Opponent \in ledger[Home[r]] \/ CopiedOver(r)
  BY <1>1, NoneIsNoReceipt DEF Settled, InLedger
<1>4. Typed' /\ DOMAIN ledger' = Homes /\ \A q \in Roles : Accounted(q)'
  BY <1>1, <1>2 DEF Settled, Typed, Accounted, One
<1>5. \A q \in Roles : InLedger(q)'
  BY <1>1, <1>2, <1>3 DEF Settled, InLedger, CopiedOver
<1> QED BY <1>4, <1>5 DEF Settled

LEMMA SyncKeepsSettled == ASSUME Settled, Sync PROVE Settled'
<1>1. /\ UNCHANGED <<pc, receipt, attempts, cut, mails>> /\ syncs' = syncs + 1
      /\ ledger[Home["thief"]] # ledger[Home["police"]]
      /\ ledger' = [ledger EXCEPT ![Home["thief"]] = ledger[Home["police"]]]
  BY DEF Sync
<1>2. ledger'[Home["police"]] = ledger[Home["police"]] /\ DOMAIN ledger' = Homes
  BY <1>1 DEF Settled
<1>3. Typed' /\ \A q \in Roles : Accounted(q)'
  BY <1>1 DEF Settled, Typed, Accounted, One
<1>4. CopiedOver("thief")'
  BY <1>1 DEF Settled, Typed, CopiedOver
<1>5. \A q \in Roles : InLedger(q)'
  BY <1>1, <1>2, <1>4 DEF Settled, InLedger, CopiedOver, Roles
<1> QED BY <1>2, <1>3, <1>5 DEF Settled

LEMMA StepKeepsSettled == Settled /\ [Next]_vars => Settled'
<1> SUFFICES ASSUME Settled, [Next]_vars PROVE Settled'
  OBVIOUS
<1>1. CASE UNCHANGED vars
  BY <1>1, QuietStep DEF vars, files
<1>2. CASE EndSubGame
  BY <1>2, QuietStep DEF EndSubGame, files
<1>3. ASSUME NEW k \in 1..SubGames, Replay(k) PROVE Settled'
  BY <1>3, QuietStep DEF Replay, files
<1>4. ASSUME NEW r \in Roles, Step(r) PROVE Settled'
  BY <1>4, RecordingKeepsSettled, ReadLedgerKeepsSettled, WriteLedgerKeepsSettled,
     SendKeepsSettled, WriteReceiptKeepsSettled DEF Step
<1> QED BY <1>1, <1>2, <1>3, <1>4, CrashKeepsSettled, SendByHandKeepsSettled,
           SyncKeepsSettled DEF Next

\* The strengthened invariant: where each process is accounts for its sends.
THEOREM Invariance == Spec => []Settled
<1>1. Init => Settled
  BY InitSettled
<1>2. Settled /\ [Next]_vars => Settled'
  BY StepKeepsSettled
<1> QED BY <1>1, <1>2, PTL DEF Spec

\* However often sub-games are played again and wherever processes crash, a process
\* attempts its report once, and once more only for a crash between a send and its
\* receipt.
THEOREM SentinelHolds == Spec => []AttemptedOncePerProcess
<1>1. ASSUME Settled, NEW r \in Roles PROVE attempts[r] <= 1 + cut[r]
  <2>1. attempts[r] = cut[r] + One(pc[r] = "sent") + One(receipt[r] # None)
    BY <1>1 DEF Settled, Accounted
  <2>2. One(pc[r] = "sent") + One(receipt[r] # None) \in {0, 1}
    BY <1>1 DEF Settled, Accounted, One
  <2>3. cut[r] \in Nat
    BY <1>1 DEF Settled, Typed
  <2>4. One(pc[r] = "sent") \in Nat /\ One(receipt[r] # None) \in Nat
    BY DEF One
  <2> QED BY <2>1, <2>2, <2>3, <2>4
<1>2. Settled => AttemptedOncePerProcess
  BY <1>1 DEF AttemptedOncePerProcess
<1> QED BY <1>2, Invariance, PTL

\* No report of either process, sent by itself or by hand, precedes its ledger, and
\* only a sync, which copies the cop's ledger over the thief's, takes the game out
\* of one again.
THEOREM LedgerIsFirst == Spec => []LedgerComesFirst
<1>1. Settled => LedgerComesFirst
  BY DEF Settled, Typed, InLedger, CopiedOver, LedgerComesFirst
<1> QED BY <1>1, Invariance, PTL

-----------------------------------------------------------------------------
(***************************************************************************)
(* The places of the rows.  A complete report has a row for every sub-game *)
(* of the series, so its logs are all there are, and then canonical_indices *)
(* puts each where it belongs: numbers that are 1..N are the sub-games',   *)
(* and in any other numbering they stand in the order of the role's slots. *)
(***************************************************************************)
TermsTyped == terms \in [convention : Conventions, numbering : Numberings]

LEMMA RoleInIsARole == \A k : RoleIn(k) \in Roles
BY DEF RoleIn, RoleFor, Roles

\* The sub-games up to k in the role of k.
SameRole(k) == {i \in 1..k : RoleIn(i) = RoleIn(k)}

LEMMA SizeOfInterval == \A n \in Nat : IsFiniteSet(1..n) /\ Cardinality(1..n) = n
BY FS_Interval

LEMMA SameRoleCounts ==
    ASSUME NEW k \in Nat \ {0}
    PROVE  /\ IsFiniteSet(SameRole(k)) /\ Cardinality(SameRole(k)) \in 1..k
           /\ \A j \in 1..k : j < k /\ RoleIn(j) = RoleIn(k) =>
                Cardinality(SameRole(j)) < Cardinality(SameRole(k))
<1>1. SameRole(k) \subseteq 1..k /\ k \in SameRole(k) /\ IsFiniteSet(1..k)
  BY SizeOfInterval DEF SameRole
<1>2. IsFiniteSet(SameRole(k)) /\ Cardinality(SameRole(k)) <= k
  BY <1>1, SizeOfInterval, FS_Subset
<1>3. Cardinality(SameRole(k)) \in Nat
  BY <1>2, FS_CardinalityType
<1>4. Cardinality(SameRole(k)) # 0
  BY <1>1, <1>2, FS_EmptySet
<1>5. ASSUME NEW j \in 1..k, j < k, RoleIn(j) = RoleIn(k)
      PROVE  Cardinality(SameRole(j)) < Cardinality(SameRole(k))
  <2>1. SameRole(j) \subseteq SameRole(k) \ {k}
    BY <1>5 DEF SameRole
  <2>2. IsFiniteSet(SameRole(k) \ {k}) /\ Cardinality(SameRole(k) \ {k}) = Cardinality(SameRole(k)) - 1
    BY <1>1, <1>2, FS_RemoveElement
  <2>3. Cardinality(SameRole(j)) <= Cardinality(SameRole(k) \ {k})
    BY <2>1, <2>2, FS_Subset
  <2>4. IsFiniteSet(SameRole(j)) /\ Cardinality(SameRole(j)) \in Nat
    BY <2>1, <2>2, FS_Subset, FS_CardinalityType
  <2> QED BY <1>3, <2>2, <2>3, <2>4
<1> QED BY <1>2, <1>3, <1>4, <1>5

\* Within a role, numbers grow with the sub-games.
LEMMA NumbersGrow ==
    ASSUME TermsTyped
    PROVE  /\ \A k \in 1..SubGames : NumberOf(k) \in Nat
           /\ \A j, k \in 1..SubGames : j < k /\ RoleIn(j) = RoleIn(k) =>
                NumberOf(j) < NumberOf(k)
<1>1. terms.numbering \in {"global", "offset", "per_role"} /\ SubGames \in Nat
  BY SettlementAssumption DEF TermsTyped, Numberings
<1>2. CASE terms.numbering = "global"
  <2>1. \A k : NumberOf(k) = k
    BY <1>2 DEF NumberOf
  <2> QED BY <1>1, <2>1
<1>3. CASE terms.numbering = "offset"
  <2>1. \A k : NumberOf(k) = k + 1
    BY <1>3 DEF NumberOf
  <2> QED BY <1>1, <2>1
<1>4. CASE terms.numbering = "per_role"
  <2>1. \A k : NumberOf(k) = Cardinality(SameRole(k))
    BY <1>4 DEF NumberOf, SameRole
  <2>2. ASSUME NEW k \in 1..SubGames PROVE NumberOf(k) \in Nat
    BY <1>1, <2>1, SameRoleCounts
  <2>3. ASSUME NEW j \in 1..SubGames, NEW k \in 1..SubGames, j < k, RoleIn(j) = RoleIn(k)
        PROVE  NumberOf(j) < NumberOf(k)
    <3>1. k \in Nat \ {0} /\ j \in 1..k
      BY <1>1, <2>3
    <3> QED BY <2>1, <2>3, <3>1, SameRoleCounts
  <2> QED BY <2>2, <2>3
<1> QED BY <1>1, <1>2, <1>3, <1>4

-----------------------------------------------------------------------------
(* Ranks. *)

Below(x, S) == {y \in S : y < x}

LEMMA RankCounts == \A x, S : Rank(x, S) = Cardinality(Below(x, S))
BY DEF Rank, Below

\* Two members of a finite set of numbers differ in rank.
LEMMA RanksDiffer ==
    ASSUME NEW S \in SUBSET Nat, IsFiniteSet(S), NEW i \in S, NEW j \in S, i < j
    PROVE  Rank(i, S) # Rank(j, S)
<1>0. \A y \in S : y \in Nat
  OBVIOUS
<1>1. Below(i, S) \cup {i} \subseteq Below(j, S) /\ i \notin Below(i, S)
  <2>1. \A y \in S : y < i => y < j
    BY <1>0
  <2>2. ~(i < i)
    BY <1>0
  <2> QED BY <2>1, <2>2 DEF Below
<1>2. IsFiniteSet(Below(i, S)) /\ IsFiniteSet(Below(j, S))
  BY FS_Subset DEF Below
<1>3. /\ Cardinality(Below(i, S)) \in Nat /\ Cardinality(Below(j, S)) \in Nat
      /\ Cardinality(Below(i, S) \cup {i}) = Cardinality(Below(i, S)) + 1
  BY <1>1, <1>2, FS_CardinalityType, FS_AddElement
<1>4. Cardinality(Below(i, S) \cup {i}) <= Cardinality(Below(j, S))
  BY <1>1, <1>2, FS_Subset
<1> QED BY <1>3, <1>4, RankCounts

\* A numbering that grows keeps ranks.
LEMMA RanksCarryOver ==
    ASSUME NEW S \in SUBSET Nat, IsFiniteSet(S), NEW f \in [S -> Nat],
           \A i, j \in S : i < j => f[i] < f[j],
           NEW k \in S
    PROVE  Rank(f[k], {f[i] : i \in S}) = Rank(k, S)
<1> DEFINE A == Below(k, S)
           T == {f[i] : i \in S}
           B == Below(f[k], T)
           g == [i \in A |-> f[i]]
<1>1. A \subseteq S /\ \A i \in S : i \in A <=> i < k
  BY DEF Below
<1>2. \A i \in S : f[i] \in Nat /\ f[i] \in T /\ i \in Nat
  OBVIOUS
<1>3. \A i \in S : f[i] < f[k] => i < k
  BY <1>2
<1>4. \A b \in B : b \in T /\ b < f[k]
  BY DEF Below
<1>5. \A i \in A : f[i] \in B
  BY <1>1, <1>2 DEF Below
<1>6. \A b \in B : \E i \in A : b = f[i]
  BY <1>1, <1>3, <1>4
<1>7. ASSUME NEW i \in A, NEW j \in A, f[i] = f[j]
      PROVE  i = j
  <2>1. i \in S /\ j \in S /\ i \in Nat /\ j \in Nat /\ f[i] \in Nat /\ f[j] \in Nat
    BY <1>1, <1>2
  <2>2. ~(i < j) /\ ~(j < i)
    BY <1>7, <2>1
  <2> QED BY <2>1, <2>2
<1> HIDE DEF A, B, T
<1>8. g \in Bijection(A, B)
  <2>1. g \in [A -> B]
    BY <1>5
  <2>2. \A i, j \in A : g[i] = g[j] => i = j
    BY <1>7
  <2>3. \A b \in B : \E i \in A : g[i] = b
    BY <1>6
  <2>4. g \in Injection(A, B)
    BY <2>1, <2>2 DEF Injection, IsInjective
  <2>5. g \in Surjection(A, B)
    BY <2>1, <2>3 DEF Surjection
  <2> QED BY <2>4, <2>5 DEF Bijection
<1>9. IsFiniteSet(A)
  BY <1>1, FS_Subset
<1>10. Cardinality(B) = Cardinality(A)
  BY <1>8, <1>9, FS_Bijection DEF ExistsBijection
<1> QED BY <1>10, RankCounts DEF A, B, T

-----------------------------------------------------------------------------
\* The logs of the whole series, all of them whole.
All == {LogOf(k, TRUE) : k \in 1..SubGames}

LEMMA LogFields ==
    \A k, w : /\ LogOf(k, w).game = k /\ LogOf(k, w).number = NumberOf(k)
              /\ LogOf(k, w).role = RoleIn(k) /\ LogOf(k, w).whole = w
BY DEF LogOf

LEMMA AllFields ==
    \A log \in All : \E k \in 1..SubGames :
        /\ log = LogOf(k, TRUE) /\ log.game = k /\ log.number = NumberOf(k)
        /\ log.role = RoleIn(k)
<1> SUFFICES ASSUME NEW log \in All
             PROVE  \E k \in 1..SubGames :
                        /\ log = LogOf(k, TRUE) /\ log.game = k /\ log.number = NumberOf(k)
                        /\ log.role = RoleIn(k)
  OBVIOUS
<1>1. PICK k \in 1..SubGames : log = LogOf(k, TRUE)
  BY DEF All
<1>2. /\ LogOf(k, TRUE).game = k /\ LogOf(k, TRUE).number = NumberOf(k)
      /\ LogOf(k, TRUE).role = RoleIn(k)
  BY LogFields
<1> QED BY <1>1, <1>2

LEMMA AllCount == IsFiniteSet(All) /\ Cardinality(All) = SubGames
<1> DEFINE f == [k \in 1..SubGames |-> LogOf(k, TRUE)]
<1>1. f \in [1..SubGames -> All]
  BY DEF All
<1>2. \A j, k \in 1..SubGames : f[j] = f[k] => j = k
  <2>1. \A k \in 1..SubGames : f[k].game = k
    BY LogFields
  <2> QED BY <2>1
<1>3. \A log \in All : \E k \in 1..SubGames : f[k] = log
  BY DEF All
<1>4. f \in Injection(1..SubGames, All) /\ f \in Surjection(1..SubGames, All)
  BY <1>1, <1>2, <1>3 DEF Injection, IsInjective, Surjection
<1>5. f \in Bijection(1..SubGames, All)
  BY <1>4 DEF Bijection
<1>6. SubGames \in Nat /\ IsFiniteSet(1..SubGames) /\ Cardinality(1..SubGames) = SubGames
  BY SettlementAssumption, SizeOfInterval
<1> QED BY <1>5, <1>6, FS_Bijection DEF ExistsBijection

\* Numbers that happen to be 1..N are the sub-games' own: two repositories that
\* number on their own do so only if all the sub-games are in one of them.
LEMMA NumberedAsPlayed ==
    ASSUME TermsTyped, Numbered(All), NEW k \in 1..SubGames
    PROVE  NumberOf(k) = k
<1>1. {NumberOf(j) : j \in 1..SubGames} = 1..SubGames
  <2>1. {log.number : log \in All} = {NumberOf(j) : j \in 1..SubGames}
    <3>1. \A log \in All : \E j \in 1..SubGames : log.number = NumberOf(j)
      BY AllFields
    <3>2. ASSUME NEW j \in 1..SubGames
          PROVE  \E log \in All : log.number = NumberOf(j)
      <4>1. LogOf(j, TRUE) \in All /\ LogOf(j, TRUE).number = NumberOf(j)
        BY LogFields DEF All
      <4> QED BY <4>1
    <3> QED BY <3>1, <3>2
  <2> QED BY <2>1, AllCount DEF Numbered
<1>2. terms.numbering \in {"global", "offset", "per_role"} /\ SubGames \in Nat \ {0}
  BY SettlementAssumption DEF TermsTyped, Numberings
<1>3. CASE terms.numbering = "global"
  BY <1>3 DEF NumberOf
<1>4. CASE terms.numbering = "offset"
  <2>1. NumberOf(SubGames) = SubGames + 1
    BY <1>4 DEF NumberOf
  <2>2. SubGames + 1 \in 1..SubGames
    BY <1>1, <1>2, <2>1
  <2> QED BY <1>2, <2>2
<1>5. CASE terms.numbering = "per_role"
  <2>1. \A j : NumberOf(j) = Cardinality(SameRole(j))
    BY <1>5 DEF NumberOf, SameRole
  <2>2. PICK j \in 1..SubGames : Cardinality(SameRole(j)) = SubGames
    BY <1>1, <1>2, <2>1
  <2>3. SameRole(j) \subseteq 1..j /\ Cardinality(SameRole(j)) <= j
    BY <1>2, SizeOfInterval, FS_Subset DEF SameRole
  <2>4. j = SubGames
    BY <1>2, <2>2, <2>3
  <2>5. SameRole(SubGames) = 1..SubGames
    BY <1>2, <2>2, <2>3, <2>4, SizeOfInterval, FS_Subset
  <2>6. \A i \in 1..SubGames : RoleIn(i) = RoleIn(SubGames)
    BY <2>5 DEF SameRole
  <2>7. SameRole(k) = 1..k
    <3>1. 1..k \subseteq 1..SubGames
      BY <1>2
    <3> QED BY <2>6, <3>1 DEF SameRole
  <2>8. Cardinality(1..k) = k
    BY <1>2, SizeOfInterval
  <2> QED BY <2>1, <2>7, <2>8
<1> QED BY <1>2, <1>3, <1>4, <1>5

\* In any other numbering, the slot of the same rank.
LEMMA SlotIsTheGame ==
    ASSUME TermsTyped, NEW k \in 1..SubGames
    PROVE  SlotOf(LogOf(k, TRUE), All) = k
<1> DEFINE log == LogOf(k, TRUE)
           S == Slots(log.role, Cardinality(All))
           f == [s \in S |-> NumberOf(s)]
           same == {l.number : l \in {m \in All : m.role = log.role}}
           fits == {s \in S : Rank(s, S) = Rank(log.number, same)}
<1>1. S = {s \in 1..SubGames : RoleIn(s) = RoleIn(k)}
  BY AllCount, LogFields DEF Slots, RoleIn
<1>2. k \in S /\ S \subseteq 1..SubGames /\ SubGames \in Nat
  BY <1>1, SettlementAssumption
<1>3. S \in SUBSET Nat /\ IsFiniteSet(S)
  <2> HIDE DEF S
  <2>1. S \in SUBSET (1..SubGames) /\ IsFiniteSet(1..SubGames)
    BY <1>2, SizeOfInterval
  <2>2. IsFiniteSet(S)
    BY <2>1, FS_Subset
  <2>3. \A s \in S : s \in Nat
    BY <1>2
  <2> QED BY <2>2, <2>3
<1>4. same = {f[i] : i \in S}
  <2>1. \A s \in S : /\ LogOf(s, TRUE) \in All /\ LogOf(s, TRUE).role = log.role
                     /\ LogOf(s, TRUE).number = f[s]
    BY <1>1, LogFields DEF All
  <2>2. \A m \in All : m.role = log.role => \E s \in S : m = LogOf(s, TRUE)
    BY <1>1, LogFields DEF All
  <2> HIDE DEF f, S, log
  <2>3. \A x \in same : \E s \in S : x = f[s]
    <3>1. ASSUME NEW m \in All, m.role = log.role
          PROVE  \E s \in S : m.number = f[s]
      BY <2>1, <2>2, <3>1
    <3> QED BY <3>1
  <2>4. \A s \in S : f[s] \in same
    BY <2>1
  <2> HIDE DEF same
  <2> QED BY <2>3, <2>4
<1>5. log.number = f[k]
  BY <1>2, LogFields
<1>6. f \in [S -> Nat]
  BY <1>2, NumbersGrow
<1>7. \A i, j \in S : i < j => f[i] < f[j]
  BY <1>1, <1>2, NumbersGrow
<1>8. SlotOf(log, All) = IF fits = {} THEN 0 ELSE CHOOSE s \in fits : TRUE
  BY DEF SlotOf
<1>9. fits = {s \in S : Rank(s, S) = Rank(f[k], {f[i] : i \in S})}
  BY <1>4, <1>5
<1> HIDE DEF S, f, same, log, fits
<1>10. Rank(f[k], {f[i] : i \in S}) = Rank(k, S)
  BY <1>2, <1>3, <1>6, <1>7, RanksCarryOver
<1>11. ASSUME NEW s \in S, Rank(s, S) = Rank(k, S)
       PROVE  s = k
  <2>1. s \in Nat /\ k \in Nat
    BY <1>2, <1>3
  <2>2. ~(s < k) /\ ~(k < s)
    BY <1>2, <1>3, <1>11, RanksDiffer
  <2> QED BY <2>1, <2>2
<1>12. fits = {k}
  BY <1>2, <1>9, <1>10, <1>11
<1> QED BY <1>8, <1>12 DEF log

\* canonical_indices, of a series that is complete.
LEMMA PlacesAreGames ==
    ASSUME TermsTyped, NEW k \in 1..SubGames
    PROVE  Position(LogOf(k, TRUE), All) = k
BY NumberedAsPlayed, SlotIsTheGame, LogFields DEF Position

\* The rows of a report made of these logs.
RowOf(log, found) ==
    [position |-> Position(log, found), game |-> log.game, role |-> log.role]
RowsOf(found) == {RowOf(log, found) : log \in found}

\* As many rows as sub-games were signed are the rows of all of them.
LEMMA AllRows ==
    ASSUME NEW found \in SUBSET All, Cardinality(RowsOf(found)) = SubGames
    PROVE  found = All
<1> DEFINE rows == RowsOf(found)
           g == [row \in rows |-> row.game]
<1>1. \A row \in rows : \E log \in found : row = RowOf(log, found) /\ row.game = log.game
  BY DEF RowsOf, RowOf
<1>2. \A log \in found : \E k \in 1..SubGames : log = LogOf(k, TRUE) /\ log.game = k
  BY AllFields
<1>3. g \in [rows -> 1..SubGames]
  <2>1. ASSUME NEW row \in rows PROVE row.game \in 1..SubGames
    <3>1. PICK log \in found : row.game = log.game
      BY <1>1
    <3> QED BY <1>2, <3>1
  <2> QED BY <2>1
<1>4. ASSUME NEW x \in rows, NEW y \in rows, g[x] = g[y]
      PROVE  x = y
  <2>1. PICK a \in found : x = RowOf(a, found) /\ x.game = a.game
    BY <1>1
  <2>2. PICK b \in found : y = RowOf(b, found) /\ y.game = b.game
    BY <1>1
  <2>3. a = LogOf(a.game, TRUE) /\ b = LogOf(b.game, TRUE)
    BY <1>2
  <2>4. a.game = b.game
    BY <1>4, <2>1, <2>2
  <2> QED BY <2>1, <2>2, <2>3, <2>4
<1>5. IsFiniteSet(1..SubGames) /\ Cardinality(1..SubGames) = SubGames
  BY SettlementAssumption, SizeOfInterval
<1> HIDE DEF rows
<1>6. g \in Injection(rows, 1..SubGames)
  BY <1>3, <1>4 DEF Injection, IsInjective
<1>7. Cardinality(rows) = SubGames
  BY DEF rows
<1>8. g \in Surjection(rows, 1..SubGames)
  BY <1>5, <1>6, <1>7, FS_Injection
<1>9. ASSUME NEW k \in 1..SubGames
      PROVE  LogOf(k, TRUE) \in found
  <2>1. PICK row \in rows : g[row] = k
    BY <1>8 DEF Surjection
  <2>2. PICK log \in found : row.game = log.game
    BY <1>1, <2>1
  <2>3. log = LogOf(k, TRUE)
    BY <1>2, <2>1, <2>2
  <2> QED BY <2>3
<1>10. All \subseteq found
  BY <1>9 DEF All
<1> QED BY <1>10

\* A report with the signed number of rows says what was played.
LEMMA CompleteIsTrue ==
    ASSUME TermsTyped, NEW found \in SUBSET All, Cardinality(RowsOf(found)) = SubGames
    PROVE  /\ {row.game : row \in RowsOf(found)} = 1..SubGames
           /\ \A row \in RowsOf(found) : row.position = row.game /\ row.role = RoleIn(row.game)
<1>1. found = All
  BY AllRows
<1>2. ASSUME NEW row \in RowsOf(All)
      PROVE  /\ row.game \in 1..SubGames
             /\ row.position = row.game /\ row.role = RoleIn(row.game)
  <2>1. PICK log \in All : row = RowOf(log, All)
    BY <1>2 DEF RowsOf
  <2>2. PICK k \in 1..SubGames : /\ log = LogOf(k, TRUE) /\ log.game = k
                                 /\ log.role = RoleIn(k)
    BY AllFields
  <2>3. row.position = Position(log, All) /\ row.game = log.game /\ row.role = log.role
    BY <2>1 DEF RowOf
  <2>4. Position(log, All) = k
    BY <2>2, PlacesAreGames
  <2> QED BY <2>2, <2>3, <2>4
<1>3. ASSUME NEW k \in 1..SubGames
      PROVE  \E row \in RowsOf(All) : row.game = k
  <2>1. LogOf(k, TRUE) \in All /\ LogOf(k, TRUE).game = k
    BY LogFields DEF All
  <2>2. RowOf(LogOf(k, TRUE), All) \in RowsOf(All) /\ RowOf(LogOf(k, TRUE), All).game = k
    BY <2>1 DEF RowsOf, RowOf
  <2> QED BY <2>2
<1>4. {row.game : row \in RowsOf(All)} = 1..SubGames
  BY <1>2, <1>3
<1> QED BY <1>1, <1>2, <1>4

-----------------------------------------------------------------------------
(***************************************************************************)
(* That every report mailed is one of those: what a process gathered were  *)
(* whole logs of sub-games that were over, and its result file is not      *)
(* rewritten between the check that it is complete and the send.           *)
(***************************************************************************)
FromLogs(report) == \E found \in SUBSET All : report.rows = RowsOf(found)

Checked == {"counting", "counted", "sent"}

Jobs(entries) ==
    [game : 0..SubGames, found : SUBSET All, entries : {entries}, sent : BOOLEAN]

\* A process at p with job j, its log files, its result file, its receipt, and the
\* sub-games it has not recorded yet.
RecordedAs(e, l, j, p, report, sentinel) ==
    /\ e \subseteq 1..SubGames
    /\ \A log \in l : \E k \in 1..SubGames, w \in BOOLEAN : log = LogOf(k, w)
    /\ j \in Jobs(j.entries)
    /\ p = "writing" => j.game \in 1..SubGames
    /\ p \in {"refreshed"} \cup Checked \/ sentinel # None => FromLogs(report)
    /\ p \in Checked => Complete(report)

Recorded(r) == RecordedAs(ended[r], logs[r], job[r], pc[r], result[r], receipt[r])

Reported(mail) == FromLogs(mail.report) /\ Complete(mail.report)

Told ==
    /\ TermsTyped
    /\ over \in 0..SubGames
    /\ DOMAIN ended = Roles /\ DOMAIN logs = Roles /\ DOMAIN job = Roles
    /\ DOMAIN pc = Roles /\ DOMAIN result = Roles /\ DOMAIN receipt = Roles
    /\ \A r \in Roles : Recorded(r)
    /\ \A mail \in mails : Reported(mail)


\* The pairing's terms are never changed, nor is what follows from them.
LEMMA TermsStay ==
    ASSUME UNCHANGED terms
    PROVE  /\ TermsTyped' = TermsTyped
           /\ \A k, w : LogOf(k, w)' = LogOf(k, w)
           /\ All' = All
           /\ \A found : RowsOf(found)' = RowsOf(found)
<1>1. \A k : RoleIn(k)' = RoleIn(k)
  BY DEF RoleIn
<1>2. \A k : NumberOf(k)' = NumberOf(k)
  BY <1>1 DEF NumberOf
<1>3. \A k, w : LogOf(k, w)' = LogOf(k, w)
  BY <1>1, <1>2 DEF LogOf
<1>4. All' = All
  BY <1>3 DEF All
<1>5. \A log, found : SlotOf(log, found)' = SlotOf(log, found)
  BY DEF SlotOf, Slots
<1>6. \A log, found : RowOf(log, found)' = RowOf(log, found)
  BY <1>5 DEF RowOf, Position
<1>7. \A found : RowsOf(found)' = RowsOf(found)
  BY <1>6 DEF RowsOf
<1>8. TermsTyped' = TermsTyped
  BY DEF TermsTyped
<1> QED BY <1>3, <1>4, <1>7, <1>8

LEMMA RecordedNext ==
    ASSUME UNCHANGED terms, NEW r,
           RecordedAs(ended'[r], logs'[r], job'[r], pc'[r], result'[r], receipt'[r])
    PROVE  Recorded(r)'
BY TermsStay DEF Recorded, RecordedAs, FromLogs, Jobs, Complete

\* A step of r, which alone changes what r keeps.
LEMMA ToldNext ==
    ASSUME Told, NEW r \in Roles, UNCHANGED terms, over' \in 0..SubGames,
           DOMAIN ended' = Roles, DOMAIN logs' = Roles, DOMAIN job' = Roles,
           DOMAIN pc' = Roles, DOMAIN result' = Roles, DOMAIN receipt' = Roles,
           \A q \in Roles \ {r} :
                /\ ended'[q] = ended[q] /\ logs'[q] = logs[q] /\ job'[q] = job[q]
                /\ pc'[q] = pc[q] /\ result'[q] = result[q] /\ receipt'[q] = receipt[q],
           RecordedAs(ended'[r], logs'[r], job'[r], pc'[r], result'[r], receipt'[r]),
           \A mail \in mails' : mail \in mails \/ Reported(mail)
    PROVE  Told'
<1>1. ASSUME NEW q \in Roles
      PROVE  Recorded(q)'
  <2>1. RecordedAs(ended'[q], logs'[q], job'[q], pc'[q], result'[q], receipt'[q])
    BY DEF Told, Recorded
  <2> QED BY <2>1, RecordedNext
<1>2. \A mail \in mails' : Reported(mail)
  BY DEF Told
<1>3. (\A mail \in mails : Reported(mail))'
  BY <1>2, TermsStay DEF Reported, FromLogs, Complete
<1>4. TermsTyped'
  BY TermsStay DEF Told
<1> QED BY <1>1, <1>3, <1>4 DEF Told


LEMMA WhereRIs ==
    ASSUME Told, NEW r \in Roles
    PROVE  /\ RecordedAs(ended[r], logs[r], job[r], pc[r], result[r], receipt[r])
           /\ ended[r] \subseteq 1..SubGames
           /\ \A log \in logs[r] : \E k \in 1..SubGames, w \in BOOLEAN : log = LogOf(k, w)
           /\ job[r] \in Jobs(job[r].entries)
           /\ DOMAIN ended = Roles /\ DOMAIN logs = Roles /\ DOMAIN job = Roles
           /\ DOMAIN pc = Roles /\ DOMAIN result = Roles /\ DOMAIN receipt = Roles
           /\ over \in 0..SubGames
BY DEF Told, Recorded, RecordedAs

LEMMA JobFields ==
    ASSUME NEW j, NEW e, j \in Jobs(e)
    PROVE  /\ \A k \in 0..SubGames : [j EXCEPT !.game = k] \in Jobs(e) /\ [j EXCEPT !.game = k].game = k
           /\ \A f \in SUBSET All : [j EXCEPT !.found = f] \in Jobs(e) /\ [j EXCEPT !.found = f].found = f
           /\ \A x : [j EXCEPT !.entries = x] \in Jobs(x)
           /\ \A w \in BOOLEAN : [j EXCEPT !.sent = w] \in Jobs(e)
           /\ j.entries = e /\ j.game \in 0..SubGames /\ j.found \in SUBSET All
BY DEF Jobs

LEMMA FreeJob == Free \in Jobs(Free.entries)
BY SettlementAssumption DEF Free, Jobs

-----------------------------------------------------------------------------
(* Recording. *)

LEMMA EndingKeepsTold ==
    ASSUME Told, NEW k \in 1..SubGames, EndOf(k), over' \in 0..SubGames,
           UNCHANGED <<terms, files, mails, pc, job>>
    PROVE  Told'
<1> DEFINE r == RoleIn(k)
<1>1. r \in Roles
  BY RoleInIsARole
<1>2. ended' = [ended EXCEPT ![r] = @ \cup {k}] /\ UNCHANGED <<logs, result, receipt>>
  BY DEF EndOf, files
<1> HIDE DEF r
<1>3. RecordedAs(ended'[r], logs'[r], job'[r], pc'[r], result'[r], receipt'[r])
  <2>1. ended'[r] = ended[r] \cup {k}
    BY <1>1, <1>2, WhereRIs
  <2> QED BY <1>1, <1>2, <2>1, WhereRIs DEF RecordedAs
<1> QED BY <1>1, <1>2, <1>3, WhereRIs, ToldNext

LEMMA OpenLogKeepsTold ==
    ASSUME Told, NEW r \in Roles, OpenLog(r)
    PROVE  Told'
<1>1. PICK k \in ended[r] :
        /\ ended' = [ended EXCEPT ![r] = @ \ {k}]
        /\ job' = [job EXCEPT ![r].game = k]
        /\ logs' = [logs EXCEPT ![r] =
                {log \in @ : log.number # NumberOf(k)} \cup {LogOf(k, FALSE)}]
  BY DEF OpenLog
<1>2. /\ pc[r] = "idle" /\ pc' = [pc EXCEPT ![r] = "writing"]
      /\ UNCHANGED <<terms, over, result, receipt, mails>>
  BY DEF OpenLog, At, Match
<1>3. k \in 1..SubGames /\ k \in 0..SubGames
  BY <1>1, WhereRIs
<1>4. /\ ended'[r] \subseteq 1..SubGames
      /\ \A log \in logs'[r] : \E i \in 1..SubGames, w \in BOOLEAN : log = LogOf(i, w)
  BY <1>1, <1>3, WhereRIs
<1>5. job'[r] = [job[r] EXCEPT !.game = k]
  BY <1>1, WhereRIs
<1>6. job'[r] \in Jobs(job'[r].entries) /\ job'[r].game = k
  <2>1. job'[r] \in Jobs(job[r].entries) /\ job'[r].game = k
    BY <1>3, <1>5, WhereRIs, JobFields
  <2> QED BY <2>1, JobFields
<1>7. pc'[r] = "writing" /\ receipt'[r] = receipt[r] /\ result'[r] = result[r]
  BY <1>2, WhereRIs
<1>8. RecordedAs(ended'[r], logs'[r], job'[r], pc'[r], result'[r], receipt'[r])
  BY <1>3, <1>4, <1>6, <1>7, WhereRIs DEF RecordedAs, Checked
<1> QED BY <1>1, <1>2, <1>8, WhereRIs, ToldNext

LEMMA CloseLogKeepsTold ==
    ASSUME Told, NEW r \in Roles, CloseLog(r)
    PROVE  Told'
<1> DEFINE k == job[r].game
<1>1. /\ pc[r] = "writing" /\ pc' = [pc EXCEPT ![r] = "logged"]
      /\ logs' = [logs EXCEPT ![r] = (@ \ {LogOf(k, FALSE)}) \cup {LogOf(k, TRUE)}]
      /\ UNCHANGED <<terms, over, ended, job, result, receipt, mails>>
  BY DEF CloseLog, At, Match
<1>2. k \in 1..SubGames
  BY <1>1, WhereRIs DEF RecordedAs
<1> HIDE DEF k
<1>3. \A log \in logs'[r] : \E i \in 1..SubGames, w \in BOOLEAN : log = LogOf(i, w)
  BY <1>1, <1>2, WhereRIs
<1>4. pc'[r] = "logged"
  BY <1>1, WhereRIs
<1>5. RecordedAs(ended'[r], logs'[r], job'[r], pc'[r], result'[r], receipt'[r])
  BY <1>1, <1>3, <1>4, WhereRIs DEF RecordedAs, Checked
<1> QED BY <1>1, <1>5, WhereRIs, ToldNext

\* A process that is back to nothing keeps its files.
LEMMA FreedIsRecorded ==
    ASSUME Told, NEW r \in Roles, NEW e \in SUBSET (1..SubGames)
    PROVE  RecordedAs(e, logs[r], Free, "idle", result[r], receipt[r])
BY WhereRIs, FreeJob DEF RecordedAs, Checked

LEMMA GatherLogsKeepsTold ==
    ASSUME Told, NEW r \in Roles, GatherLogs(r)
    PROVE  Told'
<1>1. /\ pc[r] = "logged"
      /\ UNCHANGED <<terms, over, ended, logs, result, receipt, mails>>
  BY DEF GatherLogs, Match, files
<1>2. CASE Readable /\ pc' = [pc EXCEPT ![r] = "gathered"]
                    /\ job' = [job EXCEPT ![r].found = Found]
  <2>1. Found \in SUBSET All
    <3>1. ASSUME NEW q \in Roles, NEW log \in logs[q]
          PROVE  log \in All
      <4>1. PICK k \in 1..SubGames, w \in BOOLEAN : log = LogOf(k, w)
        BY <3>1, WhereRIs
      <4>2. log.whole
        BY <1>2, <3>1 DEF Readable, Found
      <4>3. w = TRUE
        BY <4>1, <4>2, LogFields
      <4> QED BY <4>1, <4>3 DEF All
    <3> QED BY <3>1 DEF Found
  <2>2. job'[r] = [job[r] EXCEPT !.found = Found]
    BY <1>2, WhereRIs
  <2>3. job'[r] \in Jobs(job'[r].entries)
    <3>1. job'[r] \in Jobs(job[r].entries)
      BY <2>1, <2>2, WhereRIs, JobFields
    <3> QED BY <3>1, JobFields
  <2>4. pc'[r] = "gathered"
    BY <1>2, WhereRIs
  <2>5. RecordedAs(ended'[r], logs'[r], job'[r], pc'[r], result'[r], receipt'[r])
    BY <1>1, <2>3, <2>4, WhereRIs DEF RecordedAs, Checked
  <2> QED BY <1>1, <1>2, <2>5, WhereRIs, ToldNext
<1>3. CASE BackToIdle(r)
  <2>1. pc' = [pc EXCEPT ![r] = "idle"] /\ job' = [job EXCEPT ![r] = Free]
    BY <1>3 DEF BackToIdle
  <2>2. RecordedAs(ended'[r], logs'[r], job'[r], pc'[r], result'[r], receipt'[r])
    BY <1>1, <2>1, WhereRIs, FreedIsRecorded
  <2> QED BY <1>1, <2>1, <2>2, WhereRIs, ToldNext
<1> QED BY <1>2, <1>3 DEF GatherLogs

LEMMA WriteResultKeepsTold ==
    ASSUME Told, NEW r \in Roles, WriteResult(r)
    PROVE  Told'
<1>1. /\ pc[r] = "gathered" /\ pc' = [pc EXCEPT ![r] = "refreshed"]
      /\ result' = [result EXCEPT ![r] = Report(job[r].found, Entries(r))]
      /\ UNCHANGED <<terms, over, ended, job, logs, receipt, mails>>
  BY DEF WriteResult, At, Match
<1>2. job[r].found \in SUBSET All
  BY WhereRIs, JobFields
<1>3. Report(job[r].found, Entries(r)).rows = RowsOf(job[r].found)
  BY DEF Report, RowsOf, RowOf
<1>4. FromLogs(result'[r])
  BY <1>1, <1>2, <1>3, WhereRIs DEF FromLogs
<1>5. pc'[r] = "refreshed"
  BY <1>1, WhereRIs
<1>6. RecordedAs(ended'[r], logs'[r], job'[r], pc'[r], result'[r], receipt'[r])
  BY <1>1, <1>4, <1>5, WhereRIs DEF RecordedAs, Checked
<1> QED BY <1>1, <1>6, WhereRIs, ToldNext

-----------------------------------------------------------------------------
(* Reporting. *)

LEMMA NotDueKeepsTold ==
    ASSUME Told, NEW r \in Roles, NotDue(r)
    PROVE  Told'
<1>1. /\ pc' = [pc EXCEPT ![r] = "idle"] /\ job' = [job EXCEPT ![r] = Free]
      /\ UNCHANGED <<terms, over, ended, logs, result, receipt, mails>>
  BY DEF NotDue, BackToIdle, Match, files
<1>2. RecordedAs(ended'[r], logs'[r], job'[r], pc'[r], result'[r], receipt'[r])
  BY <1>1, WhereRIs, FreedIsRecorded
<1> QED BY <1>1, <1>2, WhereRIs, ToldNext

LEMMA ReadLedgerKeepsTold ==
    ASSUME Told, NEW r \in Roles, ReadLedger(r)
    PROVE  Told'
<1>1. /\ pc[r] = "refreshed" /\ Complete(result[r])
      /\ job' = [job EXCEPT ![r].entries = Entries(r)]
      /\ UNCHANGED <<terms, over, ended, logs, result, receipt, mails>>
  BY DEF ReadLedger, Due, Match, files
<1>2. PICK p \in {"counting", "counted"} : pc' = [pc EXCEPT ![r] = p]
  BY DEF ReadLedger
<1>3. job'[r] = [job[r] EXCEPT !.entries = Entries(r)]
  BY <1>1, WhereRIs
<1>4. job'[r] \in Jobs(job'[r].entries)
  <2>1. job'[r] \in Jobs(Entries(r))
    BY <1>3, WhereRIs, JobFields
  <2> QED BY <2>1, JobFields
<1>5. pc'[r] = p
  BY <1>2, WhereRIs
<1>6. RecordedAs(ended'[r], logs'[r], job'[r], pc'[r], result'[r], receipt'[r])
  BY <1>1, <1>4, <1>5, WhereRIs DEF RecordedAs, Checked
<1> QED BY <1>1, <1>2, <1>6, WhereRIs, ToldNext

LEMMA WriteLedgerKeepsTold ==
    ASSUME Told, NEW r \in Roles, WriteLedger(r)
    PROVE  Told'
<1>1. /\ pc[r] = "counting" /\ pc' = [pc EXCEPT ![r] = "counted"]
      /\ UNCHANGED <<terms, over, ended, job, logs, result, receipt, mails>>
  BY DEF WriteLedger, At, Match
<1>2. pc'[r] = "counted"
  BY <1>1, WhereRIs
<1>3. RecordedAs(ended'[r], logs'[r], job'[r], pc'[r], result'[r], receipt'[r])
  BY <1>1, <1>2, WhereRIs DEF RecordedAs, Checked
<1> QED BY <1>1, <1>3, WhereRIs, ToldNext

(* Setting one field of an entry is replacing the entry by the changed one. *)
LEMMA SentAlone ==
    ASSUME NEW f, NEW x, NEW sent
    PROVE  [f EXCEPT ![x].sent = sent] = [f EXCEPT ![x] = [f[x] EXCEPT !.sent = sent]]
  OBVIOUS

LEMMA SendKeepsTold ==
    ASSUME Told, NEW r \in Roles, Send(r)
    PROVE  Told'
<1>1. /\ pc[r] = "counted" /\ pc' = [pc EXCEPT ![r] = "sent"]
      /\ UNCHANGED <<terms, over, ended, logs, result, receipt>>
  BY DEF Send, At, Match, files
<1>2. /\ \E j \in Jobs(job[r].entries) : job' = [job EXCEPT ![r] = j]
      /\ Mailed(r) \/ mails' = mails
  <2> DEFINE With(sent) == job' = [job EXCEPT ![r].sent = sent]
  <2>1. \E sent \in BOOLEAN : With(sent) /\ (Mailed(r) \/ mails' = mails)
    BY Zenon DEF Send
  <2>2. ASSUME NEW sent \in BOOLEAN, With(sent)
        PROVE  \E j \in Jobs(job[r].entries) : job' = [job EXCEPT ![r] = j]
    <3> DEFINE j == [job[r] EXCEPT !.sent = sent]
    <3>1. j \in Jobs(job[r].entries)
      BY <2>2, WhereRIs, JobFields
    <3>2. job' = [job EXCEPT ![r] = j]
      BY <2>2, SentAlone
    <3> HIDE DEF j
    <3> QED BY <3>1, <3>2
  <2> HIDE DEF With
  <2> QED BY <2>1, <2>2
<1>3. FromLogs(result[r]) /\ Complete(result[r])
  BY <1>1, WhereRIs DEF RecordedAs, Checked
<1>4. \A mail \in mails' : mail \in mails \/ Reported(mail)
  BY <1>2, <1>3 DEF Mailed, Reported
<1>5. PICK j \in Jobs(job[r].entries) : job' = [job EXCEPT ![r] = j]
  BY <1>2
<1>6. job'[r] \in Jobs(job'[r].entries)
  <2>1. job'[r] \in Jobs(job[r].entries)
    BY <1>5, WhereRIs
  <2> QED BY <2>1, JobFields
<1>7. pc'[r] = "sent"
  BY <1>1, WhereRIs
<1>8. RecordedAs(ended'[r], logs'[r], job'[r], pc'[r], result'[r], receipt'[r])
  BY <1>1, <1>3, <1>6, <1>7, WhereRIs DEF RecordedAs, Checked
<1> QED BY <1>1, <1>4, <1>5, <1>8, WhereRIs, ToldNext

LEMMA WriteReceiptKeepsTold ==
    ASSUME Told, NEW r \in Roles, WriteReceipt(r)
    PROVE  Told'
<1>1. /\ pc[r] = "sent" /\ pc' = [pc EXCEPT ![r] = "idle"] /\ job' = [job EXCEPT ![r] = Free]
      /\ UNCHANGED <<terms, over, ended, logs, result, mails>>
  BY DEF WriteReceipt, BackToIdle, Match
<1>2. PICK e \in {"sent", "failed"} : receipt' = [receipt EXCEPT ![r] = e]
  BY DEF WriteReceipt
<1>3. FromLogs(result[r])
  BY <1>1, WhereRIs DEF RecordedAs, Checked
<1>4. pc'[r] = "idle" /\ job'[r] = Free
  BY <1>1, WhereRIs
<1>5. RecordedAs(ended'[r], logs'[r], job'[r], pc'[r], result'[r], receipt'[r])
  BY <1>1, <1>3, <1>4, FreeJob, WhereRIs DEF RecordedAs, Checked
<1> QED BY <1>1, <1>2, <1>5, WhereRIs, ToldNext

LEMMA CrashKeepsTold ==
    ASSUME Told, NEW r \in Roles, Crash(r)
    PROVE  Told'
<1>1. /\ pc' = [pc EXCEPT ![r] = "idle"] /\ job' = [job EXCEPT ![r] = Free]
      /\ ended' = [ended EXCEPT ![r] = {}]
      /\ UNCHANGED <<terms, over, logs, result, receipt, mails>>
  BY DEF Crash, BackToIdle, files
<1>2. RecordedAs(ended'[r], logs'[r], job'[r], pc'[r], result'[r], receipt'[r])
  BY <1>1, WhereRIs, FreedIsRecorded
<1> QED BY <1>1, <1>2, WhereRIs, ToldNext

LEMMA SendByHandKeepsTold ==
    ASSUME Told, NEW r \in Roles, SendByHand(r)
    PROVE  Told'
<1>1. /\ receipt[r] = "failed" /\ Complete(result[r]) /\ Mailed(r)
      /\ UNCHANGED <<terms, over, ended, logs, result, receipt, pc, job>>
  BY DEF SendByHand, Match, files
<1>2. FromLogs(result[r])
  BY <1>1, WhereRIs, NoneIsNoReceipt DEF RecordedAs
<1>3. \A mail \in mails' : mail \in mails \/ Reported(mail)
  BY <1>1, <1>2 DEF Mailed, Reported
<1> QED BY <1>1, <1>3, WhereRIs, ToldNext

-----------------------------------------------------------------------------
LEMMA InitTold == Init => Told
<1> SUFFICES ASSUME Init PROVE Told
  OBVIOUS
<1>1. ASSUME NEW r \in Roles PROVE Recorded(r)
  <2>1. /\ ended[r] = {} /\ logs[r] = {} /\ job[r] = Free /\ pc[r] = "idle"
        /\ receipt[r] = None
    BY DEF Init
  <2> QED BY <2>1, FreeJob DEF Recorded, RecordedAs, Checked
<1>2. TermsTyped /\ over \in 0..SubGames /\ mails = {}
  BY SettlementAssumption DEF Init, TermsTyped
<1>3. /\ DOMAIN ended = Roles /\ DOMAIN logs = Roles /\ DOMAIN job = Roles
      /\ DOMAIN pc = Roles /\ DOMAIN result = Roles /\ DOMAIN receipt = Roles
  BY DEF Init
<1> QED BY <1>1, <1>2, <1>3 DEF Told

LEMMA StepKeepsTold == Told /\ [Next]_vars => Told'
<1> SUFFICES ASSUME Told, [Next]_vars PROVE Told'
  OBVIOUS
<1>0. "police" \in Roles
  BY DEF Roles
<1>1. CASE UNCHANGED <<terms, ended, over, logs, result, receipt, mails, pc, job>>
  BY <1>0, <1>1, WhereRIs, ToldNext
<1>2. CASE EndSubGame
  <2>1. PICK k \in 1..SubGames : k = over' /\ over' = over + 1
    BY <1>2, <1>0, WhereRIs, SettlementAssumption DEF EndSubGame
  <2>2. EndOf(k) /\ over' \in 0..SubGames /\ UNCHANGED <<terms, files, mails, pc, job>>
    BY <1>2, <2>1 DEF EndSubGame, EndOf
  <2> QED BY <2>2, EndingKeepsTold
<1>3. ASSUME NEW k \in 1..SubGames, Replay(k) PROVE Told'
  <2>1. over' \in 0..SubGames /\ EndOf(k) /\ UNCHANGED <<terms, files, mails, pc, job>>
    BY <1>3, <1>0, WhereRIs DEF Replay
  <2> QED BY <2>1, EndingKeepsTold
<1>4. ASSUME NEW r \in Roles, Step(r) PROVE Told'
  BY <1>4, OpenLogKeepsTold, CloseLogKeepsTold, GatherLogsKeepsTold, WriteResultKeepsTold,
     NotDueKeepsTold, ReadLedgerKeepsTold, WriteLedgerKeepsTold, SendKeepsTold,
     WriteReceiptKeepsTold DEF Step
<1>5. CASE Sync
  BY <1>1, <1>5 DEF Sync
<1>6. CASE UNCHANGED vars
  BY <1>1, <1>6 DEF vars, files
<1> QED BY <1>2, <1>3, <1>4, <1>5, <1>6, CrashKeepsTold, SendByHandKeepsTold DEF Next

\* The strengthened invariant: what each process has written is of logs of the series,
\* and what it has found complete stays so until it is sent.
THEOREM ToldInvariance == Spec => []Told
<1> QED BY InitTold, StepKeepsTold, PTL DEF Spec

\* For any number of sub-games, under either convention and every numbering of the
\* logs, and however they are replayed, crash or are rewritten meanwhile, a report that
\* is mailed has a row for each sub-game of the series, at its place and in its role
\* (incompleteness, canonical_indices).
THEOREM MailedAsPlayed == Spec => []MailedRowsAreTrue
<1>1. Told => MailedRowsAreTrue
  <2> SUFFICES ASSUME Told, NEW mail \in mails
               PROVE  /\ {row.game : row \in mail.report.rows} = 1..SubGames
                      /\ \A row \in mail.report.rows :
                            row.position = row.game /\ row.role = RoleIn(row.game)
    BY DEF MailedRowsAreTrue
  <2>1. PICK found \in SUBSET All : mail.report.rows = RowsOf(found)
    BY DEF Told, Reported, FromLogs
  <2>2. Cardinality(RowsOf(found)) = SubGames
    BY <2>1 DEF Told, Reported, Complete
  <2> QED BY <2>1, <2>2, CompleteIsTrue DEF Told
<1> QED BY <1>1, ToldInvariance, PTL

=============================================================================
