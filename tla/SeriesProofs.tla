---------------------------- MODULE SeriesProofs ----------------------------
(***************************************************************************)
(* Proofs about the score of a series, for any number of sub-games, any    *)
(* score table and however each team numbers its logs: both rebuild the    *)
(* series that was played, and their four sums of it agree.                *)
(***************************************************************************)
EXTENDS SeriesProperties, FiniteSetTheorems, TLAPS

-----------------------------------------------------------------------------
(* What sorting gives. *)

Orders(R, S) ==
    /\ \A x \in S : <<x, x>> \notin R
    /\ \A x, y \in S : x # y => <<x, y>> \in R \/ <<y, x>> \in R
    /\ \A x, y, z \in S : <<x, y>> \in R /\ <<y, z>> \in R => <<x, z>> \in R

InOrder(s, S, R) ==
    /\ s \in [1..Cardinality(S) -> S]
    /\ \A i, j \in 1..Cardinality(S) : i < j => <<s[i], s[j]>> \in R

\* A finite set under a strict total order can be sorted, and Sorted does.
LEMMA SortedIsInOrder ==
    ASSUME NEW S, IsFiniteSet(S), NEW R, Orders(R, S)
    PROVE  InOrder(Sorted(S, R), S, R)
<1> DEFINE n == Cardinality(S)
           Upto(x) == {y \in S : <<y, x>> \in R \/ y = x}
           place == [x \in S |-> Cardinality(Upto(x))]
<1>1. n \in Nat
  BY FS_CardinalityType
<1>2. ASSUME NEW x \in S
      PROVE  IsFiniteSet(Upto(x)) /\ Cardinality(Upto(x)) \in 1..n
  <2>1. Upto(x) \in SUBSET S
    OBVIOUS
  <2>2. IsFiniteSet(Upto(x)) /\ Cardinality(Upto(x)) <= n
    BY <2>1, FS_Subset
  <2>3. Cardinality(Upto(x)) \in Nat
    BY <2>2, FS_CardinalityType
  <2>4. Upto(x) # {}
    BY <1>2
  <2>5. Cardinality(Upto(x)) # 0
    BY <2>2, <2>4, FS_EmptySet
  <2> HIDE DEF Upto
  <2> QED BY <1>1, <2>2, <2>3, <2>5
<1>3. ASSUME NEW x \in S, NEW y \in S, <<x, y>> \in R
      PROVE  Cardinality(Upto(x)) < Cardinality(Upto(y))
  <2>1. Upto(x) \subseteq Upto(y)
    BY <1>3 DEF Orders
  <2>2. y \in Upto(y) /\ y \notin Upto(x)
    BY <1>3 DEF Orders
  <2> HIDE DEF Upto
  <2>3. Cardinality(Upto(x)) <= Cardinality(Upto(y))
        /\ Cardinality(Upto(x)) # Cardinality(Upto(y))
    BY <1>2, <2>1, <2>2, FS_Subset
  <2> QED BY <1>1, <1>2, <2>3
<1> HIDE DEF Upto
<1>4. place \in [S -> 1..n]
  BY <1>2
<1>5. \A x, y \in S : place[x] = place[y] => x = y
  <2>1. SUFFICES ASSUME NEW x \in S, NEW y \in S, x # y
                 PROVE  place[x] # place[y]
    OBVIOUS
  <2>2. <<x, y>> \in R \/ <<y, x>> \in R
    BY <2>1 DEF Orders
  <2> QED BY <1>1, <1>2, <1>3, <2>2
<1>6. place \in Injection(S, 1..n)
  BY <1>4, <1>5 DEF Injection, IsInjective
<1>7. IsFiniteSet(1..n) /\ Cardinality(1..n) = n
  BY <1>1, FS_Interval
<1>8. place \in Surjection(S, 1..n)
  BY <1>6, <1>7, FS_Injection
<1>9. \A i \in 1..n : \E x \in S : place[x] = i
  BY <1>8 DEF Surjection
<1> DEFINE s == [i \in 1..n |-> CHOOSE x \in S : place[x] = i]
<1>10. ASSUME NEW i \in 1..n PROVE s[i] \in S /\ place[s[i]] = i
  <2> HIDE DEF place
  <2> QED BY <1>9
<1>11. \A x, y \in S : <<x, y>> \in R => place[x] < place[y]
  BY <1>3
<1>12. InOrder(s, S, R)
  <2> HIDE DEF place
  <2>1. s \in [1..n -> S]
    BY <1>10
  <2> HIDE DEF s
  <2>2. ASSUME NEW i \in 1..n, NEW j \in 1..n, i < j PROVE <<s[i], s[j]>> \in R
    <3>1. s[i] # s[j]
      BY <1>10, <2>2
    <3>2. ~ (place[s[j]] < place[s[i]])
      BY <1>1, <1>10, <2>2
    <3> QED BY <1>10, <1>11, <3>1, <3>2 DEF Orders
  <2> QED BY <2>1, <2>2 DEF InOrder
<1> HIDE DEF s
<1>13. Sorted(S, R) = CHOOSE f : InOrder(f, S, R)
  BY DEF Sorted, InOrder
<1> QED BY <1>12, <1>13

\* Nothing is lost, and nothing comes twice.
LEMMA SortedIsOnto ==
    ASSUME NEW S, IsFiniteSet(S), NEW R, Orders(R, S), NEW s, InOrder(s, S, R)
    PROVE  /\ \A i, j \in 1..Cardinality(S) : s[i] = s[j] => i = j
           /\ \A x \in S : \E i \in 1..Cardinality(S) : s[i] = x
<1> DEFINE n == Cardinality(S)
<1>1. n \in Nat
  BY FS_CardinalityType
<1>2. s \in [1..n -> S]
  BY DEF InOrder
<1>3. ASSUME NEW i \in 1..n, NEW j \in 1..n, s[i] = s[j] PROVE i = j
  <2>1. ~ (i < j) /\ ~ (j < i)
    BY <1>2, <1>3 DEF InOrder, Orders
  <2> QED BY <1>1, <2>1
<1>4. s \in Injection(1..n, S)
  BY <1>2, <1>3 DEF Injection, IsInjective
<1>5. IsFiniteSet(1..n) /\ Cardinality(1..n) = n
  BY <1>1, FS_Interval
<1>6. s \in Surjection(1..n, S)
  BY <1>4, <1>5, FS_Injection
<1>7. \A x \in S : \E i \in 1..n : s[i] = x
  BY <1>6 DEF Surjection
<1> QED BY <1>3, <1>7

\* The numbers from 1 to n in rising order are in their places.
LEMMA RisingIsInPlace ==
    ASSUME NEW n \in Nat, NEW f \in [1..n -> 1..n],
           \A i, j \in 1..n : i < j => f[i] < f[j]
    PROVE  \A i \in 1..n : f[i] = i
<1> SUFFICES ASSUME NEW i \in 1..n PROVE f[i] = i
  OBVIOUS
<1>1. f[i] \in 1..n
  OBVIOUS
<1>2. i <= f[i]
  <2> DEFINE g == [j \in 1..i |-> f[j]]
  <2>1. ASSUME NEW j \in 1..i PROVE f[j] \in 1..f[i]
    <3>1. j \in 1..n /\ f[j] \in 1..n /\ (j = i \/ j < i)
      OBVIOUS
    <3> QED BY <3>1
  <2>2. ASSUME NEW j \in 1..i, NEW h \in 1..i, f[j] = f[h] PROVE j = h
    <3>1. j \in 1..n /\ h \in 1..n
      OBVIOUS
    <3>2. f[j] \in 1..n /\ f[h] \in 1..n
      BY <3>1
    <3> QED BY <2>2, <3>1, <3>2
  <2>3. g \in Injection(1..i, 1..f[i])
    BY <2>1, <2>2 DEF Injection, IsInjective
  <2>4. IsFiniteSet(1..f[i]) /\ Cardinality(1..f[i]) = f[i] /\ Cardinality(1..i) = i
    BY <1>1, FS_Interval
  <2>5. Cardinality(1..i) <= Cardinality(1..f[i])
    BY <2>3, <2>4, FS_Injection
  <2> QED BY <2>4, <2>5
<1>3. f[i] <= i
  <2> DEFINE g == [j \in i..n |-> f[j]]
  <2>1. ASSUME NEW j \in i..n PROVE f[j] \in f[i]..n
    <3>1. j \in 1..n /\ f[j] \in 1..n /\ (j = i \/ i < j)
      OBVIOUS
    <3> QED BY <3>1
  <2>2. ASSUME NEW j \in i..n, NEW h \in i..n, f[j] = f[h] PROVE j = h
    <3>1. j \in 1..n /\ h \in 1..n
      OBVIOUS
    <3>2. f[j] \in 1..n /\ f[h] \in 1..n
      BY <3>1
    <3> QED BY <2>2, <3>1, <3>2
  <2>3. g \in Injection(i..n, f[i]..n)
    BY <2>1, <2>2 DEF Injection, IsInjective
  <2>4. IsFiniteSet(f[i]..n) /\ Cardinality(f[i]..n) = n - f[i] + 1
        /\ Cardinality(i..n) = n - i + 1
    BY <1>1, FS_Interval
  <2>5. Cardinality(i..n) <= Cardinality(f[i]..n)
    BY <2>3, <2>4, FS_Injection
  <2> QED BY <1>1, <2>4, <2>5
<1> QED BY <1>1, <1>2, <1>3

-----------------------------------------------------------------------------
(* Two teams, and the roles they take.                                     *)

LEMMA TwoTeams ==
    /\ \A t \in Teams : t \in Nat /\ t # Nobody
    /\ \A t \in Teams : Rival(t) \in Teams /\ Rival(t) # t
    /\ \A s, t \in Teams : s = t \/ s = Rival(t)
    /\ IsFiniteSet(Teams)
<1>1. IsFiniteSet(Teams) /\ Cardinality(Teams) = 2 /\ Teams \subseteq Nat \ {0}
  BY SeriesAssumption
<1>2. ExistsBijection(1..2, Teams)
  BY <1>1, FS_CardinalityType
<1>3. PICK f : f \in Bijection(1..2, Teams)
  BY <1>2 DEF ExistsBijection
<1>4. f \in [1..2 -> Teams] /\ f[1] # f[2] /\ \A t \in Teams : \E i \in 1..2 : f[i] = t
  BY <1>3 DEF Bijection, Injection, Surjection, IsInjective
<1>5. f[1] \in Teams /\ f[2] \in Teams /\ Teams = {f[1], f[2]}
  BY <1>4
<1>6. \A t \in Teams : \E o \in Teams : o # t
  BY <1>4, <1>5
<1>7. \A t \in Teams : Rival(t) \in Teams /\ Rival(t) # t
  BY <1>6 DEF Rival
<1>8. \A s, t \in Teams : s = t \/ s = Rival(t)
  BY <1>5, <1>7
<1> QED BY <1>1, <1>7, <1>8 DEF Nobody

\* One of the two is the cop, the other the thief.
LEMMA OppositeRoles ==
    ASSUME NEW t \in Teams, NEW n, NEW games, NEW convention
    PROVE  /\ RoleFor(t, Rival(t), n, games, convention) \in Roles
           /\ RoleFor(Rival(t), t, n, games, convention)
                = OtherRole(RoleFor(t, Rival(t), n, games, convention))
<1>1. t \in Nat /\ Rival(t) \in Nat /\ Rival(t) # t
  BY TwoTeams
<1> QED BY <1>1 DEF RoleFor, CopGroup, FirstOf, SecondOf, OtherRole, Roles

LEMMA RolesTaken ==
    ASSUME NEW k, NEW t \in Teams
    PROVE  /\ RoleOf(t, k) \in Roles
           /\ RoleOf(Rival(t), k) = OtherRole(RoleOf(t, k))
           /\ Rival(Rival(t)) = t
           /\ RolesIn(k) = [s \in Teams |->
                IF s = t THEN RoleOf(t, k) ELSE OtherRole(RoleOf(t, k))]
<1>1. Rival(Rival(t)) = t /\ Rival(t) \in Teams
  BY TwoTeams
<1>2. RoleOf(t, k) \in Roles /\ RoleOf(Rival(t), k) = OtherRole(RoleOf(t, k))
  BY <1>1, OppositeRoles DEF RoleOf
<1>3. \A s \in Teams :
        RoleOf(s, k) = IF s = t THEN RoleOf(t, k) ELSE OtherRole(RoleOf(t, k))
  BY <1>2, TwoTeams
<1> QED BY <1>1, <1>2, <1>3 DEF RolesIn

Typed ==
    /\ terms \in [convention : Conventions, table : Tables,
                  tieRule : TieRules, numbering : [Teams -> Numberings]]
    /\ played \in Seq(Results)
    /\ Len(played) <= SubGames

-----------------------------------------------------------------------------
(* The numbers a team gives its logs.                                      *)

\* the sub-games up to k in which the team had the role it has in k
Likewise(team, k) == {i \in 1..k : RoleOf(team, i) = RoleOf(team, k)}

LEMMA LikewiseCounts ==
    ASSUME NEW t, NEW k \in Nat \ {0}
    PROVE  /\ IsFiniteSet(Likewise(t, k))
           /\ Cardinality(Likewise(t, k)) \in 1..k
           /\ Cardinality(Likewise(t, k)) = k => Likewise(t, k) = 1..k
<1>1. IsFiniteSet(1..k) /\ Cardinality(1..k) = k
  BY FS_Interval
<1>2. Likewise(t, k) \in SUBSET (1..k)
  BY DEF Likewise
<1>3. /\ IsFiniteSet(Likewise(t, k))
      /\ Cardinality(Likewise(t, k)) <= k
      /\ Cardinality(Likewise(t, k)) = k => Likewise(t, k) = 1..k
  BY <1>1, <1>2, FS_Subset
<1>4. k \in Likewise(t, k)
  BY DEF Likewise
<1>5. Cardinality(Likewise(t, k)) # 0 /\ Cardinality(Likewise(t, k)) \in Nat
  BY <1>3, <1>4, FS_EmptySet, FS_CardinalityType
<1> QED BY <1>3, <1>5

LEMMA LikewiseGrows ==
    ASSUME NEW t, NEW j \in Nat \ {0}, NEW k \in Nat, j < k,
           RoleOf(t, j) = RoleOf(t, k)
    PROVE  Cardinality(Likewise(t, j)) < Cardinality(Likewise(t, k))
<1>1. Likewise(t, j) \subseteq Likewise(t, k)
  BY DEF Likewise
<1>2. k \in Likewise(t, k) /\ k \notin Likewise(t, j)
  BY DEF Likewise
<1>3. k \in Nat \ {0} /\ j \in Nat \ {0}
  OBVIOUS
<1>4. IsFiniteSet(Likewise(t, k)) /\ Cardinality(Likewise(t, k)) \in Nat
      /\ Cardinality(Likewise(t, j)) \in Nat
  BY <1>3, LikewiseCounts
<1>5. Cardinality(Likewise(t, j)) <= Cardinality(Likewise(t, k))
      /\ Cardinality(Likewise(t, j)) # Cardinality(Likewise(t, k))
  BY <1>1, <1>2, <1>4, FS_Subset
<1> QED BY <1>4, <1>5

LEMMA NumberIs ==
    ASSUME Typed, NEW t \in Teams
    PROVE  \/ \A k : NumberOf(t, k) = k
           \/ \A k : NumberOf(t, k) = k + 1
           \/ \A k : NumberOf(t, k) = Cardinality(Likewise(t, k))
<1>1. terms.numbering[t] \in {"global", "offset", "per_role"}
  BY DEF Typed, Numberings
<1> QED BY <1>1 DEF NumberOf, Likewise

\* The numbers of one role rise with the sub-games, and numbers that are a
\* whole series are the places.
LEMMA NumbersRise ==
    ASSUME Typed, NEW t \in Teams
    PROVE  /\ \A k \in 1..SubGames : NumberOf(t, k) \in Nat
           /\ \A j, k \in 1..SubGames :
                j < k /\ RoleOf(t, j) = RoleOf(t, k)
                  => NumberOf(t, j) < NumberOf(t, k)
           /\ {NumberOf(t, k) : k \in 1..SubGames} = 1..SubGames
                => \A k \in 1..SubGames : NumberOf(t, k) = k
<1>0. SubGames \in Nat \ {0}
  BY SeriesAssumption
<1>1. CASE \A k : NumberOf(t, k) = k
  BY <1>0, <1>1
<1>2. CASE \A k : NumberOf(t, k) = k + 1
  <2>1. SubGames + 1 \in {NumberOf(t, k) : k \in 1..SubGames}
    BY <1>0, <1>2
  <2>2. SubGames + 1 \notin 1..SubGames
    BY <1>0
  <2> QED BY <1>0, <1>2, <2>1, <2>2
<1>3. CASE \A k : NumberOf(t, k) = Cardinality(Likewise(t, k))
  <2>1. \A k \in 1..SubGames : NumberOf(t, k) \in 1..k
    BY <1>3, LikewiseCounts
  <2>2. ASSUME NEW j \in 1..SubGames, NEW k \in 1..SubGames, j < k,
               RoleOf(t, j) = RoleOf(t, k)
        PROVE  NumberOf(t, j) < NumberOf(t, k)
    BY <1>3, <2>2, LikewiseGrows
  <2>3. ASSUME {NumberOf(t, k) : k \in 1..SubGames} = 1..SubGames,
               NEW k \in 1..SubGames
        PROVE  NumberOf(t, k) = k
    <3>1. SubGames \in 1..SubGames
      BY <1>0
    <3>2. PICK h \in 1..SubGames : NumberOf(t, h) = SubGames
      BY <2>3, <3>1
    <3>3. h = SubGames
      BY <1>0, <2>1, <3>2
    <3>4. Likewise(t, SubGames) = 1..SubGames
      BY <1>0, <1>3, <3>2, <3>3, LikewiseCounts
    <3>5. \A i \in 1..SubGames : RoleOf(t, i) = RoleOf(t, SubGames)
      BY <3>4 DEF Likewise
    <3>6. Likewise(t, k) = 1..k
      <4>1. \A i \in 1..k : RoleOf(t, i) = RoleOf(t, k)
        BY <1>0, <2>3, <3>5
      <4> QED BY <4>1 DEF Likewise
    <3>7. Cardinality(1..k) = k
      BY <2>3, FS_Interval
    <3> QED BY <1>3, <3>6, <3>7
  <2> QED BY <2>1, <2>2, <2>3
<1> QED BY <1>1, <1>2, <1>3, NumberIs

-----------------------------------------------------------------------------
(* The logs of a team, sorted by name.                                     *)

LogSet(t) == {LogOf(t, k) : k \in DOMAIN played}

\* No two logs have one name.
LEMMA NamesDiffer ==
    ASSUME Typed, NEW t \in Teams, NEW j \in DOMAIN played, NEW k \in DOMAIN played,
           j # k, NumberOf(t, j) = NumberOf(t, k)
    PROVE  RoleOf(t, j) # RoleOf(t, k)
<1>1. j \in 1..SubGames /\ k \in 1..SubGames /\ SubGames \in Nat
  BY SeriesAssumption DEF Typed
<1>2. NumberOf(t, j) \in Nat /\ NumberOf(t, k) \in Nat
  BY <1>1, NumbersRise
<1>3. j < k \/ k < j
  BY <1>1
<1> QED BY <1>1, <1>2, <1>3, NumbersRise

LEMMA NamesAreOrdered ==
    ASSUME Typed, NEW t \in Teams
    PROVE  Orders(ByName(LogSet(t)), LogSet(t))
<1> DEFINE Before(j, k) ==
        \/ NumberOf(t, j) < NumberOf(t, k)
        \/ /\ NumberOf(t, j) = NumberOf(t, k)
           /\ RoleOf(t, j) = "police" /\ RoleOf(t, k) = "thief"
<1>1. \A j \in DOMAIN played : NumberOf(t, j) \in Nat /\ RoleOf(t, j) \in Roles
  <2>1. DOMAIN played \subseteq 1..SubGames
    BY SeriesAssumption DEF Typed
  <2> QED BY <2>1, NumbersRise, RolesTaken
<1>2. \A j, k \in DOMAIN played :
        <<LogOf(t, j), LogOf(t, k)>> \in ByName(LogSet(t)) <=> Before(j, k)
  BY DEF ByName, LogSet, LogOf
<1>3. \A j \in DOMAIN played : ~ Before(j, j)
  BY <1>1
<1>4. \A j, k \in DOMAIN played : j # k => Before(j, k) \/ Before(k, j)
  <2> SUFFICES ASSUME NEW j \in DOMAIN played, NEW k \in DOMAIN played, j # k
               PROVE  Before(j, k) \/ Before(k, j)
    OBVIOUS
  <2>1. NumberOf(t, j) = NumberOf(t, k) => RoleOf(t, j) # RoleOf(t, k)
    BY NamesDiffer
  <2> QED BY <1>1, <2>1 DEF Roles
<1>5. \A h, j, k \in DOMAIN played : Before(h, j) /\ Before(j, k) => Before(h, k)
  BY <1>1
<1> HIDE DEF Before
<1>6. \A x \in LogSet(t) : <<x, x>> \notin ByName(LogSet(t))
  BY <1>2, <1>3 DEF LogSet
<1>7. ASSUME NEW x \in LogSet(t), NEW y \in LogSet(t), x # y
      PROVE  <<x, y>> \in ByName(LogSet(t)) \/ <<y, x>> \in ByName(LogSet(t))
  <2>1. PICK j \in DOMAIN played : x = LogOf(t, j)
    BY <1>7 DEF LogSet
  <2>2. PICK k \in DOMAIN played : y = LogOf(t, k)
    BY <1>7 DEF LogSet
  <2> QED BY <1>2, <1>4, <1>7, <2>1, <2>2
<1>8. ASSUME NEW x \in LogSet(t), NEW y \in LogSet(t), NEW z \in LogSet(t),
             <<x, y>> \in ByName(LogSet(t)), <<y, z>> \in ByName(LogSet(t))
      PROVE  <<x, z>> \in ByName(LogSet(t))
  <2>1. PICK h \in DOMAIN played : x = LogOf(t, h)
    BY <1>8 DEF LogSet
  <2>2. PICK j \in DOMAIN played : y = LogOf(t, j)
    BY <1>8 DEF LogSet
  <2>3. PICK k \in DOMAIN played : z = LogOf(t, k)
    BY <1>8 DEF LogSet
  <2> QED BY <1>2, <1>5, <1>8, <2>1, <2>2, <2>3
<1> QED BY <1>6, <1>7, <1>8 DEF Orders

LEMMA LogsAreCounted ==
    ASSUME Typed, Over, NEW t \in Teams
    PROVE  /\ IsFiniteSet(LogSet(t)) /\ Cardinality(LogSet(t)) = SubGames
           /\ \A j, k \in 1..SubGames : LogOf(t, j) = LogOf(t, k) => j = k
<1>1. DOMAIN played = 1..SubGames /\ SubGames \in Nat
  BY SeriesAssumption DEF Typed, Over
<1>2. ASSUME NEW j \in 1..SubGames, NEW k \in 1..SubGames, LogOf(t, j) = LogOf(t, k)
      PROVE  j = k
  <2>1. NumberOf(t, j) = NumberOf(t, k) /\ RoleOf(t, j) = RoleOf(t, k)
    BY <1>2 DEF LogOf
  <2> QED BY <1>1, <2>1, NamesDiffer
<1> DEFINE h == [k \in 1..SubGames |-> LogOf(t, k)]
<1>3. h \in [1..SubGames -> LogSet(t)]
  BY <1>1 DEF LogSet
<1>4. h \in Bijection(1..SubGames, LogSet(t))
  <2>1. h \in Injection(1..SubGames, LogSet(t))
    BY <1>2, <1>3 DEF Injection, IsInjective
  <2>2. \A l \in LogSet(t) : \E k \in 1..SubGames : h[k] = l
    BY <1>1 DEF LogSet
  <2>3. h \in Surjection(1..SubGames, LogSet(t))
    BY <1>3, <2>2 DEF Surjection
  <2> QED BY <2>1, <2>3 DEF Bijection
<1>5. ExistsBijection(1..SubGames, LogSet(t))
  BY <1>4 DEF ExistsBijection
<1>6. IsFiniteSet(1..SubGames) /\ Cardinality(1..SubGames) = SubGames
  BY <1>1, FS_Interval
<1>7. IsFiniteSet(LogSet(t)) /\ Cardinality(LogSet(t)) = SubGames
  BY <1>5, <1>6, FS_Bijection
<1> QED BY <1>2, <1>7

\* Log i is of sub-game q[i]: each of them has one, and the logs of a role
\* come in the order they were played.
Arranges(t, q) ==
    /\ q \in [1..SubGames -> 1..SubGames]
    /\ \A i, j \in 1..SubGames : q[i] = q[j] => i = j
    /\ \A k \in 1..SubGames : \E i \in 1..SubGames : q[i] = k
    /\ SeriesLogs(t) = [i \in 1..SubGames |-> LogOf(t, q[i])]
    /\ \A i, j \in 1..SubGames :
        i < j /\ RoleOf(t, q[i]) = RoleOf(t, q[j]) => q[i] < q[j]

LEMMA LogsAreArranged ==
    ASSUME Typed, Over, NEW t \in Teams
    PROVE  \E q : Arranges(t, q)
<1>1. DOMAIN played = 1..SubGames /\ SubGames \in Nat
  BY SeriesAssumption DEF Typed, Over
<1> DEFINE S == LogSet(t)
           R == ByName(LogSet(t))
           s == SeriesLogs(t)
<1>2. s = Sorted(S, R)
  BY DEF SeriesLogs, LogSet
<1>3. IsFiniteSet(S) /\ Cardinality(S) = SubGames
      /\ \A j, k \in 1..SubGames : LogOf(t, j) = LogOf(t, k) => j = k
  BY LogsAreCounted
<1>4. Orders(R, S)
  BY NamesAreOrdered
<1>5. \A l \in S : \E k \in 1..SubGames : l = LogOf(t, k)
  BY <1>1 DEF LogSet
<1>6. \A k \in 1..SubGames : LogOf(t, k) \in S
  BY <1>1 DEF LogSet
<1>7. \A l, m \in S : <<l, m>> \in R =>
        \/ l.number < m.number
        \/ l.number = m.number /\ l.role = "police" /\ m.role = "thief"
  BY DEF ByName
<1> HIDE DEF S, R, s
<1>8. InOrder(s, S, R)
  BY <1>2, <1>3, <1>4, SortedIsInOrder
<1>9. s \in [1..SubGames -> S]
      /\ \A i, j \in 1..SubGames : i < j => <<s[i], s[j]>> \in R
  BY <1>3, <1>8 DEF InOrder
<1>10. /\ \A i, j \in 1..SubGames : s[i] = s[j] => i = j
       /\ \A l \in S : \E i \in 1..SubGames : s[i] = l
  BY <1>3, <1>4, <1>8, SortedIsOnto
<1> DEFINE q == [i \in 1..SubGames |-> CHOOSE k \in 1..SubGames : s[i] = LogOf(t, k)]
<1>11. \A i \in 1..SubGames : q[i] \in 1..SubGames /\ s[i] = LogOf(t, q[i])
  <2> SUFFICES ASSUME NEW i \in 1..SubGames
               PROVE  q[i] \in 1..SubGames /\ s[i] = LogOf(t, q[i])
    OBVIOUS
  <2>1. \E k \in 1..SubGames : s[i] = LogOf(t, k)
    BY <1>5, <1>9
  <2> QED BY <2>1
<1>12. q \in [1..SubGames -> 1..SubGames]
  BY <1>11
<1> HIDE DEF q
<1>13. s = [i \in 1..SubGames |-> LogOf(t, q[i])]
  BY <1>9, <1>11
<1>14. \A i, j \in 1..SubGames : q[i] = q[j] => i = j
  BY <1>10, <1>11
<1>15. ASSUME NEW k \in 1..SubGames PROVE \E i \in 1..SubGames : q[i] = k
  <2>1. PICK i \in 1..SubGames : s[i] = LogOf(t, k)
    BY <1>6, <1>10
  <2>2. LogOf(t, q[i]) = LogOf(t, k) /\ q[i] \in 1..SubGames
    BY <1>11, <2>1
  <2> QED BY <1>3, <2>2
<1>16. ASSUME NEW i \in 1..SubGames, NEW j \in 1..SubGames, i < j,
              RoleOf(t, q[i]) = RoleOf(t, q[j])
       PROVE  q[i] < q[j]
  <2>1. q[i] \in 1..SubGames /\ q[j] \in 1..SubGames
    BY <1>12
  <2>2. <<LogOf(t, q[i]), LogOf(t, q[j])>> \in R
        /\ LogOf(t, q[i]) \in S /\ LogOf(t, q[j]) \in S
    BY <1>6, <1>9, <1>11, <1>16, <2>1
  <2>3. NumberOf(t, q[i]) < NumberOf(t, q[j])
    BY <1>7, <1>16, <2>2 DEF LogOf
  <2>4. q[i] # q[j]
    BY <1>14, <1>16
  <2>5. ~ (q[j] < q[i])
    <3> SUFFICES ASSUME q[j] < q[i] PROVE FALSE
      OBVIOUS
    <3>1. NumberOf(t, q[j]) < NumberOf(t, q[i])
          /\ NumberOf(t, q[j]) \in Nat /\ NumberOf(t, q[i]) \in Nat
      BY <1>16, <2>1, NumbersRise
    <3> QED BY <2>3, <3>1
  <2> QED BY <2>1, <2>4, <2>5
<1>17. Arranges(t, q)
  BY <1>12, <1>13, <1>14, <1>15, <1>16 DEF Arranges, s
<1> QED BY <1>17

-----------------------------------------------------------------------------
(* The places of the logs, and the rows rebuilt from them.                 *)

\* the slots of the role of sub-game k, and those up to it
SlotsOf(t, k) == {j \in 1..SubGames : RoleOf(t, j) = RoleOf(t, k)}
SlotsUpto(t, k) == SlotsOf(t, k) \cap (1..k)

\* The count of slots up to one of them tells it from the others.
LEMMA SlotsAreCounted ==
    ASSUME NEW t, NEW k \in 1..SubGames, NEW j \in SlotsOf(t, k),
           Cardinality(SlotsOf(t, k) \cap (1..j)) = Cardinality(SlotsUpto(t, k))
    PROVE  j = k
<1> DEFINE Upto(i) == SlotsOf(t, k) \cap (1..i)
<1>1. SubGames \in Nat /\ j \in 1..SubGames /\ k \in SlotsOf(t, k)
  BY SeriesAssumption DEF SlotsOf
<1>2. IsFiniteSet(1..SubGames)
  BY <1>1, FS_Interval
<1>3. \A i : IsFiniteSet(Upto(i))
  <2> SUFFICES ASSUME NEW i PROVE IsFiniteSet(Upto(i))
    OBVIOUS
  <2>1. Upto(i) \in SUBSET (1..SubGames)
    BY DEF SlotsOf
  <2> QED BY <1>2, <2>1, FS_Subset
<1>4. ASSUME NEW g \in SlotsOf(t, k), NEW h \in SlotsOf(t, k), g < h
      PROVE  Cardinality(Upto(g)) # Cardinality(Upto(h))
  <2>1. g \in Nat /\ h \in Nat /\ g > 0 /\ h > 0
    BY <1>1, <1>4 DEF SlotsOf
  <2>2. Upto(g) \subseteq Upto(h) /\ h \in Upto(h) /\ h \notin Upto(g)
    BY <1>4, <2>1
  <2> HIDE DEF Upto
  <2> QED BY <1>3, <2>2, FS_Subset
<1>5. Cardinality(Upto(j)) = Cardinality(Upto(k))
  BY DEF SlotsUpto
<1> HIDE DEF Upto
<1>6. ~ (j < k) /\ ~ (k < j)
  BY <1>1, <1>4, <1>5
<1> QED BY <1>1, <1>6

\* As many logs of its role come up to a log as slots of the role up to its place.
LEMMA RanksAreSlots ==
    ASSUME NEW t, NEW q, Arranges(t, q), NEW i \in 1..SubGames
    PROVE  Cardinality({h \in 1..i : RoleOf(t, q[h]) = RoleOf(t, q[i])})
             = Cardinality(SlotsUpto(t, q[i]))
<1> DEFINE S == {h \in 1..i : RoleOf(t, q[h]) = RoleOf(t, q[i])}
           T == SlotsUpto(t, q[i])
           f == [h \in S |-> q[h]]
<1>0. SubGames \in Nat
  BY SeriesAssumption
<1>1. /\ q \in [1..SubGames -> 1..SubGames]
      /\ \A g, h \in 1..SubGames : q[g] = q[h] => g = h
      /\ \A k \in 1..SubGames : \E h \in 1..SubGames : q[h] = k
      /\ \A g, h \in 1..SubGames :
            g < h /\ RoleOf(t, q[g]) = RoleOf(t, q[h]) => q[g] < q[h]
  BY DEF Arranges
<1>2. q[i] \in 1..SubGames
  BY <1>1
<1>3. \A h \in S : h \in 1..SubGames /\ (h = i \/ h < i)
  BY <1>0
<1>4. ASSUME NEW h \in S PROVE q[h] \in T
  <2>1. h \in 1..SubGames /\ q[h] \in 1..SubGames /\ RoleOf(t, q[h]) = RoleOf(t, q[i])
    BY <1>1, <1>3
  <2>2. q[h] <= q[i]
    <3>1. CASE h = i
      BY <1>2, <3>1
    <3>2. CASE h < i
      <4>1. q[h] < q[i]
        BY <1>1, <2>1, <3>2
      <4> QED BY <1>2, <2>1, <4>1
    <3> QED BY <1>3, <3>1, <3>2
  <2> QED BY <1>0, <1>2, <2>1, <2>2 DEF SlotsUpto, SlotsOf
<1>5. ASSUME NEW k \in T PROVE \E h \in S : q[h] = k
  <2>1. k \in 1..SubGames /\ k <= q[i] /\ RoleOf(t, k) = RoleOf(t, q[i])
    BY <1>2 DEF SlotsUpto, SlotsOf
  <2>2. PICK h \in 1..SubGames : q[h] = k
    BY <1>1, <2>1
  <2>3. ~ (i < h)
    BY <1>1, <1>2, <2>1, <2>2
  <2>4. h \in 1..i
    BY <1>0, <2>2, <2>3
  <2> QED BY <2>1, <2>2, <2>4
<1>6. IsFiniteSet(S)
  <2>1. IsFiniteSet(1..i)
    BY FS_Interval
  <2>2. S \in SUBSET (1..i)
    OBVIOUS
  <2> HIDE DEF S
  <2> QED BY <2>1, <2>2, FS_Subset
<1> HIDE DEF S, T
<1>7. f \in [S -> T]
  BY <1>4
<1>8. f \in Injection(S, T)
  BY <1>1, <1>3, <1>7 DEF Injection, IsInjective
<1>9. f \in Surjection(S, T)
  BY <1>5, <1>7 DEF Surjection
<1>10. ExistsBijection(S, T)
  BY <1>8, <1>9 DEF ExistsBijection, Bijection
<1>11. Cardinality(S) = Cardinality(T)
  BY <1>6, <1>10, FS_Bijection
<1> QED BY <1>11 DEF S, T

LEMMA SlotIsThePlace ==
    ASSUME NEW t \in Teams, NEW q, Arranges(t, q), NEW i \in 1..SubGames
    PROVE  Slot(t, SeriesLogs(t), i) = q[i]
<1> DEFINE logs == SeriesLogs(t)
           k == q[i]
           fits == {j \in SlotsOf(t, k) :
                      Cardinality(SlotsOf(t, k) \cap (1..j)) = Cardinality(SlotsUpto(t, k))}
<1>0. SubGames \in Nat
  BY SeriesAssumption
<1>1. k \in 1..SubGames /\ logs = [h \in 1..SubGames |-> LogOf(t, q[h])]
  BY DEF Arranges
<1>2. Len(logs) = SubGames /\ \A h \in 1..SubGames : logs[h].role = RoleOf(t, q[h])
  BY <1>0, <1>1 DEF LogOf
<1>3. {j \in 1..Len(logs) : RoleFor(t, Rival(t), j, Len(logs), terms.convention)
                               = logs[i].role} = SlotsOf(t, k)
  BY <1>2 DEF SlotsOf, RoleOf
<1>4. Cardinality({h \in 1..i : logs[h].role = logs[i].role}) = Cardinality(SlotsUpto(t, k))
  <2>1. {h \in 1..i : logs[h].role = logs[i].role}
          = {h \in 1..i : RoleOf(t, q[h]) = RoleOf(t, q[i])}
    BY <1>0, <1>2
  <2> QED BY <2>1, RanksAreSlots
<1>5. Slot(t, logs, i) = IF fits = {} THEN 0 ELSE CHOOSE j \in fits : TRUE
  <2> DEFINE slots == {j \in 1..Len(logs) :
                         RoleFor(t, Rival(t), j, Len(logs), terms.convention)
                           = logs[i].role}
             rank == Cardinality({h \in 1..i : logs[h].role = logs[i].role})
             fitting == {j \in slots : Cardinality(slots \cap (1..j)) = rank}
  <2>1. Slot(t, logs, i) = IF fitting = {} THEN 0 ELSE CHOOSE j \in fitting : TRUE
    BY DEF Slot
  <2>2. slots = SlotsOf(t, k) /\ rank = Cardinality(SlotsUpto(t, k))
    BY <1>3, <1>4
  <2> HIDE DEF slots, rank, logs, k
  <2>3. fitting = fits
    BY <2>2
  <2> QED BY <2>1, <2>3
<1>6. k \in fits
  BY <1>1 DEF SlotsOf, SlotsUpto
<1>7. \A j \in fits : j = k
  BY <1>1, SlotsAreCounted
<1> HIDE DEF fits
<1> QED BY <1>5, <1>6, <1>7

\* However the logs are numbered, each is put where it was played.
LEMMA LogsAreInPlace ==
    ASSUME Typed, Over, NEW t \in Teams, NEW q, Arranges(t, q)
    PROVE  CanonicalIndices(t, SeriesLogs(t)) = q
<1> DEFINE logs == SeriesLogs(t)
<1>0. SubGames \in Nat
  BY SeriesAssumption
<1>1. /\ q \in [1..SubGames -> 1..SubGames]
      /\ \A k \in 1..SubGames : \E i \in 1..SubGames : q[i] = k
      /\ logs = [i \in 1..SubGames |-> LogOf(t, q[i])]
  BY DEF Arranges
<1>2. /\ DOMAIN logs = 1..SubGames /\ Len(logs) = SubGames
      /\ \A i \in 1..SubGames : logs[i].number = NumberOf(t, q[i])
  BY <1>0, <1>1 DEF LogOf
<1>3. \A i \in 1..SubGames : Slot(t, logs, i) = q[i]
  BY SlotIsThePlace
<1> HIDE DEF logs
<1>4. CASE {logs[i].number : i \in DOMAIN logs} = 1..Len(logs)
  <2>1. {NumberOf(t, k) : k \in 1..SubGames} = {logs[i].number : i \in DOMAIN logs}
    <3>1. \A k \in 1..SubGames : \E i \in DOMAIN logs : logs[i].number = NumberOf(t, k)
      BY <1>1, <1>2
    <3>2. \A i \in DOMAIN logs : \E k \in 1..SubGames : logs[i].number = NumberOf(t, k)
      BY <1>1, <1>2
    <3> QED BY <3>1, <3>2
  <2>2. {NumberOf(t, k) : k \in 1..SubGames} = 1..SubGames
    BY <1>2, <1>4, <2>1
  <2>3. \A k \in 1..SubGames : NumberOf(t, k) = k
    BY <2>2, NumbersRise
  <2>4. \A i \in 1..SubGames : logs[i].number = q[i]
    BY <1>1, <1>2, <2>3
  <2>5. CanonicalIndices(t, logs) = [i \in DOMAIN logs |-> logs[i].number]
    BY <1>4 DEF CanonicalIndices
  <2>6. CanonicalIndices(t, logs) = [i \in 1..SubGames |-> q[i]]
    BY <1>2, <2>4, <2>5
  <2> QED BY <1>1, <2>6 DEF logs
<1>5. CASE {logs[i].number : i \in DOMAIN logs} # 1..Len(logs)
  <2>1. CanonicalIndices(t, logs) = [i \in DOMAIN logs |-> Slot(t, logs, i)]
    BY <1>5 DEF CanonicalIndices
  <2>2. CanonicalIndices(t, logs) = [i \in 1..SubGames |-> q[i]]
    BY <1>2, <1>3, <2>1
  <2> QED BY <1>1, <2>2 DEF logs
<1> QED BY <1>4, <1>5

RowsPlayed == [k \in 1..Len(played) |-> Row(k, RolesIn(k), played[k])]

PlacesOf(q) == {[position |-> q[i], log |-> i] : i \in 1..SubGames}

LEMMA PlacesAreOrdered ==
    ASSUME NEW q \in [1..SubGames -> 1..SubGames],
           \A i, j \in 1..SubGames : q[i] = q[j] => i = j
    PROVE  /\ IsFiniteSet(PlacesOf(q)) /\ Cardinality(PlacesOf(q)) = SubGames
           /\ Orders(ByPosition(PlacesOf(q)), PlacesOf(q))
           /\ \A x, y \in PlacesOf(q) :
                <<x, y>> \in ByPosition(PlacesOf(q)) => x.position < y.position
<1> DEFINE S == PlacesOf(q)
           R == ByPosition(S)
           f == [i \in 1..SubGames |-> [position |-> q[i], log |-> i]]
<1>0. SubGames \in Nat
  BY SeriesAssumption
<1>1. f \in [1..SubGames -> S]
  BY DEF PlacesOf
<1>2. f \in Bijection(1..SubGames, S)
  <2>1. \A i, j \in 1..SubGames : f[i] = f[j] => i = j
    <3> SUFFICES ASSUME NEW i \in 1..SubGames, NEW j \in 1..SubGames, f[i] = f[j]
                 PROVE  i = j
      OBVIOUS
    <3>1. f[i].log = i /\ f[j].log = j
      OBVIOUS
    <3> QED BY <3>1
  <2>2. \A x \in S : \E i \in 1..SubGames : f[i] = x
    BY DEF PlacesOf
  <2> HIDE DEF f, S
  <2>3. f \in Injection(1..SubGames, S)
    BY <1>1, <2>1 DEF Injection, IsInjective
  <2>4. f \in Surjection(1..SubGames, S)
    BY <1>1, <2>2 DEF Surjection
  <2> QED BY <2>3, <2>4 DEF Bijection
<1> HIDE DEF f
<1>3. ExistsBijection(1..SubGames, S)
  BY <1>2 DEF ExistsBijection
<1>4. IsFiniteSet(1..SubGames) /\ Cardinality(1..SubGames) = SubGames
  BY <1>0, FS_Interval
<1>5. IsFiniteSet(S) /\ Cardinality(S) = SubGames
  BY <1>3, <1>4, FS_Bijection
<1>6. ASSUME NEW x \in S, NEW y \in S
      PROVE  /\ x.position \in Nat /\ y.position \in Nat
             /\ x.position = y.position => x = y
             /\ x.log \in Nat /\ y.log \in Nat
  <2>1. PICK i \in 1..SubGames : x = [position |-> q[i], log |-> i]
    BY <1>6 DEF PlacesOf
  <2>2. PICK j \in 1..SubGames : y = [position |-> q[j], log |-> j]
    BY <1>6 DEF PlacesOf
  <2> QED BY <1>0, <2>1, <2>2
<1>7. \A x, y \in S : <<x, y>> \in R <=> \/ x.position < y.position
                                         \/ x.position = y.position /\ x.log < y.log
  BY DEF ByPosition
<1> HIDE DEF S, R
<1>8. \A x, y \in S : <<x, y>> \in R <=> x.position < y.position
  <2> SUFFICES ASSUME NEW x \in S, NEW y \in S
               PROVE  <<x, y>> \in R <=> x.position < y.position
    OBVIOUS
  <2>1. x.position = y.position => ~ (x.log < y.log)
    BY <1>6
  <2> QED BY <1>7, <2>1
<1>9. \A x \in S : <<x, x>> \notin R
  BY <1>6, <1>8
<1>10. \A x, y \in S : x # y => <<x, y>> \in R \/ <<y, x>> \in R
  <2> SUFFICES ASSUME NEW x \in S, NEW y \in S, x # y
               PROVE  x.position < y.position \/ y.position < x.position
    BY <1>8
  <2> QED BY <1>6
<1>11. ASSUME NEW x \in S, NEW y \in S, NEW z \in S, <<x, y>> \in R, <<y, z>> \in R
       PROVE  <<x, z>> \in R
  <2>1. x.position < y.position /\ y.position < z.position
    BY <1>8, <1>11
  <2>2. x.position < z.position
    BY <1>6, <2>1
  <2> QED BY <1>8, <2>2
<1>12. Orders(R, S)
  BY <1>9, <1>10, <1>11 DEF Orders
<1> QED BY <1>5, <1>8, <1>12 DEF S, R

\* What a team rebuilds from its logs is the series that was played.
LEMMA RebuiltAsPlayed ==
    ASSUME Typed, Over, NEW t \in Teams
    PROVE  Outcomes(t) = RowsPlayed
<1>0. SubGames \in Nat /\ Len(played) = SubGames
  BY SeriesAssumption DEF Over
<1>1. PICK q : Arranges(t, q)
  BY LogsAreArranged
<1>2. /\ q \in [1..SubGames -> 1..SubGames]
      /\ \A i, j \in 1..SubGames : q[i] = q[j] => i = j
      /\ SeriesLogs(t) = [i \in 1..SubGames |-> LogOf(t, q[i])]
  BY <1>1 DEF Arranges
<1>3. CanonicalIndices(t, SeriesLogs(t)) = q
  BY <1>1, LogsAreInPlace
<1> DEFINE logs == SeriesLogs(t)
           S == PlacesOf(q)
           order == Sorted(S, ByPosition(S))
<1>4. DOMAIN logs = 1..SubGames /\ \A i \in 1..SubGames : logs[i] = LogOf(t, q[i])
  BY <1>2
<1>5. {[position |-> q[i], log |-> i] : i \in DOMAIN logs} = S
  BY <1>4 DEF PlacesOf
<1>6. Outcomes(t) = [k \in DOMAIN order |->
                        Row(order[k].position, LoggedRoles(t, logs[order[k].log]),
                            logs[order[k].log].result)]
  BY <1>3, <1>5 DEF Outcomes
<1>7. /\ IsFiniteSet(S) /\ Cardinality(S) = SubGames
      /\ Orders(ByPosition(S), S)
      /\ \A x, y \in S : <<x, y>> \in ByPosition(S) => x.position < y.position
  BY <1>2, PlacesAreOrdered
<1>8. \A x \in S : \E i \in 1..SubGames : x.position = q[i] /\ x.log = i
  BY DEF PlacesOf
<1> HIDE DEF logs, S
<1>9. InOrder(order, S, ByPosition(S))
  BY <1>7, SortedIsInOrder
<1>10. /\ order \in [1..SubGames -> S]
       /\ \A i, j \in 1..SubGames : i < j => order[i].position < order[j].position
  BY <1>7, <1>9 DEF InOrder
<1> HIDE DEF order
<1> DEFINE f == [k \in 1..SubGames |-> order[k].position]
<1>11. f \in [1..SubGames -> 1..SubGames]
  BY <1>2, <1>8, <1>10
<1>12. \A i, j \in 1..SubGames : i < j => f[i] < f[j]
  BY <1>10
<1> HIDE DEF f
<1>13. \A k \in 1..SubGames : f[k] = k
  BY <1>0, <1>11, <1>12, RisingIsInPlace
<1>14. \A k \in 1..SubGames : order[k].position = k
  BY <1>13 DEF f
<1>15. ASSUME NEW k \in 1..SubGames
       PROVE  Row(order[k].position, LoggedRoles(t, logs[order[k].log]),
                  logs[order[k].log].result) = Row(k, RolesIn(k), played[k])
  <2>1. order[k] \in S
    BY <1>10
  <2>2. PICK i \in 1..SubGames : order[k].position = q[i] /\ order[k].log = i
    BY <1>8, <2>1
  <2>3. logs[order[k].log] = LogOf(t, k)
    BY <1>4, <1>14, <2>2
  <2>4. LogOf(t, k).role = RoleOf(t, k) /\ LogOf(t, k).result = played[k]
    BY DEF LogOf
  <2>5. LoggedRoles(t, LogOf(t, k)) = RolesIn(k)
    BY <2>4, RolesTaken DEF LoggedRoles
  <2> QED BY <1>14, <2>3, <2>4, <2>5
<1>16. DOMAIN order = 1..SubGames
  BY <1>10
<1> QED BY <1>0, <1>6, <1>15, <1>16 DEF RowsPlayed

-----------------------------------------------------------------------------
(* The sums: what a recursive sum is, that it has one value, and how one   *)
(* more row changes it.                                                    *)

TallySum(f, rows) ==
    f = [k \in 0..Len(rows) |->
            IF k = 0 THEN NewTally ELSE Record(f[k - 1], rows[k])]
PointSum(f, t, rows) ==
    f = [k \in 0..Len(rows) |->
            IF k = 0 THEN 0 ELSE f[k - 1] + rows[k].score[t]]

Tallied(rows, sum) ==
    /\ \E f : TallySum(f, rows)
    /\ \A f : TallySum(f, rows) => f[Len(rows)] = sum
Pointed(t, rows, sum) ==
    /\ \E f : PointSum(f, t, rows)
    /\ \A f : PointSum(f, t, rows) => f[Len(rows)] = sum

LEMMA TallyIs ==
    ASSUME NEW rows, NEW sum, Tallied(rows, sum) PROVE TallyOf(rows) = sum
<1> DEFINE f == CHOOSE g : TallySum(g, rows)
<1>1. TallySum(f, rows)
  BY DEF Tallied
<1>2. TallyOf(rows) = f[Len(rows)]
  BY DEF TallyOf, TallySum
<1> HIDE DEF f
<1> QED BY <1>1, <1>2 DEF Tallied

LEMMA PointsAre ==
    ASSUME NEW t, NEW rows, NEW sum, Pointed(t, rows, sum)
    PROVE  PointsOf(t, rows) = sum
<1> DEFINE f == CHOOSE g : PointSum(g, t, rows)
<1>1. PointSum(f, t, rows)
  BY DEF Pointed
<1>2. PointsOf(t, rows) = f[Len(rows)]
  BY DEF PointsOf, PointSum
<1> HIDE DEF f
<1> QED BY <1>1, <1>2 DEF Pointed

LEMMA SumsBegin ==
    ASSUME NEW rows, Len(rows) = 0
    PROVE  Tallied(rows, NewTally) /\ \A t : Pointed(t, rows, 0)
<1>1. TallySum([k \in 0..0 |-> NewTally], rows)
  BY DEF TallySum
<1>2. \A f : TallySum(f, rows) => f[0] = NewTally
  <2> SUFFICES ASSUME NEW f, TallySum(f, rows) PROVE f[0] = NewTally
    OBVIOUS
  <2>1. f = [k \in 0..0 |-> IF k = 0 THEN NewTally ELSE Record(f[k - 1], rows[k])]
    BY DEF TallySum
  <2>2. 0 \in 0..0
    OBVIOUS
  <2> QED BY <2>1, <2>2
<1>3. \A t : PointSum([k \in 0..0 |-> 0], t, rows)
  BY DEF PointSum
<1>4. \A t, f : PointSum(f, t, rows) => f[0] = 0
  <2> SUFFICES ASSUME NEW t, NEW f, PointSum(f, t, rows) PROVE f[0] = 0
    OBVIOUS
  <2>1. f = [k \in 0..0 |-> IF k = 0 THEN 0 ELSE f[k - 1] + rows[k].score[t]]
    BY DEF PointSum
  <2>2. 0 \in 0..0
    OBVIOUS
  <2> QED BY <2>1, <2>2
<1> QED BY <1>1, <1>2, <1>3, <1>4 DEF Tallied, Pointed

Extends(longer, rows) ==
    /\ Len(rows) \in Nat /\ Len(longer) = Len(rows) + 1
    /\ \A k \in 1..Len(rows) : longer[k] = rows[k]

LEMMA TallyGrows ==
    ASSUME NEW rows, NEW longer, Extends(longer, rows), NEW sum, Tallied(rows, sum)
    PROVE  Tallied(longer, Record(sum, longer[Len(longer)]))
<1> DEFINE n == Len(rows)
           last == longer[n + 1]
<1>1. n \in Nat /\ Len(longer) = n + 1 /\ \A k \in 1..n : longer[k] = rows[k]
  BY DEF Extends
<1>2. PICK f : TallySum(f, rows)
  BY DEF Tallied
<1>3. f = [k \in 0..n |-> IF k = 0 THEN NewTally ELSE Record(f[k - 1], rows[k])]
  BY <1>2 DEF TallySum
<1> DEFINE g == [k \in 0..n + 1 |-> IF k = n + 1 THEN Record(f[n], last) ELSE f[k]]
<1> HIDE DEF n
<1>4. ASSUME NEW k \in 0..n + 1
      PROVE  g[k] = IF k = 0 THEN NewTally ELSE Record(g[k - 1], longer[k])
  <2>1. CASE k = 0
    <3>1. g[0] = f[0] /\ f[0] = NewTally
      BY <1>1, <1>3
    <3> QED BY <2>1, <3>1
  <2>2. CASE k \in 1..n
    <3>1. g[k] = f[k] /\ g[k - 1] = f[k - 1] /\ k \in 0..n /\ k # 0
      BY <1>1, <2>2
    <3>2. f[k] = Record(f[k - 1], rows[k])
      BY <1>3, <3>1
    <3> QED BY <1>1, <2>2, <3>1, <3>2
  <2>3. CASE k = n + 1
    <3>1. g[n + 1] = Record(f[n], last) /\ g[n] = f[n] /\ k # 0 /\ k - 1 = n
      BY <1>1, <2>3
    <3> QED BY <2>3, <3>1
  <2> QED BY <1>1, <1>4, <2>1, <2>2, <2>3
<1>5. g = [k \in 0..n + 1 |-> g[k]]
  OBVIOUS
<1> HIDE DEF g
<1>6. TallySum(g, longer)
  <2>1. g = [k \in 0..n + 1 |-> IF k = 0 THEN NewTally ELSE Record(g[k - 1], longer[k])]
    BY <1>4, <1>5
  <2> QED BY <1>1, <2>1 DEF TallySum
<1>7. ASSUME NEW h, TallySum(h, longer) PROVE h[n + 1] = Record(sum, last)
  <2>1. h = [k \in 0..n + 1 |-> IF k = 0 THEN NewTally ELSE Record(h[k - 1], longer[k])]
    BY <1>1, <1>7 DEF TallySum
  <2> DEFINE e == [k \in 0..n |-> h[k]]
  <2>2. ASSUME NEW k \in 0..n
        PROVE  h[k] = IF k = 0 THEN NewTally ELSE Record(e[k - 1], rows[k])
    <3>1. k \in 0..n + 1 /\ (k # 0 => k \in 1..n /\ k - 1 \in 0..n)
      BY <1>1
    <3>2. h[k] = IF k = 0 THEN NewTally ELSE Record(h[k - 1], longer[k])
      BY <2>1, <3>1
    <3> QED BY <1>1, <3>1, <3>2
  <2>3. e = [k \in 0..n |-> IF k = 0 THEN NewTally ELSE Record(e[k - 1], rows[k])]
    BY <2>2
  <2>4. TallySum(e, rows)
    <3> HIDE DEF e
    <3> QED BY <2>3 DEF TallySum, n
  <2>5. e[n] = h[n]
    BY <1>1
  <2>6. e[n] = sum
    <3> HIDE DEF e
    <3> QED BY <2>4 DEF Tallied, n
  <2>7. n + 1 \in 0..n + 1 /\ n + 1 # 0 /\ n + 1 - 1 = n
    BY <1>1
  <2>8. h[n + 1] = Record(h[n], longer[n + 1])
    <3>1. ASSUME NEW k \in 0..n + 1, k # 0
          PROVE  h[k] = Record(h[k - 1], longer[k])
      BY <2>1, <3>1
    <3>2. ASSUME NEW k, k = n + 1 PROVE h[k] = Record(h[n], longer[k])
      <4>1. k \in 0..n + 1 /\ k # 0 /\ k - 1 = n
        BY <1>1, <3>2
      <4>2. h[k] = Record(h[k - 1], longer[k])
        BY <3>1, <4>1
      <4> QED BY <4>1, <4>2
    <3> QED BY <3>2
  <2> QED BY <2>5, <2>6, <2>8
<1> QED BY <1>1, <1>6, <1>7 DEF Tallied

LEMMA PointsGrow ==
    ASSUME NEW t, NEW rows, NEW longer, Extends(longer, rows), NEW sum,
           Pointed(t, rows, sum)
    PROVE  Pointed(t, longer, sum + longer[Len(longer)].score[t])
<1> DEFINE n == Len(rows)
           Last == longer[n + 1].score[t]
<1>1. n \in Nat /\ Len(longer) = n + 1 /\ \A k \in 1..n : longer[k] = rows[k]
  BY DEF Extends
<1>2. PICK f : PointSum(f, t, rows)
  BY DEF Pointed
<1>3. f = [k \in 0..n |-> IF k = 0 THEN 0 ELSE f[k - 1] + rows[k].score[t]]
  BY <1>2 DEF PointSum
<1> DEFINE g == [k \in 0..n + 1 |-> IF k = n + 1 THEN f[n] + Last ELSE f[k]]
<1> HIDE DEF n
<1>4. ASSUME NEW k \in 0..n + 1
      PROVE  g[k] = IF k = 0 THEN 0 ELSE g[k - 1] + longer[k].score[t]
  <2>1. CASE k = 0
    <3>1. g[0] = f[0] /\ f[0] = 0
      BY <1>1, <1>3
    <3> QED BY <2>1, <3>1
  <2>2. CASE k \in 1..n
    <3>1. g[k] = f[k] /\ g[k - 1] = f[k - 1] /\ k \in 0..n /\ k # 0
      BY <1>1, <2>2
    <3>2. f[k] = f[k - 1] + rows[k].score[t]
      BY <1>3, <3>1
    <3> QED BY <1>1, <2>2, <3>1, <3>2
  <2>3. CASE k = n + 1
    <3>1. g[n + 1] = f[n] + Last /\ g[n] = f[n] /\ k # 0 /\ k - 1 = n
      BY <1>1, <2>3
    <3> QED BY <2>3, <3>1
  <2> QED BY <1>1, <1>4, <2>1, <2>2, <2>3
<1>5. g = [k \in 0..n + 1 |-> g[k]]
  OBVIOUS
<1> HIDE DEF g
<1>6. PointSum(g, t, longer)
  <2>1. g = [k \in 0..n + 1 |-> IF k = 0 THEN 0 ELSE g[k - 1] + longer[k].score[t]]
    BY <1>4, <1>5
  <2> QED BY <1>1, <2>1 DEF PointSum
<1>7. ASSUME NEW h, PointSum(h, t, longer) PROVE h[n + 1] = sum + Last
  <2>1. h = [k \in 0..n + 1 |-> IF k = 0 THEN 0 ELSE h[k - 1] + longer[k].score[t]]
    BY <1>1, <1>7 DEF PointSum
  <2> DEFINE e == [k \in 0..n |-> h[k]]
  <2>2. ASSUME NEW k \in 0..n
        PROVE  h[k] = IF k = 0 THEN 0 ELSE e[k - 1] + rows[k].score[t]
    <3>1. k \in 0..n + 1 /\ (k # 0 => k \in 1..n /\ k - 1 \in 0..n)
      BY <1>1
    <3>2. h[k] = IF k = 0 THEN 0 ELSE h[k - 1] + longer[k].score[t]
      BY <2>1, <3>1
    <3> QED BY <1>1, <3>1, <3>2
  <2>3. e = [k \in 0..n |-> IF k = 0 THEN 0 ELSE e[k - 1] + rows[k].score[t]]
    BY <2>2
  <2>4. PointSum(e, t, rows)
    <3> HIDE DEF e
    <3> QED BY <2>3 DEF PointSum, n
  <2>5. e[n] = h[n]
    BY <1>1
  <2>6. e[n] = sum
    <3> HIDE DEF e
    <3> QED BY <2>4 DEF Pointed, n
  <2>7. n + 1 \in 0..n + 1 /\ n + 1 # 0 /\ n + 1 - 1 = n
    BY <1>1
  <2>8. h[n + 1] = h[n] + longer[n + 1].score[t]
    <3>1. ASSUME NEW k \in 0..n + 1, k # 0
          PROVE  h[k] = h[k - 1] + longer[k].score[t]
      BY <2>1, <3>1
    <3>2. ASSUME NEW k, k = n + 1 PROVE h[k] = h[n] + longer[k].score[t]
      <4>1. k \in 0..n + 1 /\ k # 0 /\ k - 1 = n
        BY <1>1, <3>2
      <4>2. h[k] = h[k - 1] + longer[k].score[t]
        BY <3>1, <4>1
      <4> QED BY <4>1, <4>2
    <3> QED BY <3>2
  <2> QED BY <2>5, <2>6, <2>8
<1> QED BY <1>1, <1>6, <1>7 DEF Pointed

-----------------------------------------------------------------------------
(* A row, and the wins counted over rows.                                  *)

LEMMA RowFacts ==
    ASSUME Typed, NEW k, NEW result \in Results
    PROVE  LET row == Row(k, RolesIn(k), result)
           IN  /\ \A t \in Teams : row.score[t] \in Int
               /\ \A t \in Teams : WinnerOf(row) = t
                                     <=> row.roles[t] = WinnerRole(row.result)
<1> DEFINE row == Row(k, RolesIn(k), result)
<1>1. /\ row.roles = RolesIn(k) /\ row.result = result
      /\ row.score = Paid(RolesIn(k), result)
  BY DEF Row
<1>2. \A t \in Teams : RolesIn(k)[t] = RoleOf(t, k) /\ RoleOf(t, k) \in Roles
                       /\ RoleOf(Rival(t), k) # RoleOf(t, k)
  <2> SUFFICES ASSUME NEW t \in Teams
               PROVE  RolesIn(k)[t] = RoleOf(t, k) /\ RoleOf(t, k) \in Roles
                      /\ RoleOf(Rival(t), k) # RoleOf(t, k)
    OBVIOUS
  <2>1. RolesIn(k)[t] = RoleOf(t, k)
    BY DEF RolesIn
  <2>2. RoleOf(t, k) \in Roles /\ RoleOf(Rival(t), k) = OtherRole(RoleOf(t, k))
    BY RolesTaken
  <2> QED BY <2>1, <2>2 DEF OtherRole, Roles
<1>3. TieScore \in Int /\ terms.table \in [Results -> [Roles -> Int]]
  BY SeriesAssumption DEF Typed
<1>4. ASSUME NEW t \in Teams PROVE Paid(RolesIn(k), result)[t] \in Int
  <2>1. Award(result)[RolesIn(k)[t]] \in Int
    BY <1>2, <1>3 DEF Award
  <2>2. \/ Paid(RolesIn(k), result)[t] = Award(result)[RolesIn(k)[t]]
        \/ Paid(RolesIn(k), result)[t] = Award(result)[RolesIn(k)[t]] + TieScore
    BY DEF Paid
  <2> QED BY <1>3, <2>1, <2>2
<1>5. ASSUME NEW t \in Teams
      PROVE  WinnerOf(row) = t <=> row.roles[t] = WinnerRole(row.result)
  <2> DEFINE W == {s \in Teams : row.roles[s] = WinnerRole(row.result)}
  <2>1. WinnerOf(row) = IF W = {} THEN Nobody ELSE CHOOSE s \in W : TRUE
    BY DEF WinnerOf
  <2>2. \A s, u \in W : s = u
    <3> SUFFICES ASSUME NEW s \in Teams, NEW u \in Teams,
                        row.roles[s] = row.roles[u]
                 PROVE  s = u
      OBVIOUS
    <3>1. RoleOf(s, k) = RoleOf(u, k)
      BY <1>1, <1>2
    <3> QED BY <1>2, <3>1, TwoTeams
  <2>3. t \in W <=> row.roles[t] = WinnerRole(row.result)
    BY <1>5
  <2>4. t # Nobody
    BY <1>5, TwoTeams
  <2> HIDE DEF W, row
  <2> QED BY <2>1, <2>2, <2>3, <2>4
<1> QED BY <1>1, <1>4, <1>5

WonBy(t, rows) == {k \in DOMAIN rows : WinnerOf(rows[k]) = t}

LEMMA WinsGrow ==
    ASSUME NEW t, NEW rows, NEW longer, Extends(longer, rows),
           DOMAIN rows = 1..Len(rows), DOMAIN longer = 1..Len(longer)
    PROVE  Cardinality(WonBy(t, longer)) =
             Cardinality(WonBy(t, rows))
               + IF WinnerOf(longer[Len(longer)]) = t THEN 1 ELSE 0
<1> DEFINE n == Len(rows)
<1>1. n \in Nat /\ Len(longer) = n + 1 /\ \A k \in 1..n : longer[k] = rows[k]
  BY DEF Extends
<1>2. IsFiniteSet(WonBy(t, rows))
  <2>1. WonBy(t, rows) \in SUBSET (1..n)
    BY DEF WonBy
  <2>2. IsFiniteSet(1..n)
    BY <1>1, FS_Interval
  <2> QED BY <2>1, <2>2, FS_Subset
<1>3. Cardinality(WonBy(t, rows)) \in Nat
  BY <1>2, FS_CardinalityType
<1>4. n + 1 \notin WonBy(t, rows)
  BY <1>1 DEF WonBy
<1>5. \A k \in 1..n : k \in WonBy(t, longer) <=> k \in WonBy(t, rows)
  BY <1>1 DEF WonBy
<1>6. WonBy(t, longer) \subseteq 1..n + 1 /\ WonBy(t, rows) \subseteq 1..n
  BY <1>1 DEF WonBy
<1>7. n + 1 \in WonBy(t, longer) <=> WinnerOf(longer[n + 1]) = t
  BY <1>1 DEF WonBy
<1> HIDE DEF n
<1>8. CASE WinnerOf(longer[n + 1]) = t
  <2>1. WonBy(t, longer) = WonBy(t, rows) \cup {n + 1}
    BY <1>1, <1>5, <1>6, <1>7, <1>8
  <2>2. Cardinality(WonBy(t, longer)) = Cardinality(WonBy(t, rows)) + 1
    BY <1>2, <1>4, <2>1, FS_AddElement
  <2> QED BY <1>1, <1>8, <2>2
<1>9. CASE WinnerOf(longer[n + 1]) # t
  <2>1. WonBy(t, longer) = WonBy(t, rows)
    BY <1>1, <1>5, <1>6, <1>7, <1>9
  <2> QED BY <1>1, <1>3, <1>9, <2>1
<1> QED BY <1>8, <1>9

-----------------------------------------------------------------------------
(* The inductive invariant: the tally is each of the sums of the rows.     *)

Summed ==
    /\ tally = [totals |-> tally.totals, wins |-> tally.wins, ties |-> tally.ties]
    /\ tally.totals = [t \in Teams |-> tally.totals[t]]
    /\ tally.wins = [t \in Teams |-> tally.wins[t]]
    /\ Tallied(RowsPlayed, tally)
    /\ \A t \in Teams :
        /\ tally.totals[t] \in Int
        /\ Pointed(t, RowsPlayed, tally.totals[t])
        /\ tally.wins[t] = Cardinality(WonBy(t, RowsPlayed))

Inv == Typed /\ Summed

LEMMA RowsArePlayed ==
    ASSUME Typed
    PROVE  /\ Len(RowsPlayed) = Len(played) /\ Len(played) \in Nat
           /\ DOMAIN RowsPlayed = 1..Len(played)
           /\ \A k \in 1..Len(played) :
                RowsPlayed[k] = Row(k, RolesIn(k), played[k])
<1>1. Len(played) \in Nat
  BY DEF Typed
<1> QED BY <1>1 DEF RowsPlayed

LEMMA InvInit == Init => Inv
<1> SUFFICES ASSUME Init PROVE Inv
  OBVIOUS
<1>1. Typed
  BY SeriesAssumption DEF Init, Typed
<1>2. Len(played) = 0
  BY DEF Init
<1>3. Len(RowsPlayed) = 0 /\ DOMAIN RowsPlayed = {}
  BY <1>1, <1>2, RowsArePlayed
<1>4. /\ tally = NewTally
      /\ tally.totals = [t \in Teams |-> 0] /\ tally.wins = [t \in Teams |-> 0]
      /\ tally = [totals |-> tally.totals, wins |-> tally.wins, ties |-> tally.ties]
  BY DEF Init, NewTally, Zero
<1>5. Tallied(RowsPlayed, tally) /\ \A t : Pointed(t, RowsPlayed, 0)
  BY <1>3, <1>4, SumsBegin
<1>6. \A t : Cardinality(WonBy(t, RowsPlayed)) = 0
  BY <1>3, FS_EmptySet DEF WonBy
<1> QED BY <1>1, <1>4, <1>5, <1>6 DEF Inv, Summed

LEMMA InvNext == Inv /\ [Next]_vars => Inv'
<1> SUFFICES ASSUME Inv, [Next]_vars PROVE Inv'
  OBVIOUS
<1>1. CASE UNCHANGED vars
  <2>1. terms' = terms /\ played' = played /\ tally' = tally
    BY <1>1 DEF vars
  <2>2. RowsPlayed' = RowsPlayed
    BY <2>1 DEF RowsPlayed, Row, Paid, Award, RolesIn, RoleOf
  <2>3. Typed'
    BY <2>1 DEF Inv, Typed
  <2>4. Summed'
    BY <2>1, <2>2 DEF Inv, Summed, WonBy
  <2> QED BY <2>3, <2>4 DEF Inv
<1>2. ASSUME NEW result \in Results, Play(result) PROVE Inv'
  <2> DEFINE rows == RowsPlayed
             longer == RowsPlayed'
             n == Len(played)
             row == Row(n + 1, RolesIn(n + 1), result)
  <2>1. /\ n \in Nat /\ n < SubGames /\ terms' = terms
        /\ played' = Append(played, result)
        /\ played \in Seq(Results)
    BY <1>2 DEF Play, Inv, Typed
  <2>2. /\ Len(played') = n + 1 /\ played'[n + 1] = result
        /\ \A k \in 1..n : played'[k] = played[k]
        /\ played' \in Seq(Results)
    BY <2>1
  <2>3. Typed'
    BY <2>1, <2>2, SeriesAssumption DEF Inv, Typed
  <2>4. tally' = Record(tally, row)
    BY <1>2, <2>2 DEF Play
  <2>5. \A k, r : Row(k, RolesIn(k), r)' = Row(k, RolesIn(k), r)
    BY <2>1 DEF Row, Paid, Award, RolesIn, RoleOf
  <2>6. longer = [k \in 1..Len(played') |-> Row(k, RolesIn(k), played'[k])]
    BY <2>1 DEF RowsPlayed, Row, Paid, Award, RolesIn, RoleOf
  <2>7. /\ Len(rows) = n /\ DOMAIN rows = 1..n
        /\ \A k \in 1..n : rows[k] = Row(k, RolesIn(k), played[k])
    BY RowsArePlayed DEF Inv
  <2> HIDE DEF longer
  <2>8. /\ Len(longer) = n + 1 /\ DOMAIN longer = 1..n + 1
        /\ \A k \in 1..n : longer[k] = rows[k]
        /\ longer[n + 1] = row
    BY <2>1, <2>2, <2>6, <2>7
  <2> HIDE DEF rows, n, row
  <2>9. Extends(longer, rows)
    BY <2>1, <2>7, <2>8 DEF Extends
  <2>10. /\ tally = [totals |-> tally.totals, wins |-> tally.wins, ties |-> tally.ties]
         /\ Tallied(rows, tally)
         /\ \A t \in Teams :
              /\ tally.totals[t] \in Int
              /\ Pointed(t, rows, tally.totals[t])
              /\ tally.wins[t] = Cardinality(WonBy(t, rows))
    BY DEF Inv, Summed, rows
  <2>11. /\ \A t \in Teams : row.score[t] \in Int
         /\ \A t \in Teams : WinnerOf(row) = t <=> row.roles[t] = WinnerRole(row.result)
    BY <1>2, RowFacts DEF Inv, row
  <2>12. Tallied(longer, tally')
    BY <2>4, <2>8, <2>9, <2>10, TallyGrows
  <2>13. /\ tally'.totals = [t \in Teams |-> tally.totals[t] + row.score[t]]
         /\ tally'.wins = [t \in Teams |-> tally.wins[t]
               + IF row.roles[t] = WinnerRole(row.result) THEN 1 ELSE 0]
         /\ tally' = [totals |-> tally'.totals, wins |-> tally'.wins, ties |-> tally'.ties]
    BY <2>4 DEF Record
  <2>14. ASSUME NEW t \in Teams
         PROVE  /\ tally'.totals[t] \in Int
                /\ Pointed(t, longer, tally'.totals[t])
                /\ tally'.wins[t] = Cardinality(WonBy(t, longer))
    <3>1. tally'.totals[t] = tally.totals[t] + row.score[t]
      BY <2>13
    <3>2. Pointed(t, longer, tally.totals[t] + row.score[t])
      BY <2>8, <2>9, <2>10, PointsGrow
    <3>3. Cardinality(WonBy(t, longer)) = Cardinality(WonBy(t, rows))
             + IF WinnerOf(row) = t THEN 1 ELSE 0
      BY <2>7, <2>8, <2>9, WinsGrow
    <3> QED BY <2>10, <2>11, <2>13, <3>1, <3>2, <3>3
  <2>15. Summed'
    BY <2>12, <2>13, <2>14 DEF Summed, longer
  <2> QED BY <2>3, <2>15 DEF Inv
<1> QED BY <1>1, <1>2 DEF Next

LEMMA Invariance == Spec => []Inv
<1> QED BY InvInit, InvNext, PTL DEF Spec

-----------------------------------------------------------------------------
(* What the two teams file.                                                *)

\* The scores, the wins and the verdict of the rows are those of the tally.
LEMMA SumsAgree ==
    ASSUME Inv
    PROVE  /\ TallyOf(RowsPlayed) = tally
           /\ ScoresOf(RowsPlayed) = tally.totals
           /\ tally.wins = [t \in Teams |-> Cardinality(WonBy(t, RowsPlayed))]
<1>1. TallyOf(RowsPlayed) = tally
  BY TallyIs DEF Inv, Summed
<1>2. \A t \in Teams : PointsOf(t, RowsPlayed) = tally.totals[t]
  BY PointsAre DEF Inv, Summed
<1>3. ScoresOf(RowsPlayed) = tally.totals
  BY <1>2 DEF ScoresOf, Inv, Summed
<1>4. tally.wins = [t \in Teams |-> Cardinality(WonBy(t, RowsPlayed))]
  BY DEF Inv, Summed
<1> QED BY <1>1, <1>3, <1>4

LEMMA ArtifactIs ==
    ASSUME Inv, Over, NEW t \in Teams
    PROVE  ResultArtifact(t) =
             [num_sub_games |-> Len(RowsPlayed), final_result |-> Finalise(tally),
              own |-> AgreedSummary(RowsPlayed), league |-> InteropSummary(RowsPlayed)]
<1>1. Outcomes(t) = RowsPlayed
  BY RebuiltAsPlayed DEF Inv
<1>2. FinalResult(RowsPlayed) = Finalise(tally)
  BY SumsAgree DEF FinalResult
<1> QED BY <1>1, <1>2 DEF ResultArtifact

LEMMA ReportsAgree == Inv => BothReportTheSame
<1> SUFFICES ASSUME Inv, Over
             PROVE  /\ \A s, t \in Teams : ResultArtifact(s) = ResultArtifact(t)
                    /\ \A t \in Teams :
                        /\ ResultArtifact(t).final_result = Finalise(tally)
                        /\ \A k \in 1..SubGames :
                            /\ ResultArtifact(t).own.sub_games[k].sub_game = k
                            /\ ResultArtifact(t).own.sub_games[k].roles = RolesIn(k)
                            /\ ResultArtifact(t).own.sub_games[k].result = played[k]
  BY DEF BothReportTheSame
<1>1. \A s, t \in Teams : ResultArtifact(s) = ResultArtifact(t)
  BY ArtifactIs
<1>2. ASSUME NEW t \in Teams
      PROVE  ResultArtifact(t).final_result = Finalise(tally)
             /\ ResultArtifact(t).own.sub_games = RowsPlayed
  BY ArtifactIs DEF AgreedSummary
<1>3. ASSUME NEW k \in 1..SubGames
      PROVE  /\ RowsPlayed[k].sub_game = k
             /\ RowsPlayed[k].roles = RolesIn(k)
             /\ RowsPlayed[k].result = played[k]
  <2>1. RowsPlayed[k] = Row(k, RolesIn(k), played[k])
    BY <1>3, RowsArePlayed DEF Inv, Over
  <2> QED BY <2>1 DEF Row
<1> QED BY <1>1, <1>2, <1>3

LEMMA LeagueSumsAgree ==
    ASSUME Inv
    PROVE  LeagueAggregate([k \in DOMAIN RowsPlayed |-> LeagueRow(RowsPlayed[k])])
             = SeriesTotals(RowsPlayed)
<1> DEFINE rows == RowsPlayed
           league == [k \in DOMAIN rows |-> LeagueRow(rows[k])]
<1>1. Len(rows) \in Nat /\ DOMAIN rows = 1..Len(rows)
  BY RowsArePlayed DEF Inv
<1>2. \A t \in Teams : Pointed(t, rows, tally.totals[t]) /\ tally.totals[t] \in Int
  BY DEF Inv, Summed
<1>3. ScoresOf(rows) = tally.totals /\ tally.totals = [t \in Teams |-> tally.totals[t]]
  BY SumsAgree DEF Inv, Summed
<1> HIDE DEF rows
<1>4. Len(league) = Len(rows) /\ DOMAIN league = DOMAIN rows
  BY <1>1
<1>5. \A k \in DOMAIN rows : league[k].score = rows[k].score
                             /\ league[k].winner_group = WinnerOf(rows[k])
  BY DEF LeagueRow
<1> HIDE DEF league
<1>6. ASSUME NEW t \in Teams PROVE PointsOf(t, league) = tally.totals[t]
  <2>1. ASSUME NEW f PROVE PointSum(f, t, league) <=> PointSum(f, t, rows)
    <3>1. ASSUME NEW k \in 0..Len(rows)
          PROVE  (IF k = 0 THEN 0 ELSE f[k - 1] + league[k].score[t])
                   = (IF k = 0 THEN 0 ELSE f[k - 1] + rows[k].score[t])
      BY <1>1, <1>5, <3>1
    <3>2. [k \in 0..Len(rows) |-> IF k = 0 THEN 0 ELSE f[k - 1] + league[k].score[t]]
            = [k \in 0..Len(rows) |-> IF k = 0 THEN 0 ELSE f[k - 1] + rows[k].score[t]]
      BY <3>1
    <3> QED BY <1>4, <3>2 DEF PointSum
  <2>2. Pointed(t, league, tally.totals[t])
    BY <1>2, <1>4, <1>6, <2>1 DEF Pointed
  <2> QED BY <2>2, PointsAre
<1>7. ScoresOf(league) = ScoresOf(rows)
  BY <1>3, <1>6 DEF ScoresOf
<1>8. \A t \in Teams : {k \in DOMAIN league : league[k].winner_group = t}
                         = {k \in DOMAIN rows : WinnerOf(rows[k]) = t}
  BY <1>4, <1>5
<1>9. [t \in Teams |-> ScoresOf(rows)[t] + IF IsLevel(ScoresOf(rows)) THEN TieScore ELSE 0]
        = IF IsLevel(ScoresOf(rows)) THEN [t \in Teams |-> ScoresOf(rows)[t] + TieScore]
          ELSE ScoresOf(rows)
  <2>1. CASE IsLevel(ScoresOf(rows))
    BY <2>1
  <2>2. CASE ~ IsLevel(ScoresOf(rows))
    <3>1. \A t \in Teams : ScoresOf(rows)[t] + 0 = ScoresOf(rows)[t]
      BY <1>2, <1>3
    <3>2. ScoresOf(rows) = [t \in Teams |-> ScoresOf(rows)[t]]
      BY <1>3
    <3> QED BY <2>2, <3>1, <3>2
  <2> QED BY <2>1, <2>2
<1>10. LeagueAggregate(league) = SeriesTotals(rows)
  <2>1. LeagueAggregate(league) =
          [total_score |-> [t \in Teams |-> ScoresOf(rows)[t]
                              + IF IsLevel(ScoresOf(rows)) THEN TieScore ELSE 0],
           won |-> [t \in Teams |-> Cardinality({k \in DOMAIN league :
                                        league[k].winner_group = t})],
           winner |-> LeaderOf(ScoresOf(rows))]
    BY <1>7 DEF LeagueAggregate
  <2>2. SeriesTotals(rows) =
          [total_score |-> IF IsLevel(ScoresOf(rows))
                           THEN [t \in Teams |-> ScoresOf(rows)[t] + TieScore]
                           ELSE ScoresOf(rows),
           won |-> [t \in Teams |-> Cardinality({k \in DOMAIN rows :
                                        WinnerOf(rows[k]) = t})],
           winner |-> LeaderOf(ScoresOf(rows))]
    BY DEF SeriesTotals
  <2>3. [t \in Teams |-> Cardinality({k \in DOMAIN league : league[k].winner_group = t})]
          = [t \in Teams |-> Cardinality({k \in DOMAIN rows : WinnerOf(rows[k]) = t})]
    BY <1>8
  <2> QED BY <1>9, <2>1, <2>2, <2>3
<1> QED BY <1>10 DEF league, rows

LEMMA VerdictAgrees == Inv => VerdictIsTheDigest
<1> SUFFICES ASSUME Inv, Over, NEW t \in Teams
             PROVE  LET artifact == ResultArtifact(t)
                        filed == artifact.final_result
                        hashed == artifact.own.totals
                    IN  /\ hashed = artifact.league.aggregate
                        /\ filed.winner = hashed.winner
                        /\ filed.won = hashed.won
                        /\ \/ filed.total_score = hashed.total_score
                           \/ filed.winner = Nobody /\ terms.tieRule # "series_add"
  BY DEF VerdictIsTheDigest
<1>1. /\ ResultArtifact(t).final_result = Finalise(tally)
      /\ ResultArtifact(t).own.totals = SeriesTotals(RowsPlayed)
      /\ ResultArtifact(t).league.aggregate
           = LeagueAggregate([k \in DOMAIN RowsPlayed |-> LeagueRow(RowsPlayed[k])])
  BY ArtifactIs DEF AgreedSummary, InteropSummary
<1>2. SeriesTotals(RowsPlayed) = ResultArtifact(t).league.aggregate
  BY <1>1, LeagueSumsAgree
<1>3. ScoresOf(RowsPlayed) = tally.totals
      /\ tally.wins = [s \in Teams |-> Cardinality(WonBy(s, RowsPlayed))]
  BY SumsAgree
<1>4. /\ SeriesTotals(RowsPlayed).winner = LeaderOf(tally.totals)
      /\ SeriesTotals(RowsPlayed).won = tally.wins
      /\ SeriesTotals(RowsPlayed).total_score =
           IF IsLevel(tally.totals) THEN [s \in Teams |-> tally.totals[s] + TieScore]
           ELSE tally.totals
  BY <1>3 DEF SeriesTotals, WonBy
<1>5. /\ Finalise(tally).winner = LeaderOf(tally.totals)
      /\ Finalise(tally).won = tally.wins
  BY DEF Finalise
<1>6. \/ Finalise(tally).total_score = SeriesTotals(RowsPlayed).total_score
      \/ Finalise(tally).winner = Nobody /\ terms.tieRule # "series_add"
  <2>1. CASE ~ IsLevel(tally.totals)
    <3>1. Finalise(tally).total_score = tally.totals
      BY <2>1 DEF Finalise
    <3> QED BY <1>4, <2>1, <3>1
  <2>2. CASE IsLevel(tally.totals) /\ terms.tieRule = "series_add"
    <3>1. Finalise(tally).total_score = [s \in Teams |-> tally.totals[s] + TieScore]
      BY <2>2 DEF Finalise
    <3> QED BY <1>4, <2>2, <3>1
  <2>3. CASE IsLevel(tally.totals) /\ terms.tieRule # "series_add"
    BY <1>5, <2>3 DEF LeaderOf
  <2> QED BY <2>1, <2>2, <2>3
<1> QED BY <1>1, <1>2, <1>4, <1>5, <1>6

-----------------------------------------------------------------------------
\* However each team numbers its logs, both file one artifact: the series that
\* was played, in its order, with the verdict of the running tally
\* (assemble_series against MatchService.run_series).
THEOREM ReportsAreTheSame == Spec => []BothReportTheSame
<1> QED BY Invariance, ReportsAgree, PTL

\* The filed verdict, our digest and the league's are one sum of one series,
\* save for the total of a level series under a rule the digests do not know
\* (SeriesTally.finalise, series_totals and interop_aggregate).
THEOREM VerdictIsHashed == Spec => []VerdictIsTheDigest
<1> QED BY Invariance, VerdictAgrees, PTL

=============================================================================
