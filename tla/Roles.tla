------------------------------- MODULE Roles -------------------------------
(***************************************************************************)
(* Which of two teams is the cop of a sub-game (domain/roles.py).  A team  *)
(* is an integer, so that the two ids can be sorted as the code sorts its  *)
(* strings.                                                                *)
(***************************************************************************)
EXTENDS Integers

Roles == {"police", "thief"}
Conventions == {"first_half", "odd_even"}

OtherRole(role) == IF role = "police" THEN "thief" ELSE "police"

FirstOf(a, b) == IF a < b THEN a ELSE b
SecondOf(a, b) == IF a < b THEN b ELSE a

\* the sub-games whose cop is the first of the sorted pair
FirstIsCop(n, games, convention) ==
    \/ convention = "odd_even" /\ n % 2 = 1
    \/ convention = "first_half" /\ n <= games \div 2

CopGroup(a, b, n, games, convention) ==
    IF FirstIsCop(n, games, convention) THEN FirstOf(a, b) ELSE SecondOf(a, b)

RoleFor(mine, theirs, n, games, convention) ==
    IF CopGroup(mine, theirs, n, games, convention) = mine
    THEN "police" ELSE "thief"

\* role_clash with both teams known
RoleClash(ours, declared, mine, theirs, n, games, convention) ==
    \/ declared = ours
    \/ RoleFor(mine, theirs, n, games, convention) # ours
=============================================================================
