----------------------------- MODULE MCStartUp -----------------------------
EXTENDS StartUpProperties

\* a team as it should be, and one thing wrong with it at a time
Team(group) ==
    [group |-> group, number |-> 1, convention |-> "odd_even", typed |-> None,
     named |-> TRUE, declares |-> [terms |-> 1, scent |-> 1],
     hello |-> "nested", step0 |-> TRUE, wire |-> "native"]

Ours == Team(1)
Theirs == Team(2)

MCConfigs ==
    [p \in Peers |->
        IF p = "ours"
        THEN {Ours,
              [Ours EXCEPT !.number = 2],
              [Ours EXCEPT !.typed = "thief"],
              [Ours EXCEPT !.declares = [terms |-> 1]]}
        ELSE {Theirs,
              [Theirs EXCEPT !.number = 2],
              [Theirs EXCEPT !.number = 2, !.convention = "first_half"],
              [Theirs EXCEPT !.typed = "police"],
              [Theirs EXCEPT !.group = 1, !.typed = "thief"],
              [Theirs EXCEPT !.named = FALSE],
              [Theirs EXCEPT !.declares = <<>>],
              [Theirs EXCEPT !.declares = [terms |-> 2]],
              [Theirs EXCEPT !.declares = [scent |-> 2]],
              [Theirs EXCEPT !.hello = "none"],
              [Theirs EXCEPT !.hello = "flat"],
              [Theirs EXCEPT !.step0 = FALSE],
              [Theirs EXCEPT !.wire = "reference", !.hello = "none"],
              [Theirs EXCEPT !.wire = "both"]}]
=============================================================================
