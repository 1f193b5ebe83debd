---------------------------- MODULE MCSettlement ----------------------------
EXTENDS SettlementProperties

OnePerRepository == [r \in Roles |-> r]
NoOtherGame == {}
=============================================================================
