---------------------------- MODULE MCGatekeeper ----------------------------
(* Constants of the gatekeeper's runs: threads as model values.            *)
EXTENDS GatekeeperProperties, TLC

CONSTANTS t1, t2, t3

ThreeThreads == {t1, t2, t3}

=============================================================================
