---------------------------- MODULE MCWakeupGate ----------------------------
(* Small instances of WakeupGate for TLC. *)
EXTENDS WakeupGate

CONSTANTS w1, w2

MCWaiters == {w1, w2}
MCTimed == {w1}
=============================================================================
