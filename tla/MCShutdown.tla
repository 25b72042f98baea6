----------------------------- MODULE MCShutdown -----------------------------
(* Small instances of Shutdown for TLC. *)
EXTENDS Shutdown, TLC

CONSTANTS t1, opt, req

MCCrashing == {t1}
MCNone == {}
MCTeardowns == <<opt, req>>
MCRequired == {req}
=============================================================================
