----------------------------- MODULE MCSftpPool -----------------------------
(***************************************************************************)
(* SftpPool for TLC: two processes that share a run, and the symmetry of   *)
(* the model values.                                                       *)
(***************************************************************************)
EXTENDS SftpPool, TLC

CONSTANTS u1, u2, u3, k

(* Two users side by side; one user with the keepalive thread, and a       *)
(* shutdown of the process.                                                *)
MCSettings ==
  {[workers |-> {u1, u2}, canShutDown |-> FALSE],
   [workers |-> {u3, k}, canShutDown |-> TRUE]}

MCUsers == {u1, u2, u3}
MCKeepers == {k}

(* The users of the first process are interchangeable, the transports too. *)
MCSymmetry == Permutations({u1, u2}) \cup Permutations(Transports)
=============================================================================
