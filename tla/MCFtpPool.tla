------------------------------ MODULE MCFtpPool ------------------------------
(* Small instances of FtpPool for TLC. *)
EXTENDS FtpPool, TLC

CONSTANTS u1, u2, h1, h2, h3, owner

MCUsers == {u1, u2}
MCOwners == {owner}
MCNoOwners == {}
MCTwoHandles == {h1, h2}
MCThreeHandles == {h1, h2, h3}

(* Users and connections are interchangeable; the safety run says so. *)
MCSymmetry == Permutations(MCUsers) \cup Permutations(MCThreeHandles)
=============================================================================
