----------------------------- MODULE MCSession -----------------------------
(* Small instances of Session for TLC. *)
EXTENDS Session, TLC

CONSTANTS f1, f2, p1, p2, c1, c2, k1, k2

MCFtpSessions == {f1, f2}
MCSftpSessions == {p1, p2}
MCFtpHandles == {c1, c2}
MCSftpHandles == {k1, k2}

(* Sessions and connections of one kind are interchangeable. *)
MCSymmetry ==
  Permutations(MCFtpSessions) \cup Permutations(MCFtpHandles)
    \cup Permutations(MCSftpSessions) \cup Permutations(MCSftpHandles)
=============================================================================
