--------------------------- MODULE HandleLending ---------------------------
(***************************************************************************)
(* What a pool promises the sessions that use it (the HandleProvider of    *)
(* src/aeth_ext/ftp/session.py: acquire() and release()), whatever it does *)
(* inside: a handle is lent to one user at a time, no more than Limit are  *)
(* lent at once, and a call that begins after the pool was shut gets none. *)
(***************************************************************************)
EXTENDS Integers, FiniteSets

CONSTANTS
  Users,     \* threads that borrow handles
  Handles,   \* what is lent
  Limit      \* how many may be lent at once

VARIABLES
  shut,      \* the pool is closed for good
  seeking,   \* the users inside a call of acquire()
  lent       \* the handle each user has, as a set of at most one

lendingVars == <<shut, seeking, lent>>

Borrowers == {u \in Users : lent[u] # {}}

LendingInit ==
  /\ shut = FALSE
  /\ seeking = {}
  /\ lent = [u \in Users |-> {}]

Begin(u) ==
  /\ ~shut
  /\ u \notin seeking
  /\ lent[u] = {}
  /\ seeking' = seeking \cup {u}
  /\ UNCHANGED <<shut, lent>>

Lend(u, h) ==
  /\ u \in seeking
  /\ \A v \in Users : h \notin lent[v]
  /\ Cardinality(Borrowers) < Limit
  /\ seeking' = seeking \ {u}
  /\ lent' = [lent EXCEPT ![u] = {h}]
  /\ UNCHANGED shut

Fail(u) ==
  /\ u \in seeking
  /\ seeking' = seeking \ {u}
  /\ UNCHANGED <<shut, lent>>

Return(u) ==
  /\ lent[u] # {}
  /\ lent' = [lent EXCEPT ![u] = {}]
  /\ UNCHANGED <<shut, seeking>>

Shut ==
  /\ shut' = TRUE
  /\ UNCHANGED <<seeking, lent>>

LendingNext ==
  \/ \E u \in Users : Begin(u) \/ Fail(u) \/ Return(u)
  \/ \E u \in Users, h \in Handles : Lend(u, h)
  \/ Shut

LendingSpec == LendingInit /\ [][LendingNext]_lendingVars
=============================================================================
