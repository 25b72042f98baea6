--------------------------- MODULE MCLogDelivery ---------------------------
(* Small instances of LogDelivery for TLC: one fault, wherever it falls.      *)
EXTENDS LogDelivery

MCBoth == {"handler", "drainer"}
=============================================================================
