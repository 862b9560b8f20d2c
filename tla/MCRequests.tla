----------------------------- MODULE MCRequests -----------------------------
(* Small instances of Requests for TLC. *)
EXTENDS Requests, TLC

\* Senders do the same things, so their names do not matter.
SenderSymmetry == Permutations(Senders)
=============================================================================
