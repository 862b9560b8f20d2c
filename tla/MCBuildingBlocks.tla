-------------------------- MODULE MCBuildingBlocks --------------------------
(* The parts that work alone, for TLC. *)
EXTENDS BuildingBlocks

(* An address with a port, without one, with one that is no number, with   *)
(* one that is none, and nothing.                                          *)
MCAddresses ==
  {[text |-> "h:1", host |-> "h", given |-> TRUE, number |-> TRUE, port |-> 1],
   [text |-> "h", host |-> "", given |-> FALSE, number |-> FALSE, port |-> 0],
   [text |-> "h:x", host |-> "h", given |-> TRUE, number |-> FALSE, port |-> 0],
   [text |-> ":99999", host |-> "", given |-> TRUE, number |-> TRUE, port |-> 99999],
   [text |-> "", host |-> "", given |-> FALSE, number |-> FALSE, port |-> 0]}

=============================================================================
