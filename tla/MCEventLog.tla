----------------------------- MODULE MCEventLog -----------------------------
(* Small instances of EventLog for TLC. *)
EXTENDS EventLog

AllOptions == {StartFromNewEvents, StartFromFirstEvent, StartFromLastEvent, StartFromSequence(2),
               StartFromTime(1), StartFromTimeDelta(1)}
=============================================================================
