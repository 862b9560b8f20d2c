---------------------------- MODULE MCBurninRuns ----------------------------
(***************************************************************************)
(* A worker of the burn-in application, and the application as its HTTP    *)
(* clients see it, with start bodies of both versions of the format, for   *)
(* TLC.  A behaviour exercises one of the two.                             *)
(***************************************************************************)
EXTENDS BurninWorkers, BurninService

VARIABLE subject

Json(f) == [kind |-> "json", fields |-> f, wrong |-> {}]
Nothing == [x \in {} |-> 0]
One(k, v) == [x \in {k} |-> v]

\* No body, text that is no JSON, a key of a wrong type, nothing asked, a
\* duration twice, one pattern, two channels and a disabled pattern, a
\* negative number of channels, a pattern the engine does not know.
SomeBodies ==
  {[kind |-> "empty", fields |-> Nothing, wrong |-> {}],
   [kind |-> "malformed", fields |-> Nothing, wrong |-> {}],
   [kind |-> "json", fields |-> One("run_id", "r"), wrong |-> {"patterns"}],
   Json([duration |-> [value |-> 5, unit |-> "m"], duration_seconds |-> 7, message |-> 64]),
   Json([duration |-> [value |-> 2, unit |-> "h"], broker |-> "other:1", warmup |-> [value |-> 3, unit |-> ""],
         patterns |-> One("events", Nothing), run_id |-> "r"]),
   Json(One("patterns", [queue_stream |-> One("channels", 2), commands |-> One("enabled", FALSE)])),
   Json([patterns |-> One("queries", One("channels", -1)), queue |-> One("auto_ack", TRUE)]),
   Json(One("patterns", [other |-> Nothing, queries |-> One("rate", 5)]))}

\* A file that sets both; the environment and a file whose address cannot be read.
SomeStartups ==
  {[env |-> "", path |-> TRUE, port |-> 80,
    file |-> [port |-> <<9000>>, address |-> <<"yaml:1">>, wrong |-> "none"]],
   [env |-> "env:1", path |-> TRUE, port |-> 8888,
    file |-> [port |-> <<9001>>, address |-> <<"yaml:1">>, wrong |-> "address"]]}

RunsInit ==
  /\ subject \in {"worker", "service"} /\ Init /\ ServiceInit
  /\ subject # "worker" => ~autoAck /\ pattern = CHOOSE p \in Classes : TRUE

UseWorker == subject = "worker" /\ Next /\ UNCHANGED <<subject, serviceVars>>
UseService == subject = "service" /\ ServiceNext /\ UNCHANGED <<subject, vars>>

RunsSpec == RunsInit /\ [][UseWorker \/ UseService]_<<subject, vars, serviceVars>>
=============================================================================
