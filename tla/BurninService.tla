--------------------------- MODULE BurninService ---------------------------
(***************************************************************************)
(* The burn-in application as its HTTP clients see it: run configurations  *)
(* (config.cc), the requests (handlers.cc), what a run creates, counts and *)
(* reports (engine.cc, metrics.cc), over several runs of one process.      *)
(*                                                                         *)
(* A request is one step: how its critical sections interleave with the    *)
(* run thread is the subject of BurninEngine.  What a worker's threads do  *)
(* is in BurninWorkers; here a worker counts.  A JSON text is a function   *)
(* from the keys it has to their values; a JSON object for a pattern is    *)
(* one, too.                                                               *)
(***************************************************************************)
EXTENDS Integers, FiniteSets

CONSTANTS
  Bodies,   \* bodies of start requests: [kind, fields, wrong]; see FromJson
  Startups, \* what main finds: [env, path, file, port]; see ResolveBroker
  MaxRuns,  \* bound: runs started
  MaxCounts \* bound: messages and errors counted in a run

Patterns == {"events", "events_store", "queue_stream", "queue_simple", "commands", "queries"}

NoText == ""

\* The counters of PatternMetrics, as far as they are told apart: errors make
\* the verdict, the other twelve are like sent.
MetricNames == {"sent", "errors"}

\* A value of a wrong type is in wrong: the channels of the others are numbers.
ServiceConstants ==
  /\ MaxRuns \in Nat /\ MaxCounts \in Nat
  /\ \A body \in Bodies :
       body.wrong = {} /\ "patterns" \in DOMAIN body.fields =>
         LET patterns == body.fields.patterns
         IN  \A p \in DOMAIN patterns : "channels" \in DOMAIN patterns[p] => patterns[p].channels \in Int

ASSUME BurninServiceAssumption == ServiceConstants

VARIABLES
  brokerAddress, \* Engine::broker_address_
  port,      \* HttpServer::port_
  state,     \* Engine::state_
  config,    \* Engine::config_
  metrics,   \* AggregateMetrics::patterns_: from a pattern to its counters
  workers,   \* workers_: how many of them each pattern has
  hasReport, report, \* has_report_, last_report_
  run,       \* the run thread: "none", "starting", "working", "ended"
  stop,      \* stop_requested_
  runs,      \* history: runs started
  flushing,  \* upstreams that Stop has left to a detached thread may get results
  counted,   \* history: what workers counted since the counters were reset
  late       \* history: what detached upstreams counted since, and whether the
             \* report was there already

serviceVars == <<brokerAddress, port, state, config, metrics, workers, hasReport, report, run, stop, runs,
                 flushing, counted, late>>

-----------------------------------------------------------------------------
(***************************************************************************)
(* Configurations                                                          *)
(***************************************************************************)

\* PatternConfig and QueueConfig, for the fields that are read.
NewPatternConfig == [enabled |-> TRUE, channels |-> 1, rate |-> 50]
NewQueueConfig == [poll_max_messages |-> 10, poll_wait_timeout_seconds |-> 5, auto_ack |-> FALSE]

DefaultRate == [p \in Patterns |-> CASE p = "events" -> 100
                                     [] p \in {"commands", "queries"} -> 20
                                     [] OTHER -> 50]

SetDefaults ==
  [broker_address |-> "localhost:50000", duration_seconds |-> 900, warmup_seconds |-> 10,
   payload_size |-> 256, run_id |-> NoText,
   patterns |-> [p \in Patterns |-> [NewPatternConfig EXCEPT !.rate = DefaultRate[p]]],
   queue |-> NewQueueConfig]

\* "5m" and the like: the digits and the character that follows them, if any.
ParseDurationToSeconds(d) ==
  d.value * (CASE d.unit = "m" -> 60 [] d.unit = "h" -> 3600 [] d.unit = "d" -> 86400 [] OTHER -> 1)

\* The fields of object j replace those of r.
Merge(r, j) == [f \in DOMAIN r |-> IF f \in DOMAIN j THEN j[f] ELSE r[f]]

\* The defaults, with the keys of the second version of the format.
ReadVersion2(j) ==
  LET has(k) == k \in DOMAIN j
  IN [SetDefaults EXCEPT
       !.broker_address = IF has("broker") THEN j.broker ELSE @,
       !.duration_seconds = IF has("duration") THEN ParseDurationToSeconds(j.duration) ELSE @,
       !.warmup_seconds = IF has("warmup") THEN ParseDurationToSeconds(j.warmup) ELSE @,
       !.payload_size = IF has("message") THEN j.message ELSE @]

\* Then those of the first; "patterns" replaces all six.
from_json(j) ==
  LET has(k) == k \in DOMAIN j
  IN [Merge(ReadVersion2(j), j) EXCEPT
       !.patterns = IF has("patterns") THEN [p \in DOMAIN j.patterns |-> Merge(NewPatternConfig, j.patterns[p])] ELSE @,
       !.queue = IF has("queue") THEN Merge(NewQueueConfig, j.queue) ELSE @]

\* An empty body, and one that does not parse or has a value of a wrong type,
\* give the defaults: the exception is caught.
FromJson(body) ==
  IF body.kind = "json" /\ body.wrong = {} THEN from_json(body.fields) ELSE SetDefaults

PatternToJson(p) == [enabled |-> p.enabled, channels |-> p.channels, rate |-> p.rate]

QueueToJson(q) == [poll_max_messages |-> q.poll_max_messages, auto_ack |-> q.auto_ack,
                   poll_wait_timeout_seconds |-> q.poll_wait_timeout_seconds]

\* The keys of the first version.
to_json(c) ==
  [broker_address |-> c.broker_address, duration_seconds |-> c.duration_seconds,
   warmup_seconds |-> c.warmup_seconds, run_id |-> c.run_id, payload_size |-> c.payload_size,
   patterns |-> [p \in DOMAIN c.patterns |-> PatternToJson(c.patterns[p])],
   queue |-> QueueToJson(c.queue)]

-----------------------------------------------------------------------------
(***************************************************************************)
(* main                                                                    *)
(***************************************************************************)

\* file.port and file.address are the values of metrics.port and broker.address
\* (<<>> for none); the port is read first, and the first value that cannot be
\* read ends the loading (file.wrong; "file" if there is none).
LoadFromYaml(file) ==
  [metrics_port |-> IF file.wrong \in {"none", "address"} /\ file.port # <<>> THEN file.port[1] ELSE 0,
   broker_address |-> IF file.wrong = "none" /\ file.address # <<>> THEN file.address[1]
                      ELSE "localhost:50000"]

\* s.env: KUBEMQ_BROKER_ADDRESS; s.path: --config was given; s.port: PORT as
\* GetEnvInt reads it, the default when it is no number.
ResolveBroker(s) ==
  LET yaml == LoadFromYaml(s.file)
  IN  IF s.env # NoText THEN s.env
      ELSE IF s.path /\ yaml.broker_address # NoText THEN yaml.broker_address
      ELSE "localhost:50000"

ResolvePort(s) ==
  LET yaml == LoadFromYaml(s.file)
  IN  IF s.path /\ yaml.metrics_port > 0 THEN yaml.metrics_port ELSE s.port

NoPatterns == [p \in {} |-> 0]
NoReport == [run |-> 0, patterns |-> NoPatterns, peakWorkers |-> 0, verdict |-> "none"]

ServiceInit ==
  /\ \E s \in Startups : brokerAddress = ResolveBroker(s) /\ port = ResolvePort(s)
  /\ state = "idle" /\ run = "none" /\ stop = FALSE
  /\ config = [SetDefaults EXCEPT !.patterns = NoPatterns]
  /\ metrics = NoPatterns /\ counted = {} /\ late = {} /\ flushing = FALSE
  /\ workers = [p \in Patterns |-> 0]
  /\ hasReport = FALSE /\ report = NoReport
  /\ runs = 0

-----------------------------------------------------------------------------
(***************************************************************************)
(* Requests                                                                *)
(***************************************************************************)

Startable == state \in {"idle", "stopped", "error"}

\* Variant: the report of the last run stays until the next one is made.
HandleRunStartKeepsReport(body) ==
  /\ Startable /\ run \in {"none", "ended"} /\ runs < MaxRuns
  /\ LET c == FromJson(body)
     IN  config' = [c EXCEPT !.run_id = IF @ = NoText THEN "generated" ELSE @]
  /\ state' = "starting" /\ run' = "starting" /\ stop' = FALSE
  /\ runs' = runs + 1
  /\ UNCHANGED <<brokerAddress, port, metrics, workers, hasReport, report, flushing, counted, late>>

\* POST /run/start: 202, or 409 when a run is under way (nothing changes).
\* StartRun waits for the thread of the last run.
HandleRunStart(body) ==
  /\ Startable /\ run \in {"none", "ended"} /\ runs < MaxRuns
  /\ LET c == FromJson(body)
     IN  config' = [c EXCEPT !.run_id = IF @ = NoText THEN "generated" ELSE @]
  /\ state' = "starting" /\ run' = "starting" /\ stop' = FALSE
  /\ hasReport' = FALSE /\ runs' = runs + 1
  /\ UNCHANGED <<brokerAddress, port, metrics, workers, report, flushing, counted, late>>

\* POST /run/stop, and main before it ends.
HandleRunStop ==
  /\ state \in {"running", "starting"}
  /\ state' = "stopping" /\ stop' = TRUE
  /\ UNCHANGED <<brokerAddress, port, config, metrics, workers, hasReport, report, run, runs,
                 flushing, counted, late>>

-----------------------------------------------------------------------------
(***************************************************************************)
(* A run                                                                   *)
(***************************************************************************)

Zero == [k \in MetricNames |-> 0]

\* A pattern without an entry has counted nothing.
Read(m, p) == IF p \in DOMAIN m THEN m[p] ELSE Zero

\* Of numbers for each pattern.
Total(f) == f["events"] + f["events_store"] + f["queue_stream"] + f["queue_simple"]
              + f["commands"] + f["queries"]

\* One for each channel of each enabled pattern the engine knows.
CreateWorkers(c) ==
  [p \in Patterns |->
     IF p \in DOMAIN c.patterns /\ c.patterns[p].enabled /\ c.patterns[p].channels > 0
     THEN c.patterns[p].channels ELSE 0]

\* Variant: only the patterns of this run are reset.
ResetOwn(m, used) == [p \in DOMAIN m \union used |-> IF p \in used THEN Zero ELSE m[p]]

\* GetPattern has made an entry for each pattern used; Reset clears them all.
Reset(m, used) == [p \in DOMAIN m \union used |-> Zero]

\* A worker of a queue stream that is stopped leaves its upstream behind, to be
\* flushed by a thread of its own.
Detach == flushing' = (flushing \/ workers["queue_stream"] > 0)

\* Workers that a failed run has left are stopped first.
BeginRun ==
  /\ run = "starting" /\ run' = "working"
  /\ Detach
  /\ workers' = CreateWorkers(config)
  /\ metrics' = Reset(metrics, {p \in Patterns : workers'[p] > 0})
  /\ state' = "running" /\ counted' = {} /\ late' = {}
  /\ UNCHANGED <<brokerAddress, port, config, hasReport, report, stop, runs>>

\* fetch_add(1)
Increment(counters, k) == [counters EXCEPT ![k] = @ + 1]

CountedIn(p, k) ==
  /\ Total([q \in Patterns |-> Read(metrics, q)["sent"] + Read(metrics, q)["errors"]]) < MaxCounts
  /\ metrics' = [metrics EXCEPT ![p] = Increment(@, k)]
  /\ UNCHANGED <<brokerAddress, port, state, config, workers, hasReport, report, run, stop, runs, flushing>>

\* A worker of pattern p counts, also one that a failed run has left behind.
Work(p, k) ==
  /\ workers[p] > 0
  /\ CountedIn(p, k)
  /\ counted' = counted \union {<<p, k>>} /\ UNCHANGED late

\* A result, or an error, comes to a detached upstream: its callback counts it
\* in the same counters, whichever run they are used for by now.
LateResult(k) ==
  /\ flushing
  /\ CountedIn("queue_stream", k)
  /\ late' = late \union {<<k, hasReport>>} /\ UNCHANGED counted

\* The last of them is deleted.
FlushEnds ==
  /\ flushing /\ flushing' = FALSE
  /\ UNCHANGED <<brokerAddress, port, state, config, metrics, workers, hasReport, report, run, stop, runs,
                 counted, late>>

\* What the report says of each of the six patterns.
PatternReport(c, m) ==
  [p \in Patterns |->
     IF p \notin DOMAIN c.patterns \/ ~c.patterns[p].enabled THEN [enabled |-> FALSE]
     ELSE [enabled |-> TRUE, counters |-> Read(m, p)]]

Verdict(m) == IF \A p \in DOMAIN m : m[p]["errors"] = 0 THEN "PASSED" ELSE "PASSED_WITH_WARNINGS"

MakeReport ==
  [run |-> runs, patterns |-> PatternReport(config, metrics),
   peakWorkers |-> Total(workers), verdict |-> Verdict(metrics)]

\* The duration is over or a stop was requested; the workers are stopped and
\* the report is made.
EndRun ==
  /\ run = "working" /\ run' = "ended"
  /\ report' = MakeReport /\ hasReport' = TRUE
  /\ workers' = [p \in Patterns |-> 0] /\ Detach
  /\ state' = "stopped"
  /\ UNCHANGED <<brokerAddress, port, config, metrics, stop, runs, counted, late>>

\* A thread cannot be created: the workers stay until the next CreateWorkers.
FailRun ==
  /\ run = "working" /\ run' = "ended"
  /\ state' = "error"
  /\ UNCHANGED <<brokerAddress, port, config, metrics, workers, hasReport, report, stop, runs,
                 flushing, counted, late>>

RunThread == BeginRun \/ EndRun

ServiceNext ==
  \/ \E body \in Bodies : HandleRunStart(body)
  \/ HandleRunStop
  \/ RunThread \/ FailRun
  \/ \E p \in Patterns, k \in MetricNames : Work(p, k)
  \/ (\E k \in MetricNames : LateResult(k)) \/ FlushEnds

\* The run thread is scheduled and the duration, an int of seconds, ends.
ServiceSpec == ServiceInit /\ [][ServiceNext]_serviceVars

-----------------------------------------------------------------------------
(***************************************************************************)
(* What GET requests answer                                                *)
(***************************************************************************)

\* GET /run: the patterns of the configuration, and the other standard ones.
GetRunFull ==
  [p \in DOMAIN config.patterns \union Patterns |->
     IF p \notin DOMAIN config.patterns \/ ~config.patterns[p].enabled THEN Zero
     ELSE Read(metrics, p)]

\* GET /run/status (and /status): totals over all patterns that have counters.
GetRunStatus == [k \in MetricNames |-> Total([p \in Patterns |-> Read(metrics, p)[k]])]

\* What is asked for, and whether there is one: no run, no configuration.
GetRunConfig == [found |-> config.run_id # NoText, value |-> to_json(config)]
GetRunReport == [found |-> hasReport, value |-> report]

\* GET /run/config.
HandleRunConfig == IF GetRunConfig.found THEN [status |-> 200, body |-> GetRunConfig.value]
                   ELSE [status |-> 404]

\* GET /run/report (and /summary).
HandleRunReport == IF GetRunReport.found THEN [status |-> 200, body |-> GetRunReport.value]
                   ELSE [status |-> 404]

-----------------------------------------------------------------------------
\* A detached upstream counted k since the counters were reset.
Stray(k) == \E b \in BOOLEAN : <<k, b>> \in late

Enabled(p) == p \in DOMAIN config.patterns /\ config.patterns[p].enabled

(***************************************************************************)
(* GET /run, GET /run/status and the report tell the same story of a run,  *)
(* though the first lists the patterns of the configuration, the second    *)
(* adds up whatever has counters, those of earlier runs with other         *)
(* patterns included, and the third is a copy.  A pattern that the engine  *)
(* does not know has counted nothing.  Only the counters of a queue stream *)
(* may differ, by what a detached upstream counts: in the status of a run  *)
(* without that pattern, and after the report is made; and only upwards.   *)
(***************************************************************************)
ViewsAgree ==
  run \in {"working", "ended"} =>
    \A k \in MetricNames :
      /\ GetRunStatus[k] = Total([p \in Patterns |-> GetRunFull[p][k]]) \/ (Stray(k) /\ ~Enabled("queue_stream"))
      /\ \A p \in DOMAIN GetRunFull \ Patterns : GetRunFull[p][k] = 0
      /\ hasReport =>
           \A p \in Patterns :
             LET said == report.patterns[p]
             IN  said.enabled => \/ GetRunFull[p][k] = said.counters[k]
                                 \/ /\ p = "queue_stream" /\ <<k, TRUE>> \in late
                                    /\ GetRunFull[p][k] > said.counters[k]

(***************************************************************************)
(* A report that can be fetched is about its own run: it was made for the  *)
(* run that was started last, it says a pattern counted exactly if one of  *)
(* its workers did, warns exactly if an error was counted in this run, and *)
(* counts at least one worker for each such pattern (StopWorkers has       *)
(* cleared the workers when the report is written).  The exception is the  *)
(* queue stream: what an upstream that an earlier run left behind counted  *)
(* between the reset and the report is in the numbers and in the verdict.  *)
(***************************************************************************)
ReportIsOfThisRun ==
  HandleRunReport.status = 200 =>
    /\ HandleRunReport.body.run = runs
    /\ \A p \in Patterns, k \in MetricNames :
         LET said == HandleRunReport.body.patterns[p]
         IN  (said.enabled /\ said.counters[k] > 0) <=>
               \/ <<p, k>> \in counted
               \/ p = "queue_stream" /\ <<k, FALSE>> \in late /\ Enabled(p)
    /\ HandleRunReport.body.verdict =
         IF (\E p \in Patterns : <<p, "errors">> \in counted) \/ <<"errors", FALSE>> \in late
         THEN "PASSED_WITH_WARNINGS" ELSE "PASSED"
    /\ HandleRunReport.body.peakWorkers >= Cardinality({x[1] : x \in counted})

(***************************************************************************)
(* What GET /run/config answers, posted to /run/start, asks for the same   *)
(* run: no setting is lost, scaled or replaced by a default on the way.    *)
(***************************************************************************)
ConfigRoundTrip ==
  HandleRunConfig.status = 200 => FromJson([kind |-> "json", fields |-> HandleRunConfig.body, wrong |-> {}]) = config

(* The answers about a run agree with each other and with the run. *)
ViewsAreTrue == ViewsAgree /\ ConfigRoundTrip

-----------------------------------------------------------------------------
(***************************************************************************)
(* Why they hold.                                                          *)
(***************************************************************************)
ServiceTypeOK ==
  /\ config = to_json(config) /\ \A p \in DOMAIN config.patterns : config.patterns[p].channels \in Int
  /\ DOMAIN metrics \subseteq Patterns /\ metrics \in [DOMAIN metrics -> [MetricNames -> Nat]]
  /\ workers \in [Patterns -> Nat] /\ counted \subseteq Patterns \X MetricNames
  /\ late \subseteq MetricNames \X BOOLEAN /\ flushing \in BOOLEAN /\ hasReport \in BOOLEAN /\ run \in {"none", "starting", "working", "ended"}

\* The counters tell what was counted; whoever counts has one to count in.
CountInv ==
  /\ \A p \in Patterns, k \in MetricNames :
       Read(metrics, p)[k] > 0 <=> <<p, k>> \in counted \/ (p = "queue_stream" /\ Stray(k))
  /\ \A p \in Patterns : workers[p] > 0 => p \in DOMAIN metrics
  /\ flushing => "queue_stream" \in DOMAIN metrics

\* From when a run has its workers until the next one starts, only patterns that its
\* configuration gives workers have some, or have counted.
RunInv ==
  /\ run = "working" => workers = CreateWorkers(config)
  /\ run \in {"working", "ended"} =>
       \A p \in Patterns : workers[p] > 0 \/ (\E k \in MetricNames : <<p, k>> \in counted) =>
                           CreateWorkers(config)[p] > 0

\* Once there is a report no worker counts, and the counters differ from it only
\* where a detached upstream has counted since.
ReportInv ==
  /\ hasReport =>
       /\ run = "ended" /\ \A p \in Patterns : workers[p] = 0
       /\ \A p \in Patterns, k \in MetricNames :
            LET said == report.patterns[p]
            IN  said.enabled => /\ Enabled(p)
                                /\ \/ Read(metrics, p)[k] = said.counters[k]
                                   \/ /\ p = "queue_stream" /\ <<k, TRUE>> \in late
                                      /\ said.counters[k] \in Nat /\ Read(metrics, p)[k] > said.counters[k]
  /\ run = "working" => \A k \in MetricNames : <<k, TRUE>> \notin late

ServiceIInv == ServiceTypeOK /\ CountInv /\ RunInv /\ ReportInv /\ ReportIsOfThisRun

=============================================================================
