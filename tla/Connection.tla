----------------------------- MODULE Connection -----------------------------
(***************************************************************************)
(* The life of a kubemq-cpp Client: Client::Create with the transport it   *)
(* connects, State, the admission of an operation (Ping stands for every   *)
(* operation: all test the same two flags before they use the stub), Close *)
(* and the destructor, called by several threads.                          *)
(*                                                                         *)
(* Close is guarded twice by call_once (Client::Impl::close_once and       *)
(* GrpcTransport::close_once_), sets two flags, and runs the user's        *)
(* on_closed while it holds the transport's mu_.  on_closed may itself use *)
(* the client or throw.                                                    *)
(***************************************************************************)
EXTENDS StateMachine, Naturals

CONSTANTS
  Users,          \* the threads of the application
  Creator,        \* the one that calls Client::Create
  Configured,     \* callbacks set in ClientOptions
  CheckConnection,\* ClientOptions::check_connection
  OnClosedDoes    \* what on_closed may do: "State", "Close", "throw"

Nobody == "nobody"

ASSUME ConnectionAssumption ==
  /\ Creator \in Users
  /\ Nobody \notin Users
  /\ Configured \subseteq Callbacks
  /\ CheckConnection \in BOOLEAN
  /\ OnClosedDoes \subseteq {"State", "Close", "throw"}

VARIABLES
  phase,   \* how far Create has come, or what became of the client
  closed,  \* Client::Impl::closed
  once,    \* Client::Impl::close_once: "unset", "running", "set"
  tclosed, \* GrpcTransport::closed_
  mu,      \* holder of GrpcTransport::mu_
  pc,      \* where each thread is inside a call
  calls,   \* how often each callback has been called
  late,    \* late[t]: t's pending call started after closed was set
  answer,  \* what State or the admission of an operation last told t
  returned \* some Close has returned

clientVars == <<phase, closed, once, tclosed, mu, pc, calls, late, answer, returned>>
vars == <<machineVars, clientVars>>

Init ==
  /\ MachineInit
  /\ phase = "unborn"
  /\ closed = FALSE
  /\ once = "unset"
  /\ tclosed = FALSE
  /\ mu = Nobody
  /\ pc = [t \in Users |-> "none"]
  /\ calls = [cb \in Callbacks |-> 0]
  /\ late = [t \in Users |-> FALSE]
  /\ answer = [t \in Users |-> "none"]
  /\ returned = FALSE

\* The callbacks chosen by a transition run before it returns.
CallChosen(to) ==
  calls' = [cb \in Callbacks |->
              IF \E i \in DOMAIN Chosen(to) : Chosen(to)[i] = cb
              THEN calls[cb] + 1 ELSE calls[cb]]

-----------------------------------------------------------------------------
(***************************************************************************)
(* Client::Create                                                          *)
(***************************************************************************)

\* Options, credentials, channel or WaitForConnected fail: nothing was built.
CreateFails ==
  /\ phase = "unborn"
  /\ phase' = "failed"
  /\ UNCHANGED <<machineVars, closed, once, tclosed, mu, pc, calls, late,
                 answer, returned>>

\* GrpcTransport::Connect reaches its last block: under mu_ the machine is made
\* and moved to Connecting ...
Connect ==
  /\ phase = "unborn"
  /\ phase' = "connecting"
  /\ mu' = Creator
  /\ Transition("Connecting")
  /\ CallChosen("Connecting")
  /\ UNCHANGED <<closed, once, tclosed, pc, late, answer, returned>>

\* ... and to Ready.
Connected ==
  /\ phase = "connecting"
  /\ phase' = "wiring"
  /\ mu' = Nobody
  /\ Transition("Ready")
  /\ CallChosen("Ready")
  /\ UNCHANGED <<closed, once, tclosed, pc, late, answer, returned>>

\* The callbacks of the options are handed to the machine.
WireCallbacks ==
  /\ phase = "wiring"
  /\ phase' = IF CheckConnection THEN "checking" ELSE "live"
  /\ SetOn(Configured)
  /\ UNCHANGED <<closed, once, tclosed, mu, pc, calls, late, answer, returned>>

\* Variant: a client whose first Ping fails is dropped without being closed.
CheckPingLeaks ==
  /\ phase = "checking"
  /\ phase' \in {"live", "failed"}
  /\ UNCHANGED <<machineVars, closed, once, tclosed, mu, pc, calls, late, answer,
                 returned>>

\* check_connection: the first Ping decides whether the client is returned or
\* destroyed.
CheckPing ==
  /\ phase = "checking"
  /\ \/ phase' = "live" /\ UNCHANGED pc
     \/ phase' = "failing" /\ pc' = [pc EXCEPT ![Creator] = "close"]
  /\ UNCHANGED <<machineVars, closed, once, tclosed, mu, calls, late, answer,
                 returned>>

-----------------------------------------------------------------------------
(***************************************************************************)
(* Calls on a live client                                                  *)
(***************************************************************************)

Call(t, at) ==
  /\ phase = "live"
  /\ pc[t] = "none"
  /\ pc' = [pc EXCEPT ![t] = at]
  /\ late' = [late EXCEPT ![t] = closed]
  /\ UNCHANGED <<machineVars, phase, closed, once, tclosed, mu, calls, answer,
                 returned>>

State(t) == Call(t, "state")
Ping(t) == Call(t, "ping")
Close(t) == Call(t, "close")

Goto(t, at) ==
  /\ pc' = [pc EXCEPT ![t] = at]
  /\ UNCHANGED <<machineVars, phase, closed, once, tclosed, mu, calls, late,
                 answer, returned>>

Reply(t, a, at) ==
  /\ answer' = [answer EXCEPT ![t] = a]
  /\ pc' = [pc EXCEPT ![t] = at]
  /\ UNCHANGED <<machineVars, phase, closed, once, tclosed, mu, calls, late,
                 returned>>

\* State: Impl::closed first ...
StateClient(t) ==
  /\ pc[t] = "state"
  /\ IF closed THEN Reply(t, "Closed", "none") ELSE Goto(t, "stateTransport")

\* ... then the transport's flag ...
StateTransport(t) ==
  /\ pc[t] = "stateTransport"
  /\ IF tclosed THEN Reply(t, "Closed", "none") ELSE Goto(t, "stateMachine")

\* ... then, under mu_, the state machine.
StateMachineCurrent(t) ==
  /\ pc[t] = "stateMachine"
  /\ mu = Nobody
  /\ Reply(t, state, "none")

\* Variant: only the transport's flag is tested.
PingClientUnchecked(t) ==
  /\ pc[t] = "ping"
  /\ Goto(t, "pingTransport")

\* An operation: CheckClosed of the client ...
PingClient(t) ==
  /\ pc[t] = "ping"
  /\ IF closed THEN Reply(t, "Closed", "none") ELSE Goto(t, "pingTransport")

\* ... CheckClosed of the transport, and the call of the stub ...
PingTransport(t) ==
  /\ pc[t] = "pingTransport"
  /\ IF tclosed THEN Reply(t, "Closed", "none") ELSE Reply(t, "Ready", "rpc")

\* ... which comes back, in the worst case when its deadline has passed.
RpcReturns(t) == pc[t] = "rpc" /\ Goto(t, "none")

-----------------------------------------------------------------------------
(***************************************************************************)
(* Client::Close                                                           *)
(***************************************************************************)

\* What becomes of the object when the Close of a destructor returns.
AfterClose == CASE phase = "failing" -> "failed"
                [] phase = "destroying" -> "destroyed"
                [] OTHER -> phase

\* call_once: the first caller runs the body, the others wait for its end.
EnterOnce(t) ==
  /\ pc[t] = "close"
  /\ \/ /\ once = "unset"
        /\ once' = "running"
        /\ pc' = [pc EXCEPT ![t] = "setClosed"]
        /\ UNCHANGED <<phase, returned>>
     \/ /\ once = "set"
        /\ pc' = [pc EXCEPT ![t] = "none"]
        /\ phase' = AfterClose
        /\ returned' = TRUE
        /\ UNCHANGED once
  /\ UNCHANGED <<machineVars, closed, tclosed, mu, calls, late, answer>>

\* Impl::closed is set, DrainAll finds no context.
SetClosed(t) ==
  /\ pc[t] = "setClosed"
  /\ closed' = TRUE
  /\ pc' = [pc EXCEPT ![t] = "setTransportClosed"]
  /\ UNCHANGED <<machineVars, phase, once, tclosed, mu, calls, late, answer,
                 returned>>

\* GrpcTransport::Close: no other thread can be inside its call_once, which is
\* entered only from the body of the client's.
SetTransportClosed(t) ==
  /\ pc[t] = "setTransportClosed"
  /\ tclosed' = TRUE
  /\ pc' = [pc EXCEPT ![t] = "lockTransport"]
  /\ UNCHANGED <<machineVars, phase, closed, once, mu, calls, late, answer,
                 returned>>

\* Under mu_ the machine moves to Closed and calls on_closed; after a Close
\* that was left by an exception it is Closed already and calls nothing.
CloseMachine(t) ==
  /\ pc[t] = "lockTransport"
  /\ mu = Nobody
  /\ mu' = t
  /\ \/ /\ Transition("Closed")
        /\ CallChosen("Closed")
        /\ pc' = [pc EXCEPT ![t] = IF Chosen("Closed") = <<>> THEN "unlock"
                                                          ELSE "callback"]
     \/ /\ ~IsValidTransition(state, "Closed")
        /\ pc' = [pc EXCEPT ![t] = "unlock"]
        /\ UNCHANGED <<machineVars, calls>>
  /\ UNCHANGED <<phase, closed, once, tclosed, late, answer, returned>>

\* on_closed calls State: either flag answers before mu_, which this thread
\* holds, is asked for.
CallbackState(t) ==
  /\ pc[t] = "callback" /\ "State" \in OnClosedDoes
  /\ IF closed \/ tclosed THEN Reply(t, "Closed", "callback") ELSE Goto(t, "stuck")

\* on_closed calls Close: call_once inside its own body never returns.
CallbackClose(t) ==
  /\ pc[t] = "callback" /\ "Close" \in OnClosedDoes
  /\ Goto(t, "stuck")

CallbackReturns(t) == pc[t] = "callback" /\ Goto(t, "unlock")

\* Variant: the once flag is a plain variable nobody resets.
CallbackThrowsKeepsOnce(t) ==
  /\ pc[t] = "callback" /\ "throw" \in OnClosedDoes
  /\ mu' = Nobody
  /\ pc' = [pc EXCEPT ![t] = "none"]
  /\ phase' = IF phase = "live" THEN phase ELSE "terminated"
  /\ UNCHANGED <<machineVars, closed, once, tclosed, calls, late, answer, returned>>

\* on_closed throws: both once flags stay unset, mu_ is released and the
\* exception leaves Close; out of a destructor it ends the process.
CallbackThrows(t) ==
  /\ pc[t] = "callback" /\ "throw" \in OnClosedDoes
  /\ mu' = Nobody
  /\ once' = "unset"
  /\ pc' = [pc EXCEPT ![t] = "none"]
  /\ phase' = IF phase = "live" THEN phase ELSE "terminated"
  /\ UNCHANGED <<machineVars, closed, tclosed, calls, late, answer, returned>>

\* mu_ is released, both call_once return and so does Close.
CloseReturns(t) ==
  /\ pc[t] = "unlock"
  /\ mu' = Nobody
  /\ once' = "set"
  /\ pc' = [pc EXCEPT ![t] = "none"]
  /\ phase' = AfterClose
  /\ returned' = TRUE
  /\ UNCHANGED <<machineVars, closed, tclosed, calls, late, answer>>

\* ~Client is Close; no other thread is inside a call.
Destroy(t) ==
  /\ phase = "live"
  /\ \A u \in Users : pc[u] = "none"
  /\ phase' = "destroying"
  /\ pc' = [pc EXCEPT ![t] = "close"]
  /\ UNCHANGED <<machineVars, closed, once, tclosed, mu, calls, late, answer,
                 returned>>

-----------------------------------------------------------------------------
CreateStep == CreateFails \/ Connect \/ Connected \/ WireCallbacks \/ CheckPing

Step(t) ==
  \/ StateClient(t) \/ StateTransport(t) \/ StateMachineCurrent(t)
  \/ PingClient(t) \/ PingTransport(t) \/ RpcReturns(t)
  \/ EnterOnce(t) \/ SetClosed(t) \/ SetTransportClosed(t) \/ CloseMachine(t)
  \/ CallbackReturns(t) \/ CloseReturns(t)

Next ==
  \/ CreateStep
  \/ \E t \in Users :
       \/ State(t) \/ Ping(t) \/ Close(t) \/ Destroy(t)
       \/ Step(t)
       \/ CallbackState(t) \/ CallbackClose(t) \/ CallbackThrows(t)

Spec == Init /\ [][Next]_vars

(***************************************************************************)
(* Fairness: threads are scheduled and get a mutex or a once flag that     *)
(* keeps becoming free; an RPC ends at its deadline; on_closed returns.    *)
(***************************************************************************)
FairSpec == Spec /\ WF_vars(CreateStep) /\ \A t \in Users : SF_vars(Step(t))

-----------------------------------------------------------------------------
(***************************************************************************)
(* Properties                                                              *)
(***************************************************************************)

Phases == {"unborn", "connecting", "wiring", "checking", "live", "failing",
           "failed", "destroying", "destroyed", "terminated"}
PCs == {"none", "state", "stateTransport", "stateMachine", "ping",
        "pingTransport", "rpc", "close", "setClosed", "setTransportClosed",
        "lockTransport", "callback", "unlock", "stuck"}

\* Every variable has its type; no callback is ever called twice.
TypeOK ==
  /\ state \in States
  /\ reconnecting \in BOOLEAN
  /\ handlers \subseteq Callbacks
  /\ phase \in Phases
  /\ closed \in BOOLEAN
  /\ once \in {"unset", "running", "set"}
  /\ tclosed \in BOOLEAN
  /\ mu \in Users \cup {Nobody}
  /\ pc \in [Users -> PCs]
  /\ calls \in [Callbacks -> 0..1]
  /\ late \in [Users -> BOOLEAN]
  /\ answer \in [Users -> States \cup {"none"}]
  /\ returned \in BOOLEAN

\* Once Close has returned to any of its callers, also to one that only waited
\* for another or that came after an on_closed that threw, the client is
\* Closed everywhere and on_closed has been called, exactly once.
ClosedAnnounced ==
  returned =>
    /\ closed /\ tclosed /\ state = "Closed"
    /\ "onClosed" \in Configured => calls["onClosed"] = 1

\* A client that is gone, because Create failed or because it was destroyed,
\* leaves no connection in state Ready and no thread inside it.
NoOrphan ==
  phase \in {"failed", "destroyed"} =>
    state # "Ready" /\ \A t \in Users : pc[t] = "none"

\* on_closed called Close, or State behind a mutex it holds: nobody gets on.
Stuck == \E t \in Users : pc[t] = "stuck"

\* Every call returns, whatever the other threads do and whether on_closed
\* throws or not, as long as on_closed does not call Close itself.
CallsReturn == \A t \in Users : pc[t] # "none" ~> pc[t] = "none" \/ Stuck

-----------------------------------------------------------------------------
(***************************************************************************)
(* The detailed client implements ClientContract: Close takes effect when  *)
(* Impl::closed is set, and a pending call may be told what held at its    *)
(* start or what holds now.                                                *)
(***************************************************************************)

Asking == {"state", "stateTransport", "stateMachine", "ping", "pingTransport"}

PossibleAnswers ==
  [t \in Users |->
     IF pc[t] \notin Asking THEN {}
     ELSE IF late[t] THEN {"Closed"}
     ELSE IF closed THEN {"Ready", "Closed"}
     ELSE {"Ready"}]

Contract == INSTANCE ClientContract
  WITH Threads <- Users, Announces <- "onClosed" \in Configured,
       open <- ~closed, asked <- PossibleAnswers, announced <- calls["onClosed"]

\* State, the admission of operations and Close are atomic to their callers:
\* after one call was told Closed no later one is told Ready, and Close has
\* announced itself once when it returns.
ImplementsContract == Contract!ContractSpec

-----------------------------------------------------------------------------
(***************************************************************************)
(* The inductive invariant behind the safety properties                    *)
(***************************************************************************)

InBody == {"setClosed", "setTransportClosed", "lockTransport", "callback",
           "unlock", "stuck"}
Locked == {"callback", "unlock", "stuck"}

\* How far the machine, the callbacks and the flags are in each phase.
MachineInv ==
  /\ ~reconnecting
  /\ phase = "unborn" => state = "Idle"
  /\ phase = "connecting" => state = "Connecting"
  /\ phase = "wiring" => state = "Ready"
  /\ phase \in {"unborn", "connecting", "wiring"}
       => /\ handlers = {} /\ ~closed /\ ~returned /\ once = "unset"
          /\ \A t \in Users : pc[t] = "none"
  /\ phase \in {"checking", "live", "failing", "destroying"}
       => state \in {"Ready", "Closed"} /\ handlers = Configured
  /\ phase \in {"failing", "destroying"}
       => \A t, u \in Users : pc[t] # "none" /\ pc[u] # "none" => t = u
  /\ phase \in {"checking", "failed", "destroyed", "terminated"}
       => \A t \in Users : pc[t] = "none"
  /\ phase \in {"failed", "destroyed"} => state \in {"Idle", "Closed"}

\* The order in which Close sets the flags and moves the machine.
FlagInv ==
  /\ tclosed => closed
  /\ state = "Closed" => tclosed
  /\ calls["onClosed"] = IF state = "Closed" /\ "onClosed" \in Configured THEN 1 ELSE 0
  /\ \A cb \in Callbacks \ {"onClosed"} : calls[cb] = 0
  /\ once = "set" => state = "Closed"
  /\ returned => once = "set"

\* One thread at a time is inside the body of call_once, and what it has done.
CloseInv ==
  /\ \A t, u \in Users : pc[t] \in InBody /\ pc[u] \in InBody => t = u
  /\ \A t \in Users :
       /\ pc[t] \in InBody => once = "running"
       /\ pc[t] \in InBody \ {"setClosed"} => closed
       /\ pc[t] \in InBody \ {"setClosed", "setTransportClosed"} => tclosed
       /\ pc[t] \in Locked => state = "Closed"
       /\ pc[t] \in Locked => mu = t
       /\ pc[t] = "callback" => "onClosed" \in Configured
       /\ mu = t => pc[t] \in Locked \/ phase = "connecting"

\* A call that started after closed was set never gets past the first flag.
LateInv ==
  \A t \in Users :
    /\ late[t] => closed
    /\ pc[t] \in {"stateTransport", "stateMachine", "pingTransport"} => ~late[t]

\* The conjunction that every step preserves.
IInv == TypeOK /\ MachineInv /\ FlagInv /\ CloseInv /\ LateInv

=============================================================================
