---------------------------- MODULE StateMachine ----------------------------
(***************************************************************************)
(* The connection state machine of kubemq-cpp (internal::StateMachine):    *)
(* the state, the table of valid transitions, and which of the callbacks   *)
(* in ClientOptions a transition calls.  Every method holds the machine's  *)
(* own mutex for its whole body except the callbacks, which Transition     *)
(* runs after it has let go of it; the module that uses the machine says   *)
(* which thread runs them and what it holds meanwhile.                     *)
(***************************************************************************)
EXTENDS Sequences

States == {"Idle", "Connecting", "Ready", "Reconnecting", "Closed"}
Callbacks == {"onConnected", "onDisconnected", "onReconnecting",
              "onReconnected", "onClosed"}

VARIABLES
  state,         \* state_
  reconnecting,  \* reconnecting_: the machine came through Reconnecting
  handlers       \* the callbacks that have been set

machineVars == <<state, reconnecting, handlers>>

MachineInit ==
  /\ state = "Idle"
  /\ reconnecting = FALSE
  /\ handlers = {}

IsValidTransition(from, to) ==
  \/ from = "Idle" /\ to \in {"Connecting", "Closed"}
  \/ from = "Connecting" /\ to \in {"Ready", "Closed"}
  \/ from = "Ready" /\ to \in {"Reconnecting", "Closed"}
  \/ from = "Reconnecting" /\ to \in {"Connecting", "Closed"}

\* A callback that was not set is skipped.
IfSet(cb) == IF cb \in handlers THEN <<cb>> ELSE <<>>

\* The callbacks a transition to `to' calls, in order, chosen under the lock.
Chosen(to) ==
  IF to = "Ready" THEN IfSet(IF reconnecting THEN "onReconnected" ELSE "onConnected")
  ELSE IF to = "Reconnecting" THEN IfSet("onDisconnected") \o IfSet("onReconnecting")
  ELSE IF to = "Closed" THEN IfSet("onClosed")
  ELSE <<>>

\* Transition(to) returned true: the locked part of the method.
Transition(to) ==
  /\ IsValidTransition(state, to)
  /\ state' = to
  /\ reconnecting' = CASE to = "Reconnecting" -> TRUE
                       [] to = "Ready" -> FALSE
                       [] OTHER -> reconnecting
  /\ UNCHANGED handlers

\* SetOnConnected and the other setters.
SetOn(cbs) == handlers' = handlers \cup cbs /\ UNCHANGED <<state, reconnecting>>
=============================================================================
