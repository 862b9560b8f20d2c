-------------------------- MODULE ConnectionProofs --------------------------
(***************************************************************************)
(* Theorems about Connection, for any set of threads, any choice of        *)
(* callbacks and anything on_closed may do, and about EventLog, what the   *)
(* subscribers of a client are handed and its publishers are told, for any *)
(* number of them.                                                         *)
(***************************************************************************)
EXTENDS Connection, EventLog, SequenceTheorems, WellFoundedInduction, TLAPS

\* Idle -> Connecting calls nothing.
LEMMA CallNone ==
  ASSUME calls \in [Callbacks -> 0..1], CallChosen("Connecting")
  PROVE  calls' = calls
BY DEF CallChosen, Chosen

\* While no callback is set, a transition to Ready calls nothing.
LEMMA CallUnset ==
  ASSUME calls \in [Callbacks -> 0..1], handlers = {}, CallChosen("Ready")
  PROVE  calls' = calls
BY DEF CallChosen, Chosen, IfSet

\* A transition to Closed calls on_closed if it is set, and nothing else.
LEMMA CallClosed ==
  ASSUME calls \in [Callbacks -> 0..1]
  PROVE  /\ CallChosen("Closed") =>
              calls' = IF "onClosed" \in handlers
                       THEN [calls EXCEPT !["onClosed"] = @ + 1] ELSE calls
         /\ Chosen("Closed") = <<>> <=> "onClosed" \notin handlers
<1>1. CASE "onClosed" \in handlers
  <2>1. Chosen("Closed") = <<"onClosed">>
    BY <1>1 DEF Chosen, IfSet
  <2>2. \A cb : (\E i \in DOMAIN Chosen("Closed") : Chosen("Closed")[i] = cb)
                 <=> cb = "onClosed"
    BY <2>1
  <2>3. Chosen("Closed") # <<>>
    BY <2>1
  <2>4. CallChosen("Closed") => calls' = [calls EXCEPT !["onClosed"] = @ + 1]
    <3>1. "onClosed" \in Callbacks
      BY DEF Callbacks
    <3>2. CallChosen("Closed") =>
            calls' = [cb \in Callbacks |-> IF cb = "onClosed" THEN calls[cb] + 1 ELSE calls[cb]]
      <4> DEFINE one(cb) == \E i \in DOMAIN Chosen("Closed") : Chosen("Closed")[i] = cb
      <4>1. \A cb : one(cb) <=> cb = "onClosed"
        BY <2>2
      <4>2. CallChosen("Closed") =>
              calls' = [cb \in Callbacks |-> IF one(cb) THEN calls[cb] + 1 ELSE calls[cb]]
        BY DEF CallChosen
      <4> HIDE DEF one
      <4> QED
        BY <4>1, <4>2
    <3> QED
      BY <3>1, <3>2
  <2> QED
    BY <1>1, <2>3, <2>4
<1>2. CASE "onClosed" \notin handlers
  BY <1>2 DEF CallChosen, Chosen, IfSet
<1> QED
  BY <1>1, <1>2

\* The initial state satisfies the inductive invariant.
LEMMA InitIInv == Init => IInv
<1> SUFFICES ASSUME Init PROVE IInv
  OBVIOUS
<1> USE ConnectionAssumption DEF Init, MachineInit
<1>1. TypeOK
  <2>1. calls \in [Callbacks -> 0..1]
    OBVIOUS
  <2> QED
    BY <2>1 DEF TypeOK, States, Phases, PCs
<1>2. MachineInv
  BY DEF MachineInv
<1>3. FlagInv
  BY DEF FlagInv, Callbacks
<1>4. CloseInv
  BY DEF CloseInv, InBody, Locked
<1>5. LateInv
  BY DEF LateInv
<1> QED
  BY <1>1, <1>2, <1>3, <1>4, <1>5 DEF IInv

\* A reply or a jump keeps every variable in its type.
LEMMA TypeReply ==
  ASSUME TypeOK, NEW t \in Users, NEW a \in States, NEW at \in PCs, Reply(t, a, at)
  PROVE  TypeOK'
<1>1. pc' \in [Users -> PCs] /\ answer' \in [Users -> States \cup {"none"}]
  BY DEF TypeOK, Reply
<1> QED
  BY <1>1 DEF TypeOK, Reply, machineVars

LEMMA TypeGoto ==
  ASSUME TypeOK, NEW t \in Users, NEW at \in PCs, Goto(t, at)
  PROVE  TypeOK'
<1>1. pc' \in [Users -> PCs]
  BY DEF TypeOK, Goto
<1> QED
  BY <1>1 DEF TypeOK, Goto, machineVars

\* Every step keeps every variable in its type.
LEMMA NextTypeOK == IInv /\ [Next]_vars => TypeOK'
<1> SUFFICES ASSUME IInv, [Next]_vars PROVE TypeOK'
  OBVIOUS
<1> USE ConnectionAssumption DEF IInv, TypeOK, FlagInv, MachineInv, States,
      Callbacks, Phases, PCs, machineVars
<1>1. CASE CreateStep
  <2>1. CASE CreateFails
    BY <2>1 DEF CreateFails
  <2>2. CASE Connect
    BY <2>2, CallNone DEF Connect, Transition, IsValidTransition
  <2>3. CASE Connected
    BY <2>3, CallUnset DEF Connected, Transition, IsValidTransition
  <2>4. CASE WireCallbacks
    BY <2>4 DEF WireCallbacks, SetOn
  <2>5. CASE CheckPing
    BY <2>5 DEF CheckPing
  <2> QED
    BY <1>1, <2>1, <2>2, <2>3, <2>4, <2>5 DEF CreateStep
<1>2. ASSUME NEW t \in Users, State(t) \/ Ping(t) \/ Close(t) \/ Destroy(t)
      PROVE TypeOK'
  <2>1. CASE State(t)
    BY <2>1 DEF State, Call
  <2>2. CASE Ping(t)
    BY <2>2 DEF Ping, Call
  <2>3. CASE Close(t)
    BY <2>3 DEF Close, Call
  <2>4. CASE Destroy(t)
    BY <2>4 DEF Destroy
  <2> QED
    BY <1>2, <2>1, <2>2, <2>3, <2>4
<1>3. ASSUME NEW t \in Users, Step(t)
      PROVE TypeOK'
  <2>1. CASE StateClient(t)
    BY <2>1, TypeReply, TypeGoto DEF StateClient
  <2>2. CASE StateTransport(t)
    BY <2>2, TypeReply, TypeGoto DEF StateTransport
  <2>3. CASE StateMachineCurrent(t)
    BY <2>3 DEF StateMachineCurrent, Reply
  <2>4. CASE PingClient(t)
    BY <2>4, TypeReply, TypeGoto DEF PingClient
  <2>5. CASE PingTransport(t)
    BY <2>5, TypeReply, TypeGoto DEF PingTransport
  <2>6. CASE RpcReturns(t)
    BY <2>6 DEF RpcReturns, Goto
  <2>7. CASE EnterOnce(t)
    BY <2>7 DEF EnterOnce, AfterClose
  <2>8. CASE SetClosed(t)
    BY <2>8 DEF SetClosed
  <2>9. CASE SetTransportClosed(t)
    BY <2>9 DEF SetTransportClosed
  <2>10. CASE CloseMachine(t)
    <3>1. CASE state = "Closed"
      BY <2>10, <3>1 DEF CloseMachine, Transition, IsValidTransition
    <3>2. CASE state # "Closed"
      <4>1. state = "Ready" /\ IsValidTransition(state, "Closed")
        BY <2>10, <3>2 DEF CloseMachine, IsValidTransition, IInv, TypeOK, MachineInv, Phases
      <4> QED
        BY <2>10, <3>2, <4>1, CallClosed DEF CloseMachine, Transition
    <3> QED
      BY <3>1, <3>2
  <2>11. CASE CallbackReturns(t)
    BY <2>11 DEF CallbackReturns, Goto
  <2>12. CASE CloseReturns(t)
    BY <2>12 DEF CloseReturns, AfterClose
  <2> QED
    BY <1>3, <2>1, <2>2, <2>3, <2>4, <2>5, <2>6, <2>7, <2>8, <2>9, <2>10, <2>11, <2>12 DEF Step
<1>4. ASSUME NEW t \in Users, CallbackState(t) \/ CallbackClose(t) \/ CallbackThrows(t)
      PROVE TypeOK'
  <2>1. CASE CallbackState(t)
    BY <2>1, TypeReply, TypeGoto DEF CallbackState
  <2>2. CASE CallbackClose(t)
    BY <2>2 DEF CallbackClose, Goto
  <2>3. CASE CallbackThrows(t)
    BY <2>3 DEF CallbackThrows
  <2> QED
    BY <1>4, <2>1, <2>2, <2>3
<1>5. CASE UNCHANGED vars
  BY <1>5 DEF vars, machineVars, clientVars
<1> QED
  BY <1>1, <1>2, <1>3, <1>4, <1>5 DEF Next

\* Every step preserves MachineInv.
LEMMA NextMachineInv == IInv /\ [Next]_vars => MachineInv'
<1> SUFFICES ASSUME IInv, [Next]_vars PROVE MachineInv'
  OBVIOUS
<1> USE ConnectionAssumption DEF IInv, TypeOK, MachineInv, CloseInv,
      FlagInv, InBody, Locked, Phases, PCs, States, machineVars
<1>1. CASE CreateStep
  <2>1. CASE CreateFails
    BY <2>1 DEF CreateFails
  <2>2. CASE Connect
    BY <2>2, CallNone DEF Connect, Transition, IsValidTransition
  <2>3. CASE Connected
    BY <2>3, CallUnset DEF Connected, Transition, IsValidTransition
  <2>4. CASE WireCallbacks
    BY <2>4 DEF WireCallbacks, SetOn
  <2>5. CASE CheckPing
    BY <2>5 DEF CheckPing
  <2> QED
    BY <1>1, <2>1, <2>2, <2>3, <2>4, <2>5 DEF CreateStep
<1>2. ASSUME NEW t \in Users, State(t) \/ Ping(t) \/ Close(t) \/ Destroy(t)
      PROVE MachineInv'
  <2>1. CASE State(t)
    BY <2>1 DEF State, Call
  <2>2. CASE Ping(t)
    BY <2>2 DEF Ping, Call
  <2>3. CASE Close(t)
    BY <2>3 DEF Close, Call
  <2>4. CASE Destroy(t)
    BY <2>4 DEF Destroy
  <2> QED
    BY <1>2, <2>1, <2>2, <2>3, <2>4
<1>3. ASSUME NEW t \in Users, Step(t)
      PROVE MachineInv'
  <2>1. CASE StateClient(t)
    BY <2>1 DEF StateClient, Reply, Goto
  <2>2. CASE StateTransport(t)
    BY <2>2 DEF StateTransport, Reply, Goto
  <2>3. CASE StateMachineCurrent(t)
    BY <2>3 DEF StateMachineCurrent, Reply
  <2>4. CASE PingClient(t)
    BY <2>4 DEF PingClient, Reply, Goto
  <2>5. CASE PingTransport(t)
    BY <2>5 DEF PingTransport, Reply, Goto
  <2>6. CASE RpcReturns(t)
    BY <2>6 DEF RpcReturns, Goto
  <2>7. CASE EnterOnce(t)
    BY <2>7 DEF EnterOnce, AfterClose
  <2>8. CASE SetClosed(t)
    BY <2>8 DEF SetClosed
  <2>9. CASE SetTransportClosed(t)
    BY <2>9 DEF SetTransportClosed
  <2>10. CASE CloseMachine(t)
    <3>1. CASE state = "Closed"
      BY <2>10, <3>1 DEF CloseMachine, Transition, IsValidTransition
    <3>2. CASE state # "Closed"
      <4>1. state = "Ready" /\ IsValidTransition(state, "Closed")
        BY <2>10, <3>2 DEF CloseMachine, IsValidTransition, IInv, TypeOK, MachineInv, Phases
      <4> QED
        BY <2>10, <3>2, <4>1, CallClosed DEF CloseMachine, Transition
    <3> QED
      BY <3>1, <3>2
  <2>11. CASE CallbackReturns(t)
    BY <2>11 DEF CallbackReturns, Goto
  <2>12. CASE CloseReturns(t)
    BY <2>12 DEF CloseReturns, AfterClose
  <2> QED
    BY <1>3, <2>1, <2>2, <2>3, <2>4, <2>5, <2>6, <2>7, <2>8, <2>9, <2>10, <2>11, <2>12 DEF Step
<1>4. ASSUME NEW t \in Users, CallbackState(t) \/ CallbackClose(t) \/ CallbackThrows(t)
      PROVE MachineInv'
  <2>1. CASE CallbackState(t)
    BY <2>1 DEF CallbackState, Reply, Goto
  <2>2. CASE CallbackClose(t)
    BY <2>2 DEF CallbackClose, Goto
  <2>3. CASE CallbackThrows(t)
    BY <2>3 DEF CallbackThrows
  <2> QED
    BY <1>4, <2>1, <2>2, <2>3
<1>5. CASE UNCHANGED vars
  BY <1>5 DEF vars, machineVars, clientVars
<1> QED
  BY <1>1, <1>2, <1>3, <1>4, <1>5 DEF Next

\* Every step preserves FlagInv.
LEMMA NextFlagInv == IInv /\ [Next]_vars => FlagInv'
<1> SUFFICES ASSUME IInv, [Next]_vars PROVE FlagInv'
  OBVIOUS
<1> USE ConnectionAssumption DEF IInv, TypeOK, MachineInv, FlagInv, CloseInv,
      InBody, Locked, Callbacks, States, machineVars
<1>1. CASE CreateStep
  <2>1. CASE CreateFails
    BY <2>1 DEF CreateFails
  <2>2. CASE Connect
    BY <2>2, CallNone DEF Connect, Transition, IsValidTransition
  <2>3. CASE Connected
    BY <2>3, CallUnset DEF Connected, Transition, IsValidTransition
  <2>4. CASE WireCallbacks
    BY <2>4 DEF WireCallbacks, SetOn
  <2>5. CASE CheckPing
    BY <2>5 DEF CheckPing
  <2> QED
    BY <1>1, <2>1, <2>2, <2>3, <2>4, <2>5 DEF CreateStep
<1>2. ASSUME NEW t \in Users, State(t) \/ Ping(t) \/ Close(t) \/ Destroy(t)
      PROVE FlagInv'
  <2>1. CASE State(t)
    BY <2>1 DEF State, Call
  <2>2. CASE Ping(t)
    BY <2>2 DEF Ping, Call
  <2>3. CASE Close(t)
    BY <2>3 DEF Close, Call
  <2>4. CASE Destroy(t)
    BY <2>4 DEF Destroy
  <2> QED
    BY <1>2, <2>1, <2>2, <2>3, <2>4
<1>3. ASSUME NEW t \in Users, Step(t)
      PROVE FlagInv'
  <2>1. CASE StateClient(t)
    BY <2>1 DEF StateClient, Reply, Goto
  <2>2. CASE StateTransport(t)
    BY <2>2 DEF StateTransport, Reply, Goto
  <2>3. CASE StateMachineCurrent(t)
    BY <2>3 DEF StateMachineCurrent, Reply
  <2>4. CASE PingClient(t)
    BY <2>4 DEF PingClient, Reply, Goto
  <2>5. CASE PingTransport(t)
    BY <2>5 DEF PingTransport, Reply, Goto
  <2>6. CASE RpcReturns(t)
    BY <2>6 DEF RpcReturns, Goto
  <2>7. CASE EnterOnce(t)
    BY <2>7 DEF EnterOnce, AfterClose
  <2>8. CASE SetClosed(t)
    BY <2>8 DEF SetClosed
  <2>9. CASE SetTransportClosed(t)
    BY <2>9 DEF SetTransportClosed
  <2>10. CASE CloseMachine(t)
    <3>1. CASE state = "Closed"
      BY <2>10, <3>1 DEF CloseMachine, Transition, IsValidTransition
    <3>2. CASE state # "Closed"
      <4>1. state = "Ready" /\ IsValidTransition(state, "Closed") /\ handlers = Configured
        BY <2>10, <3>2 DEF CloseMachine, IsValidTransition, Phases
      <4>2. /\ state' = "Closed" /\ UNCHANGED <<tclosed, closed, once, returned>>
            /\ calls' = IF "onClosed" \in Configured
                        THEN [calls EXCEPT !["onClosed"] = 1] ELSE calls
        BY <2>10, <4>1, <3>2, CallClosed DEF CloseMachine, Transition
      <4>3. tclosed /\ closed
        BY <2>10 DEF CloseMachine
      <4>4. calls'["onClosed"] = IF "onClosed" \in Configured THEN 1 ELSE 0
        BY <4>2, <3>2
      <4>5. \A cb \in Callbacks \ {"onClosed"} : calls'[cb] = 0
        BY <4>2
      <4> QED
        BY <4>2, <4>3, <4>4, <4>5
    <3> QED
      BY <3>1, <3>2
  <2>11. CASE CallbackReturns(t)
    BY <2>11 DEF CallbackReturns, Goto
  <2>12. CASE CloseReturns(t)
    BY <2>12 DEF CloseReturns, AfterClose
  <2> QED
    BY <1>3, <2>1, <2>2, <2>3, <2>4, <2>5, <2>6, <2>7, <2>8, <2>9, <2>10, <2>11, <2>12 DEF Step
<1>4. ASSUME NEW t \in Users, CallbackState(t) \/ CallbackClose(t) \/ CallbackThrows(t)
      PROVE FlagInv'
  <2>1. CASE CallbackState(t)
    BY <2>1 DEF CallbackState, Reply, Goto
  <2>2. CASE CallbackClose(t)
    BY <2>2 DEF CallbackClose, Goto
  <2>3. CASE CallbackThrows(t)
    BY <2>3 DEF CallbackThrows
  <2> QED
    BY <1>4, <2>1, <2>2, <2>3
<1>5. CASE UNCHANGED vars
  BY <1>5 DEF vars, machineVars, clientVars
<1> QED
  BY <1>1, <1>2, <1>3, <1>4, <1>5 DEF Next

\* Every step preserves CloseInv.
LEMMA NextCloseInv == IInv /\ [Next]_vars => CloseInv'
<1> SUFFICES ASSUME IInv, [Next]_vars PROVE CloseInv'
  OBVIOUS
<1> USE ConnectionAssumption DEF IInv, TypeOK, MachineInv, FlagInv, CloseInv,
      InBody, Locked, PCs, machineVars
<1>1. CASE CreateStep
  <2>1. CASE CreateFails
    BY <2>1 DEF CreateFails
  <2>2. CASE Connect
    BY <2>2, CallNone DEF Connect, Transition, IsValidTransition
  <2>3. CASE Connected
    BY <2>3, CallUnset DEF Connected, Transition, IsValidTransition
  <2>4. CASE WireCallbacks
    BY <2>4 DEF WireCallbacks, SetOn
  <2>5. CASE CheckPing
    BY <2>5 DEF CheckPing
  <2> QED
    BY <1>1, <2>1, <2>2, <2>3, <2>4, <2>5 DEF CreateStep
<1>2. ASSUME NEW t \in Users, State(t) \/ Ping(t) \/ Close(t) \/ Destroy(t)
      PROVE CloseInv'
  <2>1. CASE State(t)
    BY <2>1 DEF State, Call
  <2>2. CASE Ping(t)
    BY <2>2 DEF Ping, Call
  <2>3. CASE Close(t)
    BY <2>3 DEF Close, Call
  <2>4. CASE Destroy(t)
    BY <2>4 DEF Destroy
  <2> QED
    BY <1>2, <2>1, <2>2, <2>3, <2>4
<1>3. ASSUME NEW t \in Users, Step(t)
      PROVE CloseInv'
  <2>1. CASE StateClient(t)
    BY <2>1 DEF StateClient, Reply, Goto
  <2>2. CASE StateTransport(t)
    BY <2>2 DEF StateTransport, Reply, Goto
  <2>3. CASE StateMachineCurrent(t)
    BY <2>3 DEF StateMachineCurrent, Reply
  <2>4. CASE PingClient(t)
    BY <2>4 DEF PingClient, Reply, Goto
  <2>5. CASE PingTransport(t)
    BY <2>5 DEF PingTransport, Reply, Goto
  <2>6. CASE RpcReturns(t)
    BY <2>6 DEF RpcReturns, Goto
  <2>7. CASE EnterOnce(t)
    BY <2>7 DEF EnterOnce, AfterClose
  <2>8. CASE SetClosed(t)
    BY <2>8 DEF SetClosed
  <2>9. CASE SetTransportClosed(t)
    BY <2>9 DEF SetTransportClosed
  <2>10. CASE CloseMachine(t)
    <3>1. CASE state = "Closed"
      BY <2>10, <3>1 DEF CloseMachine, Transition, IsValidTransition
    <3>2. CASE state # "Closed"
      <4>1. state = "Ready" /\ IsValidTransition(state, "Closed") /\ handlers = Configured
        BY <2>10, <3>2 DEF CloseMachine, IsValidTransition, Phases
      <4>2. state' = "Closed" /\ mu = Nobody /\ mu' = t /\ pc[t] = "lockTransport"
        BY <2>10, <4>1 DEF CloseMachine, Transition
      <4>3. pc' = [pc EXCEPT ![t] = IF "onClosed" \in Configured THEN "callback"
                                                             ELSE "unlock"]
        BY <2>10, <4>1, CallClosed DEF CloseMachine
      <4>4. UNCHANGED <<phase, closed, once, tclosed>>
        BY <2>10 DEF CloseMachine
      <4> QED
        BY <4>2, <4>3, <4>4
    <3> QED
      BY <3>1, <3>2
  <2>11. CASE CallbackReturns(t)
    BY <2>11 DEF CallbackReturns, Goto
  <2>12. CASE CloseReturns(t)
    BY <2>12 DEF CloseReturns, AfterClose
  <2> QED
    BY <1>3, <2>1, <2>2, <2>3, <2>4, <2>5, <2>6, <2>7, <2>8, <2>9, <2>10, <2>11, <2>12 DEF Step
<1>4. ASSUME NEW t \in Users, CallbackState(t) \/ CallbackClose(t) \/ CallbackThrows(t)
      PROVE CloseInv'
  <2>1. CASE CallbackState(t)
    BY <2>1 DEF CallbackState, Reply, Goto
  <2>2. CASE CallbackClose(t)
    BY <2>2 DEF CallbackClose, Goto
  <2>3. CASE CallbackThrows(t)
    BY <2>3 DEF CallbackThrows
  <2> QED
    BY <1>4, <2>1, <2>2, <2>3
<1>5. CASE UNCHANGED vars
  BY <1>5 DEF vars, machineVars, clientVars
<1> QED
  BY <1>1, <1>2, <1>3, <1>4, <1>5 DEF Next

\* Every step preserves LateInv.
LEMMA NextLateInv == IInv /\ [Next]_vars => LateInv'
<1> SUFFICES ASSUME IInv, [Next]_vars PROVE LateInv'
  OBVIOUS
<1> USE ConnectionAssumption DEF IInv, TypeOK, MachineInv, FlagInv, LateInv,
      PCs, machineVars
<1>1. CASE CreateStep
  <2>1. CASE CreateFails
    BY <2>1 DEF CreateFails
  <2>2. CASE Connect
    BY <2>2, CallNone DEF Connect, Transition, IsValidTransition
  <2>3. CASE Connected
    BY <2>3, CallUnset DEF Connected, Transition, IsValidTransition
  <2>4. CASE WireCallbacks
    BY <2>4 DEF WireCallbacks, SetOn
  <2>5. CASE CheckPing
    BY <2>5 DEF CheckPing
  <2> QED
    BY <1>1, <2>1, <2>2, <2>3, <2>4, <2>5 DEF CreateStep
<1>2. ASSUME NEW t \in Users, State(t) \/ Ping(t) \/ Close(t) \/ Destroy(t)
      PROVE LateInv'
  <2>1. CASE State(t)
    BY <2>1 DEF State, Call
  <2>2. CASE Ping(t)
    BY <2>2 DEF Ping, Call
  <2>3. CASE Close(t)
    BY <2>3 DEF Close, Call
  <2>4. CASE Destroy(t)
    BY <2>4 DEF Destroy
  <2> QED
    BY <1>2, <2>1, <2>2, <2>3, <2>4
<1>3. ASSUME NEW t \in Users, Step(t)
      PROVE LateInv'
  <2>1. CASE StateClient(t)
    BY <2>1 DEF StateClient, Reply, Goto
  <2>2. CASE StateTransport(t)
    BY <2>2 DEF StateTransport, Reply, Goto
  <2>3. CASE StateMachineCurrent(t)
    BY <2>3 DEF StateMachineCurrent, Reply
  <2>4. CASE PingClient(t)
    BY <2>4 DEF PingClient, Reply, Goto
  <2>5. CASE PingTransport(t)
    BY <2>5 DEF PingTransport, Reply, Goto
  <2>6. CASE RpcReturns(t)
    BY <2>6 DEF RpcReturns, Goto
  <2>7. CASE EnterOnce(t)
    BY <2>7 DEF EnterOnce, AfterClose
  <2>8. CASE SetClosed(t)
    BY <2>8 DEF SetClosed
  <2>9. CASE SetTransportClosed(t)
    BY <2>9 DEF SetTransportClosed
  <2>10. CASE CloseMachine(t)
    <3>1. CASE state = "Closed"
      BY <2>10, <3>1 DEF CloseMachine, Transition, IsValidTransition
    <3>2. CASE state # "Closed"
      <4>1. state = "Ready" /\ IsValidTransition(state, "Closed")
        BY <2>10, <3>2 DEF CloseMachine, IsValidTransition, IInv, TypeOK, MachineInv, Phases
      <4> QED
        BY <2>10, <3>2, <4>1, CallClosed DEF CloseMachine, Transition
    <3> QED
      BY <3>1, <3>2
  <2>11. CASE CallbackReturns(t)
    BY <2>11 DEF CallbackReturns, Goto
  <2>12. CASE CloseReturns(t)
    BY <2>12 DEF CloseReturns, AfterClose
  <2> QED
    BY <1>3, <2>1, <2>2, <2>3, <2>4, <2>5, <2>6, <2>7, <2>8, <2>9, <2>10, <2>11, <2>12 DEF Step
<1>4. ASSUME NEW t \in Users, CallbackState(t) \/ CallbackClose(t) \/ CallbackThrows(t)
      PROVE LateInv'
  <2>1. CASE CallbackState(t)
    BY <2>1 DEF CallbackState, Reply, Goto
  <2>2. CASE CallbackClose(t)
    BY <2>2 DEF CallbackClose, Goto
  <2>3. CASE CallbackThrows(t)
    BY <2>3 DEF CallbackThrows
  <2> QED
    BY <1>4, <2>1, <2>2, <2>3
<1>5. CASE UNCHANGED vars
  BY <1>5 DEF vars, machineVars, clientVars
<1> QED
  BY <1>1, <1>2, <1>3, <1>4, <1>5 DEF Next

-----------------------------------------------------------------------------
\* The inductive invariant holds in every reachable state.
THEOREM Inductive == Spec => []IInv
<1>1. IInv /\ [Next]_vars => IInv'
  BY NextTypeOK, NextMachineInv, NextFlagInv, NextCloseInv, NextLateInv DEF IInv
<1> QED
  BY InitIInv, <1>1, PTL DEF Spec

\* Type correctness; in particular no callback is called twice.
THEOREM TypeCorrect == Spec => []TypeOK
<1>1. IInv => TypeOK
  BY DEF IInv
<1> QED
  BY Inductive, <1>1, PTL

\* When any Close has returned, the client is Closed and on_closed was called
\* exactly once.
THEOREM CloseAnnounces == Spec => []ClosedAnnounced
<1>1. IInv => ClosedAnnounced
  BY DEF IInv, FlagInv, ClosedAnnounced
<1> QED
  BY Inductive, <1>1, PTL

\* A client that is gone leaves no open connection and no thread inside it.
THEOREM NothingLeft == Spec => []NoOrphan
<1>1. IInv => NoOrphan
  BY DEF IInv, MachineInv, NoOrphan
<1> QED
  BY Inductive, <1>1, PTL

-----------------------------------------------------------------------------
\* A call of State or of an operation starts with the answer of that moment.
LEMMA CallAsks ==
  ASSUME IInv, NEW t \in Users, NEW at \in {"state", "ping"}, Call(t, at)
  PROVE  Contract!Ask(t)
<1> USE DEF IInv, TypeOK, Call, PossibleAnswers, Asking
<1>1. PossibleAnswers[t] = {}
  OBVIOUS
<1>2. PossibleAnswers'
        = [PossibleAnswers EXCEPT ![t] = {IF ~closed THEN "Ready" ELSE "Closed"}]
  OBVIOUS
<1> QED
  BY <1>1, <1>2 DEF Contract!Ask

\* A call that is told one of its possible answers ends.
LEMMA ReplyAnswers ==
  ASSUME IInv, NEW t \in Users, pc[t] \in Asking,
         NEW a \in PossibleAnswers[t], NEW at \in {"none", "rpc"}, Reply(t, a, at)
  PROVE  Contract!Answer(t)
<1> USE DEF IInv, TypeOK, Reply
<1>1. PossibleAnswers' = [PossibleAnswers EXCEPT ![t] = {}]
  BY DEF PossibleAnswers, Asking
<1> QED
  BY <1>1 DEF Contract!Answer, machineVars

\* Every step is a step of the contract, or changes nothing it sees.
LEMMA StepSimulation ==
  IInv /\ [Next]_vars => [Contract!ContractNext]_(Contract!contractVars)
<1> SUFFICES ASSUME IInv, [Next]_vars PROVE [Contract!ContractNext]_(Contract!contractVars)
  OBVIOUS
<1> USE ConnectionAssumption DEF IInv, TypeOK, MachineInv, FlagInv, CloseInv,
      LateInv, InBody, Locked, PCs, States, Callbacks, machineVars, Asking,
      PossibleAnswers, Contract!ContractNext, Contract!contractVars
<1>1. CASE CreateStep
  <2>1. CASE CreateFails
    BY <2>1 DEF CreateFails
  <2>2. CASE Connect
    BY <2>2, CallNone DEF Connect, Transition, IsValidTransition
  <2>3. CASE Connected
    BY <2>3, CallUnset DEF Connected, Transition, IsValidTransition
  <2>4. CASE WireCallbacks
    BY <2>4 DEF WireCallbacks, SetOn
  <2>5. CASE CheckPing
    BY <2>5 DEF CheckPing
  <2> QED
    BY <1>1, <2>1, <2>2, <2>3, <2>4, <2>5 DEF CreateStep
<1>2. ASSUME NEW t \in Users, State(t) \/ Ping(t) \/ Close(t) \/ Destroy(t)
      PROVE [Contract!ContractNext]_(Contract!contractVars)
  <2>1. CASE State(t)
    BY <2>1, CallAsks DEF State
  <2>2. CASE Ping(t)
    BY <2>2, CallAsks DEF Ping
  <2>3. CASE Close(t)
    BY <2>3 DEF Close, Call
  <2>4. CASE Destroy(t)
    BY <2>4 DEF Destroy
  <2> QED
    BY <1>2, <2>1, <2>2, <2>3, <2>4
<1>3. ASSUME NEW t \in Users, Step(t)
      PROVE [Contract!ContractNext]_(Contract!contractVars)
  <2>1. CASE StateClient(t)
    <3>1. CASE closed
      BY <2>1, <3>1, ReplyAnswers DEF StateClient
    <3>2. CASE ~closed
      BY <2>1, <3>2 DEF StateClient, Goto
    <3> QED
      BY <3>1, <3>2
  <2>2. CASE StateTransport(t)
    <3>1. CASE tclosed
      BY <2>2, <3>1, ReplyAnswers DEF StateTransport
    <3>2. CASE ~tclosed
      BY <2>2, <3>2 DEF StateTransport, Goto
    <3> QED
      BY <3>1, <3>2
  <2>3. CASE StateMachineCurrent(t)
    <3>1. pc[t] \in Asking /\ state \in PossibleAnswers[t]
      BY <2>3 DEF StateMachineCurrent, Phases
    <3> QED
      BY <2>3, <3>1, ReplyAnswers DEF StateMachineCurrent
  <2>4. CASE PingClient(t)
    <3>1. CASE closed
      BY <2>4, <3>1, ReplyAnswers DEF PingClient
    <3>2. CASE ~closed
      BY <2>4, <3>2 DEF PingClient, Goto
    <3> QED
      BY <3>1, <3>2
  <2>5. CASE PingTransport(t)
    <3>1. CASE tclosed
      BY <2>5, <3>1, ReplyAnswers DEF PingTransport
    <3>2. CASE ~tclosed
      BY <2>5, <3>2, ReplyAnswers DEF PingTransport
    <3> QED
      BY <3>1, <3>2
  <2>6. CASE RpcReturns(t)
    BY <2>6 DEF RpcReturns, Goto
  <2>7. CASE EnterOnce(t)
    <3>1. CASE once = "unset"
      BY <2>7, <3>1 DEF EnterOnce, AfterClose, Contract!CloseReturned
    <3>2. CASE ~(once = "unset")
      BY <2>7, <3>2 DEF EnterOnce, AfterClose, Contract!CloseReturned
    <3> QED
      BY <3>1, <3>2
  <2>8. CASE SetClosed(t)
    BY <2>8 DEF SetClosed, Contract!Shut
  <2>9. CASE SetTransportClosed(t)
    BY <2>9 DEF SetTransportClosed
  <2>10. CASE CloseMachine(t)
    <3>1. CASE state = "Closed"
      BY <2>10, <3>1 DEF CloseMachine, Transition, IsValidTransition
    <3>2. CASE state # "Closed"
      <4>1. state = "Ready" /\ IsValidTransition(state, "Closed")
        BY <2>10, <3>2 DEF CloseMachine, IsValidTransition, IInv, TypeOK, MachineInv, Phases
      <4> QED
        BY <2>10, <3>2, <4>1, CallClosed DEF CloseMachine, Transition, Contract!Announce
    <3> QED
      BY <3>1, <3>2
  <2>11. CASE CallbackReturns(t)
    BY <2>11 DEF CallbackReturns, Goto
  <2>12. CASE CloseReturns(t)
    BY <2>12 DEF CloseReturns, AfterClose, Contract!CloseReturned
  <2> QED
    BY <1>3, <2>1, <2>2, <2>3, <2>4, <2>5, <2>6, <2>7, <2>8, <2>9, <2>10, <2>11, <2>12 DEF Step
<1>4. ASSUME NEW t \in Users, CallbackState(t) \/ CallbackClose(t) \/ CallbackThrows(t)
      PROVE [Contract!ContractNext]_(Contract!contractVars)
  <2>1. CASE CallbackState(t)
    <3>1. CASE closed \/ tclosed
      BY <2>1, <3>1 DEF CallbackState, Reply, Goto, Contract!AskInCallback
    <3>2. CASE ~(closed \/ tclosed)
      BY <2>1, <3>2 DEF CallbackState, Reply, Goto, Contract!AskInCallback
    <3> QED
      BY <3>1, <3>2
  <2>2. CASE CallbackClose(t)
    BY <2>2 DEF CallbackClose, Goto
  <2>3. CASE CallbackThrows(t)
    BY <2>3 DEF CallbackThrows
  <2> QED
    BY <1>4, <2>1, <2>2, <2>3
<1>5. CASE UNCHANGED vars
  BY <1>5 DEF vars, machineVars, clientVars
<1> QED
  BY <1>1, <1>2, <1>3, <1>4, <1>5 DEF Next

\* The client implements the contract of ClientContract.
THEOREM Refinement == Spec => ImplementsContract
<1>1. Init => Contract!ContractInit
  BY DEF Init, MachineInit, PossibleAnswers, Asking, Callbacks, Contract!ContractInit
<1> QED
  BY <1>1, Inductive, StepSimulation, PTL
  DEF Spec, ImplementsContract, Contract!ContractSpec

-----------------------------------------------------------------------------
(* Events and stored events. *)

\* A set of natural numbers has a least member.
LEMMA LeastNumber ==
  ASSUME NEW S, S \subseteq Nat, S # {}
  PROVE  \E i \in S : \A j \in S : i <= j
<1> DEFINE R == OpToRel(<, Nat)
<1>1. R = {ss \in Nat \X Nat : ss[1] < ss[2]}
  BY Zenon DEF OpToRel
<1>2. PICK x \in S : \A y \in S : <<y, x>> \notin R
  <2> HIDE DEF R
  <2>1. IsWellFoundedOn(R, Nat) BY NatLessThanWellFounded, Zenon DEF R
  <2> QED BY <2>1, WFMin, Zenon
<1>3. ASSUME NEW y \in S PROVE x <= y
  <2>1. x \in Nat /\ y \in Nat OBVIOUS
  <2> HIDE DEF R
  <2>2. <<y, x>> \notin {ss \in Nat \X Nat : ss[1] < ss[2]} BY <1>1, <1>2
  <2>3. ~(y < x) BY ONLY <2>1, <2>2
  <2> QED BY ONLY <2>1, <2>3
<1> QED BY <1>3

\* Where the broker begins for an option is a position that fits it.
LEMMA StartFits ==
  ASSUME LogTypeOK, TimeInv, NEW option \in [type : 0..6, value : Int]
  PROVE  StartPosition(option) \in Nat \ {0} /\ BeginsAt(option, StartPosition(option), log)
<1> DEFINE n == Len(log)
<1>1. n \in Nat /\ DOMAIN log = 1..n
  BY DEF LogTypeOK
<1>2. ASSUME NEW t \in Int
      PROVE  /\ FirstSince(t) \in Nat \ {0}
             /\ \A i \in DOMAIN log : i >= FirstSince(t) => log[i].at >= t
  <2> DEFINE since == {i \in DOMAIN log : log[i].at >= t}
  <2>0. \A i \in DOMAIN log : log[i].at \in Nat
    <3>1. \A i \in DOMAIN log : log[i] \in Stored BY DEF LogTypeOK
    <3> QED BY <3>1 DEF Stored
  <2>1. CASE since = {}
    <3>1. FirstSince(t) = n + 1 BY <2>1 DEF FirstSince
    <3> QED BY <1>1, <3>1
  <2>2. CASE since # {}
    <3>1. FirstSince(t) = CHOOSE i \in since : \A j \in since : i <= j
      BY <2>2 DEF FirstSince
    <3>2. \E i \in since : \A j \in since : i <= j
      <4>1. since \subseteq Nat BY <1>1
      <4> HIDE DEF since
      <4> QED BY <2>2, <4>1, LeastNumber, Zenon
    <3>3. FirstSince(t) \in since
      BY <3>1, <3>2
    <3> QED BY <1>1, <2>0, <3>3 DEF TimeInv
  <2> QED BY <2>1, <2>2
<1>3. clock - option.value \in Int
  BY DEF LogTypeOK
<1>4. log = <<>> \/ n > 0
  BY <1>1 DEF LogTypeOK
<1> HIDE DEF n
<1>5. CASE option.type = 5
  BY <1>2, <1>5 DEF StartPosition, BeginsAt
<1>6. CASE option.type = 6
  BY <1>2, <1>3, <1>6 DEF StartPosition, BeginsAt
<1>7. CASE option.type \notin {5, 6}
  BY <1>1, <1>4, <1>7 DEF StartPosition, BeginsAt, n
<1> QED BY <1>5, <1>6, <1>7

-----------------------------------------------------------------------------
(* What the publisher holds and sends. *)

\* EventBuild and EventStoreBuild make events of the texts they are given.
LEMMA BuiltEvent ==
  ASSUME NEW b \in HeldEvents, NEW uuid \in Texts
  PROVE  /\ EventBuild(b, uuid).status = "kOk" => EventBuild(b, uuid).message \in HeldEvents
         /\ EventStoreBuild(b, uuid).status = "kOk" => EventStoreBuild(b, uuid).message \in HeldEvents
<1>1. WithId(b, uuid) \in HeldEvents
  BY DEF WithId, FirstNonEmpty, HeldEvents
<1>2. /\ EventBuild(b, uuid).status = "kOk" => EventBuild(b, uuid).message = WithId(b, uuid)
      /\ EventStoreBuild(b, uuid).status = "kOk" => EventStoreBuild(b, uuid).message = WithId(b, uuid)
  BY DEF EventBuild, EventStoreBuild, Produced, Refused
<1> QED BY <1>1, <1>2

\* What an application can hold is an event.
LEMMA HeldIsEvent == \A e \in Events : e \in HeldEvents
<1> SUFFICES ASSUME NEW e \in Events PROVE e \in HeldEvents OBVIOUS
<1>0. NoText \in Texts BY DEF Texts
<1>1. CASE e = NewEvent
  BY <1>0, <1>1 DEF NewEvent, HeldEvents
<1>2. CASE e # NewEvent
  <2>1. PICK a \in Channels \X Bodies : Made(a[1], a[2]).status = "kOk" /\ e = Made(a[1], a[2]).message
    BY <1>2 DEF Events
  <2>2. a[1] \in Texts /\ a[2] \in Texts BY DEF Texts
  <2>3. [NewEvent EXCEPT !.id = a[2], !.channel = a[1], !.body = a[2]] \in HeldEvents
    BY <1>0, <2>2 DEF NewEvent, HeldEvents
  <2> QED BY <1>0, <2>1, <2>3, BuiltEvent DEF Made
<1> QED BY <1>1, <1>2

\* The conversions keep the kind of an event in Store.
LEMMA ProtoOfEvent ==
  ASSUME NEW e \in HeldEvents
  PROVE  /\ EventToProto(e, ClientId) \in Protos
         /\ EventStoreToProto(e, ClientId) \in Protos /\ EventStoreToProto(e, ClientId).Store
         /\ FirstNonEmpty(e.channel, DefaultChannel) \in Texts
<1>1. ClientId \in Texts /\ DefaultChannel \in Texts BY DEF Texts
<1>2. FirstNonEmpty(e.clientId, ClientId) \in Texts /\ FirstNonEmpty(e.channel, DefaultChannel) \in Texts
  BY <1>1 DEF FirstNonEmpty, HeldEvents
<1> QED BY <1>2 DEF EventToProto, EventStoreToProto, Protos, HeldEvents

-----------------------------------------------------------------------------
(* The publisher. *)

\* What a step may do to call and result: a call begins, ends or goes on, and
\* a result that says "sent" is about a stored event.
Settled(c, res, l) ==
  /\ c \in Calls \cup {Idle}
  /\ c = call \/ c.at # "answered"
  /\ c.op = "store" => c.event.Store
  /\ res.op = "store" /\ res.code = "kOk" =>
       /\ res.value \in Results
       /\ res.value.sent => \E n \in DOMAIN l : l[n].EventID = res.value.id

\* A unary send is refused, or waits for the broker.
LEMMA UnarySettled ==
  ASSUME NEW op \in {"event", "store"}, NEW e \in HeldEvents, NEW proto \in Protos,
         op = "store" => proto.Store, Unary(op, e, proto)
  PROVE  Settled(call', result', log)
<1>1. PICK given \in ProviderAnswers :
        LET auth == InjectAuthToken(AuthToken, given)
        IN  IF clientClosed THEN Return(op, "kFatal", <<>>)
            ELSE IF ~Sendable(e) THEN Return(op, "kValidation", <<>>)
            ELSE IF auth # "kOk" THEN Return(op, auth, <<>>)
            ELSE /\ call' = [op |-> op, at |-> "broker", answer |-> <<>>, event |->
                               [proto EXCEPT !.Channel = FirstNonEmpty(e.channel, DefaultChannel)]]
                 /\ result' = NoResult
  BY DEF Unary
<1> DEFINE sentProto == [proto EXCEPT !.Channel = FirstNonEmpty(e.channel, DefaultChannel)]
<1>2. sentProto \in Protos /\ sentProto.Store = proto.Store
  BY ProtoOfEvent DEF Protos
<1>3. CASE \E code : code # "kOk" /\ Return(op, code, <<>>)
  BY <1>3 DEF Return, Settled, Idle
<1> HIDE DEF sentProto
<1>4. CASE call' = [op |-> op, at |-> "broker", answer |-> <<>>, event |-> sentProto] /\ result' = NoResult
  BY <1>2, <1>4 DEF Settled, Calls, NoResult
<1> QED
  BY <1>1, <1>3, <1>4 DEF sentProto

\* Every step of the publisher leaves the broker and the readers alone.
LEMMA PublisherSettles ==
  ASSUME LogConstants, LogTypeOK, AnswerInv, ConfirmedIsStored, Publisher
  PROVE  /\ UNCHANGED <<clientClosed, brokerVars, readerVars, reports>>
         /\ sent' \in Nat /\ stream' \in Seq(Protos)
         /\ Settled(call', result', log)
<1> DEFINE Goal == /\ UNCHANGED <<clientClosed, brokerVars, readerVars, reports>>
                   /\ sent' \in Nat /\ stream' \in Seq(Protos)
                   /\ Settled(call', result', log)
<1>0. Settled(call, result, log)
  BY DEF Settled, LogTypeOK, AnswerInv, ConfirmedIsStored
<1>1. ASSUME NEW e \in HeldEvents, SendEvent(e) \/ SendEventStore(e) PROVE Goal
  <2>1. Settled(call', result', log)
    <3>1. CASE SendEvent(e)
      BY <3>1, UnarySettled, ProtoOfEvent DEF SendEvent
    <3>2. CASE SendEventStore(e)
      BY <3>2, UnarySettled, ProtoOfEvent DEF SendEventStore
    <3> QED BY <1>1, <3>1, <3>2
  <2>2. UNCHANGED <<clientClosed, brokerVars, readerVars, reports, stream>> /\ sent' = sent + 1
    BY <1>1 DEF SendEvent, SendEventStore
  <2> QED BY <2>1, <2>2 DEF LogTypeOK
<1>2. ASSUME NEW e \in HeldEvents, EventStreamSend(e) \/ EventStoreStreamSend(e) PROVE Goal
  <2>1. /\ UNCHANGED <<clientClosed, brokerVars, readerVars, reports, call, result>> /\ sent' = sent + 1
        /\ \E p \in Protos : stream' = Append(stream, p)
    BY <1>2, ProtoOfEvent DEF EventStreamSend, EventStoreStreamSend
  <2>2. Settled(call', result', log) BY <1>0, <2>1 DEF Settled
  <2> QED BY <2>1, <2>2 DEF LogTypeOK
<1>3. ASSUME NEW op, NEW code, code # "kOk", Return(op, code, <<>>),
             UNCHANGED <<clientClosed, brokerVars, readerVars, sent, stream, reports>>
      PROVE  Goal
  BY <1>3 DEF Return, Settled, Idle, LogTypeOK
<1>4. ASSUME NEW channel \in Channels, NEW body \in Bodies,
             PublishEvent(channel, body) \/ PublishEventStore(channel, body)
      PROVE  Goal
  <2> DEFINE b == [NewEvent EXCEPT !.channel = channel, !.body = body]
  <2>1. NoText \in Texts /\ "uuid" \in Texts /\ channel \in Texts /\ body \in Texts
    BY DEF Texts
  <2>2. b \in HeldEvents BY <2>1 DEF NewEvent, HeldEvents
  <2>3. CASE PublishEvent(channel, body)
    <3> HIDE DEF Goal
    <3>1. CASE EventBuild(b, "uuid").status = "kOk"
      BY <1>1, <2>1, <2>2, <2>3, <3>1, BuiltEvent DEF PublishEvent
    <3>2. CASE EventBuild(b, "uuid").status # "kOk"
      BY <1>3, <2>3, <3>2 DEF PublishEvent
    <3> QED BY <3>1, <3>2
  <2>4. CASE PublishEventStore(channel, body)
    <3> HIDE DEF Goal
    <3>0. b = [NewEventStore EXCEPT !.channel = channel, !.body = body] BY DEF NewEventStore
    <3>1. CASE EventStoreBuild(b, "uuid").status = "kOk"
      BY <1>1, <2>1, <2>2, <2>4, <3>0, <3>1, BuiltEvent DEF PublishEventStore
    <3>2. CASE EventStoreBuild(b, "uuid").status # "kOk"
      BY <1>3, <2>4, <3>0, <3>2 DEF PublishEventStore
    <3> QED BY <3>1, <3>2
  <2> QED BY <1>4, <2>3, <2>4
<1>5. ASSUME ReceiveResult PROVE Goal
  <2>1. call \in Calls /\ call.at = "answered" /\ call.answer \in Answers
    BY <1>5 DEF ReceiveResult, LogTypeOK, Calls, Idle
  <2> DEFINE r == SendEventStoreResult(call.answer)
  <2>2. r.code = "kOk" => /\ r.value \in Results /\ r.value.sent = call.answer.Sent
                          /\ r.value.id = call.answer.EventID
    BY <2>1 DEF SendEventStoreResult, EventStoreResultFromProto, Answers, Results
  <2>3. Return(call.op, r.code, IF call.op = "store" THEN r.value ELSE <<>>)
    BY <1>5 DEF ReceiveResult
  <2> HIDE DEF r
  <2>4. Settled(call', result', log)
    BY <2>1, <2>2, <2>3 DEF Return, Settled, AnswerInv, Idle
  <2> QED BY <1>5, <2>4 DEF ReceiveResult, LogTypeOK
<1>6. ASSUME Fail("DEADLINE_EXCEEDED") PROVE Goal
  <2>1. MapGrpcCode("DEADLINE_EXCEEDED") # "kOk" BY DEF MapGrpcCode
  <2>2. Return("failed", MapGrpcCode("DEADLINE_EXCEEDED"), <<>>)
    BY <1>6 DEF Fail
  <2>3. UNCHANGED <<clientClosed, brokerVars, readerVars, sent, stream, reports>>
    BY <1>6 DEF Fail
  <2> HIDE DEF Goal
  <2> QED BY <1>3, <2>1, <2>2, <2>3, Zenon
<1> HIDE DEF Goal
<1>7. Goal
  <2>1. CASE \E e \in Events : SendEvent(e) \/ SendEventStore(e) \/ EventStreamSend(e) \/ EventStoreStreamSend(e)
    BY <1>1, <1>2, <2>1, HeldIsEvent
  <2>2. CASE \E channel \in Channels, body \in Bodies :
               PublishEvent(channel, body) \/ PublishEventStore(channel, body)
    BY <1>4, <2>2, Zenon
  <2> QED BY <1>5, <1>6, <2>1, <2>2 DEF Publisher
<1> QED BY <1>7 DEF Goal

-----------------------------------------------------------------------------
(* The log only grows. *)

\* m is log l with events added that are not older than t.
Grown(l, m, t) ==
  /\ Len(m) \in Nat /\ Len(l) <= Len(m)
  /\ \A i \in 1..Len(l) : m[i] = l[i]
  /\ \A i \in 1..Len(m) : i \in 1..Len(l) \/ m[i].at >= t

\* What was true of the events of a log stays true when it grows.
LEMMA GrownKeeps ==
  ASSUME NEW l \in Seq(Stored), NEW m \in Seq(Stored), NEW t \in Nat, Grown(l, m, t)
  PROVE  /\ \A events, n : Follows(events, n, l) => Follows(events, n, m)
         /\ \A protos, n : FollowsOnWire(protos, n, l) => FollowsOnWire(protos, n, m)
         /\ \A option \in [type : 0..6, value : Int] : \A n :
              (option.type = 5 => option.value <= t) /\ BeginsAt(option, n, l) => BeginsAt(option, n, m)
         /\ \A id : (\E n \in DOMAIN l : l[n].EventID = id) => \E n \in DOMAIN m : m[n].EventID = id
<1>1. DOMAIN l = 1..Len(l) /\ DOMAIN m = 1..Len(m) /\ Len(l) \in Nat /\ Len(m) \in Nat
  OBVIOUS
<1>2. \A i \in DOMAIN l : i \in DOMAIN m /\ m[i] = l[i]
  BY <1>1 DEF Grown
<1>3. \A n, id, body : Copy(l, n, id, body) => Copy(m, n, id, body)
  BY <1>2, Zenon DEF Copy
<1>4. \A events, n : Follows(events, n, l) => Follows(events, n, m)
  BY <1>3, Zenon DEF Follows
<1>5. \A protos, n : FollowsOnWire(protos, n, l) => FollowsOnWire(protos, n, m)
  BY <1>3, Zenon DEF FollowsOnWire
<1>6. ASSUME NEW option \in [type : 0..6, value : Int], NEW n,
             option.type = 5 => option.value <= t, BeginsAt(option, n, l)
      PROVE  BeginsAt(option, n, m)
  <2>0. \A i \in 1..Len(m) : m[i].at \in Nat
    <3>1. \A i \in 1..Len(m) : m[i] \in Stored OBVIOUS
    <3> QED BY <3>1 DEF Stored
  <2>1. ASSUME option.type = 5, NEW i \in DOMAIN m, i >= n PROVE m[i].at >= option.value
    <3>1. CASE i \in DOMAIN l
      BY <1>2, <1>6, <2>1, <3>1 DEF BeginsAt
    <3>2. CASE i \notin DOMAIN l
      <4>1. m[i].at >= t BY <1>1, <2>1, <3>2 DEF Grown
      <4> QED BY <1>1, <1>6, <2>0, <2>1, <4>1
    <3> QED BY <3>1, <3>2
  <2> QED BY <1>6, <2>1 DEF BeginsAt
<1>7. ASSUME NEW id, \E n \in DOMAIN l : l[n].EventID = id PROVE \E n \in DOMAIN m : m[n].EventID = id
  BY <1>2, <1>7, Zenon
<1> QED BY <1>4, <1>5, <1>6, <1>7

\* Publish adds at most one event to the log, and gives the readers of stored
\* events nothing.
LEMMA PublishGrows ==
  ASSUME LogConstants, LogTypeOK, TimeInv, NEW e \in Protos, Publish(e)
  PROVE  /\ log' \in Seq(Stored) /\ Grown(log, log', clock)
         /\ \A i \in DOMAIN log' : log'[i].at <= clock
         /\ \A i, j \in DOMAIN log' : i <= j => log'[i].at <= log'[j].at
         /\ e.Store => \E n \in DOMAIN log' : log'[n].EventID = e.EventID
         /\ wire' \in [Readers -> Seq(OnWire)]
         /\ \A r \in StoreReaders : wire'[r] = wire[r]
<1>1. CASE e.Store
  <2> DEFINE x == [EventID |-> e.EventID, Channel |-> e.Channel, Body |-> e.Body,
                   Metadata |-> e.Metadata, Tags |-> e.Tags, at |-> clock]
             n == Len(log)
  <2>1. log' = Append(log, x) /\ wire' = wire
    BY <1>1 DEF Publish
  <2>2. x \in Stored /\ x.at = clock /\ x.EventID = e.EventID /\ clock \in Nat
    BY DEF Stored, Protos, LogTypeOK
  <2> HIDE DEF x
  <2>3. log \in Seq(Stored) /\ n \in Nat /\ DOMAIN log = 1..n
    BY DEF LogTypeOK
  <2>4. /\ log' \in Seq(Stored) /\ Len(log') = n + 1 /\ DOMAIN log' = 1..(n + 1)
        /\ log'[n + 1] = x /\ \A i \in 1..n : log'[i] = log[i]
    BY <2>1, <2>2, <2>3
  <2>5. \A i \in 1..n : log[i].at \in Nat /\ log[i].at <= clock
    <3>1. \A i \in 1..n : log[i] \in Stored BY <2>3
    <3> QED BY <2>3, <3>1 DEF Stored, TimeInv
  <2> HIDE DEF n
  <2>6. Grown(log, log', clock)
    BY <2>2, <2>3, <2>4 DEF Grown, n
  <2>7. \A i \in DOMAIN log' : log'[i].at <= clock
    BY <2>2, <2>3, <2>4, <2>5
  <2>8. ASSUME NEW i \in DOMAIN log', NEW j \in DOMAIN log', i <= j PROVE log'[i].at <= log'[j].at
    <3>1. CASE j = n + 1
      BY <2>2, <2>4, <2>7, <3>1
    <3>2. CASE j # n + 1
      BY <2>3, <2>4, <2>8, <3>2 DEF TimeInv
    <3> QED BY <3>1, <3>2
  <2>9. \E k \in DOMAIN log' : log'[k].EventID = e.EventID
    BY <2>2, <2>3, <2>4
  <2> QED BY <2>1, <2>4, <2>6, <2>7, <2>8, <2>9 DEF LogTypeOK
<1>2. CASE ~e.Store
  <2> DEFINE x == [EventID |-> e.EventID, Channel |-> e.Channel, Body |-> e.Body,
                   Metadata |-> e.Metadata, Tags |-> e.Tags, Timestamp |-> clock, Sequence |-> 0]
  <2>1. /\ log' = log
        /\ wire' = [r \in Readers |-> IF r \notin StoreReaders /\ sub[r].state = "open"
                                      THEN Append(wire[r], x) ELSE wire[r]]
    BY <1>2 DEF Publish
  <2>2. x \in OnWire BY DEF OnWire, Protos, LogTypeOK
  <2> HIDE DEF x
  <2>3. \A r \in Readers : wire[r] \in Seq(OnWire) /\ Append(wire[r], x) \in Seq(OnWire)
    BY <2>2 DEF LogTypeOK
  <2>4. wire' \in [Readers -> Seq(OnWire)] /\ \A r \in StoreReaders : wire'[r] = wire[r]
    BY <2>1, <2>3 DEF LogConstants
  <2>5. Grown(log, log', clock)
    BY <2>1 DEF Grown, LogTypeOK
  <2> QED BY <1>2, <2>1, <2>4, <2>5 DEF LogTypeOK, TimeInv
<1> QED BY <1>1, <1>2

-----------------------------------------------------------------------------
(* One stream of a subscription. *)

StartOption == [type : 0..6, value : Int]

\* What a subscription keeps as its Subscribe message.
LEMMA OptionType == ASSUME LogConstants PROVE Options \cup {NoOption} \subseteq StartOption
  BY DEF LogConstants, NoOption, StartOption

\* A new stream has handed over nothing, and begins where the broker starts.
LEMMA NewStream ==
  ASSUME NEW option \in StartOption, NEW streams \in Seq(Seq(Received)), NEW l \in Seq(Stored),
         NEW n \in Nat \ {0}, BeginsAt(option, n, l), HandedOver(option, streams, l)
  PROVE  /\ HandedOver(option, Append(streams, <<>>), l)
         /\ Continues(option, Append(streams, <<>>), <<>>, n, l)
<1> DEFINE t == Append(streams, <<>>)
<1>1. <<>> \in Seq(Received) OBVIOUS
<1>2. /\ t \in Seq(Seq(Received)) /\ Len(t) = Len(streams) + 1 /\ Len(streams) \in Nat
      /\ t[Len(t)] = <<>> /\ DOMAIN t = 1..(Len(streams) + 1)
      /\ DOMAIN streams = 1..Len(streams) /\ \A k \in 1..Len(streams) : t[k] = streams[k]
  BY <1>1
<1> HIDE DEF t
<1>3. t # <<>> BY <1>2
<1>4. HandedOver(option, t, l)
  <2> SUFFICES ASSUME NEW k \in DOMAIN t, t[k] # <<>>
               PROVE  BeginsAt(option, t[k][1].sequence, l) /\ Follows(t[k], t[k][1].sequence, l)
    BY Zenon DEF HandedOver
  <2>2. k # Len(streams) + 1 BY <1>2
  <2>3. k \in 1..Len(streams) BY <1>2, <2>2
  <2>1. k \in DOMAIN streams /\ t[k] = streams[k] BY ONLY <1>2, <2>3
  <2> QED BY <2>1, Zenon DEF HandedOver
<1>5. Follows(<<>>, n, l) /\ FollowsOnWire(<<>>, n, l)
  BY DEF Follows, FollowsOnWire
<1>6. n - Len(<<>>) - Len(<<>>) = n /\ n + Len(<<>>) = n OBVIOUS
<1>7. Continues(option, t, <<>>, n, l)
  BY <1>2, <1>3, <1>5, <1>6 DEF Continues
<1> QED BY <1>4, <1>7 DEF t

\* Delivering number n of the log puts it behind what is on the wire.
LEMMA DeliveredNext ==
  ASSUME NEW option \in StartOption, NEW streams \in Seq(Seq(Received)), NEW protos \in Seq(OnWire),
         NEW l \in Seq(Stored), NEW n \in Nat, NEW x \in OnWire,
         x.Sequence = n, Copy(l, n, x.EventID, x.Body), Continues(option, streams, protos, n, l)
  PROVE  Continues(option, streams, Append(protos, x), n + 1, l)
<1> DEFINE c == streams[Len(streams)]
           w == Append(protos, x)
           b == n - Len(protos) - Len(c)
<1>1. /\ streams # <<>> /\ b > 0 /\ BeginsAt(option, b, l)
      /\ Follows(c, b, l) /\ FollowsOnWire(protos, b + Len(c), l)
  BY DEF Continues
<1>2. c \in Seq(Received) /\ Len(c) \in Nat /\ Len(protos) \in Nat /\ b \in Int
  BY <1>1
<1>3. /\ Len(w) = Len(protos) + 1 /\ w[Len(protos) + 1] = x
      /\ DOMAIN w = 1..(Len(protos) + 1) /\ \A i \in 1..Len(protos) : w[i] = protos[i]
      /\ DOMAIN protos = 1..Len(protos)
  OBVIOUS
<1> HIDE DEF c, w
<1>4. (n + 1) - Len(w) - Len(c) = b /\ n = b + Len(c) + Len(protos)
  BY <1>2, <1>3
<1> HIDE DEF b
<1>5. FollowsOnWire(w, b + Len(c), l)
  <2> SUFFICES ASSUME NEW i \in DOMAIN w
               PROVE  /\ w[i].Sequence = b + Len(c) + i - 1
                      /\ Copy(l, w[i].Sequence, w[i].EventID, w[i].Body)
    BY Zenon DEF FollowsOnWire
  <2>1. CASE i = Len(protos) + 1
    BY <1>2, <1>3, <1>4, <2>1
  <2>2. CASE i # Len(protos) + 1
    <3>1. i \in DOMAIN protos /\ w[i] = protos[i] BY <1>2, <1>3, <2>2
    <3> QED BY <1>1, <3>1 DEF FollowsOnWire
  <2> QED BY <2>1, <2>2
<1> QED BY <1>1, <1>4, <1>5 DEF Continues, c, w

\* Reading moves the first event of the wire behind what was handed over.
LEMMA ReadNext ==
  ASSUME NEW option \in StartOption, NEW streams \in Seq(Seq(Received)), NEW protos \in Seq(OnWire),
         NEW l \in Seq(Stored), NEW n \in Nat, protos # <<>>,
         HandedOver(option, streams, l), Continues(option, streams, protos, n, l)
  PROVE  LET e == EventStoreReceiveFromProto(Head(protos))
             t == [streams EXCEPT ![Len(streams)] = Append(@, e)]
         IN  /\ t \in Seq(Seq(Received))
             /\ HandedOver(option, t, l) /\ Continues(option, t, Tail(protos), n, l)
<1> DEFINE e == EventStoreReceiveFromProto(Head(protos))
           m == Len(streams)
           c == streams[m]
           t == [streams EXCEPT ![m] = Append(@, e)]
           b == n - Len(protos) - Len(c)
<1>1. /\ streams # <<>> /\ b > 0 /\ BeginsAt(option, b, l)
      /\ Follows(c, b, l) /\ FollowsOnWire(protos, b + Len(c), l)
  BY DEF Continues
<1>2. m \in Nat \ {0} /\ c \in Seq(Received) /\ Len(c) \in Nat /\ Len(protos) \in Nat \ {0} /\ b \in Int
  BY <1>1
<1>3. 1 \in DOMAIN protos /\ Head(protos) = protos[1] /\ protos[1] \in OnWire
  BY <1>2
<1>4. /\ e \in Received /\ e.sequence = protos[1].Sequence
      /\ e.id = protos[1].EventID /\ e.body = protos[1].Body
  BY <1>3 DEF EventStoreReceiveFromProto, OnWire, Received
<1> HIDE DEF e
<1>5. e.sequence = b + Len(c) /\ Copy(l, e.sequence, e.id, e.body)
  BY <1>1, <1>2, <1>3, <1>4 DEF FollowsOnWire
<1>6. /\ Append(c, e) \in Seq(Received) /\ Len(Append(c, e)) = Len(c) + 1
      /\ DOMAIN Append(c, e) = 1..(Len(c) + 1) /\ Append(c, e)[Len(c) + 1] = e
      /\ \A i \in 1..Len(c) : Append(c, e)[i] = c[i] /\ DOMAIN c = 1..Len(c)
  BY <1>2, <1>4
<1>7. /\ t \in Seq(Seq(Received)) /\ Len(t) = m /\ DOMAIN t = DOMAIN streams /\ t # <<>>
      /\ t[m] = Append(c, e) /\ \A k \in DOMAIN streams : k # m => t[k] = streams[k]
  BY <1>2, <1>6
<1> HIDE DEF t, c, m
<1>8. Follows(Append(c, e), b, l)
  <2> SUFFICES ASSUME NEW i \in DOMAIN Append(c, e)
               PROVE  LET x == Append(c, e)[i]
                      IN  x.sequence = b + i - 1 /\ Copy(l, x.sequence, x.id, x.body)
    BY Zenon DEF Follows
  <2>1. CASE i = Len(c) + 1
    BY <1>2, <1>5, <1>6, <2>1
  <2>2. CASE i # Len(c) + 1
    <3>1. i \in DOMAIN c /\ Append(c, e)[i] = c[i] BY <1>2, <1>6, <2>2
    <3> QED BY <1>1, <3>1 DEF Follows
  <2> QED BY <2>1, <2>2
<1>9. Append(c, e)[1].sequence = b
  <2>1. 1 \in DOMAIN Append(c, e) BY <1>2, <1>6
  <2>2. Append(c, e)[1].sequence = b + 1 - 1 BY <1>8, <2>1 DEF Follows
  <2> QED BY <1>2, <2>2
<1>10. HandedOver(option, t, l)
  <2> SUFFICES ASSUME NEW k \in DOMAIN t, t[k] # <<>>
               PROVE  BeginsAt(option, t[k][1].sequence, l) /\ Follows(t[k], t[k][1].sequence, l)
    BY Zenon DEF HandedOver
  <2>1. CASE k = m
    BY <1>1, <1>7, <1>8, <1>9, <2>1
  <2>2. CASE k # m
    <3>1. k \in DOMAIN streams /\ t[k] = streams[k] BY <1>7, <2>2
    <3> QED BY <3>1, Zenon DEF HandedOver
  <2> QED BY <2>1, <2>2
<1>11. /\ Len(Tail(protos)) = Len(protos) - 1 /\ DOMAIN Tail(protos) = 1..(Len(protos) - 1)
       /\ \A i \in 1..(Len(protos) - 1) : Tail(protos)[i] = protos[i + 1] /\ i + 1 \in DOMAIN protos
  BY <1>2
<1>12. n - Len(Tail(protos)) - Len(t[Len(t)]) = b
  BY <1>2, <1>6, <1>7, <1>11
<1> HIDE DEF b
<1>13. FollowsOnWire(Tail(protos), b + Len(t[Len(t)]), l)
  <2> SUFFICES ASSUME NEW i \in DOMAIN Tail(protos)
               PROVE  LET x == Tail(protos)[i]
                      IN  x.Sequence = b + Len(t[Len(t)]) + i - 1 /\ Copy(l, x.Sequence, x.EventID, x.Body)
    BY Zenon DEF FollowsOnWire
  <2>1. i \in Nat /\ Tail(protos)[i] = protos[i + 1] /\ i + 1 \in DOMAIN protos BY <1>2, <1>11
  <2>2. /\ protos[i + 1].Sequence = b + Len(c) + (i + 1) - 1
        /\ Copy(l, protos[i + 1].Sequence, protos[i + 1].EventID, protos[i + 1].Body)
    BY <1>1, <2>1 DEF FollowsOnWire
  <2>3. b + Len(c) + (i + 1) - 1 = b + Len(t[Len(t)]) + i - 1
    BY <1>2, <1>6, <1>7, <2>1
  <2> QED BY <2>1, <2>2, <2>3
<1>14. Continues(option, t, Tail(protos), n, l)
  BY <1>1, <1>7, <1>8, <1>12, <1>13 DEF Continues
<1> QED BY <1>7, <1>10, <1>14 DEF t, m, e

-----------------------------------------------------------------------------
(* The inductive invariant. *)

\* Nothing is sent and nobody has subscribed.
LEMMA LogBegins == ASSUME LogConstants PROVE LogInit => LogIInv
<1> SUFFICES ASSUME LogInit PROVE LogIInv OBVIOUS
<1> USE DEF LogInit
<1>1. LogTypeOK
  <2>1. <<>> \in Seq(Stored) /\ <<>> \in Seq(Protos) /\ <<>> \in Seq(OnWire) /\ <<>> \in Seq(Seq(Received))
    OBVIOUS
  <2> QED BY <2>1 DEF LogTypeOK, NoResult, Unsubscribed
<1>2. \A r \in StoreReaders : r \in Readers BY DEF LogConstants
<1>3. TimeInv BY <1>2 DEF TimeInv, Unsubscribed, NoOption
<1>4. AnswerInv BY DEF AnswerInv, Idle
<1>5. StreamInv BY <1>2 DEF StreamInv, Unsubscribed, HandedOver
<1>6. ConfirmedIsStored BY DEF ConfirmedIsStored, NoResult
<1> QED BY <1>1, <1>3, <1>4, <1>5, <1>6 DEF LogIInv

\* A step that leaves the broker and the subscriptions alone.
LEMMA QuietStep ==
  ASSUME LogConstants, LogIInv, UNCHANGED <<brokerVars, readerVars, reports>>, clientClosed' \in BOOLEAN,
         sent' \in Nat, stream' \in Seq(Protos), Settled(call', result', log)
  PROVE  LogIInv'
<1>1. UNCHANGED <<clock, breaks, log, next, wire, sub, seen, reports>>
  BY DEF brokerVars, readerVars
<1>2. LogTypeOK' BY <1>1 DEF LogIInv, LogTypeOK, Settled
<1>3. TimeInv' BY <1>1 DEF LogIInv, TimeInv
<1>4. AnswerInv'
  <2>1. CASE call' = call BY <1>1, <2>1 DEF LogIInv, AnswerInv
  <2>2. CASE call' # call BY <1>1, <2>2 DEF AnswerInv, Settled
  <2> QED BY <2>1, <2>2
<1>5. StreamInv' BY <1>1 DEF LogIInv, StreamInv
<1>6. ConfirmedIsStored' BY <1>1 DEF LogIInv, ConfirmedIsStored, Settled
<1> QED BY <1>2, <1>3, <1>4, <1>5, <1>6 DEF LogIInv

\* A step that publishes: the log grows and no stream is touched.
LEMMA GrowingStep ==
  ASSUME LogConstants, LogIInv, UNCHANGED <<clientClosed, clock, sent, breaks, next, readerVars, result>>,
         log' \in Seq(Stored), Grown(log, log', clock),
         \A i \in DOMAIN log' : log'[i].at <= clock,
         \A i, j \in DOMAIN log' : i <= j => log'[i].at <= log'[j].at,
         wire' \in [Readers -> Seq(OnWire)], \A r \in StoreReaders : wire'[r] = wire[r],
         call' \in Calls \cup {Idle}, stream' \in Seq(Protos), reports' \subseteq Results,
         call' = call \/ AnswerInv',
         \A o \in reports' : o \in reports \/ (o.sent => \E n \in DOMAIN log' : log'[n].EventID = o.id)
  PROVE  LogIInv'
<1> USE DEF LogIInv
<1>1. UNCHANGED <<clientClosed, clock, sent, breaks, next, sub, seen, result>> BY DEF readerVars
<1>2. LogTypeOK' BY <1>1 DEF LogTypeOK
<1>3. TimeInv' BY <1>1 DEF TimeInv
<1>0. log \in Seq(Stored) /\ clock \in Nat BY DEF LogTypeOK
<1>4. /\ \A events, n : Follows(events, n, log) => Follows(events, n, log')
      /\ \A protos, n : FollowsOnWire(protos, n, log) => FollowsOnWire(protos, n, log')
      /\ \A option \in StartOption : \A n :
           (option.type = 5 => option.value <= clock) /\ BeginsAt(option, n, log) => BeginsAt(option, n, log')
      /\ \A id : (\E n \in DOMAIN log : log[n].EventID = id) => \E n \in DOMAIN log' : log'[n].EventID = id
  BY <1>0, GrownKeeps DEF StartOption
<1>5. AnswerInv'
  <2>1. CASE call' = call BY <1>4, <2>1 DEF AnswerInv
  <2> QED BY <2>1
<1>6. StreamInv'
  <2> SUFFICES ASSUME NEW r \in StoreReaders
               PROVE  /\ HandedOver(sub[r].option, seen[r], log')
                      /\ sub[r].state = "open" => Continues(sub[r].option, seen[r], wire[r], next[r], log')
                      /\ sub[r].state # "open" => wire[r] = <<>>
                      /\ sub[r].state = "none" => seen[r] = <<>>
    BY <1>1 DEF StreamInv
  <2>1. r \in Readers /\ sub[r].option \in StartOption
    BY OptionType DEF LogConstants, LogTypeOK
  <2>2. sub[r].option.type = 5 => sub[r].option.value <= clock BY DEF TimeInv
  <2>3. \A n : BeginsAt(sub[r].option, n, log) => BeginsAt(sub[r].option, n, log')
    BY <1>4, <2>1, <2>2, Zenon
  <2>4. HandedOver(sub[r].option, seen[r], log')
    BY <1>4, <2>3, Zenon DEF StreamInv, HandedOver
  <2>5. ASSUME sub[r].state = "open" PROVE Continues(sub[r].option, seen[r], wire[r], next[r], log')
    BY <1>4, <2>3, <2>5, Zenon DEF StreamInv, Continues
  <2> QED BY <2>4, <2>5, Zenon DEF StreamInv
<1>7. ConfirmedIsStored'
  <2> SUFFICES ASSUME NEW o, o.sent, (result.op = "store" /\ result.code = "kOk" /\ o = result.value) \/ o \in reports'
               PROVE  \E n \in DOMAIN log' : log'[n].EventID = o.id
    BY <1>1 DEF ConfirmedIsStored
  <2>1. CASE result.op = "store" /\ result.code = "kOk" /\ o = result.value
    BY <1>4, <2>1 DEF ConfirmedIsStored
  <2>2. CASE o \in reports
    BY <1>4, <2>2 DEF ConfirmedIsStored
  <2> QED BY <2>1, <2>2
<1> QED BY <1>2, <1>3, <1>5, <1>6, <1>7

\* A step of one reader r of stored events keeps what holds of the others.
LEMMA StreamStep ==
  ASSUME LogConstants, LogIInv, NEW r \in Readers, NEW becomes, NEW option, NEW n, NEW w, NEW t,
         UNCHANGED <<clientClosed, clock, log, publisherVars>>, breaks' \in Nat,
         sub' = [sub EXCEPT ![r] = [state |-> becomes, option |-> option]],
         next' = [next EXCEPT ![r] = n], wire' = [wire EXCEPT ![r] = w], seen' = [seen EXCEPT ![r] = t],
         becomes \in {"open", "broken", "done"}, option \in Options \cup {NoOption}, n \in Nat,
         w \in Seq(OnWire), t \in Seq(Seq(Received)),
         r \in StoreReaders =>
           /\ option.type = 5 => option.value <= clock
           /\ HandedOver(option, t, log)
           /\ becomes = "open" => Continues(option, t, w, n, log)
           /\ becomes # "open" => w = <<>>
  PROVE  LogIInv'
<1>0. /\ LogTypeOK /\ TimeInv /\ AnswerInv /\ StreamInv /\ ConfirmedIsStored
  BY DEF LogIInv
<1>1. UNCHANGED <<clientClosed, clock, log, sent, call, result, stream, reports>> BY DEF publisherVars
<1>2. LogTypeOK' BY <1>0, <1>1 DEF LogTypeOK
<1>3. ASSUME NEW q \in StoreReaders
      PROVE  /\ q # r => sub'[q] = sub[q] /\ next'[q] = next[q] /\ wire'[q] = wire[q] /\ seen'[q] = seen[q]
             /\ q = r => /\ sub'[q].state = becomes /\ sub'[q].option = option /\ next'[q] = n
                         /\ wire'[q] = w /\ seen'[q] = t
  BY <1>0 DEF LogTypeOK, LogConstants
<1>4. TimeInv' BY <1>0, <1>1, <1>3 DEF TimeInv
<1>5. AnswerInv' BY <1>0, <1>1 DEF AnswerInv
<1>6. StreamInv' BY <1>0, <1>1, <1>3 DEF StreamInv
<1>7. ConfirmedIsStored' BY <1>0, <1>1 DEF ConfirmedIsStored
<1> QED BY <1>2, <1>4, <1>5, <1>6, <1>7 DEF LogIInv

\* What the step of a reader finds, and what leaves a part of it as it is.
LEMMA ReaderTypes ==
  ASSUME LogConstants, LogIInv, NEW r \in Readers
  PROVE  /\ sub[r].state \in {"none", "open", "broken", "done"}
         /\ sub[r].option \in Options \cup {NoOption} /\ sub[r].option \in StartOption
         /\ next[r] \in Nat /\ wire[r] \in Seq(OnWire) /\ seen[r] \in Seq(Seq(Received))
         /\ log \in Seq(Stored) /\ clock \in Nat /\ breaks \in Nat
         /\ next = [next EXCEPT ![r] = next[r]] /\ wire = [wire EXCEPT ![r] = wire[r]]
         /\ seen = [seen EXCEPT ![r] = seen[r]]
         /\ sub = [sub EXCEPT ![r] = [state |-> sub[r].state, option |-> sub[r].option]]
         /\ \A becomes : [sub EXCEPT ![r].state = becomes]
                         = [sub EXCEPT ![r] = [state |-> becomes, option |-> sub[r].option]]
<1>1. LogTypeOK BY DEF LogIInv
<1>2. sub[r] \in [state : {"none", "open", "broken", "done"}, option : Options \cup {NoOption}]
  BY <1>1 DEF LogTypeOK
<1>3. sub[r].option \in StartOption BY <1>2, OptionType
<1>4. sub[r] = [state |-> sub[r].state, option |-> sub[r].option] BY <1>2
<1>5. ASSUME NEW becomes
      PROVE  [sub EXCEPT ![r].state = becomes] = [sub EXCEPT ![r] = [state |-> becomes, option |-> sub[r].option]]
  <2>1. [sub[r] EXCEPT !.state = becomes] = [state |-> becomes, option |-> sub[r].option] BY <1>2
  <2> QED BY <2>1, Zenon
<1>6. sub = [sub EXCEPT ![r] = [state |-> sub[r].state, option |-> sub[r].option]]
  BY <1>1, <1>4 DEF LogTypeOK
<1> QED BY <1>1, <1>2, <1>3, <1>5, <1>6 DEF LogTypeOK

\* Every step of a subscription, and of the broker that serves it.
LEMMA SubscriberIInv ==
  ASSUME LogConstants, LogIInv, NEW r \in Readers, Subscriber(r)
  PROVE  LogIInv'
<1>0. LogTypeOK /\ TimeInv /\ StreamInv BY DEF LogIInv
<1>1. /\ sub[r].option \in Options \cup {NoOption} /\ sub[r].option \in StartOption
      /\ next[r] \in Nat /\ wire[r] \in Seq(OnWire) /\ seen[r] \in Seq(Seq(Received))
      /\ log \in Seq(Stored) /\ clock \in Nat /\ breaks \in Nat
  BY ReaderTypes
<1>2. /\ next = [next EXCEPT ![r] = next[r]] /\ wire = [wire EXCEPT ![r] = wire[r]]
      /\ seen = [seen EXCEPT ![r] = seen[r]]
      /\ sub = [sub EXCEPT ![r] = [state |-> sub[r].state, option |-> sub[r].option]]
  BY ReaderTypes
<1>3. \A becomes : [sub EXCEPT ![r].state = becomes]
                   = [sub EXCEPT ![r] = [state |-> becomes, option |-> sub[r].option]]
  BY ReaderTypes
<1>4. ASSUME NEW option \in Options \cup {NoOption}, Open(r, option), wire[r] = <<>> \/ r \notin StoreReaders,
             r \in StoreReaders => HandedOver(option, seen[r], log),
             r \in StoreReaders => (option.type = 5 => option.value <= clock)
      PROVE  LogIInv'
  <2> DEFINE n == StartPosition(option)
  <2>1. option \in StartOption BY <1>4, OptionType
  <2>2. n \in Nat \ {0} /\ BeginsAt(option, n, log)
    BY <1>0, <2>1, StartFits DEF StartOption
  <2>3. /\ UNCHANGED <<clientClosed, clock, breaks, log, wire, publisherVars>>
        /\ sub' = [sub EXCEPT ![r] = [state |-> "open", option |-> option]]
        /\ next' = [next EXCEPT ![r] = n] /\ seen' = [seen EXCEPT ![r] = Append(seen[r], <<>>)]
    BY <1>4 DEF Open
  <2> HIDE DEF n
  <2>4. Append(seen[r], <<>>) \in Seq(Seq(Received))
    <3>1. <<>> \in Seq(Received) OBVIOUS
    <3> QED BY <1>1, <3>1
  <2>5. r \in StoreReaders => /\ HandedOver(option, Append(seen[r], <<>>), log)
                              /\ Continues(option, Append(seen[r], <<>>), wire[r], n, log)
    BY <1>1, <1>4, <2>1, <2>2, NewStream
  <2> QED BY <1>1, <1>2, <1>4, <2>2, <2>3, <2>4, <2>5, StreamStep
<1>5. ASSUME NEW channel \in Channels, SubscribeToEvents(r, channel) PROVE LogIInv'
  BY <1>4, <1>5 DEF SubscribeToEvents
<1>6. ASSUME NEW channel \in Channels, NEW option \in Options, SubscribeToEventsStore(r, channel, option)
      PROVE  LogIInv'
  <2>1. sub[r].state = "none" /\ r \in StoreReaders /\ Open(r, option) /\ (option.type = 5 => option.value <= clock)
    BY <1>6 DEF SubscribeToEventsStore, Unsubscribed
  <2>2. seen[r] = <<>> /\ wire[r] = <<>> BY <1>0, <2>1 DEF StreamInv
  <2>3. HandedOver(option, seen[r], log) BY <2>2 DEF HandedOver
  <2> QED BY <1>4, <2>1, <2>2, <2>3
<1>7. ASSUME Resubscribe(r) PROVE LogIInv'
  <2>1. sub[r].state = "broken" /\ Open(r, sub[r].option) BY <1>7 DEF Resubscribe
  <2>2. r \in StoreReaders => /\ wire[r] = <<>> /\ HandedOver(sub[r].option, seen[r], log)
                              /\ sub[r].option.type = 5 => sub[r].option.value <= clock
    BY <1>0, <2>1 DEF StreamInv, TimeInv
  <2> QED BY <1>1, <1>4, <2>1, <2>2
<1>8. ASSUME NEW becomes \in {"broken", "done"}, UNCHANGED <<clientClosed, clock, log, next, publisherVars, seen>>,
             breaks' \in Nat, sub' = [sub EXCEPT ![r].state = becomes], wire' = [wire EXCEPT ![r] = <<>>]
      PROVE  LogIInv'
  <2>1. sub' = [sub EXCEPT ![r] = [state |-> becomes, option |-> sub[r].option]] BY <1>3, <1>8, Zenon
  <2>2. r \in StoreReaders => /\ HandedOver(sub[r].option, seen[r], log)
                              /\ sub[r].option.type = 5 => sub[r].option.value <= clock
    BY <1>0 DEF StreamInv, TimeInv
  <2>3. <<>> \in Seq(OnWire) /\ becomes # "open" /\ becomes \in {"open", "broken", "done"} BY <1>8
  <2>4. /\ UNCHANGED <<clientClosed, clock, log, publisherVars>> /\ wire' = [wire EXCEPT ![r] = <<>>]
        /\ next' = [next EXCEPT ![r] = next[r]] /\ seen' = [seen EXCEPT ![r] = seen[r]]
    BY <1>2, <1>8
  <2> QED BY <1>1, <1>8, <2>1, <2>2, <2>3, <2>4, StreamStep, Zenon
<1>9. ASSUME StreamBreaks(r) \/ Cancel(r) PROVE LogIInv'
  <2>1. CASE StreamBreaks(r) BY <1>1, <1>8, <2>1 DEF StreamBreaks
  <2>2. CASE Cancel(r) BY <1>1, <1>8, <2>2 DEF Cancel
  <2> QED BY <1>9, <2>1, <2>2
<1>10. ASSUME Deliver(r) PROVE LogIInv'
  <2> DEFINE e == log[next[r]]
             x == [EventID |-> e.EventID, Channel |-> e.Channel, Body |-> e.Body, Metadata |-> e.Metadata,
                   Tags |-> e.Tags, Timestamp |-> e.at, Sequence |-> next[r]]
  <2>1. /\ r \in StoreReaders /\ sub[r].state = "open" /\ next[r] \in DOMAIN log
        /\ wire' = [wire EXCEPT ![r] = Append(wire[r], x)] /\ next' = [next EXCEPT ![r] = next[r] + 1]
        /\ UNCHANGED <<clientClosed, clock, breaks, log, publisherVars, readerVars>>
    BY <1>10 DEF Deliver
  <2>2. e \in Stored BY <1>1, <2>1
  <2>3. x \in OnWire /\ x.Sequence = next[r] /\ Copy(log, next[r], x.EventID, x.Body)
    BY <1>1, <2>1, <2>2 DEF OnWire, Stored, Copy
  <2> HIDE DEF x
  <2>4. /\ HandedOver(sub[r].option, seen[r], log) /\ (sub[r].option.type = 5 => sub[r].option.value <= clock)
        /\ Continues(sub[r].option, seen[r], wire[r], next[r], log)
    BY <1>0, <2>1 DEF StreamInv, TimeInv
  <2>5. Continues(sub[r].option, seen[r], Append(wire[r], x), next[r] + 1, log)
    BY <1>1, <2>3, <2>4, DeliveredNext
  <2>6. Append(wire[r], x) \in Seq(OnWire) /\ next[r] + 1 \in Nat BY <1>1, <2>3
  <2>7. UNCHANGED <<sub, seen>> BY <2>1 DEF readerVars
  <2> QED BY <1>1, <1>2, <2>1, <2>4, <2>5, <2>6, <2>7, StreamStep
<1>11. ASSUME Read(r) PROVE LogIInv'
  <2> DEFINE e == IF r \in StoreReaders THEN EventStoreReceiveFromProto(Head(wire[r]))
                  ELSE EventReceiveFromProto(Head(wire[r]))
             t == [seen[r] EXCEPT ![Len(seen[r])] = Append(@, e)]
  <2>1. /\ sub[r].state = "open" /\ wire[r] # <<>>
        /\ seen' = [seen EXCEPT ![r] = t] /\ wire' = [wire EXCEPT ![r] = Tail(wire[r])]
        /\ UNCHANGED <<clientClosed, clock, breaks, log, next, publisherVars, sub>>
    BY <1>0, <1>11 DEF Read, LogTypeOK
  <2>2. Head(wire[r]) \in OnWire /\ Tail(wire[r]) \in Seq(OnWire) BY <1>1, <2>1
  <2>3. e \in Received
    BY <2>2 DEF EventStoreReceiveFromProto, EventReceiveFromProto, OnWire, Received
  <2>4. t \in Seq(Seq(Received))
    <3> HIDE DEF e
    <3>1. CASE Len(seen[r]) = 0
      <4>1. seen[r] = <<>> /\ DOMAIN seen[r] = 1..0 BY <1>1, <3>1
      <4>2. DOMAIN t = 1..0 BY <4>1, Zenon
      <4>3. t = [i \in 1..0 |-> t[i]] BY <4>2, Zenon
      <4> HIDE DEF t
      <4>4. t \in [1..0 -> Seq(Received)] BY <4>3
      <4> QED BY <4>4
    <3>2. CASE Len(seen[r]) > 0
      <4>1. Append(seen[r][Len(seen[r])], e) \in Seq(Received) BY <1>1, <2>3, <3>2
      <4> QED BY <1>1, <3>2, <4>1
    <3> QED BY <1>1, <3>1, <3>2
  <2>5. ASSUME r \in StoreReaders
        PROVE  /\ HandedOver(sub[r].option, t, log) /\ Continues(sub[r].option, t, Tail(wire[r]), next[r], log)
               /\ sub[r].option.type = 5 => sub[r].option.value <= clock
    <3>1. HandedOver(sub[r].option, seen[r], log) /\ Continues(sub[r].option, seen[r], wire[r], next[r], log)
      BY <1>0, <2>1, <2>5 DEF StreamInv
    <3>2. e = EventStoreReceiveFromProto(Head(wire[r])) BY <2>5
    <3>3. HandedOver(sub[r].option, t, log) /\ Continues(sub[r].option, t, Tail(wire[r]), next[r], log)
      BY <1>1, <2>1, <2>5, <3>1, ReadNext
    <3> QED BY <1>0, <2>5, <3>3 DEF TimeInv
  <2> HIDE DEF t
  <2> QED BY <1>1, <1>2, <2>1, <2>2, <2>4, <2>5, StreamStep
<1> QED
  BY <1>5, <1>6, <1>7, <1>9, <1>10, <1>11 DEF Subscriber

\* The broker answers a unary call: Sent is TRUE for what joins the log.
LEMMA AnswerIInv == ASSUME LogConstants, LogIInv, Answer PROVE LogIInv'
<1>0. LogTypeOK /\ TimeInv /\ AnswerInv /\ call.at = "broker" BY DEF LogIInv, Answer
<1>1. call \in Calls /\ call.event \in Protos /\ call.op \in {"event", "store"}
  BY <1>0 DEF LogTypeOK, Calls, Idle
<1>2. PICK o \in Outcomes(call.event) :
        /\ call' = [call EXCEPT !.at = "answered", !.answer = o]
        /\ IF o.Sent THEN Publish(call.event) ELSE UNCHANGED <<log, wire>>
  BY DEF Answer
<1>3. o \in Answers /\ o.EventID = call.event.EventID
  BY <1>1, <1>2 DEF Outcomes, Answers, Protos
<1>4. /\ UNCHANGED <<clientClosed, clock, sent, breaks, result, stream, reports, next, readerVars>>
  BY DEF Answer
<1>5. /\ call' \in Calls /\ call'.op = call.op /\ call'.event = call.event
      /\ call'.at = "answered" /\ call'.answer = o
  BY <1>0, <1>1, <1>2, <1>3 DEF Calls
<1>6. CASE o.Sent
  <2>1. Publish(call.event) BY <1>2, <1>6
  <2>2. /\ log' \in Seq(Stored) /\ Grown(log, log', clock)
        /\ \A i \in DOMAIN log' : log'[i].at <= clock
        /\ \A i, j \in DOMAIN log' : i <= j => log'[i].at <= log'[j].at
        /\ call.event.Store => \E n \in DOMAIN log' : log'[n].EventID = call.event.EventID
        /\ wire' \in [Readers -> Seq(OnWire)] /\ \A r \in StoreReaders : wire'[r] = wire[r]
    BY <1>0, <1>1, <2>1, PublishGrows
  <2>3. AnswerInv' BY <1>0, <1>3, <1>5, <2>2 DEF AnswerInv
  <2> QED BY <1>0, <1>4, <1>5, <2>2, <2>3, GrowingStep DEF LogTypeOK
<1>7. CASE ~o.Sent
  <2>1. UNCHANGED <<log, wire>> BY <1>2, <1>7
  <2>2. AnswerInv' BY <1>0, <1>3, <1>5, <1>7 DEF AnswerInv
  <2>3. Grown(log, log', clock) BY <1>0, <2>1 DEF Grown, LogTypeOK
  <2> QED BY <1>0, <1>4, <1>5, <2>1, <2>2, <2>3, GrowingStep DEF LogTypeOK, TimeInv
<1> QED BY <1>6, <1>7

\* The same on a stream, where on_result hears of stored events.
LEMMA StreamAnswerIInv == ASSUME LogConstants, LogIInv, StreamAnswer PROVE LogIInv'
<1>0. LogTypeOK /\ TimeInv /\ stream # <<>> /\ stream' = Tail(stream)
  BY DEF LogIInv, StreamAnswer
<1> DEFINE e == Head(stream)
<1>1. e \in Protos /\ stream' \in Seq(Protos) BY <1>0 DEF LogTypeOK
<1>2. PICK o \in Outcomes(e) :
        /\ IF o.Sent THEN Publish(e) ELSE UNCHANGED <<log, wire>>
        /\ reports' = IF e.Store THEN reports \cup {EventStoreResultFromProto(o)} ELSE reports
  BY DEF StreamAnswer
<1> HIDE DEF e
<1>3. o \in Answers /\ o.EventID = e.EventID
  BY <1>1, <1>2 DEF Outcomes, Answers, Protos
<1>4. /\ UNCHANGED <<clientClosed, clock, sent, breaks, call, result, next, readerVars>>
  BY DEF StreamAnswer
<1> DEFINE x == EventStoreResultFromProto(o)
<1>5. x \in Results /\ x.sent = o.Sent /\ x.id = e.EventID
  BY <1>3 DEF EventStoreResultFromProto, Answers, Results
<1> HIDE DEF x
<1>6. reports' \subseteq Results /\ \A y \in reports' : y \in reports \/ (y = x /\ e.Store)
  BY <1>0, <1>2, <1>5 DEF LogTypeOK, x
<1>7. CASE o.Sent
  <2>1. Publish(e) BY <1>2, <1>7
  <2>2. /\ log' \in Seq(Stored) /\ Grown(log, log', clock)
        /\ \A i \in DOMAIN log' : log'[i].at <= clock
        /\ \A i, j \in DOMAIN log' : i <= j => log'[i].at <= log'[j].at
        /\ e.Store => \E n \in DOMAIN log' : log'[n].EventID = e.EventID
        /\ wire' \in [Readers -> Seq(OnWire)] /\ \A r \in StoreReaders : wire'[r] = wire[r]
    BY <1>0, <1>1, <2>1, PublishGrows
  <2>3. \A y \in reports' : y \in reports \/ (y.sent => \E n \in DOMAIN log' : log'[n].EventID = y.id)
    BY <1>5, <1>6, <2>2
  <2> QED BY <1>0, <1>1, <1>4, <1>6, <2>2, <2>3, GrowingStep DEF LogTypeOK
<1>8. CASE ~o.Sent
  <2>1. UNCHANGED <<log, wire>> BY <1>2, <1>8
  <2>2. Grown(log, log', clock) BY <1>0, <2>1 DEF Grown, LogTypeOK
  <2>3. \A y \in reports' : y \in reports \/ (y.sent => \E n \in DOMAIN log' : log'[n].EventID = y.id)
    BY <1>5, <1>6, <1>8
  <2> QED BY <1>0, <1>1, <1>4, <1>6, <2>1, <2>2, <2>3, GrowingStep DEF LogTypeOK, TimeInv
<1> QED BY <1>7, <1>8

\* The clock of the broker goes on.
LEMMA TickIInv == ASSUME LogConstants, LogIInv, Tick PROVE LogIInv'
<1>0. LogTypeOK /\ TimeInv /\ AnswerInv /\ StreamInv /\ ConfirmedIsStored
  BY DEF LogIInv
<1>1. /\ UNCHANGED <<clientClosed, breaks, log, next, wire, sent, call, result, stream, reports, sub, seen>>
      /\ clock' = clock + 1
  BY DEF Tick, publisherVars, readerVars
<1>2. LogTypeOK' BY <1>0, <1>1 DEF LogTypeOK
<1>3. TimeInv'
  <2>1. \A i \in DOMAIN log : log[i].at \in Nat
    <3>1. \A i \in DOMAIN log : log[i] \in Stored BY <1>0 DEF LogTypeOK
    <3> QED BY <3>1 DEF Stored
  <2>2. \A r \in StoreReaders : sub[r].option.value \in Int
    <3>1. \A r \in StoreReaders : sub[r].option \in StartOption BY ReaderTypes DEF LogConstants
    <3> QED BY <3>1 DEF StartOption
  <2>3. clock \in Nat BY <1>0 DEF LogTypeOK
  <2> QED BY <1>0, <1>1, <2>1, <2>2, <2>3 DEF TimeInv
<1>4. AnswerInv' BY <1>0, <1>1 DEF AnswerInv
<1>5. StreamInv' BY <1>0, <1>1 DEF StreamInv
<1>6. ConfirmedIsStored' BY <1>0, <1>1 DEF ConfirmedIsStored
<1> QED BY <1>2, <1>3, <1>4, <1>5, <1>6 DEF LogIInv

\* Every step preserves the invariant.
LEMMA LogSteps == ASSUME LogConstants, LogIInv, [LogNext]_logVars PROVE LogIInv'
<1>0. Settled(call, result, log) /\ clientClosed \in BOOLEAN /\ sent \in Nat /\ stream \in Seq(Protos)
  BY DEF Settled, LogIInv, LogTypeOK, AnswerInv, ConfirmedIsStored
<1>1. CASE Publisher
  BY <1>0, <1>1, PublisherSettles, QuietStep DEF LogIInv
<1>2. CASE \E r \in Readers : Subscriber(r)
  BY <1>2, SubscriberIInv
<1>3. CASE CloseClient
  <2>1. UNCHANGED <<brokerVars, readerVars, reports, sent, stream, call, result>> /\ clientClosed' \in BOOLEAN
    BY <1>3 DEF CloseClient, publisherVars
  <2>2. Settled(call', result', log) BY <1>0, <2>1 DEF Settled
  <2> QED BY <1>0, <2>1, <2>2, QuietStep
<1>4. CASE UNCHANGED logVars
  <2>1. UNCHANGED <<clientClosed, brokerVars, readerVars, reports, sent, stream, call, result>>
    BY <1>4 DEF logVars, brokerVars, readerVars
  <2>2. Settled(call', result', log) BY <1>0, <2>1 DEF Settled
  <2> QED BY <1>0, <2>1, <2>2, QuietStep
<1> QED BY <1>1, <1>2, <1>3, <1>4, AnswerIInv, StreamAnswerIInv, TickIInv DEF LogNext

\* The inductive invariant holds in every behaviour of publishers, subscriptions and the broker.
THEOREM LogInvariant == LogSpec => []LogIInv
<1>1. LogInit => LogIInv BY LogBegins, EventLogAssumption
<1>2. LogIInv /\ [LogNext]_logVars => LogIInv' BY LogSteps, EventLogAssumption
<1> QED BY <1>1, <1>2, PTL DEF LogSpec

\* What SendEventStore or on_result confirm is in the log.
THEOREM ConfirmedIsStoredAlways == LogSpec => []ConfirmedIsStored
<1>1. LogIInv => ConfirmedIsStored BY DEF LogIInv
<1> QED BY <1>1, LogInvariant, PTL

\* The invariant gives every part of ReplayIsExact.
LEMMA ReplayFromInv == ASSUME LogConstants, LogIInv PROVE ReplayIsExact
<1>0. LogTypeOK /\ StreamInv BY DEF LogIInv
<1>1. ASSUME NEW r \in StoreReaders, NEW k \in DOMAIN seen[r], NEW i \in DOMAIN seen[r][k]
      PROVE  LET b == seen[r][k][1].sequence
             IN  /\ 1 \in DOMAIN seen[r][k] /\ DOMAIN seen[r][k] = 1..Len(seen[r][k]) /\ Len(seen[r][k]) \in Nat
                 /\ b \in DOMAIN log /\ b \in Nat \ {0} /\ seen[r][k][i].sequence = b + i - 1
                 /\ BeginsAt(sub[r].option, b, log) /\ Follows(seen[r][k], b, log)
                 /\ Copy(log, seen[r][k][i].sequence, seen[r][k][i].id, seen[r][k][i].body)
  <2> DEFINE s == seen[r][k]
  <2>1. s \in Seq(Received) /\ log \in Seq(Stored) BY <1>0 DEF LogTypeOK, LogConstants
  <2> HIDE DEF s
  <2>2. s # <<>> /\ 1 \in DOMAIN s /\ DOMAIN s = 1..Len(s) /\ Len(s) \in Nat BY <1>1, <2>1 DEF s
  <2>3. BeginsAt(sub[r].option, s[1].sequence, log) /\ Follows(s, s[1].sequence, log)
    BY <1>0, <2>2 DEF StreamInv, HandedOver, s
  <2>4. Copy(log, s[1].sequence, s[1].id, s[1].body) BY <2>2, <2>3 DEF Follows
  <2>5. s[1].sequence \in DOMAIN log /\ s[1].sequence \in Nat \ {0} BY <2>1, <2>4 DEF Copy
  <2>6. s[i].sequence = s[1].sequence + i - 1 /\ Copy(log, s[i].sequence, s[i].id, s[i].body)
    BY <1>1, <2>3 DEF Follows, s
  <2> QED BY <2>2, <2>3, <2>5, <2>6 DEF s
<1>2. StreamsFollowTheLog
  <2> SUFFICES ASSUME NEW r \in StoreReaders, NEW k \in DOMAIN seen[r], NEW i \in DOMAIN seen[r][k]
               PROVE  LET e == seen[r][k][i]
                      IN  /\ e.sequence \in DOMAIN log
                          /\ e.id = log[e.sequence].EventID /\ e.body = log[e.sequence].Body
                          /\ i > 1 => e.sequence = seen[r][k][i - 1].sequence + 1
    BY Zenon DEF StreamsFollowTheLog
  <2>1. ASSUME i > 1 PROVE seen[r][k][i].sequence = seen[r][k][i - 1].sequence + 1
    <3>1. i - 1 \in DOMAIN seen[r][k] BY <1>1, <2>1
    <3>2. seen[r][k][i - 1].sequence = seen[r][k][1].sequence + (i - 1) - 1 BY <1>1, <3>1
    <3> QED BY <1>1, <2>1, <3>2
  <2> QED BY <1>1, <2>1 DEF Copy
<1>3. \A r \in StoreReaders : \A n :
        n \in Seen(r) <=> \E k \in DOMAIN seen[r] : \E i \in DOMAIN seen[r][k] : n = seen[r][k][i].sequence
  <2> SUFFICES ASSUME NEW r \in StoreReaders, NEW n
               PROVE  n \in Seen(r) <=>
                        \E k \in DOMAIN seen[r] : \E i \in DOMAIN seen[r][k] : n = seen[r][k][i].sequence
    OBVIOUS
  <2>1. \A k \in DOMAIN seen[r] :
          n \in ToSet(Numbers(seen[r][k])) <=> \E i \in DOMAIN seen[r][k] : n = seen[r][k][i].sequence
    BY DEF Numbers, ToSet
  <2>2. n \in Seen(r) <=> \E k \in DOMAIN seen[r] : n \in ToSet(Numbers(seen[r][k]))
    BY Zenon DEF Seen, Streams
  <2> QED BY <2>1, <2>2, Zenon
<1>4. \A r \in StoreReaders : sub[r].option \in StartOption
  BY ReaderTypes DEF LogConstants
<1>5. ReplayHasNoGaps
  <2> SUFFICES ASSUME NEW r \in StoreReaders, sub[r].option.type \in {2, 4}, NEW n \in Seen(r),
                      NEW m \in 1..n, m >= sub[r].option.value
               PROVE  m \in Seen(r)
    BY DEF ReplayHasNoGaps
  <2>0. PICK k \in DOMAIN seen[r] : \E i \in DOMAIN seen[r][k] : n = seen[r][k][i].sequence
    BY <1>3
  <2>1. PICK i \in DOMAIN seen[r][k] : n = seen[r][k][i].sequence BY <2>0, Zenon
  <2> DEFINE b == seen[r][k][1].sequence
             j == m - b + 1
  <2>2. /\ b \in Nat \ {0} /\ n = b + i - 1 /\ i \in Nat /\ BeginsAt(sub[r].option, b, log)
        /\ DOMAIN seen[r][k] = 1..Len(seen[r][k]) /\ Len(seen[r][k]) \in Nat
    BY <1>1, <2>1
  <2> HIDE DEF b
  <2>3. b <= m BY <1>4, <2>2 DEF BeginsAt, StartOption
  <2>4. j \in DOMAIN seen[r][k] BY <2>1, <2>2, <2>3
  <2>5. seen[r][k][j].sequence = b + j - 1 BY <1>1, <2>4 DEF b
  <2>6. m = seen[r][k][j].sequence BY <2>2, <2>3, <2>5
  <2> HIDE DEF j
  <2> QED BY <1>3, <2>4, <2>6
<1>6. NothingBeforeStart
  <2> SUFFICES ASSUME NEW r \in StoreReaders, NEW n \in Seen(r)
               PROVE  /\ sub[r].option.type = 4 => n >= sub[r].option.value
                      /\ sub[r].option.type = 5 => log[n].at >= sub[r].option.value
    BY DEF NothingBeforeStart
  <2>1. PICK k \in DOMAIN seen[r] : \E i \in DOMAIN seen[r][k] : n = seen[r][k][i].sequence
    BY <1>3
  <2>2. PICK i \in DOMAIN seen[r][k] : n = seen[r][k][i].sequence BY <2>1, Zenon
  <2> DEFINE b == seen[r][k][1].sequence
  <2>3. /\ b \in Nat \ {0} /\ n = b + i - 1 /\ i \in 1..Len(seen[r][k]) /\ Len(seen[r][k]) \in Nat
        /\ BeginsAt(sub[r].option, b, log) /\ n \in DOMAIN log
    BY <1>1, <2>2 DEF Copy
  <2> HIDE DEF b
  <2>4. n >= b BY <2>3
  <2> QED BY <1>4, <2>3, <2>4 DEF BeginsAt, StartOption
<1> QED BY <1>2, <1>5, <1>6 DEF ReplayIsExact

\* A subscription to stored events is handed the log, over any number of reconnections.
THEOREM ReplayIsExactAlways == LogSpec => []ReplayIsExact
<1>1. LogIInv => ReplayIsExact BY ReplayFromInv, EventLogAssumption
<1> QED BY <1>1, LogInvariant, PTL

=============================================================================
