------------------------ MODULE SubscriptionLifecycle ------------------------
(***************************************************************************)
(* What a subscription promises its user, with no stream, context, thread  *)
(* or lock in sight: it delivers messages one at a time while it runs, it  *)
(* stops only after it was cancelled and never in the middle of a          *)
(* delivery, and its memory is released only after it has stopped.         *)
(***************************************************************************)

VARIABLES
  phase,      \* "none", "running", "stopped", "freed"
  cancelled,  \* the user asked for the end
  delivering  \* on_event is running

lifecycleVars == <<phase, cancelled, delivering>>

LifecycleInit ==
  /\ phase = "none"
  /\ cancelled = FALSE
  /\ delivering = FALSE

Start ==
  /\ phase = "none"
  /\ phase' = "running"
  /\ UNCHANGED <<cancelled, delivering>>

RequestEnd ==
  /\ phase \in {"running", "stopped"}
  /\ cancelled' = TRUE
  /\ UNCHANGED <<phase, delivering>>

BeginDelivery ==
  /\ phase = "running"
  /\ ~delivering
  /\ delivering' = TRUE
  /\ UNCHANGED <<phase, cancelled>>

EndDelivery ==
  /\ delivering
  /\ delivering' = FALSE
  /\ UNCHANGED <<phase, cancelled>>

Stop ==
  /\ phase = "running"
  /\ cancelled
  /\ ~delivering
  /\ phase' = "stopped"
  /\ UNCHANGED <<cancelled, delivering>>

Release ==
  /\ phase = "stopped"
  /\ phase' = "freed"
  /\ UNCHANGED <<cancelled, delivering>>

LifecycleNext ==
  \/ Start \/ RequestEnd \/ BeginDelivery \/ EndDelivery \/ Stop \/ Release

LifecycleSpec == LifecycleInit /\ [][LifecycleNext]_lifecycleVars
=============================================================================
