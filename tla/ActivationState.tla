-------------------------- MODULE ActivationState --------------------------
(***************************************************************************)
(* The lifecycle of one grain activation: the states, the events and the   *)
(* total transition function of orlando-core/src/activation_state.rs.      *)
(* Every mailbox loop of the repository is driven by this machine.         *)
(***************************************************************************)

ActivationStates ==
    {"Activating", "Idle", "Processing", "Persisting", "Draining",
     "Deactivating", "Faulted", "Closed"}

ActivationEvents ==
    {"ActivateSucceeded", "ActivateFailed", "MessageReceived",
     "HandlerCompleted", "PersistStarted", "HandlerPanicked",
     "PersistSucceeded", "PersistFailed", "ChannelClosed", "IdleTimeout",
     "DrainComplete", "DeactivateComplete"}

(* ActivationState::next.  The pairs that are not listed keep the state.   *)
NextState(s, e) ==
    CASE s = "Activating"   /\ e = "ActivateSucceeded"  -> "Idle"
      [] s = "Activating"   /\ e = "ActivateFailed"     -> "Faulted"
      [] s = "Idle"         /\ e = "MessageReceived"    -> "Processing"
      [] s = "Idle"         /\ e = "ChannelClosed"      -> "Draining"
      [] s = "Idle"         /\ e = "IdleTimeout"        -> "Draining"
      [] s = "Processing"   /\ e = "HandlerCompleted"   -> "Idle"
      [] s = "Processing"   /\ e = "PersistStarted"     -> "Persisting"
      [] s = "Processing"   /\ e = "HandlerPanicked"    -> "Faulted"
      [] s = "Persisting"   /\ e = "PersistSucceeded"   -> "Idle"
      [] s = "Persisting"   /\ e = "PersistFailed"      -> "Faulted"
      [] s = "Draining"     /\ e = "DrainComplete"      -> "Deactivating"
      [] s = "Deactivating" /\ e = "DeactivateComplete" -> "Closed"
      [] s = "Faulted"      /\ e = "DeactivateComplete" -> "Closed"
      [] OTHER -> s
=============================================================================
