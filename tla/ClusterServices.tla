-------------------------- MODULE ClusterServices ---------------------------
(***************************************************************************)
(* Two services of a cluster that share no state: the routing of calls, and  *)
(* the reminders of a silo.  A behaviour is watched at one of them.          *)
(***************************************************************************)
EXTENDS CallPath, Reminders

VARIABLE service

AnyMix == CHOOSE mix \in Mixes : TRUE

ServicesInit ==
    /\ service \in {"calls", "reminders"}
    /\ CallPathInit /\ RemindersInit
    /\ service = "reminders" =>
        notified = {} /\ placement = AnyMix.placement /\ call[1].kind = AnyMix.calls[1]

ServicesNext ==
    \/ service = "calls" /\ CallPathNext /\ UNCHANGED <<service, svars>>
    \/ service = "reminders" /\ RemindersNext /\ UNCHANGED <<service, cvars>>

ServicesSpec ==
    /\ ServicesInit /\ [][ServicesNext]_<<service, cvars, svars>>
    /\ \A c \in Calls : WF_cvars(service = "calls" /\ CallStep(c))
    /\ \A a \in Attempts : WF_cvars(service = "calls" /\ ServeStep(a))
    /\ WF_svars(service = "reminders" /\ TimePasses)
    /\ WF_svars(service = "reminders" /\ PollStep)
=============================================================================
