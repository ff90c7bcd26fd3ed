------------------------------- MODULE MCLive -------------------------------
(* Finite instances of the two components whose progress is checked: a     *)
(* behaviour is one of a single part, the variables of the other rest.     *)
EXTENDS SubscriberPolling, ManualTrigger

VARIABLE part

Init ==
    /\ part \in {"polling", "trigger"}
    /\ PollInit
    /\ TriggerInit /\ (part = "polling" => procfs)

Next ==
    /\ UNCHANGED part
    /\ \/ part = "polling" /\ PollNext /\ UNCHANGED triggerVars
       \/ part = "trigger" /\ TriggerNext /\ UNCHANGED pollVars

Spec ==
    /\ Init /\ [][Next]_<<part, pollVars, triggerVars>>
    /\ part = "polling" => PollFairness
    /\ part = "trigger" => TriggerFairness
=============================================================================
