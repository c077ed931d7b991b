-------------------------- MODULE GenerationPromise --------------------------
(***************************************************************************)
(* What the backend promises about one generation, with no queue, worker,  *)
(* request or crash in sight: the document shows only statuses something   *)
(* has justified, a deleted generation stays deleted, the external API     *)
(* runs it a bounded number of times, and never again once it was stopped. *)
(***************************************************************************)
EXTENDS Naturals

CONSTANTS Gens, Status, Budget

VARIABLES
    doc,       \* a status, "none" or "deleted"
    evidence,  \* the statuses that have been justified
    runs,      \* how often the external API accepted the generation
    stopped    \* its job was taken out of the queue

vars == <<doc, evidence, runs, stopped>>

Init ==
    /\ doc = [g \in Gens |-> "none"]
    /\ evidence = [g \in Gens |-> {"pending"}]
    /\ runs = [g \in Gens |-> 0]
    /\ stopped = [g \in Gens |-> FALSE]

Submit(g) ==
    /\ doc[g] = "none"
    /\ doc' = [doc EXCEPT ![g] = "pending"]
    /\ UNCHANGED <<evidence, runs, stopped>>

Justify(g, s) == evidence' = [evidence EXCEPT ![g] = @ \cup {s}]

\* A report arrives, and may be shown later, or never.
Learn(g, s) ==
    /\ doc[g] # "none"
    /\ Justify(g, s)
    /\ UNCHANGED <<doc, runs, stopped>>

Show(g, s) ==
    /\ doc[g] \in Status
    /\ s \in evidence[g]
    /\ doc' = [doc EXCEPT ![g] = s]
    /\ UNCHANGED <<evidence, runs, stopped>>

\* An administrator's word is its own justification.
Dictate(g, s) ==
    /\ doc[g] \in Status
    /\ doc' = [doc EXCEPT ![g] = s]
    /\ Justify(g, s)
    /\ UNCHANGED <<runs, stopped>>

\* The API may take a record and the backend learn only that the trigger failed.
Run(g) ==
    /\ ~stopped[g]
    /\ runs[g] < Budget
    /\ runs' = [runs EXCEPT ![g] = @ + 1]
    /\ evidence' = evidence \/ \E s \in Status : Justify(g, s)
    /\ UNCHANGED <<doc, stopped>>

Stop(g) ==
    /\ stopped' = [stopped EXCEPT ![g] = TRUE]
    /\ UNCHANGED <<doc, evidence, runs>>

Delete(g) ==
    /\ doc[g] \in Status
    /\ doc' = [doc EXCEPT ![g] = "deleted"]
    /\ UNCHANGED <<evidence, runs, stopped>>

Next ==
    \E g \in Gens :
        \/ \E s \in Status : Learn(g, s)
        \/ \E s \in Status : Show(g, s) \/ Dictate(g, s)
        \/ Submit(g) \/ Run(g) \/ Stop(g) \/ Delete(g)

Spec == Init /\ [][Next]_vars
=============================================================================
