------------------------------ MODULE JobQueue ------------------------------
(***************************************************************************)
(* What the connector_jobs queue promises to the portal: a submitted job   *)
(* is handed out at most once, is run at most once by whoever got it, and   *)
(* the verdict the portal reads is the outcome of that run.  It promises    *)
(* nothing about jobs being finished: JobDelivery shows when they are.      *)
(***************************************************************************)

CONSTANT Jobs

VARIABLES
    phase,      \* phase[j]: how far the job's row has come
    outcome,    \* outcome[j]: what running the job produced, "none" before
    verdict     \* verdict[j]: what the portal shows for it, "none" before

vars == <<phase, outcome, verdict>>

Outcomes == {"ok", "fail"}

TypeOK ==
    /\ phase \in [Jobs -> {"new", "queued", "taken", "recorded"}]
    /\ outcome \in [Jobs -> Outcomes \union {"none"}]
    /\ verdict \in [Jobs -> Outcomes \union {"none"}]

Init ==
    /\ phase = [j \in Jobs |-> "new"]
    /\ outcome = [j \in Jobs |-> "none"]
    /\ verdict = [j \in Jobs |-> "none"]

Submit(j) ==
    /\ phase[j] = "new"
    /\ phase' = [phase EXCEPT ![j] = "queued"]
    /\ UNCHANGED <<outcome, verdict>>

Take(j) ==
    /\ phase[j] = "queued"
    /\ phase' = [phase EXCEPT ![j] = "taken"]
    /\ UNCHANGED <<outcome, verdict>>

Run(j) ==
    /\ phase[j] = "taken"
    /\ outcome[j] = "none"
    /\ \E r \in Outcomes : outcome' = [outcome EXCEPT ![j] = r]
    /\ UNCHANGED <<phase, verdict>>

Record(j) ==
    /\ phase[j] = "taken"
    /\ outcome[j] # "none"
    /\ phase' = [phase EXCEPT ![j] = "recorded"]
    /\ verdict' = [verdict EXCEPT ![j] = outcome[j]]
    /\ UNCHANGED outcome

Next == \E j \in Jobs : Submit(j) \/ Take(j) \/ Run(j) \/ Record(j)

Spec == Init /\ [][Next]_vars
=============================================================================
