------------------------------ MODULE JobLife ------------------------------
(***************************************************************************)
(* What a background job promises to the dialog that started it (comments  *)
(* of backupCmd in backup.go and of wait in jobs.go): it is over once and  *)
(* for all, and nothing is left of a dump that failed or was cancelled.    *)
(***************************************************************************)
CONSTANT Jobs

VARIABLES
    life,       \* job -> "none", "active", or how it ended
    stored      \* jobs of which the storage directory holds some output

vars == <<life, stored>>

Outcomes == {"done", "failed", "cancelled"}

TypeOK ==
    /\ life \in [Jobs -> {"none", "active"} \cup Outcomes]
    /\ stored \in SUBSET Jobs

Init ==
    /\ life = [j \in Jobs |-> "none"]
    /\ stored = {}

Begin(j) ==
    /\ life[j] = "none"
    /\ life' = [life EXCEPT ![j] = "active"]
    /\ UNCHANGED stored

\* The user deletes the files of jobs, another job overwrites them.
Vanish(gone) ==
    /\ stored' = stored \ gone
    /\ UNCHANGED life

Write(j, gone) ==
    /\ life[j] = "active"
    /\ stored' = (stored \ gone) \cup {j}
    /\ UNCHANGED life

\* The output of a job that does not succeed goes at the latest now.
End(j, outcome, gone) ==
    /\ life[j] = "active"
    /\ outcome # "done" => j \notin stored \ gone
    /\ life' = [life EXCEPT ![j] = outcome]
    /\ stored' = stored \ gone

Next ==
    \/ \E gone \in SUBSET Jobs : Vanish(gone)
    \/ \E j \in Jobs :
         \/ Begin(j)
         \/ \E gone \in SUBSET Jobs :
              \/ Write(j, gone)
              \/ \E outcome \in Outcomes : End(j, outcome, gone)

Spec == Init /\ [][Next]_vars
=============================================================================
