---------------------------- MODULE JobLifecycle ----------------------------
(***************************************************************************)
(* What the rest of the system may assume of a job: the statuses it goes   *)
(* through and the one future it may be waiting for.  It is an abstraction *)
(* of Job.set_status and of its callers; JobStep implements it.            *)
(***************************************************************************)

VARIABLES phase,     \* the job's status
          waiting    \* is a future recorded in awaited_result?

lifecycle == <<phase, waiting>>

Init == phase = "READY" /\ waiting = FALSE

(* A scheduled job runs its next warmup block, or is past its warmup.      *)
Warm == ~waiting /\ phase = "READY" /\ phase' = "WARMING_UP" /\ UNCHANGED waiting
Start == ~waiting /\ phase \in {"READY", "WARMING_UP"} /\ phase' = "STARTED" /\ UNCHANGED waiting

(* A warmup block waits without leaving WARMING_UP.                        *)
Wait ==
    /\ ~waiting /\ waiting' = TRUE
    /\ \/ phase = "STARTED" /\ phase' = "SUSPENDED"
       \/ phase = "WARMING_UP" /\ UNCHANGED phase

Resume ==
    /\ waiting /\ waiting' = FALSE
    /\ \/ phase = "SUSPENDED" /\ phase' = "STARTED"
       \/ phase = "WARMING_UP" /\ UNCHANGED phase

(* Completion or failure: never of a job that waits.                       *)
End ==
    /\ ~waiting /\ phase \in {"READY", "WARMING_UP", "STARTED"}
    /\ phase' = "DONE" /\ UNCHANGED waiting

(* A message or a notification restarts a finished job past its warmup.    *)
Reopen == phase = "DONE" /\ phase' = "STARTED" /\ UNCHANGED waiting

Next == Warm \/ Start \/ Wait \/ Resume \/ End \/ Reopen

Spec == Init /\ [][Next]_lifecycle
=============================================================================
