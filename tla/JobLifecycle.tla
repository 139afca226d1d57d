----------------------------- MODULE JobLifecycle -----------------------------
(***************************************************************************)
(* What a client of the generation queue is promised about one AI job,     *)
(* whatever workers, leases and restarts do behind the API: a job is       *)
(* queued, taken up, and ends exactly once; its conveyor writes into the   *)
(* project store at most once; it succeeds only with what was written; it  *)
(* is cancelled only on request.                                           *)
(*                                                                         *)
(* A publication may land at any time after the job was taken up, even     *)
(* after the job ended: the write is not tied to the claim (see Conveyor). *)
(***************************************************************************)
EXTENDS Naturals, Sequences

CONSTANTS Jobs,      \* ids of ai_jobs rows
          Projects,  \* what a job can publish
          None       \* no project

VARIABLES status,  \* status[j]: the status column clients poll
          asked,   \* the jobs somebody asked to cancel
          landed,  \* landed[j]: what the job wrote into the project store
          result   \* result[j]: the project a succeeded job reports

vars == <<status, asked, landed, result>>

Terminal == {"succeeded", "failed", "cancelled"}

Init ==
    /\ status = [j \in Jobs |-> "absent"]
    /\ asked = {}
    /\ landed = [j \in Jobs |-> <<>>]
    /\ result = [j \in Jobs |-> None]

Queue(j) ==
    /\ status[j] = "absent"
    /\ status' = [status EXCEPT ![j] = "queued"]
    /\ UNCHANGED <<asked, landed, result>>

Take(j) ==
    /\ status[j] = "queued"
    /\ status' = [status EXCEPT ![j] = "running"]
    /\ UNCHANGED <<asked, landed, result>>

Ask(j) ==
    /\ status[j] \in {"queued", "running"}
    /\ asked' = asked \cup {j}
    /\ UNCHANGED <<status, landed, result>>

Land(j, p) ==
    /\ status[j] \notin {"absent", "queued"}
    /\ landed[j] = <<>>
    /\ landed' = [landed EXCEPT ![j] = <<p>>]
    /\ UNCHANGED <<status, asked, result>>

Succeed(j) ==
    /\ status[j] = "running"
    /\ landed[j] # <<>>
    /\ status' = [status EXCEPT ![j] = "succeeded"]
    /\ result' = [result EXCEPT ![j] = landed[j][1]]
    /\ UNCHANGED <<asked, landed>>

Fail(j) ==
    /\ status[j] = "running"
    /\ status' = [status EXCEPT ![j] = "failed"]
    /\ UNCHANGED <<asked, landed, result>>

Cancel(j) ==
    /\ status[j] = "running"
    /\ j \in asked
    /\ status' = [status EXCEPT ![j] = "cancelled"]
    /\ UNCHANGED <<asked, landed, result>>

Next ==
    \E j \in Jobs :
        \/ Queue(j)
        \/ Take(j)
        \/ Ask(j)
        \/ \E p \in Projects : Land(j, p)
        \/ Succeed(j)
        \/ Fail(j)
        \/ Cancel(j)

Spec == Init /\ [][Next]_vars
===============================================================================
