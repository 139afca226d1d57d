------------------------------- MODULE Conveyor -------------------------------
(***************************************************************************)
(* The generation queue and the agent conveyor: rows of ai_jobs, the       *)
(* workers that claim them, the stages a claim walks through, and the      *)
(* idempotent write that publishes the finished game                       *)
(* (backend/internal/agents: store.go, worker.go, pipeline.go).            *)
(*                                                                         *)
(* One action is one statement sent to the database, one answer of the     *)
(* model provider, or one fault.  Between any two of them another worker,  *)
(* the user or the clock may act.  What the agents write is abstracted to  *)
(* the verdicts that steer the conveyor.                                   *)
(***************************************************************************)
EXTENDS Naturals, Sequences, FiniteSets

CONSTANTS Jobs,             \* ids of jobs that may be queued
          Workers,          \* worker goroutines, of one process or of several
          None,             \* no job, no project
          MaxRepairs,       \* Pipeline.MaxRepairs: extra rounds of the repair loop
          MaxInterruptions  \* bound: runs cut short and leases overrun, in total

ASSUME JobsAssumption == IsFiniteSet(Jobs) /\ None \notin Jobs
ASSUME RepairsAssumption == MaxRepairs \in Nat
ASSUME InterruptionsAssumption == MaxInterruptions \in Nat

VARIABLES row,            \* row[j]: the ai_jobs row
          run,            \* run[w]: the claim worker w holds and where it is
          keys,           \* idempotency rows of the project store, by job key
          published,      \* published[j]: projects or revisions committed for j
          early,          \* history: jobs cancelled while no run was past drafting
          interruptions   \* how much of MaxInterruptions is spent

vars == <<row, run, keys, published, early, interruptions>>
-------------------------------------------------------------------------------
\* Every claim of a job but the first follows an interruption or an overrun lease.
MaxClaims == MaxInterruptions + 1

Kinds == {"create_game", "improve_game"}
Terminal == {"succeeded", "failed", "cancelled"}
Statuses == {"absent", "queued", "running"} \cup Terminal

\* Losing the answer of one of these agents is not an error of the run.
LenientEverywhere ==
    {"architect", "game_designer", "developer", "tester", "reviewer", "auditor"}
Lenient == {"tester", "reviewer", "auditor"}
Agents == {"architect", "game_designer", "developer"} \cup {"tester", "reviewer", "auditor"}
Stages == {"open", "compiler", "publishing"} \cup Agents

\* What a run does next: a database statement, a provider call, or nothing.
PCs == {"idle", "open", "check", "mark", "number", "append", "call", "screen",
        "publish", "remember", "finish"}

\* How execute() ended; a publication that met its own key under another hash
\* is told apart from the other failures.
Outcomes == {"succeeded", "failed", "cancelled", "conflict"}
StatusOf(outcome) == IF outcome = "conflict" THEN "failed" ELSE outcome

\* A project is named by the job it belongs to and the claim that compiled it:
\* every claim of a create_game job compiles under a new id, and claim 0 names
\* the project an improve_game job was queued for.
Projects == [job : Jobs, claim : 0 .. MaxClaims]

ASSUME NoneAssumption == None \notin Projects

Idle == [job |-> None, claim |-> 0, stage |-> "open", pc |-> "idle",
         iteration |-> 1, lighter |-> FALSE, clash |-> FALSE, saw |-> FALSE,
         project |-> None, outcome |-> "failed"]

Runs == [job : Jobs \cup {None}, claim : 0 .. MaxClaims, stage : Stages, pc : PCs,
         iteration : 1 .. (MaxRepairs + 1), lighter : BOOLEAN, clash : BOOLEAN,
         saw : BOOLEAN, project : Projects \cup {None}, outcome : Outcomes]

Rows == [status : Statuses, stage : {"queued", "done"} \cup Stages, kind : Kinds,
         runner : 0 .. MaxClaims, leased : BOOLEAN, cancel : BOOLEAN, born : Nat,
         project : Projects \cup {None}, ending : Outcomes \cup {"none"}]

Absent == [status |-> "absent", stage |-> "queued", kind |-> "create_game",
           runner |-> 0, leased |-> FALSE, cancel |-> FALSE, born |-> 0,
           project |-> None, ending |-> "none"]

Init ==
    /\ row = [j \in Jobs |-> Absent]
    /\ run = [w \in Workers |-> Idle]
    /\ keys = {}
    /\ published = [j \in Jobs |-> <<>>]
    /\ early = {}
    /\ interruptions = 0
-------------------------------------------------------------------------------
(* The claim.  A runner id is a random uuid in the row; the number of times *)
(* the job was claimed names the claim just as uniquely.                    *)

\* Mutants of Owns and Claimable.
OwnsUnguarded(w) == row[run[w].job].status # "absent"
ClaimableOnce(j) == row[j].status = "queued"
ClaimableAnyway(j) == row[j].status # "absent" /\ ~row[j].leased

Owns(w) == row[run[w].job].runner = run[w].claim

Claimable(j) ==
    \/ row[j].status = "queued"
    \/ row[j].status = "running" /\ ~row[j].leased

\* The row of a job once it was claimed.
Taken(r) == [r EXCEPT !.status = "running", !.runner = r.runner + 1, !.leased = TRUE]

ClaimJob(w, j) ==
    /\ run[w].pc = "idle"
    /\ Claimable(j)
    /\ row[j].runner < MaxClaims
    /\ \A k \in Jobs : Claimable(k) => row[j].born <= row[k].born
    /\ row' = [row EXCEPT ![j] = Taken(row[j])]
    /\ run' = [run EXCEPT ![w] = [Idle EXCEPT !.job = j,
                                              !.claim = row[j].runner + 1,
                                              !.pc = "open"]]
    /\ UNCHANGED <<keys, published, early, interruptions>>
-------------------------------------------------------------------------------
(* Where a run goes next.                                                   *)

Following(s) ==
    CASE s = "open" -> "architect"
      [] s = "architect" -> "game_designer"
      [] s = "game_designer" -> "developer"
      [] s = "developer" -> "compiler"
      [] s = "compiler" -> "tester"
      [] s = "tester" -> "reviewer"
      [] s = "reviewer" -> "auditor"
      [] OTHER -> "publishing"

\* The compiler and the publication make no stage check of their own; the
\* auditor is preceded by the policy screen.
Entry(s) ==
    CASE s \in {"compiler", "publishing"} -> "mark"
      [] s = "auditor" -> "screen"
      [] OTHER -> "check"

Enter(r, s) == [r EXCEPT !.stage = s, !.pc = Entry(s)]

Closing(r, outcome) == [r EXCEPT !.pc = "finish", !.outcome = outcome]

\* Back to the developer with the defects, while attempts remain.
ReworkOnceMore(r) ==
    IF r.iteration <= MaxRepairs + 1
    THEN {[Enter(r, "developer") EXCEPT !.iteration = @ + 1, !.lighter = FALSE]}
    ELSE {}

Rework(r) ==
    IF r.iteration <= MaxRepairs
    THEN {[Enter(r, "developer") EXCEPT !.iteration = @ + 1, !.lighter = FALSE]}
    ELSE {}

\* The verdicts an answer can carry at each stage: go on, send the game back,
\* refuse it.
Verdicts(r) ==
    {Enter(r, Following(r.stage))}
      \cup (IF r.stage \in {"developer", "tester", "reviewer"} THEN Rework(r) ELSE {})
      \cup (IF r.stage \in {"compiler", "auditor"} THEN {Closing(r, "failed")} ELSE {})

\* What the run does about an error of a stage.  The tester, the reviewer and
\* the auditor go on without the answer whatever the error was.
AfterError(r, err) ==
    CASE r.stage \in Lenient -> Enter(r, Following(r.stage))
      [] r.stage \notin Lenient /\ err = "superseded" -> Idle
      [] r.stage \notin Lenient /\ err = "cancelled" -> Closing(r, "cancelled")
      [] r.stage = "developer" /\ err = "provider" /\ ~r.lighter ->
             [r EXCEPT !.lighter = TRUE, !.pc = "check"]
      [] r.stage = "developer" /\ err = "provider" /\ r.lighter ->
             Enter(r, "compiler")
      [] OTHER -> Closing(r, "failed")

Become(w, r) == run' = [run EXCEPT ![w] = r]
-------------------------------------------------------------------------------
(* The statements of one run.                                               *)

\* memory() and the user_prompt entry, before the first agent.
Open(w) ==
    /\ run[w].pc = "open"
    /\ \/ Become(w, Enter(run[w], "architect"))
       \/ Become(w, Closing(run[w], "failed"))
    /\ UNCHANGED <<row, keys, published, early, interruptions>>

\* checkCancel: renew the lease if the claim is still held, and read the flag.
HeartbeatLost(w) ==
    /\ run[w].pc = "check"
    /\ \/ ~Owns(w) /\ Become(w, AfterError(run[w], "superseded"))
       \/ Become(w, AfterError(run[w], "store"))
    /\ UNCHANGED <<row, keys, published, early, interruptions>>

Heartbeat(w) ==
    /\ run[w].pc = "check"
    /\ Owns(w)
    /\ row' = [row EXCEPT ![run[w].job].leased = TRUE]
    /\ Become(w, IF row[run[w].job].cancel
                 THEN [AfterError(run[w], "cancelled") EXCEPT !.saw = TRUE]
                 ELSE [run[w] EXCEPT !.pc = "mark"])
    /\ UNCHANGED <<keys, published, early, interruptions>>

SetStageLost(w) ==
    /\ run[w].pc = "mark"
    /\ \/ ~Owns(w) /\ Become(w, AfterError(run[w], "superseded"))
       \/ Become(w, AfterError(run[w], "store"))
    /\ UNCHANGED <<row, keys, published, early, interruptions>>

SetStage(w) ==
    /\ run[w].pc = "mark"
    /\ Owns(w)
    /\ row' = [row EXCEPT ![run[w].job].stage = run[w].stage]
    /\ Become(w, [run[w] EXCEPT !.pc = IF run[w].stage = "publishing"
                                       THEN "publish" ELSE "number"])
    /\ UNCHANGED <<keys, published, early, interruptions>>

\* StartStep is one INSERT ... SELECT max(seq)+1: it takes its snapshot here...
StartStep(w) ==
    /\ run[w].pc = "number"
    /\ Become(w, [run[w] EXCEPT !.pc = "append", !.clash = FALSE])
    /\ UNCHANGED <<row, keys, published, early, interruptions>>

\* ...and inserts here, unless another run of the job took the number meanwhile:
\* UNIQUE (job_id, seq).  It does not ask who holds the claim.
AppendStep(w) ==
    /\ run[w].pc = "append"
    /\ \/ /\ ~run[w].clash
          /\ run' = [v \in Workers |->
                       IF v = w THEN [run[w] EXCEPT !.pc = "call"]
                       ELSE IF run[v].job = run[w].job /\ run[v].pc = "append"
                       THEN [run[v] EXCEPT !.clash = TRUE]
                       ELSE run[v]]
       \/ /\ run[w].clash
          /\ Become(w, AfterError(run[w], "store"))
    /\ UNCHANGED <<row, keys, published, early, interruptions>>

\* The model answers (or the compiler compiles), FinishStep records it and the
\* stage files its context entry; each of the three can fail.
Answer(w) ==
    /\ run[w].pc = "call"
    /\ \/ \E r \in Verdicts(run[w]) : Become(w, r)
       \/ run[w].stage \in Agents /\ Become(w, AfterError(run[w], "provider"))
       \/ Become(w, AfterError(run[w], "store"))
       \/ Become(w, Closing(run[w], "failed"))
    /\ UNCHANGED <<row, keys, published, early, interruptions>>

\* The deterministic policy screen, before the auditor is asked.
PolicyScreen(w) ==
    /\ run[w].pc = "screen"
    /\ \/ Become(w, [run[w] EXCEPT !.pc = "check"])
       \/ Become(w, Closing(run[w], "failed"))
    /\ UNCHANGED <<row, keys, published, early, interruptions>>
-------------------------------------------------------------------------------
(* Publishing: one transaction of the project store, keyed by the job.  It  *)
(* does not ask who holds the claim.                                        *)

Compiled(w) ==
    [job |-> run[w].job,
     claim |-> IF row[run[w].job].kind = "improve_game" THEN 0 ELSE run[w].claim]

KeyPerClaim(w) == <<"job", run[w].job, run[w].claim>>
KeyOf(w) == <<"job", run[w].job>>

Stored(key) == {e \in keys : e.key = key}

Kept(r, project) == [r EXCEPT !.pc = "remember", !.project = project]

PublishErrorIgnored(r) == Closing(r, "succeeded")
PublishError(r) == Closing(r, "failed")

PublishNew(w) ==
    /\ run[w].pc = "publish"
    /\ Stored(KeyOf(w)) = {}
    /\ keys' = keys \cup {[key |-> KeyOf(w), hash |-> Compiled(w)]}
    /\ published' = [published EXCEPT ![run[w].job] = Append(@, Compiled(w))]
    /\ Become(w, Kept(run[w], Compiled(w)))
    /\ UNCHANGED <<row, early, interruptions>>

\* The key is known under the same hash: the stored response is replayed.
PublishReplay(w) ==
    /\ run[w].pc = "publish"
    /\ \E e \in Stored(KeyOf(w)) : e.hash = Compiled(w) /\ Become(w, Kept(run[w], e.hash))
    /\ UNCHANGED <<row, keys, published, early, interruptions>>

\* The key is known under another hash: ErrIdempotencyConflict.
PublishConflict(w) ==
    /\ run[w].pc = "publish"
    /\ \E e \in Stored(KeyOf(w)) : e.hash # Compiled(w)
    /\ Become(w, Closing(run[w], "conflict"))
    /\ UNCHANGED <<row, keys, published, early, interruptions>>

\* The project is gone, the document is refused, the database fails.
PublishFailed(w) ==
    /\ run[w].pc = "publish"
    /\ Become(w, PublishError(run[w]))
    /\ UNCHANGED <<row, keys, published, early, interruptions>>

\* saveProjectContext, after the publication is committed.
Remember(w) ==
    /\ run[w].pc = "remember"
    /\ \/ Become(w, Closing(run[w], "succeeded"))
       \/ Become(w, Closing(run[w], "failed"))
    /\ UNCHANGED <<row, keys, published, early, interruptions>>

\* The row of a job that one of its runs closed.
Ended(r, s) == [r EXCEPT !.status = StatusOf(s.outcome),
                         !.stage = "done",
                         !.leased = FALSE,
                         !.ending = s.outcome,
                         !.project = IF s.outcome = "succeeded"
                                     THEN s.project ELSE r.project]

FinishJob(w) ==
    /\ run[w].pc = "finish"
    /\ Become(w, Idle)
    /\ IF Owns(w)
       THEN row' = [row EXCEPT ![run[w].job] = Ended(row[run[w].job], run[w])]
       ELSE UNCHANGED row
    /\ UNCHANGED <<keys, published, early, interruptions>>
-------------------------------------------------------------------------------
(* The client, the clock and the faults.                                    *)

\* The row insertJob writes; JobAdmission models the checks in front of it.
Queued(j, kind) ==
    [Absent EXCEPT !.status = "queued",
                   !.kind = kind,
                   !.born = 1 + Cardinality({k \in Jobs : row[k].status # "absent"}),
                   !.project = IF kind = "improve_game"
                               THEN [job |-> j, claim |-> 0] ELSE None]

CreateJob(j, kind) ==
    /\ row[j].status = "absent"
    /\ row' = [row EXCEPT ![j] = Queued(j, kind)]
    /\ UNCHANGED <<run, keys, published, early, interruptions>>

\* A run with a stage check still ahead of it that stops the run.
Drafting(r) ==
    \/ r.stage \in {"open", "architect", "game_designer"}
    \/ r.stage = "developer" /\ r.pc = "check"

RequestCancel(j) ==
    /\ row[j].status \in {"queued", "running"}
    /\ row' = [row EXCEPT ![j].cancel = TRUE]
    /\ early' = IF \A w \in Workers : run[w].job = j => Drafting(run[w])
                THEN early \cup {j} ELSE early
    /\ UNCHANGED <<run, keys, published, interruptions>>

Live(j) == \E w \in Workers : run[w].job = j /\ Owns(w)

\* lease_expires_at passes.  Nobody is running the job any more...
LeaseLapses(j) ==
    /\ row[j].status = "running" /\ row[j].leased
    /\ ~Live(j)
    /\ row' = [row EXCEPT ![j].leased = FALSE]
    /\ UNCHANGED <<run, keys, published, early, interruptions>>

\* ...or the run is alive: its host slept, or one stage outlived the lease.
LeaseOverrun(j) ==
    /\ row[j].status = "running" /\ row[j].leased
    /\ Live(j)
    /\ interruptions < MaxInterruptions
    /\ interruptions' = interruptions + 1
    /\ row' = [row EXCEPT ![j].leased = FALSE]
    /\ UNCHANGED <<run, keys, published, early>>

\* The process dies or shuts down, the job times out, a step of a strict stage
\* times out, or the closing write is lost: the run is gone, the row is not told.
Interrupt(w) ==
    /\ run[w].pc # "idle"
    /\ interruptions < MaxInterruptions
    /\ interruptions' = interruptions + 1
    /\ Become(w, Idle)
    /\ UNCHANGED <<row, keys, published, early>>
-------------------------------------------------------------------------------
Publish(w) == PublishNew(w) \/ PublishReplay(w) \/ PublishConflict(w) \/ PublishFailed(w)

RunStep(w) ==
    \/ Open(w)
    \/ HeartbeatLost(w)
    \/ Heartbeat(w)
    \/ SetStageLost(w)
    \/ SetStage(w)
    \/ StartStep(w)
    \/ AppendStep(w)
    \/ Answer(w)
    \/ PolicyScreen(w)
    \/ Publish(w)
    \/ Remember(w)
    \/ FinishJob(w)

WorkerStep(w) == RunStep(w) \/ \E j \in Jobs : ClaimJob(w, j)

ClientStep(j) == (\E kind \in Kinds : CreateJob(j, kind)) \/ RequestCancel(j)

Next ==
    \/ \E w \in Workers : WorkerStep(w) \/ Interrupt(w)
    \/ \E j \in Jobs : ClientStep(j) \/ LeaseLapses(j) \/ LeaseOverrun(j)

Spec == Init /\ [][Next]_vars

\* A worker goroutine keeps running, and time passes for an abandoned lease.
\* Nothing obliges the client to act or the faults to happen.
Fairness ==
    /\ \A w \in Workers : WF_vars(WorkerStep(w))
    /\ \A j \in Jobs : WF_vars(LeaseLapses(j))

FairSpec == Spec /\ Fairness
-------------------------------------------------------------------------------
(* Properties.                                                              *)

\* The state space of the conveyor: rows, runs, keys and publications.
TypeOK ==
    /\ row \in [Jobs -> Rows]
    /\ run \in [Workers -> Runs]
    /\ keys \subseteq [key : {"job"} \X Jobs, hash : Projects]
    /\ published \in [Jobs -> Seq(Projects)]
    /\ early \subseteq Jobs
    /\ interruptions \in 0 .. MaxInterruptions

\* However often a job is claimed, interrupted and re-run, and however its
\* workers overlap, the project store receives at most one project or revision
\* for it (publish, pipeline.go, keyed by "job:" and the job id).
PublishedOnce == \A j \in Jobs : Len(published[j]) <= 1

\* A job that reports success reports the very project that was committed for
\* it, be it by this run or, replayed, by an earlier one (Run and publish).
SuccessIsPublished ==
    \A j \in Jobs : row[j].status = "succeeded" => published[j] = <<row[j].project>>

\* The stage a client polls is the stage of the run that holds the claim, while
\* that run is inside it, and "done" once the job ended: no worker that lost
\* the claim writes over it (SetStage).
StageShowsOwner ==
    /\ \A w \in Workers :
         run[w].pc \in {"number", "append", "call", "publish", "remember"} /\ Owns(w)
           => row[run[w].job].stage = run[w].stage
    /\ \A j \in Jobs : row[j].status \in Terminal => row[j].stage = "done"

\* The outcome of a job is written once: no late worker, claim or cancellation
\* touches the row of a job that ended (FinishJob, "its result stands").
OutcomeFinal ==
    [][\A j \in Jobs : row[j].status \in Terminal => row'[j] = row[j]]_vars

\* A cancellation that arrives while every run of the job still has a strict
\* stage check ahead of it keeps the job from publishing anything from then on,
\* even when the runs overlap or the job is claimed again (checkCancel).
EarlyCancelStops ==
    [][\A j \in Jobs : j \in early => published'[j] = published[j]]_vars

\* Every queued job ends, whatever fails, as long as runs are cut short only
\* finitely often (ClaimJob takes abandoned jobs over).
EveryJobEnds ==
    \A j \in Jobs : row[j].status = "queued" ~> row[j].status \in Terminal

\* The conveyor keeps the promises of JobLifecycle.
Lifecycle == INSTANCE JobLifecycle WITH
    status <- [j \in Jobs |-> row[j].status],
    asked <- {j \in Jobs : row[j].cancel},
    landed <- published,
    result <- [j \in Jobs |-> IF row[j].status = "succeeded" THEN row[j].project ELSE None]

\* Queue, take, publish once, end once: every step of the workers, of the
\* client and of the faults is a step of JobLifecycle or leaves it unchanged.
ImplementsLifecycle == Lifecycle!Init /\ [][Lifecycle!Next]_Lifecycle!vars

-------------------------------------------------------------------------------
(* The inductive invariant: what ties runs, rows and publications together. *)

\* A worker is idle, or runs a job that was queued, under a claim issued to it.
RunsAreClaimed ==
    \A w \in Workers :
        \/ run[w] = Idle
        \/ /\ run[w].job \in Jobs
           /\ run[w].pc # "idle"
           /\ run[w].claim <= row[run[w].job].runner
           /\ row[run[w].job].status \in {"running"} \cup Terminal

\* No claim was issued twice.
ClaimsAreUnique ==
    \A v, w \in Workers :
        v # w /\ run[v].job = run[w].job /\ run[v].job # None
          => run[v].claim # run[w].claim

\* Whoever still holds the claim of a job works on a job that has not ended.
OwnersAreRunning ==
    \A w \in Workers :
        run[w].job \in Jobs /\ Owns(w) => row[run[w].job].status = "running"

\* The idempotency row of a job is there exactly when its publication is.
LedgerAgrees ==
    /\ \A j \in Jobs :
         published[j] = <<>> \/ \E p \in Projects : published[j] = <<p>>
    /\ \A j \in Jobs : published[j] # <<>> => Stored(<<"job", j>>) # {}
    /\ \A e \in keys, j \in Jobs : e.key = <<"job", j>> => published[j] = <<e.hash>>

\* Only queued and claimed jobs publish.
PublishersAreClaimed ==
    \A j \in Jobs : published[j] # <<>> => row[j].status \in {"running"} \cup Terminal

\* Only a run in the publishing stage writes into the project store.
PublishersPublish ==
    \A w \in Workers :
        run[w].pc \in {"publish", "remember"} => run[w].stage = "publishing"

\* What a run says it published is what was published.
RunsCarryPublished ==
    \A w \in Workers :
        /\ run[w].project # None => published[run[w].job] = <<run[w].project>>
        /\ run[w].pc = "remember" => run[w].project # None
        /\ run[w].pc = "finish" /\ run[w].outcome = "succeeded" => run[w].project # None

\* A job that was never queued is untouched.
AbsentIsBlank == \A j \in Jobs : row[j].status = "absent" => row[j] = Absent

\* Every run of a job cancelled early has a stage check ahead of it, or is closing.
EarlyRunsDraft ==
    \A j \in early :
        /\ row[j].cancel
        /\ \A w \in Workers : run[w].job = j => Drafting(run[w]) \/ run[w].pc = "finish"

\* A cancelled job was asked to cancel.
CancelledWasAsked ==
    /\ \A w \in Workers :
         run[w].pc = "finish" /\ run[w].outcome = "cancelled" => row[run[w].job].cancel
    /\ \A j \in Jobs : row[j].status = "cancelled" => row[j].cancel

IInv ==
    /\ TypeOK
    /\ RunsAreClaimed
    /\ ClaimsAreUnique
    /\ OwnersAreRunning
    /\ LedgerAgrees
    /\ PublishersAreClaimed
    /\ PublishersPublish
    /\ RunsCarryPublished
    /\ SuccessIsPublished
    /\ StageShowsOwner
    /\ AbsentIsBlank
    /\ EarlyRunsDraft
    /\ CancelledWasAsked
-------------------------------------------------------------------------------
(* What the documents say and the code does not do.                         *)

\* openapi.yaml says of a cancelled job that it "stops at the next stage": a run
\* that was told of the cancellation at a stage check publishes nothing.
CancelObserved == \A w \in Workers : run[w].saw => run[w].project = None

\* README.md says that "a job survives a restart": no run is failed because an
\* earlier run of the same job had published already.
RestartSurvives == \A j \in Jobs : row[j].ending # "conflict"
===============================================================================
