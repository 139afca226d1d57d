---------------------------- MODULE ConveyorProofs ----------------------------
(***************************************************************************)
(* The safety properties of Conveyor, for any number of jobs, workers,     *)
(* repair rounds and interruptions.                                        *)
(***************************************************************************)
EXTENDS Conveyor, TLAPS, FiniteSetTheorems

Rest == <<row, keys, published, early, interruptions>>

\* What most statements do to a run: it stops, or it goes on under the same
\* claim, with nothing published yet or more, outside a stage.
Follows(r, s) ==
    \/ s = Idle
    \/ /\ s \in Runs
       /\ s.job = r.job
       /\ s.claim = r.claim
       /\ s.project = r.project
       /\ s.pc \in {"check", "mark", "screen", "finish"}
       /\ s.pc = "finish" => s.outcome \in {"failed", "conflict"}
       /\ Drafting(r) => Drafting(s) \/ s.pc = "finish"

Quiet(w) ==
    /\ \E s \in Runs : Follows(run[w], s) /\ run' = [run EXCEPT ![w] = s]
    /\ UNCHANGED Rest
-------------------------------------------------------------------------------
\* Idle is a run.
LEMMA IdleType == Idle \in Runs
  BY RepairsAssumption, InterruptionsAssumption
  DEF Idle, Runs, Stages, PCs, Outcomes, Agents, MaxClaims

\* The stages follow one another inside the set of stages.
LEMMA FollowingType ==
  ASSUME NEW s \in Stages PROVE Following(s) \in Stages
  BY DEF Stages, Agents, Following

\* A stage is entered at its check, its mark or its screen.
LEMMA EntryType ==
  ASSUME NEW s \in Stages PROVE Entry(s) \in {"check", "mark", "screen"}
  BY DEF Entry

\* Entering a stage changes the stage and the position of a run only.
LEMMA EnterType ==
  ASSUME NEW r \in Runs, NEW s \in Stages
  PROVE  /\ Enter(r, s) \in Runs
         /\ Enter(r, s).job = r.job
         /\ Enter(r, s).claim = r.claim
         /\ Enter(r, s).project = r.project
         /\ Enter(r, s).outcome = r.outcome
         /\ Enter(r, s).stage = s
         /\ Enter(r, s).pc = Entry(s)
         /\ Enter(r, s).pc \in {"check", "mark", "screen"}
<1>1. Entry(s) \in {"check", "mark", "screen"}
  BY EntryType
<1>2. Entry(s) \in PCs
  BY <1>1 DEF PCs
<1>3. QED
  BY <1>1, <1>2 DEF Enter, Runs

\* Closing a run changes its position and its outcome only.
LEMMA ClosingFollows ==
  ASSUME NEW r \in Runs, NEW o \in Outcomes
  PROVE  /\ Closing(r, o) \in Runs
         /\ Closing(r, o).job = r.job
         /\ Closing(r, o).claim = r.claim
         /\ Closing(r, o).project = r.project
         /\ Closing(r, o).pc = "finish"
         /\ Closing(r, o).outcome = o
         /\ o \in {"failed", "conflict"} => Follows(r, Closing(r, o))
  BY DEF Closing, Runs, PCs, Follows

\* Only the first three stages and the check of the developer are drafting: a
\* drafting run goes on to a drafting run.
LEMMA DraftingGoesOn ==
  ASSUME NEW r \in Runs, Drafting(r),
         r.pc = "check" => r.stage # "developer"
  PROVE  Drafting(Enter(r, Following(r.stage)))
<1>1. r.stage \in {"open", "architect", "game_designer"}
  BY DEF Drafting
<1>2. Following(r.stage) \in {"architect", "game_designer", "developer"}
  BY <1>1 DEF Following
<1>3. Following(r.stage) \in Stages
  BY <1>2 DEF Stages, Agents
<1>4. Following(r.stage) = "developer" => Entry(Following(r.stage)) = "check"
  BY DEF Entry
<1>5. QED
  BY <1>2, <1>3, <1>4, EnterType DEF Drafting

\* A run that enters a stage follows itself, if it was not drafting or drafts on.
LEMMA EnterFollows ==
  ASSUME NEW r \in Runs, NEW s \in Stages,
         Drafting(r) => Drafting(Enter(r, s))
  PROVE  Follows(r, Enter(r, s))
  BY EnterType DEF Follows

\* An error of a stage other than a cancellation stops the run, closes it as
\* failed, or lets it go on.
LEMMA ErrorFollows ==
  ASSUME NEW r \in Runs, NEW err \in {"superseded", "store", "provider"},
         r.pc = "check" => err # "provider"
  PROVE  Follows(r, AfterError(r, err)) /\ AfterError(r, err) \in Runs
<1> DEFINE e == AfterError(r, err)
<1>0. r.stage \in Stages /\ Following(r.stage) \in Stages
  BY FollowingType DEF Runs
<1>1. CASE r.stage \in Lenient
  <2>1. e = Enter(r, Following(r.stage))
    BY <1>1 DEF AfterError, Lenient
  <2>2. ~Drafting(r)
    BY <1>1 DEF Drafting, Lenient
  <2>3. QED
    BY <1>0, <2>1, <2>2, EnterFollows, EnterType
<1>2. CASE r.stage \notin Lenient /\ err = "superseded"
  <2>1. e = Idle
    BY <1>2 DEF AfterError
  <2>2. QED
    BY <2>1, IdleType DEF Follows
<1>3. CASE r.stage = "developer" /\ err = "provider" /\ ~r.lighter
  <2>1. e = [r EXCEPT !.lighter = TRUE, !.pc = "check"]
    BY <1>3 DEF AfterError, Lenient
  <2>2. QED
    BY <1>3, <2>1 DEF Follows, Runs, PCs, Drafting
<1>4. CASE r.stage = "developer" /\ err = "provider" /\ r.lighter
  <2>1. e = Enter(r, "compiler")
    BY <1>4 DEF AfterError, Lenient
  <2>2. ~Drafting(r)
    BY <1>4 DEF Drafting
  <2>3. "compiler" \in Stages
    BY DEF Stages
  <2>4. QED
    BY <2>1, <2>2, <2>3, EnterFollows, EnterType
<1>5. CASE /\ r.stage \notin Lenient
           /\ err # "superseded"
           /\ ~(r.stage = "developer" /\ err = "provider")
  <2>1. e = Closing(r, "failed")
    BY <1>5 DEF AfterError
  <2>2. "failed" \in Outcomes
    BY DEF Outcomes
  <2>3. QED
    BY <2>1, <2>2, ClosingFollows
<1>6. r.lighter \in BOOLEAN
  BY DEF Runs
<1>7. QED
  BY <1>1, <1>2, <1>3, <1>4, <1>5, <1>6
-------------------------------------------------------------------------------
\* The position of a run that is busy, and the shape of the state under TypeOK.
LEMMA RunType ==
  ASSUME TypeOK, NEW w \in Workers, run[w].pc # "idle", RunsAreClaimed
  PROVE  /\ run[w] \in Runs
         /\ run[w].job \in Jobs
         /\ row[run[w].job] \in Rows
         /\ run[w].claim <= row[run[w].job].runner
         /\ row[run[w].job].status \in {"running"} \cup Terminal
<1>1. run[w] # Idle
  BY DEF Idle
<1>2. QED
  BY <1>1 DEF TypeOK, RunsAreClaimed

\* Every verdict of an answer lets the run follow itself.
LEMMA VerdictFollows ==
  ASSUME NEW r \in Runs, r.pc = "call", NEW s \in Verdicts(r)
  PROVE  Follows(r, s) /\ s \in Runs
<1>0. r.stage \in Stages /\ Following(r.stage) \in Stages
  BY FollowingType DEF Runs
<1>1. CASE s = Enter(r, Following(r.stage))
  <2>1. Drafting(r) => Drafting(s)
    BY <1>1, DraftingGoesOn
  <2>2. QED
    BY <1>0, <1>1, <2>1, EnterFollows, EnterType
<1>2. CASE s = Closing(r, "failed")
  BY <1>2, ClosingFollows DEF Outcomes
<1>3. CASE r.stage \in {"developer", "tester", "reviewer"} /\ s \in Rework(r)
  <2>1. r.iteration <= MaxRepairs
    BY <1>3 DEF Rework
  <2>2. s = [Enter(r, "developer") EXCEPT !.iteration = @ + 1, !.lighter = FALSE]
    BY <1>3 DEF Rework
  <2>3. "developer" \in Stages
    BY DEF Stages, Agents
  <2>4. r.iteration + 1 \in 1 .. (MaxRepairs + 1)
    BY <2>1, RepairsAssumption DEF Runs
  <2>5. Enter(r, "developer").iteration = r.iteration
    BY <2>3 DEF Enter, Runs
  <2>6. Enter(r, "developer") \in Runs
    BY <2>3, EnterType
  <2>7. s \in Runs
    BY <2>2, <2>4, <2>5, <2>6 DEF Runs
  <2>8. /\ s.job = r.job /\ s.claim = r.claim /\ s.project = r.project
        /\ s.pc \in {"check", "mark", "screen"}
    BY <2>2, <2>3, <2>6, EnterType DEF Runs
  <2>9. ~Drafting(r)
    BY <1>3 DEF Drafting
  <2>10. QED
    BY <2>7, <2>8, <2>9 DEF Follows
<1>4. QED
  BY <1>1, <1>2, <1>3 DEF Verdicts

\* The statements that change nothing but the position of one run.
QuietStep(w) ==
    \/ Open(w)
    \/ HeartbeatLost(w)
    \/ SetStageLost(w)
    \/ AppendStep(w) /\ run[w].clash
    \/ Answer(w)
    \/ PolicyScreen(w)
    \/ PublishConflict(w)
    \/ PublishFailed(w)

\* Most statements move one run along and touch nothing else.
LEMMA QuietSteps ==
  ASSUME TypeOK, RunsAreClaimed, PublishersPublish, NEW w \in Workers, QuietStep(w)
  PROVE  Quiet(w) /\ run[w].pc \notin {"idle", "finish"}
<1> DEFINE r == run[w]
<1>0. r \in Runs /\ r.stage \in Stages
  BY DEF TypeOK, Runs
<1>1. ASSUME NEW s \in Runs, Follows(r, s), run' = [run EXCEPT ![w] = s], UNCHANGED Rest
      PROVE  Quiet(w)
  BY <1>1 DEF Quiet
<1>2. CASE Open(w)
  <2>1. "architect" \in Stages /\ "failed" \in Outcomes
    BY DEF Stages, Agents, Outcomes
  <2>2. Drafting(Enter(r, "architect"))
    BY <1>0, <2>1, EnterType DEF Drafting
  <2>3. Follows(r, Enter(r, "architect")) /\ Enter(r, "architect") \in Runs
    BY <1>0, <2>1, <2>2, EnterFollows, EnterType
  <2>4. Follows(r, Closing(r, "failed")) /\ Closing(r, "failed") \in Runs
    BY <1>0, <2>1, ClosingFollows
  <2>5. QED
    BY <1>2, <1>1, <2>3, <2>4 DEF Open, Become, Rest
<1>3. CASE HeartbeatLost(w)
  <2>1. r.pc = "check"
    BY <1>3 DEF HeartbeatLost
  <2>2. \A err \in {"superseded", "store"} :
          Follows(r, AfterError(r, err)) /\ AfterError(r, err) \in Runs
    BY <1>0, <2>1, ErrorFollows
  <2>3. QED
    BY <1>3, <1>1, <2>1, <2>2 DEF HeartbeatLost, Become, Rest
<1>4. CASE SetStageLost(w)
  <2>1. r.pc = "mark"
    BY <1>4 DEF SetStageLost
  <2>2. \A err \in {"superseded", "store"} :
          Follows(r, AfterError(r, err)) /\ AfterError(r, err) \in Runs
    BY <1>0, <2>1, ErrorFollows
  <2>3. QED
    BY <1>4, <1>1, <2>1, <2>2 DEF SetStageLost, Become, Rest
<1>5. CASE AppendStep(w) /\ run[w].clash
  <2>1. r.pc = "append"
    BY <1>5 DEF AppendStep
  <2>2. Follows(r, AfterError(r, "store")) /\ AfterError(r, "store") \in Runs
    BY <1>0, <2>1, ErrorFollows
  <2>3. QED
    BY <1>5, <1>1, <2>1, <2>2 DEF AppendStep, Become, Rest
<1>6. CASE Answer(w)
  <2>1. r.pc = "call"
    BY <1>6 DEF Answer
  <2>2. \A err \in {"store", "provider"} :
          Follows(r, AfterError(r, err)) /\ AfterError(r, err) \in Runs
    BY <1>0, <2>1, ErrorFollows
  <2>3. \A s \in Verdicts(r) : Follows(r, s) /\ s \in Runs
    BY <1>0, <2>1, VerdictFollows
  <2>4. Follows(r, Closing(r, "failed")) /\ Closing(r, "failed") \in Runs
    BY <1>0, ClosingFollows DEF Outcomes
  <2>5. QED
    BY <1>6, <1>1, <2>1, <2>2, <2>3, <2>4 DEF Answer, Become, Rest
<1>7. CASE PolicyScreen(w)
  <2>1. r.pc = "screen"
    BY <1>7 DEF PolicyScreen
  <2>2. [r EXCEPT !.pc = "check"] \in Runs /\ Follows(r, [r EXCEPT !.pc = "check"])
    BY <1>0, <2>1 DEF Runs, PCs, Follows, Drafting
  <2>3. Follows(r, Closing(r, "failed")) /\ Closing(r, "failed") \in Runs
    BY <1>0, ClosingFollows DEF Outcomes
  <2>4. QED
    BY <1>7, <1>1, <2>1, <2>2, <2>3 DEF PolicyScreen, Become, Rest
<1>8. CASE PublishConflict(w) \/ PublishFailed(w)
  <2>1. r.pc = "publish"
    BY <1>8 DEF PublishConflict, PublishFailed
  <2>2. /\ Follows(r, Closing(r, "failed")) /\ Closing(r, "failed") \in Runs
        /\ Follows(r, Closing(r, "conflict")) /\ Closing(r, "conflict") \in Runs
    BY <1>0, ClosingFollows DEF Outcomes
  <2>3. QED
    BY <1>8, <1>1, <2>1, <2>2 DEF PublishConflict, PublishFailed, PublishError, Become, Rest
<1>9. run[w].pc \notin {"idle", "finish"}
  BY DEF QuietStep, Open, HeartbeatLost, SetStageLost, AppendStep, Answer,
         PolicyScreen, PublishConflict, PublishFailed
<1>10. QED
  BY <1>2, <1>3, <1>4, <1>5, <1>6, <1>7, <1>8, <1>9 DEF QuietStep
-------------------------------------------------------------------------------
(* The part of the invariant that no statement disturbs as long as runs     *)
(* only stop or move on under their claims and rows keep their history.     *)

Claims ==
    /\ RunsAreClaimed
    /\ ClaimsAreUnique
    /\ OwnersAreRunning
    /\ LedgerAgrees
    /\ PublishersAreClaimed
    /\ SuccessIsPublished
    /\ AbsentIsBlank

Proceeds(w) ==
    \/ run'[w] = run[w]
    \/ run'[w] = Idle
    \/ /\ run[w].pc # "idle" /\ run'[w].pc # "idle"
       /\ run'[w].job = run[w].job
       /\ run'[w].claim = run[w].claim

SameHistory(j) ==
    /\ row'[j].status = row[j].status
    /\ row'[j].runner = row[j].runner
    /\ row'[j].project = row[j].project
    /\ row[j].status = "absent" => row'[j] = row[j]

\* What ties claims to rows survives a step that keeps the statuses and only lets
\* runs stop or go on under their claims.
LEMMA ClaimsCarryOver ==
  ASSUME TypeOK, Claims,
         \A w \in Workers : Proceeds(w),
         \A j \in Jobs : SameHistory(j),
         keys' = keys, published' = published
  PROVE  Claims'
<1> DEFINE Moved(w) == /\ run[w].pc # "idle"
                       /\ run'[w].pc # "idle"
                       /\ run'[w].job = run[w].job
                       /\ run'[w].claim = run[w].claim
<1>1. \A w \in Workers : run'[w] = Idle \/ Moved(w)
  <2> SUFFICES ASSUME NEW w \in Workers, run'[w] # Idle PROVE Moved(w)
    OBVIOUS
  <2>1. CASE run'[w] = run[w]
    BY <2>1 DEF Claims, RunsAreClaimed
  <2>2. QED
    BY <2>1 DEF Proceeds
<1>2. Idle.job = None /\ Idle.pc = "idle" /\ None \notin Jobs
  BY JobsAssumption DEF Idle
<1>3. \A w \in Workers : Moved(w) =>
         /\ run[w].job \in Jobs
         /\ run[w].claim <= row[run[w].job].runner
         /\ row[run[w].job].status \in {"running"} \cup Terminal
  BY <1>2 DEF Claims, RunsAreClaimed
<1>4. RunsAreClaimed'
  <2> SUFFICES ASSUME NEW w \in Workers, Moved(w)
               PROVE  /\ run'[w].job \in Jobs
                      /\ run'[w].pc # "idle"
                      /\ run'[w].claim <= row'[run'[w].job].runner
                      /\ row'[run'[w].job].status \in {"running"} \cup Terminal
    BY <1>1 DEF RunsAreClaimed, Terminal
  <2>1. SameHistory(run[w].job)
    BY <1>3
  <2>2. QED
    BY <1>3, <2>1 DEF SameHistory
<1>5. ClaimsAreUnique'
  <2> SUFFICES ASSUME NEW v \in Workers, NEW w \in Workers,
                      v # w, run'[v].job = run'[w].job, run'[v].job # None
               PROVE  run'[v].claim # run'[w].claim
    BY DEF ClaimsAreUnique
  <2>1. Moved(v) /\ Moved(w)
    BY <1>1, <1>2
  <2>2. QED
    BY <2>1 DEF Claims, ClaimsAreUnique
<1>6. OwnersAreRunning'
  <2> SUFFICES ASSUME NEW w \in Workers, run'[w].job \in Jobs,
                      row'[run'[w].job].runner = run'[w].claim
               PROVE  row'[run'[w].job].status = "running"
    BY DEF OwnersAreRunning, Owns
  <2>1. Moved(w)
    BY <1>1, <1>2
  <2>2. SameHistory(run[w].job)
    BY <1>3, <2>1
  <2>3. QED
    BY <1>3, <2>1, <2>2 DEF Claims, OwnersAreRunning, Owns, SameHistory
<1>7. LedgerAgrees'
  BY DEF Claims, LedgerAgrees, Stored
<1>8. PublishersAreClaimed' /\ SuccessIsPublished'
  BY DEF Claims, PublishersAreClaimed, SuccessIsPublished, SameHistory, Terminal
<1>9. AbsentIsBlank'
  BY DEF Claims, AbsentIsBlank, SameHistory
<1>10. QED
  BY <1>4, <1>5, <1>6, <1>7, <1>8, <1>9 DEF Claims
-------------------------------------------------------------------------------
(* The part of the invariant that follows the positions of the runs.        *)

Positions ==
    /\ PublishersPublish
    /\ RunsCarryPublished
    /\ StageShowsOwner
    /\ EarlyRunsDraft
    /\ CancelledWasAsked

\* The invariant, split into what concerns claims and what concerns positions.
LEMMA Parts == IInv <=> TypeOK /\ Claims /\ Positions
  BY DEF IInv, Claims, Positions

\* Rows whose leases alone may have changed.
SameRows ==
    /\ row' \in [Jobs -> Rows]
    /\ \A j \in Jobs : /\ SameHistory(j)
                       /\ row'[j].cancel = row[j].cancel
                       /\ row'[j].stage = row[j].stage

\* A step that leaves the rows alone keeps what the invariant reads of them.
LEMMA UnchangedRows == TypeOK /\ UNCHANGED row => SameRows
  BY DEF TypeOK, SameRows, SameHistory

\* A statement that moves one run and at most renews a lease keeps the positions
\* consistent when the new run is.
LEMMA OneRunMoves ==
  ASSUME IInv, NEW w \in Workers, NEW s \in Runs,
         run' = [run EXCEPT ![w] = s],
         SameRows, UNCHANGED <<keys, published, early>>,
         interruptions' \in 0 .. MaxInterruptions,
         run[w].pc # "idle",
         s = Idle \/ (s.pc # "idle" /\ s.job = run[w].job /\ s.claim = run[w].claim),
         s.pc \in {"publish", "remember"} => s.stage = "publishing",
         s.project # None => published[s.job] = <<s.project>>,
         s.pc = "remember" => s.project # None,
         s.pc = "finish" /\ s.outcome = "succeeded" => s.project # None,
         s.pc \in {"number", "append", "call", "publish", "remember"} =>
             /\ run[w].pc \in {"number", "append", "call", "publish", "remember"}
             /\ s.stage = run[w].stage,
         run[w].job \in early /\ s # Idle
             /\ (Drafting(run[w]) \/ run[w].pc = "finish") =>
             Drafting(s) \/ s.pc = "finish",
         s.pc = "finish" /\ s.outcome = "cancelled" => row[s.job].cancel
  PROVE  IInv'
<1> USE Parts
<1>0. /\ Idle.job = None /\ Idle.pc = "idle" /\ None \notin Jobs
      /\ run[w] \in Runs
  BY JobsAssumption DEF Idle, TypeOK
<1>1. run'[w] = s /\ \A v \in Workers : v # w => run'[v] = run[v]
  BY DEF TypeOK
<1>2. TypeOK'
  BY DEF TypeOK, SameRows
<1>3. Claims'
  BY <1>1, ClaimsCarryOver DEF Proceeds, SameRows
<1>4. \A v \in Workers : run[v].pc # "idle" => run[v].job \in Jobs
  BY <1>0 DEF Claims, RunsAreClaimed
<1>5. s.pc # "idle" => s.job \in Jobs
  BY <1>0, <1>4
<1>6. PublishersPublish' /\ RunsCarryPublished'
  BY <1>1 DEF Positions, PublishersPublish, RunsCarryPublished
<1>7. StageShowsOwner'
  <2>1. ASSUME NEW v \in Workers,
               s.pc \in {"number", "append", "call", "publish", "remember"} \/ v # w,
               run'[v].pc \in {"number", "append", "call", "publish", "remember"},
               Owns(v)'
        PROVE  row'[run'[v].job].stage = run'[v].stage
    <3>1. run'[v].job = run[v].job /\ run'[v].claim = run[v].claim /\ run[v].job \in Jobs
      BY <1>0, <1>1, <1>4, <2>1
    <3>2. row'[run[v].job].runner = row[run[v].job].runner
      BY <3>1 DEF SameRows, SameHistory
    <3>3. row[run[v].job].stage = run[v].stage
      BY <1>0, <1>1, <2>1, <3>1, <3>2 DEF Positions, StageShowsOwner, Owns
    <3>4. QED
      BY <1>1, <2>1, <3>1, <3>3 DEF SameRows
  <2>2. QED
    BY <1>1, <2>1 DEF Positions, StageShowsOwner, Terminal, SameRows, SameHistory
<1>8. EarlyRunsDraft'
  <2> SUFFICES ASSUME NEW j \in early
               PROVE  /\ row'[j].cancel
                      /\ \A v \in Workers :
                           run'[v].job = j => Drafting(run'[v]) \/ run'[v].pc = "finish"
    BY DEF EarlyRunsDraft, Drafting
  <2>1. row'[j].cancel /\ j # None
    BY <1>0 DEF Positions, EarlyRunsDraft, TypeOK, SameRows
  <2>2. ASSUME NEW v \in Workers, run'[v].job = j
        PROVE  Drafting(run'[v]) \/ run'[v].pc = "finish"
    BY <1>0, <1>1, <2>1, <2>2 DEF Positions, EarlyRunsDraft
  <2>3. QED
    BY <2>1, <2>2
<1>9. CancelledWasAsked'
  <2>1. ASSUME NEW v \in Workers, run'[v].pc = "finish", run'[v].outcome = "cancelled"
        PROVE  row'[run'[v].job].cancel
    BY <1>0, <1>1, <1>4, <1>5, <2>1 DEF Positions, CancelledWasAsked, SameRows
  <2>2. QED
    BY <2>1 DEF Positions, CancelledWasAsked, SameRows, SameHistory
<1>10. QED
  BY <1>2, <1>3, <1>6, <1>7, <1>8, <1>9, PTL DEF Positions
-------------------------------------------------------------------------------
(* One lemma per statement of a run.                                        *)

\* A run that is not drafting keeps its job from being cancelled early, and a
\* run that drafts is not past the stages a check stops.
LEMMA QuietKeeps ==
  ASSUME IInv, NEW w \in Workers, QuietStep(w)
  PROVE  IInv'
<1> USE Parts
<1>1. Quiet(w) /\ run[w].pc \notin {"idle", "finish"}
  BY QuietSteps DEF Claims, Positions
<1>2. PICK s \in Runs : Follows(run[w], s) /\ run' = [run EXCEPT ![w] = s]
  BY <1>1 DEF Quiet
<1>3. Idle.job = None /\ Idle.pc = "idle" /\ Idle.project = None
  BY DEF Idle
<1>4. run[w].project # None => published[run[w].job] = <<run[w].project>>
  BY DEF Positions, RunsCarryPublished
<1>5. /\ SameRows /\ UNCHANGED <<keys, published, early>>
      /\ interruptions' \in 0 .. MaxInterruptions
  BY <1>1, UnchangedRows DEF Quiet, Rest, TypeOK
<1>6. CASE s = Idle
  BY <1>1, <1>2, <1>3, <1>5, <1>6, OneRunMoves
<1>7. CASE s # Idle
  BY <1>1, <1>2, <1>4, <1>5, <1>7, OneRunMoves DEF Follows
<1>8. QED
  BY <1>6, <1>7

\* Reading the next step number disturbs nothing.
LEMMA StartStepKeeps ==
  ASSUME IInv, NEW w \in Workers, StartStep(w)
  PROVE  IInv'
<1> USE Parts
<1> DEFINE s == [run[w] EXCEPT !.pc = "append", !.clash = FALSE]
<1>1. run[w].pc = "number" /\ run' = [run EXCEPT ![w] = s]
  BY DEF StartStep, Become
<1>2. run[w] \in Runs
  BY DEF TypeOK
<1>3. /\ s \in Runs /\ s.pc = "append"
      /\ s.job = run[w].job /\ s.claim = run[w].claim /\ s.stage = run[w].stage
      /\ s.project = run[w].project
  BY <1>2 DEF Runs, PCs
<1>4. Drafting(run[w]) => Drafting(s)
  BY <1>1, <1>3 DEF Drafting
<1>5. /\ SameRows /\ UNCHANGED <<keys, published, early>>
      /\ interruptions' \in 0 .. MaxInterruptions
  BY UnchangedRows DEF StartStep, TypeOK
<1>6. run[w].project # None => published[run[w].job] = <<run[w].project>>
  BY DEF Positions, RunsCarryPublished
<1>7. QED
  BY <1>1, <1>3, <1>4, <1>5, <1>6, OneRunMoves

\* A replayed publication hands the run what was published before.
LEMMA PublishReplayKeeps ==
  ASSUME IInv, NEW w \in Workers, PublishReplay(w)
  PROVE  IInv'
<1> USE Parts
<1>1. run[w].pc = "publish"
  BY DEF PublishReplay
<1>2. PICK e \in Stored(KeyOf(w)) : run' = [run EXCEPT ![w] = Kept(run[w], e.hash)]
  BY DEF PublishReplay, Become
<1> DEFINE s == Kept(run[w], e.hash)
<1>3. run[w] \in Runs /\ run[w].job \in Jobs /\ run[w].stage = "publishing"
  BY <1>1, RunType DEF Claims, Positions, PublishersPublish
<1>4. e \in keys /\ e.key = <<"job", run[w].job>> /\ e.hash \in Projects
  BY <1>2 DEF Stored, KeyOf, TypeOK
<1>5. published[run[w].job] = <<e.hash>>
  BY <1>3, <1>4 DEF Claims, LedgerAgrees
<1>6. e.hash # None
  BY <1>4, NoneAssumption
<1>7. /\ s \in Runs /\ s.pc = "remember"
      /\ s.job = run[w].job /\ s.claim = run[w].claim /\ s.stage = run[w].stage
      /\ s.project = e.hash
  BY <1>3, <1>4 DEF Kept, Runs, PCs
<1>8. ~Drafting(run[w])
  BY <1>1, <1>3 DEF Drafting
<1>9. /\ SameRows /\ UNCHANGED <<keys, published, early>>
      /\ interruptions' \in 0 .. MaxInterruptions
  BY UnchangedRows DEF PublishReplay, TypeOK
<1>10. QED
  BY <1>1, <1>2, <1>3, <1>5, <1>6, <1>7, <1>8, <1>9, OneRunMoves

\* Filing the project's context closes the run with what it published.
LEMMA RememberKeeps ==
  ASSUME IInv, NEW w \in Workers, Remember(w)
  PROVE  IInv'
<1> USE Parts
<1>1. run[w].pc = "remember"
  BY DEF Remember
<1>2. PICK o \in {"succeeded", "failed"} : run' = [run EXCEPT ![w] = Closing(run[w], o)]
  BY DEF Remember, Become
<1> DEFINE s == Closing(run[w], o)
<1>3. run[w] \in Runs /\ o \in Outcomes
  BY DEF TypeOK, Outcomes
<1>4. /\ s \in Runs /\ s.pc = "finish" /\ s.outcome = o /\ s.project = run[w].project
      /\ s.job = run[w].job /\ s.claim = run[w].claim
  BY <1>3, ClosingFollows
<1>5. run[w].project # None /\ published[run[w].job] = <<run[w].project>>
  BY <1>1 DEF Positions, RunsCarryPublished
<1>6. /\ SameRows /\ UNCHANGED <<keys, published, early>>
      /\ interruptions' \in 0 .. MaxInterruptions
  BY UnchangedRows DEF Remember, TypeOK
<1>7. QED
  BY <1>1, <1>2, <1>4, <1>5, <1>6, OneRunMoves

\* A run that is cut short leaves rows and publications as they are.
LEMMA InterruptKeeps ==
  ASSUME IInv, NEW w \in Workers, Interrupt(w)
  PROVE  IInv'
<1> USE Parts
<1>1. run[w].pc # "idle" /\ run' = [run EXCEPT ![w] = Idle]
  BY DEF Interrupt, Become
<1>2. SameRows /\ UNCHANGED <<keys, published, early>>
  BY UnchangedRows DEF Interrupt
<1>3. interruptions' \in 0 .. MaxInterruptions
  BY InterruptionsAssumption DEF Interrupt, TypeOK
<1>4. Idle.pc = "idle" /\ Idle.project = None
  BY DEF Idle
<1>5. QED
  BY <1>1, <1>2, <1>3, <1>4, IdleType, OneRunMoves

\* The insertion of a step moves the run on and spoils the numbers other runs of
\* the job have read.
LEMMA AppendStepKeeps ==
  ASSUME IInv, NEW w \in Workers, AppendStep(w), ~run[w].clash
  PROVE  IInv'
<1> USE Parts
<1>1. /\ run[w].pc = "append"
      /\ UNCHANGED <<row, keys, published, early, interruptions>>
      /\ run' = [v \in Workers |->
                   IF v = w THEN [run[w] EXCEPT !.pc = "call"]
                   ELSE IF run[v].job = run[w].job /\ run[v].pc = "append"
                   THEN [run[v] EXCEPT !.clash = TRUE]
                   ELSE run[v]]
  BY DEF AppendStep
<1>2. ASSUME NEW v \in Workers
      PROVE  /\ run'[v] \in Runs
             /\ run'[v].job = run[v].job /\ run'[v].claim = run[v].claim
             /\ run'[v].stage = run[v].stage /\ run'[v].project = run[v].project
             /\ run'[v].outcome = run[v].outcome
             /\ \/ run'[v] = run[v]
                \/ run[v].pc = "append" /\ run'[v].pc \in {"append", "call"}
  <2>1. run[v] \in Runs
    BY DEF TypeOK
  <2>2. CASE v = w
    BY <1>1, <2>1, <2>2 DEF Runs, PCs
  <2>3. CASE v # w
    BY <1>1, <2>1, <2>3 DEF Runs, PCs
  <2>4. QED
    BY <2>2, <2>3
<1>3. TypeOK'
  <2>1. run' \in [Workers -> Runs]
    BY <1>1, <1>2
  <2>2. QED
    BY <1>1, <2>1 DEF TypeOK
<1>4. Claims'
  <2>1. \A v \in Workers : Proceeds(v)
    BY <1>2 DEF Proceeds
  <2>2. QED
    BY <1>1, <2>1, ClaimsCarryOver DEF SameHistory
<1>5. PublishersPublish' /\ RunsCarryPublished'
  BY <1>1, <1>2 DEF Positions, PublishersPublish, RunsCarryPublished
<1>6. StageShowsOwner'
  BY <1>1, <1>2 DEF Positions, StageShowsOwner, Owns, Terminal
<1>7. EarlyRunsDraft'
  BY <1>1, <1>2 DEF Positions, EarlyRunsDraft, Drafting
<1>8. CancelledWasAsked'
  BY <1>1, <1>2 DEF Positions, CancelledWasAsked
<1>9. QED
  BY <1>3, <1>4, <1>5, <1>6, <1>7, <1>8, PTL DEF Positions

\* A heartbeat renews the lease and moves the run on, or closes it as cancelled.
LEMMA HeartbeatKeeps ==
  ASSUME IInv, NEW w \in Workers, Heartbeat(w)
  PROVE  IInv'
<1> USE Parts
<1> DEFINE j == run[w].job
           s == IF row[j].cancel
                THEN [AfterError(run[w], "cancelled") EXCEPT !.saw = TRUE]
                ELSE [run[w] EXCEPT !.pc = "mark"]
<1>1. /\ run[w].pc = "check" /\ Owns(w)
      /\ row' = [row EXCEPT ![j].leased = TRUE]
      /\ run' = [run EXCEPT ![w] = s]
      /\ UNCHANGED <<keys, published, early>>
      /\ interruptions' \in 0 .. MaxInterruptions
  BY DEF Heartbeat, Become, TypeOK
<1>2. run[w] \in Runs /\ j \in Jobs /\ run[w].stage \in Stages
  BY <1>1, RunType DEF Claims, Runs
<1>3. row[j].status = "running" /\ row[j] \in Rows
  BY <1>1, <1>2 DEF Claims, OwnersAreRunning, TypeOK
<1>4. SameRows
  <2>1. row' \in [Jobs -> Rows]
    BY <1>1, <1>3 DEF TypeOK, Rows
  <2>2. ASSUME NEW k \in Jobs
        PROVE  /\ SameHistory(k) /\ row'[k].cancel = row[k].cancel
               /\ row'[k].stage = row[k].stage
    BY <1>1, <1>3 DEF TypeOK, SameHistory
  <2>3. QED
    BY <2>1, <2>2 DEF SameRows
<1>5. run[w].project # None => published[j] = <<run[w].project>>
  BY DEF Positions, RunsCarryPublished
<1>6. CASE ~row[j].cancel
  <2>1. /\ s \in Runs /\ s.pc = "mark" /\ s.job = j /\ s.claim = run[w].claim
        /\ s.stage = run[w].stage /\ s.project = run[w].project
    BY <1>2, <1>6 DEF Runs, PCs
  <2>2. j \notin early
    BY <1>2, <1>6 DEF Positions, EarlyRunsDraft
  <2>3. QED
    BY <1>1, <1>4, <1>5, <2>1, <2>2, OneRunMoves
<1>7. CASE row[j].cancel
  <2> DEFINE e == AfterError(run[w], "cancelled")
  <2>1. CASE run[w].stage \in Lenient
    <3>1. e = Enter(run[w], Following(run[w].stage))
      BY <2>1 DEF AfterError, Lenient
    <3>2. e \in Runs /\ e.pc \in {"check", "mark", "screen"}
          /\ e.job = j /\ e.claim = run[w].claim /\ e.project = run[w].project
      BY <1>2, <3>1, FollowingType, EnterType
    <3>3. /\ s \in Runs /\ s.pc \in {"check", "mark", "screen"}
          /\ s.job = j /\ s.claim = run[w].claim /\ s.project = run[w].project
      BY <1>7, <3>2 DEF Runs
    <3>4. ~Drafting(run[w])
      BY <2>1 DEF Drafting, Lenient
    <3>5. QED
      BY <1>1, <1>4, <1>5, <3>3, <3>4, OneRunMoves
  <2>2. CASE run[w].stage \notin Lenient
    <3>1. e = Closing(run[w], "cancelled")
      BY <2>2 DEF AfterError
    <3>2. e \in Runs /\ e.pc = "finish" /\ e.outcome = "cancelled"
          /\ e.job = j /\ e.claim = run[w].claim /\ e.project = run[w].project
      BY <1>2, <3>1, ClosingFollows DEF Outcomes
    <3>3. /\ s \in Runs /\ s.pc = "finish" /\ s.outcome = "cancelled"
          /\ s.job = j /\ s.claim = run[w].claim /\ s.project = run[w].project
      BY <1>7, <3>2 DEF Runs
    <3>4. QED
      BY <1>1, <1>4, <1>5, <1>7, <3>3, OneRunMoves
  <2>3. QED
    BY <2>1, <2>2
<1>8. QED
  BY <1>6, <1>7

\* Only the holder of the claim writes the stage, and no two runs hold it.
LEMMA SetStageKeeps ==
  ASSUME IInv, NEW w \in Workers, SetStage(w)
  PROVE  IInv'
<1> USE Parts
<1> DEFINE j == run[w].job
           s == [run[w] EXCEPT !.pc = IF run[w].stage = "publishing"
                                      THEN "publish" ELSE "number"]
<1>1. /\ run[w].pc = "mark" /\ Owns(w)
      /\ row' = [row EXCEPT ![j].stage = run[w].stage]
      /\ run' = [run EXCEPT ![w] = s]
      /\ UNCHANGED <<keys, published, early, interruptions>>
  BY DEF SetStage, Become
<1>2. run[w] \in Runs /\ j \in Jobs /\ run[w].stage \in Stages
  BY <1>1, RunType DEF Claims, Runs
<1>3. row[j].status = "running" /\ row[j] \in Rows
  BY <1>1, <1>2 DEF Claims, OwnersAreRunning, TypeOK
<1>4. /\ s \in Runs /\ s.pc \in {"publish", "number"}
      /\ s.pc = "publish" <=> s.stage = "publishing"
      /\ s.job = j /\ s.claim = run[w].claim
      /\ s.stage = run[w].stage /\ s.project = run[w].project
  BY <1>2 DEF Runs, PCs
<1> HIDE DEF s
<1>5. /\ row' \in [Jobs -> Rows]
      /\ row'[j].stage = run[w].stage
      /\ \A k \in Jobs : /\ SameHistory(k) /\ row'[k].cancel = row[k].cancel
                         /\ k # j => row'[k] = row[k]
  BY <1>1, <1>2, <1>3 DEF TypeOK, Rows, SameHistory
<1>6. run'[w] = s /\ \A v \in Workers : v # w => run'[v] = run[v]
  BY <1>1 DEF TypeOK
<1>7. TypeOK'
  BY <1>1, <1>4, <1>5 DEF TypeOK
<1>8. Claims'
  BY <1>1, <1>4, <1>5, <1>6, ClaimsCarryOver DEF Proceeds
<1>9. PublishersPublish' /\ RunsCarryPublished'
  <2>1. PublishersPublish'
    BY <1>4, <1>6 DEF Positions, PublishersPublish
  <2>2. published' = published
    BY <1>1
  <2>3. ASSUME NEW v \in Workers
        PROVE  /\ run'[v].project # None => published[run'[v].job] = <<run'[v].project>>
               /\ run'[v].pc = "remember" => run'[v].project # None
               /\ run'[v].pc = "finish" /\ run'[v].outcome = "succeeded"
                    => run'[v].project # None
    BY <1>4, <1>6 DEF Positions, RunsCarryPublished
  <2>4. QED
    BY <2>1, <2>2, <2>3 DEF RunsCarryPublished
<1>10. StageShowsOwner'
  <2>1. ASSUME NEW v \in Workers, run'[v].job \in Jobs, Owns(v)',
               run'[v].pc \in {"number", "append", "call", "publish", "remember"}
        PROVE  row'[run'[v].job].stage = run'[v].stage
    <3>1. CASE v = w
      BY <1>4, <1>5, <1>6, <3>1
    <3>2. CASE v # w
      <4>1. run[v].job # j
        BY <1>1, <1>2, <1>5, <1>6, <2>1, <3>2, JobsAssumption
        DEF Claims, ClaimsAreUnique, Owns, SameHistory
      <4>2. QED
        BY <1>5, <1>6, <2>1, <3>2, <4>1 DEF Positions, StageShowsOwner, Owns
    <3>3. QED
      BY <3>1, <3>2
  <2>2. \A v \in Workers : run'[v].pc # "idle" => run'[v].job \in Jobs
    BY <1>8 DEF Claims, RunsAreClaimed, Idle
  <2>3. \A k \in Jobs : row'[k].status \in Terminal => row'[k].stage = "done"
    BY <1>3, <1>5 DEF Positions, StageShowsOwner, SameHistory, Terminal
  <2>4. QED
    BY <2>1, <2>2, <2>3 DEF StageShowsOwner, Terminal
<1>11. EarlyRunsDraft'
  <2> SUFFICES ASSUME NEW k \in early
               PROVE  /\ row'[k].cancel
                      /\ \A v \in Workers :
                           run'[v].job = k => Drafting(run'[v]) \/ run'[v].pc = "finish"
    BY <1>1 DEF EarlyRunsDraft, Drafting
  <2>1. row'[k].cancel
    BY <1>5 DEF Positions, EarlyRunsDraft, TypeOK
  <2>2. Drafting(run[w]) => Drafting(s)
    BY <1>1, <1>4 DEF Drafting
  <2>3. QED
    BY <1>1, <1>4, <1>6, <2>1, <2>2 DEF Positions, EarlyRunsDraft
<1>12. CancelledWasAsked'
  <2>1. \A v \in Workers : run[v].pc # "idle" => run[v].job \in Jobs
    BY DEF Claims, RunsAreClaimed, Idle
  <2>2. QED
    BY <1>1, <1>4, <1>5, <1>6, <2>1 DEF Positions, CancelledWasAsked, SameHistory
<1>13. QED
  BY <1>7, <1>8, <1>9, <1>10, <1>11, <1>12, PTL DEF Positions
-------------------------------------------------------------------------------
(* The clock and the client.                                                *)

\* Leases and the cancel flag: the runs stay where they are.
LEMMA LeaseKeeps ==
  ASSUME IInv, NEW j \in Jobs, LeaseLapses(j) \/ LeaseOverrun(j)
  PROVE  IInv'
<1> USE Parts
<1>1. /\ row[j].status = "running"
      /\ row' = [row EXCEPT ![j].leased = FALSE]
      /\ UNCHANGED <<run, keys, published, early>>
      /\ interruptions' \in 0 .. MaxInterruptions
  BY InterruptionsAssumption DEF LeaseLapses, LeaseOverrun, TypeOK
<1>2. SameRows
  <2>1. row[j] \in Rows
    BY DEF TypeOK
  <2>2. QED
    BY <1>1, <2>1 DEF TypeOK, Rows, SameRows, SameHistory
<1>3. TypeOK'
  BY <1>1, <1>2 DEF TypeOK, SameRows
<1>4. Claims'
  BY <1>1, <1>2, ClaimsCarryOver DEF Proceeds, SameRows
<1>5. \A w \in Workers : run[w].pc # "idle" => run[w].job \in Jobs
  BY DEF Claims, RunsAreClaimed, Idle
<1>6. PublishersPublish' /\ RunsCarryPublished'
  BY <1>1 DEF Positions, PublishersPublish, RunsCarryPublished
<1>7. StageShowsOwner'
  BY <1>1, <1>2, <1>5 DEF Positions, StageShowsOwner, Owns, SameRows, SameHistory
<1>8. EarlyRunsDraft'
  BY <1>1, <1>2 DEF Positions, EarlyRunsDraft, SameRows, Drafting, TypeOK
<1>9. CancelledWasAsked'
  BY <1>1, <1>2, <1>5 DEF Positions, CancelledWasAsked, SameRows, SameHistory
<1>10. QED
  BY <1>3, <1>4, <1>6, <1>7, <1>8, <1>9, PTL DEF Positions

\* A cancellation is recorded as early only while every run of the job drafts.
LEMMA RequestCancelKeeps ==
  ASSUME IInv, NEW j \in Jobs, RequestCancel(j)
  PROVE  IInv'
<1> USE Parts
<1>1. /\ row[j].status \in {"queued", "running"}
      /\ row' = [row EXCEPT ![j].cancel = TRUE]
      /\ early' \in {early, early \cup {j}}
      /\ j \in early' /\ j \notin early =>
           \A w \in Workers : run[w].job = j => Drafting(run[w])
      /\ UNCHANGED <<run, keys, published, interruptions>>
  BY DEF RequestCancel
<1>2. /\ row' \in [Jobs -> Rows]
      /\ row'[j].cancel
      /\ \A k \in Jobs : /\ SameHistory(k)
                         /\ row'[k].stage = row[k].stage
                         /\ row[k].cancel => row'[k].cancel
  <2>1. row[j] \in Rows
    BY DEF TypeOK
  <2>2. QED
    BY <1>1, <2>1 DEF TypeOK, Rows, SameHistory
<1>3. TypeOK'
  BY <1>1, <1>2 DEF TypeOK
<1>4. Claims'
  BY <1>1, <1>2, ClaimsCarryOver DEF Proceeds
<1>5. \A w \in Workers : run[w].pc # "idle" => run[w].job \in Jobs
  BY DEF Claims, RunsAreClaimed, Idle
<1>6. PublishersPublish' /\ RunsCarryPublished'
  BY <1>1 DEF Positions, PublishersPublish, RunsCarryPublished
<1>7. StageShowsOwner'
  BY <1>1, <1>2, <1>5 DEF Positions, StageShowsOwner, Owns, SameHistory
<1>8. EarlyRunsDraft'
  <2>1. \A k \in early' : row'[k].cancel
    BY <1>1, <1>2 DEF Positions, EarlyRunsDraft, TypeOK
  <2>2. \A k \in early', w \in Workers :
          run[w].job = k => Drafting(run[w]) \/ run[w].pc = "finish"
    BY <1>1 DEF Positions, EarlyRunsDraft
  <2>3. QED
    BY <1>1, <2>1, <2>2 DEF EarlyRunsDraft, Drafting
<1>9. CancelledWasAsked'
  BY <1>1, <1>2, <1>5 DEF Positions, CancelledWasAsked, SameHistory
<1>10. QED
  BY <1>3, <1>4, <1>6, <1>7, <1>8, <1>9, PTL DEF Positions

\* Counting the jobs that were queued gives a number.
LEMMA BornType ==
  ASSUME NEW S, S \subseteq Jobs PROVE Cardinality(S) \in Nat
  BY JobsAssumption, FS_Subset, FS_CardinalityType

\* A new row breaks nothing: no run and no publication belongs to it.
LEMMA CreateJobKeeps ==
  ASSUME IInv, NEW j \in Jobs, NEW kind \in Kinds, CreateJob(j, kind)
  PROVE  IInv'
<1> USE Parts
<1> DEFINE n == 1 + Cardinality({k \in Jobs : row[k].status # "absent"})
           p == IF kind = "improve_game" THEN [job |-> j, claim |-> 0] ELSE None
           q == Queued(j, kind)
<1>1. /\ row[j].status = "absent"
      /\ row' = [row EXCEPT ![j] = q]
      /\ UNCHANGED <<run, keys, published, early, interruptions>>
  BY DEF CreateJob
<1>2. n \in Nat
  <2>1. Cardinality({k \in Jobs : row[k].status # "absent"}) \in Nat
    BY BornType
  <2>2. QED
    BY <2>1
<1>3. p \in Projects \cup {None}
  BY RepairsAssumption, InterruptionsAssumption DEF Projects, MaxClaims
<1>q. q = [Absent EXCEPT !.status = "queued", !.kind = kind,
                        !.born = n, !.project = p]
  BY DEF Queued
<1> HIDE DEF n, p, q
<1>4. q \in Rows /\ q.status = "queued" /\ q.stage = "queued" /\ ~q.cancel
  <2>1. 0 \in 0 .. MaxClaims
    BY InterruptionsAssumption DEF MaxClaims
  <2>2. Absent \in Rows
    BY <2>1 DEF Absent, Rows, Statuses, Kinds
  <2>3. QED
    BY <1>q, <1>2, <1>3, <2>2 DEF Absent, Rows, Statuses, Kinds
<1>5. row' \in [Jobs -> Rows] /\ row'[j] = q /\ \A k \in Jobs : k # j => row'[k] = row[k]
  BY <1>1, <1>4 DEF TypeOK
<1>6. TypeOK'
  BY <1>1, <1>5 DEF TypeOK
<1>7. \A w \in Workers : run[w].pc # "idle" => run[w].job \in Jobs /\ run[w].job # j
  BY <1>1 DEF Claims, RunsAreClaimed, Idle, Terminal
<1>8. \A w \in Workers : run[w].job # j
  BY <1>7, JobsAssumption DEF Claims, RunsAreClaimed, Idle
<1>9. published[j] = <<>>
  BY <1>1 DEF Claims, PublishersAreClaimed, Terminal
<1>10. Claims'
  <2>1. RunsAreClaimed'
    BY <1>1, <1>5, <1>8 DEF Claims, RunsAreClaimed, Terminal
  <2>2. ClaimsAreUnique'
    BY <1>1 DEF Claims, ClaimsAreUnique
  <2>3. OwnersAreRunning'
    BY <1>1, <1>5, <1>8 DEF Claims, OwnersAreRunning, Owns
  <2>4. LedgerAgrees'
    BY <1>1 DEF Claims, LedgerAgrees, Stored
  <2>5. PublishersAreClaimed' /\ SuccessIsPublished'
    BY <1>1, <1>4, <1>5, <1>9 DEF Claims, PublishersAreClaimed, SuccessIsPublished, Terminal
  <2>6. AbsentIsBlank'
    BY <1>4, <1>5 DEF Claims, AbsentIsBlank
  <2>7. QED
    BY <2>1, <2>2, <2>3, <2>4, <2>5, <2>6 DEF Claims
<1>11. PublishersPublish' /\ RunsCarryPublished'
  BY <1>1 DEF Positions, PublishersPublish, RunsCarryPublished
<1>12. StageShowsOwner'
  BY <1>1, <1>4, <1>5, <1>7 DEF Positions, StageShowsOwner, Owns, Terminal
<1>13. EarlyRunsDraft'
  <2>1. j \notin early
    BY <1>1 DEF Positions, EarlyRunsDraft, Claims, AbsentIsBlank, Absent
  <2>2. QED
    BY <1>1, <1>5, <2>1 DEF Positions, EarlyRunsDraft, Drafting, TypeOK
<1>14. CancelledWasAsked'
  BY <1>1, <1>4, <1>5, <1>7 DEF Positions, CancelledWasAsked
<1>15. QED
  BY <1>6, <1>10, <1>11, <1>12, <1>13, <1>14, PTL DEF Positions
-------------------------------------------------------------------------------
(* Publishing, closing and claiming.                                        *)

\* The first publication of a job files its key in the same transaction.
LEMMA PublishNewKeeps ==
  ASSUME IInv, NEW w \in Workers, PublishNew(w)
  PROVE  IInv'
<1> USE Parts
<1> DEFINE j == run[w].job
           p == Compiled(w)
           s == Kept(run[w], p)
<1>1. /\ run[w].pc = "publish" /\ Stored(<<"job", j>>) = {}
      /\ keys' = keys \cup {[key |-> <<"job", j>>, hash |-> p]}
      /\ published' = [published EXCEPT ![j] = Append(@, p)]
      /\ run' = [run EXCEPT ![w] = s]
      /\ UNCHANGED <<row, early, interruptions>>
  BY DEF PublishNew, Become, KeyOf
<1>2. /\ run[w] \in Runs /\ j \in Jobs /\ run[w].stage = "publishing"
      /\ row[j].status \in {"running"} \cup Terminal
  BY <1>1, RunType DEF Claims, Positions, PublishersPublish
<1>3. p \in Projects /\ p # None
  <2>1. p \in Projects
    BY <1>2, InterruptionsAssumption DEF Compiled, Projects, Runs, MaxClaims
  <2>2. QED
    BY <2>1, NoneAssumption
<1> HIDE DEF p
<1>4. published[j] = <<>>
  BY <1>1, <1>2 DEF Claims, LedgerAgrees
<1>5. /\ s \in Runs /\ s.pc = "remember" /\ s.stage = "publishing" /\ s.project = p
      /\ s.job = j /\ s.claim = run[w].claim
  BY <1>2, <1>3 DEF Kept, Runs, PCs
<1> HIDE DEF s
<1>6. run'[w] = s /\ \A v \in Workers : v # w => run'[v] = run[v]
  BY <1>1 DEF TypeOK
<1>7. /\ published' \in [Jobs -> Seq(Projects)]
      /\ published'[j] = <<p>>
      /\ \A k \in Jobs : k # j => published'[k] = published[k]
  <2>1. published \in [Jobs -> Seq(Projects)]
    BY DEF TypeOK
  <2>2. Append(published[j], p) = <<p>> /\ <<p>> \in Seq(Projects)
    BY <1>3, <1>4
  <2>3. QED
    BY <1>1, <1>2, <2>1, <2>2
<1>8. TypeOK'
  <2>1. run' \in [Workers -> Runs]
    BY <1>1, <1>5 DEF TypeOK
  <2>2. keys' \subseteq [key : {"job"} \X Jobs, hash : Projects]
    BY <1>1, <1>2, <1>3 DEF TypeOK
  <2>3. QED
    BY <1>1, <1>7, <2>1, <2>2 DEF TypeOK
<1>9. LedgerAgrees'
  <2>1. \A k \in Jobs : published'[k] = <<>> \/ \E q \in Projects : published'[k] = <<q>>
    BY <1>3, <1>7 DEF Claims, LedgerAgrees
  <2>2. \A k \in Jobs : published'[k] # <<>> => Stored(<<"job", k>>)' # {}
    <3>1. ASSUME NEW k \in Jobs, published'[k] # <<>>
          PROVE  \E e \in keys' : e.key = <<"job", k>>
      <4>1. CASE k = j
        <5>1. [key |-> <<"job", j>>, hash |-> p] \in keys'
          BY <1>1
        <5>2. [key |-> <<"job", j>>, hash |-> p].key = <<"job", k>>
          BY <4>1
        <5>3. QED
          BY <5>1, <5>2
      <4>2. CASE k # j
        BY <1>1, <1>7, <3>1, <4>2 DEF Claims, LedgerAgrees, Stored
      <4>3. QED
        BY <4>1, <4>2
    <3>2. QED
      BY <3>1 DEF Stored
  <2>3. ASSUME NEW e \in keys', NEW k \in Jobs, e.key = <<"job", k>>
        PROVE  published'[k] = <<e.hash>>
    <3>1. CASE e \in keys
      <4>1. k # j
        BY <1>1, <2>3, <3>1 DEF Stored
      <4>2. QED
        BY <1>7, <2>3, <3>1, <4>1 DEF Claims, LedgerAgrees
    <3>2. CASE e = [key |-> <<"job", j>>, hash |-> p]
      BY <1>7, <2>3, <3>2
    <3>3. QED
      BY <1>1, <3>1, <3>2
  <2>4. QED
    BY <2>1, <2>2, <2>3 DEF LedgerAgrees
<1>10. Claims'
  <2>1. RunsAreClaimed'
    <3>1. run[w] # Idle
      BY <1>1 DEF Idle
    <3>2. ASSUME NEW v \in Workers, run'[v] # Idle
          PROVE  /\ run'[v].job \in Jobs /\ run'[v].pc # "idle"
                 /\ run'[v].claim <= row[run'[v].job].runner
                 /\ row[run'[v].job].status \in {"running"} \cup Terminal
      BY <1>2, <1>5, <1>6, <3>1, <3>2 DEF Claims, RunsAreClaimed
    <3>3. row' = row
      BY <1>1
    <3>4. QED
      BY <3>2, <3>3 DEF RunsAreClaimed, Terminal
  <2>2. ClaimsAreUnique'
    BY <1>5, <1>6 DEF Claims, ClaimsAreUnique
  <2>3. OwnersAreRunning'
    BY <1>1, <1>5, <1>6 DEF Claims, OwnersAreRunning, Owns
  <2>4. PublishersAreClaimed' /\ SuccessIsPublished'
    BY <1>1, <1>2, <1>4, <1>7
    DEF Claims, PublishersAreClaimed, SuccessIsPublished, Terminal
  <2>5. AbsentIsBlank'
    BY <1>1 DEF Claims, AbsentIsBlank
  <2>6. QED
    BY <1>9, <2>1, <2>2, <2>3, <2>4, <2>5 DEF Claims
<1>11. PublishersPublish'
  BY <1>5, <1>6 DEF Positions, PublishersPublish
<1>12. RunsCarryPublished'
  <2>1. ASSUME NEW v \in Workers, run'[v].project # None
        PROVE  published'[run'[v].job] = <<run'[v].project>>
    <3>1. CASE v = w
      BY <1>5, <1>6, <1>7, <3>1
    <3>2. CASE v # w
      <4>1. published[run[v].job] = <<run[v].project>>
        BY <1>6, <2>1, <3>2 DEF Positions, RunsCarryPublished
      <4>2. run[v].job \in Jobs /\ run[v].job # j
        <5>1. run[v] # Idle
          BY <1>6, <2>1, <3>2 DEF Idle
        <5>2. run[v].job \in Jobs
          BY <5>1 DEF Claims, RunsAreClaimed
        <5>3. <<run[v].project>> # <<>>
          OBVIOUS
        <5>4. QED
          BY <1>4, <4>1, <5>2, <5>3
      <4>3. QED
        BY <1>6, <1>7, <3>2, <4>1, <4>2
    <3>3. QED
      BY <3>1, <3>2
  <2>2. QED
    BY <1>3, <1>5, <1>6, <2>1 DEF Positions, RunsCarryPublished
<1>13. StageShowsOwner'
  BY <1>1, <1>2, <1>5, <1>6 DEF Positions, StageShowsOwner, Owns, Terminal
<1>14. EarlyRunsDraft'
  <2>1. j \notin early
    BY <1>1, <1>2 DEF Positions, EarlyRunsDraft, Drafting
  <2>2. QED
    BY <1>1, <1>5, <1>6, <2>1 DEF Positions, EarlyRunsDraft, Drafting
<1>15. CancelledWasAsked'
  BY <1>1, <1>5, <1>6 DEF Positions, CancelledWasAsked
<1>16. QED
  BY <1>8, <1>10, <1>11, <1>12, <1>13, <1>14, <1>15, PTL DEF Positions

\* The closing write of a run that lost its claim writes nothing.
LEMMA FinishLateKeeps ==
  ASSUME IInv, NEW w \in Workers, FinishJob(w), ~Owns(w)
  PROVE  IInv'
<1> USE Parts
<1>1. run[w].pc = "finish" /\ run' = [run EXCEPT ![w] = Idle]
  BY DEF FinishJob, Become
<1>2. /\ SameRows /\ UNCHANGED <<keys, published, early>>
      /\ interruptions' \in 0 .. MaxInterruptions
  BY UnchangedRows DEF FinishJob, TypeOK
<1>3. Idle.pc = "idle" /\ Idle.project = None
  BY DEF Idle
<1>4. QED
  BY <1>1, <1>2, <1>3, IdleType, OneRunMoves

\* The closing write of the run that holds the claim ends the job.
LEMMA FinishKeeps ==
  ASSUME IInv, NEW w \in Workers, FinishJob(w), Owns(w)
  PROVE  IInv'
<1> USE Parts
<1> DEFINE j == run[w].job
           o == run[w].outcome
           q == Ended(row[j], run[w])
<1>1. /\ run[w].pc = "finish" /\ run' = [run EXCEPT ![w] = Idle]
      /\ row' = [row EXCEPT ![j] = q]
      /\ UNCHANGED <<keys, published, early, interruptions>>
  BY DEF FinishJob, Become
<1>2. run[w] \in Runs /\ j \in Jobs /\ row[j] \in Rows /\ o \in Outcomes
  BY <1>1, RunType DEF Claims, Runs
<1>3. row[j].status = "running"
  BY <1>2 DEF Claims, OwnersAreRunning
<1>4. StatusOf(o) \in Terminal /\ StatusOf(o) \in Statuses
  BY <1>2 DEF StatusOf, Outcomes, Terminal, Statuses
<1>5. /\ q \in Rows /\ q.status = StatusOf(o) /\ q.stage = "done"
      /\ q.runner = row[j].runner /\ q.cancel = row[j].cancel
      /\ o = "succeeded" => q.project = run[w].project
  BY <1>2, <1>4 DEF Rows, Runs, Ended
<1> HIDE DEF q
<1>6. run'[w] = Idle /\ \A v \in Workers : v # w => run'[v] = run[v]
  BY <1>1 DEF TypeOK
<1>7. row' \in [Jobs -> Rows] /\ row'[j] = q /\ \A k \in Jobs : k # j => row'[k] = row[k]
  BY <1>1, <1>2, <1>5 DEF TypeOK
<1>8. Idle.pc = "idle" /\ Idle.job = None /\ Idle.project = None /\ None \notin Jobs
  BY JobsAssumption DEF Idle
<1>9. TypeOK'
  BY <1>1, <1>7, IdleType DEF TypeOK
\* Another run of the job holds an older claim.
<1>10. \A v \in Workers : v # w /\ run[v].job = j => run[v].claim # row[j].runner
  BY <1>2, <1>8 DEF Claims, ClaimsAreUnique, Owns
<1>11. RunsAreClaimed'
  <2>1. ASSUME NEW v \in Workers, run'[v] # Idle
        PROVE  /\ run'[v].job \in Jobs /\ run'[v].pc # "idle"
               /\ run'[v].claim <= row'[run'[v].job].runner
               /\ row'[run'[v].job].status \in {"running"} \cup Terminal
    <3>1. v # w /\ run'[v] = run[v]
      BY <1>6, <2>1
    <3>2. CASE run[v].job = j
      BY <1>4, <1>5, <1>7, <2>1, <3>1, <3>2 DEF Claims, RunsAreClaimed
    <3>3. CASE run[v].job # j
      BY <1>7, <2>1, <3>1, <3>3 DEF Claims, RunsAreClaimed
    <3>4. QED
      BY <3>2, <3>3
  <2>2. QED
    BY <2>1 DEF RunsAreClaimed, Terminal
<1>12. ClaimsAreUnique'
  BY <1>6, <1>8 DEF Claims, ClaimsAreUnique
<1>13. OwnersAreRunning'
  BY <1>5, <1>6, <1>7, <1>8, <1>10 DEF Claims, OwnersAreRunning, Owns
<1>14. LedgerAgrees'
  BY <1>1 DEF Claims, LedgerAgrees, Stored
<1>15. PublishersAreClaimed'
  BY <1>1, <1>4, <1>5, <1>7 DEF Claims, PublishersAreClaimed, Terminal
<1>16. SuccessIsPublished'
  <2>1. o = "succeeded" => published[j] = <<run[w].project>>
    BY <1>1 DEF Positions, RunsCarryPublished
  <2>2. StatusOf(o) = "succeeded" => o = "succeeded"
    BY DEF StatusOf
  <2>3. QED
    BY <1>1, <1>5, <1>7, <2>1, <2>2 DEF Claims, SuccessIsPublished
<1>17. AbsentIsBlank'
  BY <1>4, <1>5, <1>7 DEF Claims, AbsentIsBlank, Terminal
<1>18. PublishersPublish' /\ RunsCarryPublished'
  <2>1. published' = published
    BY <1>1
  <2>2. QED
    BY <1>6, <1>8, <2>1 DEF Positions, PublishersPublish, RunsCarryPublished
<1>19. StageShowsOwner'
  <2>1. ASSUME NEW v \in Workers, Owns(v)',
               run'[v].pc \in {"number", "append", "call", "publish", "remember"}
        PROVE  row'[run'[v].job].stage = run'[v].stage
    <3>1. v # w /\ run'[v] = run[v]
      BY <1>6, <1>8, <2>1
    <3>2. run[v].job \in Jobs
      BY <1>8, <2>1, <3>1 DEF Claims, RunsAreClaimed
    <3>3. run[v].job # j
      BY <1>5, <1>7, <1>10, <2>1, <3>1 DEF Owns
    <3>4. QED
      BY <1>7, <2>1, <3>1, <3>2, <3>3 DEF Positions, StageShowsOwner, Owns
  <2>2. \A k \in Jobs : row'[k].status \in Terminal => row'[k].stage = "done"
    BY <1>5, <1>7 DEF Positions, StageShowsOwner
  <2>3. QED
    BY <2>1, <2>2 DEF StageShowsOwner, Terminal
<1>20. EarlyRunsDraft'
  <2>1. \A k \in early : row'[k].cancel
    BY <1>5, <1>7 DEF Positions, EarlyRunsDraft, TypeOK
  <2>2. \A k \in early, v \in Workers :
          run'[v].job = k => Drafting(run'[v]) \/ run'[v].pc = "finish"
    BY <1>6, <1>8 DEF Positions, EarlyRunsDraft, TypeOK
  <2>3. early' = early
    BY <1>1
  <2>4. QED
    BY <2>1, <2>2, <2>3 DEF EarlyRunsDraft, Drafting
<1>21. CancelledWasAsked'
  <2>1. o = "cancelled" => row[j].cancel
    BY <1>1 DEF Positions, CancelledWasAsked
  <2>2. StatusOf(o) = "cancelled" => o = "cancelled"
    BY DEF StatusOf
  <2>3. \A k \in Jobs : row'[k].status = "cancelled" => row'[k].cancel
    BY <1>5, <1>7, <2>1, <2>2 DEF Positions, CancelledWasAsked
  <2>4. ASSUME NEW v \in Workers, run'[v].pc = "finish", run'[v].outcome = "cancelled"
        PROVE  row'[run'[v].job].cancel
    <3>1. v # w /\ run'[v] = run[v] /\ run[v].job \in Jobs
      BY <1>6, <1>8, <2>4 DEF Claims, RunsAreClaimed
    <3>2. QED
      BY <1>5, <1>7, <2>4, <3>1 DEF Positions, CancelledWasAsked
  <2>5. QED
    BY <2>3, <2>4 DEF CancelledWasAsked
<1>22. QED
  BY <1>9, <1>11, <1>12, <1>13, <1>14, <1>15, <1>16, <1>17, <1>18, <1>19, <1>20,
     <1>21, PTL DEF Positions, Claims

\* A claim is issued under a number no run of the job holds.
LEMMA ClaimKeeps ==
  ASSUME IInv, NEW w \in Workers, NEW j \in Jobs, ClaimJob(w, j)
  PROVE  IInv'
<1> USE Parts
<1> DEFINE q == Taken(row[j])
           s == [Idle EXCEPT !.job = j, !.claim = row[j].runner + 1, !.pc = "open"]
<1>1. /\ run[w].pc = "idle" /\ run' = [run EXCEPT ![w] = s]
      /\ row[j].status \in {"queued", "running"} /\ row[j].runner < MaxClaims
      /\ row' = [row EXCEPT ![j] = q]
      /\ UNCHANGED <<keys, published, early, interruptions>>
  BY DEF ClaimJob, Claimable
<1>2. row[j] \in Rows /\ row[j].runner \in 0 .. MaxClaims /\ MaxClaims \in Nat
  BY InterruptionsAssumption DEF TypeOK, Rows, MaxClaims
<1>3. row[j].runner + 1 \in 0 .. MaxClaims
  BY <1>1, <1>2
<1>4. /\ q \in Rows /\ q.status = "running" /\ q.runner = row[j].runner + 1
      /\ q.cancel = row[j].cancel
  BY <1>2, <1>3 DEF Rows, Statuses, Taken
<1>5. /\ s \in Runs /\ s.pc = "open" /\ s.stage = "open" /\ s.project = None
      /\ s.job = j /\ s.claim = row[j].runner + 1
  BY <1>3, IdleType DEF Idle, Runs, PCs
<1> HIDE DEF q, s
<1>6. run'[w] = s /\ \A v \in Workers : v # w => run'[v] = run[v]
  BY <1>1 DEF TypeOK
<1>7. row' \in [Jobs -> Rows] /\ row'[j] = q /\ \A k \in Jobs : k # j => row'[k] = row[k]
  BY <1>1, <1>4 DEF TypeOK
<1>8. Idle.pc = "idle" /\ Idle.job = None /\ None \notin Jobs
  BY JobsAssumption DEF Idle
<1>9. TypeOK'
  BY <1>1, <1>5, <1>7 DEF TypeOK
\* The other runs of the job hold older claims.
<1>10. \A v \in Workers : run[v].job = j => /\ run[v].claim \in Nat
                                            /\ run[v].claim <= row[j].runner
                                            /\ run[v].claim # row[j].runner + 1
  <2>1. ASSUME NEW v \in Workers, run[v].job = j
        PROVE  run[v].claim \in 0 .. MaxClaims /\ run[v].claim <= row[j].runner
    <3>1. run[v] # Idle
      BY <1>8, <2>1
    <3>2. QED
      BY <2>1, <3>1 DEF Claims, RunsAreClaimed, TypeOK, Runs
  <2>2. QED
    BY <1>2, <2>1
<1>11. RunsAreClaimed'
  <2>1. ASSUME NEW v \in Workers, run'[v] # Idle
        PROVE  /\ run'[v].job \in Jobs /\ run'[v].pc # "idle"
               /\ run'[v].claim <= row'[run'[v].job].runner
               /\ row'[run'[v].job].status \in {"running"} \cup Terminal
    <3>1. CASE v = w
      BY <1>2, <1>4, <1>5, <1>6, <1>7, <3>1
    <3>2. CASE v # w /\ run[v].job = j
      <4>1. run[v].pc # "idle"
        BY <1>6, <2>1, <3>2 DEF Claims, RunsAreClaimed
      <4>2. run[v].claim <= q.runner
        BY <1>2, <1>4, <1>10, <3>2
      <4>3. QED
        BY <1>4, <1>6, <1>7, <3>2, <4>1, <4>2
    <3>3. CASE v # w /\ run[v].job # j
      BY <1>6, <1>7, <2>1, <3>3 DEF Claims, RunsAreClaimed
    <3>4. QED
      BY <3>1, <3>2, <3>3
  <2>2. QED
    BY <2>1 DEF RunsAreClaimed, Terminal
<1>12. ClaimsAreUnique'
  BY <1>5, <1>6, <1>10 DEF Claims, ClaimsAreUnique
<1>13. OwnersAreRunning'
  BY <1>4, <1>5, <1>6, <1>7, <1>8 DEF Claims, OwnersAreRunning, Owns
<1>14. LedgerAgrees'
  BY <1>1 DEF Claims, LedgerAgrees, Stored
<1>15. PublishersAreClaimed' /\ SuccessIsPublished' /\ AbsentIsBlank'
  BY <1>1, <1>4, <1>7
  DEF Claims, PublishersAreClaimed, SuccessIsPublished, AbsentIsBlank, Terminal
<1>16. PublishersPublish'
  BY <1>5, <1>6 DEF Positions, PublishersPublish
<1>17. RunsCarryPublished'
  <2>1. published' = published
    BY <1>1
  <2>2. QED
    BY <1>5, <1>6, <2>1 DEF Positions, RunsCarryPublished
<1>18. StageShowsOwner'
  <2>1. ASSUME NEW v \in Workers, Owns(v)',
               run'[v].pc \in {"number", "append", "call", "publish", "remember"}
        PROVE  row'[run'[v].job].stage = run'[v].stage
    <3>1. v # w /\ run'[v] = run[v]
      BY <1>5, <1>6, <2>1
    <3>2. run[v].job \in Jobs
      BY <1>8, <2>1, <3>1 DEF Claims, RunsAreClaimed
    <3>3. run[v].job # j
      BY <1>4, <1>7, <1>10, <2>1, <3>1 DEF Owns
    <3>4. QED
      BY <1>7, <2>1, <3>1, <3>2, <3>3 DEF Positions, StageShowsOwner, Owns
  <2>2. \A k \in Jobs : row'[k].status \in Terminal => row'[k].stage = "done"
    BY <1>4, <1>7 DEF Positions, StageShowsOwner, Terminal
  <2>3. QED
    BY <2>1, <2>2 DEF StageShowsOwner, Terminal
<1>19. EarlyRunsDraft'
  <2>1. \A k \in early : row'[k].cancel
    BY <1>4, <1>7 DEF Positions, EarlyRunsDraft, TypeOK
  <2>2. Drafting(s)
    BY <1>5 DEF Drafting
  <2>3. \A k \in early, v \in Workers :
          run'[v].job = k => Drafting(run'[v]) \/ run'[v].pc = "finish"
    BY <1>6, <2>2 DEF Positions, EarlyRunsDraft
  <2>4. early' = early
    BY <1>1
  <2>5. QED
    BY <2>1, <2>3, <2>4 DEF EarlyRunsDraft, Drafting
<1>20. CancelledWasAsked'
  <2>1. ASSUME NEW v \in Workers, run'[v].pc = "finish", run'[v].outcome = "cancelled"
        PROVE  row'[run'[v].job].cancel
    <3>1. run'[v] = run[v] /\ run[v].job \in Jobs
      BY <1>5, <1>6, <1>8, <2>1 DEF Claims, RunsAreClaimed
    <3>2. QED
      BY <1>4, <1>7, <2>1, <3>1 DEF Positions, CancelledWasAsked
  <2>2. \A k \in Jobs : row'[k].status = "cancelled" => row'[k].cancel
    BY <1>4, <1>7 DEF Positions, CancelledWasAsked
  <2>3. QED
    BY <2>1, <2>2 DEF CancelledWasAsked
<1>21. QED
  BY <1>9, <1>11, <1>12, <1>13, <1>14, <1>15, <1>16, <1>17, <1>18, <1>19, <1>20,
     PTL DEF Positions, Claims
-------------------------------------------------------------------------------
(* The invariant, and what follows from it.                                 *)

\* The empty queue satisfies the invariant.
LEMMA InitHolds == Init => IInv
<1> SUFFICES ASSUME Init PROVE IInv
  OBVIOUS
<1>1. /\ \A j \in Jobs : row[j] = Absent /\ published[j] = <<>>
      /\ \A w \in Workers : run[w] = Idle
      /\ keys = {} /\ early = {}
  BY DEF Init
<1>2. /\ Absent.status = "absent" /\ Idle.pc = "idle" /\ Idle.job = None
      /\ Idle.project = None
  BY DEF Absent, Idle
<1>3. Absent \in Rows
  <2>1. 0 \in 0 .. MaxClaims
    BY InterruptionsAssumption DEF MaxClaims
  <2>2. QED
    BY <2>1 DEF Absent, Rows, Statuses, Kinds
<1>4. TypeOK
  <2>1. row \in [Jobs -> Rows] /\ run \in [Workers -> Runs]
    BY <1>3, IdleType DEF Init
  <2>2. published \in [Jobs -> Seq(Projects)]
    BY DEF Init
  <2>3. interruptions \in 0 .. MaxInterruptions
    BY InterruptionsAssumption DEF Init
  <2>4. QED
    BY <1>1, <2>1, <2>2, <2>3 DEF TypeOK
<1>5. Claims
  BY <1>1, <1>2, JobsAssumption
  DEF Claims, RunsAreClaimed, ClaimsAreUnique, OwnersAreRunning, LedgerAgrees,
      PublishersAreClaimed, SuccessIsPublished, AbsentIsBlank
<1>6. Positions
  BY <1>1, <1>2
  DEF Positions, PublishersPublish, RunsCarryPublished, StageShowsOwner,
      EarlyRunsDraft, CancelledWasAsked, Terminal
<1>7. QED
  BY <1>4, <1>5, <1>6, Parts

\* Every step of Conveyor preserves the invariant: one step per action.
LEMMA NextKeeps == IInv /\ [Next]_vars => IInv'
<1> SUFFICES ASSUME IInv, [Next]_vars PROVE IInv'
  OBVIOUS
<1>1. ASSUME NEW w \in Workers, RunStep(w) PROVE IInv'
  <2>1. CASE QuietStep(w)
    BY <2>1, QuietKeeps
  <2>2. CASE AppendStep(w) /\ ~run[w].clash
    BY <2>2, AppendStepKeeps
  <2>3. CASE FinishJob(w)
    BY <2>3, FinishKeeps, FinishLateKeeps
  <2>4. CASE Heartbeat(w) \/ SetStage(w) \/ StartStep(w)
    BY <2>4, HeartbeatKeeps, SetStageKeeps, StartStepKeeps
  <2>5. CASE PublishNew(w) \/ PublishReplay(w) \/ Remember(w)
    BY <2>5, PublishNewKeeps, PublishReplayKeeps, RememberKeeps
  <2>6. QED
    BY <1>1, <2>1, <2>2, <2>3, <2>4, <2>5 DEF RunStep, Publish, QuietStep
<1>2. ASSUME NEW w \in Workers, WorkerStep(w) \/ Interrupt(w) PROVE IInv'
  BY <1>1, <1>2, ClaimKeeps, InterruptKeeps DEF WorkerStep
<1>3. ASSUME NEW j \in Jobs, ClientStep(j) \/ LeaseLapses(j) \/ LeaseOverrun(j)
      PROVE  IInv'
  BY <1>3, CreateJobKeeps, RequestCancelKeeps, LeaseKeeps DEF ClientStep
<1>4. CASE UNCHANGED vars
  <2>1. /\ TypeOK' /\ Claims' /\ SameRows
        /\ UNCHANGED <<row, run, keys, published, early, interruptions>>
    BY <1>4, Parts, UnchangedRows, ClaimsCarryOver
    DEF vars, TypeOK, Proceeds, SameRows
  <2>2. Positions'
    BY <2>1, Parts
    DEF Positions, PublishersPublish, RunsCarryPublished, StageShowsOwner, Owns,
        EarlyRunsDraft, Drafting, CancelledWasAsked
  <2>3. QED
    BY <2>1, <2>2, Parts, PTL
<1>5. QED
  BY <1>2, <1>3, <1>4 DEF Next

\* The inductive invariant holds in every reachable state of Conveyor, for any
\* jobs, workers, repair rounds and interruptions.
THEOREM Invariance == Spec => []IInv
  BY InitHolds, NextKeeps, PTL DEF Spec

\* Rows, runs, keys and publications keep their types (MaxClaims suffices for the
\* claims, MaxRepairs + 1 for the iterations of execute).
THEOREM TypeCorrect == Spec => []TypeOK
  BY Invariance, PTL DEF IInv

\* One publication per job, for any number of workers, claims and faults.
THEOREM AtMostOnePublication == Spec => []PublishedOnce
<1>1. IInv => PublishedOnce
  <2> SUFFICES ASSUME IInv, NEW j \in Jobs PROVE Len(published[j]) <= 1
    BY DEF PublishedOnce
  <2>1. published[j] = <<>> \/ \E p \in Projects : published[j] = <<p>>
    BY DEF IInv, LedgerAgrees
  <2>2. CASE published[j] = <<>>
    BY <2>2
  <2>3. CASE \E p \in Projects : published[j] = <<p>>
    <3>1. PICK p \in Projects : published[j] = <<p>>
      BY <2>3
    <3>2. Len(<<p>>) = 1
      OBVIOUS
    <3>3. QED
      BY <3>1, <3>2
  <2>4. QED
    BY <2>1, <2>2, <2>3
<1>2. QED
  BY <1>1, Invariance, PTL

\* A succeeded job reports what was published for it.
THEOREM SuccessesArePublished == Spec => []SuccessIsPublished
  BY Invariance, PTL DEF IInv

\* No worker without the claim writes the stage clients poll.
THEOREM StagesShowOwners == Spec => []StageShowsOwner
  BY Invariance, PTL DEF IInv

\* Which statements touch the row of a job, and that none touches one that ended.
LEMMA EndedRowsStay ==
  ASSUME IInv, [Next]_vars, NEW j \in Jobs, row[j].status \in Terminal
  PROVE  row'[j] = row[j]
<1> USE Parts
<1>1. row \in [Jobs -> Rows] /\ row[j].status \notin {"absent", "queued", "running"}
  BY DEF TypeOK, Terminal
<1>2. \A w \in Workers : run[w].job \in Jobs /\ Owns(w) => run[w].job # j
  BY <1>1 DEF Claims, OwnersAreRunning
<1>3. ASSUME NEW w \in Workers, RunStep(w) PROVE row'[j] = row[j]
  <2>1. CASE Heartbeat(w) \/ SetStage(w)
    <3>1. run[w].job \in Jobs /\ Owns(w)
      BY <2>1, RunType DEF Heartbeat, SetStage, Claims
    <3>2. run[w].job # j
      BY <1>2, <3>1
    <3>3. QED
      BY <1>1, <2>1, <3>2 DEF Heartbeat, SetStage
  <2>2. CASE FinishJob(w)
    <3>1. run[w].job \in Jobs
      BY <2>2, RunType DEF FinishJob, Claims
    <3>2. Owns(w) => run[w].job # j
      BY <1>2, <3>1
    <3>3. QED
      BY <1>1, <2>2, <3>2 DEF FinishJob
  <2>3. QED
    BY <1>3, <2>1, <2>2
    DEF RunStep, Open, HeartbeatLost, SetStageLost, StartStep, AppendStep, Answer,
        PolicyScreen, Publish, PublishNew, PublishReplay, PublishConflict,
        PublishFailed, Remember
<1>4. ASSUME NEW w \in Workers, NEW k \in Jobs, ClaimJob(w, k) PROVE row'[j] = row[j]
  BY <1>1, <1>4 DEF ClaimJob, Claimable
<1>5. ASSUME NEW k \in Jobs, ClientStep(k) PROVE row'[j] = row[j]
  BY <1>1, <1>5 DEF ClientStep, CreateJob, RequestCancel
<1>6. ASSUME NEW k \in Jobs, LeaseLapses(k) \/ LeaseOverrun(k) PROVE row'[j] = row[j]
  BY <1>1, <1>6 DEF LeaseLapses, LeaseOverrun
<1>7. CASE UNCHANGED vars
  BY <1>7 DEF vars
<1>8. QED
  BY <1>3, <1>4, <1>5, <1>6, <1>7 DEF Next, WorkerStep, Interrupt

\* A job that ended stays as it ended.
THEOREM OutcomesAreFinal == Spec => OutcomeFinal
<1>1. IInv /\ [Next]_vars =>
        [\A j \in Jobs : row[j].status \in Terminal => row'[j] = row[j]]_vars
  BY EndedRowsStay
<1>2. QED
  BY <1>1, Invariance, PTL DEF Spec, OutcomeFinal

\* Only PublishNew writes into the project store.
LEMMA OnlyPublishNewPublishes ==
  ASSUME [Next]_vars
  PROVE  published' = published \/ \E w \in Workers : PublishNew(w)
  BY DEF Next, WorkerStep, RunStep, ClientStep, Open, HeartbeatLost, Heartbeat,
         SetStageLost, SetStage, StartStep, AppendStep, Answer, PolicyScreen,
         Publish, PublishReplay, PublishConflict, PublishFailed, Remember,
         FinishJob, ClaimJob, CreateJob, RequestCancel, LeaseLapses, LeaseOverrun,
         Interrupt, vars

\* A job cancelled while its runs were drafting publishes nothing any more.
THEOREM EarlyCancelsStop == Spec => EarlyCancelStops
<1>1. ASSUME IInv, [Next]_vars, NEW j \in Jobs, j \in early
      PROVE  published'[j] = published[j]
  <2>1. CASE published' = published
    BY <2>1
  <2>2. ASSUME NEW w \in Workers, PublishNew(w) PROVE published'[j] = published[j]
    <3>1. run[w].pc = "publish" /\ run[w].stage = "publishing"
      BY <1>1, <2>2, Parts DEF PublishNew, Positions, PublishersPublish
    <3>2. ~Drafting(run[w]) /\ run[w].pc # "finish"
      BY <3>1 DEF Drafting
    <3>3. run[w].job # j
      BY <1>1, <3>2, Parts DEF Positions, EarlyRunsDraft
    <3>4. QED
      BY <1>1, <2>2, <3>3, Parts DEF PublishNew, TypeOK
  <2>3. QED
    BY <1>1, <2>1, <2>2, OnlyPublishNewPublishes
<1>2. IInv /\ [Next]_vars =>
        [\A j \in Jobs : j \in early => published'[j] = published[j]]_vars
  BY <1>1
<1>3. QED
  BY <1>2, Invariance, PTL DEF Spec, EarlyCancelStops
-------------------------------------------------------------------------------
(* The conveyor implements JobLifecycle.                                    *)

\* What a client of the queue sees of a row.
Seen(j) == <<row[j].status, row[j].cancel, row[j].project>>

\* A step that keeps status, cancel flag, result and publications stutters for a client.
LEMMA UnseenSteps ==
  ASSUME \A j \in Jobs : Seen(j)' = Seen(j), published' = published
  PROVE  UNCHANGED Lifecycle!vars
<1>1. \A j \in Jobs : /\ row'[j].status = row[j].status
                      /\ row'[j].cancel = row[j].cancel
                      /\ row'[j].project = row[j].project
  BY DEF Seen
<1>2. [j \in Jobs |-> row'[j].status] = [j \in Jobs |-> row[j].status]
  BY <1>1
<1>3. {j \in Jobs : row'[j].cancel} = {j \in Jobs : row[j].cancel}
  BY <1>1
<1>4. [j \in Jobs |-> IF row'[j].status = "succeeded" THEN row'[j].project ELSE None]
        = [j \in Jobs |-> IF row[j].status = "succeeded" THEN row[j].project ELSE None]
  BY <1>1
<1>5. QED
  BY <1>2, <1>3, <1>4 DEF Lifecycle!vars

\* What a client sees of one row changes in one entry of each of its functions.
LEMMA OneRowSeen ==
  ASSUME row \in [Jobs -> Rows], NEW j \in Jobs, NEW q, row' = [row EXCEPT ![j] = q]
  PROVE  /\ [k \in Jobs |-> row'[k].status]
              = [[k \in Jobs |-> row[k].status] EXCEPT ![j] = q.status]
         /\ {k \in Jobs : row'[k].cancel}
              = {k \in Jobs : IF k = j THEN q.cancel ELSE row[k].cancel}
         /\ [k \in Jobs |-> IF row'[k].status = "succeeded" THEN row'[k].project ELSE None]
              = [[k \in Jobs |-> IF row[k].status = "succeeded" THEN row[k].project ELSE None]
                   EXCEPT ![j] = IF q.status = "succeeded" THEN q.project ELSE None]
<1>1. row'[j] = q /\ \A k \in Jobs : k # j => row'[k] = row[k]
  OBVIOUS
<1>2. QED
  BY <1>1

\* CreateJob is the Queue of the abstract specification.
LEMMA CreateJobQueues ==
  ASSUME IInv, NEW j \in Jobs, NEW kind \in Kinds, CreateJob(j, kind)
  PROVE  Lifecycle!Queue(j)
<1> USE Parts
<1> DEFINE q == Queued(j, kind)
<1>1. /\ row' = [row EXCEPT ![j] = q]
      /\ q.status = "queued" /\ q.cancel = FALSE
  <2>1. q.status = "queued" /\ q.cancel = FALSE
    BY DEF Queued, Absent
  <2>2. QED
    BY <2>1 DEF CreateJob
<1> HIDE DEF q
<1>2. row[j].status = "absent" /\ row[j].cancel = FALSE
  <2>1. row[j] = Absent
    BY DEF CreateJob, Claims, AbsentIsBlank
  <2>2. QED
    BY <2>1 DEF Absent
<1>3. row \in [Jobs -> Rows] /\ published' = published
  BY DEF TypeOK, CreateJob
<1>4. {k \in Jobs : row'[k].cancel} = {k \in Jobs : row[k].cancel}
  BY <1>1, <1>2, <1>3, OneRowSeen
<1>5. [k \in Jobs |-> row'[k].status] = [[k \in Jobs |-> row[k].status] EXCEPT ![j] = "queued"]
  BY <1>1, <1>3, OneRowSeen
<1>6. [k \in Jobs |-> IF row'[k].status = "succeeded" THEN row'[k].project ELSE None]
        = [k \in Jobs |-> IF row[k].status = "succeeded" THEN row[k].project ELSE None]
  BY <1>1, <1>2, <1>3
<1>7. QED
  BY <1>2, <1>3, <1>4, <1>5, <1>6 DEF Lifecycle!Queue

\* ClaimJob is its Take, or unseen when an abandoned job is taken over.
LEMMA ClaimTakes ==
  ASSUME IInv, NEW w \in Workers, NEW j \in Jobs, ClaimJob(w, j)
  PROVE  Lifecycle!Take(j) \/ UNCHANGED Lifecycle!vars
<1> USE Parts
<1>1. /\ row' = [row EXCEPT ![j] = Taken(row[j])]
      /\ row[j].status \in {"queued", "running"}
      /\ row \in [Jobs -> Rows] /\ published' = published
  BY DEF ClaimJob, Claimable, TypeOK
<1>2. /\ Taken(row[j]).status = "running" /\ Taken(row[j]).cancel = row[j].cancel
      /\ Taken(row[j]).project = row[j].project
  BY <1>1 DEF Taken, Rows
<1>3. CASE row[j].status = "running"
  <2>1. \A k \in Jobs : Seen(k)' = Seen(k)
    BY <1>1, <1>2, <1>3 DEF Seen
  <2>2. QED
    BY <1>1, <2>1, UnseenSteps
<1>4. CASE row[j].status = "queued"
  <2>1. {k \in Jobs : row'[k].cancel} = {k \in Jobs : row[k].cancel}
    BY <1>1, <1>2, OneRowSeen
  <2>2. [k \in Jobs |-> row'[k].status]
          = [[k \in Jobs |-> row[k].status] EXCEPT ![j] = "running"]
    BY <1>1, <1>2, OneRowSeen
  <2>3. [k \in Jobs |-> IF row'[k].status = "succeeded" THEN row'[k].project ELSE None]
          = [k \in Jobs |-> IF row[k].status = "succeeded" THEN row[k].project ELSE None]
    BY <1>1, <1>2, <1>4
  <2>4. QED
    BY <1>1, <1>4, <2>1, <2>2, <2>3 DEF Lifecycle!Take
<1>5. QED
  BY <1>1, <1>3, <1>4

\* RequestCancel is its Ask.
LEMMA RequestCancelAsks ==
  ASSUME IInv, NEW j \in Jobs, RequestCancel(j)
  PROVE  Lifecycle!Ask(j)
<1> USE Parts
<1>1. /\ row[j].status \in {"queued", "running"}
      /\ row' = [row EXCEPT ![j].cancel = TRUE]
      /\ row \in [Jobs -> Rows] /\ published' = published
  BY DEF RequestCancel, TypeOK
<1>2. /\ row'[j].cancel = TRUE /\ row'[j].status = row[j].status
      /\ row'[j].project = row[j].project
      /\ \A k \in Jobs : k # j => row'[k] = row[k]
  BY <1>1 DEF Rows
<1>3. {k \in Jobs : row'[k].cancel} = {k \in Jobs : row[k].cancel} \cup {j}
  BY <1>2
<1>4. [k \in Jobs |-> row'[k].status] = [k \in Jobs |-> row[k].status]
  BY <1>2
<1>5. [k \in Jobs |-> IF row'[k].status = "succeeded" THEN row'[k].project ELSE None]
        = [k \in Jobs |-> IF row[k].status = "succeeded" THEN row[k].project ELSE None]
  BY <1>2
<1>6. QED
  BY <1>1, <1>3, <1>4, <1>5 DEF Lifecycle!Ask

\* The first publication is its Land.
LEMMA PublishNewLands ==
  ASSUME IInv, NEW w \in Workers, PublishNew(w)
  PROVE  run[w].job \in Jobs /\ \E p \in Projects : Lifecycle!Land(run[w].job, p)
<1> USE Parts
<1> DEFINE j == run[w].job
           p == Compiled(w)
<1>1. /\ run[w].pc = "publish" /\ Stored(<<"job", j>>) = {}
      /\ published' = [published EXCEPT ![j] = Append(@, p)]
      /\ row' = row
  BY DEF PublishNew, KeyOf
<1>2. /\ run[w] \in Runs /\ j \in Jobs
      /\ row[j].status \in {"running"} \cup Terminal
  BY <1>1, RunType DEF Claims
<1>3. p \in Projects
  BY <1>2, InterruptionsAssumption DEF Compiled, Projects, Runs, MaxClaims
<1> HIDE DEF p
<1>4. published[j] = <<>>
  BY <1>1, <1>2 DEF Claims, LedgerAgrees
<1>5. Append(published[j], p) = <<p>>
  BY <1>4
<1>6. published' = [published EXCEPT ![j] = <<p>>]
  BY <1>1, <1>5
<1>7. row[j].status \notin {"absent", "queued"}
  BY <1>2 DEF Terminal
<1>8. Lifecycle!Land(j, p)
  BY <1>1, <1>2, <1>4, <1>6, <1>7 DEF Lifecycle!Land
<1>9. QED
  BY <1>2, <1>3, <1>8

\* FinishJob is its Succeed, Fail or Cancel, or unseen when the claim is lost.
LEMMA FinishEnds ==
  ASSUME IInv, NEW w \in Workers, FinishJob(w)
  PROVE  \/ UNCHANGED Lifecycle!vars
         \/ \E j \in Jobs :
              Lifecycle!Succeed(j) \/ Lifecycle!Fail(j) \/ Lifecycle!Cancel(j)
<1> USE Parts
<1>0. run[w].job \in Jobs
  BY RunType DEF FinishJob, Claims
<1>j. PICK j \in Jobs : j = run[w].job
  BY <1>0
<1> DEFINE o == run[w].outcome
           q == Ended(row[j], run[w])
<1>1. run[w].pc = "finish" /\ published' = published /\ row \in [Jobs -> Rows]
  BY DEF FinishJob, TypeOK
<1>2. run[w] \in Runs /\ row[j] \in Rows /\ o \in Outcomes
  BY <1>j, <1>1, RunType DEF Claims, Runs
<1>3. CASE ~Owns(w)
  BY <1>1, <1>3, UnseenSteps DEF FinishJob, Seen
<1>4. CASE Owns(w)
  <2>1. row[j].status = "running" /\ row' = [row EXCEPT ![j] = q]
    BY <1>j, <1>2, <1>4 DEF FinishJob, Claims, OwnersAreRunning
  <2>2. /\ q.status = StatusOf(o) /\ q.cancel = row[j].cancel
        /\ o = "succeeded" => q.project = run[w].project
    BY <1>2 DEF Ended, Rows
  <2> HIDE DEF q
  <2>3. {k \in Jobs : row'[k].cancel} = {k \in Jobs : row[k].cancel}
    BY <1>1, <1>2, <2>1, <2>2, OneRowSeen
  <2>4. [k \in Jobs |-> row'[k].status]
          = [[k \in Jobs |-> row[k].status] EXCEPT ![j] = StatusOf(o)]
    BY <1>1, <1>2, <2>1, <2>2, OneRowSeen
  <2>5. CASE o = "succeeded"
    <3>1. StatusOf(o) = "succeeded"
      BY <2>5 DEF StatusOf
    <3>2. run[w].project # None /\ published[j] = <<run[w].project>>
      BY <1>j, <1>1, <2>5 DEF Positions, RunsCarryPublished
    <3>3. published[j] # <<>> /\ published[j][1] = q.project
      BY <2>2, <2>5, <3>2
    <3>4. [k \in Jobs |-> IF row'[k].status = "succeeded" THEN row'[k].project ELSE None]
            = [[k \in Jobs |-> IF row[k].status = "succeeded" THEN row[k].project ELSE None]
                 EXCEPT ![j] = published[j][1]]
      BY <1>1, <1>2, <2>1, <2>2, <3>1, <3>3, OneRowSeen
    <3>5. QED
      BY <1>1, <1>2, <2>1, <2>3, <2>4, <3>1, <3>3, <3>4 DEF Lifecycle!Succeed
  <2>6. CASE o # "succeeded"
    <3>1. StatusOf(o) \in {"failed", "cancelled"}
      BY <1>2, <2>6 DEF StatusOf, Outcomes
    <3>2. [k \in Jobs |-> IF row'[k].status = "succeeded" THEN row'[k].project ELSE None]
            = [k \in Jobs |-> IF row[k].status = "succeeded" THEN row[k].project ELSE None]
      BY <1>1, <1>2, <2>1, <2>2, <3>1
    <3>3. CASE StatusOf(o) = "failed"
      BY <1>1, <1>2, <2>1, <2>3, <2>4, <3>2, <3>3 DEF Lifecycle!Fail
    <3>4. CASE StatusOf(o) = "cancelled"
      <4>1. o = "cancelled"
        BY <3>4 DEF StatusOf
      <4>2. row[j].cancel
        BY <1>j, <1>1, <4>1 DEF Positions, CancelledWasAsked
      <4>3. QED
        BY <1>1, <1>2, <2>1, <2>3, <2>4, <3>2, <3>4, <4>2 DEF Lifecycle!Cancel
    <3>5. QED
      BY <3>1, <3>3, <3>4
  <2>7. QED
    BY <1>2, <2>5, <2>6
<1>5. QED
  BY <1>3, <1>4

\* Every statement but the six above is invisible to a client of the queue.
LEMMA InvisibleSteps ==
  ASSUME IInv, NEW w \in Workers, RunStep(w), ~PublishNew(w), ~FinishJob(w)
  PROVE  UNCHANGED Lifecycle!vars
<1> USE Parts
<1>1. published' = published
  BY DEF RunStep, Publish, Open, HeartbeatLost, Heartbeat, SetStageLost, SetStage,
         StartStep, AppendStep, Answer, PolicyScreen, PublishReplay,
         PublishConflict, PublishFailed, Remember
<1>2. CASE Heartbeat(w) \/ SetStage(w)
  <2>1. run[w].job \in Jobs /\ run[w].stage \in Stages
    BY <1>2, RunType DEF Heartbeat, SetStage, Claims, Runs
  <2>2. row[run[w].job] \in Rows
    BY <2>1 DEF TypeOK
  <2>3. \A j \in Jobs : Seen(j)' = Seen(j)
    <3>1. PICK b, s : \/ row' = [row EXCEPT ![run[w].job].leased = b]
                      \/ row' = [row EXCEPT ![run[w].job].stage = s]
      BY <1>2 DEF Heartbeat, SetStage
    <3>2. QED
      <4>1. row \in [Jobs -> Rows]
        BY DEF TypeOK
      <4>2. \A j \in Jobs : /\ row'[j].status = row[j].status
                            /\ row'[j].cancel = row[j].cancel
                            /\ row'[j].project = row[j].project
        <5>1. CASE row' = [row EXCEPT ![run[w].job].leased = b]
          BY <2>1, <4>1, <5>1 DEF Rows
        <5>2. CASE row' = [row EXCEPT ![run[w].job].stage = s]
          BY <2>1, <4>1, <5>2 DEF Rows
        <5>3. QED
          BY <3>1, <5>1, <5>2
      <4>3. QED
        BY <4>2 DEF Seen
  <2>4. QED
    BY <1>1, <2>3, UnseenSteps
<1>3. CASE row' = row
  BY <1>1, <1>3, UnseenSteps DEF Seen
<1>4. QED
  BY <1>2, <1>3
  DEF RunStep, Publish, Open, HeartbeatLost, SetStageLost, StartStep, AppendStep,
      Answer, PolicyScreen, PublishReplay, PublishConflict, PublishFailed, Remember

\* From a state of the invariant, every step is one of the abstract specification
\* or leaves what a client sees unchanged.
LEMMA StepsImplement == IInv /\ [Next]_vars => [Lifecycle!Next]_Lifecycle!vars
<1> SUFFICES ASSUME IInv, [Next]_vars PROVE Lifecycle!Next \/ UNCHANGED Lifecycle!vars
  OBVIOUS
<1>1. ASSUME NEW w \in Workers, RunStep(w)
      PROVE  Lifecycle!Next \/ UNCHANGED Lifecycle!vars
  <2>1. CASE PublishNew(w)
    BY <2>1, PublishNewLands DEF Lifecycle!Next
  <2>2. CASE FinishJob(w)
    BY <2>2, FinishEnds DEF Lifecycle!Next
  <2>3. QED
    BY <1>1, <2>1, <2>2, InvisibleSteps
<1>2. ASSUME NEW w \in Workers, NEW j \in Jobs, ClaimJob(w, j)
      PROVE  Lifecycle!Next \/ UNCHANGED Lifecycle!vars
  BY <1>2, ClaimTakes DEF Lifecycle!Next
<1>3. ASSUME NEW j \in Jobs, ClientStep(j)
      PROVE  Lifecycle!Next
  BY <1>3, CreateJobQueues, RequestCancelAsks DEF ClientStep, Lifecycle!Next
<1>4. ASSUME NEW w \in Workers, Interrupt(w) PROVE UNCHANGED Lifecycle!vars
  BY <1>4, UnseenSteps DEF Interrupt, Seen
<1>5. ASSUME NEW j \in Jobs, LeaseLapses(j) \/ LeaseOverrun(j)
      PROVE  UNCHANGED Lifecycle!vars
  <2>1. \A k \in Jobs : Seen(k)' = Seen(k)
    <3>1. row' = [row EXCEPT ![j].leased = FALSE]
      BY <1>5 DEF LeaseLapses, LeaseOverrun
    <3>2. row \in [Jobs -> Rows]
      BY Parts DEF TypeOK
    <3>3. QED
      BY <3>1, <3>2 DEF Seen, Rows
  <2>2. QED
    BY <1>5, <2>1, UnseenSteps DEF LeaseLapses, LeaseOverrun
<1>6. CASE UNCHANGED vars
  BY <1>6, UnseenSteps DEF vars, Seen
<1>7. QED
  BY <1>1, <1>2, <1>3, <1>4, <1>5, <1>6 DEF Next, WorkerStep

\* Whatever workers, leases and restarts do, a client of the queue sees a job
\* that is queued, taken up, published at most once and ended once.
THEOREM ConveyorImplementsLifecycle == Spec => ImplementsLifecycle
<1>1. Init => Lifecycle!Init
  <2> SUFFICES ASSUME Init PROVE Lifecycle!Init
    OBVIOUS
  <2>1. \A j \in Jobs : row[j].status = "absent" /\ row[j].cancel = FALSE
    BY DEF Init, Absent
  <2>2. [j \in Jobs |-> row[j].status] = [j \in Jobs |-> "absent"]
    BY <2>1
  <2>3. {j \in Jobs : row[j].cancel} = {}
    BY <2>1
  <2>4. [j \in Jobs |-> IF row[j].status = "succeeded" THEN row[j].project ELSE None]
          = [j \in Jobs |-> None]
    BY <2>1
  <2>5. published = [j \in Jobs |-> <<>>]
    BY DEF Init
  <2>6. QED
    BY <2>2, <2>3, <2>4, <2>5 DEF Lifecycle!Init
<1>2. QED
  BY <1>1, StepsImplement, Invariance, PTL DEF Spec, ImplementsLifecycle
===============================================================================
