------------------------------ MODULE DeviceSync ------------------------------
(***************************************************************************)
(* One project on one Android device and the server it is kept on          *)
(* (android/app: MainActivity.kt, ProjectSync.kt, ProjectOutbox.kt).       *)
(*                                                                         *)
(* The main thread edits the stored document and appends each edit to the  *)
(* outbox file; a single-threaded executor sends the outbox, resolves      *)
(* conflicts and asks for AI edits.  Both read and write the same files    *)
(* without a lock, so every file access is a step.                         *)
(*                                                                         *)
(* A document is the set of edits in force; an operation puts an edit into *)
(* force or, as the inverse of one, out of it.  The server handles a       *)
(* request in one step (ProjectStore implements ProjectLedger, where each  *)
(* request is one), and may still do so when the device has given up       *)
(* waiting.                                                                *)
(* Preferences are written in one step, unlike files.                      *)
(*                                                                         *)
(* Left out: leaving the project for the library just to come back, which  *)
(* only forgets the undo frames.  What the server's validation says of an  *)
(* edit is a constant: a value is in range or it is not.  Others remove    *)
(* what an edit was made to; that they hang something below it, which bars *)
(* only its deletion, is not told apart from that.                         *)
(***************************************************************************)
EXTENDS Naturals, Sequences, FiniteSets, SequencesExt

CONSTANTS Edits,      \* what the user does on this device, each once
          Others,     \* what an AI edit or another device does
          Unfit,      \* edits the editor lets through and the server's validation
                      \* does not: a colour of six digits, a scale of zero, the
                      \* deletion of the template of a spawner
          MaxBatch,   \* how many operations a request may have (100)
          Spare,      \* bound: edits made only where a queue may outgrow MaxBatch
          Scenarios,  \* which mishaps may come together
          Once        \* bound: mishaps that come at most once

ASSUME DisjointAssumption == Edits \cap Others = {}
ASSUME UnfitAssumption == Unfit \subseteq Edits
ASSUME BatchAssumption == MaxBatch \in Nat \ {0}
ASSUME ScenariosAssumption ==
    Scenarios \subseteq SUBSET {"lost", "restart", "foreign", "overlap", "past",
                               "removed", "unfit", "long", "signedout"}

VARIABLES server,   \* the project on the server; head 0: it is not there
          late,     \* requests the device gave up on, and the server may still get
          disk,     \* what the device stores: document, outbox, keys, index entry
          ui,       \* the activity and its main thread
          queue,    \* the tasks the executor has not begun
          io,       \* the executor's thread, and that of a destroyed activity
          results,  \* posted to the main thread
          made,     \* History: the user's edits, and those made while no task was under way
          seen      \* History: the mishaps so far

vars == <<server, late, disk, ui, queue, io, results, made, seen>>
-------------------------------------------------------------------------------
All == Edits \cup Others
Ops == [edit : Edits, undo : BOOLEAN]
Do(e) == [edit |-> e, undo |-> FALSE]
Revert(e) == [edit |-> e, undo |-> TRUE]

Threads == {"io", "old"}
Tasks == {"sync", "take", "retry", "generate"}
Mishaps == {"lost", "restart", "foreign", "overlap", "past", "removed", "unfit", "long",
            "signedout"}

\* A thread of the executor: doc, ops and key are locals of the sync in progress,
\* left the outbox that drop is about to save.
Resting == [pc |-> "idle", task |-> "sync", head |-> 0, conflict |-> FALSE,
            doc |-> {}, ops |-> <<>>, key |-> 0, left |-> <<>>]

\* out, doc and rotate: what the edit in progress is about to save.
Shown(head, conflict, cloud) ==
    [pc |-> "idle", head |-> head, conflict |-> conflict, cloud |-> cloud,
     syncing |-> FALSE, generating |-> FALSE, undo |-> <<>>,
     out |-> <<>>, doc |-> {}, rotate |-> FALSE]

\* createProject (the screen's) stores an empty document and queues the first sync.
Init ==
    /\ server = [head |-> 0, doc |-> {}, gone |-> {}, created |-> {}, applied |-> {},
                  filed |-> {}]
    /\ late = {}
    /\ disk = [doc |-> {}, outbox |-> <<>>, key |-> 0, head |-> 0, conflict |-> FALSE]
    /\ \E cloud \in BOOLEAN : ui = [Shown(0, FALSE, cloud) EXCEPT !.syncing = TRUE]
    /\ queue = <<[task |-> "sync", head |-> 0, conflict |-> FALSE]>>
    /\ io = [t \in Threads |-> Resting]
    /\ results = <<>>
    /\ made = [all |-> {}, calm |-> {}, undone |-> {}]
    /\ seen = {}
-------------------------------------------------------------------------------
(* The server.  doc: what was put into force and not taken back; gone: edits whose
   entity others have removed, or that went with the document they replaced. *)

Document(s) == s.doc \ s.gone

Effect(doc, op) == IF op.undo THEN doc \ {op.edit} ELSE doc \cup {op.edit}

\* The document after each of the operations.
Through(doc, ops) ==
    LET after[n \in 0 .. Len(ops)] == IF n = 0 THEN doc ELSE Effect(after[n - 1], ops[n])
    IN after

After(doc, ops) == Through(doc, ops)[Len(ops)]

\* No operation was applied before, each finds the entity as it needs it, and what
\* comes of it is valid.
Applicable(s, ops) ==
    /\ Len(ops) <= MaxBatch
    /\ \A i \in DOMAIN ops :
        /\ ops[i] \notin s.applied
        /\ ops[i].undo <=> ops[i].edit \in Through(s.doc, ops)[i - 1]
        /\ ops[i].edit \notin s.gone
        /\ ops[i].edit \in Unfit => ops[i].undo

Answer(status, s) == [status |-> status, server |-> s]

\* The posted document is validated as a whole.
Created(s, r) ==
    CASE s.head = 0 /\ r.doc \cap Unfit = {} ->
           Answer("ok", [s EXCEPT !.head = 1, !.doc = r.doc, !.created = r.doc])
      [] s.head # 0 /\ s.created = r.doc -> Answer("again", s)
      [] OTHER -> Answer("refused", s)

Changed(s, r) ==
    LET filed == {f \in s.filed : f.key = r.key} IN
    CASE filed # {} -> Answer(IF \E f \in filed : f.base = r.base /\ f.ops = r.ops
                              THEN "again" ELSE "refused", s)
      [] filed = {} /\ s.head # r.base -> Answer("conflict", s)
      [] filed = {} /\ s.head = r.base /\ ~Applicable(s, r.ops) -> Answer("refused", s)
      [] OTHER -> Answer("ok", [s EXCEPT
                     !.head = @ + 1,
                     !.doc = After(@, r.ops),
                     !.applied = @ \cup ToSet(r.ops),
                     !.filed = @ \cup {[key |-> r.key, base |-> r.base, ops |-> r.ops]}])

\* The model may fail, or find nothing to do.
Generated(s, r) ==
    IF s.head # r.base THEN {Answer("conflict", s)}
    ELSE {Answer("refused", s)}
         \cup {Answer("ok", [s EXCEPT !.head = @ + 1, !.doc = @ \cup {o}]) : o \in Others \ s.doc}

Answers(s, r) ==
    CASE r.op = "create" -> {Created(s, r)}
      [] r.op = "change" -> {Changed(s, r)}
      [] r.op = "generate" -> Generated(s, r)
      [] r.op = "get" -> {Answer(IF s.head = 0 THEN "refused" ELSE "ok", s)}

\* A mutant: the device keeps the head it sent.
HeadKept(a, r) == IF r.op = "change" THEN r.base ELSE a.server.head

\* A mutant: the head before the request.
HeadBefore(a, r) == r.base - 1

\* The head an answer names: that of the first time when the request was known.
HeadIn(a, r) ==
    CASE a.status = "again" /\ r.op = "create" -> 1
      [] a.status = "again" /\ r.op = "change" -> r.base + 1
      [] OTHER -> a.server.head

Granted(a) == a.status \in {"ok", "again"}
-------------------------------------------------------------------------------
(* The main thread.  Its handlers run one at a time. *)

\* A task is under way until the main thread has learnt its outcome.
Busy == queue # <<>> \/ results # <<>> \/ \E t \in Threads : io[t].pc # "idle"

\* A mishap: an answer is lost, the process or the activity is, others write, or
\* remove something, the user goes on while a task is under way, undoes what is older
\* than a document that was taken from the server, signs out, makes an edit the
\* server's validation refuses, or more of them than go into one request.
Note(what) ==
    /\ what \cap seen \cap Once = {}
    /\ seen' = seen \cup what
    /\ \E s \in Scenarios : /\ seen' \cap Mishaps \subseteq s
                            /\ Spare \cap made.all # {} => "long" \in s

Overlap == IF Busy THEN {"overlap"} ELSE {}
Outgrown(out) == IF Len(out) > MaxBatch THEN {"long"} ELSE {}
Refusable(e) == IF e \in Unfit THEN {"unfit"} ELSE {}

MayOutgrow == \E s \in Scenarios : "long" \in s /\ seen \cap Mishaps \subseteq s

UsedKeys == {f.key : f \in server.filed} \cup {r.key : r \in late}
            \cup {io[t].key : t \in Threads} \cup {disk.key}
NewKey == CHOOSE k \in 0 .. Cardinality(UsedKeys) :
              k \notin UsedKeys /\ \A j \in 0 .. k - 1 : j \in UsedKeys

Outbox(op) == Append(disk.outbox, op)

\* addPrimitive, deleteSelected, applyProperty: the document and the outbox are
\* read, for the undo frame, too.  Nothing is validated but what the edit needs.
Edit(e) ==
    /\ ui.pc = "idle" /\ ~ui.syncing /\ e \notin made.all
    /\ e \in Spare => MayOutgrow
    /\ made' = [made EXCEPT !.all = @ \cup {e}, !.calm = IF Busy THEN @ ELSE @ \cup {e}]
    /\ ui' = [ui EXCEPT !.pc = "enqueue", !.out = Outbox(Do(e)), !.rotate = TRUE,
                        !.doc = disk.doc \cup {e},
                        !.undo = <<[doc |-> disk.doc, outbox |-> disk.outbox,
                                    edit |-> e, past |-> FALSE]>> \o @]
    /\ Note(Overlap \cup Outgrown(Outbox(Do(e))) \cup Refusable(e))
    /\ UNCHANGED <<server, late, disk, queue, io, results>>

\* A mutant: nobody looks whether the edit was sent.
AlwaysQueued(e) == TRUE

StillQueued(e) == Do(e) \in ToSet(disk.outbox)

\* undo: the frame's document is back at once; its outbox, too, when the edit is
\* still queued, and otherwise the inverse of the edit is queued.
Undo ==
    /\ ui.pc = "idle" /\ ~ui.syncing /\ ui.undo # <<>>
    /\ LET frame == Head(ui.undo) IN
       /\ ui' = [ui EXCEPT !.pc = "enqueue", !.doc = frame.doc, !.undo = Tail(@),
                           !.rotate = ~StillQueued(frame.edit),
                           !.out = IF StillQueued(frame.edit) THEN frame.outbox
                                   ELSE Outbox(Revert(frame.edit))]
       /\ disk' = [disk EXCEPT !.doc = frame.doc]
       /\ made' = [made EXCEPT !.undone = @ \cup {frame.edit}]
       /\ Note(Overlap \cup Outgrown(ui'.out) \cup IF frame.past THEN {"past"} ELSE {})
    /\ UNCHANGED <<server, late, queue, io, results>>

\* enqueue, or restore: the outbox is saved, as it was read.
Enqueue ==
    /\ ui.pc = "enqueue"
    /\ disk' = [disk EXCEPT !.outbox = ui.out, !.key = IF ui.rotate THEN NewKey ELSE @]
    /\ ui' = [ui EXCEPT !.pc = "save", !.out = <<>>, !.rotate = FALSE]
    /\ UNCHANGED <<server, late, queue, io, results, made, seen>>

Queued(task) ==
    queue' = Append(queue, [task |-> task, head |-> ui.head, conflict |-> ui.conflict])

\* persistAndShow and queueSync.
Save ==
    /\ ui.pc = "save"
    /\ disk' = [disk EXCEPT !.doc = ui.doc]
    /\ ui' = [ui EXCEPT !.pc = "idle", !.doc = {}, !.syncing = TRUE]
    /\ Queued("sync")
    /\ UNCHANGED <<server, late, io, results, made, seen>>

\* The buttons of runCloud: two of them are shown in a conflict only.
Press(task) ==
    /\ ui.pc = "idle" /\ ~ui.syncing
    /\ task = "sync" \/ (task \in {"take", "retry"} /\ ui.conflict)
    /\ ui' = [ui EXCEPT !.syncing = TRUE]
    /\ Queued(task)
    /\ Note(Overlap)
    /\ UNCHANGED <<server, late, disk, io, results, made>>

RequestGeneration ==
    /\ ui.pc = "idle" /\ ~ui.generating
    /\ ui' = [ui EXCEPT !.generating = TRUE]
    /\ Queued("generate")
    /\ Note(Overlap)
    /\ UNCHANGED <<server, late, disk, io, results, made>>

\* applyOutcome and publish: the entry of the list is that of the task.
ApplyOutcome ==
    /\ ui.pc = "idle" /\ results # <<>>
    /\ LET r == Head(results) IN
       ui' = [ui EXCEPT !.syncing = IF r.task = "generate" THEN @ ELSE FALSE,
                        !.generating = IF r.task = "generate" THEN FALSE ELSE @,
                        !.head = IF r.told THEN r.head ELSE @,
                        !.conflict = IF r.told THEN r.conflict ELSE @]
    /\ results' = Tail(results)
    /\ UNCHANGED <<server, late, disk, queue, io, made, seen>>

\* One signs in and out in the library; entering it forgets the undo frames.
SignIn ==
    /\ ui.pc = "idle" /\ ~ui.cloud
    /\ ui' = [ui EXCEPT !.cloud = TRUE, !.undo = <<>>]
    /\ UNCHANGED <<server, late, disk, queue, io, results, made, seen>>

\* A task that is under way goes on with the token it has.
SignOut ==
    /\ ui.pc = "idle" /\ ui.cloud
    /\ ui' = [ui EXCEPT !.cloud = FALSE, !.undo = <<>>]
    /\ Note({"signedout"})
    /\ UNCHANGED <<server, late, disk, queue, io, results, made>>
-------------------------------------------------------------------------------
(* The executor: ProjectSync, with requests as single steps. *)

Set(t, r) == io' = [io EXCEPT ![t] = r]

\* The task ends; what an activity posted that is gone reaches nobody.
End(t, told, head, conflict) ==
    /\ Set(t, Resting)
    /\ results' = IF t = "old" THEN results
                  ELSE Append(results, [task |-> io[t].task, told |-> told,
                                        head |-> head, conflict |-> conflict])

Failed(t) == End(t, FALSE, 0, FALSE)

Persisted(head, conflict) == [disk EXCEPT !.head = head, !.conflict = conflict]

Begin ==
    /\ io["io"].pc = "idle" /\ queue # <<>>
    /\ LET q == Head(queue) IN
       IF ui.cloud
       THEN /\ Set("io", [Resting EXCEPT !.task = q.task, !.head = q.head,
                                         !.conflict = q.conflict,
                                         !.pc = CASE q.task = "take" -> "take"
                                                  [] q.task = "retry" -> "rebase"
                                                  [] OTHER -> "sync"])
            /\ UNCHANGED results
       ELSE /\ results' = Append(results, [task |-> q.task, told |-> FALSE,
                                           head |-> 0, conflict |-> FALSE])
            /\ UNCHANGED io
    /\ queue' = Tail(queue)
    /\ UNCHANGED <<server, late, disk, ui, made, seen>>

\* sync: the document is read before the outbox.
Sync(t) ==
    /\ io[t].pc = "sync"
    /\ IF ~ui.cloud THEN Failed(t)
       ELSE /\ Set(t, IF io[t].head = 0 THEN [io[t] EXCEPT !.doc = disk.doc, !.pc = "post"]
                      ELSE [io[t] EXCEPT !.pc = "flush"])
            /\ UNCHANGED results
    /\ UNCHANGED <<server, late, disk, ui, queue, made, seen>>

\* ensureRemote
Post(t) ==
    /\ io[t].pc = "post"
    /\ Set(t, [io[t] EXCEPT !.ops = disk.outbox, !.pc = "create"])
    /\ UNCHANGED <<server, late, disk, ui, queue, results, made, seen>>

\* flushChanges: the outbox is read, and then its key.
Flush(t) ==
    /\ io[t].pc = "flush"
    /\ IF disk.outbox = <<>>
       THEN /\ disk' = Persisted(io[t].head, FALSE)
            /\ Set(t, [io[t] EXCEPT !.conflict = FALSE, !.pc = "synced"])
       ELSE /\ Set(t, [io[t] EXCEPT !.ops = disk.outbox, !.pc = "key"])
            /\ UNCHANGED disk
    /\ UNCHANGED <<server, late, ui, queue, results, made, seen>>

TakeKey(t) ==
    /\ io[t].pc = "key"
    /\ Set(t, [io[t] EXCEPT !.key = disk.key, !.pc = "change"])
    /\ UNCHANGED <<server, late, disk, ui, queue, results, made, seen>>

\* drop saves what it kept of the outbox as it had read it.
Drop(t) ==
    /\ io[t].pc \in {"dropPosted", "dropSent"}
    /\ disk' = [Persisted(io[t].head, FALSE) EXCEPT !.outbox = io[t].left]
    /\ Set(t, [io[t] EXCEPT !.ops = <<>>, !.left = <<>>, !.key = 0, !.conflict = FALSE,
                            !.pc = IF @ = "dropPosted" THEN "flush" ELSE "again"])
    /\ UNCHANGED <<server, late, ui, queue, results, made, seen>>

\* flushChanges goes on with what was queued meanwhile, under a new key.
Again(t) ==
    /\ io[t].pc = "again"
    /\ disk' = [disk EXCEPT !.key = IF disk.outbox = <<>> THEN @ ELSE NewKey]
    /\ Set(t, [io[t] EXCEPT !.pc = IF disk.outbox = <<>> THEN "synced" ELSE "flush"])
    /\ UNCHANGED <<server, late, ui, queue, results, made, seen>>

\* The end of a sync, which an AI edit goes on from.
Synced(t) ==
    /\ io[t].pc = "synced"
    /\ IF io[t].task # "generate" THEN End(t, TRUE, io[t].head, FALSE)
       ELSE IF disk.outbox # <<>> THEN Failed(t)
       ELSE Set(t, [io[t] EXCEPT !.pc = "generate"]) /\ UNCHANGED results
    /\ UNCHANGED <<server, late, disk, ui, queue, made, seen>>

\* takeServer and generate, when the document of the server is stored.
Clear(t) ==
    /\ io[t].pc = "clear"
    /\ disk' = [Persisted(io[t].head, FALSE) EXCEPT !.outbox = <<>>]
    /\ End(t, TRUE, io[t].head, FALSE)
    /\ UNCHANGED <<server, late, ui, queue, made, seen>>
-------------------------------------------------------------------------------
(* Requests of the executor and their answers. *)

Waiting == {"create", "find", "change", "remember", "take", "rebase", "generate"}

RequestOf(t) ==
    [op |-> IF io[t].pc \in {"create", "change", "generate"} THEN io[t].pc ELSE "get",
     doc |-> io[t].doc, base |-> io[t].head, ops |-> io[t].ops, key |-> io[t].key]

Pc(t, pc) == [io[t] EXCEPT !.pc = pc, !.doc = {}, !.ops = <<>>, !.key = 0]

\* A mutant: what was sent stays.
UnsentAndSent(t) == disk.outbox

\* drop: what is in the outbox now, without what was sent.
Remaining(ops, sent) ==
    LET remaining[n \in 0 .. Len(ops)] ==
            IF n = 0 THEN <<>>
            ELSE IF ops[n] \in sent THEN remaining[n - 1]
            ELSE Append(remaining[n - 1], ops[n])
    IN remaining[Len(ops)]

Unsent(t) == Remaining(disk.outbox, ToSet(io[t].ops))

\* A mutant: a project that was found is taken for the one that was posted.
LeftPosted(t) == [disk EXCEPT !.outbox = Unsent(t)]

\* ensureRemote, when the project is on the server already.
Found(t) == disk

\* What the device does once a request is granted...
OnGranted(t, a, r) ==
    LET head == HeadIn(a, r)
        pc == io[t].pc
        at(next) == [Pc(t, next) EXCEPT !.head = head, !.conflict = FALSE]
    IN
    CASE pc = "create" /\ io[t].ops # <<>> ->
           Set(t, [at("dropPosted") EXCEPT !.left = Unsent(t)]) /\ UNCHANGED <<disk, results>>
      [] pc = "find" \/ (pc = "create" /\ io[t].ops = <<>>) ->
           /\ disk' = [Found(t) EXCEPT !.head = head, !.conflict = FALSE]
           /\ Set(t, at("flush")) /\ UNCHANGED results
      [] pc = "change" ->
           Set(t, [at("dropSent") EXCEPT !.left = Unsent(t)]) /\ UNCHANGED <<disk, results>>
      [] pc = "rebase" ->
           /\ disk' = [Persisted(head, FALSE) EXCEPT !.key = NewKey]
           /\ Set(t, at("sync")) /\ UNCHANGED results
      [] pc \in {"take", "generate"} ->
           /\ disk' = [disk EXCEPT !.doc = Document(a.server)]
           /\ Set(t, at("clear")) /\ UNCHANGED results
      [] pc = "remember" ->
           disk' = Persisted(io[t].head, TRUE) /\ End(t, TRUE, io[t].head, TRUE)

\* ...and when it is not: creating falls back on finding, a conflict on asking what
\* the server has, and everything else just fails.
OnRefused(t, status) ==
    CASE io[t].pc = "create" ->
           Set(t, [io[t] EXCEPT !.pc = "find"]) /\ UNCHANGED <<disk, results>>
      [] io[t].pc \in {"change", "generate"} /\ status = "conflict" ->
           Set(t, Pc(t, "remember")) /\ UNCHANGED <<disk, results>>
      [] io[t].pc = "remember" ->
           disk' = Persisted(io[t].head, TRUE) /\ End(t, TRUE, io[t].head, TRUE)
      [] OTHER -> Failed(t) /\ UNCHANGED disk

\* A document the user takes over ages the undo frames that are older.
Aged(t) ==
    ui' = [ui EXCEPT !.undo = IF io'[t].pc # "clear" THEN @
                              ELSE [i \in DOMAIN @ |-> [@[i] EXCEPT !.past = TRUE]]]

Answered(t) ==
    /\ io[t].pc \in Waiting
    /\ \E a \in Answers(server, RequestOf(t)) :
         /\ server' = a.server
         /\ IF Granted(a) THEN OnGranted(t, a, RequestOf(t)) ELSE OnRefused(t, a.status)
         /\ seen' = seen \cup IF io[t].pc = "change" /\ a.status = "refused"
                              THEN {"rejected"} ELSE {}
    /\ Aged(t)
    /\ UNCHANGED <<late, queue, made>>

\* The device gives up: no network, no answer in time, or one it can make nothing
\* of, such as the 404 for a change whose base moved while it waited for the row
\* (ProjectStore!NotFoundMeansGone): like any error but a conflict, it ends the sync.
Unanswered(t) ==
    /\ io[t].pc \in Waiting
    /\ late' = late \cup IF RequestOf(t).op = "get" THEN {} ELSE {RequestOf(t)}
    /\ OnRefused(t, "none")
    /\ Note({"lost"})
    /\ UNCHANGED <<server, ui, queue, made>>
-------------------------------------------------------------------------------
(* The world. *)

\* The server gets a request, but the device no longer waits for its answer.
Arrives(r) ==
    /\ \E a \in Answers(server, r) : server' = a.server
    /\ late' = late \ {r}
    /\ UNCHANGED <<disk, ui, queue, io, results, made, seen>>

OtherDevice(o) ==
    /\ server.head # 0 /\ o \notin server.doc
    /\ server' = [server EXCEPT !.head = @ + 1, !.doc = @ \cup {o}]
    /\ Note({"foreign"})
    /\ UNCHANGED <<late, disk, ui, queue, io, results, made>>

\* Another device deletes entities, or the conveyor replaces the document: edits of
\* this device that are there go, and what is queued for such an entity, or will be,
\* finds it no more.
Removal(edits) ==
    /\ server.head # 0 /\ edits # {}
    /\ server' = [server EXCEPT !.head = @ + 1, !.gone = @ \cup edits]
    /\ Note({"foreign", "removed"})
    /\ UNCHANGED <<late, disk, ui, queue, io, results, made>>

Pending(ts) == {RequestOf(t) : t \in {u \in ts : io[u].pc \in {"create", "change", "generate"}}}

Reopened == Shown(disk.head, disk.conflict, ui.cloud)

\* The process dies; what was on its way to the server may arrive.
Kill ==
    /\ late' = late \cup Pending(Threads)
    /\ io' = [t \in Threads |-> Resting]
    /\ ui' = Reopened /\ queue' = <<>> /\ results' = <<>>
    /\ Note({"restart"})
    /\ UNCHANGED <<server, disk, made>>

\* onDestroy: the activity comes back, and its executor ends the task it is at.
Recreate ==
    /\ ui.pc = "idle"
    /\ io' = [io EXCEPT !["old"] = io["io"], !["io"] = Resting]
    /\ ui' = Reopened /\ queue' = <<>> /\ results' = <<>>
    /\ Note({"restart"})
    /\ UNCHANGED <<server, late, disk, made>>

Main ==
    \/ \E e \in Edits : Edit(e)
    \/ \E task \in Tasks : Press(task)
    \/ Undo \/ Enqueue \/ Save \/ RequestGeneration \/ ApplyOutcome \/ SignIn
    \/ SignOut

Executor(t) ==
    \/ Sync(t) \/ Post(t) \/ Flush(t) \/ TakeKey(t) \/ Drop(t) \/ Again(t)
    \/ Synced(t) \/ Clear(t) \/ Answered(t)

World ==
    \/ \E t \in Threads : Unanswered(t)
    \/ \E r \in late : Arrives(r)
    \/ \E o \in Others : OtherDevice(o)
    \/ \E edits \in SUBSET ((Edits \ Spare) \cup server.doc) : Removal(edits)
    \/ Kill \/ Recreate

Next == Main \/ Begin \/ (\E t \in Threads : Executor(t)) \/ World

\* The main thread and the executor's thread go on, and requests end.
Fairness ==
    /\ WF_vars(Enqueue \/ Save) /\ WF_vars(ApplyOutcome) /\ WF_vars(Begin)
    /\ WF_vars(Executor("io"))

Spec == Init /\ [][Next]_vars /\ Fairness
-------------------------------------------------------------------------------
Docs == SUBSET All
ServerRows == [head : Nat, doc : Docs, gone : Docs, created : Docs, applied : SUBSET Ops,
               filed : SUBSET [key : Nat, base : Nat, ops : Seq(Ops)]]
Screens == [pc : {"idle", "enqueue", "save"}, head : Nat, conflict : BOOLEAN,
            cloud : BOOLEAN, syncing : BOOLEAN, generating : BOOLEAN,
            undo : Seq([doc : Docs, outbox : Seq(Ops), edit : Edits, past : BOOLEAN]),
            out : Seq(Ops), doc : Docs, rotate : BOOLEAN]
Runs == [pc : Waiting \cup {"idle", "sync", "post", "flush", "key", "dropPosted",
                            "dropSent", "again", "synced", "clear"},
         task : Tasks, head : Nat, conflict : BOOLEAN, doc : Docs, ops : Seq(Ops),
         key : Nat, left : Seq(Ops)]

\* Files, tasks and requests keep their shape.
TypeOK ==
    /\ server \in ServerRows
    /\ late \subseteq [op : {"create", "change", "generate"}, doc : Docs, base : Nat,
                       ops : Seq(Ops), key : Nat]
    /\ disk \in [doc : Docs, outbox : Seq(Ops), key : Nat, head : Nat, conflict : BOOLEAN]
    /\ ui \in Screens
    /\ queue \in Seq([task : Tasks, head : Nat, conflict : BOOLEAN])
    /\ io \in [Threads -> Runs]
    /\ results \in Seq([task : Tasks, told : BOOLEAN, head : Nat, conflict : BOOLEAN])
    /\ made \in [all : SUBSET Edits, calm : SUBSET Edits, undone : SUBSET Edits]
    /\ seen \subseteq Mishaps \cup {"rejected"}

\* What the user did while nothing was under way, and never undid, is not lost as
\* long as the device shows it: the server got it, or it is still queued, through lost
\* answers, crashes, conflicts and their resolution.  (Undoing what is older than a
\* document taken from the server shows edits again that were given up with it.)
UnsentIsQueued ==
    "past" \notin seen =>
        \A e \in (made.calm \ made.undone) \cap disk.doc :
            e \in server.doc \/ Do(e) \in ToSet(disk.outbox)

\* What the user undid is taken back on the server, too, also when another device
\* writes meanwhile, or the user signs out: what the server has and the device no
\* longer shows has its inverse queued.  A lost answer is enough to break this: the
\* edit is on the server and still queued, undo just forgets it, and nothing ever
\* takes it back.
UndoneIsRevoked ==
    seen \cap Mishaps \subseteq {"foreign", "signedout"} /\ ui.pc = "idle" =>
        \A e \in (Edits \cap server.doc) \ disk.doc : Revert(e) \in ToSet(disk.outbox)

\* What makes the server refuse the queue of a device: an answer that was lost, a
\* restart, an edit during a sync or older than the document; that others removed
\* what it is about; and what the editor lets through and the server does not, a value
\* out of range (validation.go:286, SandboxScreen.kt:298) or more than MaxBatch
\* operations (commands.go:173).
Refusals == {"lost", "restart", "overlap", "past", "removed", "unfit", "long"}

\* However edits, undoing, syncing, conflicts and AI edits follow one another, and
\* whatever others add meanwhile, a queue is refused (an operation the server had
\* before, one that does not fit its document, a key with another body) only after
\* one of these.
RejectedOnlyAfterMishap ==
    "rejected" \in seen => seen \cap Refusals # {}

\* A device does not conflict with itself: where no other device writes, it takes a
\* lost answer, a restart, a task with a stale head behind another task, or edits
\* made while signed out.
ConflictOnlyAfterMishap ==
    disk.conflict => seen \cap {"lost", "restart", "overlap", "foreign", "signedout"} # {}

\* Without a mishap a device at rest with nothing queued shows what the server has,
\* AI edits included, and knows its head.
SyncedShowsServer ==
    (/\ seen \cap Mishaps = {}
     /\ ~Busy /\ ui.pc = "idle" /\ disk.outbox = <<>> /\ disk.head # 0)
        => disk.doc = Document(server) /\ disk.head = server.head

\* A sync that was asked for sends the queue, or finds a conflict, unless the user signs
\* out or one of these leaves it stuck.
OutboxDrains ==
    ui.cloud /\ (\E i \in DOMAIN queue : queue[i].task = "sync")
        ~> disk.outbox = <<>> \/ ui.conflict \/ ~ui.cloud \/ seen \cap Refusals # {}
===============================================================================
