-------------------------------- MODULE AIEdit --------------------------------
(***************************************************************************)
(* The AI edit of a project (backend/internal/platform/httpapi/api.go,     *)
(* generate): the handler, the rows of ai_generations it keeps, the model  *)
(* it asks (KieChat), what it makes of the answer (Generator), and the     *)
(* document it changes (Documents), while the editor and the conveyor      *)
(* change the same document.                                               *)
(*                                                                         *)
(* One action is one database statement, one answer of a provider, or the  *)
(* transaction of applyOps, which is one step here: ProjectStore shows     *)
(* that transactions of one project take effect one after the other.       *)
(* There is one project; idempotency keys are numbered as they are used.   *)
(***************************************************************************)
EXTENDS Generator, KieChat

CONSTANTS Initial,         \* the document at first
          Proposals,       \* what a model answers: commands, or nothing readable
          Changes,         \* batches of commands an editor sends
          Built,           \* documents the conveyor builds
          MaxGenerations,  \* bound: requests that got a row
          MaxRevisions     \* bound: revisions by others than the AI edit

ASSUME InitialAssumption == IsDocument(Initial) /\ ValidDocument(Initial)

\* JSON is decoded into documents and commands before it gets here.
ASSUME InputsAssumption ==
    /\ \A ops \in Proposals \cup Changes : IsBatch(ops)
    /\ \A d \in Built : IsDocument(d)

VARIABLES doc,        \* the head revision's document
          head,       \* its number
          ledger,     \* idempotency keys filed by AI edits, and for which request
          spent,      \* operation ids the project has seen (project_commands)
          rows,       \* ai_generations of the project, in the order of their inserts
          at          \* at[c]: the request handler c carries

store == <<doc, head, ledger, spent>>
vars == <<provider, chat, doc, head, ledger, spent, rows, at>>
-------------------------------------------------------------------------------
NoJSON == <<>>  \* an answer no commands can be read from

\* No request.  shown, ops, first, row and verdict are the locals of the handler
\* and of Generate; over: the context of the request is done, after its 150 seconds
\* or because the client left.
Idle == [pc |-> "idle", base |-> 0, key |-> 0, shown |-> None, ops |-> <<>>,
         first |-> FALSE, row |-> 0, verdict |-> "failed", over |-> FALSE]

Before == {"busy", "quota", "insert"}
PCs == {"idle", "generate", "apply", "finish"} \cup Before
Ends == {"applied", "conflict", "failed"}

\* key, base, wrote (the edit of this row is in the store) and over are history.
Rows == [status : Ends \cup {"generating"}, old : BOOLEAN,
         key : Nat, base : Nat, wrote : BOOLEAN, over : BOOLEAN]

Init ==
    /\ ChatInit
    /\ doc = Initial /\ head = 1
    /\ ledger = {} /\ spent = {}
    /\ rows = <<>>
    /\ at = [c \in Callers |-> Idle]
-------------------------------------------------------------------------------
Go(c, pc) == at' = [at EXCEPT ![c].pc = pc]
Answer(c) == at' = [at EXCEPT ![c] = Idle]

\* The keys that were used so far.
Keys == {rows[i].key : i \in DOMAIN rows}

Carried(i) == \E c \in Callers : at[c].pc # "idle" /\ at[c].row = i

\* The mutant forgets the ten minutes.
ActiveForever(row) == row.status = "generating"

Active(row) == row.status = "generating" /\ ~row.old

Actives == {i \in DOMAIN rows : Active(rows[i])}

\* A request for the head, which its client knows, and what the handler reads of it.
\* A request for another revision, a repeated one too, is told 409 and changes nothing.
Get(c) ==
    /\ at[c].pc = "idle"
    /\ Len(rows) + Cardinality({d \in Callers : at[d].pc \in Before}) < MaxGenerations
    /\ at' = [at EXCEPT ![c] = [Idle EXCEPT !.pc = "busy", !.base = head, !.shown = doc]]
    /\ UNCHANGED <<provider, chat, store, rows>>

\* 409 AI_BUSY.
HasActiveGeneration(c) ==
    /\ at[c].pc = "busy"
    /\ IF Actives = {} THEN Go(c, "quota") ELSE Answer(c)
    /\ UNCHANGED <<provider, chat, store, rows>>

\* 429 AI_QUOTA: two are active, with those of the owner's other projects.
CountOwnerActive(c) ==
    /\ at[c].pc = "quota"
    /\ \E elsewhere \in 0 .. 2 :
           IF Cardinality(Actives) + elsewhere < 2 THEN Go(c, "insert") ELSE Answer(c)
    /\ UNCHANGED <<provider, chat, store, rows>>

\* The row, and the question to the model.  The key of the request matters from here
\* on: its own, or that of an earlier request it repeats.
InsertGeneration(c) ==
    /\ at[c].pc = "insert"
    /\ \E key \in Keys \cup {Len(rows) + 1} :
         /\ rows' = Append(rows, [status |-> "generating", old |-> FALSE, key |-> key,
                                  base |-> at[c].base, wrote |-> FALSE, over |-> FALSE])
         /\ at' = [at EXCEPT ![c].pc = "generate", ![c].row = Len(rows) + 1,
                             ![c].key = key, ![c].first = TRUE]
    /\ chat' = [chat EXCEPT ![c] = Asked]
    /\ UNCHANGED <<provider, store>>

\* The context is over, or the database fails, before there is a row.
GiveUp(c) ==
    /\ at[c].pc \in Before
    /\ Answer(c)
    /\ UNCHANGED <<provider, chat, store, rows>>
-------------------------------------------------------------------------------
(* Generate: an answer, one repair of an answer that cannot be used, and    *)
(* the basic scene, also when the provider fails.                           *)

ProviderFails(c) ==
    /\ IF at[c].over THEN CutShort(c) ELSE Fails(c)
    /\ UNCHANGED <<store, rows, at>>

Good(c, text) == Usable(at[c].shown, Sanitize(at[c].shown, text))

\* The answer is used.
Accept(c) ==
    /\ ~at[c].over /\ Answers(c)
    /\ \E text \in Proposals :
         /\ Good(c, text)
         /\ at' = [at EXCEPT ![c].pc = "apply", ![c].ops = Sanitize(at[c].shown, text)]
    /\ UNCHANGED <<store, rows>>

\* The first time, the model is asked again for commands that can be used.
Repair(c) ==
    /\ ~at[c].over /\ chat[c].at \in Underway
    /\ at[c].first
    /\ \E text \in Proposals \ {NoJSON} : ~Good(c, text)
    /\ at' = [at EXCEPT ![c].first = FALSE]
    /\ chat' = [chat EXCEPT ![c] = Asked]
    /\ UNCHANGED <<provider, store, rows>>

\* The basic scene, or an error where it does not fit in.
Fallen(c) ==
    LET ops == FallbackOps(at[c].shown) IN
    IF Usable(at[c].shown, ops)
    THEN [at EXCEPT ![c].pc = "apply", ![c].ops = ops]
    ELSE [at EXCEPT ![c].pc = "finish"]

\* After an answer that is no use...
FallBack(c) ==
    /\ ~at[c].over /\ Answers(c)
    /\ \E text \in Proposals : ~Good(c, text) /\ (at[c].first => text = NoJSON)
    /\ at' = Fallen(c)
    /\ UNCHANGED <<store, rows>>

\* ...and after none.
FallBackUnanswered(c) ==
    /\ chat[c].at = "failed"
    /\ at' = Fallen(c)
    /\ chat' = [chat EXCEPT ![c] = Quiet]
    /\ UNCHANGED <<provider, store, rows>>
-------------------------------------------------------------------------------
(* ApplyAI: the key, the head, the operation ids, the commands.             *)

Filed(c) == {f \in ledger : f.key = at[c].key}
Replayed(c) == \E f \in Filed(c) : f.base = at[c].base

Reused(c) == \E i \in DOMAIN at[c].ops : at[c].ops[i].id \in spent

Edited(c) == ApplyCommands(doc, at[c].ops)

Moved(c) == head # at[c].base

Applies(c) == Filed(c) = {} /\ ~Moved(c) /\ ~Reused(c) /\ Edited(c) # {}

Commit(c) ==
    /\ doc' \in Edited(c) /\ head' = head + 1
    /\ ledger' = ledger \cup {[key |-> at[c].key, base |-> at[c].base]}
    /\ spent' = spent \cup ({at[c].ops[i].id : i \in DOMAIN at[c].ops} \ {None})

ApplyAI(c) ==
    /\ at[c].pc = "apply" /\ ~at[c].over
    /\ Applies(c)
    /\ Commit(c)
    /\ rows' = [rows EXCEPT ![at[c].row].wrote = TRUE]
    /\ at' = [at EXCEPT ![c].pc = "finish", ![c].verdict = "applied"]
    /\ UNCHANGED <<provider, chat>>

\* The context ends while the commit is under way: it is done, and reported failed.
ApplyUnheard(c) ==
    /\ at[c].pc = "apply" /\ ~at[c].over
    /\ Applies(c)
    /\ Commit(c)
    /\ rows' = [rows EXCEPT ![at[c].row].wrote = TRUE, ![at[c].row].over = TRUE]
    /\ at' = [at EXCEPT ![c].pc = "finish", ![c].over = TRUE]
    /\ UNCHANGED <<provider, chat>>

\* The answer filed under the key is given again.
ApplyReplay(c) ==
    /\ at[c].pc = "apply" /\ ~at[c].over
    /\ Replayed(c)
    /\ rows' = [rows EXCEPT ![at[c].row].wrote = TRUE]
    /\ at' = [at EXCEPT ![c].pc = "finish", ![c].verdict = "applied"]
    /\ UNCHANGED <<provider, chat, store>>

\* A head that moved is a conflict, or a project not found when it moved meanwhile
\* (ProjectStore); whatever else is wrong is a failure.
ApplyRefused(c) ==
    /\ at[c].pc = "apply"
    /\ at[c].over \/ (~Replayed(c) /\ ~Applies(c))
    /\ \E verdict \in {"failed"} \cup
            (IF ~at[c].over /\ Filed(c) = {} /\ Moved(c) THEN {"conflict"} ELSE {}) :
           at' = [at EXCEPT ![c].pc = "finish", ![c].verdict = verdict]
    /\ UNCHANGED <<provider, chat, store, rows>>

\* The mutant: only an edit closes a row.
ClosedByEdit(c) ==
    IF at[c].over \/ at[c].verdict # "applied" THEN rows
    ELSE [rows EXCEPT ![at[c].row].status = "applied"]

Closed(c) ==
    IF at[c].over THEN rows ELSE [rows EXCEPT ![at[c].row].status = at[c].verdict]

\* Under the same context: once that is over the row stays as it is.
FinishGeneration(c) ==
    /\ at[c].pc = "finish"
    /\ rows' = Closed(c)
    /\ Answer(c)
    /\ UNCHANGED <<provider, chat, store>>
-------------------------------------------------------------------------------
(* The world around the handlers.                                           *)

Over(cs) == [i \in DOMAIN rows |->
                IF \E c \in cs : at[c].pc # "idle" /\ at[c].row = i
                THEN [rows[i] EXCEPT !.over = TRUE] ELSE rows[i]]

EndContext(c) ==
    /\ at[c].pc \notin Before \cup {"idle"} /\ ~at[c].over
    /\ at' = [at EXCEPT ![c].over = TRUE]
    /\ rows' = Over({c})
    /\ UNCHANGED <<provider, chat, store>>

Restart ==
    /\ \E c \in Callers : at[c].pc # "idle"
    /\ rows' = Over(Callers)
    /\ at' = [c \in Callers |-> Idle]
    /\ chat' = [c \in Callers |-> Quiet]
    /\ UNCHANGED <<provider, store>>

\* Ten minutes on.  A handler lives no longer than its context.
Age(i) ==
    /\ i \in DOMAIN rows
    /\ Active(rows[i]) /\ ~Carried(i)
    /\ rows' = [rows EXCEPT ![i].old = TRUE]
    /\ UNCHANGED <<provider, chat, store, at>>

OthersRevised(d) ==
    /\ head - Cardinality(ledger) <= MaxRevisions
    /\ doc' = d /\ head' = head + 1
    /\ UNCHANGED <<provider, chat, ledger, spent, rows, at>>

\* Change, with operation ids of its own.
Change(ops) ==
    \E d \in ApplyCommands(doc, ops) : OthersRevised(d)

\* ReplaceDocument, by the conveyor.
ReplaceDocument(d) ==
    /\ ValidDocument(d)
    /\ OthersRevised(d)
-------------------------------------------------------------------------------
Handle(c) ==
    \/ HasActiveGeneration(c)
    \/ CountOwnerActive(c)
    \/ InsertGeneration(c)
    \/ GiveUp(c)
    \/ ProviderFails(c)
    \/ Accept(c)
    \/ Repair(c)
    \/ FallBack(c)
    \/ FallBackUnanswered(c)
    \/ ApplyAI(c)
    \/ ApplyUnheard(c)
    \/ ApplyReplay(c)
    \/ ApplyRefused(c)
    \/ FinishGeneration(c)

Next ==
    \/ \E c \in Callers : Get(c) \/ Handle(c) \/ EndContext(c)
    \/ Restart
    \/ \E i \in 1 .. MaxGenerations : Age(i)
    \/ \E ops \in Changes : Change(ops)
    \/ \E d \in Built : ReplaceDocument(d)

\* Handlers run, providers answer or time out, and ten minutes pass.  The first line
\* is WF_vars(Handle(c)): Handle(c) is enabled whenever c carries a request, and
\* nothing else moves it for ever.
Fairness ==
    /\ \A c \in Callers :
         \/ []<>(at[c].pc = "idle")
         \/ []<><<at[c]' # at[c] \/ chat[c]' # chat[c]>>_vars
    /\ \A i \in 1 .. MaxGenerations : WF_vars(Age(i))

Spec == Init /\ [][Next]_vars /\ Fairness
-------------------------------------------------------------------------------
(* Properties.                                                              *)

\* The state space; a row in work has a handler or is waiting for its ten minutes.
TypeOK ==
    /\ provider \in {"kie", "openai"}
    /\ chat \in [Callers -> Chats]
    /\ IsDocument(doc) /\ head \in Nat \ {0}
    /\ ledger \subseteq [key : Nat, base : Nat]
    /\ rows \in Seq(Rows)
    /\ \A c \in Callers :
         /\ DOMAIN at[c] = DOMAIN Idle
         /\ at[c].pc \in PCs /\ at[c].verdict \in Ends
         /\ at[c].row \in 0 .. Len(rows)
         /\ at[c].pc # "generate" => chat[c] = Quiet

\* Whatever batches are applied in whatever order, and whatever a model proposes,
\* the stored document is one the runtime can load: a spawner's template, a parent
\* or a scene that something leads to is never taken away (ApplyCommands).
StoredIsSound == Sound(doc)

\* The gameplay components of an entity.
GameplayOf(es, id) ==
    IF id \in DOMAIN es
    THEN {<<t, es[id].parts[t]>> : t \in DOMAIN es[id].parts \cap Gameplay} ELSE {}

\* An AI edit stays in the entry scene and adds no gameplay to it, so that the game
\* an editor or the conveyor built keeps its rules (sanitizeOps).
AIKeepsToScenery ==
    [][ledger' # ledger =>
         LET here == doc.scenes[doc.entry].entities
             after == doc'.scenes[doc.entry].entities
         IN /\ doc'.entry = doc.entry
            /\ DOMAIN doc'.scenes = DOMAIN doc.scenes
            /\ \A s \in DOMAIN doc.scenes :
                 /\ doc'.scenes[s].rules = doc.scenes[s].rules
                 /\ s # doc.entry => doc'.scenes[s] = doc.scenes[s]
            /\ \A id \in DOMAIN after : GameplayOf(after, id) \subseteq GameplayOf(here, id)
      ]_vars

\* What Generate tried on the document it was shown applies to the stored one, unless
\* the head has moved or an operation id was used before (Generate and applyOps
\* look at two copies of the document at two times).
TriedApplies ==
    \A c \in Callers :
        at[c].pc = "apply" /\ ~Moved(c) /\ ~Reused(c) => Edited(c) # {}

\* A handler that was not cut short leaves a row that says what happened: applied
\* when the edit of its request is in the store, and otherwise one of the errors.
RowsTellWhatHappened ==
    \A i \in DOMAIN rows :
        /\ ~rows[i].over /\ ~Carried(i) =>
             /\ rows[i].status # "generating"
             /\ rows[i].wrote => rows[i].status = "applied"
        /\ rows[i].status = "applied" =>
             [key |-> rows[i].key, base |-> rows[i].base] \in ledger

\* A generation that was cut short does not keep its project busy for ever
\* (HasActiveGeneration's ten minutes).
BusyEnds ==
    \A i \in 1 .. MaxGenerations : i \in Actives ~> i \notin Actives

\* A question to kie.ai fails only after the fallback model was asked too, unless
\* the caller's context is over or the primary model ran into the timeout of a
\* request (KieChat.Chat).
FallbackBeforeFailure ==
    \A c \in Callers :
        chat[c].at = "failed" /\ provider = "kie" /\ ~chat[c].late /\ ~at[c].over
            => chat[c].seconded
===============================================================================
