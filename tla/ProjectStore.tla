----------------------------- MODULE ProjectStore -----------------------------
(***************************************************************************)
(* The project store (backend/internal/projects: store.go, store_ai.go):   *)
(* projects, their revisions, the ids of the operations applied to them,   *)
(* and the idempotency keys of the requests that wrote them.               *)
(*                                                                         *)
(* Each request is one database transaction, after a plain read for the    *)
(* requests whose handler looks at the project first.  One action is one   *)
(* statement of a transaction that others can wait for or overtake.  The   *)
(* transactions run at READ COMMITTED, the default of PostgreSQL and pgx:  *)
(* a statement that waited for a row goes on with the new version of that  *)
(* row, but with the rows of other tables its snapshot had found.          *)
(*                                                                         *)
(* Documents are not modelled: a revision is known by the operation that   *)
(* led to it.  All requests are those of one owner.                        *)
(***************************************************************************)
EXTENDS Naturals, Sequences, FiniteSets

CONSTANTS Clients,      \* connections: each carries one request at a time
          Projects,     \* ids of project documents
          Keys,         \* Idempotency-Keys, of clients and of pipeline jobs
          Edits,        \* ids of operations
          None,         \* no project, no operation, no request
          MaxRevisions  \* bound: revisions that are ever committed

ASSUME NoneAssumption == None \notin Projects \cup Edits

VARIABLES project,   \* project[p]: the projects row
          revision,  \* the project_revisions rows, in the order of their commits
          ledger,    \* the idempotency_keys rows that were committed
          tx,        \* tx[c]: the request on connection c and its transaction
          misled     \* history: operations told that a live project is not found

vars == <<project, revision, ledger, tx, misled>>
-------------------------------------------------------------------------------
\* The requests applyOps serves, and all that append a revision to a project.
Editing == {"change", "generate", "rename"}
Revising == Editing \cup {"replace"}
Ops == Revising \cup {"create", "delete", "restore"}

Requests == [op : Ops, project : Projects, key : Keys, base : Nat,
             edit : Edits \cup {None}, lock : Nat]

RevisionsOf(p) == {i \in DOMAIN revision : revision[i].project = p}

\* The requests of clients that know the project in its present or in an earlier
\* state; only a project that exists is improved by a job.
Sendable(p) ==
    [op : {"create", "restore"}, project : {p}, key : Keys,
     base : {0}, edit : {None}, lock : {0}]
    \cup [op : {"change"}, project : {p}, key : Keys,
          base : RevisionsOf(p), edit : Edits, lock : {0}]
    \cup [op : {"generate"}, project : {p}, key : Keys,
          base : RevisionsOf(p), edit : {None}, lock : {0}]
    \cup [op : {"rename", "delete"}, project : {p}, key : Keys,
          base : {0}, edit : {None}, lock : 0 .. project[p].lock]
    \cup [op : IF project[p].status = "absent" THEN {} ELSE {"replace"},
          project : {p}, key : Keys, base : {0}, edit : {None}, lock : {0}]

\* The row of idempotency_keys a request is filed under, and what of the request
\* its hash covers.  POST /projects has one endpoint for all projects.
Slot(q) == [op |-> q.op, key |-> q.key,
            project |-> IF q.op = "create" THEN None ELSE q.project]
Slots == [op : Ops, key : Keys, project : Projects \cup {None}]

Hash(q) == [project |-> q.project, base |-> q.base, edit |-> q.edit, lock |-> q.lock]
Hashes == [project : Projects, base : Nat, edit : Edits \cup {None}, lock : Nat]

ProjectRows == [status : {"absent", "live", "deleted"}, head : Nat, lock : Nat]

Revisions == [project : Projects, parent : Nat, slot : Slots, base : Nat,
              edit : Edits \cup {None}, lock : Nat]

\* No request; base, edit and seen are the locals of the handler.
Idle == [pc |-> "idle", request |-> None, base |-> 0, edit |-> None, seen |-> 0]
Handlers == [pc : {"peek", "begin", "select", "lock", "write"}, request : Requests,
             base : Nat, edit : Edits \cup {None}, seen : Nat]

Init ==
    /\ project = [p \in Projects |-> [status |-> "absent", head |-> 0, lock |-> 0]]
    /\ revision = <<>>
    /\ ledger = {}
    /\ tx = [c \in Clients |-> Idle]
    /\ misled = {}
-------------------------------------------------------------------------------
Row(c) == project[tx[c].request.project]
Live(c) == Row(c).status = "live"

Go(c, pc) == tx' = [tx EXCEPT ![c].pc = pc]

\* The mutant answers and goes on.
ReplyGoesOn(c) == tx' = [tx EXCEPT ![c].request = None]

\* The request is answered, and its transaction is over.
Reply(c) == tx' = [tx EXCEPT ![c] = Idle]

Refuse(c) == Reply(c) /\ UNCHANGED <<project, revision, ledger, misled>>

\* A request arrives, new or retried after a lost answer.
Send(c, q) ==
    /\ tx[c].pc = "idle"
    /\ tx' = [tx EXCEPT ![c] =
                [Idle EXCEPT !.pc = IF q.op \in {"generate", "rename"}
                                    THEN "peek" ELSE "begin",
                             !.request = q,
                             !.base = q.base,
                             !.edit = q.edit]]
    /\ UNCHANGED <<project, revision, ledger, misled>>

\* PATCH reads the project first and takes the head it finds for its base...
PeekTitle(c) ==
    /\ tx[c].pc = "peek" /\ tx[c].request.op = "rename"
    /\ Live(c) /\ Row(c).lock = tx[c].request.lock
    /\ tx' = [tx EXCEPT ![c].pc = "begin", ![c].base = Row(c).head]
    /\ UNCHANGED <<project, revision, ledger, misled>>

\* ...POST .../ai/generations compares the head and asks the model for a change...
PeekGenerate(c) ==
    /\ tx[c].pc = "peek" /\ tx[c].request.op = "generate"
    /\ Live(c) /\ Row(c).head = tx[c].base
    /\ \E e \in Edits : tx' = [tx EXCEPT ![c].pc = "begin", ![c].edit = e]
    /\ UNCHANGED <<project, revision, ledger, misled>>

\* ...or they answer 404, or 409.
PeekRefused(c) ==
    /\ tx[c].pc = "peek"
    /\ \/ ~Live(c)
       \/ tx[c].request.op = "rename" /\ Row(c).lock # tx[c].request.lock
       \/ tx[c].request.op = "generate" /\ Row(c).head # tx[c].base
    /\ Refuse(c)
-------------------------------------------------------------------------------
(* beginIdempotent: the key is inserted, or the transaction waits for the   *)
(* one that inserted it, and reads what was filed under it.                 *)

HoldsSlot(c, slot) ==
    tx[c].pc \in {"select", "lock", "write"} /\ Slot(tx[c].request) = slot

\* A mutant: nobody waits for a key.
SlotAlwaysFree(c) == TRUE

SlotFree(c) == ~\E d \in Clients \ {c} : HoldsSlot(d, Slot(tx[c].request))

Filed(c) == {row \in ledger : row.slot = Slot(tx[c].request)}

\* Replayed when the hash is the same, 409 IDEMPOTENCY_CONFLICT otherwise.
BeginKnown(c) ==
    /\ tx[c].pc = "begin" /\ SlotFree(c)
    /\ Filed(c) # {}
    /\ Refuse(c)

BeginNew(c) ==
    /\ tx[c].pc = "begin" /\ SlotFree(c)
    /\ Filed(c) = {}
    /\ Go(c, IF tx[c].request.op = "create" THEN "lock" ELSE "select")
    /\ UNCHANGED <<project, revision, ledger, misled>>
-------------------------------------------------------------------------------
(* The project row: the statement takes its snapshot, then waits until no   *)
(* other transaction holds the row, then looks at the row once more.        *)

\* What the WHERE clause of the statement asks of the row.
Wanted(op) == IF op = "restore" THEN "deleted" ELSE "live"

SelectRow(c) ==
    /\ tx[c].pc = "select"
    /\ Row(c).status = Wanted(tx[c].request.op)
    /\ tx' = [tx EXCEPT ![c].pc = "lock", ![c].seen = Row(c).head]
    /\ UNCHANGED <<project, revision, ledger, misled>>

SelectNone(c) ==
    /\ tx[c].pc = "select"
    /\ Row(c).status # Wanted(tx[c].request.op)
    /\ Refuse(c)

\* Mutants: no FOR UPDATE; no deleted_at IS NULL.
RowAlwaysFree(c) == TRUE
StandingDeleted(c) == Row(c).status # "absent"

RowFree(c) ==
    ~\E d \in Clients \ {c} :
        tx[d].pc = "write" /\ tx[d].request.project = tx[c].request.project

Standing(c) == Live(c)

\* A revision that joined the row by its head is not read again: when the head
\* has moved meanwhile, the join finds nothing.
Found(c) ==
    CASE tx[c].request.op = "create" -> Row(c).status = "absent"
      [] tx[c].request.op = "restore" -> Row(c).status = "deleted"
      [] tx[c].request.op = "delete" -> Standing(c)
      [] OTHER -> Standing(c) /\ Row(c).head = tx[c].seen

\* Mutants of Stale and Repeated.
StaleNever(c) == FALSE
RepeatedNever(c) == FALSE

\* 409: the base, or the lock_version of If-Match, is not the current one.
Stale(c) ==
    \/ tx[c].request.op \in Editing /\ Row(c).head # tx[c].base
    \/ tx[c].request.op = "delete" /\ Row(c).lock # tx[c].request.lock

\* 422: the operation was applied to the project before.
Repeated(c) ==
    /\ tx[c].request.op \in Editing
    /\ tx[c].edit # None
    /\ \E i \in RevisionsOf(tx[c].request.project) : revision[i].edit = tx[c].edit

\* 404, or 503 for a project created before.
LockNone(c) ==
    /\ tx[c].pc = "lock" /\ RowFree(c)
    /\ ~Found(c)
    /\ misled' = IF Live(c) /\ tx[c].request.op \in Revising \cup {"delete"}
                 THEN misled \cup {tx[c].request.op} ELSE misled
    /\ Reply(c)
    /\ UNCHANGED <<project, revision, ledger>>

LockRefused(c) ==
    /\ tx[c].pc = "lock" /\ RowFree(c)
    /\ Found(c)
    /\ Stale(c) \/ Repeated(c)
    /\ Refuse(c)

LockRow(c) ==
    /\ tx[c].pc = "lock" /\ RowFree(c)
    /\ Found(c) /\ ~Stale(c) /\ ~Repeated(c)
    /\ Go(c, "write")
    /\ UNCHANGED <<project, revision, ledger, misled>>
-------------------------------------------------------------------------------
(* The writes, the answer filed under the key, and the commit.  Whether the *)
(* client sees the answer makes no difference here: it may ask again.       *)

File(c) == ledger' = ledger \cup {[slot |-> Slot(tx[c].request),
                                   hash |-> Hash(tx[c].request)]}

Update(c, row) == project' = [project EXCEPT ![tx[c].request.project] = row]

\* The revision the handler commits, on the parent its SELECT read.
Revision(c) == [project |-> tx[c].request.project,
                parent |-> tx[c].seen,
                slot |-> Slot(tx[c].request),
                base |-> tx[c].base,
                edit |-> tx[c].edit,
                lock |-> tx[c].request.lock]

\* Create and the requests that append: the new revision is the head.
WriteRevision(c) ==
    /\ tx[c].pc = "write"
    /\ tx[c].request.op \in Revising \cup {"create"}
    /\ Len(revision) < MaxRevisions
    /\ revision' = Append(revision, Revision(c))
    /\ Update(c, [status |-> "live",
                  head |-> Len(revision) + 1,
                  lock |-> IF tx[c].request.op = "create" THEN 0 ELSE Row(c).lock + 1])
    /\ File(c)
    /\ Reply(c)
    /\ UNCHANGED misled

\* SoftDelete and Restore: neither moves the head nor the lock_version.
WriteStatus(c) ==
    /\ tx[c].pc = "write"
    /\ tx[c].request.op \in {"delete", "restore"}
    /\ Update(c, [Row(c) EXCEPT !.status = IF tx[c].request.op = "delete"
                                           THEN "deleted" ELSE "live"])
    /\ File(c)
    /\ Reply(c)
    /\ UNCHANGED <<revision, misled>>

\* A statement fails, the document is refused, the model gives nothing usable,
\* or the process dies: the transaction is rolled back.
Fail(c) ==
    /\ tx[c].pc # "idle"
    /\ Refuse(c)
-------------------------------------------------------------------------------
Handle(c) ==
    \/ PeekTitle(c)
    \/ PeekGenerate(c)
    \/ PeekRefused(c)
    \/ BeginKnown(c)
    \/ BeginNew(c)
    \/ SelectRow(c)
    \/ SelectNone(c)
    \/ LockNone(c)
    \/ LockRefused(c)
    \/ LockRow(c)
    \/ WriteRevision(c)
    \/ WriteStatus(c)
    \/ Fail(c)

Next ==
    \E c \in Clients :
        \/ Handle(c)
        \/ \E p \in Projects : \E q \in Sendable(p) : Send(c, q)

Spec == Init /\ [][Next]_vars
-------------------------------------------------------------------------------
(* Properties.                                                              *)

\* The state space of the store; an idle connection holds nothing.
TypeOK ==
    /\ project \in [Projects -> ProjectRows]
    /\ revision \in Seq(Revisions)
    /\ ledger \subseteq [slot : Slots, hash : Hashes]
    /\ tx \in [Clients -> Handlers \cup {Idle}]
    /\ misled \subseteq Ops

\* However transactions overlap, the revisions of a project form one chain that
\* ends in its head, and lock_version counts them: no committed revision is left
\* beside the history (the row lock of applyOps and ReplaceDocument).
LinearHistory ==
    \A p \in Projects :
        LET mine == RevisionsOf(p) IN
        /\ \A i \in mine :
             \/ revision[i].parent = 0 /\ \A k \in mine : k >= i
             \/ /\ revision[i].parent \in mine
                /\ revision[i].parent < i
                /\ \A k \in mine : k <= revision[i].parent \/ k >= i
        /\ \A i \in mine : i <= project[p].head
        /\ project[p].head \in mine \cup {0}
        /\ mine # {} => Cardinality(mine) = project[p].lock + 1

\* An edit is committed only on the revision its author was looking at: the base
\* of a change or a generation, the lock_version of a new title (applyOps, and
\* UpdateTitle, which checks it outside the transaction).
EditsBuildOnBase ==
    \A i \in DOMAIN revision :
        /\ revision[i].slot.op \in Editing => revision[i].parent = revision[i].base
        /\ revision[i].slot.op = "rename" =>
             revision[i].lock + 1 =
                 Cardinality({k \in RevisionsOf(revision[i].project) : k < i})

\* One key commits at most one revision, whoever repeats the request and when,
\* concurrent repetitions included (beginIdempotent, completeIdempotent).
OneRevisionPerKey ==
    \A i, k \in DOMAIN revision : revision[i].slot = revision[k].slot => i = k

\* An operation is applied to a project at most once, also when the client
\* repeats it under a new key and on a new base (project_commands).
EditedOnce ==
    \A i, k \in DOMAIN revision :
        /\ revision[i].project = revision[k].project
        /\ revision[i].edit = revision[k].edit
        /\ revision[i].edit # None
        => i = k

\* A deleted project is left alone, also by the requests that saw it alive,
\* until it is restored as it was.
DeletedStays ==
    [][\A p \in Projects :
         project[p].status = "deleted" =>
             /\ project'[p].head = project[p].head
             /\ project'[p].lock = project[p].lock]_vars

(* The store as a ledger: what its tables say of the projects.              *)
Applied == [p \in Projects |-> {revision[i].edit : i \in RevisionsOf(p)} \ {None}]

AtOnce == INSTANCE ProjectLedger WITH
            count <- Len(revision), applied <- Applied, filed <- ledger

\* Every request that succeeds takes effect at the moment of its commit, as if it
\* were alone, on the state its client named, whatever other transactions did
\* between its statements (the reads, beginIdempotent, FOR UPDATE, the commit).
ImplementsLedger == AtOnce!Spec
-------------------------------------------------------------------------------
(* What the documents say and the code does not do.                         *)

\* TECHNICAL_SPECIFICATION_RU.md AC-06 gives a stale base 409 and keeps both
\* versions; nobody is told that a project that is there was not found.
NotFoundMeansGone == misled = {}
===============================================================================
