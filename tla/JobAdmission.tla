----------------------------- MODULE JobAdmission -----------------------------
(***************************************************************************)
(* How a job gets into the generation queue: POST /ai/games and            *)
(* POST /projects/{id}/improve (platform/httpapi/pipeline.go) call          *)
(* Store.CreateJob (agents/store.go), which counts the active jobs of the  *)
(* owner, inserts, and on a used idempotency key looks the first job up.   *)
(* Nothing ties the count to the insert, and clients retry.                *)
(*                                                                         *)
(* One action is one statement sent to the database, or the loss of its    *)
(* answer.  What happens to a job after it was queued is in Conveyor; here *)
(* it is active until it ends.                                             *)
(***************************************************************************)
EXTENDS Naturals, FiniteSets

CONSTANTS Jobs,         \* ids NewUUID may hand out (bound: that many insertions)
          Clients,      \* connections: each carries one request at a time
          Owners,       \* signed-in users
          Keys,         \* values of the Idempotency-Key header
          Prompts,      \* prompt and mode, which CreateJob compares
          Targets,      \* projects an improve request names
          None,         \* no project, no request
          ActiveLimit   \* activeJobLimit: queued and running jobs per owner

ASSUME FiniteAssumption == IsFiniteSet(Jobs) /\ IsFiniteSet(Clients)
ASSUME LimitAssumption == ActiveLimit \in Nat \ {0}

VARIABLES job,       \* job[j]: the ai_jobs row, as far as admission reads it
          request,   \* request[c]: what connection c is asking for
          pc,        \* pc[c]: the statement its handler sends next
          accepted   \* history: every 202, with its request and its job

vars == <<job, request, pc, accepted>>
-------------------------------------------------------------------------------
Kinds == {"create_game", "improve_game"}

\* The title is not modelled: no statement compares it.
Requests ==
    {q \in [owner : Owners, kind : Kinds, key : Keys, prompt : Prompts,
            target : Targets \cup {None}] :
        q.kind = "create_game" <=> q.target = None}

NoRow == [status |-> "absent", request |-> None]
Rows == {NoRow} \cup [status : {"active", "ended"}, request : Requests]

Known(j) == job[j].status # "absent"
Active(o) == {j \in Jobs : job[j].status = "active" /\ job[j].request.owner = o}

\* The rows the unique index on (owner_id, kind, idempotency_key) finds for q.
SameKey(q) ==
    {j \in Jobs : Known(j) /\ job[j].request.owner = q.owner
                           /\ job[j].request.kind = q.kind
                           /\ job[j].request.key = q.key}

Init ==
    /\ job = [j \in Jobs |-> NoRow]
    /\ request = [c \in Clients |-> None]
    /\ pc = [c \in Clients |-> "idle"]
    /\ accepted = {}

\* A mutant of Reply: the handler answers and forgets to return.
ReplyGoesOn(c) == pc' = pc /\ request' = [request EXCEPT ![c] = None]

\* The request is answered, or its answer is lost; clients act on a 202 only.
Reply(c) ==
    /\ pc' = [pc EXCEPT ![c] = "idle"]
    /\ request' = [request EXCEPT ![c] = None]

Refuse(c) == Reply(c) /\ UNCHANGED accepted

\* 202 with job j, for the request of c.
Accept(c, j) ==
    /\ Reply(c)
    /\ accepted' = accepted \cup {[request |-> request[c], job |-> j]}
-------------------------------------------------------------------------------
\* A request arrives, new or retried; the header and the body are well formed.
\* improveGame reads the project first.
Send(c, q) ==
    /\ pc[c] = "idle"
    /\ request' = [request EXCEPT ![c] = q]
    /\ pc' = [pc EXCEPT ![c] = IF q.kind = "improve_game" THEN "load" ELSE "count"]
    /\ UNCHANGED <<job, accepted>>

\* The project is the owner's and its head is the one the request builds on...
LoadProject(c) ==
    /\ pc[c] = "load"
    /\ pc' = [pc EXCEPT ![c] = "count"]
    /\ UNCHANGED <<job, request, accepted>>

\* ...or it is gone (404), or its head has moved (409).
RefuseProject(c) ==
    /\ pc[c] = "load"
    /\ Refuse(c)
    /\ UNCHANGED job

\* A mutant of Full.
FullNever(o) == FALSE

Full(o) == Cardinality(Active(o)) >= ActiveLimit

\* ErrBusy, 429.
CountTooMany(c) ==
    /\ pc[c] = "count"
    /\ Full(request[c].owner)
    /\ Refuse(c)
    /\ UNCHANGED job

CountRoom(c) ==
    /\ pc[c] = "count"
    /\ ~Full(request[c].owner)
    /\ pc' = [pc EXCEPT ![c] = "insert"]
    /\ UNCHANGED <<job, request, accepted>>


Insert(c) ==
    /\ pc[c] = "insert"
    /\ SameKey(request[c]) = {}
    /\ \E j \in Jobs :
         /\ ~Known(j)
         /\ job' = [job EXCEPT ![j] = [status |-> "active", request |-> request[c]]]
         /\ \/ Accept(c, j)
            \* The row is committed and the answer is lost on the way.
            \/ Refuse(c)

KeyTaken(c) ==
    /\ pc[c] = "insert"
    /\ SameKey(request[c]) # {}
    /\ pc' = [pc EXCEPT ![c] = "lookup"]
    /\ UNCHANGED <<job, request, accepted>>

\* The mutant hands out whatever job the key finds.
RepeatsAnything(q, j) == TRUE
Repeats(q, j) == job[j].request.prompt = q.prompt

\* The first job of the key, or ErrConflict, 409.
JobByKey(c) ==
    /\ pc[c] = "lookup"
    /\ \E j \in SameKey(request[c]) :
         IF Repeats(request[c], j) THEN Accept(c, j) ELSE Refuse(c)
    /\ UNCHANGED job

\* A statement fails and nothing was written: 503.
StoreFails(c) ==
    /\ pc[c] # "idle"
    /\ Refuse(c)
    /\ UNCHANGED job

\* Conveyor ends a job (FinishJob).
EndJob(j) ==
    /\ job[j].status = "active"
    /\ job' = [job EXCEPT ![j].status = "ended"]
    /\ UNCHANGED <<request, pc, accepted>>
-------------------------------------------------------------------------------
Handle(c) ==
    \/ LoadProject(c)
    \/ RefuseProject(c)
    \/ CountTooMany(c)
    \/ CountRoom(c)
    \/ Insert(c)
    \/ KeyTaken(c)
    \/ JobByKey(c)
    \/ StoreFails(c)

Next ==
    \/ \E c \in Clients : Handle(c) \/ \E q \in Requests : Send(c, q)
    \/ \E j \in Jobs : EndJob(j)

Spec == Init /\ [][Next]_vars
-------------------------------------------------------------------------------
(* Properties.                                                              *)

\* The state space of admission: rows, requests in flight and their answers.
TypeOK ==
    /\ job \in [Jobs -> Rows]
    /\ request \in [Clients -> Requests \cup {None}]
    /\ pc \in [Clients -> {"idle", "load", "count", "insert", "lookup"}]
    /\ accepted \subseteq [request : Requests, job : Jobs]
    /\ \A c \in Clients : pc[c] # "idle" => request[c] \in Requests

\* However retries, lost answers and concurrent requests interleave, an accepted
\* request is told of a job of its own owner and kind, filed under its key for the
\* same prompt; so two requests that carry one key are told of one job (CreateJob).
RetriesAgree ==
    \A a \in accepted :
        /\ job[a.job].request.owner = a.request.owner
        /\ job[a.job].request.kind = a.request.kind
        /\ job[a.job].request.key = a.request.key
        /\ job[a.job].request.prompt = a.request.prompt
        /\ \A b \in accepted :
             /\ a.request.owner = b.request.owner
             /\ a.request.kind = b.request.kind
             /\ a.request.key = b.request.key
             => a.job = b.job

\* The count and the insert are two statements, so an owner may get over the
\* limit: by one job for each of his requests but one that are handled at once,
\* and never by more, however often requests are retried (CreateJob).
OvershootBounded ==
    \A o \in Owners :
        Cardinality(Active(o)) < ActiveLimit + Cardinality(Clients)
-------------------------------------------------------------------------------
(* The inductive invariant.                                                 *)

\* The unique index: no two rows share owner, kind and key.
KeysAreUnique == \A i, j \in Jobs : Known(i) /\ j \in SameKey(job[i].request) => i = j

\* What a client was told of is the row his request was filed under.
AcceptedAreFiled ==
    \A a \in accepted :
        a.job \in SameKey(a.request) /\ job[a.job].request.prompt = a.request.prompt

\* The requests past the count have their jobs still to come.
PastCount(o) == {c \in Clients : pc[c] = "insert" /\ request[c].owner = o}

RoomIsLeft ==
    \A o \in Owners :
        Cardinality(Active(o)) + Cardinality(PastCount(o))
            < ActiveLimit + Cardinality(Clients)

IInv == TypeOK /\ KeysAreUnique /\ AcceptedAreFiled /\ RoomIsLeft
-------------------------------------------------------------------------------
(* What the documents say and the code does not do.                         *)

\* TECHNICAL_SPECIFICATION_RU.md allows two generations per user.
ActiveLimitKept == \A o \in Owners : Cardinality(Active(o)) <= ActiveLimit

\* TECHNICAL_SPECIFICATION_RU.md gives a repeated key with the same request the
\* original result: none that repeats a queued one is refused as one too many.
RetryGetsOriginal ==
    \A c \in Clients :
        pc[c] = "count" /\ Full(request[c].owner)
            => ~\E j \in Jobs : Known(j) /\ job[j].request = request[c]
===============================================================================
