---------------------------- MODULE ProjectLedger ----------------------------
(***************************************************************************)
(* What the clients of the project store are promised about their writes,  *)
(* whatever transactions do behind the API: every request that succeeds    *)
(* takes effect at one moment, as if it were alone, on the state of the    *)
(* project its client named, at most once per key, and an operation is     *)
(* applied to a project at most once.                                      *)
(*                                                                         *)
(* A request that fails, is refused or is repeated changes nothing here.   *)
(***************************************************************************)
EXTENDS Naturals

CONSTANTS Projects,  \* ids of project documents
          Keys,      \* Idempotency-Keys
          Edits,     \* ids of operations
          None       \* no project, no operation

VARIABLES project,  \* project[p]: whether it is there, its head, its lock_version
          count,    \* how many revisions were committed, of all projects
          applied,  \* applied[p]: the operations that led to its document
          filed     \* the requests that took effect, by endpoint and key

vars == <<project, count, applied, filed>>

Init ==
    /\ project = [p \in Projects |-> [status |-> "absent", head |-> 0, lock |-> 0]]
    /\ count = 0
    /\ applied = [p \in Projects |-> {}]
    /\ filed = {}
-------------------------------------------------------------------------------
Is(p, status) == project[p].status = status

\* The request is the first under its slot, and named this state of the project.
Take(slot, p, base, edit, lock) ==
    /\ \A row \in filed : row.slot # slot
    /\ filed' = filed \cup {[slot |-> slot,
                             hash |-> [project |-> p, base |-> base,
                                       edit |-> edit, lock |-> lock]]}

Slot(op, p, k) == [op |-> op, key |-> k, project |-> p]

\* The next revision is the head of the project.
Commit(p, lock) ==
    /\ count' = count + 1
    /\ project' = [project EXCEPT ![p] = [status |-> "live", head |-> count + 1,
                                          lock |-> lock]]

Apply(p, e) ==
    /\ e \notin applied[p]
    /\ applied' = [applied EXCEPT ![p] = @ \cup {e}]

Mark(p, status) ==
    /\ project' = [project EXCEPT ![p].status = status]
    /\ UNCHANGED <<count, applied>>
-------------------------------------------------------------------------------
Create(p, k) ==
    /\ Is(p, "absent")
    /\ Take(Slot("create", None, k), p, 0, None, 0)
    /\ Commit(p, 0)
    /\ UNCHANGED applied

\* An operation, written by the client for the head...
Change(p, k, e) ==
    /\ Is(p, "live")
    /\ Take(Slot("change", p, k), p, project[p].head, e, 0)
    /\ Apply(p, e)
    /\ Commit(p, project[p].lock + 1)

\* ...or by the model.
Generate(p, k, e) ==
    /\ Is(p, "live")
    /\ Take(Slot("generate", p, k), p, project[p].head, None, 0)
    /\ Apply(p, e)
    /\ Commit(p, project[p].lock + 1)

\* A title, for the version the client saw.
Rename(p, k) ==
    /\ Is(p, "live")
    /\ Take(Slot("rename", p, k), p, 0, None, project[p].lock)
    /\ Commit(p, project[p].lock + 1)
    /\ UNCHANGED applied

\* A job writes its document, whatever the head is.
Replace(p, k) ==
    /\ Is(p, "live")
    /\ Take(Slot("replace", p, k), p, 0, None, 0)
    /\ Commit(p, project[p].lock + 1)
    /\ UNCHANGED applied

Delete(p, k) ==
    /\ Is(p, "live")
    /\ Take(Slot("delete", p, k), p, 0, None, project[p].lock)
    /\ Mark(p, "deleted")

Restore(p, k) ==
    /\ Is(p, "deleted")
    /\ Take(Slot("restore", p, k), p, 0, None, 0)
    /\ Mark(p, "live")

Next ==
    \E p \in Projects, k \in Keys :
        \/ Create(p, k)
        \/ \E e \in Edits : Change(p, k, e) \/ Generate(p, k, e)
        \/ Rename(p, k)
        \/ Replace(p, k)
        \/ Delete(p, k)
        \/ Restore(p, k)

Spec == Init /\ [][Next]_vars
===============================================================================
