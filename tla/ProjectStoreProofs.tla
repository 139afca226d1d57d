-------------------------- MODULE ProjectStoreProofs --------------------------
(***************************************************************************)
(* The safety properties of ProjectStore, for any number of connections,   *)
(* projects, keys, operations and revisions.                               *)
(***************************************************************************)
EXTENDS ProjectStore, TLAPS, FiniteSetTheorems

\* A transaction that inserted its key; one that holds its project row.
Holding(t) == t.pc \in {"select", "lock", "write"}
Writing(t) == t.pc = "write"

\* The revision a new title was asked for is the one its lock_version counts.
Counted(t) ==
    /\ t.base <= Len(revision)
    /\ Cardinality({k \in RevisionsOf(t.request.project) : k <= t.base})
         = t.request.lock + 1

\* What a transaction found stays true for as long as it holds the row.
Allowed(t) ==
    LET row == project[t.request.project] IN
    /\ t.request.op = "create" => row.status = "absent"
    /\ t.request.op # "create" => row.status # "absent"
    /\ t.request.op \in Revising => row.status = "live" /\ row.head = t.seen
    /\ t.request.op \in Editing =>
         /\ row.head = t.base
         /\ t.edit # None =>
              \A i \in RevisionsOf(t.request.project) : revision[i].edit # t.edit
    /\ t.request.op = "delete" => row.status = "live" /\ row.lock = t.request.lock
    /\ t.request.op = "restore" => row.status = "deleted"

\* A request names what its endpoint asks for, and its handler works on that.
Named(t) ==
    LET q == t.request IN
    /\ q.op \notin {"change", "generate"} => q.base = 0
    /\ q.op \in {"change", "generate"} => t.base = q.base
    /\ q.op # "change" => q.edit = None
    /\ q.op = "change" => q.edit \in Edits /\ t.edit = q.edit
    /\ q.op \notin {"change", "generate"} => t.edit = None
    /\ q.op = "generate" /\ t.pc # "peek" => t.edit \in Edits
    /\ q.op \notin {"rename", "delete"} => q.lock = 0

TxFits(t) ==
    /\ Named(t)
    /\ t.request.op = "create" => t.seen = 0 /\ t.pc # "select"
    /\ t.request.op \notin Editing => t.edit = None
    /\ t.request.op = "rename" /\ t.pc # "peek" => Counted(t)
    /\ Holding(t) => \A row \in ledger : row.slot # Slot(t.request)
    /\ Writing(t) => Allowed(t)

TxsFit == \A c \in Clients : tx[c].pc # "idle" => TxFits(tx[c])

\* One transaction holds a key, one holds a row.
Apart(t, u) ==
    /\ Holding(t) /\ Holding(u) => Slot(t.request) # Slot(u.request)
    /\ Writing(t) /\ Writing(u) => t.request.project # u.request.project

AllApart == \A c, d \in Clients : c # d => Apart(tx[c], tx[d])

\* A project is there from its first revision on.
RowsFit == \A p \in Projects : project[p].status = "absent" <=> RevisionsOf(p) = {}

\* Whatever was committed was filed.
AllFiled == \A i \in DOMAIN revision : \E row \in ledger : row.slot = revision[i].slot

Histories == LinearHistory /\ EditsBuildOnBase /\ OneRevisionPerKey /\ EditedOnce

IInv == TypeOK /\ TxsFit /\ AllApart /\ RowsFit /\ AllFiled /\ Histories
-------------------------------------------------------------------------------
\* The rows, by their positions.
LEMMA RowsType ==
  ASSUME TypeOK
  PROVE  /\ Len(revision) \in Nat /\ DOMAIN revision = 1 .. Len(revision)
         /\ \A i \in DOMAIN revision : revision[i] \in Revisions
         /\ \A p \in Projects : project[p] \in ProjectRows
         /\ \A p \in Projects : RevisionsOf(p) \subseteq 1 .. Len(revision)
  BY DEF TypeOK, RevisionsOf

LEMMA RequestType ==
  ASSUME NEW q \in Requests
  PROVE  /\ q.op \in Ops /\ q.project \in Projects /\ q.key \in Keys
         /\ q.base \in Nat /\ q.edit \in Edits \cup {None} /\ q.lock \in Nat
         /\ Slot(q) \in Slots /\ Hash(q) \in Hashes /\ Slot(q).op = q.op
  BY DEF Requests, Slot, Slots, Hash, Hashes

LEMMA HandlerType ==
  ASSUME TypeOK, NEW c \in Clients, tx[c].pc # "idle"
  PROVE  /\ tx[c] \in Handlers
         /\ tx[c].request \in Requests
         /\ tx[c].base \in Nat /\ tx[c].seen \in Nat
         /\ tx[c].edit \in Edits \cup {None}
         /\ tx[c].pc \in {"peek", "begin", "select", "lock", "write"}
  BY DEF TypeOK, Handlers, Idle

\* The head is the newest revision of a project, when it has one.
LEMMA HeadIs ==
  ASSUME TypeOK, LinearHistory, RowsFit, NEW p \in Projects
  PROVE  /\ project[p].head \in Nat /\ project[p].head <= Len(revision)
         /\ \A i \in RevisionsOf(p) : i <= project[p].head
         /\ project[p].status # "absent" =>
              /\ project[p].head \in RevisionsOf(p)
              /\ Cardinality(RevisionsOf(p)) = project[p].lock + 1
<1>1. /\ \A i \in RevisionsOf(p) : i <= project[p].head
      /\ project[p].head \in RevisionsOf(p) \cup {0}
      /\ RevisionsOf(p) # {} => Cardinality(RevisionsOf(p)) = project[p].lock + 1
  BY DEF LinearHistory
<1>2. project[p].status # "absent" => RevisionsOf(p) # {}
  BY DEF RowsFit
<1>3. \A i \in RevisionsOf(p) : i \in Nat /\ i >= 1 /\ i <= Len(revision)
  BY RowsType
<1>4. project[p].head # 0 => project[p].head \in RevisionsOf(p)
  BY <1>1
<1>5. RevisionsOf(p) # {} => project[p].head # 0
  BY <1>1, <1>3
<1>6. project[p].head \in Nat /\ project[p].head <= Len(revision)
  BY <1>3, <1>4, RowsType
<1> QED
  BY <1>1, <1>2, <1>4, <1>5, <1>6

\* The title a client changes belongs to the revision it saw.
LEMMA HeadIsCounted ==
  ASSUME TypeOK, LinearHistory, RowsFit, NEW t, t.request.project \in Projects,
         project[t.request.project].status = "live",
         t.base = project[t.request.project].head,
         project[t.request.project].lock = t.request.lock
  PROVE  Counted(t)
<1> DEFINE p == t.request.project
<1>1. \A i \in RevisionsOf(p) : i <= t.base
  BY HeadIs
<1>2. {k \in RevisionsOf(p) : k <= t.base} = RevisionsOf(p)
  BY <1>1
<1>3. Cardinality(RevisionsOf(p)) = t.request.lock + 1 /\ t.base <= Len(revision)
  BY HeadIs
<1> QED
  BY <1>2, <1>3 DEF Counted
-------------------------------------------------------------------------------
(* What one transaction does while the rows stay.                           *)

Keeps(c, t) ==
    /\ t \in Handlers \cup {Idle}
    /\ tx' = [tx EXCEPT ![c] = t]
    /\ UNCHANGED <<project, revision, ledger>>
    /\ misled' \subseteq Ops
    /\ t.pc # "idle" => TxFits(t)
    /\ \A d \in Clients \ {c} : Apart(t, tx[d])

LEMMA TxIs ==
  ASSUME TypeOK, NEW c \in Clients, NEW t, tx' = [tx EXCEPT ![c] = t]
  PROVE  tx'[c] = t /\ \A d \in Clients \ {c} : tx'[d] = tx[d]
  BY DEF TypeOK

LEMMA IdleIs ==
  /\ Idle.pc = "idle"
  /\ \A t : Apart(Idle, t) /\ Apart(t, Idle)
  BY DEF Idle, Apart, Holding, Writing

LEMMA ApartBothWays ==
  ASSUME NEW t, NEW u, Apart(t, u)
  PROVE  Apart(u, t)
  BY DEF Apart

LEMMA RefuseKeeps ==
  ASSUME TypeOK, NEW c \in Clients, Reply(c), UNCHANGED <<project, revision, ledger>>,
         misled' \subseteq Ops
  PROVE  Keeps(c, Idle)
  BY IdleIs DEF Reply, Keeps

\* A transaction that goes on to a step where it holds nothing more.
LEMMA SendKeeps ==
  ASSUME IInv, NEW c \in Clients, NEW p \in Projects, NEW q \in Sendable(p), Send(c, q)
  PROVE  \E t : Keeps(c, t)
<1> DEFINE t == [Idle EXCEPT !.pc = IF q.op \in {"generate", "rename"}
                                    THEN "peek" ELSE "begin",
                             !.request = q, !.base = q.base, !.edit = q.edit]
<1>1. project[p].lock \in Nat /\ RevisionsOf(p) \subseteq Nat
  BY RowsType DEF IInv, ProjectRows
<1>2. q \in Requests
  BY <1>1 DEF Sendable, Requests, Ops, Revising, Editing
<1>3. q.op \notin Editing => q.edit = None
  BY DEF Sendable, Editing
<1>4. /\ t.pc = IF q.op \in {"generate", "rename"} THEN "peek" ELSE "begin"
      /\ t.request = q /\ t.base = q.base /\ t.edit = q.edit /\ t.seen = 0
  BY DEF Idle
<1>5. tx' = [tx EXCEPT ![c] = t] /\ UNCHANGED <<project, revision, ledger, misled>>
  BY DEF Send
<1>6. t \in Handlers
  <2>1. q.base \in Nat /\ q.edit \in Edits \cup {None}
    BY <1>2, RequestType
  <2> QED
    BY <1>2, <2>1 DEF Idle, Handlers
<1> HIDE DEF t
<1>7. t.pc \in {"peek", "begin"} /\ (q.op = "rename" => t.pc = "peek")
  BY <1>4
<1>8. TxFits(t)
  <2>1. Named(t)
    BY <1>4, <1>7 DEF Sendable, Named
  <2> QED
    BY <1>3, <1>4, <1>7, <2>1 DEF TxFits, Holding, Writing
<1>9. \A d \in Clients \ {c} : Apart(t, tx[d])
  BY <1>7 DEF Apart, Holding, Writing
<1> QED
  BY <1>5, <1>6, <1>8, <1>9 DEF Keeps, IInv, TypeOK

\* The handlers that look at the project first go on with what they saw.
LEMMA PeekKeeps ==
  ASSUME IInv, NEW c \in Clients, PeekTitle(c) \/ PeekGenerate(c)
  PROVE  \E t : Keeps(c, t)
<1>1. tx[c] \in Handlers /\ tx[c].request \in Requests /\ TxFits(tx[c])
  BY HandlerType DEF IInv, TxsFit, PeekTitle, PeekGenerate
<1>2. TypeOK /\ LinearHistory /\ RowsFit
  BY DEF IInv, Histories
<1>3. CASE PeekTitle(c)
  <2> DEFINE t == [tx[c] EXCEPT !.pc = "begin", !.base = Row(c).head]
  <2>1. Row(c).head \in Nat
    BY <1>1, <1>2, RequestType, HeadIs DEF Row
  <2>2. /\ t \in Handlers /\ t.pc = "begin" /\ t.request = tx[c].request
        /\ t.base = Row(c).head /\ t.edit = tx[c].edit /\ t.seen = tx[c].seen
    BY <1>1, <2>1 DEF Handlers
  <2>3. tx' = [tx EXCEPT ![c] = t] /\ UNCHANGED <<project, revision, ledger, misled>>
    BY <1>3 DEF PeekTitle
  <2> HIDE DEF t
  <2>4. Counted(t)
    BY <1>1, <1>2, <1>3, <2>2, RequestType, HeadIsCounted DEF PeekTitle, Row, Live
  <2>5. TxFits(t)
    <3>1. Named(t)
      BY <1>1, <1>3, <2>2 DEF TxFits, Named, PeekTitle
    <3> QED
      BY <1>1, <2>2, <2>4, <3>1 DEF TxFits, Holding, Writing
  <2>6. \A d \in Clients \ {c} : Apart(t, tx[d])
    BY <2>2 DEF Apart, Holding, Writing
  <2> QED
    BY <1>2, <2>2, <2>3, <2>5, <2>6 DEF Keeps, TypeOK
<1>4. CASE PeekGenerate(c)
  <2>1. PICK e \in Edits : tx' = [tx EXCEPT ![c].pc = "begin", ![c].edit = e]
    BY <1>4 DEF PeekGenerate
  <2> DEFINE t == [tx[c] EXCEPT !.pc = "begin", !.edit = e]
  <2>2. /\ t \in Handlers /\ t.pc = "begin" /\ t.request = tx[c].request
        /\ t.base = tx[c].base /\ t.edit = e /\ t.seen = tx[c].seen
    BY <1>1 DEF Handlers
  <2>3. tx' = [tx EXCEPT ![c] = t] /\ UNCHANGED <<project, revision, ledger, misled>>
    BY <1>4, <2>1 DEF PeekGenerate
  <2> HIDE DEF t
  <2>4. t.request.op = "generate"
    BY <1>1, <1>2, <1>4, <2>2 DEF PeekGenerate, TypeOK
  <2>5. TxFits(t)
    <3>1. Named(t)
      BY <1>1, <2>2, <2>4 DEF TxFits, Named
    <3> QED
      BY <1>1, <2>2, <2>4, <3>1 DEF TxFits, Holding, Writing, Editing
  <2>6. \A d \in Clients \ {c} : Apart(t, tx[d])
    BY <2>2 DEF Apart, Holding, Writing
  <2> QED
    BY <1>2, <2>2, <2>3, <2>5, <2>6 DEF Keeps, TypeOK
<1> QED
  BY <1>3, <1>4

\* A key is inserted by one transaction, and once.
LEMMA BeginKeeps ==
  ASSUME IInv, NEW c \in Clients, BeginNew(c)
  PROVE  \E t : Keeps(c, t)
<1>1. tx[c] \in Handlers /\ tx[c].request \in Requests /\ TxFits(tx[c])
  BY HandlerType DEF IInv, TxsFit, BeginNew
<1> DEFINE t == [tx[c] EXCEPT !.pc = IF tx[c].request.op = "create" THEN "lock"
                                     ELSE "select"]
<1>2. /\ t \in Handlers /\ t.pc \in {"select", "lock"} /\ t.request = tx[c].request
      /\ t.base = tx[c].base /\ t.edit = tx[c].edit /\ t.seen = tx[c].seen
      /\ tx[c].request.op = "create" => t.pc = "lock"
  BY <1>1 DEF Handlers
<1>3. tx' = [tx EXCEPT ![c] = t] /\ UNCHANGED <<project, revision, ledger, misled>>
  BY DEF BeginNew, Go
<1> HIDE DEF t
<1>4. \A row \in ledger : row.slot # Slot(t.request)
  BY <1>2 DEF BeginNew, Filed
<1>5. TxFits(t)
  <2>1. Counted(tx[c]) => Counted(t)
    BY <1>2 DEF Counted
  <2>2. Named(t)
    BY <1>1, <1>2 DEF TxFits, Named, BeginNew
  <2> QED
    BY <1>1, <1>2, <1>4, <2>1, <2>2 DEF TxFits, Writing, BeginNew
<1>6. \A d \in Clients \ {c} : Apart(t, tx[d])
  BY <1>2 DEF BeginNew, SlotFree, HoldsSlot, Apart, Holding, Writing
<1> QED
  BY <1>2, <1>3, <1>5, <1>6 DEF Keeps, IInv, TypeOK

\* A statement looks for the row...
LEMMA SelectKeeps ==
  ASSUME IInv, NEW c \in Clients, SelectRow(c)
  PROVE  \E t : Keeps(c, t)
<1>1. tx[c] \in Handlers /\ tx[c].request \in Requests /\ TxFits(tx[c])
  BY HandlerType DEF IInv, TxsFit, SelectRow
<1> DEFINE t == [tx[c] EXCEPT !.pc = "lock", !.seen = Row(c).head]
<1>2. Row(c).head \in Nat
  BY <1>1, RequestType, HeadIs DEF Row, IInv, Histories
<1>3. /\ t \in Handlers /\ t.pc = "lock" /\ t.request = tx[c].request
      /\ t.base = tx[c].base /\ t.edit = tx[c].edit /\ t.seen = Row(c).head
  BY <1>1, <1>2 DEF Handlers
<1>4. tx' = [tx EXCEPT ![c] = t] /\ UNCHANGED <<project, revision, ledger, misled>>
  BY DEF SelectRow
<1> HIDE DEF t
<1>5. t.request.op # "create"
  BY <1>1, <1>3 DEF SelectRow, TxFits
<1>6. TxFits(t)
  <2>1. Counted(tx[c]) => Counted(t)
    BY <1>3 DEF Counted
  <2>2. Named(t)
    BY <1>1, <1>3 DEF TxFits, Named, SelectRow
  <2> QED
    BY <1>1, <1>3, <1>5, <2>1, <2>2 DEF TxFits, Writing, Holding, SelectRow
<1>7. \A d \in Clients \ {c} : Apart(t, tx[d])
  BY <1>3 DEF IInv, AllApart, SelectRow, Apart, Holding, Writing
<1> QED
  BY <1>3, <1>4, <1>6, <1>7 DEF Keeps, IInv, TypeOK

\* ...and holds it, as long as what it wants is still true of it.
LEMMA LockKeeps ==
  ASSUME IInv, NEW c \in Clients, LockRow(c)
  PROVE  \E t : Keeps(c, t)
<1>1. tx[c] \in Handlers /\ tx[c].request \in Requests /\ TxFits(tx[c])
  BY HandlerType DEF IInv, TxsFit, LockRow
<1> DEFINE t == [tx[c] EXCEPT !.pc = "write"]
<1>2. /\ t \in Handlers /\ t.pc = "write" /\ t.request = tx[c].request
      /\ t.base = tx[c].base /\ t.edit = tx[c].edit /\ t.seen = tx[c].seen
  BY <1>1 DEF Handlers
<1>3. tx' = [tx EXCEPT ![c] = t] /\ UNCHANGED <<project, revision, ledger, misled>>
  BY DEF LockRow, Go
<1> HIDE DEF t
<1>4. Allowed(t)
  <2>1. tx[c].request.op \in Ops
    BY <1>1, RequestType
  <2>2. Found(c) /\ ~Stale(c) /\ ~Repeated(c)
    BY DEF LockRow
  <2>3. /\ t.request.op = "create" => Row(c).status = "absent"
        /\ t.request.op # "create" => Row(c).status # "absent"
        /\ t.request.op \in Revising => Row(c).status = "live" /\ Row(c).head = t.seen
    BY <1>2, <2>1, <2>2 DEF Found, Standing, Live, Ops, Revising, Editing
  <2>4. /\ t.request.op = "delete" =>
             Row(c).status = "live" /\ Row(c).lock = t.request.lock
        /\ t.request.op = "restore" => Row(c).status = "deleted"
    BY <1>2, <2>2 DEF Found, Standing, Live, Stale
  <2> QED
    BY <1>2, <2>2, <2>3, <2>4 DEF Allowed, Row, Stale, Repeated
<1>5. TxFits(t)
  <2>1. Counted(tx[c]) => Counted(t)
    BY <1>2 DEF Counted
  <2>2. Named(t)
    BY <1>1, <1>2 DEF TxFits, Named, LockRow
  <2> QED
    BY <1>1, <1>2, <1>4, <2>1, <2>2 DEF TxFits, Holding, LockRow
<1>6. \A d \in Clients \ {c} : Apart(t, tx[d])
  BY <1>2 DEF IInv, AllApart, LockRow, RowFree, Apart, Holding, Writing
<1> QED
  BY <1>2, <1>3, <1>5, <1>6 DEF Keeps, IInv, TypeOK

\* Every step but the two that write leaves the rows.
LEMMA StepIs ==
  ASSUME IInv, Next
  PROVE  \/ \E c \in Clients : \E t : Keeps(c, t)
         \/ \E c \in Clients : WriteRevision(c) \/ WriteStatus(c)
<1>1. ASSUME NEW c \in Clients, NEW p \in Projects, NEW q \in Sendable(p), Send(c, q)
      PROVE  \E t : Keeps(c, t)
  BY <1>1, SendKeeps
<1>2. ASSUME NEW c \in Clients, Handle(c), ~WriteRevision(c), ~WriteStatus(c)
      PROVE  \E t : Keeps(c, t)
  <2>1. TypeOK
    BY DEF IInv
  <2>2. CASE Refuse(c)
    BY <2>1, <2>2, RefuseKeeps DEF Refuse, TypeOK
  <2>3. CASE LockNone(c)
    <3>1. tx[c].request.op \in Ops
      BY <2>1, <2>3, HandlerType, RequestType DEF LockNone
    <3>2. misled' \subseteq Ops
      BY <2>1, <2>3, <3>1 DEF LockNone, TypeOK
    <3> QED
      BY <2>1, <2>3, <3>2, RefuseKeeps DEF LockNone
  <2> QED
    BY <1>2, <2>2, <2>3, PeekKeeps, BeginKeeps, SelectKeeps, LockKeeps
    DEF Handle, PeekRefused, BeginKnown, SelectNone, LockRefused, Fail
<1> QED
  BY <1>1, <1>2 DEF Next

\* Nothing is lost by them.
LEMMA KeepsHolds ==
  ASSUME IInv, NEW c \in Clients, NEW t, Keeps(c, t)
  PROVE  IInv'
<1>1. /\ tx'[c] = t /\ \A d \in Clients \ {c} : tx'[d] = tx[d]
      /\ UNCHANGED <<project, revision, ledger>>
  BY TxIs DEF Keeps, IInv
<1>2. TypeOK'
  BY DEF IInv, TypeOK, Keeps
<1>3. TxsFit'
  <2> SUFFICES ASSUME NEW d \in Clients, tx'[d].pc # "idle"
               PROVE  TxFits(tx[d])'
    BY DEF TxsFit
  <2>1. TxFits(tx'[d])
    BY <1>1 DEF Keeps, IInv, TxsFit
  <2> QED
    BY <1>1, <2>1 DEF TxFits, Named, Holding, Writing, Counted, Allowed, RevisionsOf
<1>4. AllApart'
  <2> SUFFICES ASSUME NEW d \in Clients, NEW e \in Clients, d # e
               PROVE  Apart(tx'[d], tx'[e])
    BY DEF AllApart, Apart, Holding, Writing
  <2> QED
    BY <1>1, ApartBothWays DEF Keeps, IInv, AllApart
<1>5. RowsFit' /\ AllFiled' /\ Histories'
  BY <1>1 DEF IInv, RowsFit, AllFiled, Histories, LinearHistory, EditsBuildOnBase,
     OneRevisionPerKey, EditedOnce, RevisionsOf
<1> QED
  BY <1>2, <1>3, <1>4, <1>5 DEF IInv
-------------------------------------------------------------------------------
(* A revision is committed.                                                 *)

LaterOf(p) == {i \in DOMAIN revision' : revision'[i].project = p}

\* The rows of the project it belongs to, and those of the others.
LEMMA WriteIs ==
  ASSUME IInv, NEW c \in Clients, WriteRevision(c)
  PROVE  LET t == tx[c]
             p == t.request.project
             n == Len(revision) + 1
         IN
         /\ t \in Handlers /\ t.request \in Requests /\ p \in Projects
         /\ TxFits(t) /\ Holding(t) /\ Writing(t)
         /\ t.request.op \in Revising \cup {"create"}
         /\ n \in Nat /\ n \notin DOMAIN revision
         /\ revision' \in Seq(Revisions) /\ DOMAIN revision' = DOMAIN revision \cup {n}
         /\ Len(revision') = n
         /\ \A i \in DOMAIN revision : revision'[i] = revision[i] /\ i < n
         /\ revision'[n] = Revision(c)
         /\ LaterOf(p) = RevisionsOf(p) \cup {n}
         /\ \A r \in Projects \ {p} : LaterOf(r) = RevisionsOf(r)
         /\ project' \in [Projects -> ProjectRows]
         /\ project'[p].status = "live" /\ project'[p].head = n
         /\ project'[p].lock = IF t.request.op = "create" THEN 0 ELSE project[p].lock + 1
         /\ \A r \in Projects \ {p} : project'[r] = project[r]
<1> DEFINE t == tx[c]
           p == t.request.project
           n == Len(revision) + 1
<1> USE DEF IInv
<1>1. /\ t \in Handlers /\ t.request \in Requests /\ p \in Projects
      /\ TxFits(t) /\ Holding(t) /\ Writing(t)
      /\ t.request.op \in Revising \cup {"create"}
  BY HandlerType, RequestType DEF WriteRevision, TxsFit, Holding, Writing
<1>2. Revision(c) \in Revisions
  BY <1>1, HandlerType, RequestType DEF Revision, Revisions, WriteRevision
<1>3. revision' = Append(revision, Revision(c))
  BY DEF WriteRevision
<1>4. /\ n \in Nat /\ n \notin DOMAIN revision
      /\ revision' \in Seq(Revisions) /\ DOMAIN revision' = DOMAIN revision \cup {n}
      /\ Len(revision') = n
      /\ \A i \in DOMAIN revision : revision'[i] = revision[i] /\ i < n
      /\ revision'[n] = Revision(c)
  <2>1. revision \in Seq(Revisions) /\ Len(revision) \in Nat
    BY DEF TypeOK
  <2>2. revision' \in Seq(Revisions) /\ Len(revision') = n
    BY <1>2, <1>3, <2>1
  <2>3. DOMAIN revision = 1 .. Len(revision) /\ DOMAIN revision' = 1 .. n
    BY <2>1, <2>2
  <2>4. revision'[n] = Revision(c) /\ \A i \in 1 .. Len(revision) : revision'[i] = revision[i]
    BY <1>2, <1>3, <2>1
  <2>5. 1 .. n = (1 .. Len(revision)) \cup {n} /\ n \notin 1 .. Len(revision)
    BY <2>1
  <2>6. \A i \in 1 .. Len(revision) : i < n
    BY <2>1
  <2> QED
    BY <2>1, <2>2, <2>3, <2>4, <2>5, <2>6
<1> HIDE DEF n
<1>5. Revision(c).project = p
  BY DEF Revision
<1>6. /\ LaterOf(p) = RevisionsOf(p) \cup {n}
      /\ \A r \in Projects \ {p} : LaterOf(r) = RevisionsOf(r)
  BY <1>4, <1>5 DEF RevisionsOf, LaterOf
<1> DEFINE row == [status |-> "live", head |-> Len(revision) + 1,
                   lock |-> IF t.request.op = "create" THEN 0 ELSE Row(c).lock + 1]
<1>7. project' = [project EXCEPT ![p] = row]
  BY DEF WriteRevision, Update
<1>8. Row(c).lock \in Nat
  BY <1>1, RowsType DEF Row, ProjectRows
<1>9. /\ row \in ProjectRows /\ row.status = "live" /\ row.head = n
      /\ row.lock = IF t.request.op = "create" THEN 0 ELSE project[p].lock + 1
  BY <1>4, <1>8 DEF ProjectRows, n, Row
<1> HIDE DEF row
<1>10. /\ project' \in [Projects -> ProjectRows]
       /\ project'[p] = row /\ \A r \in Projects \ {p} : project'[r] = project[r]
  BY <1>1, <1>7, <1>9 DEF TypeOK
<1> QED
  BY <1>1, <1>4, <1>6, <1>9, <1>10 DEF n

\* What the other transactions hold stays, and what they found.
LEMMA OthersKeep ==
  ASSUME IInv, NEW c \in Clients, WriteRevision(c), NEW d \in Clients \ {c},
         tx[d].pc # "idle", NEW u, u = tx[d]
  PROVE  TxFits(u)'
<1> DEFINE t == tx[c]
           p == t.request.project
           q == u.request.project
           n == Len(revision) + 1
<1>1. /\ t \in Handlers /\ t.request \in Requests /\ p \in Projects
      /\ Holding(t) /\ Writing(t)
      /\ n \in Nat /\ n \notin DOMAIN revision
      /\ DOMAIN revision' = DOMAIN revision \cup {n}
      /\ Len(revision') = n
      /\ \A i \in DOMAIN revision : revision'[i] = revision[i] /\ i < n
      /\ LaterOf(p) = RevisionsOf(p) \cup {n}
      /\ \A r \in Projects \ {p} : LaterOf(r) = RevisionsOf(r)
      /\ \A r \in Projects \ {p} : project'[r] = project[r]
  BY WriteIs
<1>2. /\ u \in Handlers /\ u.request \in Requests /\ q \in Projects /\ TxFits(u)
      /\ u.base \in Nat /\ Len(revision) \in Nat
  BY HandlerType, RequestType, RowsType DEF IInv, TxsFit
<1>4. Apart(t, u)
  BY DEF IInv, AllApart
<1>5. Counted(u) => Counted(u)'
  <2> SUFFICES ASSUME Counted(u)
               PROVE  Counted(u)'
    OBVIOUS
  <2>1. u.base <= Len(revision) /\ u.base < n
    BY <1>1, <1>2 DEF Counted
  <2>2. {k \in LaterOf(q) : k <= u.base} = {k \in RevisionsOf(q) : k <= u.base}
    BY <1>1, <1>2, <2>1
  <2>3. u.base <= Len(revision')
    BY <1>1, <1>2, <2>1
  <2> QED
    BY <2>2, <2>3 DEF Counted, RevisionsOf, LaterOf
<1>6. Holding(u) => \A row \in ledger' : row.slot # Slot(u.request)
  <2>1. ledger' = ledger \cup {[slot |-> Slot(t.request), hash |-> Hash(t.request)]}
    BY DEF WriteRevision, File
  <2> QED
    BY <1>1, <1>2, <1>4, <2>1 DEF Apart, TxFits
<1>7. Writing(u) => Allowed(u)'
  <2> SUFFICES ASSUME Writing(u)
               PROVE  Allowed(u)'
    OBVIOUS
  <2>1. q # p
    BY <1>1, <1>4 DEF Apart
  <2>2. project'[q] = project[q] /\ LaterOf(q) = RevisionsOf(q)
    BY <1>1, <1>2, <2>1
  <2>3. \A i \in RevisionsOf(q) : revision'[i] = revision[i]
    BY <1>1 DEF RevisionsOf
  <2> QED
    BY <1>2, <2>2, <2>3 DEF TxFits, Allowed, RevisionsOf, LaterOf
<1> QED
  BY <1>2, <1>5, <1>6, <1>7 DEF TxFits, Named, Holding, Writing

\* The types.
LEMMA WriteTypes ==
  ASSUME IInv, NEW c \in Clients, WriteRevision(c)
  PROVE  TypeOK'
<1>1. revision' \in Seq(Revisions) /\ project' \in [Projects -> ProjectRows]
      /\ tx[c].request \in Requests
  BY WriteIs
<1>2. [slot |-> Slot(tx[c].request), hash |-> Hash(tx[c].request)] \in
        [slot : Slots, hash : Hashes]
  BY <1>1, RequestType
<1>3. /\ ledger' = ledger \cup {[slot |-> Slot(tx[c].request),
                                 hash |-> Hash(tx[c].request)]}
      /\ tx' = [tx EXCEPT ![c] = Idle] /\ misled' = misled
  BY DEF WriteRevision, File, Reply
<1> QED
  BY <1>1, <1>2, <1>3 DEF IInv, TypeOK

\* The history of the project goes on where it ended.
LEMMA WriteIsLinear ==
  ASSUME IInv, NEW c \in Clients, WriteRevision(c)
  PROVE  LinearHistory'
<1> DEFINE t == tx[c]
           p == t.request.project
           n == Len(revision) + 1
<1>1. /\ p \in Projects /\ n \in Nat /\ n \notin DOMAIN revision
      /\ TxFits(t) /\ Writing(t) /\ t.request.op \in Revising \cup {"create"}
      /\ \A i \in DOMAIN revision : revision'[i] = revision[i] /\ i < n
      /\ LaterOf(p) = RevisionsOf(p) \cup {n}
      /\ \A r \in Projects \ {p} : LaterOf(r) = RevisionsOf(r)
      /\ project'[p].status = "live" /\ project'[p].head = n
      /\ project'[p].lock = IF t.request.op = "create" THEN 0 ELSE project[p].lock + 1
      /\ \A r \in Projects \ {p} : project'[r] = project[r]
  BY WriteIs
<1>2. revision'[n].parent = t.seen
  <2>1. revision'[n] = Revision(c)
    BY WriteIs
  <2> QED
    BY <2>1 DEF Revision
<1>3. /\ \A i \in RevisionsOf(p) : i \in Nat /\ i >= 1 /\ i < n /\ revision'[i] = revision[i]
      /\ n \notin RevisionsOf(p)
      /\ \A r \in Projects : \A i \in RevisionsOf(r) : revision'[i] = revision[i]
  BY <1>1, RowsType DEF RevisionsOf, IInv
<1>4. /\ t.request.op = "create" => RevisionsOf(p) = {} /\ t.seen = 0
      /\ t.request.op # "create" =>
           /\ project[p].head = t.seen /\ t.seen \in RevisionsOf(p)
           /\ \A i \in RevisionsOf(p) : i <= t.seen
           /\ Cardinality(RevisionsOf(p)) = project[p].lock + 1
  <2>1. TypeOK /\ LinearHistory /\ RowsFit
    BY DEF IInv, Histories
  <2>2. /\ t.request.op = "create" => project[p].status = "absent" /\ t.seen = 0
        /\ t.request.op # "create" =>
             project[p].status = "live" /\ project[p].head = t.seen
    BY <1>1 DEF TxFits, Allowed
  <2>3. t.request.op = "create" => RevisionsOf(p) = {}
    BY <1>1, <2>1, <2>2 DEF RowsFit
  <2>4. project[p].status # "absent" =>
          /\ project[p].head \in RevisionsOf(p)
          /\ Cardinality(RevisionsOf(p)) = project[p].lock + 1
          /\ \A i \in RevisionsOf(p) : i <= project[p].head
    BY <1>1, <2>1, HeadIs
  <2> QED
    BY <2>2, <2>3, <2>4
<1>5. ASSUME NEW r \in Projects
      PROVE  /\ \A i \in LaterOf(r) :
                  \/ revision'[i].parent = 0 /\ \A k \in LaterOf(r) : k >= i
                  \/ /\ revision'[i].parent \in LaterOf(r)
                     /\ revision'[i].parent < i
                     /\ \A k \in LaterOf(r) : k <= revision'[i].parent \/ k >= i
             /\ \A i \in LaterOf(r) : i <= project'[r].head
             /\ project'[r].head \in LaterOf(r) \cup {0}
             /\ LaterOf(r) # {} => Cardinality(LaterOf(r)) = project'[r].lock + 1
  <2>1. /\ \A i \in RevisionsOf(r) :
             \/ revision[i].parent = 0 /\ \A k \in RevisionsOf(r) : k >= i
             \/ /\ revision[i].parent \in RevisionsOf(r)
                /\ revision[i].parent < i
                /\ \A k \in RevisionsOf(r) : k <= revision[i].parent \/ k >= i
        /\ \A i \in RevisionsOf(r) : i <= project[r].head
        /\ project[r].head \in RevisionsOf(r) \cup {0}
        /\ RevisionsOf(r) # {} => Cardinality(RevisionsOf(r)) = project[r].lock + 1
    BY DEF IInv, Histories, LinearHistory
  <2>2. CASE r # p
    BY <1>1, <1>3, <2>1, <2>2
  <2>3. CASE r = p
    <3>1. ASSUME NEW i \in RevisionsOf(p)
          PROVE  \/ revision'[i].parent = 0 /\ \A k \in LaterOf(p) : k >= i
                 \/ /\ revision'[i].parent \in LaterOf(p)
                    /\ revision'[i].parent < i
                    /\ \A k \in LaterOf(p) : k <= revision'[i].parent \/ k >= i
      BY <1>1, <1>3, <2>1, <2>3
    <3>2. \/ revision'[n].parent = 0 /\ \A k \in LaterOf(p) : k >= n
          \/ /\ revision'[n].parent \in LaterOf(p)
             /\ revision'[n].parent < n
             /\ \A k \in LaterOf(p) : k <= revision'[n].parent \/ k >= n
      BY <1>1, <1>2, <1>3, <1>4
    <3>3. \A i \in LaterOf(p) : i <= n
      BY <1>1, <1>3
    <3>4. Cardinality(LaterOf(p)) = project'[p].lock + 1
      <4>1. IsFiniteSet(RevisionsOf(p))
        <5>1. IsFiniteSet(1 .. Len(revision)) /\ RevisionsOf(p) \subseteq 1 .. Len(revision)
          BY <1>1, RowsType, FS_Interval DEF IInv
        <5> QED
          BY <5>1, FS_Subset
      <4>2. Cardinality(LaterOf(p)) = Cardinality(RevisionsOf(p)) + 1
        BY <1>1, <1>3, <4>1, FS_AddElement
      <4>3. project[p].lock \in Nat
        BY <1>1, RowsType DEF IInv, ProjectRows
      <4>4. CASE t.request.op = "create"
        BY <1>1, <1>4, <4>2, <4>4, FS_EmptySet
      <4>5. CASE t.request.op # "create"
        BY <1>1, <1>4, <4>2, <4>3, <4>5
      <4> QED
        BY <4>4, <4>5
    <3> QED
      BY <1>1, <2>3, <3>1, <3>2, <3>3, <3>4
  <2> QED
    BY <2>2, <2>3
<1> QED
  BY <1>5 DEF LinearHistory, RevisionsOf, LaterOf

\* An edit is committed on what its author saw, once, and under a key of its own.
LEMMA WriteIsNew ==
  ASSUME IInv, NEW c \in Clients, WriteRevision(c)
  PROVE  EditsBuildOnBase' /\ OneRevisionPerKey' /\ EditedOnce' /\ AllFiled'
<1> DEFINE t == tx[c]
           p == t.request.project
           n == Len(revision) + 1
<1>1. /\ p \in Projects /\ n \in Nat /\ n \notin DOMAIN revision
      /\ t.request \in Requests
      /\ TxFits(t) /\ Writing(t) /\ Holding(t)
      /\ t.request.op \in Revising \cup {"create"}
      /\ DOMAIN revision' = DOMAIN revision \cup {n}
      /\ \A i \in DOMAIN revision : revision'[i] = revision[i] /\ i < n
      /\ LaterOf(p) = RevisionsOf(p) \cup {n}
      /\ \A r \in Projects \ {p} : LaterOf(r) = RevisionsOf(r)
  BY WriteIs
<1>2. /\ revision'[n].parent = t.seen /\ revision'[n].project = p
      /\ revision'[n].base = t.base /\ revision'[n].edit = t.edit
      /\ revision'[n].lock = t.request.lock
      /\ revision'[n].slot = Slot(t.request)
  <2>1. revision'[n] = Revision(c)
    BY WriteIs
  <2> HIDE DEF n
  <2> QED
    BY <2>1 DEF Revision
<1>3. Slot(t.request).op = t.request.op
  BY <1>1, RequestType
<1>4. ledger' = ledger \cup {[slot |-> Slot(t.request), hash |-> Hash(t.request)]}
  BY DEF WriteRevision, File
<1>5. AllFiled'
  <2>1. \A i \in DOMAIN revision : \E row \in ledger' : row.slot = revision'[i].slot
    BY <1>1, <1>4 DEF IInv, AllFiled
  <2> DEFINE new == [slot |-> Slot(t.request), hash |-> Hash(t.request)]
  <2>2. new \in ledger' /\ new.slot = revision'[n].slot
    BY <1>2, <1>4
  <2> QED
    BY <1>1, <2>1, <2>2 DEF AllFiled
<1>6. OneRevisionPerKey'
  <2>1. \A i \in DOMAIN revision : revision[i].slot # Slot(t.request)
    BY <1>1 DEF IInv, AllFiled, TxFits
  <2> QED
    BY <1>1, <1>2, <2>1 DEF IInv, Histories, OneRevisionPerKey
<1>7. EditedOnce'
  <2>1. ASSUME NEW i \in DOMAIN revision, revision[i].project = p, t.edit # None
        PROVE  revision[i].edit # t.edit
    <3>1. i \in RevisionsOf(p)
      BY <2>1 DEF RevisionsOf
    <3> QED
      BY <1>1, <2>1, <3>1 DEF TxFits, Allowed
  <2> QED
    BY <1>1, <1>2, <2>1 DEF IInv, Histories, EditedOnce
<1>8. EditsBuildOnBase'
  <2>1. ASSUME NEW i \in DOMAIN revision
        PROVE  /\ i \in DOMAIN revision'
               /\ {k \in LaterOf(revision'[i].project) : k < i} =
                    {k \in RevisionsOf(revision[i].project) : k < i}
    <3>1. revision[i].project \in Projects /\ i < n /\ i \in Nat
      BY <1>1, RowsType DEF IInv, Revisions
    <3> QED
      BY <1>1, <3>1
  <2>2. t.request.op \in Editing => t.seen = t.base
    BY <1>1 DEF TxFits, Allowed, Revising
  <2>3. t.request.op = "rename" =>
          t.request.lock + 1 = Cardinality({k \in LaterOf(p) : k < n})
    <3> SUFFICES ASSUME t.request.op = "rename"
                 PROVE  t.request.lock + 1 = Cardinality({k \in LaterOf(p) : k < n})
      OBVIOUS
    <3>1. Counted(t) /\ project[p].head = t.base
      BY <1>1 DEF TxFits, Allowed, Editing, Writing
    <3>2. \A k \in RevisionsOf(p) : k <= t.base /\ k < n
      BY <1>1, <3>1, HeadIs DEF IInv, Histories, RevisionsOf
    <3>3. {k \in LaterOf(p) : k < n} = {k \in RevisionsOf(p) : k <= t.base}
      BY <1>1, <3>2
    <3> QED
      BY <3>1, <3>3 DEF Counted
  <2>4. ASSUME NEW i \in DOMAIN revision'
        PROVE  /\ revision'[i].slot.op \in Editing => revision'[i].parent = revision'[i].base
               /\ revision'[i].slot.op = "rename" =>
                    revision'[i].lock + 1 =
                      Cardinality({k \in LaterOf(revision'[i].project) : k < i})
    <3>1. CASE i = n
      BY <1>2, <1>3, <2>2, <2>3, <3>1
    <3>2. CASE i \in DOMAIN revision
      BY <1>1, <2>1, <3>2 DEF IInv, Histories, EditsBuildOnBase
    <3> QED
      BY <1>1, <2>4, <3>1, <3>2
  <2> QED
    BY <2>4 DEF EditsBuildOnBase, RevisionsOf, LaterOf
<1> QED
  BY <1>5, <1>6, <1>7, <1>8

LEMMA WriteRevisionHolds ==
  ASSUME IInv, NEW c \in Clients, WriteRevision(c)
  PROVE  IInv'
<1>1. tx'[c] = Idle /\ \A d \in Clients \ {c} : tx'[d] = tx[d]
  BY TxIs DEF IInv, WriteRevision, Reply
<1>2. TxsFit'
  <2> SUFFICES ASSUME NEW d \in Clients, tx'[d].pc # "idle"
               PROVE  TxFits(tx[d])'
    BY DEF TxsFit
  <2>1. d # c /\ tx'[d] = tx[d]
    BY <1>1, IdleIs
  <2>2. \A u : u = tx[d] => TxFits(u)'
    BY <2>1, OthersKeep
  <2> QED
    BY <2>1, <2>2 DEF TxFits, Named, Holding, Writing, Counted, Allowed, RevisionsOf
<1>3. AllApart'
  <2> SUFFICES ASSUME NEW d \in Clients, NEW e \in Clients, d # e
               PROVE  Apart(tx'[d], tx'[e])
    BY DEF AllApart, Apart, Holding, Writing
  <2> QED
    BY <1>1, IdleIs DEF IInv, AllApart
<1>4. RowsFit'
  <2> DEFINE p == tx[c].request.project
             n == Len(revision) + 1
  <2>1. /\ LaterOf(p) = RevisionsOf(p) \cup {n} /\ p \in Projects
        /\ \A r \in Projects \ {p} : LaterOf(r) = RevisionsOf(r)
        /\ project'[p].status = "live"
        /\ \A r \in Projects \ {p} : project'[r] = project[r]
    BY WriteIs
  <2>2. ASSUME NEW r \in Projects
        PROVE  project'[r].status = "absent" <=> LaterOf(r) = {}
    <3>1. CASE r = p
      BY <2>1, <3>1
    <3>2. CASE r # p
      BY <2>1, <3>2 DEF IInv, RowsFit
    <3> QED
      BY <3>1, <3>2
  <2> QED
    BY <2>2 DEF RowsFit, LaterOf, RevisionsOf
<1> QED
  BY <1>2, <1>3, <1>4, WriteTypes, WriteIsLinear, WriteIsNew DEF IInv, Histories

\* A project is deleted, or restored as it was.
LEMMA WriteStatusHolds ==
  ASSUME IInv, NEW c \in Clients, WriteStatus(c)
  PROVE  IInv'
<1> DEFINE t == tx[c]
           p == t.request.project
           row == [Row(c) EXCEPT !.status = IF t.request.op = "delete" THEN "deleted"
                                            ELSE "live"]
<1>1. /\ t.request \in Requests /\ p \in Projects
      /\ TxFits(t) /\ Holding(t) /\ Writing(t)
  BY HandlerType, RequestType DEF IInv, WriteStatus, TxsFit, Holding, Writing
<1>2. tx'[c] = Idle /\ \A d \in Clients \ {c} : tx'[d] = tx[d]
  BY TxIs DEF IInv, WriteStatus, Reply
<1>3. project[p] \in ProjectRows
  BY <1>1, RowsType DEF IInv
<1>4. project' = [project EXCEPT ![p] = row]
  BY DEF WriteStatus, Update
<1>5. /\ row \in ProjectRows /\ row.status # "absent"
      /\ row.head = project[p].head /\ row.lock = project[p].lock
  BY <1>3 DEF Row, ProjectRows
<1> HIDE DEF row
<1>6. /\ project' \in [Projects -> ProjectRows]
      /\ project'[p] = row /\ \A r \in Projects \ {p} : project'[r] = project[r]
      /\ \A r \in Projects : project'[r].head = project[r].head
                               /\ project'[r].lock = project[r].lock
  BY <1>1, <1>4, <1>5 DEF IInv, TypeOK
<1>7. /\ ledger' = ledger \cup {[slot |-> Slot(t.request), hash |-> Hash(t.request)]}
      /\ revision' = revision /\ misled' = misled /\ tx' = [tx EXCEPT ![c] = Idle]
  BY DEF WriteStatus, File, Reply
<1>8. TypeOK'
  <2>1. [slot |-> Slot(t.request), hash |-> Hash(t.request)] \in
          [slot : Slots, hash : Hashes]
    BY <1>1, RequestType
  <2> QED
    BY <1>6, <1>7, <2>1 DEF IInv, TypeOK
<1>9. TxsFit'
  <2> SUFFICES ASSUME NEW d \in Clients, tx'[d].pc # "idle"
               PROVE  TxFits(tx[d])'
    BY DEF TxsFit
  <2>1. d # c /\ tx'[d] = tx[d] /\ TxFits(tx[d]) /\ tx[d].request.project \in Projects
    BY <1>2, IdleIs, HandlerType, RequestType DEF IInv, TxsFit
  <2>2. Apart(t, tx[d])
    BY <2>1 DEF IInv, AllApart
  <2>3. Holding(tx[d]) => \A new \in ledger' : new.slot # Slot(tx[d].request)
    BY <1>1, <1>7, <2>1, <2>2 DEF Apart, TxFits
  <2>4. Writing(tx[d]) => project'[tx[d].request.project] = project[tx[d].request.project]
    BY <1>1, <1>6, <2>1, <2>2 DEF Apart
  <2> QED
    BY <1>7, <2>1, <2>3, <2>4
    DEF TxFits, Named, Holding, Writing, Counted, Allowed, RevisionsOf
<1>10. AllApart'
  <2> SUFFICES ASSUME NEW d \in Clients, NEW e \in Clients, d # e
               PROVE  Apart(tx'[d], tx'[e])
    BY DEF AllApart, Apart, Holding, Writing
  <2> QED
    BY <1>2, IdleIs DEF IInv, AllApart
<1>11. RowsFit'
  <2>1. RevisionsOf(p) # {}
    BY <1>1 DEF WriteStatus, TxFits, Allowed, IInv, RowsFit
  <2> QED
    BY <1>1, <1>5, <1>6, <1>7, <2>1 DEF IInv, RowsFit, RevisionsOf
<1>12. AllFiled'
  BY <1>7 DEF IInv, AllFiled
<1>13. LinearHistory'
  BY <1>6, <1>7 DEF IInv, Histories, LinearHistory, RevisionsOf
<1>14. EditsBuildOnBase' /\ OneRevisionPerKey' /\ EditedOnce'
  BY <1>7 DEF IInv, Histories, EditsBuildOnBase, OneRevisionPerKey, EditedOnce, RevisionsOf
<1> QED
  BY <1>8, <1>9, <1>10, <1>11, <1>12, <1>13, <1>14 DEF IInv, Histories
-------------------------------------------------------------------------------
(* The store implements ProjectLedger.                                      *)

\* What leaves the rows leaves the ledger.
LEMMA KeepsStutters ==
  ASSUME NEW c \in Clients, NEW t, Keeps(c, t)
  PROVE  UNCHANGED AtOnce!vars
<1>1. UNCHANGED <<project, revision, ledger>>
  BY DEF Keeps
<1>2. Applied' = Applied
  BY <1>1 DEF Applied, RevisionsOf
<1> QED
  BY <1>1, <1>2 DEF AtOnce!vars

\* A commit adds the operation of its request to those of its project.
LEMMA WriteApplies ==
  ASSUME IInv, NEW c \in Clients, WriteRevision(c)
  PROVE  LET t == tx[c]
             p == t.request.project
         IN
         /\ t.edit # None =>
              /\ t.request.op \in Editing => t.edit \notin Applied[p]
              /\ Applied' = [Applied EXCEPT ![p] = @ \cup {t.edit}]
         /\ t.edit = None => Applied' = Applied
<1> DEFINE t == tx[c]
           p == t.request.project
           n == Len(revision) + 1
<1>1. /\ p \in Projects /\ n \notin DOMAIN revision
      /\ TxFits(t) /\ Writing(t)
      /\ \A i \in DOMAIN revision : revision'[i] = revision[i]
      /\ LaterOf(p) = RevisionsOf(p) \cup {n}
      /\ \A r \in Projects \ {p} : LaterOf(r) = RevisionsOf(r)
  BY WriteIs
<1>2. revision'[n].edit = t.edit
  <2>1. revision'[n] = Revision(c)
    BY WriteIs
  <2> HIDE DEF n
  <2> QED
    BY <2>1 DEF Revision
<1> HIDE DEF n
<1>3. Applied' = [r \in Projects |-> {revision'[i].edit : i \in LaterOf(r)} \ {None}]
  BY DEF Applied, RevisionsOf, LaterOf
<1>4. \A r \in Projects \ {p} :
        {revision'[i].edit : i \in LaterOf(r)} \ {None} = Applied[r]
  BY <1>1 DEF Applied, RevisionsOf
<1>5. {revision'[i].edit : i \in LaterOf(p)} \ {None} = Applied[p] \cup ({t.edit} \ {None})
  BY <1>1, <1>2 DEF Applied, RevisionsOf
<1>6. Applied' = [Applied EXCEPT ![p] = @ \cup ({t.edit} \ {None})]
  BY <1>1, <1>3, <1>4, <1>5 DEF Applied
<1>7. t.edit = None => Applied' = Applied
  BY <1>1, <1>6 DEF Applied
<1>8. t.edit # None =>
        /\ t.request.op \in Editing => t.edit \notin Applied[p]
        /\ Applied' = [Applied EXCEPT ![p] = @ \cup {t.edit}]
  <2> SUFFICES ASSUME t.edit # None
               PROVE  /\ t.request.op \in Editing => t.edit \notin Applied[p]
                      /\ Applied' = [Applied EXCEPT ![p] = @ \cup {t.edit}]
    OBVIOUS
  <2>1. {t.edit} \ {None} = {t.edit}
    OBVIOUS
  <2>2. t.request.op \in Editing =>
          \A i \in RevisionsOf(p) : revision[i].edit # t.edit
    BY <1>1 DEF TxFits, Allowed
  <2>3. t.request.op \in Editing => t.edit \notin Applied[p]
    BY <1>1, <2>2 DEF Applied
  <2> QED
    BY <1>6, <2>1, <2>3
<1> QED
  BY <1>7, <1>8

\* The request that commits is the first under its key, as the ledger has it.
LEMMA FilesOnce ==
  ASSUME IInv, NEW c \in Clients, WriteRevision(c) \/ WriteStatus(c)
  PROVE  LET q == tx[c].request IN
         /\ q \in Requests /\ TxFits(tx[c]) /\ Writing(tx[c]) /\ Allowed(tx[c])
         /\ AtOnce!Take(AtOnce!Slot(q.op, IF q.op = "create" THEN None ELSE q.project,
                                    q.key),
                        q.project, q.base, q.edit, q.lock)
<1> DEFINE q == tx[c].request
<1>1. q \in Requests /\ TxFits(tx[c]) /\ Writing(tx[c]) /\ Holding(tx[c])
  BY HandlerType DEF IInv, TxsFit, WriteRevision, WriteStatus, Writing, Holding
<1>2. AtOnce!Slot(q.op, IF q.op = "create" THEN None ELSE q.project, q.key) = Slot(q)
  BY DEF AtOnce!Slot, Slot
<1>3. ledger' = ledger \cup {[slot |-> Slot(q), hash |-> Hash(q)]}
  BY DEF WriteRevision, WriteStatus, File
<1>4. \A row \in ledger : row.slot # Slot(q)
  BY <1>1 DEF TxFits
<1>5. Allowed(tx[c])
  BY <1>1 DEF TxFits
<1> QED
  BY <1>1, <1>2, <1>3, <1>4, <1>5 DEF AtOnce!Take, Hash

\* A revision is committed: each request that writes one is one step of the ledger.
LEMMA WriteCommits ==
  ASSUME IInv, NEW c \in Clients, WriteRevision(c)
  PROVE  AtOnce!Next
<1> DEFINE t == tx[c]
           q == t.request
           p == q.project
<1>1. /\ q \in Requests /\ Named(t) /\ Writing(t) /\ Allowed(t) /\ TxFits(t)
      /\ AtOnce!Take(AtOnce!Slot(q.op, IF q.op = "create" THEN None ELSE p, q.key),
                     p, q.base, q.edit, q.lock)
  BY FilesOnce DEF TxFits
<1>2. p \in Projects /\ q.key \in Keys /\ q.op \in Revising \cup {"create"} /\ t.pc # "peek"
  BY <1>1, RequestType DEF WriteRevision
<1>3. /\ Len(revision') = Len(revision) + 1
      /\ project' = [project EXCEPT ![p] =
           [status |-> "live", head |-> Len(revision) + 1,
            lock |-> IF q.op = "create" THEN 0 ELSE project[p].lock + 1]]
  <2>1. Len(revision') = Len(revision) + 1
    BY WriteIs
  <2> QED
    BY <2>1 DEF WriteRevision, Update, Row
<1>4. /\ t.edit # None =>
           /\ q.op \in Editing => t.edit \notin Applied[p]
           /\ Applied' = [Applied EXCEPT ![p] = @ \cup {t.edit}]
      /\ t.edit = None => Applied' = Applied
  BY WriteApplies
<1>5. CASE q.op = "create"
  <2>1. AtOnce!Take(AtOnce!Slot("create", None, q.key), p, 0, None, 0)
    BY <1>1, <1>5 DEF Named
  <2>2. project[p].status = "absent" /\ Applied' = Applied
    BY <1>1, <1>4, <1>5 DEF Allowed, Named
  <2>3. AtOnce!Create(p, q.key)
    BY <1>3, <1>5, <2>1, <2>2 DEF AtOnce!Create, AtOnce!Is, AtOnce!Commit
  <2> QED
    BY <1>2, <2>3 DEF AtOnce!Next
<1>6. CASE q.op = "change"
  <2>1. q.base = project[p].head /\ t.edit = q.edit /\ q.edit \in Edits /\ q.lock = 0
    BY <1>1, <1>6 DEF Named, Allowed, Editing
  <2>2. q.edit # None
    BY <2>1, NoneAssumption
  <2>3. AtOnce!Take(AtOnce!Slot("change", p, q.key), p, project[p].head, q.edit, 0)
    BY <1>1, <1>6, <2>1
  <2>4. AtOnce!Apply(p, q.edit)
    BY <1>4, <1>6, <2>1, <2>2 DEF AtOnce!Apply, Editing
  <2>5. project[p].status = "live"
    BY <1>1, <1>6 DEF Allowed, Revising, Editing
  <2>6. AtOnce!Change(p, q.key, q.edit)
    BY <1>3, <1>6, <2>3, <2>4, <2>5 DEF AtOnce!Change, AtOnce!Is, AtOnce!Commit
  <2> QED
    BY <1>2, <2>1, <2>6 DEF AtOnce!Next
<1>7. CASE q.op = "generate"
  <2>1. q.base = project[p].head /\ q.edit = None /\ t.edit \in Edits /\ q.lock = 0
    BY <1>1, <1>2, <1>7 DEF Named, Allowed, Editing
  <2>2. t.edit # None
    BY <2>1, NoneAssumption
  <2>3. AtOnce!Take(AtOnce!Slot("generate", p, q.key), p, project[p].head, None, 0)
    BY <1>1, <1>7, <2>1
  <2>4. AtOnce!Apply(p, t.edit)
    BY <1>4, <1>7, <2>1, <2>2 DEF AtOnce!Apply, Editing
  <2>5. project[p].status = "live"
    BY <1>1, <1>7 DEF Allowed, Revising, Editing
  <2>6. AtOnce!Generate(p, q.key, t.edit)
    BY <1>3, <1>7, <2>3, <2>4, <2>5 DEF AtOnce!Generate, AtOnce!Is, AtOnce!Commit
  <2> QED
    BY <1>2, <2>1, <2>6 DEF AtOnce!Next
<1>8. CASE q.op = "rename"
  <2>1. project[p].status = "live" /\ project[p].head = t.base
    BY <1>1, <1>8 DEF Allowed, Revising, Editing
  <2>2. project[p].lock = q.lock
    <3>1. TypeOK /\ LinearHistory /\ RowsFit
      BY DEF IInv, Histories
    <3>2. Cardinality({k \in RevisionsOf(p) : k <= t.base}) = q.lock + 1
      BY <1>1, <1>2, <1>8 DEF TxFits, Counted
    <3>3. /\ \A k \in RevisionsOf(p) : k <= t.base
          /\ Cardinality(RevisionsOf(p)) = project[p].lock + 1
      BY <1>2, <2>1, <3>1, HeadIs
    <3>4. {k \in RevisionsOf(p) : k <= t.base} = RevisionsOf(p)
      BY <3>3
    <3>5. project[p].lock \in Nat /\ q.lock \in Nat
      BY <1>1, <1>2, <3>1, RowsType, RequestType DEF ProjectRows
    <3> QED
      BY <3>2, <3>3, <3>4, <3>5
  <2>3. q.base = 0 /\ q.edit = None /\ t.edit = None
    BY <1>1, <1>8 DEF Named
  <2>4. AtOnce!Take(AtOnce!Slot("rename", p, q.key), p, 0, None, project[p].lock)
    BY <1>1, <1>8, <2>2, <2>3
  <2>5. AtOnce!Rename(p, q.key)
    BY <1>3, <1>4, <1>8, <2>1, <2>3, <2>4 DEF AtOnce!Rename, AtOnce!Is, AtOnce!Commit
  <2> QED
    BY <1>2, <2>5 DEF AtOnce!Next
<1>9. CASE q.op = "replace"
  <2>1. q.base = 0 /\ q.edit = None /\ t.edit = None /\ q.lock = 0
    BY <1>1, <1>9 DEF Named
  <2>2. project[p].status = "live"
    BY <1>1, <1>9 DEF Allowed, Revising
  <2>3. AtOnce!Take(AtOnce!Slot("replace", p, q.key), p, 0, None, 0)
    BY <1>1, <1>9, <2>1
  <2>4. AtOnce!Replace(p, q.key)
    BY <1>3, <1>4, <1>9, <2>1, <2>2, <2>3 DEF AtOnce!Replace, AtOnce!Is, AtOnce!Commit
  <2> QED
    BY <1>2, <2>4 DEF AtOnce!Next
<1> QED
  BY <1>2, <1>5, <1>6, <1>7, <1>8, <1>9 DEF Revising, Editing

\* A project is deleted or restored.
LEMMA StatusMarks ==
  ASSUME IInv, NEW c \in Clients, WriteStatus(c)
  PROVE  AtOnce!Next
<1> DEFINE q == tx[c].request
           p == q.project
<1>1. /\ q \in Requests /\ Named(tx[c]) /\ Allowed(tx[c])
      /\ AtOnce!Take(AtOnce!Slot(q.op, IF q.op = "create" THEN None ELSE p, q.key),
                     p, q.base, q.edit, q.lock)
  BY FilesOnce DEF TxFits
<1>2. p \in Projects /\ q.key \in Keys /\ q.op \in {"delete", "restore"}
  BY <1>1, RequestType DEF WriteStatus
<1>3. Len(revision') = Len(revision) /\ Applied' = Applied
  BY DEF WriteStatus, Applied, RevisionsOf
<1>4. project' = [project EXCEPT ![p].status = IF q.op = "delete" THEN "deleted" ELSE "live"]
  BY DEF WriteStatus, Update, Row
<1>5. CASE q.op = "delete"
  <2>1. /\ q.base = 0 /\ q.edit = None
        /\ project[p].status = "live" /\ project[p].lock = q.lock
    BY <1>1, <1>5 DEF Named, Allowed
  <2>2. AtOnce!Take(AtOnce!Slot("delete", p, q.key), p, 0, None, project[p].lock)
    BY <1>1, <1>5, <2>1
  <2>3. AtOnce!Delete(p, q.key)
    BY <1>3, <1>4, <1>5, <2>1, <2>2 DEF AtOnce!Delete, AtOnce!Is, AtOnce!Mark
  <2> QED
    BY <1>2, <2>3 DEF AtOnce!Next
<1>6. CASE q.op = "restore"
  <2>1. /\ q.base = 0 /\ q.edit = None /\ q.lock = 0
        /\ project[p].status = "deleted"
    BY <1>1, <1>6 DEF Named, Allowed
  <2>2. AtOnce!Take(AtOnce!Slot("restore", p, q.key), p, 0, None, 0)
    BY <1>1, <1>6, <2>1
  <2>3. AtOnce!Restore(p, q.key)
    BY <1>3, <1>4, <1>6, <2>1, <2>2 DEF AtOnce!Restore, AtOnce!Is, AtOnce!Mark
  <2> QED
    BY <1>2, <2>3 DEF AtOnce!Next
<1> QED
  BY <1>2, <1>5, <1>6

LEMMA InitImplements == Init => AtOnce!Init
<1> SUFFICES ASSUME Init
             PROVE  AtOnce!Init
  OBVIOUS
<1>1. revision = <<>> /\ Len(revision) = 0
  BY DEF Init
<1>2. Applied = [p \in Projects |-> {}]
  BY <1>1 DEF Applied, RevisionsOf
<1> QED
  BY <1>1, <1>2 DEF Init, AtOnce!Init

LEMMA StepImplements == IInv /\ [Next]_vars => [AtOnce!Next]_AtOnce!vars
<1> SUFFICES ASSUME IInv, [Next]_vars
             PROVE  AtOnce!Next \/ UNCHANGED AtOnce!vars
  OBVIOUS
<1>1. CASE UNCHANGED vars
  <2>1. UNCHANGED <<project, revision, ledger>>
    BY <1>1 DEF vars
  <2>2. Applied' = Applied
    BY <2>1 DEF Applied, RevisionsOf
  <2> QED
    BY <2>1, <2>2 DEF AtOnce!vars
<1>2. CASE Next
  BY <1>2, StepIs, KeepsStutters, WriteCommits, StatusMarks
<1> QED
  BY <1>1, <1>2
-------------------------------------------------------------------------------
(* The theorems.                                                            *)

\* Before the first request there are no projects.
LEMMA InitHolds == Init => IInv
<1> SUFFICES ASSUME Init
             PROVE  IInv
  OBVIOUS
<1>1. /\ revision = <<>> /\ ledger = {} /\ misled = {}
      /\ \A c \in Clients : tx[c] = Idle
      /\ \A p \in Projects : project[p] = [status |-> "absent", head |-> 0, lock |-> 0]
      /\ \A p \in Projects : RevisionsOf(p) = {}
  BY DEF Init, RevisionsOf
<1>2. TypeOK
  BY DEF Init, TypeOK, ProjectRows
<1>3. TxsFit /\ AllApart
  BY <1>1, IdleIs DEF TxsFit, AllApart
<1>4. RowsFit /\ AllFiled
  BY <1>1 DEF RowsFit, AllFiled
<1>5. Histories
  BY <1>1 DEF Histories, LinearHistory, EditsBuildOnBase, OneRevisionPerKey, EditedOnce
<1> QED
  BY <1>2, <1>3, <1>4, <1>5 DEF IInv

LEMMA StepHolds == IInv /\ [Next]_vars => IInv'
<1> SUFFICES ASSUME IInv, [Next]_vars
             PROVE  IInv'
  OBVIOUS
<1>1. CASE UNCHANGED vars
  <2>1. /\ UNCHANGED <<project, revision, ledger, tx, misled>>
        /\ \A p : RevisionsOf(p)' = RevisionsOf(p)
    BY <1>1 DEF vars, RevisionsOf
  <2>2. TypeOK' /\ AllApart'
    BY <2>1 DEF IInv, TypeOK, AllApart, Apart, Holding, Writing
  <2>3. TxsFit'
    <3>1. \A c \in Clients : tx[c].pc # "idle" => TxFits(tx[c])
      BY DEF IInv, TxsFit
    <3> SUFFICES ASSUME NEW c \in Clients, tx'[c].pc # "idle"
                 PROVE  TxFits(tx[c])'
      BY DEF TxsFit
    <3>2. TxFits(tx[c]) /\ tx'[c] = tx[c]
      BY <2>1, <3>1
    <3> QED
      BY <2>1, <3>2 DEF TxFits, Named, Holding, Writing, Counted, Allowed, RevisionsOf
  <2>4. RowsFit' /\ AllFiled' /\ Histories'
    BY <2>1 DEF IInv, RowsFit, AllFiled, Histories, LinearHistory, EditsBuildOnBase,
       OneRevisionPerKey, EditedOnce, RevisionsOf
  <2> QED
    BY <2>2, <2>3, <2>4 DEF IInv
<1>2. CASE Next
  BY <1>2, StepIs, KeepsHolds, WriteRevisionHolds, WriteStatusHolds
<1> QED
  BY <1>1, <1>2

\* In every state the rows, the keys and the open transactions fit together.
THEOREM Invariance == Spec => []IInv
  BY InitHolds, StepHolds, PTL DEF Spec

\* The tables and the transactions keep their shape (store.go).
THEOREM TypeCorrect == Spec => []TypeOK
<1>1. IInv => TypeOK
  BY DEF IInv
<1> QED
  BY Invariance, <1>1, PTL

\* The revisions of a project are one chain that ends in its head (applyOps,
\* ReplaceDocument).
THEOREM HistoryIsLinear == Spec => []LinearHistory
<1>1. IInv => LinearHistory
  BY DEF IInv, Histories
<1> QED
  BY Invariance, <1>1, PTL

\* An edit is committed only on the revision its author saw (applyOps, UpdateTitle).
THEOREM NoLostUpdate == Spec => []EditsBuildOnBase
<1>1. IInv => EditsBuildOnBase
  BY DEF IInv, Histories
<1> QED
  BY Invariance, <1>1, PTL

\* A key commits one revision at most (beginIdempotent, completeIdempotent).
THEOREM KeysCommitOnce == Spec => []OneRevisionPerKey
<1>1. IInv => OneRevisionPerKey
  BY DEF IInv, Histories
<1> QED
  BY Invariance, <1>1, PTL

\* An operation is applied to a project once (project_commands, applyOps).
THEOREM OperationsApplyOnce == Spec => []EditedOnce
<1>1. IInv => EditedOnce
  BY DEF IInv, Histories
<1> QED
  BY Invariance, <1>1, PTL

\* A deleted project is left alone (applyOps, ReplaceDocument, SoftDelete).
THEOREM DeletedIsLeftAlone == Spec => DeletedStays
<1> DEFINE A == \A p \in Projects :
                  project[p].status = "deleted" =>
                    /\ project'[p].head = project[p].head
                    /\ project'[p].lock = project[p].lock
<1>1. IInv /\ [Next]_vars => [A]_vars
  <2> SUFFICES ASSUME IInv, Next
               PROVE  A
    BY DEF vars
  <2>1. ASSUME NEW c \in Clients, NEW t, Keeps(c, t)
        PROVE  A
    BY <2>1 DEF Keeps
  <2>2. ASSUME NEW c \in Clients, WriteRevision(c)
        PROVE  A
    <3>1. /\ tx[c].request.op \in Revising \cup {"create"}
          /\ Allowed(tx[c])
          /\ \A r \in Projects \ {tx[c].request.project} : project'[r] = project[r]
      BY <2>2, WriteIs DEF TxFits
    <3> QED
      BY <3>1 DEF Allowed
  <2>3. ASSUME NEW c \in Clients, WriteStatus(c)
        PROVE  A
    <3>1. Row(c) \in ProjectRows /\ project \in [Projects -> ProjectRows]
      BY <2>3, HandlerType, RequestType DEF IInv, TypeOK, WriteStatus, Row
    <3>2. project' = [project EXCEPT ![tx[c].request.project] =
             [Row(c) EXCEPT !.status = IF tx[c].request.op = "delete" THEN "deleted"
                                       ELSE "live"]]
      BY <2>3 DEF WriteStatus, Update
    <3> QED
      BY <3>1, <3>2 DEF Row, ProjectRows
  <2> QED
    BY <2>1, <2>2, <2>3, StepIs
<1> QED
  BY Invariance, <1>1, PTL DEF Spec, DeletedStays

\* Every request that succeeds takes effect at one moment, on the state its client
\* named, once per key: the transactions of the store implement the ledger that has
\* no transactions (applyOps, ReplaceDocument, UpdateTitle, SoftDelete, Restore).
THEOREM StoreImplementsLedger == Spec => ImplementsLedger
  BY InitImplements, StepImplements, Invariance, PTL
  DEF Spec, ImplementsLedger, AtOnce!Spec
===============================================================================
