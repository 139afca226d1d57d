-------------------------- MODULE JobAdmissionProofs --------------------------
(***************************************************************************)
(* The safety properties of JobAdmission, for any number of connections,   *)
(* owners, keys and jobs and any limit.                                    *)
(***************************************************************************)
EXTENDS JobAdmission, TLAPS, FiniteSetTheorems

\* What answering a request leaves of it.
LEMMA ReplyType ==
  ASSUME TypeOK, NEW c \in Clients, Reply(c)
  PROVE  /\ request' \in [Clients -> Requests \cup {None}]
         /\ pc' \in [Clients -> {"idle", "load", "count", "insert", "lookup"}]
         /\ \A d \in Clients : pc'[d] # "idle" => request'[d] \in Requests
  BY DEF TypeOK, Reply

\* A request at work is a request, and jobs that are known carry one.
LEMMA RowsType ==
  ASSUME TypeOK, NEW j \in Jobs
  PROVE  /\ job[j] \in Rows
         /\ Known(j) => job[j].status \in {"active", "ended"}
                        /\ job[j].request \in Requests
  BY DEF TypeOK, Rows, NoRow, Known

\* The rows, requests and answers keep their types.
LEMMA TypeKeeps == TypeOK /\ [Next]_vars => TypeOK'
<1> SUFFICES ASSUME TypeOK, [Next]_vars
             PROVE  TypeOK'
  OBVIOUS
<1> USE DEF TypeOK
<1>1. ASSUME NEW c \in Clients, NEW q \in Requests, Send(c, q)
      PROVE  TypeOK'
  BY <1>1 DEF Send
<1>2. ASSUME NEW c \in Clients, LoadProject(c)
      PROVE  TypeOK'
  BY <1>2 DEF LoadProject
<1>3. ASSUME NEW c \in Clients,
             RefuseProject(c) \/ CountTooMany(c) \/ StoreFails(c)
      PROVE  TypeOK'
  BY <1>3, ReplyType DEF RefuseProject, CountTooMany, StoreFails, Refuse
<1>4. ASSUME NEW c \in Clients, CountRoom(c)
      PROVE  TypeOK'
  BY <1>4 DEF CountRoom
<1>5. ASSUME NEW c \in Clients, Insert(c)
      PROVE  TypeOK'
  <2>1. Reply(c) /\ request[c] \in Requests
    BY <1>5 DEF Insert, Accept, Refuse
  <2>2. PICK j \in Jobs :
          /\ job' = [job EXCEPT ![j] = [status |-> "active", request |-> request[c]]]
          /\ Accept(c, j) \/ Refuse(c)
    BY <1>5 DEF Insert
  <2>3. job' \in [Jobs -> Rows]
    BY <2>1, <2>2 DEF Rows
  <2>4. accepted' \subseteq [request : Requests, job : Jobs]
    BY <2>1, <2>2 DEF Accept, Refuse
  <2> QED
    BY <2>1, <2>3, <2>4, ReplyType
<1>6. ASSUME NEW c \in Clients, KeyTaken(c)
      PROVE  TypeOK'
  BY <1>6 DEF KeyTaken
<1>7. ASSUME NEW c \in Clients, JobByKey(c)
      PROVE  TypeOK'
  <2>1. Reply(c) /\ request[c] \in Requests /\ job' = job
    BY <1>7 DEF JobByKey, Accept, Refuse
  <2>2. accepted' \subseteq [request : Requests, job : Jobs]
    BY <1>7, <2>1 DEF JobByKey, Accept, Refuse, SameKey
  <2> QED
    BY <2>1, <2>2, ReplyType
<1>8. ASSUME NEW j \in Jobs, EndJob(j)
      PROVE  TypeOK'
  <2>1. job[j] \in [status : {"active", "ended"}, request : Requests]
    BY <1>8 DEF EndJob, Rows, NoRow
  <2>2. [job[j] EXCEPT !.status = "ended"] \in Rows
    BY <2>1 DEF Rows
  <2> QED
    BY <1>8, <2>2 DEF EndJob
<1>9. CASE UNCHANGED vars
  BY <1>9 DEF vars
<1> QED
  BY <1>1, <1>2, <1>3, <1>4, <1>5, <1>6, <1>7, <1>8, <1>9 DEF Next, Handle
-------------------------------------------------------------------------------
\* What admission asks of a row: who filed it, and that it is there.
SameRequests ==
    \A j \in Jobs : /\ Known(j)' <=> Known(j)
                    /\ Known(j) => job'[j].request = job[j].request

\* As long as no row is inserted, the index and the answers given stay right.
LEMMA RowsStay ==
  ASSUME SameRequests, KeysAreUnique, AcceptedAreFiled
  PROVE  /\ KeysAreUnique'
         /\ accepted' = accepted => AcceptedAreFiled'
         /\ \A q : SameKey(q)' = SameKey(q)
<1>1. \A q : SameKey(q)' = SameKey(q)
  BY DEF SameRequests, SameKey
<1>2. KeysAreUnique'
  BY <1>1 DEF SameRequests, KeysAreUnique
<1>3. ASSUME accepted' = accepted
      PROVE  AcceptedAreFiled'
  BY <1>1, <1>3 DEF AcceptedAreFiled, SameRequests, SameKey
<1> QED
  BY <1>1, <1>2, <1>3

\* A new row has a key of its own, and only its client is told of it.
LEMMA InsertKeeps ==
  ASSUME TypeOK, KeysAreUnique, AcceptedAreFiled, NEW c \in Clients, Insert(c)
  PROVE  KeysAreUnique' /\ AcceptedAreFiled'
<1>1. request[c] \in Requests /\ SameKey(request[c]) = {}
  BY DEF TypeOK, Insert
<1>2. PICK j \in Jobs :
        /\ ~Known(j)
        /\ job' = [job EXCEPT ![j] = [status |-> "active", request |-> request[c]]]
        /\ Accept(c, j) \/ Refuse(c)
  BY DEF Insert
<1>3. /\ job'[j] = [status |-> "active", request |-> request[c]]
      /\ \A i \in Jobs \ {j} : job'[i] = job[i]
  BY <1>2 DEF TypeOK
<1>4. ASSUME NEW q
      PROVE  /\ SameKey(q) \subseteq SameKey(q)'
             /\ SameKey(q)' \subseteq SameKey(q) \cup {j}
             /\ j \in SameKey(q)' => /\ q.owner = request[c].owner
                                     /\ q.kind = request[c].kind
                                     /\ q.key = request[c].key
  BY <1>2, <1>3 DEF SameKey, Known
<1>5. ASSUME NEW i \in Jobs, NEW k \in Jobs, Known(i)', k \in SameKey(job[i].request)'
      PROVE  i = k
  <2>1. CASE i = j /\ k # j
    <3>1. k \in SameKey(request[c])
      BY <1>3, <1>5, <2>1 DEF SameKey, Known
    <3> QED
      BY <1>1, <3>1
  <2>2. CASE i # j /\ k = j
    <3>1. i \in SameKey(request[c])
      BY <1>3, <1>5, <2>2 DEF SameKey, Known
    <3> QED
      BY <1>1, <3>1
  <2>3. CASE i # j /\ k # j
    BY <1>3, <1>5, <2>3 DEF KeysAreUnique, SameKey, Known
  <2> QED
    BY <2>1, <2>2, <2>3
<1>6. ASSUME NEW a \in accepted'
      PROVE  a.job \in SameKey(a.request)' /\ job'[a.job].request.prompt = a.request.prompt
  <2>1. CASE a \in accepted
    <3>1. /\ a.job \in SameKey(a.request)
          /\ job[a.job].request.prompt = a.request.prompt
      BY <2>1 DEF AcceptedAreFiled
    <3>2. a.job \in Jobs /\ a.job # j
      BY <1>2, <3>1 DEF SameKey
    <3> QED
      BY <1>3, <1>4, <3>1, <3>2
  <2>2. CASE a = [request |-> request[c], job |-> j]
    BY <1>3, <2>2 DEF SameKey, Known
  <2> QED
    BY <1>2, <2>1, <2>2 DEF Accept, Refuse
<1> QED
  BY <1>5, <1>6 DEF KeysAreUnique, AcceptedAreFiled

\* Everybody who is told of a job is told of the one filed under his key.
LEMMA JobByKeyKeeps ==
  ASSUME TypeOK, KeysAreUnique, AcceptedAreFiled, NEW c \in Clients, JobByKey(c)
  PROVE  KeysAreUnique' /\ AcceptedAreFiled'
<1>1. job' = job
  BY DEF JobByKey
<1>2. SameRequests
  BY <1>1 DEF SameRequests, Known
<1>3. PICK j \in SameKey(request[c]) :
        IF Repeats(request[c], j) THEN Accept(c, j) ELSE Refuse(c)
  BY DEF JobByKey
<1>4. ASSUME NEW a \in accepted'
      PROVE  a.job \in SameKey(a.request)' /\ job'[a.job].request.prompt = a.request.prompt
  <2>1. CASE a \in accepted
    BY <1>1, <1>2, <2>1, RowsStay DEF AcceptedAreFiled
  <2>2. CASE Repeats(request[c], j) /\ a = [request |-> request[c], job |-> j]
    <3>1. a.job \in SameKey(a.request) /\ job[a.job].request.prompt = a.request.prompt
      BY <1>3, <2>2 DEF Repeats
    <3> QED
      BY <1>1, <1>2, <3>1, RowsStay
  <2> QED
    BY <1>3, <2>1, <2>2 DEF Accept, Refuse
<1> QED
  BY <1>2, <1>4, RowsStay DEF AcceptedAreFiled

\* The index and the answers survive every step.
LEMMA FilesKeep ==
  TypeOK /\ KeysAreUnique /\ AcceptedAreFiled /\ [Next]_vars
    => KeysAreUnique' /\ AcceptedAreFiled'
<1> SUFFICES ASSUME TypeOK, KeysAreUnique, AcceptedAreFiled, [Next]_vars
             PROVE  KeysAreUnique' /\ AcceptedAreFiled'
  OBVIOUS
<1>1. ASSUME NEW c \in Clients,
             \/ \E q \in Requests : Send(c, q)
             \/ LoadProject(c)
             \/ RefuseProject(c)
             \/ CountTooMany(c)
             \/ CountRoom(c)
             \/ KeyTaken(c)
             \/ StoreFails(c)
      PROVE  KeysAreUnique' /\ AcceptedAreFiled'
  <2>1. job' = job /\ accepted' = accepted
    BY <1>1 DEF Send, LoadProject, RefuseProject, CountTooMany, CountRoom, KeyTaken,
       StoreFails, Refuse
  <2>2. SameRequests
    BY <2>1 DEF SameRequests, Known
  <2> QED
    BY <2>1, <2>2, RowsStay
<1>2. ASSUME NEW j \in Jobs, EndJob(j)
      PROVE  KeysAreUnique' /\ AcceptedAreFiled'
  <2>1. SameRequests /\ accepted' = accepted
    BY <1>2 DEF EndJob, SameRequests, Known, TypeOK, Rows, NoRow
  <2> QED
    BY <2>1, RowsStay
<1>3. CASE UNCHANGED vars
  <2>1. SameRequests /\ accepted' = accepted
    BY <1>3 DEF SameRequests, Known, vars
  <2> QED
    BY <2>1, RowsStay
<1> QED
  BY <1>1, <1>2, <1>3, InsertKeeps, JobByKeyKeeps DEF Next, Handle
-------------------------------------------------------------------------------
(* The limit.                                                               *)

Load(o) == Cardinality(Active(o)) + Cardinality(PastCount(o))

\* Active jobs and requests past the count are finitely many.
LEMMA Counts ==
  ASSUME NEW o \in Owners
  PROVE  /\ IsFiniteSet(Active(o))
         /\ IsFiniteSet(PastCount(o))
         /\ Cardinality(Active(o)) \in Nat
         /\ Cardinality(PastCount(o)) \in Nat
         /\ Cardinality(PastCount(o)) <= Cardinality(Clients)
         /\ Cardinality(Clients) \in Nat
<1>1. Active(o) \subseteq Jobs /\ PastCount(o) \subseteq Clients
  BY DEF Active, PastCount
<1> QED
  BY <1>1, FiniteAssumption, FS_Subset, FS_CardinalityType

\* A step that neither activates a job nor lets a request past the count takes
\* no room.
LEMMA FewerFit ==
  ASSUME RoomIsLeft,
         \A o \in Owners : Active(o)' \subseteq Active(o)
                           /\ PastCount(o)' \subseteq PastCount(o)
  PROVE  RoomIsLeft'
<1> SUFFICES ASSUME NEW o \in Owners
             PROVE  Cardinality(Active(o)') + Cardinality(PastCount(o)')
                      < ActiveLimit + Cardinality(Clients)
  BY DEF RoomIsLeft
<1>1. /\ Cardinality(Active(o)') <= Cardinality(Active(o))
      /\ Cardinality(PastCount(o)') <= Cardinality(PastCount(o))
      /\ Cardinality(Active(o)') \in Nat
      /\ Cardinality(PastCount(o)') \in Nat
  BY Counts, FS_Subset, FS_CardinalityType
<1> QED
  BY <1>1, Counts, LimitAssumption DEF RoomIsLeft

\* The room an owner has is never overdrawn: an inserted job takes the place of
\* the request that was past the count.
LEMMA RoomKeeps == TypeOK /\ RoomIsLeft /\ [Next]_vars => RoomIsLeft'
<1> SUFFICES ASSUME TypeOK, RoomIsLeft, [Next]_vars
             PROVE  RoomIsLeft'
  OBVIOUS
<1>1. ASSUME NEW c \in Clients,
             \/ \E q \in Requests : Send(c, q)
             \/ LoadProject(c)
             \/ RefuseProject(c)
             \/ CountTooMany(c)
             \/ KeyTaken(c)
             \/ JobByKey(c)
             \/ StoreFails(c)
      PROVE  RoomIsLeft'
  <2>1. /\ job' = job
        /\ pc'[c] # "insert"
        /\ \A d \in Clients \ {c} : pc'[d] = pc[d] /\ request'[d] = request[d]
    BY <1>1 DEF Send, LoadProject, RefuseProject, CountTooMany, KeyTaken, JobByKey,
       StoreFails, Accept, Refuse, Reply, TypeOK
  <2>2. \A o \in Owners : Active(o)' \subseteq Active(o)
                          /\ PastCount(o)' \subseteq PastCount(o)
    BY <2>1 DEF Active, PastCount
  <2> QED
    BY <2>2, FewerFit
<1>2. ASSUME NEW c \in Clients, CountRoom(c)
      PROVE  RoomIsLeft'
  <2>1. /\ job' = job /\ request' = request
        /\ \A d \in Clients \ {c} : pc'[d] = pc[d]
        /\ ~Full(request[c].owner)
    BY <1>2 DEF CountRoom, TypeOK
  <2> SUFFICES ASSUME NEW o \in Owners
               PROVE  Cardinality(Active(o)') + Cardinality(PastCount(o)')
                        < ActiveLimit + Cardinality(Clients)
    BY DEF RoomIsLeft
  <2>2. Active(o)' = Active(o)
    BY <2>1 DEF Active
  <2>3. CASE o = request[c].owner
    <3>1. Cardinality(Active(o)) < ActiveLimit
      BY <2>1, <2>3, Counts, LimitAssumption DEF Full
    <3>2. PastCount(o)' \subseteq Clients
      BY DEF PastCount
    <3>3. /\ Cardinality(PastCount(o)') <= Cardinality(Clients)
          /\ Cardinality(PastCount(o)') \in Nat
      BY <3>2, FiniteAssumption, FS_Subset, FS_CardinalityType
    <3> QED
      BY <2>2, <3>1, <3>3, Counts, LimitAssumption
  <2>4. CASE o # request[c].owner
    <3>1. PastCount(o)' = PastCount(o)
      BY <1>2, <2>1, <2>4 DEF PastCount, CountRoom
    <3> QED
      BY <2>2, <3>1 DEF RoomIsLeft
  <2> QED
    BY <2>3, <2>4
<1>3. ASSUME NEW c \in Clients, Insert(c)
      PROVE  RoomIsLeft'
  <2>1. PICK j \in Jobs :
          /\ ~Known(j)
          /\ job' = [job EXCEPT ![j] = [status |-> "active", request |-> request[c]]]
          /\ Reply(c)
    BY <1>3 DEF Insert, Accept, Refuse
  <2>2. /\ pc[c] = "insert" /\ pc'[c] = "idle"
        /\ \A d \in Clients \ {c} : pc'[d] = pc[d] /\ request'[d] = request[d]
        /\ job'[j] = [status |-> "active", request |-> request[c]]
        /\ \A i \in Jobs \ {j} : job'[i] = job[i]
    BY <1>3, <2>1 DEF Insert, Reply, TypeOK
  <2> SUFFICES ASSUME NEW o \in Owners
               PROVE  Cardinality(Active(o)') + Cardinality(PastCount(o)')
                        < ActiveLimit + Cardinality(Clients)
    BY DEF RoomIsLeft
  <2>3. PastCount(o)' = PastCount(o) \ {c}
    BY <2>2 DEF PastCount
  <2>4. CASE o = request[c].owner
    <3>1. Active(o)' = Active(o) \cup {j} /\ j \notin Active(o)
      BY <2>1, <2>2, <2>4 DEF Active, Known
    <3>2. c \in PastCount(o)
      BY <2>2, <2>4 DEF PastCount
    <3>3. Cardinality(Active(o)') = Cardinality(Active(o)) + 1
      BY <3>1, Counts, FS_AddElement
    <3>4. Cardinality(PastCount(o)') = Cardinality(PastCount(o)) - 1
      BY <2>3, <3>2, Counts, FS_RemoveElement
    <3> QED
      BY <3>3, <3>4, Counts, LimitAssumption DEF RoomIsLeft
  <2>5. CASE o # request[c].owner
    <3>1. Active(o)' = Active(o)
      BY <2>1, <2>2, <2>5 DEF Active, Known
    <3>2. c \notin PastCount(o)
      BY <2>5 DEF PastCount
    <3>3. PastCount(o)' = PastCount(o)
      BY <2>3, <3>2
    <3> QED
      BY <3>1, <3>3 DEF RoomIsLeft
  <2> QED
    BY <2>4, <2>5
<1>4. ASSUME NEW j \in Jobs, EndJob(j)
      PROVE  RoomIsLeft'
  <2>1. /\ \A o \in Owners : Active(o)' \subseteq Active(o)
        /\ \A o \in Owners : PastCount(o)' = PastCount(o)
    BY <1>4 DEF EndJob, Active, PastCount, TypeOK
  <2> QED
    BY <2>1, FewerFit
<1>5. CASE UNCHANGED vars
  <2>1. \A o \in Owners : Active(o)' = Active(o) /\ PastCount(o)' = PastCount(o)
    BY <1>5 DEF vars, Active, PastCount
  <2> QED
    BY <2>1, FewerFit
<1> QED
  BY <1>1, <1>2, <1>3, <1>4, <1>5 DEF Next, Handle
-------------------------------------------------------------------------------
\* Nothing is queued, nobody asks, and there is room.
LEMMA InitHolds == Init => IInv
<1> SUFFICES ASSUME Init
             PROVE  IInv
  OBVIOUS
<1>1. TypeOK /\ KeysAreUnique /\ AcceptedAreFiled
  BY DEF Init, TypeOK, Rows, KeysAreUnique, AcceptedAreFiled, Known, NoRow
<1>2. ASSUME NEW o \in Owners
      PROVE  Active(o) = {} /\ PastCount(o) = {}
  BY DEF Init, Active, PastCount, NoRow
<1>3. RoomIsLeft
  BY <1>2, Counts, FS_EmptySet, LimitAssumption DEF RoomIsLeft
<1> QED
  BY <1>1, <1>3 DEF IInv

\* The inductive invariant holds in every reachable state of JobAdmission.
THEOREM Invariance == Spec => []IInv
<1>1. IInv /\ [Next]_vars => IInv'
  BY TypeKeeps, FilesKeep, RoomKeeps DEF IInv
<1> QED
  BY <1>1, InitHolds, PTL DEF Spec

\* Rows, requests and answers keep their types.
THEOREM TypeCorrect == Spec => []TypeOK
  BY Invariance, PTL DEF IInv

\* Two requests under one key are told of one job, whoever sent them and whenever.
THEOREM RetriesOfAKeyAgree == Spec => []RetriesAgree
<1>1. IInv => RetriesAgree
  BY DEF IInv, KeysAreUnique, AcceptedAreFiled, SameKey, Known, RetriesAgree
<1> QED
  BY <1>1, Invariance, PTL

\* With n connections an owner is at most n - 1 jobs over the limit.
THEOREM OvershootIsBounded == Spec => []OvershootBounded
<1>1. IInv => OvershootBounded
  BY Counts, LimitAssumption DEF IInv, RoomIsLeft, OvershootBounded
<1> QED
  BY <1>1, Invariance, PTL
===============================================================================
