--------------------------- MODULE DeviceSyncProofs ---------------------------
(***************************************************************************)
(* Safety properties of DeviceSync, for any edits of the user and of the   *)
(* others.                                                                 *)
(***************************************************************************)
EXTENDS DeviceSync, NumberLemmas, FiniteSetTheorems, SequenceTheorems

\* The keys are finitely many, so that there is always a new one.
KeysAreFew == IsFiniteSet(server.filed) /\ IsFiniteSet(late)

\* Nothing happened that makes a device conflict.
Calm == seen \cap {"lost", "restart", "overlap", "foreign", "signedout"} = {}

\* One task at a time, and none while the main thread is at an edit.
OneAtATime ==
    /\ late = {} /\ io["old"].pc = "idle"
    /\ Len(queue) <= 1 /\ Len(results) <= 1
    /\ queue # <<>> => results = <<>>
    /\ io["io"].pc # "idle" => queue = <<>> /\ results = <<>>
    /\ ui.pc # "idle" => queue = <<>> /\ results = <<>> /\ io["io"].pc = "idle"

\* Tasks are what the buttons outside a conflict ask for.
NoConflict ==
    /\ ~disk.conflict /\ ~ui.conflict /\ ~io["io"].conflict
    /\ io["io"].task \in {"sync", "generate"}
    /\ io["io"].pc \notin {"remember", "take", "rebase"}
    /\ \A i \in DOMAIN queue :
         /\ ~queue[i].conflict
         /\ queue[i].task \in {"sync", "generate"}
         /\ queue[i].head = ui.head
    /\ \A i \in DOMAIN results :
         /\ ~results[i].conflict
         /\ results[i].told => results[i].head = server.head

\* What is queued has a key of its own.
Filed(k) == \E f \in server.filed : f.key = k

KeyIsNew ==
    /\ disk.outbox # <<>> /\ io["io"].pc # "dropSent" => ~Filed(disk.key)
    /\ ui.pc = "enqueue" /\ ~ui.rotate => disk.outbox # <<>>

\* The head is known, or the project is as it was created and has to be found.
Known(head) == head = server.head \/ (head = 0 /\ server.head <= 1)

HeadIsKnown ==
    /\ ~ui.cloud => server.head = 0 /\ io["io"].pc = "idle"
    /\ \/ Known(ui.head)
       \/ io["io"].pc \in {"dropSent", "again", "synced"} /\ io["io"].task = "sync"
       \/ io["io"].pc = "clear"
       \/ \E i \in DOMAIN results : results[i].told

\* What is queued although nobody is at it has been refused, and will be again.
Settled ==
    \/ disk.outbox = <<>>
    \/ server.head = 0
    \/ /\ ~Applicable(server, disk.outbox)
       /\ ui.head = 0 => disk.doc # server.created

Settling ==
    \/ ui.pc # "idle"
    \/ \E i \in DOMAIN queue : queue[i].task = "sync"
    \/ io["io"].pc # "idle" /\ io["io"].task = "sync"
    \/ io["io"].pc = "dropPosted"

\* Where the thread is at.
AtIt(r) ==
    /\ r.pc \in {"sync", "post", "create"} => r.head = ui.head
    /\ r.pc \in {"post", "create", "find", "dropPosted"} => ui.head = 0
    /\ r.pc \in {"post", "create"} => r.doc = disk.doc
    /\ r.pc = "create" => r.ops = disk.outbox
    /\ r.pc = "find" => server.head = 0 \/ (server.head = 1 /\ disk.doc # server.created)
    /\ r.pc \in {"flush", "key", "change", "dropPosted"} => server.head # 0
    /\ r.pc \in {"flush", "key", "change"} /\ disk.outbox # <<>> /\ ui.head = 0 =>
         disk.doc # server.created
    /\ r.pc \in {"key", "change"} => r.ops = disk.outbox /\ disk.outbox # <<>>
    /\ r.pc = "change" => r.key = disk.key
    /\ r.pc \in {"dropPosted", "dropSent"} => r.left = <<>>
    /\ r.pc \in {"dropSent", "again"} => r.task = "sync"
    /\ r.pc \in {"again", "synced", "generate", "clear"} => disk.outbox = <<>>
    /\ r.pc \in {"generate", "clear"} => r.task = "generate"
    /\ r.pc \in {"flush", "key", "change", "dropPosted", "dropSent", "again", "synced",
                 "generate", "clear"} => r.head = server.head

InOrder ==
    /\ OneAtATime /\ NoConflict /\ KeyIsNew /\ HeadIsKnown
    /\ Settling \/ Settled
    /\ AtIt(io["io"])

\* Nothing happened that makes the server refuse what a device sends; another device
\* may write.
Steady == seen \cap {"lost", "restart", "overlap", "past", "removed", "unfit", "long",
                     "signedout"} = {}

\* Nothing was removed, and no edit is one that the server refuses.
Valid == server.gone = {} /\ made.all \cap Unfit = {}

\* What is queued, or is about to be, and what the user sees, now or in a moment:
\* what was granted no longer counts as queued, although it is still to be dropped.
Standing ==
    IF ui.pc = "enqueue" THEN ui.out
    ELSE IF io["io"].pc \in {"dropPosted", "dropSent", "clear"} THEN <<>>
    ELSE disk.outbox

Drawn == IF ui.pc = "idle" THEN disk.doc ELSE ui.doc

\* As far as the device's own edits go, or entirely when nobody else writes.
Same(past, a, b) == a \cap Edits = b \cap Edits /\ ("foreign" \notin past => a = b)

\* A queue the server would apply, after which it would have the document.
Leads(s, past, ops, doc) ==
    s.head # 0 =>
        /\ Applicable(s, ops)
        /\ Same(past, After(s.doc, ops), doc)
        /\ \A op \in ToSet(ops) : ~op.undo => op.edit \notin s.doc

\* Operations are of what the user did.
Meant(did, ops) == \A op \in ops : op.edit \in IF op.undo THEN did.undone ELSE did.all

QueueFits ==
    /\ Leads(server, seen, Standing, Drawn)
    /\ Meant(made, ToSet(Standing)) /\ Meant(made, server.applied)
    /\ (Drawn \cup server.doc) \cap Edits \subseteq made.all
    /\ made.undone \subseteq made.all
    /\ server.head = 0 => server.doc = {}

\* A frame that is not past is one edit away from the next one, or from what is shown,
\* and while the server does not have the edit, the frame's queue leads to its document.
FrameFits(i) ==
    LET f == ui.undo[i] IN
    /\ f.edit \in made.all \ made.undone
    /\ \A j \in DOMAIN ui.undo : j # i => ui.undo[j].edit # f.edit
    /\ Meant(made, ToSet(f.outbox))
    /\ ~f.past =>
         /\ f.edit \notin f.doc /\ f.edit \in Drawn
         /\ (IF i = 1 THEN Drawn ELSE ui.undo[i - 1].doc) = f.doc \cup {f.edit}
         /\ f.edit \notin server.doc => Leads(server, seen, f.outbox, f.doc)

FramesFit == \A i \in DOMAIN ui.undo : FrameFits(i)

\* A device that does not know the head has changed nothing since it created the project.
Heard == \E i \in DOMAIN results : results[i].told

AsCreated ==
    server.head # 0 /\ ui.head = 0 =>
        \/ Same(seen, server.doc, server.created) \/ Heard
        \/ io["io"].pc \in {"dropSent", "again", "synced"} /\ io["io"].task # "generate"
        \/ io["io"].pc = "clear"

\* A head other than 0 is that of a project that is there.
HeadsFit ==
    /\ ~ui.cloud => server.head = 0 /\ io["io"].pc = "idle"
    /\ server.head = 0 =>
         /\ ui.head = 0 /\ ~ui.conflict
         /\ \A i \in DOMAIN queue : queue[i].task \in {"sync", "generate"}
    /\ \A i \in DOMAIN queue : queue[i].head = ui.head
    /\ \A i \in DOMAIN results : results[i].told => results[i].head # 0 /\ server.head # 0

\* What is queued although the server has the project, and the device does not know
\* its head, is being sent.
Underway ==
    \/ ui.pc # "idle" \/ Heard
    \/ \E i \in DOMAIN queue : queue[i].task # "generate"
    \/ io["io"].pc # "idle" /\ io["io"].task # "generate"
    \/ io["io"].pc = "dropPosted"

AtRest == disk.outbox = <<>> \/ server.head = 0 \/ ui.head # 0

\* Where the thread is at, when others write, too.
WorkFits(r) ==
    /\ r.pc \in {"post", "create"} => r.head = 0 /\ r.doc = disk.doc
    /\ r.pc \in {"sync", "post", "create"} /\ r.head = 0 => ui.head = 0
    /\ r.pc = "create" => r.ops = disk.outbox
    /\ (r.pc = "sync" /\ r.head # 0)
         \/ r.pc \notin {"idle", "sync", "post", "create"} => server.head # 0
    /\ r.pc \notin {"idle", "sync", "post", "create", "find", "take", "rebase"} =>
         r.head # 0
    /\ r.pc \in {"key", "change"} => r.ops = disk.outbox /\ disk.outbox # <<>>
    /\ r.pc = "change" => r.key = disk.key
    /\ r.pc \in {"dropPosted", "dropSent"} => r.left = <<>>
    /\ r.pc \in {"again", "synced", "generate"} => disk.outbox = <<>>
    /\ r.pc = "generate" => r.task = "generate"

InStep ==
    /\ OneAtATime /\ KeyIsNew
    /\ QueueFits /\ FramesFit
    /\ AsCreated /\ HeadsFit
    /\ Underway \/ AtRest
    /\ WorkFits(io["io"])

\* In calm the stored head is that of the server.
HeadIsStored ==
    disk.head = 0 \/ disk.head = server.head \/ io["io"].pc \in {"dropSent", "clear"}

\* What the user did and never undid.
Lasting(did) == did.all \ did.undone

\* Documents and queues hold nothing but what the user did.
Mine(did, doc, ops) == doc \cap Edits \subseteq did.all /\ Meant(did, ToSet(ops))

OwnFrame(did, f) == Mine(did, f.doc, f.outbox) /\ f.edit \in did.all
OwnRun(did, r) == Mine(did, r.doc, r.ops) /\ Meant(did, ToSet(r.left))

OwnEdits ==
    /\ made.calm \subseteq made.all
    /\ Mine(made, disk.doc, disk.outbox) /\ Mine(made, ui.doc, ui.out)
    /\ \A i \in DOMAIN ui.undo : OwnFrame(made, ui.undo[i])
    /\ \A t \in Threads : OwnRun(made, io[t])
    /\ \A r \in late : Mine(made, r.doc, r.ops)

\* What lasts and was once created or filed, the server still has.
ServerKeeps(did, s) ==
    /\ (s.doc \cup s.created) \cap Edits \subseteq did.all
    /\ s.head = 0 => s.doc = {} /\ s.filed = {}
    /\ Lasting(did) \cap s.created \subseteq s.doc
    /\ \A f \in s.filed :
         /\ Meant(did, ToSet(f.ops))
         /\ \A e \in Lasting(did) : Do(e) \in ToSet(f.ops) => e \in s.doc

\* What lasts and is in a document is on the server or in the queue.
Kept(did, s, doc, ops) ==
    \A e \in Lasting(did) \cap doc : e \in s.doc \/ Do(e) \in ToSet(ops)

\* Nobody edits while a task is under way, or undoes what is past.
Plain == seen \cap {"overlap", "past"} = {}

FrameKept(i) ==
    ~ui.undo[i].past =>
        /\ Kept(made, server, ui.undo[i].doc, ui.undo[i].outbox)
        /\ ui.undo[i].doc \subseteq Drawn
        /\ \A j \in DOMAIN ui.undo :
             j > i /\ ~ui.undo[j].past => ui.undo[j].doc \subseteq ui.undo[i].doc

RunKeeps(r) ==
    /\ r.pc \in {"post", "create"} => Lasting(made) \cap disk.doc \subseteq r.doc \cup server.doc
    /\ r.pc \in {"dropPosted", "dropSent"} => Kept(made, server, disk.doc, r.left)
    /\ r.pc = "clear" => Kept(made, server, disk.doc, <<>>)

EditsKept ==
    /\ ui.pc # "idle" => ~Busy
    /\ Kept(made, server, disk.doc, disk.outbox)
    /\ ui.pc = "enqueue" => Kept(made, server, disk.doc \cup ui.doc, ui.out)
    /\ ui.pc = "save" => Kept(made, server, ui.doc, disk.outbox)
    /\ \A i \in DOMAIN ui.undo : FrameKept(i)
    /\ \A t \in Threads : RunKeeps(io[t])

\* Whatever happens, and with nobody editing while a task is under way.
Surviving ==
    /\ OwnEdits /\ ServerKeeps(made, server)
    /\ Plain => EditsKept

IInv ==
    /\ TypeOK /\ KeysAreFew
    /\ Calm => InOrder /\ HeadIsStored
    /\ Steady => Valid
    /\ Steady => InStep
    /\ "signedout" \notin seen => RejectedOnlyAfterMishap
    /\ Surviving
-------------------------------------------------------------------------------
(* The operators.                                                           *)

LEMMA EffectTyped ==
  ASSUME NEW d \in Docs, NEW op \in Ops
  PROVE  Effect(d, op) \in Docs
  BY DEF Effect, Docs, Ops, All

\* What the operations make of a document, one after the other.
LEMMA ThroughIs ==
  ASSUME NEW d \in Docs, NEW ops \in Seq(Ops)
  PROVE  /\ Through(d, ops) \in [0 .. Len(ops) -> Docs]
         /\ Through(d, ops)[0] = d
         /\ \A n \in 1 .. Len(ops) :
              Through(d, ops)[n] = Effect(Through(d, ops)[n - 1], ops[n])
<1> DEFINE N == Len(ops)
           g == [n \in 1 .. N |-> [x \in Docs |-> Effect(x, ops[n])]]
           Goes(f) == f = [n \in 0 .. N |-> IF n = 0 THEN d ELSE Effect(f[n - 1], ops[n])]
<1>1. N \in Nat /\ \A n \in 1 .. N : ops[n] \in Ops
  OBVIOUS
<1>2. g \in Steps(N, Docs)
  BY <1>1, EffectTyped DEF Steps
<1>3. PICK f \in [0 .. N -> Docs] : Follows(f, N, d, g)
  BY <1>1, <1>2, Recursion
<1>4. \A n \in 0 .. N : f[n] = IF n = 0 THEN d ELSE Effect(f[n - 1], ops[n])
  <2>1. f[0] = d /\ \A n \in 1 .. N : f[n] = g[n][f[n - 1]]
    BY <1>3 DEF Follows
  <2>2. \A n \in 1 .. N : f[n - 1] \in Docs
    BY <1>1, <1>3
  <2> QED
    BY <1>1, <2>1, <2>2
<1> HIDE DEF g
<1>5. Goes(f)
  BY <1>3, <1>4
<1> DEFINE after == CHOOSE h : Goes(h)
<1>6. Goes(after)
  BY <1>5
<1>7. Through(d, ops) = after
  BY DEF Through
<1> HIDE DEF after
<1>8. \A n \in 0 .. N : after[n] = IF n = 0 THEN d ELSE Effect(after[n - 1], ops[n])
  BY <1>6
<1>9. after[0] = d /\ \A n \in 1 .. N : after[n] = Effect(after[n - 1], ops[n])
  BY <1>1, <1>8
<1> DEFINE S == {n \in 0 .. N : after[n] \in Docs}
<1>10. 0 \in S
  BY <1>1, <1>9
<1>11. ASSUME NEW n \in 1 .. N, n - 1 \in S
       PROVE  n \in S
  BY <1>1, <1>9, <1>11, EffectTyped
<1> HIDE DEF S
<1>12. \A n \in 0 .. N : n \in S
  BY <1>1, <1>10, <1>11, UpTo
<1>13. after \in [0 .. N -> Docs]
  BY <1>6, <1>12 DEF S
<1> QED
  BY <1>7, <1>9, <1>13

LEMMA AfterTyped ==
  ASSUME NEW d \in Docs, NEW ops \in Seq(Ops)
  PROVE  After(d, ops) \in Docs
  BY ThroughIs DEF After

LEMMA AppendSet ==
  ASSUME NEW ops \in Seq(Ops), NEW op \in Ops
  PROVE  ToSet(Append(ops, op)) = ToSet(ops) \cup {op}
<1> DEFINE N == Len(ops)
           more == Append(ops, op)
<1>1. /\ N \in Nat /\ DOMAIN more = 1 .. N + 1 /\ DOMAIN ops = 1 .. N
      /\ \A n \in 1 .. N : more[n] = ops[n]
      /\ more[N + 1] = op
  OBVIOUS
<1> HIDE DEF more, N
<1>2. DOMAIN more = DOMAIN ops \cup {N + 1}
  BY <1>1
<1>3. \A n \in DOMAIN ops : more[n] = ops[n]
  BY <1>1
<1> QED
  BY <1>1, <1>2, <1>3 DEF ToSet, more

\* What is left of a queue is what was not sent, and nothing is when everything was.
LEMMA RemainingIs ==
  ASSUME NEW ops \in Seq(Ops), NEW sent
  PROVE  /\ Remaining(ops, sent) \in Seq(Ops)
         /\ ToSet(Remaining(ops, sent)) = ToSet(ops) \ sent
         /\ ToSet(ops) \subseteq sent => Remaining(ops, sent) = <<>>
<1> DEFINE N == Len(ops)
           More(x, n) == IF ops[n] \in sent THEN x ELSE Append(x, ops[n])
           g == [n \in 1 .. N |-> [x \in Seq(Ops) |-> More(x, n)]]
           Goes(f) == f = [n \in 0 .. N |->
                             IF n = 0 THEN <<>>
                             ELSE IF ops[n] \in sent THEN f[n - 1]
                             ELSE Append(f[n - 1], ops[n])]
<1>1. N \in Nat /\ \A n \in 1 .. N : ops[n] \in Ops
  OBVIOUS
<1>2. g \in Steps(N, Seq(Ops))
  BY <1>1 DEF Steps
<1>3. PICK f \in [0 .. N -> Seq(Ops)] : Follows(f, N, <<>>, g)
  <2>1. <<>> \in Seq(Ops)
    OBVIOUS
  <2> HIDE DEF g
  <2> QED
    BY <1>1, <1>2, <2>1, Recursion
<1>4. \A n \in 0 .. N : f[n] = IF n = 0 THEN <<>>
                               ELSE IF ops[n] \in sent THEN f[n - 1]
                               ELSE Append(f[n - 1], ops[n])
  <2>1. f[0] = <<>> /\ \A n \in 1 .. N : f[n] = g[n][f[n - 1]]
    BY <1>3 DEF Follows
  <2>2. \A n \in 1 .. N : f[n - 1] \in Seq(Ops)
    BY <1>1, <1>3
  <2>3. \A n \in 1 .. N : f[n] = More(f[n - 1], n)
    <3> HIDE DEF More
    <3> QED
      BY <2>1, <2>2
  <2> HIDE DEF g
  <2> SUFFICES ASSUME NEW n \in 0 .. N
               PROVE  f[n] = IF n = 0 THEN <<>>
                             ELSE IF ops[n] \in sent THEN f[n - 1]
                             ELSE Append(f[n - 1], ops[n])
    OBVIOUS
  <2>4. n # 0 => n \in 1 .. N
    BY <1>1
  <2> QED
    BY <2>1, <2>3, <2>4
<1> HIDE DEF g
<1>5. Goes(f)
  BY <1>3, <1>4
<1> DEFINE left == CHOOSE h : Goes(h)
<1>6. Goes(left)
  BY <1>5
<1>7. Remaining(ops, sent) = left[N]
  BY DEF Remaining
<1> HIDE DEF left
<1>8. \A n \in 0 .. N : left[n] = IF n = 0 THEN <<>>
                                  ELSE IF ops[n] \in sent THEN left[n - 1]
                                  ELSE Append(left[n - 1], ops[n])
  BY <1>6
<1> HIDE DEF Goes
<1> DEFINE S == {n \in 0 .. N : left[n] \in Seq(Ops)}
<1>9. 0 \in S
  <2>1. left[0] = <<>> /\ <<>> \in Seq(Ops) /\ 0 \in 0 .. N
    BY <1>1, <1>8
  <2> HIDE DEF N
  <2> QED
    BY <2>1
<1>10. ASSUME NEW n \in 1 .. N, n - 1 \in S
       PROVE  n \in S
  <2>1. n # 0 /\ n \in 0 .. N /\ ops[n] \in Ops
    BY <1>1
  <2>2. left[n] = IF ops[n] \in sent THEN left[n - 1] ELSE Append(left[n - 1], ops[n])
    BY <1>8, <2>1
  <2>3. left[n - 1] \in Seq(Ops)
    BY <1>10
  <2>4. left[n] \in Seq(Ops)
    BY <2>1, <2>2, <2>3
  <2> HIDE DEF N
  <2> QED
    BY <2>1, <2>4
<1> HIDE DEF S
<1>11. \A n \in 0 .. N : n \in S
  BY <1>1, <1>9, <1>10, UpTo
<1>12. left[N] \in Seq(Ops)
  BY <1>1, <1>11 DEF S
<1>13. ASSUME ToSet(ops) \subseteq sent
       PROVE  left[N] = <<>>
  <2>1. \A n \in 1 .. N : ops[n] \in sent
    BY <1>13 DEF ToSet
  <2> DEFINE E == {n \in 0 .. N : left[n] = <<>>}
  <2>2. 0 \in E
    BY <1>1, <1>8
  <2>3. ASSUME NEW n \in 1 .. N, n - 1 \in E
        PROVE  n \in E
    BY <1>1, <1>8, <2>1, <2>3
  <2> HIDE DEF E
  <2>4. \A n \in 0 .. N : n \in E
    BY <1>1, <2>2, <2>3, UpTo
  <2> QED
    BY <1>1, <2>4 DEF E
<1>14. ToSet(left[N]) = ToSet(ops) \ sent
  <2> DEFINE Before(n) == {ops[k] : k \in 1 .. n}
             L == {n \in 0 .. N : ToSet(left[n]) = Before(n) \ sent}
  <2>1. 0 \in L
    <3>1. left[0] = <<>> /\ Before(0) = {} /\ 0 \in 0 .. N
      BY <1>1, <1>8
    <3>2. ToSet(<<>>) = {}
      BY DEF ToSet
    <3> HIDE DEF Before
    <3> QED
      BY <3>1, <3>2
  <2>2. ASSUME NEW n \in 1 .. N, n - 1 \in L
        PROVE  n \in L
    <3>1. n # 0 /\ n \in 0 .. N /\ n - 1 \in 0 .. N /\ ops[n] \in Ops
      BY <1>1
    <3>2. left[n] = IF ops[n] \in sent THEN left[n - 1] ELSE Append(left[n - 1], ops[n])
      BY <1>8, <3>1
    <3>3. left[n - 1] \in Seq(Ops)
      BY <1>11, <3>1 DEF S
    <3>4. Before(n) = Before(n - 1) \cup {ops[n]}
      <4>1. \A k : k \in 1 .. n <=> k \in 1 .. n - 1 \/ k = n
        BY <1>1
      <4> QED
        BY <4>1
    <3>5. ToSet(left[n - 1]) = Before(n - 1) \ sent
      BY <2>2
    <3> HIDE DEF Before, N
    <3>6. ToSet(Append(left[n - 1], ops[n])) = ToSet(left[n - 1]) \cup {ops[n]}
      BY <3>1, <3>3, AppendSet
    <3>7. ToSet(left[n]) = Before(n) \ sent
      BY <3>2, <3>4, <3>5, <3>6
    <3> QED
      BY <3>1, <3>7
  <2> HIDE DEF L
  <2>3. \A n \in 0 .. N : n \in L
    BY <1>1, <2>1, <2>2, UpTo
  <2>4. N \in L
    BY <1>1, <2>3
  <2>5. Before(N) = ToSet(ops)
    BY DEF ToSet
  <2> QED
    BY <2>4, <2>5 DEF L
<1> QED
  BY <1>7, <1>12, <1>13, <1>14
-------------------------------------------------------------------------------
(* Keys.                                                                    *)

LEMMA KeysOfFew ==
  ASSUME NEW S, IsFiniteSet(S)
  PROVE  IsFiniteSet({x.key : x \in S})
<1> DEFINE T == {x.key : x \in S}
           f == [x \in S |-> x.key]
<1>1. f \in Surjection(S, T)
  BY DEF Surjection
<1> QED
  BY <1>1, FS_Surjection

\* There is a key that is not in use.
LEMMA NewKeyIs ==
  ASSUME TypeOK, KeysAreFew
  PROVE  NewKey \in Nat /\ ~Filed(NewKey)
<1> DEFINE C == Cardinality(UsedKeys)
<1>1. IsFiniteSet(UsedKeys)
  <2>1. IsFiniteSet({f.key : f \in server.filed}) /\ IsFiniteSet({r.key : r \in late})
    BY KeysOfFew DEF KeysAreFew
  <2>2. IsFiniteSet({io["io"].key}) /\ IsFiniteSet({io["old"].key}) /\ IsFiniteSet({disk.key})
    BY FS_Singleton
  <2>3. {io[t].key : t \in Threads} = {io["io"].key} \cup {io["old"].key}
    BY DEF Threads
  <2>4. IsFiniteSet({io[t].key : t \in Threads})
    <3>1. IsFiniteSet({io["io"].key} \cup {io["old"].key})
      BY <2>2, FS_Union
    <3> QED
      BY <2>3, <3>1
  <2>5. IsFiniteSet({f.key : f \in server.filed} \cup {r.key : r \in late})
    BY <2>1, FS_Union
  <2>6. IsFiniteSet(({f.key : f \in server.filed} \cup {r.key : r \in late})
                    \cup {io[t].key : t \in Threads})
    BY <2>4, <2>5, FS_Union
  <2> QED
    BY <2>2, <2>6, FS_Union DEF UsedKeys
<1>2. C \in Nat
  BY <1>1, FS_CardinalityType
<1> DEFINE free == {k \in 0 .. C : k \notin UsedKeys}
<1>3. free # {}
  <2> SUFFICES ASSUME free = {}
               PROVE  FALSE
    OBVIOUS
  <2>1. 0 .. C \in SUBSET UsedKeys
    BY <1>2
  <2>2. Cardinality(0 .. C) <= C
    BY <1>1, <2>1, FS_Subset
  <2>3. Cardinality(0 .. C) = C + 1
    <3>1. 0 \in Int /\ C \in Int /\ ~(0 > C) /\ C - 0 + 1 = C + 1
      BY <1>2
    <3> HIDE DEF C
    <3> QED
      BY <3>1, FS_Interval
  <2> HIDE DEF C
  <2> QED
    BY <1>2, <2>2, <2>3
<1>4. free \in SUBSET Nat
  BY <1>2
<1>5. PICK k \in free : \A j \in free : k <= j
  BY <1>3, <1>4, LeastNumber
<1>6. k \in 0 .. C /\ k \notin UsedKeys /\ \A j \in 0 .. k - 1 : j \in UsedKeys
  <2>1. k \in 0 .. C /\ k \notin UsedKeys
    BY <1>5
  <2>2. ASSUME NEW j \in 0 .. k - 1, j \notin UsedKeys
        PROVE  FALSE
    <3>1. j \in 0 .. C /\ ~(k <= j)
      BY <1>2, <2>1
    <3> QED
      BY <1>5, <2>2, <3>1
  <2> QED
    BY <2>1, <2>2
<1> HIDE DEF C, free
<1>7. NewKey \in 0 .. C /\ NewKey \notin UsedKeys
  BY <1>6 DEF NewKey, C
<1>8. ~Filed(NewKey)
  BY <1>7 DEF UsedKeys, Filed
<1> QED
  BY <1>2, <1>7, <1>8
-------------------------------------------------------------------------------
(* The state space.                                                         *)

Disks == [doc : Docs, outbox : Seq(Ops), key : Nat, head : Nat, conflict : BOOLEAN]
Frames == [doc : Docs, outbox : Seq(Ops), edit : Edits, past : BOOLEAN]
Orders == [task : Tasks, head : Nat, conflict : BOOLEAN]
Reports == [task : Tasks, told : BOOLEAN, head : Nat, conflict : BOOLEAN]
Requests == [op : {"create", "change", "generate", "get"}, doc : Docs, base : Nat,
             ops : Seq(Ops), key : Nat]

LEMMA Types ==
  ASSUME TypeOK
  PROVE  /\ server \in ServerRows /\ disk \in Disks /\ ui \in Screens
         /\ queue \in Seq(Orders) /\ results \in Seq(Reports)
         /\ late \subseteq Requests /\ \A r \in late : r.op # "get"
         /\ io \in [Threads -> Runs] /\ \A t \in Threads : io[t] \in Runs
         /\ made.all \subseteq Edits /\ made.calm \subseteq Edits
         /\ made.undone \subseteq Edits
         /\ made \in [all : SUBSET Edits, calm : SUBSET Edits, undone : SUBSET Edits]
         /\ seen \subseteq Mishaps \cup {"rejected"}
  BY DEF TypeOK, Disks, Orders, Reports, Requests

LEMMA Typed ==
  ASSUME server' \in ServerRows, disk' \in Disks, ui' \in Screens,
         queue' \in Seq(Orders), results' \in Seq(Reports),
         late' \subseteq Requests, \A r \in late' : r.op # "get",
         io' \in [Threads -> Runs],
         made' \in [all : SUBSET Edits, calm : SUBSET Edits, undone : SUBSET Edits],
         seen' \subseteq Mishaps \cup {"rejected"}
  PROVE  TypeOK'
<1>1. late' \subseteq [op : {"create", "change", "generate"}, doc : Docs, base : Nat,
                       ops : Seq(Ops), key : Nat]
  BY DEF Requests
<1> QED
  BY <1>1 DEF TypeOK, Disks, Orders, Reports

LEMMA NoteTyped ==
  ASSUME TypeOK, NEW what \in SUBSET Mishaps, Note(what)
  PROVE  seen' \subseteq Mishaps \cup {"rejected"}
  BY DEF TypeOK, Note

LEMMA RestingTyped == Resting \in Runs
  BY DEF Resting, Runs, Tasks, Docs

LEMMA SetTyped ==
  ASSUME TypeOK, NEW t \in Threads, NEW r \in Runs, Set(t, r)
  PROVE  /\ io' \in [Threads -> Runs] /\ io'[t] = r
         /\ \A u \in Threads \ {t} : io'[u] = io[u]
  BY Types DEF Set

LEMMA EndTyped ==
  ASSUME TypeOK, NEW t \in Threads, NEW told \in BOOLEAN, NEW head \in Nat,
         NEW conflict \in BOOLEAN, End(t, told, head, conflict)
  PROVE  /\ io' \in [Threads -> Runs] /\ io'[t] = Resting
         /\ \A u \in Threads \ {t} : io'[u] = io[u]
         /\ results' \in Seq(Reports)
         /\ t = "old" => results' = results
         /\ t # "old" => results' = Append(results,
              [task |-> io[t].task, told |-> told, head |-> head, conflict |-> conflict])
<1>1. Set(t, Resting)
  BY DEF End
<1>2. [task |-> io[t].task, told |-> told, head |-> head, conflict |-> conflict] \in Reports
  BY Types DEF Runs, Reports
<1>3. results' \in Seq(Reports)
  BY <1>2, Types DEF End
<1> QED
  BY <1>1, <1>3, RestingTyped, SetTyped DEF End

LEMMA FailedTyped ==
  ASSUME TypeOK, NEW t \in Threads, Failed(t)
  PROVE  /\ io' \in [Threads -> Runs] /\ io'[t] = Resting
         /\ \A u \in Threads \ {t} : io'[u] = io[u]
         /\ results' \in Seq(Reports)
         /\ t # "old" => results' = Append(results,
              [task |-> io[t].task, told |-> FALSE, head |-> 0, conflict |-> FALSE])
  BY EndTyped DEF Failed

LEMMA RequestTyped ==
  ASSUME TypeOK, NEW t \in Threads
  PROVE  /\ RequestOf(t) \in Requests
         /\ RequestOf(t).op = IF io[t].pc \in {"create", "change", "generate"}
                              THEN io[t].pc ELSE "get"
         /\ RequestOf(t).doc = io[t].doc /\ RequestOf(t).base = io[t].head
         /\ RequestOf(t).ops = io[t].ops /\ RequestOf(t).key = io[t].key
<1>1. io[t] \in Runs
  BY Types
<1> QED
  BY <1>1 DEF RequestOf, Runs, Requests

LEMMA PcTyped ==
  ASSUME TypeOK, NEW t \in Threads, NEW pc, pc \in {"dropPosted", "flush", "dropSent",
                                                    "sync", "clear", "remember"}
  PROVE  /\ Pc(t, pc) \in Runs /\ Pc(t, pc).pc = pc /\ Pc(t, pc).task = io[t].task
         /\ Pc(t, pc).head = io[t].head /\ Pc(t, pc).conflict = io[t].conflict
         /\ Pc(t, pc).left = io[t].left
<1>1. io[t] \in Runs
  BY Types
<1>2. <<>> \in Seq(Ops) /\ {} \in Docs /\ 0 \in Nat
  BY DEF Docs
<1>3. pc \in Waiting \cup {"idle", "sync", "post", "flush", "key", "dropPosted",
                          "dropSent", "again", "synced", "clear"}
  BY DEF Waiting
<1> QED
  BY <1>1, <1>2, <1>3 DEF Pc, Runs
-------------------------------------------------------------------------------
(* The server.                                                              *)

LEMMA CreatedTyped ==
  ASSUME NEW s \in ServerRows, NEW r \in Requests
  PROVE  LET a == Created(s, r) IN
         /\ a.server \in ServerRows /\ a.server.filed = s.filed /\ a.server.gone = s.gone
         /\ a.status \in {"ok", "again", "refused"}
  BY DEF Created, Answer, ServerRows, Requests

LEMMA ChangedTyped ==
  ASSUME NEW s \in ServerRows, NEW r \in Requests, IsFiniteSet(s.filed)
  PROVE  LET a == Changed(s, r) IN
         /\ a.server \in ServerRows /\ IsFiniteSet(a.server.filed) /\ a.server.gone = s.gone
         /\ a.status \in {"ok", "again", "refused", "conflict"}
<1> DEFINE filed == {f \in s.filed : f.key = r.key}
           entry == [key |-> r.key, base |-> r.base, ops |-> r.ops]
           row == [s EXCEPT !.head = @ + 1, !.doc = After(@, r.ops),
                            !.applied = @ \cup ToSet(r.ops), !.filed = @ \cup {entry}]
<1>1. row \in ServerRows /\ row.filed = s.filed \cup {entry} /\ row.gone = s.gone
  <2>1. After(s.doc, r.ops) \in Docs
    BY AfterTyped DEF ServerRows, Requests
  <2>2. ToSet(r.ops) \subseteq Ops /\ entry \in [key : Nat, base : Nat, ops : Seq(Ops)]
    BY DEF ToSet, Requests
  <2> DEFINE doc == After(s.doc, r.ops)
             applied == s.applied \cup ToSet(r.ops)
             all == s.filed \cup {entry}
  <2>3. /\ s.head + 1 \in Nat /\ doc \in Docs /\ applied \in SUBSET Ops
        /\ all \in SUBSET [key : Nat, base : Nat, ops : Seq(Ops)]
    BY <2>1, <2>2 DEF ServerRows
  <2>4. row = [s EXCEPT !.head = s.head + 1, !.doc = doc, !.applied = applied, !.filed = all]
    OBVIOUS
  <2> HIDE DEF entry, doc, applied, all, row
  <2>5. row \in ServerRows /\ row.filed = all /\ row.gone = s.gone
    BY <2>3, <2>4 DEF ServerRows
  <2> QED
    BY <2>5 DEF all
<1>2. IsFiniteSet(row.filed)
  <2>1. IsFiniteSet(s.filed \cup {entry})
    BY FS_AddElement
  <2> HIDE DEF row, entry
  <2> QED
    BY <1>1, <2>1
<1> HIDE DEF row
<1>3. CASE filed # {}
  BY <1>3 DEF Changed, Answer
<1>4. CASE filed = {} /\ s.head # r.base
  BY <1>4 DEF Changed, Answer
<1>5. CASE filed = {} /\ s.head = r.base /\ ~Applicable(s, r.ops)
  BY <1>5 DEF Changed, Answer
<1>6. CASE filed = {} /\ s.head = r.base /\ Applicable(s, r.ops)
  <2>1. Changed(s, r) = Answer("ok", row)
    BY <1>6 DEF Changed, row
  <2> QED
    BY <1>1, <1>2, <2>1 DEF Answer
<1> QED
  BY <1>3, <1>4, <1>5, <1>6

LEMMA GeneratedTyped ==
  ASSUME NEW s \in ServerRows, NEW r, NEW a \in Generated(s, r)
  PROVE  /\ a.server \in ServerRows /\ a.server.filed = s.filed /\ a.server.gone = s.gone
         /\ a.status \in {"ok", "refused", "conflict"}
<1>1. CASE a \in {Answer("conflict", s), Answer("refused", s)}
  BY <1>1 DEF Answer
<1>2. ASSUME NEW o \in Others,
             a = Answer("ok", [s EXCEPT !.head = @ + 1, !.doc = @ \cup {o}])
      PROVE  /\ a.server \in ServerRows /\ a.server.filed = s.filed /\ a.server.gone = s.gone
             /\ a.status \in {"ok", "refused", "conflict"}
  <2>1. s.doc \cup {o} \in Docs
    BY DEF ServerRows, Docs, All
  <2> DEFINE doc == s.doc \cup {o}
             row == [s EXCEPT !.head = s.head + 1, !.doc = doc]
  <2>2. s.head + 1 \in Nat /\ doc \in Docs
    BY <2>1 DEF ServerRows
  <2>3. a = Answer("ok", row)
    BY <1>2
  <2>4. row \in ServerRows /\ row.filed = s.filed /\ row.gone = s.gone
    <3> HIDE DEF doc
    <3> QED
      BY <2>2 DEF ServerRows
  <2> HIDE DEF row
  <2> QED
    BY <2>3, <2>4 DEF Answer
<1> QED
  BY <1>1, <1>2 DEF Generated

LEMMA AnswersTyped ==
  ASSUME NEW s \in ServerRows, NEW r \in Requests, IsFiniteSet(s.filed), NEW a \in Answers(s, r)
  PROVE  /\ a.server \in ServerRows /\ IsFiniteSet(a.server.filed) /\ a.server.gone = s.gone
         /\ HeadIn(a, r) \in Nat
<1>1. a.server \in ServerRows /\ IsFiniteSet(a.server.filed) /\ a.server.gone = s.gone
  <2>1. CASE r.op = "create"
    BY <2>1, CreatedTyped DEF Answers
  <2>2. CASE r.op = "change"
    BY <2>2, ChangedTyped DEF Answers
  <2>3. CASE r.op = "generate"
    BY <2>3, GeneratedTyped DEF Answers
  <2>4. CASE r.op = "get"
    BY <2>4 DEF Answers, Answer
  <2> QED
    BY <2>1, <2>2, <2>3, <2>4 DEF Requests
<1>2. a.server.head \in Nat /\ r.base \in Nat
  BY <1>1 DEF ServerRows, Requests
<1> QED
  BY <1>1, <1>2 DEF HeadIn
-------------------------------------------------------------------------------
(* Every action keeps the state space.                                      *)

Fits == TypeOK /\ KeysAreFew

LEMMA FewStay ==
  ASSUME Fits, server' = server, late' = late
  PROVE  KeysAreFew'
  BY DEF Fits, KeysAreFew

LEMMA EditTyped ==
  ASSUME Fits, NEW e \in Edits, Edit(e)
  PROVE  Fits'
<1> DEFINE frame == [doc |-> disk.doc, outbox |-> disk.outbox, edit |-> e, past |-> FALSE]
           out == Outbox(Do(e))
           doc == disk.doc \cup {e}
           undo == <<frame>> \o ui.undo
<1>1. /\ ui' = [ui EXCEPT !.pc = "enqueue", !.out = out, !.rotate = TRUE,
                          !.doc = doc, !.undo = undo]
      /\ UNCHANGED <<server, late, disk, queue, io, results>>
  BY DEF Edit
<1>2. disk \in Disks /\ ui \in Screens
  BY Types DEF Fits
<1>3. Do(e) \in Ops
  BY DEF Do, Ops
<1>4. out \in Seq(Ops) /\ doc \in Docs
  BY <1>2, <1>3 DEF Outbox, Disks, Docs, All
<1>5. undo \in Seq(Frames)
  <2>1. frame \in Frames
    BY <1>2 DEF Disks, Frames
  <2>2. ui.undo \in Seq(Frames)
    BY <1>2 DEF Screens, Frames
  <2> HIDE DEF frame
  <2> QED
    BY <2>1, <2>2
<1> HIDE DEF out, doc, undo
<1>6. ui' \in Screens
  BY <1>1, <1>2, <1>4, <1>5 DEF Screens, Frames
<1>7. made' \in [all : SUBSET Edits, calm : SUBSET Edits, undone : SUBSET Edits]
  BY Types DEF Fits, Edit
<1>8. seen' \subseteq Mishaps \cup {"rejected"}
  BY NoteTyped DEF Fits, Edit, Overlap, Outgrown, Refusable, Mishaps
<1> QED
  BY <1>1, <1>6, <1>7, <1>8, Types, Typed, FewStay DEF Fits

LEMMA UndoTyped ==
  ASSUME Fits, Undo
  PROVE  Fits'
<1> DEFINE frame == Head(ui.undo)
           out == IF StillQueued(frame.edit) THEN frame.outbox
                  ELSE Outbox(Revert(frame.edit))
           rotate == ~StillQueued(frame.edit)
           undo == Tail(ui.undo)
<1>1. /\ ui' = [ui EXCEPT !.pc = "enqueue", !.doc = frame.doc, !.undo = undo,
                          !.rotate = rotate, !.out = out]
      /\ disk' = [disk EXCEPT !.doc = frame.doc]
      /\ made' = [made EXCEPT !.undone = @ \cup {frame.edit}]
      /\ Note(Overlap \cup Outgrown(ui'.out) \cup IF frame.past THEN {"past"} ELSE {})
      /\ UNCHANGED <<server, late, queue, io, results>>
      /\ ui.undo # <<>>
  BY DEF Undo
<1>2. disk \in Disks /\ ui \in Screens
  BY Types DEF Fits
<1>3. frame \in Frames /\ undo \in Seq(Frames)
  <2>1. ui.undo \in Seq(Frames)
    BY <1>2 DEF Screens, Frames
  <2> QED
    BY <1>1, <2>1
<1>4. out \in Seq(Ops)
  <2>1. Revert(frame.edit) \in Ops
    BY <1>3 DEF Revert, Ops, Frames
  <2>2. Outbox(Revert(frame.edit)) \in Seq(Ops) /\ frame.outbox \in Seq(Ops)
    BY <1>2, <1>3, <2>1 DEF Outbox, Disks, Frames
  <2> QED
    BY <2>2
<1>5. rotate \in BOOLEAN
  OBVIOUS
<1>6. frame.doc \in Docs /\ frame.edit \in Edits
  BY <1>3 DEF Frames
<1> HIDE DEF frame, out, rotate, undo
<1>7. ui' \in Screens
  BY <1>1, <1>2, <1>3, <1>4, <1>5, <1>6 DEF Screens, Frames
<1>8. disk' \in Disks
  BY <1>1, <1>2, <1>6 DEF Disks
<1>9. made' \in [all : SUBSET Edits, calm : SUBSET Edits, undone : SUBSET Edits]
  BY <1>1, <1>6, Types DEF Fits
<1>10. seen' \subseteq Mishaps \cup {"rejected"}
  BY <1>1, NoteTyped DEF Fits, Overlap, Outgrown, Mishaps
<1> QED
  BY <1>1, <1>7, <1>8, <1>9, <1>10, Types, Typed, FewStay DEF Fits

LEMMA EnqueueTyped ==
  ASSUME Fits, Enqueue
  PROVE  Fits'
<1> DEFINE key == IF ui.rotate THEN NewKey ELSE disk.key
<1>1. /\ disk' = [disk EXCEPT !.outbox = ui.out, !.key = key]
      /\ ui' = [ui EXCEPT !.pc = "save", !.out = <<>>, !.rotate = FALSE]
      /\ UNCHANGED <<server, late, queue, io, results, made, seen>>
  BY DEF Enqueue
<1>2. disk \in Disks /\ ui \in Screens
  BY Types DEF Fits
<1>3. key \in Nat /\ ui.out \in Seq(Ops)
  BY <1>2, NewKeyIs DEF Fits, Disks, Screens
<1> HIDE DEF key
<1>4. disk' \in Disks
  BY <1>1, <1>2, <1>3 DEF Disks
<1>5. ui' \in Screens
  <2>1. <<>> \in Seq(Ops)
    OBVIOUS
  <2> QED
    BY <1>1, <1>2, <2>1 DEF Screens
<1> QED
  BY <1>1, <1>4, <1>5, Types, Typed, FewStay DEF Fits

LEMMA QueuedTyped ==
  ASSUME TypeOK, NEW task \in Tasks, Queued(task)
  PROVE  /\ queue' \in Seq(Orders)
         /\ queue' = Append(queue, [task |-> task, head |-> ui.head,
                                    conflict |-> ui.conflict])
<1> DEFINE order == [task |-> task, head |-> ui.head, conflict |-> ui.conflict]
<1>1. order \in Orders
  BY Types DEF Orders, Screens
<1>2. queue' = Append(queue, order)
  BY DEF Queued
<1> HIDE DEF order
<1>3. queue' \in Seq(Orders)
  BY <1>1, <1>2, Types
<1> QED
  BY <1>2, <1>3 DEF order

LEMMA SaveTyped ==
  ASSUME Fits, Save
  PROVE  Fits'
<1>1. /\ disk' = [disk EXCEPT !.doc = ui.doc]
      /\ ui' = [ui EXCEPT !.pc = "idle", !.doc = {}, !.syncing = TRUE]
      /\ Queued("sync")
      /\ UNCHANGED <<server, late, io, results, made, seen>>
  BY DEF Save
<1>2. disk \in Disks /\ ui \in Screens /\ {} \in Docs
  BY Types DEF Fits, Docs
<1>3. disk' \in Disks /\ ui' \in Screens
  BY <1>1, <1>2 DEF Disks, Screens
<1>4. queue' \in Seq(Orders)
  BY <1>1, QueuedTyped DEF Fits, Tasks
<1> QED
  BY <1>1, <1>3, <1>4, Types, Typed, FewStay DEF Fits

LEMMA PressTyped ==
  ASSUME Fits, \/ \E task \in Tasks : Press(task)
               \/ RequestGeneration
  PROVE  Fits'
<1>1. PICK task \in Tasks :
        /\ \/ ui' = [ui EXCEPT !.syncing = TRUE]
           \/ ui' = [ui EXCEPT !.generating = TRUE]
        /\ Queued(task)
        /\ Note(Overlap)
        /\ UNCHANGED <<server, late, disk, io, results, made>>
  BY DEF Press, RequestGeneration, Tasks
<1>2. ui' \in Screens
  BY <1>1, Types DEF Fits, Screens
<1>3. queue' \in Seq(Orders)
  BY <1>1, QueuedTyped DEF Fits
<1>4. seen' \subseteq Mishaps \cup {"rejected"}
  BY <1>1, NoteTyped DEF Fits, Overlap, Mishaps
<1> QED
  BY <1>1, <1>2, <1>3, <1>4, Types, Typed, FewStay DEF Fits

LEMMA OutcomeTyped ==
  ASSUME Fits, ApplyOutcome
  PROVE  Fits'
<1> DEFINE r == Head(results)
           syncing == IF r.task = "generate" THEN ui.syncing ELSE FALSE
           generating == IF r.task = "generate" THEN FALSE ELSE ui.generating
           head == IF r.told THEN r.head ELSE ui.head
           conflict == IF r.told THEN r.conflict ELSE ui.conflict
<1>1. /\ ui' = [ui EXCEPT !.syncing = syncing, !.generating = generating,
                          !.head = head, !.conflict = conflict]
      /\ results' = Tail(results) /\ results # <<>>
      /\ UNCHANGED <<server, late, disk, queue, io, made, seen>>
  BY DEF ApplyOutcome
<1>2. r \in Reports /\ results' \in Seq(Reports)
  BY <1>1, Types DEF Fits
<1>3. ui \in Screens
  BY Types DEF Fits
<1> HIDE DEF r
<1>4. syncing \in BOOLEAN /\ generating \in BOOLEAN /\ head \in Nat /\ conflict \in BOOLEAN
  BY <1>2, <1>3 DEF Reports, Screens
<1> HIDE DEF syncing, generating, head, conflict
<1>5. ui' \in Screens
  BY <1>1, <1>3, <1>4 DEF Screens
<1> QED
  BY <1>1, <1>2, <1>5, Types, Typed, FewStay DEF Fits

LEMMA SignInTyped ==
  ASSUME Fits, SignIn
  PROVE  Fits'
<1>1. ui' \in Screens
  <2>1. <<>> \in Seq(Frames)
    OBVIOUS
  <2> QED
    BY <2>1, Types DEF Fits, SignIn, Screens, Frames
<1> QED
  BY <1>1, Types, Typed, FewStay DEF Fits, SignIn

LEMMA SignOutTyped ==
  ASSUME Fits, SignOut
  PROVE  Fits'
<1>1. ui' \in Screens
  <2>1. <<>> \in Seq(Frames)
    OBVIOUS
  <2> QED
    BY <2>1, Types DEF Fits, SignOut, Screens, Frames
<1>2. seen' \subseteq Mishaps \cup {"rejected"}
  BY NoteTyped DEF Fits, SignOut, Mishaps
<1> QED
  BY <1>1, <1>2, Types, Typed, FewStay DEF Fits, SignOut

LEMMA BeginTyped ==
  ASSUME Fits, Begin
  PROVE  Fits'
<1> DEFINE q == Head(queue)
           pc == CASE q.task = "take" -> "take" [] q.task = "retry" -> "rebase"
                   [] OTHER -> "sync"
           run == [Resting EXCEPT !.task = q.task, !.head = q.head,
                                  !.conflict = q.conflict, !.pc = pc]
           report == [task |-> q.task, told |-> FALSE, head |-> 0, conflict |-> FALSE]
<1>1. /\ IF ui.cloud THEN Set("io", run) /\ UNCHANGED results
         ELSE results' = Append(results, report) /\ UNCHANGED io
      /\ queue' = Tail(queue) /\ queue # <<>>
      /\ UNCHANGED <<server, late, disk, ui, made, seen>>
  BY DEF Begin
<1>2. q \in Orders /\ queue' \in Seq(Orders)
  BY <1>1, Types DEF Fits
<1> HIDE DEF q
<1>3. pc \in {"take", "rebase", "sync"}
  OBVIOUS
<1> HIDE DEF pc
<1>4. run \in Runs
  <2>1. Resting \in Runs
    BY RestingTyped
  <2>2. q.task \in Tasks /\ q.head \in Nat /\ q.conflict \in BOOLEAN
    BY <1>2 DEF Orders
  <2> HIDE DEF Resting
  <2> QED
    BY <1>3, <2>1, <2>2 DEF Runs, Waiting
<1>5. report \in Reports
  BY <1>2 DEF Orders, Reports
<1> HIDE DEF run, report
<1>6. io' \in [Threads -> Runs]
  BY <1>1, <1>4, SetTyped, Types DEF Fits, Threads
<1>7. results' \in Seq(Reports)
  <2>1. results \in Seq(Reports)
    BY Types DEF Fits
  <2>2. Append(results, report) \in Seq(Reports)
    BY <1>5, <2>1
  <2> QED
    BY <1>1, <2>1, <2>2
<1> QED
  BY <1>1, <1>2, <1>6, <1>7, Types, Typed, FewStay DEF Fits

\* A step of the executor on the files of the device.
LEMMA FileTyped ==
  ASSUME Fits, NEW t \in Threads,
         disk' \in Disks, io' \in [Threads -> Runs], results' \in Seq(Reports),
         UNCHANGED <<server, late, ui, queue, made, seen>>
  PROVE  Fits'
  BY Types, Typed, FewStay DEF Fits

LEMMA SyncTyped ==
  ASSUME Fits, NEW t \in Threads, Sync(t)
  PROVE  Fits'
<1>1. UNCHANGED <<server, late, disk, ui, queue, made, seen>>
  BY DEF Sync
<1>2. io[t] \in Runs /\ disk \in Disks
  BY Types DEF Fits
<1>3. CASE Failed(t)
  BY <1>1, <1>2, <1>3, FailedTyped, FileTyped DEF Fits
<1>4. CASE ~Failed(t)
  <2> DEFINE run == IF io[t].head = 0
                    THEN [io[t] EXCEPT !.doc = disk.doc, !.pc = "post"]
                    ELSE [io[t] EXCEPT !.pc = "flush"]
  <2>1. Set(t, run) /\ UNCHANGED results
    BY <1>4 DEF Sync
  <2>2. run \in Runs
    BY <1>2 DEF Runs, Disks
  <2> HIDE DEF run
  <2> QED
    BY <1>1, <1>2, <2>1, <2>2, SetTyped, FileTyped, Types DEF Fits
<1> QED
  BY <1>3, <1>4

LEMMA PostTyped ==
  ASSUME Fits, NEW t \in Threads, Post(t)
  PROVE  Fits'
<1> DEFINE run == [io[t] EXCEPT !.ops = disk.outbox, !.pc = "create"]
<1>1. Set(t, run) /\ UNCHANGED <<server, late, disk, ui, queue, results, made, seen>>
  BY DEF Post
<1>2. io[t] \in Runs /\ disk \in Disks
  BY Types DEF Fits
<1>3. run \in Runs
  BY <1>2 DEF Runs, Disks, Waiting
<1> HIDE DEF run
<1> QED
  BY <1>1, <1>2, <1>3, SetTyped, FileTyped, Types DEF Fits

LEMMA PersistedTyped ==
  ASSUME TypeOK, NEW head \in Nat, NEW conflict \in BOOLEAN
  PROVE  /\ Persisted(head, conflict) \in Disks
         /\ Persisted(head, conflict).doc = disk.doc
         /\ Persisted(head, conflict).outbox = disk.outbox
         /\ Persisted(head, conflict).key = disk.key
         /\ Persisted(head, conflict).head = head
         /\ Persisted(head, conflict).conflict = conflict
  BY Types DEF Persisted, Disks

LEMMA FlushTyped ==
  ASSUME Fits, NEW t \in Threads, Flush(t)
  PROVE  Fits'
<1>1. UNCHANGED <<server, late, ui, queue, results, made, seen>>
  BY DEF Flush
<1>2. io[t] \in Runs /\ disk \in Disks
  BY Types DEF Fits
<1>3. CASE disk.outbox = <<>>
  <2> DEFINE run == [io[t] EXCEPT !.conflict = FALSE, !.pc = "synced"]
  <2>1. disk' = Persisted(io[t].head, FALSE) /\ Set(t, run)
    BY <1>3 DEF Flush
  <2>2. run \in Runs /\ io[t].head \in Nat
    BY <1>2 DEF Runs
  <2> HIDE DEF run
  <2>3. disk' \in Disks
    BY <2>1, <2>2, PersistedTyped DEF Fits
  <2> QED
    BY <1>1, <2>1, <2>2, <2>3, SetTyped, FileTyped, Types DEF Fits
<1>4. CASE disk.outbox # <<>>
  <2> DEFINE run == [io[t] EXCEPT !.ops = disk.outbox, !.pc = "key"]
  <2>1. disk' = disk /\ Set(t, run)
    BY <1>4 DEF Flush
  <2>2. run \in Runs
    BY <1>2 DEF Runs, Disks
  <2> HIDE DEF run
  <2> QED
    BY <1>1, <1>2, <2>1, <2>2, SetTyped, FileTyped, Types DEF Fits
<1> QED
  BY <1>3, <1>4

LEMMA TakeKeyTyped ==
  ASSUME Fits, NEW t \in Threads, TakeKey(t)
  PROVE  Fits'
<1> DEFINE run == [io[t] EXCEPT !.key = disk.key, !.pc = "change"]
<1>1. Set(t, run) /\ UNCHANGED <<server, late, disk, ui, queue, results, made, seen>>
  BY DEF TakeKey
<1>2. io[t] \in Runs /\ disk \in Disks
  BY Types DEF Fits
<1>3. run \in Runs
  BY <1>2 DEF Runs, Disks, Waiting
<1> HIDE DEF run
<1> QED
  BY <1>1, <1>2, <1>3, SetTyped, FileTyped, Types DEF Fits

LEMMA DropTyped ==
  ASSUME Fits, NEW t \in Threads, Drop(t)
  PROVE  Fits'
<1> DEFINE pc == IF io[t].pc = "dropPosted" THEN "flush" ELSE "again"
           run == [io[t] EXCEPT !.ops = <<>>, !.left = <<>>, !.key = 0,
                                !.conflict = FALSE, !.pc = pc]
           saved == Persisted(io[t].head, FALSE)
<1>1. /\ Set(t, run) /\ disk' = [saved EXCEPT !.outbox = io[t].left]
      /\ UNCHANGED <<server, late, ui, queue, results, made, seen>>
  BY DEF Drop
<1>2. io[t] \in Runs
  BY Types DEF Fits
<1>3. io[t].head \in Nat /\ io[t].left \in Seq(Ops)
  BY <1>2 DEF Runs
<1>4. run \in Runs
  <2>1. <<>> \in Seq(Ops) /\ pc \in {"flush", "again"}
    OBVIOUS
  <2> HIDE DEF pc
  <2> QED
    BY <1>2, <2>1 DEF Runs
<1>5. saved \in Disks
  BY <1>3, PersistedTyped DEF Fits
<1> HIDE DEF run, saved
<1>6. disk' \in Disks
  BY <1>1, <1>3, <1>5 DEF Disks
<1> QED
  BY <1>1, <1>4, <1>6, SetTyped, FileTyped, Types DEF Fits

LEMMA AgainTyped ==
  ASSUME Fits, NEW t \in Threads, Again(t)
  PROVE  Fits'
<1> DEFINE key == IF disk.outbox = <<>> THEN disk.key ELSE NewKey
           pc == IF disk.outbox = <<>> THEN "synced" ELSE "flush"
           run == [io[t] EXCEPT !.pc = pc]
<1>1. /\ Set(t, run) /\ disk' = [disk EXCEPT !.key = key]
      /\ UNCHANGED <<server, late, ui, queue, results, made, seen>>
  BY DEF Again
<1>2. io[t] \in Runs /\ disk \in Disks
  BY Types DEF Fits
<1>3. key \in Nat
  BY <1>2, NewKeyIs DEF Fits, Disks
<1>4. run \in Runs
  BY <1>2 DEF Runs
<1> HIDE DEF key, run
<1>5. disk' \in Disks
  BY <1>1, <1>2, <1>3 DEF Disks
<1> QED
  BY <1>1, <1>4, <1>5, SetTyped, FileTyped, Types DEF Fits

LEMMA SyncedTyped ==
  ASSUME Fits, NEW t \in Threads, Synced(t)
  PROVE  Fits'
<1>1. UNCHANGED <<server, late, disk, ui, queue, made, seen>>
  BY DEF Synced
<1>2. io[t] \in Runs /\ disk \in Disks
  BY Types DEF Fits
<1>3. io[t].head \in Nat
  BY <1>2 DEF Runs
<1>4. CASE io[t].task # "generate"
  BY <1>1, <1>2, <1>3, <1>4, EndTyped, FileTyped DEF Fits, Synced
<1>5. CASE io[t].task = "generate" /\ disk.outbox # <<>>
  BY <1>1, <1>2, <1>5, FailedTyped, FileTyped DEF Fits, Synced
<1>6. CASE io[t].task = "generate" /\ disk.outbox = <<>>
  <2> DEFINE run == [io[t] EXCEPT !.pc = "generate"]
  <2>1. Set(t, run) /\ UNCHANGED results
    BY <1>6 DEF Synced
  <2>2. run \in Runs
    BY <1>2 DEF Runs, Waiting
  <2> HIDE DEF run
  <2> QED
    BY <1>1, <1>2, <2>1, <2>2, SetTyped, FileTyped, Types DEF Fits
<1> QED
  BY <1>4, <1>5, <1>6

LEMMA ClearTyped ==
  ASSUME Fits, NEW t \in Threads, Clear(t)
  PROVE  Fits'
<1> DEFINE saved == Persisted(io[t].head, FALSE)
<1>1. /\ disk' = [saved EXCEPT !.outbox = <<>>]
      /\ End(t, TRUE, io[t].head, FALSE)
      /\ UNCHANGED <<server, late, ui, queue, made, seen>>
  BY DEF Clear
<1>2. io[t].head \in Nat
  BY Types DEF Fits, Runs
<1>3. saved \in Disks
  BY <1>2, PersistedTyped DEF Fits
<1>4. disk' \in Disks
  <2>1. <<>> \in Seq(Ops)
    OBVIOUS
  <2> HIDE DEF saved
  <2> QED
    BY <1>1, <1>3, <2>1 DEF Disks
<1> QED
  BY <1>1, <1>2, <1>4, EndTyped, FileTyped DEF Fits
-------------------------------------------------------------------------------
(* Requests and the world.                                                  *)

LEMMA UnsentTyped ==
  ASSUME TypeOK, NEW t \in Threads
  PROVE  /\ Unsent(t) \in Seq(Ops)
         /\ io[t].ops = disk.outbox => Unsent(t) = <<>>
<1>1. disk.outbox \in Seq(Ops)
  BY Types DEF Disks
<1> QED
  BY <1>1, RemainingIs DEF Unsent

\* A thread goes on at another place, with another head.
GoesOn(t, pc, head) == [Pc(t, pc) EXCEPT !.head = head, !.conflict = FALSE]
Drops(t, pc, head) == [GoesOn(t, pc, head) EXCEPT !.left = Unsent(t)]

LEMMA GoesOnIs ==
  ASSUME TypeOK, NEW t \in Threads, NEW head \in Nat,
         NEW pc, pc \in {"dropPosted", "flush", "dropSent", "sync", "clear", "remember"}
  PROVE  LET run == GoesOn(t, pc, head) IN
         /\ run \in Runs /\ run.pc = pc /\ run.head = head /\ run.conflict = FALSE
         /\ run.task = io[t].task /\ run.left = io[t].left
<1> DEFINE r == Pc(t, pc)
<1>1. r \in Runs /\ r.pc = pc /\ r.task = io[t].task /\ r.left = io[t].left
  BY PcTyped
<1>2. GoesOn(t, pc, head) = [r EXCEPT !.head = head, !.conflict = FALSE]
  BY DEF GoesOn
<1> HIDE DEF r
<1> QED
  BY <1>1, <1>2 DEF Runs

LEMMA StoresIs ==
  ASSUME TypeOK, NEW t \in Threads, NEW head \in Nat, NEW pc,
         pc \in {"flush", "clear", "sync"}
  PROVE  LET run == GoesOn(t, pc, head) IN
         /\ run \in Runs /\ run.pc = pc /\ run.head = head /\ run.conflict = FALSE
         /\ run.task = io[t].task
<1> DEFINE r == Pc(t, pc)
<1>1. r \in Runs /\ r.pc = pc /\ r.task = io[t].task
  BY PcTyped
<1>2. GoesOn(t, pc, head) = [r EXCEPT !.head = head, !.conflict = FALSE]
  BY DEF GoesOn
<1> HIDE DEF r
<1> QED
  BY <1>1, <1>2 DEF Runs

LEMMA DropsIs ==
  ASSUME TypeOK, NEW t \in Threads, NEW head \in Nat,
         NEW pc, pc \in {"dropPosted", "dropSent"}
  PROVE  LET run == Drops(t, pc, head) IN
         /\ run \in Runs /\ run.pc = pc /\ run.head = head /\ run.conflict = FALSE
         /\ run.task = io[t].task /\ run.left = Unsent(t)
<1> DEFINE r == Pc(t, pc)
<1>1. r \in Runs /\ r.pc = pc /\ r.task = io[t].task /\ r.left = io[t].left
  BY PcTyped
<1>2. Drops(t, pc, head) = [[r EXCEPT !.head = head, !.conflict = FALSE]
                               EXCEPT !.left = Unsent(t)]
  BY DEF Drops, GoesOn
<1>3. Unsent(t) \in Seq(Ops)
  BY UnsentTyped
<1> HIDE DEF r
<1> QED
  BY <1>1, <1>2, <1>3 DEF Runs

LEMMA GrantedTyped ==
  ASSUME Fits, NEW t \in Threads, io[t].pc \in Waiting, NEW a, NEW r,
         a.server \in ServerRows, HeadIn(a, r) \in Nat, OnGranted(t, a, r)
  PROVE  io' \in [Threads -> Runs] /\ disk' \in Disks /\ results' \in Seq(Reports)
<1> DEFINE head == HeadIn(a, r)
<1>1. io[t] \in Runs /\ disk \in Disks /\ results \in Seq(Reports)
  BY Types DEF Fits
<1>2. CASE io[t].pc = "create" /\ io[t].ops # <<>>
  <2> DEFINE run == Drops(t, "dropPosted", head)
  <2>1. Set(t, run) /\ UNCHANGED <<disk, results>>
    BY <1>2 DEF OnGranted, GoesOn, Drops
  <2>2. run \in Runs
    BY DropsIs DEF Fits
  <2> HIDE DEF run
  <2> QED
    BY <1>1, <2>1, <2>2, SetTyped DEF Fits
<1>3. CASE io[t].pc = "find" \/ (io[t].pc = "create" /\ io[t].ops = <<>>)
  <2> DEFINE run == GoesOn(t, "flush", head)
  <2>1. /\ Set(t, run) /\ UNCHANGED results
        /\ disk' = [disk EXCEPT !.head = head, !.conflict = FALSE]
    BY <1>3 DEF OnGranted, GoesOn, Found
  <2>2. run \in Runs
    BY GoesOnIs DEF Fits
  <2> HIDE DEF run
  <2>3. disk' \in Disks
    BY <1>1, <2>1 DEF Disks
  <2> QED
    BY <1>1, <2>1, <2>2, <2>3, SetTyped DEF Fits
<1>4. CASE io[t].pc = "change"
  <2> DEFINE run == Drops(t, "dropSent", head)
  <2>1. Set(t, run) /\ UNCHANGED <<disk, results>>
    BY <1>4 DEF OnGranted, GoesOn, Drops
  <2>2. run \in Runs
    BY DropsIs DEF Fits
  <2> HIDE DEF run
  <2> QED
    BY <1>1, <2>1, <2>2, SetTyped DEF Fits
<1>5. CASE io[t].pc = "rebase"
  <2> DEFINE run == GoesOn(t, "sync", head)
             saved == Persisted(head, FALSE)
  <2>1. /\ Set(t, run) /\ UNCHANGED results
        /\ disk' = [saved EXCEPT !.key = NewKey]
    BY <1>5 DEF OnGranted, GoesOn, Drops
  <2>2. run \in Runs
    BY GoesOnIs DEF Fits
  <2>3. saved \in Disks /\ NewKey \in Nat
    BY PersistedTyped, NewKeyIs DEF Fits
  <2> HIDE DEF run, saved
  <2>4. disk' \in Disks
    BY <2>1, <2>3 DEF Disks
  <2> QED
    BY <1>1, <2>1, <2>2, <2>4, SetTyped DEF Fits
<1>6. CASE io[t].pc \in {"take", "generate"}
  <2> DEFINE run == GoesOn(t, "clear", head)
             doc == Document(a.server)
  <2>1. /\ Set(t, run) /\ UNCHANGED results
        /\ disk' = [disk EXCEPT !.doc = doc]
    BY <1>6 DEF OnGranted, GoesOn, Drops
  <2>2. run \in Runs
    BY GoesOnIs DEF Fits
  <2>3. doc \in Docs
    BY DEF Document, ServerRows, Docs
  <2> HIDE DEF run, doc
  <2>4. disk' \in Disks
    BY <1>1, <2>1, <2>3 DEF Disks
  <2> QED
    BY <1>1, <2>1, <2>2, <2>4, SetTyped DEF Fits
<1>7. CASE io[t].pc = "remember"
  <2>1. disk' = Persisted(io[t].head, TRUE) /\ End(t, TRUE, io[t].head, TRUE)
    BY <1>7 DEF OnGranted, GoesOn, Drops
  <2>2. io[t].head \in Nat
    BY <1>1 DEF Runs
  <2> QED
    BY <2>1, <2>2, EndTyped, PersistedTyped DEF Fits
<1> QED
  BY <1>2, <1>3, <1>4, <1>5, <1>6, <1>7 DEF Waiting

LEMMA RefusedTyped ==
  ASSUME Fits, NEW t \in Threads, io[t].pc \in Waiting, NEW status, OnRefused(t, status)
  PROVE  io' \in [Threads -> Runs] /\ disk' \in Disks /\ results' \in Seq(Reports)
<1>1. io[t] \in Runs /\ disk \in Disks /\ results \in Seq(Reports)
  BY Types DEF Fits
<1>2. CASE io[t].pc = "create"
  <2> DEFINE run == [io[t] EXCEPT !.pc = "find"]
  <2>1. Set(t, run) /\ UNCHANGED <<disk, results>>
    BY <1>2 DEF OnRefused
  <2>2. run \in Runs
    BY <1>1 DEF Runs, Waiting
  <2> HIDE DEF run
  <2> QED
    BY <1>1, <2>1, <2>2, SetTyped DEF Fits
<1>3. CASE io[t].pc \in {"change", "generate"} /\ status = "conflict"
  <2> DEFINE run == Pc(t, "remember")
  <2>1. Set(t, run) /\ UNCHANGED <<disk, results>>
    BY <1>3 DEF OnRefused
  <2>2. run \in Runs
    BY PcTyped DEF Fits
  <2> HIDE DEF run
  <2> QED
    BY <1>1, <2>1, <2>2, SetTyped DEF Fits
<1>4. CASE io[t].pc = "remember"
  <2>1. disk' = Persisted(io[t].head, TRUE) /\ End(t, TRUE, io[t].head, TRUE)
    BY <1>4 DEF OnRefused
  <2>2. io[t].head \in Nat
    BY <1>1 DEF Runs
  <2> QED
    BY <2>1, <2>2, EndTyped, PersistedTyped DEF Fits
<1>5. CASE /\ io[t].pc \notin {"create", "remember"}
           /\ ~(io[t].pc \in {"change", "generate"} /\ status = "conflict")
  <2>1. Failed(t) /\ UNCHANGED disk
    BY <1>5 DEF OnRefused
  <2> QED
    BY <1>1, <2>1, FailedTyped DEF Fits
<1> QED
  BY <1>2, <1>3, <1>4, <1>5

LEMMA AgedTyped ==
  ASSUME TypeOK, NEW t \in Threads, Aged(t)
  PROVE  /\ ui' \in Screens
         /\ \E frames \in Seq(Frames) : ui' = [ui EXCEPT !.undo = frames]
<1>1. ui \in Screens
  BY Types
<1>2. ui.undo \in Seq(Frames)
  BY <1>1 DEF Screens, Frames
<1> DEFINE past == [i \in DOMAIN ui.undo |-> [ui.undo[i] EXCEPT !.past = TRUE]]
           frames == IF io'[t].pc # "clear" THEN ui.undo ELSE past
<1>3. ui' = [ui EXCEPT !.undo = frames]
  BY DEF Aged
<1>4. past \in Seq(Frames)
  <2>1. \A f \in Frames : [f EXCEPT !.past = TRUE] \in Frames
    BY DEF Frames
  <2>2. DOMAIN ui.undo = 1 .. Len(ui.undo) /\ Len(ui.undo) \in Nat
    BY <1>2
  <2>3. \A i \in 1 .. Len(ui.undo) : ui.undo[i] \in Frames
    BY <1>2
  <2>4. past \in [1 .. Len(ui.undo) -> Frames]
    <3> HIDE DEF Frames
    <3> QED
      BY <2>1, <2>2, <2>3
  <2> HIDE DEF past, Frames
  <2> QED
    BY <2>2, <2>4
<1> HIDE DEF past
<1>5. frames \in Seq(Frames)
  BY <1>2, <1>4
<1> HIDE DEF frames
<1> QED
  BY <1>1, <1>3, <1>5 DEF Screens, Frames

LEMMA AnsweredTyped ==
  ASSUME Fits, NEW t \in Threads, Answered(t)
  PROVE  Fits'
<1>1. PICK a \in Answers(server, RequestOf(t)) :
        /\ server' = a.server
        /\ IF Granted(a) THEN OnGranted(t, a, RequestOf(t)) ELSE OnRefused(t, a.status)
        /\ seen' = seen \cup IF io[t].pc = "change" /\ a.status = "refused"
                             THEN {"rejected"} ELSE {}
  BY DEF Answered
<1>2. io[t].pc \in Waiting /\ Aged(t) /\ UNCHANGED <<late, queue, made>>
  BY DEF Answered
<1>3. a.server \in ServerRows /\ IsFiniteSet(a.server.filed) /\ HeadIn(a, RequestOf(t)) \in Nat
  BY Types, RequestTyped, AnswersTyped DEF Fits, KeysAreFew
<1>4. io' \in [Threads -> Runs] /\ disk' \in Disks /\ results' \in Seq(Reports)
  BY <1>1, <1>2, <1>3, GrantedTyped, RefusedTyped
<1>5. ui' \in Screens
  BY <1>2, AgedTyped DEF Fits
<1>6. KeysAreFew'
  BY <1>1, <1>2, <1>3 DEF Fits, KeysAreFew
<1>7. TypeOK'
  <2>1. seen' \subseteq Mishaps \cup {"rejected"}
    BY <1>1, Types DEF Fits
  <2> QED
    BY <1>1, <1>2, <1>3, <1>4, <1>5, <2>1, Types, Typed DEF Fits
<1> QED
  BY <1>6, <1>7 DEF Fits

LEMMA UnansweredTyped ==
  ASSUME Fits, NEW t \in Threads, Unanswered(t)
  PROVE  Fits'
<1>1. /\ io[t].pc \in Waiting /\ OnRefused(t, "none") /\ Note({"lost"})
      /\ late' = late \cup IF RequestOf(t).op = "get" THEN {} ELSE {RequestOf(t)}
      /\ UNCHANGED <<server, ui, queue, made>>
  BY DEF Unanswered
<1>2. io' \in [Threads -> Runs] /\ disk' \in Disks /\ results' \in Seq(Reports)
  BY <1>1, RefusedTyped
<1>3. late' \subseteq Requests /\ \A r \in late' : r.op # "get"
  <2>1. RequestOf(t) \in Requests
    BY RequestTyped DEF Fits
  <2>2. late \subseteq Requests /\ \A r \in late : r.op # "get"
    BY Types DEF Fits
  <2> QED
    BY <1>1, <2>1, <2>2
<1>4. IsFiniteSet(late')
  <2>1. IsFiniteSet(late) /\ IsFiniteSet(late \cup {RequestOf(t)})
    BY FS_AddElement DEF Fits, KeysAreFew
  <2> QED
    BY <1>1, <2>1
<1>5. seen' \subseteq Mishaps \cup {"rejected"}
  BY <1>1, NoteTyped DEF Fits, Mishaps
<1>6. TypeOK'
  BY <1>1, <1>2, <1>3, <1>5, Types, Typed DEF Fits
<1> QED
  BY <1>1, <1>4, <1>6 DEF Fits, KeysAreFew

LEMMA ArrivesTyped ==
  ASSUME Fits, NEW r \in late, Arrives(r)
  PROVE  Fits'
<1>1. PICK a \in Answers(server, r) : server' = a.server
  BY DEF Arrives
<1>2. late' = late \ {r} /\ UNCHANGED <<disk, ui, queue, io, results, made, seen>>
  BY DEF Arrives
<1>3. a.server \in ServerRows /\ IsFiniteSet(a.server.filed)
  BY Types, AnswersTyped DEF Fits, KeysAreFew
<1>4. IsFiniteSet(late')
  BY <1>2, FS_RemoveElement DEF Fits, KeysAreFew
<1>5. late' \subseteq Requests /\ \A q \in late' : q.op # "get"
  BY <1>2, Types DEF Fits
<1>6. TypeOK'
  BY <1>1, <1>2, <1>3, <1>5, Types, Typed DEF Fits
<1> QED
  BY <1>1, <1>3, <1>4, <1>6 DEF Fits, KeysAreFew

LEMMA OtherDeviceTyped ==
  ASSUME Fits, NEW o \in Others, OtherDevice(o)
  PROVE  Fits'
<1> DEFINE doc == server.doc \cup {o}
<1>1. /\ server' = [server EXCEPT !.head = server.head + 1, !.doc = doc]
      /\ Note({"foreign"})
      /\ UNCHANGED <<late, disk, ui, queue, io, results, made>>
  BY DEF OtherDevice
<1>2. server \in ServerRows
  BY Types DEF Fits
<1>3. doc \in Docs /\ server.head + 1 \in Nat
  BY <1>2 DEF ServerRows, Docs, All
<1> HIDE DEF doc
<1>4. server' \in ServerRows /\ server'.filed = server.filed
  BY <1>1, <1>2, <1>3 DEF ServerRows
<1>5. seen' \subseteq Mishaps \cup {"rejected"}
  BY <1>1, NoteTyped DEF Fits, Mishaps
<1>6. TypeOK'
  BY <1>1, <1>4, <1>5, Types, Typed DEF Fits
<1> QED
  BY <1>1, <1>4, <1>6 DEF Fits, KeysAreFew

LEMMA RemovalTyped ==
  ASSUME Fits, NEW edits \in Docs, Removal(edits)
  PROVE  Fits'
<1> DEFINE gone == server.gone \cup edits
<1>1. /\ server' = [server EXCEPT !.head = server.head + 1, !.gone = gone]
      /\ Note({"foreign", "removed"})
      /\ UNCHANGED <<late, disk, ui, queue, io, results, made>>
  BY DEF Removal
<1>2. server \in ServerRows
  BY Types DEF Fits
<1>3. gone \in Docs /\ server.head + 1 \in Nat
  BY <1>2 DEF ServerRows, Docs
<1> HIDE DEF gone
<1>4. server' \in ServerRows /\ server'.filed = server.filed
  BY <1>1, <1>2, <1>3 DEF ServerRows
<1>5. seen' \subseteq Mishaps \cup {"rejected"}
  BY <1>1, NoteTyped DEF Fits, Mishaps
<1>6. TypeOK'
  BY <1>1, <1>4, <1>5, Types, Typed DEF Fits
<1> QED
  BY <1>1, <1>4, <1>6 DEF Fits, KeysAreFew

Removes == \E edits \in SUBSET ((Edits \ Spare) \cup server.doc) : Removal(edits)

\* What may be removed.
LEMMA RemovedTyped ==
  ASSUME Fits, NEW edits \in SUBSET ((Edits \ Spare) \cup server.doc)
  PROVE  edits \in Docs
  BY Types DEF Fits, ServerRows, Docs, All

LEMMA ReopenedTyped ==
  ASSUME TypeOK
  PROVE  Reopened \in Screens
<1>1. <<>> \in Seq(Frames) /\ <<>> \in Seq(Ops) /\ {} \in Docs
  BY DEF Docs
<1>2. disk.head \in Nat /\ disk.conflict \in BOOLEAN /\ ui.cloud \in BOOLEAN
  BY Types DEF Disks, Screens
<1> QED
  BY <1>1, <1>2 DEF Reopened, Shown, Screens, Frames

LEMMA NothingTyped == <<>> \in Seq(Orders) /\ <<>> \in Seq(Reports)
  OBVIOUS

LEMMA KillTyped ==
  ASSUME Fits, Kill
  PROVE  Fits'
<1>1. /\ late' = late \cup Pending(Threads)
      /\ io' = [t \in Threads |-> Resting]
      /\ ui' = Reopened /\ queue' = <<>> /\ results' = <<>>
      /\ Note({"restart"})
      /\ UNCHANGED <<server, disk, made>>
  BY DEF Kill
<1>2. /\ Pending(Threads) \subseteq {RequestOf("io"), RequestOf("old")}
      /\ \A r \in Pending(Threads) : r \in Requests /\ r.op # "get"
  BY RequestTyped DEF Pending, Threads, Fits
<1>3. late' \subseteq Requests /\ \A r \in late' : r.op # "get"
  BY <1>1, <1>2, Types DEF Fits
<1>4. IsFiniteSet(late')
  <2>1. IsFiniteSet({RequestOf("io")} \cup {RequestOf("old")})
    BY FS_Singleton, FS_Union
  <2>2. {RequestOf("io"), RequestOf("old")} = {RequestOf("io")} \cup {RequestOf("old")}
    OBVIOUS
  <2>3. IsFiniteSet(Pending(Threads))
    BY <1>2, <2>1, <2>2, FS_Subset
  <2>4. IsFiniteSet(late)
    BY DEF Fits, KeysAreFew
  <2> QED
    BY <1>1, <2>3, <2>4, FS_Union
<1>5. io' \in [Threads -> Runs]
  BY <1>1, RestingTyped
<1>6. seen' \subseteq Mishaps \cup {"rejected"}
  BY <1>1, NoteTyped DEF Fits, Mishaps
<1>7. ui' \in Screens /\ queue' \in Seq(Orders) /\ results' \in Seq(Reports)
  BY <1>1, ReopenedTyped, NothingTyped DEF Fits
<1>8. TypeOK'
  BY <1>1, <1>3, <1>5, <1>6, <1>7, Types, Typed DEF Fits
<1> QED
  BY <1>1, <1>4, <1>8 DEF Fits, KeysAreFew

LEMMA RecreateTyped ==
  ASSUME Fits, Recreate
  PROVE  Fits'
<1>1. /\ io' = [io EXCEPT !["old"] = io["io"], !["io"] = Resting]
      /\ ui' = Reopened /\ queue' = <<>> /\ results' = <<>>
      /\ Note({"restart"})
      /\ UNCHANGED <<server, late, disk, made>>
  BY DEF Recreate
<1>2. io' \in [Threads -> Runs]
  <2> HIDE DEF Runs
  <2> QED
    BY <1>1, RestingTyped, Types DEF Fits, Threads
<1>3. seen' \subseteq Mishaps \cup {"rejected"}
  BY <1>1, NoteTyped DEF Fits, Mishaps
<1>4. ui' \in Screens /\ queue' \in Seq(Orders) /\ results' \in Seq(Reports)
  BY <1>1, ReopenedTyped, NothingTyped DEF Fits
<1> QED
  BY <1>1, <1>2, <1>3, <1>4, Types, Typed, FewStay DEF Fits

LEMMA InitTyped == Init => Fits
<1> SUFFICES ASSUME Init
             PROVE  Fits
  OBVIOUS
<1>1. <<>> \in Seq(Ops) /\ <<>> \in Seq(Frames) /\ {} \in Docs
  BY DEF Docs
<1>2. server \in ServerRows /\ server.filed = {} /\ late = {}
  BY <1>1 DEF Init, ServerRows
<1>3. disk \in Disks
  BY <1>1 DEF Init, Disks
<1>4. ui \in Screens
  <2>1. PICK cloud \in BOOLEAN : ui = [Shown(0, FALSE, cloud) EXCEPT !.syncing = TRUE]
    BY DEF Init
  <2> QED
    BY <1>1, <2>1 DEF Shown, Screens, Frames
<1>5. queue \in Seq([task : Tasks, head : Nat, conflict : BOOLEAN])
  <2>1. [task |-> "sync", head |-> 0, conflict |-> FALSE]
          \in [task : Tasks, head : Nat, conflict : BOOLEAN]
    BY DEF Tasks
  <2> QED
    BY <2>1 DEF Init
<1>6. io \in [Threads -> Runs] /\ results = <<>> /\ seen = {}
  BY RestingTyped DEF Init
<1>7. made \in [all : SUBSET Edits, calm : SUBSET Edits, undone : SUBSET Edits]
  BY DEF Init
<1>8. results \in Seq([task : Tasks, told : BOOLEAN, head : Nat, conflict : BOOLEAN])
  BY <1>6
<1> QED
  BY <1>2, <1>3, <1>4, <1>5, <1>6, <1>7, <1>8, FS_EmptySet
     DEF Fits, TypeOK, KeysAreFew, Disks

LEMMA StepTyped ==
  ASSUME Fits, [Next]_vars
  PROVE  Fits'
<1>1. CASE Main
  BY <1>1, EditTyped, UndoTyped, EnqueueTyped, SaveTyped, PressTyped, OutcomeTyped,
     SignInTyped, SignOutTyped DEF Main
<1>2. CASE Begin
  BY <1>2, BeginTyped
<1>3. ASSUME NEW t \in Threads, Executor(t)
      PROVE  Fits'
  BY <1>3, SyncTyped, PostTyped, FlushTyped, TakeKeyTyped, DropTyped, AgainTyped,
     SyncedTyped, ClearTyped, AnsweredTyped DEF Executor
<1>4. CASE World
  <2>1. CASE \E edits \in SUBSET ((Edits \ Spare) \cup server.doc) : Removal(edits)
    BY <2>1, RemovedTyped, RemovalTyped
  <2> QED
    BY <1>4, <2>1, UnansweredTyped, ArrivesTyped, OtherDeviceTyped, KillTyped,
       RecreateTyped DEF World
<1>5. CASE UNCHANGED vars
  BY <1>5, Types, Typed, FewStay DEF vars, Fits
<1> QED
  BY <1>1, <1>2, <1>3, <1>4, <1>5 DEF Next
-------------------------------------------------------------------------------
(* Without a mishap the tasks come one at a time, and in order.             *)

Orderly == Fits /\ Calm /\ InOrder

\* What the user may do without a mishap is done while nothing is under way.
LEMMA NotBusy ==
  ASSUME NEW what, Overlap \subseteq what, Note(what), Calm' \/ Steady'
  PROVE  /\ queue = <<>> /\ results = <<>>
         /\ io["io"].pc = "idle" /\ io["old"].pc = "idle"
<1>1. seen' = seen \cup what
  BY DEF Note
<1>2. Overlap = {}
  BY <1>1 DEF Calm, Steady, Overlap
<1> QED
  BY <1>2 DEF Overlap, Busy, Threads

\* What does not touch the document, the outbox or the heads settles nothing.
LEMMA SettledStays ==
  ASSUME Settled, disk'.outbox = disk.outbox, disk'.doc = disk.doc, server' = server,
         ui'.head = ui.head
  PROVE  Settled'
  BY DEF Settled

LEMMA EditInOrder ==
  ASSUME Orderly, NEW e \in Edits, Edit(e), Calm'
  PROVE  InOrder'
<1>1. /\ queue = <<>> /\ results = <<>>
      /\ io["io"].pc = "idle" /\ io["old"].pc = "idle"
  BY NotBusy DEF Edit
<1>2. /\ ui'.pc = "enqueue" /\ ui'.head = ui.head
      /\ ui'.cloud = ui.cloud /\ ui'.conflict = ui.conflict /\ ui'.rotate = TRUE
      /\ UNCHANGED <<server, late, disk, queue, io, results>>
  BY Types DEF Orderly, Fits, Edit, Screens
<1>3. OneAtATime' /\ NoConflict'
  BY <1>1, <1>2 DEF Orderly, InOrder, OneAtATime, NoConflict
<1>4. KeyIsNew' /\ HeadIsKnown'
  BY <1>1, <1>2 DEF Orderly, InOrder, KeyIsNew, Filed, HeadIsKnown, Known
<1>5. Settling' /\ AtIt(io["io"])'
  BY <1>1, <1>2 DEF Settling, AtIt
<1> QED
  BY <1>3, <1>4, <1>5 DEF InOrder

LEMMA UndoInOrder ==
  ASSUME Orderly, Undo, Calm'
  PROVE  InOrder'
<1> DEFINE edit == Head(ui.undo).edit
<1>1. /\ queue = <<>> /\ results = <<>>
      /\ io["io"].pc = "idle" /\ io["old"].pc = "idle"
  BY NotBusy DEF Undo
<1>2. /\ ui'.pc = "enqueue" /\ ui'.head = ui.head
      /\ ui'.cloud = ui.cloud /\ ui'.conflict = ui.conflict
      /\ ui'.rotate = ~StillQueued(edit)
      /\ UNCHANGED <<server, late, queue, io, results>>
  BY Types DEF Orderly, Fits, Undo, Screens
<1>3. disk'.outbox = disk.outbox /\ disk'.key = disk.key /\ disk'.conflict = disk.conflict
  BY Types DEF Orderly, Fits, Undo, Disks
<1>4. OneAtATime' /\ NoConflict'
  BY <1>1, <1>2, <1>3 DEF Orderly, InOrder, OneAtATime, NoConflict
<1>5. KeyIsNew'
  <2>1. ASSUME ~ui'.rotate
        PROVE  disk'.outbox # <<>>
    <3>1. StillQueued(edit)
      BY <1>2, <2>1, Zenon
    <3>2. ToSet(<<>>) = {}
      BY DEF ToSet
    <3> QED
      BY <1>3, <3>1, <3>2 DEF StillQueued
  <2> QED
    BY <1>1, <1>2, <1>3, <2>1 DEF Orderly, InOrder, KeyIsNew, Filed
<1>6. HeadIsKnown'
  BY <1>1, <1>2 DEF Orderly, InOrder, HeadIsKnown, Known
<1>7. Settling' /\ AtIt(io["io"])'
  BY <1>1, <1>2 DEF Settling, AtIt
<1> QED
  BY <1>4, <1>5, <1>6, <1>7 DEF InOrder

LEMMA EnqueueInOrder ==
  ASSUME Orderly, Enqueue, Calm'
  PROVE  InOrder'
<1>1. /\ ui.pc = "enqueue" /\ queue = <<>> /\ results = <<>>
      /\ io["io"].pc = "idle" /\ io["old"].pc = "idle"
  BY DEF Orderly, InOrder, OneAtATime, Enqueue
<1>2. /\ ui'.pc = "save" /\ ui'.head = ui.head
      /\ ui'.cloud = ui.cloud /\ ui'.conflict = ui.conflict
      /\ UNCHANGED <<server, late, queue, io, results>>
  BY Types DEF Orderly, Fits, Enqueue, Screens
<1>3. /\ disk'.key = IF ui.rotate THEN NewKey ELSE disk.key
      /\ disk'.conflict = disk.conflict
  BY Types DEF Orderly, Fits, Enqueue, Disks
<1>4. OneAtATime' /\ NoConflict'
  BY <1>1, <1>2, <1>3 DEF Orderly, InOrder, OneAtATime, NoConflict
<1>5. KeyIsNew'
  <2>1. ~ui.rotate => ~Filed(disk.key)
    BY <1>1 DEF Orderly, InOrder, KeyIsNew
  <2>2. ~Filed(NewKey)
    BY NewKeyIs DEF Orderly, Fits
  <2>3. ~Filed(disk'.key)
    BY <1>3, <2>1, <2>2
  <2> QED
    BY <1>2, <2>3 DEF KeyIsNew, Filed
<1>6. HeadIsKnown'
  BY <1>1, <1>2 DEF Orderly, InOrder, HeadIsKnown, Known
<1>7. Settling' /\ AtIt(io["io"])'
  BY <1>1, <1>2 DEF Settling, AtIt
<1> QED
  BY <1>4, <1>5, <1>6, <1>7 DEF InOrder

\* A task is queued at a time when nothing is.
LEMMA FirstQueued ==
  ASSUME TypeOK, queue = <<>>, NEW task \in Tasks, Queued(task)
  PROVE  /\ Len(queue') = 1 /\ DOMAIN queue' = {1} /\ queue'[1].task = task
         /\ queue'[1].head = ui.head /\ queue'[1].conflict = ui.conflict
<1> DEFINE order == [task |-> task, head |-> ui.head, conflict |-> ui.conflict]
<1>1. order \in Orders /\ queue' = <<order>>
  BY Types DEF Queued, Orders, Screens
<1>2. order.task = task /\ order.head = ui.head /\ order.conflict = ui.conflict
  OBVIOUS
<1> HIDE DEF order
<1> QED
  BY <1>1, <1>2

LEMMA SaveInOrder ==
  ASSUME Orderly, Save, Calm'
  PROVE  InOrder'
<1>1. /\ ui.pc = "save" /\ queue = <<>> /\ results = <<>>
      /\ io["io"].pc = "idle" /\ io["old"].pc = "idle"
  BY DEF Orderly, InOrder, OneAtATime, Save
<1>2. /\ ui'.pc = "idle" /\ ui'.head = ui.head
      /\ ui'.cloud = ui.cloud /\ ui'.conflict = ui.conflict
      /\ UNCHANGED <<server, late, io, results>>
  BY Types DEF Orderly, Fits, Save, Screens
<1>3. /\ disk'.outbox = disk.outbox /\ disk'.key = disk.key
      /\ disk'.conflict = disk.conflict
  BY Types DEF Orderly, Fits, Save, Disks
<1>4. /\ Len(queue') = 1 /\ DOMAIN queue' = {1} /\ queue'[1].task = "sync"
      /\ queue'[1].head = ui.head /\ queue'[1].conflict = ui.conflict
  BY <1>1, FirstQueued DEF Orderly, Fits, Save, Tasks
<1>5. OneAtATime' /\ NoConflict'
  BY <1>1, <1>2, <1>3, <1>4 DEF Orderly, InOrder, OneAtATime, NoConflict
<1>6. KeyIsNew' /\ HeadIsKnown'
  BY <1>1, <1>2, <1>3 DEF Orderly, InOrder, KeyIsNew, Filed, HeadIsKnown, Known
<1>7. Settling' /\ AtIt(io["io"])'
  BY <1>1, <1>2, <1>4 DEF Settling, AtIt
<1> QED
  BY <1>5, <1>6, <1>7 DEF InOrder

LEMMA PressInOrder ==
  ASSUME Orderly, NEW task \in Tasks, Press(task), Calm'
  PROVE  InOrder'
<1>1. /\ queue = <<>> /\ results = <<>>
      /\ io["io"].pc = "idle" /\ io["old"].pc = "idle"
  BY NotBusy DEF Press
<1>2. /\ ui.pc = "idle" /\ ui'.pc = "idle" /\ ui'.head = ui.head
      /\ ui'.cloud = ui.cloud /\ ui'.conflict = ui.conflict
      /\ UNCHANGED <<server, late, disk, io, results>>
  BY Types DEF Orderly, Fits, Press, Screens
<1>3. task = "sync"
  BY DEF Orderly, InOrder, NoConflict, Press
<1>4. /\ Len(queue') = 1 /\ DOMAIN queue' = {1} /\ queue'[1].task = "sync"
      /\ queue'[1].head = ui.head /\ queue'[1].conflict = ui.conflict
  BY <1>1, <1>3, FirstQueued DEF Orderly, Fits, Press
<1>5. OneAtATime' /\ NoConflict'
  BY <1>1, <1>2, <1>4 DEF Orderly, InOrder, OneAtATime, NoConflict
<1>6. KeyIsNew' /\ HeadIsKnown'
  BY <1>1, <1>2 DEF Orderly, InOrder, KeyIsNew, Filed, HeadIsKnown, Known
<1>7. Settling' /\ AtIt(io["io"])'
  BY <1>1, <1>2, <1>4 DEF Settling, AtIt
<1> QED
  BY <1>5, <1>6, <1>7 DEF InOrder

LEMMA GenerationInOrder ==
  ASSUME Orderly, RequestGeneration, Calm'
  PROVE  InOrder'
<1>1. /\ queue = <<>> /\ results = <<>>
      /\ io["io"].pc = "idle" /\ io["old"].pc = "idle"
  BY NotBusy DEF RequestGeneration
<1>2. /\ ui.pc = "idle" /\ ui'.pc = "idle" /\ ui'.head = ui.head
      /\ ui'.cloud = ui.cloud /\ ui'.conflict = ui.conflict
      /\ UNCHANGED <<server, late, disk, io, results>>
  BY Types DEF Orderly, Fits, RequestGeneration, Screens
<1>3. /\ Len(queue') = 1 /\ DOMAIN queue' = {1} /\ queue'[1].task = "generate"
      /\ queue'[1].head = ui.head /\ queue'[1].conflict = ui.conflict
  BY <1>1, FirstQueued DEF Orderly, Fits, RequestGeneration, Tasks
<1>4. OneAtATime' /\ NoConflict'
  BY <1>1, <1>2, <1>3 DEF Orderly, InOrder, OneAtATime, NoConflict
<1>5. KeyIsNew' /\ HeadIsKnown'
  BY <1>1, <1>2 DEF Orderly, InOrder, KeyIsNew, Filed, HeadIsKnown, Known
<1>6. Settled'
  <2>1. ~Settling
    BY <1>1, <1>2 DEF Settling
  <2> QED
    BY <1>2, <2>1, SettledStays DEF Orderly, InOrder
<1>7. AtIt(io["io"])'
  BY <1>1, <1>2 DEF AtIt
<1> QED
  BY <1>4, <1>5, <1>6, <1>7 DEF InOrder

LEMMA OnlyOne ==
  ASSUME NEW S, NEW s \in Seq(S), s # <<>>, Len(s) <= 1
  PROVE  /\ Len(s) = 1 /\ DOMAIN s = {1} /\ Tail(s) = <<>>
         /\ Head(s) = s[1] /\ s[1] \in S
<1>1. Len(s) = 1
  <2>1. Len(s) \in Nat \ {0}
    BY EmptySeq
  <2> QED
    BY <2>1
<1>2. DOMAIN s = {1} /\ Head(s) = s[1] /\ s[1] \in S
  BY <1>1
<1>3. Tail(s) \in Seq(S) /\ Len(Tail(s)) = 0
  BY <1>1, HeadTailProperties
<1> QED
  BY <1>1, <1>2, <1>3, EmptySeq

LEMMA OutcomeInOrder ==
  ASSUME Orderly, ApplyOutcome, Calm'
  PROVE  InOrder'
<1> DEFINE r == Head(results)
<1>1. /\ ui.pc = "idle" /\ results # <<>> /\ queue = <<>>
      /\ io["io"].pc = "idle" /\ io["old"].pc = "idle"
  BY DEF Orderly, InOrder, OneAtATime, ApplyOutcome
<1>2. Len(results) = 1 /\ DOMAIN results = {1} /\ results' = <<>> /\ r = results[1]
  <2>1. results \in Seq(Reports) /\ Len(results) <= 1 /\ results' = Tail(results)
    BY Types DEF Orderly, Fits, InOrder, OneAtATime, ApplyOutcome
  <2> QED
    BY <1>1, <2>1, OnlyOne
<1>3. /\ UNCHANGED <<server, late, disk, queue, io>>
      /\ ui'.pc = "idle" /\ ui'.cloud = ui.cloud
      /\ ui'.head = IF r.told THEN r.head ELSE ui.head
      /\ ui'.conflict = IF r.told THEN r.conflict ELSE ui.conflict
  BY <1>1, Types DEF Orderly, Fits, ApplyOutcome, Screens
<1>4. r.told => r.head = server.head
  BY <1>2 DEF Orderly, InOrder, NoConflict
<1>5. OneAtATime' /\ NoConflict'
  <2>1. ~ui'.conflict
    BY <1>2, <1>3 DEF Orderly, InOrder, NoConflict
  <2> QED
    BY <1>1, <1>2, <1>3, <2>1 DEF Orderly, InOrder, OneAtATime, NoConflict
<1>6. KeyIsNew'
  BY <1>3 DEF Orderly, InOrder, KeyIsNew, Filed
<1>7. HeadIsKnown'
  <2>1. Known(ui.head) \/ r.told
    BY <1>1, <1>2 DEF Orderly, InOrder, HeadIsKnown
  <2>2. Known(ui'.head)
    BY <1>3, <1>4, <2>1 DEF Known
  <2> QED
    BY <1>3, <2>2 DEF Orderly, InOrder, HeadIsKnown, Known
<1>8. Settled'
  <2>1. Settled
    BY <1>1 DEF Orderly, InOrder, Settling
  <2>2. ui'.head = ui.head \/ ui'.head = server.head
    BY <1>3, <1>4
  <2> QED
    BY <1>3, <2>1, <2>2 DEF Settled
<1>9. AtIt(io["io"])'
  BY <1>1, <1>3 DEF AtIt
<1> QED
  BY <1>5, <1>6, <1>7, <1>8, <1>9 DEF InOrder

LEMMA SignInInOrder ==
  ASSUME Orderly, SignIn, Calm'
  PROVE  InOrder'
<1>1. /\ ui'.pc = ui.pc /\ ui'.head = ui.head /\ ui'.rotate = ui.rotate
      /\ ui'.cloud = TRUE /\ ui'.conflict = ui.conflict
      /\ UNCHANGED <<server, late, disk, queue, io, results>>
  BY Types DEF Orderly, Fits, SignIn, Screens
<1>2. OneAtATime' /\ NoConflict'
  BY <1>1 DEF Orderly, InOrder, OneAtATime, NoConflict
<1>3. KeyIsNew' /\ HeadIsKnown'
  BY <1>1 DEF Orderly, InOrder, KeyIsNew, Filed, HeadIsKnown, Known
<1>4. Settling' \/ Settled'
  <2>1. CASE Settling
    BY <1>1, <2>1 DEF Settling
  <2>2. CASE Settled
    BY <1>1, <2>2, SettledStays
  <2> QED
    BY <2>1, <2>2 DEF Orderly, InOrder
<1>5. AtIt(io["io"])'
  BY <1>1 DEF Orderly, InOrder, AtIt
<1> QED
  BY <1>2, <1>3, <1>4, <1>5 DEF InOrder

\* Signing out is one of the mishaps.
LEMMA SignOutIsSeen ==
  ASSUME SignOut
  PROVE  ~Calm' /\ ~Steady'
  BY DEF SignOut, Note, Calm, Steady

LEMMA BeginInOrder ==
  ASSUME Orderly, Begin, Calm'
  PROVE  InOrder'
<1> DEFINE q == Head(queue)
           pc == CASE q.task = "take" -> "take" [] q.task = "retry" -> "rebase"
                   [] OTHER -> "sync"
           run == [Resting EXCEPT !.task = q.task, !.head = q.head,
                                  !.conflict = q.conflict, !.pc = pc]
           report == [task |-> q.task, told |-> FALSE, head |-> 0, conflict |-> FALSE]
<1>1. /\ IF ui.cloud THEN Set("io", run) /\ UNCHANGED results
         ELSE results' = Append(results, report) /\ UNCHANGED io
      /\ queue' = Tail(queue) /\ queue # <<>> /\ io["io"].pc = "idle"
      /\ UNCHANGED <<server, late, disk, ui>>
  BY DEF Begin
<1>2. results = <<>> /\ ui.pc = "idle" /\ io["old"].pc = "idle"
  BY <1>1 DEF Orderly, InOrder, OneAtATime
<1>3. queue' = <<>> /\ DOMAIN queue = {1} /\ q = queue[1] /\ q \in Orders
  <2>1. queue \in Seq(Orders) /\ Len(queue) <= 1
    BY Types DEF Orderly, Fits, InOrder, OneAtATime
  <2> QED
    BY <1>1, <2>1, OnlyOne
<1>4. q.task \in {"sync", "generate"} /\ q.head = ui.head /\ ~q.conflict
  BY <1>3 DEF Orderly, InOrder, NoConflict
<1> HIDE DEF q
<1>5. Known(ui.head) /\ (~ui.cloud => server.head = 0)
  BY <1>1, <1>2 DEF Orderly, InOrder, HeadIsKnown
<1>6. q.task = "sync" \/ Settled
  BY <1>1, <1>2, <1>3 DEF Orderly, InOrder, Settling
<1>7. CASE ui.cloud
  <2>1. pc = "sync"
    BY <1>4
  <2> HIDE DEF pc
  <2>2. /\ run \in Runs /\ run.pc = "sync" /\ run.task = q.task /\ run.head = ui.head
        /\ run.conflict = q.conflict
    <3>1. q.task \in Tasks /\ q.head \in Nat /\ q.conflict \in BOOLEAN
      BY <1>3 DEF Orders
    <3>2. Resting \in Runs
      BY RestingTyped
    <3> HIDE DEF Resting
    <3> QED
      BY <1>4, <2>1, <3>1, <3>2 DEF Runs
  <2> HIDE DEF run
  <2>3. io'["io"] = run /\ io'["old"] = io["old"] /\ UNCHANGED results
    BY <1>1, <1>7, <2>2, SetTyped DEF Orderly, Fits, Threads
  <2>4. OneAtATime' /\ NoConflict'
    BY <1>1, <1>2, <1>3, <1>4, <2>2, <2>3 DEF Orderly, InOrder, OneAtATime, NoConflict
  <2>5. KeyIsNew' /\ HeadIsKnown'
    BY <1>1, <1>2, <1>5, <1>7, <2>2, <2>3
       DEF Orderly, InOrder, KeyIsNew, Filed, HeadIsKnown, Known
  <2>6. Settling' \/ Settled'
    BY <1>1, <1>6, <2>2, <2>3, SettledStays DEF Settling
  <2>7. AtIt(io["io"])'
    BY <1>1, <2>2, <2>3 DEF AtIt
  <2> QED
    BY <2>4, <2>5, <2>6, <2>7 DEF InOrder
<1>8. CASE ~ui.cloud
  <2>1. ~report.told /\ ~report.conflict
    OBVIOUS
  <2> HIDE DEF report
  <2>2. results' = <<report>> /\ DOMAIN results' = {1} /\ results'[1] = report
    BY <1>1, <1>2, <1>8
  <2>3. io' = io
    BY <1>1, <1>8
  <2>4. OneAtATime' /\ NoConflict'
    BY <1>1, <1>2, <1>3, <2>1, <2>2, <2>3
       DEF Orderly, InOrder, OneAtATime, NoConflict
  <2>5. KeyIsNew' /\ HeadIsKnown'
    BY <1>1, <1>2, <1>5, <1>8, <2>3
       DEF Orderly, InOrder, KeyIsNew, Filed, HeadIsKnown, Known
  <2>6. Settled'
    BY <1>1, <1>5, <1>8 DEF Settled
  <2>7. AtIt(io["io"])'
    BY <1>1, <2>3 DEF AtIt
  <2> QED
    BY <2>4, <2>5, <2>6, <2>7 DEF InOrder
<1> QED
  BY <1>7, <1>8

\* While a task is under way there is nothing else.
LEMMA AtWork ==
  ASSUME Orderly, io["io"].pc # "idle"
  PROVE  /\ ui.pc = "idle" /\ ui.cloud /\ queue = <<>> /\ results = <<>> /\ late = {}
         /\ io["old"].pc = "idle" /\ io["io"].conflict = FALSE
         /\ io["io"].task \in {"sync", "generate"}
         /\ io["io"].task = "sync" \/ io["io"].pc = "dropPosted" \/ Settled
<1>1. ui.pc = "idle" /\ queue = <<>> /\ results = <<>> /\ late = {} /\ io["old"].pc = "idle"
  BY DEF Orderly, InOrder, OneAtATime
<1>2. ui.cloud
  BY DEF Orderly, InOrder, HeadIsKnown
<1>3. ~io["io"].conflict /\ io["io"].task \in {"sync", "generate"}
  BY DEF Orderly, InOrder, NoConflict
<1>4. io["io"].conflict \in BOOLEAN
  BY Types DEF Orderly, Fits, Threads, Runs
<1>5. io["io"].task = "sync" \/ io["io"].pc = "dropPosted" \/ Settled
  BY <1>1 DEF Orderly, InOrder, Settling
<1> QED
  BY <1>1, <1>2, <1>3, <1>4, <1>5

\* The task goes on.
LEMMA WorkGoesOn ==
  ASSUME Orderly, io["io"].pc # "idle",
         NEW run \in Runs, Set("io", run), run.task = io["io"].task,
         run.pc \notin {"remember", "take", "rebase"}, ~run.conflict,
         ~disk'.conflict, UNCHANGED <<late, queue, results>>,
         ui'.pc = ui.pc, ui'.conflict = ui.conflict
  PROVE  OneAtATime' /\ NoConflict' /\ io'["io"] = run
<1>1. io'["io"] = run /\ io'["old"] = io["old"]
  BY SetTyped DEF Orderly, Fits, Threads
<1>2. /\ ui.pc = "idle" /\ queue = <<>> /\ results = <<>> /\ late = {}
      /\ io["old"].pc = "idle" /\ io["io"].task \in {"sync", "generate"}
  BY AtWork
<1>3. ~ui.conflict
  BY DEF Orderly, InOrder, NoConflict
<1>4. OneAtATime'
  BY <1>1, <1>2 DEF OneAtATime
<1>5. NoConflict'
  BY <1>1, <1>2, <1>3 DEF NoConflict
<1> QED
  BY <1>1, <1>4, <1>5

\* The task ends, and its outcome is on its way to the main thread.
LEMMA WorkEnds ==
  ASSUME Orderly, io["io"].pc # "idle",
         NEW told \in BOOLEAN, NEW head \in Nat, End("io", told, head, FALSE),
         told => head = server'.head,
         ~disk'.conflict, UNCHANGED <<late, queue>>,
         ui'.pc = ui.pc, ui'.conflict = ui.conflict
  PROVE  /\ OneAtATime' /\ NoConflict' /\ AtIt(io["io"])'
         /\ io'["io"] = Resting /\ DOMAIN results' = {1} /\ results'[1].told = told
<1> DEFINE report == [task |-> io["io"].task, told |-> told, head |-> head,
                      conflict |-> FALSE]
<1>1. /\ ui.pc = "idle" /\ queue = <<>> /\ results = <<>> /\ late = {}
      /\ io["old"].pc = "idle"
  BY AtWork
<1>2. /\ io'["io"] = Resting /\ io'["old"] = io["old"]
      /\ results' = Append(results, report)
  BY EndTyped DEF Orderly, Fits, Threads
<1>3. report.told = told /\ report.head = head /\ ~report.conflict
  OBVIOUS
<1> HIDE DEF report
<1>4. Len(results') = 1 /\ DOMAIN results' = {1} /\ results'[1] = report
  BY <1>1, <1>2
<1>5. ~ui.conflict
  BY DEF Orderly, InOrder, NoConflict
<1>6. Resting.pc = "idle" /\ Resting.task = "sync" /\ ~Resting.conflict
  BY DEF Resting
<1>7. OneAtATime'
  BY <1>1, <1>2, <1>4, <1>6 DEF OneAtATime
<1>8. NoConflict'
  BY <1>1, <1>2, <1>3, <1>4, <1>5, <1>6 DEF NoConflict
<1>9. AtIt(io["io"])'
  BY <1>2, <1>6 DEF AtIt
<1> QED
  BY <1>2, <1>3, <1>4, <1>7, <1>8, <1>9

LEMMA SyncInOrder ==
  ASSUME Orderly, Sync("io"), Calm'
  PROVE  InOrder'
<1> DEFINE run == IF io["io"].head = 0
                  THEN [io["io"] EXCEPT !.doc = disk.doc, !.pc = "post"]
                  ELSE [io["io"] EXCEPT !.pc = "flush"]
<1>1. /\ io["io"].pc = "sync" /\ Set("io", run)
      /\ UNCHANGED <<server, late, disk, ui, queue, results>>
  BY AtWork DEF Sync
<1>2. /\ ui.pc = "idle" /\ ui.cloud /\ results = <<>> /\ io["io"].conflict = FALSE
      /\ io["io"].task = "sync" \/ Settled
  BY <1>1, AtWork
<1>3. io["io"].head = ui.head /\ Known(ui.head)
  BY <1>1, <1>2 DEF Orderly, InOrder, AtIt, HeadIsKnown
<1>4. run \in Runs /\ run.task = io["io"].task /\ run.conflict = FALSE /\ run.head = ui.head
  BY <1>2, <1>3, Types DEF Orderly, Fits, Runs, Disks, Threads
<1>5. CASE ui.head = 0
  <2>1. run.pc = "post" /\ run.doc = disk.doc
    BY <1>3, <1>5, Types DEF Orderly, Fits, Runs, Threads
  <2> HIDE DEF run
  <2>2. OneAtATime' /\ NoConflict' /\ io'["io"] = run
    <3>1. ~disk'.conflict
      BY <1>1 DEF Orderly, InOrder, NoConflict
    <3> QED
      BY <1>1, <1>4, <2>1, <3>1, WorkGoesOn
  <2>3. KeyIsNew' /\ HeadIsKnown'
    BY <1>1, <1>2, <1>3, <2>1, <2>2
       DEF Orderly, InOrder, KeyIsNew, Filed, HeadIsKnown, Known
  <2>4. Settling' \/ Settled'
    BY <1>1, <1>2, <1>4, <2>1, <2>2, SettledStays DEF Settling
  <2>5. AtIt(io["io"])'
    BY <1>1, <1>4, <1>5, <2>1, <2>2 DEF AtIt
  <2> QED
    BY <2>2, <2>3, <2>4, <2>5 DEF InOrder
<1>6. CASE ui.head # 0
  <2>1. run.pc = "flush"
    BY <1>3, <1>6, Types DEF Orderly, Fits, Runs, Threads
  <2> HIDE DEF run
  <2>2. OneAtATime' /\ NoConflict' /\ io'["io"] = run
    <3>1. ~disk'.conflict
      BY <1>1 DEF Orderly, InOrder, NoConflict
    <3> QED
      BY <1>1, <1>4, <2>1, <3>1, WorkGoesOn
  <2>3. KeyIsNew' /\ HeadIsKnown'
    BY <1>1, <1>2, <1>3, <2>1, <2>2
       DEF Orderly, InOrder, KeyIsNew, Filed, HeadIsKnown, Known
  <2>4. Settling' \/ Settled'
    BY <1>1, <1>2, <1>4, <2>1, <2>2, SettledStays DEF Settling
  <2>5. AtIt(io["io"])'
    BY <1>1, <1>3, <1>4, <1>6, <2>1, <2>2 DEF AtIt, Known
  <2> QED
    BY <2>2, <2>3, <2>4, <2>5 DEF InOrder
<1> QED
  BY <1>5, <1>6

\* A step of a task that leaves the server, the document, the outbox and its key alone.
LEMMA QuietWork ==
  ASSUME Orderly, io["io"].pc \notin {"idle", "dropPosted", "dropSent"}, Known(ui.head),
         NEW run \in Runs, Set("io", run), run.task = io["io"].task,
         run.pc \notin {"remember", "take", "rebase"}, ~run.conflict,
         UNCHANGED <<server, late, queue, results>>,
         ~disk'.conflict, disk'.outbox = disk.outbox, disk'.key = disk.key,
         disk'.doc = disk.doc,
         ui'.pc = ui.pc, ui'.conflict = ui.conflict, ui'.head = ui.head, ui'.cloud = ui.cloud
  PROVE  /\ OneAtATime' /\ NoConflict' /\ KeyIsNew' /\ HeadIsKnown'
         /\ run.pc # "idle" => Settling' \/ Settled'
         /\ io'["io"] = run
<1>1. OneAtATime' /\ NoConflict' /\ io'["io"] = run
  BY WorkGoesOn
<1>2. /\ ui.pc = "idle" /\ ui.cloud
      /\ io["io"].task = "sync" \/ Settled
  BY AtWork
<1>3. KeyIsNew'
  BY <1>2 DEF Orderly, InOrder, KeyIsNew, Filed
<1>4. HeadIsKnown'
  BY <1>2 DEF HeadIsKnown, Known
<1>5. ASSUME run.pc # "idle"
      PROVE  Settling' \/ Settled'
  BY <1>1, <1>2, <1>5, SettledStays DEF Settling
<1> QED
  BY <1>1, <1>3, <1>4, <1>5

LEMMA HeadAtWork ==
  ASSUME Orderly, io["io"].pc \notin {"idle", "dropSent", "again", "synced", "clear"}
  PROVE  Known(ui.head)
<1>1. results = <<>> /\ HeadIsKnown
  BY AtWork DEF Orderly, InOrder
<1> QED
  BY <1>1 DEF HeadIsKnown

LEMMA PostInOrder ==
  ASSUME Orderly, Post("io"), Calm'
  PROVE  InOrder'
<1> DEFINE run == [io["io"] EXCEPT !.ops = disk.outbox, !.pc = "create"]
<1>1. /\ io["io"].pc = "post" /\ Set("io", run)
      /\ UNCHANGED <<server, late, disk, ui, queue, results>>
  BY DEF Post
<1>2. io["io"].conflict = FALSE /\ ~disk.conflict /\ Known(ui.head)
  BY <1>1, AtWork, HeadAtWork DEF Orderly, InOrder, NoConflict
<1>3. /\ run \in Runs /\ run.task = io["io"].task /\ run.conflict = FALSE
      /\ run.pc = "create" /\ run.ops = disk.outbox
      /\ run.doc = io["io"].doc /\ run.head = io["io"].head
  BY <1>2, Types DEF Orderly, Fits, Runs, Disks, Threads, Waiting
<1> HIDE DEF run
<1>4. /\ OneAtATime' /\ NoConflict' /\ KeyIsNew' /\ HeadIsKnown'
      /\ Settling' \/ Settled'
      /\ io'["io"] = run
  BY <1>1, <1>2, <1>3, QuietWork
<1>5. AtIt(io["io"])'
  BY <1>1, <1>3, <1>4 DEF Orderly, InOrder, AtIt
<1> QED
  BY <1>4, <1>5 DEF InOrder

LEMMA FlushInOrder ==
  ASSUME Orderly, Flush("io"), Calm'
  PROVE  InOrder'
<1>1. /\ io["io"].pc = "flush"
      /\ UNCHANGED <<server, late, ui, queue, results>>
  BY DEF Flush
<1>2. io["io"].conflict = FALSE /\ ~disk.conflict /\ Known(ui.head)
  BY <1>1, AtWork, HeadAtWork DEF Orderly, InOrder, NoConflict
<1>3. io["io"] \in Runs /\ io["io"].head \in Nat /\ disk \in Disks
  BY Types DEF Orderly, Fits, Threads, Runs
<1>4. CASE disk.outbox = <<>>
  <2> DEFINE run == [io["io"] EXCEPT !.conflict = FALSE, !.pc = "synced"]
  <2>1. disk' = Persisted(io["io"].head, FALSE) /\ Set("io", run)
    BY <1>4 DEF Flush
  <2>2. /\ run \in Runs /\ run.task = io["io"].task /\ run.conflict = FALSE
        /\ run.pc = "synced" /\ run.head = io["io"].head
    BY <1>3 DEF Runs
  <2> HIDE DEF run
  <2>3. /\ disk'.outbox = disk.outbox /\ disk'.key = disk.key
        /\ disk'.doc = disk.doc /\ disk'.conflict = FALSE
    BY <1>3, <2>1, PersistedTyped DEF Orderly, Fits
  <2>4. /\ OneAtATime' /\ NoConflict' /\ KeyIsNew' /\ HeadIsKnown'
        /\ Settling' \/ Settled'
        /\ io'["io"] = run
    BY <1>1, <1>2, <2>1, <2>2, <2>3, QuietWork
  <2>5. AtIt(io["io"])'
    BY <1>1, <1>4, <2>2, <2>3, <2>4 DEF Orderly, InOrder, AtIt
  <2> QED
    BY <2>4, <2>5 DEF InOrder
<1>5. CASE disk.outbox # <<>>
  <2> DEFINE run == [io["io"] EXCEPT !.ops = disk.outbox, !.pc = "key"]
  <2>1. disk' = disk /\ Set("io", run)
    BY <1>5 DEF Flush
  <2>2. /\ run \in Runs /\ run.task = io["io"].task /\ run.conflict = FALSE
        /\ run.pc = "key" /\ run.head = io["io"].head /\ run.ops = disk.outbox
    BY <1>2, <1>3 DEF Runs, Disks
  <2> HIDE DEF run
  <2>3. /\ OneAtATime' /\ NoConflict' /\ KeyIsNew' /\ HeadIsKnown'
        /\ Settling' \/ Settled'
        /\ io'["io"] = run
    BY <1>1, <1>2, <2>1, <2>2, QuietWork
  <2>4. AtIt(io["io"])'
    BY <1>1, <1>5, <2>1, <2>2, <2>3 DEF Orderly, InOrder, AtIt
  <2> QED
    BY <2>3, <2>4 DEF InOrder
<1> QED
  BY <1>4, <1>5

LEMMA TakeKeyInOrder ==
  ASSUME Orderly, TakeKey("io"), Calm'
  PROVE  InOrder'
<1> DEFINE run == [io["io"] EXCEPT !.key = disk.key, !.pc = "change"]
<1>1. /\ io["io"].pc = "key" /\ Set("io", run)
      /\ UNCHANGED <<server, late, disk, ui, queue, results>>
  BY DEF TakeKey
<1>2. io["io"].conflict = FALSE /\ ~disk.conflict /\ Known(ui.head)
  BY <1>1, AtWork, HeadAtWork DEF Orderly, InOrder, NoConflict
<1>3. /\ run \in Runs /\ run.task = io["io"].task /\ run.conflict = FALSE
      /\ run.pc = "change" /\ run.ops = io["io"].ops
      /\ run.key = disk.key /\ run.head = io["io"].head
  BY <1>2, Types DEF Orderly, Fits, Runs, Disks, Threads, Waiting
<1> HIDE DEF run
<1>4. /\ OneAtATime' /\ NoConflict' /\ KeyIsNew' /\ HeadIsKnown'
      /\ Settling' \/ Settled'
      /\ io'["io"] = run
  BY <1>1, <1>2, <1>3, QuietWork
<1>5. AtIt(io["io"])'
  BY <1>1, <1>3, <1>4 DEF Orderly, InOrder, AtIt
<1> QED
  BY <1>4, <1>5 DEF InOrder

LEMMA DropInOrder ==
  ASSUME Orderly, Drop("io"), Calm'
  PROVE  InOrder'
<1> DEFINE pc == IF io["io"].pc = "dropPosted" THEN "flush" ELSE "again"
           run == [io["io"] EXCEPT !.ops = <<>>, !.left = <<>>, !.key = 0,
                                   !.conflict = FALSE, !.pc = pc]
           saved == Persisted(io["io"].head, FALSE)
<1>1. /\ Set("io", run) /\ disk' = [saved EXCEPT !.outbox = io["io"].left]
      /\ io["io"].pc \in {"dropPosted", "dropSent"}
      /\ UNCHANGED <<server, late, ui, queue, results>>
  BY DEF Drop
<1>2. io["io"] \in Runs /\ io["io"].head \in Nat /\ io["io"].left = <<>>
  BY <1>1, Types DEF Orderly, InOrder, AtIt, Fits, Threads, Runs
<1>3. /\ run \in Runs /\ run.task = io["io"].task /\ run.conflict = FALSE
      /\ run.pc = pc /\ run.head = io["io"].head
  <2>1. <<>> \in Seq(Ops) /\ pc \in {"flush", "again"}
    OBVIOUS
  <2> HIDE DEF pc
  <2> QED
    BY <1>2, <2>1 DEF Runs
<1>4. disk'.outbox = <<>> /\ disk'.conflict = FALSE
  <2>1. saved \in Disks /\ saved.conflict = FALSE
    BY <1>2, PersistedTyped DEF Orderly, Fits
  <2> HIDE DEF saved
  <2> QED
    BY <1>1, <1>2, <2>1 DEF Disks
<1> HIDE DEF run, saved
<1>5. OneAtATime' /\ NoConflict' /\ io'["io"] = run
  BY <1>1, <1>3, <1>4, WorkGoesOn
<1>6. ui.pc = "idle" /\ ui.cloud /\ results = <<>>
  BY <1>1, AtWork
<1>7. KeyIsNew'
  BY <1>1, <1>4, <1>6 DEF KeyIsNew
<1>8. HeadIsKnown'
  <2>1. io["io"].pc = "dropSent" => io["io"].task = "sync"
    BY DEF Orderly, InOrder, AtIt
  <2>2. io["io"].pc = "dropPosted" => Known(ui.head)
    BY HeadAtWork
  <2> QED
    BY <1>1, <1>3, <1>5, <1>6, <2>1, <2>2 DEF HeadIsKnown, Known
<1>9. Settled'
  BY <1>4 DEF Settled
<1>10. AtIt(io["io"])'
  BY <1>1, <1>3, <1>4, <1>5 DEF Orderly, InOrder, AtIt
<1> QED
  BY <1>5, <1>7, <1>8, <1>9, <1>10 DEF InOrder

LEMMA AgainInOrder ==
  ASSUME Orderly, Again("io"), Calm'
  PROVE  InOrder'
<1> DEFINE run == [io["io"] EXCEPT !.pc = "synced"]
<1>1. io["io"].pc = "again" /\ disk.outbox = <<>> /\ io["io"].task = "sync"
  BY DEF Orderly, InOrder, AtIt, Again
<1>2. Set("io", run) /\ UNCHANGED <<server, late, ui, queue, results>>
  BY <1>1 DEF Again
<1>3. disk' = disk
  BY <1>1, Types DEF Again, Orderly, Fits, Disks
<1>4. io["io"].conflict = FALSE /\ ~disk.conflict /\ ui.pc = "idle" /\ ui.cloud
  BY <1>1, AtWork DEF Orderly, InOrder, NoConflict
<1>5. /\ run \in Runs /\ run.task = "sync" /\ run.conflict = FALSE
      /\ run.pc = "synced" /\ run.head = io["io"].head
  BY <1>1, <1>4, Types DEF Orderly, Fits, Threads, Runs
<1> HIDE DEF run
<1>6. OneAtATime' /\ NoConflict' /\ io'["io"] = run
  BY <1>1, <1>2, <1>3, <1>4, <1>5, WorkGoesOn
<1>7. KeyIsNew' /\ HeadIsKnown' /\ Settled'
  BY <1>1, <1>2, <1>3, <1>4, <1>5, <1>6 DEF KeyIsNew, HeadIsKnown, Settled
<1>8. AtIt(io["io"])'
  BY <1>1, <1>2, <1>3, <1>5, <1>6 DEF Orderly, InOrder, AtIt
<1> QED
  BY <1>6, <1>7, <1>8 DEF InOrder

\* A task that ends with nothing queued, and tells the head.
LEMMA DoneInOrder ==
  ASSUME Orderly, io["io"].pc # "idle",
         End("io", TRUE, io["io"].head, FALSE), io["io"].head = server.head,
         disk'.outbox = <<>>, ~disk'.conflict, UNCHANGED <<server, late, ui, queue>>
  PROVE  InOrder'
<1>1. ui.pc = "idle" /\ ui.cloud
  BY AtWork
<1>2. /\ OneAtATime' /\ NoConflict' /\ AtIt(io["io"])'
      /\ io'["io"] = Resting /\ DOMAIN results' = {1} /\ results'[1].told
  <2>1. io["io"].head \in Nat
    BY Types DEF Orderly, Fits, Threads, Runs
  <2> QED
    BY <2>1, WorkEnds
<1>3. KeyIsNew' /\ HeadIsKnown' /\ Settled'
  BY <1>1, <1>2 DEF KeyIsNew, HeadIsKnown, Settled
<1> QED
  BY <1>2, <1>3 DEF InOrder

LEMMA SyncedInOrder ==
  ASSUME Orderly, Synced("io"), Calm'
  PROVE  InOrder'
<1>1. /\ io["io"].pc = "synced" /\ disk.outbox = <<>> /\ io["io"].head = server.head
      /\ ~disk.conflict
      /\ UNCHANGED <<server, late, disk, ui, queue>>
  BY DEF Orderly, InOrder, AtIt, NoConflict, Synced
<1>2. CASE io["io"].task # "generate"
  BY <1>1, <1>2, DoneInOrder DEF Synced
<1>3. CASE io["io"].task = "generate"
  <2> DEFINE run == [io["io"] EXCEPT !.pc = "generate"]
  <2>1. Set("io", run) /\ UNCHANGED results
    BY <1>1, <1>3 DEF Synced
  <2>2. io["io"].conflict = FALSE /\ results = <<>>
    BY <1>1, AtWork
  <2>3. /\ run \in Runs /\ run.task = "generate" /\ run.conflict = FALSE
        /\ run.pc = "generate" /\ run.head = io["io"].head
    BY <1>3, <2>2, Types DEF Orderly, Fits, Threads, Runs, Waiting
  <2> HIDE DEF run
  <2>4. Known(ui.head)
    BY <1>1, <1>3, <2>2 DEF Orderly, InOrder, HeadIsKnown
  <2>5. /\ OneAtATime' /\ NoConflict' /\ KeyIsNew' /\ HeadIsKnown'
        /\ Settling' \/ Settled'
        /\ io'["io"] = run
    BY <1>1, <1>3, <2>1, <2>3, <2>4, QuietWork
  <2>6. AtIt(io["io"])'
    BY <1>1, <2>3, <2>5 DEF AtIt
  <2> QED
    BY <2>5, <2>6 DEF InOrder
<1> QED
  BY <1>2, <1>3

LEMMA ClearInOrder ==
  ASSUME Orderly, Clear("io"), Calm'
  PROVE  InOrder'
<1> DEFINE saved == Persisted(io["io"].head, FALSE)
<1>1. /\ io["io"].pc = "clear" /\ io["io"].head = server.head
      /\ disk' = [saved EXCEPT !.outbox = <<>>]
      /\ End("io", TRUE, io["io"].head, FALSE)
      /\ UNCHANGED <<server, late, ui, queue>>
  BY DEF Orderly, InOrder, AtIt, Clear
<1>2. io["io"].head \in Nat
  BY Types DEF Orderly, Fits, Threads, Runs
<1>3. saved \in Disks /\ saved.conflict = FALSE
  BY <1>2, PersistedTyped DEF Orderly, Fits
<1> HIDE DEF saved
<1>4. disk'.outbox = <<>> /\ disk'.conflict = FALSE
  BY <1>1, <1>3 DEF Disks
<1> QED
  BY <1>1, <1>4, DoneInOrder

LEMMA AgedKeeps ==
  ASSUME TypeOK, NEW t \in Threads, Aged(t)
  PROVE  /\ ui'.pc = ui.pc /\ ui'.head = ui.head /\ ui'.cloud = ui.cloud
         /\ ui'.conflict = ui.conflict /\ ui'.rotate = ui.rotate
<1>1. PICK frames \in Seq(Frames) : ui' = [ui EXCEPT !.undo = frames]
  BY AgedTyped
<1>2. ui \in Screens
  BY Types
<1> QED
  BY <1>1, <1>2 DEF Screens

\* The project is there after a post that is granted, and as it was posted, or else
\* another was posted.
LEMMA CreatedIs ==
  ASSUME NEW s \in ServerRows, NEW r \in Requests, r.op = "create", NEW a, a = Created(s, r)
  PROVE  /\ Granted(a) => /\ a.server.filed = s.filed /\ HeadIn(a, r) = 1
                          /\ a.server.head = IF s.head = 0 THEN 1 ELSE s.head
         /\ ~Granted(a) => /\ a.server = s
                           /\ s.head = 0 => r.doc \cap Unfit # {}
                           /\ s.head # 0 => s.created # r.doc
<1>1. CASE s.head = 0 /\ r.doc \cap Unfit = {}
  <2> DEFINE row == [s EXCEPT !.head = 1, !.doc = r.doc, !.created = r.doc]
  <2>1. a = Answer("ok", row)
    BY <1>1 DEF Created
  <2>2. row.head = 1 /\ row.filed = s.filed
    BY DEF ServerRows
  <2> HIDE DEF row
  <2>3. a.status = "ok" /\ a.server = row
    BY <2>1 DEF Answer
  <2> QED
    BY <1>1, <2>2, <2>3 DEF HeadIn, Granted
<1>2. CASE s.head # 0 /\ s.created = r.doc
  <2>1. a.status = "again" /\ a.server = s
    BY <1>2 DEF Created, Answer
  <2> QED
    BY <1>2, <2>1 DEF HeadIn, Granted
<1>3. CASE (s.head # 0 /\ s.created # r.doc) \/ (s.head = 0 /\ r.doc \cap Unfit # {})
  <2>1. a.status = "refused" /\ a.server = s
    BY <1>3 DEF Created, Answer
  <2> QED
    BY <1>3, <2>1 DEF Granted
<1> QED
  BY <1>1, <1>2, <1>3

\* A queue under a new key on the head of the server is applied if it can be.
LEMMA ChangedIs ==
  ASSUME NEW s \in ServerRows, NEW r \in Requests, r.op = "change", s.head = r.base,
         \A f \in s.filed : f.key # r.key, NEW a, a = Changed(s, r)
  PROVE  /\ Applicable(s, r.ops) => Granted(a) /\ HeadIn(a, r) = a.server.head
         /\ ~Applicable(s, r.ops) => ~Granted(a) /\ a.status = "refused" /\ a.server = s
<1> DEFINE filed == {f \in s.filed : f.key = r.key}
           row == [s EXCEPT !.head = @ + 1, !.doc = After(@, r.ops),
                            !.applied = @ \cup ToSet(r.ops),
                            !.filed = @ \cup {[key |-> r.key, base |-> r.base,
                                               ops |-> r.ops]}]
<1>1. filed = {}
  OBVIOUS
<1>2. CASE Applicable(s, r.ops)
  <2>1. a = Answer("ok", row)
    BY <1>1, <1>2 DEF Changed
  <2> HIDE DEF row
  <2>2. a.status = "ok"
    BY <2>1 DEF Answer
  <2> QED
    BY <1>2, <2>2 DEF Granted, HeadIn
<1>3. CASE ~Applicable(s, r.ops)
  <2>1. a = Answer("refused", s)
    BY <1>1, <1>3 DEF Changed
  <2> QED
    BY <1>3, <2>1 DEF Answer, Granted
<1> QED
  BY <1>2, <1>3

\* The model works on the head of the server.
LEMMA GeneratedIs ==
  ASSUME NEW s \in ServerRows, NEW r \in Requests, r.op = "generate", s.head = r.base,
         NEW a \in Generated(s, r)
  PROVE  /\ Granted(a) => HeadIn(a, r) = a.server.head /\ a.server.filed = s.filed
         /\ ~Granted(a) => a.status = "refused" /\ a.server = s
<1>1. CASE a = Answer("refused", s)
  BY <1>1 DEF Answer, Granted
<1>2. CASE a # Answer("refused", s)
  <2>1. PICK o \in Others : a = Answer("ok", [s EXCEPT !.head = @ + 1, !.doc = @ \cup {o}])
    BY <1>2 DEF Generated
  <2>2. a.status = "ok"
    BY <2>1 DEF Answer
  <2>3. a.server.filed = s.filed
    BY GeneratedTyped
  <2> QED
    BY <2>2, <2>3 DEF Granted, HeadIn
<1> QED
  BY <1>1, <1>2

\* A request fails: its task ends without news, and what is queued is settled.
LEMMA FailedInOrder ==
  ASSUME Orderly, io["io"].pc \in {"find", "change", "generate"}, Failed("io"),
         UNCHANGED <<server, late, disk, queue>>,
         ui'.pc = ui.pc, ui'.head = ui.head, ui'.cloud = ui.cloud,
         ui'.conflict = ui.conflict,
         disk.outbox = <<>> \/ server.head = 0
           \/ (io["io"].pc # "find" /\ ~Applicable(server, disk.outbox))
  PROVE  InOrder'
<1>1. ui.pc = "idle" /\ ui.cloud /\ Known(ui.head) /\ ~disk.conflict
  BY AtWork, HeadAtWork DEF Orderly, InOrder, NoConflict
<1>2. End("io", FALSE, 0, FALSE)
  BY DEF Failed
<1>3. OneAtATime' /\ NoConflict' /\ AtIt(io["io"])' /\ io'["io"] = Resting
  BY <1>1, <1>2, WorkEnds
<1>4. KeyIsNew'
  BY <1>1 DEF Orderly, InOrder, KeyIsNew, Filed
<1>5. HeadIsKnown'
  BY <1>1 DEF HeadIsKnown, Known
<1>6. Settled'
  BY DEF Orderly, InOrder, AtIt, Settled
<1> QED
  BY <1>3, <1>4, <1>5, <1>6 DEF InOrder

LEMMA AnswerIs ==
  ASSUME Orderly, Answered("io")
  PROVE  /\ io["io"].pc \in {"create", "find", "change", "generate"}
         /\ Known(ui.head) /\ ui.pc = "idle" /\ ui.cloud
         /\ io["io"].conflict = FALSE /\ ~disk.conflict /\ queue = <<>> /\ results = <<>>
         /\ ui'.pc = ui.pc /\ ui'.head = ui.head /\ ui'.cloud = ui.cloud
         /\ ui'.conflict = ui.conflict /\ ui'.rotate = ui.rotate
         /\ UNCHANGED <<late, queue>>
         /\ RequestOf("io") \in Requests /\ RequestOf("io").doc = io["io"].doc
         /\ RequestOf("io").base = io["io"].head /\ RequestOf("io").ops = io["io"].ops
         /\ RequestOf("io").key = io["io"].key
<1>1. io["io"].pc \in {"create", "find", "change", "generate"}
  BY DEF Orderly, InOrder, NoConflict, Answered, Waiting
<1>2. Known(ui.head) /\ ~disk.conflict
  BY <1>1, HeadAtWork DEF Orderly, InOrder, NoConflict
<1>3. /\ ui.pc = "idle" /\ ui.cloud /\ io["io"].conflict = FALSE
      /\ queue = <<>> /\ results = <<>>
  BY <1>1, AtWork
<1>4. /\ ui'.pc = ui.pc /\ ui'.head = ui.head /\ ui'.cloud = ui.cloud
      /\ ui'.conflict = ui.conflict /\ ui'.rotate = ui.rotate
      /\ UNCHANGED <<late, queue>>
  BY AgedKeeps DEF Orderly, Fits, Answered, Threads
<1>5. /\ RequestOf("io") \in Requests /\ RequestOf("io").doc = io["io"].doc
      /\ RequestOf("io").base = io["io"].head /\ RequestOf("io").ops = io["io"].ops
      /\ RequestOf("io").key = io["io"].key
  BY RequestTyped DEF Orderly, Fits, Threads
<1> QED
  BY <1>1, <1>2, <1>3, <1>4, <1>5

LEMMA CreateInOrder ==
  ASSUME Orderly, Answered("io"), io["io"].pc = "create"
  PROVE  InOrder'
<1> DEFINE r == RequestOf("io")
<1>1. PICK a \in Answers(server, r) :
        /\ server' = a.server
        /\ IF Granted(a) THEN OnGranted("io", a, r) ELSE OnRefused("io", a.status)
  BY DEF Answered
<1>2. r \in Requests /\ r.op = "create" /\ r.doc = disk.doc
  BY RequestTyped DEF Orderly, Fits, InOrder, AtIt, Threads
<1>3. a = Created(server, r)
  BY <1>1, <1>2 DEF Answers
<1>4. server \in ServerRows /\ disk \in Disks /\ io["io"] \in Runs /\ "io" \in Threads
  BY Types DEF Orderly, Fits, Threads
<1>5. /\ ui.head = 0 /\ io["io"].ops = disk.outbox
      /\ server.head = 0 \/ server.head = 1
  <2>1. Known(ui.head) /\ server.head \in Nat
    BY <1>4, AnswerIs DEF ServerRows
  <2>2. ui.head = 0 /\ io["io"].ops = disk.outbox
    BY DEF Orderly, InOrder, AtIt
  <2> QED
    BY <2>1, <2>2 DEF Known
<1>6. CASE Granted(a)
  <2>1. server'.filed = server.filed /\ HeadIn(a, r) = 1 /\ server'.head = 1
    BY <1>1, <1>2, <1>3, <1>4, <1>5, <1>6, CreatedIs
  <2>2. HeadIsKnown'
    BY <1>5, <2>1, AnswerIs DEF HeadIsKnown, Known
  <2>3. CASE io["io"].ops # <<>>
    <3> DEFINE run == Drops("io", "dropPosted", 1)
    <3>1. Set("io", run) /\ UNCHANGED <<disk, results>>
      BY <1>1, <1>6, <2>1, <2>3 DEF OnGranted, Drops, GoesOn
    <3>2. /\ run \in Runs /\ run.pc = "dropPosted" /\ run.head = 1 /\ run.conflict = FALSE
          /\ run.task = io["io"].task /\ run.left = Unsent("io")
      <4>1. TypeOK /\ 1 \in Nat
        BY DEF Orderly, Fits
      <4> QED
        BY <1>4, <4>1, DropsIs
    <3> HIDE DEF run
    <3>3. run.left = <<>>
      BY <1>4, <1>5, <3>2, UnsentTyped DEF Orderly, Fits
    <3>4. OneAtATime' /\ NoConflict' /\ io'["io"] = run
      BY <3>1, <3>2, AnswerIs, WorkGoesOn
    <3>5. KeyIsNew'
      BY <2>1, <3>1, AnswerIs DEF Orderly, InOrder, KeyIsNew, Filed
    <3>6. Settling'
      BY <3>2, <3>4 DEF Settling
    <3>7. AtIt(io["io"])'
      BY <1>5, <2>1, <3>2, <3>3, <3>4, AnswerIs DEF AtIt
    <3> QED
      BY <2>2, <3>4, <3>5, <3>6, <3>7 DEF InOrder
  <2>4. CASE io["io"].ops = <<>>
    <3> DEFINE run == GoesOn("io", "flush", 1)
    <3>1. /\ Set("io", run) /\ UNCHANGED results
          /\ disk' = [disk EXCEPT !.head = 1, !.conflict = FALSE]
      BY <1>1, <1>6, <2>1, <2>4 DEF OnGranted, Found, GoesOn
    <3>2. /\ run \in Runs /\ run.pc = "flush" /\ run.head = 1 /\ run.conflict = FALSE
          /\ run.task = io["io"].task
      <4>1. TypeOK /\ 1 \in Nat
        BY DEF Orderly, Fits
      <4> QED
        BY <1>4, <4>1, StoresIs
    <3> HIDE DEF run
    <3>3. disk'.outbox = <<>> /\ disk'.conflict = FALSE
      BY <1>4, <1>5, <2>4, <3>1 DEF Disks
    <3>4. OneAtATime' /\ NoConflict' /\ io'["io"] = run
      BY <3>1, <3>2, <3>3, AnswerIs, WorkGoesOn
    <3>5. KeyIsNew'
      BY <3>3, AnswerIs DEF KeyIsNew
    <3>6. Settled'
      BY <3>3 DEF Settled
    <3>7. AtIt(io["io"])'
      BY <1>5, <2>1, <3>2, <3>3, <3>4, AnswerIs DEF AtIt
    <3> QED
      BY <2>2, <3>4, <3>5, <3>6, <3>7 DEF InOrder
  <2> QED
    BY <2>3, <2>4
<1>7. CASE ~Granted(a)
  <2> DEFINE run == [io["io"] EXCEPT !.pc = "find"]
  <2>1. server' = server /\ (server.head = 0 \/ (server.head = 1 /\ disk.doc # server.created))
    BY <1>1, <1>2, <1>3, <1>4, <1>5, <1>7, CreatedIs
  <2>2. Set("io", run) /\ UNCHANGED <<disk, results>>
    BY <1>1, <1>7 DEF OnRefused
  <2>3. /\ run \in Runs /\ run.pc = "find" /\ run.task = io["io"].task
        /\ run.conflict = FALSE
    BY <1>4, AnswerIs DEF Runs, Waiting
  <2> HIDE DEF run
  <2>4. /\ OneAtATime' /\ NoConflict' /\ KeyIsNew' /\ HeadIsKnown'
        /\ Settling' \/ Settled'
        /\ io'["io"] = run
    BY <2>1, <2>2, <2>3, AnswerIs, QuietWork
  <2>5. AtIt(io["io"])'
    BY <1>5, <2>1, <2>2, <2>3, <2>4, AnswerIs DEF AtIt
  <2> QED
    BY <2>4, <2>5 DEF InOrder
<1> QED
  BY <1>6, <1>7

LEMMA FindInOrder ==
  ASSUME Orderly, Answered("io"), io["io"].pc = "find"
  PROVE  InOrder'
<1> DEFINE r == RequestOf("io")
           head == server.head
           run == GoesOn("io", "flush", head)
<1>1. PICK a \in Answers(server, r) :
        /\ server' = a.server
        /\ IF Granted(a) THEN OnGranted("io", a, r) ELSE OnRefused("io", a.status)
  BY DEF Answered
<1>2. r \in Requests /\ r.op = "get"
  BY RequestTyped DEF Orderly, Fits, Threads
<1>3. ui.head = 0 /\ (server.head = 0 \/ (server.head = 1 /\ disk.doc # server.created))
  BY DEF Orderly, InOrder, AtIt
<1>4. server \in ServerRows /\ disk \in Disks /\ io["io"] \in Runs /\ "io" \in Threads
  BY Types DEF Orderly, Fits, Threads
<1>5. CASE server.head = 0
  <2>1. a = Answer("refused", server)
    BY <1>1, <1>2, <1>5 DEF Answers
  <2>2. a.status = "refused" /\ a.server = server
    BY <2>1 DEF Answer
  <2>3. server' = server /\ Failed("io") /\ disk' = disk
    BY <1>1, <2>2 DEF Granted, OnRefused
  <2> QED
    BY <1>5, <2>3, AnswerIs, FailedInOrder
<1>6. CASE server.head = 1 /\ disk.doc # server.created
  <2>1. a.status = "ok" /\ a.server = server
    <3>1. a = Answer("ok", server)
      BY <1>1, <1>2, <1>6 DEF Answers
    <3> QED
      BY <3>1 DEF Answer
  <2>2. Granted(a) /\ HeadIn(a, r) = head /\ head \in Nat /\ server' = server
    BY <1>1, <1>4, <2>1 DEF Granted, HeadIn, ServerRows
  <2>3. /\ Set("io", run) /\ UNCHANGED results
        /\ disk' = [disk EXCEPT !.head = head, !.conflict = FALSE]
    BY <1>1, <2>2 DEF OnGranted, Found, GoesOn
  <2> HIDE DEF head
  <2>4. /\ run \in Runs /\ run.pc = "flush" /\ run.head = head /\ run.conflict = FALSE
        /\ run.task = io["io"].task
    BY <1>4, <2>2, StoresIs DEF Orderly, Fits
  <2> HIDE DEF run
  <2>5. /\ disk'.outbox = disk.outbox /\ disk'.key = disk.key /\ disk'.doc = disk.doc
        /\ disk'.conflict = FALSE
    BY <1>4, <2>3 DEF Disks
  <2>6. /\ OneAtATime' /\ NoConflict' /\ KeyIsNew' /\ HeadIsKnown'
        /\ Settling' \/ Settled'
        /\ io'["io"] = run
    BY <2>2, <2>3, <2>4, <2>5, AnswerIs, QuietWork
  <2>7. AtIt(io["io"])'
    BY <1>3, <1>6, <2>2, <2>4, <2>5, <2>6, AnswerIs DEF AtIt, head
  <2> QED
    BY <2>6, <2>7 DEF InOrder
<1> QED
  BY <1>3, <1>5, <1>6

\* The queue is applied, unless it cannot be; then it will not be the next time either.
LEMMA ChangeInOrder ==
  ASSUME Orderly, Answered("io"), io["io"].pc = "change"
  PROVE  InOrder'
<1> DEFINE r == RequestOf("io")
<1>1. PICK a \in Answers(server, r) :
        /\ server' = a.server
        /\ IF Granted(a) THEN OnGranted("io", a, r) ELSE OnRefused("io", a.status)
  BY DEF Answered
<1>2. /\ r \in Requests /\ r.op = "change" /\ r.base = server.head
      /\ r.ops = disk.outbox /\ r.key = disk.key
  BY RequestTyped DEF Orderly, Fits, InOrder, AtIt, Threads
<1>3. /\ io["io"].ops = disk.outbox /\ disk.outbox # <<>> /\ server.head # 0
  BY DEF Orderly, InOrder, AtIt
<1>4. server \in ServerRows /\ IsFiniteSet(server.filed) /\ "io" \in Threads
  BY Types DEF Orderly, Fits, KeysAreFew, Threads
<1>5. a = Changed(server, r)
  BY <1>1, <1>2 DEF Answers
<1>6. \A f \in server.filed : f.key # r.key
  BY <1>2, <1>3 DEF Orderly, InOrder, KeyIsNew, Filed
<1>7. CASE Applicable(server, disk.outbox)
  <2> DEFINE head == a.server.head
             run == Drops("io", "dropSent", head)
  <2>1. Granted(a) /\ HeadIn(a, r) = head
    BY <1>2, <1>4, <1>5, <1>6, <1>7, ChangedIs
  <2>2. head \in Nat
    BY <1>2, <1>4, <1>5, ChangedTyped DEF ServerRows
  <2>3. Set("io", run) /\ UNCHANGED <<disk, results>>
    BY <1>1, <2>1 DEF OnGranted, Drops, GoesOn
  <2>4. server'.head = head
    BY <1>1
  <2> HIDE DEF head
  <2>5. /\ run \in Runs /\ run.pc = "dropSent" /\ run.head = head /\ run.conflict = FALSE
        /\ run.task = io["io"].task /\ run.left = Unsent("io")
    BY <1>4, <2>2, DropsIs DEF Orderly, Fits
  <2> HIDE DEF run
  <2>6. run.left = <<>>
    BY <1>3, <1>4, <2>5, UnsentTyped DEF Orderly, Fits
  <2>7. io["io"].task = "sync"
    BY <1>3, <1>7, AtWork DEF Settled
  <2>8. OneAtATime' /\ NoConflict' /\ io'["io"] = run
    BY <2>3, <2>5, AnswerIs, WorkGoesOn
  <2>9. KeyIsNew' /\ HeadIsKnown' /\ Settling'
    BY <2>5, <2>7, <2>8, AnswerIs DEF KeyIsNew, HeadIsKnown, Settling
  <2>10. AtIt(io["io"])'
    BY <2>4, <2>5, <2>6, <2>7, <2>8 DEF AtIt
  <2> QED
    BY <2>8, <2>9, <2>10 DEF InOrder
<1>8. CASE ~Applicable(server, disk.outbox)
  <2>1. ~Granted(a) /\ a.status = "refused" /\ server' = server
    BY <1>1, <1>2, <1>4, <1>5, <1>6, <1>8, ChangedIs
  <2>2. Failed("io") /\ disk' = disk
    BY <1>1, <2>1 DEF OnRefused
  <2> QED
    BY <1>8, <2>1, <2>2, AnswerIs, FailedInOrder
<1> QED
  BY <1>7, <1>8

LEMMA GenerateInOrder ==
  ASSUME Orderly, Answered("io"), io["io"].pc = "generate"
  PROVE  InOrder'
<1> DEFINE r == RequestOf("io")
<1>1. PICK a \in Answers(server, r) :
        /\ server' = a.server
        /\ IF Granted(a) THEN OnGranted("io", a, r) ELSE OnRefused("io", a.status)
  BY DEF Answered
<1>2. r \in Requests /\ r.op = "generate" /\ r.base = server.head
  BY RequestTyped DEF Orderly, Fits, InOrder, AtIt, Threads
<1>3. disk.outbox = <<>> /\ io["io"].task = "generate"
  BY DEF Orderly, InOrder, AtIt
<1>4. /\ server \in ServerRows /\ disk \in Disks /\ IsFiniteSet(server.filed)
      /\ "io" \in Threads
  BY Types DEF Orderly, Fits, KeysAreFew, Threads
<1>5. a \in Generated(server, r)
  BY <1>1, <1>2 DEF Answers
<1>6. CASE Granted(a)
  <2> DEFINE head == a.server.head
             run == GoesOn("io", "clear", head)
  <2>1. HeadIn(a, r) = head
    BY <1>2, <1>4, <1>5, <1>6, GeneratedIs
  <2>2. head \in Nat
    BY <1>2, <1>4, <1>5, GeneratedTyped DEF ServerRows
  <2>3. /\ Set("io", run) /\ UNCHANGED results
        /\ disk' = [disk EXCEPT !.doc = Document(a.server)]
    BY <1>1, <1>6, <2>1 DEF OnGranted, GoesOn
  <2>4. server'.head = head
    BY <1>1
  <2> HIDE DEF head
  <2>5. /\ run \in Runs /\ run.pc = "clear" /\ run.head = head /\ run.conflict = FALSE
        /\ run.task = "generate"
    BY <1>3, <1>4, <2>2, StoresIs DEF Orderly, Fits
  <2> HIDE DEF run
  <2>6. disk'.outbox = <<>> /\ disk'.conflict = disk.conflict
    BY <1>3, <1>4, <2>3 DEF Disks
  <2>7. OneAtATime' /\ NoConflict' /\ io'["io"] = run
    BY <1>3, <2>3, <2>5, <2>6, AnswerIs, WorkGoesOn
  <2>8. KeyIsNew' /\ HeadIsKnown' /\ Settled'
    BY <2>5, <2>6, <2>7, AnswerIs DEF KeyIsNew, HeadIsKnown, Settled
  <2>9. AtIt(io["io"])'
    BY <2>4, <2>5, <2>6, <2>7 DEF AtIt
  <2> QED
    BY <2>7, <2>8, <2>9 DEF InOrder
<1>7. CASE ~Granted(a)
  <2>1. a.status = "refused" /\ server' = server
    BY <1>1, <1>2, <1>4, <1>5, <1>7, GeneratedIs
  <2>2. Failed("io") /\ disk' = disk
    BY <1>1, <1>7, <2>1 DEF OnRefused
  <2> QED
    BY <1>3, <2>1, <2>2, AnswerIs, FailedInOrder
<1> QED
  BY <1>6, <1>7

LEMMA AnsweredInOrder ==
  ASSUME Orderly, Answered("io"), Calm'
  PROVE  InOrder'
  BY AnswerIs, CreateInOrder, FindInOrder, ChangeInOrder, GenerateInOrder

LEMMA InitInOrder == Init => InOrder
<1> SUFFICES ASSUME Init
             PROVE  InOrder
  OBVIOUS
<1> DEFINE order == [task |-> "sync", head |-> 0, conflict |-> FALSE]
<1>1. order.task = "sync" /\ order.head = 0 /\ order.conflict = FALSE
  OBVIOUS
<1>2. queue = <<order>> /\ results = <<>> /\ late = {} /\ io = [t \in Threads |-> Resting]
  BY DEF Init
<1> HIDE DEF order
<1>3. Len(queue) = 1 /\ DOMAIN queue = {1} /\ queue[1] = order
  BY <1>2
<1>4. io["io"] = Resting /\ io["old"] = Resting
  BY <1>2 DEF Threads
<1>5. Resting.pc = "idle" /\ Resting.task = "sync" /\ Resting.conflict = FALSE
  BY DEF Resting
<1>6. server.head = 0 /\ disk.outbox = <<>> /\ disk.conflict = FALSE
  BY DEF Init
<1>7. ui.pc = "idle" /\ ui.head = 0 /\ ui.conflict = FALSE
  BY DEF Init, Shown
<1>8. OneAtATime /\ NoConflict
  BY <1>1, <1>2, <1>3, <1>4, <1>5, <1>6, <1>7 DEF OneAtATime, NoConflict
<1>9. KeyIsNew /\ HeadIsKnown /\ Settled
  BY <1>4, <1>5, <1>6, <1>7 DEF KeyIsNew, HeadIsKnown, Known, Settled
<1>10. AtIt(io["io"])
  BY <1>4, <1>5 DEF AtIt
<1> QED
  BY <1>8, <1>9, <1>10 DEF InOrder

\* What was seen stays seen.
LEMMA SeenStays ==
  ASSUME [Next]_vars
  PROVE  seen \subseteq seen'
<1>1. CASE Main
  BY <1>1 DEF Main, Edit, Undo, Enqueue, Save, Press, RequestGeneration, ApplyOutcome,
              SignIn, SignOut, Note
<1>2. CASE Begin
  BY <1>2 DEF Begin
<1>3. ASSUME NEW t \in Threads, Executor(t)
      PROVE  seen \subseteq seen'
  <2>1. CASE Answered(t)
    BY <2>1 DEF Answered
  <2>2. CASE \/ Sync(t) \/ Post(t) \/ Flush(t) \/ TakeKey(t) \/ Drop(t) \/ Again(t)
             \/ Synced(t) \/ Clear(t)
    BY <2>2 DEF Sync, Post, Flush, TakeKey, Drop, Again, Synced, Clear
  <2> QED
    BY <1>3, <2>1, <2>2 DEF Executor
<1>4. CASE World
  BY <1>4 DEF World, Unanswered, Arrives, OtherDevice, Removal, Kill, Recreate, Note
<1>5. CASE UNCHANGED vars
  BY <1>5 DEF vars
<1> QED
  BY <1>1, <1>2, <1>3, <1>4, <1>5 DEF Next

\* The world is calm as long as no mishap is seen.
LEMMA WorldIsCalm ==
  ASSUME Orderly, World, Calm'
  PROVE  FALSE
<1>1. late = {}
  BY DEF Orderly, InOrder, OneAtATime
<1>2. CASE \E t \in Threads : Unanswered(t)
  BY <1>2 DEF Unanswered, Note, Calm
<1>3. CASE \E o \in Others : OtherDevice(o)
  BY <1>3 DEF OtherDevice, Note, Calm
<1>4. CASE Kill \/ Recreate
  BY <1>4 DEF Kill, Recreate, Note, Calm
<1>5. CASE \E edits \in SUBSET ((Edits \ Spare) \cup server.doc) : Removal(edits)
  BY <1>5 DEF Removal, Note, Calm
<1> QED
  BY <1>1, <1>2, <1>3, <1>4, <1>5 DEF World

\* The thread of an activity that is gone has nothing to do.
LEMMA OldRests ==
  ASSUME Orderly, Executor("old")
  PROVE  FALSE
<1>1. io["old"].pc = "idle"
  BY DEF Orderly, InOrder, OneAtATime
<1> QED
  BY <1>1 DEF Executor, Sync, Post, Flush, TakeKey, Drop, Again, Synced, Clear, Answered,
              Waiting

LEMMA StepInOrder ==
  ASSUME Fits, Calm => InOrder, [Next]_vars, Calm'
  PROVE  InOrder'
<1>1. Orderly
  BY SeenStays DEF Calm, Orderly
<1>2. CASE Main
  BY <1>1, <1>2, EditInOrder, UndoInOrder, EnqueueInOrder, SaveInOrder, PressInOrder,
     GenerationInOrder, OutcomeInOrder, SignInInOrder, SignOutIsSeen DEF Main
<1>3. CASE Begin
  BY <1>1, <1>3, BeginInOrder
<1>4. CASE \E t \in Threads : Executor(t)
  <2>1. Executor("io")
    BY <1>1, <1>4, OldRests DEF Threads
  <2> QED
    BY <1>1, <2>1, SyncInOrder, PostInOrder, FlushInOrder, TakeKeyInOrder, DropInOrder,
       AgainInOrder, SyncedInOrder, ClearInOrder, AnsweredInOrder DEF Executor
<1>5. CASE World
  BY <1>1, <1>5, WorldIsCalm
<1>6. CASE UNCHANGED vars
  <2>1. UNCHANGED <<server, late, disk, ui, queue, io, results>>
    BY <1>6 DEF vars
  <2> QED
    BY <1>1, <2>1 DEF Orderly, InOrder, OneAtATime, NoConflict, KeyIsNew, Filed,
                      HeadIsKnown, Known, Settling, Settled, AtIt
<1> QED
  BY <1>2, <1>3, <1>4, <1>5, <1>6 DEF Next
-------------------------------------------------------------------------------
(* While nothing is refused the queue leads from the server's document to   *)
(* the one the user sees.                                                   *)

Steadily == Fits /\ Steady /\ Valid /\ InStep

\* An operation behind others comes after them.
LEMMA ThroughAppend ==
  ASSUME NEW d \in Docs, NEW ops \in Seq(Ops), NEW op \in Ops
  PROVE  /\ Append(ops, op) \in Seq(Ops) /\ Len(Append(ops, op)) = Len(ops) + 1
         /\ \A n \in 1 .. Len(ops) : Append(ops, op)[n] = ops[n]
         /\ Append(ops, op)[Len(ops) + 1] = op
         /\ \A n \in 0 .. Len(ops) : Through(d, Append(ops, op))[n] = Through(d, ops)[n]
         /\ After(d, Append(ops, op)) = Effect(After(d, ops), op)
<1> DEFINE N == Len(ops)
           more == Append(ops, op)
           before == Through(d, ops)
           after == Through(d, more)
<1>1. N \in Nat /\ more \in Seq(Ops) /\ Len(more) = N + 1
  OBVIOUS
<1>2. /\ \A n \in 1 .. N : more[n] = ops[n]
      /\ more[N + 1] = op
  OBVIOUS
<1>3. before[0] = d /\ \A n \in 1 .. N : before[n] = Effect(before[n - 1], ops[n])
  BY ThroughIs
<1> HIDE DEF before
<1>4. after[0] = d /\ \A n \in 1 .. N + 1 : after[n] = Effect(after[n - 1], more[n])
  BY <1>1, ThroughIs
<1> HIDE DEF after, more
<1> DEFINE S == {n \in 0 .. N : after[n] = before[n]}
<1>5. 0 \in S
  BY <1>1, <1>3, <1>4
<1>6. ASSUME NEW n \in 1 .. N, n - 1 \in S
      PROVE  n \in S
  <2>1. n \in 1 .. N + 1 /\ n \in 0 .. N
    BY <1>1
  <2>2. after[n] = Effect(after[n - 1], more[n]) /\ before[n] = Effect(before[n - 1], ops[n])
    BY <1>3, <1>4, <2>1
  <2> QED
    BY <1>2, <1>6, <2>1, <2>2
<1> HIDE DEF S
<1>7. \A n \in 0 .. N : n \in S
  BY <1>1, <1>5, <1>6, UpTo
<1>8. \A n \in 0 .. N : after[n] = before[n]
  BY <1>7 DEF S
<1>9. after[N + 1] = Effect(before[N], op)
  <2>1. N + 1 \in 1 .. N + 1 /\ N + 1 - 1 = N /\ N \in 0 .. N
    BY <1>1
  <2> QED
    BY <1>2, <1>4, <1>8, <2>1
<1> QED
  BY <1>1, <1>2, <1>8, <1>9 DEF After, after, before, more

LEMMA ApplicableAppend ==
  ASSUME NEW s \in ServerRows, NEW ops \in Seq(Ops), NEW op \in Ops, Applicable(s, ops),
         op \notin s.applied, op.undo <=> op.edit \in After(s.doc, ops),
         Len(Append(ops, op)) <= MaxBatch, op.edit \notin s.gone,
         op.edit \in Unfit => op.undo
  PROVE  Applicable(s, Append(ops, op))
<1> DEFINE N == Len(ops)
           more == Append(ops, op)
<1>1. s.doc \in Docs
  BY DEF ServerRows
<1>2. /\ N \in Nat /\ DOMAIN more = 1 .. N + 1 /\ DOMAIN ops = 1 .. N
      /\ \A n \in 1 .. N : more[n] = ops[n]
      /\ more[N + 1] = op
  OBVIOUS
<1>3. \A n \in 0 .. N : Through(s.doc, more)[n] = Through(s.doc, ops)[n]
  BY <1>1, ThroughAppend
<1> HIDE DEF more
<1>4. ASSUME NEW i \in DOMAIN more
      PROVE  /\ more[i] \notin s.applied
             /\ more[i].undo <=> more[i].edit \in Through(s.doc, more)[i - 1]
             /\ more[i].edit \notin s.gone
             /\ more[i].edit \in Unfit => more[i].undo
  <2>1. CASE i \in 1 .. N
    <3>1. i - 1 \in 0 .. N /\ i \in DOMAIN ops
      BY <1>2, <2>1
    <3> QED
      BY <1>2, <1>3, <2>1, <3>1 DEF Applicable
  <2>2. CASE i = N + 1
    <3>1. i - 1 = N /\ N \in 0 .. N
      BY <1>2, <2>2
    <3>2. Through(s.doc, more)[i - 1] = After(s.doc, ops)
      BY <1>3, <3>1 DEF After
    <3> QED
      BY <1>2, <2>2, <3>2
  <2> QED
    BY <1>2, <2>1, <2>2
<1> QED
  BY <1>4 DEF Applicable, more

LEMMA NothingQueued ==
  ASSUME NEW s \in ServerRows
  PROVE  Applicable(s, <<>>) /\ After(s.doc, <<>>) = s.doc /\ ToSet(<<>>) = {}
<1>1. s.doc \in Docs /\ <<>> \in Seq(Ops) /\ Len(<<>>) = 0
  BY DEF ServerRows
<1>2. After(s.doc, <<>>) = s.doc
  BY <1>1, ThroughIs DEF After
<1> QED
  BY <1>1, <1>2, BatchAssumption DEF Applicable, ToSet

\* The edits of others do not matter to operations.
LEMMA ThroughAlike ==
  ASSUME NEW d \in Docs, NEW c \in Docs, d \cap Edits = c \cap Edits, NEW ops \in Seq(Ops)
  PROVE  \A n \in 0 .. Len(ops) : Through(d, ops)[n] \cap Edits = Through(c, ops)[n] \cap Edits
<1> DEFINE N == Len(ops)
           f == Through(d, ops)
           g == Through(c, ops)
<1>1. f[0] = d /\ \A n \in 1 .. N : f[n] = Effect(f[n - 1], ops[n])
  BY ThroughIs
<1>2. g[0] = c /\ \A n \in 1 .. N : g[n] = Effect(g[n - 1], ops[n])
  BY ThroughIs
<1> HIDE DEF f, g
<1>3. N \in Nat
  OBVIOUS
<1> DEFINE S == {n \in 0 .. N : f[n] \cap Edits = g[n] \cap Edits}
<1>4. 0 \in S
  BY <1>1, <1>2, <1>3
<1>5. ASSUME NEW n \in 1 .. N, n - 1 \in S
      PROVE  n \in S
  <2>1. n \in 0 .. N
    BY <1>3
  <2>2. f[n - 1] \cap Edits = g[n - 1] \cap Edits
    BY <1>5
  <2>3. f[n] \cap Edits = g[n] \cap Edits
    BY <1>1, <1>2, <2>2 DEF Effect
  <2> QED
    BY <2>1, <2>3
<1> HIDE DEF S
<1>6. \A n \in 0 .. N : n \in S
  BY <1>3, <1>4, <1>5, UpTo
<1> QED
  BY <1>6 DEF S, f, g

LEMMA ApplicableAlike ==
  ASSUME NEW s \in ServerRows, NEW r \in ServerRows, s.applied = r.applied, s.gone = r.gone,
         s.doc \cap Edits = r.doc \cap Edits, NEW ops \in Seq(Ops), Applicable(s, ops)
  PROVE  /\ Applicable(r, ops)
         /\ After(r.doc, ops) \cap Edits = After(s.doc, ops) \cap Edits
<1>1. s.doc \in Docs /\ r.doc \in Docs
  BY DEF ServerRows
<1> DEFINE N == Len(ops)
<1>2. \A n \in 0 .. N : Through(s.doc, ops)[n] \cap Edits = Through(r.doc, ops)[n] \cap Edits
  BY <1>1, ThroughAlike
<1>3. ASSUME NEW i \in DOMAIN ops
      PROVE  /\ ops[i] \notin r.applied
             /\ ops[i].undo <=> ops[i].edit \in Through(r.doc, ops)[i - 1]
             /\ ops[i].edit \notin r.gone
             /\ ops[i].edit \in Unfit => ops[i].undo
  <2>1. i - 1 \in 0 .. N
    OBVIOUS
  <2>2. ops[i].edit \in Edits
    <3>1. ops[i] \in Ops
      OBVIOUS
    <3> QED
      BY <3>1 DEF Ops
  <2>3. ops[i].edit \in Through(s.doc, ops)[i - 1]
          <=> ops[i].edit \in Through(r.doc, ops)[i - 1]
    BY <1>2, <2>1, <2>2
  <2> QED
    BY <2>3 DEF Applicable
<1>4. N \in 0 .. N
  OBVIOUS
<1> QED
  BY <1>2, <1>3, <1>4 DEF Applicable, After

\* Only its inverse takes an edit out of a document.
LEMMA TakenBack ==
  ASSUME NEW d \in Docs, NEW ops \in Seq(Ops), NEW e \in d, e \notin After(d, ops)
  PROVE  Revert(e) \in ToSet(ops)
<1> SUFFICES ASSUME Revert(e) \notin ToSet(ops)
             PROVE  e \in After(d, ops)
  OBVIOUS
<1> DEFINE N == Len(ops)
           f == Through(d, ops)
<1>1. f[0] = d /\ \A n \in 1 .. N : f[n] = Effect(f[n - 1], ops[n])
  BY ThroughIs
<1> HIDE DEF f
<1>2. N \in Nat /\ \A n \in 1 .. N : ops[n] \in Ops /\ ops[n] # Revert(e)
  BY DEF ToSet
<1> DEFINE S == {n \in 0 .. N : e \in f[n]}
<1>3. 0 \in S
  BY <1>1, <1>2
<1>4. ASSUME NEW n \in 1 .. N, n - 1 \in S
      PROVE  n \in S
  <2>1. n \in 0 .. N /\ e \in f[n - 1]
    BY <1>2, <1>4
  <2>2. ops[n].undo => ops[n].edit # e
    <3>1. ops[n] \in Ops /\ ops[n] # Revert(e)
      BY <1>2
    <3> QED
      BY <3>1 DEF Ops, Revert
  <2>3. e \in f[n]
    BY <1>1, <2>1, <2>2 DEF Effect
  <2> QED
    BY <2>1, <2>3
<1> HIDE DEF S
<1>5. \A n \in 0 .. N : n \in S
  BY <1>2, <1>3, <1>4, UpTo
<1>6. N \in S
  BY <1>2, <1>5
<1> QED
  BY <1>6 DEF S, f, After

\* What touches neither the documents nor the queue.
LEMMA FitStays ==
  ASSUME QueueFits, FramesFit, server' = server, made' = made, seen \subseteq seen',
         ui'.undo = ui.undo, Standing' = Standing, Drawn' = Drawn
  PROVE  QueueFits' /\ FramesFit'
<1>1. QueueFits'
  BY DEF QueueFits, Leads, Same, Meant
<1>2. FramesFit'
  BY DEF FramesFit, FrameFits, Leads, Same, Meant
<1> QED
  BY <1>1, <1>2

\* Frames whose edits the server has.
LEMMA FramesPass ==
  ASSUME TypeOK, FramesFit, made' = made, ui'.undo = ui.undo, Drawn' = Drawn,
         Drawn \cap Edits \subseteq server'.doc
  PROVE  FramesFit'
<1>1. made.all \subseteq Edits
  BY Types
<1> QED
  BY <1>1 DEF FramesFit, FrameFits, Meant

\* One more operation, and the document after it.
LEMMA LeadsMore ==
  ASSUME TypeOK, NEW ops \in Seq(Ops), NEW doc, NEW op \in Ops, Leads(server, seen, ops, doc),
         op \notin server.applied, op.undo <=> op.edit \in doc,
         ~op.undo => op.edit \notin server.doc,
         Len(Append(ops, op)) <= MaxBatch, op.edit \notin server.gone,
         op.edit \in Unfit => op.undo
  PROVE  Leads(server, seen, Append(ops, op), Effect(doc, op))
<1> SUFFICES ASSUME server.head # 0
             PROVE  /\ Applicable(server, Append(ops, op))
                    /\ Same(seen, After(server.doc, Append(ops, op)), Effect(doc, op))
                    /\ \A o \in ToSet(Append(ops, op)) : ~o.undo => o.edit \notin server.doc
  BY DEF Leads
<1>1. /\ Applicable(server, ops) /\ Same(seen, After(server.doc, ops), doc)
      /\ \A o \in ToSet(ops) : ~o.undo => o.edit \notin server.doc
  BY DEF Leads
<1>2. server \in ServerRows /\ server.doc \in Docs /\ op.edit \in Edits
  BY Types DEF ServerRows, Ops
<1>3. op.undo <=> op.edit \in After(server.doc, ops)
  BY <1>1, <1>2 DEF Same
<1>4. Applicable(server, Append(ops, op))
  BY <1>1, <1>2, <1>3, ApplicableAppend
<1>5. After(server.doc, Append(ops, op)) = Effect(After(server.doc, ops), op)
  BY <1>2, ThroughAppend
<1>6. Same(seen, Effect(After(server.doc, ops), op), Effect(doc, op))
  BY <1>1 DEF Same, Effect
<1>7. \A o \in ToSet(Append(ops, op)) : ~o.undo => o.edit \notin server.doc
  BY <1>1, AppendSet
<1> QED
  BY <1>4, <1>5, <1>6, <1>7

LEMMA OpsTyped ==
  ASSUME NEW e \in Edits
  PROVE  /\ Do(e) \in Ops /\ Do(e).edit = e /\ ~Do(e).undo
         /\ Revert(e) \in Ops /\ Revert(e).edit = e /\ Revert(e).undo
  BY DEF Do, Revert, Ops

\* What the server accepts of an edit, and of undoing one.
LEMMA EditIsValid ==
  ASSUME TypeOK, NEW e \in Edits, Edit(e), Steady'
  PROVE  e \notin Unfit /\ Len(Append(disk.outbox, Do(e))) <= MaxBatch
<1>1. seen' = seen \cup (Overlap \cup Outgrown(Outbox(Do(e))) \cup Refusable(e))
  BY DEF Edit, Note
<1>2. Refusable(e) = {} /\ Outgrown(Outbox(Do(e))) = {}
  BY <1>1 DEF Steady, Refusable, Outgrown
<1>3. Append(disk.outbox, Do(e)) \in Seq(Ops)
  BY Types, OpsTyped DEF Disks
<1> QED
  BY <1>2, <1>3, BatchAssumption DEF Refusable, Outgrown, Outbox

LEMMA UndoIsValid ==
  ASSUME TypeOK, Undo, ui'.out \in Seq(Ops), Steady'
  PROVE  Len(ui'.out) <= MaxBatch
<1>1. Outgrown(ui'.out) \subseteq seen'
  BY DEF Undo, Note
<1>2. Outgrown(ui'.out) = {}
  BY <1>1 DEF Steady, Outgrown
<1> QED
  BY <1>2, BatchAssumption DEF Outgrown

LEMMA EditFits ==
  ASSUME Steadily, NEW e \in Edits, Edit(e), Steady'
  PROVE  QueueFits' /\ FramesFit'
<1> DEFINE frame == [doc |-> disk.doc, outbox |-> disk.outbox, edit |-> e, past |-> FALSE]
           more == Append(disk.outbox, Do(e))
           doc == disk.doc \cup {e}
<1>1. /\ ui.pc = "idle" /\ io["io"].pc = "idle" /\ e \notin made.all
      /\ UNCHANGED <<server, disk, io>> /\ seen \subseteq seen'
  BY NotBusy DEF Edit, Note
<1>2. /\ ui'.pc = "enqueue" /\ ui'.out = more /\ ui'.doc = doc
      /\ ui'.undo = <<frame>> \o ui.undo
  BY Types DEF Steadily, Fits, Edit, Screens, Outbox
<1>3. made'.all = made.all \cup {e} /\ made'.undone = made.undone
  BY Types DEF Steadily, Fits, Edit
<1>4. Standing = disk.outbox /\ Drawn = disk.doc
  BY <1>1 DEF Standing, Drawn
<1>5. Standing' = more /\ Drawn' = doc
  BY <1>2 DEF Standing, Drawn
<1>6. /\ TypeOK /\ disk.outbox \in Seq(Ops) /\ disk.doc \in Docs
      /\ ui.undo \in Seq(Frames)
  BY Types DEF Steadily, Fits, Disks, Screens, Frames
<1>7. /\ frame.doc = disk.doc /\ frame.outbox = disk.outbox /\ frame.edit = e
      /\ ~frame.past /\ frame \in Frames
  BY <1>6 DEF Frames
<1> HIDE DEF frame, more
<1>8. QueueFits
  BY DEF Steadily, InStep
<1>9. e \notin disk.doc /\ e \notin server.doc /\ e \notin made.undone
  BY <1>1, <1>4, <1>8 DEF QueueFits
<1>10. Leads(server, seen, disk.outbox, disk.doc)
  BY <1>4, <1>8 DEF QueueFits
<1>11. Leads(server, seen, more, doc)
  <2>1. Do(e) \notin server.applied
    BY <1>1, <1>8, OpsTyped DEF QueueFits, Meant
  <2>2. Effect(disk.doc, Do(e)) = doc
    BY OpsTyped DEF Effect
  <2>3. Leads(server, seen, Append(disk.outbox, Do(e)), Effect(disk.doc, Do(e)))
    <3>1. Len(Append(disk.outbox, Do(e))) <= MaxBatch /\ e \notin Unfit
      BY <1>6, EditIsValid
    <3>2. e \notin server.gone
      BY DEF Steadily, Valid
    <3> QED
      BY <1>6, <1>9, <1>10, <2>1, <2>2, <3>1, <3>2, OpsTyped, LeadsMore
  <2> QED
    BY <2>2, <2>3 DEF more
<1>12. QueueFits'
  <2>1. Leads(server', seen', Standing', Drawn')
    BY <1>1, <1>5, <1>11 DEF Leads, Same
  <2>2. Meant(made', ToSet(Standing')) /\ Meant(made', server'.applied)
    <3>1. ToSet(more) = ToSet(disk.outbox) \cup {Do(e)}
      BY <1>6, OpsTyped, AppendSet DEF more
    <3> QED
      BY <1>1, <1>3, <1>4, <1>5, <1>8, <3>1, OpsTyped DEF QueueFits, Meant
  <2> QED
    BY <1>1, <1>3, <1>4, <1>5, <1>8, <2>1, <2>2 DEF QueueFits
<1>13. FramesFit'
  <2> SUFFICES ASSUME NEW i \in DOMAIN ui'.undo
               PROVE  FrameFits(i)'
    BY DEF FramesFit
  <2>1. /\ ui'.undo[1] = frame /\ Len(ui.undo) \in Nat
        /\ DOMAIN ui'.undo = 1 .. Len(ui.undo) + 1 /\ DOMAIN ui.undo = 1 .. Len(ui.undo)
        /\ \A j \in DOMAIN ui.undo : ui'.undo[j + 1] = ui.undo[j]
    BY <1>2, <1>6, <1>7
  <2>2. \A j \in DOMAIN ui.undo : FrameFits(j)
    BY DEF Steadily, InStep, FramesFit
  <2>3. ASSUME NEW j \in DOMAIN ui'.undo, j # 1
        PROVE  j - 1 \in DOMAIN ui.undo /\ ui'.undo[j] = ui.undo[j - 1]
    <3>1. j - 1 \in DOMAIN ui.undo /\ (j - 1) + 1 = j
      BY <2>1, <2>3
    <3> QED
      BY <2>1, <3>1
  <2>4. \A j \in DOMAIN ui.undo : ui.undo[j].edit # e
    BY <1>1, <2>2 DEF FrameFits
  <2>5. CASE i = 1
    <3>1. \A j \in DOMAIN ui'.undo : j # i => ui'.undo[j].edit # e
      BY <2>3, <2>4, <2>5
    <3>2. Meant(made', ToSet(disk.outbox))
      BY <1>1, <1>3, <1>4, <1>8 DEF QueueFits, Meant
    <3>3. Leads(server', seen', disk.outbox, disk.doc)
      BY <1>1, <1>10 DEF Leads, Same
    <3>4. Leads(server', seen', frame.outbox, frame.doc) /\ Meant(made', ToSet(frame.outbox))
      BY <1>1, <1>7, <3>2, <3>3 DEF Leads, Same, Meant
    <3> QED
      BY <1>1, <1>3, <1>5, <1>7, <1>9, <2>1, <2>5, <3>1, <3>4 DEF FrameFits
  <2>6. CASE i # 1
    <3> DEFINE f == ui.undo[i - 1]
    <3>1. i - 1 \in DOMAIN ui.undo /\ ui'.undo[i] = f
      BY <2>3, <2>6
    <3>2. FrameFits(i - 1)
      BY <2>2, <3>1
    <3>3. f.edit \in made'.all \ made'.undone /\ Meant(made', ToSet(f.outbox))
      BY <1>3, <3>2 DEF FrameFits, Meant
    <3>4. \A j \in DOMAIN ui'.undo : j # i => ui'.undo[j].edit # f.edit
      <4> SUFFICES ASSUME NEW j \in DOMAIN ui'.undo, j # i
                   PROVE  ui'.undo[j].edit # f.edit
        OBVIOUS
      <4>1. CASE j = 1
        BY <1>7, <2>1, <2>4, <3>1, <4>1
      <4>2. CASE j # 1
        <5>1. j - 1 \in DOMAIN ui.undo /\ ui'.undo[j] = ui.undo[j - 1]
          BY <2>3, <4>2
        <5>2. j - 1 # i - 1
          BY <2>1
        <5> QED
          BY <3>2, <5>1, <5>2 DEF FrameFits
      <4> QED
        BY <4>1, <4>2
    <3>5. ASSUME ~f.past
          PROVE  /\ f.edit \notin f.doc /\ f.edit \in doc
                 /\ ui'.undo[i - 1].doc = f.doc \cup {f.edit}
                 /\ f.edit \notin server'.doc => Leads(server', seen', f.outbox, f.doc)
      <4>1. /\ f.edit \notin f.doc /\ f.edit \in disk.doc
            /\ (IF i - 1 = 1 THEN disk.doc ELSE ui.undo[i - 1 - 1].doc) = f.doc \cup {f.edit}
            /\ f.edit \notin server.doc => Leads(server, seen, f.outbox, f.doc)
        BY <1>4, <3>2, <3>5 DEF FrameFits
      <4>2. ui'.undo[i - 1].doc = IF i - 1 = 1 THEN disk.doc ELSE ui.undo[i - 1 - 1].doc
        <5>1. i - 1 \in DOMAIN ui'.undo
          BY <2>1, <3>1
        <5> QED
          BY <1>7, <2>1, <2>3, <5>1
      <4>3. f.edit \notin server'.doc => Leads(server', seen', f.outbox, f.doc)
        BY <1>1, <4>1 DEF Leads, Same
      <4> QED
        BY <4>1, <4>2, <4>3
    <3> HIDE DEF f
    <3> QED
      BY <1>5, <2>6, <3>1, <3>3, <3>4, <3>5 DEF FrameFits
  <2> QED
    BY <2>5, <2>6
<1> QED
  BY <1>12, <1>13

LEMMA UndoFits ==
  ASSUME Steadily, Undo, Steady'
  PROVE  QueueFits' /\ FramesFit'
<1> DEFINE frame == Head(ui.undo)
           e == frame.edit
           more == Append(disk.outbox, Revert(e))
           out == IF StillQueued(e) THEN frame.outbox ELSE more
<1>1. /\ ui.pc = "idle" /\ io["io"].pc = "idle" /\ ui.undo # <<>>
      /\ UNCHANGED <<server, io>> /\ seen \subseteq seen'
  BY NotBusy DEF Undo, Note
<1>2. /\ ui'.pc = "enqueue" /\ ui'.out = out /\ ui'.doc = frame.doc
      /\ ui'.undo = Tail(ui.undo)
  BY Types DEF Steadily, Fits, Undo, Screens, Outbox
<1>3. made'.all = made.all /\ made'.undone = made.undone \cup {e}
  BY Types DEF Steadily, Fits, Undo
<1>4. Standing = disk.outbox /\ Drawn = disk.doc
  BY <1>1 DEF Standing, Drawn
<1>5. Standing' = out /\ Drawn' = frame.doc
  BY <1>2 DEF Standing, Drawn
<1>6. /\ TypeOK /\ disk.outbox \in Seq(Ops) /\ disk.doc \in Docs
      /\ ui.undo \in Seq(Frames)
  BY Types DEF Steadily, Fits, Disks, Screens, Frames
<1>7. /\ frame = ui.undo[1] /\ 1 \in DOMAIN ui.undo /\ frame \in Frames
      /\ Len(ui.undo) \in Nat
  BY <1>1, <1>6
<1>8. ~frame.past
  BY <1>7 DEF Undo, Note, Steady, Mishaps, Frames
<1>9. QueueFits /\ \A j \in DOMAIN ui.undo : FrameFits(j)
  BY DEF Steadily, InStep, FramesFit
<1>10. /\ e \in made.all /\ e \notin made.undone
       /\ \A j \in DOMAIN ui.undo : j # 1 => ui.undo[j].edit # e
       /\ Meant(made, ToSet(frame.outbox))
       /\ e \notin frame.doc /\ e \in disk.doc /\ disk.doc = frame.doc \cup {e}
       /\ e \notin server.doc => Leads(server, seen, frame.outbox, frame.doc)
  BY <1>4, <1>7, <1>8, <1>9 DEF FrameFits
<1>11. frame.outbox \in Seq(Ops) /\ e \in Edits
  BY <1>7 DEF Frames
<1> HIDE DEF frame, e
<1>12. Leads(server, seen, disk.outbox, disk.doc)
  BY <1>4, <1>9 DEF QueueFits
<1>13. Leads(server, seen, out, frame.doc)
  <2>1. CASE StillQueued(e)
    <3>1. server.head # 0 => e \notin server.doc
      BY <1>11, <1>12, <2>1, OpsTyped DEF StillQueued, Leads
    <3>2. Leads(server, seen, frame.outbox, frame.doc)
      BY <1>10, <3>1 DEF Leads
    <3> QED
      BY <2>1, <3>2
  <2>2. CASE ~StillQueued(e)
    <3>1. Revert(e) \notin server.applied
      BY <1>9, <1>10, <1>11, OpsTyped DEF QueueFits, Meant
    <3>2. Effect(disk.doc, Revert(e)) = frame.doc
      <4>1. disk.doc \ {e} = frame.doc
        BY <1>10
      <4> QED
        BY <1>11, <4>1, OpsTyped DEF Effect
    <3>3. Leads(server, seen, Append(disk.outbox, Revert(e)), Effect(disk.doc, Revert(e)))
      <4>1. more \in Seq(Ops) /\ ui'.out = more
        BY <1>2, <1>6, <1>11, <2>2, OpsTyped
      <4>2. Len(more) <= MaxBatch
        BY <1>6, <4>1, UndoIsValid
      <4>3. e \notin server.gone
        BY DEF Steadily, Valid
      <4> QED
        BY <1>6, <1>10, <1>11, <1>12, <3>1, <4>2, <4>3, OpsTyped, LeadsMore
    <3> QED
      BY <2>2, <3>2, <3>3
  <2> QED
    BY <2>1, <2>2
<1>14. Meant(made', ToSet(out))
  <2>1. CASE StillQueued(e)
    BY <1>3, <1>10, <2>1 DEF Meant
  <2>2. CASE ~StillQueued(e)
    <3>1. ToSet(more) = ToSet(disk.outbox) \cup {Revert(e)}
      BY <1>6, <1>11, OpsTyped, AppendSet
    <3>2. Meant(made, ToSet(disk.outbox))
      BY <1>4, <1>9 DEF QueueFits
    <3> HIDE DEF more
    <3> QED
      BY <1>3, <1>11, <2>2, <3>1, <3>2, OpsTyped DEF Meant
  <2> QED
    BY <2>1, <2>2
<1> HIDE DEF out
<1>15. QueueFits'
  <2>1. Leads(server', seen', Standing', Drawn')
    BY <1>1, <1>5, <1>13 DEF Leads, Same
  <2>2. Meant(made', ToSet(Standing')) /\ Meant(made', server'.applied)
    BY <1>1, <1>3, <1>5, <1>9, <1>14 DEF QueueFits, Meant
  <2> QED
    BY <1>1, <1>3, <1>4, <1>5, <1>9, <1>10, <2>1, <2>2 DEF QueueFits
<1>16. FramesFit'
  <2> SUFFICES ASSUME NEW i \in DOMAIN ui'.undo
               PROVE  FrameFits(i)'
    BY DEF FramesFit
  <2>1. \A j \in DOMAIN ui'.undo : j + 1 \in DOMAIN ui.undo /\ ui'.undo[j] = ui.undo[j + 1]
    BY <1>1, <1>2, <1>6
  <2> DEFINE f == ui.undo[i + 1]
  <2>2. i \in Nat \ {0} /\ DOMAIN ui'.undo \subseteq Nat \ {0}
    BY <1>1, <1>2, <1>6
  <2>3. i + 1 \in DOMAIN ui.undo /\ ui'.undo[i] = f /\ i + 1 # 1
    BY <2>1, <2>2
  <2>4. FrameFits(i + 1)
    BY <1>9, <2>3
  <2>5. /\ f.edit \in made'.all \ made'.undone /\ f.edit # e
        /\ Meant(made', ToSet(f.outbox))
    BY <1>3, <1>10, <2>3, <2>4 DEF FrameFits, Meant
  <2>6. \A j \in DOMAIN ui'.undo : j # i => ui'.undo[j].edit # f.edit
    <3> SUFFICES ASSUME NEW j \in DOMAIN ui'.undo, j # i
                 PROVE  ui'.undo[j].edit # f.edit
      OBVIOUS
    <3>1. j + 1 \in DOMAIN ui.undo /\ ui'.undo[j] = ui.undo[j + 1] /\ j + 1 # i + 1
      BY <2>1, <2>2
    <3> QED
      BY <2>4, <3>1 DEF FrameFits
  <2>7. ASSUME ~f.past
        PROVE  /\ f.edit \notin f.doc /\ f.edit \in frame.doc
               /\ (IF i = 1 THEN frame.doc ELSE ui'.undo[i - 1].doc) = f.doc \cup {f.edit}
               /\ f.edit \notin server'.doc => Leads(server', seen', f.outbox, f.doc)
    <3>1. /\ f.edit \notin f.doc /\ f.edit \in disk.doc
          /\ (IF i + 1 = 1 THEN Drawn ELSE ui.undo[i + 1 - 1].doc) = f.doc \cup {f.edit}
          /\ f.edit \notin server.doc => Leads(server, seen, f.outbox, f.doc)
      <4>1. ~ui.undo[i + 1].past
        BY <2>7
      <4>2. /\ f.edit \notin f.doc /\ f.edit \in Drawn
            /\ (IF i + 1 = 1 THEN Drawn ELSE ui.undo[i + 1 - 1].doc) = f.doc \cup {f.edit}
            /\ f.edit \notin server.doc => Leads(server, seen, f.outbox, f.doc)
        BY <2>2, <2>4, <4>1, SMTT(30) DEF FrameFits
      <4> HIDE DEF f
      <4> QED
        BY <1>4, <4>2
    <3>2. f.edit \in frame.doc
      BY <1>10, <2>5, <3>1
    <3>3. i + 1 - 1 = i /\ ui.undo[i].doc = f.doc \cup {f.edit}
      BY <2>2, <2>3, <3>1
    <3>4. (IF i = 1 THEN frame.doc ELSE ui'.undo[i - 1].doc) = ui.undo[i].doc
      <4>1. CASE i = 1
        BY <1>7, <4>1
      <4>2. CASE i # 1
        <5>1. i - 1 \in DOMAIN ui'.undo /\ i - 1 + 1 = i
          BY <1>1, <1>2, <1>6, <2>2, <4>2
        <5> QED
          BY <2>1, <4>2, <5>1
      <4> QED
        BY <4>1, <4>2
    <3>5. f.edit \notin server'.doc => Leads(server', seen', f.outbox, f.doc)
      BY <1>1, <3>1 DEF Leads, Same
    <3> QED
      BY <3>1, <3>2, <3>3, <3>4, <3>5
  <2> HIDE DEF f
  <2> QED
    BY <1>5, <2>3, <2>5, <2>6, <2>7 DEF FrameFits
<1> QED
  BY <1>15, <1>16

LEMMA EditInStep ==
  ASSUME Steadily, NEW e \in Edits, Edit(e), Steady'
  PROVE  InStep'
<1>1. /\ queue = <<>> /\ results = <<>>
      /\ io["io"].pc = "idle" /\ io["old"].pc = "idle"
  BY NotBusy DEF Edit
<1>2. /\ ui'.pc = "enqueue" /\ ui'.head = ui.head
      /\ ui'.cloud = ui.cloud /\ ui'.conflict = ui.conflict /\ ui'.rotate = TRUE
      /\ UNCHANGED <<server, late, disk, queue, io, results>> /\ seen \subseteq seen'
  BY Types DEF Steadily, Fits, Edit, Screens, Note
<1>3. OneAtATime' /\ KeyIsNew'
  BY <1>1, <1>2 DEF Steadily, InStep, OneAtATime, KeyIsNew, Filed
<1>4. AsCreated' /\ HeadsFit'
  BY <1>1, <1>2 DEF Steadily, InStep, AsCreated, Same, Heard, HeadsFit
<1>5. Underway' /\ WorkFits(io["io"])'
  BY <1>1, <1>2 DEF Underway, WorkFits
<1> QED
  BY <1>3, <1>4, <1>5, EditFits DEF InStep

LEMMA UndoInStep ==
  ASSUME Steadily, Undo, Steady'
  PROVE  InStep'
<1> DEFINE edit == Head(ui.undo).edit
<1>1. /\ queue = <<>> /\ results = <<>>
      /\ io["io"].pc = "idle" /\ io["old"].pc = "idle"
  BY NotBusy DEF Undo
<1>2. /\ ui'.pc = "enqueue" /\ ui'.head = ui.head
      /\ ui'.cloud = ui.cloud /\ ui'.conflict = ui.conflict
      /\ ui'.rotate = ~StillQueued(edit)
      /\ UNCHANGED <<server, late, queue, io, results>> /\ seen \subseteq seen'
  BY Types DEF Steadily, Fits, Undo, Screens, Note
<1>3. disk'.outbox = disk.outbox /\ disk'.key = disk.key
  BY Types DEF Steadily, Fits, Undo, Disks
<1>4. OneAtATime'
  BY <1>1, <1>2 DEF Steadily, InStep, OneAtATime
<1>5. KeyIsNew'
  <2>1. ASSUME ~ui'.rotate
        PROVE  disk'.outbox # <<>>
    <3>1. StillQueued(edit)
      BY <1>2, <2>1, Zenon
    <3>2. ToSet(<<>>) = {}
      BY DEF ToSet
    <3> QED
      BY <1>3, <3>1, <3>2 DEF StillQueued
  <2> QED
    BY <1>1, <1>2, <1>3, <2>1 DEF Steadily, InStep, KeyIsNew, Filed
<1>6. AsCreated' /\ HeadsFit'
  BY <1>1, <1>2 DEF Steadily, InStep, AsCreated, Same, Heard, HeadsFit
<1>7. Underway' /\ WorkFits(io["io"])'
  BY <1>1, <1>2 DEF Underway, WorkFits
<1> QED
  BY <1>4, <1>5, <1>6, <1>7, UndoFits DEF InStep

LEMMA EnqueueInStep ==
  ASSUME Steadily, Enqueue, Steady'
  PROVE  InStep'
<1>1. /\ ui.pc = "enqueue" /\ queue = <<>> /\ results = <<>>
      /\ io["io"].pc = "idle" /\ io["old"].pc = "idle"
  BY DEF Steadily, InStep, OneAtATime, Enqueue
<1>2. /\ ui'.pc = "save" /\ ui'.head = ui.head /\ ui'.doc = ui.doc /\ ui'.undo = ui.undo
      /\ ui'.cloud = ui.cloud /\ ui'.conflict = ui.conflict
      /\ UNCHANGED <<server, late, queue, io, results, made, seen>>
  BY Types DEF Steadily, Fits, Enqueue, Screens
<1>3. disk'.key = (IF ui.rotate THEN NewKey ELSE disk.key) /\ disk'.outbox = ui.out
  BY Types DEF Steadily, Fits, Enqueue, Disks
<1>4. OneAtATime'
  BY <1>1, <1>2 DEF Steadily, InStep, OneAtATime
<1>5. KeyIsNew'
  <2>1. ~ui.rotate => ~Filed(disk.key)
    BY <1>1 DEF Steadily, InStep, KeyIsNew
  <2>2. ~Filed(NewKey)
    BY NewKeyIs DEF Steadily, Fits
  <2>3. ~Filed(disk'.key)
    BY <1>3, <2>1, <2>2
  <2> QED
    BY <1>2, <2>3 DEF KeyIsNew, Filed
<1>6. QueueFits' /\ FramesFit'
  <2>1. Standing' = Standing /\ Drawn' = Drawn
    BY <1>1, <1>2, <1>3 DEF Standing, Drawn
  <2> QED
    BY <1>2, <2>1, FitStays DEF Steadily, InStep
<1>7. AsCreated' /\ HeadsFit'
  BY <1>1, <1>2 DEF Steadily, InStep, AsCreated, Same, Heard, HeadsFit
<1>8. Underway' /\ WorkFits(io["io"])'
  BY <1>1, <1>2 DEF Underway, WorkFits
<1> QED
  BY <1>4, <1>5, <1>6, <1>7, <1>8 DEF InStep

LEMMA SaveInStep ==
  ASSUME Steadily, Save, Steady'
  PROVE  InStep'
<1>1. /\ ui.pc = "save" /\ queue = <<>> /\ results = <<>>
      /\ io["io"].pc = "idle" /\ io["old"].pc = "idle"
  BY DEF Steadily, InStep, OneAtATime, Save
<1>2. /\ ui'.pc = "idle" /\ ui'.head = ui.head /\ ui'.undo = ui.undo
      /\ ui'.cloud = ui.cloud /\ ui'.conflict = ui.conflict
      /\ UNCHANGED <<server, late, io, results, made, seen>>
  BY Types DEF Steadily, Fits, Save, Screens
<1>3. disk'.outbox = disk.outbox /\ disk'.key = disk.key /\ disk'.doc = ui.doc
  BY Types DEF Steadily, Fits, Save, Disks
<1>4. /\ Len(queue') = 1 /\ DOMAIN queue' = {1} /\ queue'[1].task = "sync"
      /\ queue'[1].head = ui.head
  BY <1>1, FirstQueued DEF Steadily, Fits, Save, Tasks
<1>5. OneAtATime' /\ KeyIsNew'
  BY <1>1, <1>2, <1>3, <1>4 DEF Steadily, InStep, OneAtATime, KeyIsNew, Filed
<1>6. QueueFits' /\ FramesFit'
  <2>1. Standing' = Standing /\ Drawn' = Drawn
    BY <1>1, <1>2, <1>3 DEF Standing, Drawn
  <2> QED
    BY <1>2, <2>1, FitStays DEF Steadily, InStep
<1>7. AsCreated' /\ HeadsFit'
  BY <1>1, <1>2, <1>4 DEF Steadily, InStep, AsCreated, Same, Heard, HeadsFit
<1>8. Underway' /\ WorkFits(io["io"])'
  BY <1>1, <1>2, <1>4 DEF Underway, WorkFits
<1> QED
  BY <1>5, <1>6, <1>7, <1>8 DEF InStep

\* A button: a task is queued, and nothing else changes.
LEMMA ButtonInStep ==
  ASSUME Steadily, NEW task \in Tasks, Queued(task), queue = <<>>, results = <<>>,
         io["io"].pc = "idle", io["old"].pc = "idle", ui.pc = "idle", ui'.pc = "idle",
         ui'.head = ui.head, ui'.undo = ui.undo, ui'.doc = ui.doc, ui'.out = ui.out,
         ui'.cloud = ui.cloud, ui'.conflict = ui.conflict,
         task \in {"take", "retry"} => ui.conflict,
         UNCHANGED <<server, late, disk, io, results, made>>, seen \subseteq seen'
  PROVE  InStep'
<1>1. /\ Len(queue') = 1 /\ DOMAIN queue' = {1} /\ queue'[1].task = task
      /\ queue'[1].head = ui.head
  BY FirstQueued DEF Steadily, Fits
<1>2. OneAtATime' /\ KeyIsNew'
  BY <1>1 DEF Steadily, InStep, OneAtATime, KeyIsNew, Filed
<1>3. QueueFits' /\ FramesFit'
  <2>1. Standing' = Standing /\ Drawn' = Drawn
    BY DEF Standing, Drawn
  <2> QED
    BY <2>1, FitStays DEF Steadily, InStep
<1>4. AsCreated'
  BY DEF Steadily, InStep, AsCreated, Same, Heard
<1>5. HeadsFit'
  <2>1. server.head = 0 => task \in {"sync", "generate"}
    BY DEF Steadily, InStep, HeadsFit, Tasks
  <2> QED
    BY <1>1, <2>1 DEF Steadily, InStep, HeadsFit
<1>6. Underway' \/ AtRest'
  <2>1. CASE task # "generate"
    BY <1>1, <2>1 DEF Underway
  <2>2. CASE task = "generate"
    <3>1. AtRest
      BY DEF Steadily, InStep, Underway, Heard
    <3> QED
      BY <3>1 DEF AtRest
  <2> QED
    BY <2>1, <2>2
<1>7. WorkFits(io["io"])'
  BY DEF WorkFits
<1> QED
  BY <1>2, <1>3, <1>4, <1>5, <1>6, <1>7 DEF InStep

LEMMA PressInStep ==
  ASSUME Steadily, NEW task \in Tasks, Press(task), Steady'
  PROVE  InStep'
<1>1. /\ queue = <<>> /\ results = <<>>
      /\ io["io"].pc = "idle" /\ io["old"].pc = "idle"
  BY NotBusy DEF Press
<1>2. /\ ui.pc = "idle" /\ ui'.pc = "idle" /\ ui'.head = ui.head
      /\ ui'.undo = ui.undo /\ ui'.doc = ui.doc /\ ui'.out = ui.out
      /\ ui'.cloud = ui.cloud /\ ui'.conflict = ui.conflict
      /\ UNCHANGED <<server, late, disk, io, results, made>> /\ seen \subseteq seen'
      /\ Queued(task)
      /\ task \in {"take", "retry"} => ui.conflict
  BY Types DEF Steadily, Fits, Press, Screens, Note
<1> QED
  BY <1>1, <1>2, ButtonInStep

LEMMA GenerationInStep ==
  ASSUME Steadily, RequestGeneration, Steady'
  PROVE  InStep'
<1>1. /\ queue = <<>> /\ results = <<>>
      /\ io["io"].pc = "idle" /\ io["old"].pc = "idle"
  BY NotBusy DEF RequestGeneration
<1>2. /\ ui.pc = "idle" /\ ui'.pc = "idle" /\ ui'.head = ui.head
      /\ ui'.undo = ui.undo /\ ui'.doc = ui.doc /\ ui'.out = ui.out
      /\ ui'.cloud = ui.cloud /\ ui'.conflict = ui.conflict
      /\ UNCHANGED <<server, late, disk, io, results, made>> /\ seen \subseteq seen'
      /\ Queued("generate") /\ "generate" \in Tasks
  BY Types DEF Steadily, Fits, RequestGeneration, Screens, Note, Tasks
<1> QED
  BY <1>1, <1>2, ButtonInStep

LEMMA OutcomeInStep ==
  ASSUME Steadily, ApplyOutcome, Steady'
  PROVE  InStep'
<1> DEFINE r == Head(results)
<1>1. /\ ui.pc = "idle" /\ results # <<>> /\ queue = <<>>
      /\ io["io"].pc = "idle" /\ io["old"].pc = "idle"
  BY DEF Steadily, InStep, OneAtATime, ApplyOutcome
<1>2. Len(results) = 1 /\ DOMAIN results = {1} /\ results' = <<>> /\ r = results[1]
  <2>1. results \in Seq(Reports) /\ Len(results) <= 1 /\ results' = Tail(results)
    BY Types DEF Steadily, Fits, InStep, OneAtATime, ApplyOutcome
  <2> QED
    BY <1>1, <2>1, OnlyOne
<1>3. /\ UNCHANGED <<server, late, disk, queue, io, made, seen>>
      /\ ui'.pc = "idle" /\ ui'.cloud = ui.cloud /\ ui'.undo = ui.undo /\ ui'.doc = ui.doc
      /\ ui'.head = IF r.told THEN r.head ELSE ui.head
      /\ ui'.conflict = IF r.told THEN r.conflict ELSE ui.conflict
  BY <1>1, Types DEF Steadily, Fits, ApplyOutcome, Screens
<1>4. r.told => r.head # 0 /\ server.head # 0
  BY <1>2 DEF Steadily, InStep, HeadsFit
<1>5. Heard <=> r.told
  BY <1>2 DEF Heard
<1>6. OneAtATime' /\ KeyIsNew'
  BY <1>1, <1>2, <1>3 DEF Steadily, InStep, OneAtATime, KeyIsNew, Filed
<1>7. QueueFits' /\ FramesFit'
  <2>1. Standing' = Standing /\ Drawn' = Drawn
    BY <1>1, <1>3 DEF Standing, Drawn
  <2> QED
    BY <1>3, <2>1, FitStays DEF Steadily, InStep
<1>8. AsCreated'
  BY <1>1, <1>3, <1>4, <1>5 DEF Steadily, InStep, AsCreated
<1>9. HeadsFit'
  BY <1>1, <1>2, <1>3, <1>4 DEF Steadily, InStep, HeadsFit
<1>10. AtRest'
  <2>1. CASE r.told
    BY <1>3, <1>4, <2>1 DEF AtRest
  <2>2. CASE ~r.told
    BY <1>1, <1>3, <1>5, <2>2 DEF Steadily, InStep, Underway, AtRest
  <2> QED
    BY <2>1, <2>2
<1>11. WorkFits(io["io"])'
  BY <1>1, <1>3 DEF WorkFits
<1> QED
  BY <1>6, <1>7, <1>8, <1>9, <1>10, <1>11 DEF InStep

LEMMA SignInInStep ==
  ASSUME Steadily, SignIn, Steady'
  PROVE  InStep'
<1>1. /\ ui.pc = "idle" /\ ui'.pc = "idle" /\ ui'.head = ui.head /\ ui'.undo = <<>>
      /\ ui'.doc = ui.doc /\ ui'.cloud = TRUE /\ ui'.conflict = ui.conflict
      /\ UNCHANGED <<server, late, disk, queue, io, results, made, seen>>
  BY Types DEF Steadily, Fits, SignIn, Screens
<1>2. OneAtATime' /\ KeyIsNew'
  BY <1>1 DEF Steadily, InStep, OneAtATime, KeyIsNew, Filed
<1>3. QueueFits' /\ FramesFit'
  <2>1. Standing' = Standing /\ Drawn' = Drawn
    BY <1>1 DEF Standing, Drawn
  <2>2. QueueFits'
    BY <1>1, <2>1 DEF Steadily, InStep, QueueFits, Leads, Same, Meant
  <2>3. FramesFit'
    BY <1>1 DEF FramesFit
  <2> QED
    BY <2>2, <2>3
<1>4. AsCreated' /\ HeadsFit'
  BY <1>1 DEF Steadily, InStep, AsCreated, Same, Heard, HeadsFit
<1>5. Underway' \/ AtRest'
  BY <1>1 DEF Steadily, InStep, Underway, Heard, AtRest
<1>6. WorkFits(io["io"])'
  BY <1>1 DEF Steadily, InStep, WorkFits
<1> QED
  BY <1>2, <1>3, <1>4, <1>5, <1>6 DEF InStep

LEMMA BeginInStep ==
  ASSUME Steadily, Begin, Steady'
  PROVE  InStep'
<1> DEFINE q == Head(queue)
           pc == CASE q.task = "take" -> "take" [] q.task = "retry" -> "rebase"
                   [] OTHER -> "sync"
           run == [Resting EXCEPT !.task = q.task, !.head = q.head,
                                  !.conflict = q.conflict, !.pc = pc]
           report == [task |-> q.task, told |-> FALSE, head |-> 0, conflict |-> FALSE]
<1>1. /\ IF ui.cloud THEN Set("io", run) /\ UNCHANGED results
         ELSE results' = Append(results, report) /\ UNCHANGED io
      /\ queue' = Tail(queue) /\ queue # <<>> /\ io["io"].pc = "idle"
      /\ UNCHANGED <<server, late, disk, ui, made, seen>>
  BY DEF Begin
<1>2. results = <<>> /\ ui.pc = "idle" /\ io["old"].pc = "idle"
  BY <1>1 DEF Steadily, InStep, OneAtATime
<1>3. queue' = <<>> /\ DOMAIN queue = {1} /\ q = queue[1] /\ q \in Orders
  <2>1. queue \in Seq(Orders) /\ Len(queue) <= 1
    BY Types DEF Steadily, Fits, InStep, OneAtATime
  <2> QED
    BY <1>1, <2>1, OnlyOne
<1>4. /\ q.task \in Tasks /\ q.head = ui.head
      /\ server.head = 0 => q.task \in {"sync", "generate"} /\ ui.head = 0
  BY <1>3 DEF Steadily, InStep, HeadsFit, Orders
<1> HIDE DEF q
<1>5. ~ui.cloud => server.head = 0
  BY DEF Steadily, InStep, HeadsFit
<1>6. q.task # "generate" \/ AtRest
  BY <1>1, <1>2, <1>3 DEF Steadily, InStep, Underway, Heard
<1>7. server.head # 0 /\ ui.head = 0 => Same(seen, server.doc, server.created)
  BY <1>1, <1>2 DEF Steadily, InStep, AsCreated, Heard
<1>8. CASE ui.cloud
  <2>1. /\ pc \in {"take", "rebase", "sync"}
        /\ pc # "sync" => q.task \in {"take", "retry"}
    BY <1>4 DEF Tasks
  <2> HIDE DEF pc
  <2>2. /\ run \in Runs /\ run.pc = pc /\ run.task = q.task /\ run.head = ui.head
    <3>1. q.task \in Tasks /\ q.head \in Nat /\ q.conflict \in BOOLEAN
      BY <1>3 DEF Orders
    <3>2. Resting \in Runs
      BY RestingTyped
    <3>3. pc \in Waiting \cup {"sync"}
      BY <2>1 DEF Waiting
    <3> HIDE DEF Resting
    <3> QED
      BY <1>4, <3>1, <3>2, <3>3 DEF Runs
  <2> HIDE DEF run
  <2>3. io'["io"] = run /\ io'["old"] = io["old"] /\ UNCHANGED results
    BY <1>1, <1>8, <2>2, SetTyped DEF Steadily, Fits, Threads
  <2>4. OneAtATime' /\ KeyIsNew'
    BY <1>1, <1>2, <1>3, <2>1, <2>2, <2>3 DEF Steadily, InStep, OneAtATime, KeyIsNew, Filed
  <2>5. QueueFits' /\ FramesFit'
    <3>1. Standing' = Standing /\ Drawn' = Drawn
      BY <1>1, <1>2, <2>1, <2>2, <2>3 DEF Standing, Drawn
    <3> QED
      BY <1>1, <3>1, FitStays DEF Steadily, InStep
  <2>6. AsCreated' /\ HeadsFit'
    BY <1>1, <1>2, <1>3, <1>7, <1>8, <2>3
       DEF Steadily, InStep, AsCreated, Heard, HeadsFit
  <2>7. Underway' \/ AtRest'
    BY <1>1, <1>6, <2>1, <2>2, <2>3 DEF Underway, AtRest
  <2>8. WorkFits(io["io"])'
    BY <1>1, <1>4, <2>1, <2>2, <2>3 DEF WorkFits
  <2> QED
    BY <2>4, <2>5, <2>6, <2>7, <2>8 DEF InStep
<1>9. CASE ~ui.cloud
  <2>1. ~report.told
    OBVIOUS
  <2> HIDE DEF report
  <2>2. results' = <<report>> /\ DOMAIN results' = {1} /\ results'[1] = report
        /\ Len(results') = 1
    BY <1>1, <1>2, <1>9
  <2>3. io' = io /\ server.head = 0
    BY <1>1, <1>5, <1>9
  <2>4. OneAtATime' /\ KeyIsNew'
    BY <1>1, <1>2, <1>3, <2>2, <2>3 DEF Steadily, InStep, OneAtATime, KeyIsNew, Filed
  <2>5. QueueFits' /\ FramesFit'
    <3>1. Standing' = Standing /\ Drawn' = Drawn
      BY <1>1, <2>3 DEF Standing, Drawn
    <3> QED
      BY <1>1, <3>1, FitStays DEF Steadily, InStep
  <2>6. AsCreated' /\ HeadsFit' /\ AtRest'
    BY <1>1, <1>3, <2>1, <2>2, <2>3 DEF Steadily, InStep, AsCreated, HeadsFit, AtRest
  <2>7. WorkFits(io["io"])'
    BY <1>1, <2>3 DEF WorkFits
  <2> QED
    BY <2>4, <2>5, <2>6, <2>7 DEF InStep
<1> QED
  BY <1>8, <1>9

\* While a task is under way there is nothing else, whoever writes.
LEMMA Alone ==
  ASSUME Steadily, io["io"].pc # "idle"
  PROVE  /\ ui.pc = "idle" /\ ui.cloud /\ queue = <<>> /\ results = <<>> /\ late = {}
         /\ io["old"].pc = "idle" /\ ~Heard /\ Drawn = disk.doc
         /\ Standing = IF io["io"].pc \in {"dropPosted", "dropSent", "clear"} THEN <<>>
                       ELSE disk.outbox
         /\ io["io"].task # "generate" \/ io["io"].pc = "dropPosted" \/ AtRest
<1>1. /\ ui.pc = "idle" /\ queue = <<>> /\ results = <<>> /\ late = {}
      /\ io["old"].pc = "idle"
  BY DEF Steadily, InStep, OneAtATime
<1>2. ui.cloud
  BY DEF Steadily, InStep, HeadsFit
<1>3. ~Heard
  BY <1>1 DEF Heard
<1>4. io["io"].task # "generate" \/ io["io"].pc = "dropPosted" \/ AtRest
  BY <1>1, <1>3 DEF Steadily, InStep, Underway
<1> QED
  BY <1>1, <1>2, <1>3, <1>4 DEF Drawn, Standing

\* The task goes on.
LEMMA TaskGoesOn ==
  ASSUME Steadily, io["io"].pc # "idle",
         NEW run \in Runs, Set("io", run), run.pc # "idle",
         UNCHANGED <<late, queue, results>>, server.head # 0 => server'.head # 0,
         ui'.pc = ui.pc, ui'.head = ui.head, ui'.cloud = ui.cloud, ui'.conflict = ui.conflict
  PROVE  OneAtATime' /\ HeadsFit' /\ ~Heard' /\ io'["io"] = run
<1>1. io'["io"] = run /\ io'["old"] = io["old"]
  BY SetTyped DEF Steadily, Fits, Threads
<1>2. /\ ui.pc = "idle" /\ ui.cloud /\ queue = <<>> /\ results = <<>> /\ late = {}
      /\ io["old"].pc = "idle"
  BY Alone
<1>3. OneAtATime' /\ ~Heard'
  BY <1>1, <1>2 DEF OneAtATime, Heard
<1>4. HeadsFit'
  BY <1>2 DEF Steadily, InStep, HeadsFit
<1> QED
  BY <1>1, <1>3, <1>4

\* A step of a task that leaves the server, the document and the outbox alone.
LEMMA TaskMovesOn ==
  ASSUME Steadily, io["io"].pc \notin {"idle", "dropPosted", "dropSent", "clear"},
         NEW run \in Runs, Set("io", run), run.task = io["io"].task,
         run.pc \notin {"idle", "dropPosted", "dropSent", "clear"},
         io["io"].pc \in {"again", "synced"} /\ run.task # "generate" => run.pc = "synced",
         UNCHANGED <<server, late, queue, results, made>>, seen \subseteq seen',
         disk'.outbox = disk.outbox, disk'.doc = disk.doc,
         disk'.key = disk.key \/ ~Filed(disk'.key),
         ui'.pc = ui.pc, ui'.head = ui.head, ui'.cloud = ui.cloud,
         ui'.conflict = ui.conflict, ui'.undo = ui.undo
  PROVE  /\ io'["io"] = run
         /\ WorkFits(io["io"])' => InStep'
<1>1. OneAtATime' /\ HeadsFit' /\ ~Heard' /\ io'["io"] = run
  BY TaskGoesOn
<1>2. ui.pc = "idle" /\ ~Heard
  BY Alone
<1>3. KeyIsNew'
  BY <1>2 DEF Steadily, InStep, KeyIsNew, Filed
<1>4. QueueFits' /\ FramesFit'
  <2>1. Standing' = Standing /\ Drawn' = Drawn
    BY <1>1, <1>2 DEF Standing, Drawn
  <2> QED
    BY <2>1, FitStays DEF Steadily, InStep
<1>5. AsCreated'
  BY <1>1, <1>2 DEF Steadily, InStep, AsCreated, Same
<1>6. Underway' \/ AtRest'
  BY <1>1, Alone DEF Underway, AtRest
<1> QED
  BY <1>1, <1>3, <1>4, <1>5, <1>6 DEF InStep

LEMMA SyncInStep ==
  ASSUME Steadily, Sync("io"), Steady'
  PROVE  InStep'
<1> DEFINE run == IF io["io"].head = 0
                  THEN [io["io"] EXCEPT !.doc = disk.doc, !.pc = "post"]
                  ELSE [io["io"] EXCEPT !.pc = "flush"]
<1>1. /\ io["io"].pc = "sync" /\ Set("io", run)
      /\ UNCHANGED <<server, late, disk, ui, queue, results, made, seen>>
  BY Alone DEF Sync
<1>2. /\ io["io"].head = 0 => ui.head = 0
      /\ io["io"].head # 0 => server.head # 0
  BY <1>1 DEF Steadily, InStep, WorkFits
<1>3. /\ run \in Runs /\ run.task = io["io"].task /\ run.head = io["io"].head
      /\ run.head = 0 => run.pc = "post" /\ run.doc = disk.doc
      /\ run.head # 0 => run.pc = "flush"
  BY Types DEF Steadily, Fits, Runs, Disks, Threads
<1> HIDE DEF run
<1>4. io'["io"] = run /\ (WorkFits(io["io"])' => InStep')
  BY <1>1, <1>3, TaskMovesOn
<1>5. WorkFits(io["io"])'
  BY <1>1, <1>2, <1>3, <1>4 DEF WorkFits
<1> QED
  BY <1>4, <1>5

LEMMA PostInStep ==
  ASSUME Steadily, Post("io"), Steady'
  PROVE  InStep'
<1> DEFINE run == [io["io"] EXCEPT !.ops = disk.outbox, !.pc = "create"]
<1>1. /\ io["io"].pc = "post" /\ Set("io", run)
      /\ UNCHANGED <<server, late, disk, ui, queue, results, made, seen>>
  BY DEF Post
<1>2. /\ run \in Runs /\ run.task = io["io"].task /\ run.pc = "create"
      /\ run.ops = disk.outbox /\ run.doc = io["io"].doc /\ run.head = io["io"].head
  BY Types DEF Steadily, Fits, Runs, Disks, Threads, Waiting
<1> HIDE DEF run
<1>3. io'["io"] = run /\ (WorkFits(io["io"])' => InStep')
  BY <1>1, <1>2, TaskMovesOn
<1>4. WorkFits(io["io"])'
  BY <1>1, <1>2, <1>3 DEF Steadily, InStep, WorkFits
<1> QED
  BY <1>3, <1>4

LEMMA FlushInStep ==
  ASSUME Steadily, Flush("io"), Steady'
  PROVE  InStep'
<1>1. /\ io["io"].pc = "flush"
      /\ UNCHANGED <<server, late, ui, queue, results, made, seen>>
  BY DEF Flush
<1>2. io["io"] \in Runs /\ io["io"].head \in Nat /\ disk \in Disks
  BY Types DEF Steadily, Fits, Threads, Runs
<1>3. io["io"].head # 0 /\ server.head # 0
  BY <1>1 DEF Steadily, InStep, WorkFits
<1>4. CASE disk.outbox = <<>>
  <2> DEFINE run == [io["io"] EXCEPT !.conflict = FALSE, !.pc = "synced"]
  <2>1. disk' = Persisted(io["io"].head, FALSE) /\ Set("io", run)
    BY <1>4 DEF Flush
  <2>2. /\ run \in Runs /\ run.task = io["io"].task /\ run.pc = "synced"
        /\ run.head = io["io"].head
    BY <1>2 DEF Runs
  <2> HIDE DEF run
  <2>3. disk'.outbox = disk.outbox /\ disk'.key = disk.key /\ disk'.doc = disk.doc
    BY <1>2, <2>1, PersistedTyped DEF Steadily, Fits
  <2>4. io'["io"] = run /\ (WorkFits(io["io"])' => InStep')
    BY <1>1, <2>1, <2>2, <2>3, TaskMovesOn
  <2>5. WorkFits(io["io"])'
    BY <1>1, <1>3, <1>4, <2>2, <2>3, <2>4 DEF WorkFits
  <2> QED
    BY <2>4, <2>5
<1>5. CASE disk.outbox # <<>>
  <2> DEFINE run == [io["io"] EXCEPT !.ops = disk.outbox, !.pc = "key"]
  <2>1. disk' = disk /\ Set("io", run)
    BY <1>5 DEF Flush
  <2>2. /\ run \in Runs /\ run.task = io["io"].task /\ run.pc = "key"
        /\ run.head = io["io"].head /\ run.ops = disk.outbox
    BY <1>2 DEF Runs, Disks
  <2> HIDE DEF run
  <2>3. io'["io"] = run /\ (WorkFits(io["io"])' => InStep')
    BY <1>1, <2>1, <2>2, TaskMovesOn
  <2>4. WorkFits(io["io"])'
    BY <1>1, <1>3, <1>5, <2>1, <2>2, <2>3 DEF WorkFits
  <2> QED
    BY <2>3, <2>4
<1> QED
  BY <1>4, <1>5

LEMMA TakeKeyInStep ==
  ASSUME Steadily, TakeKey("io"), Steady'
  PROVE  InStep'
<1> DEFINE run == [io["io"] EXCEPT !.key = disk.key, !.pc = "change"]
<1>1. /\ io["io"].pc = "key" /\ Set("io", run)
      /\ UNCHANGED <<server, late, disk, ui, queue, results, made, seen>>
  BY DEF TakeKey
<1>2. /\ run \in Runs /\ run.task = io["io"].task /\ run.pc = "change"
      /\ run.ops = io["io"].ops /\ run.key = disk.key /\ run.head = io["io"].head
  BY Types DEF Steadily, Fits, Runs, Disks, Threads, Waiting
<1> HIDE DEF run
<1>3. io'["io"] = run /\ (WorkFits(io["io"])' => InStep')
  BY <1>1, <1>2, TaskMovesOn
<1>4. WorkFits(io["io"])'
  BY <1>1, <1>2, <1>3 DEF Steadily, InStep, WorkFits
<1> QED
  BY <1>3, <1>4

LEMMA DropInStep ==
  ASSUME Steadily, Drop("io"), Steady'
  PROVE  InStep'
<1> DEFINE pc == IF io["io"].pc = "dropPosted" THEN "flush" ELSE "again"
           run == [io["io"] EXCEPT !.ops = <<>>, !.left = <<>>, !.key = 0,
                                   !.conflict = FALSE, !.pc = pc]
           saved == Persisted(io["io"].head, FALSE)
<1>1. /\ Set("io", run) /\ disk' = [saved EXCEPT !.outbox = io["io"].left]
      /\ io["io"].pc \in {"dropPosted", "dropSent"}
      /\ UNCHANGED <<server, late, ui, queue, results, made, seen>>
  BY DEF Drop
<1>2. /\ io["io"] \in Runs /\ io["io"].head \in Nat /\ io["io"].left = <<>>
      /\ io["io"].head # 0 /\ server.head # 0
  BY <1>1, Types DEF Steadily, InStep, WorkFits, Fits, Threads, Runs
<1>3. run \in Runs /\ run.task = io["io"].task /\ run.pc = pc /\ run.head = io["io"].head
  <2>1. <<>> \in Seq(Ops) /\ pc \in {"flush", "again"}
    OBVIOUS
  <2> HIDE DEF pc
  <2> QED
    BY <1>2, <2>1 DEF Runs
<1>4. disk'.outbox = <<>> /\ disk'.doc = disk.doc
  <2>1. saved \in Disks /\ saved.doc = disk.doc
    BY <1>2, PersistedTyped DEF Steadily, Fits
  <2> HIDE DEF saved
  <2> QED
    BY <1>1, <1>2, <2>1 DEF Disks
<1> HIDE DEF run, saved
<1>5. OneAtATime' /\ HeadsFit' /\ ~Heard' /\ io'["io"] = run
  BY <1>1, <1>3, TaskGoesOn
<1>6. ui.pc = "idle" /\ ~Heard
  BY <1>1, Alone
<1>7. KeyIsNew'
  BY <1>1, <1>4, <1>6 DEF KeyIsNew
<1>8. QueueFits' /\ FramesFit'
  <2>1. Standing' = Standing /\ Drawn' = Drawn
    BY <1>1, <1>3, <1>4, <1>5, <1>6 DEF Standing, Drawn
  <2> QED
    BY <1>1, <2>1, FitStays DEF Steadily, InStep
<1>9. AsCreated'
  BY <1>1, <1>3, <1>5, <1>6 DEF Steadily, InStep, AsCreated
<1>10. AtRest'
  BY <1>4 DEF AtRest
<1>11. WorkFits(io["io"])'
  BY <1>1, <1>2, <1>3, <1>4, <1>5 DEF WorkFits
<1> QED
  BY <1>5, <1>7, <1>8, <1>9, <1>10, <1>11 DEF InStep

LEMMA AgainInStep ==
  ASSUME Steadily, Again("io"), Steady'
  PROVE  InStep'
<1> DEFINE run == [io["io"] EXCEPT !.pc = "synced"]
<1>1. io["io"].pc = "again" /\ disk.outbox = <<>>
  BY DEF Steadily, InStep, WorkFits, Again
<1>2. Set("io", run) /\ UNCHANGED <<server, late, ui, queue, results, made, seen>>
  BY <1>1 DEF Again
<1>3. disk' = disk
  BY <1>1, Types DEF Again, Steadily, Fits, Disks
<1>4. /\ run \in Runs /\ run.task = io["io"].task /\ run.pc = "synced"
      /\ run.head = io["io"].head
  BY <1>1, Types DEF Steadily, Fits, Threads, Runs
<1> HIDE DEF run
<1>5. io'["io"] = run /\ (WorkFits(io["io"])' => InStep')
  BY <1>1, <1>2, <1>3, <1>4, TaskMovesOn
<1>6. WorkFits(io["io"])'
  BY <1>1, <1>2, <1>3, <1>4, <1>5 DEF Steadily, InStep, WorkFits
<1> QED
  BY <1>5, <1>6

\* A task that ends, and tells the head.
LEMMA TaskReports ==
  ASSUME Steadily, io["io"].pc # "idle", NEW conflict \in BOOLEAN,
         End("io", TRUE, io["io"].head, conflict), io["io"].head # 0, server.head # 0,
         UNCHANGED <<server, late, queue, made>>, seen \subseteq seen',
         disk'.outbox = Standing, disk'.doc = disk.doc, disk'.key = disk.key,
         ui'.pc = ui.pc, ui'.head = ui.head, ui'.cloud = ui.cloud,
         ui'.conflict = ui.conflict, ui'.undo = ui.undo
  PROVE  InStep'
<1> DEFINE report == [task |-> io["io"].task, told |-> TRUE, head |-> io["io"].head,
                      conflict |-> conflict]
<1>1. /\ ui.pc = "idle" /\ ui.cloud /\ queue = <<>> /\ results = <<>> /\ late = {}
      /\ io["old"].pc = "idle"
      /\ Standing = IF io["io"].pc \in {"dropPosted", "dropSent", "clear"} THEN <<>>
                    ELSE disk.outbox
  BY Alone
<1>2. /\ io'["io"] = Resting /\ io'["old"] = io["old"]
      /\ results' = Append(results, report)
  <2>1. io["io"].head \in Nat
    BY Types DEF Steadily, Fits, Threads, Runs
  <2> QED
    BY <2>1, EndTyped DEF Steadily, Fits, Threads
<1>3. report.told /\ report.head = io["io"].head
  OBVIOUS
<1> HIDE DEF report
<1>4. Len(results') = 1 /\ DOMAIN results' = {1} /\ results'[1] = report
  BY <1>1, <1>2
<1>5. Resting.pc = "idle"
  BY DEF Resting
<1>6. OneAtATime'
  BY <1>1, <1>2, <1>4, <1>5 DEF OneAtATime
<1>7. KeyIsNew'
  BY <1>1 DEF Steadily, InStep, KeyIsNew, Filed
<1>8. QueueFits' /\ FramesFit'
  <2>1. Standing' = Standing /\ Drawn' = Drawn
    BY <1>1, <1>2, <1>5 DEF Standing, Drawn
  <2> QED
    BY <2>1, FitStays DEF Steadily, InStep
<1>9. Heard'
  BY <1>3, <1>4 DEF Heard
<1>10. HeadsFit'
  BY <1>1, <1>3, <1>4 DEF HeadsFit
<1>11. AsCreated' /\ Underway'
  BY <1>9 DEF AsCreated, Underway
<1>12. WorkFits(io["io"])'
  BY <1>2, <1>5 DEF WorkFits
<1> QED
  BY <1>6, <1>7, <1>8, <1>10, <1>11, <1>12 DEF InStep

LEMMA SyncedInStep ==
  ASSUME Steadily, Synced("io"), Steady'
  PROVE  InStep'
<1>1. /\ io["io"].pc = "synced" /\ disk.outbox = <<>>
      /\ io["io"].head # 0 /\ server.head # 0
      /\ UNCHANGED <<server, late, disk, ui, queue, made, seen>>
  BY DEF Steadily, InStep, WorkFits, Synced
<1>2. CASE io["io"].task # "generate"
  <2>1. End("io", TRUE, io["io"].head, FALSE)
    BY <1>1, <1>2 DEF Synced
  <2>2. Standing = disk.outbox
    BY <1>1, Alone
  <2> QED
    BY <1>1, <2>1, <2>2, TaskReports
<1>3. CASE io["io"].task = "generate"
  <2> DEFINE run == [io["io"] EXCEPT !.pc = "generate"]
  <2>1. Set("io", run) /\ UNCHANGED results
    BY <1>1, <1>3 DEF Synced
  <2>2. /\ run \in Runs /\ run.task = io["io"].task /\ run.pc = "generate"
        /\ run.head = io["io"].head
    BY Types DEF Steadily, Fits, Threads, Runs, Waiting
  <2> HIDE DEF run
  <2>3. io'["io"] = run /\ (WorkFits(io["io"])' => InStep')
    BY <1>1, <1>3, <2>1, <2>2, TaskMovesOn
  <2>4. WorkFits(io["io"])'
    BY <1>1, <1>3, <2>2, <2>3 DEF WorkFits
  <2> QED
    BY <2>3, <2>4
<1> QED
  BY <1>2, <1>3

LEMMA ClearInStep ==
  ASSUME Steadily, Clear("io"), Steady'
  PROVE  InStep'
<1> DEFINE saved == Persisted(io["io"].head, FALSE)
<1>1. /\ io["io"].pc = "clear" /\ io["io"].head # 0 /\ server.head # 0
      /\ disk' = [saved EXCEPT !.outbox = <<>>]
      /\ End("io", TRUE, io["io"].head, FALSE)
      /\ UNCHANGED <<server, late, ui, queue, made, seen>>
  BY DEF Steadily, InStep, WorkFits, Clear
<1>2. io["io"].head \in Nat
  BY Types DEF Steadily, Fits, Threads, Runs
<1>3. saved \in Disks /\ saved.doc = disk.doc /\ saved.key = disk.key
  BY <1>2, PersistedTyped DEF Steadily, Fits
<1> HIDE DEF saved
<1>4. disk'.outbox = <<>> /\ disk'.doc = disk.doc /\ disk'.key = disk.key
  BY <1>1, <1>3 DEF Disks
<1>5. Standing = <<>>
  BY <1>1, Alone
<1> QED
  BY <1>1, <1>4, <1>5, TaskReports

LEMMA ReplyIs ==
  ASSUME Steadily, Answered("io")
  PROVE  /\ io["io"].pc \in Waiting /\ ui.pc = "idle" /\ ~Heard /\ Drawn = disk.doc
         /\ Standing = IF io["io"].pc \in {"dropPosted", "dropSent", "clear"} THEN <<>>
                       ELSE disk.outbox
         /\ ui'.pc = ui.pc /\ ui'.head = ui.head /\ ui'.cloud = ui.cloud
         /\ ui'.conflict = ui.conflict
         /\ io'["io"].pc # "clear" => ui'.undo = ui.undo
         /\ io'["io"].pc = "clear" =>
              ui'.undo = [i \in DOMAIN ui.undo |-> [ui.undo[i] EXCEPT !.past = TRUE]]
         /\ UNCHANGED <<late, queue, made>> /\ seen \subseteq seen'
         /\ RequestOf("io") \in Requests /\ RequestOf("io").doc = io["io"].doc
         /\ RequestOf("io").base = io["io"].head /\ RequestOf("io").ops = io["io"].ops
         /\ RequestOf("io").key = io["io"].key
         /\ RequestOf("io").op = IF io["io"].pc \in {"create", "change", "generate"}
                                 THEN io["io"].pc ELSE "get"
         /\ server \in ServerRows /\ disk \in Disks /\ io["io"] \in Runs
         /\ "io" \in Threads /\ TypeOK
<1>1. io["io"].pc \in Waiting /\ Aged("io") /\ UNCHANGED <<late, queue, made>>
      /\ seen \subseteq seen'
  BY DEF Answered
<1>2. io["io"].pc # "idle"
  BY <1>1 DEF Waiting
<1>3. /\ server \in ServerRows /\ disk \in Disks /\ io["io"] \in Runs
      /\ "io" \in Threads /\ TypeOK /\ ui \in Screens
  BY Types DEF Steadily, Fits, Threads
<1>4. /\ ui'.pc = ui.pc /\ ui'.head = ui.head /\ ui'.cloud = ui.cloud
      /\ ui'.conflict = ui.conflict
  BY <1>1, <1>3, AgedKeeps
<1>5. /\ io'["io"].pc # "clear" => ui'.undo = ui.undo
      /\ io'["io"].pc = "clear" =>
           ui'.undo = [i \in DOMAIN ui.undo |-> [ui.undo[i] EXCEPT !.past = TRUE]]
  BY <1>1, <1>3 DEF Aged, Screens
<1> QED
  BY <1>1, <1>2, <1>3, <1>4, <1>5, RequestTyped, Alone

\* The server has what the user sees, and nothing is queued.
LEMMA SentFits ==
  ASSUME TypeOK, QueueFits, FramesFit, server' \in ServerRows, server'.head # 0,
         Same(seen, server'.doc, Drawn), Meant(made, server'.applied),
         Standing' = <<>>, Drawn' = Drawn, made' = made, seen \subseteq seen',
         ui'.undo = ui.undo
  PROVE  QueueFits' /\ FramesFit'
<1>1. Applicable(server', <<>>) /\ After(server'.doc, <<>>) = server'.doc /\ ToSet(<<>>) = {}
  BY NothingQueued
<1>2. server'.doc \cap Edits = Drawn \cap Edits
  BY DEF Same
<1>3. Leads(server', seen', Standing', Drawn')
  BY <1>1 DEF Leads, Same
<1>4. QueueFits'
  BY <1>1, <1>2, <1>3 DEF QueueFits, Meant
<1>5. FramesFit'
  BY <1>2, FramesPass
<1> QED
  BY <1>4, <1>5

\* The user sees what the server has, and nothing is queued.
LEMMA TakenFits ==
  ASSUME TypeOK, QueueFits, FramesFit, server' \in ServerRows, server'.head # 0,
         server'.applied = server.applied, server'.doc \cap Edits = server.doc \cap Edits,
         Standing' = <<>>, Drawn' = server'.doc, made' = made, seen \subseteq seen',
         ui'.undo = [i \in DOMAIN ui.undo |-> [ui.undo[i] EXCEPT !.past = TRUE]]
  PROVE  QueueFits' /\ FramesFit'
<1>1. Applicable(server', <<>>) /\ After(server'.doc, <<>>) = server'.doc /\ ToSet(<<>>) = {}
  BY NothingQueued
<1>2. Leads(server', seen', Standing', Drawn')
  BY <1>1 DEF Leads, Same
<1>3. QueueFits'
  BY <1>1, <1>2 DEF QueueFits, Meant
<1>4. FramesFit'
  <2> SUFFICES ASSUME NEW i \in DOMAIN ui'.undo
               PROVE  FrameFits(i)'
    BY DEF FramesFit
  <2>1. ui.undo \in Seq(Frames)
    BY Types DEF Screens, Frames
  <2>2. DOMAIN ui'.undo = DOMAIN ui.undo
    OBVIOUS
  <2>3. \A j \in DOMAIN ui.undo :
          /\ ui'.undo[j].edit = ui.undo[j].edit /\ ui'.undo[j].past
          /\ ui'.undo[j].outbox = ui.undo[j].outbox
    BY <2>1 DEF Frames
  <2>4. FrameFits(i)
    BY <2>2 DEF FramesFit
  <2> QED
    BY <2>2, <2>3, <2>4 DEF FrameFits
<1> QED
  BY <1>3, <1>4

\* What the server makes of what it is sent.
LEMMA CreatedMakes ==
  ASSUME NEW s \in ServerRows, NEW r \in Requests, r.op = "create", NEW a, a = Created(s, r),
         Granted(a)
  PROVE  /\ a.server.applied = s.applied /\ a.server.head # 0
         /\ s.head = 0 => a.server.doc = r.doc /\ a.server.created = r.doc
         /\ s.head # 0 => a.server = s /\ s.created = r.doc
<1>1. CASE s.head = 0
  <2> DEFINE row == [s EXCEPT !.head = 1, !.doc = r.doc, !.created = r.doc]
  <2>1. a = Answer("ok", row)
    <3>1. CASE r.doc \cap Unfit = {}
      BY <1>1, <3>1 DEF Created
    <3>2. CASE r.doc \cap Unfit # {}
      BY <1>1, <3>2 DEF Created, Answer, Granted
    <3> QED
      BY <3>1, <3>2
  <2>2. row.head = 1 /\ row.applied = s.applied /\ row.doc = r.doc /\ row.created = r.doc
    BY DEF ServerRows
  <2> HIDE DEF row
  <2> QED
    BY <1>1, <2>1, <2>2 DEF Answer
<1>2. CASE s.head # 0
  BY <1>2 DEF Created, Answer, Granted
<1> QED
  BY <1>1, <1>2

LEMMA ChangedMakes ==
  ASSUME NEW s \in ServerRows, NEW r \in Requests, r.op = "change",
         \A f \in s.filed : f.key # r.key, Applicable(s, r.ops), NEW a, a = Changed(s, r)
  PROVE  /\ s.head # r.base => a.status = "conflict" /\ a.server = s /\ ~Granted(a)
         /\ s.head = r.base =>
              /\ a.status = "ok" /\ Granted(a) /\ HeadIn(a, r) = a.server.head
              /\ a.server.head = s.head + 1 /\ a.server.doc = After(s.doc, r.ops)
              /\ a.server.applied = s.applied \cup ToSet(r.ops)
<1> DEFINE filed == {f \in s.filed : f.key = r.key}
           row == [s EXCEPT !.head = @ + 1, !.doc = After(@, r.ops),
                            !.applied = @ \cup ToSet(r.ops),
                            !.filed = @ \cup {[key |-> r.key, base |-> r.base,
                                               ops |-> r.ops]}]
<1>1. filed = {}
  OBVIOUS
<1>2. CASE s.head = r.base
  <2>1. a = Answer("ok", row)
    BY <1>1, <1>2 DEF Changed
  <2>2. /\ row.head = s.head + 1 /\ row.doc = After(s.doc, r.ops)
        /\ row.applied = s.applied \cup ToSet(r.ops)
    BY DEF ServerRows
  <2> HIDE DEF row
  <2>3. a.status = "ok" /\ a.server = row
    BY <2>1 DEF Answer
  <2> QED
    BY <1>2, <2>2, <2>3 DEF Granted, HeadIn
<1>3. CASE s.head # r.base
  <2>1. a = Answer("conflict", s)
    BY <1>1, <1>3 DEF Changed
  <2> QED
    BY <1>3, <2>1 DEF Answer, Granted
<1> QED
  BY <1>2, <1>3

LEMMA GeneratedMakes ==
  ASSUME NEW s \in ServerRows, NEW r \in Requests, r.op = "generate", NEW a \in Generated(s, r)
  PROVE  /\ ~Granted(a) => a.server = s
         /\ Granted(a) =>
              /\ a.status = "ok" /\ a.server.head = s.head + 1
              /\ a.server.doc \cap Edits = s.doc \cap Edits
              /\ a.server.applied = s.applied /\ a.server.gone = s.gone
<1>1. CASE a \in {Answer("refused", s), Answer("conflict", s)}
  BY <1>1 DEF Answer, Granted
<1>2. CASE a \notin {Answer("refused", s), Answer("conflict", s)}
  <2>1. PICK o \in Others : a = Answer("ok", [s EXCEPT !.head = @ + 1, !.doc = @ \cup {o}])
    BY <1>2 DEF Generated
  <2> DEFINE row == [s EXCEPT !.head = @ + 1, !.doc = @ \cup {o}]
  <2>2. /\ row.head = s.head + 1 /\ row.doc = s.doc \cup {o} /\ row.applied = s.applied
        /\ row.gone = s.gone
    BY DEF ServerRows
  <2>3. (s.doc \cup {o}) \cap Edits = s.doc \cap Edits
    BY DisjointAssumption
  <2> HIDE DEF row
  <2>4. a.status = "ok" /\ a.server = row
    BY <2>1 DEF Answer, row
  <2> QED
    BY <2>2, <2>3, <2>4 DEF Granted
<1> QED
  BY <1>1, <1>2

LEMMA CreateInStep ==
  ASSUME Steadily, Answered("io"), io["io"].pc = "create"
  PROVE  InStep'
<1> DEFINE r == RequestOf("io")
<1>1. PICK a \in Answers(server, r) :
        /\ server' = a.server
        /\ IF Granted(a) THEN OnGranted("io", a, r) ELSE OnRefused("io", a.status)
  BY DEF Answered
<1>2. /\ io["io"].head = 0 /\ ui.head = 0 /\ io["io"].ops = disk.outbox
      /\ io["io"].doc = disk.doc
  BY DEF Steadily, InStep, WorkFits
<1>3. r \in Requests /\ r.op = "create" /\ r.doc = disk.doc
  BY <1>2, ReplyIs
<1>4. a = Created(server, r)
  BY <1>1, <1>3 DEF Answers
<1>5. server \in ServerRows /\ disk \in Disks /\ io["io"] \in Runs /\ "io" \in Threads /\ TypeOK
  BY ReplyIs
<1>6. QueueFits /\ FramesFit
  BY DEF Steadily, InStep
<1>7. CASE Granted(a)
  <2>1. server' \in ServerRows /\ server'.filed = server.filed /\ HeadIn(a, r) = 1
    BY <1>1, <1>3, <1>4, <1>5, <1>7, CreatedIs, CreatedTyped
  <2>2. server'.head # 0 /\ server'.applied = server.applied
    BY <1>1, <1>3, <1>4, <1>5, <1>7, CreatedMakes
  <2>3. Same(seen, server'.doc, disk.doc) /\ Same(seen, server'.doc, server'.created)
    <3>1. CASE server.head = 0
      BY <1>1, <1>3, <1>4, <1>5, <1>7, <3>1, CreatedMakes DEF Same
    <3>2. CASE server.head # 0
      <4>1. server' = server /\ server.created = disk.doc
        BY <1>1, <1>3, <1>4, <1>5, <1>7, <3>2, CreatedMakes
      <4>2. Same(seen, server.doc, server.created)
        BY <1>2, <3>2, ReplyIs DEF Steadily, InStep, AsCreated
      <4> QED
        BY <4>1, <4>2
    <3> QED
      BY <3>1, <3>2
  <2>4. AsCreated'
    BY <2>3, ReplyIs DEF AsCreated, Same
  <2>5. Same(seen, server'.doc, Drawn) /\ Meant(made, server'.applied)
    BY <1>6, <2>2, <2>3, ReplyIs DEF QueueFits
  <2>6. CASE io["io"].ops # <<>>
    <3> DEFINE run == Drops("io", "dropPosted", 1)
    <3>1. Set("io", run) /\ UNCHANGED <<disk, results>>
      BY <1>1, <1>7, <2>1, <2>6 DEF OnGranted, Drops, GoesOn
    <3>2. /\ run \in Runs /\ run.pc = "dropPosted" /\ run.head = 1 /\ run.conflict = FALSE
          /\ run.task = io["io"].task /\ run.left = Unsent("io")
      BY DropsIs DEF Steadily, Fits, Threads
    <3> HIDE DEF run
    <3>3. run.left = <<>>
      BY <1>2, <1>5, <3>2, UnsentTyped
    <3>4. OneAtATime' /\ HeadsFit' /\ io'["io"] = run
      BY <2>2, <3>1, <3>2, ReplyIs, TaskGoesOn
    <3>5. KeyIsNew'
      BY <2>1, <3>1, ReplyIs DEF Steadily, InStep, KeyIsNew, Filed
    <3>6. QueueFits' /\ FramesFit'
      <4>1. Standing' = <<>> /\ Drawn' = Drawn
        BY <3>1, <3>2, <3>4, ReplyIs DEF Standing, Drawn
      <4> QED
        BY <1>5, <1>6, <2>1, <2>2, <2>5, <3>2, <3>4, <4>1, ReplyIs, SentFits
    <3>7. Underway' /\ WorkFits(io["io"])'
      BY <2>2, <3>2, <3>3, <3>4 DEF Underway, WorkFits
    <3> QED
      BY <2>4, <3>4, <3>5, <3>6, <3>7 DEF InStep
  <2>7. CASE io["io"].ops = <<>>
    <3> DEFINE run == GoesOn("io", "flush", 1)
    <3>1. /\ Set("io", run) /\ UNCHANGED results
          /\ disk' = [disk EXCEPT !.head = 1, !.conflict = FALSE]
      BY <1>1, <1>7, <2>1, <2>7 DEF OnGranted, Found, GoesOn
    <3>2. /\ run \in Runs /\ run.pc = "flush" /\ run.head = 1 /\ run.conflict = FALSE
          /\ run.task = io["io"].task
      <4>1. 1 \in Nat
        OBVIOUS
      <4> QED
        BY <1>5, <4>1, StoresIs
    <3> HIDE DEF run
    <3>3. disk'.outbox = <<>> /\ disk'.doc = disk.doc
      BY <1>2, <1>5, <2>7, <3>1 DEF Disks
    <3>4. OneAtATime' /\ HeadsFit' /\ io'["io"] = run
      BY <2>2, <3>1, <3>2, ReplyIs, TaskGoesOn
    <3>5. KeyIsNew'
      BY <3>3, ReplyIs DEF KeyIsNew
    <3>6. QueueFits' /\ FramesFit'
      <4>1. Standing' = <<>> /\ Drawn' = Drawn
        BY <3>2, <3>3, <3>4, ReplyIs DEF Standing, Drawn
      <4> QED
        BY <1>5, <1>6, <2>1, <2>2, <2>5, <3>2, <3>4, <4>1, ReplyIs, SentFits
    <3>7. AtRest' /\ WorkFits(io["io"])'
      BY <2>2, <3>2, <3>3, <3>4 DEF AtRest, WorkFits
    <3> QED
      BY <2>4, <3>4, <3>5, <3>6, <3>7 DEF InStep
  <2> QED
    BY <2>6, <2>7
<1>8. CASE ~Granted(a)
  <2> DEFINE run == [io["io"] EXCEPT !.pc = "find"]
  <2>1. server' = server /\ server.head # 0
    <3>1. Drawn \cap Edits \subseteq made.all /\ made.all \cap Unfit = {}
      BY <1>6 DEF Steadily, Valid, QueueFits
    <3>2. r.doc \cap Unfit = {}
      BY <1>3, <3>1, ReplyIs, UnfitAssumption
    <3> QED
      BY <1>1, <1>3, <1>4, <1>5, <1>8, <3>2, CreatedIs
  <2>2. Set("io", run) /\ UNCHANGED <<disk, results>>
    BY <1>1, <1>8 DEF OnRefused
  <2>3. run \in Runs /\ run.pc = "find" /\ run.task = io["io"].task
    BY <1>5 DEF Runs, Waiting
  <2> HIDE DEF run
  <2>4. io'["io"] = run
    BY <1>5, <2>2, <2>3, SetTyped
  <2>5. WorkFits(io["io"])' => InStep'
    BY <2>1, <2>2, <2>3, <2>4, ReplyIs, TaskMovesOn
  <2>6. WorkFits(io["io"])'
    BY <2>1, <2>3, <2>4 DEF WorkFits
  <2> QED
    BY <2>5, <2>6
<1> QED
  BY <1>7, <1>8

\* Asking for a project that is there.
LEMMA GotIs ==
  ASSUME Steadily, Answered("io"), io["io"].pc \in {"find", "take", "rebase", "remember"}
  PROVE  \E a \in Answers(server, RequestOf("io")) :
           /\ server' = server /\ a.server = server /\ server.head \in Nat \ {0}
           /\ HeadIn(a, RequestOf("io")) = server.head
           /\ OnGranted("io", a, RequestOf("io"))
<1> DEFINE r == RequestOf("io")
<1>1. PICK a \in Answers(server, r) :
        /\ server' = a.server
        /\ IF Granted(a) THEN OnGranted("io", a, r) ELSE OnRefused("io", a.status)
  BY DEF Answered
<1>2. r.op = "get" /\ server.head \in Nat \ {0}
  BY ReplyIs DEF Steadily, InStep, WorkFits, ServerRows
<1>3. a = Answer("ok", server)
  BY <1>1, <1>2 DEF Answers
<1>4. a.status = "ok" /\ a.server = server
  BY <1>3 DEF Answer
<1>5. Granted(a) /\ HeadIn(a, r) = server.head
  BY <1>4 DEF Granted, HeadIn
<1> QED
  BY <1>1, <1>2, <1>4, <1>5

LEMMA FindInStep ==
  ASSUME Steadily, Answered("io"), io["io"].pc = "find"
  PROVE  InStep'
<1> DEFINE r == RequestOf("io")
           head == server.head
           run == GoesOn("io", "flush", head)
<1>1. PICK a \in Answers(server, r) :
        /\ server' = server /\ head \in Nat \ {0} /\ HeadIn(a, r) = head
        /\ OnGranted("io", a, r)
  BY GotIs
<1>2. /\ Set("io", run) /\ UNCHANGED results
      /\ disk' = [disk EXCEPT !.head = head, !.conflict = FALSE]
  BY <1>1 DEF OnGranted, Found, GoesOn
<1> HIDE DEF head
<1>3. run \in Runs /\ run.pc = "flush" /\ run.head = head /\ run.task = io["io"].task
  BY <1>1, StoresIs, ReplyIs
<1> HIDE DEF run
<1>4. disk'.outbox = disk.outbox /\ disk'.key = disk.key /\ disk'.doc = disk.doc
  BY <1>2, ReplyIs DEF Disks
<1>5. io'["io"] = run
  BY <1>2, <1>3, SetTyped, ReplyIs
<1>6. WorkFits(io["io"])' => InStep'
  BY <1>1, <1>2, <1>3, <1>4, <1>5, ReplyIs, TaskMovesOn
<1>7. WorkFits(io["io"])'
  BY <1>1, <1>3, <1>5 DEF WorkFits, head
<1> QED
  BY <1>6, <1>7

LEMMA RebaseInStep ==
  ASSUME Steadily, Answered("io"), io["io"].pc = "rebase"
  PROVE  InStep'
<1> DEFINE r == RequestOf("io")
           head == server.head
           run == GoesOn("io", "sync", head)
           saved == Persisted(head, FALSE)
<1>1. PICK a \in Answers(server, r) :
        /\ server' = server /\ head \in Nat \ {0} /\ HeadIn(a, r) = head
        /\ OnGranted("io", a, r)
  BY GotIs
<1>2. Set("io", run) /\ UNCHANGED results /\ disk' = [saved EXCEPT !.key = NewKey]
  BY <1>1 DEF OnGranted, GoesOn
<1> HIDE DEF head
<1>3. run \in Runs /\ run.pc = "sync" /\ run.head = head /\ run.task = io["io"].task
  BY <1>1, StoresIs, ReplyIs
<1> HIDE DEF run
<1>4. NewKey \in Nat /\ ~Filed(NewKey)
  BY NewKeyIs DEF Steadily, Fits
<1>5. disk'.outbox = disk.outbox /\ disk'.key = NewKey /\ disk'.doc = disk.doc
  <2>1. saved \in Disks /\ saved.outbox = disk.outbox /\ saved.doc = disk.doc
    BY <1>1, PersistedTyped, ReplyIs
  <2> HIDE DEF saved
  <2> QED
    BY <1>2, <1>4, <2>1 DEF Disks
<1>6. io'["io"] = run
  BY <1>2, <1>3, SetTyped, ReplyIs
<1>7. WorkFits(io["io"])' => InStep'
  BY <1>1, <1>2, <1>3, <1>4, <1>5, <1>6, ReplyIs, TaskMovesOn
<1>8. WorkFits(io["io"])'
  BY <1>1, <1>3, <1>6 DEF WorkFits, head
<1> QED
  BY <1>7, <1>8

LEMMA RememberInStep ==
  ASSUME Steadily, Answered("io"), io["io"].pc = "remember"
  PROVE  InStep'
<1>1. PICK a \in Answers(server, RequestOf("io")) :
        server' = server /\ OnGranted("io", a, RequestOf("io"))
  BY GotIs
<1>2. /\ disk' = Persisted(io["io"].head, TRUE)
      /\ End("io", TRUE, io["io"].head, TRUE)
  BY <1>1 DEF OnGranted
<1>3. io["io"].head # 0 /\ server.head # 0
  BY DEF Steadily, InStep, WorkFits
<1>4. io["io"].head \in Nat /\ TypeOK
  BY ReplyIs DEF Runs
<1>5. disk'.outbox = disk.outbox /\ disk'.key = disk.key /\ disk'.doc = disk.doc
  BY <1>2, <1>4, PersistedTyped
<1>6. io'["io"].pc # "clear"
  <2>1. "io" \in Threads
    BY DEF Threads
  <2>2. io'["io"] = Resting
    BY <1>2, <1>4, <2>1, EndTyped
  <2> QED
    BY <2>2 DEF Resting
<1>7. Standing = disk.outbox
  BY ReplyIs
<1> QED
  BY <1>1, <1>2, <1>3, <1>5, <1>6, <1>7, ReplyIs, TaskReports

LEMMA TakeInStep ==
  ASSUME Steadily, Answered("io"), io["io"].pc = "take"
  PROVE  InStep'
<1> DEFINE r == RequestOf("io")
           head == server.head
           run == GoesOn("io", "clear", head)
<1>1. PICK a \in Answers(server, r) :
        /\ server' = server /\ a.server = server /\ head \in Nat \ {0}
        /\ HeadIn(a, r) = head /\ OnGranted("io", a, r)
  BY GotIs
<1>2. Set("io", run) /\ UNCHANGED results /\ disk' = [disk EXCEPT !.doc = server.doc]
  <2>1. Document(server) = server.doc
    BY DEF Steadily, Valid, Document
  <2> QED
    BY <1>1, <2>1 DEF OnGranted, GoesOn
<1> HIDE DEF head
<1>3. run \in Runs /\ run.pc = "clear" /\ run.head = head /\ run.task = io["io"].task
  BY <1>1, StoresIs, ReplyIs
<1> HIDE DEF run
<1>4. OneAtATime' /\ HeadsFit' /\ io'["io"] = run
  BY <1>1, <1>2, <1>3, ReplyIs, TaskGoesOn
<1>5. /\ disk'.outbox = disk.outbox /\ disk'.key = disk.key /\ disk'.doc = server.doc
      /\ server \in ServerRows /\ server.head # 0
  BY <1>1, <1>2, ReplyIs DEF Disks, head
<1>6. KeyIsNew'
  BY <1>1, <1>5, ReplyIs DEF Steadily, InStep, KeyIsNew, Filed
<1>7. QueueFits' /\ FramesFit'
  <2>1. Standing' = <<>> /\ Drawn' = server'.doc
    BY <1>1, <1>3, <1>4, <1>5, ReplyIs DEF Standing, Drawn
  <2>2. TypeOK /\ QueueFits /\ FramesFit
    BY DEF Steadily, Fits, InStep
  <2>3. made' = made /\ seen \subseteq seen' /\
        ui'.undo = [i \in DOMAIN ui.undo |-> [ui.undo[i] EXCEPT !.past = TRUE]]
    BY <1>3, <1>4, ReplyIs
  <2> QED
    BY <1>1, <1>5, <2>1, <2>2, <2>3, TakenFits
<1>8. AsCreated' /\ WorkFits(io["io"])'
  BY <1>1, <1>3, <1>4, <1>5 DEF AsCreated, WorkFits, head
<1>9. Underway' \/ AtRest'
  <2>1. io["io"].task # "generate" \/ AtRest
    BY Alone
  <2> QED
    BY <1>1, <1>3, <1>4, <1>5, <2>1, ReplyIs DEF Underway, AtRest
<1> QED
  BY <1>4, <1>6, <1>7, <1>8, <1>9 DEF InStep

\* A conflict: the head of the server is asked for.
LEMMA ConflictInStep ==
  ASSUME Steadily, Answered("io"), io["io"].pc \in {"change", "generate"},
         Set("io", Pc("io", "remember")), UNCHANGED <<server, disk, results>>
  PROVE  InStep'
<1> DEFINE run == Pc("io", "remember")
<1>1. /\ run \in Runs /\ run.pc = "remember" /\ run.task = io["io"].task
      /\ run.head = io["io"].head
  BY PcTyped, ReplyIs
<1>2. Set("io", run)
  OBVIOUS
<1> HIDE DEF run
<1>3. io'["io"] = run
  BY <1>1, <1>2, SetTyped, ReplyIs
<1>4. WorkFits(io["io"])' => InStep'
  BY <1>1, <1>2, <1>3, ReplyIs, TaskMovesOn
<1>5. io["io"].head # 0 /\ server.head # 0
  BY DEF Steadily, InStep, WorkFits
<1>6. WorkFits(io["io"])'
  BY <1>1, <1>3, <1>5 DEF WorkFits
<1> QED
  BY <1>4, <1>6

\* The queue is new to the server, and would be applied.
LEMMA ChangeIsFine ==
  ASSUME Steadily, io["io"].pc = "change", Answered("io")
  PROVE  /\ RequestOf("io").op = "change" /\ RequestOf("io").ops = disk.outbox
         /\ \A f \in server.filed : f.key # RequestOf("io").key
         /\ Applicable(server, disk.outbox)
         /\ Same(seen, After(server.doc, disk.outbox), Drawn)
<1>1. /\ io["io"].ops = disk.outbox /\ disk.outbox # <<>> /\ io["io"].key = disk.key
      /\ server.head # 0
  BY DEF Steadily, InStep, WorkFits
<1>2. \A f \in server.filed : f.key # disk.key
  BY <1>1 DEF Steadily, InStep, KeyIsNew, Filed
<1>3. Leads(server, seen, disk.outbox, Drawn)
  BY ReplyIs DEF Steadily, InStep, QueueFits
<1> QED
  BY <1>1, <1>2, <1>3, ReplyIs DEF Leads

LEMMA ChangeInStep ==
  ASSUME Steadily, Answered("io"), io["io"].pc = "change"
  PROVE  InStep'
<1> DEFINE r == RequestOf("io")
<1>1. PICK a \in Answers(server, r) :
        /\ server' = a.server
        /\ IF Granted(a) THEN OnGranted("io", a, r) ELSE OnRefused("io", a.status)
  BY DEF Answered
<1>2. /\ r \in Requests /\ r.op = "change" /\ r.ops = disk.outbox
      /\ \A f \in server.filed : f.key # r.key
      /\ Applicable(server, r.ops) /\ Same(seen, After(server.doc, r.ops), Drawn)
  BY ReplyIs, ChangeIsFine
<1>3. a = Changed(server, r)
  BY <1>1, <1>2 DEF Answers
<1>4. server \in ServerRows /\ disk \in Disks /\ "io" \in Threads /\ TypeOK
  BY ReplyIs
<1>5. CASE server.head # r.base
  <2>1. a.status = "conflict" /\ server' = server /\ ~Granted(a)
    BY <1>1, <1>2, <1>3, <1>4, <1>5, ChangedMakes
  <2>2. Set("io", Pc("io", "remember")) /\ UNCHANGED <<disk, results>>
    BY <1>1, <2>1 DEF OnRefused
  <2> QED
    BY <2>1, <2>2, ConflictInStep
<1>6. CASE server.head = r.base
  <2> DEFINE head == a.server.head
             run == Drops("io", "dropSent", head)
  <2>1. /\ Granted(a) /\ HeadIn(a, r) = head /\ head = server.head + 1
        /\ a.server.doc = After(server.doc, r.ops)
        /\ a.server.applied = server.applied \cup ToSet(r.ops)
    BY <1>2, <1>3, <1>4, <1>6, ChangedMakes
  <2>2. Set("io", run) /\ UNCHANGED <<disk, results>>
    BY <1>1, <2>1 DEF OnGranted, Drops, GoesOn
  <2>3. head \in Nat /\ head # 0 /\ server'.head = head
    BY <1>1, <1>4, <2>1 DEF ServerRows
  <2> HIDE DEF head
  <2>4. /\ run \in Runs /\ run.pc = "dropSent" /\ run.head = head /\ run.conflict = FALSE
        /\ run.task = io["io"].task /\ run.left = Unsent("io")
    BY <2>3, DropsIs DEF Steadily, Fits, Threads
  <2> HIDE DEF run
  <2>5. run.left = <<>>
    BY <1>4, <2>4, UnsentTyped DEF Steadily, InStep, WorkFits
  <2>6. OneAtATime' /\ HeadsFit' /\ io'["io"] = run
    BY <2>2, <2>3, <2>4, ReplyIs, TaskGoesOn
  <2>7. KeyIsNew'
    BY <2>4, <2>6, ReplyIs DEF KeyIsNew
  <2>8. server' \in ServerRows
    <3>1. IsFiniteSet(server.filed)
      BY DEF Steadily, Fits, KeysAreFew
    <3> QED
      BY <1>1, <1>2, <1>3, <1>4, <3>1, ChangedTyped
  <2>9. QueueFits' /\ FramesFit'
    <3>1. Standing' = <<>> /\ Drawn' = Drawn
      BY <2>2, <2>4, <2>6, ReplyIs DEF Standing, Drawn
    <3>2. TypeOK /\ QueueFits /\ FramesFit
      BY DEF Steadily, Fits, InStep
    <3>3. Same(seen, server'.doc, Drawn)
      BY <1>1, <1>2, <2>1
    <3>4. Meant(made, server'.applied)
      <4>1. Meant(made, server.applied) /\ Meant(made, ToSet(r.ops))
        BY <1>2, <3>2, ReplyIs DEF QueueFits
      <4> QED
        BY <1>1, <2>1, <4>1 DEF Meant
    <3>5. made' = made /\ seen \subseteq seen' /\ ui'.undo = ui.undo
      BY <2>4, <2>6, ReplyIs
    <3> QED
      BY <2>3, <2>8, <3>1, <3>2, <3>3, <3>4, <3>5, SentFits
  <2>10. AsCreated' /\ (Underway' \/ AtRest')
    <3>1. io["io"].task # "generate" \/ AtRest
      BY Alone
    <3>2. disk.outbox # <<>> /\ server.head # 0
      BY DEF Steadily, InStep, WorkFits
    <3>3. io["io"].task # "generate" \/ ui.head # 0
      BY <3>1, <3>2 DEF AtRest
    <3> QED
      BY <2>4, <2>6, <3>3, ReplyIs DEF AsCreated, Underway, AtRest
  <2>11. WorkFits(io["io"])'
    BY <2>3, <2>4, <2>5, <2>6 DEF WorkFits
  <2> QED
    BY <2>6, <2>7, <2>9, <2>10, <2>11 DEF InStep
<1> QED
  BY <1>5, <1>6

LEMMA GenerateInStep ==
  ASSUME Steadily, Answered("io"), io["io"].pc = "generate"
  PROVE  InStep'
<1> DEFINE r == RequestOf("io")
<1>1. PICK a \in Answers(server, r) :
        /\ server' = a.server
        /\ IF Granted(a) THEN OnGranted("io", a, r) ELSE OnRefused("io", a.status)
  BY DEF Answered
<1>2. r \in Requests /\ r.op = "generate"
  BY ReplyIs
<1>3. a \in Generated(server, r)
  BY <1>1, <1>2 DEF Answers
<1>4. server \in ServerRows /\ disk \in Disks /\ "io" \in Threads /\ TypeOK
  BY ReplyIs
<1>5. /\ disk.outbox = <<>> /\ server.head # 0
  BY DEF Steadily, InStep, WorkFits
<1>6. CASE Granted(a)
  <2> DEFINE head == a.server.head
             run == GoesOn("io", "clear", head)
  <2>1. /\ a.status = "ok" /\ head = server.head + 1
        /\ a.server.doc \cap Edits = server.doc \cap Edits
        /\ a.server.applied = server.applied /\ a.server.gone = server.gone
    BY <1>2, <1>3, <1>4, <1>6, GeneratedMakes
  <2>2. HeadIn(a, r) = head
    BY <2>1 DEF HeadIn
  <2>3. /\ Set("io", run) /\ UNCHANGED results
        /\ disk' = [disk EXCEPT !.doc = a.server.doc]
    <3>1. Document(a.server) = a.server.doc
      BY <2>1 DEF Steadily, Valid, Document
    <3> QED
      BY <1>1, <1>6, <2>2, <3>1 DEF OnGranted, GoesOn
  <2>4. head \in Nat /\ head # 0 /\ server'.head = head
    BY <1>1, <1>4, <2>1 DEF ServerRows
  <2> HIDE DEF head
  <2>5. run \in Runs /\ run.pc = "clear" /\ run.head = head /\ run.task = io["io"].task
    BY <1>4, <2>4, StoresIs
  <2> HIDE DEF run
  <2>6. disk'.outbox = <<>> /\ disk'.doc = server'.doc
    BY <1>1, <1>4, <1>5, <2>3 DEF Disks
  <2>7. OneAtATime' /\ HeadsFit' /\ io'["io"] = run
    BY <2>3, <2>4, <2>5, ReplyIs, TaskGoesOn
  <2>8. KeyIsNew'
    BY <2>6, ReplyIs DEF KeyIsNew
  <2>9. QueueFits' /\ FramesFit'
    <3>1. Standing' = <<>> /\ Drawn' = server'.doc
      BY <2>5, <2>6, <2>7, ReplyIs DEF Standing, Drawn
    <3>2. TypeOK /\ QueueFits /\ FramesFit
      BY DEF Steadily, Fits, InStep
    <3>3. made' = made /\ seen \subseteq seen' /\
          ui'.undo = [i \in DOMAIN ui.undo |-> [ui.undo[i] EXCEPT !.past = TRUE]]
      BY <2>5, <2>7, ReplyIs
    <3>4. server' \in ServerRows
      BY <1>1, <1>3, <1>4, GeneratedTyped
    <3> QED
      BY <1>1, <2>1, <2>4, <3>1, <3>2, <3>3, <3>4, TakenFits
  <2>10. AsCreated' /\ AtRest' /\ WorkFits(io["io"])'
    BY <2>4, <2>5, <2>6, <2>7 DEF AsCreated, AtRest, WorkFits
  <2> QED
    BY <2>7, <2>8, <2>9, <2>10 DEF InStep
<1>7. CASE ~Granted(a)
  <2>1. server' = server
    BY <1>1, <1>2, <1>3, <1>4, <1>7, GeneratedMakes
  <2>2. CASE a.status = "conflict"
    <3>1. Set("io", Pc("io", "remember")) /\ UNCHANGED <<disk, results>>
      BY <1>1, <1>7, <2>2 DEF OnRefused
    <3> QED
      BY <2>1, <3>1, ConflictInStep
  <2>3. CASE a.status # "conflict"
    <3>1. Failed("io") /\ disk' = disk
      BY <1>1, <1>7, <2>3 DEF OnRefused
    <3> DEFINE report == [task |-> io["io"].task, told |-> FALSE, head |-> 0,
                          conflict |-> FALSE]
    <3>2. /\ io'["io"] = Resting /\ io'["old"] = io["old"]
          /\ results' = Append(results, report)
      BY <1>4, <3>1, FailedTyped DEF Threads
    <3>3. ~report.told
      OBVIOUS
    <3> HIDE DEF report
    <3>4. /\ ui.pc = "idle" /\ ui.cloud /\ queue = <<>> /\ results = <<>> /\ late = {}
          /\ io["old"].pc = "idle" /\ ~Heard
      BY Alone
    <3>5. Len(results') = 1 /\ DOMAIN results' = {1} /\ results'[1] = report
      BY <3>2, <3>4
    <3>6. Resting.pc = "idle"
      BY DEF Resting
    <3>7. OneAtATime' /\ HeadsFit' /\ KeyIsNew' /\ AtRest'
      <4>1. queue' = <<>>
        BY <3>4, ReplyIs
      <4>2. OneAtATime'
        BY <3>2, <3>4, <3>5, <3>6, <4>1, ReplyIs DEF OneAtATime
      <4>3. HeadsFit'
        <5>1. server'.head # 0 /\ ui'.cloud
          <6>1. server.head # 0 /\ server' = server
            BY <1>5, <2>1
          <6>2. ui'.cloud = ui.cloud
            BY ReplyIs
          <6> QED
            BY <3>4, <6>1, <6>2
        <5>2. \A i \in DOMAIN results' : ~results'[i].told
          BY <3>3, <3>5
        <5> QED
          BY <4>1, <5>1, <5>2 DEF HeadsFit
      <4>4. KeyIsNew' /\ AtRest'
        BY <1>5, <3>1, <3>4, ReplyIs DEF KeyIsNew, AtRest
      <4> QED
        BY <4>2, <4>3, <4>4
    <3>8. QueueFits' /\ FramesFit'
      <4>1. Standing' = Standing /\ Drawn' = Drawn
        BY <3>1, <3>2, <3>4, <3>6, ReplyIs DEF Standing, Drawn
      <4>2. made' = made /\ seen \subseteq seen' /\ ui'.undo = ui.undo
        BY <3>2, <3>6, ReplyIs
      <4> QED
        BY <2>1, <4>1, <4>2, FitStays DEF Steadily, InStep
    <3>9. AsCreated'
      BY <2>1, <3>2, <3>4, <3>6, ReplyIs DEF Steadily, InStep, AsCreated, Same
    <3>10. WorkFits(io["io"])'
      BY <3>2, <3>6 DEF WorkFits
    <3> QED
      BY <3>7, <3>8, <3>9, <3>10 DEF InStep
  <2> QED
    BY <2>2, <2>3
<1> QED
  BY <1>6, <1>7

LEMMA AnsweredInStep ==
  ASSUME Steadily, Answered("io"), Steady'
  PROVE  InStep'
<1>1. io["io"].pc \in {"create", "find", "change", "remember", "take", "rebase", "generate"}
  BY ReplyIs DEF Waiting
<1> QED
  BY <1>1, CreateInStep, FindInStep, ChangeInStep, RememberInStep, TakeInStep,
     RebaseInStep, GenerateInStep
\* What others do is not in the way of what is queued here.
LEMMA LeadsStill ==
  ASSUME TypeOK, server' \in ServerRows, server'.applied = server.applied,
         server'.gone = server.gone,
         server'.doc \cap Edits = server.doc \cap Edits, server.head # 0,
         "foreign" \in seen', NEW ops \in Seq(Ops), NEW doc, Leads(server, seen, ops, doc)
  PROVE  Leads(server', seen', ops, doc)
<1>1. /\ Applicable(server, ops) /\ Same(seen, After(server.doc, ops), doc)
      /\ \A op \in ToSet(ops) : ~op.undo => op.edit \notin server.doc
  BY DEF Leads
<1>2. server \in ServerRows
  BY Types
<1>3. /\ Applicable(server', ops)
      /\ After(server'.doc, ops) \cap Edits = After(server.doc, ops) \cap Edits
  <2>1. server.applied = server'.applied /\ server.doc \cap Edits = server'.doc \cap Edits
    OBVIOUS
  <2>2. server.gone = server'.gone
    OBVIOUS
  <2> QED
    BY <1>1, <1>2, <2>1, <2>2, ApplicableAlike
<1>4. Same(seen', After(server'.doc, ops), doc)
  BY <1>1, <1>3 DEF Same
<1>5. \A op \in ToSet(ops) : op.edit \in Edits
  <2>1. \A i \in DOMAIN ops : ops[i] \in Ops
    OBVIOUS
  <2> QED
    BY <2>1 DEF ToSet, Ops
<1>6. \A op \in ToSet(ops) : ~op.undo => op.edit \notin server'.doc
  BY <1>1, <1>5
<1> QED
  BY <1>3, <1>4, <1>6 DEF Leads

LEMMA OtherInStep ==
  ASSUME Steadily, NEW o \in Others, OtherDevice(o), Steady'
  PROVE  InStep'
<1>1. /\ server.head # 0
      /\ server' = [server EXCEPT !.head = @ + 1, !.doc = @ \cup {o}]
      /\ UNCHANGED <<late, disk, ui, queue, io, results, made>>
      /\ seen' = seen \cup {"foreign"}
  BY DEF OtherDevice, Note
<1>2. server \in ServerRows /\ TypeOK /\ ui \in Screens /\ disk \in Disks
  BY Types DEF Steadily, Fits
<1>3. /\ server'.head = server.head + 1 /\ server'.doc = server.doc \cup {o}
      /\ server'.created = server.created /\ server'.applied = server.applied
      /\ server'.filed = server.filed /\ server'.gone = server.gone
      /\ server' \in ServerRows
  <2> DEFINE head == server.head + 1
             doc == server.doc \cup {o}
  <2>1. head \in Nat /\ doc \in Docs
    BY <1>2 DEF ServerRows, Docs, All
  <2>2. server' = [server EXCEPT !.head = head, !.doc = doc]
    BY <1>1
  <2> HIDE DEF head, doc
  <2>3. /\ server'.head = head /\ server'.doc = doc
        /\ server'.created = server.created /\ server'.applied = server.applied
        /\ server'.filed = server.filed /\ server'.gone = server.gone
        /\ server' \in ServerRows
    BY <1>2, <2>1, <2>2 DEF ServerRows
  <2> QED
    BY <2>3 DEF head, doc
<1>4. server'.head # 0
  BY <1>2, <1>3 DEF ServerRows
<1>5. server'.doc \cap Edits = server.doc \cap Edits
  BY <1>3, DisjointAssumption
<1>6. Standing' = Standing /\ Drawn' = Drawn /\ Standing \in Seq(Ops)
  <2>1. ui.out \in Seq(Ops) /\ disk.outbox \in Seq(Ops) /\ <<>> \in Seq(Ops)
    BY <1>2 DEF Screens, Disks
  <2> QED
    BY <1>1, <2>1 DEF Standing, Drawn
<1>7. QueueFits'
  <2>1. Leads(server, seen, Standing, Drawn)
    BY DEF Steadily, InStep, QueueFits
  <2>2. Leads(server', seen', Standing, Drawn)
    BY <1>1, <1>2, <1>3, <1>5, <1>6, <2>1, LeadsStill
  <2>3. (Drawn \cup server'.doc) \cap Edits = (Drawn \cup server.doc) \cap Edits
    BY <1>5
  <2> QED
    BY <1>1, <1>3, <1>4, <1>6, <2>2, <2>3 DEF Steadily, InStep, QueueFits
<1>8. FramesFit'
  <2> SUFFICES ASSUME NEW i \in DOMAIN ui.undo
               PROVE  FrameFits(i)'
    BY <1>1 DEF FramesFit
  <2>1. FrameFits(i)
    BY DEF Steadily, InStep, FramesFit
  <2>2. ui.undo[i] \in Frames
    <3>1. ui.undo \in Seq(Frames)
      BY <1>2 DEF Screens, Frames
    <3> QED
      BY <3>1
  <2>3. ui.undo[i].outbox \in Seq(Ops) /\ ui.undo[i].edit \in Edits
    BY <2>2 DEF Frames
  <2>4. Leads(server, seen, ui.undo[i].outbox, ui.undo[i].doc)
          => Leads(server', seen', ui.undo[i].outbox, ui.undo[i].doc)
    BY <1>1, <1>2, <1>3, <1>5, <2>3, LeadsStill
  <2>5. ui.undo[i].edit \in server'.doc <=> ui.undo[i].edit \in server.doc
    BY <1>5, <2>3
  <2> QED
    BY <1>1, <1>6, <2>1, <2>4, <2>5 DEF FrameFits
<1>9. AsCreated'
  BY <1>1, <1>3, <1>5 DEF Steadily, InStep, AsCreated, Heard, Same
<1>10. OneAtATime' /\ KeyIsNew' /\ HeadsFit' /\ WorkFits(io["io"])'
  BY <1>1, <1>3, <1>4 DEF Steadily, InStep, OneAtATime, KeyIsNew, Filed, HeadsFit, WorkFits
<1>11. (Underway \/ AtRest)'
  BY <1>1 DEF Steadily, InStep, Underway, AtRest, Heard
<1> QED
  BY <1>7, <1>8, <1>9, <1>10, <1>11 DEF InStep

LEMMA InitInStep == Init => InStep /\ HeadIsStored
<1> SUFFICES ASSUME Init
             PROVE  InStep /\ HeadIsStored
  OBVIOUS
<1> DEFINE order == [task |-> "sync", head |-> 0, conflict |-> FALSE]
<1>1. order.task = "sync" /\ order.head = 0
  OBVIOUS
<1>2. queue = <<order>> /\ results = <<>> /\ late = {} /\ io = [t \in Threads |-> Resting]
  BY DEF Init
<1> HIDE DEF order
<1>3. Len(queue) = 1 /\ DOMAIN queue = {1} /\ queue[1] = order
  BY <1>2
<1>4. io["io"] = Resting /\ io["old"] = Resting /\ Resting.pc = "idle"
  BY <1>2 DEF Threads, Resting
<1>5. /\ server.head = 0 /\ server.doc = {} /\ server.applied = {}
      /\ disk.outbox = <<>> /\ disk.doc = {} /\ disk.head = 0
      /\ made.all = {} /\ made.undone = {}
  BY DEF Init
<1>6. /\ ui.pc = "idle" /\ ui.head = 0 /\ ui.conflict = FALSE
      /\ ui.undo = <<>>
  BY DEF Init, Shown
<1>7. OneAtATime /\ KeyIsNew
  BY <1>2, <1>3, <1>4, <1>5, <1>6 DEF OneAtATime, KeyIsNew
<1>8. QueueFits
  <2>1. Standing = <<>> /\ Drawn = {}
    BY <1>4, <1>5, <1>6 DEF Standing, Drawn
  <2>2. ToSet(<<>>) = {}
    BY DEF ToSet
  <2> QED
    BY <1>5, <2>1, <2>2 DEF QueueFits, Leads, Meant
<1>9. FramesFit
  BY <1>6 DEF FramesFit
<1>10. AsCreated /\ HeadsFit
  BY <1>1, <1>2, <1>3, <1>4, <1>5, <1>6 DEF AsCreated, HeadsFit
<1>11. Underway /\ WorkFits(io["io"]) /\ HeadIsStored
  BY <1>1, <1>3, <1>4, <1>5 DEF Underway, WorkFits, HeadIsStored
<1> QED
  BY <1>7, <1>8, <1>9, <1>10, <1>11 DEF InStep

\* Of the world only the additions of others leave the device steady.
LEMMA WorldIsSteady ==
  ASSUME Steadily, World, Steady'
  PROVE  \E o \in Others : OtherDevice(o)
<1>1. late = {}
  BY DEF Steadily, InStep, OneAtATime
<1>2. CASE \E t \in Threads : Unanswered(t)
  BY <1>2 DEF Unanswered, Note, Steady
<1>3. CASE Kill \/ Recreate
  BY <1>3 DEF Kill, Recreate, Note, Steady
<1>4. CASE \E edits \in SUBSET ((Edits \ Spare) \cup server.doc) : Removal(edits)
  BY <1>4 DEF Removal, Note, Steady
<1> QED
  BY <1>1, <1>2, <1>3, <1>4 DEF World

LEMMA OldIsGone ==
  ASSUME Steadily, Executor("old")
  PROVE  FALSE
<1>1. io["old"].pc = "idle"
  BY DEF Steadily, InStep, OneAtATime
<1> QED
  BY <1>1 DEF Executor, Sync, Post, Flush, TakeKey, Drop, Again, Synced, Clear, Answered,
              Waiting

LEMMA StepInStep ==
  ASSUME Fits, Steady => Valid /\ InStep, [Next]_vars, Steady'
  PROVE  InStep'
<1>1. Steadily
  BY SeenStays DEF Steady, Steadily
<1>2. CASE Main
  BY <1>1, <1>2, EditInStep, UndoInStep, EnqueueInStep, SaveInStep, PressInStep,
     GenerationInStep, OutcomeInStep, SignInInStep, SignOutIsSeen DEF Main
<1>3. CASE Begin
  BY <1>1, <1>3, BeginInStep
<1>4. CASE \E t \in Threads : Executor(t)
  <2>1. Executor("io")
    BY <1>1, <1>4, OldIsGone DEF Threads
  <2> QED
    BY <1>1, <2>1, SyncInStep, PostInStep, FlushInStep, TakeKeyInStep, DropInStep,
       AgainInStep, SyncedInStep, ClearInStep, AnsweredInStep DEF Executor
<1>5. CASE World
  BY <1>1, <1>5, WorldIsSteady, OtherInStep
<1>6. CASE UNCHANGED vars
  <2>1. UNCHANGED <<server, late, disk, ui, queue, io, results, made, seen>>
    BY <1>6 DEF vars
  <2>2. Standing' = Standing /\ Drawn' = Drawn
    BY <2>1 DEF Standing, Drawn
  <2>3. QueueFits' /\ FramesFit'
    BY <1>1, <2>1, <2>2, FitStays DEF Steadily, InStep
  <2>4. OneAtATime' /\ KeyIsNew' /\ HeadsFit' /\ WorkFits(io["io"])'
    BY <1>1, <2>1 DEF Steadily, InStep, OneAtATime, KeyIsNew, Filed, HeadsFit, WorkFits
  <2>5. AsCreated' /\ (Underway \/ AtRest)'
    BY <1>1, <2>1 DEF Steadily, InStep, AsCreated, Same, Underway, AtRest, Heard
  <2> QED
    BY <2>3, <2>4, <2>5 DEF InStep
<1> QED
  BY <1>2, <1>3, <1>4, <1>5, <1>6 DEF Next

\* Nothing is removed, and no unfit edit made, without a mishap.
LEMMA StepIsValid ==
  ASSUME Fits, Steady => Valid /\ InStep, [Next]_vars, Steady'
  PROVE  Valid'
<1>1. Steadily /\ server \in ServerRows
  BY SeenStays, Types DEF Steady, Steadily, Fits
<1>2. CASE \E e \in Edits : Edit(e)
  <2>1. PICK e \in Edits : Edit(e)
    BY <1>2
  <2>2. made'.all = made.all \cup {e} /\ server' = server
    BY <2>1, Types DEF Fits, Edit
  <2> QED
    BY <1>1, <2>1, <2>2, EditIsValid DEF Steadily, Fits, Valid
<1>3. CASE Main /\ ~\E e \in Edits : Edit(e)
  <2>1. made'.all = made.all /\ server' = server
    <3>1. CASE Undo
      BY <3>1, Types DEF Fits, Undo
    <3>2. CASE ~Undo
      BY <1>3, <3>2 DEF Main, Enqueue, Save, Press, RequestGeneration, ApplyOutcome,
                        SignIn, SignOut
    <3> QED
      BY <3>1, <3>2
  <2> QED
    BY <1>1, <2>1 DEF Steadily, Valid
<1>4. CASE \E t \in Threads : Answered(t)
  <2>1. PICK t \in Threads : Answered(t)
    BY <1>4
  <2>2. PICK a \in Answers(server, RequestOf(t)) : server' = a.server
    BY <2>1 DEF Answered
  <2>3. RequestOf(t) \in Requests /\ IsFiniteSet(server.filed) /\ made' = made
    BY <2>1, RequestTyped DEF Fits, KeysAreFew, Answered
  <2> QED
    BY <1>1, <2>2, <2>3, AnswersTyped DEF Steadily, Valid
<1>5. CASE World
  <2>1. PICK o \in Others : OtherDevice(o)
    BY <1>1, <1>5, WorldIsSteady
  <2>2. server'.gone = server.gone /\ made' = made
    BY <1>1, <2>1 DEF OtherDevice, ServerRows
  <2> QED
    BY <1>1, <2>2 DEF Steadily, Valid
<1>6. CASE \/ Begin
           \/ \E t \in Threads : \/ Sync(t) \/ Post(t) \/ Flush(t) \/ TakeKey(t) \/ Drop(t)
                                 \/ Again(t) \/ Synced(t) \/ Clear(t)
           \/ UNCHANGED vars
  <2>1. server' = server /\ made' = made
    BY <1>6 DEF Begin, Sync, Post, Flush, TakeKey, Drop, Again, Synced, Clear, vars
  <2> QED
    BY <1>1, <2>1 DEF Steadily, Valid
<1> QED
  BY <1>2, <1>3, <1>4, <1>5, <1>6 DEF Next, Executor

\* The server refuses what it is sent only after a mishap.
LEMMA StepIsAccepted ==
  ASSUME Fits, Steady => Valid /\ InStep,
         "signedout" \notin seen => RejectedOnlyAfterMishap, [Next]_vars
  PROVE  ("signedout" \notin seen => RejectedOnlyAfterMishap)'
<1> SUFFICES ASSUME Steady', "rejected" \notin seen
             PROVE  "rejected" \notin seen'
  BY SeenStays DEF RejectedOnlyAfterMishap, Refusals, Steady
<1>1. Steadily
  BY SeenStays DEF Steady, Steadily
<1>2. CASE Main
  <2>1. CASE \/ \E e \in Edits : Edit(e)
             \/ \E task \in Tasks : Press(task)
             \/ RequestGeneration
    <3>1. \/ \E e \in Edits : seen' = seen \cup (Overlap \cup Outgrown(Outbox(Do(e)))
                                             \cup Refusable(e))
          \/ seen' = seen \cup Overlap
      BY <2>1 DEF Edit, Press, RequestGeneration, Note
    <3> QED
      BY <3>1 DEF Overlap, Outgrown, Refusable
  <2>2. CASE Undo
    <3>1. \E past \in {{}, {"past"}} :
            seen' = seen \cup (Overlap \cup Outgrown(ui'.out) \cup past)
      <4>1. seen' = seen \cup (Overlap \cup Outgrown(ui'.out)
                              \cup IF Head(ui.undo).past THEN {"past"} ELSE {})
        BY <2>2 DEF Undo, Note
      <4>2. CASE Head(ui.undo).past
        BY <4>1, <4>2
      <4>3. CASE ~Head(ui.undo).past
        BY <4>1, <4>3
      <4> QED
        BY <4>2, <4>3
    <3> QED
      BY <3>1 DEF Overlap, Outgrown
  <2>3. CASE Enqueue \/ Save \/ ApplyOutcome \/ SignIn \/ SignOut
    BY <2>3 DEF Enqueue, Save, ApplyOutcome, SignIn, SignOut, Note
  <2> QED
    BY <1>2, <2>1, <2>2, <2>3 DEF Main
<1>3. CASE Begin
  BY <1>3 DEF Begin
<1>4. CASE \E t \in Threads : Executor(t)
  <2>1. Executor("io")
    BY <1>1, <1>4, OldIsGone DEF Threads
  <2>2. CASE \/ Sync("io") \/ Post("io") \/ Flush("io") \/ TakeKey("io") \/ Drop("io")
             \/ Again("io") \/ Synced("io") \/ Clear("io")
    BY <2>2 DEF Sync, Post, Flush, TakeKey, Drop, Again, Synced, Clear
  <2>3. CASE Answered("io")
    <3> DEFINE r == RequestOf("io")
    <3>1. PICK a \in Answers(server, r) :
            seen' = seen \cup IF io["io"].pc = "change" /\ a.status = "refused"
                              THEN {"rejected"} ELSE {}
      BY <2>3 DEF Answered
    <3>2. CASE io["io"].pc = "change"
      <4>1. /\ r \in Requests /\ r.op = "change" /\ server \in ServerRows
            /\ \A f \in server.filed : f.key # r.key
            /\ Applicable(server, r.ops)
        BY <1>1, <2>3, <3>2, ReplyIs, ChangeIsFine
      <4>2. a = Changed(server, r)
        BY <3>1, <4>1 DEF Answers
      <4>3. a.status \in {"ok", "conflict"}
        BY <4>1, <4>2, ChangedMakes
      <4> QED
        BY <3>1, <4>3
    <3>3. CASE io["io"].pc # "change"
      BY <3>1, <3>3
    <3> QED
      BY <3>2, <3>3
  <2> QED
    BY <2>1, <2>2, <2>3 DEF Executor
<1>5. CASE World
  <2>1. seen' = seen \cup {"foreign"}
    BY <1>1, <1>5, WorldIsSteady DEF OtherDevice, Note
  <2> QED
    BY <2>1
<1>6. CASE UNCHANGED vars
  BY <1>6 DEF vars
<1> QED
  BY <1>2, <1>3, <1>4, <1>5, <1>6 DEF Next
-------------------------------------------------------------------------------
(* In calm the device stores the head of the server.                        *)

LEMMA HeadStays ==
  ASSUME HeadIsStored, disk'.head = disk.head, server'.head = server.head,
         io["io"].pc \notin {"dropSent", "clear"} \/ io'["io"].pc = io["io"].pc
  PROVE  HeadIsStored'
  BY DEF HeadIsStored

LEMMA MainStores ==
  ASSUME Orderly, HeadIsStored, Main
  PROVE  HeadIsStored'
<1>1. disk \in Disks
  BY Types DEF Orderly, Fits
<1>2. server' = server /\ io' = io
  BY DEF Main, Edit, Undo, Enqueue, Save, Press, RequestGeneration, ApplyOutcome, SignIn,
         SignOut
<1>3. disk'.head = disk.head
  <2>1. CASE Undo
    BY <1>1, <2>1 DEF Undo, Disks
  <2>2. CASE Enqueue \/ Save
    BY <1>1, <2>2 DEF Enqueue, Save, Disks
  <2>3. CASE ~Undo /\ ~Enqueue /\ ~Save
    BY <2>3 DEF Main, Edit, Press, RequestGeneration, ApplyOutcome, SignIn, SignOut
  <2> QED
    BY <2>1, <2>2, <2>3
<1> QED
  BY <1>2, <1>3, HeadStays

\* The steps of a task that store its head, and those that do not.
LEMMA TaskStores ==
  ASSUME Orderly, HeadIsStored,
         \/ Sync("io") \/ Post("io") \/ Flush("io") \/ TakeKey("io") \/ Drop("io")
         \/ Again("io") \/ Synced("io") \/ Clear("io")
  PROVE  HeadIsStored'
<1>1. disk \in Disks /\ TypeOK /\ io["io"].head \in Nat /\ FALSE \in BOOLEAN
  BY Types DEF Orderly, Fits, Runs, Threads
<1> DEFINE saved == Persisted(io["io"].head, FALSE)
<1>2. saved \in Disks /\ saved.head = io["io"].head
  BY <1>1, PersistedTyped
<1> HIDE DEF saved
<1>3. io["io"].pc \in {"flush", "dropPosted", "dropSent", "clear"} =>
        io["io"].head = server.head
  BY DEF Orderly, InOrder, AtIt
<1>4. CASE Sync("io") \/ Post("io") \/ TakeKey("io") \/ Synced("io")
  <2>1. server' = server /\ disk' = disk /\ io["io"].pc \notin {"dropSent", "clear"}
    BY <1>4 DEF Sync, Post, TakeKey, Synced
  <2> QED
    BY <2>1, HeadStays
<1>5. CASE Flush("io")
  <2>1. server' = server /\ io["io"].pc = "flush" /\ (disk' = saved \/ disk' = disk)
    BY <1>5 DEF Flush, saved
  <2> QED
    BY <1>2, <1>3, <2>1, HeadStays DEF HeadIsStored
<1>6. CASE Drop("io")
  <2>1. /\ server' = server /\ io["io"].pc \in {"dropPosted", "dropSent"}
        /\ disk' = [saved EXCEPT !.outbox = io["io"].left]
    BY <1>6 DEF Drop, saved
  <2>2. disk'.head = saved.head
    BY <1>2, <2>1 DEF Disks
  <2> QED
    BY <1>2, <1>3, <2>1, <2>2 DEF HeadIsStored
<1>7. CASE Again("io")
  <2> DEFINE key == IF disk.outbox = <<>> THEN disk.key ELSE NewKey
  <2>1. /\ server' = server /\ io["io"].pc = "again" /\ disk' = [disk EXCEPT !.key = key]
    BY <1>7 DEF Again
  <2> HIDE DEF key
  <2>2. disk'.head = disk.head
    BY <1>1, <2>1 DEF Disks
  <2> QED
    BY <2>1, <2>2, HeadStays
<1>8. CASE Clear("io")
  <2>1. /\ server' = server /\ io["io"].pc = "clear"
        /\ disk' = [saved EXCEPT !.outbox = <<>>]
    BY <1>8 DEF Clear, saved
  <2>2. disk'.head = saved.head
    BY <1>2, <2>1 DEF Disks
  <2> QED
    BY <1>2, <1>3, <2>1, <2>2 DEF HeadIsStored
<1> QED
  BY <1>4, <1>5, <1>6, <1>7, <1>8

LEMMA AnswerStores ==
  ASSUME Orderly, HeadIsStored, Answered("io")
  PROVE  HeadIsStored'
<1> DEFINE r == RequestOf("io")
<1>1. PICK a \in Answers(server, r) :
        /\ server' = a.server
        /\ IF Granted(a) THEN OnGranted("io", a, r) ELSE OnRefused("io", a.status)
  BY DEF Answered
<1>2. /\ r \in Requests /\ r.base = io["io"].head /\ r.ops = io["io"].ops
      /\ r.key = io["io"].key /\ Known(ui.head)
      /\ io["io"].pc \in {"create", "find", "change", "generate"}
      /\ r.op = IF io["io"].pc \in {"create", "change", "generate"} THEN io["io"].pc
                ELSE "get"
  BY AnswerIs, RequestTyped DEF Orderly, Fits, Threads
<1>3. server \in ServerRows /\ disk \in Disks /\ "io" \in Threads /\ TypeOK
      /\ server.head \in Nat
  BY Types DEF Orderly, Fits, Threads, ServerRows
<1>4. CASE io["io"].pc = "create"
  <2>1. a = Created(server, r) /\ r.op = "create"
    BY <1>1, <1>2, <1>4 DEF Answers
  <2>2. server.head = 0 \/ server.head = 1
    BY <1>2, <1>3, <1>4 DEF Known, Orderly, InOrder, AtIt
  <2>3. CASE Granted(a)
    <3>1. HeadIn(a, r) = 1 /\ server'.head = 1
      BY <1>1, <1>2, <1>3, <2>1, <2>2, <2>3, CreatedIs
    <3>2. disk' = disk \/ disk' = [disk EXCEPT !.head = 1, !.conflict = FALSE]
      BY <1>1, <1>4, <2>3, <3>1 DEF OnGranted, Found
    <3>3. disk'.head = disk.head \/ disk'.head = 1
      BY <1>3, <3>2 DEF Disks
    <3> QED
      BY <1>4, <2>2, <3>1, <3>3 DEF HeadIsStored
  <2>4. CASE ~Granted(a)
    <3>1. server' = server
      BY <1>1, <1>2, <1>3, <2>1, <2>4, CreatedIs
    <3>2. disk' = disk
      BY <1>1, <1>4, <2>4 DEF OnRefused
    <3> QED
      BY <1>4, <3>1, <3>2, HeadStays
  <2> QED
    BY <2>3, <2>4
<1>5. CASE io["io"].pc = "find" /\ server.head = 0
  <2>1. a = Answer("refused", server)
    BY <1>1, <1>2, <1>5 DEF Answers
  <2>2. a.status = "refused" /\ a.server = server
    BY <2>1 DEF Answer
  <2>3. disk' = disk
    BY <1>1, <1>5, <2>2 DEF OnRefused, Granted
  <2> QED
    BY <1>1, <1>5, <2>2, <2>3, HeadStays
<1>6. CASE io["io"].pc = "find" /\ server.head # 0
  <2>1. server.head = 1
    BY <1>6 DEF Orderly, InOrder, AtIt
  <2>2. a = Answer("ok", server)
    BY <1>1, <1>2, <1>6, <2>1 DEF Answers
  <2>3. a.status = "ok" /\ a.server = server
    BY <2>2 DEF Answer
  <2>4. Granted(a) /\ HeadIn(a, r) = 1
    BY <2>1, <2>3 DEF Granted, HeadIn
  <2>5. disk' = [disk EXCEPT !.head = 1, !.conflict = FALSE]
    BY <1>1, <1>6, <2>4 DEF OnGranted, Found
  <2>6. disk'.head = 1
    BY <1>3, <2>5 DEF Disks
  <2> QED
    BY <1>1, <2>1, <2>3, <2>6 DEF HeadIsStored
<1>7. CASE io["io"].pc \in {"change", "generate"}
  <2>1. r.base = server.head
    BY <1>2, <1>7 DEF Orderly, InOrder, AtIt
  <2>2. Granted(a) => HeadIn(a, r) = a.server.head
    <3>1. CASE io["io"].pc = "change"
      <4>1. a = Changed(server, r) /\ r.op = "change"
        BY <1>1, <1>2, <3>1 DEF Answers
      <4>2. \A f \in server.filed : f.key # r.key
        BY <1>2, <3>1 DEF Orderly, InOrder, KeyIsNew, Filed, AtIt
      <4> QED
        BY <1>2, <1>3, <2>1, <4>1, <4>2, ChangedIs
    <3>2. CASE io["io"].pc = "generate"
      <4>1. a \in Generated(server, r) /\ r.op = "generate"
        BY <1>1, <1>2, <3>2 DEF Answers
      <4> QED
        BY <1>2, <1>3, <2>1, <4>1, GeneratedIs
    <3> QED
      BY <1>7, <3>1, <3>2
  <2>3. CASE Granted(a)
    <3> DEFINE head == a.server.head
    <3>1. io'["io"].pc \in {"dropSent", "clear"}
      <4>1. head \in Nat
        <5>1. CASE io["io"].pc = "change"
          <6>1. a = Changed(server, r) /\ r.op = "change" /\ IsFiniteSet(server.filed)
            BY <1>1, <1>2, <5>1 DEF Answers, Orderly, Fits, KeysAreFew
          <6> QED
            BY <1>2, <1>3, <6>1, ChangedTyped DEF ServerRows
        <5>2. CASE io["io"].pc = "generate"
          <6>1. a \in Generated(server, r) /\ r.op = "generate"
            BY <1>1, <1>2, <5>2 DEF Answers
          <6> QED
            BY <1>2, <1>3, <6>1, GeneratedTyped DEF ServerRows
        <5> QED
          BY <1>7, <5>1, <5>2
      <4>2. CASE io["io"].pc = "change"
        <5> DEFINE run == Drops("io", "dropSent", head)
        <5>1. Set("io", run)
          BY <1>1, <2>2, <2>3, <4>2 DEF OnGranted, Drops, GoesOn
        <5> HIDE DEF head
        <5>2. run \in Runs /\ run.pc = "dropSent"
          BY <1>3, <4>1, DropsIs
        <5> HIDE DEF run
        <5>3. io'["io"] = run
          BY <1>3, <5>1, <5>2, SetTyped
        <5> QED
          BY <5>2, <5>3
      <4>3. CASE io["io"].pc = "generate"
        <5> DEFINE run == GoesOn("io", "clear", head)
        <5>1. Set("io", run)
          BY <1>1, <2>2, <2>3, <4>3 DEF OnGranted, GoesOn
        <5> HIDE DEF head
        <5>2. run \in Runs /\ run.pc = "clear"
          BY <1>3, <4>1, StoresIs
        <5> HIDE DEF run
        <5>3. io'["io"] = run
          BY <1>3, <5>1, <5>2, SetTyped
        <5> QED
          BY <5>2, <5>3
      <4> QED
        BY <1>7, <4>2, <4>3
    <3> QED
      BY <3>1 DEF HeadIsStored
  <2>4. CASE ~Granted(a)
    <3>1. server' = server
      <4>1. CASE io["io"].pc = "change"
        <5>1. a = Changed(server, r) /\ r.op = "change"
          BY <1>1, <1>2, <4>1 DEF Answers
        <5>2. \A f \in server.filed : f.key # r.key
          BY <1>2, <4>1 DEF Orderly, InOrder, KeyIsNew, Filed, AtIt
        <5> QED
          BY <1>1, <1>2, <1>3, <2>1, <2>4, <5>1, <5>2, ChangedIs
      <4>2. CASE io["io"].pc = "generate"
        <5>1. a \in Generated(server, r) /\ r.op = "generate"
          BY <1>1, <1>2, <4>2 DEF Answers
        <5> QED
          BY <1>1, <1>2, <1>3, <2>1, <2>4, <5>1, GeneratedIs
      <4> QED
        BY <1>7, <4>1, <4>2
    <3>2. disk' = disk
      BY <1>1, <1>7, <2>4 DEF OnRefused
    <3> QED
      BY <1>7, <3>1, <3>2, HeadStays
  <2> QED
    BY <2>3, <2>4
<1> QED
  BY <1>2, <1>4, <1>5, <1>6, <1>7

LEMMA StepStores ==
  ASSUME Fits, Calm => InOrder /\ HeadIsStored, [Next]_vars, Calm'
  PROVE  HeadIsStored'
<1>1. Orderly /\ HeadIsStored
  BY SeenStays DEF Calm, Orderly
<1>2. CASE Main
  BY <1>1, <1>2, MainStores
<1>3. CASE Begin
  <2>1. server' = server /\ disk' = disk /\ io["io"].pc = "idle"
    BY <1>3 DEF Begin
  <2> QED
    BY <1>1, <2>1, HeadStays
<1>4. CASE \E t \in Threads : Executor(t)
  <2>1. Executor("io")
    BY <1>1, <1>4, OldRests DEF Threads
  <2> QED
    BY <1>1, <2>1, TaskStores, AnswerStores DEF Executor
<1>5. CASE World
  BY <1>1, <1>5, WorldIsCalm
<1>6. CASE UNCHANGED vars
  BY <1>1, <1>6, HeadStays DEF vars
<1> QED
  BY <1>2, <1>3, <1>4, <1>5, <1>6 DEF Next
-------------------------------------------------------------------------------
(* What the user did and never undid survives.                              *)

\* An operation that is not taken back has its effect in the end.
LEMMA PutIn ==
  ASSUME NEW d \in Docs, NEW ops \in Seq(Ops), NEW e \in Edits,
         Do(e) \in ToSet(ops), Revert(e) \notin ToSet(ops)
  PROVE  e \in After(d, ops)
<1> DEFINE N == Len(ops)
           f == Through(d, ops)
<1>1. f[0] = d /\ \A n \in 1 .. N : f[n] = Effect(f[n - 1], ops[n])
  BY ThroughIs
<1> HIDE DEF f
<1>2. N \in Nat /\ \A n \in 1 .. N : ops[n] \in Ops /\ ops[n] # Revert(e)
  BY DEF ToSet
<1>3. PICK k \in 1 .. N : ops[k] = Do(e)
  BY DEF ToSet
<1> DEFINE S == {n \in 0 .. N : n >= k => e \in f[n]}
<1>4. 0 \in S
  BY <1>2, <1>3
<1>5. ASSUME NEW n \in 1 .. N, n - 1 \in S
      PROVE  n \in S
  <2>1. n \in 0 .. N /\ (n - 1 >= k => e \in f[n - 1])
    BY <1>2, <1>5
  <2>2. ops[n].undo => ops[n].edit # e
    <3>1. ops[n] \in Ops /\ ops[n] # Revert(e)
      BY <1>2
    <3> QED
      BY <3>1 DEF Ops, Revert
  <2>3. CASE n = k
    <3>1. ops[n].edit = e /\ ~ops[n].undo
      BY <1>3, <2>3 DEF Do
    <3> QED
      BY <1>1, <2>1, <3>1 DEF Effect
  <2>4. CASE n # k
    <3>1. n >= k => n - 1 >= k
      BY <1>3, <2>4
    <3> QED
      BY <1>1, <2>1, <2>2, <3>1 DEF Effect
  <2> QED
    BY <2>3, <2>4
<1> HIDE DEF S
<1>6. \A n \in 0 .. N : n \in S
  BY <1>2, <1>4, <1>5, UpTo
<1>7. N \in S /\ N >= k
  BY <1>2, <1>3, <1>6
<1> QED
  BY <1>7 DEF S, f, After

\* What is meant and lasts is not taken back.
LEMMA NotTakenBack ==
  ASSUME NEW did, NEW ops, Meant(did, ops), NEW e \in Lasting(did)
  PROVE  Revert(e) \notin ops
  BY DEF Meant, Lasting, Revert

\* The user does more: what was done stays done, and what was undone undone.
Grows(did, more) == did.all \subseteq more.all /\ did.undone \subseteq more.undone

LEMMA LastingGrows ==
  ASSUME NEW did, NEW more, Grows(did, more), more.all \subseteq Edits,
         NEW doc, doc \cap Edits \subseteq did.all
  PROVE  Lasting(more) \cap doc \subseteq Lasting(did)
  BY DEF Grows, Lasting

LEMMA MeantGrows ==
  ASSUME NEW did, NEW more, Grows(did, more), NEW ops, Meant(did, ops)
  PROVE  Meant(more, ops)
  BY DEF Grows, Meant

LEMMA MineGrows ==
  ASSUME NEW did, NEW more, Grows(did, more), NEW doc, NEW ops, Mine(did, doc, ops)
  PROVE  Mine(more, doc, ops)
  BY MeantGrows DEF Mine, Grows

LEMMA KeptGrows ==
  ASSUME NEW did, NEW more, Grows(did, more), more.all \subseteq Edits,
         NEW s, NEW doc, doc \cap Edits \subseteq did.all, NEW ops, Kept(did, s, doc, ops)
  PROVE  Kept(more, s, doc, ops)
  BY LastingGrows DEF Kept

\* What the server filed was meant, so that what the user does anew is not among it.
LEMMA ServerGrows ==
  ASSUME NEW did, NEW more, Grows(did, more), more.all \subseteq Edits,
         NEW s \in ServerRows, ServerKeeps(did, s)
  PROVE  ServerKeeps(more, s)
<1>1. (s.doc \cup s.created) \cap Edits \subseteq more.all
  BY DEF ServerKeeps, Grows
<1>2. Lasting(more) \cap s.created \subseteq s.doc
  BY LastingGrows DEF ServerKeeps
<1>3. ASSUME NEW f \in s.filed
      PROVE  /\ Meant(more, ToSet(f.ops))
             /\ \A e \in Lasting(more) : Do(e) \in ToSet(f.ops) => e \in s.doc
  <2>1. Meant(did, ToSet(f.ops))
    BY DEF ServerKeeps
  <2>2. ASSUME NEW e \in Lasting(more), Do(e) \in ToSet(f.ops)
        PROVE  e \in Lasting(did)
    <3>1. e \in did.all
      BY <2>1, <2>2 DEF Meant, Do
    <3> QED
      BY <3>1 DEF Grows, Lasting
  <2> QED
    BY <2>1, <2>2, MeantGrows DEF ServerKeeps
<1> QED
  BY <1>1, <1>2, <1>3 DEF ServerKeeps

\* The queue of a device takes nothing off the server that lasts, and puts there what
\* it does.
LEMMA AfterKeeps ==
  ASSUME NEW did, did.all \subseteq Edits, NEW d \in Docs, NEW ops \in Seq(Ops),
         Meant(did, ToSet(ops))
  PROVE  /\ Lasting(did) \cap d \subseteq After(d, ops)
         /\ \A e \in Lasting(did) : Do(e) \in ToSet(ops) => e \in After(d, ops)
<1>1. \A e \in Lasting(did) : Revert(e) \notin ToSet(ops)
  BY NotTakenBack
<1>2. Lasting(did) \subseteq Edits
  BY DEF Lasting
<1> QED
  BY <1>1, <1>2, PutIn, TakenBack

\* A document holds nothing but what the user did after what the user did.
LEMMA AfterIsMine ==
  ASSUME NEW did, NEW d \in Docs, d \cap Edits \subseteq did.all,
         NEW ops \in Seq(Ops), Meant(did, ToSet(ops))
  PROVE  After(d, ops) \cap Edits \subseteq did.all
<1> DEFINE N == Len(ops)
           f == Through(d, ops)
<1>1. f[0] = d /\ \A n \in 1 .. N : f[n] = Effect(f[n - 1], ops[n])
  BY ThroughIs
<1> HIDE DEF f
<1>2. N \in Nat /\ \A n \in 1 .. N : ops[n] \in Ops /\ ops[n] \in ToSet(ops)
  BY DEF ToSet
<1> DEFINE S == {n \in 0 .. N : f[n] \cap Edits \subseteq did.all}
<1>3. 0 \in S
  BY <1>1, <1>2
<1>4. ASSUME NEW n \in 1 .. N, n - 1 \in S
      PROVE  n \in S
  <2>1. n \in 0 .. N /\ f[n - 1] \cap Edits \subseteq did.all
    BY <1>2, <1>4
  <2>2. ~ops[n].undo => ops[n].edit \in did.all
    BY <1>2 DEF Meant
  <2>3. f[n] \cap Edits \subseteq did.all
    BY <1>1, <2>1, <2>2 DEF Effect
  <2> QED
    BY <2>1, <2>3
<1> HIDE DEF S
<1>5. \A n \in 0 .. N : n \in S
  BY <1>2, <1>3, <1>4, UpTo
<1>6. N \in S
  BY <1>2, <1>5
<1> QED
  BY <1>6 DEF S, f, After

\* What others do adds to the document.
LEMMA OtherKeeps ==
  ASSUME NEW did, NEW s \in ServerRows, ServerKeeps(did, s), NEW o \in Others
  PROVE  LET row == [s EXCEPT !.head = @ + 1, !.doc = @ \cup {o}] IN
         ServerKeeps(did, row) /\ s.doc \subseteq row.doc
<1> DEFINE doc == s.doc \cup {o}
           row == [s EXCEPT !.head = s.head + 1, !.doc = doc]
<1>1. s.head \in Nat /\ doc \cap Edits = s.doc \cap Edits
  BY DisjointAssumption DEF ServerRows
<1>2. s.doc \subseteq doc
  OBVIOUS
<1> HIDE DEF doc
<1>3. row.head = s.head + 1 /\ row.doc = doc /\ row.created = s.created /\ row.filed = s.filed
  BY DEF ServerRows
<1>4. row.head # 0
  BY <1>1, <1>3
<1> DEFINE given == [s EXCEPT !.head = @ + 1, !.doc = @ \cup {o}]
<1>5. given = row
  BY DEF doc
<1> HIDE DEF row, given
<1>6. ServerKeeps(did, row)
  BY <1>1, <1>2, <1>3, <1>4 DEF ServerKeeps
<1> QED
  BY <1>2, <1>3, <1>5, <1>6 DEF given

\* What others remove was there: the server got it.
LEMMA RemovalKeeps ==
  ASSUME NEW did, NEW s \in ServerRows, ServerKeeps(did, s), s.head # 0, NEW edits
  PROVE  LET row == [s EXCEPT !.head = @ + 1, !.gone = @ \cup edits] IN
         ServerKeeps(did, row) /\ s.doc \subseteq row.doc
<1> DEFINE gone == s.gone \cup edits
           row == [s EXCEPT !.head = s.head + 1, !.gone = gone]
<1>1. s.head \in Nat
  BY DEF ServerRows
<1> HIDE DEF gone
<1>2. row.head = s.head + 1 /\ row.doc = s.doc /\ row.created = s.created
      /\ row.filed = s.filed
  BY DEF ServerRows
<1>3. row.head # 0
  BY <1>1, <1>2
<1> DEFINE given == [s EXCEPT !.head = @ + 1, !.gone = @ \cup edits]
<1>4. given = row
  BY DEF gone
<1> HIDE DEF row, given
<1>5. ServerKeeps(did, row)
  BY <1>2, <1>3 DEF ServerKeeps
<1> QED
  BY <1>2, <1>4, <1>5 DEF given

LEMMA CreatedKeeps ==
  ASSUME NEW did, NEW s \in ServerRows, ServerKeeps(did, s),
         NEW r \in Requests, Mine(did, r.doc, r.ops), NEW a, a = Created(s, r)
  PROVE  /\ ServerKeeps(did, a.server)
         /\ Lasting(did) \cap s.doc \subseteq a.server.doc
         /\ Granted(a) => Lasting(did) \cap r.doc \subseteq a.server.doc
<1>1. CASE s.head = 0 /\ r.doc \cap Unfit = {}
  <2> DEFINE row == [s EXCEPT !.head = 1, !.doc = r.doc, !.created = r.doc]
  <2>1. a = Answer("ok", row)
    BY <1>1 DEF Created
  <2>2. /\ row.head = 1 /\ row.doc = r.doc /\ row.created = r.doc
        /\ row.filed = s.filed
    BY DEF ServerRows
  <2> HIDE DEF row
  <2>3. a.server = row
    BY <2>1 DEF Answer
  <2>4. s.doc = {} /\ s.filed = {} /\ r.doc \cap Edits \subseteq did.all
    BY <1>1 DEF ServerKeeps, Mine
  <2>5. ServerKeeps(did, row)
    BY <2>2, <2>4 DEF ServerKeeps
  <2> QED
    BY <2>2, <2>3, <2>4, <2>5
<1>2. CASE s.head # 0
  <2>1. a.server = s
    BY <1>2 DEF Created, Answer
  <2>2. Granted(a) => s.created = r.doc
    BY <1>2 DEF Created, Answer, Granted
  <2> QED
    BY <2>1, <2>2 DEF ServerKeeps
<1>3. CASE s.head = 0 /\ r.doc \cap Unfit # {}
  <2>1. a = Answer("refused", s)
    BY <1>3 DEF Created
  <2>2. a.server = s /\ ~Granted(a)
    BY <2>1 DEF Answer, Granted
  <2> QED
    BY <2>2
<1> QED
  BY <1>1, <1>2, <1>3

LEMMA ChangedKeeps ==
  ASSUME NEW did, did.all \subseteq Edits,
         NEW s \in ServerRows, ServerKeeps(did, s),
         NEW r \in Requests, Mine(did, r.doc, r.ops), NEW a, a = Changed(s, r)
  PROVE  /\ ServerKeeps(did, a.server)
         /\ Lasting(did) \cap s.doc \subseteq a.server.doc
         /\ Granted(a) => \A e \in Lasting(did) : Do(e) \in ToSet(r.ops) => e \in a.server.doc
<1> DEFINE filed == {f \in s.filed : f.key = r.key}
           entry == [key |-> r.key, base |-> r.base, ops |-> r.ops]
           doc == After(s.doc, r.ops)
           applied == s.applied \cup ToSet(r.ops)
           all == s.filed \cup {entry}
           row == [s EXCEPT !.head = s.head + 1, !.doc = doc, !.applied = applied,
                            !.filed = all]
<1>1. CASE filed # {}
  <2>1. /\ a.server = s
        /\ a.status = IF \E f \in filed : f.base = r.base /\ f.ops = r.ops
                      THEN "again" ELSE "refused"
    BY <1>1 DEF Changed, Answer
  <2>2. Granted(a) => \E f \in s.filed : f.ops = r.ops
    BY <2>1 DEF Granted
  <2> QED
    BY <2>1, <2>2 DEF ServerKeeps
<1>2. CASE filed = {} /\ (s.head # r.base \/ ~Applicable(s, r.ops))
  <2>1. a = Answer("conflict", s) \/ a = Answer("refused", s)
    BY <1>2 DEF Changed
  <2> QED
    BY <2>1 DEF Answer, Granted
<1>3. CASE filed = {} /\ s.head = r.base /\ Applicable(s, r.ops)
  <2>1. a = Answer("ok", row)
    BY <1>3 DEF Changed
  <2>2. s.doc \in Docs /\ r.ops \in Seq(Ops) /\ s.head \in Nat
    BY DEF ServerRows, Requests
  <2>3. Meant(did, ToSet(r.ops))
    BY DEF Mine
  <2>4. /\ Lasting(did) \cap s.doc \subseteq doc
        /\ \A e \in Lasting(did) : Do(e) \in ToSet(r.ops) => e \in doc
    BY <2>2, <2>3, AfterKeeps
  <2>5. doc \cap Edits \subseteq did.all
    <3>1. s.doc \cap Edits \subseteq did.all
      BY DEF ServerKeeps
    <3> QED
      BY <2>2, <2>3, <3>1, AfterIsMine
  <2>6. entry.ops = r.ops
    OBVIOUS
  <2> HIDE DEF doc, applied, entry
  <2>7. /\ row.head = s.head + 1 /\ row.doc = doc /\ row.created = s.created
        /\ row.filed = s.filed \cup {entry}
    BY DEF ServerRows
  <2> HIDE DEF row
  <2>8. a.server = row
    BY <2>1 DEF Answer
  <2>9. row.head # 0
    BY <2>2, <2>7
  <2>10. ServerKeeps(did, row)
    BY <2>3, <2>4, <2>5, <2>6, <2>7, <2>9 DEF ServerKeeps
  <2> QED
    BY <2>4, <2>7, <2>8, <2>10
<1> QED
  BY <1>1, <1>2, <1>3

LEMMA GeneratedKeeps ==
  ASSUME NEW did, NEW s \in ServerRows, ServerKeeps(did, s),
         NEW r, NEW a \in Generated(s, r)
  PROVE  /\ ServerKeeps(did, a.server)
         /\ Lasting(did) \cap s.doc \subseteq a.server.doc
<1>1. CASE a \in {Answer("conflict", s), Answer("refused", s)}
  BY <1>1 DEF Answer
<1>2. CASE a \notin {Answer("conflict", s), Answer("refused", s)}
  <2>1. PICK o \in Others : a = Answer("ok", [s EXCEPT !.head = @ + 1, !.doc = @ \cup {o}])
    BY <1>2 DEF Generated
  <2> DEFINE row == [s EXCEPT !.head = @ + 1, !.doc = @ \cup {o}]
  <2>2. ServerKeeps(did, row) /\ s.doc \subseteq row.doc
    BY OtherKeeps
  <2> HIDE DEF row
  <2>3. a.server = row
    BY <2>1 DEF Answer, row
  <2> QED
    BY <2>2, <2>3
<1> QED
  BY <1>1, <1>2

\* Whatever is asked of the server, and by whom: what lasts stays, and what is granted
\* is there.
LEMMA AnswerKeeps ==
  ASSUME NEW did, did.all \subseteq Edits,
         NEW s \in ServerRows, ServerKeeps(did, s),
         NEW r \in Requests, Mine(did, r.doc, r.ops), NEW a \in Answers(s, r)
  PROVE  /\ ServerKeeps(did, a.server)
         /\ Lasting(did) \cap s.doc \subseteq a.server.doc
         /\ Granted(a) /\ r.op = "create" => Lasting(did) \cap r.doc \subseteq a.server.doc
         /\ Granted(a) /\ r.op = "change" =>
              \A e \in Lasting(did) : Do(e) \in ToSet(r.ops) => e \in a.server.doc
<1>1. CASE r.op = "create"
  <2>1. a = Created(s, r)
    BY <1>1 DEF Answers
  <2> QED
    BY <1>1, <2>1, CreatedKeeps
<1>2. CASE r.op = "change"
  <2>1. a = Changed(s, r)
    BY <1>2 DEF Answers
  <2> QED
    BY <1>2, <2>1, ChangedKeeps
<1>3. CASE r.op = "generate"
  <2>1. a \in Generated(s, r)
    BY <1>3 DEF Answers
  <2> QED
    BY <1>3, <2>1, GeneratedKeeps
<1>4. CASE r.op = "get"
  BY <1>4 DEF Answers, Answer
<1> QED
  BY <1>1, <1>2, <1>3, <1>4 DEF Requests

\* The requests of a thread, and those the server may still get, are of what the user
\* did.
LEMMA RequestIsMine ==
  ASSUME TypeOK, OwnEdits, NEW t \in Threads
  PROVE  Mine(made, RequestOf(t).doc, RequestOf(t).ops)
  BY RequestTyped DEF OwnEdits, OwnRun

LEMMA Grown ==
  ASSUME TypeOK, [Next]_vars
  PROVE  Grows(made, made')
<1>1. made \in [all : SUBSET Edits, calm : SUBSET Edits, undone : SUBSET Edits]
  BY Types
<1>2. CASE \E e \in Edits : Edit(e)
  <2>1. PICK e \in Edits : Edit(e)
    BY <1>2
  <2> DEFINE calm == IF Busy THEN made.calm ELSE made.calm \cup {e}
  <2>2. made' = [made EXCEPT !.all = @ \cup {e}, !.calm = calm]
    BY <2>1 DEF Edit
  <2> HIDE DEF calm
  <2> QED
    BY <1>1, <2>2 DEF Grows
<1>3. CASE Undo
  <2>1. made' = [made EXCEPT !.undone = @ \cup {Head(ui.undo).edit}]
    BY <1>3 DEF Undo
  <2> QED
    BY <1>1, <2>1 DEF Grows
<1>4. CASE ~Undo /\ ~\E e \in Edits : Edit(e)
  <2>1. made' = made
    BY <1>4 DEF Next, vars, Main, Enqueue, Save, Press, RequestGeneration, ApplyOutcome,
                SignIn, SignOut, Begin, Executor, Sync, Post, Flush, TakeKey, Drop, Again,
                Synced, Clear, Answered, World, Unanswered, Arrives, OtherDevice, Removal,
                Kill, Recreate
  <2> QED
    BY <2>1 DEF Grows
<1> QED
  BY <1>2, <1>3, <1>4

\* What lasts stays on the server, whoever asks it for what.
LEMMA ServerStep ==
  ASSUME Fits, OwnEdits, ServerKeeps(made, server), [Next]_vars
  PROVE  /\ ServerKeeps(made', server')
         /\ Lasting(made) \cap server.doc \subseteq server'.doc
<1>1. /\ TypeOK /\ server \in ServerRows /\ made.all \subseteq Edits
      /\ made'.all \subseteq Edits
  <2>1. TypeOK'
    BY StepTyped DEF Fits
  <2>2. made'.all \subseteq Edits
    BY <2>1 DEF TypeOK
  <2> QED
    BY <2>2, Types DEF Fits
<1>2. CASE server' = server
  <2>1. ServerKeeps(made', server)
    BY <1>1, Grown, ServerGrows
  <2> QED
    BY <1>2, <2>1
<1>3. CASE \E t \in Threads : Answered(t)
  <2>1. PICK t \in Threads : Answered(t)
    BY <1>3
  <2>2. PICK a \in Answers(server, RequestOf(t)) : server' = a.server
    BY <2>1 DEF Answered
  <2>3. made' = made
    BY <2>1 DEF Answered
  <2> QED
    BY <1>1, <2>2, <2>3, RequestIsMine, RequestTyped, AnswerKeeps
<1>4. CASE \E r \in late : Arrives(r)
  <2>1. PICK r \in late : Arrives(r)
    BY <1>4
  <2>2. PICK a \in Answers(server, r) : server' = a.server
    BY <2>1 DEF Arrives
  <2>3. made' = made /\ r \in Requests /\ Mine(made, r.doc, r.ops)
    BY <1>1, <2>1, Types DEF Arrives, OwnEdits
  <2> QED
    BY <1>1, <2>2, <2>3, AnswerKeeps
<1>5. CASE \E o \in Others : OtherDevice(o)
  <2>1. PICK o \in Others : OtherDevice(o)
    BY <1>5
  <2>2. /\ made' = made
        /\ server' = [server EXCEPT !.head = @ + 1, !.doc = @ \cup {o}]
    BY <2>1 DEF OtherDevice
  <2> QED
    BY <1>1, <2>2, OtherKeeps
<1>6. CASE Removes
  <2>1. PICK edits : Removal(edits)
    BY <1>6 DEF Removes
  <2>2. /\ made' = made /\ server.head # 0
        /\ server' = [server EXCEPT !.head = @ + 1, !.gone = @ \cup edits]
    BY <2>1 DEF Removal
  <2> QED
    BY <1>1, <2>2, RemovalKeeps
<1>7. \/ server' = server
      \/ \E t \in Threads : Answered(t)
      \/ \E r \in late : Arrives(r)
      \/ \E o \in Others : OtherDevice(o)
      \/ Removes
  BY DEF Next, vars, Main, Edit, Undo, Enqueue, Save, Press, RequestGeneration,
         ApplyOutcome, SignIn, SignOut, Begin, Executor, Sync, Post, Flush, TakeKey, Drop,
         Again, Synced, Clear, World, Unanswered, Kill, Recreate, Removes
<1> QED
  BY <1>2, <1>3, <1>4, <1>5, <1>6, <1>7

LEMMA NothingIsMine ==
  ASSUME NEW did
  PROVE  /\ Meant(did, ToSet(<<>>)) /\ Mine(did, {}, <<>>)
         /\ OwnRun(did, Resting)
<1>1. ToSet(<<>>) = {}
  BY DEF ToSet
<1>2. Resting.doc = {} /\ Resting.ops = <<>> /\ Resting.left = <<>>
  BY DEF Resting
<1> QED
  BY <1>1, <1>2 DEF Meant, Mine, OwnRun

LEMMA OneMore ==
  ASSUME NEW did, NEW ops \in Seq(Ops), Meant(did, ToSet(ops)), NEW op \in Ops,
         op.edit \in IF op.undo THEN did.undone ELSE did.all
  PROVE  Meant(did, ToSet(Append(ops, op)))
  BY AppendSet DEF Meant

LEMMA EditOwns ==
  ASSUME Fits, OwnEdits, NEW e \in Edits, Edit(e)
  PROVE  OwnEdits'
<1> DEFINE frame == [doc |-> disk.doc, outbox |-> disk.outbox, edit |-> e, past |-> FALSE]
           out == Outbox(Do(e))
           doc == disk.doc \cup {e}
           undo == <<frame>> \o ui.undo
           calm == IF Busy THEN made.calm ELSE made.calm \cup {e}
<1>1. /\ ui' = [ui EXCEPT !.pc = "enqueue", !.out = out, !.rotate = TRUE,
                          !.doc = doc, !.undo = undo]
      /\ made' = [made EXCEPT !.all = made.all \cup {e}, !.calm = calm]
      /\ UNCHANGED <<server, late, disk, queue, io, results>>
  BY DEF Edit
<1>2. /\ disk \in Disks /\ ui \in Screens /\ ui.undo \in Seq(Frames)
      /\ made \in [all : SUBSET Edits, calm : SUBSET Edits, undone : SUBSET Edits]
  BY Types DEF Fits, Screens, Frames
<1>3. calm \subseteq made.all \cup {e}
  BY DEF OwnEdits
<1> HIDE DEF calm
<1>4. made'.all = made.all \cup {e} /\ made'.undone = made.undone /\ made'.calm = calm
  BY <1>1, <1>2
<1>5. Grows(made, made') /\ made'.calm \subseteq made'.all
  BY <1>3, <1>4 DEF Grows
<1>6. Mine(made', disk.doc, disk.outbox)
  BY <1>5, MineGrows DEF OwnEdits
<1>7. Mine(made', doc, out)
  <2>1. Do(e) \in Ops /\ Do(e).edit = e /\ ~Do(e).undo
    BY DEF Do, Ops
  <2>2. disk.outbox \in Seq(Ops)
    BY <1>2 DEF Disks
  <2>3. Meant(made', ToSet(out))
    BY <1>4, <1>6, <2>1, <2>2, OneMore DEF Mine, Outbox
  <2> QED
    BY <1>4, <1>6, <2>3 DEF Mine
<1>8. frame.doc = disk.doc /\ frame.outbox = disk.outbox /\ frame.edit = e
  OBVIOUS
<1> HIDE DEF frame
<1>9. OwnFrame(made', frame)
  BY <1>4, <1>6, <1>8 DEF OwnFrame
<1>10. \A i \in DOMAIN undo : OwnFrame(made', undo[i])
  <2>1. \A i \in DOMAIN ui.undo : OwnFrame(made', ui.undo[i])
    BY <1>5, MineGrows DEF OwnEdits, OwnFrame, Grows
  <2>2. DOMAIN undo = 1 .. Len(ui.undo) + 1 /\ DOMAIN ui.undo = 1 .. Len(ui.undo)
    BY <1>2
  <2>3. \A i \in DOMAIN undo : undo[i] = IF i = 1 THEN frame ELSE ui.undo[i - 1]
    BY <1>2
  <2>4. \A i \in DOMAIN undo : i = 1 \/ i - 1 \in DOMAIN ui.undo
    BY <1>2, <2>2
  <2> HIDE DEF undo
  <2> QED
    BY <1>9, <2>1, <2>3, <2>4
<1> HIDE DEF out, doc, undo
<1>11. ui'.doc = doc /\ ui'.out = out /\ ui'.undo = undo
  BY <1>1, <1>2 DEF Screens
<1>12. /\ \A t \in Threads : OwnRun(made', io[t])
       /\ \A r \in late : Mine(made', r.doc, r.ops)
  BY <1>5, MineGrows, MeantGrows DEF OwnEdits, OwnRun
<1> QED
  BY <1>1, <1>5, <1>6, <1>7, <1>10, <1>11, <1>12 DEF OwnEdits

LEMMA UndoOwns ==
  ASSUME Fits, OwnEdits, Undo
  PROVE  OwnEdits'
<1> DEFINE frame == Head(ui.undo)
           out == IF StillQueued(frame.edit) THEN frame.outbox
                  ELSE Outbox(Revert(frame.edit))
           rotate == ~StillQueued(frame.edit)
           undo == Tail(ui.undo)
<1>1. /\ ui' = [ui EXCEPT !.pc = "enqueue", !.doc = frame.doc, !.undo = undo,
                          !.rotate = rotate, !.out = out]
      /\ disk' = [disk EXCEPT !.doc = frame.doc]
      /\ made' = [made EXCEPT !.undone = @ \cup {frame.edit}]
      /\ UNCHANGED <<server, late, queue, io, results>>
      /\ ui.undo # <<>>
  BY DEF Undo
<1>2. /\ disk \in Disks /\ ui \in Screens /\ ui.undo \in Seq(Frames)
      /\ made \in [all : SUBSET Edits, calm : SUBSET Edits, undone : SUBSET Edits]
  BY Types DEF Fits, Screens, Frames
<1>3. frame = ui.undo[1] /\ 1 \in DOMAIN ui.undo
  BY <1>1, <1>2
<1>4. frame \in Frames /\ OwnFrame(made, frame)
  BY <1>2, <1>3 DEF OwnEdits
<1>5. made'.all = made.all /\ made'.undone = made.undone \cup {frame.edit}
      /\ made'.calm = made.calm
  BY <1>1, <1>2
<1>6. Grows(made, made') /\ made'.calm \subseteq made'.all
  BY <1>5 DEF Grows, OwnEdits
<1>7. Mine(made', disk.doc, disk.outbox) /\ Mine(made', frame.doc, frame.outbox)
  BY <1>4, <1>6, MineGrows DEF OwnEdits, OwnFrame
<1>8. Mine(made', frame.doc, out)
  <2>1. Revert(frame.edit) \in Ops /\ Revert(frame.edit).edit = frame.edit
        /\ Revert(frame.edit).undo
    BY <1>4 DEF Revert, Ops, Frames
  <2>2. disk.outbox \in Seq(Ops)
    BY <1>2 DEF Disks
  <2> HIDE DEF frame
  <2>3. Meant(made', ToSet(Outbox(Revert(frame.edit))))
    BY <1>5, <1>7, <2>1, <2>2, OneMore DEF Mine, Outbox
  <2> QED
    BY <1>7, <2>3 DEF Mine
<1>9. \A i \in DOMAIN undo : OwnFrame(made', undo[i])
  <2>1. \A i \in DOMAIN ui.undo : OwnFrame(made', ui.undo[i])
    BY <1>6, MineGrows DEF OwnEdits, OwnFrame, Grows
  <2>2. \A i \in DOMAIN undo : i + 1 \in DOMAIN ui.undo /\ undo[i] = ui.undo[i + 1]
    BY <1>1, <1>2
  <2> HIDE DEF undo
  <2> QED
    BY <2>1, <2>2
<1> HIDE DEF frame, out, rotate, undo
<1>10. ui'.doc = frame.doc /\ ui'.out = out /\ ui'.undo = undo
  BY <1>1, <1>2 DEF Screens
<1>11. disk'.doc = frame.doc /\ disk'.outbox = disk.outbox
  BY <1>1, <1>2 DEF Disks
<1>12. Mine(made', disk'.doc, disk'.outbox)
  BY <1>7, <1>11 DEF Mine
<1>13. /\ \A t \in Threads : OwnRun(made', io[t])
       /\ \A r \in late : Mine(made', r.doc, r.ops)
  BY <1>6, MineGrows, MeantGrows DEF OwnEdits, OwnRun
<1> QED
  BY <1>1, <1>6, <1>8, <1>9, <1>10, <1>12, <1>13 DEF OwnEdits

LEMMA MainOwns ==
  ASSUME Fits, OwnEdits, Main
  PROVE  OwnEdits'
<1>1. disk \in Disks /\ ui \in Screens
  BY Types DEF Fits
<1>2. CASE \E e \in Edits : Edit(e)
  BY <1>2, EditOwns
<1>3. CASE Undo
  BY <1>3, UndoOwns
<1>4. CASE Enqueue
  <2> DEFINE key == IF ui.rotate THEN NewKey ELSE disk.key
  <2>1. /\ disk' = [disk EXCEPT !.outbox = ui.out, !.key = key]
        /\ ui' = [ui EXCEPT !.pc = "save", !.out = <<>>, !.rotate = FALSE]
        /\ UNCHANGED <<server, late, queue, io, results, made, seen>>
    BY <1>4 DEF Enqueue
  <2> HIDE DEF key
  <2>2. disk'.doc = disk.doc /\ disk'.outbox = ui.out
    BY <1>1, <2>1 DEF Disks
  <2>3. ui'.doc = ui.doc /\ ui'.out = <<>> /\ ui'.undo = ui.undo
    BY <1>1, <2>1 DEF Screens
  <2>4. Mine(made, ui.doc, <<>>) /\ Mine(made, disk.doc, ui.out)
    BY NothingIsMine DEF OwnEdits, Mine
  <2> QED
    BY <2>1, <2>2, <2>3, <2>4 DEF OwnEdits
<1>5. CASE Save
  <2>1. /\ disk' = [disk EXCEPT !.doc = ui.doc]
        /\ ui' = [ui EXCEPT !.pc = "idle", !.doc = {}, !.syncing = TRUE]
        /\ UNCHANGED <<server, late, io, results, made, seen>>
    BY <1>5 DEF Save
  <2>2. disk'.doc = ui.doc /\ disk'.outbox = disk.outbox
    BY <1>1, <2>1 DEF Disks
  <2>3. ui'.doc = {} /\ ui'.out = ui.out /\ ui'.undo = ui.undo
    BY <1>1, <2>1 DEF Screens
  <2>4. Mine(made, {}, ui.out) /\ Mine(made, ui.doc, disk.outbox)
    BY DEF OwnEdits, Mine
  <2> QED
    BY <2>1, <2>2, <2>3, <2>4 DEF OwnEdits
<1>6. CASE (\E task \in Tasks : Press(task)) \/ RequestGeneration \/ ApplyOutcome
  <2>1. /\ UNCHANGED <<late, disk, io, made>>
        /\ ui'.doc = ui.doc /\ ui'.out = ui.out /\ ui'.undo = ui.undo
    BY <1>1, <1>6 DEF Press, RequestGeneration, ApplyOutcome, Screens
  <2> QED
    BY <2>1 DEF OwnEdits
<1>7. CASE SignIn \/ SignOut
  <2>1. /\ UNCHANGED <<late, disk, io, made>>
        /\ ui'.doc = ui.doc /\ ui'.out = ui.out /\ ui'.undo = <<>>
    BY <1>1, <1>7 DEF SignIn, SignOut, Screens
  <2> QED
    BY <2>1 DEF OwnEdits
<1> QED
  BY <1>2, <1>3, <1>4, <1>5, <1>6, <1>7 DEF Main

\* Where a request leads, a thread has nothing but what it is still to drop.
LEMMA PcHas ==
  ASSUME TypeOK, NEW t \in Threads, NEW pc, NEW head
  PROVE  /\ Pc(t, pc).doc = {} /\ Pc(t, pc).ops = <<>> /\ Pc(t, pc).left = io[t].left
         /\ GoesOn(t, pc, head).doc = {} /\ GoesOn(t, pc, head).ops = <<>>
         /\ GoesOn(t, pc, head).left = io[t].left
         /\ Drops(t, pc, head).doc = {} /\ Drops(t, pc, head).ops = <<>>
<1> DEFINE r == Pc(t, pc)
           g == GoesOn(t, pc, head)
           d == Drops(t, pc, head)
<1>1. io[t] \in Runs
  BY Types
<1>2. r.doc = {} /\ r.ops = <<>> /\ r.left = io[t].left
      /\ DOMAIN r = {"pc", "task", "head", "conflict", "doc", "ops", "key", "left"}
  BY <1>1 DEF Pc, Runs
<1>3. g = [r EXCEPT !.head = head, !.conflict = FALSE]
  BY DEF GoesOn
<1>4. d = [g EXCEPT !.left = Unsent(t)]
  BY DEF Drops
<1> HIDE DEF r
<1>5. g.doc = {} /\ g.ops = <<>> /\ g.left = io[t].left
      /\ DOMAIN g = {"pc", "task", "head", "conflict", "doc", "ops", "key", "left"}
  BY <1>2, <1>3
<1> HIDE DEF g
<1>6. d.doc = {} /\ d.ops = <<>>
  BY <1>4, <1>5
<1> QED
  BY <1>2, <1>5, <1>6 DEF r, g, d

\* A step of a thread that touches nothing but itself and the files.
LEMMA TaskOwns ==
  ASSUME OwnEdits, NEW t \in Threads, \A u \in Threads \ {t} : io'[u] = io[u],
         OwnRun(made, io'[t]), Mine(made, disk'.doc, disk'.outbox), made' = made,
         ui'.doc = ui.doc, ui'.out = ui.out,
         \A i \in DOMAIN ui'.undo : OwnFrame(made, ui'.undo[i]),
         \A r \in late' : Mine(made, r.doc, r.ops)
  PROVE  OwnEdits'
<1>1. \A u \in Threads : OwnRun(made, io'[u])
  BY DEF OwnEdits
<1> QED
  BY <1>1 DEF OwnEdits

\* What a thread is when it has done something by itself, and the outbox that is stored.
Stores(t, run, outbox) ==
    /\ run.pc = "post" => run.doc = disk.doc
    /\ run.pc = "create" => io[t].pc = "post" /\ run.doc = io[t].doc
    /\ run.pc \notin {"dropPosted", "dropSent", "clear"}
    /\ run.doc \in {io[t].doc, disk.doc, {}}
    /\ run.ops \in {io[t].ops, disk.outbox, <<>>}
    /\ run.left \in {io[t].left, <<>>}
    /\ \/ outbox = disk.outbox
       \/ io[t].pc \in {"dropPosted", "dropSent"} /\ outbox = io[t].left
       \/ io[t].pc = "clear" /\ outbox = <<>>

\* What a thread does by itself: where it goes, what it takes along, and what it stores.
LEMMA LocalIs ==
  ASSUME Fits, NEW t \in Threads,
         \/ Sync(t) \/ Post(t) \/ Flush(t) \/ TakeKey(t) \/ Drop(t) \/ Again(t)
         \/ Synced(t) \/ Clear(t)
  PROVE  /\ UNCHANGED <<server, late, ui, queue, made, seen>>
         /\ \A u \in Threads \ {t} : io'[u] = io[u]
         /\ io[t].pc # "idle" /\ disk'.doc = disk.doc
         /\ Stores(t, io'[t], disk'.outbox)
<1>1. TypeOK /\ io[t] \in Runs /\ disk \in Disks
  BY Types DEF Fits
<1>2. Stores(t, Resting, disk.outbox)
  BY DEF Stores, Resting
<1>3. UNCHANGED <<server, late, ui, queue, made, seen>> /\ io[t].pc # "idle"
  BY DEF Sync, Post, Flush, TakeKey, Drop, Again, Synced, Clear
<1>4. /\ \A u \in Threads \ {t} : io'[u] = io[u]
      /\ disk'.doc = disk.doc /\ Stores(t, io'[t], disk'.outbox)
  <2>1. CASE Sync(t)
    <3>1. disk' = disk
      BY <2>1 DEF Sync
    <3>2. CASE ~ui.cloud
      BY <1>2, <1>1, <2>1, <3>1, <3>2, FailedTyped DEF Sync
    <3>3. CASE ui.cloud
      <4> DEFINE run == IF io[t].head = 0 THEN [io[t] EXCEPT !.doc = disk.doc, !.pc = "post"]
                        ELSE [io[t] EXCEPT !.pc = "flush"]
      <4>1. Set(t, run)
        BY <2>1, <3>3 DEF Sync
      <4>2. run \in Runs
        BY <1>1 DEF Runs, Disks
      <4>3. /\ run.ops = io[t].ops /\ run.left = io[t].left
            /\ \/ run.pc = "post" /\ run.doc = disk.doc
               \/ run.pc = "flush" /\ run.doc = io[t].doc
        BY <1>1 DEF Runs
      <4> HIDE DEF run
      <4>4. Stores(t, run, disk.outbox)
        BY <4>3 DEF Stores
      <4> QED
        BY <1>1, <3>1, <4>1, <4>2, <4>4, SetTyped
    <3> QED
      BY <3>2, <3>3
  <2>2. CASE Post(t) \/ (Flush(t) /\ disk.outbox # <<>>)
    <3> DEFINE run == [io[t] EXCEPT !.ops = disk.outbox,
                                    !.pc = IF Post(t) THEN "create" ELSE "key"]
    <3>1. disk' = disk
      BY <2>2 DEF Post, Flush
    <3>2. Set(t, run)
      <4>1. io[t].pc = "post" \/ io[t].pc = "flush"
        BY <2>2 DEF Post, Flush
      <4>2. CASE Post(t)
        BY <4>2 DEF Post
      <4>3. CASE ~Post(t)
        BY <2>2, <4>3 DEF Flush
      <4> QED
        BY <4>2, <4>3
    <3>3. run \in Runs
      BY <1>1 DEF Runs, Disks, Waiting
    <3>4. /\ run.doc = io[t].doc /\ run.ops = disk.outbox /\ run.left = io[t].left
          /\ run.pc = "key" \/ (run.pc = "create" /\ io[t].pc = "post")
      BY <1>1, <2>2 DEF Runs, Post
    <3> HIDE DEF run
    <3>5. Stores(t, run, disk.outbox)
      BY <3>4 DEF Stores
    <3> QED
      BY <1>1, <3>1, <3>2, <3>3, <3>5, SetTyped
  <2>3. CASE Flush(t) /\ disk.outbox = <<>>
    <3> DEFINE run == [io[t] EXCEPT !.conflict = FALSE, !.pc = "synced"]
    <3>1. disk' = Persisted(io[t].head, FALSE) /\ Set(t, run)
      BY <2>3 DEF Flush
    <3>2. run \in Runs
      BY <1>1 DEF Runs
    <3>3. /\ run.doc = io[t].doc /\ run.ops = io[t].ops /\ run.left = io[t].left
          /\ run.pc \in {"synced", "change"}
      BY <1>1 DEF Runs
    <3> HIDE DEF run
    <3>4. Stores(t, run, disk.outbox)
      BY <3>3 DEF Stores
    <3>5. disk'.doc = disk.doc /\ disk'.outbox = disk.outbox
      BY <1>1, <3>1 DEF Persisted, Disks
    <3> QED
      BY <1>1, <3>1, <3>2, <3>4, <3>5, SetTyped
  <2>4. CASE TakeKey(t)
    <3> DEFINE run == [io[t] EXCEPT !.key = disk.key, !.pc = "change"]
    <3>1. disk' = disk /\ Set(t, run)
      BY <2>4 DEF TakeKey
    <3>2. run \in Runs
      BY <1>1 DEF Runs, Disks, Waiting
    <3>3. /\ run.doc = io[t].doc /\ run.ops = io[t].ops /\ run.left = io[t].left
          /\ run.pc \in {"synced", "change"}
      BY <1>1 DEF Runs
    <3> HIDE DEF run
    <3>4. Stores(t, run, disk.outbox)
      BY <3>3 DEF Stores
    <3> QED
      BY <1>1, <3>1, <3>2, <3>4, SetTyped
  <2>5. CASE Drop(t)
    <3> DEFINE saved == Persisted(io[t].head, FALSE)
               pc == IF io[t].pc = "dropPosted" THEN "flush" ELSE "again"
               run == [io[t] EXCEPT !.ops = <<>>, !.left = <<>>, !.key = 0,
                                    !.conflict = FALSE, !.pc = pc]
    <3>1. disk' = [saved EXCEPT !.outbox = io[t].left] /\ Set(t, run)
      BY <2>5 DEF Drop
    <3>2. run \in Runs
      <4>1. <<>> \in Seq(Ops) /\ pc \in {"flush", "again"}
        OBVIOUS
      <4> HIDE DEF pc
      <4> QED
        BY <1>1, <4>1 DEF Runs
    <3>3. /\ run.doc = io[t].doc /\ run.ops = <<>> /\ run.left = <<>>
          /\ run.pc \in {"flush", "again"}
      BY <1>1 DEF Runs
    <3> HIDE DEF run
    <3>4. Stores(t, run, io[t].left)
      BY <2>5, <3>3 DEF Stores, Drop
    <3>5. saved \in Disks /\ saved.doc = disk.doc
      BY <1>1, PersistedTyped DEF Persisted, Disks, Runs
    <3> HIDE DEF saved
    <3>6. disk'.doc = disk.doc /\ disk'.outbox = io[t].left
      BY <3>1, <3>5 DEF Disks
    <3> QED
      BY <1>1, <3>1, <3>2, <3>4, <3>6, SetTyped
  <2>6. CASE Again(t)
    <3> DEFINE key == IF disk.outbox = <<>> THEN disk.key ELSE NewKey
               pc == IF disk.outbox = <<>> THEN "synced" ELSE "flush"
               run == [io[t] EXCEPT !.pc = pc]
    <3>1. disk' = [disk EXCEPT !.key = key] /\ Set(t, run)
      BY <2>6 DEF Again
    <3>2. run \in Runs
      BY <1>1 DEF Runs
    <3>3. /\ run.doc = io[t].doc /\ run.ops = io[t].ops /\ run.left = io[t].left
          /\ run.pc \in {"synced", "flush"}
      BY <1>1 DEF Runs
    <3> HIDE DEF run, key
    <3>4. Stores(t, run, disk.outbox)
      BY <3>3 DEF Stores
    <3>5. disk'.doc = disk.doc /\ disk'.outbox = disk.outbox
      BY <1>1, <3>1 DEF Disks
    <3> QED
      BY <1>1, <3>1, <3>2, <3>4, <3>5, SetTyped
  <2>7. CASE Synced(t)
    <3>1. disk' = disk
      BY <2>7 DEF Synced
    <3>2. CASE io[t].task = "generate" /\ disk.outbox = <<>>
      <4> DEFINE run == [io[t] EXCEPT !.pc = "generate"]
      <4>1. Set(t, run)
        BY <2>7, <3>2 DEF Synced
      <4>2. run \in Runs
        BY <1>1 DEF Runs, Waiting
      <4>3. /\ run.doc = io[t].doc /\ run.ops = io[t].ops /\ run.left = io[t].left
            /\ run.pc = "generate"
        BY <1>1 DEF Runs
      <4> HIDE DEF run
      <4>4. Stores(t, run, disk.outbox)
        BY <4>3 DEF Stores
      <4> QED
        BY <1>1, <3>1, <4>1, <4>2, <4>4, SetTyped
    <3>3. CASE io[t].task # "generate"
      <4>1. End(t, TRUE, io[t].head, FALSE) /\ io[t].head \in Nat
        BY <1>1, <2>7, <3>3 DEF Synced, Runs
      <4> QED
        BY <1>2, <1>1, <3>1, <4>1, EndTyped
    <3>4. CASE io[t].task = "generate" /\ disk.outbox # <<>>
      <4>1. Failed(t)
        BY <2>7, <3>4 DEF Synced
      <4> QED
        BY <1>2, <1>1, <3>1, <4>1, FailedTyped
    <3> QED
      BY <3>2, <3>3, <3>4
  <2>8. CASE Clear(t)
    <3> DEFINE saved == Persisted(io[t].head, FALSE)
    <3>1. /\ disk' = [saved EXCEPT !.outbox = <<>>]
          /\ End(t, TRUE, io[t].head, FALSE)
      BY <2>8 DEF Clear
    <3>2. saved \in Disks /\ saved.doc = disk.doc /\ io[t].head \in Nat
      BY <1>1, PersistedTyped DEF Persisted, Disks, Runs
    <3> HIDE DEF saved
    <3>3. disk'.doc = disk.doc /\ disk'.outbox = <<>>
      BY <3>1, <3>2 DEF Disks
    <3>4. Stores(t, Resting, <<>>)
      BY <2>8 DEF Stores, Clear, Resting
    <3> QED
      BY <1>1, <3>1, <3>2, <3>3, <3>4, EndTyped
  <2> QED
    BY <2>1, <2>2, <2>3, <2>4, <2>5, <2>6, <2>7, <2>8
<1> QED
  BY <1>3, <1>4

LEMMA LocalOwns ==
  ASSUME Fits, OwnEdits, NEW t \in Threads,
         \/ Sync(t) \/ Post(t) \/ Flush(t) \/ TakeKey(t) \/ Drop(t) \/ Again(t)
         \/ Synced(t) \/ Clear(t)
  PROVE  OwnEdits'
<1>1. OwnRun(made, io[t]) /\ Mine(made, disk.doc, disk.outbox)
  BY DEF OwnEdits
<1>2. /\ UNCHANGED <<late, ui, made>>
      /\ \A u \in Threads \ {t} : io'[u] = io[u]
      /\ disk'.doc = disk.doc /\ Stores(t, io'[t], disk'.outbox)
  BY LocalIs
<1>3. OwnRun(made, io'[t]) /\ Mine(made, disk'.doc, disk'.outbox)
  BY <1>1, <1>2, NothingIsMine DEF Stores, OwnRun, Mine
<1> QED
  BY <1>2, <1>3, TaskOwns DEF OwnEdits

\* What a thread and the files are once a request was granted...
LEMMA GrantedIs ==
  ASSUME Fits, NEW t \in Threads, io[t].pc \in Waiting, NEW a, NEW r,
         a.server \in ServerRows, HeadIn(a, r) \in Nat, OnGranted(t, a, r)
  PROVE  /\ \A u \in Threads \ {t} : io'[u] = io[u]
         /\ disk'.outbox = disk.outbox
         /\ disk'.doc = IF io[t].pc \in {"take", "generate"} THEN Document(a.server)
                        ELSE disk.doc
         /\ io'[t].doc = {} /\ io'[t].ops = <<>>
         /\ io'[t].left \in {io[t].left, Unsent(t), <<>>}
         /\ io'[t].pc = "clear" <=> io[t].pc \in {"take", "generate"}
         /\ io'[t].pc \notin {"post", "create"}
         /\ io'[t].pc \in {"dropPosted", "dropSent"} =>
              io[t].pc \in {"create", "change"} /\ io'[t].left = Unsent(t)
<1> DEFINE head == HeadIn(a, r)
<1>1. io[t] \in Runs /\ disk \in Disks /\ TypeOK /\ head \in Nat
  BY Types DEF Fits
<1>2. CASE (io[t].pc = "create" /\ io[t].ops # <<>>) \/ io[t].pc = "change"
  <2> DEFINE pc == IF io[t].pc = "create" THEN "dropPosted" ELSE "dropSent"
             run == Drops(t, pc, head)
  <2>1. Set(t, run) /\ UNCHANGED <<disk, results>>
    BY <1>2 DEF OnGranted, GoesOn, Drops
  <2>2. pc \in {"dropPosted", "dropSent"}
    OBVIOUS
  <2> HIDE DEF head
  <2>3. run \in Runs /\ run.pc = pc /\ run.left = Unsent(t) /\ run.doc = {} /\ run.ops = <<>>
    <3> HIDE DEF pc
    <3>1. run \in Runs /\ run.pc = pc /\ run.left = Unsent(t)
      <4>1. CASE pc = "dropPosted"
        <5> DEFINE drop == Drops(t, "dropPosted", head)
        <5>1. drop \in Runs /\ drop.pc = "dropPosted" /\ drop.left = Unsent(t)
          BY <1>1, DropsIs
        <5> QED
          BY <4>1, <5>1
      <4>2. CASE pc = "dropSent"
        <5> DEFINE drop == Drops(t, "dropSent", head)
        <5>1. drop \in Runs /\ drop.pc = "dropSent" /\ drop.left = Unsent(t)
          BY <1>1, DropsIs
        <5> QED
          BY <4>2, <5>1
      <4> QED
        BY <2>2, <4>1, <4>2
    <3>2. run.doc = {} /\ run.ops = <<>>
      BY <1>1, PcHas
    <3> QED
      BY <3>1, <3>2
  <2> HIDE DEF run
  <2>4. io'[t] = run /\ \A u \in Threads \ {t} : io'[u] = io[u]
    BY <1>1, <2>1, <2>3, SetTyped
  <2> QED
    BY <1>2, <2>1, <2>3, <2>4
<1>3. CASE io[t].pc = "find" \/ (io[t].pc = "create" /\ io[t].ops = <<>>)
  <2> DEFINE run == GoesOn(t, "flush", head)
  <2>1. /\ Set(t, run)
        /\ disk' = [disk EXCEPT !.head = head, !.conflict = FALSE]
    BY <1>3 DEF OnGranted, GoesOn, Found
  <2> HIDE DEF head
  <2>2. run \in Runs /\ run.pc = "flush" /\ run.left = io[t].left /\ run.doc = {}
        /\ run.ops = <<>>
    <3>1. run \in Runs /\ run.pc = "flush"
      BY <1>1, StoresIs
    <3>2. run.left = io[t].left /\ run.doc = {} /\ run.ops = <<>>
      BY <1>1, PcHas
    <3> QED
      BY <3>1, <3>2
  <2> HIDE DEF run
  <2>3. io'[t] = run /\ \A u \in Threads \ {t} : io'[u] = io[u]
    BY <1>1, <2>1, <2>2, SetTyped
  <2>4. disk'.doc = disk.doc /\ disk'.outbox = disk.outbox
    BY <1>1, <2>1 DEF Disks
  <2> QED
    BY <1>3, <2>2, <2>3, <2>4
<1>4. CASE io[t].pc = "rebase"
  <2> DEFINE run == GoesOn(t, "sync", head)
             saved == Persisted(head, FALSE)
  <2>1. /\ Set(t, run) /\ disk' = [saved EXCEPT !.key = NewKey]
    BY <1>4 DEF OnGranted, GoesOn
  <2> HIDE DEF head
  <2>2. run \in Runs /\ run.pc = "sync" /\ run.left = io[t].left /\ run.doc = {}
        /\ run.ops = <<>>
    <3>1. run \in Runs /\ run.pc = "sync"
      BY <1>1, StoresIs
    <3>2. run.left = io[t].left /\ run.doc = {} /\ run.ops = <<>>
      BY <1>1, PcHas
    <3> QED
      BY <3>1, <3>2
  <2>3. saved \in Disks /\ saved.doc = disk.doc /\ saved.outbox = disk.outbox
    BY <1>1, PersistedTyped DEF Persisted, Disks
  <2> HIDE DEF run, saved
  <2>4. io'[t] = run /\ \A u \in Threads \ {t} : io'[u] = io[u]
    BY <1>1, <2>1, <2>2, SetTyped
  <2>5. disk'.doc = disk.doc /\ disk'.outbox = disk.outbox
    BY <2>1, <2>3 DEF Disks
  <2> QED
    BY <1>4, <2>2, <2>4, <2>5
<1>5. CASE io[t].pc \in {"take", "generate"}
  <2> DEFINE run == GoesOn(t, "clear", head)
             doc == Document(a.server)
  <2>1. /\ Set(t, run) /\ disk' = [disk EXCEPT !.doc = doc]
    BY <1>5 DEF OnGranted, GoesOn
  <2> HIDE DEF head
  <2>2. run \in Runs /\ run.pc = "clear" /\ run.left = io[t].left /\ run.doc = {}
        /\ run.ops = <<>>
    <3>1. run \in Runs /\ run.pc = "clear"
      BY <1>1, StoresIs
    <3>2. run.left = io[t].left /\ run.doc = {} /\ run.ops = <<>>
      BY <1>1, PcHas
    <3> QED
      BY <3>1, <3>2
  <2> HIDE DEF run, doc
  <2>3. io'[t] = run /\ \A u \in Threads \ {t} : io'[u] = io[u]
    BY <1>1, <2>1, <2>2, SetTyped
  <2>4. disk'.doc = doc /\ disk'.outbox = disk.outbox
    BY <1>1, <2>1 DEF Disks
  <2> QED
    BY <1>5, <2>2, <2>3, <2>4 DEF doc
<1>6. CASE io[t].pc = "remember"
  <2>1. disk' = Persisted(io[t].head, TRUE) /\ End(t, TRUE, io[t].head, TRUE)
    BY <1>6 DEF OnGranted
  <2>2. io'[t] = Resting /\ \A u \in Threads \ {t} : io'[u] = io[u]
    BY <1>1, <2>1, EndTyped DEF Runs
  <2>3. disk'.doc = disk.doc /\ disk'.outbox = disk.outbox
    BY <1>1, <2>1 DEF Persisted, Disks
  <2> QED
    BY <1>6, <2>2, <2>3 DEF Resting
<1> QED
  BY <1>2, <1>3, <1>4, <1>5, <1>6 DEF Waiting

\* ...and once it was not.
LEMMA RefusedIs ==
  ASSUME Fits, NEW t \in Threads, io[t].pc \in Waiting, NEW status, OnRefused(t, status)
  PROVE  /\ \A u \in Threads \ {t} : io'[u] = io[u]
         /\ disk'.outbox = disk.outbox /\ disk'.doc = disk.doc
         /\ io'[t].pc \in {"find", "remember", "idle"}
         /\ io'[t].doc \in {io[t].doc, {}} /\ io'[t].ops \in {io[t].ops, <<>>}
         /\ io'[t].left \in {io[t].left, <<>>}
<1>1. io[t] \in Runs /\ disk \in Disks /\ TypeOK /\ io[t].head \in Nat
  BY Types DEF Fits, Runs
<1>2. CASE io[t].pc = "create"
  <2> DEFINE run == [io[t] EXCEPT !.pc = "find"]
  <2>1. Set(t, run) /\ UNCHANGED <<disk, results>>
    BY <1>2 DEF OnRefused
  <2>2. /\ run \in Runs /\ run.pc = "find" /\ run.doc = io[t].doc /\ run.ops = io[t].ops
        /\ run.left = io[t].left
    BY <1>1 DEF Runs, Waiting
  <2> HIDE DEF run
  <2> QED
    BY <1>1, <2>1, <2>2, SetTyped
<1>3. CASE io[t].pc \in {"change", "generate"} /\ status = "conflict"
  <2> DEFINE run == Pc(t, "remember")
  <2>1. Set(t, run) /\ UNCHANGED <<disk, results>>
    BY <1>3 DEF OnRefused
  <2>2. /\ run \in Runs /\ run.pc = "remember" /\ run.doc = {} /\ run.ops = <<>>
        /\ run.left = io[t].left
    BY <1>1, PcTyped, PcHas
  <2> HIDE DEF run
  <2> QED
    BY <1>1, <2>1, <2>2, SetTyped
<1>4. CASE io[t].pc = "remember"
  <2>1. disk' = Persisted(io[t].head, TRUE) /\ End(t, TRUE, io[t].head, TRUE)
    BY <1>4 DEF OnRefused
  <2>2. io'[t] = Resting /\ \A u \in Threads \ {t} : io'[u] = io[u]
    BY <1>1, <2>1, EndTyped
  <2>3. disk'.doc = disk.doc /\ disk'.outbox = disk.outbox
    BY <1>1, <2>1 DEF Persisted, Disks
  <2> QED
    BY <2>2, <2>3 DEF Resting
<1>5. CASE /\ io[t].pc \notin {"create", "remember"}
           /\ ~(io[t].pc \in {"change", "generate"} /\ status = "conflict")
  <2>1. Failed(t) /\ UNCHANGED disk
    BY <1>5 DEF OnRefused
  <2>2. io'[t] = Resting /\ \A u \in Threads \ {t} : io'[u] = io[u]
    BY <1>1, <2>1, FailedTyped
  <2> QED
    BY <2>1, <2>2 DEF Resting
<1> QED
  BY <1>2, <1>3, <1>4, <1>5

\* A frame that ages stays what it was, but it is past.
LEMMA AgedFrames ==
  ASSUME TypeOK, NEW t \in Threads, Aged(t)
  PROVE  /\ ui'.pc = ui.pc /\ ui'.doc = ui.doc /\ ui'.out = ui.out
         /\ io'[t].pc # "clear" => ui'.undo = ui.undo
         /\ DOMAIN ui'.undo = DOMAIN ui.undo
         /\ \A i \in DOMAIN ui.undo :
              /\ ui'.undo[i].doc = ui.undo[i].doc /\ ui'.undo[i].outbox = ui.undo[i].outbox
              /\ ui'.undo[i].edit = ui.undo[i].edit
              /\ io'[t].pc = "clear" => ui'.undo[i].past
<1>1. ui \in Screens /\ ui.undo \in Seq(Frames)
  BY Types DEF Screens, Frames
<1> DEFINE past == [i \in DOMAIN ui.undo |-> [ui.undo[i] EXCEPT !.past = TRUE]]
           frames == IF io'[t].pc # "clear" THEN ui.undo ELSE past
<1>2. ui' = [ui EXCEPT !.undo = frames]
  BY DEF Aged
<1>3. \A i \in DOMAIN ui.undo : ui.undo[i] \in Frames
  BY <1>1
<1>4. /\ DOMAIN past = DOMAIN ui.undo
      /\ \A i \in DOMAIN ui.undo :
           /\ past[i].doc = ui.undo[i].doc /\ past[i].outbox = ui.undo[i].outbox
           /\ past[i].edit = ui.undo[i].edit /\ past[i].past
  BY <1>3 DEF Frames
<1> HIDE DEF past
<1>5. /\ io'[t].pc # "clear" => frames = ui.undo
      /\ io'[t].pc = "clear" => frames = past
  OBVIOUS
<1> HIDE DEF frames
<1>6. ui'.pc = ui.pc /\ ui'.doc = ui.doc /\ ui'.out = ui.out /\ ui'.undo = frames
  BY <1>1, <1>2 DEF Screens
<1> QED
  BY <1>4, <1>5, <1>6

LEMMA UnsentIsMeant ==
  ASSUME TypeOK, OwnEdits, NEW t \in Threads
  PROVE  Meant(made, ToSet(Unsent(t)))
<1>1. disk.outbox \in Seq(Ops)
  BY Types DEF Disks
<1>2. ToSet(Unsent(t)) \subseteq ToSet(disk.outbox)
  BY <1>1, RemainingIs DEF Unsent
<1> QED
  BY <1>2 DEF OwnEdits, Mine, Meant

LEMMA AnsweredOwns ==
  ASSUME Fits, OwnEdits, ServerKeeps(made, server), NEW t \in Threads, Answered(t)
  PROVE  OwnEdits'
<1> DEFINE r == RequestOf(t)
<1>1. PICK a \in Answers(server, r) :
        IF Granted(a) THEN OnGranted(t, a, r) ELSE OnRefused(t, a.status)
  BY DEF Answered
<1>2. io[t].pc \in Waiting /\ Aged(t) /\ UNCHANGED <<late, queue, made>>
  BY DEF Answered
<1>3. /\ TypeOK /\ server \in ServerRows /\ r \in Requests /\ made.all \subseteq Edits
      /\ IsFiniteSet(server.filed)
  BY Types, RequestTyped DEF Fits, KeysAreFew
<1>4. a.server \in ServerRows /\ HeadIn(a, r) \in Nat
  BY <1>3, AnswersTyped
<1>5. ServerKeeps(made, a.server)
  BY <1>3, RequestIsMine, AnswerKeeps
<1> HIDE DEF r
<1>6. OwnRun(made, io[t]) /\ Mine(made, disk.doc, disk.outbox)
  BY DEF OwnEdits
<1>7. /\ \A u \in Threads \ {t} : io'[u] = io[u]
      /\ OwnRun(made, io'[t]) /\ Mine(made, disk'.doc, disk'.outbox)
  <2>1. CASE Granted(a)
    <3>1. OnGranted(t, a, r)
      BY <1>1, <2>1
    <3>2. /\ \A u \in Threads \ {t} : io'[u] = io[u]
          /\ disk'.outbox = disk.outbox /\ disk'.doc \in {Document(a.server), disk.doc}
          /\ io'[t].doc = {} /\ io'[t].ops = <<>>
          /\ io'[t].left \in {io[t].left, Unsent(t), <<>>}
      BY <1>2, <1>4, <3>1, GrantedIs
    <3>3. Document(a.server) \cap Edits \subseteq made.all
      BY <1>5 DEF ServerKeeps, Document
    <3>4. OwnRun(made, io'[t])
      BY <1>3, <1>6, <3>2, UnsentIsMeant, NothingIsMine DEF OwnRun
    <3> QED
      BY <1>6, <3>2, <3>3, <3>4 DEF Mine
  <2>2. CASE ~Granted(a)
    <3>1. OnRefused(t, a.status)
      BY <1>1, <2>2
    <3>2. /\ \A u \in Threads \ {t} : io'[u] = io[u]
          /\ disk'.outbox = disk.outbox /\ disk'.doc = disk.doc
          /\ io'[t].doc \in {io[t].doc, {}} /\ io'[t].ops \in {io[t].ops, <<>>}
          /\ io'[t].left \in {io[t].left, <<>>}
      BY <1>2, <3>1, RefusedIs
    <3> QED
      BY <1>6, <3>2, NothingIsMine DEF OwnRun, Mine
  <2> QED
    BY <2>1, <2>2
<1>8. /\ ui'.doc = ui.doc /\ ui'.out = ui.out
      /\ \A i \in DOMAIN ui'.undo : OwnFrame(made, ui'.undo[i])
  <2>1. /\ ui'.doc = ui.doc /\ ui'.out = ui.out /\ DOMAIN ui'.undo = DOMAIN ui.undo
        /\ \A i \in DOMAIN ui.undo :
             /\ ui'.undo[i].doc = ui.undo[i].doc /\ ui'.undo[i].outbox = ui.undo[i].outbox
             /\ ui'.undo[i].edit = ui.undo[i].edit
    BY <1>2, <1>3, AgedFrames
  <2> QED
    BY <2>1 DEF OwnEdits, OwnFrame
<1>9. \A q \in late' : Mine(made, q.doc, q.ops)
  BY <1>2 DEF OwnEdits
<1> QED
  BY <1>2, <1>7, <1>8, <1>9, TaskOwns

LEMMA UnansweredOwns ==
  ASSUME Fits, OwnEdits, NEW t \in Threads, Unanswered(t)
  PROVE  OwnEdits'
<1>1. /\ io[t].pc \in Waiting /\ OnRefused(t, "none")
      /\ late' \subseteq late \cup {RequestOf(t)}
      /\ UNCHANGED <<server, ui, queue, made>>
  BY DEF Unanswered
<1>2. OwnRun(made, io[t]) /\ Mine(made, disk.doc, disk.outbox) /\ TypeOK
  BY DEF OwnEdits, Fits
<1>3. /\ \A u \in Threads \ {t} : io'[u] = io[u]
      /\ disk'.outbox = disk.outbox /\ disk'.doc = disk.doc
      /\ io'[t].doc \in {io[t].doc, {}} /\ io'[t].ops \in {io[t].ops, <<>>}
      /\ io'[t].left \in {io[t].left, <<>>}
  BY <1>1, RefusedIs
<1>4. OwnRun(made, io'[t])
  BY <1>2, <1>3, NothingIsMine DEF OwnRun, Mine
<1>5. \A r \in late' : Mine(made, r.doc, r.ops)
  BY <1>1, <1>2, RequestIsMine DEF OwnEdits
<1> QED
  BY <1>1, <1>2, <1>3, <1>4, <1>5, TaskOwns DEF OwnEdits

\* The process or the activity starts anew, and nothing is undone any more.
LEMMA ReopenedIs ==
  ASSUME ui' = Reopened
  PROVE  ui'.pc = "idle" /\ ui'.doc = {} /\ ui'.out = <<>> /\ ui'.undo = <<>>
  BY DEF Reopened, Shown

LEMMA WorldOwns ==
  ASSUME Fits, OwnEdits, World
  PROVE  OwnEdits'
<1>1. CASE \E t \in Threads : Unanswered(t)
  BY <1>1, UnansweredOwns
<1>2. CASE (\E r \in late : Arrives(r)) \/ (\E o \in Others : OtherDevice(o)) \/ Removes
  <2>1. late' \subseteq late /\ UNCHANGED <<disk, ui, io, made>>
    BY <1>2 DEF Arrives, OtherDevice, Removes, Removal
  <2> QED
    BY <2>1 DEF OwnEdits
<1>3. CASE Kill
  <2>1. /\ late' = late \cup Pending(Threads)
        /\ io' = [t \in Threads |-> Resting]
        /\ ui' = Reopened /\ UNCHANGED <<server, disk, made>>
    BY <1>3 DEF Kill
  <2>2. \A r \in Pending(Threads) : Mine(made, r.doc, r.ops)
    BY RequestIsMine DEF Pending, Fits
  <2>3. \A r \in late' : Mine(made, r.doc, r.ops)
    BY <2>1, <2>2 DEF OwnEdits
  <2>4. DOMAIN ui'.undo = {}
    BY <2>1, ReopenedIs
  <2>5. \A t \in Threads : OwnRun(made, io'[t])
    BY <2>1, NothingIsMine
  <2> QED
    BY <2>1, <2>3, <2>4, <2>5, ReopenedIs, NothingIsMine DEF OwnEdits
<1>4. CASE Recreate
  <2>1. /\ io' = [io EXCEPT !["old"] = io["io"], !["io"] = Resting]
        /\ ui' = Reopened /\ UNCHANGED <<server, late, disk, made>>
    BY <1>4 DEF Recreate
  <2>2. io'["old"] = io["io"] /\ io'["io"] = Resting
    BY <2>1, Types DEF Fits, Threads
  <2>3. DOMAIN ui'.undo = {}
    BY <2>1, ReopenedIs
  <2>4. \A t \in Threads : OwnRun(made, io'[t])
    BY <2>2, NothingIsMine DEF OwnEdits, Threads
  <2> QED
    BY <2>1, <2>3, <2>4, ReopenedIs, NothingIsMine DEF OwnEdits
<1> QED
  BY <1>1, <1>2, <1>3, <1>4 DEF World, Removes

\* A task begins with nothing but its head.
LEMMA BeginIs ==
  ASSUME Fits, Begin
  PROVE  /\ io["io"].pc = "idle" /\ queue # <<>>
         /\ UNCHANGED <<server, late, disk, ui, made, seen>> /\ io'["old"] = io["old"]
         /\ \/ io'["io"] = io["io"]
            \/ /\ io'["io"].pc \in {"take", "rebase", "sync"}
               /\ io'["io"].doc = {} /\ io'["io"].ops = <<>> /\ io'["io"].left = <<>>
<1>1. io["io"].pc = "idle" /\ queue # <<>> /\ UNCHANGED <<server, late, disk, ui, made, seen>>
  BY DEF Begin
<1>2. CASE ~ui.cloud
  BY <1>1, <1>2 DEF Begin
<1>3. CASE ui.cloud
  <2> DEFINE q == Head(queue)
             pc == CASE q.task = "take" -> "take" [] q.task = "retry" -> "rebase"
                     [] OTHER -> "sync"
             run == [Resting EXCEPT !.task = q.task, !.head = q.head,
                                    !.conflict = q.conflict, !.pc = pc]
  <2>1. Set("io", run)
    BY <1>3 DEF Begin
  <2>2. pc \in {"take", "rebase", "sync"}
    OBVIOUS
  <2> HIDE DEF pc
  <2>3. run.pc = pc /\ run.doc = {} /\ run.ops = <<>> /\ run.left = <<>>
    BY DEF Resting
  <2> HIDE DEF run
  <2>4. io' = [io EXCEPT !["io"] = run]
    BY <2>1 DEF Set
  <2>5. io'["io"] = run /\ io'["old"] = io["old"]
    BY <2>4, Types DEF Fits, Threads
  <2> QED
    BY <1>1, <2>2, <2>3, <2>5
<1> QED
  BY <1>2, <1>3

\* Files, frames, threads and requests hold nothing but what the user did.
LEMMA OwnStep ==
  ASSUME Fits, OwnEdits, ServerKeeps(made, server), [Next]_vars
  PROVE  OwnEdits'
<1>1. CASE Main
  BY <1>1, MainOwns
<1>2. CASE Begin
  <2>1. /\ UNCHANGED <<late, disk, ui, made>>
        /\ io'["old"] = io["old"] /\ OwnRun(made, io'["io"])
    BY <1>2, BeginIs, NothingIsMine DEF OwnRun, OwnEdits, Threads
  <2> QED
    BY <2>1 DEF OwnEdits, Threads
<1>3. CASE \E t \in Threads : Executor(t)
  BY <1>3, LocalOwns, AnsweredOwns DEF Executor
<1>4. CASE World
  BY <1>4, WorldOwns
<1>5. CASE UNCHANGED vars
  BY <1>5 DEF vars, OwnEdits
<1> QED
  BY <1>1, <1>2, <1>3, <1>4, <1>5 DEF Next

\* What the user does without overlapping is done while nothing is under way.
LEMMA NoOverlap ==
  ASSUME NEW what, Overlap \subseteq what, Note(what), Plain'
  PROVE  ~Busy
<1>1. seen' = seen \cup what
  BY DEF Note
<1> QED
  BY <1>1 DEF Plain, Overlap

LEMMA WorkIsBusy ==
  ASSUME EditsKept, queue # <<>> \/ results # <<>> \/ \E t \in Threads : io[t].pc # "idle"
  PROVE  ui.pc = "idle"
  BY DEF EditsKept, Busy

LEMMA KeptMoves ==
  ASSUME NEW did, NEW s, NEW z, Lasting(did) \cap s.doc \subseteq z.doc,
         NEW doc, NEW ops, Kept(did, s, doc, ops)
  PROVE  Kept(did, z, doc, ops)
  BY DEF Kept

\* A thread that does nothing, while the user does more or the server goes on.
LEMMA RunStays ==
  ASSUME TypeOK, OwnEdits, NEW r, RunKeeps(r), Grows(made, made'), made'.all \subseteq Edits,
         Lasting(made) \cap server.doc \subseteq server'.doc, disk'.doc \subseteq disk.doc
  PROVE  /\ r.pc \in {"post", "create"} =>
              Lasting(made') \cap disk'.doc \subseteq r.doc \cup server'.doc
         /\ r.pc \in {"dropPosted", "dropSent"} => Kept(made', server', disk'.doc, r.left)
         /\ r.pc = "clear" => Kept(made', server', disk'.doc, <<>>)
<1>1. disk.doc \cap Edits \subseteq made.all
  BY DEF OwnEdits, Mine
<1>2. Lasting(made') \cap disk'.doc \subseteq Lasting(made) \cap disk.doc
  BY <1>1, LastingGrows
<1> QED
  BY <1>2 DEF RunKeeps, Kept

\* A step that changes neither the document of the device nor what is in the works.
LEMMA QuietlyKept ==
  ASSUME EditsKept, made' = made, Lasting(made) \cap server.doc \subseteq server'.doc,
         disk'.doc = disk.doc, Kept(made, server', disk.doc, disk'.outbox),
         \/ ui'.pc = "idle" /\ ui'.undo = <<>>
         \/ ui'.pc = "idle" /\ ui.pc = "idle" /\ ui'.undo = ui.undo
         \/ /\ ui'.pc = ui.pc /\ ui'.doc = ui.doc /\ ui'.out = ui.out /\ ui'.undo = ui.undo
            /\ disk'.outbox = disk.outbox
            /\ UNCHANGED <<queue, results, io>>,
         \A t \in Threads : RunKeeps(io[t])'
  PROVE  EditsKept'
<1>1. ui'.pc # "idle" => ~Busy'
  BY DEF EditsKept, Busy
<1>2. ui'.pc = "enqueue" => Kept(made', server', disk'.doc \cup ui'.doc, ui'.out)
  BY KeptMoves DEF EditsKept
<1>3. ui'.pc = "save" => Kept(made', server', ui'.doc, disk'.outbox)
  BY KeptMoves DEF EditsKept
<1>4. ASSUME NEW i \in DOMAIN ui'.undo
      PROVE  FrameKept(i)'
  <2>1. i \in DOMAIN ui.undo /\ ui'.undo = ui.undo /\ Drawn' = Drawn
    BY <1>4 DEF Drawn
  <2>2. FrameKept(i)
    BY <2>1 DEF EditsKept
  <2> QED
    BY <2>1, <2>2, KeptMoves DEF FrameKept
<1> QED
  BY <1>1, <1>2, <1>3, <1>4 DEF EditsKept

LEMMA EditKeeps ==
  ASSUME Fits, Fits', OwnEdits, EditsKept, NEW e \in Edits, Edit(e), Plain'
  PROVE  EditsKept'
<1> DEFINE frame == [doc |-> disk.doc, outbox |-> disk.outbox, edit |-> e, past |-> FALSE]
           out == Outbox(Do(e))
           doc == disk.doc \cup {e}
           undo == <<frame>> \o ui.undo
<1>1. /\ ui' = [ui EXCEPT !.pc = "enqueue", !.out = out, !.rotate = TRUE,
                          !.doc = doc, !.undo = undo]
      /\ UNCHANGED <<server, late, disk, queue, io, results>> /\ ui.pc = "idle"
  BY DEF Edit
<1>2. disk \in Disks /\ ui \in Screens /\ ui.undo \in Seq(Frames)
  BY Types DEF Fits, Screens, Frames
<1>3. Grows(made, made') /\ made'.all \subseteq Edits /\ made'.all = made.all \cup {e}
  <2>1. TypeOK'
    BY DEF Fits
  <2>2. Grows(made, made')
    BY Grown DEF Fits, Next, Main
  <2>3. made'.all = made.all \cup {e}
    BY Types DEF Fits, Edit
  <2> QED
    BY <2>1, <2>2, <2>3 DEF TypeOK
<1>4. ~Busy
  <2> DEFINE what == Overlap \cup Outgrown(Outbox(Do(e))) \cup Refusable(e)
  <2>1. Note(what) /\ Overlap \subseteq what
    BY DEF Edit
  <2> HIDE DEF what
  <2> QED
    BY <2>1, NoOverlap
<1>5. /\ disk.doc \cap Edits \subseteq made.all
      /\ \A i \in DOMAIN ui.undo : ui.undo[i].doc \cap Edits \subseteq made.all
  BY DEF OwnEdits, OwnFrame, Mine
<1>6. Kept(made', server, disk.doc, disk.outbox)
  BY <1>3, <1>5, KeptGrows DEF EditsKept
<1>7. Kept(made', server, disk.doc \cup doc, out)
  <2>1. Do(e) \in Ops /\ disk.outbox \in Seq(Ops)
    BY <1>2 DEF Do, Ops, Disks
  <2>2. ToSet(out) = ToSet(disk.outbox) \cup {Do(e)}
    BY <2>1, AppendSet DEF Outbox
  <2> QED
    BY <1>6, <2>2 DEF Kept
<1>8. frame.doc = disk.doc /\ frame.outbox = disk.outbox /\ ~frame.past
  OBVIOUS
<1> HIDE DEF frame
<1>9. /\ DOMAIN undo = 1 .. Len(ui.undo) + 1 /\ DOMAIN ui.undo = 1 .. Len(ui.undo)
      /\ \A i \in DOMAIN undo : undo[i] = IF i = 1 THEN frame ELSE ui.undo[i - 1]
      /\ \A i \in DOMAIN undo : i = 1 \/ (i - 1 \in DOMAIN ui.undo)
      /\ Len(ui.undo) \in Nat
  <2>1. /\ DOMAIN undo = 1 .. Len(ui.undo) + 1 /\ DOMAIN ui.undo = 1 .. Len(ui.undo)
        /\ Len(ui.undo) \in Nat
    BY <1>2
  <2>2. \A i \in DOMAIN undo : undo[i] = IF i = 1 THEN frame ELSE ui.undo[i - 1]
    BY <1>2
  <2>3. \A i \in DOMAIN undo : i = 1 \/ i - 1 \in DOMAIN ui.undo
    BY <2>1
  <2> HIDE DEF undo
  <2> QED
    BY <2>1, <2>2, <2>3
<1> HIDE DEF out, undo
<1>10. ui'.pc = "enqueue" /\ ui'.doc = doc /\ ui'.out = out /\ ui'.undo = undo
  BY <1>1, <1>2 DEF Screens
<1>11. Drawn = disk.doc /\ Drawn' = doc
  BY <1>1, <1>10 DEF Drawn
<1>12. ASSUME NEW i \in DOMAIN undo
       PROVE  FrameKept(i)'
  <2>1. ASSUME NEW j \in DOMAIN undo, j # 1, ~undo[j].past
        PROVE  undo[j].doc \subseteq disk.doc
    <3>1. j - 1 \in DOMAIN ui.undo /\ undo[j] = ui.undo[j - 1]
      BY <1>9, <2>1
    <3> QED
      BY <1>11, <2>1, <3>1 DEF EditsKept, FrameKept
  <2>2. CASE i = 1
    <3>1. /\ Kept(made', server', undo[i].doc, undo[i].outbox)
          /\ undo[i].doc = disk.doc /\ undo[i].doc \subseteq Drawn'
      BY <1>1, <1>6, <1>9, <1>8, <1>11, <2>2
    <3>2. \A j \in DOMAIN undo : j > i /\ ~undo[j].past => undo[j].doc \subseteq undo[i].doc
      BY <2>1, <2>2, <3>1
    <3> QED
      BY <1>10, <3>1, <3>2 DEF FrameKept
  <2>3. CASE i # 1
    <3>1. i - 1 \in DOMAIN ui.undo /\ undo[i] = ui.undo[i - 1]
      BY <1>9, <2>3
    <3>2. FrameKept(i - 1)
      BY <3>1 DEF EditsKept
    <3>3. ~undo[i].past => Kept(made', server', undo[i].doc, undo[i].outbox)
      BY <1>1, <1>3, <1>5, <3>1, <3>2, KeptGrows DEF FrameKept
    <3>4. ~undo[i].past => undo[i].doc \subseteq Drawn'
      BY <1>11, <2>1, <2>3
    <3>5. ASSUME NEW j \in DOMAIN undo, j > i, ~undo[j].past, ~undo[i].past
          PROVE  undo[j].doc \subseteq undo[i].doc
      <4>1. j # 1 /\ j - 1 > i - 1 /\ j - 1 \in DOMAIN ui.undo /\ undo[j] = ui.undo[j - 1]
        BY <1>9, <2>3, <3>5
      <4> QED
        BY <3>1, <3>2, <3>5, <4>1 DEF FrameKept
    <3> QED
      BY <1>10, <3>3, <3>4, <3>5 DEF FrameKept
  <2> QED
    BY <2>2, <2>3
<1>13. \A t \in Threads : RunKeeps(io[t])'
  <2> SUFFICES ASSUME NEW t \in Threads
               PROVE  RunKeeps(io[t])'
    OBVIOUS
  <2>1. RunKeeps(io[t]) /\ disk'.doc \subseteq disk.doc
        /\ Lasting(made) \cap server.doc \subseteq server'.doc
    BY <1>1 DEF EditsKept
  <2> QED
    BY <1>1, <1>3, <2>1, RunStays DEF RunKeeps, Fits
<1>14. ~Busy'
  BY <1>1, <1>4 DEF Busy
<1> QED
  BY <1>1, <1>6, <1>7, <1>10, <1>12, <1>13, <1>14 DEF EditsKept

LEMMA UndoKeeps ==
  ASSUME Fits, Fits', OwnEdits, EditsKept, Undo, Plain'
  PROVE  EditsKept'
<1> DEFINE frame == Head(ui.undo)
           out == IF StillQueued(frame.edit) THEN frame.outbox
                  ELSE Outbox(Revert(frame.edit))
           rotate == ~StillQueued(frame.edit)
           undo == Tail(ui.undo)
<1>1. /\ ui' = [ui EXCEPT !.pc = "enqueue", !.doc = frame.doc, !.undo = undo,
                          !.rotate = rotate, !.out = out]
      /\ disk' = [disk EXCEPT !.doc = frame.doc]
      /\ UNCHANGED <<server, late, queue, io, results>>
      /\ ui.undo # <<>> /\ ui.pc = "idle"
      /\ Note(Overlap \cup Outgrown(ui'.out) \cup IF frame.past THEN {"past"} ELSE {})
  BY DEF Undo
<1>2. disk \in Disks /\ ui \in Screens /\ ui.undo \in Seq(Frames)
  BY Types DEF Fits, Screens, Frames
<1>3. Grows(made, made') /\ made'.all \subseteq Edits
  <2>1. TypeOK'
    BY DEF Fits
  <2>2. Grows(made, made')
    BY Grown DEF Fits, Next, Main
  <2> QED
    BY <2>1, <2>2 DEF TypeOK
<1>4. ~Busy /\ ~frame.past
  <2> DEFINE what == Overlap \cup Outgrown(ui'.out) \cup IF frame.past THEN {"past"} ELSE {}
  <2>1. Note(what) /\ Overlap \subseteq what /\ (frame.past => "past" \in what)
    BY <1>1
  <2> HIDE DEF what, frame
  <2>2. seen' = seen \cup what
    BY <2>1 DEF Note
  <2>3. ~frame.past
    BY <2>1, <2>2 DEF Plain
  <2> QED
    BY <2>1, <2>3, NoOverlap
<1>5. /\ DOMAIN ui.undo = 1 .. Len(ui.undo) /\ Len(ui.undo) \in Nat
      /\ 1 \in DOMAIN ui.undo /\ frame = ui.undo[1]
      /\ \A i \in DOMAIN undo : i \in Nat /\ i + 1 \in DOMAIN ui.undo
                                /\ undo[i] = ui.undo[i + 1]
  BY <1>1, <1>2
<1>6. frame \in Frames
  BY <1>2, <1>5
<1> HIDE DEF frame
<1>7. FrameKept(1) /\ frame.doc \subseteq disk.doc
      /\ Kept(made, server, frame.doc, frame.outbox)
      /\ \A j \in DOMAIN ui.undo :
           j > 1 /\ ~ui.undo[j].past => ui.undo[j].doc \subseteq frame.doc
  BY <1>1, <1>4, <1>5 DEF EditsKept, FrameKept, Drawn
<1>8. /\ disk.doc \cap Edits \subseteq made.all /\ frame.doc \cap Edits \subseteq made.all
      /\ \A i \in DOMAIN ui.undo : ui.undo[i].doc \cap Edits \subseteq made.all
  BY <1>5 DEF OwnEdits, OwnFrame, Mine
<1>9. Kept(made', server, frame.doc, disk.outbox) /\ Kept(made', server, frame.doc, frame.outbox)
  <2>1. Kept(made, server, frame.doc, disk.outbox)
    BY <1>7 DEF EditsKept, Kept
  <2> QED
    BY <1>3, <1>7, <1>8, <2>1, KeptGrows
<1>10. Kept(made', server, frame.doc, out)
  <2>1. Revert(frame.edit) \in Ops /\ disk.outbox \in Seq(Ops)
    BY <1>2, <1>6 DEF Revert, Ops, Disks, Frames
  <2>2. ToSet(Outbox(Revert(frame.edit))) = ToSet(disk.outbox) \cup {Revert(frame.edit)}
    BY <2>1, AppendSet DEF Outbox
  <2> QED
    BY <1>9, <2>2 DEF Kept
<1> HIDE DEF out, rotate, undo
<1>11. /\ ui'.pc = "enqueue" /\ ui'.doc = frame.doc /\ ui'.out = out /\ ui'.undo = undo
       /\ disk'.doc = frame.doc /\ disk'.outbox = disk.outbox
  BY <1>1, <1>2 DEF Screens, Disks
<1>12. Drawn' = frame.doc
  BY <1>11 DEF Drawn
<1>13. ASSUME NEW i \in DOMAIN undo
       PROVE  FrameKept(i)'
  <2>1. i \in Nat /\ i + 1 \in DOMAIN ui.undo /\ undo[i] = ui.undo[i + 1] /\ i + 1 > 1
    <3>1. i \in Nat /\ i + 1 \in DOMAIN ui.undo /\ undo[i] = ui.undo[i + 1]
      BY <1>5
    <3>2. i # 0
      BY DEF undo
    <3> QED
      BY <3>1, <3>2
  <2>2. FrameKept(i + 1)
    BY <2>1 DEF EditsKept
  <2>3. ~undo[i].past => Kept(made', server', undo[i].doc, undo[i].outbox)
    BY <1>1, <1>3, <1>8, <2>1, <2>2, KeptGrows DEF FrameKept
  <2>4. ~undo[i].past => undo[i].doc \subseteq Drawn'
    BY <1>7, <1>12, <2>1
  <2>5. ASSUME NEW j \in DOMAIN undo, j > i, ~undo[j].past, ~undo[i].past
        PROVE  undo[j].doc \subseteq undo[i].doc
    <3>1. j + 1 \in DOMAIN ui.undo /\ undo[j] = ui.undo[j + 1] /\ j \in Nat
      BY <1>5
    <3>2. j + 1 > i + 1
      BY <2>1, <2>5, <3>1
    <3> QED
      BY <2>1, <2>2, <2>5, <3>1, <3>2 DEF FrameKept
  <2> QED
    BY <1>11, <2>3, <2>4, <2>5 DEF FrameKept
<1>14. \A t \in Threads : RunKeeps(io[t])'
  <2> SUFFICES ASSUME NEW t \in Threads
               PROVE  RunKeeps(io[t])'
    OBVIOUS
  <2>1. RunKeeps(io[t]) /\ disk'.doc \subseteq disk.doc
        /\ Lasting(made) \cap server.doc \subseteq server'.doc
    BY <1>1, <1>7, <1>11 DEF EditsKept
  <2> QED
    BY <1>1, <1>3, <2>1, RunStays DEF RunKeeps, Fits
<1>15. ~Busy'
  BY <1>1, <1>4 DEF Busy
<1>16. Kept(made', server', disk'.doc \cup ui'.doc, ui'.out)
  BY <1>1, <1>10, <1>11 DEF Kept
<1> QED
  BY <1>1, <1>9, <1>11, <1>13, <1>14, <1>15, <1>16 DEF EditsKept

LEMMA EnqueueKeeps ==
  ASSUME Fits, EditsKept, Enqueue
  PROVE  EditsKept'
<1> DEFINE key == IF ui.rotate THEN NewKey ELSE disk.key
<1>1. /\ disk' = [disk EXCEPT !.outbox = ui.out, !.key = key]
      /\ ui' = [ui EXCEPT !.pc = "save", !.out = <<>>, !.rotate = FALSE]
      /\ UNCHANGED <<server, late, queue, io, results, made, seen>>
      /\ ui.pc = "enqueue"
  BY DEF Enqueue
<1> HIDE DEF key
<1>2. disk \in Disks /\ ui \in Screens
  BY Types DEF Fits
<1>3. disk'.doc = disk.doc /\ disk'.outbox = ui.out
  BY <1>1, <1>2 DEF Disks
<1>4. ui'.doc = ui.doc /\ ui'.undo = ui.undo /\ ui'.pc = "save"
  BY <1>1, <1>2 DEF Screens
<1>5. Kept(made, server, disk.doc, ui.out) /\ Kept(made, server, ui.doc, ui.out)
  BY <1>1 DEF EditsKept, Kept
<1>6. \A i \in DOMAIN ui.undo : FrameKept(i) /\ Drawn' = Drawn
  BY <1>1, <1>4 DEF EditsKept, Drawn
<1>7. \A i \in DOMAIN ui'.undo : FrameKept(i)'
  BY <1>1, <1>4, <1>6 DEF FrameKept
<1>8. ~Busy'
  BY <1>1 DEF EditsKept, Busy
<1>9. \A t \in Threads : RunKeeps(io[t])'
  BY <1>1, <1>3 DEF EditsKept, RunKeeps
<1> QED
  BY <1>1, <1>3, <1>4, <1>5, <1>7, <1>8, <1>9 DEF EditsKept

LEMMA SaveKeeps ==
  ASSUME Fits, EditsKept, Save
  PROVE  EditsKept'
<1>1. /\ disk' = [disk EXCEPT !.doc = ui.doc]
      /\ ui' = [ui EXCEPT !.pc = "idle", !.doc = {}, !.syncing = TRUE]
      /\ UNCHANGED <<server, late, io, results, made, seen>>
      /\ ui.pc = "save"
  BY DEF Save
<1>2. disk \in Disks /\ ui \in Screens
  BY Types DEF Fits
<1>3. disk'.doc = ui.doc /\ disk'.outbox = disk.outbox
  BY <1>1, <1>2 DEF Disks
<1>4. ui'.undo = ui.undo /\ ui'.pc = "idle"
  BY <1>1, <1>2 DEF Screens
<1>5. Kept(made', server', disk'.doc, disk'.outbox)
  BY <1>1, <1>3 DEF EditsKept
<1>6. \A i \in DOMAIN ui.undo : FrameKept(i) /\ Drawn' = Drawn
  BY <1>1, <1>3, <1>4 DEF EditsKept, Drawn
<1>7. \A i \in DOMAIN ui'.undo : FrameKept(i)'
  BY <1>1, <1>4, <1>6 DEF FrameKept
<1>8. \A t \in Threads : io'[t].pc = "idle"
  BY <1>1 DEF EditsKept, Busy
<1>9. \A t \in Threads : RunKeeps(io[t])'
  BY <1>8 DEF RunKeeps
<1> QED
  BY <1>4, <1>5, <1>7, <1>9 DEF EditsKept

\* Nothing else the main thread does touches the documents, the queue or the frames.
LEMMA MainKeeps ==
  ASSUME Fits, Fits', OwnEdits, EditsKept, Main, Plain'
  PROVE  EditsKept'
<1>1. CASE \E e \in Edits : Edit(e)
  BY <1>1, EditKeeps
<1>2. CASE Undo \/ Enqueue \/ Save
  BY <1>2, UndoKeeps, EnqueueKeeps, SaveKeeps
<1>3. CASE \/ (\E task \in Tasks : Press(task)) \/ RequestGeneration \/ ApplyOutcome
           \/ SignIn \/ SignOut
  <2>1. ui \in Screens
    BY Types DEF Fits
  <2>2. /\ UNCHANGED <<server, disk, io, made>>
        /\ ui.pc = "idle" /\ ui'.pc = "idle"
        /\ ui'.undo = ui.undo \/ ui'.undo = <<>>
    <3>1. CASE (\E task \in Tasks : Press(task)) \/ RequestGeneration \/ ApplyOutcome
      BY <3>1, <2>1 DEF Press, RequestGeneration, ApplyOutcome, Screens
    <3>2. CASE SignIn \/ SignOut
      BY <3>2, <2>1 DEF SignIn, SignOut, Screens
    <3> QED
      BY <1>3, <3>1, <3>2
  <2>3. Kept(made, server', disk.doc, disk'.outbox)
    BY <2>2 DEF EditsKept
  <2>4. \A t \in Threads : RunKeeps(io[t])'
    BY <2>2 DEF EditsKept, RunKeeps
  <2> QED
    BY <2>2, <2>3, <2>4, QuietlyKept
<1> QED
  BY <1>1, <1>2, <1>3 DEF Main

LEMMA BeginKeeps ==
  ASSUME Fits, EditsKept, Begin
  PROVE  EditsKept'
<1>1. /\ queue # <<>> /\ UNCHANGED <<server, disk, ui, made>> /\ io'["old"] = io["old"]
      /\ io'["io"] = io["io"] \/ io'["io"].pc \in {"take", "rebase", "sync"}
  BY BeginIs
<1>2. ui.pc = "idle"
  BY <1>1, WorkIsBusy
<1>3. Kept(made, server', disk.doc, disk'.outbox)
  BY <1>1 DEF EditsKept
<1>4. \A t \in Threads : RunKeeps(io[t])'
  BY <1>1 DEF EditsKept, RunKeeps, Threads
<1> QED
  BY <1>1, <1>2, <1>3, <1>4, QuietlyKept

\* A step of a thread that leaves the document alone.
LEMMA TaskKeeps ==
  ASSUME Fits, OwnEdits, EditsKept, NEW t \in Threads, io[t].pc # "idle",
         \A u \in Threads \ {t} : io'[u] = io[u], made' = made,
         Lasting(made) \cap server.doc \subseteq server'.doc, disk'.doc = disk.doc,
         Kept(made, server', disk.doc, disk'.outbox), RunKeeps(io[t])',
         ui'.pc = ui.pc, ui'.undo = ui.undo
  PROVE  EditsKept'
<1>1. ui.pc = "idle"
  BY WorkIsBusy
<1>2. TypeOK /\ Grows(made, made') /\ made'.all \subseteq Edits
      /\ disk'.doc \subseteq disk.doc
  BY Types DEF Fits, Grows
<1>3. ASSUME NEW u \in Threads
      PROVE  RunKeeps(io[u])'
  <2>1. CASE u = t
    BY <2>1
  <2>2. CASE u # t
    <3>1. RunKeeps(io[u]) /\ io'[u] = io[u]
      BY <2>2 DEF EditsKept
    <3> QED
      BY <1>2, <3>1, RunStays DEF RunKeeps
  <2> QED
    BY <2>1, <2>2
<1> QED
  BY <1>1, <1>3, QuietlyKept

LEMMA LocalKeeps ==
  ASSUME Fits, OwnEdits, EditsKept, NEW t \in Threads,
         \/ Sync(t) \/ Post(t) \/ Flush(t) \/ TakeKey(t) \/ Drop(t) \/ Again(t)
         \/ Synced(t) \/ Clear(t)
  PROVE  EditsKept'
<1>1. /\ UNCHANGED <<server, ui, made>>
      /\ \A u \in Threads \ {t} : io'[u] = io[u]
      /\ io[t].pc # "idle" /\ disk'.doc = disk.doc
      /\ Stores(t, io'[t], disk'.outbox)
  BY LocalIs
<1>2. RunKeeps(io[t]) /\ Kept(made, server, disk.doc, disk.outbox)
  BY DEF EditsKept
<1>3. Kept(made, server, disk.doc, disk'.outbox)
  BY <1>1, <1>2 DEF Stores, RunKeeps
<1>4. RunKeeps(io[t])'
  BY <1>1, <1>2 DEF Stores, RunKeeps
<1> QED
  BY <1>1, <1>3, <1>4, TaskKeeps

\* What is left to drop, once it was granted, is not on the server yet.
LEMMA UnsentKeeps ==
  ASSUME TypeOK, EditsKept, NEW t \in Threads, NEW s,
         Lasting(made) \cap server.doc \subseteq s.doc,
         \/ /\ io[t].pc = "create"
            /\ Lasting(made) \cap io[t].doc \subseteq s.doc
         \/ \A e \in Lasting(made) : Do(e) \in ToSet(io[t].ops) => e \in s.doc
  PROVE  Kept(made, s, disk.doc, Unsent(t))
<1>1. disk.outbox \in Seq(Ops)
  BY Types DEF Disks
<1>2. ToSet(Unsent(t)) = ToSet(disk.outbox) \ ToSet(io[t].ops)
  BY <1>1, RemainingIs DEF Unsent
<1>3. Kept(made, server, disk.doc, disk.outbox)
  BY DEF EditsKept
<1>4. CASE io[t].pc = "create" /\ Lasting(made) \cap io[t].doc \subseteq s.doc
  <2>1. Lasting(made) \cap disk.doc \subseteq io[t].doc \cup server.doc
    BY <1>4 DEF EditsKept, RunKeeps
  <2> QED
    BY <1>4, <2>1 DEF Kept
<1>5. CASE \A e \in Lasting(made) : Do(e) \in ToSet(io[t].ops) => e \in s.doc
  BY <1>2, <1>3, <1>5 DEF Kept
<1> QED
  BY <1>4, <1>5

\* A document that is taken from the server is on the server.
LEMMA TakenKeeps ==
  ASSUME ui'.pc = "idle", \A i \in DOMAIN ui'.undo : ui'.undo[i].past,
         disk'.doc = Document(server')
  PROVE  EditsKept'
<1>1. disk'.doc \subseteq server'.doc
  BY DEF Document
<1> QED
  BY <1>1 DEF EditsKept, Kept, FrameKept, RunKeeps

LEMMA AnsweredKeeps ==
  ASSUME Fits, OwnEdits, ServerKeeps(made, server), EditsKept, NEW t \in Threads, Answered(t)
  PROVE  EditsKept'
<1> DEFINE r == RequestOf(t)
<1>1. PICK a \in Answers(server, r) :
        /\ server' = a.server
        /\ IF Granted(a) THEN OnGranted(t, a, r) ELSE OnRefused(t, a.status)
  BY DEF Answered
<1>2. io[t].pc \in Waiting /\ Aged(t) /\ UNCHANGED <<late, queue, made>>
  BY DEF Answered
<1>3. /\ TypeOK /\ server \in ServerRows /\ r \in Requests /\ made.all \subseteq Edits
      /\ IsFiniteSet(server.filed) /\ r.doc = io[t].doc /\ r.ops = io[t].ops
      /\ r.op = IF io[t].pc \in {"create", "change", "generate"} THEN io[t].pc ELSE "get"
  BY Types, RequestTyped DEF Fits, KeysAreFew
<1>4. a.server \in ServerRows /\ HeadIn(a, r) \in Nat
  BY <1>3, AnswersTyped
<1>5. /\ Lasting(made) \cap server.doc \subseteq a.server.doc
      /\ Granted(a) /\ r.op = "create" => Lasting(made) \cap r.doc \subseteq a.server.doc
      /\ Granted(a) /\ r.op = "change" =>
           \A e \in Lasting(made) : Do(e) \in ToSet(r.ops) => e \in a.server.doc
  BY <1>3, RequestIsMine, AnswerKeeps
<1> HIDE DEF r
<1>6. io[t].pc # "idle" /\ ui.pc = "idle"
  <2>1. io[t].pc # "idle"
    BY <1>2 DEF Waiting
  <2> QED
    BY <2>1, WorkIsBusy
<1>7. /\ ui'.pc = ui.pc
      /\ io'[t].pc # "clear" => ui'.undo = ui.undo
      /\ DOMAIN ui'.undo = DOMAIN ui.undo
      /\ io'[t].pc = "clear" => \A i \in DOMAIN ui.undo : ui'.undo[i].past
  BY <1>2, <1>3, AgedFrames
<1>8. Kept(made, server', disk.doc, disk.outbox)
  BY <1>1, <1>5, KeptMoves DEF EditsKept
<1>9. CASE Granted(a)
  <2>1. OnGranted(t, a, r)
    BY <1>1, <1>9
  <2>2. /\ \A u \in Threads \ {t} : io'[u] = io[u]
        /\ disk'.outbox = disk.outbox
        /\ disk'.doc = IF io[t].pc \in {"take", "generate"} THEN Document(a.server) ELSE disk.doc
        /\ io'[t].pc = "clear" <=> io[t].pc \in {"take", "generate"}
        /\ io'[t].pc \notin {"post", "create"}
        /\ io'[t].pc \in {"dropPosted", "dropSent"} =>
             io[t].pc \in {"create", "change"} /\ io'[t].left = Unsent(t)
    BY <1>2, <1>4, <2>1, GrantedIs
  <2>3. CASE io[t].pc \in {"take", "generate"}
    BY <1>1, <1>6, <1>7, <2>2, <2>3, TakenKeeps
  <2>4. CASE io[t].pc \notin {"take", "generate"}
    <3>1. ASSUME io[t].pc \in {"create", "change"}
          PROVE  Kept(made, server', disk.doc, Unsent(t))
      BY <1>1, <1>3, <1>5, <1>9, <3>1, UnsentKeeps
    <3>2. RunKeeps(io[t])'
      BY <1>2, <2>2, <2>4, <3>1 DEF RunKeeps
    <3> QED
      BY <1>1, <1>2, <1>5, <1>6, <1>7, <1>8, <2>2, <2>4, <3>2, TaskKeeps
  <2> QED
    BY <2>3, <2>4
<1>10. CASE ~Granted(a)
  <2>1. OnRefused(t, a.status)
    BY <1>1, <1>10
  <2>2. /\ \A u \in Threads \ {t} : io'[u] = io[u]
        /\ disk'.outbox = disk.outbox /\ disk'.doc = disk.doc
        /\ io'[t].pc \in {"find", "remember", "idle"}
    BY <1>2, <2>1, RefusedIs
  <2>3. RunKeeps(io[t])'
    BY <2>2 DEF RunKeeps
  <2> QED
    BY <1>1, <1>2, <1>5, <1>6, <1>7, <1>8, <2>2, <2>3, TaskKeeps
<1> QED
  BY <1>9, <1>10

LEMMA WorldKeeps ==
  ASSUME Fits, OwnEdits, ServerKeeps(made, server), EditsKept, World
  PROVE  EditsKept'
<1>1. CASE \E t \in Threads : Unanswered(t)
  <2>1. PICK t \in Threads : Unanswered(t)
    BY <1>1
  <2>2. /\ io[t].pc \in Waiting /\ OnRefused(t, "none") /\ UNCHANGED <<server, ui, made>>
    BY <2>1 DEF Unanswered
  <2>3. /\ \A u \in Threads \ {t} : io'[u] = io[u]
        /\ disk'.outbox = disk.outbox /\ disk'.doc = disk.doc
        /\ io'[t].pc \in {"find", "remember", "idle"}
    BY <2>2, RefusedIs
  <2>4. io[t].pc # "idle"
    BY <2>2 DEF Waiting
  <2>5. RunKeeps(io[t])'
    BY <2>3 DEF RunKeeps
  <2>6. Kept(made, server', disk.doc, disk'.outbox)
    BY <2>2, <2>3 DEF EditsKept
  <2> QED
    BY <2>2, <2>3, <2>4, <2>5, <2>6, TaskKeeps
<1>2. CASE (\E r \in late : Arrives(r)) \/ (\E o \in Others : OtherDevice(o)) \/ Removes
  <2>1. UNCHANGED <<disk, ui, queue, io, results, made>>
    BY <1>2 DEF Arrives, OtherDevice, Removes, Removal
  <2>2. Lasting(made) \cap server.doc \subseteq server'.doc
    BY ServerStep DEF Next
  <2>3. Kept(made, server', disk.doc, disk'.outbox)
    BY <2>1, <2>2, KeptMoves DEF EditsKept
  <2>4. ASSUME NEW t \in Threads
        PROVE  RunKeeps(io[t])'
    <3>1. TypeOK /\ RunKeeps(io[t]) /\ Grows(made, made') /\ made'.all \subseteq Edits
          /\ disk'.doc \subseteq disk.doc
      BY <2>1, Types DEF Fits, EditsKept, Grows
    <3> QED
      BY <2>1, <2>2, <3>1, RunStays DEF RunKeeps
  <2> QED
    BY <2>1, <2>2, <2>3, <2>4, QuietlyKept
<1>3. CASE Kill
  <2>1. /\ io' = [t \in Threads |-> Resting]
        /\ ui' = Reopened /\ UNCHANGED <<server, disk, made>>
    BY <1>3 DEF Kill
  <2>2. \A t \in Threads : RunKeeps(io[t])'
    BY <2>1 DEF RunKeeps, Resting
  <2>3. Kept(made, server', disk.doc, disk'.outbox)
    BY <2>1 DEF EditsKept
  <2> QED
    BY <2>1, <2>2, <2>3, ReopenedIs, QuietlyKept
<1>4. CASE Recreate
  <2>1. /\ io' = [io EXCEPT !["old"] = io["io"], !["io"] = Resting]
        /\ ui' = Reopened /\ UNCHANGED <<server, late, disk, made>>
    BY <1>4 DEF Recreate
  <2>2. io'["old"] = io["io"] /\ io'["io"].pc = "idle"
    BY <2>1, Types DEF Fits, Threads, Resting
  <2>3. \A t \in Threads : RunKeeps(io[t])'
    BY <2>1, <2>2 DEF RunKeeps, EditsKept, Threads
  <2>4. Kept(made, server', disk.doc, disk'.outbox)
    BY <2>1 DEF EditsKept
  <2> QED
    BY <2>1, <2>3, <2>4, ReopenedIs, QuietlyKept
<1> QED
  BY <1>1, <1>2, <1>3, <1>4 DEF World, Removes

LEMMA SurvivingStays ==
  ASSUME Fits, Surviving, [Next]_vars
  PROVE  Surviving'
<1>1. Fits' /\ OwnEdits /\ ServerKeeps(made, server)
  BY StepTyped DEF Surviving
<1>2. OwnEdits' /\ ServerKeeps(made, server)'
  BY <1>1, OwnStep, ServerStep
<1>3. ASSUME Plain'
      PROVE  EditsKept'
  <2>1. EditsKept
    BY <1>3, SeenStays DEF Surviving, Plain
  <2>2. CASE Main
    BY <1>1, <1>3, <2>1, <2>2, MainKeeps
  <2>3. CASE Begin
    BY <2>1, <2>3, BeginKeeps
  <2>4. CASE \E t \in Threads : Executor(t)
    BY <1>1, <2>1, <2>4, LocalKeeps, AnsweredKeeps DEF Executor
  <2>5. CASE World
    BY <1>1, <2>1, <2>5, WorldKeeps
  <2>6. CASE UNCHANGED vars
    BY <2>1, <2>6 DEF vars, EditsKept, Busy, FrameKept, Drawn, RunKeeps
  <2> QED
    BY <2>2, <2>3, <2>4, <2>5, <2>6 DEF Next
<1> QED
  BY <1>2, <1>3 DEF Surviving

LEMMA InitSurviving == Init => Surviving
<1> SUFFICES ASSUME Init
             PROVE  Surviving
  OBVIOUS
<1>1. PICK cloud \in BOOLEAN : ui = [Shown(0, FALSE, cloud) EXCEPT !.syncing = TRUE]
  BY DEF Init
<1>2. ui.pc = "idle" /\ ui.doc = {} /\ ui.out = <<>> /\ ui.undo = <<>>
  BY <1>1 DEF Shown
<1>3. DOMAIN ui.undo = {}
  BY <1>2
<1>4. /\ server.head = 0 /\ server.doc = {} /\ server.created = {} /\ server.filed = {}
      /\ late = {} /\ disk.doc = {} /\ disk.outbox = <<>>
      /\ \A t \in Threads : io[t] = Resting
      /\ made.calm \subseteq made.all
  BY DEF Init
<1>5. OwnEdits
  BY <1>2, <1>3, <1>4, NothingIsMine DEF OwnEdits
<1>6. ServerKeeps(made, server)
  BY <1>4 DEF ServerKeeps
<1>7. EditsKept
  BY <1>2, <1>3, <1>4 DEF EditsKept, Kept, RunKeeps, Resting
<1> QED
  BY <1>5, <1>6, <1>7 DEF Surviving

-------------------------------------------------------------------------------
(* The results.                                                             *)

\* The inductive invariant, of which the properties follow.  The state keeps its
\* shape, and there is always a key that no request had before.  Without a lost
\* answer, a restart, an edit while a task is under way, signing out or another device
\* (Calm) the tasks come one at a time, each knows the head of the server, what is
\* queued is new to the server unless it was refused, and the head is stored.  And
\* without any of the Refusals, or signing out, (Steady) no edit is removed or unfit
\* (Valid), the queue leads from the document of the server to the one the user sees, in operations the
\* server takes, and each undo frame's queue to the document of the frame, whatever
\* other devices add.  And whatever happens (Surviving), files, threads and requests
\* hold nothing the user did not do, and the server keeps what it was given; so that,
\* unless the user goes on while a task is under way or undoes past a document that was
\* taken (Plain), each place an outbox or a document may be saved from has all that
\* lasts (EditsKept).
THEOREM Invariance == Spec => []IInv
<1>1. Init => IInv
  <2>1. Init => Valid /\ RejectedOnlyAfterMishap
    BY DEF Init, Valid, RejectedOnlyAfterMishap
  <2> QED
    BY <2>1, InitTyped, InitInOrder, InitInStep, InitSurviving DEF IInv, Fits
<1>2. IInv /\ [Next]_vars => IInv'
  BY StepTyped, StepInOrder, StepStores, StepIsValid, StepInStep, StepIsAccepted, SurvivingStays
     DEF IInv, Fits
<1> QED
  BY <1>1, <1>2, PTL DEF Spec

\* A device does not conflict with itself (DeviceSync!ConflictOnlyAfterMishap):
\* while no answer is lost, nothing restarts, the user waits for the task under way and
\* does not sign out, and nobody else writes, the project is never marked as in
\* conflict, whatever the user edits, undoes, syncs or asks the model for.
THEOREM NoConflictWithItself == Spec => []ConflictOnlyAfterMishap
<1>1. IInv => ConflictOnlyAfterMishap
  BY DEF IInv, InOrder, NoConflict, Calm, ConflictOnlyAfterMishap
<1> QED
  BY <1>1, Invariance, PTL

\* The server accepts what a device queues (DeviceSync!RejectedOnlyAfterMishap):
\* however the user edits, undoes, syncs, resolves conflicts and asks the model for
\* edits, and however other devices write meanwhile, the queue is not refused unless
\* an answer was lost, something restarted, the user went on while a task was under
\* way or undid what is older than a document taken from the server, others removed
\* something, the editor let through a value the server does not take, or more was
\* queued than a request may have: all as long as the user stays signed in.
THEOREM QueuesAreAccepted ==
    Spec => []("signedout" \notin seen => RejectedOnlyAfterMishap)
<1>1. IInv => ("signedout" \notin seen => RejectedOnlyAfterMishap)
  BY DEF IInv
<1> QED
  BY <1>1, Invariance, PTL

\* Undoing reaches the server (DeviceSync!UndoneIsRevoked): while nothing but other
\* devices gets in the way, and the user stays signed in, an edit that the server has
\* and the device no longer shows has its inverse queued.
THEOREM UndoneIsTakenBack == Spec => []("signedout" \notin seen => UndoneIsRevoked)
<1>1. ASSUME IInv, "signedout" \notin seen
      PROVE  UndoneIsRevoked
  <2> SUFFICES ASSUME seen \cap Mishaps \subseteq {"foreign"}, ui.pc = "idle",
                      NEW e \in (Edits \cap server.doc) \ disk.doc
               PROVE  Revert(e) \in ToSet(disk.outbox)
    BY <1>1 DEF UndoneIsRevoked
  <2>1. TypeOK /\ InStep
    BY <1>1 DEF IInv, Steady, Mishaps
  <2>2. server \in ServerRows /\ server.doc \in Docs /\ disk.outbox \in Seq(Ops)
        /\ <<>> \in Seq(Ops)
    BY <2>1, Types DEF ServerRows, Disks
  <2>3. Leads(server, seen, Standing, disk.doc) /\ server.head # 0
    BY <2>1 DEF InStep, QueueFits, Drawn
  <2>4. e \notin After(server.doc, Standing)
    BY <2>3 DEF Leads, Same
  <2>5. Standing \in Seq(Ops) /\ (Standing = disk.outbox \/ Standing = <<>>)
    BY <2>2 DEF Standing
  <2>6. Revert(e) \in ToSet(Standing)
    BY <2>2, <2>4, <2>5, TakenBack
  <2> QED
    BY <2>2, <2>5, <2>6, NothingQueued
<1>2. IInv => ("signedout" \notin seen => UndoneIsRevoked)
  BY <1>1
<1> QED
  BY <1>2, Invariance, PTL

\* A device at rest tells the truth (DeviceSync!SyncedShowsServer): without a mishap,
\* when nothing is queued or under way, it shows the document of the server, AI edits
\* included, and has stored its head.
THEOREM AtRestShowsServer == Spec => []SyncedShowsServer
<1>1. ASSUME IInv
      PROVE  SyncedShowsServer
  <2> SUFFICES ASSUME seen \cap Mishaps = {}, ~Busy, ui.pc = "idle", disk.outbox = <<>>,
                      disk.head # 0
               PROVE  disk.doc = Document(server) /\ disk.head = server.head
    BY DEF SyncedShowsServer
  <2>1. TypeOK /\ Valid /\ InStep /\ HeadIsStored
    BY <1>1 DEF IInv, Steady, Calm, Mishaps
  <2>2. io["io"].pc = "idle" /\ "foreign" \notin seen
    BY DEF Busy, Threads, Mishaps
  <2>3. disk.head = server.head
    BY <2>1, <2>2 DEF HeadIsStored
  <2>4. Leads(server, seen, <<>>, disk.doc)
    BY <2>1, <2>2 DEF InStep, QueueFits, Standing, Drawn
  <2>5. server \in ServerRows
    BY <2>1, Types
  <2>6. After(server.doc, <<>>) = disk.doc
    BY <2>2, <2>3, <2>4 DEF Leads, Same
  <2>7. Document(server) = server.doc
    BY <2>1 DEF Valid, Document
  <2> QED
    BY <2>3, <2>5, <2>6, <2>7, NothingQueued
<1> QED
  BY <1>1, Invariance, PTL

\* Files, tasks and requests keep their shape, whatever the edits and the mishaps
\* (DeviceSync!TypeOK).
THEOREM TypeCorrect == Spec => []TypeOK
<1>1. IInv => TypeOK
  BY DEF IInv
<1> QED
  BY <1>1, Invariance, PTL

\* No edit is lost (DeviceSync!UnsentIsQueued): as long as the user edits only while no
\* task is under way, what was done, never undone and is still shown is on the server
\* or queued: through a lost answer and the request that arrives late, a new start of
\* the process or of the activity, which leaves two threads at the same files, another
\* device, conflicts and their resolution, whichever of them come together, and how
\* often.
THEOREM EditsSurvive == Spec => []("overlap" \notin seen => UnsentIsQueued)
<1>1. ASSUME IInv, "overlap" \notin seen
      PROVE  UnsentIsQueued
  <2> SUFFICES ASSUME "past" \notin seen,
                      NEW e \in (made.calm \ made.undone) \cap disk.doc
               PROVE  e \in server.doc \/ Do(e) \in ToSet(disk.outbox)
    BY DEF UnsentIsQueued
  <2>1. OwnEdits /\ EditsKept
    BY <1>1 DEF IInv, Surviving, Plain
  <2>2. e \in Lasting(made) \cap disk.doc
    BY <2>1 DEF OwnEdits, Lasting
  <2> QED
    BY <2>1, <2>2 DEF EditsKept, Kept
<1>2. IInv => ("overlap" \notin seen => UnsentIsQueued)
  BY <1>1
<1> QED
  BY <1>2, Invariance, PTL
===============================================================================
