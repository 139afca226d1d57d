---------------------------- MODULE DocumentsProofs ----------------------------
(***************************************************************************)
(* What the checks and the commands of Documents are good for, whatever    *)
(* the document and the batch.                                             *)
(***************************************************************************)
EXTENDS Documents, NumberLemmas, FiniteSetTheorems

\* The walk from an entity to its parents, step by step.
LEMMA RootIs ==
  ASSUME NEW es, IsFiniteSet(DOMAIN es), NEW id
  PROVE  LET N == Cardinality(DOMAIN es) IN
         /\ N \in Nat
         /\ \E x : /\ x[0] = id
                   /\ \A n \in 1 .. N :
                        x[n] = IF x[n - 1] \in DOMAIN es THEN es[x[n - 1]].parent
                               ELSE x[n - 1]
                   /\ Root(es, id) = x[N]
<1> DEFINE N == Cardinality(DOMAIN es)
           T == {id} \cup DOMAIN es \cup {es[i].parent : i \in DOMAIN es}
           Above(i) == IF i \in DOMAIN es THEN es[i].parent ELSE i
           g == [n \in 1 .. N |-> [i \in T |-> Above(i)]]
<1>1. N \in Nat
  BY FS_CardinalityType
<1>2. g \in Steps(N, T) /\ id \in T
  BY DEF Steps
<1>3. PICK x \in [0 .. N -> T] : Follows(x, N, id, g)
  <2> HIDE DEF N, T, g
  <2> QED
    BY <1>1, <1>2, Recursion
<1>4. /\ x[0] = id
      /\ \A n \in 1 .. N : x[n] = Above(x[n - 1])
  <2>1. x[0] = id /\ \A n \in 1 .. N : x[n] = g[n][x[n - 1]]
    BY <1>3 DEF Follows
  <2>2. ASSUME NEW n \in 1 .. N
        PROVE  g[n][x[n - 1]] = Above(x[n - 1])
    <3>1. n - 1 \in 0 .. N
      BY <1>1
    <3> QED
      BY <3>1
  <2> QED
    BY <2>1, <2>2
<1> HIDE DEF N, T, g
<1> DEFINE Walks(up) == up = [n \in 0 .. N |-> IF n = 0 THEN {id}
                                ELSE {IF i \in DOMAIN es THEN es[i].parent ELSE i :
                                        i \in up[n - 1]}]
<1>5. Walks([n \in 0 .. N |-> {x[n]}])
  <2> DEFINE up == [n \in 0 .. N |-> {x[n]}]
  <2>1. ASSUME NEW n \in 0 .. N
        PROVE  up[n] = IF n = 0 THEN {id}
                       ELSE {IF i \in DOMAIN es THEN es[i].parent ELSE i : i \in up[n - 1]}
    <3>1. CASE n = 0
      BY <1>4, <3>1
    <3>2. CASE n # 0
      <4>1. n \in 1 .. N /\ n - 1 \in 0 .. N
        BY <1>1, <3>2
      <4>2. up[n - 1] = {x[n - 1]} /\ up[n] = {x[n]}
        BY <4>1
      <4> HIDE DEF up
      <4>3. {Above(i) : i \in up[n - 1]} = {Above(x[n - 1])}
        BY <4>2
      <4> QED
        BY <1>4, <3>2, <4>1, <4>2, <4>3
    <3> QED
      BY <3>1, <3>2
  <2> QED
    BY <2>1
<1> DEFINE up == CHOOSE up : Walks(up)
<1>6. Walks(up)
  BY <1>5
<1>7. Root(es, id) = CHOOSE i \in up[N] : TRUE
  BY DEF Root, N
<1> HIDE DEF up
<1>8. \A n \in 0 .. N : up[n] = {x[n]}
  <2> DEFINE S == {n \in 0 .. N : up[n] = {x[n]}}
  <2>1. up[0] = {id}
    BY <1>1, <1>6
  <2>2. 0 \in S
    BY <1>1, <1>4, <2>1
  <2>3. ASSUME NEW n \in 1 .. N, n - 1 \in S
        PROVE  n \in S
    <3>1. up[n - 1] = {x[n - 1]} /\ n # 0 /\ n \in 0 .. N
      BY <1>1, <2>3
    <3>2. up[n] = {Above(i) : i \in up[n - 1]}
      BY <1>6, <3>1
    <3>3. up[n] = {Above(x[n - 1])}
      BY <3>1, <3>2
    <3> QED
      BY <1>4, <3>1, <3>3
  <2> HIDE DEF S
  <2>4. \A n \in 0 .. N : n \in S
    BY <1>1, <2>2, <2>3, UpTo
  <2> QED
    BY <2>4 DEF S
<1>9. Root(es, id) = x[N]
  <2>1. up[N] = {x[N]}
    BY <1>1, <1>8
  <2> QED
    BY <1>7, <2>1
<1> QED
  BY <1>1, <1>4, <1>9 DEF N

\* The walk does not leave what is closed under parents...
LEMMA RootStays ==
  ASSUME NEW es, IsFiniteSet(DOMAIN es), NEW loop \in SUBSET DOMAIN es,
         \A i \in loop : es[i].parent \in loop, NEW id \in loop
  PROVE  Root(es, id) \in loop
<1> DEFINE N == Cardinality(DOMAIN es)
<1>1. N \in Nat
  BY RootIs
<1>2. PICK x : /\ x[0] = id
               /\ \A n \in 1 .. N :
                    x[n] = IF x[n - 1] \in DOMAIN es THEN es[x[n - 1]].parent ELSE x[n - 1]
               /\ Root(es, id) = x[N]
  BY RootIs
<1> DEFINE S == {n \in 0 .. N : x[n] \in loop}
<1>3. 0 \in S
  BY <1>1, <1>2
<1>4. ASSUME NEW n \in 1 .. N, n - 1 \in S
      PROVE  n \in S
  BY <1>1, <1>2, <1>4
<1> HIDE DEF S
<1>5. \A n \in 0 .. N : n \in S
  BY <1>1, <1>3, <1>4, UpTo
<1>6. N \in S
  BY <1>1, <1>5
<1> QED
  BY <1>2, <1>6 DEF S

\* ...and ends at a parent that is not there.
LEMMA RootLeaves ==
  ASSUME NEW es, IsFiniteSet(DOMAIN es), NEW id \in DOMAIN es,
         es[id].parent \notin DOMAIN es
  PROVE  Root(es, id) = es[id].parent
<1> DEFINE N == Cardinality(DOMAIN es)
<1>1. N \in Nat /\ N # 0
  BY FS_CardinalityType, FS_EmptySet
<1>2. PICK x : /\ x[0] = id
               /\ \A n \in 1 .. N :
                    x[n] = IF x[n - 1] \in DOMAIN es THEN es[x[n - 1]].parent ELSE x[n - 1]
               /\ Root(es, id) = x[N]
  BY RootIs
<1> DEFINE S == {n \in 0 .. N : n = 0 \/ x[n] = es[id].parent}
<1>3. 0 \in S
  BY <1>1
<1>4. ASSUME NEW n \in 1 .. N, n - 1 \in S
      PROVE  n \in S
  BY <1>1, <1>2, <1>4
<1> HIDE DEF S
<1>5. \A n \in 0 .. N : n \in S
  BY <1>1, <1>3, <1>4, UpTo
<1>6. N \in S
  BY <1>1, <1>5
<1> QED
  BY <1>1, <1>2, <1>6 DEF S

\* A document that passes the checks is one the runtime can load (ValidateDocument).
THEOREM ValidIsSound ==
  ASSUME NEW d, ValidDocument(d)
  PROVE  Sound(d)
<1>1. ASSUME NEW s \in DOMAIN d.scenes
      PROVE  LET es == d.scenes[s].entities
                 Named(t) == {es[id].parts[t] :
                                id \in {i \in DOMAIN es : t \in DOMAIN es[i].parts}}
             IN /\ {es[id].parent : id \in DOMAIN es} \subseteq DOMAIN es \cup {None}
                /\ ~\E loop \in (SUBSET DOMAIN es) \ {{}} :
                       \A id \in loop : es[id].parent \in loop
                /\ Named("Spawner") \subseteq DOMAIN es
                /\ Named("Goal") \cup {d.scenes[s].rules} \subseteq DOMAIN d.scenes \cup {None}
                /\ \A id \in DOMAIN es : "Transform" \in DOMAIN es[id].parts
  <2> DEFINE es == d.scenes[s].entities
             Named(t) == {es[id].parts[t] :
                            id \in {i \in DOMAIN es : t \in DOMAIN es[i].parts}}
  <2>1. /\ DOMAIN es \subseteq EntityIds
        /\ \A id \in DOMAIN es : "Transform" \in DOMAIN es[id].parts /\ Root(es, id) = None
    BY DEF ValidDocument, ValidEntities
  <2>2. IsFiniteSet(DOMAIN es) /\ None \notin DOMAIN es
    BY <2>1, FiniteAssumption, NamesAssumption, FS_Subset
  <2>3. \A id \in DOMAIN es : es[id].parent \in DOMAIN es \cup {None}
    BY <2>1, <2>2, RootLeaves
  <2>4. ASSUME NEW loop \in SUBSET DOMAIN es, loop # {},
               \A id \in loop : es[id].parent \in loop
        PROVE  FALSE
    <3>1. PICK id \in loop : TRUE
      BY <2>4
    <3>2. Root(es, id) \in loop
      BY <2>2, <2>4, RootStays
    <3> QED
      BY <2>1, <2>2, <3>1, <3>2
  <2>5. /\ d.scenes[s].rules \in DOMAIN d.scenes \cup {None}
        /\ \A id \in DOMAIN es :
             /\ "Goal" \in DOMAIN es[id].parts =>
                  es[id].parts["Goal"] \in DOMAIN d.scenes \cup {None}
             /\ "Spawner" \in DOMAIN es[id].parts => es[id].parts["Spawner"] \in DOMAIN es
    BY DEF ValidDocument, ValidReferences
  <2>6. Named("Spawner") \subseteq DOMAIN es /\ Named("Goal") \subseteq DOMAIN d.scenes \cup {None}
    BY <2>5
  <2>7. {es[id].parent : id \in DOMAIN es} \subseteq DOMAIN es \cup {None}
    BY <2>3
  <2>8. ~\E loop \in (SUBSET DOMAIN es) \ {{}} : \A id \in loop : es[id].parent \in loop
    <3> HIDE DEF es
    <3>1. ASSUME NEW loop \in (SUBSET DOMAIN es) \ {{}},
                 \A id \in loop : es[id].parent \in loop
          PROVE  FALSE
      BY <2>4, <3>1
    <3> QED
      BY <3>1
  <2>9. Named("Goal") \cup {d.scenes[s].rules} \subseteq DOMAIN d.scenes \cup {None}
    BY <2>5, <2>6
  <2> QED
    BY <2>1, <2>6, <2>7, <2>8, <2>9
<1>2. d.entry \in DOMAIN d.scenes
  BY DEF ValidDocument
<1> QED
  BY <1>1, <1>2 DEF Sound
-------------------------------------------------------------------------------
(* Commands make documents of documents.                                    *)

\* What a command on the entities of one scene leaves alone.
LEMMA WithEntitiesIs ==
  ASSUME NEW d, IsDocument(d), NEW s \in DOMAIN d.scenes, NEW es,
         NEW e \in WithEntities(d, s, es)
  PROVE  /\ ValidEntities(es)
         /\ DOMAIN e = DOMAIN d /\ e.entry = d.entry
         /\ DOMAIN e.scenes = DOMAIN d.scenes
         /\ \A x \in DOMAIN d.scenes \ {s} : e.scenes[x] = d.scenes[x]
         /\ DOMAIN e.scenes[s] = DOMAIN d.scenes[s]
         /\ e.scenes[s].rules = d.scenes[s].rules
         /\ e.scenes[s].entities = es
<1>1. e = [d EXCEPT !.scenes[s].entities = es] /\ ValidEntities(es)
  BY DEF WithEntities
<1>2. /\ DOMAIN d = {"entry", "scenes", "setting"}
      /\ DOMAIN d.scenes[s] = {"rules", "entities"}
  BY DEF IsDocument, IsScene
<1>3. e.scenes = [d.scenes EXCEPT ![s].entities = es] /\ e.entry = d.entry /\ DOMAIN e = DOMAIN d
  BY <1>1, <1>2
<1>4. /\ DOMAIN e.scenes = DOMAIN d.scenes
      /\ \A x \in DOMAIN d.scenes \ {s} : e.scenes[x] = d.scenes[x]
      /\ e.scenes[s] = [d.scenes[s] EXCEPT !.entities = es]
  BY <1>3
<1> QED
  BY <1>1, <1>2, <1>3, <1>4

LEMMA WithEntitiesTyped ==
  ASSUME NEW d, IsDocument(d), NEW s \in DOMAIN d.scenes, NEW es,
         \A id \in DOMAIN es : IsEntity(es[id]),
         NEW e \in WithEntities(d, s, es)
  PROVE  IsDocument(e)
<1>1. DOMAIN es \subseteq EntityIds
  BY WithEntitiesIs DEF ValidEntities
<1>2. IsScene(e.scenes[s])
  BY <1>1, WithEntitiesIs DEF IsScene, IsDocument
<1>3. \A x \in DOMAIN d.scenes \ {s} : IsScene(e.scenes[x])
  BY WithEntitiesIs DEF IsDocument
<1> QED
  BY <1>2, <1>3, WithEntitiesIs DEF IsDocument

\* The commands one by one.
LEMMA CreateSceneTyped ==
  ASSUME NEW d, IsDocument(d), NEW op, IsCommand(op), op.type = "CreateScene",
         NEW e \in CreateScene(d, op)
  PROVE  IsDocument(e)
<1>1. e = [d EXCEPT !.scenes = With(@, op.scene, op.value)]
  BY DEF CreateScene
<1>2. op.scene \in SceneIds /\ IsScene(op.value)
  BY DEF IsCommand
<1> DEFINE scenes == With(d.scenes, op.scene, op.value)
<1>3. /\ DOMAIN scenes = DOMAIN d.scenes \cup {op.scene}
      /\ \A s \in DOMAIN scenes : scenes[s] = op.value \/ (s \in DOMAIN d.scenes /\ scenes[s] = d.scenes[s])
  BY DEF With
<1>4. DOMAIN e = DOMAIN d /\ e.entry = d.entry /\ e.scenes = scenes
  BY <1>1 DEF IsDocument
<1> HIDE DEF scenes
<1> QED
  BY <1>2, <1>3, <1>4 DEF IsDocument

LEMMA SetSceneRulesTyped ==
  ASSUME NEW d, IsDocument(d), NEW op, IsCommand(op), op.type = "SetSceneRules",
         op.scene \in DOMAIN d.scenes, NEW e \in SetSceneRules(d, op)
  PROVE  IsDocument(e)
<1>1. e = [d EXCEPT !.scenes[op.scene].rules = op.value]
  BY DEF SetSceneRules
<1>2. op.value \in SceneIds \cup {None, Bad}
  BY DEF IsCommand
<1>3. /\ DOMAIN e = DOMAIN d /\ e.entry = d.entry
      /\ e.scenes = [d.scenes EXCEPT ![op.scene].rules = op.value]
  BY <1>1 DEF IsDocument
<1>4. /\ DOMAIN e.scenes = DOMAIN d.scenes
      /\ \A x \in DOMAIN d.scenes \ {op.scene} : e.scenes[x] = d.scenes[x]
      /\ e.scenes[op.scene] = [d.scenes[op.scene] EXCEPT !.rules = op.value]
  BY <1>3
<1>5. IsScene(e.scenes[op.scene])
  BY <1>2, <1>4 DEF IsDocument, IsScene
<1> QED
  BY <1>3, <1>4, <1>5 DEF IsDocument

LEMMA CreateEntityTyped ==
  ASSUME NEW d, IsDocument(d), NEW op, IsCommand(op), op.type = "CreateEntity",
         op.scene \in DOMAIN d.scenes, NEW e \in CreateEntity(d, op)
  PROVE  IsDocument(e)
<1> DEFINE es == d.scenes[op.scene].entities
           more == With(es, op.entity, op.value)
<1>1. e \in WithEntities(d, op.scene, more)
  BY DEF CreateEntity
<1>2. IsEntity(op.value) /\ \A id \in DOMAIN es : IsEntity(es[id])
  BY DEF IsCommand, IsDocument, IsScene
<1>3. \A id \in DOMAIN more : more[id] = op.value \/ (id \in DOMAIN es /\ more[id] = es[id])
  BY DEF With
<1>4. \A id \in DOMAIN more : IsEntity(more[id])
  BY <1>2, <1>3
<1> HIDE DEF more
<1> QED
  BY <1>1, <1>4, WithEntitiesTyped

LEMMA DeleteEntityTyped ==
  ASSUME NEW d, IsDocument(d), NEW op,
         op.scene \in DOMAIN d.scenes, NEW e \in DeleteEntity(d, op)
  PROVE  IsDocument(e)
<1> DEFINE es == d.scenes[op.scene].entities
           less == [id \in DOMAIN es \ {op.entity} |-> es[id]]
<1>1. e \in WithEntities(d, op.scene, less)
  BY DEF DeleteEntity
<1>2. \A id \in DOMAIN less : IsEntity(less[id])
  BY DEF IsDocument, IsScene
<1> HIDE DEF less
<1> QED
  BY <1>1, <1>2, WithEntitiesTyped

LEMMA SetComponentTyped ==
  ASSUME NEW d, IsDocument(d), NEW op, IsCommand(op), op.type = "SetComponent",
         op.scene \in DOMAIN d.scenes, NEW e \in SetComponent(d, op)
  PROVE  IsDocument(e)
<1> DEFINE es == d.scenes[op.scene].entities
           parts == With(es[op.entity].parts, op.part, op.value)
           more == [es EXCEPT ![op.entity].parts = parts]
<1>1. e \in WithEntities(d, op.scene, more) /\ op.entity \in DOMAIN es
  BY DEF SetComponent
<1>2. \A id \in DOMAIN es : IsEntity(es[id])
  BY DEF IsDocument, IsScene
<1>3. /\ DOMAIN parts = DOMAIN es[op.entity].parts \cup {op.part}
      /\ \A t \in DOMAIN parts :
           parts[t] = op.value \/ (t \in DOMAIN es[op.entity].parts /\ parts[t] = es[op.entity].parts[t])
  BY DEF With
<1>4. /\ op.part \in Drawing \cup Gameplay
      /\ op.value \in SceneIds \cup EntityIds \cup {None, Bad}
  BY DEF IsCommand
<1> HIDE DEF parts
<1>5. /\ DOMAIN more = DOMAIN es
      /\ more[op.entity] = [es[op.entity] EXCEPT !.parts = parts]
      /\ \A id \in DOMAIN es \ {op.entity} : more[id] = es[id]
  BY <1>1
<1> HIDE DEF more
<1>6. IsEntity(more[op.entity])
  <2>1. /\ DOMAIN more[op.entity] = {"parent", "parts"}
        /\ more[op.entity].parent = es[op.entity].parent
        /\ more[op.entity].parts = parts
    BY <1>1, <1>2, <1>5 DEF IsEntity
  <2>2. /\ es[op.entity].parent \in EntityIds \cup {None}
        /\ DOMAIN es[op.entity].parts \subseteq Drawing \cup Gameplay
        /\ \A t \in DOMAIN es[op.entity].parts :
             es[op.entity].parts[t] \in SceneIds \cup EntityIds \cup {None, Bad}
    BY <1>1, <1>2 DEF IsEntity
  <2>3. DOMAIN parts \subseteq Drawing \cup Gameplay
    BY <1>3, <1>4, <2>2
  <2>4. \A t \in DOMAIN parts : parts[t] \in SceneIds \cup EntityIds \cup {None, Bad}
    BY <1>3, <1>4, <2>2
  <2> QED
    BY <2>1, <2>2, <2>3, <2>4 DEF IsEntity
<1>7. \A id \in DOMAIN more : IsEntity(more[id])
  BY <1>2, <1>5, <1>6
<1> QED
  BY <1>1, <1>7, WithEntitiesTyped

\* A value out of range does not get past the checks, any other is not modelled.
LEMMA SetPropertyIs ==
  ASSUME NEW d, IsDocument(d), NEW op, op.scene \in DOMAIN d.scenes,
         NEW e \in SetProperty(d, op)
  PROVE  e \in WithEntities(d, op.scene, d.scenes[op.scene].entities)
<1> DEFINE es == d.scenes[op.scene].entities
           worse == [es EXCEPT ![op.entity].parts[op.part] = Bad]
<1>1. /\ op.entity \in DOMAIN es /\ op.part \in DOMAIN es[op.entity].parts
      /\ e \in WithEntities(d, op.scene, IF op.value = Bad THEN worse ELSE es)
  BY DEF SetProperty
<1>2. CASE op.value = Bad
  <2>1. e \in WithEntities(d, op.scene, worse)
    BY <1>1, <1>2
  <2>2. DOMAIN es[op.entity] = {"parent", "parts"}
    BY <1>1 DEF IsDocument, IsScene, IsEntity
  <2>3. /\ op.entity \in DOMAIN worse
        /\ worse[op.entity] = [es[op.entity] EXCEPT !.parts[op.part] = Bad]
    BY <1>1
  <2>4. /\ op.part \in DOMAIN worse[op.entity].parts
        /\ worse[op.entity].parts[op.part] = Bad
    BY <1>1, <2>2, <2>3
  <2> HIDE DEF worse
  <2>5. ~ValidComponent(op.part, Bad)
    BY NamesAssumption DEF ValidComponent, ValidGameplay
  <2>6. ~ValidEntities(worse)
    BY <2>3, <2>4, <2>5 DEF ValidEntities
  <2> QED
    BY <2>1, <2>6 DEF WithEntities
<1>3. CASE op.value # Bad
  BY <1>1, <1>3
<1> QED
  BY <1>2, <1>3

LEMMA SetProjectSettingTyped ==
  ASSUME NEW d, IsDocument(d), NEW op, NEW e \in SetProjectSetting(d, op)
  PROVE  IsDocument(e) /\ e.entry = d.entry /\ e.scenes = d.scenes
<1>1. e = [d EXCEPT !.setting = op.value]
  BY DEF SetProjectSetting
<1> QED
  BY <1>1 DEF IsDocument

LEMMA ApplyOneTyped ==
  ASSUME NEW d, IsDocument(d), NEW op, IsCommand(op), NEW e \in ApplyOne(d, op)
  PROVE  IsDocument(e)
<1>1. CASE op.type = "CreateScene"
  BY <1>1, CreateSceneTyped DEF ApplyOne
<1>2. CASE op.type = "SetProjectSetting"
  BY <1>2, SetProjectSettingTyped DEF ApplyOne
<1>3. CASE op.type \notin {"CreateScene", "SetProjectSetting"}
  <2>1. op.scene \in DOMAIN d.scenes
    BY <1>3 DEF ApplyOne
  <2>2. CASE op.type = "SetSceneRules"
    BY <2>1, <2>2, SetSceneRulesTyped DEF ApplyOne
  <2>3. CASE op.type = "CreateEntity"
    BY <2>1, <2>3, CreateEntityTyped DEF ApplyOne
  <2>4. CASE op.type = "DeleteEntity"
    BY <2>1, <2>4, DeleteEntityTyped DEF ApplyOne
  <2>5. CASE op.type = "SetComponent"
    BY <2>1, <2>5, SetComponentTyped DEF ApplyOne
  <2>6. CASE op.type = "SetProperty"
    <3>1. \A id \in DOMAIN d.scenes[op.scene].entities :
            IsEntity(d.scenes[op.scene].entities[id])
      BY <2>1 DEF IsDocument, IsScene
    <3>2. e \in WithEntities(d, op.scene, d.scenes[op.scene].entities)
      BY <2>1, <2>6, SetPropertyIs DEF ApplyOne
    <3> QED
      BY <2>1, <3>1, <3>2, WithEntitiesTyped
  <2>7. op.type \in {"SetSceneRules", "CreateEntity", "DeleteEntity", "SetComponent",
                     "SetProperty"}
    BY <1>3, <2>1 DEF ApplyOne
  <2> QED
    BY <2>2, <2>3, <2>4, <2>5, <2>6, <2>7
<1> QED
  BY <1>1, <1>2, <1>3

\* The documents a batch goes through.
LEMMA AfterIs ==
  ASSUME NEW d, NEW ops, Len(ops) \in Nat
  PROVE  \E after : /\ after[0] = {d}
                    /\ \A n \in 1 .. Len(ops) :
                         after[n] = UNION {ApplyOne(now, ops[n]) : now \in after[n - 1]}
                    /\ After(d, ops) = after[Len(ops)]
<1> DEFINE N == Len(ops)
           More(X, n) == UNION {ApplyOne(now, ops[n]) : now \in X}
           Goes(f, m) == f = [n \in 0 .. m |-> IF n = 0 THEN {d} ELSE More(f[n - 1], n)]
           S == {m \in 0 .. N : \E f : Goes(f, m)}
<1>1. 0 \in S
  <2> HIDE DEF More
  <2> DEFINE f == [n \in 0 .. 0 |-> {d}]
  <2>1. \A n \in 0 .. 0 : {d} = IF n = 0 THEN {d} ELSE More(f[n - 1], n)
    OBVIOUS
  <2>2. Goes(f, 0)
    BY <2>1, Zenon
  <2> HIDE DEF f
  <2> QED
    BY <2>2
<1>2. ASSUME NEW m \in 1 .. N, m - 1 \in S
      PROVE  m \in S
  <2> HIDE DEF More
  <2>1. PICK f : Goes(f, m - 1)
    BY <1>2
  <2> DEFINE h == [n \in 0 .. m |-> IF n = m THEN More(f[m - 1], m) ELSE f[n]]
  <2>2. ASSUME NEW n \in 0 .. m
        PROVE  h[n] = IF n = 0 THEN {d} ELSE More(h[n - 1], n)
    <3>1. CASE n = m
      BY <3>1
    <3>2. CASE n # m
      <4>1. n \in 0 .. m - 1 /\ h[n] = f[n]
        BY <3>2
      <4>2. n # 0 => h[n - 1] = f[n - 1]
        BY <3>2
      <4> HIDE DEF h
      <4> QED
        BY <2>1, <4>1, <4>2
    <3> QED
      BY <3>1, <3>2
  <2>3. Goes(h, m)
    BY <2>2
  <2> HIDE DEF h, Goes
  <2> QED
    BY <2>3
<1> HIDE DEF S
<1>3. N \in S
  <2>1. \A n \in 0 .. N : n \in S
    BY <1>1, <1>2, UpTo
  <2> QED
    BY <2>1
<1> DEFINE after == CHOOSE f : Goes(f, N)
<1>4. Goes(after, N)
  BY <1>3 DEF S
<1>5. After(d, ops) = after[N]
  BY DEF After
<1> HIDE DEF after, More
<1>6. \A n \in 0 .. N : after[n] = IF n = 0 THEN {d} ELSE More(after[n - 1], n)
  BY <1>4
<1>7. after[0] = {d} /\ \A n \in 1 .. N : after[n] = More(after[n - 1], n)
  BY <1>6
<1> QED
  BY <1>5, <1>7 DEF More

LEMMA AfterTyped ==
  ASSUME NEW d, IsDocument(d), NEW ops, Len(ops) \in Nat,
         \A i \in 1 .. Len(ops) : IsCommand(ops[i]), NEW e \in After(d, ops)
  PROVE  IsDocument(e)
<1> DEFINE N == Len(ops)
<1>1. PICK after : /\ after[0] = {d}
                   /\ \A n \in 1 .. N :
                        after[n] = UNION {ApplyOne(now, ops[n]) : now \in after[n - 1]}
                   /\ After(d, ops) = after[N]
  BY AfterIs
<1> DEFINE S == {n \in 0 .. N : \A now \in after[n] : IsDocument(now)}
<1>2. 0 \in S
  BY <1>1
<1>3. ASSUME NEW n \in 1 .. N, n - 1 \in S
      PROVE  n \in S
  BY <1>1, <1>3, ApplyOneTyped
<1> HIDE DEF S
<1>4. N \in S
  <2>1. \A n \in 0 .. N : n \in S
    BY <1>2, <1>3, UpTo
  <2> QED
    BY <2>1
<1> QED
  BY <1>1, <1>4 DEF S

\* What a batch of commands leaves is a document, and passes the checks.
THEOREM BatchesKeepDocuments ==
  ASSUME NEW d, IsDocument(d), NEW ops, Len(ops) \in Nat,
         \A i \in 1 .. Len(ops) : IsCommand(ops[i]), NEW e \in ApplyCommands(d, ops)
  PROVE  IsDocument(e) /\ ValidDocument(e)
  BY AfterTyped DEF ApplyCommands
===============================================================================
