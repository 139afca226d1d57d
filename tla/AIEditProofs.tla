----------------------------- MODULE AIEditProofs -----------------------------
(***************************************************************************)
(* The safety properties of AIEdit, for any number of handlers, whatever a *)
(* model proposes and whatever the others do to the document.              *)
(***************************************************************************)
EXTENDS AIEdit, DocumentsProofs

\* A command that stays in the entry scene and adds nothing but drawing to it.
OnlyScenery(entry, op) ==
    /\ op.type \in {"CreateEntity", "DeleteEntity", "SetComponent", "SetProperty",
                    "SetProjectSetting"}
    /\ op.type # "SetProjectSetting" => op.scene = entry
    /\ op.type = "CreateEntity" => DOMAIN op.value.parts \subseteq Drawing
    /\ op.type = "SetComponent" => op.part \in Drawing

Scenic(entry, ops) ==
    /\ Len(ops) \in Nat
    /\ \A i \in 1 .. Len(ops) : IsCommand(ops[i]) /\ OnlyScenery(entry, ops[i])

\* The game of a document is that of another one.
KeepsGame(d, e) ==
    /\ e.entry = d.entry
    /\ DOMAIN e.scenes = DOMAIN d.scenes
    /\ \A s \in DOMAIN d.scenes :
         /\ e.scenes[s].rules = d.scenes[s].rules
         /\ s # d.entry => e.scenes[s] = d.scenes[s]
    /\ \A id \in DOMAIN e.scenes[d.entry].entities :
         GameplayOf(e.scenes[d.entry].entities, id)
             \subseteq GameplayOf(d.scenes[d.entry].entities, id)
-------------------------------------------------------------------------------
(* What the sanitizer leaves is scenery.                                    *)

\* Sequences put one after the other.
LEMMA FlattenIs ==
  ASSUME NEW X, NEW ss \in Seq(Seq(X))
  PROVE  FlattenSeq(ss) \in Seq(X)
<1> DEFINE N == Len(ss)
           Goes(f, m) == f = [i \in 1 .. m |-> IF i = 1 THEN ss[i] ELSE f[i - 1] \o ss[i]]
           S == {m \in 0 .. N : \E f : Goes(f, m)}
<1>1. N \in Nat /\ \A i \in 1 .. N : ss[i] \in Seq(X)
  OBVIOUS
<1>2. 0 \in S
  <2> DEFINE f == [i \in 1 .. 0 |-> ss[i]]
  <2>1. \A i \in 1 .. 0 : ss[i] = IF i = 1 THEN ss[i] ELSE f[i - 1] \o ss[i]
    OBVIOUS
  <2>2. Goes(f, 0)
    BY <2>1, Zenon
  <2> HIDE DEF f, Goes
  <2> QED
    BY <1>1, <2>2
<1>3. ASSUME NEW m \in 1 .. N, m - 1 \in S
      PROVE  m \in S
  <2>1. PICK f : Goes(f, m - 1)
    BY <1>3
  <2> DEFINE h == [i \in 1 .. m |-> IF i < m THEN f[i]
                                    ELSE IF m = 1 THEN ss[1] ELSE f[m - 1] \o ss[m]]
  <2>2. ASSUME NEW i \in 1 .. m
        PROVE  h[i] = IF i = 1 THEN ss[i] ELSE h[i - 1] \o ss[i]
    <3>1. CASE i = m
      <4>1. m # 1 => h[m - 1] = f[m - 1]
        BY <1>1
      <4>2. h[m] = IF m = 1 THEN ss[1] ELSE f[m - 1] \o ss[m]
        BY <1>1
      <4> HIDE DEF h
      <4> QED
        BY <3>1, <4>1, <4>2
    <3>2. CASE i # m
      <4>1. i \in 1 .. m - 1 /\ h[i] = f[i]
        BY <1>1, <3>2
      <4>2. i # 1 => h[i - 1] = f[i - 1]
        BY <1>1, <3>2
      <4>3. f[i] = IF i = 1 THEN ss[i] ELSE f[i - 1] \o ss[i]
        BY <2>1, <4>1
      <4> HIDE DEF h
      <4> QED
        BY <4>1, <4>2, <4>3
    <3> QED
      BY <3>1, <3>2
  <2>3. Goes(h, m)
    BY <2>2
  <2> HIDE DEF h, Goes
  <2> QED
    BY <2>3
<1> HIDE DEF S
<1>4. N \in S
  <2>1. \A n \in 0 .. N : n \in S
    BY <1>1, <1>2, <1>3, UpTo
  <2> QED
    BY <1>1, <2>1
<1> DEFINE flatten == CHOOSE f : Goes(f, N)
<1>5. Goes(flatten, N)
  BY <1>4 DEF S
<1>6. N # 0 => FlattenSeq(ss) = flatten[N]
  BY DEF FlattenSeq
<1> HIDE DEF flatten
<1>7. \A i \in 1 .. N : flatten[i] = IF i = 1 THEN ss[i] ELSE flatten[i - 1] \o ss[i]
  BY <1>5
<1> DEFINE R == {n \in 0 .. N : n # 0 => flatten[n] \in Seq(X)}
<1>8. 0 \in R
  BY <1>1
<1>9. ASSUME NEW n \in 1 .. N, n - 1 \in R
      PROVE  n \in R
  <2>1. CASE n = 1
    BY <1>1, <1>7, <2>1
  <2>2. CASE n # 1
    <3>1. flatten[n - 1] \in Seq(X) /\ ss[n] \in Seq(X)
      BY <1>1, <1>9, <2>2
    <3>2. flatten[n] = flatten[n - 1] \o ss[n]
      BY <1>7, <2>2
    <3>3. flatten[n] \in Seq(X)
      BY <3>1, <3>2
    <3> QED
      BY <1>1, <3>3
  <2> QED
    BY <2>1, <2>2
<1> HIDE DEF R
<1>10. N \in R
  <2>1. \A n \in 0 .. N : n \in R
    BY <1>1, <1>8, <1>9, UpTo
  <2> QED
    BY <1>1, <2>1
<1>11. CASE N = 0
  <2>1. FlattenSeq(ss) = ss /\ ss = << >>
    BY <1>11 DEF FlattenSeq
  <2> QED
    BY <2>1
<1>12. CASE N # 0
  BY <1>6, <1>10, <1>12 DEF R
<1> QED
  BY <1>11, <1>12

\* New ids for new entities, and nothing else.
LEMMA NamedIs ==
  ASSUME NEW d, NEW ops, IsBatch(ops)
  PROVE  /\ Len(ops) \in Nat
         /\ Named(d, ops) \in Seq({Named(d, ops)[i] : i \in 1 .. Len(ops)})
         /\ Len(Named(d, ops)) = Len(ops)
         /\ \A i \in 1 .. Len(ops) :
              /\ IsCommand(Named(d, ops)[i])
              /\ \A entry : OnlyScenery(entry, ops[i]) => OnlyScenery(entry, Named(d, ops)[i])
<1> DEFINE missing == {i \in DOMAIN ops : ops[i].type = "CreateEntity" /\ ops[i].entity = None}
           fresh == FreshIds(d, ops, missing)
           named == Named(d, ops)
<1>1. Len(ops) \in Nat /\ DOMAIN ops = 1 .. Len(ops)
  BY DEF IsBatch
<1>2. named = [i \in 1 .. Len(ops) |->
                 IF i \in missing THEN [ops[i] EXCEPT !.entity = fresh[i]] ELSE ops[i]]
  BY <1>1 DEF Named
<1>3. ASSUME NEW i \in 1 .. Len(ops)
      PROVE  /\ DOMAIN named[i] = DOMAIN ops[i]
             /\ named[i].type = ops[i].type /\ named[i].scene = ops[i].scene
             /\ named[i].part = ops[i].part /\ named[i].value = ops[i].value
  <2> HIDE DEF missing, fresh
  <2>1. named[i] = IF i \in missing THEN [ops[i] EXCEPT !.entity = fresh[i]] ELSE ops[i]
    BY <1>2
  <2>2. DOMAIN ops[i] = {"type", "id", "scene", "entity", "part", "value"}
    BY <1>1 DEF IsBatch, IsCommand
  <2> HIDE DEF named
  <2> QED
    BY <2>1, <2>2
<1>4. named \in Seq({named[i] : i \in 1 .. Len(ops)}) /\ Len(named) = Len(ops)
  BY <1>1, <1>2
<1>5. \A i \in 1 .. Len(ops) : IsCommand(ops[i])
  BY <1>1 DEF IsBatch
<1> HIDE DEF named, missing, fresh
<1>6. \A i \in 1 .. Len(ops) : IsCommand(named[i])
  BY <1>3, <1>5 DEF IsCommand
<1>7. \A i \in 1 .. Len(ops) :
        \A entry : OnlyScenery(entry, ops[i]) => OnlyScenery(entry, named[i])
  BY <1>3 DEF OnlyScenery
<1> QED
  BY <1>1, <1>4, <1>6, <1>7 DEF named

LEMMA SanitizedEntityIs ==
  ASSUME NEW known, NEW e, IsEntity(e)
  PROVE  /\ IsEntity(SanitizedEntity(known, e))
         /\ DOMAIN SanitizedEntity(known, e).parts \subseteq Drawing
<1> DEFINE kept == DOMAIN e.parts \cap Drawing
           parts == [t \in kept \cup {"Transform"} |->
                       IF t \in kept THEN SanitizedComponent(e.parts[t]) ELSE None]
<1>1. SanitizedEntity(known, e) =
        [parent |-> IF e.parent \in known THEN e.parent ELSE None, parts |-> parts]
  BY DEF SanitizedEntity
<1>2. DOMAIN parts \subseteq Drawing
  BY DEF Drawing
<1>3. \A t \in DOMAIN parts : parts[t] \in {None, Bad}
  BY DEF SanitizedComponent
<1>4. e.parent \in EntityIds \cup {None}
  BY DEF IsEntity
<1> HIDE DEF parts
<1> QED
  BY <1>1, <1>2, <1>3, <1>4 DEF IsEntity

LEMMA SanitizedIs ==
  ASSUME NEW d, NEW known, NEW op, IsCommand(op)
  PROVE  \/ Sanitized(d, known, op) = << >>
         \/ \E x : /\ Sanitized(d, known, op) = <<x>>
                   /\ IsCommand(x) /\ OnlyScenery(d.entry, x)
<1> DEFINE here == [op EXCEPT !.scene = d.entry]
           scenery == [here EXCEPT !.value = SanitizedEntity(known, @)]
           component == [here EXCEPT !.value = SanitizedComponent(@)]
<1>1. DOMAIN op = {"type", "id", "scene", "entity", "part", "value"}
  BY DEF IsCommand
<1>2. /\ DOMAIN here = DOMAIN op /\ here.scene = d.entry
      /\ here.type = op.type /\ here.part = op.part /\ here.value = op.value
  BY <1>1
<1>3. /\ DOMAIN scenery = DOMAIN op /\ scenery.scene = d.entry
      /\ scenery.type = op.type /\ scenery.value = SanitizedEntity(known, op.value)
  <2> HIDE DEF here
  <2> QED
    BY <1>1, <1>2
<1>4. /\ DOMAIN component = DOMAIN op /\ component.scene = d.entry
      /\ component.type = op.type /\ component.part = op.part
      /\ component.value \in {None, Bad}
  <2> HIDE DEF here
  <2> QED
    BY <1>1, <1>2 DEF SanitizedComponent
<1>5. CASE op.type = "CreateEntity"
  <2>1. Sanitized(d, known, op) = <<scenery>>
    BY <1>5 DEF Sanitized
  <2>2. IsEntity(op.value)
    BY <1>5 DEF IsCommand
  <2> HIDE DEF scenery
  <2>3. IsCommand(scenery) /\ OnlyScenery(d.entry, scenery)
    BY <1>1, <1>3, <1>5, <2>2, SanitizedEntityIs DEF IsCommand, OnlyScenery
  <2> QED
    BY <2>1, <2>3
<1>6. CASE op.type = "DeleteEntity"
  <2>1. Sanitized(d, known, op) \in {<< >>, <<here>>}
    BY <1>6 DEF Sanitized
  <2> HIDE DEF here
  <2>2. IsCommand(here) /\ OnlyScenery(d.entry, here)
    BY <1>1, <1>2, <1>6 DEF IsCommand, OnlyScenery
  <2> QED
    BY <2>1, <2>2
<1>7. CASE op.type \in {"SetComponent", "SetProperty"}
  <2>1. \/ Sanitized(d, known, op) = << >>
        \/ Sanitized(d, known, op) = <<component>> /\ op.part \in Drawing
    BY <1>7 DEF Sanitized
  <2> HIDE DEF component
  <2>2. op.part \in Drawing => IsCommand(component) /\ OnlyScenery(d.entry, component)
    BY <1>1, <1>4, <1>7 DEF IsCommand, OnlyScenery
  <2> QED
    BY <2>1, <2>2
<1>8. CASE op.type = "SetProjectSetting"
  <2>1. Sanitized(d, known, op) = <<op>>
    BY <1>8 DEF Sanitized
  <2>2. OnlyScenery(d.entry, op)
    BY <1>8 DEF OnlyScenery
  <2> QED
    BY <2>1, <2>2
<1>9. CASE op.type \notin {"CreateEntity", "DeleteEntity", "SetComponent", "SetProperty",
                           "SetProjectSetting"}
  BY <1>9 DEF Sanitized
<1> QED
  BY <1>5, <1>6, <1>7, <1>8, <1>9

LEMMA SanitizeIs ==
  ASSUME NEW d, NEW ops, IsBatch(ops)
  PROVE  Scenic(d.entry, Sanitize(d, ops))
<1> DEFINE named == Named(d, ops)
           Known(i) == EntrySceneEntities(d) \cup
             {named[k].entity : k \in {j \in 1 .. i - 1 : named[j].type = "CreateEntity"}}
           ss == [i \in 1 .. Len(ops) |-> Sanitized(d, Known(i), named[i])]
           X == {ss[i][1] : i \in {k \in 1 .. Len(ops) : ss[k] # << >>}}
<1>1. Len(ops) \in Nat /\ DOMAIN ops = 1 .. Len(ops)
  BY DEF IsBatch
<1>2. Sanitize(d, ops) = FlattenSeq(ss)
  BY <1>1 DEF Sanitize
<1>3. \A i \in 1 .. Len(ops) : IsCommand(named[i])
  BY NamedIs
<1>4. ASSUME NEW i \in 1 .. Len(ops)
      PROVE  \/ ss[i] = << >>
             \/ /\ ss[i] = <<ss[i][1]>>
                /\ IsCommand(ss[i][1]) /\ OnlyScenery(d.entry, ss[i][1])
  <2> HIDE DEF Known, named
  <2>1. ss[i] = Sanitized(d, Known(i), named[i])
    OBVIOUS
  <2> HIDE DEF ss
  <2>2. ss[i] = << >> \/ \E x : ss[i] = <<x>> /\ IsCommand(x) /\ OnlyScenery(d.entry, x)
    BY <1>3, <2>1, SanitizedIs
  <2> QED
    BY <2>2
<1>5. DOMAIN ss = 1 .. Len(ops) /\ ss = [i \in 1 .. Len(ops) |-> ss[i]]
  OBVIOUS
<1> HIDE DEF ss
<1>6. \A i \in 1 .. Len(ops) : ss[i] \in Seq(X)
  <2>1. \A i \in 1 .. Len(ops) :
          ss[i] = << >> \/ (ss[i][1] \in X /\ \E x : x = ss[i][1] /\ ss[i] = <<x>>)
    BY <1>4
  <2> HIDE DEF X
  <2>2. << >> \in Seq(X) /\ \A x \in X : <<x>> \in Seq(X)
    OBVIOUS
  <2> QED
    BY <2>1, <2>2, Zenon
<1> HIDE DEF X
<1>7. ss \in Seq(Seq(X))
  BY <1>1, <1>5, <1>6
<1>8. Sanitize(d, ops) \in Seq(X)
  BY <1>2, <1>7, FlattenIs
<1>9. \A x \in X : IsCommand(x) /\ OnlyScenery(d.entry, x)
  BY <1>4 DEF X
<1> QED
  BY <1>8, <1>9 DEF Scenic

LEMMA FallbackIs ==
  ASSUME NEW d
  PROVE  Scenic(d.entry, FallbackOps(d))
<1> DEFINE e == [parent |-> None, parts |-> [t \in Drawing |-> None]]
           op == Command("CreateEntity", None, d.entry, None, None, e)
<1>1. IsEntity(e) /\ DOMAIN e.parts = Drawing
  BY DEF IsEntity
<1> HIDE DEF e
<1>2. IsCommand(op) /\ OnlyScenery(d.entry, op)
  BY <1>1 DEF IsCommand, OnlyScenery, Command
<1> HIDE DEF op
<1>3. /\ IsBatch(<<op>>) /\ Len(<<op>>) = 1
      /\ \A i \in 1 .. 1 : OnlyScenery(d.entry, <<op>>[i])
  BY <1>2 DEF IsBatch
<1>4. FallbackOps(d) = Named(d, <<op>>)
  BY DEF FallbackOps, op, e
<1>5. /\ Len(FallbackOps(d)) = 1
      /\ \A i \in 1 .. 1 :
           IsCommand(FallbackOps(d)[i]) /\ OnlyScenery(d.entry, FallbackOps(d)[i])
  BY <1>3, <1>4, NamedIs
<1> QED
  BY <1>5 DEF Scenic
-------------------------------------------------------------------------------
(* Scenery keeps the game.                                                  *)

LEMMA SameGame ==
  ASSUME NEW d
  PROVE  KeepsGame(d, d)
  BY DEF KeepsGame

\* The game of a document stays when that of the entities of its entry scene does.
LEMMA EntitiesKeepGame ==
  ASSUME NEW d, NEW e, IsDocument(e), KeepsGame(d, e), e.entry \in DOMAIN e.scenes,
         NEW es, NEW f \in WithEntities(e, e.entry, es),
         \A id \in DOMAIN es :
             GameplayOf(es, id) \subseteq GameplayOf(e.scenes[e.entry].entities, id)
  PROVE  KeepsGame(d, f)
<1>1. /\ f.entry = e.entry
      /\ DOMAIN f.scenes = DOMAIN e.scenes
      /\ \A x \in DOMAIN e.scenes \ {e.entry} : f.scenes[x] = e.scenes[x]
      /\ f.scenes[e.entry].rules = e.scenes[e.entry].rules
      /\ f.scenes[e.entry].entities = es
  BY WithEntitiesIs
<1>2. /\ e.entry = d.entry /\ DOMAIN e.scenes = DOMAIN d.scenes
      /\ \A s \in DOMAIN d.scenes :
           /\ e.scenes[s].rules = d.scenes[s].rules
           /\ s # d.entry => e.scenes[s] = d.scenes[s]
      /\ \A id \in DOMAIN e.scenes[d.entry].entities :
           GameplayOf(e.scenes[d.entry].entities, id)
               \subseteq GameplayOf(d.scenes[d.entry].entities, id)
  BY DEF KeepsGame
<1>3. \A id : id \notin DOMAIN e.scenes[d.entry].entities =>
                GameplayOf(e.scenes[d.entry].entities, id) = {}
  BY DEF GameplayOf
<1>4. \A id \in DOMAIN es :
        GameplayOf(es, id) \subseteq GameplayOf(d.scenes[d.entry].entities, id)
  BY <1>2, <1>3
<1>5. \A s \in DOMAIN d.scenes :
        /\ f.scenes[s].rules = d.scenes[s].rules
        /\ s # d.entry => f.scenes[s] = d.scenes[s]
  BY <1>1, <1>2
<1> QED
  BY <1>1, <1>2, <1>4, <1>5 DEF KeepsGame

LEMMA ApplyOneKeepsGame ==
  ASSUME NEW d, NEW e, IsDocument(e), KeepsGame(d, e), e.entry \in DOMAIN e.scenes,
         NEW op, OnlyScenery(e.entry, op), NEW f \in ApplyOne(e, op)
  PROVE  KeepsGame(d, f)
<1> DEFINE es == e.scenes[e.entry].entities
<1>1. CASE op.type = "SetProjectSetting"
  <2>1. f.entry = e.entry /\ f.scenes = e.scenes
    BY <1>1, SetProjectSettingTyped DEF ApplyOne
  <2> QED
    BY <2>1 DEF KeepsGame
<1>2. CASE op.type = "CreateEntity"
  <2> DEFINE more == With(es, op.entity, op.value)
  <2>1. f \in WithEntities(e, e.entry, more)
    BY <1>2 DEF ApplyOne, CreateEntity, OnlyScenery
  <2>2. /\ DOMAIN more = DOMAIN es \cup {op.entity}
        /\ \A id \in DOMAIN more :
             more[id] = IF id = op.entity THEN op.value ELSE es[id]
    BY DEF With
  <2> HIDE DEF more
  <2>3. DOMAIN op.value.parts \cap Gameplay = {}
    BY <1>2 DEF OnlyScenery, Drawing, Gameplay
  <2>4. \A id \in DOMAIN more : GameplayOf(more, id) \subseteq GameplayOf(es, id)
    <3> SUFFICES ASSUME NEW id \in DOMAIN more
                 PROVE  GameplayOf(more, id) \subseteq GameplayOf(es, id)
      OBVIOUS
    <3>1. CASE id = op.entity
      BY <2>2, <2>3, <3>1 DEF GameplayOf
    <3>2. CASE id # op.entity
      BY <2>2, <3>2 DEF GameplayOf
    <3> QED
      BY <3>1, <3>2
  <2> QED
    BY <2>1, <2>4, EntitiesKeepGame
<1>3. CASE op.type = "DeleteEntity"
  <2> DEFINE less == [id \in DOMAIN es \ {op.entity} |-> es[id]]
  <2>1. f \in WithEntities(e, e.entry, less)
    BY <1>3 DEF ApplyOne, DeleteEntity, OnlyScenery
  <2>2. \A id \in DOMAIN less : GameplayOf(less, id) \subseteq GameplayOf(es, id)
    BY DEF GameplayOf
  <2> HIDE DEF less
  <2> QED
    BY <2>1, <2>2, EntitiesKeepGame
<1>4. CASE op.type = "SetComponent"
  <2> DEFINE parts == With(es[op.entity].parts, op.part, op.value)
             more == [es EXCEPT ![op.entity].parts = parts]
  <2>1. f \in WithEntities(e, e.entry, more) /\ op.entity \in DOMAIN es
    BY <1>4 DEF ApplyOne, SetComponent, OnlyScenery
  <2>2. /\ DOMAIN parts = DOMAIN es[op.entity].parts \cup {op.part}
        /\ \A t \in DOMAIN parts \ {op.part} : parts[t] = es[op.entity].parts[t]
    BY DEF With
  <2>3. op.part \notin Gameplay
    BY <1>4 DEF OnlyScenery, Drawing, Gameplay
  <2>4. "parts" \in DOMAIN es[op.entity]
    BY <2>1 DEF IsDocument, IsScene, IsEntity
  <2> HIDE DEF parts
  <2>5. /\ DOMAIN more = DOMAIN es
        /\ more[op.entity].parts = parts
        /\ \A id \in DOMAIN es \ {op.entity} : more[id] = es[id]
    BY <2>1, <2>4
  <2> HIDE DEF more
  <2>6. \A id \in DOMAIN more : GameplayOf(more, id) \subseteq GameplayOf(es, id)
    <3> SUFFICES ASSUME NEW id \in DOMAIN more
                 PROVE  GameplayOf(more, id) \subseteq GameplayOf(es, id)
      OBVIOUS
    <3>1. CASE id = op.entity
      BY <2>1, <2>2, <2>3, <2>5, <3>1 DEF GameplayOf
    <3>2. CASE id # op.entity
      BY <2>5, <3>2 DEF GameplayOf
    <3> QED
      BY <3>1, <3>2
  <2> QED
    BY <2>1, <2>6, EntitiesKeepGame
<1>5. CASE op.type = "SetProperty"
  <2>1. f \in WithEntities(e, e.entry, es)
    BY <1>5, SetPropertyIs DEF ApplyOne, OnlyScenery
  <2> QED
    BY <2>1, EntitiesKeepGame
<1> QED
  BY <1>1, <1>2, <1>3, <1>4, <1>5 DEF OnlyScenery

LEMMA SceneryKeepsGame ==
  ASSUME NEW d, IsDocument(d), NEW ops, Scenic(d.entry, ops), NEW e \in ApplyCommands(d, ops)
  PROVE  KeepsGame(d, e)
<1> DEFINE N == Len(ops)
<1>1. N \in Nat /\ \A i \in 1 .. N : IsCommand(ops[i]) /\ OnlyScenery(d.entry, ops[i])
  BY DEF Scenic
<1>2. PICK after : /\ after[0] = {d}
                   /\ \A n \in 1 .. N :
                        after[n] = UNION {ApplyOne(now, ops[n]) : now \in after[n - 1]}
                   /\ After(d, ops) = after[N]
  BY <1>1, AfterIs
<1>3. d.entry \in DOMAIN d.scenes /\ e \in after[N]
  BY <1>2 DEF ApplyCommands, ValidDocument
<1> DEFINE S == {n \in 0 .. N : \A now \in after[n] : IsDocument(now) /\ KeepsGame(d, now)}
<1>4. 0 \in S
  BY <1>1, <1>2, SameGame
<1>5. ASSUME NEW n \in 1 .. N, n - 1 \in S
      PROVE  n \in S
  <2>1. ASSUME NEW f \in after[n]
        PROVE  IsDocument(f) /\ KeepsGame(d, f)
    <3>1. PICK now \in after[n - 1] : f \in ApplyOne(now, ops[n])
      BY <1>2, <2>1
    <3>2. IsDocument(now) /\ KeepsGame(d, now)
      BY <1>5
    <3>3. now.entry = d.entry /\ now.entry \in DOMAIN now.scenes
      BY <1>3, <3>2 DEF KeepsGame
    <3>4. IsDocument(f)
      BY <1>1, <3>1, <3>2, ApplyOneTyped
    <3>5. KeepsGame(d, f)
      BY <1>1, <3>1, <3>2, <3>3, ApplyOneKeepsGame
    <3> QED
      BY <3>4, <3>5
  <2> QED
    BY <1>1, <2>1
<1> HIDE DEF S
<1>6. N \in S
  <2>1. \A n \in 0 .. N : n \in S
    BY <1>1, <1>4, <1>5, UpTo
  <2> QED
    BY <1>1, <2>1
<1> QED
  BY <1>3, <1>6 DEF S
-------------------------------------------------------------------------------
(* The inductive invariant.                                                 *)

\* A handler whose request has a row.
Working(h) == h.pc \in {"generate", "apply", "finish"}

\* What a handler holds.
Held(h) ==
    /\ DOMAIN h = DOMAIN Idle
    /\ h.pc \in PCs /\ h.verdict \in Ends
    /\ h.base \in Nat /\ h.key \in Nat /\ h.row \in Nat /\ h.over \in BOOLEAN
    /\ h.pc # "finish" => h.verdict = "failed"

\* It has seen the document of its base revision; what it is about to apply was tried
\* on that and is scenery.
Sees(h, d, n) ==
    /\ h.pc # "idle" =>
         /\ IsDocument(h.shown)
         /\ h.base <= n
         /\ h.base = n => h.shown = d
    /\ h.pc = "apply" => Usable(h.shown, h.ops) /\ Scenic(h.shown.entry, h.ops)

\* Its question: the fallback model is asked as such, and no failure is final before.
Asks(h, q, p) ==
    /\ q \in Chats
    /\ h.pc # "generate" => q = Quiet
    /\ q.at \in {"codex_stream", "codex_plain"} => q.seconded
    /\ p = "kie" => q.at # "openai"
    /\ q.at = "failed" /\ p = "kie" /\ ~q.late /\ ~h.over => q.seconded

\* Its row is open, and the verdict it is about to get is what happened.
Carries(h, rs, filed) ==
    /\ Working(h) =>
         /\ h.row \in DOMAIN rs
         /\ rs[h.row].status = "generating"
         /\ rs[h.row].over = h.over
         /\ rs[h.row].key = h.key /\ rs[h.row].base = h.base
         /\ rs[h.row].wrote /\ ~h.over => h.pc = "finish" /\ h.verdict = "applied"
         /\ h.verdict = "applied" => [key |-> h.key, base |-> h.base] \in filed
    /\ ~Working(h) => h.row = 0 /\ h.over = FALSE

HandlerFits(c) ==
    /\ Held(at[c])
    /\ Sees(at[c], doc, head)
    /\ Asks(at[c], chat[c], provider)
    /\ Carries(at[c], rows, ledger)

\* Nobody shares a row.
RowsApart ==
    \A c, d \in Callers : c # d /\ Working(at[c]) => at[c].row # at[d].row

\* A row nobody carries any longer tells what happened.
Tells(row) ==
    ~row.over => row.status # "generating" /\ (row.wrote => row.status = "applied")

Answered(row, filed) ==
    row.status = "applied" => [key |-> row.key, base |-> row.base] \in filed

StoreFits ==
    /\ provider \in {"kie", "openai"}
    /\ IsDocument(doc) /\ ValidDocument(doc) /\ head \in Nat \ {0}
    /\ ledger \subseteq [key : Nat, base : Nat]
    /\ rows \in Seq(Rows)

RowsFit ==
    \A i \in DOMAIN rows :
        /\ Tells(rows[i]) \/ \E c \in Callers : at[c].row = i
        /\ Answered(rows[i], ledger)

IInv ==
    /\ StoreFits
    /\ DOMAIN at = Callers
    /\ DOMAIN chat = Callers /\ chat = [c \in Callers |-> chat[c]]
    /\ \A c \in Callers : HandlerFits(c)
    /\ RowsApart /\ RowsFit
-------------------------------------------------------------------------------
(* What the turn of one handler may do.                                     *)

HandlerTurn(c) ==
    /\ provider' = provider
    /\ DOMAIN at' = Callers
    /\ DOMAIN chat' = Callers /\ chat' = [d \in Callers |-> chat'[d]]
    /\ \A d \in Callers \ {c} : at'[d] = at[d] /\ chat'[d] = chat[d]
    /\ Held(at'[c])
    /\ Sees(at'[c], doc', head')
    /\ Asks(at'[c], chat'[c], provider)
    /\ Carries(at'[c], rows', ledger')

\* A revision follows the one before.
Revises ==
    \/ doc' = doc /\ head' = head
    \/ IsDocument(doc') /\ ValidDocument(doc') /\ head' = head + 1

RowTurn(c) ==
    /\ rows' \in Seq(Rows)
    /\ ledger \subseteq ledger' /\ ledger' \subseteq [key : Nat, base : Nat]
    /\ \A i \in DOMAIN rows : i \in DOMAIN rows' /\ (i # at[c].row => rows'[i] = rows[i])
    /\ \A i \in DOMAIN rows' : i \in DOMAIN rows \/ i = at'[c].row
    /\ at'[c].row \in {0, at[c].row} \/ at'[c].row \notin DOMAIN rows
    /\ \A i \in {at[c].row, at'[c].row} \cap DOMAIN rows' :
         /\ Tells(rows'[i]) \/ at'[c].row = i
         /\ Answered(rows'[i], ledger')

Turn(c) == HandlerTurn(c) /\ Revises /\ RowTurn(c)

\* Nobody else sees a difference.
LEMMA OthersSee ==
  ASSUME NEW h, NEW d, NEW e, NEW n \in Nat, NEW m, Held(h), Sees(h, d, n),
         (e = d /\ m = n) \/ m = n + 1
  PROVE  Sees(h, e, m)
  BY DEF Held, Sees

LEMMA OthersCarry ==
  ASSUME NEW h, NEW rs, NEW filed, NEW ss, NEW more, Carries(h, rs, filed),
         h.row \in DOMAIN rs => h.row \in DOMAIN ss /\ ss[h.row] = rs[h.row],
         filed \subseteq more
  PROVE  Carries(h, ss, more)
  BY DEF Carries

LEMMA TurnKeeps ==
  ASSUME IInv, NEW c \in Callers, Turn(c)
  PROVE  IInv'
<1>1. StoreFits'
  BY DEF IInv, StoreFits, Turn, HandlerTurn, Revises, RowTurn
<1>2. HandlerFits(c)'
  BY DEF HandlerFits, Turn, HandlerTurn
<1>3. ASSUME NEW d \in Callers \ {c}
      PROVE  HandlerFits(d)'
  <2>1. at'[d] = at[d] /\ chat'[d] = chat[d] /\ provider' = provider
    BY DEF Turn, HandlerTurn
  <2>2. /\ Held(at[d]) /\ Sees(at[d], doc, head) /\ Asks(at[d], chat[d], provider)
        /\ Carries(at[d], rows, ledger)
    BY DEF IInv, HandlerFits
  <2>3. Sees(at[d], doc', head')
    <3>1. head \in Nat /\ ((doc' = doc /\ head' = head) \/ head' = head + 1)
      BY DEF IInv, StoreFits, Turn, Revises
    <3> QED
      BY <2>2, <3>1, OthersSee
  <2>4. at[d].row \in DOMAIN rows => at[d].row # at[c].row
    <3>1. 0 \notin DOMAIN rows
      BY DEF IInv, StoreFits
    <3> QED
      BY <2>2, <3>1 DEF IInv, RowsApart, Carries
  <2>5. at[d].row \in DOMAIN rows => at[d].row \in DOMAIN rows' /\ rows'[at[d].row] = rows[at[d].row]
    BY <2>4 DEF Turn, RowTurn
  <2>6. Carries(at[d], rows', ledger')
    BY <2>2, <2>5, OthersCarry DEF Turn, RowTurn
  <2> QED
    BY <2>1, <2>2, <2>3, <2>6 DEF HandlerFits
<1>4. RowsApart'
  <2> SUFFICES ASSUME NEW d \in Callers, NEW e \in Callers, d # e, Working(at'[d])
               PROVE  at'[d].row # at'[e].row
    BY DEF RowsApart, Working
  <2>1. /\ \A x \in Callers \ {c} : at'[x] = at[x]
        /\ at'[c].row \in {0, at[c].row} \/ at'[c].row \notin DOMAIN rows
        /\ Carries(at'[c], rows', ledger')
    BY DEF Turn, HandlerTurn, RowTurn
  <2>2. \A x \in Callers : Carries(at[x], rows, ledger)
    BY DEF IInv, HandlerFits
  <2>3. 0 \notin DOMAIN rows /\ 0 \notin DOMAIN rows'
    BY <1>1 DEF IInv, StoreFits
  <2>4. CASE d # c /\ e # c
    BY <2>1, <2>4 DEF IInv, RowsApart
  <2>5. CASE d = c
    <3>1. at'[c].row # 0 /\ at'[e] = at[e]
      BY <2>1, <2>3, <2>5 DEF Carries
    <3>2. at[e].row \in DOMAIN rows \cup {0}
      BY <2>2 DEF Carries
    <3>3. at[e].row = at[c].row => at[c].row = 0
      BY <2>2, <2>5 DEF IInv, RowsApart, Carries
    <3> QED
      BY <2>1, <2>5, <3>1, <3>2, <3>3
  <2>6. CASE e = c
    <3>1. at'[d] = at[d] /\ Working(at[d])
      BY <2>1, <2>6
    <3>2. at[d].row \in DOMAIN rows /\ at[d].row # at[c].row
      BY <2>2, <2>6, <3>1 DEF IInv, RowsApart, Carries
    <3> QED
      BY <2>1, <2>3, <2>6, <3>1, <3>2
  <2> QED
    BY <2>4, <2>5, <2>6
<1>5. RowsFit'
  <2> SUFFICES ASSUME NEW i \in DOMAIN rows'
               PROVE  /\ Tells(rows'[i]) \/ \E d \in Callers : at'[d].row = i
                      /\ Answered(rows'[i], ledger')
    BY DEF RowsFit, Tells, Answered
  <2>1. CASE i \in {at[c].row, at'[c].row}
    BY <2>1 DEF Turn, RowTurn
  <2>2. CASE i \notin {at[c].row, at'[c].row}
    <3>1. i \in DOMAIN rows /\ rows'[i] = rows[i]
      BY <2>2 DEF Turn, RowTurn
    <3>2. /\ Tells(rows[i]) \/ \E d \in Callers : at[d].row = i
          /\ Answered(rows[i], ledger)
      BY <3>1 DEF IInv, RowsFit
    <3>3. Answered(rows'[i], ledger')
      BY <3>1, <3>2 DEF Answered, Turn, RowTurn
    <3>4. \A d \in Callers : at[d].row = i => at'[d].row = i
      BY <2>2 DEF Turn, HandlerTurn
    <3> QED
      BY <3>1, <3>2, <3>3, <3>4
  <2> QED
    BY <2>1, <2>2
<1> QED
  BY <1>1, <1>2, <1>3, <1>4, <1>5 DEF IInv, Turn, HandlerTurn
-------------------------------------------------------------------------------
(* The turns.                                                               *)

\* What a turn starts from.
LEMMA TurnFrom ==
  ASSUME IInv, NEW c \in Callers
  PROVE  /\ DOMAIN at = Callers
         /\ DOMAIN chat = Callers /\ chat = [d \in Callers |-> chat[d]]
         /\ Held(at[c]) /\ Sees(at[c], doc, head)
         /\ Asks(at[c], chat[c], provider) /\ Carries(at[c], rows, ledger)
         /\ provider \in {"kie", "openai"} /\ head \in Nat \ {0}
         /\ IsDocument(doc) /\ ValidDocument(doc)
         /\ rows \in Seq(Rows) /\ Len(rows) \in Nat /\ DOMAIN rows = 1 .. Len(rows)
         /\ ledger \subseteq [key : Nat, base : Nat]
  BY DEF IInv, HandlerFits, StoreFits

\* One handler's locals, and one question.
LEMMA AtIs ==
  ASSUME IInv, NEW c \in Callers, NEW h, at' = [at EXCEPT ![c] = h]
  PROVE  /\ DOMAIN at' = Callers /\ at'[c] = h
         /\ \A d \in Callers \ {c} : at'[d] = at[d]
  BY TurnFrom

LEMMA ChatIs ==
  ASSUME IInv, NEW c \in Callers, NEW q, chat' = [chat EXCEPT ![c] = q]
  PROVE  /\ DOMAIN chat' = Callers /\ chat' = [d \in Callers |-> chat'[d]]
         /\ chat'[c] = q
         /\ \A d \in Callers \ {c} : chat'[d] = chat[d]
  BY TurnFrom

\* The handler goes on with what it holds.
GoesOn(h, g, pc) ==
    /\ DOMAIN h = DOMAIN Idle /\ h.pc = pc
    /\ h.base = g.base /\ h.key = g.key /\ h.shown = g.shown /\ h.row = g.row
    /\ h.over = g.over

LEMMA GoIs ==
  ASSUME IInv, NEW c \in Callers, NEW pc, Go(c, pc)
  PROVE  /\ GoesOn(at'[c], at[c], pc) /\ at'[c].verdict = at[c].verdict
         /\ DOMAIN at' = Callers /\ \A d \in Callers \ {c} : at'[d] = at[d]
<1> DEFINE h == [at[c] EXCEPT !.pc = pc]
<1>1. GoesOn(h, at[c], pc) /\ h.verdict = at[c].verdict
  BY TurnFrom DEF Held, GoesOn, Idle
<1>2. at' = [at EXCEPT ![c] = h]
  BY DEF Go
<1> HIDE DEF h
<1> QED
  BY <1>1, <1>2, AtIs

LEMMA IdleIs ==
  /\ Idle.pc = "idle" /\ Idle.row = 0 /\ Idle.key = 0 /\ ~Idle.over
  /\ Idle.verdict = "failed"
  /\ Held(Idle)
  /\ \A d, n : Sees(Idle, d, n)
  /\ \A rs, filed : Carries(Idle, rs, filed)
  BY DEF Idle, Held, Sees, Carries, Working, PCs, Ends

LEMMA QuietAsks ==
  ASSUME NEW h, NEW p
  PROVE  Asks(h, Quiet, p)
<1>1. Quiet \in Chats /\ Quiet.at = "quiet"
  BY AttemptsAssumption DEF Quiet, Chats
<1> QED
  BY <1>1 DEF Asks

LEMMA AskedAsks ==
  ASSUME NEW h, h.pc = "generate", provider \in {"kie", "openai"}
  PROVE  Asks(h, Asked, provider)
<1> DEFINE first == IF provider = "kie" THEN "claude_stream" ELSE "openai"
<1>1. /\ first \in {"claude_stream", "openai"}
      /\ provider = "kie" => first = "claude_stream"
  OBVIOUS
<1> HIDE DEF first
<1>2. Asked = [at |-> first, attempt |-> 1, late |-> FALSE, seconded |-> FALSE]
  <2>1. Asked = [Quiet EXCEPT !.at = first]
    BY DEF Asked, first
  <2> QED
    BY <2>1 DEF Quiet
<1>3. Asked \in Chats /\ Asked.at = first
  BY <1>1, <1>2, AttemptsAssumption DEF Chats, Underway, Streams
<1> QED
  BY <1>1, <1>3 DEF Asks

\* The turn of a handler that leaves the rows alone.
LEMMA RowsRest ==
  ASSUME IInv, NEW c \in Callers, UNCHANGED <<rows, ledger>>, at'[c].row = at[c].row
  PROVE  RowTurn(c)
  BY TurnFrom DEF RowTurn, IInv, RowsFit

\* The turn of a handler that goes on, or answers, before its request has a row.
LEMMA AnswerTurn ==
  ASSUME IInv, NEW c \in Callers, at[c].pc \in Before, Answer(c),
         UNCHANGED <<provider, chat, store, rows>>
  PROVE  Turn(c)
<1>1. /\ DOMAIN at' = Callers /\ at'[c] = Idle
      /\ \A d \in Callers \ {c} : at'[d] = at[d]
  BY AtIs DEF Answer
<1>2. chat[c] = Quiet /\ at[c].row = 0
  BY TurnFrom DEF Before, Asks, Carries, Working
<1>3. HandlerTurn(c)
  BY <1>1, <1>2, TurnFrom, IdleIs, QuietAsks DEF HandlerTurn
<1>4. RowTurn(c)
  BY <1>1, <1>2, IdleIs, RowsRest DEF store
<1> QED
  BY <1>3, <1>4 DEF Turn, Revises, store

LEMMA GoTurn ==
  ASSUME IInv, NEW c \in Callers, at[c].pc \in Before, NEW pc \in {"quota", "insert"},
         Go(c, pc), UNCHANGED <<provider, chat, store, rows>>
  PROVE  Turn(c)
<1>1. /\ GoesOn(at'[c], at[c], pc) /\ at'[c].verdict = at[c].verdict
      /\ DOMAIN at' = Callers /\ \A d \in Callers \ {c} : at'[d] = at[d]
  BY GoIs
<1>2. at[c].row = 0 /\ at[c].over = FALSE /\ chat[c] = Quiet /\ at[c].pc \notin {"idle", "finish", "apply"}
  BY TurnFrom DEF Before, Asks, Carries, Working
<1>3. Held(at'[c])
  BY <1>1, <1>2, TurnFrom DEF Held, GoesOn, PCs, Before
<1>4. Sees(at'[c], doc', head') /\ Carries(at'[c], rows', ledger')
  BY <1>1, <1>2, TurnFrom DEF Sees, Carries, Working, GoesOn, store
<1>5. HandlerTurn(c)
  BY <1>1, <1>2, <1>3, <1>4, TurnFrom, QuietAsks DEF HandlerTurn
<1>6. RowTurn(c)
  BY <1>1, RowsRest DEF GoesOn, store
<1> QED
  BY <1>5, <1>6 DEF Turn, Revises, store

LEMMA GetTurn ==
  ASSUME IInv, NEW c \in Callers, Get(c)
  PROVE  Turn(c)
<1> DEFINE h == [Idle EXCEPT !.pc = "busy", !.base = head, !.shown = doc]
<1>1. /\ DOMAIN h = DOMAIN Idle /\ h.pc = "busy" /\ h.base = head /\ h.shown = doc
      /\ h.key = 0 /\ h.row = 0 /\ h.verdict = "failed" /\ h.over = FALSE
  BY DEF Idle
<1>2. at' = [at EXCEPT ![c] = h]
  BY DEF Get
<1> HIDE DEF h
<1>3. DOMAIN at' = Callers /\ at'[c] = h /\ \A d \in Callers \ {c} : at'[d] = at[d]
  BY <1>2, AtIs
<1>4. chat[c] = Quiet /\ at[c].row = 0
  BY TurnFrom DEF Get, Asks, Carries, Working
<1>5. Held(h)
  <2>1. head \in Nat
    BY TurnFrom
  <2>2. h.pc \in PCs /\ h.verdict \in Ends
    BY <1>1 DEF PCs, Ends, Before
  <2>3. h.over \in BOOLEAN
    BY <1>1, Zenon
  <2> QED
    BY <1>1, <2>1, <2>2, <2>3 DEF Held
<1>6. Sees(h, doc, head) /\ Carries(h, rows, ledger)
  <2>1. Carries(h, rows, ledger)
    BY <1>1 DEF Carries, Working
  <2>2. head \in Nat /\ IsDocument(doc)
    BY TurnFrom
  <2>3. Sees(h, doc, head)
    BY <1>1, <2>2 DEF Sees
  <2> QED
    BY <2>1, <2>3
<1>7. HandlerTurn(c)
  BY <1>3, <1>4, <1>5, <1>6, TurnFrom, QuietAsks DEF HandlerTurn, Get, store
<1>8. RowTurn(c)
  BY <1>1, <1>3, <1>4, RowsRest DEF Get, store
<1> QED
  BY <1>7, <1>8 DEF Turn, Revises, Get, store

LEMMA InsertTurn ==
  ASSUME IInv, NEW c \in Callers, InsertGeneration(c)
  PROVE  Turn(c)
<1>1. PICK key \in Keys \cup {Len(rows) + 1} :
        /\ rows' = Append(rows, [status |-> "generating", old |-> FALSE, key |-> key,
                                 base |-> at[c].base, wrote |-> FALSE, over |-> FALSE])
        /\ at' = [at EXCEPT ![c].pc = "generate", ![c].row = Len(rows) + 1,
                            ![c].key = key, ![c].first = TRUE]
  BY DEF InsertGeneration
<1> DEFINE h == [at[c] EXCEPT !.pc = "generate", !.row = Len(rows) + 1,
                              !.key = key, !.first = TRUE]
           row == [status |-> "generating", old |-> FALSE, key |-> key,
                   base |-> at[c].base, wrote |-> FALSE, over |-> FALSE]
<1>2. /\ DOMAIN h = DOMAIN Idle /\ h.pc = "generate" /\ h.base = at[c].base
      /\ h.shown = at[c].shown /\ h.key = key /\ h.row = Len(rows) + 1
      /\ h.verdict = at[c].verdict /\ h.over = at[c].over
  BY TurnFrom DEF Held, Idle
<1>3. at' = [at EXCEPT ![c] = h]
  BY <1>1
<1> HIDE DEF h
<1>4. DOMAIN at' = Callers /\ at'[c] = h /\ \A d \in Callers \ {c} : at'[d] = at[d]
  BY <1>3, AtIs
<1>5. key \in Nat
  <2>1. Len(rows) \in Nat /\ \A i \in DOMAIN rows : rows[i] \in Rows
    BY TurnFrom
  <2>2. \A r \in Rows : r.key \in Nat
    BY DEF Rows
  <2> QED
    BY <2>1, <2>2 DEF Keys
<1>6. /\ at[c].base \in Nat /\ at[c].pc = "insert" /\ at[c].row = 0
      /\ at[c].verdict = "failed" /\ at[c].over = FALSE
  BY TurnFrom DEF InsertGeneration, Held, Carries, Working
<1>7. row \in Rows
  BY <1>5, <1>6 DEF Rows, Ends
<1>8. /\ rows' \in Seq(Rows) /\ Len(rows') = Len(rows) + 1
      /\ DOMAIN rows' = 1 .. Len(rows) + 1
      /\ \A i \in DOMAIN rows : rows'[i] = rows[i]
      /\ rows'[Len(rows) + 1] = row
  BY <1>1, <1>7, TurnFrom
<1>9. /\ row.status = "generating" /\ row.over = FALSE /\ row.key = key
      /\ row.base = at[c].base /\ ~row.wrote
  OBVIOUS
<1> HIDE DEF row
<1>10. Held(h)
  BY <1>2, <1>5, <1>6, TurnFrom DEF Held, PCs
<1>11. Sees(h, doc, head)
  BY <1>2, <1>6, TurnFrom DEF Sees
<1>12. Carries(h, rows', ledger)
  <2>1. rows'[h.row] = row /\ h.row \in DOMAIN rows'
    BY <1>2, <1>8, TurnFrom
  <2>2. row.over = h.over /\ h.pc = "generate" /\ h.verdict = "failed"
    BY <1>2, <1>6, <1>9, Zenon
  <2> QED
    BY <1>2, <1>9, <2>1, <2>2 DEF Carries, Working
<1>13. HandlerTurn(c)
  <2>1. /\ DOMAIN chat' = Callers /\ chat' = [d \in Callers |-> chat'[d]]
        /\ chat'[c] = Asked /\ \A d \in Callers \ {c} : chat'[d] = chat[d]
    BY ChatIs DEF InsertGeneration
  <2>2. Asks(h, Asked, provider)
    BY <1>2, TurnFrom, AskedAsks
  <2> QED
    BY <1>4, <1>10, <1>11, <1>12, <2>1, <2>2 DEF HandlerTurn, InsertGeneration, store
<1>14. RowTurn(c)
  <2>1. Answered(row, ledger)
    BY <1>9 DEF Answered
  <2>2. at[c].row = 0 /\ at'[c].row = Len(rows) + 1
    BY <1>2, <1>4, <1>6
  <2>3. \A i \in {at[c].row, at'[c].row} \cap DOMAIN rows' :
          (Tells(rows'[i]) \/ at'[c].row = i) /\ Answered(rows'[i], ledger)
    BY <1>8, <2>1, <2>2, TurnFrom
  <2>4. ledger' = ledger
    BY DEF InsertGeneration, store
  <2> QED
    BY <1>8, <2>2, <2>3, <2>4, TurnFrom DEF RowTurn
<1> QED
  BY <1>13, <1>14 DEF Turn, Revises, InsertGeneration, store
-------------------------------------------------------------------------------
(* The turns in which a model is asked.                                     *)

LEMMA AskingIs ==
  ASSUME IInv, NEW c \in Callers, chat[c].at \in Underway \cup {"failed"}
  PROVE  /\ at[c].pc = "generate" /\ Working(at[c])
         /\ at[c].verdict = "failed" /\ IsDocument(at[c].shown)
<1>1. Quiet.at = "quiet"
  BY DEF Quiet
<1>2. at[c].pc = "generate"
  BY <1>1, TurnFrom DEF Asks, Underway, Streams, Plains
<1> QED
  BY <1>2, TurnFrom DEF Held, Sees, Working

\* Every outcome of a request but an answer.
LEMMA FailsAsks ==
  ASSUME IInv, NEW c \in Callers, IF at[c].over THEN CutShort(c) ELSE Fails(c)
  PROVE  /\ provider' = provider
         /\ \E q : chat' = [chat EXCEPT ![c] = q] /\ Asks(at[c], q, provider)
<1> DEFINE q0 == chat[c]
<1>1. /\ q0 \in Chats
      /\ q0.at \in {"codex_stream", "codex_plain"} => q0.seconded
      /\ provider = "kie" => q0.at # "openai"
  BY TurnFrom DEF Asks
<1>2. q0.at \in Underway => at[c].pc = "generate"
  BY AskingIs
<1>3. /\ q0.at \in Underway \cup {"quiet", "failed"} /\ q0.attempt \in 1 .. Attempts
      /\ q0.late \in BOOLEAN /\ q0.seconded \in BOOLEAN
      /\ q0 = [at |-> q0.at, attempt |-> q0.attempt, late |-> q0.late,
               seconded |-> q0.seconded]
  BY <1>1 DEF Chats
<1> HIDE DEF q0
<1>4. CASE at[c].over
  <2> DEFINE q == Failed(c)
  <2>1. q = [at |-> "failed", attempt |-> q0.attempt, late |-> q0.late,
             seconded |-> q0.seconded]
    BY <1>3 DEF Failed, q0
  <2>2. CutShort(c)
    BY <1>4
  <2>3. /\ q0.at \in Underway /\ provider' = provider
        /\ chat' = [chat EXCEPT ![c] = q]
    BY <2>2 DEF CutShort, q0
  <2> HIDE DEF q
  <2>4. q \in Chats /\ q.at = "failed"
    BY <1>3, <2>1 DEF Chats
  <2>5. Asks(at[c], q, provider)
    BY <1>2, <1>4, <2>3, <2>4 DEF Asks
  <2> QED
    BY <2>3, <2>5
<1>5. ASSUME NEW failure \in Failures, StreamFails(c, failure)
      PROVE  /\ provider' = provider
             /\ \E q : chat' = [chat EXCEPT ![c] = q] /\ Asks(at[c], q, provider)
  <2> DEFINE q == IF q0.at = "codex_stream" THEN Plainly(c, "codex_plain")
                  ELSE IF failure = "gone" THEN Fallback(c)
                  ELSE Plainly(c, "claude_plain")
  <2>1. /\ q0.at \in Streams /\ provider' = provider
        /\ chat' = [chat EXCEPT ![c] = q]
    BY <1>5 DEF StreamFails, q0
  <2>2. at[c].pc = "generate"
    BY <1>2, <2>1 DEF Underway
  <2> HIDE DEF q
  <2>3. /\ Plainly(c, "codex_plain") = [at |-> "codex_plain", attempt |-> q0.attempt,
                                        late |-> q0.late, seconded |-> q0.seconded]
        /\ Fallback(c) = [at |-> "codex_stream", attempt |-> 1,
                          late |-> q0.late, seconded |-> TRUE]
        /\ Plainly(c, "claude_plain") = [at |-> "claude_plain", attempt |-> q0.attempt,
                                         late |-> q0.late, seconded |-> q0.seconded]
    <3>1. Plainly(c, "codex_plain") = [at |-> "codex_plain", attempt |-> q0.attempt,
                                       late |-> q0.late, seconded |-> q0.seconded]
      BY <1>3 DEF Plainly, q0
    <3>2. Fallback(c) = [at |-> "codex_stream", attempt |-> 1,
                         late |-> q0.late, seconded |-> TRUE]
      <4>1. Fallback(c) = [q0 EXCEPT !.at = "codex_stream", !.attempt = 1, !.seconded = TRUE]
        BY DEF Fallback, q0
      <4> QED
        BY <1>3, <4>1
    <3>3. Plainly(c, "claude_plain") = [at |-> "claude_plain", attempt |-> q0.attempt,
                                        late |-> q0.late, seconded |-> q0.seconded]
      BY <1>3 DEF Plainly, q0
    <3> QED
      BY <3>1, <3>2, <3>3
  <2>4. Asks(at[c], q, provider)
    <3>1. CASE q0.at = "codex_stream"
      <4>1. q = Plainly(c, "codex_plain")
        BY <3>1 DEF q
      <4>2. q \in Chats /\ q.at = "codex_plain" /\ q.seconded = q0.seconded
        BY <1>3, <2>3, <4>1 DEF Chats, Underway, Plains
      <4>3. q.seconded
        BY <1>1, <3>1, <4>2, Zenon
      <4> QED
        BY <2>2, <4>2, <4>3 DEF Asks
    <3>2. CASE q0.at # "codex_stream" /\ failure = "gone"
      <4>1. q = Fallback(c)
        BY <3>2 DEF q
      <4>2. q \in Chats /\ q.at = "codex_stream" /\ q.seconded = TRUE
        BY <1>3, <2>3, <4>1, AttemptsAssumption DEF Chats, Underway, Streams
      <4> QED
        BY <2>2, <4>2 DEF Asks
    <3>3. CASE q0.at # "codex_stream" /\ failure # "gone"
      <4>1. q = Plainly(c, "claude_plain")
        BY <3>3 DEF q
      <4>2. q \in Chats /\ q.at = "claude_plain"
        BY <1>3, <2>3, <4>1 DEF Chats, Underway, Plains
      <4> QED
        BY <2>2, <4>2 DEF Asks
    <3> QED
      BY <3>1, <3>2, <3>3
  <2> QED
    BY <2>1, <2>4
<1>6. ASSUME NEW failure \in Failures, PlainRetried(c, failure)
      PROVE  /\ provider' = provider
             /\ \E q : chat' = [chat EXCEPT ![c] = q] /\ Asks(at[c], q, provider)
  <2> DEFINE q == [chat[c] EXCEPT !.attempt = @ + 1]
  <2>1. /\ q0.at \in Plains /\ provider' = provider /\ q0.attempt < Attempts
        /\ chat' = [chat EXCEPT ![c] = q]
    BY <1>6 DEF PlainRetried, Again, q0
  <2>2. q = [at |-> q0.at, attempt |-> q0.attempt + 1, late |-> q0.late,
             seconded |-> q0.seconded]
    BY <1>3 DEF q0
  <2> HIDE DEF q
  <2>3. q \in Chats /\ q.at = q0.at /\ q.seconded = q0.seconded
    BY <1>3, <2>1, <2>2, AttemptsAssumption DEF Chats
  <2>4. at[c].pc = "generate" /\ q.at # "failed"
    BY <1>2, <2>1, <2>3 DEF Underway, Plains
  <2>5. q.at \in {"codex_stream", "codex_plain"} => q.seconded
    BY <1>1, <2>3, Zenon
  <2>6. Asks(at[c], q, provider)
    BY <1>1, <2>3, <2>4, <2>5 DEF Asks
  <2> QED
    BY <2>1, <2>6
<1>7. ASSUME NEW failure \in Failures, PlainFails(c, failure)
      PROVE  /\ provider' = provider
             /\ \E q : chat' = [chat EXCEPT ![c] = q] /\ Asks(at[c], q, provider)
  <2> DEFINE q == AfterPlain(c, failure)
  <2>1. /\ q0.at \in Plains /\ provider' = provider
        /\ chat' = [chat EXCEPT ![c] = q]
    BY <1>7 DEF PlainFails, q0
  <2>2. at[c].pc = "generate"
    BY <1>2, <2>1 DEF Underway
  <2>3. CASE q0.at = "claude_plain" /\ failure # "late"
    <3>1. q = [at |-> "codex_stream", attempt |-> 1, late |-> q0.late, seconded |-> TRUE]
      BY <1>3, <2>3 DEF AfterPlain, Fallback, q0
    <3> HIDE DEF q
    <3>2. q \in Chats /\ q.at = "codex_stream" /\ q.seconded = TRUE
      BY <1>3, <3>1, AttemptsAssumption DEF Chats, Underway, Streams
    <3>3. Asks(at[c], q, provider)
      BY <2>2, <3>2 DEF Asks
    <3> QED
      BY <2>1, <3>3
  <2>4. CASE ~(q0.at = "claude_plain" /\ failure # "late")
    <3> DEFINE late == q0.late \/ q0.at = "claude_plain"
    <3>1. q = [at |-> "failed", attempt |-> q0.attempt, late |-> late,
               seconded |-> q0.seconded]
      BY <1>3, <2>4 DEF AfterPlain, Failed, q0
    <3>2. late \in BOOLEAN
      OBVIOUS
    <3> HIDE DEF q, late
    <3>3. q \in Chats /\ q.at = "failed" /\ q.late = late /\ q.seconded = q0.seconded
      BY <1>3, <3>1, <3>2 DEF Chats
    <3>4. ~q.late => q.seconded
      <4>1. q0.at = "claude_plain" => late
        BY DEF late
      <4>2. q0.at \in {"claude_plain", "codex_plain"}
        BY <2>1 DEF Plains
      <4> QED
        BY <1>1, <3>3, <4>1, <4>2, Zenon
    <3>5. Asks(at[c], q, provider)
      BY <2>2, <3>3, <3>4 DEF Asks
    <3> QED
      BY <2>1, <3>5
  <2> QED
    BY <2>3, <2>4
<1>8. CASE OpenAIFails(c)
  <2> DEFINE q == Failed(c)
  <2>1. q = [at |-> "failed", attempt |-> q0.attempt, late |-> q0.late,
             seconded |-> q0.seconded]
    BY <1>3 DEF Failed, q0
  <2>2. /\ q0.at = "openai" /\ provider' = provider
        /\ chat' = [chat EXCEPT ![c] = q]
    BY <1>8 DEF OpenAIFails, q0
  <2> HIDE DEF q
  <2>3. q \in Chats /\ q.at = "failed" /\ provider # "kie"
    BY <1>1, <1>3, <2>1, <2>2 DEF Chats
  <2>4. Asks(at[c], q, provider)
    BY <1>2, <2>2, <2>3 DEF Asks, Underway
  <2> QED
    BY <2>2, <2>4
<1> QED
  BY <1>4, <1>5, <1>6, <1>7, <1>8 DEF Fails

LEMMA FailTurn ==
  ASSUME IInv, NEW c \in Callers, ProviderFails(c)
  PROVE  Turn(c)
<1>1. PICK q : chat' = [chat EXCEPT ![c] = q] /\ Asks(at[c], q, provider)
  BY FailsAsks DEF ProviderFails
<1>2. provider' = provider
  BY FailsAsks DEF ProviderFails
<1>3. /\ DOMAIN chat' = Callers /\ chat' = [d \in Callers |-> chat'[d]]
      /\ chat'[c] = q /\ \A d \in Callers \ {c} : chat'[d] = chat[d]
  BY <1>1, ChatIs
<1>4. UNCHANGED <<doc, head, ledger, rows, at>>
  BY DEF ProviderFails, store
<1>5. HandlerTurn(c)
  BY <1>1, <1>2, <1>3, <1>4, TurnFrom DEF HandlerTurn
<1> QED
  BY <1>4, <1>5, RowsRest DEF Turn, Revises

LEMMA RepairTurn ==
  ASSUME IInv, NEW c \in Callers, Repair(c)
  PROVE  Turn(c)
<1> DEFINE h == [at[c] EXCEPT !.first = FALSE]
<1>1. /\ GoesOn(h, at[c], "generate") /\ h.verdict = at[c].verdict
  BY TurnFrom, AskingIs DEF Held, GoesOn, Idle, Repair
<1>2. at' = [at EXCEPT ![c] = h] /\ at[c].pc = "generate"
  BY AskingIs DEF Repair
<1> HIDE DEF h
<1>3. DOMAIN at' = Callers /\ at'[c] = h /\ \A d \in Callers \ {c} : at'[d] = at[d]
  BY <1>2, AtIs
<1>4. /\ DOMAIN chat' = Callers /\ chat' = [d \in Callers |-> chat'[d]]
      /\ chat'[c] = Asked /\ \A d \in Callers \ {c} : chat'[d] = chat[d]
  BY ChatIs DEF Repair
<1>5. UNCHANGED <<provider, doc, head, ledger, rows>>
  BY DEF Repair, store
<1>6. Held(h) /\ Sees(h, doc, head) /\ Carries(h, rows, ledger)
  BY <1>1, <1>2, TurnFrom DEF Held, Sees, Carries, Working, GoesOn
<1>7. Asks(h, Asked, provider)
  BY <1>1, TurnFrom, AskedAsks DEF GoesOn
<1>8. HandlerTurn(c)
  BY <1>3, <1>4, <1>5, <1>6, <1>7 DEF HandlerTurn
<1>9. RowTurn(c)
  BY <1>1, <1>3, <1>5, RowsRest DEF GoesOn
<1> QED
  BY <1>5, <1>8, <1>9 DEF Turn, Revises

\* A question that is over, and what is made of it.
LEMMA LeavesTurn ==
  ASSUME IInv, NEW c \in Callers, at[c].pc = "generate",
         NEW pc \in {"apply", "finish"}, GoesOn(at'[c], at[c], pc),
         at'[c].verdict = at[c].verdict,
         DOMAIN at' = Callers, \A d \in Callers \ {c} : at'[d] = at[d],
         chat' = [chat EXCEPT ![c] = Quiet],
         UNCHANGED <<provider, store, rows>>,
         pc = "apply" => /\ Usable(at'[c].shown, at'[c].ops)
                         /\ Scenic(at'[c].shown.entry, at'[c].ops)
  PROVE  Turn(c)
<1>1. /\ DOMAIN chat' = Callers /\ chat' = [d \in Callers |-> chat'[d]]
      /\ chat'[c] = Quiet /\ \A d \in Callers \ {c} : chat'[d] = chat[d]
  BY ChatIs
<1>2. UNCHANGED <<provider, doc, head, ledger, rows>>
  BY DEF store
<1>3. Held(at'[c])
  BY TurnFrom DEF Held, GoesOn, PCs
<1>4. Sees(at'[c], doc, head)
  BY TurnFrom DEF Sees, GoesOn
<1>5. Carries(at'[c], rows, ledger)
  BY TurnFrom DEF Held, Carries, Working, GoesOn
<1>6. HandlerTurn(c)
  BY <1>1, <1>2, <1>3, <1>4, <1>5, QuietAsks DEF HandlerTurn
<1>7. RowTurn(c)
  BY <1>2, RowsRest DEF GoesOn
<1> QED
  BY <1>2, <1>6, <1>7 DEF Turn, Revises

\* The handler goes on with commands to apply.
LEMMA ApplyIs ==
  ASSUME IInv, NEW c \in Callers, NEW ops,
         at' = [at EXCEPT ![c].pc = "apply", ![c].ops = ops]
  PROVE  /\ GoesOn(at'[c], at[c], "apply") /\ at'[c].verdict = at[c].verdict
         /\ at'[c].ops = ops
         /\ DOMAIN at' = Callers /\ \A d \in Callers \ {c} : at'[d] = at[d]
<1> DEFINE h == [at[c] EXCEPT !.pc = "apply", !.ops = ops]
<1>1. GoesOn(h, at[c], "apply") /\ h.verdict = at[c].verdict /\ h.ops = ops
  BY TurnFrom DEF Held, GoesOn, Idle
<1>2. at' = [at EXCEPT ![c] = h]
  OBVIOUS
<1> HIDE DEF h
<1> QED
  BY <1>1, <1>2, AtIs

LEMMA AcceptTurn ==
  ASSUME IInv, NEW c \in Callers, Accept(c)
  PROVE  Turn(c)
<1> DEFINE ops(text) == Sanitize(at[c].shown, text)
<1>1. PICK text \in Proposals :
        Good(c, text) /\ at' = [at EXCEPT ![c].pc = "apply", ![c].ops = ops(text)]
  BY DEF Accept
<1>2. /\ GoesOn(at'[c], at[c], "apply") /\ at'[c].verdict = at[c].verdict
      /\ at'[c].ops = ops(text)
      /\ DOMAIN at' = Callers /\ \A d \in Callers \ {c} : at'[d] = at[d]
  BY <1>1, ApplyIs
<1>3. Usable(at[c].shown, ops(text)) /\ Scenic(at[c].shown.entry, ops(text))
  BY <1>1, InputsAssumption, SanitizeIs DEF Good
<1>4. Usable(at'[c].shown, at'[c].ops) /\ Scenic(at'[c].shown.entry, at'[c].ops)
  BY <1>2, <1>3 DEF GoesOn
<1>5. at[c].pc = "generate" /\ chat' = [chat EXCEPT ![c] = Quiet] /\ provider' = provider
  BY AskingIs DEF Accept, Answers
<1> QED
  BY <1>2, <1>4, <1>5, LeavesTurn DEF Accept

LEMMA FallenTurn ==
  ASSUME IInv, NEW c \in Callers, at[c].pc = "generate", at' = Fallen(c),
         chat' = [chat EXCEPT ![c] = Quiet], UNCHANGED <<provider, store, rows>>
  PROVE  Turn(c)
<1> DEFINE ops == FallbackOps(at[c].shown)
<1>1. CASE Usable(at[c].shown, ops)
  <2>1. at' = [at EXCEPT ![c].pc = "apply", ![c].ops = ops]
    BY <1>1 DEF Fallen
  <2> HIDE DEF ops
  <2>2. /\ GoesOn(at'[c], at[c], "apply") /\ at'[c].verdict = at[c].verdict
        /\ at'[c].ops = ops
        /\ DOMAIN at' = Callers /\ \A d \in Callers \ {c} : at'[d] = at[d]
    BY <2>1, ApplyIs
  <2>3. Scenic(at[c].shown.entry, ops)
    BY FallbackIs DEF ops
  <2>4. Usable(at'[c].shown, at'[c].ops) /\ Scenic(at'[c].shown.entry, at'[c].ops)
    BY <1>1, <2>2, <2>3 DEF GoesOn
  <2> QED
    BY <2>2, <2>4, LeavesTurn
<1>2. CASE ~Usable(at[c].shown, ops)
  <2>1. Go(c, "finish")
    BY <1>2 DEF Fallen, Go
  <2> QED
    BY <2>1, GoIs, LeavesTurn
<1> QED
  BY <1>1, <1>2

LEMMA FallBackTurn ==
  ASSUME IInv, NEW c \in Callers, FallBack(c) \/ FallBackUnanswered(c)
  PROVE  Turn(c)
  BY AskingIs, FallenTurn DEF FallBack, FallBackUnanswered, Answers
-------------------------------------------------------------------------------
(* The turns at the end of a request.                                       *)

\* The row of a handler at work.
LEMMA RowIs ==
  ASSUME IInv, NEW c \in Callers, Working(at[c])
  PROVE  LET r == at[c].row IN
         /\ r \in DOMAIN rows /\ r # 0 /\ rows[r] \in Rows
         /\ rows[r].status = "generating" /\ rows[r].over = at[c].over
         /\ rows[r].key = at[c].key /\ rows[r].base = at[c].base
         /\ at[c].key \in Nat /\ at[c].base \in Nat /\ at[c].over \in BOOLEAN
<1> DEFINE r == at[c].row
<1>1. /\ r \in DOMAIN rows
      /\ rows[r].status = "generating" /\ rows[r].over = at[c].over
      /\ rows[r].key = at[c].key /\ rows[r].base = at[c].base
  BY TurnFrom DEF Carries
<1>2. rows[r] \in Rows /\ r # 0
  BY <1>1, TurnFrom
<1>3. at[c].key \in Nat /\ at[c].base \in Nat /\ at[c].over \in BOOLEAN
  BY TurnFrom DEF Held
<1> QED
  BY <1>1, <1>2, <1>3

LEMMA RowWrote ==
  ASSUME NEW old \in Rows
  PROVE  LET row == [old EXCEPT !.wrote = TRUE]
             cut == [row EXCEPT !.over = TRUE]
         IN /\ row \in Rows /\ row.status = old.status /\ row.over = old.over
            /\ row.key = old.key /\ row.base = old.base
            /\ cut \in Rows /\ cut.status = old.status /\ cut.over = TRUE
            /\ cut.key = old.key /\ cut.base = old.base
<1> DEFINE row == [old EXCEPT !.wrote = TRUE]
           cut == [row EXCEPT !.over = TRUE]
<1>1. /\ row \in Rows /\ row.status = old.status /\ row.over = old.over
      /\ row.key = old.key /\ row.base = old.base
  BY DEF Rows
<1> HIDE DEF row
<1>2. /\ cut \in Rows /\ cut.status = row.status
      /\ cut.key = row.key /\ cut.base = row.base
  BY <1>1 DEF Rows
<1>3. cut.over = TRUE
  BY <1>1 DEF Rows
<1> HIDE DEF cut
<1> QED
  BY <1>1, <1>2, <1>3 DEF row, cut

\* That row is set, and no other.
LEMMA RowPut ==
  ASSUME IInv, NEW c \in Callers, Working(at[c]), NEW row \in Rows,
         rows' = [rows EXCEPT ![at[c].row] = row],
         ledger \subseteq ledger', ledger' \subseteq [key : Nat, base : Nat],
         at'[c].row = at[c].row \/ (at'[c].row = 0 /\ Tells(row)),
         Answered(row, ledger')
  PROVE  /\ RowTurn(c)
         /\ at[c].row \in DOMAIN rows' /\ rows'[at[c].row] = row
<1>1. at[c].row \in DOMAIN rows /\ at[c].row # 0
  BY RowIs
<1>2. /\ rows' \in Seq(Rows) /\ DOMAIN rows' = DOMAIN rows /\ 0 \notin DOMAIN rows
      /\ rows'[at[c].row] = row
      /\ \A i \in DOMAIN rows : i # at[c].row => rows'[i] = rows[i]
  BY <1>1, TurnFrom
<1>3. \A i \in {at[c].row, at'[c].row} \cap DOMAIN rows' :
        (Tells(rows'[i]) \/ at'[c].row = i) /\ Answered(rows'[i], ledger')
  BY <1>2
<1> QED
  BY <1>1, <1>2, <1>3 DEF RowTurn

\* An edit is committed: doc, ledger and what the commands keep.
LEMMA CommitIs ==
  ASSUME IInv, NEW c \in Callers, at[c].pc = "apply", Applies(c), Commit(c)
  PROVE  /\ head' = head + 1
         /\ IsDocument(doc') /\ ValidDocument(doc')
         /\ ledger' = ledger \cup {[key |-> at[c].key, base |-> at[c].base]}
         /\ ledger' \subseteq [key : Nat, base : Nat]
         /\ KeepsGame(doc, doc')
<1>1. at[c].shown = doc /\ Scenic(at[c].shown.entry, at[c].ops)
  BY TurnFrom DEF Sees, Applies, Moved
<1>2. doc' \in ApplyCommands(doc, at[c].ops)
  BY DEF Commit, Edited
<1>3. Len(at[c].ops) \in Nat /\ \A i \in 1 .. Len(at[c].ops) : IsCommand(at[c].ops[i])
  BY <1>1 DEF Scenic
<1>4. IsDocument(doc') /\ ValidDocument(doc')
  BY <1>2, <1>3, TurnFrom, BatchesKeepDocuments
<1>5. KeepsGame(doc, doc')
  BY <1>1, <1>2, TurnFrom, SceneryKeepsGame
<1>6. at[c].key \in Nat /\ at[c].base \in Nat
  BY TurnFrom DEF Held
<1>7. ledger' \subseteq [key : Nat, base : Nat]
  BY <1>6, TurnFrom DEF Commit
<1> QED
  BY <1>4, <1>5, <1>7 DEF Commit

\* The handler has a verdict, or its context ended.
LEMMA VerdictIs ==
  ASSUME IInv, NEW c \in Callers, NEW verdict,
         at' = [at EXCEPT ![c].pc = "finish", ![c].verdict = verdict]
  PROVE  /\ GoesOn(at'[c], at[c], "finish") /\ at'[c].verdict = verdict
         /\ DOMAIN at' = Callers /\ \A d \in Callers \ {c} : at'[d] = at[d]
<1> DEFINE h == [at[c] EXCEPT !.pc = "finish", !.verdict = verdict]
<1>1. GoesOn(h, at[c], "finish") /\ h.verdict = verdict
  BY TurnFrom DEF Held, GoesOn, Idle
<1>2. at' = [at EXCEPT ![c] = h]
  OBVIOUS
<1> HIDE DEF h
<1> QED
  BY <1>1, <1>2, AtIs

\* The handler that was applying goes on to close its row.
LEMMA FinishesTurn ==
  ASSUME IInv, NEW c \in Callers, at[c].pc = "apply",
         DOMAIN at' = Callers, \A d \in Callers \ {c} : at'[d] = at[d],
         Held(at'[c]), at'[c].pc = "finish",
         at'[c].base = at[c].base, at'[c].shown = at[c].shown,
         Carries(at'[c], rows', ledger'),
         UNCHANGED <<provider, chat>>, Revises, RowTurn(c)
  PROVE  Turn(c)
<1>1. Sees(at'[c], doc, head)
  BY TurnFrom DEF Sees
<1>2. head \in Nat /\ ((doc' = doc /\ head' = head) \/ head' = head + 1)
  BY TurnFrom DEF Revises
<1>3. Sees(at'[c], doc', head')
  BY <1>1, <1>2, OthersSee
<1>4. chat[c] = Quiet
  BY TurnFrom DEF Asks
<1>5. HandlerTurn(c)
  BY <1>3, <1>4, TurnFrom, QuietAsks DEF HandlerTurn
<1> QED
  BY <1>5 DEF Turn

\* A row whose edit is in the store.
LEMMA WroteIs ==
  ASSUME IInv, NEW c \in Callers, Working(at[c])
  PROVE  LET row == [rows[at[c].row] EXCEPT !.wrote = TRUE] IN
         /\ row \in Rows /\ row.status = "generating" /\ row.over = at[c].over
         /\ row.key = at[c].key /\ row.base = at[c].base
<1> DEFINE old == rows[at[c].row]
<1>1. /\ old \in Rows /\ old.status = "generating" /\ old.over = at[c].over
      /\ old.key = at[c].key /\ old.base = at[c].base
  BY RowIs
<1> HIDE DEF old
<1>2. LET row == [old EXCEPT !.wrote = TRUE] IN
      /\ row \in Rows /\ row.status = "generating" /\ row.over = at[c].over
      /\ row.key = at[c].key /\ row.base = at[c].base
  BY <1>1, RowWrote
<1> QED
  BY <1>2 DEF old

\* The handler that knows its edit to be in the store.
LEMMA AppliedTurn ==
  ASSUME IInv, NEW c \in Callers, at[c].pc = "apply",
         at' = [at EXCEPT ![c].pc = "finish", ![c].verdict = "applied"],
         rows' = [rows EXCEPT ![at[c].row].wrote = TRUE],
         ledger \subseteq ledger', ledger' \subseteq [key : Nat, base : Nat],
         [key |-> at[c].key, base |-> at[c].base] \in ledger',
         UNCHANGED <<provider, chat>>, Revises
  PROVE  Turn(c)
<1> DEFINE row == [rows[at[c].row] EXCEPT !.wrote = TRUE]
<1>1. /\ GoesOn(at'[c], at[c], "finish") /\ at'[c].verdict = "applied"
      /\ DOMAIN at' = Callers /\ \A d \in Callers \ {c} : at'[d] = at[d]
  BY VerdictIs
<1>2. Working(at[c])
  BY DEF Working
<1>3. /\ row \in Rows /\ row.status = "generating" /\ row.over = at[c].over
      /\ row.key = at[c].key /\ row.base = at[c].base
  BY <1>2, WroteIs
<1>4. rows' = [rows EXCEPT ![at[c].row] = row]
  OBVIOUS
<1> HIDE DEF row
<1>5. Answered(row, ledger')
  BY <1>3 DEF Answered
<1>6. RowTurn(c) /\ at[c].row \in DOMAIN rows' /\ rows'[at[c].row] = row
  BY <1>1, <1>2, <1>3, <1>4, <1>5, RowPut DEF GoesOn
<1>7. Held(at'[c])
  BY <1>1, TurnFrom DEF Held, GoesOn, PCs, Ends
<1>8. Carries(at'[c], rows', ledger')
  BY <1>1, <1>3, <1>6 DEF Carries, Working, GoesOn
<1> QED
  BY <1>1, <1>6, <1>7, <1>8, FinishesTurn DEF GoesOn

LEMMA ApplyTurn ==
  ASSUME IInv, NEW c \in Callers, ApplyAI(c)
  PROVE  Turn(c)
<1>1. /\ head' = head + 1 /\ IsDocument(doc') /\ ValidDocument(doc')
      /\ ledger' = ledger \cup {[key |-> at[c].key, base |-> at[c].base]}
      /\ ledger' \subseteq [key : Nat, base : Nat]
  BY CommitIs DEF ApplyAI
<1>2. /\ at[c].pc = "apply"
      /\ at' = [at EXCEPT ![c].pc = "finish", ![c].verdict = "applied"]
      /\ rows' = [rows EXCEPT ![at[c].row].wrote = TRUE]
      /\ UNCHANGED <<provider, chat>>
  BY DEF ApplyAI
<1>3. Revises
  BY <1>1 DEF Revises
<1> QED
  BY <1>1, <1>2, <1>3, AppliedTurn

LEMMA ReplayTurn ==
  ASSUME IInv, NEW c \in Callers, ApplyReplay(c)
  PROVE  Turn(c)
<1>1. /\ at[c].pc = "apply"
      /\ at' = [at EXCEPT ![c].pc = "finish", ![c].verdict = "applied"]
      /\ rows' = [rows EXCEPT ![at[c].row].wrote = TRUE]
      /\ UNCHANGED <<provider, chat, doc, head, ledger>>
  BY DEF ApplyReplay, store
<1>2. PICK f \in ledger : f.key = at[c].key /\ f.base = at[c].base
  BY DEF ApplyReplay, Replayed, Filed
<1>3. [key |-> at[c].key, base |-> at[c].base] \in ledger
  BY <1>2, TurnFrom
<1>4. Revises /\ ledger' \subseteq [key : Nat, base : Nat]
  BY <1>1, TurnFrom DEF Revises
<1> QED
  BY <1>1, <1>3, <1>4, AppliedTurn

LEMMA UnheardTurn ==
  ASSUME IInv, NEW c \in Callers, ApplyUnheard(c)
  PROVE  Turn(c)
<1> DEFINE old == rows[at[c].row]
           row == [old EXCEPT !.wrote = TRUE, !.over = TRUE]
           h == [at[c] EXCEPT !.pc = "finish", !.over = TRUE]
<1>1. /\ head' = head + 1 /\ IsDocument(doc') /\ ValidDocument(doc')
      /\ ledger' = ledger \cup {[key |-> at[c].key, base |-> at[c].base]}
      /\ ledger' \subseteq [key : Nat, base : Nat]
  BY CommitIs DEF ApplyUnheard
<1>2. /\ at[c].pc = "apply" /\ Working(at[c])
      /\ at' = [at EXCEPT ![c] = h]
      /\ rows' = [rows EXCEPT ![at[c].row] = row]
      /\ UNCHANGED <<provider, chat>>
  BY DEF ApplyUnheard, Working
<1>3. /\ DOMAIN h = DOMAIN Idle /\ h.pc = "finish" /\ h.base = at[c].base
      /\ h.key = at[c].key /\ h.shown = at[c].shown /\ h.row = at[c].row
      /\ h.over = TRUE /\ h.verdict = at[c].verdict
  BY TurnFrom DEF Held, Idle
<1> HIDE DEF h
<1>4. DOMAIN at' = Callers /\ at'[c] = h /\ \A d \in Callers \ {c} : at'[d] = at[d]
  BY <1>2, AtIs
<1>5. /\ old \in Rows /\ old.status = "generating"
      /\ old.key = at[c].key /\ old.base = at[c].base
  BY <1>2, RowIs
<1> HIDE DEF old
<1>6. row = [[old EXCEPT !.wrote = TRUE] EXCEPT !.over = TRUE]
  OBVIOUS
<1> HIDE DEF row
<1>7. /\ row \in Rows /\ row.status = "generating" /\ row.over = TRUE
      /\ row.key = at[c].key /\ row.base = at[c].base
  BY <1>5, <1>6, RowWrote
<1>8. Answered(row, ledger')
  BY <1>7 DEF Answered
<1>9. RowTurn(c) /\ at[c].row \in DOMAIN rows' /\ rows'[at[c].row] = row
  BY <1>1, <1>2, <1>3, <1>4, <1>7, <1>8, RowPut
<1>10. at[c].verdict = "failed"
  BY <1>2, TurnFrom DEF Held
<1>11. Held(h)
  <2>1. h.over \in BOOLEAN
    BY <1>3, Zenon
  <2> QED
    BY <1>3, <2>1, TurnFrom DEF Held, PCs
<1>12. Carries(h, rows', ledger')
  <2>1. row.over = h.over
    BY <1>3, <1>7, Zenon
  <2>2. h.over
    BY <1>3, Zenon
  <2> QED
    BY <1>3, <1>7, <1>9, <1>10, <2>1, <2>2 DEF Carries, Working
<1>13. Revises
  BY <1>1 DEF Revises
<1> QED
  BY <1>2, <1>3, <1>4, <1>9, <1>11, <1>12, <1>13, FinishesTurn

LEMMA RefusedTurn ==
  ASSUME IInv, NEW c \in Callers, ApplyRefused(c)
  PROVE  Turn(c)
<1>1. /\ at[c].pc = "apply"
      /\ UNCHANGED <<provider, chat, doc, head, ledger, rows>>
  BY DEF ApplyRefused, store
<1>2. PICK verdict \in {"failed", "conflict"} :
        at' = [at EXCEPT ![c].pc = "finish", ![c].verdict = verdict]
  BY DEF ApplyRefused
<1>3. /\ GoesOn(at'[c], at[c], "finish") /\ at'[c].verdict = verdict
      /\ DOMAIN at' = Callers /\ \A d \in Callers \ {c} : at'[d] = at[d]
  BY <1>2, VerdictIs
<1>4. Held(at'[c])
  BY <1>3, TurnFrom DEF Held, GoesOn, PCs, Ends
<1>5. Carries(at'[c], rows, ledger)
  BY <1>1, <1>3, TurnFrom DEF Carries, Working, GoesOn
<1>6. Revises /\ RowTurn(c)
  BY <1>1, <1>3, RowsRest DEF Revises, GoesOn
<1> QED
  BY <1>1, <1>3, <1>4, <1>5, <1>6, FinishesTurn DEF GoesOn

LEMMA FinishTurn ==
  ASSUME IInv, NEW c \in Callers, FinishGeneration(c)
  PROVE  Turn(c)
<1> DEFINE old == rows[at[c].row]
<1>1. /\ at[c].pc = "finish" /\ Working(at[c]) /\ rows' = Closed(c)
      /\ UNCHANGED <<provider, chat, doc, head, ledger>>
  BY DEF FinishGeneration, Working, store
<1>2. /\ DOMAIN at' = Callers /\ at'[c] = Idle
      /\ \A d \in Callers \ {c} : at'[d] = at[d]
  BY AtIs DEF FinishGeneration, Answer
<1>3. chat[c] = Quiet
  BY <1>1, TurnFrom DEF Asks
<1>4. HandlerTurn(c)
  BY <1>1, <1>2, <1>3, TurnFrom, IdleIs, QuietAsks DEF HandlerTurn
<1>5. /\ at[c].row \in DOMAIN rows /\ old \in Rows /\ old.status = "generating"
      /\ old.over = at[c].over
      /\ old.key = at[c].key /\ old.base = at[c].base /\ at[c].over \in BOOLEAN
  BY <1>1, RowIs
<1>6. /\ old.wrote /\ ~at[c].over => at[c].verdict = "applied"
      /\ at[c].verdict = "applied" => [key |-> at[c].key, base |-> at[c].base] \in ledger
      /\ at[c].verdict \in Ends
  BY <1>1, TurnFrom DEF Carries, Held
<1> HIDE DEF old
<1>7. RowTurn(c)
  <2>1. CASE at[c].over
    <3>1. rows' = [rows EXCEPT ![at[c].row] = old]
      BY <1>1, <1>5, <2>1, TurnFrom DEF Closed, old
    <3>2. Answered(old, ledger)
      BY <1>5 DEF Answered
    <3>3. Tells(old)
      BY <1>5, <2>1, Zenon DEF Tells
    <3> QED
      BY <1>1, <1>2, <1>5, <3>1, <3>2, <3>3, IdleIs, TurnFrom, RowPut
  <2>2. CASE ~at[c].over
    <3> DEFINE row == [old EXCEPT !.status = at[c].verdict]
    <3>1. rows' = [rows EXCEPT ![at[c].row] = row]
      BY <1>1, <2>2 DEF Closed, old
    <3>2. /\ row \in Rows /\ row.status = at[c].verdict /\ row.wrote = old.wrote
          /\ row.key = old.key /\ row.base = old.base
      BY <1>5, <1>6 DEF Rows
    <3> HIDE DEF row
    <3>3. Answered(row, ledger)
      BY <1>5, <1>6, <3>2 DEF Answered
    <3>4. row.status # "generating"
      BY <1>6, <3>2 DEF Ends
    <3>5. row.wrote => row.status = "applied"
      BY <1>6, <2>2, <3>2, Zenon
    <3>6. Tells(row)
      BY <3>4, <3>5, Zenon DEF Tells
    <3> QED
      BY <1>1, <1>2, <3>1, <3>2, <3>3, <3>6, IdleIs, TurnFrom, RowPut
  <2> QED
    BY <2>1, <2>2
<1> QED
  BY <1>1, <1>4, <1>7 DEF Turn, Revises

LEMMA EndContextTurn ==
  ASSUME IInv, NEW c \in Callers, EndContext(c)
  PROVE  Turn(c)
<1> DEFINE h == [at[c] EXCEPT !.over = TRUE]
           old == rows[at[c].row]
           row == [old EXCEPT !.over = TRUE]
<1>1. /\ Working(at[c]) /\ at[c].pc # "idle"
      /\ at' = [at EXCEPT ![c] = h] /\ rows' = Over({c})
      /\ UNCHANGED <<provider, chat, doc, head, ledger>>
  BY TurnFrom DEF EndContext, Held, PCs, Working, store
<1>2. /\ DOMAIN h = DOMAIN Idle /\ h.pc = at[c].pc /\ h.base = at[c].base
      /\ h.key = at[c].key /\ h.shown = at[c].shown /\ h.row = at[c].row
      /\ h.over = TRUE /\ h.verdict = at[c].verdict /\ h.ops = at[c].ops
  BY TurnFrom DEF Held, Idle
<1> HIDE DEF h
<1>3. DOMAIN at' = Callers /\ at'[c] = h /\ \A d \in Callers \ {c} : at'[d] = at[d]
  BY <1>1, AtIs
<1>4. /\ at[c].row \in DOMAIN rows /\ old \in Rows /\ old.status = "generating"
      /\ old.key = at[c].key /\ old.base = at[c].base
  BY <1>1, RowIs
<1>5. rows' = [rows EXCEPT ![at[c].row] = row]
  <2>1. rows' = [i \in DOMAIN rows |-> IF at[c].row = i THEN [rows[i] EXCEPT !.over = TRUE]
                                       ELSE rows[i]]
    BY <1>1 DEF Over
  <2> QED
    BY <1>4, <2>1, TurnFrom
<1> HIDE DEF old
<1>6. /\ row \in Rows /\ row.status = "generating"
      /\ row.key = at[c].key /\ row.base = at[c].base
  BY <1>4 DEF Rows
<1>7. row.over = TRUE
  BY <1>4 DEF Rows
<1> HIDE DEF row
<1>8. Answered(row, ledger)
  BY <1>6 DEF Answered
<1>9. RowTurn(c) /\ at[c].row \in DOMAIN rows' /\ rows'[at[c].row] = row
  BY <1>1, <1>2, <1>3, <1>5, <1>6, <1>8, TurnFrom, RowPut
<1>10. Held(h)
  <2>1. h.over \in BOOLEAN
    BY <1>2, Zenon
  <2> QED
    BY <1>2, <2>1, TurnFrom DEF Held
<1>11. Sees(h, doc, head)
  BY <1>2, TurnFrom DEF Sees
<1>12. h.over
  BY <1>2, Zenon
<1>13. Asks(h, chat[c], provider)
  BY <1>2, <1>12, TurnFrom DEF Asks
<1>14. Carries(h, rows', ledger)
  <2>1. row.over = h.over
    BY <1>2, <1>7, Zenon
  <2>2. at[c].verdict = "applied" => [key |-> at[c].key, base |-> at[c].base] \in ledger
    BY <1>1, TurnFrom DEF Carries
  <2>3. h.verdict = "applied" => [key |-> h.key, base |-> h.base] \in ledger
    BY <1>2, <2>2
  <2> QED
    BY <1>1, <1>2, <1>6, <1>9, <1>12, <2>1, <2>3 DEF Carries, Working
<1>15. HandlerTurn(c)
  BY <1>1, <1>3, <1>10, <1>11, <1>13, <1>14, TurnFrom DEF HandlerTurn
<1> QED
  BY <1>1, <1>9, <1>15 DEF Turn, Revises

LEMMA HandlerTurns ==
  ASSUME IInv, NEW c \in Callers, Get(c) \/ Handle(c) \/ EndContext(c)
  PROVE  Turn(c)
<1>1. CASE HasActiveGeneration(c)
  BY <1>1, AnswerTurn, GoTurn DEF HasActiveGeneration, Before
<1>2. CASE CountOwnerActive(c)
  BY <1>2, AnswerTurn, GoTurn DEF CountOwnerActive, Before
<1>3. CASE GiveUp(c)
  BY <1>3, AnswerTurn DEF GiveUp
<1> QED
  BY <1>1, <1>2, <1>3, GetTurn, InsertTurn, FailTurn, AcceptTurn, RepairTurn, FallBackTurn,
     ApplyTurn, UnheardTurn, ReplayTurn, RefusedTurn, FinishTurn, EndContextTurn
     DEF Handle
-------------------------------------------------------------------------------
(* The world around the handlers.                                           *)

LEMMA RestartKeeps ==
  ASSUME IInv, Restart
  PROVE  IInv'
<1>1. /\ at' = [c \in Callers |-> Idle] /\ chat' = [c \in Callers |-> Quiet]
      /\ rows' = Over(Callers)
      /\ UNCHANGED <<provider, doc, head, ledger>>
  BY DEF Restart, store
<1>2. \A c \in Callers : at'[c] = Idle /\ chat'[c] = Quiet
  BY <1>1
<1>3. \A c \in Callers : HandlerFits(c)'
  BY <1>2, IdleIs, QuietAsks DEF HandlerFits
<1>4. ASSUME NEW i \in DOMAIN rows
      PROVE  /\ rows'[i] \in Rows
             /\ Tells(rows'[i])
             /\ Answered(rows'[i], ledger)
  <2> DEFINE old == rows[i]
             row == [old EXCEPT !.over = TRUE]
  <2>1. old \in Rows /\ (Tells(old) \/ \E c \in Callers : at[c].row = i) /\ Answered(old, ledger)
    BY DEF IInv, StoreFits, RowsFit
  <2>2. i # 0
    BY DEF IInv, StoreFits
  <2>3. \A c \in Callers : at[c].row = i => at[c].pc # "idle"
    BY <2>2 DEF IInv, HandlerFits, Carries, Working
  <2>4. rows'[i] = IF \E c \in Callers : at[c].pc # "idle" /\ at[c].row = i THEN row ELSE old
    BY <1>1 DEF Over
  <2> HIDE DEF old
  <2>5. /\ row \in Rows /\ row.status = old.status /\ row.key = old.key /\ row.base = old.base
    BY <2>1 DEF Rows
  <2>6. row.over = TRUE
    BY <2>1 DEF Rows
  <2> HIDE DEF row
  <2>7. Tells(row)
    BY <2>6, Zenon DEF Tells
  <2>8. Answered(row, ledger)
    BY <2>1, <2>5 DEF Answered
  <2> QED
    BY <2>1, <2>3, <2>4, <2>5, <2>7, <2>8
<1>5. rows' \in Seq(Rows) /\ DOMAIN rows' = DOMAIN rows
  <2>1. Len(rows) \in Nat /\ DOMAIN rows = 1 .. Len(rows)
    BY DEF IInv, StoreFits
  <2>2. DOMAIN rows' = DOMAIN rows /\ rows' = [i \in DOMAIN rows |-> rows'[i]]
    BY <1>1 DEF Over
  <2>3. rows' \in [1 .. Len(rows) -> Rows]
    BY <1>4, <2>1, <2>2
  <2> QED
    BY <2>1, <2>2, <2>3
<1>6. StoreFits'
  BY <1>1, <1>5 DEF IInv, StoreFits
<1>7. RowsApart'
  BY <1>2, IdleIs DEF RowsApart, Working
<1>8. RowsFit'
  BY <1>1, <1>4, <1>5 DEF RowsFit, Tells, Answered
<1> QED
  BY <1>1, <1>3, <1>6, <1>7, <1>8 DEF IInv

LEMMA AgeKeeps ==
  ASSUME IInv, NEW i, Age(i)
  PROVE  IInv'
<1> DEFINE old == rows[i]
           row == [old EXCEPT !.old = TRUE]
<1>1. /\ i \in DOMAIN rows /\ rows' = [rows EXCEPT ![i] = row] /\ ~Carried(i)
      /\ UNCHANGED <<provider, chat, doc, head, ledger, at>>
  BY DEF Age, store
<1>2. rows \in Seq(Rows) /\ old \in Rows /\ i # 0
  BY <1>1 DEF IInv, StoreFits
<1>3. \A c \in Callers : at[c].row # i
  BY <1>1, <1>2 DEF IInv, HandlerFits, Carries, Carried, Working
<1>4. Tells(old) /\ Answered(old, ledger)
  BY <1>1, <1>3 DEF IInv, RowsFit
<1> HIDE DEF old
<1>5. /\ row \in Rows /\ row.status = old.status /\ row.key = old.key /\ row.base = old.base
      /\ row.wrote = old.wrote /\ row.over = old.over
  BY <1>2 DEF Rows
<1> HIDE DEF row
<1>6. Answered(row, ledger)
  BY <1>4, <1>5 DEF Answered
<1>7. Tells(row)
  BY <1>4, <1>5, Zenon DEF Tells
<1>8. /\ rows' \in Seq(Rows) /\ DOMAIN rows' = DOMAIN rows /\ rows'[i] = row
      /\ \A k \in DOMAIN rows : k # i => rows'[k] = rows[k]
  BY <1>1, <1>2, <1>5
<1>9. StoreFits'
  BY <1>1, <1>8 DEF IInv, StoreFits
<1>10. ASSUME NEW c \in Callers
       PROVE  HandlerFits(c)'
  <2>1. /\ Held(at[c]) /\ Sees(at[c], doc, head) /\ Asks(at[c], chat[c], provider)
        /\ Carries(at[c], rows, ledger)
    BY DEF IInv, HandlerFits
  <2>2. Carries(at[c], rows', ledger)
    BY <1>3, <1>8, <2>1, OthersCarry
  <2> QED
    BY <1>1, <2>1, <2>2 DEF HandlerFits
<1>11. RowsApart'
  BY <1>1 DEF IInv, RowsApart, Working
<1>12. RowsFit'
  <2> SUFFICES ASSUME NEW k \in DOMAIN rows'
               PROVE  /\ Tells(rows'[k]) \/ \E c \in Callers : at'[c].row = k
                      /\ Answered(rows'[k], ledger')
    BY DEF RowsFit, Tells, Answered
  <2>1. CASE k = i
    BY <1>1, <1>6, <1>7, <1>8, <2>1
  <2>2. CASE k # i
    BY <1>1, <1>8, <2>2 DEF IInv, RowsFit
  <2> QED
    BY <2>1, <2>2
<1> QED
  BY <1>1, <1>9, <1>10, <1>11, <1>12 DEF IInv

LEMMA OthersRevisedKeeps ==
  ASSUME IInv, NEW d, IsDocument(d), ValidDocument(d), OthersRevised(d)
  PROVE  IInv'
<1>1. /\ doc' = d /\ head' = head + 1
      /\ UNCHANGED <<provider, chat, ledger, rows, at>>
  BY DEF OthersRevised
<1>2. StoreFits'
  BY <1>1 DEF IInv, StoreFits
<1>3. ASSUME NEW c \in Callers
      PROVE  HandlerFits(c)'
  <2>1. /\ Held(at[c]) /\ Sees(at[c], doc, head) /\ Asks(at[c], chat[c], provider)
        /\ Carries(at[c], rows, ledger)
    BY DEF IInv, HandlerFits
  <2>2. Sees(at[c], d, head + 1)
    BY <2>1, OthersSee DEF IInv, StoreFits
  <2> QED
    BY <1>1, <2>1, <2>2 DEF HandlerFits
<1>4. RowsApart' /\ RowsFit'
  BY <1>1 DEF IInv, RowsApart, RowsFit, Working, Tells, Answered
<1> QED
  BY <1>1, <1>2, <1>3, <1>4 DEF IInv

LEMMA OthersKeep ==
  ASSUME IInv,
         \/ \E ops \in Changes : Change(ops)
         \/ \E d \in Built : ReplaceDocument(d)
  PROVE  IInv'
<1>1. ASSUME NEW ops \in Changes, Change(ops)
      PROVE  IInv'
  <2>1. PICK d \in ApplyCommands(doc, ops) : OthersRevised(d)
    BY <1>1 DEF Change
  <2>2. Len(ops) \in Nat /\ \A i \in 1 .. Len(ops) : IsCommand(ops[i])
    <3>1. IsBatch(ops)
      BY <1>1, InputsAssumption
    <3> DEFINE Ops == {ops[i] : i \in DOMAIN ops}
    <3>2. ops \in Seq(Ops) /\ \A i \in DOMAIN ops : IsCommand(ops[i])
      BY <3>1 DEF IsBatch
    <3> HIDE DEF Ops
    <3> QED
      BY <3>2
  <2>3. IsDocument(d) /\ ValidDocument(d)
    BY <2>2, BatchesKeepDocuments DEF IInv, StoreFits
  <2> QED
    BY <2>1, <2>3, OthersRevisedKeeps
<1>2. ASSUME NEW d \in Built, ReplaceDocument(d)
      PROVE  IInv'
  BY <1>2, InputsAssumption, OthersRevisedKeeps DEF ReplaceDocument
<1> QED
  BY <1>1, <1>2
-------------------------------------------------------------------------------
(* The theorems.                                                            *)

LEMMA InitFits ==
  ASSUME Init
  PROVE  IInv
<1>1. /\ provider \in {"kie", "openai"} /\ chat = [c \in Callers |-> Quiet]
      /\ doc = Initial /\ head = 1 /\ ledger = {} /\ rows = << >>
      /\ at = [c \in Callers |-> Idle]
  BY DEF Init, ChatInit
<1>2. StoreFits
  BY <1>1, InitialAssumption DEF StoreFits
<1>3. \A c \in Callers : at[c] = Idle /\ chat[c] = Quiet
  BY <1>1
<1>4. \A c \in Callers : HandlerFits(c)
  BY <1>3, IdleIs, QuietAsks DEF HandlerFits
<1>5. RowsApart /\ RowsFit
  BY <1>1, <1>3, IdleIs DEF RowsApart, RowsFit, Working
<1> QED
  BY <1>1, <1>2, <1>4, <1>5 DEF IInv

LEMMA NextKeeps ==
  ASSUME IInv, [Next]_vars
  PROVE  IInv'
<1>1. CASE \E c \in Callers : Get(c) \/ Handle(c) \/ EndContext(c)
  BY <1>1, HandlerTurns, TurnKeeps
<1>2. CASE Restart
  BY <1>2, RestartKeeps
<1>3. CASE \E i \in 1 .. MaxGenerations : Age(i)
  BY <1>3, AgeKeeps
<1>4. CASE (\E ops \in Changes : Change(ops)) \/ (\E d \in Built : ReplaceDocument(d))
  BY <1>4, OthersKeep
<1>5. CASE UNCHANGED vars
  BY <1>5 DEF vars, IInv, StoreFits, HandlerFits, RowsApart, RowsFit, Working, Tells, Answered
<1> QED
  BY <1>1, <1>2, <1>3, <1>4, <1>5 DEF Next

\* The inductive invariant: stored documents pass the checks, what a handler was shown
\* is the head as long as nobody moved it, questions that fail were put to both models,
\* and the row of a handler is open until its verdict is in.
THEOREM Invariance == Spec => []IInv
<1>1. Init => IInv
  BY InitFits
<1>2. IInv /\ [Next]_vars => IInv'
  BY NextKeeps
<1> QED
  BY <1>1, <1>2, PTL DEF Spec

\* The state space (the columns of ai_generations, the locals of generate).
THEOREM TypeCorrect == Spec => []TypeOK
<1>1. IInv => TypeOK
  <2> SUFFICES ASSUME IInv
               PROVE  TypeOK
    OBVIOUS
  <2>1. \A c \in Callers : HandlerFits(c)
    BY DEF IInv
  <2>2. chat \in [Callers -> Chats]
    BY <2>1 DEF IInv, HandlerFits, Asks
  <2>3. \A c \in Callers :
          /\ DOMAIN at[c] = DOMAIN Idle
          /\ at[c].pc \in PCs /\ at[c].verdict \in Ends
          /\ at[c].row \in 0 .. Len(rows)
          /\ at[c].pc # "generate" => chat[c] = Quiet
    <3> SUFFICES ASSUME NEW c \in Callers
                 PROVE  /\ DOMAIN at[c] = DOMAIN Idle
                        /\ at[c].pc \in PCs /\ at[c].verdict \in Ends
                        /\ at[c].row \in 0 .. Len(rows)
                        /\ at[c].pc # "generate" => chat[c] = Quiet
      OBVIOUS
    <3>1. DOMAIN at[c] = DOMAIN Idle /\ at[c].pc \in PCs /\ at[c].verdict \in Ends
      BY <2>1 DEF HandlerFits, Held
    <3>2. at[c].row \in 0 .. Len(rows)
      <4>1. at[c].row = 0 \/ at[c].row \in DOMAIN rows
        BY TurnFrom DEF Carries
      <4>2. Len(rows) \in Nat /\ DOMAIN rows = 1 .. Len(rows)
        BY TurnFrom
      <4> HIDE DEF IInv
      <4> QED
        BY <4>1, <4>2
    <3>3. at[c].pc # "generate" => chat[c] = Quiet
      BY <2>1 DEF HandlerFits, Asks
    <3> QED
      BY <3>1, <3>2, <3>3
  <2> QED
    BY <2>2, <2>3 DEF TypeOK, IInv, StoreFits
<1> QED
  BY <1>1, Invariance, PTL

\* Whatever is applied in whatever order, the runtime can load what is stored
\* (ApplyCommands checks the whole document once more).
THEOREM StoredDocumentsAreSound == Spec => []StoredIsSound
<1>1. IInv => StoredIsSound
  BY ValidIsSound DEF IInv, StoreFits, StoredIsSound
<1> QED
  BY <1>1, Invariance, PTL

\* What was tried on the document a handler was shown applies to the stored one
\* (Generate and applyOps).
THEOREM TriedEditsApply == Spec => []TriedApplies
<1>1. IInv => TriedApplies
  <2> SUFFICES ASSUME IInv, NEW c \in Callers, at[c].pc = "apply", ~Moved(c)
               PROVE  Edited(c) # {}
    BY DEF TriedApplies
  <2>1. Sees(at[c], doc, head)
    BY TurnFrom
  <2>2. at[c].shown = doc /\ Usable(at[c].shown, at[c].ops)
    BY <2>1 DEF Sees, Moved
  <2> QED
    BY <2>2 DEF Usable, Edited
<1> QED
  BY <1>1, Invariance, PTL

\* The row of a request that was not cut short says what became of it
\* (FinishGeneration).
THEOREM RowsTell == Spec => []RowsTellWhatHappened
<1>1. IInv => RowsTellWhatHappened
  <2> SUFFICES ASSUME IInv, NEW i \in DOMAIN rows
               PROVE  /\ ~rows[i].over /\ ~Carried(i) =>
                           /\ rows[i].status # "generating"
                           /\ rows[i].wrote => rows[i].status = "applied"
                      /\ rows[i].status = "applied" =>
                           [key |-> rows[i].key, base |-> rows[i].base] \in ledger
    BY DEF RowsTellWhatHappened
  <2>1. /\ Tells(rows[i]) \/ \E c \in Callers : at[c].row = i
        /\ Answered(rows[i], ledger)
    BY DEF IInv, RowsFit
  <2>2. \A c \in Callers : at[c].row = i => at[c].pc # "idle"
    <3>1. i # 0
      BY DEF IInv, StoreFits
    <3> QED
      BY <3>1 DEF IInv, HandlerFits, Carries, Working
  <2> QED
    BY <2>1, <2>2 DEF Tells, Answered, Carried
<1> QED
  BY <1>1, Invariance, PTL

\* Nobody is told that kie.ai failed before the fallback model was asked (Chat).
THEOREM FallbackIsAsked == Spec => []FallbackBeforeFailure
<1>1. IInv => FallbackBeforeFailure
  BY DEF IInv, HandlerFits, Asks, FallbackBeforeFailure
<1> QED
  BY <1>1, Invariance, PTL

\* The handlers that file a key are those that commit.
LEMMA FilingIs ==
  ASSUME IInv, [Next]_vars, ledger' # ledger
  PROVE  \E c \in Callers : at[c].pc = "apply" /\ Applies(c) /\ Commit(c)
<1>1. CASE \E c \in Callers : Get(c) \/ Handle(c) \/ EndContext(c)
  BY <1>1 DEF Get, Handle, EndContext, HasActiveGeneration, CountOwnerActive,
       InsertGeneration, GiveUp, ProviderFails, Accept, Repair, FallBack,
       FallBackUnanswered, ApplyAI, ApplyUnheard, ApplyReplay, ApplyRefused,
       FinishGeneration, store
<1>2. CASE ~\E c \in Callers : Get(c) \/ Handle(c) \/ EndContext(c)
  BY <1>2 DEF Next, vars, Restart, Age, Change, ReplaceDocument, OthersRevised, store
<1> QED
  BY <1>1, <1>2

\* An AI edit adds no gameplay and stays in the entry scene (sanitizeOps).
THEOREM AIEditsAreScenery == Spec => AIKeepsToScenery
<1>1. ASSUME IInv, [Next]_vars, ledger' # ledger
      PROVE  KeepsGame(doc, doc')
  BY <1>1, FilingIs, CommitIs
<1>2. IInv /\ [Next]_vars =>
        [ledger' # ledger =>
           LET here == doc.scenes[doc.entry].entities
               after == doc'.scenes[doc.entry].entities
           IN /\ doc'.entry = doc.entry
              /\ DOMAIN doc'.scenes = DOMAIN doc.scenes
              /\ \A s \in DOMAIN doc.scenes :
                   /\ doc'.scenes[s].rules = doc.scenes[s].rules
                   /\ s # doc.entry => doc'.scenes[s] = doc.scenes[s]
              /\ \A id \in DOMAIN after : GameplayOf(after, id) \subseteq GameplayOf(here, id)
        ]_vars
  BY <1>1 DEF KeepsGame
<1> QED
  BY <1>2, Invariance, PTL DEF Spec, AIKeepsToScenery
===============================================================================
