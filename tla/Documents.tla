------------------------------ MODULE Documents ------------------------------
(***************************************************************************)
(* GameProject documents and the commands that change them                 *)
(* (backend/internal/projects: commands.go, validation.go, gameplay.go):   *)
(* pure operators, used by AIEdit.                                         *)
(*                                                                         *)
(* A component is what it refers to: None when it refers to nothing, Bad   *)
(* when one of its fields is missing, unknown or out of range, otherwise   *)
(* the scene or the entity it names.  Names, numbers, colours and the mode *)
(* of a project are left out but for that.                                 *)
(***************************************************************************)
EXTENDS Naturals, Sequences, FiniteSets

CONSTANTS SceneIds, EntityIds,
          None,        \* no id, nothing referred to
          Bad,         \* what does not pass the checks of a value
          MaxScenes,   \* 20 in the code
          MaxEntities  \* 2000 in the code

ASSUME NamesAssumption ==
    /\ SceneIds \cap EntityIds = {}
    /\ {None, Bad} \cap (SceneIds \cup EntityIds) = {}
    /\ None # Bad

\* The ids are UUIDs.
ASSUME FiniteAssumption == IsFiniteSet(EntityIds)
-------------------------------------------------------------------------------
(* Components that only draw, and those that make a game.  Sprite stands    *)
(* for Mesh, Camera and Light too, Body for all gameplay without a link.    *)
Drawing == {"Transform", "Sprite"}
Gameplay == {"Body", "Goal", "Spawner"}

\* An entity: its parent in the scene, and its components by their type.
IsEntity(e) ==
    /\ DOMAIN e = {"parent", "parts"}
    /\ e.parent \in EntityIds \cup {None}
    /\ DOMAIN e.parts \subseteq Drawing \cup Gameplay
    /\ \A t \in DOMAIN e.parts : e.parts[t] \in SceneIds \cup EntityIds \cup {None, Bad}

\* A scene: where its rules lead (Bad: rules out of range), and its entities.
IsScene(s) ==
    /\ DOMAIN s = {"rules", "entities"}
    /\ s.rules \in SceneIds \cup {None, Bad}
    /\ DOMAIN s.entities \subseteq EntityIds
    /\ \A id \in DOMAIN s.entities : IsEntity(s.entities[id])

IsDocument(d) ==
    /\ DOMAIN d = {"entry", "scenes", "setting"}
    /\ d.entry \in SceneIds
    /\ DOMAIN d.scenes \subseteq SceneIds
    /\ \A s \in DOMAIN d.scenes : IsScene(d.scenes[s])

\* A command: id is the operation id (None: one nobody used before), part a type
\* of component, value the scene, rules, entity, component or setting it carries.
Command(type, id, scene, entity, part, value) ==
    [type |-> type, id |-> id, scene |-> scene, entity |-> entity,
     part |-> part, value |-> value]

\* What the fields of a command hold once it is decoded; what could not be is Bad.
IsCommand(op) ==
    /\ DOMAIN op = {"type", "id", "scene", "entity", "part", "value"}
    /\ op.type = "CreateScene" => op.scene \in SceneIds /\ IsScene(op.value)
    /\ op.type = "SetSceneRules" => op.value \in SceneIds \cup {None, Bad}
    /\ op.type = "CreateEntity" => IsEntity(op.value)
    /\ op.type = "SetComponent" =>
         /\ op.part \in Drawing \cup Gameplay
         /\ op.value \in SceneIds \cup EntityIds \cup {None, Bad}

\* The commands of one request.
IsBatch(ops) ==
    /\ ops \in Seq({ops[i] : i \in DOMAIN ops})
    /\ \A i \in DOMAIN ops : IsCommand(ops[i])
-------------------------------------------------------------------------------
(* Validation.                                                              *)

\* A spawner must name a template.
ValidGameplay(type, c) ==
    CASE type = "Goal" -> c \in SceneIds \cup {None}
      [] type = "Spawner" -> c \in EntityIds
      [] OTHER -> c = None

\* Fields a type does not know are refused.
ValidComponent(type, c) ==
    IF type \in Drawing THEN c = None ELSE ValidGameplay(type, c)

ValidRules(rules) == rules # Bad

\* Where the walk from an entity to its parents ends: None, an id that is not there,
\* or, going round, some entity.
Root(es, id) ==
    LET up[n \in 0 .. Cardinality(DOMAIN es)] ==
            IF n = 0 THEN {id}
            ELSE {IF i \in DOMAIN es THEN es[i].parent ELSE i : i \in up[n - 1]}
    IN CHOOSE i \in up[Cardinality(DOMAIN es)] : TRUE

ValidEntities(es) ==
    \A id \in DOMAIN es :
        /\ id \in EntityIds
        /\ "Transform" \in DOMAIN es[id].parts
        /\ \A t \in DOMAIN es[id].parts : ValidComponent(t, es[id].parts[t])
        /\ Root(es, id) = None

\* What one component cannot check on its own.
ValidReferences(scenes) ==
    \A s \in DOMAIN scenes :
        /\ ValidRules(scenes[s].rules)
        /\ scenes[s].rules \in DOMAIN scenes \cup {None}
        /\ \A id \in DOMAIN scenes[s].entities :
             LET parts == scenes[s].entities[id].parts IN
             /\ "Goal" \in DOMAIN parts => parts["Goal"] \in DOMAIN scenes \cup {None}
             /\ "Spawner" \in DOMAIN parts =>
                  parts["Spawner"] \in DOMAIN scenes[s].entities \ {id}

ValidDocument(d) ==
    /\ d.entry \in DOMAIN d.scenes
    /\ Cardinality(DOMAIN d.scenes) <= MaxScenes
    /\ \A s \in DOMAIN d.scenes :
         /\ Cardinality(DOMAIN d.scenes[s].entities) <= MaxEntities
         /\ ValidEntities(d.scenes[s].entities)
    /\ ValidReferences(d.scenes)
    /\ d.setting # Bad
-------------------------------------------------------------------------------
(* The commands: the document after each, in a set that is empty when it is *)
(* refused.                                                                 *)

\* A map with one entry set.
With(f, x, v) == [y \in DOMAIN f \cup {x} |-> IF y = x THEN v ELSE f[y]]

WithEntities(d, s, es) ==
    {e \in {[d EXCEPT !.scenes[s].entities = es]} : ValidEntities(es)}

\* The rules of the new scene are looked at only with the whole document.
CreateScene(d, op) ==
    IF /\ Cardinality(DOMAIN d.scenes) < MaxScenes
       /\ op.scene \notin DOMAIN d.scenes
       /\ ValidEntities(op.value.entities)
    THEN {[d EXCEPT !.scenes = With(@, op.scene, op.value)]}
    ELSE {}

SetSceneRules(d, op) ==
    IF ValidRules(op.value) THEN {[d EXCEPT !.scenes[op.scene].rules = op.value]} ELSE {}

CreateEntity(d, op) ==
    LET es == d.scenes[op.scene].entities IN
    IF Cardinality(DOMAIN es) < MaxEntities /\ op.entity \notin DOMAIN es
    THEN WithEntities(d, op.scene, With(es, op.entity, op.value))
    ELSE {}

\* Nobody may be left without its parent.
DeleteEntity(d, op) ==
    LET es == d.scenes[op.scene].entities IN
    IF op.entity \in DOMAIN es /\ \A id \in DOMAIN es : es[id].parent # op.entity
    THEN WithEntities(d, op.scene, [id \in DOMAIN es \ {op.entity} |-> es[id]])
    ELSE {}

\* Replaces the component of that type, or adds it.
SetComponent(d, op) ==
    LET es == d.scenes[op.scene].entities IN
    IF op.entity \in DOMAIN es
    THEN WithEntities(d, op.scene,
             [es EXCEPT ![op.entity].parts = With(@, op.part, op.value)])
    ELSE {}

\* propertyAllowlist: fields that no link is among, and none of a goal.
Editable == {"Transform", "Sprite", "Body", "Spawner"}

\* One field of a component that is there.
SetProperty(d, op) ==
    LET es == d.scenes[op.scene].entities IN
    IF op.entity \in DOMAIN es /\ op.part \in DOMAIN es[op.entity].parts \cap Editable
    THEN WithEntities(d, op.scene,
             IF op.value = Bad THEN [es EXCEPT ![op.entity].parts[op.part] = Bad] ELSE es)
    ELSE {}

SetProjectSetting(d, op) ==
    IF op.value # Bad THEN {[d EXCEPT !.setting = op.value]} ELSE {}

ApplyOne(d, op) ==
    IF op.type \notin {"CreateScene", "SetProjectSetting"} /\ op.scene \notin DOMAIN d.scenes
    THEN {}
    ELSE CASE op.type = "CreateScene" -> CreateScene(d, op)
           [] op.type = "SetProjectSetting" -> SetProjectSetting(d, op)
           [] op.type = "SetSceneRules" -> SetSceneRules(d, op)
           [] op.type = "CreateEntity" -> CreateEntity(d, op)
           [] op.type = "DeleteEntity" -> DeleteEntity(d, op)
           [] op.type = "SetComponent" -> SetComponent(d, op)
           [] op.type = "SetProperty" -> SetProperty(d, op)
           [] OTHER -> {}

\* No operation id twice in one batch.
DistinctIds(ops) ==
    \A i, k \in DOMAIN ops : ops[i].id = ops[k].id => i = k \/ ops[i].id = None

\* One command after the other.
After(d, ops) ==
    LET after[n \in 0 .. Len(ops)] ==
            IF n = 0 THEN {d}
            ELSE UNION {ApplyOne(now, ops[n]) : now \in after[n - 1]}
    IN after[Len(ops)]

\* The mutant takes what the last command gives.
ApplyUnchecked(d, ops) == IF DistinctIds(ops) THEN After(d, ops) ELSE {}

\* All the commands of a batch or none, and the whole document checked once more.
ApplyCommands(d, ops) ==
    IF Len(ops) \in 1 .. 100 /\ ValidDocument(d) /\ DistinctIds(ops)
    THEN {after \in After(d, ops) : ValidDocument(after)}
    ELSE {}
-------------------------------------------------------------------------------
(* What the runtime that loads a document relies on, said without the       *)
(* walks and the order of the checks above: it starts somewhere, nothing    *)
(* names what is not there, and no entity is above itself.                  *)
Sound(d) ==
    /\ d.entry \in DOMAIN d.scenes
    /\ \A s \in DOMAIN d.scenes :
         LET es == d.scenes[s].entities
             Named(t) == {es[id].parts[t] : id \in {i \in DOMAIN es : t \in DOMAIN es[i].parts}}
         IN /\ {es[id].parent : id \in DOMAIN es} \subseteq DOMAIN es \cup {None}
            /\ ~\E loop \in (SUBSET DOMAIN es) \ {{}} :
                   \A id \in loop : es[id].parent \in loop
            /\ Named("Spawner") \subseteq DOMAIN es
            /\ Named("Goal") \cup {d.scenes[s].rules} \subseteq DOMAIN d.scenes \cup {None}
            /\ \A id \in DOMAIN es : "Transform" \in DOMAIN es[id].parts
===============================================================================
