------------------------------ MODULE Generator ------------------------------
(***************************************************************************)
(* What becomes of the commands a model proposes (backend/internal/ai:     *)
(* provider.go, sanitize.go): cut down to what an AI edit may do, tried on *)
(* the document, and replaced by a basic scene when nothing else is left.  *)
(***************************************************************************)
EXTENDS Documents, SequencesExt

EntrySceneEntities(d) == DOMAIN d.scenes[d.entry].entities

\* NewUUID: the ids of new entities that have none, unlike those of the scene, of
\* the commands and of each other.
FreshIds(d, ops, missing) ==
    CHOOSE fresh \in [missing -> EntityIds \ (EntrySceneEntities(d)
                                            \cup {ops[i].entity : i \in DOMAIN ops})] :
        IsInjective(fresh)

Named(d, ops) ==
    LET missing == {i \in DOMAIN ops : ops[i].type = "CreateEntity" /\ ops[i].entity = None}
        fresh == FreshIds(d, ops, missing)
    IN [i \in DOMAIN ops |->
           IF i \in missing THEN [ops[i] EXCEPT !.entity = fresh[i]] ELSE ops[i]]

\* A value of the wrong kind is replaced by a default; a number out of range stays.
SanitizedComponent(c) == IF c = Bad THEN Bad ELSE None

\* Components that do more than draw are dropped, an unknown parent is forgotten,
\* a missing Transform is added.
SanitizedEntity(known, e) ==
    LET kept == DOMAIN e.parts \cap Drawing IN
    [parent |-> IF e.parent \in known THEN e.parent ELSE None,
     parts |-> [t \in kept \cup {"Transform"} |->
                   IF t \in kept THEN SanitizedComponent(e.parts[t]) ELSE None]]

\* The mutant leaves a command where the model wanted it.
SanitizedInPlace(d, known, op) ==
    CASE op.type = "CreateEntity" ->
             <<[op EXCEPT !.value = SanitizedEntity(known, @)]>>
      [] op.type = "DeleteEntity" /\ op.entity \in known -> <<op>>
      [] op.type \in {"SetComponent", "SetProperty"} /\ op.entity \in known
             /\ op.part \in Drawing -> <<[op EXCEPT !.value = SanitizedComponent(@)]>>
      [] op.type = "SetProjectSetting" -> <<op>>
      [] OTHER -> <<>>

\* One command, or nothing of it; the scene is the entry scene whatever it says.
Sanitized(d, known, op) ==
    LET here == [op EXCEPT !.scene = d.entry] IN
    CASE op.type = "CreateEntity" ->
             <<[here EXCEPT !.value = SanitizedEntity(known, @)]>>
      [] op.type = "DeleteEntity" /\ op.entity \in known -> <<here>>
      [] op.type \in {"SetComponent", "SetProperty"} /\ op.entity \in known
             /\ op.part \in Drawing -> <<[here EXCEPT !.value = SanitizedComponent(@)]>>
      [] op.type = "SetProjectSetting" -> <<op>>
      [] OTHER -> <<>>

\* sanitizeOps; what a command creates is known to those after it, and what it
\* deletes stays known.
Sanitize(d, ops) ==
    LET named == Named(d, ops)
        Known(i) == EntrySceneEntities(d) \cup
            {named[k].entity : k \in {j \in 1 .. i - 1 : named[j].type = "CreateEntity"}}
    IN FlattenSeq([i \in DOMAIN ops |-> Sanitized(d, Known(i), named[i])])

\* Hero, ground and block, of which one stands for all.
FallbackOps(d) ==
    Named(d, <<Command("CreateEntity", None, d.entry, None, None,
                       [parent |-> None, parts |-> [t \in Drawing |-> None]])>>)

\* The mutant trusts the sanitizer.
UsableIfAny(d, ops) == ops # <<>>

\* Something is left, and it applies to the document the model was shown.
Usable(d, ops) == ApplyCommands(d, ops) # {}
===============================================================================
