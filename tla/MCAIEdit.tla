------------------------------- MODULE MCAIEdit -------------------------------
(* AIEdit on a game of two scenes, with one proposal of each kind. *)
EXTENDS AIEdit

CONSTANTS s1, s2, e1, e2, e3, e4, e5, e6, o1

Drawn == [t \in Drawing |-> None]
Entity(parent, parts) == [parent |-> parent, parts |-> parts]

\* A hero, a spawner and its disabled template; the goal leads to the second scene.
Game ==
    [entry |-> s1, setting |-> "auto",
     scenes |->
        (s1 :> [rules |-> s2,
                entities |-> (e1 :> Entity(None, Drawn)
                              @@ e2 :> Entity(None, "Transform" :> None @@ "Spawner" :> e3)
                              @@ e3 :> Entity(None, "Transform" :> None @@ "Body" :> None))]
         @@ s2 :> [rules |-> None,
                   entities |-> (e1 :> Entity(None, "Transform" :> None @@ "Goal" :> s2))])]

Smaller == [Game EXCEPT !.scenes =
                s1 :> [rules |-> None, entities |-> (e1 :> Entity(None, Drawn))]]

ModelProposals ==
    {NoJSON,
     \* Gameplay in the other scene, under a parent of the entry scene.
     <<Command("CreateEntity", o1, s2, None, None, Entity(e1, "Goal" :> s1)),
       Command("SetProperty", None, s2, e1, "Transform", None)>>,
     \* The template of the spawner goes.
     <<Command("DeleteEntity", None, s1, e3, None, None)>>,
     \* Nothing an AI edit may do, and a value out of range.
     <<Command("SetComponent", None, s1, e2, "Spawner", e2),
       Command("CreateScene", None, s2, None, None, [rules |-> s1, entities |-> <<>>]),
       Command("SetComponent", None, s1, e1, "Sprite", Bad)>>}

EditorChanges ==
    {<<Command("CreateEntity", None, s1, e4, None, Entity(e1, Drawn)),
       Command("SetSceneRules", None, s2, None, None, s1),
       Command("SetProjectSetting", None, None, None, None, "portrait")>>,
     \* Refused: the template is needed, the second command would close a circle.
     <<Command("DeleteEntity", None, s1, e3, None, None)>>,
     <<Command("SetComponent", None, s2, e1, "Goal", s1),
       Command("CreateEntity", None, s1, e4, None, Entity(e4, Drawn))>>}

Rebuilt == {Smaller, [Game EXCEPT !.scenes[s2].rules = Bad]}
===============================================================================
