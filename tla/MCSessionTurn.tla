---------------------------- MODULE MCSessionTurn ----------------------------
(***************************************************************************)
(* Small instances of SessionTurn.  A behaviour of SceneSpec is one of a   *)
(* scene: a few prompts, interjections and notifications, and the moves    *)
(* that clients and turns make.  The scene is chosen at the start and      *)
(* stays, so that one run checks every scene and none of their products.   *)
(***************************************************************************)
EXTENDS SessionTurn, TLC

CONSTANTS p1, p2, p3, i1, i2, w1, c1, s1, r1, n1, n2, alice, bob

OneOwner == [p \in Clients |-> alice]
TwoOwners == [p \in Clients |-> IF p = p1 THEN alice ELSE bob]
NoSource == [n \in Notifs |-> None]
FromWake == [n \in Notifs |-> IF n = n1 THEN w1 ELSE None]

CONSTANT Scenes  \* Wide, Narrow (temporal properties), Rewinding, Mixed
VARIABLE scene   \* the one of this behaviour: [cast, moves]

Scene(cast, moves) == [cast |-> cast, moves |-> moves]

Wide ==
  { Scene({p1, p2, p3}, {"sendNow", "edit"}),
    Scene({p1, p2}, {"sendNow", "cancel", "kill", "rewind", "shutdown"}),
    Scene({p1, p2, r1}, {"cancel"}),
    Scene({p1, i1, i2}, {"cancel"}),
    Scene({p1, i1}, {"goal"}),
    Scene({p1, p2, i1}, {"sendNow", "wait"}),
    Scene({p1, w1, n1, n2}, {"shutdown"}),
    Scene({p1, w1}, {"cancel"}),
    Scene({p1, p2, w1, s1}, {}),
    Scene({p1, w1, s1}, {"goal"}) }

Narrow ==
  { Scene({p1, p2}, {"sendNow", "cancel"}),
    Scene({p1, r1}, {"cancel"}),
    Scene({p1, i1, i2}, {"cancel"}) }

Rewinding == { Scene({p1, p2}, {"cancel", "rewind"}) }

\* For the last two properties of SessionTurn.
Mixed == { Scene({p1, p2, w1, c1}, {}), Scene({p1, n1, n2}, {}) }

\* A step of QueueCommand that changes something.
Edited ==
  /\ Listening /\ lockedBy = None /\ lockedBy' = None /\ seen' = seen
  /\ \/ mirror' # mirror \/ pc' = "start"
     \/ pc' = "cancelBegin" /\ cx'.sendNow

\* What a step of the scene may bring about.
InScene ==
  /\ Edited => "edit" \in scene.moves
  /\ seen' \subseteq scene.cast
  /\ pc' = "queueInput" /\ now' => "sendNow" \in scene.moves
  /\ pc' = "cancelBegin" /\ ~cx'.sendNow => "cancel" \in scene.moves
  /\ cx'.kill => "kill" \in scene.moves
  /\ cx'.rewind => "rewind" \in scene.moves
  /\ pc' = "closed" => "shutdown" \in scene.moves
  /\ waiting' => "wait" \in scene.moves
  /\ goal' => "goal" \in scene.moves

SceneNext == Next /\ InScene /\ UNCHANGED scene

SceneInit == Init /\ scene \in Scenes
SceneSpec == SceneInit /\ [][SceneNext]_<<vars, scene>>
FairSceneSpec == SceneSpec /\ Fairness
==============================================================================
