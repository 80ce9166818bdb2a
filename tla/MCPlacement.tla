------------------------------ MODULE MCPlacement ------------------------------
(* A small instance of Placement for TLC.  A behaviour is one of two scenes:   *)
(* two claims that run at once while nodes register, beat and age out; or one  *)
(* claim at a time while workers also stop, die and come back and holders      *)
(* release.                                                                    *)
EXTENDS Placement, TLC

CONSTANTS w1, w2, n1, n2, o1, c1, c2

TwoWorkers == {w1, w2}
TwoIds == {n1, n2}
OneObject == {o1}
TwoCalls == {c1, c2}

VARIABLE scene  \* the handlers that are called

SceneInit == Init /\ scene \in {{c1}, Calls}

SceneNext ==
  /\ Next /\ UNCHANGED scene
  /\ \A c \in Calls \ scene : claim'[c] = claim[c]
  /\ scene = Calls =>
       /\ up' = up
       /\ \A n \in NodeIds, o \in Objects : ~ReleaseLease(n, o)

\* The fairness of FairSpec, for the handlers of the scene.
SceneSpec ==
  /\ SceneInit /\ [][SceneNext]_<<vars, scene>>
  /\ WF_vars(Tick)
  /\ \A c \in Calls : WF_vars(ClaimStatement(c)) /\ WF_vars(c \in scene /\ Demand(c))
================================================================================
