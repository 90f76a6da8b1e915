--------------------------- MODULE MCFactorScenes ---------------------------
(***************************************************************************)
(* Two scenes of SecondFactor in one run: an enrolled account is signed in *)
(* to and its factor removed while the windows go by, or its methods       *)
(* change.                                                                 *)
(***************************************************************************)
EXTENDS MCSecondFactor

VARIABLE scene

scenes == <<vars, scene>>

SignIns == {"login", "challenge", "remove all"}
WithinScene ==
    IF scene = "sign-in" THEN \A r \in Requests : req[r].op \in SignIns \cup {None}
    ELSE clock = 1 /\ \A r \in Requests : req[r].op \notin SignIns

SceneInit ==
    /\ Init /\ scene \in {"sign-in", "change"}
    /\ scene = "sign-in" => factor # NoFactor /\ pending = [s \in Sessions |-> [m \in Methods |-> None]]

SceneNext == scene' = scene /\ Next /\ WithinScene'
ScenesSpec == SceneInit /\ [][SceneNext]_scenes
=============================================================================
