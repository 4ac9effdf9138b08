------------------------------ MODULE MCWriter ------------------------------
(* An instance of Writer.                                                  *)
EXTENDS Writer, TLC

(* Two scenes: three requests at one instant, or two requests of every     *)
(* kind while the clock moves.                                             *)
VARIABLE scene

CONSTANT r3

Staged ==
  /\ scene = "crowd" => now' = now /\ \A r \in Reqs : req'[r].act.k # "note" /\ req'[r].act.t < 2
  /\ scene = "clock" => req'[r3] = req[r3]

SceneInit == Init /\ scene \in {"crowd", "clock"}

SceneSpec ==
  /\ SceneInit
  /\ [][Next /\ Staged /\ UNCHANGED scene]_<<vars, scene>>
  /\ Fairness
=============================================================================
