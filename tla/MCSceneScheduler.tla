-------------------------- MODULE MCSceneScheduler --------------------------
(* Instances of SceneScheduler; their constants are given in the cfg files. *)
EXTENDS SceneScheduler
=============================================================================
