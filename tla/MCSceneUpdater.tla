--------------------------- MODULE MCSceneUpdater ---------------------------
(* Small instances of SceneUpdater for TLC *)
EXTENDS SceneUpdater

\* Enough tiles for a loop to be counted and the robot to come home without.
ASSUME LoopsHappen == Cardinality(Tiles) > LoopTiles + 1
=============================================================================
