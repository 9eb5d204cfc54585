--------------------------- MODULE MCLevelTracking ---------------------------
(* Two queries of the level, which may take each other's replies, and two
   commands that set it. *)
EXTENDS LevelTracking, TLC

CONSTANTS c1, c2, c3, c4

MCKey == c1 :> "query" @@ c2 :> "query" @@ c3 :> "set" @@ c4 :> "set"
MCLevel == c3 :> 100 @@ c4 :> 0
=============================================================================
