--------------------------- MODULE MCCommandEngine ---------------------------
(* CommandEngine for TLC: two identical queries, one of another kind and one   *)
(* command that may expect no reply.                                           *)
EXTENDS CommandEngine

CONSTANTS c1, c2, c3, c4

MCKey == c1 :> "time" @@ c2 :> "time" @@ c3 :> "groups" @@ c4 :> "recall"
=============================================================================
