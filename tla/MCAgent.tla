------------------------------ MODULE MCAgent ------------------------------
(***************************************************************************)
(* Small data planes for TLC: one entity, two behind one connection, and   *)
(* three behind two connections.                                           *)
(***************************************************************************)
EXTENDS Agent, TLC

CONSTANTS a, b, c,   \* URNs
          s1, s2,    \* source connections
          h1, h2     \* content hashes

Single == a :> s1
OneSource == a :> s1 @@ b :> s1
TwoSources == a :> s1 @@ b :> s1 @@ c :> s2
=============================================================================
