---------------------------- MODULE MC_Retrieval ----------------------------
(* Three nodes and two deal ids.  In the first setting a and c retrieve   *)
(* from b, so b serves two clients that may pick the same deal id; in the  *)
(* second a and b retrieve from each other.                               *)
EXTENDS Retrieval

CONSTANTS a, b, c

MCNodes == {a, b, c}
ClientsOfB == {<<a, b>>, <<c, b>>}
EachOther == {<<a, b>>, <<b, a>>}
====
