----------------------------- MODULE MC_Supply -----------------------------
(* Three nodes: a and b hold payload q1, b also q2, c holds nothing.       *)
(* a is in Global, b in Global and Europe, c in Europe only, so a and c   *)
(* do not share a subnet.  a dispatches q1 (d1); b dispatches q2 (d2), and *)
(* in the core setting dispatches q2 a second time (d3).                  *)
EXTENDS Supply, TLC

CONSTANTS a, b, c, q1, q2, d1, d2, d3

MCNodes == {a, b, c}
MCCIDs == {q1, q2}
MCDispatches == {d1, d2}
MCOwner == (d1 :> a) @@ (d2 :> b) @@ (d3 :> b)
MCPayload == (d1 :> q1) @@ (d2 :> q2) @@ (d3 :> q2)
MCRegionsOf == (a :> {"Global"}) @@ (b :> {"Global", "Europe"})
               @@ (c :> {"Europe"})
\* Fully connected: d1 can only reach b, which already holds q1; d2 picks
\* one of a and c, because the cap is 1.
MCConns == [n \in MCNodes |-> MCNodes \ {n}]
MCInitIndex == (a :> (q1 :> 1 @@ q2 :> 0)) @@ (b :> (q1 :> 1 @@ q2 :> 2))
               @@ (c :> (q1 :> 0 @@ q2 :> 0))
MCNoRemove == {}
MCRemove == {<<c, q2>>}

\* The core setting: a's only connection, c, shares no region with it, so
\* d1 finds no peers; b is connected to a and c and dispatches q2 twice,
\* each time to one of them, so that two dispatches of one payload share
\* b's bus and c may get two requests for q2; callers may close and c's
\* user may remove q2.
MCDispatchesCore == {d1, d2, d3}
MCConnsCore == (a :> {c}) @@ (b :> {a, c}) @@ (c :> {a, b})
====
