------------------------------ MODULE MC_Utils ------------------------------
(* Tokens of up to three bytes (so that base64 pads and fills a group),    *)
(* flag values over "a" and ",", and bootstrap lists over four addresses: *)
(* two of peer p1, one of p2 and one that does not parse.                 *)
EXTENDS Utils

CONSTANTS x1, x2, x3, x4, p1, p2

MCAddrs == {x1, x2, x3, x4}
MCAddrInfo == (x1 :> [ok |-> TRUE, id |-> p1]) @@ (x2 :> [ok |-> TRUE, id |-> p2])
              @@ (x3 :> [ok |-> TRUE, id |-> p1]) @@ (x4 :> [ok |-> FALSE, id |-> p2])
====
