----------------------------- MODULE MC_Helpers -----------------------------
(***************************************************************************)
(* The pure helpers of the repository checked together: ParseRegions and *)
(* ListMiners of regions.go (Regions), the helpers of repo.go (Utils),    *)
(* and LoadMiners of the storage client (Storage).                      *)
(* A state is one call, of any of the modules (each module sees its own   *)
(* calls and nothing of the others'), and whether it has returned; the    *)
(* properties relate a call's input to what the function returns.        *)
(* Region lists hold up to three of five names; tokens up to three bytes *)
(* (so that base64 pads and fills a group); flag values over "a" and ","; *)
(* bootstrap lists over four addresses: two of peer p1, one of p2 and one *)
(* that does not parse.  Miner lists hold up to three visits of three   *)
(* miners: m1 asks 1 for pieces of size 1, m2 asks 2 for sizes 1 to 2,   *)
(* m3 asks 1 for size 2; with RF 0 a third fitting visit is truncated.   *)
(* StartDeal's epochs are checked in MC_Storage.                         *)
(***************************************************************************)
EXTENDS Naturals, Sequences, SequencesExt

CONSTANTS x1, x2, x3, x4, p1, p2, m1, m2, m3

VARIABLES input, returned

MCAddrs == {x1, x2, x3, x4}
MCAddrInfo == (x1 :> [ok |-> TRUE, id |-> p1]) @@ (x2 :> [ok |-> TRUE, id |-> p2])
              @@ (x3 :> [ok |-> TRUE, id |-> p1]) @@ (x4 :> [ok |-> FALSE, id |-> p2])

RegionNames == {"Global", "Asia", "Europe", "Oceania", "Mars"}
RegionCalls == [fn : {"ParseRegions"}, names : BoundedSeq(RegionNames, 3)]

R == INSTANCE Regions WITH
         Names <- RegionNames, MaxNames <- 3,
         names <- IF input.fn = "ParseRegions" THEN input.names ELSE <<>>

U == INSTANCE Utils WITH
         TokenBytes <- {0, 97, 255}, MaxToken <- 3,
         ListBytes <- {97, 44}, MaxList <- 4,
         Addrs <- MCAddrs, AddrInfo <- MCAddrInfo, MaxBoot <- 3, MaxStarts <- 3,
         call <- input

MCAsks == (m1 :> [price |-> 1, min |-> 1, max |-> 1])
          @@ (m2 :> [price |-> 2, min |-> 1, max |-> 2])
          @@ (m3 :> [price |-> 1, min |-> 2, max |-> 2])

S == INSTANCE Storage WITH
         Addrs <- {m1, m2, m3}, Asks <- MCAsks, Latencies <- {1, 2},
         MaxAddrs <- 3, MaxPrices <- {1, 2}, PieceSizes <- {1, 2}, RFs <- {0},
         Heights <- {0}, DurationSecs <- {0}, StartEpochs <- {-1},
         Periods <- {3}, PeriodStarts <- {0},
         call <- input

Calls == RegionCalls \cup U!Calls \cup S!LoadCalls

Init == input \in Calls /\ returned = FALSE

\* The functions are pure: the call returns, and nothing else happens.
Return == ~returned /\ returned' = TRUE /\ UNCHANGED input

Next == Return
Spec == Init /\ [][Next]_<<input, returned>>

\* The properties of the three modules, over the calls of each.
ListMinersCorrect == R!ListMinersCorrect
ListValueRoundTrip == U!ListValueRoundTrip
BootstrapConnectsEachPeer == U!BootstrapConnectsEachPeer
IdentityStable == U!IdentityStable
LoadMinersKeepsFastest == S!LoadMinersKeepsFastest
====
