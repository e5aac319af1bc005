---------------------------- MODULE MC_Storage ----------------------------
(* StartDeal's epochs for Store's parameters (DealStartEpoch -1 and 0 use *)
(* the chain head, 5 is explicit) over heights 0..2, durations that are  *)
(* and are not a whole number of epochs, proving periods 3 and 4, and    *)
(* PeriodStart from -5 to 5: a miner's proving period can start before   *)
(* epoch 0 on a young chain.  LoadMiners is left without miners.         *)
EXTENDS Storage

NoAsks == [m \in {} |-> [price |-> 0, min |-> 0, max |-> 0]]
MCPeriodStarts == -5 .. 5
MCStartEpochs == {-1, 0, 5}
====
