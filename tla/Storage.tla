------------------------------- MODULE Storage -------------------------------
(***************************************************************************)
(* The storage client of package storage (bundled in src/go.mod): how     *)
(* LoadMiners picks the miners to store with, and how StartDeal computes  *)
(* the epochs of the deal it proposes.  Both are sequential; what comes  *)
(* from the chain or the network (miner info, connect, ping, the ask,     *)
(* the chain head, the miner's proving deadline) is an input of the call. *)
(* The one variable is the call under examination.                       *)
(***************************************************************************)
EXTENDS Integers, Sequences, SequencesExt, Functions, Bags

CONSTANTS
    Addrs,        \* miner addresses ListMiners may return
    Asks,         \* Asks[a]: the StorageAsk of miner a: price, min and max piece size
    Latencies,    \* ping round-trip times
    MaxAddrs,     \* longest miner list checked
    MaxPrices,    \* MinerSelectionParams.MaxPrice values
    PieceSizes,   \* MinerSelectionParams.PieceSize values
    RFs,          \* MinerSelectionParams.RF values
    Heights,      \* chain heights ChainHead may return
    DurationSecs, \* deal durations, in seconds
    StartEpochs,  \* StartDealParams.DealStartEpoch values
    Periods,      \* WPoStProvingPeriod values
    PeriodStarts  \* dline.Info.PeriodStart values

VARIABLE call  \* the call under examination: which function, and its input

\* What one iteration of LoadMiners meets for an address: StateMinerInfo
\* fails or reports no peer id, Connect fails, the ping fails, the context
\* is done while waiting for the ping, or the ping answers with an RTT and
\* GetAsk then fails or returns the miner's ask.
EarlySteps == {"infoErr", "connErr", "pingErr", "ctxDone"}
Outcomes == {[step |-> s, rtt |-> 0] : s \in EarlySteps}
            \cup {[step |-> s, rtt |-> r] : s \in {"ask", "askErr"}, r \in Latencies}

-----------------------------------------------------------------------------
(* LoadMiners                                                               *)

\* The ask checks: the price is not above MaxPrice and the piece fits.
AskFits(msp, a) ==
    /\ ~(msp.MaxPrice < Asks[a].price)
    /\ ~(msp.PieceSize > Asks[a].max \/ msp.PieceSize < Asks[a].min)

\* One iteration of the loop over addrs, on the state of the loop: the
\* miners selected so far, the latencies recorded, and whether the
\* function has returned (with nil and an error, or with sel and ctx.Err()).
VisitMiner(msp, acc, v) ==
    IF acc.ret # "loop" THEN acc
    ELSE CASE v.out.step = "infoErr" -> [acc EXCEPT !.ret = "err"]
           [] v.out.step \in {"connErr", "pingErr"} -> acc
           [] v.out.step = "ctxDone" -> [acc EXCEPT !.ret = "ctx"]
           [] OTHER ->
                LET lats == [acc.lats EXCEPT ![v.a] = v.out.rtt]
                IN  IF v.out.step = "ask" /\ AskFits(msp, v.a)
                      THEN [acc EXCEPT !.lats = lats, !.sel = Append(@, v.a)]
                      ELSE [acc EXCEPT !.lats = lats]

\* sort.Slice by latency is not stable: any order of sel sorted by lats.
SortByLatency(sel, lats) ==
    {s \in {[i \in DOMAIN sel |-> sel[f[i]]] : f \in Bijection(DOMAIN sel, DOMAIN sel)} :
        IsSorted(s, LAMBDA x, y : lats[x] <= lats[y])}

\* Mutant of KeepLowest: the slice keeps RF + 1 miners.
KeepLowestOneLess(s, rf) ==
    IF Len(s) > rf + 1 THEN SubSeq(s, 1, rf + 1) ELSE s

\* Only keep the lowest latencies: RF + 2 of them.
KeepLowest(s, rf) ==
    LET l == rf + 2
    IN  IF Len(s) > l THEN SubSeq(s, 1, l) ELSE s

\* LoadMiners(msp) over the addresses ListMiners returned, each with what
\* its iteration meets: the set of results it may return.
LoadMiners(msp, visits) ==
    LET acc == FoldLeft(LAMBDA x, v : VisitMiner(msp, x, v),
                        [sel |-> <<>>, lats |-> [a \in Addrs |-> 0], ret |-> "loop"],
                        visits)
    IN  CASE acc.ret = "err" -> {[err |-> TRUE, miners |-> <<>>]}
          [] acc.ret = "ctx" -> {[err |-> TRUE, miners |-> acc.sel]}
          [] OTHER -> {[err |-> FALSE, miners |-> KeepLowest(s, msp.RF)]
                         : s \in SortByLatency(acc.sel, acc.lats)}

-----------------------------------------------------------------------------
(* StartDeal's epochs                                                       *)

\* builtin.EpochDurationSeconds, and the hours of buffer before a deal starts.
BlockDelaySecs == 30
DealStartBufferHours == 49

\* calcEpochs: a time.Duration divided by the epoch duration.
CalcEpochs(secs) == secs \div BlockDelaySecs

\* Go's % on int64: the remainder has the sign of the dividend.
GoRem(a, b) == IF a >= 0 THEN a % b ELSE -((-a) % b)

\* calcDealExpiration: minExp = start + duration, aligned on the miner's
\* proving period boundary.
CalcDealExpiration(minDuration, md, startEpoch) ==
    LET minExp == startEpoch + minDuration
    IN  minExp + md.period - GoRem(minExp, md.period)
          + GoRem(md.periodStart, md.period) - 1

\* StartDeal: an unset start (<= 0) is the chain height plus the buffer.
DealStart(dealStartEpoch, height) ==
    IF dealStartEpoch <= 0
      THEN height + DealStartBufferHours * ((60 * 60) \div BlockDelaySecs)
      ELSE dealStartEpoch

\* The StartEpoch and EndEpoch StartDeal proposes, for Store's parameters
\* (MinBlocksDuration = calcEpochs(Duration)).
ProposedEpochs(c) ==
    LET start == DealStart(c.dealStartEpoch, c.height)
    IN  [start |-> start,
         end |-> CalcDealExpiration(CalcEpochs(c.dur), c.md, start)]

-----------------------------------------------------------------------------
(* Store                                                                    *)

\* Store: one StartDeal per miner, in order, each with DealStartEpoch -1;
\* proposed[i] is whether the i-th StartDeal got its proposal through
\* (every earlier error of StartDeal returns before ProposeStorageDeal).
\* The first failure returns nil and the error.  A proposal is named by
\* its position; made is the proposals the miners received.
Store(miners, proposed) ==
    LET firstFail == {i \in DOMAIN miners : ~proposed[i]}
        n == IF firstFail = {} THEN Len(miners) + 1 ELSE Min(firstFail)
        made == [i \in 1 .. n - 1 |-> i]
    IN  IF firstFail = {}
          THEN [err |-> FALSE, miners |-> miners, dealRefs |-> made, made |-> made]
          ELSE [err |-> TRUE, miners |-> <<>>, dealRefs |-> <<>>, made |-> made]

-----------------------------------------------------------------------------
Visits == {[a |-> a, out |-> o] : a \in Addrs, o \in Outcomes}
Params == [MaxPrice : MaxPrices, PieceSize : PieceSizes, RF : RFs]

LoadCalls == [fn : {"LoadMiners"}, msp : Params, visits : BoundedSeq(Visits, MaxAddrs)]
DealCalls == [fn : {"StartDeal"}, height : Heights, dur : DurationSecs,
              dealStartEpoch : StartEpochs,
              md : [period : Periods, periodStart : PeriodStarts]]
StoreCalls == UNION {[fn : {"Store"}, miners : {m}, proposed : [DOMAIN m -> BOOLEAN]]
                      : m \in BoundedSeq(Addrs, MaxAddrs)}
Calls == LoadCalls \cup DealCalls \cup StoreCalls

Init == call \in Calls
Next == call' \in Calls
Spec == Init /\ [][Next]_call

TypeOK == call \in Calls

\* (LoadMiners, "Only keep the lowest latencies") When LoadMiners returns
\* without error, it returns RF + 2 of the miners that were reachable and
\* whose ask fits, or all of them if fewer, fastest first by the latency
\* last measured for each, and no miner it leaves out is faster than one
\* it keeps.  Addresses may repeat (ListMiners returns duplicates).
LoadMinersKeepsFastest ==
    call.fn = "LoadMiners" =>
        LET fits == SelectSeq(call.visits,
                        LAMBDA v : /\ v.out.step = "ask"
                                   /\ Asks[v.a].price <= call.msp.MaxPrice
                                   /\ call.msp.PieceSize \in Asks[v.a].min .. Asks[v.a].max)
            elig == [i \in DOMAIN fits |-> fits[i].a]
            measured(a) == {i \in DOMAIN call.visits :
                                call.visits[i].a = a /\ call.visits[i].out.step \in {"ask", "askErr"}}
            lat(a) == call.visits[Max(measured(a))].out.rtt
            l == call.msp.RF + 2
        IN  \A r \in LoadMiners(call.msp, call.visits) : ~r.err =>
              /\ Len(r.miners) = IF Len(elig) < l THEN Len(elig) ELSE l
              /\ IsSorted(r.miners, LAMBDA x, y : lat(x) <= lat(y))
              /\ ToBag(r.miners) \sqsubseteq ToBag(elig)
              /\ \A a \in ToSet(elig), b \in ToSet(r.miners) :
                    CopiesIn(a, ToBag(elig)) > CopiesIn(a, ToBag(r.miners))
                      => lat(b) <= lat(a)

\* (calcDealExpiration: "Make sure we give some time for the miner to
\* seal", "Align on miners ProvingPeriodBoundary") A deal StartDeal
\* proposes ends on the last epoch of one of the miner's proving periods,
\* no earlier than its start plus the requested duration and less than
\* two periods after that, whatever the miner's PeriodStart.
DealEndsOnProvingBoundary ==
    call.fn = "StartDeal" =>
        LET e == ProposedEpochs(call)
            minExp == e.start + CalcEpochs(call.dur)
            p == call.md.period
        IN  /\ e.end >= minExp
            /\ e.end < minExp + 2 * p
            /\ (e.end + 1 - call.md.periodStart) % p = 0
====
