------------------------------- MODULE Supply -------------------------------
(***************************************************************************)
(* The content-supply core of a pop node (package supply), for a set of   *)
(* nodes that dispatch payloads to each other.  Per node it keeps the     *)
(* content index (payload CID -> store id), the multistore (its id        *)
(* counter and the stores opened so far), the validator's authorization  *)
(* table and the data-transfer event bus.  A dispatch and each inbound    *)
(* transfer is a thread of its own; their steps interleave.               *)
(*                                                                         *)
(* The data-transfer manager and the event bus (go-data-transfer,         *)
(* go-pubsub) are environment: a pull channel is requested, validated by  *)
(* the provider, then completes or fails, and each outcome is published   *)
(* as an event on both nodes.  A publication holds the bus read lock      *)
(* while it calls every subscriber in turn; Subscribe and Unsubscribe     *)
(* take the write lock, and a waiting writer keeps new readers out.       *)
(***************************************************************************)
EXTENDS Naturals, FiniteSets, FiniteSetsExt

CONSTANTS
    Nodes,            \* peer ids
    CIDs,             \* payload root CIDs
    Dispatches,       \* one Dispatch call each
    Owner,            \* Owner[d]: the node that calls Dispatch d
    Payload,          \* Payload[d]: the Request's PayloadCID
    RegionsOf,        \* RegionsOf[n]: names of the regions node n was built with
    Conns,            \* Conns[n]: peers node n is connected to
    MaxReceiverCount, \* the receiver cap (7 in the code)
    MaxStoreId,       \* bound on the multistore counter
    InitIndex,        \* InitIndex[n][q]: store registered for q at start, 0 if none
    CallerMayClose,   \* whether the Dispatch caller ever calls Response.Close
    RemoveTargets     \* <<n, q>>: node n's user may call RemoveContent(q)

ASSUME MaxReceiverCount \in Nat \ {0}

VARIABLES
    index,    \* index[n][q]: store id of q's content record at n, NoRecord if none
    counter,  \* counter[n]: the last id handed out by n's multistore Next
    stores,   \* stores[n]: ids of the stores n's multistore has open
    held,     \* held[n][s]: payloads written completely into store s of n
    auth,     \* auth[n][q]: peers n's validator authorized to pull q
    disp,     \* disp[d]: the state of Dispatch d and of its Response
    xfer,     \* xfer[<<d, p>>]: the request of d to p and the pull it starts
    pending,  \* pending[n]: transfer events n's manager has yet to publish
    inpub,    \* inpub[n]: publications blocked on a dispatch subscriber
    writers,  \* writers[n]: dispatches waiting for the bus write lock
    removing  \* removing[n][q]: store a RemoveContent(q) deleted, record not yet

vars == <<index, counter, stores, held, auth, disp, xfer, pending, inpub,
          writers, removing>>

NoRecord == 0                 \* no content record; also n's default blockstore
StoreIds == 0 .. MaxStoreId
Keys == Dispatches \X Nodes

Phases == {"idle", "sub_wait", "subscribed", "sending", "returned", "nopeers",
           "close_wait", "closed"}
Stages == {"none", "sent", "lost", "aborted", "indexed", "requested",
           "rejected", "ongoing", "completed", "failed"}
Events == [code : {"Completed", "Error"}, key : Keys, cid : CIDs,
           recipient : Nodes]

-----------------------------------------------------------------------------
(* Helpers translated from supply.go                                        *)

\* protoRegions(RequestProtocol, regions): one protocol id per region.  The
\* id "/myel/supply/dispatch/1.0/<name>" is determined by the name alone.
ProtoRegions(rs) == {<<"/myel/supply/dispatch/1.0", r>> : r \in rs}

\* The peers selectProviders keeps before the cap: connected, not ourselves,
\* and the peerstore reports at least one of our region protocols.
Eligible(n) ==
    {m \in Conns[n] \ {n} :
        ProtoRegions(RegionsOf[m]) \cap ProtoRegions(RegionsOf[n]) # {}}

\* Mutant of Authorize: the grant is never recorded.
AuthorizeNone(a, q, ps) == a

\* Validator.Authorize of every selected peer: the set is created lazily
\* and only ever grows.
Authorize(a, q, ps) == [a EXCEPT ![q] = @ \cup ps]

\* Validator.ValidatePull: an entry for baseCid that contains the receiver.
ValidatePullOk(n, q, p) == p \in auth[n][q]

\* The store a TransportConfigurer routes a channel of q through on node n:
\* GetStore(q) via GetStoreID; when the record is missing it only warns
\* and the transport keeps n's default blockstore.
ConfiguredStore(n, q) == index[n][q]

\* Mutant of OpenStore: a missing record (id 0) is opened as a store.
OpenStoreAnyId(n, s) == stores[n] \cup {s}

\* multistore Get(s) opens the store, creating it when absent.
OpenStore(n, s) == IF s = NoRecord THEN stores[n] ELSE stores[n] \cup {s}

\* A subscription is live from SubscribeToEvents until unsub() ran.
Subscribed(d) ==
    disp[d].phase \in {"subscribed", "sending", "returned", "nopeers",
                       "close_wait"}

\* The event each side of the pull channel k publishes when it ends.
EndEvents(k, code) ==
    LET ev == [code |-> code, key |-> k, cid |-> Payload[k[1]],
               recipient |-> k[2]]
    IN  [pending EXCEPT ![k[2]] = @ \cup {ev}, ![Owner[k[1]]] = @ \cup {ev}]

-----------------------------------------------------------------------------
Init ==
    /\ index = InitIndex
    /\ counter = [n \in Nodes |-> Max({InitIndex[n][q] : q \in CIDs})]
    /\ stores = [n \in Nodes |-> {InitIndex[n][q] : q \in CIDs} \ {NoRecord}]
    /\ held = [n \in Nodes |-> [s \in StoreIds |->
                  {q \in CIDs : InitIndex[n][q] = s /\ s # NoRecord}]]
    /\ auth = [n \in Nodes |-> [q \in CIDs |-> {}]]
    /\ disp = [d \in Dispatches |-> [phase |-> "idle", providers |-> {},
                  unsent |-> {}, count |-> 0, recs |-> {}]]
    /\ xfer = [k \in Keys |-> [stage |-> "none", store |-> NoRecord,
                  srv |-> NoRecord]]
    /\ pending = [n \in Nodes |-> {}]
    /\ inpub = [n \in Nodes |-> {}]
    /\ writers = [n \in Nodes |-> {}]
    /\ removing = [n \in Nodes |-> [q \in CIDs |-> NoRecord]]

-----------------------------------------------------------------------------
(* Supply.Dispatch, one step per point where another thread can interleave *)

\* Dispatch is called: SubscribeToEvents asks for the bus write lock.
StartDispatch(d) ==
    /\ disp[d].phase = "idle"
    /\ disp' = [disp EXCEPT ![d].phase = "sub_wait"]
    /\ writers' = [writers EXCEPT ![Owner[d]] = @ \cup {d}]
    /\ UNCHANGED <<index, counter, stores, held, auth, xfer, pending, inpub,
                   removing>>

\* The write lock is granted once no publication holds the read lock; the
\* Completed-event callback is installed before any receiver is selected.
Subscribe(d) ==
    /\ disp[d].phase = "sub_wait"
    /\ inpub[Owner[d]] = {}
    /\ disp' = [disp EXCEPT ![d].phase = "subscribed"]
    /\ writers' = [writers EXCEPT ![Owner[d]] = @ \ {d}]
    /\ UNCHANGED <<index, counter, stores, held, auth, xfer, pending, inpub,
                   removing>>

\* selectProviders finds no eligible peer: Dispatch returns ErrNoPeers with
\* the Response, whose subscription stays installed.
SelectNoPeers(d) ==
    /\ disp[d].phase = "subscribed"
    /\ Eligible(Owner[d]) = {}
    /\ disp' = [disp EXCEPT ![d].phase = "nopeers"]
    /\ UNCHANGED <<index, counter, stores, held, auth, xfer, pending, inpub,
                   writers, removing>>

\* selectProviders keeps the first MaxReceiverCount eligible peers in the
\* (unspecified) connection order, then every one of them is authorized
\* for the payload and Count is set, all before the first request is sent.
SelectProviders(d) ==
    LET n == Owner[d]
        el == Eligible(n)
    IN  /\ disp[d].phase = "subscribed"
        /\ el # {}
        /\ \E ps \in kSubset(Min({Cardinality(el), MaxReceiverCount}), el) :
              /\ auth' = [auth EXCEPT ![n] = Authorize(@, Payload[d], ps)]
              /\ disp' = [disp EXCEPT ![d].phase = "sending",
                            ![d].providers = ps, ![d].unsent = ps,
                            ![d].count = Cardinality(ps)]
        /\ UNCHANGED <<index, counter, stores, held, xfer, pending, inpub,
                       writers, removing>>

\* sendAllRequests, one peer: NewRequestStream, WriteRequest, Close.  A
\* failed open or write is swallowed and the loop goes on; after the last
\* peer Dispatch returns the Response.
SendRequest(d, p) ==
    /\ disp[d].phase = "sending"
    /\ p \in disp[d].unsent
    /\ \E delivered \in BOOLEAN :
          xfer' = [xfer EXCEPT ![<<d, p>>].stage =
                                  IF delivered THEN "sent" ELSE "lost"]
    /\ disp' = [disp EXCEPT ![d].unsent = @ \ {p},
                  ![d].phase = IF disp[d].unsent = {p} THEN "returned"
                                                        ELSE "sending"]
    /\ UNCHANGED <<index, counter, stores, held, auth, pending, inpub,
                   writers, removing>>

-----------------------------------------------------------------------------
(* handler.HandleRequest on the receiving peer p                           *)

\* ReadRequest, ms.Next and PutRecord(PayloadCID -> new store id): the
\* record overwrites whatever record p already had for that payload.
HandleRequest(d, p) ==
    LET q == Payload[d]
        sid == counter[p] + 1
    IN  /\ xfer[<<d, p>>].stage = "sent"
        /\ counter[p] < MaxStoreId
        /\ counter' = [counter EXCEPT ![p] = sid]
        /\ index' = [index EXCEPT ![p][q] = sid]
        /\ xfer' = [xfer EXCEPT ![<<d, p>>].stage = "indexed"]
        /\ UNCHANGED <<stores, held, auth, disp, pending, inpub, writers,
                       removing>>

\* ReadRequest fails (nothing else happens) or PutRecord fails after
\* ms.Next handed out an id: the handler returns and closes the stream.
HandleRequestFails(d, p) ==
    /\ xfer[<<d, p>>].stage = "sent"
    /\ counter[p] < MaxStoreId
    /\ counter' \in {counter, [counter EXCEPT ![p] = @ + 1]}
    /\ xfer' = [xfer EXCEPT ![<<d, p>>].stage = "aborted"]
    /\ UNCHANGED <<index, stores, held, auth, disp, pending, inpub, writers,
                   removing>>

\* OpenPullDataChannel: the manager runs our TransportConfigurer for the
\* new channel, which looks the payload up in the index now, opens that
\* store and routes the channel's writes through it, then sends the pull.
OpenPull(d, p) ==
    LET s == ConfiguredStore(p, Payload[d])
    IN  /\ xfer[<<d, p>>].stage = "indexed"
        /\ stores' = [stores EXCEPT ![p] = OpenStore(p, s)]
        /\ xfer' = [xfer EXCEPT ![<<d, p>>].stage = "requested",
                                ![<<d, p>>].store = s]
        /\ UNCHANGED <<index, counter, held, auth, disp, pending, inpub,
                       writers, removing>>

-----------------------------------------------------------------------------
(* The pull channel, driven by the data-transfer manager                   *)

\* The provider's manager runs our TransportConfigurer (the store its
\* index names for the payload) and Validator.ValidatePull; a refused
\* pull ends the channel with an Error event on both sides.
ValidatePull(d, p) ==
    LET k == <<d, p>>
        o == Owner[d]
        q == Payload[d]
    IN  /\ xfer[k].stage = "requested"
        /\ IF ValidatePullOk(o, q, p)
              THEN /\ stores' = [stores EXCEPT ![o] =
                                    OpenStore(o, ConfiguredStore(o, q))]
                   /\ xfer' = [xfer EXCEPT ![k].stage = "ongoing",
                                 ![k].srv = ConfiguredStore(o, q)]
                   /\ UNCHANGED pending
              ELSE /\ xfer' = [xfer EXCEPT ![k].stage = "rejected"]
                   /\ pending' = EndEvents(k, "Error")
                   /\ UNCHANGED stores
        /\ UNCHANGED <<index, counter, held, auth, disp, inpub, writers,
                       removing>>

\* The whole DAG is read from the provider's store and written into the
\* store the receiver's configurer chose; both sides publish Completed.
CompleteTransfer(d, p) ==
    LET k == <<d, p>>
        s == xfer[k].store
    IN  /\ xfer[k].stage = "ongoing"
        /\ xfer[k].srv \in stores[Owner[d]]
        /\ Payload[d] \in held[Owner[d]][xfer[k].srv]
        /\ s = NoRecord \/ s \in stores[p]
        /\ held' = [held EXCEPT ![p][s] = @ \cup {Payload[d]}]
        /\ xfer' = [xfer EXCEPT ![k].stage = "completed"]
        /\ pending' = EndEvents(k, "Completed")
        /\ UNCHANGED <<index, counter, stores, auth, disp, inpub, writers,
                       removing>>

\* The channel fails (network, missing blocks, a store deleted under it);
\* both sides publish Error.
FailTransfer(d, p) ==
    LET k == <<d, p>>
    IN  /\ xfer[k].stage \in {"requested", "ongoing"}
        /\ xfer' = [xfer EXCEPT ![k].stage = "failed"]
        /\ pending' = EndEvents(k, "Error")
        /\ UNCHANGED <<index, counter, stores, held, auth, disp, inpub,
                       writers, removing>>

-----------------------------------------------------------------------------
(* The event bus of node n and its subscribers                             *)

\* Dispatch callbacks of n that an event blocks on: a Completed channel
\* whose BaseCID is the dispatched payload, sent on the unbuffered
\* recordChan.
Waiting(n, e) ==
    {d \in Dispatches : /\ Owner[d] = n /\ Subscribed(d)
                        /\ e.code = "Completed" /\ e.cid = Payload[d]}

\* Publish takes the read lock (not while a writer waits) and calls the
\* subscribers in subscription order: first the one New installed, which
\* on an Error whose recipient is n removes the payload's content record,
\* then the dispatch callbacks, each blocking until its record is taken.
Publish(n, e) ==
    /\ e \in pending[n]
    /\ writers[n] = {}
    /\ pending' = [pending EXCEPT ![n] = @ \ {e}]
    /\ index' = IF e.code = "Error" /\ e.recipient = n
                   THEN [index EXCEPT ![n][e.cid] = NoRecord]
                   ELSE index
    /\ inpub' = IF Waiting(n, e) = {} THEN inpub
                ELSE [inpub EXCEPT ![n] = @ \cup
                        {[ev |-> e, waiting |-> Waiting(n, e)]}]
    /\ UNCHANGED <<counter, stores, held, auth, disp, xfer, writers,
                   removing>>

\* Response.Next: the caller takes the record a blocked callback offers,
\* PRecord{Provider: the channel's recipient, PayloadCID: its BaseCID}.
Next(d) ==
    LET n == Owner[d]
    IN  /\ disp[d].phase \in {"returned", "nopeers"}
        /\ \E pub \in inpub[n] :
              /\ d \in pub.waiting
              /\ disp' = [disp EXCEPT ![d].recs =
                            @ \cup {<<pub.ev.recipient, pub.ev.cid>>}]
              /\ inpub' = [inpub EXCEPT ![n] =
                            (@ \ {pub}) \cup
                            IF pub.waiting = {d} THEN {}
                            ELSE {[pub EXCEPT !.waiting = @ \ {d}]}]
        /\ UNCHANGED <<index, counter, stores, held, auth, xfer, pending,
                       writers, removing>>

\* Response.Close: unsub() asks for the bus write lock ...
Close(d) ==
    /\ CallerMayClose
    /\ disp[d].phase \in {"returned", "nopeers"}
    /\ disp' = [disp EXCEPT ![d].phase = "close_wait"]
    /\ writers' = [writers EXCEPT ![Owner[d]] = @ \cup {d}]
    /\ UNCHANGED <<index, counter, stores, held, auth, xfer, pending, inpub,
                   removing>>

\* ... and once no publication is blocked, removes the callback and closes
\* recordChan.
Unsubscribe(d) ==
    /\ disp[d].phase = "close_wait"
    /\ inpub[Owner[d]] = {}
    /\ disp' = [disp EXCEPT ![d].phase = "closed"]
    /\ writers' = [writers EXCEPT ![Owner[d]] = @ \ {d}]
    /\ UNCHANGED <<index, counter, stores, held, auth, xfer, pending, inpub,
                   removing>>

-----------------------------------------------------------------------------
(* Supply.RemoveContent(root) on node n                                    *)

\* GetStoreID(root), then ms.Delete of that store.
RemoveStore(n, q) ==
    LET s == index[n][q]
    IN  /\ <<n, q>> \in RemoveTargets
        /\ s # NoRecord
        /\ removing[n][q] = NoRecord
        /\ stores' = [stores EXCEPT ![n] = @ \ {s}]
        /\ held' = [held EXCEPT ![n][s] = {}]
        /\ removing' = [removing EXCEPT ![n][q] = s]
        /\ UNCHANGED <<index, counter, auth, disp, xfer, pending, inpub,
                       writers>>

\* Then store.RemoveRecord(root), whatever record is there by now.
RemoveRecord(n, q) ==
    /\ removing[n][q] # NoRecord
    /\ index' = [index EXCEPT ![n][q] = NoRecord]
    /\ removing' = [removing EXCEPT ![n][q] = NoRecord]
    /\ UNCHANGED <<counter, stores, held, auth, disp, xfer, pending, inpub,
                   writers>>

-----------------------------------------------------------------------------
DispatchStep(d) ==
    \/ StartDispatch(d) \/ Subscribe(d) \/ SelectNoPeers(d)
    \/ SelectProviders(d) \/ \E p \in Nodes : SendRequest(d, p)

TransferStep(d, p) ==
    \/ HandleRequest(d, p) \/ HandleRequestFails(d, p) \/ OpenPull(d, p)
    \/ ValidatePull(d, p) \/ CompleteTransfer(d, p) \/ FailTransfer(d, p)

SupplyNext ==
    \/ \E d \in Dispatches : DispatchStep(d) \/ Next(d) \/ Close(d)
                              \/ Unsubscribe(d)
    \/ \E d \in Dispatches, p \in Nodes : TransferStep(d, p)
    \/ \E n \in Nodes : \E e \in pending[n] : Publish(n, e)
    \/ \E n \in Nodes, q \in CIDs : RemoveStore(n, q) \/ RemoveRecord(n, q)

\* The manager, the bus, the stream handlers and the dispatch goroutine
\* are weakly fair; the caller is fair only in taking records (a caller
\* that stops reading leaves a callback blocked); starting a dispatch,
\* closing a Response and RemoveContent are the user's choice.
Fairness ==
    /\ \A d \in Dispatches :
          /\ WF_vars(Subscribe(d) \/ SelectNoPeers(d) \/ SelectProviders(d)
                     \/ \E p \in Nodes : SendRequest(d, p))
          /\ WF_vars(Next(d))
          /\ WF_vars(Unsubscribe(d))
    /\ \A d \in Dispatches, p \in Nodes :
          WF_vars(TransferStep(d, p))
    /\ \A n \in Nodes : WF_vars(\E e \in pending[n] : Publish(n, e))
    /\ \A n \in Nodes, q \in CIDs : WF_vars(RemoveRecord(n, q))

Spec == Init /\ [][SupplyNext]_vars /\ Fairness

-----------------------------------------------------------------------------
(* Properties                                                              *)

TypeOK ==
    /\ index \in [Nodes -> [CIDs -> StoreIds]]
    /\ counter \in [Nodes -> StoreIds]
    /\ stores \in [Nodes -> SUBSET (StoreIds \ {NoRecord})]
    /\ held \in [Nodes -> [StoreIds -> SUBSET CIDs]]
    /\ auth \in [Nodes -> [CIDs -> SUBSET Nodes]]
    /\ disp \in [Dispatches -> [phase : Phases, providers : SUBSET Nodes,
                   unsent : SUBSET Nodes, count : 0 .. MaxReceiverCount,
                   recs : SUBSET (Nodes \X CIDs)]]
    /\ xfer \in [Keys -> [stage : Stages, store : StoreIds, srv : StoreIds]]
    /\ pending \in [Nodes -> SUBSET Events]
    /\ inpub \in [Nodes -> SUBSET [ev : Events, waiting : SUBSET Dispatches]]
    /\ writers \in [Nodes -> SUBSET Dispatches]
    /\ removing \in [Nodes -> [CIDs -> StoreIds]]

\* A peer that was sent a request always passes the dispatcher's
\* ValidatePull: Dispatch authorizes every receiver before it writes the
\* first request, and no later Authorize of the payload drops a grant.
InvitedPullsAccepted ==
    \A k \in Keys : xfer[k].stage # "rejected"

\* (section 3) Every store a node has open is reachable: the index names it
\* or a live channel writes into it.  The Error subscription removes the
\* record of a failed inbound transfer; the store must go with it.
NoOrphanStores ==
    \A n \in Nodes : \A s \in stores[n] :
        \/ \E q \in CIDs : index[n][q] = s \/ removing[n][q] = s
        \/ \E k \in Keys : /\ k[2] = n /\ xfer[k].store = s
                           /\ xfer[k].stage \in {"requested", "ongoing"}

\* (section 4.6, COMPLETED is terminal) A payload a node holds in full in
\* one of its stores stays reachable through its content record.
HeldContentIndexed ==
    \A n \in Nodes : \A s \in stores[n] : \A q \in held[n][s] :
        index[n][q] # NoRecord /\ q \in held[n][index[n][q]]

\* The event each side publishes for channel k.
EventOf(k, code) ==
    [code |-> code, key |-> k, cid |-> Payload[k[1]], recipient |-> k[2]]

Delivered(n, e) == e \notin pending[n] /\ \A pub \in inpub[n] : pub.ev # e

\* (I8) Every transfer event reaches all of the node's subscribers, so the
\* Error subscription removes a failed inbound transfer's record.
EventsDelivered ==
    \A n \in Nodes, k \in Keys, c \in {"Completed", "Error"} :
        (EventOf(k, c) \in pending[n]) ~> Delivered(n, EventOf(k, c))
====
