------------------------------ MODULE Retrieval -----------------------------
(***************************************************************************)
(* The retrieval transport configurer of retrieval/gsconfig.go.  Every    *)
(* retrieval deal has a client node and a provider node, each keeping a   *)
(* deal state that names the store the deal's blocks go to or come from.  *)
(* When the data-transfer channel of a deal is configured on a node, the  *)
(* configurer asks dualStoreGetter for the store, with the other party of *)
(* the channel and the deal id: the provider states, keyed by receiver    *)
(* and deal id, are tried first, then the client states, keyed by deal id *)
(* alone.  Deal ids are chosen by each client for its own deals.          *)
(***************************************************************************)
EXTENDS Naturals, FiniteSets

CONSTANTS
    Nodes,     \* the peers
    DealIDs,   \* deal.ID values a client may choose
    Retrieves  \* the <<client, provider>> pairs that open retrieval deals

VARIABLES
    clientDeals,    \* clientDeals[n]: <<provider, id>> of n's client deal states
    providerDeals,  \* providerDeals[n]: <<receiver, id>> of n's provider deal states
    chans           \* the data-transfer channels of the deals

vars == <<clientDeals, providerDeals, chans>>

\* The store of each deal state, named by the deal it belongs to.
ClientStore(n, p, id) == <<"client", n, p, id>>
ProviderStore(n, r, id) == <<"provider", n, r, id>>
NoStore == <<"none">>

Unset == <<"unset">>

\* Mutant of Get: the provider state is looked up by deal id alone.
GetAnyReceiver(n, pid, did) ==
    IF \E r \in providerDeals[n] : r[2] = did
      THEN LET r == CHOOSE r \in providerDeals[n] : r[2] = did
           IN  ProviderStore(n, r[1], did)
    ELSE IF \E c \in clientDeals[n] : c[2] = did
      THEN LET c == CHOOSE c \in clientDeals[n] : c[2] = did
           IN  ClientStore(n, c[1], did)
    ELSE NoStore

\* dualStoreGetter.Get(pid, did) on node n: the provider state of
\* (pid, did), else the client state of did whoever its provider is, else
\* an error, which leaves the transport on its default store.
Get(n, pid, did) ==
    IF <<pid, did>> \in providerDeals[n] THEN ProviderStore(n, pid, did)
    ELSE IF \E c \in clientDeals[n] : c[2] = did
      THEN LET c == CHOOSE c \in clientDeals[n] : c[2] = did
           IN  ClientStore(n, c[1], did)
    ELSE NoStore

Init ==
    /\ clientDeals = [n \in Nodes |-> {}]
    /\ providerDeals = [n \in Nodes |-> {}]
    /\ chans = {}

\* A client begins a deal with an id none of its deal states has.
ClientBegin(n, p, id) ==
    /\ <<n, p>> \in Retrieves
    /\ \A c \in clientDeals[n] : c[2] /= id
    /\ clientDeals' = [clientDeals EXCEPT ![n] = @ \cup {<<p, id>>}]
    /\ UNCHANGED <<providerDeals, chans>>

\* The client opens the pull channel; data transfer runs the client's
\* TransportConfigurer inside OpenPullDataChannel, so the client's store
\* is fixed when the channel opens.
OpenChannel(n, p, id) ==
    /\ <<p, id>> \in clientDeals[n]
    /\ \A ch \in chans : ~(ch.client = n /\ ch.id = id)
    /\ chans' = chans \cup {[client |-> n, provider |-> p, id |-> id,
                             cstore |-> Get(n, p, id), pstore |-> Unset]}
    /\ UNCHANGED <<clientDeals, providerDeals>>

\* The provider accepts the deal and begins its deal state for the receiver.
ProviderAccept(ch) ==
    /\ <<ch.client, ch.id>> \notin providerDeals[ch.provider]
    /\ providerDeals' = [providerDeals EXCEPT ![ch.provider] = @ \cup {<<ch.client, ch.id>>}]
    /\ UNCHANGED <<clientDeals, chans>>

\* TransportConfigurer on the provider, once the request is accepted:
\* otherPeer is the client.
ConfigureProvider(ch) ==
    /\ ch.pstore = Unset
    /\ <<ch.client, ch.id>> \in providerDeals[ch.provider]
    /\ chans' = (chans \ {ch}) \cup {[ch EXCEPT !.pstore = Get(ch.provider, ch.client, ch.id)]}
    /\ UNCHANGED <<clientDeals, providerDeals>>

Next ==
    \/ \E n, p \in Nodes, id \in DealIDs : ClientBegin(n, p, id) \/ OpenChannel(n, p, id)
    \/ \E ch \in chans : ProviderAccept(ch) \/ ConfigureProvider(ch)

Spec == Init /\ [][Next]_vars

-----------------------------------------------------------------------------
TypeOK ==
    /\ clientDeals \in [Nodes -> SUBSET (Nodes \X DealIDs)]
    /\ providerDeals \in [Nodes -> SUBSET (Nodes \X DealIDs)]
    /\ \A ch \in chans : ch.client \in Nodes /\ ch.provider \in Nodes /\ ch.id \in DealIDs

\* (TransportConfigurer, dualStoreGetter.Get) Each side of a retrieval
\* channel is given the store of its own deal: the client the store of its
\* client deal with that provider, the provider the store of its provider
\* deal for that client.
ChannelUsesOwnDealStore ==
    \A ch \in chans :
        /\ ch.cstore = ClientStore(ch.client, ch.provider, ch.id)
        /\ ch.pstore \in {Unset, ProviderStore(ch.provider, ch.client, ch.id)}
====
