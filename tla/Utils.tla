------------------------------- MODULE Utils --------------------------------
(***************************************************************************)
(* The pure helpers of internal/utils/repo.go: FormatToken, the           *)
(* comma-separated listValue flag, and the grouping of bootstrap          *)
(* addresses by peer that decides whom Bootstrap connects to.  Go strings *)
(* are byte sequences here, so that base64 and strings.Split are modelled *)
(* by what they do.  Libp2pKey, which keeps the node's identity in the    *)
(* keystore of the repo, is modelled over a series of daemon starts.      *)
(* The one variable is the call under examination.                       *)
(***************************************************************************)
EXTENDS Naturals, Sequences, SequencesExt

CONSTANTS
    TokenBytes,  \* bytes a token may hold
    MaxToken,    \* longest token checked
    ListBytes,   \* bytes a flag value may hold (the comma among them)
    MaxList,     \* longest flag value checked
    Addrs,       \* bootstrap address strings
    AddrInfo,    \* Addrs -> [ok: BOOLEAN, id: peer]: what parsing yields
    MaxBoot,     \* longest bootstrap list checked
    MaxStarts    \* most daemon starts in one series

VARIABLE call  \* the call under examination: which helper, and its input

Comma == 44
Space == 32
Basic == <<66, 97, 115, 105, 99>>       \* "Basic"
Bearer == <<66, 101, 97, 114, 101, 114>> \* "Bearer"

\* base64.StdEncoding.EncodeToString: each group of three bytes becomes
\* four characters of the standard alphabet, a short last group is
\* padded with '='.
B64Char(i) ==
    CASE i < 26 -> 65 + i
      [] i < 52 -> 97 + (i - 26)
      [] i < 62 -> 48 + (i - 52)
      [] i = 62 -> 43
      [] OTHER  -> 47

RECURSIVE EncodeToString(_)
EncodeToString(s) ==
    IF s = <<>> THEN <<>>
    ELSE LET k == IF Len(s) < 3 THEN Len(s) ELSE 3
             b(i) == IF i <= k THEN s[i] ELSE 0
             n == b(1) * 2^16 + b(2) * 2^8 + b(3)
             c(j) == B64Char((n \div 2^(6 * (4 - j))) % 64)
         IN  <<c(1), c(2)>>
             \o (IF k >= 2 THEN <<c(3)>> ELSE <<61>>)
             \o (IF k = 3 THEN <<c(4)>> ELSE <<61>>)
             \o EncodeToString(SubSeq(s, k + 1, Len(s)))

\* FormatToken(tok, tp): the encoded token is computed, then
\* fmt.Sprintf("%s %s", tp, tok) formats the raw one.
FormatToken(tok, tp) ==
    IF tok = <<>> THEN <<>>
    ELSE LET token == IF tp = Basic THEN EncodeToString(tok) ELSE tok
         IN  tp \o <<Space>> \o tok

\* Mutant of Split: empty fields are dropped, as strings.FieldsFunc does.
RECURSIVE SplitDropEmpty(_)
SplitDropEmpty(v) ==
    IF \A i \in DOMAIN v : v[i] /= Comma THEN (IF v = <<>> THEN <<>> ELSE <<v>>)
    ELSE LET i == SelectInSeq(v, LAMBDA x : x = Comma)
         IN  (IF i = 1 THEN <<>> ELSE <<SubSeq(v, 1, i - 1)>>)
             \o SplitDropEmpty(SubSeq(v, i + 1, Len(v)))

\* strings.Split(v, ","): the fields between commas, empty ones included.
RECURSIVE Split(_)
Split(v) ==
    IF \A i \in DOMAIN v : v[i] /= Comma THEN <<v>>
    ELSE LET i == SelectInSeq(v, LAMBDA x : x = Comma)
         IN  <<SubSeq(v, 1, i - 1)>> \o Split(SubSeq(v, i + 1, Len(v)))

\* listValue.Set(v): an empty string is refused, otherwise the list is
\* replaced by the fields of v.
ListSet(val, v) == IF v = <<>> THEN val ELSE Split(v)

\* listValue.String: strings.Join(*l.val, ",").
ListString(val) ==
    FlattenSeq([i \in DOMAIN val |-> IF i = 1 THEN val[i] ELSE <<Comma>> \o val[i]])

\* Bootstrap, first loop: addresses that do not parse are skipped.
BootPeers(bpeers) ==
    LET ok == SelectSeq(bpeers, LAMBDA a : AddrInfo[a].ok)
    IN  [i \in DOMAIN ok |-> [id |-> AddrInfo[ok[i]].id, addrs |-> <<ok[i]>>]]

\* Mutant of AddPeerInfo: the entry stored for a new peer is a copy taken
\* before its addresses are appended.
AddPeerInfoCopy(infos, pii) ==
    IF pii.id \in DOMAIN infos
      THEN [infos EXCEPT ![pii.id] = @ \o pii.addrs]
      ELSE (pii.id :> <<>>) @@ infos

\* Bootstrap, second loop: one PeerInfo per peer id, gathering the
\* addresses of every entry for it.
AddPeerInfo(infos, pii) ==
    IF pii.id \in DOMAIN infos
      THEN [infos EXCEPT ![pii.id] = @ \o pii.addrs]
      ELSE (pii.id :> pii.addrs) @@ infos

\* The PeerInfos Bootstrap starts one h.Connect goroutine for, and waits on.
Connects(bpeers) ==
    LET infos == FoldLeft(AddPeerInfo, <<>>, BootPeers(bpeers))
    IN  {[id |-> p, addrs |-> infos[p]] : p \in DOMAIN infos}

-----------------------------------------------------------------------------
(* Libp2pKey over the keystore of a repo.  The keystore file of the key   *)
(* (go-ipfs-keystore's FSKeystore) persists across starts: no file, the  *)
(* key of start i (a fresh GenerateEd25519Key), or a torn file that Put  *)
(* created but failed to write.  What each start meets is its input: Get *)
(* failing for a reason other than a missing key, key generation         *)
(* failing, Put writing, failing before the file exists or leaving it    *)
(* torn, and the process dying before Put or after it.                   *)

\* The keystore's file and a call's result, as tagged records: the key of
\* start i, no file, a torn file; an error, or the process dying.
Key(i) == [st |-> "key", id |-> i]
NoKey == [st |-> "none", id |-> 0]
Torn == [st |-> "torn", id |-> 0]
Err == [st |-> "err", id |-> 0]
Died == [st |-> "died", id |-> 0]

StartOutcomes == [getErr : BOOLEAN, genErr : BOOLEAN,
                  put : {"ok", "err", "torn"}, crash : {"none", "beforePut", "afterPut"}]

\* Mutant of Libp2pKey: a failed Put is ignored and the new key used.
Libp2pKeyIgnorePutErr(ks, o, fresh) ==
    CASE ks.st = "key" -> [ks |-> ks, ret |-> IF o.getErr THEN Err ELSE ks]
      [] ks = Torn \/ o.getErr \/ o.genErr -> [ks |-> ks, ret |-> Err]
      [] o.crash = "beforePut" -> [ks |-> ks, ret |-> Died]
      [] OTHER -> [ks |-> CASE o.put = "ok" -> Key(fresh) [] o.put = "torn" -> Torn [] OTHER -> ks,
                   ret |-> IF o.crash = "afterPut" THEN Died ELSE Key(fresh)]

\* One call of Libp2pKey on keystore state ks: its result (the key, an
\* error, or the process dying inside it) and the keystore after it.  Get
\* returns the stored key; a torn file fails to unmarshal, which is not
\* ErrNoSuchKey, so it is returned as an error like any other.
Libp2pKey(ks, o, fresh) ==
    CASE ks.st = "key" -> [ks |-> ks, ret |-> IF o.getErr THEN Err ELSE ks]
      [] ks = Torn \/ o.getErr \/ o.genErr -> [ks |-> ks, ret |-> Err]
      [] o.crash = "beforePut" -> [ks |-> ks, ret |-> Died]
      [] o.put = "err" -> [ks |-> ks, ret |-> Err]
      [] o.put = "torn" -> [ks |-> Torn, ret |-> Err]
      [] OTHER -> [ks |-> Key(fresh), ret |-> IF o.crash = "afterPut" THEN Died ELSE Key(fresh)]

\* A series of daemon starts on one repo, from a repo with no key: the
\* keystore after each start and what each start's Libp2pKey returned.
Starts(outs) ==
    FoldLeft(LAMBDA acc, o :
                LET r == Libp2pKey(acc.ks, o, Len(acc.rets) + 1)
                IN  [ks |-> r.ks, rets |-> Append(acc.rets, r.ret)],
             [ks |-> NoKey, rets |-> <<>>], outs)

-----------------------------------------------------------------------------
TokenCalls == [fn : {"FormatToken"}, tok : BoundedSeq(TokenBytes, MaxToken),
               tp : {Basic, Bearer}]
ListCalls == [fn : {"ListValue"}, v : BoundedSeq(ListBytes, MaxList)]
BootCalls == [fn : {"Bootstrap"}, bpeers : BoundedSeq(Addrs, MaxBoot)]
KeyCalls == [fn : {"Libp2pKey"}, outs : BoundedSeq(StartOutcomes, MaxStarts)]
Calls == TokenCalls \cup ListCalls \cup BootCalls \cup KeyCalls

Init == call \in Calls
Next == call' \in Calls
Spec == Init /\ [][Next]_call

TypeOK == call \in Calls

\* (listValue) A flag value read back through String after Set is the
\* value given, every field of it kept, empty ones included; an empty
\* value leaves the default list in place.
ListValueRoundTrip ==
    call.fn = "ListValue" =>
        LET default == <<<<100>>, <<101>>>>
        IN  IF call.v = <<>> THEN ListSet(default, call.v) = default
            ELSE ListString(ListSet(default, call.v)) = call.v

\* (Bootstrap) Bootstrap connects once to each distinct peer among the
\* addresses that parse, offering it all of that peer's addresses in list
\* order, and to no other peer.
BootstrapConnectsEachPeer ==
    call.fn = "Bootstrap" =>
        LET ok == SelectSeq(call.bpeers, LAMBDA a : AddrInfo[a].ok)
            ids == {AddrInfo[ok[i]].id : i \in DOMAIN ok}
        IN  Connects(call.bpeers) =
              {[id |-> p, addrs |-> SelectSeq(ok, LAMBDA a : AddrInfo[a].id = p)]
                 : p \in ids}

\* (Libp2pKey) The node keeps one identity: every start whose Libp2pKey
\* returned a key returned the same key, and that key is the one the
\* keystore holds after every later start, whatever failed or crashed.
IdentityStable ==
    call.fn = "Libp2pKey" =>
        \A n \in 1 .. Len(call.outs) :
            LET upto == Starts(SubSeq(call.outs, 1, n))
            IN  \A i \in 1 .. n : upto.rets[i].st = "key" => upto.ks = upto.rets[i]

\* (FormatToken) "Basic auth requires base64 encoding": a Basic token is
\* sent as "Basic " followed by the base64 of the token, other types as
\* the type, a space and the token, and an empty token as nothing.
FormatTokenEncodesBasic ==
    call.fn = "FormatToken" =>
        FormatToken(call.tok, call.tp) =
            IF call.tok = <<>> THEN <<>>
            ELSE call.tp \o <<Space>>
                 \o (IF call.tp = Basic THEN EncodeToString(call.tok) ELSE call.tok)
====
