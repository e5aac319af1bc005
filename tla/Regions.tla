------------------------------- MODULE Regions ------------------------------
(***************************************************************************)
(* The region table of package supply (regions.go and the region helpers *)
(* of supply.go): the preset regions, ParseRegions, protoRegions and       *)
(* Supply.ListMiners, as operators over sequences.  The variable is only  *)
(* the input: the list of region names a node is configured with.         *)
(***************************************************************************)
EXTENDS Naturals, Sequences, SequencesExt

CONSTANTS
    Names,     \* region names a user may configure, presets and custom ones
    MaxNames   \* longest configured list checked

VARIABLE names \* the []string given to ParseRegions

CustomRegion == "MaxUint64"   \* math.MaxUint64, a code no preset has

\* The preset miner lists, in source order (the NorthAmerica list names
\* f019104 twice).
AsiaMiners == <<"f0159961", "f0242152", "f0225676", "f0165539", "f0216138",
                "f01272">>
NorthAmericaMiners ==
    <<"f02301", "f03223", "f019104", "f02401", "f02387", "f09848", "f08399",
      "f010088", "f064218", "f02540", "f015927", "f0135078", "f019104",
      "f047419", "f01278", "f010617", "f01247", "f022142", "f019279">>
EuropeMiners ==
    <<"f01240", "f01234", "f022352", "f099608", "f02576", "f023467",
      "f03624", "f062353", "f081323", "f08403", "f010446", "f01277",
      "f022163">>
OceaniaMiners == <<"f014365">>

Region(nm, code, miners) == [name |-> nm, code |-> code, miners |-> miners]

\* The Regions map.  Global's miners are built as
\* append(northAmerica, append(europe, oceania...)...).
Presets ==
    [r \in {"Global", "Asia", "Africa", "SouthAmerica", "NorthAmerica",
            "Europe", "Oceania"} |->
        CASE r = "Global" ->
               Region(r, 0, NorthAmericaMiners \o EuropeMiners \o OceaniaMiners)
          [] r = "Asia" -> Region(r, 1, AsiaMiners)
          [] r = "Africa" -> Region(r, 2, <<>>)
          [] r = "SouthAmerica" -> Region(r, 3, <<>>)
          [] r = "NorthAmerica" -> Region(r, 4, NorthAmericaMiners)
          [] r = "Europe" -> Region(r, 5, EuropeMiners)
          [] r = "Oceania" -> Region(r, 6, OceaniaMiners)]

\* ParseRegions: a preset when the name has one, else a custom region with
\* that name, the CustomRegion code and no miners; input order is kept.
ParseRegions(list) ==
    [i \in DOMAIN list |->
        IF list[i] \in DOMAIN Presets THEN Presets[list[i]]
        ELSE Region(list[i], CustomRegion, <<>>)]

\* protoRegions: fmt.Sprintf("%s/%s", proto, r.Name) for each region.
ProtoRegions(proto, regions) ==
    [i \in DOMAIN regions |-> proto \o "/" \o regions[i].name]

\* Mutant of ListMinersFrom: Global's list is appended to what came before
\* instead of replacing it.
RECURSIVE ListMinersFromAppend(_, _)
ListMinersFromAppend(regions, acc) ==
    IF regions = <<>> THEN acc
    ELSE IF Head(regions).name = "Global" THEN acc \o Head(regions).miners
    ELSE ListMinersFromAppend(Tail(regions), acc \o Head(regions).miners)

\* Supply.ListMiners: walk the regions in order, appending their miners;
\* at the first one named "Global" take its list instead and stop.
RECURSIVE ListMinersFrom(_, _)
ListMinersFrom(regions, acc) ==
    IF regions = <<>> THEN acc
    ELSE IF Head(regions).name = "Global" THEN Head(regions).miners
    ELSE ListMinersFrom(Tail(regions), acc \o Head(regions).miners)

ListMiners(regions) == ListMinersFrom(regions, <<>>)

-----------------------------------------------------------------------------
Init == names \in BoundedSeq(Names, MaxNames)
Next == names' \in BoundedSeq(Names, MaxNames)
Spec == Init /\ [][Next]_names

TypeOK == names \in BoundedSeq(Names, MaxNames)

\* Reference for ListMiners (spec section 4.1, I7): a configuration that
\* names Global gets exactly Global's list, otherwise the concatenation of
\* every configured region's miners in configuration order.
RefListMiners(list) ==
    IF \E i \in DOMAIN list : list[i] = "Global" THEN Presets["Global"].miners
    ELSE FlattenSeq([i \in DOMAIN list |-> ParseRegions(list)[i].miners])

\* (I6, I7) ListMiners(ParseRegions(names)) is the reference list, and the
\* protocol ids are one per configured name, in order, with that name.
ListMinersCorrect ==
    LET rs == ParseRegions(names)
        ps == ProtoRegions("/myel/supply/dispatch/1.0", rs)
    IN  /\ ListMiners(rs) = RefListMiners(names)
        /\ Len(ps) = Len(names)
        /\ \A i \in DOMAIN names : ps[i] = "/myel/supply/dispatch/1.0/" \o names[i]

\* (section 4.1, design notes) "Global" stands for the union of every
\* region's miners, so the list ListMiners returns contains the miners of
\* each region the node is configured with.
ListMinersCoversRegions ==
    LET rs == ParseRegions(names)
    IN  \A i \in DOMAIN rs : ToSet(rs[i].miners) \subseteq ToSet(ListMiners(rs))
====
