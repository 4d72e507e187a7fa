----------------------------- MODULE Corridors -----------------------------
(***************************************************************************)
(* The corridor catalog of src/src/tools/corridor_registry.py, and what    *)
(* route_real.py and route_gpx.py read off a chain of anchors: the stops   *)
(* for the night with their distances, and the track between them.         *)
(*                                                                         *)
(* A hop takes its length from a road router or, if it ends in a ferry     *)
(* arrival, counts 0.  Lengths are metres; what the route states are       *)
(* tenths of a kilometre, rounded.                                         *)
(***************************************************************************)
EXTENDS Naturals, SequencesExt

CONSTANTS Towns,
          Files,    \* the corridor files in the order of their names
          None      \* no such corridor, variant or stop

Anchor  == [town : Towns, overnight : BOOLEAN, ferry : BOOLEAN]
Variant == [name : STRING, default : BOOLEAN, anchors : Seq(Anchor)]

\* What CorridorDef accepts; the registry refuses to load a file it does not.
Valid(file) ==
    /\ file \in [start : Towns, end : Towns, variants : Seq(Variant)]
    /\ \A i \in 1..Len(file.variants) : Len(file.variants[i].anchors) >= 2
    /\ \E i \in 1..Len(file.variants) :
         \A j \in 1..Len(file.variants) : file.variants[j].default <=> j = i
    /\ file.start = Head(file.variants[1].anchors).town
    /\ file.end = Last(file.variants[1].anchors).town

ASSUME FilesAreValid == Files \in Seq(ToSet(Files)) /\ \A i \in DOMAIN Files : Valid(Files[i])

\* The registry does not check that a variant starts and ends where a night is spent;
\* _collect_polylines counts on it, and the files in data/corridors keep to it.
ASSUME VariantsEndAtNights ==
    \A i \in DOMAIN Files : \A j \in DOMAIN Files[i].variants :
        /\ Head(Files[i].variants[j].anchors).overnight
        /\ Last(Files[i].variants[j].anchors).overnight

\* The GPX export finds a variant and the stops of a day by their names.  The registry
\* does not check that they differ; in data/corridors they do, except that a loop ends
\* where it starts.
ASSUME NamesTellApart ==
    \A i \in DOMAIN Files :
        LET vs == Files[i].variants
        IN  /\ \A j, k \in DOMAIN vs : vs[j].name = vs[k].name => j = k
            /\ Files[i].start # Files[i].end =>
                 \A j \in DOMAIN vs :
                    LET chain == vs[j].anchors
                    IN  \A a, b \in {n \in DOMAIN chain : chain[n].overnight} :
                            chain[a].town = chain[b].town => a = b

\* Each anchor keeps its flags.
ReversedVariant(v) == [v EXCEPT !.anchors = Reverse(@)]

\* Both directions are registered, the reverse one last; a later file wins over an
\* earlier one with the same ends.
CorridorVariants(start, end) ==
    LET hits == {i \in 1..Len(Files) : {Files[i].start, Files[i].end} = {start, end}}
        file == Files[Max(hits)]
    IN  IF hits = {} THEN None
        ELSE IF file.end = start /\ file.start = end
        THEN [i \in 1..Len(file.variants) |-> ReversedVariant(file.variants[i])]
        ELSE file.variants

-----------------------------------------------------------------------------
\* Walking a chain of anchors, with the lengths of its hops in legs.

Hops(v) ==
    [i \in 1..(Len(v.anchors) - 1) |->
        [from |-> v.anchors[i].town, to |-> v.anchors[i + 1].town,
         ferry |-> v.anchors[i + 1].ferry]]

\* The hops of several variants, one after the other.
HopsOf(variants) == FlattenSeq([i \in 1..Len(variants) |-> Hops(variants[i])])

Total(ns) == FoldLeft(LAMBDA x, y : x + y, 0, ns)

\* Metres to tenths of a kilometre.  The code rounds a float: how it rounds half
\* a tenth depends on its binary value, so the lengths of the runs avoid halves.
Rounded(metres) == (metres + 50) \div 100

\* The anchors where a night is spent, by position in the chain, as the loop over the
\* hops collects them.
Nights(v) ==
    LET found[i \in 0..Len(v.anchors)] ==
          IF i = 0 THEN <<>>
          ELSE IF v.anchors[i].overnight THEN Append(found[i - 1], i) ELSE found[i - 1]
    IN  found[Len(v.anchors)]

\* The Waypoints: through-towns count for the distance only.
Stops(v, legs) ==
    LET nights == Nights(v)
        Before(n) == IF n = 1 THEN 1 ELSE nights[n - 1]
    IN  [n \in 1..Len(nights) |->
           [town |-> v.anchors[nights[n]].town,
            ferry |-> nights[n] > 1 /\ v.anchors[nights[n]].ferry,
            from_start |-> Rounded(Total(SubSeq(legs, 1, nights[n] - 1))),
            segment |-> Rounded(Total(SubSeq(legs, Before(n), nights[n] - 1)))]]

\* The polylines, one for each stretch that ends in a night, as the towns they
\* pass; where two hops of a stretch meet, the point is written once.
Polylines(v) ==
    LET nights == Nights(v)
        ends   == IF Head(v.anchors).overnight THEN Tail(nights) ELSE nights
        begin(n) == IF n = 1 THEN 1 ELSE ends[n - 1]
    IN  [n \in 1..Len(ends) |->
           [i \in 1..(ends[n] - begin(n) + 1) |-> v.anchors[begin(n) + i - 1].town]]
=============================================================================
