------------------------------- MODULE Routes -------------------------------
(***************************************************************************)
(* get_route (src/src/tools/route.py, route_real.py) and the GPX download  *)
(* (route_gpx.py, GET /route/gpx of api/routes.py): requests that run at   *)
(* the same time and share the segment cache.                              *)
(*                                                                         *)
(* A request walks the hops it needs in order.  A ferry or a fresh cache   *)
(* entry does not make it wait; for any other hop it awaits BRouter.       *)
(* What it answers is a function of the lengths (Variants, Track), so they *)
(* are all it carries along.  USE_REAL_ROUTES is set: get_route falls back *)
(* to the seeded routes and then to geocoding.                             *)
(***************************************************************************)
EXTENDS Corridors, DayPlan, FiniteSets

CONSTANTS Requests,
          Trips,           \* the pairs <<start, end>> that are asked for
          Targets,         \* daily targets, tenths of a kilometre
          Lengths(_, _),   \* what BRouter may answer for a hop, metres
          SeededRoutes,    \* the routes table: <<start, end>> to rows
          MaxExpiries      \* bound: cache entries that expire

\* The target is positive (GetRouteInput), a track has a length, and one end of a seeded
\* route is its kilometre 0 (_KNOWN_ROUTES lists each route and its reverse).
ASSUME DistancesAreNumbers ==
    /\ Targets \subseteq Nat \ {0}
    /\ \A from, to \in Towns : Lengths(from, to) \subseteq Nat
    /\ \A trip \in DOMAIN SeededRoutes :
        LET rows == SeededRoutes[trip]
        IN  /\ rows \in Seq(ToSet(rows)) /\ Len(rows) >= 2
            /\ \A i \in 1..Len(rows) : rows[i].from_start \in Nat
            /\ Head(rows).from_start = 0 \/ Last(rows).from_start = 0

VARIABLES
    cache,     \* the fresh entries of the segment cache: hop to length
    ask,       \* what each request asks for
    stage,     \* where it is: "idle", "brouter", "seeded", "geocode", "done"
    hops,      \* the hops it has to walk
    legs,      \* lengths of those it has walked
    outcome,   \* where its answer comes from, or how it failed
    expiries   \* how many entries have expired

routeVars == <<cache, ask, stage, hops, legs, outcome, expiries>>

Plan(trip, target) == [kind |-> "plan", trip |-> trip, target |-> target]

\* A download names a variant, and for one day also the stops it runs between, as
\* the plan shows them.
Download(trip, name, from, to) ==
    [kind |-> IF from = None THEN "full" ELSE "day", trip |-> trip, name |-> name,
     from |-> from, to |-> to]

IsPlan(r) == ask[r] # None /\ ask[r].kind = "plan"

-----------------------------------------------------------------------------
\* What a request walks.

Catalogued(a) == CorridorVariants(a.trip[1], a.trip[2])

\* _resolve_variant of the GPX export: the first variant of this name, if there is one.
ResolvedVariant(a) ==
    LET hits == {i \in 1..Len(Catalogued(a)) : Catalogued(a)[i].name = a.name}
    IN  IF Catalogued(a) = None \/ hits = {} THEN <<>> ELSE <<Catalogued(a)[Min(hits)]>>

Wanted(a) ==
    IF a.kind = "plan" THEN Catalogued(a) ELSE ResolvedVariant(a)

Fresh(h, c) == h.ferry \/ <<h.from, h.to>> \in DOMAIN c

LengthOf(h, c) == IF h.ferry THEN 0 ELSE c[<<h.from, h.to>>]

\* The lengths known after walking on, as far as no hop has to be fetched.
Walked(hs, known, c) ==
    LET stale == {n \in (Len(known) + 1)..Len(hs) : ~ Fresh(hs[n], c)}
        last == Min(stale \cup {Len(hs) + 1}) - 1
    IN  known \o [i \in 1..(last - Len(known)) |-> LengthOf(hs[Len(known) + i], c)]

NextHop(r) == hops[r][Len(legs[r]) + 1]

-----------------------------------------------------------------------------
\* Answers.

\* The legs of the i-th variant.
LegsOf(variants, ls, i) ==
    LET before == Len(HopsOf(SubSeq(variants, 1, i - 1)))
    IN  SubSeq(ls, before + 1, before + Len(Hops(variants[i])))

BuiltVariant(v, ls, target) ==
    LET stops == Stops(v, ls)
        total == Rounded(Total(ls))
    IN  [name |-> v.name, default |-> v.default, total |-> total,
         estimated |-> EstimatedDays(total, target),
         stops |-> stops, days |-> SuggestDayPlan(stops, target)]

\* The seeded routes state cumulative distances; a segment is their difference, which
\* the response model rejects if it is negative.
SeededStops(rows) ==
    [i \in 1..Len(rows) |->
        [town |-> rows[i].town, ferry |-> rows[i].ferry, from_start |-> rows[i].from_start,
         segment |-> IF i = 1 THEN 0 ELSE rows[i].from_start - rows[i - 1].from_start]]

Acceptable(rows) ==
    \A i \in 2..Len(rows) : rows[i - 1].from_start <= rows[i].from_start

SeededVariant(rows, target) ==
    LET stops == SeededStops(rows)
        total == Last(stops).from_start
    IN  [name |-> "seed_default", default |-> TRUE, total |-> total,
         estimated |-> EstimatedDays(total, target),
         stops |-> stops, days |-> SuggestDayPlan(stops, target)]

\* The variants of a finished plan that has waypoints.
Variants(r) ==
    LET cvs == Catalogued(ask[r])
    IN  IF outcome[r] = "brouter"
        THEN [i \in 1..Len(cvs) |->
                BuiltVariant(cvs[i], LegsOf(cvs, legs[r], i), ask[r].target)]
        ELSE <<SeededVariant(SeededRoutes[ask[r].trip], ask[r].target)>>

\* The position of the first stop with this name, 0 if there is none.
StopIndex(v, town) ==
    LET nights == Nights(v)
        at == {i \in 1..Len(nights) : v.anchors[nights[i]].town = town}
    IN  IF at = {} THEN 0 ELSE Min(at)

\* Mutant: the slice includes the stretch that leads to the first stop.
SliceMutantOneEarly(v, from, to) ==
    LET i == StopIndex(v, from)
        j == StopIndex(v, to)
    IN  IF i = 0 \/ j <= i THEN <<>>
        ELSE SubSeq(Polylines(v), IF i = 1 THEN 1 ELSE i - 1, j - 1)

\* The polylines of one day, polylines[from_idx:to_idx]; none if one of the stops
\* is not there or they are not in this order.
Slice(v, from, to) ==
    LET i == StopIndex(v, from)
        j == StopIndex(v, to)
    IN  IF i = 0 \/ j <= i THEN <<>> ELSE SubSeq(Polylines(v), i, j - 1)

Track(a) ==
    LET v == Wanted(a)[1]
    IN  IF a.kind = "full" THEN Polylines(v) ELSE Slice(v, a.from, a.to)

-----------------------------------------------------------------------------
RouteInit ==
    /\ cache = <<>>
    /\ ask = [r \in Requests |-> None]
    /\ stage = [r \in Requests |-> "idle"]
    /\ hops = [r \in Requests |-> <<>>]
    /\ legs = [r \in Requests |-> <<>>]
    /\ outcome = [r \in Requests |-> "none"]
    /\ expiries = 0

Done(r, what) ==
    /\ stage' = [stage EXCEPT ![r] = "done"]
    /\ outcome' = [outcome EXCEPT ![r] = what]

\* Request r, which asks for a, walks on along hs from the lengths it knows; it awaits
\* BRouter for the next hop unless it has arrived.
Walk(r, a, hs, known, c) ==
    LET ls == Walked(hs, known, c)
    IN  /\ legs' = [legs EXCEPT ![r] = ls]
        /\ \/ /\ Len(ls) < Len(hs)
              /\ stage' = [stage EXCEPT ![r] = "brouter"]
              /\ UNCHANGED outcome
           \/ /\ Len(ls) = Len(hs)
              /\ Done(r, IF a.kind = "plan" THEN "brouter"
                         ELSE IF Track(a) = <<>> THEN "not_found" ELSE "gpx")

Start(r, a) ==
    /\ hops' = [hops EXCEPT ![r] = HopsOf(Wanted(a))]
    /\ Walk(r, a, hops'[r], <<>>, cache)

AskPlan(r, trip, target) ==
    LET a == Plan(trip, target)
    IN  /\ stage[r] = "idle"
        /\ ask' = [ask EXCEPT ![r] = a]
        /\ IF Catalogued(a) = None
           THEN /\ stage' = [stage EXCEPT ![r] = "seeded"]
                /\ UNCHANGED <<hops, legs, outcome>>
           ELSE Start(r, a)
        /\ UNCHANGED <<cache, expiries>>

AskDownload(r, a) ==
    /\ stage[r] = "idle"
    /\ ask' = [ask EXCEPT ![r] = a]
    /\ IF ResolvedVariant(a) = <<>>
       THEN Done(r, "not_found") /\ UNCHANGED <<hops, legs>>
       ELSE Start(r, a)
    /\ UNCHANGED <<cache, expiries>>

\* What the page offers for a plan it recognises as an itinerary, which takes three
\* days: the variant as a whole, and each of its days.
Offered(r) ==
    LET variants == IF outcome[r] = "brouter" THEN Variants(r) ELSE <<>>
    IN  UNION {
        LET v == variants[i]
        IN  {Download(ask[r].trip, v.name, None, None)}
            \cup {Download(ask[r].trip, v.name, v.days[d].from, v.days[d].to) :
                    d \in 1..Len(v.days)} :
        i \in {j \in 1..Len(variants) : Len(variants[j].days) >= 3}}

\* BRouter answers: the hop is cached, whoever else fetched it meanwhile.
Fetched(r) ==
    /\ stage[r] = "brouter"
    /\ \E m \in Lengths(NextHop(r).from, NextHop(r).to) :
        LET hop == <<NextHop(r).from, NextHop(r).to>>
        IN  /\ cache' = [h \in DOMAIN cache \cup {hop} |-> IF h = hop THEN m ELSE cache[h]]
            /\ Walk(r, ask[r], hops[r], Append(legs[r], m), cache')
    /\ UNCHANGED <<ask, hops, expiries>>

\* Mutant: a hop that cannot be fetched counts nothing.
FetchFailsMutantSkipsHop(r) ==
    /\ stage[r] = "brouter"
    /\ Walk(r, ask[r], hops[r], Append(legs[r], 0), cache)
    /\ UNCHANGED <<cache, ask, hops, expiries>>

\* An error or a time-out: get_route gives the real route up, all variants of it (an
\* answer of an unexpected shape is not caught and ends the call); the download
\* answers 502.
FetchFails(r) ==
    /\ stage[r] = "brouter"
    /\ \/ /\ IsPlan(r)
          /\ stage' = [stage EXCEPT ![r] = "seeded"]
          /\ UNCHANGED outcome
       \/ /\ IsPlan(r)
          /\ Done(r, "error")
       \/ /\ ~ IsPlan(r)
          /\ Done(r, "bad_gateway")
    /\ UNCHANGED <<cache, ask, hops, legs, expiries>>

\* The route, then its waypoints.  If the seed script replaces the routes between the two
\* queries, the new ones have other ids, and the answer is a route without waypoints.
LookUpSeeded(r) ==
    /\ stage[r] = "seeded"
    /\ \/ /\ ask[r].trip \in DOMAIN SeededRoutes
          /\ \/ Done(r, IF Acceptable(SeededRoutes[ask[r].trip]) THEN "seeded" ELSE "error")
             \/ Done(r, "seeded_bare")
       \/ /\ ask[r].trip \notin DOMAIN SeededRoutes
          /\ stage' = [stage EXCEPT ![r] = "geocode"]
          /\ UNCHANGED outcome
    /\ UNCHANGED <<cache, ask, hops, legs, expiries>>

\* Not caught in the tool: dispatch reports it to the agent.
RoutesQueryFails(r) ==
    /\ stage[r] = "seeded"
    /\ Done(r, "error")
    /\ UNCHANGED <<cache, ask, hops, legs, expiries>>

\* Mutant: places that cannot be found are looked up again.
GeocodeMutantRetries(r) ==
    /\ stage[r] = "geocode"
    /\ \/ Done(r, "generic")
       \/ /\ stage' = [stage EXCEPT ![r] = "seeded"]
          /\ UNCHANGED outcome
    /\ UNCHANGED <<cache, ask, hops, legs, expiries>>

\* Both ends are found: an estimate from the great circle.  A failed look-up counts
\* as a place nobody knows.
Geocode(r) ==
    /\ stage[r] = "geocode"
    /\ Done(r, "generic") \/ Done(r, "stub")
    /\ UNCHANGED <<cache, ask, hops, legs, expiries>>

\* An entry of the cache is older than a day.
Expire(h) ==
    /\ expiries < MaxExpiries
    /\ h \in DOMAIN cache
    /\ cache' = [x \in DOMAIN cache \ {h} |-> cache[x]]
    /\ expiries' = expiries + 1
    /\ UNCHANGED <<ask, stage, hops, legs, outcome>>

Serve(r) ==
    FetchFails(r) \/ Fetched(r) \/ LookUpSeeded(r) \/ RoutesQueryFails(r) \/ Geocode(r)

RouteNext ==
    \/ \E r \in Requests, trip \in Trips, target \in Targets : AskPlan(r, trip, target)
    \/ \E r, q \in Requests : \E a \in Offered(q) : AskDownload(r, a)
    \/ \E r \in Requests : Serve(r)
    \/ \E h \in DOMAIN cache : Expire(h)

\* BRouter answers or times out (15 s), and so do the database and the geocoder
\* (10 s).
RouteSpec == RouteInit /\ [][RouteNext]_routeVars /\ \A r \in Requests : WF_routeVars(Serve(r))

-----------------------------------------------------------------------------
\* Properties

Routed(r) == outcome[r] = "brouter"

\* A real route is complete: all variants of the corridor are there, with exactly
\* one default, and every hop that is not a ferry has a length BRouter gave for it.
\* One failed fetch must not leave a shorter list or a shorter route.
AnswersAreWhole ==
    \A r \in Requests : Routed(r) =>
        LET variants == Variants(r)
        IN  /\ Len(variants) = Len(Catalogued(ask[r]))
            /\ Cardinality({i \in 1..Len(variants) : variants[i].default}) = 1
            /\ Len(legs[r]) = Len(hops[r])
            /\ \A i \in 1..Len(hops[r]) :
                IF hops[r][i].ferry
                THEN legs[r][i] = 0
                ELSE legs[r][i] \in Lengths(hops[r][i].from, hops[r][i].to)

Together(days) == FoldLeft(LAMBDA x, d : x + d.km, 0, days)

\* The days of a plan lead from the first stop to the last, each from where the one
\* before ended, and together they ride the distance stated for the route, but for
\* the rounding of its segments.
DaysAddUp(v) ==
    LET km == Together(v.days)
    IN  /\ v.days[1].from = v.stops[1].town
        /\ Last(v.days).to = Last(v.stops).town
        /\ \A d \in 2..Len(v.days) : v.days[d].from = v.days[d - 1].to
        /\ 2 * km <= 2 * v.total + Len(v.stops)
        /\ 2 * v.total <= 2 * km + Len(v.stops)

\* No other way to spend the same number of days deviates less from the target.
IsBest(v, target) ==
    LET ends == PlanEnds(v.stops, target)
    IN  \A other \in AllEnds(v.stops, Len(v.days)) :
          Cost(v.stops, target, ends) <= Cost(v.stops, target, other)

PlansAreBestSplits ==
    \A r \in Requests :
        outcome[r] \in {"brouter", "seeded"} =>
            \A i \in 1..Len(Variants(r)) :
                LET v == Variants(r)[i]
                IN  DaysAddUp(v) /\ (Len(v.days) > 1 => IsBest(v, ask[r].target))

\* Where no stop comes twice, the day tracks of a plan are the whole track, cut at
\* the nights: the plan and the export walk the anchors independently.  A download
\* the page offers is lost only for a day of a loop, which starts and ends in one town.
SliceOfDay(cv, day) == Slice(cv, day.from, day.to)

JoinUp(v, cv) ==
    /\ FlattenSeq([d \in 1..Len(v.days) |-> SliceOfDay(cv, v.days[d])]) = Polylines(cv)
    /\ \A d \in 1..Len(v.days) :
        /\ Head(Head(SliceOfDay(cv, v.days[d]))) = v.days[d].from
        /\ Last(Last(SliceOfDay(cv, v.days[d]))) = v.days[d].to

TracksJoinUp ==
    /\ \A r \in Requests : Routed(r) =>
        \A i \in 1..Len(Variants(r)) :
            LET v == Variants(r)[i]
            IN  Cardinality({v.stops[n].town : n \in 1..Len(v.stops)}) = Len(v.stops) =>
                    JoinUp(v, Catalogued(ask[r])[i])
    /\ \A r \in Requests : outcome[r] = "not_found" =>
        ask[r].kind = "day" /\ ask[r].trip[1] = ask[r].trip[2]

\* Whatever fails, a request is answered: with a route, an estimate, or an error.
RequestsEnd == \A r \in Requests : stage[r] # "idle" ~> stage[r] = "done"

\* "The ferry crossing still happens at the same geographic point regardless of
\* travel direction" (_reverse_variant): it links the same two places both ways.
Crossings(v) == {{v.stops[n - 1].town, v.stops[n].town} :
                    n \in {m \in 2..Len(v.stops) : v.stops[m].ferry}}

FerriesStayPut ==
    \A q, r \in Requests :
        Routed(q) /\ Routed(r) /\ ask[q].trip = <<ask[r].trip[2], ask[r].trip[1]>> =>
            \A i \in 1..Len(Variants(r)) :
                Crossings(Variants(q)[i]) = Crossings(Variants(r)[i])
=============================================================================
