------------------------------ MODULE Lookups ------------------------------
(***************************************************************************)
(* The look-up tools of src/src/tools and the table that dispatches them   *)
(* (base.py): find_accommodation, get_points_of_interest, get_weather,     *)
(* get_elevation_profile and get_ferry_schedule.                           *)
(*                                                                         *)
(* The agent dispatches the calls of one iteration together; each runs to  *)
(* where it waits for somebody else: the Places API (geocode, search), the *)
(* weather archive, the database, the geocoder, BRouter.  A source that    *)
(* fails is replaced by the next one: live data, then the catalog, then a  *)
(* stub or an estimate.  Meanwhile the catalog may be seeded (db/seed.py). *)
(*                                                                         *)
(* An answer keeps what the plan is made of: where it comes from, kinds of *)
(* lodging and places of interest, distances (tenths of a kilometre),      *)
(* climbs (metres), grades (tenths of a per cent).                         *)
(***************************************************************************)
EXTENDS Integers, FiniteSets, DayPlan

CONSTANTS
    Turns,             \* the turns considered: sequences of calls
    LodgingCatalog,    \* seeded: town to the kinds of its places to stay
    PoiCatalog,        \* in the code: town to the categories of its places
    Climate,           \* seeded: <<town, month>>
    Segments,          \* to seed: stretches with their terrain
    Sailings,          \* in the code: <<from, to>>
    Located,           \* towns whose coordinates the weather tool has
    Nearby(_, _),      \* what the Places API may find: town, types
    GreatCircle(_, _), \* between two towns
    Rides(_, _)        \* what BRouter may answer: distance and climb

IsList(s) == s \in Seq(ToSet(s))

\* Calls are made one after the other, and say what is wanted in some order.
ASSUME TurnsAssumption ==
    \A t \in Turns :
        /\ IsList(t)
        /\ \A c \in DOMAIN t :
              t[c].tool \in {"find_accommodation", "get_points_of_interest"} => IsList(t[c].wanted)

\* The great circle is a distance.
ASSUME GreatCircleAssumption ==
    \A t \in Turns : \A c \in DOMAIN t :
        t[c].tool = "get_elevation_profile" => GreatCircle(t[c].town, t[c].to) \in Nat

VARIABLES
    turn,      \* the calls
    live,      \* the flags set: "places", "weather"
    tables,    \* the tables that hold the catalog
    seeding,   \* the table the seed script works on, 0 if it does not run
    geocoded,  \* the cache of the Places geocoder
    pc,        \* where each call waits
    todo,      \* the searches it has still to make
    found,     \* the places its searches have found
    answer,    \* what it was answered
    known      \* history: the tables that held the catalog when it was made

vars == <<turn, live, tables, seeding, geocoded, pc, todo, found, answer, known>>

Lodging(town, wanted, max) ==
    [tool |-> "find_accommodation", town |-> town, wanted |-> wanted, max |-> max]
Pois(town, wanted, max) ==
    [tool |-> "get_points_of_interest", town |-> town, wanted |-> wanted, max |-> max]
Weather(town, month) == [tool |-> "get_weather", town |-> town, month |-> month]
Elevation(from, to)  == [tool |-> "get_elevation_profile", town |-> from, to |-> to]
Ferry(from, to)      == [tool |-> "get_ferry_schedule", town |-> from, to |-> to]

Calls == DOMAIN turn

NoAnswer == [source |-> "none"]

\* main() of the seed script
SeedOrder == <<"routes", "accommodations", "weather_norms", "elevation_segments">>

\* ToolResult.is_error
Errors == {"unknown_tool", "invalid_arguments", "tool_exception"}

-----------------------------------------------------------------------------
\* Places: what is searched for, and what is made of it.

PlaceTypes ==
    [camping |-> <<"campground", "rv_park">>, hostel |-> <<"lodging">>,
     hotel |-> <<"lodging">>, guesthouse |-> <<"lodging">>]

CategoryTypes ==
    [bike_shop |-> {"bicycle_store"}, bike_rental |-> {"bicycle_store"},
     pub |-> {"bar"}, cafe |-> {"cafe"}, hospital |-> {"hospital"},
     market |-> {"supermarket", "grocery_store"},
     scenic_viewpoint |-> {"tourist_attraction"}]

SearchedCategories == <<"bike_shop", "bike_rental", "pub", "cafe", "hospital", "market",
                        "scenic_viewpoint">>

Inferred == "inferred"
SearchFor(types, label) == [types |-> types, label |-> label]

\* The elements at these positions, in order; the first ones of those that are equal.
Picked(seq, positions) ==
    LET upTo[n \in 0..Len(seq)] ==
            IF n = 0 THEN <<>>
            ELSE IF n \in positions THEN Append(upTo[n - 1], seq[n]) ELSE upTo[n - 1]
    IN  upTo[Len(seq)]

Once(seq) == Picked(seq, {i \in DOMAIN seq : \A j \in 1..(i - 1) : seq[j] # seq[i]})

\* One search for each type of place the wanted kinds need, or one for all; for
\* points of interest one for each category the API knows.
Searches(call) ==
    CASE call.tool = "find_accommodation" /\ call.wanted = <<>> ->
            <<SearchFor({"lodging", "campground"}, Inferred)>>
      [] call.tool = "find_accommodation" /\ call.wanted # <<>> ->
            LET types == FlattenSeq([i \in DOMAIN call.wanted |-> PlaceTypes[call.wanted[i]]])
            IN  [i \in DOMAIN Once(types) |-> SearchFor({Once(types)[i]}, Inferred)]
      [] call.tool = "get_points_of_interest" ->
            LET asked == IF call.wanted = <<>> THEN SearchedCategories ELSE call.wanted
                real  == Picked(asked, {i \in DOMAIN asked : asked[i] \in DOMAIN CategoryTypes})
            IN  [i \in DOMAIN real |-> SearchFor(CategoryTypes[real[i]], real[i])]
      [] OTHER -> <<>>

InferAccommodationType(types) ==
    CASE types \cap {"campground", "rv_park"} # {} -> "camping"
      [] types \cap {"campground", "rv_park"} = {} /\ "hostel" \in types -> "hostel"
      [] types \cap {"campground", "rv_park", "hostel"} = {}
         /\ types \cap {"guest_house", "bed_and_breakfast"} # {} -> "guesthouse"
      [] OTHER -> "hotel"

\* Each place once; of two searches that find it, the later one says what it is.
Merge(places, new, label) ==
    {p \in places : \A q \in new : p.id # q.id}
    \cup {[id |-> q.id, kind |-> IF label = Inferred THEN InferAccommodationType(q.types)
                                 ELSE label] : q \in new}

\* Those of a wanted kind, or all of them if there is none.
Preferred(items, wanted) ==
    LET right == {p \in items : Contains(wanted, p.kind)}
    IN  IF right = {} THEN items ELSE right

\* Live answers are cut after sorting by ratings, which are not modelled.
BestOf(items, max) == kSubset(Min({max, Cardinality(items)}), items)

\* Points of interest are not filtered: each search was for a wanted category.
LiveAnswers(call, items) ==
    {[source |-> "live", items |-> best] :
        best \in BestOf(IF call.tool = "find_accommodation"
                        THEN Preferred(items, call.wanted) ELSE items, call.max)}

\* The first ones of the catalog, or of the stub for a town it does not have.
ListedAnswer(call, catalog, stub) ==
    LET rows  == IF call.town \in DOMAIN catalog THEN catalog[call.town] ELSE stub
        right == Preferred({[id |-> i, kind |-> rows[i]] : i \in DOMAIN rows}, call.wanted)
    IN  [source |-> IF call.town \in DOMAIN catalog THEN "catalog" ELSE "stub",
         items  |-> {p \in right : Cardinality({q \in right : q.id <= p.id}) <= call.max}]

LodgingAnswer(call) ==
    ListedAnswer(call, IF "accommodations" \in tables THEN LodgingCatalog ELSE <<>>,
                 <<"camping", "hostel">>)

PoiAnswer(call) == ListedAnswer(call, PoiCatalog, <<"bike_shop", "toilet">>)

-----------------------------------------------------------------------------
\* Terrain.

Terrain(source, km, gain, loss, grade, difficulty) ==
    [source |-> source, km |-> km, gain |-> gain, loss |-> loss, grade |-> grade,
     difficulty |-> difficulty]

\* The elevation table: both directions of each segment, but one of a crossing.
SegmentRows ==
    Segments \cup {[from |-> s.to, to |-> s.from, km |-> s.km, gain |-> s.loss,
                    loss |-> s.gain, grade |-> s.grade, difficulty |-> s.difficulty] :
                      s \in {x \in Segments : x.km > 0}}

SegmentRow(call) ==
    IF "elevation_segments" \in tables
    THEN {s \in SegmentRows : s.from = call.town /\ s.to = call.to} ELSE {}

\* A tenth of a kilometre counts as much as two metres of climbing.
DifficultyFrom(km, gain, grade) ==
    LET score == 2 * km + gain
    IN  IF grade >= 80 THEN "extreme"
        ELSE IF score < 1000 \/ (score < 1800 /\ grade < 45) THEN "easy"
        ELSE IF score < 2300 /\ grade < 60 THEN "moderate"
        ELSE IF score < 2800 /\ grade < 70 THEN "hard"
        ELSE "extreme"

\* Mutant: an unknown climb is taken for a flat ride.
DifficultyFromDistanceMutantFlat(km) == IF km < 1450 THEN "easy" ELSE "hard"

DifficultyFromDistance(km) ==
    IF km < 900 THEN "easy"
    ELSE IF km < 1150 THEN "moderate"
    ELSE IF km < 1450 THEN "hard"
    ELSE "extreme"

\* BRouter's distance is more than 2.5 times the great circle, or more than 300 km.
Insane(km, circle) == (circle > 5 /\ 2 * km > 5 * circle) \/ km > 3000

\* 1.25 times the great circle, and nothing known about the climb.
Estimate(call) ==
    LET km == RoundedRatio(5 * GreatCircle(call.town, call.to), 4)
    IN  Terrain("estimate", km, 0, 0, 0, DifficultyFromDistance(km))

\* The steepest grade is taken to be 1.8 times the average one.
MaxGrade(ride) == IF ride.km > 0 THEN RoundedRatio(18 * ride.gain, ride.km) ELSE 0

\* A grade beyond 100 % is not accepted by the answer's model.
RideAnswer(ride) ==
    LET grade == MaxGrade(ride)
    IN  IF grade > 1000 THEN [source |-> "tool_exception"]
        ELSE Terrain("brouter", ride.km, ride.gain, RoundedRatio(95 * ride.gain, 100), grade,
                     DifficultyFrom(ride.km, ride.gain, grade))

-----------------------------------------------------------------------------
\* Dispatch

ValidCall(call) ==
    /\ call.tool = "find_accommodation" =>
          call.max \in 1..20 /\ \A i \in DOMAIN call.wanted : call.wanted[i] \in DOMAIN PlaceTypes
    /\ call.tool = "get_points_of_interest" => call.max \in 1..30

\* Live places first, if they are on and there is something to search for.
PlacesWait(call, otherwise) ==
    IF "places" \notin live THEN otherwise
    ELSE IF call.town \notin geocoded THEN "geocode"
    ELSE IF Searches(call) # <<>> THEN "search" ELSE otherwise

\* Where a call first waits; "done" if it does not have to.
FirstWait(call) ==
    IF ~ ValidCall(call) THEN "done"
    ELSE CASE call.tool = "find_accommodation" -> PlacesWait(call, "database")
           [] call.tool = "get_points_of_interest" -> PlacesWait(call, "done")
           [] call.tool = "get_weather" ->
                 IF "weather" \in live /\ call.town \in Located THEN "archive" ELSE "database"
           [] call.tool = "get_elevation_profile" -> "database"
           [] OTHER -> "done"

AnswerAtOnce(call) ==
    IF ~ ValidCall(call) THEN [source |-> "invalid_arguments"]
    ELSE CASE call.tool = "get_points_of_interest" -> PoiAnswer(call)
           [] call.tool = "get_ferry_schedule" ->
                 [source |-> IF <<call.town, call.to>> \in Sailings THEN "catalog" ELSE "stub"]
           [] OTHER -> [source |-> "unknown_tool"]

Flag == [find_accommodation |-> "places", get_points_of_interest |-> "places",
         get_weather |-> "weather"]

\* A turn of a service with a cache of earlier turns, on a database that was seeded or
\* never was.  Flags that no call of the turn reads are not set.
Init ==
    /\ turn \in Turns
    /\ live \in SUBSET {Flag[turn[c].tool] : c \in {x \in Calls : turn[x].tool \in DOMAIN Flag}}
    /\ tables \in {{}, ToSet(SeedOrder)}
    /\ seeding = 0
    /\ geocoded \in SUBSET {turn[c].town : c \in {x \in Calls : Searches(turn[x]) # <<>>}}
    /\ pc = [c \in Calls |-> FirstWait(turn[c])]
    /\ todo = [c \in Calls |-> Searches(turn[c])]
    /\ found = [c \in Calls |-> {}]
    /\ answer = [c \in Calls |-> IF pc[c] = "done" THEN AnswerAtOnce(turn[c]) ELSE NoAnswer]
    /\ known = tables

database == <<tables, seeding>>
searched == <<todo, found, geocoded>>
asked == <<turn, live, known>>

Wait(c, where) == pc' = [pc EXCEPT ![c] = where] /\ UNCHANGED answer

Answer(c, what) ==
    /\ pc' = [pc EXCEPT ![c] = "done"]
    /\ answer' = [answer EXCEPT ![c] = what]

-----------------------------------------------------------------------------
\* Places

\* Without live data, lodging is looked up in the database; points of interest are
\* listed in the code.
GiveUpPlaces(c) ==
    IF turn[c].tool = "find_accommodation" THEN Wait(c, "database")
    ELSE Answer(c, PoiAnswer(turn[c]))

Geocoded(c) ==
    /\ pc[c] = "geocode"
    /\ geocoded' = geocoded \cup {turn[c].town}
    /\ IF todo[c] = <<>> THEN GiveUpPlaces(c) ELSE Wait(c, "search")
    /\ UNCHANGED <<asked, database, todo, found>>

\* An error, a time-out, or no such place; nothing of it is remembered.
GeocodeFails(c) ==
    /\ pc[c] = "geocode"
    /\ GiveUpPlaces(c)
    /\ UNCHANGED <<asked, database, searched>>

SearchAnswers(c) ==
    /\ pc[c] = "search"
    /\ \E new \in Nearby(turn[c].town, Head(todo[c]).types) :
          found' = [found EXCEPT ![c] = Merge(@, new, Head(todo[c]).label)]
    /\ todo' = [todo EXCEPT ![c] = Tail(@)]
    /\ IF Len(todo[c]) > 1 THEN Wait(c, "search")
       ELSE \E what \in LiveAnswers(turn[c], found'[c]) : Answer(c, what)
    /\ UNCHANGED <<asked, database, geocoded>>

\* Mutant: a search that fails has found nothing.
SearchFailsMutantSkips(c) ==
    /\ pc[c] = "search"
    /\ todo' = [todo EXCEPT ![c] = Tail(@)]
    /\ IF Len(todo[c]) > 1 THEN Wait(c, "search")
       ELSE \E what \in LiveAnswers(turn[c], found[c]) : Answer(c, what)
    /\ UNCHANGED <<asked, database, found, geocoded>>

\* One failure gives up what the other searches have found.
SearchFails(c) ==
    /\ pc[c] = "search"
    /\ GiveUpPlaces(c)
    /\ UNCHANGED <<asked, database, searched>>

-----------------------------------------------------------------------------
\* Weather and terrain

\* The archive answers with data of that month, or fails.
ArchiveAnswers(c) ==
    /\ pc[c] = "archive"
    /\ Answer(c, [source |-> "live"]) \/ Wait(c, "database")
    /\ UNCHANGED <<asked, database, searched>>

WeatherAnswer(call) ==
    [source |-> IF "weather_norms" \in tables /\ <<call.town, call.month>> \in Climate
                THEN "catalog" ELSE "stub"]

RowsRead(c) ==
    /\ pc[c] = "database"
    /\ LET call == turn[c]
       IN  CASE call.tool = "find_accommodation" -> Answer(c, LodgingAnswer(call))
             [] call.tool = "get_weather" -> Answer(c, WeatherAnswer(call))
             [] call.tool = "get_elevation_profile" ->
                  \/ /\ SegmentRow(call) = {}
                     /\ Wait(c, "pair")
                  \/ \E s \in SegmentRow(call) :
                        Answer(c, Terrain("catalog", s.km, s.gain, s.loss, s.grade, s.difficulty))
    /\ UNCHANGED <<asked, database, searched>>

\* Both ends are found, or there is nothing to go by but a moderate day of 80 km.
PairGeocoded(c) ==
    /\ pc[c] = "pair"
    /\ \/ Wait(c, "brouter")
       \/ Answer(c, Terrain("stub", 800, 150, 150, 30, "moderate"))
    /\ UNCHANGED <<asked, database, searched>>

Ridden(c) ==
    /\ pc[c] = "brouter"
    /\ LET call == turn[c]
       IN  \E ride \in Rides(call.town, call.to) :
              Answer(c, IF Insane(ride.km, GreatCircle(call.town, call.to))
                        THEN Estimate(call) ELSE RideAnswer(ride))
    /\ UNCHANGED <<asked, database, searched>>

\* Mutant: the whole fallback starts again.
RideFailsMutantRetries(c) ==
    /\ pc[c] = "brouter"
    /\ Wait(c, "pair")
    /\ UNCHANGED <<asked, database, searched>>

RideFails(c) ==
    /\ pc[c] = "brouter"
    /\ Answer(c, Estimate(turn[c]))
    /\ UNCHANGED <<asked, database, searched>>

\* The database fails, or any source answers in a shape the code does not expect: no
\* tool catches that; dispatch does.
Raises(c) ==
    /\ pc[c] # "done"
    /\ Answer(c, [source |-> "tool_exception"])
    /\ UNCHANGED <<asked, database, searched>>

-----------------------------------------------------------------------------
\* The seed script: each table is emptied and filled in one transaction.

SeedStarts ==
    /\ seeding = 0
    /\ seeding' = 1
    /\ UNCHANGED <<asked, tables, searched, pc, answer>>

\* Mutant: the rows are deleted in a transaction of their own.
SeedTableMutantTwoCommits ==
    /\ seeding > 0
    /\ IF SeedOrder[seeding] \in tables
       THEN tables' = tables \ {SeedOrder[seeding]} /\ UNCHANGED seeding
       ELSE /\ tables' = tables \cup {SeedOrder[seeding]}
            /\ seeding' = IF seeding = Len(SeedOrder) THEN 0 ELSE seeding + 1
    /\ UNCHANGED <<asked, searched, pc, answer>>

SeedTable ==
    /\ seeding > 0
    /\ tables' = tables \cup {SeedOrder[seeding]}
    /\ seeding' = IF seeding = Len(SeedOrder) THEN 0 ELSE seeding + 1
    /\ UNCHANGED <<asked, searched, pc, answer>>

SeedCrashes ==
    /\ seeding > 0
    /\ seeding' = 0
    /\ UNCHANGED <<asked, tables, searched, pc, answer>>

-----------------------------------------------------------------------------
Progress(c) ==
    \/ Geocoded(c) \/ GeocodeFails(c) \/ SearchAnswers(c) \/ SearchFails(c)
    \/ ArchiveAnswers(c) \/ RowsRead(c)
    \/ PairGeocoded(c) \/ Ridden(c) \/ RideFails(c)
    \/ Raises(c)

Seeding == SeedStarts \/ SeedTable \/ SeedCrashes

-----------------------------------------------------------------------------
\* Properties

\* A live answer rests on everything the call searched for: a failed search gives the
\* whole live answer up and never makes it look as if there were nothing to find.
Ids(places) == {p.id : p \in places}

LiveIsWhole ==
    \A c \in Calls : answer[c].source = "live" =>
        \A i \in DOMAIN Searches(turn[c]) :
            \E new \in Nearby(turn[c].town, Searches(turn[c])[i].types) :
                Ids(new) \subseteq Ids(found[c])

\* What was in the catalog when the call was made is never answered with a stub or an
\* estimate: not if live data fail half-way, not if the table is seeded anew meanwhile.
InCatalog(call) ==
    CASE call.tool = "find_accommodation" ->
            "accommodations" \in known /\ call.town \in DOMAIN LodgingCatalog
      [] call.tool = "get_points_of_interest" -> call.town \in DOMAIN PoiCatalog
      [] call.tool = "get_weather" ->
            "weather_norms" \in known /\ <<call.town, call.month>> \in Climate
      [] call.tool = "get_elevation_profile" ->
            /\ "elevation_segments" \in known
            /\ \E s \in SegmentRows : s.from = call.town /\ s.to = call.to
      [] OTHER -> FALSE

CataloguedNeverStubbed ==
    \A c \in Calls : ValidCall(turn[c]) /\ InCatalog(turn[c]) =>
        answer[c].source \in {"none", "live", "catalog", "tool_exception"}
=============================================================================
