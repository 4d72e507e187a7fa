----------------------------- MODULE TripReview -----------------------------
(***************************************************************************)
(* From look-ups to a plan: the calls of one turn (Lookups), then a draft  *)
(* that the agent has criticised (critique_trip_plan) and priced           *)
(* (estimate_budget).  Those two tools wait for nobody.                    *)
(*                                                                         *)
(* The agent, a language model, is external: it drafts one day per stretch *)
(* it asked the terrain of, with what it was answered, and a night in a    *)
(* place it was offered, of the kind the cyclist wishes if there is one.   *)
(***************************************************************************)
EXTENDS Lookups, Critique, Budget

CONSTANT Wishes  \* what cyclists ask for: target, preference, breakdown, route

VARIABLES
    wish,    \* what this one asked for
    draft,   \* the drafted days
    issues,  \* what the critique found
    daily    \* the budget

review == <<wish, draft, issues, daily>>

\* The calls of one tool, in the order they were made.
CallsOf(tool) == Picked([c \in Calls |-> c], {c \in Calls : turn[c].tool = tool})

Legs   == CallsOf("get_elevation_profile")
Stays  == CallsOf("find_accommodation")

WantedKind(preference, k) ==
    CASE preference.every > 0 /\ k % preference.every = 0 -> {"hostel"}
      [] preference.every > 0 /\ k % preference.every # 0 -> Lodgings
      [] preference.every = 0 /\ preference.camping -> {"camping"}
      [] OTHER -> Lodgings

BedsOffered(k) == {p.kind : p \in answer[Stays[k]].items}

\* Where the k-th night may be spent.
Beds(preference, k) ==
    IF k > Len(Stays) \/ BedsOffered(k) = {} THEN {NoLodging}
    ELSE LET right == BedsOffered(k) \cap WantedKind(preference, k)
         IN  IF right = {} THEN BedsOffered(k) ELSE right

HasFerry(leg) ==
    \E c \in Calls : /\ turn[c].tool = "get_ferry_schedule"
                     /\ turn[c].town = turn[leg].town /\ turn[c].to = turn[leg].to

Drafted(nights) ==
    [k \in DOMAIN Legs |->
        LET terrain == answer[Legs[k]]
        IN  DraftedDay(k, terrain.km, terrain.gain, terrain.difficulty, nights[k],
                       HasFerry(Legs[k]))]

Mix(days) == [kind \in Lodgings |-> Cardinality({k \in DOMAIN days : days[k].lodging = kind})]

Answered == \A c \in Calls : pc[c] = "done"

TripInit ==
    /\ Init
    /\ wish = NoAnswer
    /\ draft = <<>>
    /\ issues = {}
    /\ daily = <<>>

\* The draft goes to the two tools.
Draft(w, nights) ==
    /\ draft = <<>>
    /\ Answered /\ Legs # <<>>
    /\ \A k \in DOMAIN Legs : answer[Legs[k]].source \notin Errors
    /\ \A k \in DOMAIN Stays : answer[Stays[k]].source \notin Errors
    /\ \A k \in DOMAIN Legs : nights[k] \in Beds(w.preference, k)
    /\ wish' = w
    /\ draft' = Drafted(nights)
    /\ issues' = CritiqueTripPlan(draft', w.target, w.preference)
    /\ daily' = EstimateBudget(
                  [target |-> w.target, days |-> Len(draft'), mix |-> Mix(draft'),
                   breakdown |-> w.breakdown, route |-> w.route,
                   ferry |-> \E k \in DOMAIN draft' : draft'[k].ferry])
    /\ UNCHANGED vars

Step(c) == c \in Calls /\ Progress(c) /\ UNCHANGED review

AllCalls == UNION {DOMAIN t : t \in Turns}

TripNext ==
    \/ \E c \in AllCalls : Step(c)
    \/ ~ Answered /\ Seeding /\ UNCHANGED review
    \/ \E w \in Wishes :
          \E nights \in [DOMAIN Legs -> Lodgings \cup {NoLodging}] : Draft(w, nights)

\* Every wait has a time-out: 8 s for places, 15 s for the archive, 10 s for BRouter.
Spec == /\ TripInit /\ [][TripNext]_<<vars, review>>
        /\ \A c \in AllCalls : WF_<<vars, review>>(Step(c))

-----------------------------------------------------------------------------
\* Properties

\* A stretch whose climb is unknown never passes for a flat one.  An estimate says
\* 0 m, so the critique cannot see a long day with a climb in it; the difficulty
\* that get_elevation_profile derives from the distance makes it ask.
EstimatesAreQuestioned ==
    \A k \in DOMAIN draft :
        answer[Legs[k]].source = "estimate" /\ draft[k].km > 1200 =>
            \E i \in issues : i.category = "consistency" /\ k \in i.days

\* Lists that have no hostel are returned unfiltered, and the agent has to take what
\* is there: each such night of a hostel pattern is named, and the plan is not passed.
GapsAreReported ==
    \A k \in DOMAIN draft :
        WantedKind(wish.preference, k) = {"hostel"}
        /\ (k \in DOMAIN Stays => "hostel" \notin BedsOffered(k))
        => /\ \E i \in issues : i.category = "accommodation_mismatch" /\ k \in i.days
           /\ Assess(issues) # "ship_it"

FerryEur(days) == FoldLeft(LAMBDA x, d : x + d.ferryEur, 0, days)

\* The budget pays for the drafted nights, as many of each kind, and for a ferry once,
\* although it hands nights and ferry out to the days in an order of its own.
BudgetCoversDraft ==
    /\ Len(daily) = Len(draft)
    /\ \A kind \in Lodgings :
          Cardinality({d \in DOMAIN daily : daily[d].lodging = kind}) = Mix(draft)[kind]
    /\ FerryEur(daily)
         = IF \E k \in DOMAIN draft : draft[k].ferry
           THEN Priced(FerryPriceEur, wish.route, 50) ELSE 0

\* Whatever fails, each call gets an answer, and the turn goes on.
CallsEnd == <> Answered
=============================================================================
