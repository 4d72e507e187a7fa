------------------------------- MODULE Budget -------------------------------
(***************************************************************************)
(* estimate_budget, src/src/tools/budget.py: what each day of a trip costs *)
(* and how much the cyclist has to eat.  Money is in euros; the            *)
(* contingency of 10 % and the rounding to cents are left out.             *)
(***************************************************************************)
EXTENDS Integers, SequencesExt

\* The order in which nights are handed out.
Order == <<"camping", "hostel", "guesthouse", "hotel">>
NotCovered == "none"

NightlyPriceEur ==
    [camping |-> 18, hostel |-> 38, guesthouse |-> 78, hotel |-> 110, none |-> 0]

FoodEurPerDay ==
    [GB |-> 28, FR |-> 24, BE |-> 25, NL |-> 26, DE |-> 22, DK |-> 32, SE |-> 30,
     NO |-> 38, CH |-> 36, AT |-> 24, IT |-> 24, ES |-> 22, PT |-> 20, IE |-> 28]

FerryPriceEur ==
    [crossing \in {"newhaven-dieppe", "dover-calais", "rodby-puttgarden",
                   "harwich-hook of holland"} |->
        CASE crossing = "newhaven-dieppe"         -> 65
          [] crossing = "dover-calais"            -> 45
          [] crossing = "rodby-puttgarden"        -> 25
          [] crossing = "harwich-hook of holland" -> 70]

Priced(prices, name, default) == IF name \in DOMAIN prices THEN prices[name] ELSE default

-----------------------------------------------------------------------------
\* The kind the inner loop comes to at its n-th visit.
KindAt(n) == Order[((n - 1) % 4) + 1]

\* The nights of a mix in rounds, each with one night of every kind that has some left.
\* A round that hands out none is the last, so there is one for each day at most.
Rounds(mix, days) ==
    LET nights[n \in 0..(4 * days)] ==
          IF n = 0 THEN <<>>
          ELSE IF mix[KindAt(n)] > (n - 1) \div 4 THEN Append(nights[n - 1], KindAt(n))
          ELSE nights[n - 1]
    IN  nights[4 * days]

\* As many of them as the trip has days; days the mix does not cover have none.
ExpandAccommodationSchedule(mix, days) ==
    LET nights == Rounds(mix, days)
    IN  [d \in 1..days |-> IF d <= Len(nights) THEN nights[d] ELSE NotCovered]

\* The country a day is in, if the nights spent in each follow each other; the
\* breakdown may end early.
FoodEurForDay(day, breakdown) ==
    LET until(i) == FoldLeft(LAMBDA x, c : x + c.nights, 0, SubSeq(breakdown, 1, i))
        here == {i \in 1..Len(breakdown) : day <= until(i)}
    IN  IF here = {} THEN 25 ELSE Priced(FoodEurPerDay, breakdown[Min(here)].country, 25)

\* Mutant: the middle of a one-day trip is no day at all.
FerryDayMutantZero(trip) == IF trip.ferry THEN trip.days \div 2 ELSE 0

\* The ferry is charged to one day in the middle.
FerryDay(trip) == IF trip.ferry THEN Max({1, trip.days \div 2}) ELSE 0

\* trip: the target (tenths of a kilometre), the days, the mix, the breakdown and the
\* ferry.
EstimateBudget(trip) ==
    LET schedule == ExpandAccommodationSchedule(trip.mix, trip.days)
    IN  [d \in 1..trip.days |->
           [lodging |-> schedule[d],
            lodgingEur |-> NightlyPriceEur[schedule[d]],
            foodEur |-> FoodEurForDay(d, trip.breakdown),
            ferryEur |-> IF d = FerryDay(trip)
                         THEN Priced(FerryPriceEur, trip.route, 50) ELSE 0,
            kcal |-> 1800 + 3 * trip.target]]
=============================================================================
