------------------------------ MODULE Critique ------------------------------
(***************************************************************************)
(* critique_trip_plan, src/src/tools/critique.py: the rules a drafted plan *)
(* is checked against before the agent presents it, and the verdict.       *)
(*                                                                         *)
(* Distances and the daily target are tenths of a kilometre, as in         *)
(* DayPlan; climbs are metres.  The float comparisons of the code are      *)
(* comparisons of products of integers here.  The messages are left out:   *)
(* an issue is its severity, its category and the days it names.           *)
(***************************************************************************)
EXTENDS Naturals, SequencesExt

Lodgings     == {"camping", "hostel", "guesthouse", "hotel"}
Difficulties == {"easy", "moderate", "hard", "extreme"}
NoLodging    == "none"

\* What _parse_hostel_every_n and the search for "camping" make of the free text:
\* every n-th night in a hostel (0 if it does not say so), or camping only.
AnyLodging     == [every |-> 0, camping |-> FALSE]
HostelEvery(n) == [every |-> n, camping |-> FALSE]
CampingOnly    == [every |-> 0, camping |-> TRUE]

DraftedDay(number, km, gain, difficulty, lodging, ferry) ==
    [number |-> number, km |-> km, gain |-> gain, difficulty |-> difficulty,
     lodging |-> lodging, ferry |-> ferry]

Issue(severity, category, days) ==
    [severity |-> severity, category |-> category, days |-> days]

\* One issue for each day that has the trait.
Named(severity, category, days, Trait(_)) ==
    {Issue(severity, category, {days[i].number}) :
        i \in {j \in 1..Len(days) : Trait(days[j])}}

IsHard(d) == d.difficulty \in {"hard", "extreme"}

-----------------------------------------------------------------------------
\* 40 % over the target is a warning; below half of it is worth a remark, unless a
\* ferry explains it.
CheckPacing(days, target) ==
    Named("warning", "pacing", days, LAMBDA d : 5 * d.km > 7 * target)
    \cup Named("info", "pacing", days,
               LAMBDA d : 0 < d.km /\ 2 * d.km < target /\ ~ d.ferry)

\* A day nobody should ride: more than 150 km, or 120 km with 600 m of climbing.
IsTooMuch(d) == d.km > 1500 \/ (d.km > 1200 /\ d.gain > 600)

CheckAbsoluteDayBlockers(days) == Named("blocker", "pacing", days, IsTooMuch)

\* Two demanding days in a row.
CheckElevationPacing(days) ==
    LET Pairs(Trait(_, _)) ==
          {Issue("warning", "elevation_pacing", {days[i].number, days[i + 1].number}) :
              i \in {j \in 1..(Len(days) - 1) : Trait(days[j], days[j + 1])}}
    IN  Pairs(LAMBDA prev, curr : IsHard(curr) /\ prev.km > 1100)
        \cup Pairs(LAMBDA prev, curr : prev.gain > 600 /\ curr.gain > 600)

\* Mutant: the last night is not looked at.
CheckAccommodationPatternMutantOffByOne(days, preference) ==
    LET last   == Max({days[i].number : i \in 1..Len(days)}) - 1
        hostel == {days[i].number : i \in {j \in 1..Len(days) : days[j].lodging = "hostel"}}
        missing == {k \in 1..last : k % preference.every = 0} \ hostel
    IN  IF preference.every > 0 /\ missing # {}
        THEN {Issue("warning", "accommodation_mismatch", missing)} ELSE {}

\* A hostel every n-th night, or nothing but camp sites.
CheckAccommodationPattern(days, preference) ==
    LET Nights(Trait(_)) == {days[i].number : i \in {j \in 1..Len(days) : Trait(days[j])}}
        last    == Max(Nights(LAMBDA d : TRUE))
        missing == {k \in 1..last : k % preference.every = 0}
                       \ Nights(LAMBDA d : d.lodging = "hostel")
        indoors == Nights(LAMBDA d : d.lodging \notin {"camping", NoLodging})
    IN  CASE preference.every > 0 /\ missing # {} ->
               {Issue("warning", "accommodation_mismatch", missing)}
          [] preference.every = 0 /\ preference.camping /\ indoors # {} ->
               {Issue("info", "accommodation_mismatch", indoors)}
          [] OTHER -> {}

\* Hard, but no climb: the data deserve a look.
CheckConsistency(days) ==
    Named("info", "consistency", days,
          LAMBDA d : d.km > 500 /\ d.gain = 0 /\ IsHard(d))

\* Whether the average of days that make up total lies off the target by at least
\* this many per cent of it.
DriftsBy(percent, total, days, target) ==
    LET asked == days * target
        off   == IF total > asked THEN total - asked ELSE asked - total
    IN  100 * off >= percent * asked

CheckConstraintDrift(days, target) ==
    LET total == FoldLeft(LAMBDA x, d : x + d.km, 0, days)
    IN  IF ~ DriftsBy(12, total, Len(days), target) THEN {}
        ELSE {Issue(IF DriftsBy(25, total, Len(days), target) THEN "blocker" ELSE "warning",
                    "constraint_drift", 1..Len(days))}

-----------------------------------------------------------------------------
\* The days may be listed in any order; the checks take them by number.
InOrder(drafted) ==
    LET place == CHOOSE p \in Bijection(DOMAIN drafted, DOMAIN drafted) :
                    \A i, j \in DOMAIN drafted :
                        i < j => drafted[p[i]].number <= drafted[p[j]].number
    IN  [i \in DOMAIN drafted |-> drafted[place[i]]]

CritiqueTripPlan(drafted, target, preference) ==
    LET days == InOrder(drafted)
    IN  CheckPacing(days, target)
        \cup CheckAbsoluteDayBlockers(days)
        \cup CheckElevationPacing(days)
        \cup CheckAccommodationPattern(days, preference)
        \cup CheckConsistency(days)
        \cup CheckConstraintDrift(days, target)

Assess(issues) ==
    IF \E i \in issues : i.severity = "blocker" THEN "major_revisions"
    ELSE IF \E i \in issues : i.severity = "warning" THEN "minor_revisions"
    ELSE "ship_it"
=============================================================================
