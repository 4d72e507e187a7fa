----------------------------- MODULE PlanReview -----------------------------
(***************************************************************************)
(* The plans get_route suggests (Routes), as critique_trip_plan (Critique) *)
(* judges them when the agent drafts them day by day.                      *)
(***************************************************************************)
EXTENDS Routes, Critique

\* The suggested days as drafted ones.  Their terrain and nights come from other
\* tools; the drift from the target does not depend on them.
DraftOf(v) ==
    [d \in 1..Len(v.days) |->
        DraftedDay(d, v.days[d].km, 0, "easy", NoLodging, v.days[d].ferry)]

\* There are stops enough for the days the distance calls for.
Uncapped(v, target) == 2 * v.total <= (2 * Len(v.stops) - 1) * target

\* Half a tenth of a kilometre for each segment is less than a quarter of a day.
RoundingIsSlight(v, target) == 2 * Len(v.stops) < target

Blocked(issues) == \E i \in issues : i.severity = "blocker"

-----------------------------------------------------------------------------
\* The day count get_route rounds to never makes the critique refuse the plan for its
\* average day: what one tool suggests the other does not send back for ever.  This
\* takes three days; the average of a shorter trip may lie 25 % off the target
\* whatever the number of days.
SuggestedPlansShip ==
    \A r \in Requests : outcome[r] \in {"brouter", "seeded"} =>
        \A i \in 1..Len(Variants(r)) :
            LET v == Variants(r)[i]
                target == ask[r].target
            IN  Len(v.days) >= 3 /\ Uncapped(v, target) /\ RoundingIsSlight(v, target) =>
                    ~ Blocked(CheckConstraintDrift(DraftOf(v), target))
=============================================================================
