------------------------------ MODULE DayPlan ------------------------------
(***************************************************************************)
(* _suggest_day_plan of src/src/tools/route_real.py: the stops of a route  *)
(* are grouped into days so that the sum of squared deviations from the    *)
(* daily target is least.  Distances are tenths of a kilometre.            *)
(*                                                                         *)
(* A plan is represented by its ends: the positions of the stops at which  *)
(* its nights are spent, the start of the route first.                     *)
(***************************************************************************)
EXTENDS Naturals, SequencesExt

\* Python's round(a / b): halves go to the even neighbour.
RoundedRatio(a, b) ==
    LET q == a \div b
        r == a % b
    IN  IF 2 * r > b \/ (2 * r = b /\ q % 2 = 1) THEN q + 1 ELSE q

\* max(1, ceil(total / target))
EstimatedDays(total, target) == Max({1, (total + target - 1) \div target})

\* Mutant: the estimate shown for the route, a started day counted whole.
DayCountMutantCeil(stops, target) ==
    Min({EstimatedDays(Last(stops).from_start, target), Len(stops) - 1})

\* No more days than there are stops to end them at.
DayCount(stops, target) ==
    Min({Max({1, RoundedRatio(Last(stops).from_start, target)}), Len(stops) - 1})

\* The squared deviation of a day from stop k to stop i.
Deviation(stops, target, k, i) ==
    LET km == stops[i].from_start - stops[k].from_start
    IN  IF km > target THEN (km - target) * (km - target)
                       ELSE (target - km) * (target - km)

\* Of two ways to end a day at the same stop, the code keeps the cheaper, and of
\* two that cost the same the one whose last day starts earlier.
StartOfLastDay(o) == o.ends[Len(o.ends) - 1]

\* Mutant: the shortest last day, as a greedy split from the end would choose.
BetterMutantGreedy(o, p) == StartOfLastDay(o) >= StartOfLastDay(p)

Better(o, p) ==
    \/ o.cost < p.cost
    \/ o.cost = p.cost /\ StartOfLastDay(o) <= StartOfLastDay(p)

Cheapest(options) == {o \in options : \A p \in options : Better(o, p)}

\* The ways to end day d at stop i, given the best ways to end the day before.
Options(stops, target, before, d, i) ==
    UNION {{[cost |-> b.cost + Deviation(stops, target, k, i), ends |-> Append(b.ends, i)] :
               b \in before[k]} : k \in d..(i - 1)}

\* The dynamic program: best[d][i] holds the best way to end day d at stop i, and
\* is empty where the code has an infinite cost.
BestEnds(stops, target, days) ==
    LET best[d \in 0..days] ==
          [i \in 1..Len(stops) |->
             IF d = 0 THEN IF i = 1 THEN {[cost |-> 0, ends |-> <<1>>]} ELSE {}
             ELSE Cheapest(Options(stops, target, best[d - 1], d, i))]
    IN  (CHOOSE b \in best[days][Len(stops)] : TRUE).ends

PlanEnds(stops, target) ==
    LET days == DayCount(stops, target)
    IN  IF days = 1 THEN <<1, Len(stops)>> ELSE BestEnds(stops, target, days)

\* What a day rides is summed from the segments, not read off the cumulative distances.
CyclingKm(visited) == FoldLeft(LAMBDA x, s : x + s.segment, 0, visited)

\* The DayPlans.
SuggestDayPlan(stops, target) ==
    IF Len(stops) < 2 THEN <<>>
    ELSE LET ends == PlanEnds(stops, target)
         IN  [d \in 1..(Len(ends) - 1) |->
                LET visited == SubSeq(stops, ends[d] + 1, ends[d + 1])
                IN  [from |-> stops[ends[d]].town, to |-> stops[ends[d + 1]].town,
                     km |-> CyclingKm(visited),
                     ferry |-> \E i \in 1..Len(visited) : visited[i].ferry]]

-----------------------------------------------------------------------------
\* The reference: all ways to group the stops into this many days.

AllEnds(stops, days) ==
    {ends \in [1..(days + 1) -> 1..Len(stops)] :
        /\ ends[1] = 1 /\ ends[days + 1] = Len(stops)
        /\ \A d \in 1..days : ends[d] < ends[d + 1]}

Cost(stops, target, ends) ==
    FoldLeft(LAMBDA x, d : x + Deviation(stops, target, ends[d], ends[d + 1]), 0,
             [d \in 1..(Len(ends) - 1) |-> d])
=============================================================================
