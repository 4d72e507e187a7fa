------------------------------ MODULE MCRoutes ------------------------------
(***************************************************************************)
(* A corridor with a ferry, a through-town and two variants that share     *)
(* hops; a loop; a seeded corridor; a pair of places nobody catalogued.    *)
(***************************************************************************)
EXTENDS PlanReview, TLC

MCTowns == {"London", "Newhaven", "Dieppe", "Gisors", "Cergy", "Paris",
            "Palermo", "Cefalu", "Messina", "Elsewhere"}

Stop(town)        == [town |-> town, overnight |-> TRUE, ferry |-> FALSE]
FerryStop(town)   == [town |-> town, overnight |-> TRUE, ferry |-> TRUE]
ThroughTown(town) == [town |-> town, overnight |-> FALSE, ferry |-> FALSE]

MCFiles ==
  << [start |-> "London", end |-> "Paris", variants |->
       << [name |-> "v16a", default |-> TRUE,
           anchors |-> <<Stop("London"), Stop("Newhaven"), FerryStop("Dieppe"),
                         Stop("Cergy"), Stop("Paris")>>],
          [name |-> "gisors", default |-> FALSE,
           anchors |-> <<Stop("London"), Stop("Newhaven"), FerryStop("Dieppe"),
                         ThroughTown("Gisors"), Stop("Cergy"), Stop("Paris")>>] >>],
     [start |-> "Palermo", end |-> "Palermo", variants |->
       << [name |-> "coast", default |-> TRUE,
           anchors |-> <<Stop("Palermo"), Stop("Cefalu"), Stop("Messina"),
                         Stop("Palermo")>>] >>] >>

\* Metres; no sum of them lies half-way between two tenths of a kilometre.
MCLengths(from, to) ==
    CASE {from, to} = {"London", "Newhaven"} -> {98040}
      [] {from, to} = {"Dieppe", "Cergy"}    -> {60080, 172040}
      [] {from, to} = {"Cergy", "Paris"}     -> {48040}
      [] {from, to} = {"Palermo", "Cefalu"}  -> {68040, 110080}
      [] OTHER                               -> {84040}

MCTrips == {<<"London", "Paris">>, <<"Paris", "London">>, <<"Palermo", "Palermo">>,
            <<"London", "Elsewhere">>}

Row(town, km, ferry) == [town |-> town, from_start |-> km, ferry |-> ferry]

MCSeededRoutes ==
    <<"London", "Paris">> :> <<Row("London", 0, FALSE), Row("Newhaven", 1220, FALSE),
                               Row("Dieppe", 1220, TRUE), Row("Paris", 3800, FALSE)>>
    @@ <<"Paris", "London">> :> <<Row("Paris", 3800, FALSE), Row("Dieppe", 1220, TRUE),
                                  Row("Newhaven", 1220, FALSE), Row("London", 0, FALSE)>>
=============================================================================
