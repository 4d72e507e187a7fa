---------------------------- MODULE MCTripReview ----------------------------
(***************************************************************************)
(* Turns on the Avenue Verte, which is in the catalog, and in the Fens,    *)
(* which are not.                                                          *)
(***************************************************************************)
EXTENDS TripReview, TLC

Terrace(from, to, km, gain, loss, grade, difficulty) ==
    [from |-> from, to |-> to, km |-> km, gain |-> gain, loss |-> loss, grade |-> grade,
     difficulty |-> difficulty]

MCSegments ==
    {Terrace("London", "Lewes", 1100, 600, 560, 50, "moderate"),
     Terrace("Lewes", "Newhaven", 120, 40, 80, 20, "easy"),
     Terrace("Newhaven", "Dieppe", 0, 0, 0, 0, "easy")}

MCLodgingCatalog ==
    "lewes" :> <<"camping", "guesthouse">> @@ "newhaven" :> <<"hotel", "hostel">>
MCPoiCatalog == "lewes" :> <<"pub", "bike_shop", "toilet">>
MCClimate    == {<<"lewes", "June">>}
MCSailings   == {<<"Newhaven", "Dieppe">>}
MCLocated    == {"lewes", "ely"}

Found(id, types) == [id |-> id, types |-> types]

\* A camp site that is also a caravan park, a youth hostel and a shop that repairs
\* and rents out bicycles.
MCPlaces(town) ==
    {Found(1, {"campground", "rv_park", "lodging"}),
     Found(2, {"bicycle_store"}), Found(3, {"bar"})}
    \cup IF town = "ely" THEN {} ELSE {Found(4, {"lodging", "hostel"})}

MCNearby(town, types) == {{p \in MCPlaces(town) : p.types \cap types # {}}}

MCGreatCircle(from, to) == IF to = "Ely" THEN 1000 ELSE 400

\* A plausible ride, one that is much too long, one up a wall.
MCRides(from, to) ==
    {[km |-> 1250, gain |-> 700], [km |-> 2600, gain |-> 300], [km |-> 10, gain |-> 700]}

MCTurns ==
    { <<Elevation("London", "Lewes"), Lodging("lewes", <<"hostel">>, 2),
        Elevation("Lewes", "Newhaven"), Lodging("newhaven", <<>>, 2)>>,
      <<Elevation("Newhaven", "Dieppe"), Ferry("Newhaven", "Dieppe"),
        Elevation("Girton", "Ely"), Lodging("ely", <<"hostel", "camping">>, 1)>>,
      <<Elevation("Newhaven", "Dieppe"), Ferry("Newhaven", "Dieppe")>>,
      <<Weather("lewes", "June"), Weather("ely", "June"), Pois("lewes", <<>>, 2),
        Pois("lewes", <<"toilet">>, 3)>>,
      <<Elevation("Girton", "Ely"), Lodging("ely", <<"camping">>, 0),
        [tool |-> "book_hotel", town |-> "ely"], Pois("ely", <<"bike_shop", "bike_rental">>, 1)>> }

Wish(target, preference, breakdown, route) ==
    [target |-> target, preference |-> preference, breakdown |-> breakdown, route |-> route]

Nights1(country) == [country |-> country, nights |-> 1]

MCWishes ==
    {Wish(1000, HostelEvery(1), <<>>, "newhaven-dieppe"),
     Wish(600, HostelEvery(2), <<Nights1("GB"), Nights1("FR")>>, "unknown"),
     Wish(1200, CampingOnly, <<Nights1("XX")>>, "newhaven-dieppe"),
     Wish(1400, AnyLodging, <<>>, "unknown")}
=============================================================================
