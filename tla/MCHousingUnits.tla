--------------------------- MODULE MCHousingUnits ---------------------------
(* Instances of HousingUnits for TLC. *)
EXTENDS HousingUnits, TLC

Offer ==
    [offer |-> "yes", bedrooms |-> Unstated,
     bathrooms |-> Unstated, bathroomsSource |-> "unknown",
     type |-> "unstated", typeSource |-> "unknown",
     price |-> Unstated, terrace |-> FALSE, vision |-> "not_attempted"]
OneBathroom == [Offer EXCEPT !.bathrooms = 1, !.bathroomsSource = "text"]
WantedAd == [Offer EXCEPT !.offer = "no"]

OpenOrOneBathroom == [u \in Units |-> IF u = "u1" THEN {Offer, OneBathroom} ELSE {OneBathroom}]

\* The owner starts from two bathrooms and loosens to one.
Bathrooms(n) ==
    [bedrooms |-> Unstated, bathrooms |-> n, type |-> "unstated",
     rent |-> FALSE, rentMin |-> Unstated, rentMax |-> Unstated, terrace |-> FALSE]
TwoBathrooms == Bathrooms(2)
Looser == {Bathrooms(1)}

Saw(n, house) == [status |-> "usable", bathrooms |-> n, house |-> house, terrace |-> FALSE]
Blurred == [Saw(Unstated, FALSE) EXCEPT !.status = "error"]
TwoBathroomsOrBlurred == {Saw(2, FALSE), Blurred}
AHouse == {Saw(Unstated, TRUE)}

OneAlbum == [u \in Units |-> IF u = "u1" THEN "p1" ELSE NoPhoto]
=============================================================================
