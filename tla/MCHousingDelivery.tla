------------------------- MODULE MCHousingDelivery -------------------------
(* Instances of HousingDelivery for TLC. *)
EXTENDS HousingDelivery, TLC

\* A listing reported live and updated by its photographs.
LiveThenUpdate == (1 :> "live") @@ (2 :> "update")
OneListing == [a \in Alerts |-> "m:1:1"]
=============================================================================
