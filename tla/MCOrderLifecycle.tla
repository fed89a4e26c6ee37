-------------------------- MODULE MCOrderLifecycle --------------------------
(* Instances of OrderLifecycle for TLC: the carriers' histories. *)
EXTENDS OrderLifecycle, TLC
CONSTANTS o1, o2, clock, press
Units == (o1 :> 1) @@ (o2 :> 2)
Unit == o1 :> 1
Symmetry == Permutations(Button)

(* A delivery, and a refusal that turns back. *)
TwoEnds == {<<"in_transit", "delivered">>, <<"out_for_delivery", "refused", "returned">>}
(* Scans in any number, both ends, and reports after the end. *)
Histories ==
    {<<"picked_up", "at_hub", "delivered">>,
     <<"out_for_delivery", "delivered", "delivered">>,
     <<"out_for_delivery", "returned", "in_transit">>,
     <<"in_transit", "refused", "in_transit">>}
(* Two scans of a parcel on its way, in every order and from every word,   *)
(* then a failure or a return, whether the recovery commands accept it or  *)
(* not; ends with a scan after them; and deliveries of parcels seen on the *)
(* road.                                                                   *)
OnTheWay == {"picked_up", "in_transit", "at_hub", "out_for_delivery"}
Plain ==
    {<<a, b, end>> : a \in OnTheWay, b \in OnTheWay, end \in {"failed", "returned"}}
    \cup {<<"out_for_delivery", "refused">>,
          <<"out_for_delivery", "failed", "at_hub">>,
          <<"picked_up", "returned", "in_transit">>,
          <<"created", "picked_up", "in_transit", "delivered">>,
          <<"in_transit", "out_for_delivery", "delivered">>}
(* EcoTrack: annule (failed) after en_ramassage. *)
Early == {<<"picked_up", "failed">>}
(* ZR Express: stopdesk, then refus. *)
Desked == {<<"in_transit", "at_hub", "refused">>}
(* Yalidine: collected at the desk, no "Sorti en livraison" before "Livré". *)
Desk == {<<"delivered">>}
(* Maystro: NOT_RECEIVED, then READY_TO_RETURN, then TAKEN_BY_STORE. *)
Refused == {<<"in_transit", "refused", "in_transit", "returned">>}
(* EcoTrack: return_asked, return_in_transit, Return_received. *)
Retour == {<<"in_transit", "returned", "returned">>}
=============================================================================
