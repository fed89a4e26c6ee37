-------------------------- MODULE MCCourierBooking --------------------------
(* Small instances of the courier booking effects for TLC. *)
EXTENDS CourierBooking, TLC

(* Every booking goes to a provider whose adapter swallows. *)
EveryRow == Row
DrainerSymmetry == Permutations(Drainer)
=============================================================================
