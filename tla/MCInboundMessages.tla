------------------------- MODULE MCInboundMessages -------------------------
(* A small instance of the inbound message path for TLC. *)
EXTENDS InboundMessages
=============================================================================
