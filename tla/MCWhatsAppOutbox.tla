-------------------------- MODULE MCWhatsAppOutbox --------------------------
(* A small instance of the WhatsApp outbox for TLC. *)
EXTENDS WhatsAppOutbox
=============================================================================
