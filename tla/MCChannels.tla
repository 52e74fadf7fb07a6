------------------------------ MODULE MCChannels ------------------------------
(* Channels on the invoices of one point de vente, for TLC. *)
EXTENDS Channels, TLC
===============================================================================
