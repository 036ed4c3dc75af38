----------------------------- MODULE MCDriverInit -----------------------------
(* Three cards: the driver can have a part of them and number it.           *)
EXTENDS DriverInit
=============================================================================
