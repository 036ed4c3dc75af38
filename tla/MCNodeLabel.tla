----------------------------- MODULE MCNodeLabel -----------------------------
(* One label from the host and one from the driver.                         *)
EXTENDS NodeLabel

CONSTANTS model, driverVersion
=============================================================================
