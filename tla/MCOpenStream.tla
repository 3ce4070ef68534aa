---------------------------- MODULE MCOpenStream ----------------------------
(* Values for OpenStream: three frames per stream, as booking-manager sends,  *)
(* drawn from a status that is not terminal, one the BFF does not know and    *)
(* the two that are terminal.                                                 *)
EXTENDS OpenStream

Statuses == {"REQUESTED", "UNKNOWN", "ERROR", "SUCCESS"}
=============================================================================
