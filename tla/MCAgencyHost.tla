----------------------------- MODULE MCAgencyHost -----------------------------
(* Two agencies of one host, for TLC. *)
EXTENDS AgencyHost
=============================================================================
