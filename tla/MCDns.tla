------------------------------- MODULE MCDns -------------------------------
(* Dns for TLC.                                                            *)
EXTENDS Dns
=============================================================================
