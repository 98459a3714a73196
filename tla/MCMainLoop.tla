----------------------------- MODULE MCMainLoop -----------------------------
(* MainLoop for TLC.                                                       *)
EXTENDS MainLoop
=============================================================================
