---------------------------- MODULE MCHostEvents ----------------------------
(* HostEvents for TLC.  Imported hosts were last seen never, before the    *)
(* machine was started, a second ago and in the future.                    *)
EXTENDS HostEvents

MCImportedSeen == {-1, 0, 2, 4}
=============================================================================
