-------------------------- MODULE MCSavedSession --------------------------
(* An instance of SavedSession for TLC.                                    *)
EXTENDS SavedSession
=============================================================================
