------------------------------ MODULE MCMirror ------------------------------
(***************************************************************************)
(* Instances of Mirror for TLC.                                            *)
(***************************************************************************)
EXTENDS Mirror, MCNotifications
=============================================================================
