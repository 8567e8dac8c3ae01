------------------------------ MODULE MCLance ------------------------------
(***************************************************************************)
(* Instances of Lance for TLC.                                             *)
(***************************************************************************)
EXTENDS Lance

Normal == {{}}
=============================================================================
