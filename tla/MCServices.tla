------------------------------ MODULE MCServices ------------------------------
(***************************************************************************)
(* Small instances of Services.                                            *)
(***************************************************************************)
EXTENDS Services
=============================================================================
