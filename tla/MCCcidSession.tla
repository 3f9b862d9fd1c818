---------------------------- MODULE MCCcidSession ----------------------------
(* Small instances of CcidSession for TLC. *)
EXTENDS CcidSession
=============================================================================
