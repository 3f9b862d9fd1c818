----------------------------- MODULE MCCcidUsbTx -----------------------------
(* A small instance of CcidUsbTx for TLC: messages of less than a packet,   *)
(* of one and two full packets, and of more.                                *)
EXTENDS CcidUsbTx
=============================================================================
