----------------------------- MODULE MCCcidUsbRx -----------------------------
(* Small instances of CcidUsbRx for TLC: packets of 4, headers of 2 and     *)
(* payloads of up to 7 units, so that frames of 4 and 8 fill their packets, *)
(* the longest frame is 9, and the buffer overflows in the third packet.    *)
EXTENDS CcidUsbRx

MCSizes   == {0, 1, 2, 4, 9, 12}
MCLengths == {0, 2, 7, 8}
=============================================================================
