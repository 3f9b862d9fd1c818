------------------------------- MODULE MCIsoDep -------------------------------
(* A small instance of IsoDep for TLC: an APDU of one I-block and one of    *)
(* three, so that a first, a middle and a last block occur.                 *)
EXTENDS IsoDep
CONSTANTS short, long
MCApdus == {short, long}
MCParts == [a \in MCApdus |-> IF a = short THEN 1 ELSE 3]
=============================================================================
