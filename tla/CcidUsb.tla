-------------------------------- MODULE CcidUsb --------------------------------
(***************************************************************************)
(* What both directions of the CCID bulk pipe have in common: the size of  *)
(* their packets, and the endpoints, which the host's configuration opens  *)
(* and a bus reset closes together (nero_ccidd_open, nero_ccidd_reset).    *)
(***************************************************************************)
EXTENDS Integers

CONSTANTS
  EP,  \* NERO_CCID_BULK_EPSIZE
  Ids  \* what tells two transfers or messages of the same shape apart

VARIABLE isOpen  \* s_ep_bulk_out != 0, s_ep_bulk_in != 0
=============================================================================
