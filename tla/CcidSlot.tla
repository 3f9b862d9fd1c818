------------------------------ MODULE CcidSlot ------------------------------
(***************************************************************************)
(* What a CCID slot promises to its host, with nothing of how the reader   *)
(* keeps the promise.  A slot is absent, inactive or active; a card is     *)
(* inserted only into an absent slot, and leaves it absent, so a different *)
(* card is never found in a slot the host still holds powered.  The FIDO   *)
(* application is selected only on an active Type 4 card and does not      *)
(* survive the session it was selected in.                                 *)
(*                                                                         *)
(* CcidSession implements this specification (see CcidSession_proofs).     *)
(***************************************************************************)
CONSTANTS Kinds,    \* the tag kinds the reader supports
          Type4,    \* the kind whose session is an ISO-DEP link
          NoTag     \* the kind of an empty slot

VARIABLES slot,     \* "absent", "inactive" or "active"
          kind,     \* the kind of the inserted card
          fido      \* the FIDO application is selected

slotVars == <<slot, kind, fido>>

SlotInit == slot = "absent" /\ kind = NoTag /\ fido = FALSE

Insert(k) == /\ slot = "absent"
             /\ slot' = "inactive" /\ kind' = k /\ fido' = FALSE

Remove == /\ slot # "absent"
          /\ slot' = "absent" /\ kind' = NoTag /\ fido' = FALSE

PowerOn == /\ slot = "inactive"
           /\ slot' = "active" /\ fido' = FALSE
           /\ UNCHANGED kind

PowerOff == /\ slot = "active"
            /\ slot' = "inactive" /\ fido' = FALSE
            /\ UNCHANGED kind

SelectFido == /\ slot = "active" /\ kind = Type4
              /\ fido' = TRUE
              /\ UNCHANGED <<slot, kind>>

SlotNext == \/ \E k \in Kinds : Insert(k)
            \/ Remove \/ PowerOn \/ PowerOff \/ SelectFido

SlotSpec == SlotInit /\ [][SlotNext]_slotVars

=============================================================================
