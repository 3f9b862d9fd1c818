----------------------------- MODULE ApduExchange -----------------------------
(***************************************************************************)
(* What the ISO-DEP link promises the code above it, one APDU at a time:   *)
(* in an exchange the card runs at most one command; an exchange that      *)
(* succeeds returns that command's whole answer; and from the opening of   *)
(* the session to the first exchange that fails, the command the card runs *)
(* is the APDU that was sent.  A failed exchange says nothing of what the  *)
(* card has done, and leaves a session in which the next command may reach *)
(* the card in another form than it was sent.                              *)
(***************************************************************************)
CONSTANTS
  Apdus,  \* what may be sent
  Mixed,  \* a command put together from pieces of others; not in Apdus
  None    \* neither

VARIABLES
  sound,  \* no exchange has failed since the session was opened
  doing,  \* the APDU being exchanged
  ran,    \* the command the card has run in the last exchange
  got     \* the command the last exchange returned the answer of

vars == <<sound, doing, ran, got>>

Init == sound = TRUE /\ doing = None /\ ran = None /\ got = None

(* The session is opened again, or an attempt to do so has failed *)
Reopen ==
  /\ doing = None
  /\ sound' \in BOOLEAN
  /\ UNCHANGED <<doing, ran, got>>

Begin(a) ==
  /\ doing = None
  /\ doing' = a /\ ran' = None /\ got' = None
  /\ UNCHANGED sound

Run(c) ==
  /\ doing # None /\ ran = None
  /\ sound => c = doing
  /\ ran' = c
  /\ UNCHANGED <<sound, doing, got>>

Succeed ==
  /\ doing # None /\ ran # None
  /\ doing' = None /\ got' = ran
  /\ UNCHANGED <<sound, ran>>

Fail ==
  /\ doing # None
  /\ doing' = None /\ sound' = FALSE
  /\ UNCHANGED <<ran, got>>

Next == \/ Reopen
        \/ \E a \in Apdus : Begin(a)
        \/ \E c \in Apdus \cup {Mixed} : Run(c)
        \/ Succeed \/ Fail

Spec == Init /\ [][Next]_vars
=============================================================================
