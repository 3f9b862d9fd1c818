--------------------------- MODULE SecurityKeyRelay ---------------------------
(***************************************************************************)
(* The CCID relay of a contactless security key: the ISO-DEP session is    *)
(* opened when the host powers the card on, the host's APDUs are sent      *)
(* through it, and an exchange that fails is repaired by deselecting the   *)
(* card, waking it and opening the session again.  A SELECT of the FIDO    *)
(* applet is then sent again, and tried in every variant; a CTAP command   *)
(* is sent once more after the applet was selected; any other APDU fails.  *)
(*                                                                         *)
(* The link below is ApduExchange: IsoDep shows that the block protocol    *)
(* implements it.  Cards come and go at any time.  Which bytes an answer   *)
(* has is left out, but for its status word: "ok" (9000), "more" (61xx or  *)
(* 91xx), "refused" (another ISO 7816 status word), or "none".             *)
(*                                                                         *)
(* reader_security_key_select_app_ex can itself reopen a session that was  *)
(* opened without CID to a card that advertises CID.  No session the relay *)
(* uses is one (session_open reopens those itself), so that is left out,   *)
(* as are delays and heartbeats.                                           *)
(*                                                                         *)
(* A definition named X_... that nothing refers to is X with a plausible   *)
(* mistake, see IsoDep.                                                    *)
(***************************************************************************)
EXTENDS Integers, Sequences

CONSTANTS
  Cards,        \* security keys
  CidCards,     \* those whose ATS advertises CID
  Mixed, None,  \* as in ApduExchange
  Variants,     \* NFC_CTAP_FIDO_APP_SELECT_VARIANT_COUNT
  SwapMax       \* bound: how often a card is put on the reader or taken off

ASSUME CardsAssumption == CidCards \subseteq Cards /\ None \notin Cards
ASSUME BoundsAssumption == Variants \in Nat \ {0} /\ SwapMax \in Nat

(* What the host transmits: the SELECT of the FIDO applet, a CTAP command   *)
(* (NFCCTAP_MSG), and an APDU that is neither, a GET RESPONSE for instance  *)
Apdus == {"select", "ctap", "other"}

ASSUME NotApdus == {Mixed, None} \cap Apdus = {} /\ Mixed # None

VARIABLES
  field,      \* the card on the reader
  swaps,      \* how often that has changed
  awake,      \* the card that was activated and not taken off or deselected
  up,         \* it has answered RATS: the session is open
  fido,       \* its FIDO applet is selected
  uid,        \* whose G_UID14 and G_SAK the reader has
  deselected, \* last_deselect_ms # 0
  opened,     \* the host has powered the card on
  abort,      \* the host has asked for an abort of the command being served
  pc, then,   \* where the reader is; where a recovery returns to
  i,          \* loop counter of the variants, or of the webauthn steps
  apdu,       \* the host's APDU
  rsp,        \* what rsp holds: [of, sw, clean], see Answer
  reply,      \* what the host was answered
  sound, doing, ran, got,  \* the link: ApduExchange
  sw,         \* the status word of its answer
  repaired,   \* history: the session was opened again since the host transmitted
  runs        \* history: for each run of the host's APDU by a card, whether the
              \* session had been, whether the link was sound, the applet selected

Link == INSTANCE ApduExchange

card   == <<field, swaps, awake, up, fido>>
reader == <<uid, deselected, opened, pc, then, i, apdu, rsp, reply>>
link   == <<sound, doing, ran, got, sw>>
history == <<repaired, runs>>
vars   == <<card, reader, link, abort, history>>

(* An answer to the command it is of; clean (history): the link was sound *)
Answer(of, s, clean) == [of |-> of, sw |-> s, clean |-> clean]
Nothing == Answer(None, "none", TRUE)
Failure == Answer(None, "failure", TRUE)   \* 6F00
Aborted == Answer(None, "aborted", TRUE)   \* READER_SECURITY_KEY_ABORT_SW1, _SW2

Init ==
  /\ field = None /\ swaps = 0 /\ awake = None /\ up = FALSE /\ fido = FALSE
  /\ uid = None /\ deselected = FALSE /\ opened = FALSE /\ abort = FALSE
  /\ pc = "idle" /\ then = "idle" /\ i = 0
  /\ apdu = None /\ rsp = Nothing /\ reply = Nothing
  /\ Link!Init /\ sw = "none" /\ repaired = FALSE /\ runs = << >>

Goto(p) == pc' = p

-----------------------------------------------------------------------------
(* Cards.  One that is taken off forgets its session. *)

Swap ==
  /\ swaps < SwapMax
  /\ field' \in (Cards \cup {None}) \ {field}
  /\ swaps' = swaps + 1
  /\ awake' = None /\ up' = FALSE /\ fido' = FALSE
  /\ UNCHANGED <<reader, link, abort, history>>

Wake_KeepsUid(open) == /\ field # None
                       /\ awake' = field /\ UNCHANGED uid
                       /\ up' = open /\ fido' = FALSE

(* The card in the field is woken up, its session ended and opened or not; *)
(* or there is none, or the radio fails                                    *)
Wake(open) == /\ field # None
              /\ awake' = field /\ uid' = field
              /\ up' = open /\ fido' = FALSE
NoWake == awake' = None /\ up' = FALSE /\ fido' = FALSE /\ UNCHANGED uid

SessionChanges == Link!Reopen /\ sound' = up'

-----------------------------------------------------------------------------
(* reader_security_key_iso_dep_recover_session: DESELECT, WUPA, RATS.  What *)
(* answers WUPA is the card in the field, whichever it is.                  *)

Recover(next) == /\ Goto("recover") /\ then' = next

(* Where each caller goes on *)
AfterRecovery(ok) ==
  Goto(CASE then = "probe"    -> IF ok THEN "preempt" ELSE "retry"
         [] then = "retry"    -> IF ok THEN "preempt" ELSE "idle"
         [] then = "preempt"  -> IF ok THEN "opened" ELSE "idle"
         [] then = "reselect" -> IF ok THEN "reselect" ELSE "variant"
         [] then = "webauthn" -> IF ok THEN "webauthn" ELSE "fail")

RecoverSession ==
  /\ pc = "recover"
  /\ deselected' = TRUE
  /\ \/ Wake(TRUE) /\ AfterRecovery(TRUE)
     \/ (Wake(FALSE) \/ NoWake) /\ AfterRecovery(FALSE)
  /\ SessionChanges
  /\ repaired' = (repaired \/ up')
  /\ UNCHANGED <<field, swaps, opened, then, i, apdu, rsp, reply, sw, abort, runs>>

-----------------------------------------------------------------------------
(* Powering on: reader_security_key_ccid_open_iso_session *)

(* The polling for cards leaves the card it finds activated *)
Detect ==
  /\ pc = "idle" /\ ~opened
  /\ Wake(FALSE) /\ SessionChanges
  /\ UNCHANGED <<field, swaps, deselected, opened, pc, then, i, apdu, rsp, reply,
                 sw, abort, history>>

(* After a DESELECT the card is woken with WUPA and the session opened with *)
(* CID; otherwise a card that was found already is used as it is            *)
PowerOn ==
  /\ pc = "idle" /\ ~opened
  /\ \/ /\ deselected
        /\ \/ Wake(TRUE) /\ Goto("opened")
           \/ (Wake(FALSE) \/ NoWake) /\ Goto("idle")
     \/ /\ ~deselected /\ uid # None
        /\ Goto("probe") /\ UNCHANGED <<awake, up, fido, uid>>
     \/ /\ ~deselected /\ uid = None
        /\ \/ Wake(FALSE) /\ Goto("probe")
           \/ NoWake /\ Goto("idle")
  /\ SessionChanges
  /\ UNCHANGED <<field, swaps, deselected, opened, then, i, apdu, rsp, reply, sw,
                 abort, history>>

(* reader_security_key_iso_dep_session_open on the card that is awake: one  *)
(* that advertises CID has its session opened again with CID                *)
ProbeAnswered(c) == IF c \in CidCards THEN Recover(pc)
                    ELSE Goto("preempt") /\ UNCHANGED then

Probe ==
  /\ pc = "probe"
  /\ \/ awake # None /\ up' = TRUE /\ ProbeAnswered(awake)
     \/ up' = FALSE /\ Goto("retry") /\ UNCHANGED then
  /\ SessionChanges
  /\ UNCHANGED <<field, swaps, awake, fido, uid, deselected, opened, i, apdu, rsp,
                 reply, sw, abort, history>>

(* If that fails the card is activated once more *)
Retry ==
  /\ pc = "retry"
  /\ \/ Wake(TRUE) /\ ProbeAnswered(field)
     \/ (Wake(FALSE) \/ NoWake) /\ Goto("idle") /\ UNCHANGED then
  /\ SessionChanges
  /\ UNCHANGED <<field, swaps, deselected, opened, i, apdu, rsp, reply, sw, abort,
                 history>>

(* A session opened cold is opened again before the host uses it *)
Preempt ==
  /\ pc = "preempt"
  /\ Recover("preempt")
  /\ UNCHANGED <<card, uid, deselected, opened, i, apdu, rsp, reply, link, abort,
                 history>>

Opened ==
  /\ pc = "opened"
  /\ Goto("idle")
  /\ opened' = TRUE /\ deselected' = FALSE
  /\ UNCHANGED <<card, uid, then, i, apdu, rsp, reply, link, abort, history>>

(* reader_security_key_ccid_release_iso_session *)
PowerOff ==
  /\ pc = "idle" /\ opened
  /\ opened' = FALSE /\ deselected' = TRUE
  /\ NoWake /\ SessionChanges
  /\ UNCHANGED <<field, swaps, pc, then, i, apdu, rsp, reply, sw, abort, history>>

-----------------------------------------------------------------------------
(* One exchange over the link *)

(* What is being sent: the host's APDU, or a SELECT of the reader's own *)
Sending   == {"first", "reselect", "again", "variant", "webauthn"}
Selecting == {"variant", "webauthn"}
Sent      == IF pc \in Selecting THEN "select" ELSE apdu

(* select_app_ex sends nothing once an abort is pending *)
Begins ==
  /\ pc \in Sending /\ doing = None
  /\ pc \in Selecting => ~abort
  /\ pc = "variant" => i < Variants
  /\ Link!Begin(Sent) /\ sw' = "none"
  /\ UNCHANGED <<card, reader, abort, history>>

StatusWords(c) ==
  CASE c = "select" -> {"ok", "more", "refused", "odd", "short"}
    [] c = "ctap"   -> IF fido THEN {"ok", "more", "refused", "odd", "short"}
                       ELSE {"refused"}
    [] OTHER        -> {"ok", "refused", "short"}

(* Whether the applet is selected afterwards *)
Selected(c, s) ==
  CASE c = "ctap" -> {fido}
    [] c = "select" /\ s \in {"ok", "more"}   -> {TRUE}
    [] c = "select" /\ s \in {"odd", "short"} -> BOOLEAN
    [] OTHER -> {fido, FALSE}

(* A card runs the command, and answers it later.  "odd" ends in no status  *)
(* word that a relay may pass on; "short" is shorter than a status word.    *)
CardRuns ==
  /\ up
  /\ \E c \in Apdus \cup {Mixed} :
       /\ Link!Run(c)
       /\ sw' \in StatusWords(c)
       /\ fido' \in Selected(c, sw')
       /\ runs' = IF c = apdu /\ pc \notin Selecting
                  THEN Append(runs, [repaired |-> repaired, sound |-> sound, fido |-> fido])
                  ELSE runs
  /\ UNCHANGED <<repaired, field, swaps, awake, up, reader, abort>>

-----------------------------------------------------------------------------
(* reader_security_key_apdu_exchange *)

Returns(r) == Goto("idle") /\ reply' = r /\ UNCHANGED <<then, i, rsp>>

(* nfc_ctap_relay_response_disposition, and what the relay does without one *)
Relayable(r) == r.sw \in {"ok", "more", "refused"}
Long(r) == r.sw \notin {"none", "short"}
RelayedOrFailed(r) ==
  Returns(IF IF apdu = "ctap" THEN Relayable(r) ELSE Long(r) THEN r ELSE Failure)

Kept(r) == rsp' = IF Long(r) THEN r ELSE rsp

(* nfc_ctap_fido_webauthn_select_step: how a step after the first begins *)
Prep(s) == CASE s \in {1, 3} -> "recover" [] s = 2 -> "settle" [] OTHER -> "none"

NextWebauthnStep_SendsAnyway ==
  /\ i' = i + 1
  /\ CASE Prep(i') = "recover" -> Recover("webauthn")
       [] Prep(i') = "settle"  -> Goto("webauthn") /\ UNCHANGED then
       [] OTHER                -> Goto("again") /\ UNCHANGED then

(* Step i of selecting the applet failed *)
NextWebauthnStep ==
  /\ i' = i + 1
  /\ CASE Prep(i') = "recover" -> Recover("webauthn")
       [] Prep(i') = "settle"  -> Goto("webauthn") /\ UNCHANGED then
       [] OTHER                -> Goto("fail") /\ UNCHANGED then

NextVariant_Same == Goto("variant") /\ UNCHANGED <<i, then>>

NextVariant ==
  /\ i' = i + 1 /\ Goto("variant") /\ UNCHANGED then

(* The exchange has returned r: what follows depends on what was being sent *)
Answered(r) ==
  \/ /\ pc = "first" /\ apdu = "select" /\ ~Relayable(r)
     /\ Recover("reselect") /\ UNCHANGED <<i, rsp, reply>>
  \/ /\ pc = "first" /\ apdu = "ctap" /\ ~Long(r)
     /\ Recover("webauthn") /\ UNCHANGED <<i, rsp, reply>>
  \/ /\ pc = "first" /\ (apdu = "select" => Relayable(r)) /\ (apdu = "ctap" => Long(r))
     /\ RelayedOrFailed(r)
  \/ /\ pc = "reselect"
     /\ IF Relayable(r) THEN Returns(r)
        ELSE Goto("variant") /\ UNCHANGED <<then, i, rsp, reply>>
  \/ /\ pc = "variant"
     /\ IF r.sw = "ok" THEN Returns(r)
        ELSE NextVariant /\ Kept(r) /\ UNCHANGED reply
  \/ /\ pc = "webauthn" /\ Kept(r)
     /\ IF r.sw = "ok" THEN Goto("again") /\ UNCHANGED <<then, i>>
        ELSE NextWebauthnStep
     /\ UNCHANGED reply
  \/ /\ pc = "again"
     /\ RelayedOrFailed(r)

Succeeds ==
  /\ Link!Succeed
  /\ Answered(Answer(got', sw, sound))
  /\ UNCHANGED <<card, uid, deselected, opened, apdu, sw, abort, history>>

(* Nothing came back, or an abort was noticed on the way *)
Fails ==
  /\ Link!Fail
  /\ Answered(Nothing)
  /\ UNCHANGED <<card, uid, deselected, opened, apdu, sw, abort, history>>

AbortNoticed ==
  /\ pc \in Selecting /\ doing = None /\ abort
  /\ pc = "variant" => i < Variants
  /\ rsp' = Aborted
  /\ IF pc = "variant" THEN NextVariant ELSE NextWebauthnStep
  /\ UNCHANGED <<card, uid, deselected, opened, apdu, reply, link, abort, history>>

(* The variants are exhausted, or the applet could not be selected again *)
VariantsDone ==
  /\ pc = "variant" /\ i = Variants
  /\ Returns(IF Long(rsp) THEN rsp ELSE Failure)
  /\ UNCHANGED <<card, uid, deselected, opened, apdu, link, abort, history>>

GivesUp_ReturnsSelect ==
  /\ pc = "fail"
  /\ Returns(IF Relayable(rsp) THEN rsp ELSE Failure)
  /\ UNCHANGED <<card, uid, deselected, opened, apdu, link, abort, history>>

GivesUp ==
  /\ pc = "fail"
  /\ Returns(Failure)
  /\ UNCHANGED <<card, uid, deselected, opened, apdu, link, abort, history>>

(* The host transmits an APDU; it may ask for it to be aborted *)
Transmit(a) ==
  /\ pc = "idle" /\ opened
  /\ apdu' = a /\ Goto("first") /\ i' = 0 /\ rsp' = Nothing /\ reply' = Nothing
  /\ abort' = FALSE /\ repaired' = FALSE /\ runs' = << >>
  /\ UNCHANGED <<card, uid, deselected, opened, then, link>>

Aborts ==
  /\ pc # "idle" /\ ~abort
  /\ abort' = TRUE
  /\ UNCHANGED <<card, reader, link, history>>

-----------------------------------------------------------------------------
Host == PowerOn \/ PowerOff \/ Aborts \/ \E a \in Apdus : Transmit(a)

Reader == \/ RecoverSession \/ Probe \/ Retry \/ Preempt \/ Opened
          \/ Begins \/ Succeeds \/ Fails
          \/ AbortNoticed \/ VariantsDone \/ GivesUp

Next == Swap \/ Detect \/ CardRuns \/ Host \/ Reader

Spec == Init /\ [][Next]_vars

(* The reader never blocks: every exchange over the link ends (ExchangeEnds *)
(* of IsoDep), and so do WUPA and RATS                                      *)
FairSpec == Spec /\ WF_vars(Reader)

-----------------------------------------------------------------------------
(* Properties *)

Answers == [of : Apdus \cup {Mixed, None}, clean : BOOLEAN,
            sw : {"ok", "more", "refused", "odd", "short", "none", "failure", "aborted"}]

(* Every variable has its type; an open session is one with the card in the *)
(* field, whose UID is the one the reader has.                              *)
TypeOK ==
  /\ field \in Cards \cup {None} /\ swaps \in 0..SwapMax
  /\ awake \in {field, None} /\ up \in BOOLEAN /\ fido \in BOOLEAN
  /\ up => awake # None /\ uid = awake
  /\ fido => up
  /\ uid \in Cards \cup {None}
  /\ deselected \in BOOLEAN /\ opened \in BOOLEAN /\ abort \in BOOLEAN
  /\ pc \in Sending \cup {"idle", "probe", "retry", "preempt", "recover", "opened", "fail"}
  /\ then \in {"idle", "probe", "retry", "preempt", "reselect", "webauthn"}
  /\ pc = "recover" => then # "idle"
  /\ i \in 0..(IF Variants > 4 THEN Variants ELSE 4)
  /\ apdu \in Apdus \cup {None}
  /\ rsp \in Answers /\ reply \in Answers
  /\ sound \in BOOLEAN /\ doing \in Apdus \cup {None}
  /\ ran \in Apdus \cup {Mixed, None} /\ got \in Apdus \cup {Mixed, None}
  /\ sw \in {"ok", "more", "refused", "odd", "short", "none"}
  /\ repaired \in BOOLEAN
  /\ runs \in Seq([repaired : BOOLEAN, sound : BOOLEAN, fido : BOOLEAN])

(* What the host is answered is the answer to the APDU it transmitted, or a *)
(* failure of the relay's own: never the answer to a SELECT that the repair *)
(* of the session left in the buffer (reader_security_key_apdu_exchange,    *)
(* which keeps total apart from select_len).  Only on a link that had       *)
(* failed before and was not repaired may the answer be to something else.  *)
AnswersItsOwn ==
  pc = "idle" /\ reply.of # None /\ reply.clean => reply.of = apdu

(* An APDU is run again only where that was intended: a command that is     *)
(* neither SELECT nor CTAP runs at most once for each time it is            *)
(* transmitted, a CTAP command at most twice, and then the second time in a *)
(* session opened again since, with the applet selected, though cards come  *)
(* and go and aborts arrive in between.  The third attempt to select the    *)
(* applet follows a failed exchange without a recovery: after it the link   *)
(* may not be sound, and the applet not be selected                         *)
(* (reader_security_key_select_fido_for_host_webauthn).                     *)
RunAgainOnlyRepaired ==
  /\ apdu = "other" => Len(runs) <= 1
  /\ apdu = "ctap"  => /\ Len(runs) <= 2
                       /\ Len(runs) = 2 => /\ runs[2].repaired
                                           /\ runs[2].sound => runs[2].fido

(* Every APDU is answered, and every attempt to open the session ends, when *)
(* cards come and go, answer nothing, or nothing usable, in any order.      *)
RelayReturns == pc # "idle" ~> pc = "idle"

=============================================================================
