----------------------------- MODULE CcidSession -----------------------------
(***************************************************************************)
(* The CCID slot of the reader: the bulk command handler, the XfrBlock     *)
(* command and response chains, the session of the powered card, the       *)
(* abort latch, time extensions, and the arrival and removal of tags as    *)
(* the main loop reports them.                                             *)
(*                                                                         *)
(* reader_loop runs forever: reader_ccid_poll completes a deferred removal *)
(* (pc = "poll"), takes at most one bulk frame (pc = "bulk") and handles   *)
(* it to the end, then reader_ccid_loop_step looks at the field            *)
(* (pc = "step").  Two commands work long enough for other things to       *)
(* happen meanwhile, because each message they send runs tud_task: powering *)
(* a card on (pc = "power") and dispatching an APDU (pc = "dispatch").     *)
(* The host's control requests, bus resets and the clock interleave        *)
(* everywhere.                                                             *)
(*                                                                         *)
(* A bulk frame is chosen by the host when the loop takes it: nothing      *)
(* looks at a frame before that.  CcidUsbRx models how frames get here.    *)
(*                                                                         *)
(* A definition named X_... that nothing refers to (DropLink_KeepsFido) is *)
(* X with a plausible mistake: in the place of X it must make the property *)
(* fail that PROJECT.json lists with it.                                   *)
(***************************************************************************)
EXTENDS Integers, Sequences

CONSTANTS
  StorageKinds,  \* tag kinds served by storage APDUs (Type 2 and Type 5)
  Type4,         \* the ISO-DEP tag kind
  NoTag,         \* no tag
  Seqs,          \* values of bSeq
  NoSeq,         \* "no abort latched", "no time-extension callback bound"
  Apdus,         \* contents of one XfrBlock payload, as far as they matter:
  SlowApdus,     \*   those the handler starts with a time extension
  FidoSelects,   \*   those that select the FIDO application
  MaxSegments,   \* payloads the command chain buffer can hold
  MaxChunks,     \* bulk messages the longest response takes
  ClockMod,      \* the millisecond counter wraps at ClockMod
  Defer          \* CCID_REMOVE_DEFER_MS

Kinds == StorageKinds \cup {Type4}

ASSUME KindsAreDistinct == Type4 \notin StorageKinds /\ NoTag \notin Kinds
ASSUME SeqsHaveNone     == NoSeq \notin Seqs
ASSUME ApduClasses      == SlowApdus \subseteq Apdus /\ FidoSelects \subseteq Apdus
ASSUME BoundsArePositive ==
         /\ MaxSegments \in Nat /\ MaxChunks \in Nat /\ MaxChunks > 0
         /\ ClockMod \in Nat /\ Defer \in Nat
         /\ ClockMod % 2 = 0 /\ 2 * Defer < ClockMod

VARIABLES
  cardPresent,   \* G_CARD_PRESENT
  tagKind,       \* G_TAG_KIND
  sess,          \* G_SESS
  isoOpen,       \* G_ISO_SESSION_OPEN
  fidoApp,       \* G_TYPE4_SECURITY_KEY_APP
  owner,         \* nfc_session_owner_get()
  removeDeferred,\* G_REMOVE_DEFERRED
  until,         \* G_REMOVE_DEFER_UNTIL_MS
  rspChain,      \* chunks of the response in G_CCID_CHAIN_BUF: [len, off]
  cmdChain,      \* payloads in G_CCID_CMD_CHAIN_BUF
  te,            \* bSeq the bound time-extension callback uses, or NoSeq
  abort,         \* bSeq of the latched ABORT control request, or NoSeq
  now,           \* reader_hal_millis()
  pc,            \* where the main loop is
  cmd,           \* the command being powered on or dispatched
  out,           \* what the last step handed to the USB layer: bulk messages
                 \*   (of response chunks those the host heard) and slot
                 \*   changes, delivered or not
  told,          \* history: the last slot change reported, if the interrupt
                 \*   endpoint delivered it to the host, else "unknown"
  acked,         \* payloads acknowledged since the last BEGIN in this session
  got            \* chunks the host received of the last chained response

link  == <<sess, isoOpen, fidoApp, owner>>
card  == <<cardPresent, tagKind, removeDeferred, told>>
chains == <<rspChain, cmdChain, acked, got>>
vars  == <<link, card, until, chains, te, abort, now, pc, cmd, out>>

-----------------------------------------------------------------------------
(* Messages to the host *)

ReplyKinds == {"ok", "failed", "mute", "aborted", "abortDone", "atr",
               "continue", "single", "begin", "middle", "end"}
Reply(k, s)  == [kind |-> k, seq |-> s]
TimeExt(s)   == [kind |-> "timeExt", seq |-> s]
SlotChange(p) == [kind |-> IF p THEN "arrived" ELSE "left", seq |-> NoSeq]
Messages == [kind : ReplyKinds \cup {"timeExt", "arrived", "left"},
             seq : Seqs \cup {NoSeq}]

Send(ms) == out' = ms
Silent   == out' = <<>>

NoChain   == [len |-> 0, off |-> 0]
RspChains == [len : 0..MaxChunks, off : 0..MaxChunks]
NoCmd     == [seq |-> NoSeq, apdu |-> <<>>, chained |-> FALSE]
Commands  == [seq : Seqs \cup {NoSeq}, apdu : Seq(Apdus), chained : BOOLEAN]
Clock     == 0..ClockMod - 1

(* (int32_t)(now - until) >= 0 *)
Elapsed == (now - until) % ClockMod < ClockMod \div 2

(* reader_hal_ccid_notify_slot_change: the change is lost, and nothing     *)
(* tries again, when the device is not ready (suspended, not configured)   *)
(* or the host leaves an earlier change in the endpoint for as long as     *)
(* notify_send spins.                                                      *)
Notify(p) == told' \in {SlotChange(p).kind, "unknown"}

-----------------------------------------------------------------------------
Init ==
  /\ cardPresent = FALSE /\ tagKind = NoTag
  /\ sess = FALSE /\ isoOpen = FALSE /\ fidoApp = FALSE /\ owner = "none"
  /\ removeDeferred = FALSE /\ until = 0 /\ now = 0
  /\ rspChain = NoChain /\ cmdChain = <<>> /\ acked = <<>> /\ got = 0
  /\ te = NoSeq /\ abort = NoSeq
  /\ pc = "poll" /\ cmd = NoCmd /\ out = <<>>
  /\ told = "unknown"

(* reader_ccid_teardown_session; a host that lost its session has lost the *)
(* acknowledged payloads with it                                           *)
DropLink_KeepsFido == /\ sess' = FALSE /\ isoOpen' = FALSE
                      /\ owner' = IF owner = "ccid" THEN "none" ELSE owner
                      /\ UNCHANGED fidoApp
DropLink == /\ sess' = FALSE /\ isoOpen' = FALSE /\ fidoApp' = FALSE
            /\ owner' = IF owner = "ccid" THEN "none" ELSE owner

TeardownSession_KeepsCommand ==
  /\ rspChain' = NoChain /\ te' = NoSeq
  /\ DropLink
  /\ UNCHANGED <<cmdChain, acked, got>>
TeardownSession == /\ rspChain' = NoChain /\ cmdChain' = <<>> /\ acked' = <<>>
                   /\ te' = NoSeq
                   /\ DropLink
                   /\ UNCHANGED got

(* reader_ccid_complete_card_removal *)
CompleteCardRemoval_TellsOnlySession ==
  /\ cardPresent' = FALSE /\ tagKind' = NoTag
  /\ removeDeferred' = FALSE /\ until' = 0
  /\ TeardownSession
  /\ IF sess THEN Notify(FALSE) /\ Send(<<SlotChange(FALSE)>>)
             ELSE UNCHANGED told /\ Silent
CompleteCardRemoval ==
  /\ cardPresent' = FALSE /\ tagKind' = NoTag
  /\ removeDeferred' = FALSE /\ until' = 0
  /\ TeardownSession
  /\ IF cardPresent THEN Notify(FALSE) /\ Send(<<SlotChange(FALSE)>>)
                    ELSE UNCHANGED told /\ Silent

(* reader_ccid_note_host_session_activity, given G_SESS when it is called *)
NoteActivity_NoWrap(open) ==
  IF open THEN removeDeferred' = FALSE /\ until' = now + Defer
          ELSE UNCHANGED <<removeDeferred, until>>
NoteActivity(open) ==
  IF open THEN removeDeferred' = FALSE /\ until' = (now + Defer) % ClockMod
          ELSE UNCHANGED <<removeDeferred, until>>

-----------------------------------------------------------------------------
(* Time and the host's control endpoint *)

Tick == /\ now' = (now + 1) % ClockMod
        /\ UNCHANGED <<link, card, until, chains, te, abort, pc, cmd, out>>

(* nero_ccidd_control_xfer_cb: a new ABORT request replaces a pending one *)
ControlAbort(s) ==
  /\ abort' = s
  /\ UNCHANGED <<link, card, until, chains, te, now, pc, cmd, out>>

(* nero_ccidd_reset: a change the host had not read goes with the endpoint *)
(* that held it; a host that configures the reader anew is told nothing    *)
BusReset ==
  /\ told # "unknown" /\ told' = "unknown"
  /\ UNCHANGED <<link, cardPresent, tagKind, removeDeferred, until, chains, te,
                 abort, now, pc, cmd, out>>

-----------------------------------------------------------------------------
(* reader_ccid_poll, before it looks for a frame *)
RemovalDue_OnlyInSession == removeDeferred /\ sess /\ Elapsed
RemovalDue_AfterDeadline == removeDeferred /\ Elapsed
RemovalDue == removeDeferred /\ (~sess \/ Elapsed)

PollRemoval ==
  /\ pc = "poll" /\ pc' = "bulk"
  /\ IF RemovalDue
     THEN CompleteCardRemoval
     ELSE /\ Silent
          /\ UNCHANGED <<link, card, until, chains, te>>
  /\ UNCHANGED <<abort, now, cmd>>

NoFrame == /\ pc = "bulk" /\ pc' = "step" /\ Silent
           /\ UNCHANGED <<link, card, until, chains, te, abort, now, cmd>>

(* A command that is answered at once *)
Answer(k, s) == /\ pc = "bulk" /\ pc' = "step"
                /\ Send(<<Reply(k, s)>>)
                /\ UNCHANGED <<now, cmd, cardPresent, tagKind, told>>

(* The checks before any state is touched: length, slot, reserved bytes,   *)
(* XfrBlock level, power-on and rate parameters                            *)
RefuseFrame(s) ==
  /\ Answer("failed", s)
  /\ UNCHANGED <<link, removeDeferred, until, chains, te, abort>>

-----------------------------------------------------------------------------
(* Response chaining: XfrBlock with wLevelParameter 0x0010 *)

ChunkLevel(off, len) == IF off = 0 THEN "begin"
                        ELSE IF off + 1 >= len THEN "end" ELSE "middle"

(* reader_ccid_send_xfr_chain_chunk.  ok is what reader_hal_ccid_send       *)
(* returned; a host that was slow to read may hear a message all the same  *)
(* (CcidUsbTx).                                                            *)
Deliver(chain, s, heard) ==
  /\ got' = IF ~heard THEN got ELSE IF chain.off = 0 THEN 1 ELSE got + 1
  /\ Send(IF heard THEN <<Reply(ChunkLevel(chain.off, chain.len), s)>> ELSE <<>>)

SendChunk_SkipsLost(chain, s, ok) ==
  /\ rspChain' = IF chain.off + 1 < chain.len
                 THEN [chain EXCEPT !.off = @ + 1] ELSE NoChain
  /\ \E heard \in BOOLEAN : (ok => heard) /\ Deliver(chain, s, heard)
SendChunk(chain, s, ok) ==
  /\ rspChain' = IF ok /\ chain.off + 1 < chain.len
                 THEN [chain EXCEPT !.off = @ + 1] ELSE NoChain
  /\ \E heard \in BOOLEAN : (ok => heard) /\ Deliver(chain, s, heard)

ContinueResponse(s) ==
  /\ pc = "bulk" /\ rspChain.len > 0
  /\ \E ok \in BOOLEAN : SendChunk(rspChain, s, ok)
  /\ pc' = "step"
  /\ UNCHANGED <<link, card, until, cmdChain, acked, te, abort, now, cmd>>

ContinueNothing(s) ==
  /\ rspChain.len = 0
  /\ Answer("failed", s)
  /\ UNCHANGED <<link, removeDeferred, until, chains, te, abort>>

-----------------------------------------------------------------------------
(* Every other command ends a response chain, and every other command than *)
(* XfrBlock ends a command chain                                           *)

DropRspChain == rspChain' = NoChain /\ UNCHANGED <<cmdChain, acked, got>>
DropChains   == rspChain' = NoChain /\ cmdChain' = <<>> /\ UNCHANGED <<acked, got>>

NotAborted   == abort = NoSeq

(* The latched abort fails every command but its own ABORT *)
AbortedXfr(s)    == /\ ~NotAborted
                    /\ Answer("aborted", s) /\ DropRspChain
                    /\ UNCHANGED <<link, removeDeferred, until, te, abort>>
AbortedCommand(s) == /\ ~NotAborted
                     /\ Answer("aborted", s) /\ DropChains
                     /\ UNCHANGED <<link, removeDeferred, until, te, abort>>

(* reader_hal_ccid_clear_abort_request *)
MayAbort_AnySeq(s) == TRUE
MayAbort(s) == abort \in {NoSeq, s}

Abort(s) ==
  /\ MayAbort(s)
  /\ Answer("abortDone", s) /\ DropChains
  /\ te' = NoSeq
  /\ abort' = NoSeq
  /\ UNCHANGED <<link, removeDeferred, until>>

(* GetSlotStatus and the commands the reader does not support *)
SlotStatus(s) ==
  /\ NotAborted
  /\ \E k \in {"ok", "failed"} : Answer(k, s)
  /\ DropChains
  /\ UNCHANGED <<link, removeDeferred, until, te, abort>>

(* GetParameters, ResetParameters, SetParameters *)
Params(s) ==
  /\ NotAborted
  /\ IF cardPresent THEN \E k \in {"ok", "failed"} : Answer(k, s)
                    ELSE Answer("mute", s)
  /\ DropChains
  /\ NoteActivity(sess)
  /\ UNCHANGED <<link, te, abort>>

IccOff(s) ==
  /\ NotAborted
  /\ Answer("ok", s)
  /\ TeardownSession
  /\ UNCHANGED <<removeDeferred, until, abort>>

-----------------------------------------------------------------------------
(* IccPowerOn *)

IccOnBadSelect(s) ==
  /\ NotAborted
  /\ Answer("failed", s) /\ DropChains
  /\ UNCHANGED <<link, removeDeferred, until, te, abort>>

IccOnNoCard(s) ==
  /\ NotAborted /\ ~(cardPresent /\ tagKind # NoTag)
  /\ Answer("mute", s)
  /\ TeardownSession
  /\ UNCHANGED <<removeDeferred, until, abort>>

(* The old session is closed; a Type 4 card is activated with the          *)
(* time-extension callback bound                                           *)
IccOnStart(s) ==
  /\ pc = "bulk" /\ NotAborted /\ cardPresent /\ tagKind # NoTag
  /\ pc' = "power" /\ cmd' = [NoCmd EXCEPT !.seq = s]
  /\ rspChain' = NoChain /\ cmdChain' = <<>> /\ acked' = <<>>
  /\ UNCHANGED got
  /\ DropLink
  /\ te' = IF tagKind = Type4 THEN s ELSE NoSeq
  /\ Silent
  /\ UNCHANGED <<card, until, abort, now>>

IccOnActivated ==
  /\ pc = "power" /\ pc' = "step" /\ cmd' = NoCmd
  /\ Send(<<Reply("atr", cmd.seq)>>)
  /\ sess' = TRUE /\ owner' = "ccid" /\ fidoApp' = FALSE
  /\ isoOpen' = (tagKind = Type4)
  /\ te' = NoSeq
  /\ NoteActivity(TRUE)
  /\ UNCHANGED <<cardPresent, tagKind, told, chains, abort, now>>

IccOnMute ==
  /\ pc = "power" /\ pc' = "step" /\ cmd' = NoCmd
  /\ Send(<<Reply("mute", cmd.seq)>>)
  /\ TeardownSession
  /\ UNCHANGED <<card, until, abort, now>>

-----------------------------------------------------------------------------
(* XfrBlock.  A payload is a sequence of at most one member of Apdus: the  *)
(* empty one has dwLength 0.                                               *)

Payloads == {<<>>} \cup {<<a>> : a \in Apdus}

XfrNoSession(s) ==
  /\ NotAborted /\ ~sess
  /\ Answer("mute", s) /\ DropRspChain
  /\ UNCHANGED <<link, removeDeferred, until, te, abort>>

(* A whole APDU in the middle of a command chain *)
XfrSingleInChain(s) ==
  /\ NotAborted /\ sess /\ cmdChain # <<>>
  /\ Answer("failed", s) /\ DropChains
  /\ UNCHANGED <<link, removeDeferred, until, te, abort>>

(* reader_ccid_append_xfr_command_chain *)
Base_BeginAppends(level) == cmdChain
Base(level) == IF level = "begin" THEN <<>> ELSE cmdChain
Orphan(level, pay) == pay = <<>> \/ (level # "begin" /\ cmdChain = <<>>)
Overflows(level, pay) == Len(Base(level)) + Len(pay) > MaxSegments

XfrNotAppended(s, level, pay) ==
  /\ NotAborted /\ sess
  /\ Orphan(level, pay) \/ Overflows(level, pay)
  /\ Answer("failed", s)
  /\ rspChain' = NoChain
  /\ cmdChain' = IF Orphan(level, pay) THEN cmdChain ELSE <<>>
  /\ UNCHANGED <<acked, got, link, removeDeferred, until, te, abort>>

XfrAppended(s, level, pay) ==
  /\ level \in {"begin", "middle"}
  /\ NotAborted /\ sess /\ ~Orphan(level, pay) /\ ~Overflows(level, pay)
  /\ Answer("continue", s)
  /\ rspChain' = NoChain
  /\ cmdChain' = Base(level) \o pay
  /\ acked' = (IF level = "begin" THEN <<>> ELSE acked) \o pay
  /\ UNCHANGED <<got, link, removeDeferred, until, te, abort>>

(* A whole APDU is dispatched, with the callback bound for a Type 4 card   *)
(* or an APDU known to be slow, which also starts with a time extension    *)
IsSlow(apdu) == apdu # <<>> /\ Head(apdu) \in SlowApdus
Binds(apdu)  == tagKind = Type4 \/ IsSlow(apdu)

Dispatch(s, apdu, chained) ==
  /\ pc = "bulk" /\ NotAborted /\ sess
  /\ pc' = "dispatch"
  /\ cmd' = [seq |-> s, apdu |-> apdu, chained |-> chained]
  /\ rspChain' = NoChain
  /\ te' = IF Binds(apdu) THEN s ELSE te
  /\ Send(IF IsSlow(apdu) THEN <<TimeExt(s)>> ELSE <<>>)
  /\ UNCHANGED <<link, card, until, acked, got, abort, now>>

XfrSingle(s, pay) ==
  /\ cmdChain = <<>>
  /\ Dispatch(s, pay, FALSE)
  /\ UNCHANGED cmdChain

XfrEnd(s, pay) ==
  /\ ~Orphan("end", pay) /\ ~Overflows("end", pay)
  /\ cmdChain' = cmdChain \o pay
  /\ Dispatch(s, cmdChain \o pay, TRUE)

(* The ISO-DEP heartbeat while a card is activated or an APDU exchanged *)
Heartbeat ==
  /\ pc \in {"power", "dispatch"} /\ tagKind = Type4 /\ te # NoSeq
  /\ Send(<<TimeExt(te)>>)
  /\ UNCHANGED <<link, card, until, chains, te, abort, now, pc, cmd>>

(* What reader_ccid_dispatch_host_payload may return: the response takes   *)
(* one or more bulk messages, the FIDO application may have been selected, *)
(* and host activity is noted unless the APDU was refused unread           *)
Outcomes ==
  {o \in [chunks : 1..MaxChunks, noted : BOOLEAN, selected : BOOLEAN] :
     /\ cmd.apdu = <<>> => ~o.noted
     /\ o.chunks > 1 => tagKind = Type4 /\ o.noted
     /\ o.selected => /\ tagKind = Type4 /\ o.noted
                      /\ cmd.apdu # <<>> /\ Head(cmd.apdu) \in FidoSelects}

(* The exchange is over: the command chain is spent, and an abort of this  *)
(* very command replaces its response                                      *)
CommandAborted_Ignored == FALSE
CommandAborted == abort = cmd.seq

TeAfter_LeftByAbort == IF ~CommandAborted /\ Binds(cmd.apdu) THEN NoSeq ELSE te
TeAfter == IF CommandAborted \/ Binds(cmd.apdu) THEN NoSeq ELSE te

Dispatched(o) ==
  /\ pc = "dispatch" /\ pc' = "step" /\ cmd' = NoCmd
  /\ fidoApp' = (fidoApp \/ o.selected)
  /\ NoteActivity(sess /\ o.noted)
  /\ cmdChain' = IF cmd.chained THEN <<>> ELSE cmdChain
  /\ te' = TeAfter
  /\ IF CommandAborted
     THEN /\ rspChain' = NoChain /\ UNCHANGED got
          /\ Send(<<Reply("aborted", cmd.seq)>>)
     ELSE IF o.chunks = 1
     THEN /\ rspChain' = NoChain /\ UNCHANGED got
          /\ Send(<<Reply("single", cmd.seq)>>)
     ELSE \E ok \in BOOLEAN :
            SendChunk([len |-> o.chunks, off |-> 0], cmd.seq, ok)
  /\ UNCHANGED <<sess, isoOpen, owner, cardPresent, tagKind, told, acked,
                 abort, now>>

-----------------------------------------------------------------------------
(* reader_ccid_loop_step.  It leaves the radio alone while the FIDO        *)
(* application is selected, and until the defer window of an active        *)
(* storage session has passed.                                             *)

FidoSessionActive == sess /\ isoOpen /\ fidoApp
ProbeDue == ~FidoSessionActive /\ (sess /\ tagKind # Type4 => Elapsed)

FieldUnchanged ==
  /\ pc = "step" /\ pc' = "poll" /\ Silent
  /\ UNCHANGED <<link, card, until, chains, te, abort, now, cmd>>

(* reader_ccid_on_tag_removed_from_field, for a card in the slot *)
Deferrable_InSession == ~Elapsed
Deferrable == ~sess /\ ~Elapsed

RemovedFromField ==
  /\ IF Deferrable
     THEN /\ removeDeferred' = TRUE /\ Silent
          /\ UNCHANGED <<link, cardPresent, tagKind, told, until, chains, te>>
     ELSE CompleteCardRemoval
  /\ UNCHANGED <<abort, now, cmd>>

TagRemoved == /\ pc = "step" /\ cardPresent /\ ProbeDue
              /\ pc' = "poll" /\ RemovedFromField

(* A probe that finds another tag reports the removal and the arrival in   *)
(* one go; an active Type 4 card is only watched by its field load         *)
TagReplaced == /\ pc = "step" /\ cardPresent /\ ProbeDue
               /\ ~(sess /\ tagKind = Type4)
               /\ pc' = "replaced" /\ RemovedFromField

(* reader_ccid_on_tag_detected *)
LeftUnnoticed_Forgotten == FALSE
LeftUnnoticed == removeDeferred /\ cardPresent

TagDetected(k) ==
  /\ pc = "replaced" \/ (pc = "step" /\ ~cardPresent)
  /\ pc' = "poll"
  /\ IF removeDeferred THEN until' = 0 /\ TeardownSession
     ELSE /\ rspChain' = NoChain /\ fidoApp' = FALSE
          /\ UNCHANGED <<until, cmdChain, acked, got, te, sess, isoOpen, owner>>
  /\ cardPresent' = TRUE /\ tagKind' = k /\ removeDeferred' = FALSE
  /\ IF cardPresent /\ ~LeftUnnoticed
     THEN Silent /\ UNCHANGED told
     ELSE /\ Notify(TRUE)
          /\ Send((IF LeftUnnoticed THEN <<SlotChange(FALSE)>> ELSE <<>>)
                    \o <<SlotChange(TRUE)>>)
  /\ UNCHANGED <<abort, now, cmd>>

-----------------------------------------------------------------------------
ControlCommand(s) ==
  \/ RefuseFrame(s) \/ AbortedCommand(s) \/ Abort(s) \/ SlotStatus(s)
  \/ Params(s) \/ IccOff(s)
  \/ IccOnBadSelect(s) \/ IccOnNoCard(s) \/ IccOnStart(s)

XfrBlock(s) ==
  \/ ContinueResponse(s) \/ ContinueNothing(s) \/ AbortedXfr(s)
  \/ XfrNoSession(s) \/ XfrSingleInChain(s)
  \/ \E pay \in Payloads :
       \/ XfrSingle(s, pay) \/ XfrEnd(s, pay)
       \/ \E level \in {"begin", "middle"} : XfrAppended(s, level, pay)
       \/ \E level \in {"begin", "middle", "end"} : XfrNotAppended(s, level, pay)

Command(s) == ControlCommand(s) \/ XfrBlock(s)

LoopStep == \/ FieldUnchanged \/ TagRemoved \/ TagReplaced
            \/ \E k \in Kinds : TagDetected(k)

(* What the firmware does on its own, without a frame from the host *)
Firmware == \/ PollRemoval \/ NoFrame
            \/ IccOnActivated \/ IccOnMute
            \/ \E o \in Outcomes : Dispatched(o)
            \/ LoopStep

Next == \/ Tick
        \/ BusReset
        \/ \E s \in Seqs : ControlAbort(s) \/ Command(s)
        \/ Heartbeat
        \/ Firmware

Spec == Init /\ [][Next]_vars

(* The loop never blocks: radio exchanges and sends have their own timeouts *)
FairSpec == Spec /\ WF_vars(Firmware)

-----------------------------------------------------------------------------
(* Properties *)

Pcs == {"poll", "bulk", "power", "dispatch", "step", "replaced"}

(* Every variable has its type. *)
TypeOK ==
  /\ cardPresent \in BOOLEAN /\ tagKind \in Kinds \cup {NoTag}
  /\ sess \in BOOLEAN /\ isoOpen \in BOOLEAN /\ fidoApp \in BOOLEAN
  /\ owner \in {"none", "ccid"}
  /\ removeDeferred \in BOOLEAN
  /\ until \in Clock /\ now \in Clock
  /\ rspChain \in RspChains
  /\ cmdChain \in Seq(Apdus) /\ acked \in Seq(Apdus) /\ got \in Nat
  /\ te \in Seqs \cup {NoSeq} /\ abort \in Seqs \cup {NoSeq}
  /\ pc \in Pcs
  /\ cmd \in Commands
  /\ out \in Seq(Messages) /\ told \in {"arrived", "left", "unknown"}

(* The five flags of a session never disagree, whichever of the teardown   *)
(* paths (power-off, power-on again, failed activation, removal, swap) was *)
(* taken: a session has a card and an owner, an ISO-DEP link exactly when  *)
(* the card is a Type 4 one, and FIDO is only selected inside it           *)
(* (reader_ccid_teardown_session, reader_ccid_complete_card_removal).      *)
SessionConsistent ==
  /\ cardPresent <=> tagKind # NoTag
  /\ sess => cardPresent
  /\ owner = IF sess THEN "ccid" ELSE "none"
  /\ isoOpen <=> sess /\ tagKind = Type4
  /\ fidoApp => isoOpen

(* A chained response or command never outlives the session it belongs to, *)
(* and no unfinished response is left when another APDU is dispatched: the *)
(* host cannot be handed a chunk of an earlier card's answer               *)
(* (reader_ccid_clear_xfr_response_chain and its callers).                 *)
ChainsBelongToSession ==
  /\ rspChain.len > 0 => /\ sess /\ tagKind = Type4
                         /\ pc \notin {"power", "dispatch"}
                         /\ 0 < rspChain.off /\ rspChain.off < rspChain.len
  /\ cmdChain # <<>> => sess

(* The APDU dispatched at the end of a command chain is exactly what the   *)
(* host sent in this session: the payloads acknowledged since its last     *)
(* BEGIN, then this one.  Interleaved commands, refused payloads, removals *)
(* and power cycles may lose the chain but never splice two of them        *)
(* (reader_ccid_append_xfr_command_chain).                                 *)
DispatchedApduIsWhole ==
  pc = "dispatch" /\ cmd.chained =>
    /\ acked # <<>>
    /\ SubSeq(cmd.apdu, 1, Len(cmd.apdu) - 1) = acked

(* The time-extension callback is bound only while the command it speaks   *)
(* for is being worked on, and with that command's bSeq: no stray time     *)
(* extension can reach the host for a command already answered             *)
(* (reader_ccid_begin_time_extension, reader_ccid_end_time_extension).     *)
TimeExtensionBound ==
  te # NoSeq => pc \in {"power", "dispatch"} /\ te = cmd.seq

(* A deferred removal never meets a session or a command: the loop         *)
(* completes it before it takes the next frame, so no command is ever      *)
(* served for a tag known to have left (reader_ccid_poll,                  *)
(* reader_ccid_on_tag_removed_from_field).                                 *)
DeferredRemovalIsBrief ==
  removeDeferred => ~sess /\ cardPresent /\ pc \in {"poll", "replaced"}

(* A host that was delivered the last change reported knows what the slot  *)
(* holds.  A lost one leaves it in doubt only until the next delivered:    *)
(* no path (removal, deferral, swap within one probe, power-off) changes   *)
(* the presence of a card without reporting it                             *)
(* (reader_hal_ccid_notify_slot_change and its callers).                   *)
HostKnowsCard == told # "unknown" => (told = "arrived" <=> cardPresent)

(* A latched abort is only ever cleared by answering the bulk ABORT with   *)
(* the same bSeq (reader_hal_ccid_clear_abort_request).                    *)
AbortLatchHeld ==
  [][abort # NoSeq /\ abort' = NoSeq => out' = <<Reply("abortDone", abort)>>]_vars

(* A host that collected a chained response up to its END has every chunk  *)
(* of it, however many APDUs, aborts and failed sends came before: a chunk *)
(* that was not delivered ends the chain, and the chunks of two responses  *)
(* never mix (reader_ccid_send_xfr_chain_chunk).                           *)
CollectedResponseIsWhole ==
  [][\A i \in 1..Len(out') :
       pc' # pc /\ out'[i].kind = "end" => got' = rspChain.len]_vars

(* An APDU aborted while it was being dispatched is answered CMD_ABORTED   *)
(* and leaves nothing to collect (the second abort check of XfrBlock).     *)
AbortedApduIsDropped ==
  [][pc = "dispatch" /\ pc' # pc /\ abort = cmd.seq =>
       out' = <<Reply("aborted", cmd.seq)>> /\ rspChain' = NoChain]_vars

(* The slot changes the reader reports are the ones that happen: arrivals  *)
(* and departures in turn, each one true when it is made, and no step puts *)
(* a card of another kind in the slot without reporting that the old one   *)
(* left (reader_ccid_on_tag_detected, which returns early when a card is   *)
(* already present).  Of reports the host may miss some: HostKnowsCard.    *)
Changes(ms) == {i \in DOMAIN ms : ms[i].kind \in {"arrived", "left"}}
Alternates(ms, before, after) ==
  LET arrival(i) == ms[i].kind = "arrived"
      C == Changes(ms)
  IN  /\ C = {} => after = before
      /\ \A i \in C :
           /\ (\A j \in C : i <= j) => arrival(i) # before
           /\ (\A j \in C : j <= i) => arrival(i) = after
           /\ \A j \in C :
                i < j /\ (\A k \in C : k <= i \/ j <= k) => arrival(i) # arrival(j)
SlotChangesAlternate ==
  [][pc' # pc => /\ Alternates(out', cardPresent, cardPresent')
                 /\ tagKind' # tagKind => Changes(out') # {}]_vars

(* A removal that was deferred is completed even if the host sends nothing *)
(* more, and its departure is reported when it is (reader_ccid_poll).      *)
DeferredRemovalCompleted ==
  removeDeferred ~> (~removeDeferred /\ out # <<>> /\ out[1] = SlotChange(FALSE))

(* "No BWT exists until ATR/protocol activation completes": no time        *)
(* extension is sent while a card is being powered on.                     *)
NoTimeExtensionBeforeAtr ==
  [][pc = "power" /\ pc' = "power" /\ out' # out =>
       \A i \in 1..Len(out') : out'[i].kind # "timeExt"]_vars

(* The slot the host sees.  A card whose removal is deferred is gone.      *)
slotState == IF ~cardPresent \/ removeDeferred THEN "absent"
             ELSE IF sess THEN "active" ELSE "inactive"
slotKind  == IF removeDeferred THEN NoTag ELSE tagKind

Slot == INSTANCE CcidSlot WITH slot <- slotState, kind <- slotKind, fido <- fidoApp

(* The reader keeps the promises of a CCID slot.                           *)
ImplementsSlot == Slot!SlotSpec

=============================================================================
