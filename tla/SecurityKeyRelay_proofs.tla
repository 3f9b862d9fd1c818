------------------------- MODULE SecurityKeyRelay_proofs -------------------------
(***************************************************************************)
(* Theorems about SecurityKeyRelay, for every set of cards, every number   *)
(* of variants and however often cards are exchanged.                      *)
(*                                                                         *)
(* The argument.  Where the relay is tells what the host has transmitted   *)
(* and how far the loops are (Places), and what the link carries           *)
(* (Exchanges).  The answer kept in rsp is one to a SELECT (Replies),      *)
(* so it may be returned to no other command.  For what a card runs: it    *)
(* has run the host's APDU as often as the place admits (Runs), and when a *)
(* CTAP command is sent again the applet was selected in a session opened  *)
(* since, unless the link failed or the card has gone (Selects).           *)
(***************************************************************************)
EXTENDS SecurityKeyRelay, SequenceTheorems, TLAPS

Opening   == {"probe", "retry", "preempt", "opened"}
WithinSelect == pc \in {"variant", "reselect"} \/ (pc = "recover" /\ then = "reselect")
WithinCtap   == pc \in {"webauthn", "again", "fail"} \/ (pc = "recover" /\ then = "webauthn")

Places ==
  /\ pc \in Sending \cup {"fail"} => opened
  /\ pc \in Opening => ~opened
  /\ pc = "recover" => (opened <=> then \in {"reselect", "webauthn"})
  /\ pc = "probe" => ~deselected
  /\ ~opened /\ ~deselected => ~fido
  /\ awake \in {uid, None}
  /\ WithinSelect => apdu = "select"
  /\ WithinCtap => apdu = "ctap"
  /\ pc = "first" => i = 0 /\ apdu # None
  /\ pc = "reselect" \/ (pc = "recover" /\ then = "reselect") => i = 0
  /\ pc = "variant" => i \in 0..Variants
  /\ pc = "webauthn" \/ (pc = "recover" /\ then = "webauthn") => i \in 0..3

Exchanges ==
  doing # None =>
    /\ pc \in Sending /\ doing = Sent
    /\ pc = "variant" => i < Variants
    /\ ran # None /\ sound => ran = doing

Replies ==
  /\ reply.of # None /\ reply.clean => reply.of = apdu
  /\ rsp.of # None /\ rsp.clean => rsp.of = "select"

HasRun == doing # None /\ ran # None

Runs ==
  /\ pc = "first" => Len(runs) <= (IF HasRun THEN 1 ELSE 0)
  /\ WithinCtap /\ ~(pc = "again" /\ HasRun) => Len(runs) <= 1

Selects ==
  /\ pc = "webauthn" \/ pc = "again" => repaired
  /\ pc = "webauthn" /\ HasRun /\ sw = "ok" /\ up /\ sound => fido
  /\ pc = "again" /\ up /\ sound => fido

IInv == TypeOK /\ Places /\ Exchanges /\ Replies /\ Runs /\ Selects /\ RunAgainOnlyRepaired

-----------------------------------------------------------------------------
(* The parts of TypeOK *)

CardTypes ==
  /\ field \in Cards \cup {None} /\ swaps \in 0..SwapMax
  /\ awake \in {field, None} /\ up \in BOOLEAN /\ fido \in BOOLEAN
  /\ up => awake # None /\ uid = awake
  /\ fido => up
  /\ uid \in Cards \cup {None}

LoopTypes ==
  /\ deselected \in BOOLEAN /\ opened \in BOOLEAN /\ abort \in BOOLEAN /\ repaired \in BOOLEAN
  /\ pc \in Sending \cup {"idle", "probe", "retry", "preempt", "recover", "opened", "fail"}
  /\ then \in {"idle", "probe", "retry", "preempt", "reselect", "webauthn"}
  /\ pc = "recover" => then # "idle"
  /\ i \in 0..(IF Variants > 4 THEN Variants ELSE 4)

Run == [repaired : BOOLEAN, sound : BOOLEAN, fido : BOOLEAN]

DataTypes ==
  /\ apdu \in Apdus \cup {None}
  /\ rsp \in Answers /\ reply \in Answers
  /\ sound \in BOOLEAN /\ doing \in Apdus \cup {None}
  /\ ran \in Apdus \cup {Mixed, None} /\ got \in Apdus \cup {Mixed, None}
  /\ sw \in {"ok", "more", "refused", "odd", "short", "none"}
  /\ runs \in Seq(Run)

LEMMA Parts == TypeOK <=> CardTypes /\ LoopTypes /\ DataTypes
BY DEF TypeOK, CardTypes, LoopTypes, DataTypes, Run

LEMMA PartsNext == TypeOK' <=> CardTypes' /\ LoopTypes' /\ DataTypes'
BY DEF TypeOK, CardTypes, LoopTypes, DataTypes, Run

LEMMA Constants ==
  /\ None \notin Cards /\ Variants \in Nat \ {0} /\ SwapMax \in Nat
  /\ None \notin Apdus /\ Mixed \notin Apdus /\ Mixed # None
  /\ Apdus = {"select", "ctap", "other"}
BY CardsAssumption, BoundsAssumption, NotApdus DEF Apdus

LEMMA Bounds ==
  /\ 0 \in 0..SwapMax /\ \A n \in 0..SwapMax : n < SwapMax => n + 1 \in 0..SwapMax
  /\ \A n \in 0..Variants : n \in 0..(IF Variants > 4 THEN Variants ELSE 4)
  /\ \A n \in 0..4 : n \in 0..(IF Variants > 4 THEN Variants ELSE 4)
  /\ 0 \in 0..Variants /\ \A n \in 0..Variants : n < Variants => n + 1 \in 0..Variants
<1>1. Variants \in Nat /\ SwapMax \in Nat
  BY BoundsAssumption
<1> QED
  BY <1>1

LEMMA InitIInv == Init => IInv
<1> SUFFICES ASSUME Init PROVE IInv
  OBVIOUS
<1>1. CardTypes
  BY Bounds DEF Init, CardTypes
<1>2. LoopTypes
  <2>1. i \in 0..(IF Variants > 4 THEN Variants ELSE 4)
    <3>1. i = 0 /\ 0 \in 0..4
      BY DEF Init
    <3> QED
      BY <3>1, Bounds
  <2> QED
    BY <2>1 DEF Init, LoopTypes
<1>3. DataTypes
  BY DEF Init, Link!Init, DataTypes, Nothing, Answer, Answers
<1>4. Places /\ Exchanges /\ Replies /\ Runs /\ Selects
  BY DEF Init, Link!Init, Places, Exchanges, Replies, Runs, Selects, WithinSelect, WithinCtap,
         Opening, Sending, Nothing, Answer, HasRun
<1>5. RunAgainOnlyRepaired
  BY Constants DEF Init, RunAgainOnlyRepaired
<1> QED
  BY <1>1, <1>2, <1>3, <1>4, <1>5, Parts DEF IInv

-----------------------------------------------------------------------------
(* The session is opened, repaired and released *)

(* Nothing is exchanged *)
LEMMA Quiet ==
  ASSUME IInv, doing = None, UNCHANGED <<apdu, rsp, reply, doing, ran, got, sw, runs>>,
         pc' # "first", pc' # "again", WithinCtap' => WithinCtap, pc' = "webauthn" => repaired'
  PROVE  Exchanges' /\ Replies' /\ Runs' /\ Selects' /\ RunAgainOnlyRepaired'
<1>1. Exchanges' /\ Replies' /\ Selects'
  BY DEF IInv, Exchanges, Replies, Selects, HasRun
<1>2. Runs'
  BY DEF IInv, Runs, HasRun
<1>3. RunAgainOnlyRepaired'
  BY DEF IInv, RunAgainOnlyRepaired
<1> QED
  BY <1>1, <1>2, <1>3

LEMMA SameData ==
  ASSUME IInv, UNCHANGED <<apdu, rsp, reply, doing, ran, got, sw, runs>>, sound' \in BOOLEAN
  PROVE  DataTypes'
BY Parts DEF IInv, DataTypes

(* The card is woken, or is not *)
LEMMA Waking ==
  ASSUME IInv, UNCHANGED <<field, swaps>>, (\E open \in BOOLEAN : Wake(open)) \/ NoWake
  PROVE  CardTypes' /\ ~fido' /\ awake' \in {uid', None}
<1>1. CardTypes /\ awake \in {uid, None}
  BY Parts DEF IInv, Places
<1>2. CASE NoWake
  BY <1>1, <1>2 DEF CardTypes, NoWake
<1>3. ASSUME NEW open \in BOOLEAN, Wake(open)
      PROVE  CardTypes' /\ ~fido' /\ awake' \in {uid', None}
  BY <1>1, <1>3 DEF CardTypes, Wake
<1> QED
  BY <1>2, <1>3

LEMMA SwapStep == IInv /\ Swap => IInv'
<1> SUFFICES ASSUME IInv, Swap PROVE IInv'
  OBVIOUS
<1>1. /\ field' \in Cards \cup {None} /\ swaps' = swaps + 1 /\ swaps < SwapMax
      /\ awake' = None /\ up' = FALSE /\ fido' = FALSE
      /\ UNCHANGED <<uid, deselected, opened, pc, then, i, apdu, rsp, reply, sound, doing, ran, got,
                     sw, abort, repaired, runs>>
  BY DEF Swap, reader, link, history
<1>2. CardTypes'
  BY <1>1, Parts, Bounds DEF IInv, CardTypes
<1>3. LoopTypes' /\ DataTypes'
  BY <1>1, Parts DEF IInv, LoopTypes, DataTypes
<1>4. Places'
  BY <1>1 DEF IInv, Places, WithinSelect, WithinCtap
<1>5. Exchanges' /\ Replies' /\ Selects'
  BY <1>1 DEF IInv, Exchanges, Replies, Selects, HasRun, Sent
<1>6. Runs' /\ RunAgainOnlyRepaired'
  BY <1>1 DEF IInv, Runs, RunAgainOnlyRepaired, HasRun, WithinCtap
<1> QED
  BY <1>2, <1>3, <1>4, <1>5, <1>6, PartsNext DEF IInv

LEMMA DetectStep == IInv /\ Detect => IInv'
<1> SUFFICES ASSUME IInv, Detect PROVE IInv'
  OBVIOUS
<1>1. /\ pc = "idle" /\ Wake(FALSE) /\ doing = None /\ sound' \in BOOLEAN
      /\ UNCHANGED <<field, swaps, deselected, opened, pc, then, i, apdu, rsp, reply, doing, ran, got,
                     sw, abort, repaired, runs>>
  BY DEF Detect, SessionChanges, Link!Reopen, history
<1>2. CardTypes' /\ ~fido' /\ awake' \in {uid', None}
  BY <1>1, Waking
<1>3. LoopTypes' /\ DataTypes'
  BY <1>1, Parts, SameData DEF IInv, LoopTypes
<1>4. Places'
  BY <1>1, <1>2 DEF IInv, Places, WithinSelect, WithinCtap
<1>5. Exchanges' /\ Replies' /\ Runs' /\ Selects' /\ RunAgainOnlyRepaired'
  BY <1>1, Quiet DEF WithinCtap
<1> QED
  BY <1>2, <1>3, <1>4, <1>5, PartsNext DEF IInv

LEMMA RecoverStep == IInv /\ RecoverSession => IInv'
<1> SUFFICES ASSUME IInv, RecoverSession PROVE IInv'
  OBVIOUS
<1>1. /\ pc = "recover" /\ doing = None /\ sound' \in BOOLEAN /\ deselected' = TRUE
      /\ repaired' = (repaired \/ up')
      /\ UNCHANGED <<field, swaps, opened, then, i, apdu, rsp, reply, doing, ran, got, sw, abort, runs>>
  BY DEF RecoverSession, SessionChanges, Link!Reopen
<1>2. \/ Wake(TRUE) /\ AfterRecovery(TRUE)
      \/ (Wake(FALSE) \/ NoWake) /\ AfterRecovery(FALSE)
  BY DEF RecoverSession
<1>3. CardTypes' /\ ~fido' /\ awake' \in {uid', None}
  BY <1>1, <1>2, Waking
<1>4. LoopTypes /\ (opened <=> then \in {"reselect", "webauthn"})
  BY <1>1, Parts DEF IInv, Places
<1>5. /\ then \in {"probe", "retry"} => pc' \in {"preempt", "retry", "idle"}
      /\ then = "preempt" => pc' \in {"opened", "idle"}
      /\ then = "reselect" => pc' \in {"reselect", "variant"}
      /\ then = "webauthn" => pc' = "fail" \/ (pc' = "webauthn" /\ up')
  BY <1>2 DEF AfterRecovery, Goto, Wake
<1>6. then \in {"probe", "retry", "preempt", "reselect", "webauthn"}
  BY <1>1, <1>4 DEF LoopTypes
<1>7. LoopTypes'
  <2>1. repaired' \in BOOLEAN
    BY <1>1, <1>3, <1>4 DEF LoopTypes, CardTypes
  <2> QED
    BY <1>1, <1>4, <1>5, <1>6, <2>1 DEF LoopTypes, Sending
<1>8. DataTypes'
  BY <1>1, SameData
<1>9. Places'
  <2>1. /\ then = "reselect" => apdu = "select" /\ i = 0 /\ opened
        /\ then = "webauthn" => apdu = "ctap" /\ i \in 0..3 /\ opened
        /\ then \in {"probe", "retry", "preempt"} => ~opened
    BY <1>1 DEF IInv, Places, WithinSelect, WithinCtap
  <2>2. 0 \in 0..Variants
    BY Constants
  <2> QED
    BY <1>1, <1>3, <1>5, <1>6, <2>1, <2>2
       DEF Places, Opening, Sending, WithinSelect, WithinCtap
<1>10. Exchanges' /\ Replies' /\ Runs' /\ Selects' /\ RunAgainOnlyRepaired'
  <2>1. pc' # "first" /\ pc' # "again" /\ (WithinCtap' => WithinCtap)
    BY <1>1, <1>5, <1>6 DEF WithinCtap
  <2>2. pc' = "webauthn" => repaired'
    BY <1>1, <1>5, <1>6
  <2> QED
    BY <1>1, <2>1, <2>2, Quiet
<1> QED
  BY <1>3, <1>7, <1>8, <1>9, <1>10, PartsNext DEF IInv

LEMMA PowerOnStep == IInv /\ PowerOn => IInv'
<1> SUFFICES ASSUME IInv, PowerOn PROVE IInv'
  OBVIOUS
<1>1. /\ pc = "idle" /\ ~opened /\ doing = None /\ sound' \in BOOLEAN
      /\ UNCHANGED <<field, swaps, deselected, opened, then, i, apdu, rsp, reply, doing, ran, got,
                     sw, abort, repaired, runs>>
  BY DEF PowerOn, SessionChanges, Link!Reopen, history
<1>2. \/ ((\E open \in BOOLEAN : Wake(open)) \/ NoWake)
         /\ \/ pc' \in {"opened", "idle"}
            \/ pc' = "probe" /\ ~deselected
      \/ ~deselected /\ pc' = "probe" /\ UNCHANGED <<awake, up, fido, uid>>
  BY DEF PowerOn, Goto
<1>3. ~deselected => ~fido
  BY <1>1 DEF IInv, Places
<1>4. CardTypes' /\ awake' \in {uid', None} /\ (~deselected => ~fido')
  <2>1. CASE (\E open \in BOOLEAN : Wake(open)) \/ NoWake
    BY <1>1, <2>1, Waking
  <2>2. CASE UNCHANGED <<awake, up, fido, uid>>
    BY <1>1, <1>3, <2>2, Parts DEF IInv, CardTypes, Places
  <2> QED
    BY <1>2, <2>1, <2>2
<1>5. pc' \in {"opened", "idle", "probe"} /\ (pc' = "probe" => ~deselected)
  BY <1>2
<1>6. LoopTypes' /\ DataTypes'
  BY <1>1, <1>5, Parts, SameData DEF IInv, LoopTypes
<1>7. Places'
  BY <1>1, <1>4, <1>5 DEF Places, Opening, Sending, WithinSelect, WithinCtap
<1>8. Exchanges' /\ Replies' /\ Runs' /\ Selects' /\ RunAgainOnlyRepaired'
  BY <1>1, <1>5, Quiet DEF WithinCtap
<1> QED
  BY <1>4, <1>6, <1>7, <1>8, PartsNext DEF IInv

(* What becomes of the session while it is opened *)
LEMMA OpeningStep == IInv /\ (Probe \/ Retry \/ Preempt \/ Opened) => IInv'
<1> SUFFICES ASSUME IInv, Probe \/ Retry \/ Preempt \/ Opened PROVE IInv'
  OBVIOUS
<1>1. /\ pc \in Opening
      /\ UNCHANGED <<field, swaps, i, apdu, rsp, reply, doing, ran, got, sw, abort, repaired, runs>>
  BY DEF Probe, Retry, Preempt, Opened, SessionChanges, Link!Reopen, Opening, card, link, history
<1>2. ~opened /\ doing = None
  BY <1>1 DEF IInv, Places, Exchanges, Opening, Sending
<1>3. CardTypes' /\ awake' \in {uid', None} /\ (~opened' /\ ~deselected' => ~fido')
      /\ sound' \in BOOLEAN
  <2>1. CASE Probe
    <3>1. ~fido
      BY <1>2, <2>1 DEF IInv, Places, Probe
    <3>2. /\ UNCHANGED <<field, swaps, awake, fido, uid>> /\ up' \in BOOLEAN
          /\ up' => awake # None
          /\ sound' \in BOOLEAN
      BY <2>1 DEF Probe, SessionChanges, Link!Reopen
    <3>3. awake \in {uid, None}
      BY DEF IInv, Places
    <3> QED
      BY <3>1, <3>2, <3>3, Parts DEF IInv, CardTypes
  <2>2. CASE Retry
    <3>1. (\E open \in BOOLEAN : Wake(open)) \/ NoWake
      BY <2>2 DEF Retry
    <3>2. sound' \in BOOLEAN
      BY <2>2 DEF Retry, SessionChanges, Link!Reopen
    <3> QED
      BY <1>1, <3>1, <3>2, Waking
  <2>3. CASE Preempt
    BY <2>3, Parts DEF IInv, Places, CardTypes, DataTypes, Preempt, card, link
  <2>4. CASE Opened
    BY <2>4, Parts DEF IInv, Places, CardTypes, DataTypes, Opened, card, link
  <2> QED
    BY <2>1, <2>2, <2>3, <2>4
<1>4. /\ deselected' \in BOOLEAN
      /\ then' \in {"idle", "probe", "retry", "preempt", "reselect", "webauthn"}
      /\ \/ opened' = opened /\ pc' \in {"preempt", "retry", "idle"}
         \/ opened' = opened /\ pc' = "recover" /\ then' \in {"probe", "retry", "preempt"}
         \/ opened' = TRUE /\ pc' = "idle"
  <2>0. LoopTypes
    BY Parts DEF IInv
  <2>1. CASE Probe
    BY <2>0, <2>1 DEF Probe, ProbeAnswered, Recover, Goto, LoopTypes
  <2>2. CASE Retry
    BY <2>0, <2>2 DEF Retry, ProbeAnswered, Recover, Goto, LoopTypes
  <2>3. CASE Preempt
    BY <2>0, <2>3 DEF Preempt, Recover, Goto, LoopTypes
  <2>4. CASE Opened
    BY <2>0, <2>4 DEF Opened, Goto, LoopTypes
  <2> QED
    BY <2>1, <2>2, <2>3, <2>4
<1>5. LoopTypes' /\ DataTypes'
  BY <1>1, <1>2, <1>3, <1>4, Parts, SameData DEF IInv, LoopTypes
<1>6. Places'
  BY <1>2, <1>3, <1>4 DEF Places, Opening, Sending, WithinSelect, WithinCtap
<1>7. Exchanges' /\ Replies' /\ Runs' /\ Selects' /\ RunAgainOnlyRepaired'
  BY <1>1, <1>2, <1>4, Quiet DEF WithinCtap
<1> QED
  BY <1>3, <1>5, <1>6, <1>7, PartsNext DEF IInv

LEMMA PowerOffStep == IInv /\ PowerOff => IInv'
<1> SUFFICES ASSUME IInv, PowerOff PROVE IInv'
  OBVIOUS
<1>1. /\ pc = "idle" /\ doing = None /\ sound' \in BOOLEAN /\ NoWake
      /\ opened' = FALSE /\ deselected' = TRUE
      /\ UNCHANGED <<field, swaps, pc, then, i, apdu, rsp, reply, doing, ran, got, sw, abort,
                     repaired, runs>>
  BY DEF PowerOff, SessionChanges, Link!Reopen, history
<1>2. CardTypes' /\ ~fido' /\ awake' \in {uid', None}
  BY <1>1, Waking
<1>3. LoopTypes' /\ DataTypes'
  BY <1>1, Parts, SameData DEF IInv, LoopTypes
<1>4. Places'
  BY <1>1, <1>2 DEF Places, Opening, Sending, WithinSelect, WithinCtap
<1>5. Exchanges' /\ Replies' /\ Runs' /\ Selects' /\ RunAgainOnlyRepaired'
  BY <1>1, Quiet DEF WithinCtap
<1> QED
  BY <1>2, <1>3, <1>4, <1>5, PartsNext DEF IInv

-----------------------------------------------------------------------------
(* The host's requests *)

LEMMA AbortsStep == IInv /\ Aborts => IInv'
<1> SUFFICES ASSUME IInv, Aborts PROVE IInv'
  OBVIOUS
<1>1. /\ abort' = TRUE
      /\ UNCHANGED <<field, swaps, awake, up, fido, uid, deselected, opened, pc, then, i, apdu, rsp,
                     reply, sound, doing, ran, got, sw, repaired, runs>>
  BY DEF Aborts, card, reader, link, history
<1>2. CardTypes' /\ LoopTypes' /\ DataTypes'
  BY <1>1, Parts DEF IInv, CardTypes, LoopTypes, DataTypes
<1>3. Places'
  BY <1>1 DEF IInv, Places, WithinSelect, WithinCtap
<1>4. Exchanges' /\ Replies' /\ Selects'
  BY <1>1 DEF IInv, Exchanges, Replies, Selects, HasRun, Sent
<1>5. Runs' /\ RunAgainOnlyRepaired'
  BY <1>1 DEF IInv, Runs, RunAgainOnlyRepaired, HasRun, WithinCtap
<1> QED
  BY <1>2, <1>3, <1>4, <1>5, PartsNext DEF IInv

LEMMA TransmitStep == IInv /\ (\E a \in Apdus : Transmit(a)) => IInv'
<1> SUFFICES ASSUME IInv, NEW a \in Apdus, Transmit(a) PROVE IInv'
  OBVIOUS
<1>1. /\ pc = "idle" /\ opened
      /\ apdu' = a /\ pc' = "first" /\ i' = 0 /\ rsp' = Nothing /\ reply' = Nothing
      /\ abort' = FALSE /\ repaired' = FALSE /\ runs' = << >>
      /\ UNCHANGED <<field, swaps, awake, up, fido, uid, deselected, opened, then, sound, doing, ran,
                     got, sw>>
  BY DEF Transmit, Goto, card, link
<1>2. doing = None
  BY <1>1 DEF IInv, Exchanges, Sending
<1>3. CardTypes'
  BY <1>1, Parts DEF IInv, CardTypes
<1>4. LoopTypes'
  <2>1. 0 \in 0..(IF Variants > 4 THEN Variants ELSE 4)
    BY Bounds
  <2> QED
    BY <1>1, <2>1, Parts DEF IInv, LoopTypes, Sending
<1>5. DataTypes'
  <2>1. Nothing \in Answers
    BY DEF Nothing, Answer, Answers
  <2>2. runs' \in Seq(Run)
    BY <1>1
  <2> QED
    BY <1>1, <2>1, <2>2, Parts DEF IInv, DataTypes
<1>6. Places'
  BY <1>1, Constants DEF IInv, Places, Opening, Sending, WithinSelect, WithinCtap
<1>7. Exchanges' /\ Replies' /\ Selects'
  BY <1>1, <1>2 DEF Exchanges, Replies, Selects, Nothing, Answer
<1>8. Runs' /\ RunAgainOnlyRepaired'
  <2>1. Len(runs') = 0
    BY <1>1
  <2> QED
    BY <1>1, <1>2, <2>1 DEF Runs, RunAgainOnlyRepaired, HasRun, WithinCtap
<1> QED
  BY <1>3, <1>4, <1>5, <1>6, <1>7, <1>8, PartsNext DEF IInv

-----------------------------------------------------------------------------
(* An exchange begins, and a card runs a command *)

LEMMA BeginsStep == IInv /\ Begins => IInv'
<1> SUFFICES ASSUME IInv, Begins PROVE IInv'
  OBVIOUS
<1>1. /\ pc \in Sending /\ doing = None /\ (pc = "variant" => i < Variants)
      /\ doing' = Sent /\ ran' = None /\ got' = None /\ sw' = "none"
      /\ UNCHANGED <<field, swaps, awake, up, fido, uid, deselected, opened, pc, then, i, apdu, rsp,
                     reply, sound, abort, repaired, runs>>
  BY DEF Begins, Link!Begin, card, reader, history
<1>2. Sent \in Apdus
  <2>1. pc \notin Selecting => apdu # None
    BY <1>1, Constants DEF IInv, Places, Sending, Selecting, WithinSelect, WithinCtap
  <2> QED
    BY <2>1, Parts, Constants DEF IInv, DataTypes, Sent
<1>3. CardTypes' /\ LoopTypes'
  BY <1>1, Parts DEF IInv, CardTypes, LoopTypes
<1>4. DataTypes'
  BY <1>1, <1>2, Parts DEF IInv, DataTypes
<1>5. Places'
  BY <1>1 DEF IInv, Places, WithinSelect, WithinCtap
<1>6. Exchanges' /\ Replies'
  BY <1>1 DEF IInv, Exchanges, Replies, Sent
<1>7. Runs' /\ RunAgainOnlyRepaired'
  BY <1>1 DEF IInv, Runs, RunAgainOnlyRepaired, HasRun, WithinCtap
<1>8. Selects'
  BY <1>1 DEF IInv, Selects, HasRun
<1> QED
  BY <1>3, <1>4, <1>5, <1>6, <1>7, <1>8, PartsNext DEF IInv

LEMMA CardRunsStep == IInv /\ CardRuns => IInv'
<1> SUFFICES ASSUME IInv, CardRuns PROVE IInv'
  OBVIOUS
<1>1. PICK c \in Apdus \cup {Mixed} :
        /\ Link!Run(c) /\ sw' \in StatusWords(c) /\ fido' \in Selected(c, sw')
        /\ runs' = IF c = apdu /\ pc \notin Selecting
                   THEN Append(runs, [repaired |-> repaired, sound |-> sound, fido |-> fido])
                   ELSE runs
  BY DEF CardRuns
<1>2. /\ up /\ doing # None /\ ran = None /\ (sound => c = doing) /\ ran' = c
      /\ UNCHANGED <<sound, doing, got, repaired, field, swaps, awake, up, uid, deselected, opened,
                     pc, then, i, apdu, rsp, reply, abort>>
  BY <1>1 DEF CardRuns, Link!Run, reader
<1>3. c # None /\ fido \in BOOLEAN /\ CardTypes /\ LoopTypes /\ DataTypes
  BY Parts, Constants DEF IInv, CardTypes
<1>4. sw' \in {"ok", "more", "refused", "odd", "short"} /\ fido' \in BOOLEAN
  BY <1>1, <1>3 DEF StatusWords, Selected
<1>5. CardTypes' /\ LoopTypes'
  BY <1>2, <1>3, <1>4 DEF CardTypes, LoopTypes
<1>6. DataTypes'
  <2>1. [repaired |-> repaired, sound |-> sound, fido |-> fido] \in Run
    BY <1>3 DEF LoopTypes, DataTypes, Run
  <2>2. runs' \in Seq(Run)
    BY <1>1, <1>3, <2>1 DEF DataTypes
  <2> QED
    BY <1>2, <1>3, <1>4, <2>2 DEF DataTypes
<1>7. pc \in Sending /\ doing = Sent /\ (pc = "variant" => i < Variants) /\ opened
  BY <1>2 DEF IInv, Exchanges, Places
<1>8. Places'
  BY <1>2, <1>4, <1>7 DEF IInv, Places, WithinSelect, WithinCtap
<1>9. Exchanges' /\ Replies'
  BY <1>1, <1>2, <1>7 DEF IInv, Exchanges, Replies, Sent
<1>10. /\ HasRun' /\ ~HasRun
       /\ pc = "first" => Len(runs) <= 0
       /\ WithinCtap => Len(runs) <= 1
       /\ Len(runs) \in Nat
  BY <1>2, <1>3 DEF IInv, Runs, HasRun, DataTypes
<1>11. /\ pc \in Selecting => runs' = runs
       /\ Len(runs') <= Len(runs) + 1
       /\ Len(runs') = Len(runs) \/
            (Len(runs') = Len(runs) + 1 /\
             runs'[Len(runs) + 1] = [repaired |-> repaired, sound |-> sound, fido |-> fido])
       /\ Len(runs') \in Nat
  BY <1>1, <1>3, <1>6 DEF DataTypes
<1>12. Runs'
  BY <1>2, <1>7, <1>10, <1>11 DEF Runs, WithinCtap, Sending, Selecting
<1>13. Selects'
  <2>1. repaired' = repaired /\ (pc = "webauthn" \/ pc = "again" => repaired)
    BY <1>2 DEF IInv, Selects
  <2>2. pc = "webauthn" /\ sw' = "ok" /\ sound => fido'
    BY <1>1, <1>2, <1>7 DEF Selected, Sent, Selecting
  <2>3. pc = "again" /\ sound => fido'
    <3>1. pc = "again" => apdu = "ctap"
      BY DEF IInv, Places, WithinCtap
    <3>2. pc = "again" /\ sound => fido
      BY <1>2 DEF IInv, Selects
    <3> QED
      BY <1>1, <1>2, <1>7, <3>1, <3>2 DEF Selected, Sent, Selecting
  <2> QED
    BY <1>2, <2>1, <2>2, <2>3 DEF Selects
<1>14. RunAgainOnlyRepaired'
  <2>1. apdu = "other" => pc = "first"
    BY <1>1, <1>7 DEF IInv, Places, WithinSelect, WithinCtap, Sending
  <2>2. CASE apdu = "other"
    BY <1>2, <1>10, <1>11, <2>1, <2>2 DEF RunAgainOnlyRepaired
  <2>3. CASE apdu = "ctap"
    <3>1. pc \in {"first", "webauthn", "again"}
      BY <1>7, <2>3 DEF IInv, Places, WithinSelect, Sending
    <3>2. CASE pc = "first"
      BY <1>2, <1>10, <1>11, <2>3, <3>2 DEF RunAgainOnlyRepaired
    <3>3. CASE pc = "webauthn"
      BY <1>2, <1>11, <2>3, <3>3 DEF IInv, RunAgainOnlyRepaired, Selecting
    <3>4. CASE pc = "again"
      <4>1. Len(runs) <= 1 /\ repaired /\ (sound => fido)
        BY <1>2, <1>10, <3>4 DEF IInv, Selects, WithinCtap
      <4>2. Len(runs') = 2 => Len(runs) = 1
        <5>1. \A m, n \in Nat : m <= 1 /\ (n = m \/ n = m + 1) /\ n = 2 => m = 1
          OBVIOUS
        <5>2. Len(runs') = Len(runs) \/ Len(runs') = Len(runs) + 1
          BY <1>11
        <5> QED
          BY <1>10, <1>11, <4>1, <5>1, <5>2
      <4>3. Len(runs') = 2 => runs'[2] = [repaired |-> repaired, sound |-> sound, fido |-> fido]
        BY <1>11, <4>2
      <4>4. Len(runs') <= 2
        <5>1. \A m, n \in Nat : m <= 1 /\ n <= m + 1 => n <= 2
          OBVIOUS
        <5> QED
          BY <1>10, <1>11, <4>1, <5>1
      <4> QED
        BY <1>2, <2>3, <4>1, <4>3, <4>4 DEF RunAgainOnlyRepaired
    <3> QED
      BY <3>1, <3>2, <3>3, <3>4
  <2>4. CASE apdu \notin {"other", "ctap"}
    BY <1>2, <2>4 DEF RunAgainOnlyRepaired
  <2> QED
    BY <2>2, <2>3, <2>4
<1> QED
  BY <1>5, <1>6, <1>8, <1>9, <1>12, <1>13, <1>14, PartsNext DEF IInv

-----------------------------------------------------------------------------
(* The relay goes on from an exchange *)

LEMMA WebauthnStep ==
  ASSUME IInv, pc = "webauthn", NextWebauthnStep
  PROVE  /\ i' \in 0..4 /\ pc' \in {"recover", "webauthn", "fail"}
         /\ pc' = "recover" => then' = "webauthn"
         /\ pc' # "recover" => then' = then
         /\ pc' # "fail" => i' \in 0..3
<1>1. i \in 0..3 /\ i' = i + 1
  BY DEF IInv, Places, NextWebauthnStep
<1>2. CASE i' \in {1, 3}
  BY <1>1, <1>2 DEF NextWebauthnStep, Prep, Recover, Goto
<1>3. CASE i' = 2
  BY <1>1, <1>3 DEF NextWebauthnStep, Prep, Goto
<1>4. CASE i' = 4
  BY <1>1, <1>4 DEF NextWebauthnStep, Prep, Goto
<1> QED
  BY <1>1, <1>2, <1>3, <1>4

(* The steps from place to place *)
Moves ==
  \/ pc' = "idle" /\ UNCHANGED <<then, i>>
  \/ /\ pc = "first" /\ pc' = "recover" /\ i' = i
     /\ (apdu = "select" /\ then' = "reselect") \/ (apdu = "ctap" /\ then' = "webauthn")
  \/ pc = "reselect" /\ pc' = "variant" /\ UNCHANGED <<then, i>>
  \/ pc = "variant" /\ i < Variants /\ pc' = "variant" /\ i' = i + 1 /\ then' = then
  \/ pc = "webauthn" /\ pc' = "again" /\ UNCHANGED <<then, i>>
  \/ pc = "webauthn" /\ NextWebauthnStep

LEMMA Moving ==
  ASSUME IInv, Moves, pc \in Sending \cup {"fail"}, doing' = None, sound' \in BOOLEAN,
         got' \in Apdus \cup {Mixed, None}, rsp' \in Answers, reply' \in Answers, Replies',
         UNCHANGED <<field, swaps, awake, up, fido, uid, deselected, opened, apdu, ran, sw, abort,
                     repaired, runs>>,
         pc' = "again" /\ up /\ sound' => fido
  PROVE  IInv'
<1>1. CardTypes' /\ DataTypes'
  BY Parts DEF IInv, CardTypes, DataTypes
<1>2. LoopTypes
  BY Parts DEF IInv
<1>3. /\ WithinSelect => apdu = "select"
      /\ WithinCtap => apdu = "ctap"
      /\ opened
      /\ pc \in {"first", "reselect"} => i = 0
      /\ pc = "variant" => i \in 0..Variants
  BY DEF IInv, Places
<1>4. CASE pc' = "idle" /\ UNCHANGED <<then, i>>
  <2>1. LoopTypes'
    BY <1>2, <1>4 DEF LoopTypes
  <2>2. Places'
    BY <1>3, <1>4 DEF IInv, Places, Opening, Sending, WithinSelect, WithinCtap
  <2>3. Exchanges' /\ Runs' /\ Selects' /\ RunAgainOnlyRepaired'
    BY <1>4 DEF IInv, Exchanges, Runs, Selects, RunAgainOnlyRepaired, WithinCtap
  <2> QED
    BY <1>1, <2>1, <2>2, <2>3, PartsNext DEF IInv
<1>5. CASE /\ pc = "first" /\ pc' = "recover" /\ i' = i
           /\ (apdu = "select" /\ then' = "reselect") \/ (apdu = "ctap" /\ then' = "webauthn")
  <2>1. LoopTypes'
    BY <1>2, <1>5 DEF LoopTypes
  <2>2. Places'
    BY <1>3, <1>5 DEF IInv, Places, Opening, Sending, WithinSelect, WithinCtap
  <2>3. Len(runs) <= 1
    BY <1>5, Parts DEF IInv, Runs, DataTypes
  <2>4. Exchanges' /\ Runs' /\ Selects' /\ RunAgainOnlyRepaired'
    BY <1>5, <2>3 DEF IInv, Exchanges, Runs, Selects, RunAgainOnlyRepaired
  <2> QED
    BY <1>1, <2>1, <2>2, <2>4, PartsNext DEF IInv
<1>6. CASE pc = "reselect" /\ pc' = "variant" /\ UNCHANGED <<then, i>>
  <2>1. LoopTypes'
    BY <1>2, <1>6 DEF LoopTypes, Sending
  <2>2. Places'
    BY <1>3, <1>6, Bounds DEF IInv, Places, Opening, Sending, WithinSelect, WithinCtap
  <2>3. Exchanges' /\ Runs' /\ Selects' /\ RunAgainOnlyRepaired'
    BY <1>6 DEF IInv, Exchanges, Runs, Selects, RunAgainOnlyRepaired, WithinCtap
  <2> QED
    BY <1>1, <2>1, <2>2, <2>3, PartsNext DEF IInv
<1>7. CASE pc = "variant" /\ i < Variants /\ pc' = "variant" /\ i' = i + 1 /\ then' = then
  <2>0. i' \in 0..Variants /\ i' \in 0..(IF Variants > 4 THEN Variants ELSE 4)
    BY <1>3, <1>7, Bounds
  <2>1. LoopTypes'
    BY <1>2, <1>7, <2>0 DEF LoopTypes, Sending
  <2>2. Places'
    BY <1>3, <1>7, <2>0 DEF IInv, Places, Opening, Sending, WithinSelect, WithinCtap
  <2>3. Exchanges' /\ Runs' /\ Selects' /\ RunAgainOnlyRepaired'
    BY <1>7 DEF IInv, Exchanges, Runs, Selects, RunAgainOnlyRepaired, WithinCtap
  <2> QED
    BY <1>1, <2>1, <2>2, <2>3, PartsNext DEF IInv
<1>8. CASE pc = "webauthn" /\ pc' = "again" /\ UNCHANGED <<then, i>>
  <2>1. LoopTypes'
    BY <1>2, <1>8 DEF LoopTypes, Sending
  <2>2. Places'
    BY <1>3, <1>8 DEF IInv, Places, Opening, Sending, WithinSelect, WithinCtap
  <2>3. Exchanges' /\ Runs' /\ RunAgainOnlyRepaired'
    BY <1>8 DEF IInv, Exchanges, Runs, RunAgainOnlyRepaired, WithinCtap
  <2>4. Selects'
    BY <1>8 DEF IInv, Selects
  <2> QED
    BY <1>1, <2>1, <2>2, <2>3, <2>4, PartsNext DEF IInv
<1>9. CASE pc = "webauthn" /\ NextWebauthnStep
  <2>0. /\ i' \in 0..4 /\ pc' \in {"recover", "webauthn", "fail"}
        /\ pc' = "recover" => then' = "webauthn"
        /\ pc' # "recover" => then' = then
        /\ pc' # "fail" => i' \in 0..3
    BY <1>9, WebauthnStep
  <2>1. LoopTypes'
    <3>1. i' \in 0..(IF Variants > 4 THEN Variants ELSE 4)
      BY <2>0, Bounds
    <3> QED
      BY <1>2, <2>0, <3>1 DEF LoopTypes, Sending
  <2>2. Places'
    BY <1>3, <1>9, <2>0 DEF IInv, Places, Opening, Sending, WithinSelect, WithinCtap
  <2>3. Exchanges' /\ Runs' /\ RunAgainOnlyRepaired'
    BY <1>9, <2>0 DEF IInv, Exchanges, Runs, RunAgainOnlyRepaired, WithinCtap
  <2>4. Selects'
    BY <1>9, <2>0 DEF IInv, Selects, HasRun
  <2> QED
    BY <1>1, <2>1, <2>2, <2>3, <2>4, PartsNext DEF IInv
<1> QED
  BY <1>4, <1>5, <1>6, <1>7, <1>8, <1>9 DEF Moves

LEMMA OwnAnswers == Failure \in Answers /\ Aborted \in Answers /\ Nothing \in Answers
                    /\ Failure.of = None /\ Aborted.of = None /\ Nothing.of = None
BY DEF Failure, Aborted, Nothing, Answer, Answers

(* What the exchange returned is dealt with *)
LEMMA AnsweredStep ==
  ASSUME IInv, doing # None, doing' = None, NEW r \in Answers, Answered(r),
         r.of # None /\ r.clean => r.of = Sent,
         pc = "webauthn" /\ r.sw = "ok" /\ up /\ sound' => fido,
         sound' \in BOOLEAN, got' \in Apdus \cup {Mixed, None},
         UNCHANGED <<field, swaps, awake, up, fido, uid, deselected, opened, apdu, ran, sw, abort,
                     repaired, runs>>
  PROVE  IInv'
<1>1. /\ pc \in Sending /\ (pc = "variant" => i < Variants)
      /\ pc \in {"variant", "reselect"} => apdu = "select"
      /\ pc \in Selecting => Sent = "select"
      /\ pc \notin Selecting => Sent = apdu
  BY DEF IInv, Exchanges, Places, WithinSelect, Sent
<1>2. /\ Moves /\ (pc' = "again" => r.sw = "ok" /\ pc = "webauthn")
      /\ rsp' = rsp \/ (rsp' = r /\ pc \in Selecting)
      /\ reply' = reply \/ reply' = Failure \/ (reply' = r /\ pc # "webauthn")
  <2>1. CASE pc = "first"
    BY <2>1 DEF Answered, RelayedOrFailed, Returns, Recover, Goto, Moves
  <2>2. CASE pc = "reselect"
    BY <2>2 DEF Answered, Returns, Goto, Moves
  <2>3. CASE pc = "variant"
    BY <1>1, <2>3 DEF Answered, Returns, NextVariant, Kept, Goto, Moves, Selecting
  <2>4. CASE pc = "webauthn"
    <3>1. CASE r.sw = "ok"
      BY <2>4, <3>1 DEF Answered, Kept, Goto, Moves, Selecting
    <3>2. CASE r.sw # "ok"
      <4>1. NextWebauthnStep /\ Kept(r) /\ UNCHANGED reply
        BY <2>4, <3>2 DEF Answered
      <4>2. pc' # "again"
        BY <2>4, <4>1, WebauthnStep
      <4> QED
        BY <2>4, <4>1, <4>2 DEF Kept, Moves, Selecting
    <3> QED
      BY <3>1, <3>2
  <2>5. CASE pc = "again"
    BY <2>5 DEF Answered, RelayedOrFailed, Returns, Goto, Moves
  <2> QED
    BY <1>1, <2>1, <2>2, <2>3, <2>4, <2>5 DEF Sending
<1>3. rsp' \in Answers /\ reply' \in Answers
  BY <1>2, OwnAnswers, Parts DEF IInv, DataTypes
<1>4. Replies'
  BY <1>1, <1>2, OwnAnswers DEF IInv, Replies, Selecting
<1> QED
  BY <1>1, <1>2, <1>3, <1>4, Moving

LEMMA SucceedsStep == IInv /\ Succeeds => IInv'
<1> SUFFICES ASSUME IInv, Succeeds PROVE IInv'
  OBVIOUS
<1>1. /\ doing # None /\ ran # None /\ doing' = None /\ got' = ran
      /\ Answered(Answer(ran, sw, sound))
      /\ UNCHANGED <<field, swaps, awake, up, fido, uid, deselected, opened, apdu, ran, sw, abort,
                     repaired, runs, sound>>
  BY DEF Succeeds, Link!Succeed, card, history
<1>2. ran \in Apdus \cup {Mixed, None} /\ sound \in BOOLEAN
      /\ Answer(ran, sw, sound) \in Answers
  BY Parts DEF IInv, DataTypes, Answer, Answers
<1>3. sound => ran = Sent
  BY <1>1 DEF IInv, Exchanges
<1>4. pc = "webauthn" /\ sw = "ok" /\ up /\ sound => fido
  BY <1>1 DEF IInv, Selects, HasRun
<1>5. /\ Answer(ran, sw, sound).of = ran /\ Answer(ran, sw, sound).sw = sw
      /\ Answer(ran, sw, sound).clean = sound
  BY DEF Answer
<1> QED
  BY <1>1, <1>2, <1>3, <1>4, <1>5, AnsweredStep

LEMMA FailsStep == IInv /\ Fails => IInv'
<1> SUFFICES ASSUME IInv, Fails PROVE IInv'
  OBVIOUS
<1>1. /\ doing # None /\ doing' = None /\ sound' = FALSE /\ got' = got /\ Answered(Nothing)
      /\ UNCHANGED <<field, swaps, awake, up, fido, uid, deselected, opened, apdu, ran, sw, abort,
                     repaired, runs>>
  BY DEF Fails, Link!Fail, card, history
<1>2. got \in Apdus \cup {Mixed, None}
  BY Parts DEF IInv, DataTypes
<1> QED
  BY <1>1, <1>2, OwnAnswers, AnsweredStep

LEMMA IdleLinkStep == IInv /\ (AbortNoticed \/ VariantsDone \/ GivesUp) => IInv'
<1> SUFFICES ASSUME IInv, AbortNoticed \/ VariantsDone \/ GivesUp PROVE IInv'
  OBVIOUS
<1>1. UNCHANGED <<field, swaps, awake, up, fido, uid, deselected, opened, apdu, sound, doing, ran, got,
                  sw, abort, repaired, runs>>
  BY DEF AbortNoticed, VariantsDone, GivesUp, card, link, history
<1>2. /\ pc \in Sending \cup {"fail"} /\ doing = None
      /\ pc = "variant" => apdu = "select"
  BY DEF AbortNoticed, VariantsDone, GivesUp, IInv, Exchanges, Places, Sending, Selecting,
         WithinSelect
<1>3. DataTypes
  BY Parts DEF IInv
<1>4. /\ Moves /\ pc' # "again"
      /\ rsp' \in {rsp, Aborted}
      /\ reply' \in {reply, Failure} \/ (reply' = rsp /\ pc = "variant")
  <2>1. CASE AbortNoticed /\ pc = "variant"
    <3>1. i < Variants
      <4>1. i \in Int /\ Variants \in Int
        BY <2>1, Constants DEF IInv, Places
      <4> QED
        BY <2>1, <4>1 DEF AbortNoticed
    <3> QED
      BY <2>1, <3>1 DEF AbortNoticed, NextVariant, Goto, Moves
  <2>2. CASE AbortNoticed /\ pc # "variant"
    <3>1. pc = "webauthn" /\ NextWebauthnStep /\ rsp' = Aborted /\ reply' = reply
      BY <2>2 DEF AbortNoticed, Selecting
    <3>2. pc' # "again"
      BY <3>1, WebauthnStep
    <3> QED
      BY <3>1, <3>2 DEF Moves
  <2>3. CASE VariantsDone
    BY <2>3 DEF VariantsDone, Returns, Goto, Moves
  <2>4. CASE GivesUp
    BY <2>4 DEF GivesUp, Returns, Goto, Moves
  <2> QED
    BY <2>1, <2>2, <2>3, <2>4
<1>5. rsp' \in Answers /\ reply' \in Answers
  BY <1>3, <1>4, OwnAnswers DEF DataTypes
<1>6. Replies'
  BY <1>1, <1>2, <1>4, OwnAnswers DEF IInv, Replies
<1>7. sound' \in BOOLEAN /\ got' \in Apdus \cup {Mixed, None}
  BY <1>1, <1>3 DEF DataTypes
<1> QED
  BY <1>1, <1>2, <1>4, <1>5, <1>6, <1>7, Moving

-----------------------------------------------------------------------------
LEMMA StutterStep == IInv /\ UNCHANGED vars => IInv'
<1> SUFFICES ASSUME IInv, UNCHANGED vars PROVE IInv'
  OBVIOUS
<1>1. UNCHANGED <<field, swaps, awake, up, fido, uid, deselected, opened, pc, then, i, apdu, rsp, reply,
                  sound, doing, ran, got, sw, abort, repaired, runs>>
  BY DEF vars, card, reader, link, history
<1>2. CardTypes' /\ LoopTypes' /\ DataTypes'
  BY <1>1, Parts DEF IInv, CardTypes, LoopTypes, DataTypes
<1>3. Places' /\ Exchanges' /\ Replies'
  BY <1>1 DEF IInv, Places, Exchanges, Replies, Sent, WithinSelect, WithinCtap
<1>4. Runs' /\ Selects' /\ RunAgainOnlyRepaired'
  BY <1>1 DEF IInv, Runs, Selects, RunAgainOnlyRepaired, HasRun, WithinCtap
<1> QED
  BY <1>2, <1>3, <1>4, PartsNext DEF IInv

LEMMA Invariance == Spec => []IInv
<1>1. IInv /\ [Next]_vars => IInv'
  BY StutterStep, SwapStep, DetectStep, CardRunsStep, PowerOnStep, PowerOffStep, AbortsStep,
     TransmitStep, RecoverStep, OpeningStep, BeginsStep, SucceedsStep, FailsStep, IdleLinkStep
     DEF Next, Host, Reader
<1> QED
  BY InitIInv, <1>1, PTL DEF Spec

(* An open session is one with the card that is there and whose UID the     *)
(* reader has, however often cards are exchanged and sessions repaired      *)
(* (reader_security_key_iso_dep_recover_session).                           *)
THEOREM TypeCorrect == Spec => []TypeOK
BY Invariance, PTL DEF IInv

(* The host gets the answer to its own APDU or a failure, never the one to  *)
(* a SELECT of the repair, for every number of variants                     *)
(* (reader_security_key_apdu_exchange).                                     *)
THEOREM AnswersAreOwn == Spec => []AnswersItsOwn
<1>1. IInv => AnswersItsOwn
  BY DEF IInv, Replies, AnswersItsOwn
<1> QED
  BY <1>1, Invariance, PTL

(* No command runs twice on a card but a SELECT, and a CTAP command in a    *)
(* session opened again since, with the applet selected, for every set of   *)
(* cards and exchanges of them (reader_security_key_apdu_exchange).         *)
THEOREM RunsAgainOnlyRepaired == Spec => []RunAgainOnlyRepaired
BY Invariance, PTL DEF IInv
=============================================================================
