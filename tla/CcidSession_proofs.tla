-------------------------- MODULE CcidSession_proofs --------------------------
(***************************************************************************)
(* Theorems about CcidSession, for every choice of its constants.          *)
(***************************************************************************)
EXTENDS CcidSession, SequenceTheorems, TLAPS

(* A value of the millisecond counter stays one whatever is added to it. *)
LEMMA ClockWraps ==
  ASSUME NEW t \in Nat
  PROVE  t % ClockMod \in Clock
<1>1. ClockMod \in Nat /\ ClockMod > 0
  BY BoundsArePositive
<1> QED BY <1>1 DEF Clock

(* The clock holds zero, the next millisecond and a deadline from now.     *)
LEMMA ClockTypes ==
  /\ 0 \in Clock
  /\ \A t \in Clock : (t + 1) % ClockMod \in Clock /\ (t + Defer) % ClockMod \in Clock
<1>1. 0 \in Clock
  BY BoundsArePositive DEF Clock
<1>2. ASSUME NEW t \in Clock
      PROVE  (t + 1) % ClockMod \in Clock /\ (t + Defer) % ClockMod \in Clock
  <2>1. t + 1 \in Nat /\ t + Defer \in Nat
    BY BoundsArePositive DEF Clock
  <2> QED BY <2>1, ClockWraps
<1> QED BY <1>1, <1>2

(* The chains, commands and APDUs that stand for "none" have their types. *)
LEMMA EmptyTypes ==
  NoChain \in RspChains /\ NoCmd \in Commands /\ <<>> \in Seq(Apdus)
BY BoundsArePositive, EmptySeq DEF NoChain, RspChains, NoCmd, Commands

(* Every message the reader builds is a message. *)
LEMMA MessageTypes ==
  /\ \A k \in ReplyKinds, s \in Seqs \cup {NoSeq} : Reply(k, s) \in Messages
  /\ \A s \in Seqs \cup {NoSeq} : TimeExt(s) \in Messages
  /\ \A p \in BOOLEAN : SlotChange(p) \in Messages
BY DEF Messages, Reply, TimeExt, SlotChange

(* What is reported of the slot is an arrival or a departure. *)
LEMMA ChangeKinds ==
  /\ SlotChange(TRUE).kind = "arrived" /\ SlotChange(FALSE).kind = "left"
  /\ \A p \in BOOLEAN : /\ SlotChange(p).kind \in {"arrived", "left"}
                         /\ SlotChange(p).kind = "arrived" <=> p
BY DEF SlotChange

(* Nothing, one message, or a departure and an arrival. *)
LEMMA SentTypes ==
  /\ <<>> \in Seq(Messages)
  /\ \A m \in Messages : <<m>> \in Seq(Messages)
  /\ \A m, n \in Messages : <<m>> \o <<n>> \in Seq(Messages)
  /\ \A m \in Messages : <<>> \o <<m>> \in Seq(Messages)
BY EmptySeq, ConcatProperties

(* A response whose next chunk was sent, or lost, is still a response. *)
LEMMA ChunkTypes ==
  ASSUME NEW chain \in RspChains, NEW s \in Seqs \cup {NoSeq}, NEW ok \in BOOLEAN,
         got \in Nat, SendChunk(chain, s, ok)
  PROVE  rspChain' \in RspChains /\ got' \in Nat /\ out' \in Seq(Messages)
<1>1. rspChain' \in RspChains
  <2>1. CASE ok /\ chain.off + 1 < chain.len
    BY <2>1, BoundsArePositive DEF SendChunk, RspChains
  <2>2. CASE ~(ok /\ chain.off + 1 < chain.len)
    BY <2>2, EmptyTypes DEF SendChunk
  <2> QED BY <2>1, <2>2
<1>2. got' \in Nat
  BY DEF SendChunk, Deliver
<1>3. out' \in Seq(Messages)
  <2>1. ChunkLevel(chain.off, chain.len) \in ReplyKinds
    BY DEF ChunkLevel, ReplyKinds
  <2> QED BY <2>1, MessageTypes, SentTypes DEF SendChunk, Deliver, Send
<1> QED BY <1>1, <1>2, <1>3

(* The command being worked on is the host's frame. *)
LEMMA CommandTypes ==
  \A s \in Seqs, apdu \in Seq(Apdus), chained \in BOOLEAN :
    /\ [seq |-> s, apdu |-> apdu, chained |-> chained] \in Commands
    /\ [NoCmd EXCEPT !.seq = s] \in Commands
BY EmptyTypes DEF NoCmd, Commands

(* A payload is a sequence of APDU contents.                               *)
LEMMA PayloadTypes ==
  ASSUME NEW pay \in Payloads
  PROVE  /\ pay \in Seq(Apdus)
         /\ \A c \in Seq(Apdus) : c \o pay \in Seq(Apdus)
<1>1. \A a \in Apdus : <<a>> \in Seq(Apdus)
  OBVIOUS
<1>2. pay \in Seq(Apdus)
  BY <1>1, EmptyTypes DEF Payloads
<1> QED BY <1>2, ConcatProperties

(* The initial state has the types. *)
LEMMA TypeInit == Init => TypeOK
<1> SUFFICES ASSUME Init PROVE TypeOK
  OBVIOUS
<1>1. out \in Seq(Messages) /\ cmdChain \in Seq(Apdus) /\ acked \in Seq(Apdus)
  BY EmptyTypes, SentTypes DEF Init
<1> QED BY <1>1, ClockTypes, EmptyTypes DEF Init, TypeOK, Pcs

(* Every step keeps the types. *)
LEMMA TypeStep == TypeOK /\ [Next]_vars => TypeOK'
<1> SUFFICES ASSUME TypeOK, [Next]_vars
             PROVE  TypeOK'
  OBVIOUS
<1> USE ClockTypes, EmptyTypes, MessageTypes, SentTypes, ChangeKinds
    DEF TypeOK, Notify, vars, link, card, chains, Pcs, Send, Silent
<1>1. CASE UNCHANGED vars
  BY <1>1
<1>2. CASE Tick
  BY <1>2 DEF Tick
<1>13. CASE BusReset
  BY <1>13 DEF BusReset
<1>3. ASSUME NEW s \in Seqs, ControlAbort(s) PROVE TypeOK'
  BY <1>3 DEF ControlAbort
<1>4. ASSUME NEW s \in Seqs, ControlCommand(s) PROVE TypeOK'
  <2>1. CASE RefuseFrame(s)
    BY <2>1 DEF RefuseFrame, Answer, ReplyKinds, DropChains, TeardownSession, DropLink, NoteActivity
  <2>2. CASE AbortedCommand(s)
    BY <2>2 DEF AbortedCommand, Answer, ReplyKinds, DropChains, TeardownSession, DropLink, NoteActivity
  <2>3. CASE Abort(s)
    BY <2>3 DEF Abort, Answer, ReplyKinds, DropChains, TeardownSession, DropLink, NoteActivity
  <2>4. CASE SlotStatus(s)
    BY <2>4 DEF SlotStatus, Answer, ReplyKinds, DropChains, TeardownSession, DropLink, NoteActivity
  <2>5. CASE Params(s)
    BY <2>5 DEF Params, Answer, ReplyKinds, DropChains, TeardownSession, DropLink, NoteActivity
  <2>6. CASE IccOff(s)
    BY <2>6 DEF IccOff, Answer, ReplyKinds, DropChains, TeardownSession, DropLink, NoteActivity
  <2>7. CASE IccOnBadSelect(s)
    BY <2>7 DEF IccOnBadSelect, Answer, ReplyKinds, DropChains, TeardownSession, DropLink, NoteActivity
  <2>8. CASE IccOnNoCard(s)
    BY <2>8 DEF IccOnNoCard, Answer, ReplyKinds, DropChains, TeardownSession, DropLink, NoteActivity
  <2>9. CASE IccOnStart(s)
    BY <2>9, CommandTypes DEF IccOnStart, Answer, ReplyKinds, DropChains, TeardownSession, DropLink, NoteActivity
  <2> QED BY <1>4, <2>1, <2>2, <2>3, <2>4, <2>5, <2>6, <2>7, <2>8, <2>9 DEF ControlCommand
<1>5. ASSUME NEW s \in Seqs, XfrBlock(s) PROVE TypeOK'
  <2>1. CASE ContinueResponse(s)
    BY <2>1, ChunkTypes DEF ContinueResponse
  <2>2. CASE ContinueNothing(s)
    BY <2>2 DEF ContinueNothing, Answer, ReplyKinds, DropRspChain, DropChains, SendChunk, ChunkLevel
  <2>3. CASE AbortedXfr(s)
    BY <2>3 DEF AbortedXfr, Answer, ReplyKinds, DropRspChain, DropChains, SendChunk, ChunkLevel
  <2>4. CASE XfrNoSession(s)
    BY <2>4 DEF XfrNoSession, Answer, ReplyKinds, DropRspChain, DropChains, SendChunk, ChunkLevel
  <2>5. CASE XfrSingleInChain(s)
    BY <2>5 DEF XfrSingleInChain, Answer, ReplyKinds, DropRspChain, DropChains, SendChunk, ChunkLevel
  <2>6. ASSUME NEW pay \in Payloads, XfrSingle(s, pay) PROVE TypeOK'
    BY <2>6, PayloadTypes, CommandTypes DEF XfrSingle, Dispatch
  <2>7. ASSUME NEW pay \in Payloads, XfrEnd(s, pay) PROVE TypeOK'
    BY <2>7, PayloadTypes, CommandTypes DEF XfrEnd, Dispatch
  <2>8. ASSUME NEW pay \in Payloads, NEW level \in {"begin", "middle"},
               XfrAppended(s, level, pay)
        PROVE  TypeOK'
    BY <2>8, PayloadTypes DEF XfrAppended, Answer, Base, ReplyKinds
  <2>9. ASSUME NEW pay \in Payloads, NEW level \in {"begin", "middle", "end"},
               XfrNotAppended(s, level, pay)
        PROVE  TypeOK'
    BY <2>9 DEF XfrNotAppended, Answer, ReplyKinds
  <2> QED BY <1>5, <2>1, <2>2, <2>3, <2>4, <2>5, <2>6, <2>7, <2>8, <2>9 DEF XfrBlock
<1>6. CASE Heartbeat
  BY <1>6 DEF Heartbeat
<1>7. CASE PollRemoval
  BY <1>7 DEF PollRemoval, CompleteCardRemoval, TeardownSession, DropLink
<1>8. CASE NoFrame
  BY <1>8 DEF NoFrame
<1>0. cmd.seq \in Seqs \cup {NoSeq}
  BY DEF Commands
<1>9. CASE IccOnActivated
  BY <1>0, <1>9 DEF IccOnActivated, NoteActivity, ReplyKinds
<1>10. CASE IccOnMute
  BY <1>0, <1>10 DEF IccOnMute, TeardownSession, DropLink, ReplyKinds
<1>11. ASSUME NEW o \in Outcomes, Dispatched(o) PROVE TypeOK'
  <2>1. CASE CommandAborted \/ o.chunks = 1
    BY <1>0, <1>11, <2>1 DEF Dispatched, NoteActivity, TeAfter, ReplyKinds
  <2>2. CASE ~CommandAborted /\ o.chunks # 1
    <3>1. PICK ok \in BOOLEAN : SendChunk([len |-> o.chunks, off |-> 0], cmd.seq, ok)
      BY <1>11, <2>2 DEF Dispatched
    <3>2. [len |-> o.chunks, off |-> 0] \in RspChains /\ cmd.seq \in Seqs \cup {NoSeq}
      BY BoundsArePositive DEF Outcomes, RspChains, Commands
    <3>3. rspChain' \in RspChains /\ got' \in Nat /\ out' \in Seq(Messages)
      BY <3>1, <3>2, ChunkTypes
    <3> QED BY <1>11, <3>3 DEF Dispatched, NoteActivity, TeAfter
  <2> QED BY <2>1, <2>2
<1>12. CASE LoopStep
  <2>1. CASE FieldUnchanged
    BY <2>1 DEF FieldUnchanged
  <2>2. CASE TagRemoved
    BY <2>2 DEF TagRemoved, RemovedFromField, CompleteCardRemoval, TeardownSession, DropLink
  <2>3. CASE TagReplaced
    BY <2>3 DEF TagReplaced, RemovedFromField, CompleteCardRemoval, TeardownSession, DropLink
  <2>4. ASSUME NEW k \in Kinds, TagDetected(k) PROVE TypeOK'
    BY <2>4, ConcatProperties DEF TagDetected, TeardownSession, DropLink
  <2> QED BY <1>12, <2>1, <2>2, <2>3, <2>4 DEF LoopStep
<1> QED
  BY <1>1, <1>2, <1>3, <1>4, <1>5, <1>6, <1>7, <1>8, <1>9, <1>10, <1>11, <1>12, <1>13
  DEF Next, Command, Firmware

(* Every variable keeps its type. *)
THEOREM TypeCorrect == Spec => []TypeOK
<1> QED BY TypeInit, TypeStep, PTL DEF Spec

-----------------------------------------------------------------------------
(* The session.  What the five flags, the chains, the callback and the     *)
(* deferred removal promise of each other is inductive once it is known    *)
(* where in the loop a session can be open.                                *)

LoopPlace ==
  /\ pc = "power" => ~sess /\ cardPresent
  /\ pc = "dispatch" => sess /\ (te # NoSeq => Binds(cmd.apdu))
  /\ pc = "replaced" => ~sess /\ (cardPresent <=> removeDeferred)

SessionInv == /\ SessionConsistent /\ ChainsBelongToSession /\ TimeExtensionBound
              /\ DeferredRemovalIsBrief /\ HostKnowsCard /\ LoopPlace

(* The empty chain has no chunk.                                           *)
LEMMA NoChainIsEmpty == NoChain.len = 0 /\ NoChain.off = 0
BY DEF NoChain

(* A chunk sent leaves either no chain or one with chunks behind and ahead *)
LEMMA ChunkLeavesRest ==
  ASSUME NEW chain \in RspChains, NEW s, NEW ok \in BOOLEAN, SendChunk(chain, s, ok)
  PROVE  rspChain'.len > 0 => 0 < rspChain'.off /\ rspChain'.off < rspChain'.len
<1>1. CASE ok /\ chain.off + 1 < chain.len
  <2>1. rspChain' = [chain EXCEPT !.off = chain.off + 1]
    BY <1>1 DEF SendChunk
  <2>2. rspChain'.off = chain.off + 1 /\ rspChain'.len = chain.len
    BY <2>1 DEF RspChains
  <2> QED BY <2>2, <1>1, BoundsArePositive DEF RspChains
<1>2. CASE ~(ok /\ chain.off + 1 < chain.len)
  BY <1>2, NoChainIsEmpty DEF SendChunk
<1> QED BY <1>1, <1>2

(* The reader starts with an empty slot. *)
LEMMA SessionInit == Init => SessionInv
<1> SUFFICES ASSUME Init PROVE SessionInv
  OBVIOUS
<1>1. SessionConsistent
  BY DEF Init, SessionConsistent
<1>2. ChainsBelongToSession
  BY NoChainIsEmpty DEF Init, ChainsBelongToSession
<1>3. TimeExtensionBound /\ DeferredRemovalIsBrief /\ HostKnowsCard /\ LoopPlace
  BY DEF Init, TimeExtensionBound, DeferredRemovalIsBrief, HostKnowsCard, LoopPlace
<1> QED BY <1>1, <1>2, <1>3 DEF SessionInv

(* What no session and no card look like. *)
Closed == /\ sess = FALSE /\ isoOpen = FALSE /\ fidoApp = FALSE /\ owner = "none"
          /\ rspChain.len = 0 /\ cmdChain = <<>> /\ te = NoSeq
Vacant == /\ cardPresent = FALSE /\ tagKind = NoTag /\ ~removeDeferred /\ told # "arrived"
          /\ Closed

(* Tearing the session down closes everything that belongs to it.          *)
LEMMA TeardownCloses == TypeOK /\ TeardownSession => Closed'
BY NoChainIsEmpty DEF TypeOK, TeardownSession, DropLink, Closed

(* Completing a removal leaves an empty slot, and no host that was told    *)
(* otherwise.                                                              *)
LEMMA RemovalVacates == TypeOK /\ HostKnowsCard /\ CompleteCardRemoval => Vacant'
<1> SUFFICES ASSUME TypeOK, HostKnowsCard, CompleteCardRemoval
             PROVE  Vacant'
  OBVIOUS
<1>1. told' # "arrived"
  BY ChangeKinds DEF TypeOK, HostKnowsCard, CompleteCardRemoval, Notify
<1> QED BY <1>1, TeardownCloses DEF CompleteCardRemoval, Vacant

(* A step that vacates the slot, or closes the session for a new card,     *)
(* leaves everything consistent unless the loop is at work for a command.  *)
LEMMA VacantIsConsistent ==
  Vacant' /\ pc' \notin {"power", "dispatch"} => SessionInv'
<1> SUFFICES ASSUME Vacant', pc' \notin {"power", "dispatch"}
             PROVE  SessionInv'
  OBVIOUS
<1>1. SessionConsistent'
  BY DEF Vacant, Closed, SessionConsistent
<1>2. ChainsBelongToSession'
  BY DEF Vacant, Closed, ChainsBelongToSession
<1>3. (TimeExtensionBound /\ DeferredRemovalIsBrief /\ HostKnowsCard /\ LoopPlace)'
  BY DEF Vacant, Closed, TimeExtensionBound, DeferredRemovalIsBrief, HostKnowsCard, LoopPlace
<1> QED BY <1>1, <1>2, <1>3 DEF SessionInv

(* Every step keeps the flags of the session in agreement. *)
LEMMA SessionStep == TypeOK /\ SessionInv /\ [Next]_vars => SessionInv'
<1> SUFFICES ASSUME TypeOK, SessionInv, [Next]_vars
             PROVE  SessionInv'
  OBVIOUS
<1> USE NoChainIsEmpty, KindsAreDistinct
    DEF TypeOK, SessionInv, SessionConsistent, ChainsBelongToSession, TimeExtensionBound,
        DeferredRemovalIsBrief, HostKnowsCard, LoopPlace, Kinds, Binds,
        vars, link, card, chains, Pcs
<1>1. CASE UNCHANGED vars
  BY <1>1
<1>2. CASE Tick
  BY <1>2 DEF Tick
<1>13. CASE BusReset
  BY <1>13 DEF BusReset
<1>3. ASSUME NEW s \in Seqs, ControlAbort(s) PROVE SessionInv'
  BY <1>3 DEF ControlAbort
<1>4. ASSUME NEW s \in Seqs, ControlCommand(s) PROVE SessionInv'
  <2>1. CASE RefuseFrame(s)
    BY <2>1 DEF RefuseFrame, Answer
  <2>2. CASE AbortedCommand(s)
    BY <2>2 DEF AbortedCommand, Answer, DropChains
  <2>3. CASE Abort(s)
    BY <2>3 DEF Abort, Answer, DropChains
  <2>4. CASE SlotStatus(s)
    BY <2>4 DEF SlotStatus, Answer, DropChains
  <2>5. CASE Params(s)
    BY <2>5 DEF Params, Answer, DropChains, NoteActivity
  <2>6. CASE IccOff(s)
    BY <2>6 DEF IccOff, Answer, TeardownSession, DropLink
  <2>7. CASE IccOnBadSelect(s)
    BY <2>7 DEF IccOnBadSelect, Answer, DropChains
  <2>8. CASE IccOnNoCard(s)
    BY <2>8 DEF IccOnNoCard, Answer, TeardownSession, DropLink
  <2>9. CASE IccOnStart(s)
    BY <2>9 DEF IccOnStart, DropLink, NoCmd
  <2> QED BY <1>4, <2>1, <2>2, <2>3, <2>4, <2>5, <2>6, <2>7, <2>8, <2>9 DEF ControlCommand
<1>5. ASSUME NEW s \in Seqs, XfrBlock(s) PROVE SessionInv'
  <2>1. CASE ContinueResponse(s)
    BY <2>1, ChunkLeavesRest DEF ContinueResponse
  <2>2. CASE ContinueNothing(s)
    BY <2>2 DEF ContinueNothing, Answer
  <2>3. CASE AbortedXfr(s)
    BY <2>3 DEF AbortedXfr, Answer, DropRspChain
  <2>4. CASE XfrNoSession(s)
    BY <2>4 DEF XfrNoSession, Answer, DropRspChain
  <2>5. CASE XfrSingleInChain(s)
    BY <2>5 DEF XfrSingleInChain, Answer, DropChains
  <2>6. ASSUME NEW pay \in Payloads, XfrSingle(s, pay) PROVE SessionInv'
    BY <2>6 DEF XfrSingle, Dispatch, Binds
  <2>7. ASSUME NEW pay \in Payloads, XfrEnd(s, pay) PROVE SessionInv'
    BY <2>7 DEF XfrEnd, Dispatch, Binds
  <2>8. ASSUME NEW pay \in Payloads, NEW level \in {"begin", "middle"},
               XfrAppended(s, level, pay)
        PROVE  SessionInv'
    BY <2>8 DEF XfrAppended, Answer
  <2>9. ASSUME NEW pay \in Payloads, NEW level \in {"begin", "middle", "end"},
               XfrNotAppended(s, level, pay)
        PROVE  SessionInv'
    BY <2>9 DEF XfrNotAppended, Answer
  <2> QED BY <1>5, <2>1, <2>2, <2>3, <2>4, <2>5, <2>6, <2>7, <2>8, <2>9 DEF XfrBlock
<1>6. CASE Heartbeat
  BY <1>6 DEF Heartbeat
<1>7. CASE PollRemoval
  <2>1. CASE RemovalDue
    <3>1. Vacant' /\ pc' = "bulk"
      BY <1>7, <2>1, RemovalVacates DEF PollRemoval
    <3> QED BY <3>1, VacantIsConsistent
  <2>2. CASE ~RemovalDue
    BY <1>7, <2>2 DEF PollRemoval, RemovalDue
  <2> QED BY <2>1, <2>2
<1>8. CASE NoFrame
  BY <1>8 DEF NoFrame
<1>9. CASE IccOnActivated
  BY <1>9 DEF IccOnActivated, NoteActivity
<1>10. CASE IccOnMute
  BY <1>10 DEF IccOnMute, TeardownSession, DropLink
<1>11. ASSUME NEW o \in Outcomes, Dispatched(o) PROVE SessionInv'
  <2>1. CASE CommandAborted \/ o.chunks = 1
    BY <1>11, <2>1 DEF Dispatched, NoteActivity, TeAfter, Outcomes, CommandAborted, Binds
  <2>2. CASE ~CommandAborted /\ o.chunks # 1
    <3>1. PICK ok \in BOOLEAN : SendChunk([len |-> o.chunks, off |-> 0], cmd.seq, ok)
      BY <1>11, <2>2 DEF Dispatched
    <3>2. [len |-> o.chunks, off |-> 0] \in RspChains /\ o.chunks > 1
      BY <2>2, BoundsArePositive DEF Outcomes, RspChains
    <3>3. rspChain'.len > 0 => 0 < rspChain'.off /\ rspChain'.off < rspChain'.len
      BY <3>1, <3>2, ChunkLeavesRest
    <3> QED BY <1>11, <3>2, <3>3 DEF Dispatched, NoteActivity, TeAfter, Outcomes, Binds
  <2> QED BY <2>1, <2>2
<1>12. CASE LoopStep
  <2>1. CASE FieldUnchanged
    BY <2>1 DEF FieldUnchanged
  <2>2. CASE TagRemoved
    <3>1. CASE Deferrable
      BY <2>2, <3>1 DEF TagRemoved, RemovedFromField, Deferrable
    <3>2. CASE ~Deferrable
      <4>1. Vacant' /\ pc' = "poll"
        BY <2>2, <3>2, RemovalVacates DEF TagRemoved, RemovedFromField
      <4> QED BY <4>1, VacantIsConsistent
    <3> QED BY <3>1, <3>2
  <2>3. CASE TagReplaced
    <3>1. CASE Deferrable
      BY <2>3, <3>1 DEF TagReplaced, RemovedFromField, Deferrable
    <3>2. CASE ~Deferrable
      <4>1. Vacant' /\ pc' = "replaced"
        BY <2>3, <3>2, RemovalVacates DEF TagReplaced, RemovedFromField
      <4> QED BY <4>1, VacantIsConsistent
    <3> QED BY <3>1, <3>2
  <2>4. ASSUME NEW k \in Kinds, TagDetected(k) PROVE SessionInv'
    <3>1. /\ told' \in {"arrived", "unknown"}
          /\ cardPresent' /\ ~removeDeferred' /\ pc' = "poll" /\ tagKind' = k
      BY <2>4, ChangeKinds DEF TagDetected, LeftUnnoticed, Notify
    <3>2. ~sess
      BY <2>4 DEF TagDetected
    <3>3. CASE removeDeferred
      <4>1. Closed'
        BY <2>4, <3>3, TeardownCloses DEF TagDetected
      <4> QED BY <3>1, <4>1 DEF Closed
    <3>4. CASE ~removeDeferred
      BY <2>4, <3>1, <3>2, <3>4 DEF TagDetected
    <3> QED BY <3>3, <3>4
  <2> QED BY <1>12, <2>1, <2>2, <2>3, <2>4 DEF LoopStep
<1> QED
  BY <1>1, <1>2, <1>3, <1>4, <1>5, <1>6, <1>7, <1>8, <1>9, <1>10, <1>11, <1>12, <1>13
  DEF Next, Command, Firmware

-----------------------------------------------------------------------------
(* The chains.  What is collected of a response is what has left it, and   *)
(* what is kept of a command is what the host had acknowledged.            *)

ChainInv ==
  /\ rspChain.len > 0 => got = rspChain.off
  /\ pc # "dispatch" /\ cmdChain # <<>> => acked = cmdChain
  /\ pc = "dispatch" =>
       IF cmd.chained
       THEN acked # <<>> /\ \E a \in Apdus : cmd.apdu = acked \o <<a>>
       ELSE cmdChain = <<>>

(* The host has counted the chunks that have left the chain. *)
LEMMA ChunkIsCounted ==
  ASSUME NEW chain \in RspChains, NEW s, NEW ok \in BOOLEAN, SendChunk(chain, s, ok),
         chain.off > 0 => got = chain.off
  PROVE  rspChain'.len > 0 => got' = rspChain'.off
<1>1. CASE ok /\ chain.off + 1 < chain.len
  <2>1. rspChain'.off = chain.off + 1
    BY <1>1 DEF SendChunk, RspChains
  <2>2. got' = IF chain.off = 0 THEN 1 ELSE got + 1
    BY <1>1 DEF SendChunk, Deliver
  <2> QED BY <2>1, <2>2 DEF RspChains
<1>2. CASE ~(ok /\ chain.off + 1 < chain.len)
  BY <1>2, NoChainIsEmpty DEF SendChunk
<1> QED BY <1>1, <1>2

(* Nothing is chained when the reader starts. *)
LEMMA ChainInit == Init => ChainInv
BY NoChainIsEmpty DEF Init, ChainInv

(* Every step keeps the chains what the host takes them for. *)
LEMMA ChainStep == TypeOK /\ SessionInv /\ ChainInv /\ [Next]_vars => ChainInv'
<1> SUFFICES ASSUME TypeOK, SessionInv, ChainInv, [Next]_vars
             PROVE  ChainInv'
  OBVIOUS
<1> USE NoChainIsEmpty DEF ChainInv, TypeOK, vars, link, card, chains, Pcs
<1>1. CASE UNCHANGED vars
  BY <1>1
<1>2. CASE Tick
  BY <1>2 DEF Tick
<1>13. CASE BusReset
  BY <1>13 DEF BusReset
<1>3. ASSUME NEW s \in Seqs, ControlAbort(s) PROVE ChainInv'
  BY <1>3 DEF ControlAbort
<1>4. ASSUME NEW s \in Seqs, ControlCommand(s) PROVE ChainInv'
  <2>1. CASE RefuseFrame(s)
    BY <2>1 DEF RefuseFrame, Answer
  <2>2. CASE AbortedCommand(s)
    BY <2>2 DEF AbortedCommand, Answer, DropChains
  <2>3. CASE Abort(s)
    BY <2>3 DEF Abort, Answer, DropChains
  <2>4. CASE SlotStatus(s)
    BY <2>4 DEF SlotStatus, Answer, DropChains
  <2>5. CASE Params(s)
    BY <2>5 DEF Params, Answer, DropChains
  <2>6. CASE IccOff(s)
    BY <2>6 DEF IccOff, Answer, TeardownSession
  <2>7. CASE IccOnBadSelect(s)
    BY <2>7 DEF IccOnBadSelect, Answer, DropChains
  <2>8. CASE IccOnNoCard(s)
    BY <2>8 DEF IccOnNoCard, Answer, TeardownSession
  <2>9. CASE IccOnStart(s)
    BY <2>9 DEF IccOnStart
  <2> QED BY <1>4, <2>1, <2>2, <2>3, <2>4, <2>5, <2>6, <2>7, <2>8, <2>9 DEF ControlCommand
<1>5. ASSUME NEW s \in Seqs, XfrBlock(s) PROVE ChainInv'
  <2>1. CASE ContinueResponse(s)
    <3>1. rspChain'.len > 0 => got' = rspChain'.off
      BY <2>1, ChunkIsCounted DEF ContinueResponse
    <3> QED BY <2>1, <3>1 DEF ContinueResponse
  <2>2. CASE ContinueNothing(s)
    BY <2>2 DEF ContinueNothing, Answer
  <2>3. CASE AbortedXfr(s)
    BY <2>3 DEF AbortedXfr, Answer, DropRspChain
  <2>4. CASE XfrNoSession(s)
    BY <2>4 DEF XfrNoSession, Answer, DropRspChain
  <2>5. CASE XfrSingleInChain(s)
    BY <2>5 DEF XfrSingleInChain, Answer, DropChains
  <2>6. ASSUME NEW pay \in Payloads, XfrSingle(s, pay) PROVE ChainInv'
    BY <2>6 DEF XfrSingle, Dispatch
  <2>7. ASSUME NEW pay \in Payloads, XfrEnd(s, pay) PROVE ChainInv'
    <3>1. cmdChain # <<>> /\ acked = cmdChain /\ acked' = acked /\ pc' = "dispatch"
      BY <2>7 DEF XfrEnd, Orphan, Dispatch
    <3>2. PICK a \in Apdus : pay = <<a>>
      BY <2>7 DEF XfrEnd, Orphan, Payloads
    <3>3. cmd'.apdu = acked \o <<a>> /\ cmd'.chained
      BY <2>7, <3>1, <3>2 DEF XfrEnd, Dispatch
    <3>4. rspChain' = NoChain
      BY <2>7 DEF XfrEnd, Dispatch
    <3>5. acked' # <<>> /\ \E b \in Apdus : cmd'.apdu = acked' \o <<b>>
      BY <3>1, <3>3
    <3> HIDE DEF TypeOK
    <3> QED BY <3>1, <3>3, <3>4, <3>5
  <2>8. ASSUME NEW pay \in Payloads, NEW level \in {"begin", "middle"},
               XfrAppended(s, level, pay)
        PROVE  ChainInv'
    <3>1. acked' = cmdChain'
      BY <2>8 DEF XfrAppended, Base, Orphan, Answer
    <3>2. rspChain' = NoChain /\ pc' = "step"
      BY <2>8 DEF XfrAppended, Answer
    <3> HIDE DEF TypeOK
    <3> QED BY <3>1, <3>2
  <2>9. ASSUME NEW pay \in Payloads, NEW level \in {"begin", "middle", "end"},
               XfrNotAppended(s, level, pay)
        PROVE  ChainInv'
    BY <2>9 DEF XfrNotAppended, Answer
  <2> QED BY <1>5, <2>1, <2>2, <2>3, <2>4, <2>5, <2>6, <2>7, <2>8, <2>9 DEF XfrBlock
<1>6. CASE Heartbeat
  BY <1>6 DEF Heartbeat
<1>7. CASE PollRemoval
  <2>1. pc' = "bulk"
    BY <1>7 DEF PollRemoval
  <2>2. CASE RemovalDue
    <3>1. cmdChain' = <<>> /\ rspChain' = NoChain
      BY <1>7, <2>2 DEF PollRemoval, CompleteCardRemoval, TeardownSession
    <3> QED BY <2>1, <3>1
  <2>3. CASE ~RemovalDue
    BY <1>7, <2>1, <2>3 DEF PollRemoval
  <2> QED BY <2>2, <2>3
<1>8. CASE NoFrame
  BY <1>8 DEF NoFrame
<1>9. CASE IccOnActivated
  BY <1>9 DEF IccOnActivated
<1>10. CASE IccOnMute
  BY <1>10 DEF IccOnMute, TeardownSession
<1>11. ASSUME NEW o \in Outcomes, Dispatched(o) PROVE ChainInv'
  <2>1. pc' = "step" /\ cmdChain' = <<>>
    BY <1>11 DEF Dispatched
  <2>2. CASE CommandAborted \/ o.chunks = 1
    BY <1>11, <2>1, <2>2 DEF Dispatched
  <2>3. CASE ~CommandAborted /\ o.chunks # 1
    <3>1. PICK ok \in BOOLEAN : SendChunk([len |-> o.chunks, off |-> 0], cmd.seq, ok)
      BY <1>11, <2>3 DEF Dispatched
    <3>2. [len |-> o.chunks, off |-> 0] \in RspChains
      BY BoundsArePositive DEF Outcomes, RspChains
    <3>3. rspChain'.len > 0 => got' = rspChain'.off
      BY <3>1, <3>2, ChunkIsCounted
    <3> QED BY <2>1, <3>3
  <2> QED BY <2>2, <2>3
<1>12. CASE LoopStep
  <2>1. CASE FieldUnchanged
    BY <2>1 DEF FieldUnchanged
  <2>2. CASE TagRemoved
    <3>1. CASE Deferrable
      BY <2>2, <3>1 DEF TagRemoved, RemovedFromField
    <3>2. CASE ~Deferrable
      <4>1. cmdChain' = <<>> /\ rspChain' = NoChain /\ pc' # "dispatch"
        BY <2>2, <3>2 DEF TagRemoved, RemovedFromField, CompleteCardRemoval, TeardownSession
      <4> QED BY <4>1
    <3> QED BY <3>1, <3>2
  <2>3. CASE TagReplaced
    <3>1. CASE Deferrable
      BY <2>3, <3>1 DEF TagReplaced, RemovedFromField
    <3>2. CASE ~Deferrable
      <4>1. cmdChain' = <<>> /\ rspChain' = NoChain /\ pc' # "dispatch"
        BY <2>3, <3>2 DEF TagReplaced, RemovedFromField, CompleteCardRemoval, TeardownSession
      <4> QED BY <4>1
    <3> QED BY <3>1, <3>2
  <2>4. ASSUME NEW k \in Kinds, TagDetected(k) PROVE ChainInv'
    BY <2>4 DEF TagDetected, TeardownSession
  <2> QED BY <1>12, <2>1, <2>2, <2>3, <2>4 DEF LoopStep
<1> QED
  BY <1>1, <1>2, <1>3, <1>4, <1>5, <1>6, <1>7, <1>8, <1>9, <1>10, <1>11, <1>12, <1>13
  DEF Next, Command, Firmware

-----------------------------------------------------------------------------
(* The theorems about states *)

SafetyInv == TypeOK /\ SessionInv /\ ChainInv

(* The inductive invariant holds throughout.                               *)
LEMMA Safety == Spec => []SafetyInv
<1>1. Init => SafetyInv
  BY TypeInit, SessionInit, ChainInit DEF SafetyInv
<1>2. SafetyInv /\ [Next]_vars => SafetyInv'
  BY TypeStep, SessionStep, ChainStep DEF SafetyInv
<1> QED BY <1>1, <1>2, PTL DEF Spec

(* The flags of a session never disagree, whichever teardown path ran      *)
(* (reader_ccid_teardown_session, reader_ccid_complete_card_removal).      *)
THEOREM SessionsAreConsistent == Spec => []SessionConsistent
<1>1. SafetyInv => SessionConsistent
  BY DEF SafetyInv, SessionInv
<1> QED BY Safety, <1>1, PTL

(* No chained response or command outlives its session                     *)
(* (reader_ccid_clear_xfr_response_chain and its callers).                 *)
THEOREM ChainsEndWithSession == Spec => []ChainsBelongToSession
<1>1. SafetyInv => ChainsBelongToSession
  BY DEF SafetyInv, SessionInv
<1> QED BY Safety, <1>1, PTL

(* The time-extension callback is only bound for the command being worked  *)
(* on (reader_ccid_begin_time_extension and end_time_extension).           *)
THEOREM TimeExtensionsAreBound == Spec => []TimeExtensionBound
<1>1. SafetyInv => TimeExtensionBound
  BY DEF SafetyInv, SessionInv
<1> QED BY Safety, <1>1, PTL

(* A deferred removal is completed before the next command is taken        *)
(* (reader_ccid_poll).                                                     *)
THEOREM DeferralsAreBrief == Spec => []DeferredRemovalIsBrief
<1>1. SafetyInv => DeferredRemovalIsBrief
  BY DEF SafetyInv, SessionInv
<1> QED BY Safety, <1>1, PTL

(* Unless the last change reported was lost on its way, the host knows     *)
(* what the slot holds (reader_hal_ccid_notify_slot_change, its callers).  *)
THEOREM HostIsInformed == Spec => []HostKnowsCard
<1>1. SafetyInv => HostKnowsCard
  BY DEF SafetyInv, SessionInv
<1> QED BY Safety, <1>1, PTL

(* A prefix is what was there before one element was added. *)
LEMMA PrefixOfAppended ==
  ASSUME NEW S, NEW s \in Seq(S), s # <<>>, NEW a \in S
  PROVE  SubSeq(s \o <<a>>, 1, Len(s \o <<a>>) - 1) = s
<1>1. <<a>> \in Seq(S) /\ Len(<<a>>) = 1
  OBVIOUS
<1>2. Len(s) \in Nat \ {0} /\ Len(s \o <<a>>) = Len(s) + 1
  BY <1>1, EmptySeq, ConcatProperties
<1>3. SubSeq(s \o <<a>>, 1, Len(s)) = SubSeq(s, 1, Len(s))
  BY <1>1, <1>2, SubSeqOfConcat1
<1>4. SubSeq(s, 1, Len(s)) = s
  BY SubSeqFull
<1> QED BY <1>2, <1>3, <1>4

(* The APDU dispatched at the end of a command chain is the one the host   *)
(* sent (reader_ccid_append_xfr_command_chain).                            *)
THEOREM ChainedApdusAreWhole == Spec => []DispatchedApduIsWhole
<1>1. SafetyInv => DispatchedApduIsWhole
  <2> SUFFICES ASSUME SafetyInv, pc = "dispatch", cmd.chained
               PROVE  acked # <<>> /\ SubSeq(cmd.apdu, 1, Len(cmd.apdu) - 1) = acked
    BY DEF DispatchedApduIsWhole
  <2>1. acked \in Seq(Apdus) /\ acked # <<>>
    BY DEF SafetyInv, TypeOK, ChainInv
  <2>2. PICK a \in Apdus : cmd.apdu = acked \o <<a>>
    BY DEF SafetyInv, ChainInv
  <2> QED BY <2>1, <2>2, PrefixOfAppended
<1> QED BY Safety, <1>1, PTL

-----------------------------------------------------------------------------
(* The theorems about steps *)

(* Only the bulk ABORT of the same bSeq clears a latched abort             *)
(* (reader_hal_ccid_clear_abort_request).                                  *)
THEOREM AbortsStayLatched == Spec => AbortLatchHeld
<1>1. TypeOK /\ [Next]_vars =>
        [abort # NoSeq /\ abort' = NoSeq => out' = <<Reply("abortDone", abort)>>]_vars
  <2> SUFFICES ASSUME [Next]_vars, abort # NoSeq, abort' = NoSeq
               PROVE  out' = <<Reply("abortDone", abort)>>
    OBVIOUS
  <2>1. PICK s \in Seqs : ControlAbort(s) \/ Command(s)
    <3>1. ~UNCHANGED abort
      OBVIOUS
    <3>2. ~Tick /\ ~BusReset /\ ~Heartbeat /\ ~UNCHANGED vars
      BY <3>1 DEF Tick, BusReset, Heartbeat, vars
    <3>3. ~Firmware
      BY <3>1 DEF Firmware, PollRemoval, NoFrame, IccOnActivated, IccOnMute, Dispatched,
         LoopStep, FieldUnchanged, TagRemoved, TagReplaced, RemovedFromField, TagDetected
    <3> QED BY <3>2, <3>3 DEF Next
  <2>2. ~ControlAbort(s)
    BY SeqsHaveNone DEF ControlAbort
  <2>3. ~XfrBlock(s)
    BY DEF XfrBlock, ContinueResponse, ContinueNothing, AbortedXfr, XfrNoSession,
       XfrSingleInChain, XfrSingle, XfrEnd, Dispatch, XfrAppended, XfrNotAppended
  <2>4. Abort(s)
    BY <2>1, <2>2, <2>3 DEF Command, ControlCommand, RefuseFrame, AbortedCommand,
       SlotStatus, Params, IccOff, IccOnBadSelect, IccOnNoCard, IccOnStart
  <2> QED BY <2>4 DEF Abort, MayAbort, Answer, Send
<1> QED BY <1>1, TypeCorrect, PTL DEF Spec, AbortLatchHeld

(* An APDU aborted while it ran is answered CMD_ABORTED and nothing of its *)
(* response is kept (the second abort check of reader_ccid_handle_bulk).   *)
THEOREM AbortedApdusAreDropped == Spec => AbortedApduIsDropped
<1>1. [Next]_vars =>
        [pc = "dispatch" /\ pc' # pc /\ abort = cmd.seq =>
           out' = <<Reply("aborted", cmd.seq)>> /\ rspChain' = NoChain]_vars
  <2> SUFFICES ASSUME [Next]_vars, pc = "dispatch", pc' # pc, abort = cmd.seq
               PROVE  out' = <<Reply("aborted", cmd.seq)>> /\ rspChain' = NoChain
    OBVIOUS
  <2>1. ~UNCHANGED vars /\ ~Tick /\ ~BusReset /\ ~Heartbeat
    BY DEF vars, Tick, BusReset, Heartbeat
  <2>2. \A s \in Seqs : ~ControlAbort(s)
    BY DEF ControlAbort
  <2>3. \A s \in Seqs : ~ControlCommand(s)
    BY DEF ControlCommand, RefuseFrame, AbortedCommand, Abort, SlotStatus, Params, IccOff,
       IccOnBadSelect, IccOnNoCard, IccOnStart, Answer
  <2>4. \A s \in Seqs : ~XfrBlock(s)
    BY DEF XfrBlock, ContinueResponse, ContinueNothing, AbortedXfr, XfrNoSession,
       XfrSingleInChain, XfrSingle, XfrEnd, Dispatch, XfrAppended, XfrNotAppended, Answer
  <2>5. ~PollRemoval /\ ~NoFrame /\ ~IccOnActivated /\ ~IccOnMute /\ ~LoopStep
    BY DEF PollRemoval, NoFrame, IccOnActivated, IccOnMute, LoopStep, FieldUnchanged,
       TagRemoved, TagReplaced, TagDetected
  <2>6. PICK o \in Outcomes : Dispatched(o)
    BY <2>1, <2>2, <2>3, <2>4, <2>5 DEF Next, Command, Firmware
  <2> QED BY <2>6 DEF Dispatched, CommandAborted, Send
<1> QED BY <1>1, PTL DEF Spec, AbortedApduIsDropped

(* Only the continuation of a response sends its END. *)
EndSent(ms) == \E i \in 1..Len(ms) : ms[i].kind = "end"

(* Of the messages one step sends, only a lone one of kind END is an END.  *)
LEMMA EndIsOneMessage ==
  /\ ~EndSent(<<>>)
  /\ \A m : EndSent(<<m>>) => m.kind = "end"
  /\ \A p, q \in BOOLEAN : ~EndSent(<<SlotChange(p)>> \o <<SlotChange(q)>>)
  /\ \A p \in BOOLEAN : ~EndSent(<<SlotChange(p)>>) /\ ~EndSent(<<>> \o <<SlotChange(p)>>)
BY DEF EndSent, SlotChange

(* A host that received the END of a response has every chunk of it        *)
(* (reader_ccid_send_xfr_chain_chunk).                                     *)
THEOREM CollectedResponsesAreWhole == Spec => CollectedResponseIsWhole
<1>1. SafetyInv /\ [Next]_vars =>
        [\A i \in 1..Len(out') :
           pc' # pc /\ out'[i].kind = "end" => got' = rspChain.len]_vars
  <2> SUFFICES ASSUME SafetyInv, [Next]_vars, pc' # pc, EndSent(out')
               PROVE  got' = rspChain.len
    BY DEF EndSent
  <2> USE EndIsOneMessage DEF Send, Silent, Reply
  <2>1. ~UNCHANGED vars /\ ~Tick /\ ~BusReset /\ ~Heartbeat
    BY DEF vars, Tick, BusReset, Heartbeat
  <2>2. \A s \in Seqs : ~ControlAbort(s)
    BY DEF ControlAbort
  <2>3. \A s \in Seqs : ~ControlCommand(s)
    BY DEF ControlCommand, RefuseFrame, AbortedCommand, Abort, SlotStatus, Params, IccOff,
       IccOnBadSelect, IccOnNoCard, IccOnStart, Answer
  <2>4. ASSUME NEW s \in Seqs, XfrBlock(s) PROVE ContinueResponse(s)
    <3>1. \A pay \in Payloads : ~XfrSingle(s, pay) /\ ~XfrEnd(s, pay)
      BY DEF XfrSingle, XfrEnd, Dispatch, TimeExt
    <3>2. \A pay \in Payloads, level \in {"begin", "middle", "end"} :
            ~XfrAppended(s, level, pay) /\ ~XfrNotAppended(s, level, pay)
      BY DEF XfrAppended, XfrNotAppended, Answer
    <3>3. ~ContinueNothing(s) /\ ~AbortedXfr(s) /\ ~XfrNoSession(s) /\ ~XfrSingleInChain(s)
      BY DEF ContinueNothing, AbortedXfr, XfrNoSession, XfrSingleInChain, Answer
    <3> QED BY <2>4, <3>1, <3>2, <3>3 DEF XfrBlock
  <2>0. ~CompleteCardRemoval
    BY DEF CompleteCardRemoval
  <2>5. ~PollRemoval /\ ~NoFrame /\ ~IccOnActivated /\ ~IccOnMute
    <3>1. ~PollRemoval /\ ~NoFrame
      BY <2>0 DEF PollRemoval, NoFrame
    <3>2. ~IccOnActivated
      <4>1. IccOnActivated => out' = <<[kind |-> "atr", seq |-> cmd.seq]>>
        BY DEF IccOnActivated
      <4>2. [kind |-> "atr", seq |-> cmd.seq].kind # "end"
        OBVIOUS
      <4> QED BY <4>1, <4>2
    <3>3. ~IccOnMute
      BY DEF IccOnMute
    <3> QED BY <3>1, <3>2, <3>3
  <2>6. \A o \in Outcomes : ~Dispatched(o)
    BY DEF Dispatched, SendChunk, Deliver, ChunkLevel
  <2>7. ~LoopStep
    BY <2>0 DEF LoopStep, FieldUnchanged, TagRemoved, TagReplaced, RemovedFromField,
       TagDetected
  <2>8. PICK s \in Seqs : ContinueResponse(s)
    BY <2>1, <2>2, <2>3, <2>4, <2>5, <2>6, <2>7 DEF Next, Command, Firmware
  <2>9. PICK ok \in BOOLEAN : SendChunk(rspChain, s, ok)
    BY <2>8 DEF ContinueResponse
  <2>10. /\ ChunkLevel(rspChain.off, rspChain.len) = "end"
         /\ got' = IF rspChain.off = 0 THEN 1 ELSE got + 1
    BY <2>9 DEF SendChunk, Deliver
  <2>11. /\ rspChain.off \in Nat /\ rspChain.len \in Nat
         /\ got = rspChain.off /\ 0 < rspChain.off /\ rspChain.off < rspChain.len
    BY <2>8, BoundsArePositive
    DEF ContinueResponse, SafetyInv, TypeOK, RspChains, SessionInv, ChainsBelongToSession,
        ChainInv
  <2> QED BY <2>10, <2>11 DEF ChunkLevel
<1> QED BY <1>1, Safety, PTL DEF Spec, CollectedResponseIsWhole

(* What is reported in one step: nothing, one change, or a card that left  *)
(* and one that arrived.                                                   *)
LEMMA OneChangeAlternates ==
  /\ \A b \in BOOLEAN : Alternates(<<>>, b, b)
  /\ \A b \in BOOLEAN, m \in Messages :
       m.kind \notin {"arrived", "left"} => Alternates(<<m>>, b, b)
  /\ \A p \in BOOLEAN : /\ Alternates(<<SlotChange(p)>>, ~p, p)
                         /\ Changes(<<SlotChange(p)>>) # {}
<1>1. \A m : /\ DOMAIN <<m>> = {1} /\ <<m>>[1] = m
             /\ Changes(<<m>>) = IF m.kind \in {"arrived", "left"} THEN {1} ELSE {}
  <2>1. \A m : DOMAIN <<m>> = {1} /\ <<m>>[1] = m
    OBVIOUS
  <2> QED BY <2>1 DEF Changes
<1>2. Changes(<<>>) = {}
  BY DEF Changes
<1>3. \A p \in BOOLEAN : /\ SlotChange(p).kind \in {"arrived", "left"}
                         /\ SlotChange(p).kind = "arrived" <=> p
  BY ChangeKinds
<1>4. \A p \in BOOLEAN : /\ Alternates(<<SlotChange(p)>>, ~p, p)
                         /\ Changes(<<SlotChange(p)>>) # {}
  <2> TAKE p \in BOOLEAN
  <2>1. Changes(<<SlotChange(p)>>) = {1} /\ <<SlotChange(p)>>[1] = SlotChange(p)
    BY <1>1, <1>3
  <2>2. /\ (<<SlotChange(p)>>[1].kind = "arrived") # ~p
        /\ (<<SlotChange(p)>>[1].kind = "arrived") = p
    BY <2>1, <1>3
  <2> QED BY <2>1, <2>2 DEF Alternates
<1>5. \A b \in BOOLEAN, m \in Messages :
       m.kind \notin {"arrived", "left"} => Alternates(<<m>>, b, b)
  BY <1>1 DEF Alternates
<1> QED BY <1>2, <1>4, <1>5 DEF Alternates

(* A swap within one probe is reported as a departure and an arrival.      *)
LEMMA SwapAlternates ==
  LET swap == <<SlotChange(FALSE)>> \o <<SlotChange(TRUE)>>
  IN  Alternates(swap, TRUE, TRUE) /\ Changes(swap) # {}
<1> DEFINE swap == <<SlotChange(FALSE)>> \o <<SlotChange(TRUE)>>
<1>1. DOMAIN swap = {1, 2} /\ swap[1] = SlotChange(FALSE) /\ swap[2] = SlotChange(TRUE)
  <2>1. \A m, n \in Messages :
          /\ <<m>> \o <<n>> \in Seq(Messages) /\ Len(<<m>> \o <<n>>) = 2
          /\ (<<m>> \o <<n>>)[1] = m /\ (<<m>> \o <<n>>)[2] = n
    <3> TAKE m, n \in Messages
    <3>1. /\ <<m>> \in Seq(Messages) /\ Len(<<m>>) = 1 /\ <<m>>[1] = m
          /\ <<n>> \in Seq(Messages) /\ Len(<<n>>) = 1 /\ <<n>>[1] = n
      OBVIOUS
    <3> QED BY <3>1, ConcatProperties
  <2>2. swap \in Seq(Messages) /\ Len(swap) = 2
    BY <2>1, MessageTypes
  <2>3. swap[1] = SlotChange(FALSE) /\ swap[2] = SlotChange(TRUE)
    BY <2>1, MessageTypes
  <2>4. DOMAIN swap = 1..Len(swap)
    BY <2>2
  <2> HIDE DEF swap
  <2> QED BY <2>2, <2>3, <2>4
<1>2. SlotChange(FALSE).kind = "left" /\ SlotChange(TRUE).kind = "arrived"
  BY ChangeKinds
<1>3. Changes(swap) = {1, 2} /\ swap[1].kind # "arrived" /\ swap[2].kind = "arrived"
  BY <1>1, <1>2 DEF Changes
<1> HIDE DEF swap
<1>4. Alternates(swap, TRUE, TRUE) /\ Changes(swap) # {}
  <2> SUFFICES ASSUME NEW i \in {1, 2}
               PROVE  /\ (\A j \in {1, 2} : i <= j) => (swap[i].kind = "arrived") # TRUE
                      /\ (\A j \in {1, 2} : j <= i) => (swap[i].kind = "arrived") = TRUE
                      /\ \A j \in {1, 2} :
                           i < j => (swap[i].kind = "arrived") # (swap[j].kind = "arrived")
    BY <1>3 DEF Alternates
  <2>1. CASE i = 1
    <3>1. (swap[i].kind = "arrived") # TRUE
      BY <2>1, <1>3
    <3>2. ASSUME NEW j \in {1, 2}, i < j
          PROVE  (swap[i].kind = "arrived") # (swap[j].kind = "arrived")
      <4>1. j = 2
        BY <2>1, <3>2
      <4> QED BY <4>1, <2>1, <1>3
    <3>3. ~(2 <= i) /\ 2 \in {1, 2}
      BY <2>1
    <3> QED BY <3>1, <3>2, <3>3
  <2>2. CASE i = 2
    <3>1. ~(i <= 1) /\ 1 \in {1, 2}
      BY <2>2
    <3>2. \A j \in {1, 2} : ~(i < j)
      BY <2>2
    <3>3. (swap[i].kind = "arrived") = TRUE
      BY <2>2, <1>3
    <3> QED BY <3>1, <3>2, <3>3
  <2> QED BY <2>1, <2>2
<1> QED BY <1>4 DEF swap

(* Arrivals and departures are reported in turn and as they happen, and no *)
(* card of another kind is in the slot without a report that the old left  *)
(* (reader_ccid_on_tag_detected, reader_ccid_complete_card_removal).       *)
THEOREM SlotChangesDoAlternate == Spec => SlotChangesAlternate
<1> DEFINE InTurn == Alternates(out', cardPresent, cardPresent')
           Same   == cardPresent' = cardPresent /\ tagKind' = tagKind
           Told   == InTurn /\ (tagKind' # tagKind => Changes(out') # {})
<1>1. SafetyInv /\ [Next]_vars => [pc' # pc => Told]_vars
  <2> SUFFICES ASSUME SafetyInv, [Next]_vars, pc' # pc
               PROVE  Told
    OBVIOUS
  <2>1. cardPresent \in BOOLEAN /\ (cardPresent <=> tagKind # NoTag)
    BY DEF SafetyInv, TypeOK, SessionInv, SessionConsistent
  <2>2. Silent /\ Same => Told
    BY <2>1, OneChangeAlternates DEF Silent
  <2>3. ASSUME NEW k \in ReplyKinds, NEW s \in Seqs \cup {NoSeq}, out' = <<Reply(k, s)>>,
               Same
        PROVE  Told
    <3>1. Reply(k, s) \in Messages /\ Reply(k, s).kind \notin {"arrived", "left"}
      BY DEF Reply, Messages, ReplyKinds
    <3> QED BY <2>1, <2>3, <3>1, OneChangeAlternates
  <2>4. ASSUME NEW s \in Seqs, out' = <<TimeExt(s)>>, Same PROVE Told
    <3>1. TimeExt(s) \in Messages /\ TimeExt(s).kind \notin {"arrived", "left"}
      BY DEF TimeExt, Messages
    <3> QED BY <2>1, <2>4, <3>1, OneChangeAlternates
  <2>5. CompleteCardRemoval => Told
    <3> SUFFICES ASSUME CompleteCardRemoval PROVE Told
      OBVIOUS
    <3>1. CASE cardPresent
      <4>1. out' = <<SlotChange(FALSE)>> /\ cardPresent = ~FALSE /\ cardPresent' = FALSE
        BY <3>1, <2>1 DEF CompleteCardRemoval, Send
      <4> QED BY <4>1, OneChangeAlternates
    <3>2. CASE ~cardPresent
      BY <3>2, <2>1, <2>2 DEF CompleteCardRemoval
    <3> QED BY <3>1, <3>2
  <2> HIDE DEF Told
  <2>7. ASSUME NEW k \in ReplyKinds, NEW s \in Seqs, Answer(k, s) PROVE Told
    BY <2>7, <2>3 DEF Answer, Send
  <2>10. ~UNCHANGED vars /\ ~Tick /\ ~BusReset /\ ~Heartbeat
    BY DEF vars, Tick, BusReset, Heartbeat
  <2>11. \A s \in Seqs : ~ControlAbort(s)
    BY DEF ControlAbort
  <2>12. ASSUME NEW s \in Seqs, ControlCommand(s) PROVE Told
    <3>1. CASE IccOnStart(s)
      BY <3>1, <2>2 DEF IccOnStart, card
    <3>2. CASE ~IccOnStart(s)
      <4>1. \E k \in {"ok", "failed", "mute", "aborted", "abortDone"} : Answer(k, s)
        BY <2>12, <3>2
        DEF ControlCommand, RefuseFrame, AbortedCommand, Abort, SlotStatus, Params, IccOff,
            IccOnBadSelect, IccOnNoCard
      <4> QED BY <4>1, <2>7 DEF ReplyKinds
    <3> QED BY <3>1, <3>2
  <2>13. ASSUME NEW chain \in RspChains, NEW s \in Seqs \cup {NoSeq}, NEW ok \in BOOLEAN,
               SendChunk(chain, s, ok), Same
         PROVE  Told
    <3>1. ChunkLevel(chain.off, chain.len) \in ReplyKinds
      BY DEF ChunkLevel, ReplyKinds
    <3>2. Silent \/ out' = <<Reply(ChunkLevel(chain.off, chain.len), s)>>
      BY <2>13 DEF SendChunk, Deliver, Send, Silent
    <3> QED BY <3>1, <3>2, <2>2, <2>3, <2>13
  <2>14. ASSUME NEW s \in Seqs, NEW apdu, NEW chained, Dispatch(s, apdu, chained) PROVE Told
    <3>1. Silent \/ out' = <<TimeExt(s)>>
      BY <2>14 DEF Dispatch, Send, Silent
    <3>2. Same
      BY <2>14 DEF Dispatch, card
    <3> QED BY <3>1, <3>2, <2>2, <2>4
  <2>15. ASSUME NEW s \in Seqs, XfrBlock(s) PROVE Told
    <3>1. CASE ContinueResponse(s)
      <4>1. PICK ok \in BOOLEAN : SendChunk(rspChain, s, ok)
        BY <3>1 DEF ContinueResponse
      <4>2. rspChain \in RspChains /\ Same
        BY <3>1 DEF ContinueResponse, card, SafetyInv, TypeOK
      <4> QED BY <4>1, <4>2, <2>13
    <3>2. ASSUME NEW pay \in Payloads, XfrSingle(s, pay) \/ XfrEnd(s, pay) PROVE Told
      BY <3>2, <2>14 DEF XfrSingle, XfrEnd
    <3>3. ASSUME NEW pay \in Payloads, NEW level,
                 XfrAppended(s, level, pay) \/ XfrNotAppended(s, level, pay)
          PROVE  Told
      BY <3>3, <2>7 DEF XfrAppended, XfrNotAppended, ReplyKinds
    <3>4. CASE ContinueNothing(s) \/ AbortedXfr(s) \/ XfrNoSession(s) \/ XfrSingleInChain(s)
      BY <3>4, <2>7
      DEF ContinueNothing, AbortedXfr, XfrNoSession, XfrSingleInChain, ReplyKinds
    <3> QED BY <2>15, <3>1, <3>2, <3>3, <3>4 DEF XfrBlock
  <2>16. CASE PollRemoval
    <3>1. CASE RemovalDue
      BY <2>16, <3>1, <2>5 DEF PollRemoval
    <3>2. CASE ~RemovalDue
      BY <2>16, <3>2, <2>2 DEF PollRemoval, card
    <3> QED BY <3>1, <3>2
  <2>17. CASE NoFrame \/ FieldUnchanged
    BY <2>17, <2>2 DEF NoFrame, FieldUnchanged, card
  <2>18. cmd.seq \in Seqs \cup {NoSeq}
    BY DEF SafetyInv, TypeOK, Commands
  <2>19. CASE IccOnActivated
    <3>1. out' = <<Reply("atr", cmd.seq)>> /\ Same
      BY <2>19 DEF IccOnActivated, Send
    <3> QED BY <3>1, <2>3, <2>18 DEF ReplyKinds
  <2>20. CASE IccOnMute
    <3>1. out' = <<Reply("mute", cmd.seq)>> /\ Same
      BY <2>20 DEF IccOnMute, Send, card
    <3> QED BY <3>1, <2>3, <2>18 DEF ReplyKinds
  <2>21. ASSUME NEW o \in Outcomes, Dispatched(o) PROVE Told
    <3>1. Same
      BY <2>21 DEF Dispatched
    <3>2. CASE out' = <<Reply("aborted", cmd.seq)>> \/ out' = <<Reply("single", cmd.seq)>>
      BY <3>1, <3>2, <2>3, <2>18 DEF ReplyKinds
    <3>3. CASE \E ok \in BOOLEAN : SendChunk([len |-> o.chunks, off |-> 0], cmd.seq, ok)
      <4>1. [len |-> o.chunks, off |-> 0] \in RspChains
        BY BoundsArePositive DEF RspChains, Outcomes
      <4> QED BY <3>1, <3>3, <4>1, <2>13, <2>18
    <3> QED BY <2>21, <3>2, <3>3 DEF Dispatched, Send
  <2>22. CASE TagRemoved \/ TagReplaced
    <3>1. RemovedFromField
      BY <2>22 DEF TagRemoved, TagReplaced
    <3>2. CASE Deferrable
      BY <3>1, <3>2, <2>2 DEF RemovedFromField
    <3>3. CASE ~Deferrable
      BY <3>1, <3>3, <2>5 DEF RemovedFromField
    <3> QED BY <3>2, <3>3
  <2>23. ASSUME NEW k \in Kinds, TagDetected(k) PROVE Told
    <3>1. LeftUnnoticed <=> cardPresent
      BY <2>23 DEF TagDetected, LeftUnnoticed, SafetyInv, TypeOK, SessionInv, LoopPlace
    <3>2. CASE cardPresent
      <4>1. /\ out' = <<SlotChange(FALSE)>> \o <<SlotChange(TRUE)>>
            /\ cardPresent = TRUE /\ cardPresent' = TRUE
        BY <2>23, <3>1, <3>2, <2>1 DEF TagDetected, Send
      <4> QED BY <4>1, SwapAlternates DEF Told
    <3>3. CASE ~cardPresent
      <4>1. /\ out' = <<>> \o <<SlotChange(TRUE)>>
            /\ cardPresent = ~TRUE /\ cardPresent' = TRUE
        BY <2>23, <3>1, <3>3, <2>1 DEF TagDetected, Send
      <4>2. out' = <<SlotChange(TRUE)>>
        BY <4>1
      <4> QED BY <4>1, <4>2, OneChangeAlternates DEF Told
    <3> QED BY <2>1, <3>2, <3>3
  <2> QED
    BY <2>10, <2>11, <2>12, <2>15, <2>16, <2>17, <2>19, <2>20, <2>21, <2>22, <2>23
    DEF Next, Command, Firmware, LoopStep
<1> QED BY <1>1, Safety, PTL DEF Spec, SlotChangesAlternate

-----------------------------------------------------------------------------
(* Refinement *)

(* A step that changes neither card nor session does not move the slot. *)
LEMMA SlotStutters ==
  UNCHANGED <<cardPresent, tagKind, removeDeferred, sess, fidoApp>> => UNCHANGED Slot!slotVars
BY DEF Slot!slotVars, slotState, slotKind

(* Closing the session powers the slot off, or leaves it as it was. *)
LEMMA TeardownPowersOff ==
  /\ SafetyInv
  /\ sess' = FALSE /\ fidoApp' = FALSE
  /\ UNCHANGED <<cardPresent, tagKind, removeDeferred>>
  => [Slot!SlotNext]_(Slot!slotVars)
<1> SUFFICES ASSUME SafetyInv, sess' = FALSE, fidoApp' = FALSE,
                    UNCHANGED <<cardPresent, tagKind, removeDeferred>>
             PROVE  [Slot!SlotNext]_(Slot!slotVars)
  OBVIOUS
<1>1. CASE sess
  BY <1>1 DEF SafetyInv, TypeOK, SessionInv, SessionConsistent, DeferredRemovalIsBrief,
     Slot!SlotNext, Slot!PowerOff, slotState, slotKind
<1>2. CASE ~sess
  BY <1>2 DEF SafetyInv, TypeOK, SessionInv, SessionConsistent,
     Slot!slotVars, slotState, slotKind
<1> QED BY <1>1, <1>2

(* Emptying the slot removes the card the host could see, if there is one. *)
LEMMA VacatingRemoves == SafetyInv /\ Vacant' => [Slot!SlotNext]_(Slot!slotVars)
<1> SUFFICES ASSUME SafetyInv, Vacant'
             PROVE  [Slot!SlotNext]_(Slot!slotVars)
  OBVIOUS
<1>1. slotState' = "absent" /\ slotKind' = NoTag /\ fidoApp' = FALSE
  BY DEF Vacant, Closed, slotState, slotKind
<1>2. CASE slotState = "absent"
  <2>1. slotKind = NoTag /\ fidoApp = FALSE
    BY <1>2 DEF SafetyInv, TypeOK, SessionInv, SessionConsistent, DeferredRemovalIsBrief,
       slotState, slotKind
  <2> QED BY <1>1, <1>2, <2>1 DEF Slot!slotVars
<1>3. CASE slotState # "absent"
  BY <1>1, <1>3 DEF Slot!SlotNext, Slot!Remove
<1> QED BY <1>2, <1>3

(* Every step of the reader is a step of the slot, or none. *)
LEMMA SlotStep == SafetyInv /\ [Next]_vars => [Slot!SlotNext]_(Slot!slotVars)
<1> SUFFICES ASSUME SafetyInv, [Next]_vars
             PROVE  [Slot!SlotNext]_(Slot!slotVars)
  OBVIOUS
<1> DEFINE Goal == [Slot!SlotNext]_(Slot!slotVars)
<1> HIDE DEF Goal
<1>0. Goal => [Slot!SlotNext]_(Slot!slotVars)
  BY DEF Goal
<1> USE SlotStutters, TeardownPowersOff, VacatingRemoves DEF link, card, chains, vars
<1>1. CASE UNCHANGED vars
  BY <1>1 DEF Goal
<1>2. CASE Tick \/ BusReset \/ Heartbeat \/ NoFrame
  BY <1>2 DEF Goal, Tick, BusReset, Heartbeat, NoFrame
<1>3. ASSUME NEW s \in Seqs, ControlAbort(s) PROVE Goal
  BY <1>3 DEF Goal, ControlAbort
<1>4. ASSUME NEW s \in Seqs, ControlCommand(s) PROVE Goal
  <2>1. CASE RefuseFrame(s) \/ AbortedCommand(s) \/ Abort(s) \/ SlotStatus(s) \/ IccOnBadSelect(s)
    BY <2>1 DEF Goal, RefuseFrame, AbortedCommand, Abort, SlotStatus, IccOnBadSelect, Answer
  <2>2. CASE Params(s)
    <3>1. removeDeferred' = removeDeferred
      BY <2>2 DEF Params, Answer, NoteActivity, SafetyInv, TypeOK, SessionInv,
         DeferredRemovalIsBrief
    <3> QED BY <2>2, <3>1 DEF Goal, Params, Answer
  <2>3. CASE IccOff(s)
    BY <2>3 DEF Goal, IccOff, Answer, TeardownSession, DropLink
  <2>4. CASE IccOnNoCard(s)
    BY <2>4 DEF Goal, IccOnNoCard, Answer, TeardownSession, DropLink
  <2>5. CASE IccOnStart(s)
    BY <2>5 DEF Goal, IccOnStart, DropLink
  <2> QED BY <1>4, <2>1, <2>2, <2>3, <2>4, <2>5 DEF ControlCommand
<1>5. ASSUME NEW s \in Seqs, XfrBlock(s) PROVE Goal
  <2>1. UNCHANGED <<cardPresent, tagKind, removeDeferred, sess, fidoApp>>
    BY <1>5 DEF XfrBlock, ContinueResponse, ContinueNothing, AbortedXfr, XfrNoSession,
       XfrSingleInChain, XfrSingle, XfrEnd, Dispatch, XfrAppended, XfrNotAppended, Answer
  <2> QED BY <2>1 DEF Goal
<1>6. CASE PollRemoval
  <2>1. CASE RemovalDue
    BY <1>6, <2>1, RemovalVacates DEF Goal, PollRemoval, SafetyInv, SessionInv
  <2>2. CASE ~RemovalDue
    BY <1>6, <2>2 DEF Goal, PollRemoval
  <2> QED BY <2>1, <2>2
<1>7. CASE IccOnActivated
  <2>1. slotState = "inactive" /\ slotState' = "active"
    BY <1>7 DEF IccOnActivated, NoteActivity, SafetyInv, TypeOK, SessionInv, LoopPlace,
       DeferredRemovalIsBrief, slotState
  <2>2. slotKind' = slotKind /\ fidoApp' = FALSE
    BY <1>7 DEF IccOnActivated, NoteActivity, SafetyInv, TypeOK, SessionInv,
       DeferredRemovalIsBrief, slotKind
  <2> QED BY <2>1, <2>2 DEF Goal, Slot!SlotNext, Slot!PowerOn
<1>8. CASE IccOnMute
  BY <1>8 DEF Goal, IccOnMute, TeardownSession, DropLink
<1>9. ASSUME NEW o \in Outcomes, Dispatched(o) PROVE Goal
  <2>1. sess /\ removeDeferred = FALSE /\ removeDeferred' = FALSE /\ cardPresent
    BY <1>9 DEF Dispatched, NoteActivity, SafetyInv, TypeOK, SessionInv, LoopPlace,
       SessionConsistent, DeferredRemovalIsBrief
  <2>2. UNCHANGED <<cardPresent, tagKind, sess>>
    BY <1>9 DEF Dispatched
  <2>3. CASE o.selected
    <3>1. tagKind = Type4 /\ fidoApp' = TRUE
      BY <1>9, <2>3 DEF Dispatched, Outcomes
    <3> QED BY <2>1, <2>2, <3>1 DEF Goal, Slot!SlotNext, Slot!SelectFido, slotState, slotKind
  <2>4. CASE ~o.selected
    <3>1. fidoApp' = fidoApp
      BY <1>9, <2>4 DEF Dispatched, SafetyInv, TypeOK
    <3> QED BY <2>1, <2>2, <3>1 DEF Goal
  <2> QED BY <2>3, <2>4
<1>10. CASE FieldUnchanged
  BY <1>10 DEF Goal, FieldUnchanged
<1>11. CASE TagRemoved \/ TagReplaced
  <2>1. RemovedFromField /\ cardPresent /\ pc = "step"
    BY <1>11 DEF TagRemoved, TagReplaced
  <2>2. CASE Deferrable
    <3>1. slotState = "inactive" /\ slotState' = "absent" /\ slotKind' = NoTag
      BY <2>1, <2>2 DEF RemovedFromField, Deferrable, SafetyInv, TypeOK, SessionInv,
         DeferredRemovalIsBrief, slotState, slotKind
    <3>2. fidoApp' = FALSE
      BY <2>1, <2>2 DEF RemovedFromField, Deferrable, SafetyInv, TypeOK, SessionInv,
         SessionConsistent
    <3> QED BY <3>1, <3>2 DEF Goal, Slot!SlotNext, Slot!Remove
  <2>3. CASE ~Deferrable
    BY <2>1, <2>3, RemovalVacates DEF Goal, RemovedFromField, SafetyInv, SessionInv
  <2> QED BY <2>2, <2>3
<1>12. ASSUME NEW k \in Kinds, TagDetected(k) PROVE Goal
  <2>1. slotState = "absent"
    BY <1>12 DEF TagDetected, SafetyInv, TypeOK, SessionInv, LoopPlace, slotState
  <2>2. sess' = FALSE /\ fidoApp' = FALSE
    BY <1>12 DEF TagDetected, TeardownSession, DropLink, SafetyInv, TypeOK, SessionInv,
       SessionConsistent, LoopPlace
  <2>3. slotState' = "inactive" /\ slotKind' = k
    BY <1>12, <2>2 DEF TagDetected, slotState, slotKind
  <2> QED BY <2>1, <2>2, <2>3 DEF Goal, Slot!SlotNext, Slot!Insert
<1> QED
  BY <1>0, <1>1, <1>2, <1>3, <1>4, <1>5, <1>6, <1>7, <1>8, <1>9, <1>10, <1>11, <1>12
  DEF Next, Command, Firmware, LoopStep

(* The reader keeps the promises of a CCID slot: cards are inserted only   *)
(* into an absent slot, and neither a session nor the FIDO application     *)
(* survives its card (CcidSlot).                                           *)
THEOREM ReaderImplementsSlot == Spec => ImplementsSlot
<1>1. Init => Slot!SlotInit
  BY DEF Init, Slot!SlotInit, slotState, slotKind
<1> QED BY <1>1, SlotStep, Safety, PTL DEF Spec, ImplementsSlot, Slot!SlotSpec

=============================================================================
