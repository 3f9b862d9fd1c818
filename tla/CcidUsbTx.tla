------------------------------ MODULE CcidUsbTx ------------------------------
(***************************************************************************)
(* How a CCID message gets from the reader to the host: the loop of        *)
(* reader_hal_ccid_send over the packets of one message, each claimed,     *)
(* queued and waited for until a deadline, and the host's bulk-IN reads,   *)
(* which end at a packet that is not full.                                 *)
(*                                                                         *)
(* The host reads when it likes; tud_task, and with it a bus reset, runs   *)
(* while the loop waits.  Time is left out: a deadline may pass whenever   *)
(* the code looks at it.                                                   *)
(*                                                                         *)
(* A definition named X_... that nothing refers to (NeedsZlp_Never) is X   *)
(* with a plausible mistake: in the place of X it must make the property   *)
(* fail that PROJECT.json lists with it.                                   *)
(***************************************************************************)
EXTENDS CcidUsb

CONSTANTS
  MessageSizes,  \* lengths of the messages the reader sends
  None           \* no message, no packet, bytes of no one message

Messages == [id : Ids, size : MessageSizes]

ASSUME PacketsHoldSomething == EP \in Nat /\ EP > 0 /\ MessageSizes \subseteq Nat \ {0}
ASSUME NoneIsNoMessage == None \notin Messages

VARIABLES
  msg,     \* the message being sent
  off,     \* bytes of it in packets already waited for
  ending,  \* its zero-length packet is being sent
  phase,   \* "idle", "claim" or "wait" (ccid_send_one_chunk)
  queued,  \* the packet the endpoint holds for the host: [of, from, len]
  read,    \* what the host's read has collected so far: [of, from, len]
  fault    \* history: a send failed, or lost its bus, since the host last
           \* completed a read

sender == <<msg, off, ending, phase>>
txVars == <<isOpen, sender, queued, read, fault>>

Nothing  == [of |-> None, from |-> 0, len |-> 0]
Pieces   == [of |-> None, from |-> 0, len |-> 1]    \* of several messages
NoPacket == [of |-> None, from |-> 0, len |-> EP + 1]

-----------------------------------------------------------------------------
ChunkLen == IF msg.size - off < EP THEN msg.size - off ELSE EP

(* ccid_usb_bulk_in_needs_zlp *)
NeedsZlp_Never(m) == FALSE
NeedsZlp(m) == m.size % EP = 0

Done_KeepsMessage ==
  /\ off' = 0 /\ ending' = FALSE /\ phase' = "idle" /\ UNCHANGED msg
Done == /\ msg' = None /\ off' = 0 /\ ending' = FALSE /\ phase' = "idle"

(* reader_hal_ccid_send, which refuses when no endpoint is open *)
Send(m) ==
  /\ phase = "idle" /\ isOpen
  /\ msg' = m /\ off' = 0 /\ ending' = FALSE /\ phase' = "claim"
  /\ UNCHANGED <<isOpen, queued, read, fault>>

(* The endpoint is claimed when it holds no packet.  After a bus reset the *)
(* loop goes on with endpoint number 0: the packet goes to the control     *)
(* endpoint, where the host does not look for it.                          *)
Claimable == queued = NoPacket
QueueChunk ==
  /\ phase = "claim" /\ Claimable
  /\ queued' = IF ~isOpen THEN queued
               ELSE IF ending THEN [of |-> msg, from |-> off, len |-> 0]
               ELSE [of |-> msg, from |-> off, len |-> ChunkLen]
  /\ phase' = "wait"
  /\ UNCHANGED <<isOpen, msg, off, ending, read, fault>>

Freed_AtOnce == TRUE
Freed == queued = NoPacket

(* The endpoint is free again: on to the next packet, to the zero-length   *)
(* packet, or to the end                                                   *)
ChunkRead ==
  /\ phase = "wait" /\ Freed
  /\ IF ending THEN Done
     ELSE IF off + ChunkLen < msg.size
     THEN /\ off' = off + ChunkLen /\ phase' = "claim"
          /\ UNCHANGED <<msg, ending>>
     ELSE IF NeedsZlp(msg)
     THEN /\ off' = off + ChunkLen /\ phase' = "claim" /\ ending' = TRUE
          /\ UNCHANGED msg
     ELSE Done
  /\ UNCHANGED <<isOpen, queued, read, fault>>

(* The deadline passes: the send fails and leaves what it queued *)
Timeout ==
  /\ phase # "idle"
  /\ Done
  /\ fault' = TRUE
  /\ UNCHANGED <<isOpen, queued, read>>

-----------------------------------------------------------------------------
(* The host *)

Joined(r, p) ==
  IF r = Nothing THEN p
  ELSE IF r.of = p.of /\ r.from + r.len = p.from THEN [r EXCEPT !.len = @ + p.len]
  ELSE Pieces

Completes == queued # NoPacket /\ queued.len < EP

HostReads ==
  /\ queued # NoPacket
  /\ queued' = NoPacket
  /\ read' = IF Completes THEN Nothing ELSE Joined(read, queued)
  /\ fault' = (fault /\ ~Completes)
  /\ UNCHANGED <<isOpen, sender>>

(* The host's read and the packet in the endpoint die with the bus; the    *)
(* send goes on                                                            *)
TxBusReset ==
  /\ isOpen
  /\ isOpen' = FALSE /\ queued' = NoPacket /\ read' = Nothing
  /\ fault' = (phase # "idle")
  /\ UNCHANGED sender

TxOpen == ~isOpen /\ isOpen' = TRUE /\ UNCHANGED <<sender, queued, read, fault>>

TxInit == /\ isOpen = FALSE
          /\ msg = None /\ off = 0 /\ ending = FALSE /\ phase = "idle"
          /\ queued = NoPacket /\ read = Nothing /\ fault = FALSE

Sender == QueueChunk \/ ChunkRead \/ Timeout

TxNext == \/ \E m \in Messages : Send(m)
          \/ Sender
          \/ HostReads \/ TxBusReset \/ TxOpen

TxSpec == TxInit /\ [][TxNext]_txVars

-----------------------------------------------------------------------------
(* Properties *)

TxSlices == [of : Messages \cup {None}, from : Nat, len : Nat]

(* Every variable has its type, and the sender never runs past its message *)
TxTypeOK ==
  /\ isOpen \in BOOLEAN
  /\ phase \in {"idle", "claim", "wait"}
  /\ msg \in Messages \cup {None} /\ (msg = None <=> phase = "idle")
  /\ off \in Nat /\ (msg # None => off <= msg.size)
  /\ ending \in BOOLEAN
  /\ queued \in TxSlices /\ (queued = NoPacket \/ queued.len <= EP)
  /\ read \in TxSlices
  /\ fault \in BOOLEAN

Whole(r) == r.of # None /\ r.from = 0 /\ r.len = r.of.size

(* A read the host completes is one message, from its first byte to its    *)
(* last, or the one read that a failed send has spoilt: a message that was *)
(* given up half-way never spoils more than the next one                   *)
(* (ccid_usb_bulk_in_needs_zlp, ccid_send_one_chunk).                      *)
CompletedReadsAreMessages ==
  [][HostReads /\ Completes /\ ~fault => Whole(Joined(read, queued))]_txVars

(* When a send succeeds the host has all of it and its read is over: no    *)
(* byte is left behind to begin the next one, whatever went wrong earlier  *)
(* (reader_hal_ccid_send).                                                 *)
SuccessLeavesNothing ==
  [][ChunkRead /\ phase' = "idle" /\ isOpen => read = Nothing /\ queued = NoPacket]_txVars

=============================================================================
