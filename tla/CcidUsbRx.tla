------------------------------ MODULE CcidUsbRx ------------------------------
(***************************************************************************)
(* How a CCID command gets from the host to the dispatcher: the bulk-OUT   *)
(* endpoint, the reassembly of packets into a frame, the one frame buffer, *)
(* and its hand-over to reader_ccid_poll.                                  *)
(*                                                                         *)
(* A command is one bulk transfer: full packets, ended by a short packet,  *)
(* by a zero-length packet (zlp), or, when its size is a multiple of the   *)
(* packet size, by nothing at all.  The device is to find the end from the *)
(* length the frame declares, and must cope with a host that declares one  *)
(* length and sends another, gives up half-way, or resets the bus.         *)
(*                                                                         *)
(* The callbacks run inside tud_task, never during reader_ccid_poll's      *)
(* peek, copy and release: each is one step.                               *)
(*                                                                         *)
(* A definition named X_... that nothing refers to (Truncated_Waits) is X  *)
(* with a plausible mistake: in the place of X it must make the property   *)
(* fail that PROJECT.json lists with it.                                   *)
(***************************************************************************)
EXTENDS CcidUsb

CONSTANTS
  Header,      \* NFC_CCID_BULK_HEADER_LEN
  MaxPayload,  \* NFC_CCID_MAX_XFR_PAYLOAD
  Sizes,       \* bytes the host may send in a transfer
  Lengths,     \* values of dwLength
  Idle,        \* no transfer
  Mixed        \* bytes of more than one transfer, or not in their order

Cap == Header + MaxPayload    \* NERO_CCID_DESC_MAX_MESSAGE_LENGTH

ASSUME SizesOfEndpoint == /\ EP \in Nat /\ Header \in Nat /\ MaxPayload \in Nat
                          /\ 0 < Header /\ Header <= EP /\ EP <= Cap
ASSUME HostSizes       == Sizes \subseteq Nat /\ Lengths \subseteq Nat

(* What a host may send: the dwLength in the header, the bytes sent, and   *)
(* whether a zero-length packet ends a transfer of full packets            *)
Transfers ==
  {m \in [id : Ids, declared : Lengths, size : Sizes, zlp : BOOLEAN] :
     /\ m.zlp => m.size % EP = 0
     /\ m.size = 0 => m.zlp}

ASSUME NotTransfers == Idle # Mixed /\ {Idle, Mixed} \cap Transfers = {}

VARIABLES
  cur,      \* the transfer the host is sending
  sent,     \* bytes of it the device has taken
  busy,     \* s_bulk_out_busy: a packet may arrive
  asm,      \* s_rx_assembly
  pending,  \* s_rx_pending
  storeLen, \* s_rx_store_len
  lost,     \* history: the host left a transfer no device can see the end of
  doubt,    \* history: the pending frame was assembled while lost
  yield     \* history: frames queued since the transfer began

host == <<cur, sent>>
rx   == <<asm, pending, storeLen, doubt, yield>>
vars == <<host, isOpen, busy, rx, lost>>

-----------------------------------------------------------------------------
(* The assembly.  Its data is a slice of a transfer: from is the offset of *)
(* its first byte there, decl what its first bytes read as dwLength.       *)

Empty == [len |-> 0, expected |-> 0, discarding |-> FALSE,
          of |-> Idle, from |-> 0, decl |-> 0]

Copied(a, p) ==
  [a EXCEPT !.len  = @ + p.len,
            !.of   = IF a.len = 0 \/ (a.of = p.of /\ a.from + a.len = p.off)
                     THEN p.of ELSE Mixed,
            !.from = IF a.len = 0 THEN p.off ELSE @,
            !.decl = IF a.len = 0 THEN p.reads ELSE @]

(* The declared length is read once the header is there *)
Oversized(a)  == a.expected = 0 /\ a.len >= Header /\ a.decl > MaxPayload
Expecting(a)  == [a EXCEPT !.expected = IF @ = 0 /\ a.len >= Header
                                        THEN Header + a.decl ELSE @]

(* malformed_result *)
Malformed_Dropped(a, plen) ==
  IF a.len < Header \/ plen < EP THEN [result |-> "dropped", asm |-> Empty]
  ELSE [result |-> "more", asm |-> [a EXCEPT !.discarding = TRUE]]
Malformed_NeverEnds(a, plen) ==
  IF a.len < Header THEN [result |-> "dropped", asm |-> Empty]
  ELSE [result |-> "more", asm |-> [a EXCEPT !.discarding = TRUE]]
Malformed(a, plen) ==
  IF a.len < Header THEN [result |-> "dropped", asm |-> Empty]
  ELSE IF plen < EP THEN [result |-> "ready", asm |-> a]
  ELSE [result |-> "more", asm |-> [a EXCEPT !.discarding = TRUE]]

Overflows_Never(a, p) == FALSE
Overflows(a, p) == a.len + p.len > Cap

Truncated_Waits(a, p) == FALSE
Truncated(a, p) == p.len < EP

(* ccid_usb_rx_assembly_feed *)
Feed(a, p) ==
  LET b == Copied(a, p)
      c == Expecting(b)
  IN  IF a.discarding \/ p.len = 0 \/ Overflows(a, p)
      THEN Malformed(a, p.len)
      ELSE IF Oversized(b) THEN Malformed(b, p.len)
      ELSE IF c.expected # 0 /\ c.len > c.expected THEN Malformed(c, p.len)
      ELSE IF c.expected # 0 /\ c.len = c.expected THEN [result |-> "ready", asm |-> c]
      ELSE IF Truncated(c, p) THEN Malformed(c, p.len)
      ELSE [result |-> "more", asm |-> c]

(* nfc_ccid_bulk_frame_validate *)
Valid(a, n) == n >= Header /\ a.decl <= MaxPayload /\ n = Header + a.decl

-----------------------------------------------------------------------------
(* The host *)

(* Sent as it declares *)
Conformant(m) == m.declared <= MaxPayload /\ m.size = Header + m.declared

(* A device cannot see the end of a transfer that neither ends with a      *)
(* short packet nor is as long as it declares, nor that one goes on where  *)
(* the declared frame ends at a packet boundary                            *)
EndsShort(m) == m.size % EP # 0 \/ m.zlp
OverrunsEdge(m) == /\ m.declared <= MaxPayload /\ m.size > Header + m.declared
                   /\ (Header + m.declared) % EP = 0
Traceable(m) == (Conformant(m) \/ EndsShort(m)) /\ ~OverrunsEdge(m)

StartTransfer(m) ==
  /\ isOpen /\ cur = Idle
  /\ cur' = m /\ sent' = 0 /\ yield' = "none"
  /\ lost' = (lost \/ ~Traceable(m))
  /\ UNCHANGED <<isOpen, busy, asm, pending, storeLen, doubt>>

(* The host gives up between two packets *)
CancelTransfer ==
  /\ cur # Idle
  /\ cur' = Idle /\ sent' = 0
  /\ lost' = (lost \/ sent > 0)
  /\ UNCHANGED <<isOpen, busy, rx>>

-----------------------------------------------------------------------------
(* The device *)

(* arm_bulk_out on a free endpoint: the claim or the transfer may fail *)
Armable_WhilePending(held) == isOpen
Armable(held) == isOpen /\ ~held
ArmBulkOut(held) == IF Armable(held) THEN busy' \in BOOLEAN ELSE busy' = FALSE

(* queue_rx *)
Queueable(a) == a.len # 0 /\ a.len <= Cap /\ ~pending

Verdict(a) == IF Valid(a, a.len) THEN "valid" ELSE "invalid"

(* nero_ccidd_xfer_cb for a packet that arrived: queue_rx_packet, and the  *)
(* endpoint armed again                                                    *)
TakePacket(p) ==
  LET r == Feed(asm, p)
      queued == r.result = "ready" /\ Queueable(r.asm)
  IN  /\ asm' = IF r.result = "ready" /\ ~queued THEN Empty ELSE r.asm
      /\ pending' = (pending \/ queued)
      /\ storeLen' = IF queued THEN r.asm.len ELSE storeLen
      /\ doubt' = IF queued THEN lost ELSE doubt
      /\ yield' = IF ~queued THEN yield
                  ELSE IF yield = "none" THEN Verdict(r.asm) ELSE "twice"
      /\ ArmBulkOut(pending')

PacketLen == IF cur.size - sent < EP THEN cur.size - sent ELSE EP
LastPacket == PacketLen < EP \/ (sent + PacketLen = cur.size /\ ~cur.zlp)

HostPacket ==
  /\ cur # Idle /\ busy
  /\ \E d \in Lengths :
       /\ sent = 0 => d = cur.declared
       /\ TakePacket([of |-> cur, off |-> sent, len |-> PacketLen, reads |-> d])
  /\ lost' = (lost /\ PacketLen = EP)
  /\ cur' = IF LastPacket THEN Idle ELSE cur
  /\ sent' = IF LastPacket THEN 0 ELSE sent + PacketLen
  /\ UNCHANGED isOpen

(* nero_ccidd_xfer_cb with another result than success *)
PacketError ==
  /\ busy
  /\ ArmBulkOut(pending)
  /\ UNCHANGED <<host, isOpen, rx, lost>>

(* reader_hal_ccid_peek with no frame: it arms an endpoint that is not *)
PeekNothing_NoArm ==
  /\ ~pending
  /\ UNCHANGED vars
PeekNothing ==
  /\ ~pending
  /\ IF busy THEN UNCHANGED busy ELSE ArmBulkOut(FALSE)
  /\ UNCHANGED <<host, isOpen, rx, lost>>

(* reader_ccid_poll takes the frame: peek, copy and release *)
TakeFrame ==
  /\ pending
  /\ pending' = FALSE /\ asm' = Empty
  /\ ArmBulkOut(FALSE)
  /\ UNCHANGED <<host, isOpen, storeLen, lost, doubt, yield>>

(* nero_ccidd_reset; the transfer on the bus dies with it *)
BusReset ==
  /\ isOpen
  /\ isOpen' = FALSE /\ busy' = FALSE
  /\ asm' = Empty /\ pending' = FALSE /\ storeLen' = 0
  /\ cur' = Idle /\ sent' = 0
  /\ lost' = FALSE /\ doubt' = FALSE /\ yield' = "none"

(* nero_ccidd_open *)
Open ==
  /\ ~isOpen
  /\ isOpen' = TRUE /\ busy' \in BOOLEAN
  /\ UNCHANGED <<host, rx, lost>>

Init ==
  /\ cur = Idle /\ sent = 0
  /\ isOpen = FALSE /\ busy = FALSE
  /\ asm = Empty /\ pending = FALSE /\ storeLen = 0
  /\ lost = FALSE /\ doubt = FALSE /\ yield = "none"

Poll == PeekNothing \/ TakeFrame

Next == \/ \E m \in Transfers : StartTransfer(m)
        \/ CancelTransfer \/ HostPacket \/ PacketError
        \/ Poll
        \/ BusReset \/ Open

Spec == Init /\ [][Next]_vars

(* The main loop polls forever, and the claim of an idle endpoint cannot   *)
(* fail every time                                                         *)
FairSpec == Spec /\ WF_vars(Poll /\ busy')

-----------------------------------------------------------------------------
(* Properties *)

Slices == [len : 0..Cap, expected : {0} \cup Header..Cap, discarding : BOOLEAN,
           of : Transfers \cup {Idle, Mixed}, from : Nat, decl : Nat]

(* Every variable has its type; in particular the assembly never holds     *)
(* more bytes than its buffer (ccid_usb_rx_assembly_feed).                 *)
TypeOK ==
  /\ cur \in Transfers \cup {Idle} /\ sent \in Nat
  /\ isOpen \in BOOLEAN /\ busy \in BOOLEAN
  /\ asm \in Slices
  /\ pending \in BOOLEAN /\ storeLen \in 0..Cap
  /\ lost \in BOOLEAN /\ doubt \in BOOLEAN
  /\ yield \in {"none", "valid", "invalid", "twice"}

(* A frame that waits for the dispatcher is not touched by what the host   *)
(* sends meanwhile: its bytes and its length stay together until it is     *)
(* taken or the bus is reset (arm_bulk_out, queue_rx).                     *)
PendingFrameUntouched ==
  [][pending /\ pending' => asm' = asm /\ storeLen' = storeLen]_vars

(* A frame the dispatcher accepts is exactly one command as the host sent  *)
(* it, from its first byte to its last, never the pieces of two, whatever  *)
(* malformed transfers came before, as long as their end could be seen     *)
(* (ccid_usb_rx_assembly_feed, nfc_ccid_bulk_frame_validate).              *)
ValidFrameIsOneCommand ==
  pending /\ Valid(asm, storeLen) /\ ~doubt =>
    /\ asm.of \in Transfers /\ asm.from = 0
    /\ Conformant(asm.of) /\ storeLen = asm.of.size

(* Every transfer that holds a header gives the dispatcher one frame, so   *)
(* that it is answered once, with its bSeq: an acceptable one if it was    *)
(* sent as it declares, one to refuse otherwise; a shorter one gives none  *)
(* (malformed_result).                                                     *)
EveryTransferYieldsOneFrame ==
  [][HostPacket /\ LastPacket /\ ~lost =>
       yield' = IF cur.size < Header THEN "none"
                ELSE IF Conformant(cur) THEN "valid" ELSE "invalid"]_vars

(* A short packet always brings host and device together again: nothing of *)
(* what came before it is left in the assembly, even after a transfer was  *)
(* given up half-way (malformed_result).                                   *)
ShortPacketResynchronises ==
  [][HostPacket /\ PacketLen < EP => asm' = Empty \/ pending']_vars

(* The endpoint never stays deaf: an open one that holds no frame is armed *)
(* again, also after the controller refused a transfer                     *)
(* (reader_hal_ccid_peek).                                                 *)
EndpointArmedAgain == isOpen ~> (busy \/ ~isOpen)

=============================================================================
