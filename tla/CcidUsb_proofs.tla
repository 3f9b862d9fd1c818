----------------------------- MODULE CcidUsb_proofs -----------------------------
(***************************************************************************)
(* Theorems about CcidUsbRx, for every packet size, header and payload     *)
(* bound and every set of transfers, and about CcidUsbTx, for every packet *)
(* size and every set of messages.                                         *)
(*                                                                         *)
(* Receiving: while the host has left no transfer without a visible end,   *)
(* host and assembly are in step.  What the assembly holds is the part of  *)
(* the current transfer taken so far, or the drained head of one that      *)
(* cannot become an acceptable frame, or nothing.                          *)
(*                                                                         *)
(* Sending: a packet that is in the endpoint while the sender waits is the *)
(* one it waits for (Waits), and, as long as nothing has failed, what the  *)
(* host has collected is the message up to there (Collected).              *)
(***************************************************************************)
EXTENDS CcidUsbRx, CcidUsbTx, TLAPS

(* The assembly holds the first n bytes of m and waits for the rest *)
Assembles(a, m, n) ==
  /\ a.of = m /\ a.from = 0 /\ a.decl = m.declared /\ a.len = n
  /\ ~a.discarding
  /\ m.declared <= MaxPayload
  /\ a.expected = Header + m.declared /\ n < a.expected

(* The assembly drains m, which it has found malformed *)
Drains(a, m) ==
  /\ a.discarding /\ a.len >= Header
  /\ ~Valid(a, a.len) /\ ~Conformant(m)

(* The frame is complete and only the zero-length packet is missing *)
Complete == sent = cur.size /\ cur.zlp /\ Conformant(cur) /\ yield = "valid"

Places ==
  /\ pending => ~busy /\ storeLen = asm.len
  /\ ~isOpen => ~busy /\ ~pending
  /\ cur = Idle => sent = 0
  /\ cur # Idle => sent <= cur.size /\ sent % EP = 0

InStep ==
  ~lost =>
    /\ ~pending /\ (cur = Idle \/ sent = 0) => asm = Empty
    /\ cur # Idle => Traceable(cur)
    /\ cur # Idle /\ sent = 0 => yield = "none"
    /\ cur # Idle /\ sent > 0 =>
         \/ ~pending /\ yield = "none" /\ Assembles(asm, cur, sent)
         \/ ~pending /\ yield = "none" /\ Drains(asm, cur)
         \/ Complete /\ (pending \/ asm = Empty)

IInv == TypeOK /\ Places /\ InStep /\ ValidFrameIsOneCommand

-----------------------------------------------------------------------------
(* So many full packets leave no rest. *)
LEMMA Multiples ==
  ASSUME NEW k \in Nat
  PROVE  (EP * k) % EP = 0
<1>1. EP \in Nat /\ EP > 0
  BY SizesOfEndpoint
<1> QED
  BY <1>1, SMT

(* Adding a packet to whole packets gives whole packets (PacketLen). *)
LEMMA WholePackets ==
  ASSUME NEW n \in Nat, n % EP = 0
  PROVE  (n + EP) % EP = 0
<1>1. EP \in Nat /\ EP > 0
  BY SizesOfEndpoint
<1>2. n = EP * (n \div EP) /\ n \div EP \in Nat
  BY <1>1, SMT
<1> DEFINE k == (n \div EP) + 1
<1>3. k \in Nat /\ n + EP = EP * k
  BY <1>1, <1>2, SMT
<1> HIDE DEF k
<1> QED
  BY <1>3, Multiples

(* What a transfer is: at least one packet, neither of the two marks.      *)
LEMMA TransferTypes ==
  ASSUME NEW m \in Transfers
  PROVE  /\ m.size \in Nat /\ m.declared \in Nat /\ m.declared \in Lengths
         /\ m.zlp \in BOOLEAN
         /\ m.zlp => m.size % EP = 0
         /\ m.size = 0 => m.zlp
         /\ m # Idle /\ m # Mixed
BY HostSizes, NotTransfers DEF Transfers

Packets == [of : Transfers, off : Nat, len : 0..EP, reads : Nat]

(* malformed_result returns a state that has its type, waits only after a  *)
(* full packet, and drops only what it has reset.                          *)
LEMMA MalformedTypes ==
  ASSUME NEW a \in Slices, NEW n \in 0..EP
  PROVE  /\ Malformed(a, n).asm \in Slices
         /\ Malformed(a, n).result \in {"ready", "more", "dropped"}
         /\ Malformed(a, n).result = "dropped" =>
              Malformed(a, n).asm = Empty /\ a.len < Header
         /\ Malformed(a, n).result = "more" =>
              n = EP /\ Malformed(a, n).asm = [a EXCEPT !.discarding = TRUE]
         /\ Malformed(a, n).result = "ready" => n < EP /\ Malformed(a, n).asm = a
         /\ a.len >= Header => Malformed(a, n).result # "dropped"
<1>1. Empty \in Slices
  BY SizesOfEndpoint DEF Empty, Slices, Cap
<1>2. [a EXCEPT !.discarding = TRUE] \in Slices
  BY DEF Slices
<1> QED
  BY <1>1, <1>2, SizesOfEndpoint DEF Malformed, Slices

(* A packet that fits is added, and the declared length read when it can   *)
(* be (ccid_usb_rx_assembly_feed).                                         *)
LEMMA CopiedTypes ==
  ASSUME NEW a \in Slices, NEW p \in Packets, ~Overflows(a, p)
  PROVE  /\ Copied(a, p) \in Slices
         /\ Copied(a, p).len = a.len + p.len
         /\ Copied(a, p).expected = a.expected
         /\ ~Oversized(Copied(a, p)) =>
              /\ Expecting(Copied(a, p)) \in Slices
              /\ Expecting(Copied(a, p)).len = a.len + p.len
<1>1. a.len + p.len \in 0..Cap
  BY SizesOfEndpoint DEF Overflows, Slices, Packets, Cap
<1>2. Copied(a, p) \in Slices
  BY <1>1 DEF Copied, Slices, Packets
<1>3. Copied(a, p).len = a.len + p.len /\ Copied(a, p).expected = a.expected
  BY DEF Copied, Slices
<1>4. ASSUME NEW b \in Slices, ~Oversized(b)
      PROVE  Expecting(b) \in Slices /\ Expecting(b).len = b.len
  <2>1. b.expected = 0 /\ b.len >= Header => Header + b.decl \in Header..Cap
    BY <1>4, SizesOfEndpoint DEF Oversized, Slices, Cap
  <2> QED
    BY <2>1 DEF Expecting, Slices
<1> QED
  BY <1>2, <1>3, <1>4

(* Whatever arrives, the assembly keeps within its buffer, waits only      *)
(* after a full packet, and is empty when it has dropped something.        *)
LEMMA FeedTypes ==
  ASSUME NEW a \in Slices, NEW p \in Packets
  PROVE  /\ Feed(a, p).asm \in Slices
         /\ Feed(a, p).result \in {"ready", "more", "dropped"}
         /\ Feed(a, p).result = "dropped" => Feed(a, p).asm = Empty
         /\ Feed(a, p).result = "more" => p.len = EP
<1> DEFINE b == Copied(a, p)
           c == Expecting(b)
<1>0. p.len \in 0..EP
  BY DEF Packets
<1>1. CASE a.discarding \/ p.len = 0 \/ Overflows(a, p)
  BY <1>0, <1>1, MalformedTypes DEF Feed
<1>2. CASE ~(a.discarding \/ p.len = 0 \/ Overflows(a, p))
  <2>1. b \in Slices /\ (~Oversized(b) => c \in Slices)
    BY <1>2, CopiedTypes
  <2>2. Feed(a, p) \in {Malformed(b, p.len), Malformed(c, p.len),
                        [result |-> "ready", asm |-> c], [result |-> "more", asm |-> c]}
    BY <1>2 DEF Feed
  <2> HIDE DEF b, c
  <2>3. CASE Oversized(b)
    <3>1. Feed(a, p) = Malformed(b, p.len)
      BY <1>2, <2>3 DEF Feed, b
    <3> QED
      <4>1. b \in Slices
        BY <2>1
      <4>2. /\ Malformed(b, p.len).asm \in Slices
            /\ Malformed(b, p.len).result \in {"ready", "more", "dropped"}
            /\ Malformed(b, p.len).result = "dropped" => Malformed(b, p.len).asm = Empty
            /\ Malformed(b, p.len).result = "more" => p.len = EP
        BY <1>0, <4>1, MalformedTypes
      <4> QED
        BY <3>1, <4>2
  <2>4. CASE ~Oversized(b)
    <3>1. c \in Slices
      BY <2>1, <2>4
    <3>2. \/ Feed(a, p) = Malformed(c, p.len)
          \/ Feed(a, p) = [result |-> "ready", asm |-> c]
          \/ Feed(a, p) = [result |-> "more", asm |-> c] /\ ~(p.len < EP)
      BY <1>2, <2>4 DEF Feed, b, c, Truncated
    <3>3. ~(p.len < EP) => p.len = EP
      BY <1>0, SizesOfEndpoint
    <3>4. /\ Malformed(c, p.len).asm \in Slices
          /\ Malformed(c, p.len).result \in {"ready", "more", "dropped"}
          /\ Malformed(c, p.len).result = "dropped" => Malformed(c, p.len).asm = Empty
          /\ Malformed(c, p.len).result = "more" => p.len = EP
      BY <1>0, <3>1, MalformedTypes
    <3> QED
      BY <3>1, <3>2, <3>3, <3>4
  <2> QED
    BY <2>3, <2>4
<1> QED
  BY <1>1, <1>2

(* The packet on the bus is what is left of the transfer, at most a full   *)
(* one; it is short only at the end.                                       *)
LEMMA PacketFacts ==
  ASSUME TypeOK, Places, cur # Idle
  PROVE  /\ cur \in Transfers
         /\ PacketLen \in 0..EP /\ sent + PacketLen <= cur.size
         /\ PacketLen < EP => sent + PacketLen = cur.size
         /\ sent + PacketLen \in Nat
         /\ (sent + EP) % EP = 0
         /\ sent > 0 => sent >= Header
<1>1. cur \in Transfers /\ sent \in Nat /\ sent <= cur.size /\ sent % EP = 0
  BY DEF TypeOK, Places
<1>2. cur.size \in Nat
  BY <1>1, TransferTypes
<1>3. sent > 0 => sent >= EP
  BY <1>1, SizesOfEndpoint, SMT
<1>4. (sent + EP) % EP = 0
  BY <1>1, WholePackets
<1> QED
  BY <1>1, <1>2, <1>3, <1>4, SizesOfEndpoint DEF PacketLen

(* A transfer whose last packet is full is one sent as it declares, or one *)
(* whose end cannot be seen.                                               *)
LEMMA FullLastPacket ==
  ASSUME TypeOK, Places, cur # Idle, Traceable(cur), PacketLen = EP, LastPacket
  PROVE  Conformant(cur) /\ cur.size = sent + EP
<1>1. cur.size = sent + EP /\ ~cur.zlp
  BY SizesOfEndpoint, PacketFacts DEF LastPacket
<1>2. cur.size % EP = 0
  BY <1>1, PacketFacts
<1> QED
  BY <1>1, <1>2 DEF Traceable, EndsShort

WholeFrame(a) ==
  /\ Conformant(cur) /\ sent + PacketLen = cur.size
  /\ a.of = cur /\ a.from = 0 /\ a.decl = cur.declared /\ a.len = cur.size

(* What becomes of a packet while host and assembly are in step            *)
Outcome(r) ==
  \/ /\ r.result = "dropped" /\ PacketLen < EP
     /\ (yield = "none" /\ cur.size < Header) \/ Complete
  \/ r.result = "ready" /\ yield = "none" /\ WholeFrame(r.asm)
  \/ /\ r.result = "ready" /\ yield = "none" /\ PacketLen < EP
     /\ r.asm.len >= Header /\ ~Valid(r.asm, r.asm.len)
     /\ ~Conformant(cur) /\ cur.size >= Header
  \/ /\ r.result = "more" /\ yield = "none" /\ PacketLen = EP /\ ~LastPacket
     /\ Assembles(r.asm, cur, sent + EP) \/ Drains(r.asm, cur)

(* A malformed transfer is drained, or ends in a frame to be refused.      *)
LEMMA MalformedInStep ==
  ASSUME TypeOK, Places, cur # Idle, Traceable(cur), yield = "none",
         NEW a \in Slices, a.len >= Header, ~Valid(a, a.len),
         ~Conformant(cur), cur.size >= Header
  PROVE  Outcome(Malformed(a, PacketLen))
<1>1. PacketLen \in 0..EP
  BY PacketFacts
<1>2. CASE PacketLen < EP
  <2>1. Malformed(a, PacketLen) = [result |-> "ready", asm |-> a]
    BY <1>2, SizesOfEndpoint DEF Malformed, Slices
  <2> QED
    BY <1>2, <2>1 DEF Outcome
<1>3. CASE PacketLen = EP
  <2> DEFINE d == [a EXCEPT !.discarding = TRUE]
  <2>1. Malformed(a, PacketLen) = [result |-> "more", asm |-> d]
    BY <1>3, SizesOfEndpoint DEF Malformed, Slices
  <2>2. d.discarding /\ d.len = a.len /\ d.decl = a.decl
    BY DEF Slices
  <2>3. Drains(d, cur)
    BY <2>2 DEF Drains, Valid
  <2>4. ~LastPacket
    BY <1>3, FullLastPacket
  <2> QED
    BY <1>3, <2>1, <2>3, <2>4 DEF Outcome
<1> QED
  BY <1>1, <1>2, <1>3, SizesOfEndpoint

(* A packet that belongs to what the assembly holds, or begins it, brings  *)
(* the frame to its end, on, or to refusal (ccid_usb_rx_assembly_feed).    *)
LEMMA HeadInStep ==
  ASSUME TypeOK, Places, cur # Idle, Traceable(cur), yield = "none",
         NEW a \in Slices, ~a.discarding,
         \/ sent = 0 /\ a = Empty
         \/ sent > 0 /\ Assembles(a, cur, sent),
         NEW p \in Packets,
         p.of = cur, p.off = sent, p.len = PacketLen, sent = 0 => p.reads = cur.declared
  PROVE  Outcome(Feed(a, p))
<1> DEFINE n == PacketLen
           b == Copied(a, p)
           c == Expecting(b)
<1>1. /\ cur \in Transfers /\ n \in 0..EP /\ sent + n <= cur.size
      /\ n < EP => sent + n = cur.size
      /\ sent > 0 => sent >= Header
      /\ sent \in Nat /\ cur.size \in Nat /\ cur.declared \in Nat
  BY PacketFacts, TransferTypes DEF TypeOK
<1>2. a.len = sent /\ (sent = 0 => a.expected = 0)
  BY DEF Assembles, Empty
<1>3. sent > 0 => /\ cur.declared <= MaxPayload
                  /\ a.decl = cur.declared
                  /\ a.expected = Header + cur.declared
                  /\ sent < Header + cur.declared
  BY DEF Assembles
<1> HIDE DEF n
<1>4. CASE n = 0
  <2>1. sent = cur.size
    BY <1>1, <1>4, SizesOfEndpoint
  <2>2. Feed(a, p) = Malformed(a, n)
    BY <1>4 DEF Feed, n
  <2>3. CASE sent = 0
    <3>1. Malformed(a, n) = [result |-> "dropped", asm |-> Empty]
      BY <1>2, <2>3, SizesOfEndpoint DEF Malformed
    <3> QED
      BY <1>4, <2>1, <2>2, <2>3, <3>1, SizesOfEndpoint DEF Outcome, n
  <2>4. CASE sent > 0
    <3>1. ~Valid(a, a.len) /\ ~Conformant(cur)
      BY <1>1, <1>2, <1>3, <2>1, <2>4, SizesOfEndpoint DEF Valid, Conformant
    <3> QED
      BY <1>1, <1>2, <2>1, <2>2, <2>4, <3>1, MalformedInStep DEF n
  <2> QED
    BY <1>1, <2>3, <2>4
<1>5. CASE n # 0 /\ Overflows(a, p)
  <2>1. Feed(a, p) = Malformed(a, n) /\ sent + n > Cap
    BY <1>2, <1>5 DEF Feed, Overflows, n
  <2>2. sent > 0
    BY <1>1, <2>1, SizesOfEndpoint DEF Cap
  <2>3. ~Valid(a, a.len) /\ ~Conformant(cur) /\ cur.size >= Header
    BY <1>1, <1>2, <1>3, <2>1, <2>2, SizesOfEndpoint DEF Valid, Conformant, Cap
  <2> QED
    BY <1>1, <1>2, <2>1, <2>2, <2>3, MalformedInStep DEF n
<1>6. CASE n # 0 /\ ~Overflows(a, p)
  <2>1. /\ b \in Slices /\ b.len = sent + n /\ b.expected = a.expected
        /\ ~Oversized(b) => c \in Slices /\ c.len = sent + n
    BY <1>2, <1>6, CopiedTypes DEF n
  <2>2. b.of = cur /\ b.from = 0 /\ b.decl = cur.declared /\ ~b.discarding
    <3>1. CASE sent = 0
      BY <1>2, <3>1 DEF Copied, Slices
    <3>2. CASE sent > 0
      BY <1>1, <1>2, <3>2 DEF Copied, Slices, Assembles
    <3> QED
      BY <1>1, <3>1, <3>2
  <2>3. c = [b EXCEPT !.expected = IF b.expected = 0 /\ b.len >= Header
                                   THEN Header + b.decl ELSE b.expected]
    BY DEF Expecting
  <2> HIDE DEF b, c
  <2>4. /\ c.of = cur /\ c.from = 0 /\ c.decl = cur.declared /\ ~c.discarding
    BY <2>1, <2>2, <2>3 DEF Slices
  <2>5. CASE Oversized(b)
    <3>1. Feed(a, p) = Malformed(b, n)
      BY <1>6, <2>5 DEF Feed, b, n
    <3>2. b.len >= Header /\ ~Valid(b, b.len) /\ ~Conformant(cur)
      BY <1>1, <2>1, <2>2, <2>5, SizesOfEndpoint DEF Oversized, Valid, Conformant, Slices
    <3>3. cur.size >= Header
      BY <1>1, <2>1, <3>2, SizesOfEndpoint
    <3> QED
      BY <2>1, <3>1, <3>2, <3>3, MalformedInStep DEF n
  <2>6. CASE ~Oversized(b) /\ sent + n < Header
    <3>1. sent = 0 /\ n < EP /\ cur.size = n
      BY <1>1, <2>6, SizesOfEndpoint
    <3>2. c.expected = 0
      BY <1>2, <2>1, <2>3, <2>6, <3>1, SizesOfEndpoint DEF Slices
    <3>3. Feed(a, p) = Malformed(c, n)
      BY <1>6, <2>6, <3>1, <3>2 DEF Feed, Truncated, b, c, n
    <3>4. Malformed(c, n) = [result |-> "dropped", asm |-> Empty]
      BY <2>1, <2>6 DEF Malformed
    <3> QED
      BY <1>1, <2>6, <3>1, <3>3, <3>4, SizesOfEndpoint DEF Outcome, n
  <2>7. CASE ~Oversized(b) /\ sent + n >= Header
    <3>1. cur.declared <= MaxPayload
      BY <1>1, <1>2, <1>3, <2>1, <2>2, <2>7, SizesOfEndpoint DEF Oversized
    <3>2. c.expected = Header + cur.declared /\ c.expected # 0
      BY <1>1, <1>2, <1>3, <2>1, <2>2, <2>3, <2>7, SizesOfEndpoint DEF Slices
    <3>3. c \in Slices /\ c.len = sent + n /\ cur.size >= Header
      BY <1>1, <2>1, <2>7, SizesOfEndpoint
    <3>4. CASE sent + n > Header + cur.declared
      <4>1. Feed(a, p) = Malformed(c, n)
        BY <1>6, <2>7, <3>2, <3>3, <3>4 DEF Feed, b, c, n
      <4>2. ~Valid(c, c.len) /\ ~Conformant(cur)
        BY <1>1, <2>4, <3>3, <3>4, SizesOfEndpoint DEF Valid, Conformant
      <4> QED
        BY <2>7, <3>3, <4>1, <4>2, MalformedInStep DEF n
    <3>5. CASE sent + n = Header + cur.declared
      <4>1. Feed(a, p) = [result |-> "ready", asm |-> c]
        BY <1>1, <1>6, <2>7, <3>2, <3>3, <3>5, SizesOfEndpoint DEF Feed, b, c, n
      <4>2. cur.size = Header + cur.declared
        <5>1. CASE n < EP
          BY <1>1, <3>5, <5>1
        <5>2. CASE n = EP
          <6>1. (Header + cur.declared) % EP = 0
            BY <3>5, <5>2, PacketFacts
          <6>2. ~(cur.size > Header + cur.declared)
            BY <3>1, <6>1, Zenon DEF Traceable, OverrunsEdge
          <6> QED
            BY <1>1, <3>5, <6>2, SizesOfEndpoint
        <5> QED
          BY <1>1, <5>1, <5>2, SizesOfEndpoint
      <4>3. WholeFrame(c)
        BY <2>4, <3>1, <3>3, <3>5, <4>2 DEF WholeFrame, Conformant, n
      <4> QED
        BY <4>1, <4>3 DEF Outcome
    <3>6. CASE sent + n < Header + cur.declared
      <4>1. Feed(a, p) = IF n < EP THEN Malformed(c, n) ELSE [result |-> "more", asm |-> c]
        BY <1>1, <1>6, <2>7, <3>2, <3>3, <3>6, SizesOfEndpoint DEF Feed, Truncated, b, c, n
      <4>2. CASE n < EP
        <5>1. ~Valid(c, c.len) /\ ~Conformant(cur)
          BY <1>1, <2>4, <3>3, <3>6, <4>2, SizesOfEndpoint DEF Valid, Conformant
        <5> QED
          BY <2>7, <3>3, <4>1, <4>2, <5>1, MalformedInStep DEF n
      <4>3. CASE n = EP
        <5>1. Assembles(c, cur, sent + EP)
          BY <2>4, <3>1, <3>2, <3>3, <3>6, <4>3 DEF Assembles
        <5>2. ~LastPacket
          BY <1>1, <3>6, <4>3, FullLastPacket, SizesOfEndpoint DEF Conformant, n
        <5> QED
          BY <1>1, <4>1, <4>3, <5>1, <5>2, SizesOfEndpoint DEF Outcome, n
      <4> QED
        BY <1>1, <4>2, <4>3, SizesOfEndpoint
    <3> QED
      BY <1>1, <3>4, <3>5, <3>6, SizesOfEndpoint
  <2> QED
    BY <1>1, <2>5, <2>6, <2>7, SizesOfEndpoint
<1> QED
  BY <1>4, <1>5, <1>6

ThePacket(d) == [of |-> cur, off |-> sent, len |-> PacketLen, reads |-> d]

(* The packet the callback is given. *)
LEMMA ThePacketTypes ==
  ASSUME TypeOK, Places, cur # Idle, NEW d \in Lengths
  PROVE  /\ ThePacket(d) \in Packets
         /\ ThePacket(d).of = cur /\ ThePacket(d).off = sent
         /\ ThePacket(d).len = PacketLen /\ ThePacket(d).reads = d
BY PacketFacts, HostSizes DEF ThePacket, Packets, TypeOK

(* Every packet the host sends while it is in step with the assembly has   *)
(* one of the four outcomes (nero_ccidd_xfer_cb).                          *)
LEMMA FeedInStep ==
  ASSUME TypeOK, Places, InStep, ~lost, cur # Idle, busy,
         NEW d \in Lengths, sent = 0 => d = cur.declared
  PROVE  Outcome(Feed(asm, ThePacket(d)))
<1> DEFINE p == ThePacket(d)
<1>1. /\ p \in Packets /\ p.of = cur /\ p.off = sent /\ p.len = PacketLen /\ p.reads = d
  BY ThePacketTypes
<1> HIDE DEF p
<1>2. asm \in Slices /\ ~pending /\ Traceable(cur) /\ sent \in Nat
  BY DEF TypeOK, Places, InStep
<1>3. Empty.discarding = FALSE /\ Empty.len = 0
  BY DEF Empty
<1>4. CASE sent = 0
  BY <1>1, <1>2, <1>3, <1>4, HeadInStep DEF InStep, p
<1>5. CASE sent > 0 /\ yield = "none" /\ Assembles(asm, cur, sent)
  <2>1. ~asm.discarding
    BY <1>5 DEF Assembles
  <2> QED
    BY <1>1, <1>2, <1>5, <2>1, HeadInStep, SizesOfEndpoint DEF p
<1>6. CASE sent > 0 /\ yield = "none" /\ Drains(asm, cur)
  <2>1. Feed(asm, p) = Malformed(asm, PacketLen)
    BY <1>1, <1>6 DEF Feed, Drains
  <2>2. cur.size >= Header
    BY <1>2, <1>6, PacketFacts, TransferTypes, SizesOfEndpoint
  <2> QED
    BY <1>2, <1>6, <2>1, <2>2, MalformedInStep DEF Drains, p
<1>7. CASE sent > 0 /\ Complete /\ asm = Empty
  <2>1. PacketLen = 0
    BY <1>7, PacketFacts, TransferTypes, SizesOfEndpoint DEF Complete
  <2>2. Feed(asm, p) = Malformed(Empty, 0)
    BY <1>1, <1>7, <2>1 DEF Feed
  <2>3. Malformed(Empty, 0) = [result |-> "dropped", asm |-> Empty]
    BY <1>3, SizesOfEndpoint DEF Malformed
  <2> QED
    BY <1>7, <2>1, <2>2, <2>3, SizesOfEndpoint DEF Outcome, p
<1> QED
  BY <1>2, <1>4, <1>5, <1>6, <1>7 DEF InStep

(* What the callback does with a packet, in or out of step.                *)
LEMMA TheHostPacket ==
  ASSUME TypeOK, Places, HostPacket
  PROVE  \E d \in Lengths :
           LET r == Feed(asm, ThePacket(d))
               accepted == r.result = "ready" /\ Queueable(r.asm)
           IN /\ sent = 0 => d = cur.declared
              /\ r.asm \in Slices
              /\ r.result = "dropped" => r.asm = Empty
              /\ r.result = "more" => PacketLen = EP
              /\ r.result \in {"ready", "more", "dropped"}
              /\ asm' = IF r.result = "ready" /\ ~accepted THEN Empty ELSE r.asm
              /\ pending' = accepted
              /\ storeLen' = IF accepted THEN r.asm.len ELSE storeLen
              /\ doubt' = IF accepted THEN lost ELSE doubt
              /\ yield' = IF ~accepted THEN yield
                          ELSE IF yield = "none" THEN Verdict(r.asm) ELSE "twice"
<1>1. cur # Idle /\ busy /\ pending = FALSE
  BY DEF HostPacket, Places, TypeOK
<1>2. PICK d \in Lengths : /\ sent = 0 => d = cur.declared
                           /\ TakePacket(ThePacket(d))
  BY DEF HostPacket, ThePacket
<1> DEFINE r == Feed(asm, ThePacket(d))
<1>3. /\ r.asm \in Slices /\ r.result \in {"ready", "more", "dropped"}
      /\ r.result = "dropped" => r.asm = Empty
      /\ r.result = "more" => PacketLen = EP
  BY <1>1, ThePacketTypes, FeedTypes DEF TypeOK
<1>4. /\ asm' = IF r.result = "ready" /\ ~(r.result = "ready" /\ Queueable(r.asm))
                THEN Empty ELSE r.asm
      /\ pending' = (r.result = "ready" /\ Queueable(r.asm))
      /\ storeLen' = IF r.result = "ready" /\ Queueable(r.asm) THEN r.asm.len ELSE storeLen
      /\ doubt' = IF r.result = "ready" /\ Queueable(r.asm) THEN lost ELSE doubt
      /\ yield' = IF ~(r.result = "ready" /\ Queueable(r.asm)) THEN yield
                  ELSE IF yield = "none" THEN Verdict(r.asm) ELSE "twice"
  BY <1>1, <1>2 DEF TakePacket
<1> QED
  BY <1>2, <1>3, <1>4

-----------------------------------------------------------------------------
(* The reset assembly holds nothing (ccid_usb_rx_assembly_reset). *)
LEMMA EmptyTypes == Empty \in Slices /\ Empty.len = 0 /\ 0 \in 0..Cap
BY SizesOfEndpoint DEF Empty, Slices, Cap

(* Initially nothing is sent, held or pending. *)
LEMMA InitIInv == Init => IInv
<1> SUFFICES ASSUME Init PROVE IInv
  OBVIOUS
<1>1. TypeOK
  BY EmptyTypes DEF Init, TypeOK
<1>2. Places /\ InStep /\ ValidFrameIsOneCommand
  BY DEF Init, Places, InStep, ValidFrameIsOneCommand
<1> QED
  BY <1>1, <1>2 DEF IInv

(* Arming the endpoint sets busy to one of its values. *)
LEMMA ArmTypes ==
  ASSUME NEW held \in BOOLEAN, ArmBulkOut(held)
  PROVE  busy' \in BOOLEAN /\ (held \/ ~isOpen => ~busy')
BY DEF ArmBulkOut, Armable

(* Every step keeps the types. *)
LEMMA TypeStep == TypeOK /\ Places /\ [Next]_vars => TypeOK'
<1> SUFFICES ASSUME TypeOK, Places, [Next]_vars PROVE TypeOK'
  OBVIOUS
<1>1. ASSUME NEW m \in Transfers, StartTransfer(m) PROVE TypeOK'
  BY <1>1 DEF TypeOK, StartTransfer
<1>2. CASE CancelTransfer
  BY <1>2 DEF TypeOK, CancelTransfer, rx
<1>3. CASE HostPacket
  <2>1. cur # Idle /\ isOpen' = isOpen /\ pending \in BOOLEAN
    BY <1>3 DEF HostPacket, TypeOK
  <2>2. /\ asm' \in Slices /\ pending' \in BOOLEAN /\ storeLen' \in 0..Cap
        /\ doubt' \in BOOLEAN /\ yield' \in {"none", "valid", "invalid", "twice"}
    BY <1>3, TheHostPacket, EmptyTypes DEF TypeOK, Queueable, Verdict, Slices
  <2>3. busy' \in BOOLEAN
    BY <1>3, <2>2, ArmTypes DEF HostPacket, TakePacket
  <2>4. cur' \in Transfers \cup {Idle} /\ sent' \in Nat /\ lost' \in BOOLEAN
    BY <1>3, <2>1, PacketFacts DEF HostPacket, TypeOK
  <2> QED
    BY <2>1, <2>2, <2>3, <2>4 DEF TypeOK
<1>4. CASE PacketError
  BY <1>4, ArmTypes DEF TypeOK, PacketError, host, rx
<1>5. CASE PeekNothing
  BY <1>5, ArmTypes DEF TypeOK, PeekNothing, host, rx
<1>6. CASE TakeFrame
  BY <1>6, ArmTypes, EmptyTypes DEF TypeOK, TakeFrame, host
<1>7. CASE BusReset
  BY <1>7, EmptyTypes DEF TypeOK, BusReset
<1>8. CASE Open
  BY <1>8 DEF TypeOK, Open, host, rx
<1>9. CASE UNCHANGED vars
  BY <1>9 DEF TypeOK, vars, host, rx
<1> QED
  BY <1>1, <1>2, <1>3, <1>4, <1>5, <1>6, <1>7, <1>8, <1>9 DEF Next, Poll

(* Every step keeps the endpoint, the frame and the bus where they may be. *)
LEMMA PlacesStep == TypeOK /\ Places /\ [Next]_vars => Places'
<1> SUFFICES ASSUME TypeOK, Places, [Next]_vars PROVE Places'
  OBVIOUS
<1> USE DEF Places
<1>1. ASSUME NEW m \in Transfers, StartTransfer(m) PROVE Places'
  <2>1. sent' <= m.size /\ 0 % EP = 0
    BY <1>1, TransferTypes, SizesOfEndpoint DEF StartTransfer
  <2> QED
    BY <1>1, <2>1, TransferTypes DEF StartTransfer
<1>2. CASE CancelTransfer
  BY <1>2 DEF CancelTransfer, rx
<1>3. CASE HostPacket
  <2>1. cur # Idle /\ busy /\ isOpen /\ isOpen' = isOpen
    BY <1>3 DEF HostPacket, TypeOK
  <2>2. /\ pending' \in BOOLEAN
        /\ pending' => storeLen' = asm'.len
    BY <1>3, TheHostPacket DEF TypeOK
  <2>3. pending' => ~busy'
    BY <1>3, <2>2, ArmTypes DEF HostPacket, TakePacket
  <2>4. cur' = Idle => sent' = 0
    BY <1>3, <2>1 DEF HostPacket
  <2>5. cur' # Idle => sent' <= cur'.size /\ sent' % EP = 0
    BY <1>3, <2>1, PacketFacts, SizesOfEndpoint DEF HostPacket, LastPacket
  <2> QED
    BY <2>1, <2>2, <2>3, <2>4, <2>5
<1>4. CASE PacketError
  BY <1>4, ArmTypes DEF PacketError, host, rx, TypeOK
<1>5. CASE PeekNothing
  BY <1>5, ArmTypes DEF PeekNothing, host, rx
<1>6. CASE TakeFrame
  BY <1>6, ArmTypes DEF TakeFrame, host
<1>7. CASE BusReset
  BY <1>7 DEF BusReset
<1>8. CASE Open
  BY <1>8 DEF Open, host, rx
<1>9. CASE UNCHANGED vars
  BY <1>9 DEF vars, host, rx
<1> QED
  BY <1>1, <1>2, <1>3, <1>4, <1>5, <1>6, <1>7, <1>8, <1>9 DEF Next, Poll

(* A whole frame can be queued, and is acceptable. *)
LEMMA WholeFrameQueued ==
  ASSUME TypeOK, cur \in Transfers, ~pending, NEW a, WholeFrame(a)
  PROVE  Queueable(a) /\ Valid(a, a.len) /\ cur.size > 0
BY TransferTypes, SizesOfEndpoint DEF WholeFrame, Conformant, Queueable, Valid, Cap

(* A packet keeps host and assembly in step, or brings them back into it  *)
(* (queue_rx_packet).                                                      *)
LEMMA InStepPacket ==
  ASSUME TypeOK, Places, InStep, HostPacket, ~lost'
  PROVE  InStep'
<1>1. cur # Idle /\ busy /\ ~pending /\ cur \in Transfers
  BY DEF HostPacket, Places, TypeOK
<1>2. CASE PacketLen < EP
  <2>1. cur' = Idle
    BY <1>2 DEF HostPacket, LastPacket
  <2>2. pending' \/ asm' = Empty
    <3>1. PacketLen # EP
      BY <1>2, SizesOfEndpoint
    <3> QED
      BY <3>1, TheHostPacket
  <2> QED
    BY <2>1, <2>2 DEF InStep
<1>3. CASE ~(PacketLen < EP)
  <2>1. ~lost /\ PacketLen = EP
    BY <1>1, <1>3, PacketFacts, SizesOfEndpoint DEF HostPacket, TypeOK
  <2>2. PICK d \in Lengths :
          LET r == Feed(asm, ThePacket(d))
              accepted == r.result = "ready" /\ Queueable(r.asm)
          IN /\ sent = 0 => d = cur.declared
             /\ asm' = IF r.result = "ready" /\ ~accepted THEN Empty ELSE r.asm
             /\ pending' = accepted
             /\ yield' = IF ~accepted THEN yield
                         ELSE IF yield = "none" THEN Verdict(r.asm) ELSE "twice"
    BY TheHostPacket
  <2> DEFINE r == Feed(asm, ThePacket(d))
  <2>3. Outcome(r)
    BY <1>1, <2>1, <2>2, FeedInStep
  <2>4. Traceable(cur)
    BY <1>1, <2>1 DEF InStep
  <2>5. asm' = (IF r.result = "ready" /\ ~Queueable(r.asm) THEN Empty ELSE r.asm)
    BY <2>2
  <2>6. pending' = (r.result = "ready" /\ Queueable(r.asm))
    BY <2>2
  <2>7. yield' = IF ~(r.result = "ready" /\ Queueable(r.asm)) THEN yield
                 ELSE IF yield = "none" THEN Verdict(r.asm) ELSE "twice"
    BY <2>2
  <2> HIDE DEF r
  <2>8. CASE r.result = "ready" /\ yield = "none" /\ WholeFrame(r.asm)
    <3>1. pending' /\ yield' = "valid" /\ sent + EP = cur.size /\ cur.size > 0 /\ Conformant(cur)
      BY <1>1, <2>1, <2>6, <2>7, <2>8, WholeFrameQueued DEF Verdict, WholeFrame
    <3>2. CASE cur.zlp
      <4>1. cur' = cur /\ sent' = sent + EP
        BY <2>1, <3>2, SizesOfEndpoint DEF HostPacket, LastPacket
      <4>2. Complete'
        BY <3>1, <3>2, <4>1 DEF Complete, Conformant
      <4> QED
        BY <1>1, <2>4, <3>1, <4>1, <4>2 DEF InStep, Traceable, Conformant, EndsShort, OverrunsEdge
    <3>3. CASE ~cur.zlp
      <4>1. cur' = Idle
        BY <2>1, <3>1, <3>3 DEF HostPacket, LastPacket
      <4> QED
        BY <3>1, <4>1 DEF InStep
    <3> QED
      BY <3>2, <3>3
  <2>9. CASE /\ r.result = "more" /\ yield = "none" /\ ~LastPacket
             /\ Assembles(r.asm, cur, sent + EP) \/ Drains(r.asm, cur)
    <3>1. cur' = cur /\ sent' = sent + EP /\ sent' > 0
      BY <2>1, <2>9, SizesOfEndpoint DEF HostPacket, TypeOK
    <3>2. ~pending' /\ yield' = "none" /\ asm' = r.asm
      BY <2>5, <2>6, <2>7, <2>9
    <3>3. (Assembles(asm, cur, sent) \/ Drains(asm, cur))'
      BY <2>9, <3>1, <3>2 DEF Assembles, Drains, Valid, Conformant
    <3> QED
      BY <1>1, <2>4, <3>1, <3>2, <3>3, SizesOfEndpoint
      DEF InStep, Traceable, Conformant, EndsShort, OverrunsEdge
  <2> QED
    BY <1>3, <2>3, <2>8, <2>9 DEF Outcome
<1> QED
  BY <1>2, <1>3

(* Every step keeps host and assembly in step. *)
LEMMA InStepStep == TypeOK /\ Places /\ InStep /\ [Next]_vars => InStep'
<1> SUFFICES ASSUME TypeOK, Places, InStep, [Next]_vars, ~lost' PROVE InStep'
  BY DEF InStep
<1> USE DEF InStep
<1>1. ASSUME NEW m \in Transfers, StartTransfer(m) PROVE InStep'
  <2>1. ~lost /\ Traceable(m) /\ cur' = m /\ sent' = 0 /\ cur = Idle
    BY <1>1 DEF StartTransfer, TypeOK
  <2>2. Traceable(cur)'
    BY <2>1 DEF Traceable, Conformant, EndsShort, OverrunsEdge
  <2> QED
    BY <1>1, <2>1, <2>2 DEF StartTransfer
<1>2. CASE CancelTransfer
  <2>1. ~lost /\ sent = 0
    <3>1. ~(lost \/ sent > 0)
      BY <1>2, Zenon DEF CancelTransfer
    <3> QED
      BY <3>1 DEF TypeOK
  <2> QED
    BY <1>2, <2>1 DEF CancelTransfer, rx
<1>3. CASE HostPacket
  BY <1>3, InStepPacket
<1>4. CASE PacketError \/ PeekNothing \/ Open \/ UNCHANGED vars
  <2>1. /\ cur' = cur /\ sent' = sent /\ asm' = asm /\ pending' = pending
        /\ yield' = yield /\ lost' = lost
    BY <1>4 DEF PacketError, PeekNothing, Open, vars, host, rx
  <2> QED
    BY <2>1 DEF Traceable, Conformant, EndsShort, OverrunsEdge, Assembles, Drains, Valid, Complete
<1>5. CASE TakeFrame
  <2>1. /\ cur' = cur /\ sent' = sent /\ asm' = Empty /\ ~pending'
        /\ yield' = yield /\ lost' = lost /\ pending
    BY <1>5 DEF TakeFrame, host
  <2> QED
    BY <2>1 DEF Traceable, Conformant, EndsShort, OverrunsEdge, Complete
<1>6. CASE BusReset
  BY <1>6 DEF BusReset
<1> QED
  BY <1>1, <1>2, <1>3, <1>4, <1>5, <1>6 DEF Next, Poll

(* Every step keeps an acceptable pending frame a whole command. *)
LEMMA FrameStep ==
  TypeOK /\ Places /\ InStep /\ ValidFrameIsOneCommand /\ [Next]_vars
    => ValidFrameIsOneCommand'
<1> SUFFICES ASSUME TypeOK, Places, InStep, ValidFrameIsOneCommand, [Next]_vars
             PROVE  ValidFrameIsOneCommand'
  OBVIOUS
<1>1. CASE HostPacket
  <2>1. cur # Idle /\ busy /\ ~pending /\ cur \in Transfers
    BY <1>1 DEF HostPacket, Places, TypeOK
  <2>2. PICK d \in Lengths :
          LET r == Feed(asm, ThePacket(d))
              accepted == r.result = "ready" /\ Queueable(r.asm)
          IN /\ sent = 0 => d = cur.declared
             /\ asm' = IF r.result = "ready" /\ ~accepted THEN Empty ELSE r.asm
             /\ pending' = accepted
             /\ storeLen' = IF accepted THEN r.asm.len ELSE storeLen
             /\ doubt' = IF accepted THEN lost ELSE doubt
    BY <1>1, TheHostPacket
  <2> DEFINE r == Feed(asm, ThePacket(d))
  <2>3. SUFFICES ASSUME pending', ~doubt'
                 PROVE  ValidFrameIsOneCommand'
    BY DEF ValidFrameIsOneCommand
  <2>4. r.result = "ready" /\ asm' = r.asm /\ storeLen' = r.asm.len /\ ~lost
    BY <2>2, <2>3
  <2>5. Outcome(r)
    BY <2>1, <2>2, <2>4, FeedInStep
  <2> HIDE DEF r
  <2>6. CASE WholeFrame(r.asm)
    BY <2>1, <2>4, <2>6 DEF WholeFrame, ValidFrameIsOneCommand
  <2>7. CASE ~Valid(r.asm, r.asm.len)
    BY <2>4, <2>7 DEF ValidFrameIsOneCommand, Valid
  <2> QED
    BY <2>4, <2>5, <2>6, <2>7 DEF Outcome
<1>2. CASE TakeFrame \/ BusReset
  BY <1>2 DEF TakeFrame, BusReset, ValidFrameIsOneCommand
<1>3. CASE /\ asm' = asm /\ pending' = pending /\ storeLen' = storeLen /\ doubt' = doubt
  BY <1>3 DEF ValidFrameIsOneCommand, Valid, Conformant
<1> QED
  BY <1>1, <1>2, <1>3
  DEF Next, Poll, StartTransfer, CancelTransfer, PacketError, PeekNothing, Open, vars, host, rx

-----------------------------------------------------------------------------
(* Every reachable state satisfies the invariant. *)
THEOREM Invariance == Spec => []IInv
<1>1. IInv /\ [Next]_vars => IInv'
  BY TypeStep, PlacesStep, InStepStep, FrameStep DEF IInv
<1> QED
  BY <1>1, InitIInv, PTL DEF Spec

(* Every reachable state is well typed: whatever the host sends, the       *)
(* assembly never holds more than its buffer (ccid_usb_rx_assembly_feed).  *)
THEOREM TypeCorrect == Spec => []TypeOK
<1>1. IInv => TypeOK
  BY DEF IInv
<1> QED
  BY <1>1, Invariance, PTL

(* A frame the dispatcher accepts is one command as the host sent it, from *)
(* its first byte to its last (nfc_ccid_bulk_frame_validate).              *)
THEOREM FramesAreCommands == Spec => []ValidFrameIsOneCommand
<1>1. IInv => ValidFrameIsOneCommand
  BY DEF IInv
<1> QED
  BY <1>1, Invariance, PTL

(* While a frame waits for the dispatcher neither its bytes nor its length *)
(* change: the endpoint is not armed (arm_bulk_out).                       *)
THEOREM FramesAreUntouched == Spec => PendingFrameUntouched
<1>1. IInv /\ [Next]_vars => [pending /\ pending' => asm' = asm /\ storeLen' = storeLen]_vars
  <2> SUFFICES ASSUME IInv, [Next]_vars, pending, pending'
               PROVE  asm' = asm /\ storeLen' = storeLen
    OBVIOUS
  <2>1. ~HostPacket
    BY DEF IInv, Places, HostPacket
  <2>2. ~TakeFrame /\ ~BusReset
    BY DEF TakeFrame, BusReset
  <2> QED
    BY <2>1, <2>2
    DEF Next, Poll, StartTransfer, CancelTransfer, PacketError, PeekNothing, Open, vars, host, rx
<1> QED
  BY <1>1, Invariance, PTL DEF Spec, PendingFrameUntouched

(* A short packet leaves nothing in the assembly but a frame that waits    *)
(* (malformed_result).                                                     *)
THEOREM ShortPacketsResynchronise == Spec => ShortPacketResynchronises
<1>1. IInv /\ [Next]_vars =>
        [HostPacket /\ PacketLen < EP => asm' = Empty \/ pending']_vars
  <2> SUFFICES ASSUME IInv, HostPacket, PacketLen < EP
               PROVE  asm' = Empty \/ pending'
    OBVIOUS
  <2>1. PacketLen # EP
    BY SizesOfEndpoint
  <2> QED
    BY <2>1, TheHostPacket DEF IInv
<1> QED
  BY <1>1, Invariance, PTL DEF Spec, ShortPacketResynchronises

(* By the end of its last packet a transfer has given the dispatcher one   *)
(* frame: an acceptable one exactly if it was sent as it declares, and     *)
(* none if it is shorter than a header (ccid_usb_rx_assembly_feed).        *)
THEOREM TransfersYieldOneFrame == Spec => EveryTransferYieldsOneFrame
<1>1. IInv /\ [Next]_vars =>
        [HostPacket /\ LastPacket /\ ~lost =>
           yield' = IF cur.size < Header THEN "none"
                    ELSE IF Conformant(cur) THEN "valid" ELSE "invalid"]_vars
  <2> SUFFICES ASSUME IInv, HostPacket, LastPacket, ~lost
               PROVE  yield' = IF cur.size < Header THEN "none"
                               ELSE IF Conformant(cur) THEN "valid" ELSE "invalid"
    OBVIOUS
  <2>1. /\ cur # Idle /\ busy /\ ~pending /\ cur \in Transfers
        /\ TypeOK /\ Places /\ InStep
    BY DEF HostPacket, IInv, Places, TypeOK
  <2>2. PICK d \in Lengths :
          LET r == Feed(asm, ThePacket(d))
              accepted == r.result = "ready" /\ Queueable(r.asm)
          IN /\ sent = 0 => d = cur.declared
             /\ r.asm \in Slices
             /\ yield' = IF ~accepted THEN yield
                         ELSE IF yield = "none" THEN Verdict(r.asm) ELSE "twice"
    BY <2>1, TheHostPacket
  <2> DEFINE r == Feed(asm, ThePacket(d))
  <2>3. Outcome(r)
    BY <2>1, <2>2, FeedInStep
  <2>4. r.asm \in Slices
    BY <2>2
  <2>5. yield' = IF ~(r.result = "ready" /\ Queueable(r.asm)) THEN yield
                 ELSE IF yield = "none" THEN Verdict(r.asm) ELSE "twice"
    BY <2>2
  <2> HIDE DEF r
  <2>6. CASE r.result = "dropped" /\ ((yield = "none" /\ cur.size < Header) \/ Complete)
    <3>1. Complete => ~(cur.size < Header)
      BY <2>1, TransferTypes, SizesOfEndpoint DEF Complete, Conformant
    <3> QED
      BY <2>5, <2>6, <3>1 DEF Complete
  <2>7. CASE r.result = "ready" /\ yield = "none" /\ WholeFrame(r.asm)
    <3>1. Queueable(r.asm) /\ Valid(r.asm, r.asm.len) /\ Conformant(cur)
      BY <2>1, <2>7, WholeFrameQueued DEF WholeFrame
    <3>2. ~(cur.size < Header)
      BY <2>1, <3>1, TransferTypes, SizesOfEndpoint DEF Conformant
    <3> QED
      BY <2>5, <2>7, <3>1, <3>2 DEF Verdict
  <2>8. CASE /\ r.result = "ready" /\ yield = "none"
             /\ r.asm.len >= Header /\ ~Valid(r.asm, r.asm.len)
             /\ ~Conformant(cur) /\ cur.size >= Header
    <3>1. Queueable(r.asm)
      BY <2>1, <2>4, <2>8, SizesOfEndpoint DEF Queueable, Slices
    <3>2. ~(cur.size < Header)
      BY <2>1, <2>8, TransferTypes, SizesOfEndpoint
    <3> QED
      BY <2>5, <2>8, <3>1, <3>2 DEF Verdict
  <2> QED
    BY <2>3, <2>6, <2>7, <2>8 DEF Outcome
<1> QED
  BY <1>1, Invariance, PTL DEF Spec, EveryTransferYieldsOneFrame

-----------------------------------------------------------------------------
(***************************************************************************)
(* Sending.                                                                *)
(***************************************************************************)
(* The length of the packet the sender is at *)
TxPacketLen == IF ending THEN 0 ELSE ChunkLen

(* Where the sender is in its message *)
Progress ==
  /\ off % EP = 0
  /\ phase # "idle" => IF ending THEN off = msg.size ELSE off < msg.size

Waits ==
  /\ phase = "wait" /\ queued # NoPacket =>
       queued = [of |-> msg, from |-> off, len |-> TxPacketLen]
  /\ phase = "claim" /\ queued # NoPacket => off = 0
  /\ phase = "wait" /\ queued = NoPacket /\ TxPacketLen < EP => read = Nothing
  /\ ~isOpen => queued = NoPacket /\ read = Nothing

Upto(n) == IF n = 0 THEN Nothing ELSE [of |-> msg, from |-> 0, len |-> n]

Collected ==
  ~fault =>
    /\ phase # "idle" => isOpen
    /\ phase # "wait" => queued = NoPacket
    /\ phase = "idle" => read = Nothing
    /\ phase = "claim" => read = Upto(off)
    /\ phase = "wait" /\ queued # NoPacket => read = Upto(off)
    /\ phase = "wait" /\ queued = NoPacket /\ TxPacketLen = EP => read = Upto(off + EP)

TxIInv == TxTypeOK /\ Progress /\ Waits /\ Collected

-----------------------------------------------------------------------------
(* A message is something. *)
LEMMA MessageTypes ==
  ASSUME NEW m \in Messages
  PROVE  m.size \in Nat /\ m.size > 0 /\ m # None
<1>1. m.size \in MessageSizes
  BY DEF Messages
<1>2. m.size \in Nat \ {0}
  BY <1>1, PacketsHoldSomething
<1> QED
  BY <1>2, NoneIsNoMessage

(* The next packet holds something, is at most a full one and does not go  *)
(* past the message; it is short only at its end (reader_hal_ccid_send).   *)
LEMMA ChunkFacts ==
  ASSUME TxTypeOK, Progress, phase # "idle"
  PROVE  /\ msg \in Messages /\ msg # None /\ msg.size \in Nat /\ msg.size > 0
         /\ off \in Nat /\ off <= msg.size /\ EP \in Nat /\ EP > 0
         /\ ~ending => /\ ChunkLen \in 1..EP /\ off + ChunkLen <= msg.size
                       /\ ChunkLen < EP => off + ChunkLen = msg.size
         /\ (off + EP) % EP = 0
<1>1. msg \in Messages /\ msg # None /\ off \in Nat
  BY NoneIsNoMessage DEF TxTypeOK
<1>2. msg.size \in Nat /\ msg.size > 0
  BY <1>1, MessageTypes
<1>3. (off + EP) % EP = 0
  BY <1>1, WholePackets DEF Progress
<1>4. off <= msg.size /\ (~ending => off < msg.size)
  BY <1>1, <1>2 DEF Progress
<1> QED
  BY <1>1, <1>2, <1>3, <1>4, PacketsHoldSomething DEF ChunkLen

(* A packet is no NoPacket, and a piece of a message is something. *)
LEMMA Distinct ==
  /\ \A m, f : \A n \in 0..EP : [of |-> m, from |-> f, len |-> n] # NoPacket
  /\ \A m \in Messages : \A f, n : [of |-> m, from |-> f, len |-> n] # Nothing
BY PacketsHoldSomething, NoneIsNoMessage DEF NoPacket, Nothing

(* Initially nothing is sent, queued or read. *)
LEMMA TxInitIInv == TxInit => TxIInv
<1> SUFFICES ASSUME TxInit PROVE TxIInv
  OBVIOUS
<1>1. 0 % EP = 0
  BY PacketsHoldSomething, SMT
<1>2. TxTypeOK
  <2>1. NoPacket \in TxSlices /\ Nothing \in TxSlices
    BY PacketsHoldSomething DEF NoPacket, Nothing, TxSlices
  <2> QED
    BY <2>1 DEF TxInit, TxTypeOK
<1> QED
  BY <1>1, <1>2 DEF TxInit, TxIInv, Progress, Waits, Collected

(* Every step keeps the types (reader_hal_ccid_send). *)
LEMMA TxTypeStep == TxTypeOK /\ Progress /\ [TxNext]_txVars => TxTypeOK'
<1> SUFFICES ASSUME TxTypeOK, Progress, [TxNext]_txVars PROVE TxTypeOK'
  OBVIOUS
<1>1. ASSUME NEW m \in Messages, Send(m) PROVE TxTypeOK'
  <2>1. m \in Messages /\ m # None /\ 0 <= m.size
    BY MessageTypes
  <2>2. msg' = m /\ off' = 0 /\ phase' = "claim"
    BY <1>1 DEF Send
  <2>3. /\ msg' \in Messages \cup {None} /\ (msg' = None <=> phase' = "idle")
        /\ off' \in Nat /\ (msg' # None => off' <= msg'.size)
    BY <2>1, <2>2
  <2> QED
    BY <1>1, <2>1, <2>2, <2>3 DEF TxTypeOK, Send
<1>2. CASE QueueChunk
  <2>1. phase # "idle" /\ phase' = "wait"
    BY <1>2 DEF QueueChunk
  <2>2. queued' \in TxSlices /\ (queued' = NoPacket \/ queued'.len <= EP)
    BY <1>2, <2>1, ChunkFacts DEF QueueChunk, TxTypeOK, TxSlices
  <2> QED
    BY <1>2, <2>1, <2>2 DEF QueueChunk, TxTypeOK
<1>3. CASE ChunkRead
  <2>1. phase # "idle"
    BY <1>3 DEF ChunkRead
  <2>2. CASE Done
    BY <1>3, <2>2, NoneIsNoMessage DEF ChunkRead, TxTypeOK, Done
  <2>3. CASE ~ending /\ off' = off + ChunkLen /\ phase' = "claim" /\ msg' = msg /\ ending' \in BOOLEAN
    BY <1>3, <2>1, <2>3, ChunkFacts DEF ChunkRead, TxTypeOK
  <2> QED
    BY <1>3, <2>2, <2>3 DEF ChunkRead, TxTypeOK
<1>4. CASE Timeout
  BY <1>4, NoneIsNoMessage DEF Timeout, TxTypeOK, Done
<1>5. CASE HostReads
  <2>1. read' \in TxSlices
    <3>1. Nothing \in TxSlices /\ Pieces \in TxSlices
      BY DEF Nothing, Pieces, TxSlices
    <3>2. Joined(read, queued) \in TxSlices
      BY <3>1 DEF TxTypeOK, Joined, TxSlices
    <3> QED
      BY <1>5, <3>1, <3>2 DEF HostReads
  <2>2. queued' = NoPacket /\ NoPacket \in TxSlices
    BY <1>5, PacketsHoldSomething DEF HostReads, NoPacket, TxSlices
  <2>3. fault' \in BOOLEAN
    BY <1>5 DEF HostReads
  <2> QED
    BY <1>5, <2>1, <2>2, <2>3 DEF HostReads, TxTypeOK, sender
<1>6. CASE TxBusReset
  <2>1. Nothing \in TxSlices /\ NoPacket \in TxSlices
    BY PacketsHoldSomething DEF Nothing, NoPacket, TxSlices
  <2>2. fault' \in BOOLEAN
    BY <1>6 DEF TxBusReset
  <2> QED
    BY <1>6, <2>1, <2>2 DEF TxBusReset, TxTypeOK, sender
<1>7. CASE TxOpen
  BY <1>7 DEF TxOpen, TxTypeOK, sender
<1>8. CASE UNCHANGED txVars
  BY <1>8 DEF txVars, TxTypeOK, sender
<1> QED
  BY <1>1, <1>2, <1>3, <1>4, <1>5, <1>6, <1>7, <1>8 DEF TxNext, Sender

(* The sender stays at a packet boundary of its message. *)
LEMMA ProgressStep == TxTypeOK /\ Progress /\ [TxNext]_txVars => Progress'
<1> SUFFICES ASSUME TxTypeOK, Progress, [TxNext]_txVars PROVE Progress'
  OBVIOUS
<1>0. 0 % EP = 0
  BY PacketsHoldSomething, SMT
<1>1. ASSUME NEW m \in Messages, Send(m) PROVE Progress'
  BY <1>0, <1>1, MessageTypes DEF Progress, Send
<1>2. CASE QueueChunk
  BY <1>2 DEF QueueChunk, Progress
<1>3. CASE ChunkRead
  <2>1. phase # "idle"
    BY <1>3 DEF ChunkRead
  <2>2. CASE Done
    BY <1>0, <2>2 DEF Progress, Done
  <2>3. CASE ~ending /\ off + ChunkLen < msg.size /\ ~Done
    <3>1. ChunkLen = EP
      BY <2>1, <2>3, ChunkFacts
    <3> QED
      BY <1>3, <2>1, <2>3, <3>1, ChunkFacts DEF ChunkRead, Progress
  <2>4. CASE ~ending /\ ~(off + ChunkLen < msg.size) /\ ~Done
    <3>1. NeedsZlp(msg) /\ off' = off + ChunkLen /\ ending' /\ msg' = msg
      BY <1>3, <2>4 DEF ChunkRead
    <3>2. off + ChunkLen = msg.size
      BY <2>1, <2>4, ChunkFacts
    <3> QED
      BY <3>1, <3>2 DEF Progress, NeedsZlp
  <2> QED
    BY <1>3, <2>2, <2>3, <2>4 DEF ChunkRead
<1>4. CASE Timeout
  BY <1>0, <1>4 DEF Timeout, Progress, Done
<1>5. CASE HostReads \/ TxBusReset \/ TxOpen \/ UNCHANGED txVars
  BY <1>5 DEF HostReads, TxBusReset, TxOpen, txVars, sender, Progress
<1> QED
  BY <1>1, <1>2, <1>3, <1>4, <1>5 DEF TxNext, Sender

(* The end of a message that is no multiple of the packet size is short    *)
(* (ccid_usb_bulk_in_needs_zlp).                                           *)
LEMMA LastIsShort ==
  ASSUME TxTypeOK, Progress, phase # "idle", ~ending,
         ~(off + ChunkLen < msg.size), ~NeedsZlp(msg)
  PROVE  ChunkLen < EP
<1>1. CASE ChunkLen = EP
  BY <1>1, ChunkFacts DEF NeedsZlp
<1> QED
  BY <1>1, ChunkFacts

(* A send succeeds only after a packet that was not full. *)
LEMMA SuccessIsShort ==
  ASSUME TxTypeOK, Progress, ChunkRead, phase' = "idle"
  PROVE  TxPacketLen < EP
<1>1. phase # "idle"
  BY DEF ChunkRead
<1>2. CASE ending
  BY <1>2, PacketsHoldSomething DEF TxPacketLen
<1>3. CASE ~ending
  <2>1. ~(off + ChunkLen < msg.size) /\ ~NeedsZlp(msg)
    BY <1>3 DEF ChunkRead
  <2> QED
    BY <1>1, <1>3, <2>1, LastIsShort DEF TxPacketLen
<1> QED
  BY <1>2, <1>3

(* A packet in the endpoint is the one the sender waits for. *)
LEMMA WaitsStep == TxTypeOK /\ Progress /\ Waits /\ [TxNext]_txVars => Waits'
<1> SUFFICES ASSUME TxTypeOK, Progress, Waits, [TxNext]_txVars PROVE Waits'
  OBVIOUS
<1> USE DEF Waits
<1>1. ASSUME NEW m \in Messages, Send(m) PROVE Waits'
  BY <1>1 DEF Send
<1>2. CASE QueueChunk
  <2>1. phase # "idle" /\ phase' = "wait" /\ TxPacketLen' = TxPacketLen /\ queued = NoPacket
    BY <1>2 DEF QueueChunk, TxPacketLen, ChunkLen, Claimable
  <2>2. TxPacketLen \in 0..EP
    BY <2>1, ChunkFacts, PacketsHoldSomething DEF TxPacketLen
  <2>3. CASE isOpen
    <3>1. queued' = [of |-> msg, from |-> off, len |-> TxPacketLen]
      BY <1>2, <2>3 DEF QueueChunk, TxPacketLen
    <3>2. queued' # NoPacket
      BY <2>2, <3>1, Distinct
    <3> QED
      BY <1>2, <2>1, <2>3, <3>1, <3>2 DEF QueueChunk
  <2>4. CASE ~isOpen
    BY <1>2, <2>1, <2>4 DEF QueueChunk
  <2> QED
    BY <2>3, <2>4
<1>3. CASE ChunkRead
  <2>1. phase' \in {"idle", "claim"} /\ queued' = NoPacket /\ queued = NoPacket
    BY <1>3 DEF ChunkRead, Freed, Done
  <2> QED
    BY <1>3, <2>1 DEF ChunkRead
<1>4. CASE Timeout
  BY <1>4 DEF Timeout, Done
<1>5. CASE HostReads
  <2>1. isOpen /\ isOpen' /\ queued' = NoPacket /\ queued # NoPacket /\ phase' = phase
    BY <1>5 DEF HostReads, sender
  <2>2. TxPacketLen' = TxPacketLen
    BY <1>5 DEF HostReads, sender, TxPacketLen, ChunkLen
  <2>3. phase = "wait" /\ TxPacketLen < EP => read' = Nothing
    BY <1>5, <2>1 DEF HostReads, Completes
  <2> QED
    BY <2>1, <2>2, <2>3
<1>6. CASE TxBusReset
  BY <1>6 DEF TxBusReset, sender
<1>7. CASE TxOpen \/ UNCHANGED txVars
  BY <1>7 DEF TxOpen, txVars, sender, TxPacketLen, ChunkLen
<1> QED
  BY <1>1, <1>2, <1>3, <1>4, <1>5, <1>6, <1>7 DEF TxNext, Sender

(* A packet that completes a multiple of the packet size is full. *)
LEMMA FullAtBoundary ==
  ASSUME NEW n \in Nat, n % EP = 0, NEW k \in 1..EP, (n + k) % EP = 0
  PROVE  k = EP
<1>1. EP \in Nat /\ EP > 0
  BY PacketsHoldSomething
<1>2. n = EP * (n \div EP) /\ n \div EP \in Nat
  BY <1>1, SMT
<1>3. n + k = EP * ((n + k) \div EP) /\ (n + k) \div EP \in Nat
  BY <1>1, SMT
<1> DEFINE j == ((n + k) \div EP) - (n \div EP)
<1>4. j \in Int /\ k = EP * j
  BY <1>1, <1>2, <1>3, SMT
<1> HIDE DEF j
<1>5. j >= 1
  BY <1>1, <1>4, SMT
<1> QED
  BY <1>1, <1>4, <1>5, SMT

(* While nothing has failed the host has what was sent so far. *)
LEMMA CollectedStep ==
  TxTypeOK /\ Progress /\ Waits /\ Collected /\ [TxNext]_txVars => Collected'
<1> SUFFICES ASSUME TxTypeOK, Progress, Waits, Collected, [TxNext]_txVars, ~fault'
             PROVE  Collected'
  BY DEF Collected
<1>0. Upto(0) = Nothing /\ Upto(0)' = Nothing
  BY DEF Upto
<1>1. ASSUME NEW m \in Messages, Send(m) PROVE Collected'
  <2>1. ~fault /\ queued = NoPacket /\ read = Nothing /\ isOpen
    BY <1>1 DEF Send, Collected
  <2> QED
    BY <1>0, <1>1, <2>1 DEF Send, Collected
<1>2. CASE QueueChunk
  <2>1. ~fault /\ isOpen /\ read = Upto(off) /\ queued = NoPacket /\ phase # "idle"
    BY <1>2 DEF QueueChunk, Collected, Claimable
  <2>2. TxPacketLen \in 0..EP
    BY <2>1, ChunkFacts, PacketsHoldSomething DEF TxPacketLen
  <2>3. queued' # NoPacket
    BY <1>2, <2>1, <2>2, Distinct DEF QueueChunk, TxPacketLen
  <2> QED
    BY <1>2, <2>1, <2>3 DEF QueueChunk, Collected, Upto
<1>3. CASE ChunkRead
  <2>1. ~fault /\ phase = "wait" /\ queued = NoPacket /\ queued' = NoPacket /\ isOpen'
        /\ read' = read
    BY <1>3 DEF ChunkRead, Freed, Collected
  <2>2. CASE Done
    <3>1. phase' = "idle" /\ TxPacketLen < EP
      BY <1>3, <2>2, SuccessIsShort DEF Done
    <3> QED
      BY <2>1, <3>1 DEF Waits, Collected
  <2>3. CASE ~Done
    <3>1. ~ending /\ off' = off + ChunkLen /\ phase' = "claim" /\ msg' = msg
      BY <1>3, <2>3 DEF ChunkRead
    <3>2. ChunkLen = EP
      <4>1. CASE off + ChunkLen < msg.size
        BY <2>1, <3>1, <4>1, ChunkFacts
      <4>2. CASE ~(off + ChunkLen < msg.size)
        <5>1. NeedsZlp(msg) /\ off + ChunkLen = msg.size
          BY <1>3, <2>1, <2>3, <3>1, <4>2, ChunkFacts DEF ChunkRead
        <5>2. off % EP = 0 /\ off \in Nat /\ ChunkLen \in 1..EP /\ (off + ChunkLen) % EP = 0
          BY <2>1, <3>1, <5>1, ChunkFacts DEF Progress, NeedsZlp
        <5> QED
          BY <5>2, FullAtBoundary
      <4> QED
        BY <4>1, <4>2
    <3>3. read = Upto(off + EP)
      BY <2>1, <3>1, <3>2 DEF Collected, TxPacketLen
    <3> QED
      BY <2>1, <3>1, <3>2, <3>3 DEF Collected, Upto
  <2> QED
    BY <2>2, <2>3
<1>4. CASE Timeout
  BY <1>4 DEF Timeout
<1>5. CASE HostReads
  <2>1. /\ isOpen /\ isOpen' /\ queued' = NoPacket /\ queued # NoPacket
        /\ phase' = phase /\ off' = off /\ msg' = msg /\ TxPacketLen' = TxPacketLen
    BY <1>5 DEF HostReads, sender, Waits, TxPacketLen, ChunkLen
  <2>2. Upto(off)' = Upto(off) /\ Upto(off + EP)' = Upto(off + EP)
    BY <2>1 DEF Upto
  <2>3. CASE Completes
    <3>1. read' = Nothing
      BY <1>5, <2>3 DEF HostReads
    <3>2. phase = "claim" => off = 0
      BY <2>1 DEF Waits
    <3>3. phase = "wait" => TxPacketLen < EP
      BY <2>1, <2>3 DEF Waits, Completes
    <3>4. TxPacketLen < EP => TxPacketLen # EP
      BY PacketsHoldSomething
    <3> QED
      BY <1>0, <2>1, <3>1, <3>2, <3>3, <3>4 DEF Collected
  <2>4. CASE ~Completes
    <3>1. ~fault
      BY <1>5, <2>4 DEF HostReads
    <3>2. phase = "wait" /\ read = Upto(off)
      BY <2>1, <3>1 DEF Collected
    <3>3. queued = [of |-> msg, from |-> off, len |-> EP]
      <4>1. queued = [of |-> msg, from |-> off, len |-> TxPacketLen] /\ ~(TxPacketLen < EP)
        BY <2>1, <2>4, <3>2 DEF Waits, Completes
      <4>2. TxPacketLen \in 0..EP
        BY <3>2, ChunkFacts, PacketsHoldSomething DEF TxPacketLen
      <4> QED
        BY <4>1, <4>2, PacketsHoldSomething
    <3>4. Joined(read, queued) = Upto(off + EP)
      <4>1. msg \in Messages /\ off \in Nat /\ EP \in Nat /\ EP > 0
        BY <3>2, ChunkFacts
      <4>2. CASE off = 0
        BY <3>2, <3>3, <4>1, <4>2 DEF Joined, Upto
      <4>3. CASE off # 0
        <5>1. read = [of |-> msg, from |-> 0, len |-> off] /\ read # Nothing
          BY <3>2, <4>1, <4>3, Distinct DEF Upto
        <5>2. off + EP # 0
          BY <4>1
        <5> QED
          BY <3>3, <4>1, <5>1, <5>2 DEF Joined, Upto
      <4> QED
        BY <4>2, <4>3
    <3>5. read' = Upto(off + EP)
      BY <1>5, <2>4, <3>4 DEF HostReads
    <3> QED
      BY <2>1, <2>2, <3>2, <3>5 DEF Collected
  <2> QED
    BY <2>3, <2>4
<1>6. CASE TxBusReset
  BY <1>6 DEF TxBusReset, sender, Collected
<1>7. CASE TxOpen \/ UNCHANGED txVars
  BY <1>7 DEF TxOpen, txVars, sender, TxPacketLen, ChunkLen, Collected, Upto
<1> QED
  BY <1>1, <1>2, <1>3, <1>4, <1>5, <1>6, <1>7 DEF TxNext, Sender

-----------------------------------------------------------------------------
(* Every reachable state satisfies the invariant. *)
THEOREM TxInvariance == TxSpec => []TxIInv
<1>1. TxIInv /\ [TxNext]_txVars => TxIInv'
  BY TxTypeStep, ProgressStep, WaitsStep, CollectedStep DEF TxIInv
<1> QED
  BY <1>1, TxInitIInv, PTL DEF TxSpec

(* Every reachable state is well typed, and the sender never runs past its *)
(* message (reader_hal_ccid_send).                                         *)
THEOREM TxTypeCorrect == TxSpec => []TxTypeOK
<1>1. TxIInv => TxTypeOK
  BY DEF TxIInv
<1> QED
  BY <1>1, TxInvariance, PTL

(* A send that succeeded leaves nothing in the endpoint and the host       *)
(* between two reads (ccid_usb_bulk_in_needs_zlp).                         *)
THEOREM SuccessIsComplete == TxSpec => SuccessLeavesNothing
<1>1. TxIInv /\ [TxNext]_txVars =>
        [ChunkRead /\ phase' = "idle" /\ isOpen => read = Nothing /\ queued = NoPacket]_txVars
  <2> SUFFICES ASSUME TxIInv, ChunkRead, phase' = "idle"
               PROVE  read = Nothing /\ queued = NoPacket
    OBVIOUS
  <2>1. TxPacketLen < EP
    BY SuccessIsShort DEF TxIInv
  <2> QED
    BY <2>1 DEF TxIInv, Waits, ChunkRead, Freed
<1> QED
  BY <1>1, TxInvariance, PTL DEF TxSpec, SuccessLeavesNothing

(* A read the host completes is one whole message, unless a send failed    *)
(* since the last one (reader_hal_ccid_send).                              *)
THEOREM ReadsAreMessages == TxSpec => CompletedReadsAreMessages
<1>1. TxIInv /\ [TxNext]_txVars =>
        [HostReads /\ Completes /\ ~fault => Whole(Joined(read, queued))]_txVars
  <2> SUFFICES ASSUME TxIInv, HostReads, Completes, ~fault
               PROVE  Whole(Joined(read, queued))
    OBVIOUS
  <2>1. TxTypeOK /\ Progress /\ queued # NoPacket /\ phase = "wait" /\ read = Upto(off)
    BY DEF TxIInv, HostReads, Collected
  <2>2. queued = [of |-> msg, from |-> off, len |-> TxPacketLen] /\ TxPacketLen < EP
    BY <2>1 DEF TxIInv, Waits, Completes
  <2>3. /\ msg \in Messages /\ msg # None /\ off \in Nat /\ off + TxPacketLen = msg.size
        /\ msg.size \in Nat /\ msg.size > 0 /\ TxPacketLen \in Nat
        /\ ending => off = msg.size
    <3>1. phase # "idle"
      BY <2>1
    <3>2. CASE ending
      BY <2>1, <3>1, <3>2, ChunkFacts DEF TxPacketLen, Progress
    <3>3. CASE ~ending
      BY <2>1, <2>2, <3>1, <3>3, ChunkFacts DEF TxPacketLen
    <3> QED
      BY <3>2, <3>3
  <2>4. CASE off = 0
    BY <2>1, <2>2, <2>3, <2>4 DEF Joined, Upto, Whole
  <2>5. CASE off # 0
    <3>1. read = [of |-> msg, from |-> 0, len |-> off] /\ read # Nothing
      BY <2>1, <2>3, <2>5, Distinct DEF Upto
    <3> QED
      BY <2>2, <2>3, <3>1 DEF Joined, Whole
  <2> QED
    BY <2>4, <2>5
<1> QED
  BY <1>1, TxInvariance, PTL DEF TxSpec, CompletedReadsAreMessages

=============================================================================
