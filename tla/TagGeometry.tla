------------------------------ MODULE TagGeometry ------------------------------
(***************************************************************************)
(* How much of a tag a message may use, by its capability container (CC),  *)
(* its version and its system information: the writer decides where the    *)
(* TLV goes and whether it programs the CC, the reader how much it reads   *)
(* before it looks for a TLV.  A Type 4 tag has a file instead, which both *)
(* access in pieces.  No exchange gets lost here; TagWriter has the ones   *)
(* that do.                                                                *)
(*                                                                         *)
(* mem is the tag from its CC on (page 3 of a Type 2 tag, block 0 of a     *)
(* Type 5 tag), in the bytes of NdefMessage.  Pages, blocks and the unit   *)
(* of an area have their real size, the sizes of tags are scaled down.     *)
(*                                                                         *)
(* A definition named X_... that nothing refers to is X with a plausible   *)
(* mistake, see IsoDep.                                                    *)
(***************************************************************************)
EXTENDS NdefMessage

CONSTANTS
  Tier,             \* NTAG21x by size id: the MLEN of its CC, its last page
  St25tnLastPage,   \* NFC_TAG_ST25TN_MAX_USER_PAGE
  St25tnFallback,   \* NFC_TAG_ST25TN_FALLBACK_LAST_PAGE
  GroupPages,       \* NFC_TAG_T2T_READ_RESP_PAGES
  ChunkBlocks,      \* NFC_TAG_T5T_ISO15693_READ_MULTIPLE_BLOCKS_MAX
  MinMlen,          \* WRITER_TYPE5_MIN_MLEN_UNITS
  MlenOverflow,     \* NFC_TAG_T5T_CC_MLEN_OVERFLOW, the largest byte
  Cc4Len, Cc4Max,   \* NFC_PCSC_T4_CC_FILE_LEN, longest CC file the reader has room for
  MleMin,           \* NFC_TAG_T4T_MLE_MIN
  ReadMax,          \* NFC_PCSC_T4_READ_BINARY_DATA_MAX
  UpdateMax,        \* NFC_PCSC_T4_UPDATE_BINARY_DATA_MAX
  BufMax,           \* READER_NDEF_BUF_MAX
  ScanMax           \* NERO_NFC_TYPE2_STORAGE_NDEF_SCAN_MAX

PageSize == 4
AreaUnit == 8
CcPage == 3

\* The sizes that the code's static assertions and tables tell: no tag of the family
\* is larger than an NTAG216, the readers have room for the longest message.
ASSUME GeometryAssumption ==
  /\ {GroupPages, ChunkBlocks, MinMlen, MleMin, ReadMax, UpdateMax} \subseteq Nat \ {0}
  /\ GroupPages >= 2
  /\ {MlenOverflow, Cc4Len, Cc4Max, BufMax, ScanMax} \subseteq Nat
  /\ {MinMlen, AreaUnit} \subseteq Lengths
  /\ {"213", "215", "216"} \subseteq DOMAIN Tier
  /\ \A s \in DOMAIN Tier : Tier[s].mlen \in Lengths /\ Tier[s].last \in 0..Tier["216"].last
  /\ {St25tnLastPage, St25tnFallback} \subseteq 0..Tier["216"].last
  /\ EnvelopeLen(MessageMax) <= ScanMax /\ 2 * PageSize + EnvelopeLen(MessageMax) <= BufMax

Up(n, unit) == (n + unit - 1) \div unit
Least(m, n) == IF m < n THEN m ELSE n
Most(m, n) == IF m < n THEN n ELSE m
Amount(b) == IF IsNumber(b) THEN Number(b) ELSE 0

Result(ok, mem) == [ok |-> ok, mem |-> mem]
\* Bytes from index at on; what is beyond the end of the memory is not written.
Put(mem, at, bytes) ==
  LET end == at + Len(bytes) - 1
  IN  Result(end <= Len(mem),
             [i \in DOMAIN mem |-> IF i \in at..end THEN bytes[i - at + 1] ELSE mem[i]])
WriteUnits(mem, at, tlv) ==
  Put(mem, at, tlv \o [i \in 1..(PageSize * Up(Len(tlv), PageSize) - Len(tlv)) |-> "00"])

-----------------------------------------------------------------------------
(***************************************************************************)
(* Type 2 tags: [type, version, st, mem].  version is the size id of an    *)
(* NTAG21x that answers GET_VERSION, "none" if the tag does not; st says   *)
(* that its UID is of STMicroelectronics.                                  *)
(***************************************************************************)
Cc2(mem) == [valid |-> mem[1] = "E1", mlen |-> IF mem[1] = "E1" THEN Amount(mem[3]) ELSE 0,
             access |-> mem[4]]
Family2(tag) ==
  IF tag.version # "none" THEN "ntag21x"
  ELSE IF tag.st /\ Cc2(tag.mem).valid THEN "st25tn" ELSE "unknown"
LastPageOf(mlen) == CcPage + Up(mlen * AreaUnit, PageSize)

CapOfMlen(mlen) ==  \* writer_type2_cap_last_page_from_mlen
  IF mlen <= Tier["213"].mlen THEN Tier["213"].last
  ELSE IF mlen <= Tier["215"].mlen THEN Tier["215"].last ELSE Tier["216"].last
OfVersion(tag) == Tier[IF tag.version \in DOMAIN Tier THEN tag.version ELSE "213"]

CcSize(tag) ==
  IF Family2(tag) = "ntag21x" /\ ~Cc2(tag.mem).valid THEN OfVersion(tag).mlen ELSE Cc2(tag.mem).mlen
MaxPage(tag) ==
  LET mlen == Cc2(tag.mem).mlen IN
  CASE Family2(tag) = "ntag21x" /\ Cc2(tag.mem).valid -> Least(LastPageOf(mlen), CapOfMlen(mlen))
    [] Family2(tag) = "ntag21x" /\ ~Cc2(tag.mem).valid -> OfVersion(tag).last
    [] Family2(tag) = "st25tn" ->
         IF mlen = 0 THEN St25tnFallback ELSE Least(LastPageOf(mlen), St25tnLastPage)

WriteType2(tag, message) ==
  LET tlv == Tlv(message)
      cc == Cc2(tag.mem)
      size == Most(Up(Len(tlv), AreaUnit), CcSize(tag))
      program == ~cc.valid \/ cc.mlen < size
      with == IF program THEN <<"E1", "10", Byte[size], "rw">> \o SubSeq(tag.mem, 5, Len(tag.mem))
              ELSE tag.mem
  IN  IF \/ message = <<>> \/ Family2(tag) = "unknown" \/ (cc.valid /\ cc.access # "rw")
         \/ CcPage + Up(Len(tlv), PageSize) > MaxPage(tag)
      THEN Result(FALSE, tag.mem) ELSE WriteUnits(with, PageSize + 1, tlv)

\* The pages that hold the message, judged by the first ones: 0 if they do not tell.
NeededPages(first, last) ==
  LET from[p \in 1..(Len(first) + 1)] ==
        IF p > Len(first) THEN 0
        ELSE IF first[p] = "00" THEN from[p + 1]
        ELSE IF first[p] = "FE" THEN (p - 1 + PageSize) \div PageSize
        ELSE LET at == IF p < Len(first) /\ first[p + 1] = "FF" THEN p + 3 ELSE p + 1
             IN  IF at > Len(first) \/ ~IsNumber(first[at]) THEN 0
                 ELSE IF first[p] = "03"
                      THEN Least(Up(at + Number(first[at]), PageSize), last - CcPage + 1)
                 ELSE IF at + Number(first[at]) > Len(first) THEN 0
                 ELSE from[at + Number(first[at]) + 1]
  IN  from[PageSize + 1]

TlvComplete(area) == FindMessage(area).status = "ok" \/ Contains(area, "FE")
\* The least of the counts at which a reader that looks after each one stops.
Stop(counts, done(_)) ==
  CHOOSE n \in counts : /\ done(n) \/ \A k \in counts : k <= n
                        /\ \A k \in counts : k < n => ~done(k)

\* The messages the reader finds.
ReadType2(tag) ==
  LET cc == Cc2(tag.mem)
      last == Least(LastPageOf(cc.mlen), Tier["216"].last)
      area(pages) == SubSeq(tag.mem, PageSize + 1, Least(PageSize * pages, Len(tag.mem)))
      needed == NeededPages(SubSeq(tag.mem, 1, GroupPages * PageSize), last)
      all == last - CcPage + 1
      pages == IF Family2(tag) = "ntag21x" THEN Most(needed, GroupPages)
               ELSE Stop({Least(GroupPages * n, all) : n \in 1..Up(all, GroupPages)},
                         LAMBDA n : TlvComplete(area(n)))
  IN  IF ~cc.valid \/ cc.mlen = 0 \/ cc.access = "no" THEN <<>> ELSE ParseTlvArea(area(pages))

-----------------------------------------------------------------------------
(***************************************************************************)
(* Type 5 tags: [type, sys, mem].  sys says that the tag answers Get       *)
(* System Information, which tells the number of its blocks.               *)
(***************************************************************************)
Blocks(tag) == IF tag.sys THEN Len(tag.mem) \div PageSize ELSE 0

\* The CC found: its length in bytes and the bytes of its area, len 0 if none is valid.
Cc5(mem) ==
  LET mlen == Amount(mem[3])
      units == IF mlen # 0 THEN mlen ELSE Amount(mem[8])
  IN  IF mem[1] \in {"E1", "E2"} /\ units # 0
      THEN [len |-> IF mlen # 0 THEN 4 ELSE 8, mlen |-> mlen, area |-> units * AreaUnit,
            access |-> mem[2]]
      ELSE [len |-> 0, mlen |-> 0, area |-> 0, access |-> "rw"]
\* A CC whose MLEN says that the area is too large for it.
Area5(tag) ==
  LET cc == Cc5(tag.mem)
      total == Blocks(tag) * PageSize
  IN  IF cc.len = 4 /\ cc.mlen = MlenOverflow /\ tag.mem[4] = "ovf" /\ total > cc.len
      THEN total - cc.len ELSE cc.area

Mlen5_RoundsDown(tag, total) == Most(total \div AreaUnit, MinMlen)
Mlen5(tag, total) ==  \* the MLEN the writer wants
  LET wanted == Most(Up(total, AreaUnit), MinMlen)
      first == IF Cc5(tag.mem).len = 8 THEN 2 ELSE 1
  IN  IF Blocks(tag) > first
      THEN Least(wanted, ((Blocks(tag) - first) * PageSize) \div AreaUnit) ELSE wanted

WriteType5(tag, message) ==
  LET tlv == Tlv(message)
      cc == Cc5(tag.mem)
      mlen == Mlen5(tag, Len(tlv))
      program == cc.len # 8 /\ cc.mlen < mlen
      first == IF cc.len = 8 THEN 2 ELSE 1
      head == IF cc.len = 4 THEN [SubSeq(tag.mem, 1, 4) EXCEPT ![3] = Byte[mlen]]
              ELSE <<"E1", "rw", Byte[mlen], "00">>
      with == IF program THEN head \o SubSeq(tag.mem, 5, Len(tag.mem)) ELSE tag.mem
  IN  IF \/ message = <<>> \/ (cc.len # 0 /\ cc.access # "rw")
         \/ (Blocks(tag) # 0 /\ first + Up(Len(tlv), PageSize) > Blocks(tag))
      THEN Result(FALSE, tag.mem) ELSE WriteUnits(with, first * PageSize + 1, tlv)

ReadType5(tag) ==
  LET cc == Cc5(tag.mem)
      all == Up(Least(cc.len + Area5(tag), BufMax), PageSize)
      area(blocks) == SubSeq(tag.mem, cc.len + 1, PageSize * blocks)
      blocks == Stop({Least(ChunkBlocks * n, all) : n \in 1..Up(all, ChunkBlocks)},
                     LAMBDA n : PageSize * n > Len(tag.mem)
                                \/ (PageSize * n > cc.len /\ TlvComplete(area(n))))
  IN  IF cc.len = 0 \/ cc.access = "no" \/ PageSize * blocks > Len(tag.mem) THEN <<>>
      ELSE ParseTlvArea(area(blocks))

-----------------------------------------------------------------------------
(***************************************************************************)
(* Type 4 tags: [type, cc, id, mem].  mem is the NDEF file, whose first    *)
(* byte is the length NLEN, id its identifier and cc the CC file.          *)
(***************************************************************************)
\* A CC that is valid, of a file that has room for NLEN.
Cc4(cc) == cc.tlv = "04" /\ cc.mle >= MleMin /\ cc.mlc >= 1 /\ cc.size >= 1
\* Makes use of a CC if there is room for longest bytes of it.
Loaded4(cc, longest) == cc.len \in Cc4Len..longest /\ Cc4(cc)
\* n bytes in pieces of at most most: where each starts, and its length.
Pieces(n, most) ==
  [p \in 1..Up(n, most) |-> [at |-> (p - 1) * most, len |-> Least(most, n - (p - 1) * most)]]

\* The length is cleared first and set last; the writer has room for one more byte of the CC.
WriteType4(tag, message) ==
  LET cc == tag.cc
      pieces == Pieces(Len(message), Least(cc.mlc, UpdateMax))
      updates == <<[at |-> 1, bytes |-> <<Byte[0]>>]>>
        \o [p \in DOMAIN pieces |->
              [at |-> pieces[p].at + 2,
               bytes |-> SubSeq(message, pieces[p].at + 1, pieces[p].at + pieces[p].len)]]
        \o <<[at |-> 1, bytes |-> <<Byte[Len(message)]>>]>>
      after[n \in 0..Len(updates)] ==
        IF n = 0 THEN Result(TRUE, tag.mem)
        ELSE LET r == after[n - 1]
                 w == Put(r.mem, updates[n].at, updates[n].bytes)
             IN  IF r.ok /\ w.ok THEN w ELSE Result(FALSE, r.mem)
  IN  IF \/ message = <<>> \/ ~Loaded4(cc, Cc4Max + 1) \/ cc.write # "open"
         \/ Len(message) > cc.size - 1 \/ cc.mlc < 2 \/ cc.file # tag.id
      THEN Result(FALSE, tag.mem)
      ELSE after[Len(updates)]

ReadType4(tag) ==
  LET cc == tag.cc
      nlen == Number(tag.mem[1])
      pieces == Pieces(nlen, Least(cc.mle, ReadMax))
  IN  IF \/ ~Loaded4(cc, Cc4Max) \/ cc.read # "open" \/ cc.file # tag.id
         \/ nlen \notin 1..Least(cc.size - 1, BufMax) \/ nlen + 1 > Len(tag.mem)
      THEN <<>>
      ELSE << FlattenSeq([p \in DOMAIN pieces |->
                SubSeq(tag.mem, pieces[p].at + 2, pieces[p].at + pieces[p].len + 1)]) >>

-----------------------------------------------------------------------------
(***************************************************************************)
(* The host's tool, on a Type 2 or a Type 5 tag behind a CCID reader.      *)
(***************************************************************************)
\* The message of the area from index from on, judged after each of the counts
\* of bytes until one settles it.
Scan(mem, from, counts, total) ==
  LET area(n) == SubSeq(mem, from, n)
      found(n) == FindMessage(area(n))
      settled(n) ==
        /\ n >= from
        /\ \/ found(n).status = "ok"
           \/ found(n).status = "none" /\ (Contains(area(n), "FE") \/ n >= total)
      n == Stop({k \in counts : k <= Len(mem)}, settled)
  IN  IF settled(n) /\ found(n).status = "ok" THEN <<found(n).value>> ELSE <<>>

\* ParseType2Cc
Cc2Ok(mem) == Cc2(mem).valid /\ Cc2(mem).mlen # 0
ReadUnits(area) ==
  Least(Up(PageSize + Least(area, ScanMax), PageSize), Tier["216"].last - CcPage + 1)
ToolReadType2(tag) ==
  LET area == Cc2(tag.mem).mlen * AreaUnit
      total == PageSize + area
      group == GroupPages * PageSize
      counts == {Least(PageSize + group * k, Least(total, Len(tag.mem))) :
                   k \in 0..Up(ReadUnits(area) - 1, GroupPages)}
  IN  IF ~Cc2Ok(tag.mem) \/ Cc2(tag.mem).access = "no" THEN <<>>
      ELSE Scan(tag.mem, PageSize + 1, counts, total)
ToolWriteType2(tag, message) ==
  LET tlv == Tlv(message)
      cc == Cc2(tag.mem)
  IN  IF \/ ~Cc2Ok(tag.mem) \/ cc.access # "rw" \/ Len(tlv) > cc.mlen * AreaUnit
         \/ CcPage + Up(Len(tlv), PageSize) > Tier["216"].last
      THEN Result(FALSE, tag.mem) ELSE WriteUnits(tag.mem, PageSize + 1, tlv)

\* Type5DataAreaBytes: what the number of blocks leaves, if that is more than the CC says.
BlocksLeft(tag) ==
  LET first == Cc5(tag.mem).len \div PageSize
  IN  IF Blocks(tag) > first THEN Blocks(tag) - first ELSE 0
DataArea(tag) == Most(Area5(tag), BlocksLeft(tag) * PageSize)
ToolReadType5(tag) ==
  LET cc == Cc5(tag.mem)
      blocks == Up(cc.len + DataArea(tag), PageSize)
  IN  IF cc.len = 0 \/ cc.access = "no" THEN <<>>
      ELSE Scan(tag.mem, cc.len + 1, {PageSize * k : k \in 1..blocks}, PageSize * blocks)

\* The MLEN the tool wants.  What the blocks allow for is cut to the eight bits of
\* its byte: of a tag with two bytes' worth of units, it wants less than there is.
NeededMlen(tag, total) ==
  LET wanted == Most(Up(total, AreaUnit), AreaUnit)
      units == (BlocksLeft(tag) * PageSize) \div AreaUnit
  IN  IF BlocksLeft(tag) > 0 THEN Least(wanted, units % (MlenOverflow + 1)) ELSE wanted
ToolWriteType5(tag, message) ==
  LET tlv == Tlv(message)
      cc == Cc5(tag.mem)
      need == NeededMlen(tag, Len(tlv))
      with == IF cc.len = 4 /\ cc.mlen < need
              THEN <<"E1", "rw", Byte[need], "00">> \o SubSeq(tag.mem, 5, Len(tag.mem)) ELSE tag.mem
  IN  IF \/ cc.len = 0 \/ cc.access # "rw" \/ (tag.sys /\ Len(tlv) > DataArea(tag))
         \/ Up(Len(tlv), AreaUnit) > MlenOverflow
      THEN Result(FALSE, tag.mem) ELSE WriteUnits(with, cc.len + 1, tlv)

-----------------------------------------------------------------------------
Write(tag, message) ==
  CASE tag.type = 2 -> WriteType2(tag, message) [] tag.type = 4 -> WriteType4(tag, message)
    [] tag.type = 5 -> WriteType5(tag, message)
Read(tag) ==
  CASE tag.type = 2 -> ReadType2(tag) [] tag.type = 4 -> ReadType4(tag)
    [] tag.type = 5 -> ReadType5(tag)
ToolWrite(tag, message) ==
  IF tag.type = 2 THEN ToolWriteType2(tag, message) ELSE ToolWriteType5(tag, message)
ToolRead(tag) == IF tag.type = 2 THEN ToolReadType2(tag) ELSE ToolReadType5(tag)
=============================================================================
