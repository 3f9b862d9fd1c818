------------------------------- MODULE WriteBack -------------------------------
(***************************************************************************)
(* From the host's command to the reader's log: the console configures a   *)
(* payload, the writer puts it on a tag, the reader reads that tag and     *)
(* prints what it finds.  A tag stays for one turn of the main loop: what  *)
(* it holds afterwards is read back in the properties, by the firmware and *)
(* by the host's tool.  A tag may also come that the writer of another     *)
(* device or the host's tool has written.                                  *)
(***************************************************************************)
EXTENDS Console, TagGeometry

CONSTANTS
  Tags,      \* tags that may be put on the antenna, as TagGeometry has them
  NoTag,
  Messages,  \* messages written elsewhere
  Lines      \* the lines of HostBytes, each with the fields it asks for

\* A Type 2 tag has at least what one READ returns, a Type 5 tag at least a block
\* behind the longer CC and a CC that declares no more than there is.
Tag2s == [type : {2}, version : STRING, st : BOOLEAN, mem : Seq(STRING)]
Tag4s == [type : {4}, id : STRING, mem : Seq(STRING),
          cc : [len : Nat, tlv : STRING, mle : Nat, mlc : Nat, file : STRING, size : Nat,
                read : STRING, write : STRING]]
Tag5s == [type : {5}, sys : BOOLEAN, mem : Seq(STRING)]
ASSUME WellFormedTags ==
  \A t \in Tags :
    \/ t \in Tag2s /\ Len(t.mem) >= PageSize * GroupPages
    \/ t \in Tag4s
    \/ /\ t \in Tag5s /\ Len(t.mem) % PageSize = 0 /\ Len(t.mem) >= 3 * PageSize
       /\ t.sys /\ Cc5(t.mem).len # 0 => Cc5(t.mem).len + Area5(t) <= Len(t.mem)
ASSUME MessagesAssumption ==
  \A m \in Messages : m \in Seq(STRING) /\ Len(m) \in 1..MessageMax

VARIABLES
  tag,     \* the tag on the antenna after the last turn
  written  \* history: the message whose write on it was reported as a success

vars == <<consoleVars, tag, written>>

WriteBackInit == Init /\ tag = NoTag /\ written = <<>>

\* The turn's use of the antenna, with no tag or with one.
Idle == pc = "rf" /\ pc' = "poll" /\ UNCHANGED <<out, hw, ring, scan, mode, line, over, cfg, sent,
                                                 said, tag, written>>
Tap ==
  /\ pc = "rf" /\ mode = "writer" /\ cfg.kind # "none"
  /\ \E t \in Tags :
       LET w == Write(t, BuildNdefMessage(cfg))
       IN  /\ tag' = [t EXCEPT !.mem = w.mem]
           /\ written' = IF w.ok THEN BuildNdefMessage(cfg) ELSE <<>>
  /\ pc' = "poll"
  /\ UNCHANGED <<out, hw, ring, scan, mode, line, over, cfg, sent, said>>

\* A tag that was written elsewhere comes.  Bound: only before the host's first line,
\* which has no bearing on it.
Brought ==
  /\ pc = "rf" /\ sent = <<>>
  /\ \E t \in Tags, m \in Messages :
       \E w \in {Write(t, m)} \cup (IF t.type = 4 THEN {} ELSE {ToolWrite(t, m)}) :
         /\ tag' = [t EXCEPT !.mem = w.mem]
         /\ written' = IF w.ok THEN m ELSE <<>>
  /\ pc' = "poll"
  /\ UNCHANGED <<out, hw, ring, scan, mode, line, over, cfg, sent, said>>

\* The tag of the last turn is gone.
Gone == tag' = NoTag /\ written' = <<>>
Next ==
  \/ Idle \/ Tap \/ Brought
  \/ (HostSends /\ Gone) \/ (Arrive /\ Gone)
  \/ (PollModeSwitch /\ Gone) \/ (Available /\ Gone) \/ (ReadRing /\ Gone) \/ (ReadDirect /\ Gone)
Spec == WriteBackInit /\ [][Next]_vars

-----------------------------------------------------------------------------
(***************************************************************************)
(* Properties.                                                             *)
(***************************************************************************)
\* A summary with its percent-encoding undone.
Unescaped(s) ==
  LET at == {i \in DOMAIN s : s[i] = "%"}
      plain(i) == IF i \in at THEN CHOOSE b \in DOMAIN Escape : Escape[b] = s[i + 1] ELSE s[i]
  IN  [j \in 1..(Len(s) - Cardinality(at)) |->
         LET i == CHOOSE i \in DOMAIN s : /\ i - 1 \notin at
                                          /\ Cardinality({k \in at : k < i}) = i - j
         IN  plain(i)]
AsAsked(summaries) ==
  [i \in DOMAIN summaries |->
     IF summaries[i].what # "uri" THEN summaries[i]
     ELSE [summaries[i] EXCEPT !.fields = [f \in DOMAIN @ |-> Unescaped(@[f])]]]

\* A payload that the console announces decodes to what a line of the host
\* asks for, as the firmware's reader prints it and as the host's reader tool
\* does, and the announcements come in the order of the lines: nothing the
\* scanner holds back, returns or drops, and nothing that is left in a field by
\* an earlier command, gets into a payload (writer_serial_cli_poll,
\* scan_mode_switch, build_ndef_message, the host's writer tool;
\* print_ndef_record_summary, DecodeRecordPayload).
AnnouncedIsAsked ==
  \E lines \in SUBSET DOMAIN sent :
    /\ \A i \in lines : sent[i] \in DOMAIN Lines
    /\ Cardinality(lines) = Len(said)
    /\ \A i \in lines :
         LET shown == said[Cardinality({j \in lines : j <= i})]
         IN  AsAsked(shown.reader) = Lines[sent[i]] /\ AsAsked(shown.tool) = Lines[sent[i]]

\* What the scanner, when it is empty, makes of bytes i to j: it holds them back one
\* by one and with the last it returns them all.
Returned(bytes, i, j) ==
  /\ \A k \in i..(j - 1) : Fed(SubSeq(bytes, i, k - 1), bytes[k]).scan = SubSeq(bytes, i, k)
  /\ Fed(SubSeq(bytes, i, j - 1), bytes[j]).back # <<>>
\* Whichever of the bytes it begins with, it returns that one before their end.
Unmistaken(bytes) == \A i \in DOMAIN bytes : \E j \in i..Len(bytes) : Returned(bytes, i, j)

ModeLines == {ModeLine(m) \o <<"LF">> : m \in {"reader", "writer"}}

\* What the console makes of bytes that are typed one by one, and what it may hold
\* when, since it was set up, no more than n glitches were.
TypedAll(s, bytes) ==
  LET after[n \in 0..Len(bytes)] == IF n = 0 THEN s ELSE Typed(after[n - 1], bytes[n])
  IN  after[Len(bytes)]
Fresh == [ring |-> <<>>, scan |-> <<>>, mode |-> "writer", line |-> <<>>, over |-> FALSE,
          cfg |-> NoPayload, said |-> <<>>]
Glitches == {bytes \in HostBytes : \A i \in DOMAIN bytes : bytes[i] \notin {"CR", "LF"}}
Opened ==
  LET after[n \in 0..SentMax] ==
        IF n = 0 THEN {Fresh}
        ELSE after[n - 1] \cup {TypedAll(s, bytes) : s \in after[n - 1], bytes \in Glitches}
  IN  after
\* Each line of the host by itself, typed into a writer that has just been set up or
\* behind glitches in it, is announced as what it asks for, if it is announced.
Asking ==
  \A bytes \in HostBytes \ (ModeLines \cup Glitches) :
    /\ \A i \in DOMAIN bytes : bytes[i] # "CR" /\ (bytes[i] = "LF" <=> i = Len(bytes))
    /\ \A s \in Opened[SentMax - 1] :
         \A i \in DOMAIN TypedAll(s, bytes).said :
           LET shown == TypedAll(s, bytes).said[i]
           IN  /\ bytes \in DOMAIN Lines
               /\ AsAsked(shown.reader) = Lines[bytes] /\ AsAsked(shown.tool) = Lines[bytes]

\* When all that the host sent has been looked at, the mode is that of its last
\* mode line.  Neither what the reader has no use for nor what the writer's
\* command line has yet to take keeps the scanner from it: "a leading glitch (or
\* a premature ndef-hex) would permanently hide a later mode writer"
\* (scan_mode_switch).  A glitch that reads like the beginning of a mode line
\* does hide the next one: all that the host of these runs sends is a mode line
\* or Unmistaken.
ReaderHearsModeLine ==
  LET modes == {i \in DOMAIN sent : sent[i] \in ModeLines}
  IN  /\ out = <<>> /\ hw = <<>> /\ scan = <<>>
      /\ ring = <<>> \/ (mode = "reader" /\ pc = "rf")
      => mode = IF modes = {} THEN "reader"
                ELSE IF sent[Max(modes)] = ModeLine("writer") \o <<"LF">> THEN "writer" ELSE "reader"

\* What a writer reports as a success is what the firmware's reader and the
\* host's tool find on the tag.  The reader, on a Type 4 tag, if the file may be
\* read and there is room for its CC; on the others, if neither the length byte
\* nor a byte of the message is the TLV terminator; on a Type 5 tag, if it says
\* how many blocks it has and the CC declares enough of them, which the writers see
\* to when MLEN can count them all: the firmware rounds it down when their number
\* is even, and the tool's bound on it is cut to a byte when there are too many
\* (Type5RefreshCcIfNeeded).  The tool's reader needs none of these; but neither
\* writer looks at the area of an 8-byte CC, and neither reader finds a message
\* that goes beyond it if the tag does not say how many blocks it has
\* (writer_tag_write_type2_impl, _type4_impl and _type5_impl and the tool's
\* WriteType2StorageNdef and WriteType5StorageNdef against
\* reader_tags_read_ntag_tag, reader_tags_read_type4_ndef, read_type5_tlv_area,
\* ReadStorageNdefTlv and ReadType5NdefTlv).
Covered == Area5(tag) >= EnvelopeLen(Len(written))
MlenCountsAll ==
  /\ Cc5(tag.mem).len = 4 /\ Blocks(tag) % 2 = 1
  /\ ((Blocks(tag) - 1) * PageSize) \div AreaUnit <= MlenOverflow
ReaderCanFind ==
  /\ IF tag.type = 4 THEN tag.cc.read = "open" /\ tag.cc.len <= Cc4Max
     ELSE ~Contains(LengthField(Len(written)) \o written, "FE")
  /\ tag.type = 5 => tag.sys /\ (MlenCountsAll \/ Covered)
ToolCanFind ==
  /\ tag.type # 4
  /\ tag.type = 5 => tag.sys \/ Cc5(tag.mem).len = 4 \/ Covered
SuccessIsReadBack ==
  written # <<>> => /\ ReaderCanFind => Read(tag) = <<written>>
                    /\ ToolCanFind => ToolRead(tag) = <<written>>

\* The reader "dumps any NDEF message found inside the TLV payload"
\* (read_type5_tlv_area): a message whose TLV lies within the area that the
\* CC declares is among those it finds.
DumpsAnyMessage ==
  tag # NoTag /\ tag.type = 5 /\ Cc5(tag.mem).len # 0 =>
    LET cc == Cc5(tag.mem)
        found == FindMessage(SubSeq(tag.mem, cc.len + 1, Least(cc.len + Area5(tag), Len(tag.mem))))
    IN  found.status = "ok" => \E i \in DOMAIN Read(tag) : Read(tag)[i] = found.value

\* The mode changes only for a line that is "exactly" a mode line
\* (nfc_mode_scan_feed).
ModeSwitchOnlyOnModeLine ==
  [][mode' # mode => \E i \in DOMAIN sent : sent[i] = ModeLine(mode') \o <<"LF">>]_mode
=============================================================================
