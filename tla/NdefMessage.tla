------------------------------ MODULE NdefMessage ------------------------------
(***************************************************************************)
(* NDEF messages: the encoders of the firmware's writer and of the host's  *)
(* writer tool, the TLV they are stored in, and what the firmware's reader *)
(* and the host's reader tool make of the bytes they find.                 *)
(*                                                                         *)
(* A byte is a string.  Words that the code writes or compares as a whole  *)
(* ("mailto:", a MIME type, the two bytes of an attribute name) are one    *)
(* byte here, and so is every length whatever its width, Byte[n]; the      *)
(* constants that limit lengths are scaled to that.  "_" is a space, "CTL" *)
(* any control character but CR, LF and TAB.  An encoder that fails        *)
(* returns the empty message, as the code returns 0.                       *)
(***************************************************************************)
EXTENDS Integers, Sequences, SequencesExt, TLC

CONSTANTS
  UriMax,      \* WRITER_RTD_URI_PAYLOAD_MAX
  TextMax,     \* WRITER_RTD_TEXT_PAYLOAD_MAX
  BodyMax,     \* WRITER_RTD_VCARD_BODY_MAX
  ShortMax,    \* NERO_NFC_NDEF_SR_PAYLOAD_MAX
  MessageMax,  \* WRITER_NDEF_MAX_BYTES
  DecodeMax,   \* NERO_NFC_NDEF_DECODE_OUT_MAX
  Str1Max, Str2Max,  \* WRITER_STR1_MAX, WRITER_STR2_MAX
  SsidMax, PskMin, PskMax,
  MacOctets,   \* octets of a Bluetooth address
  RecordsMax, TotalMax,  \* NERO_NFC_NDEF_MAX_RECORDS, NERO_NFC_NDEF_MAX_TOTAL_BYTES
  OneByteMax,  \* longest value of a TLV with a one-byte length
  Byte,        \* for each length: the byte it is stored as
  Octets,      \* what a pair of hexadecimal digits may say
  Escape       \* for each byte no URI may hold: its two hexadecimal digits

ASSUME MessageSizesAssumption ==
  {UriMax, TextMax, BodyMax, ShortMax, MessageMax, DecodeMax, Str1Max, Str2Max, SsidMax,
   PskMin, PskMax, MacOctets, RecordsMax, TotalMax, OneByteMax} \subseteq Nat \ {0}

Cut(s, sep) ==  \* s up to the first sep, and what follows it
  LET i == SelectInSeq(s, LAMBDA b : b = sep)
  IN  IF i = 0 THEN [found |-> FALSE, before |-> s, after |-> <<>>]
      ELSE [found |-> TRUE, before |-> SubSeq(s, 1, i - 1), after |-> SubSeq(s, i + 1, Len(s))]
Split(s, sep) ==
  FoldLeft(LAMBDA parts, b : IF b = sep THEN Append(parts, <<>>)
                             ELSE [parts EXCEPT ![Len(parts)] = Append(@, b)],
           << <<>> >>, s)

\* A length as it is stored, and the header byte of a record.
Lengths == 0 .. (MessageMax + 4)
\* 0xFF says that the length is in the bytes behind it (NFC_NDEF_TLV_EXTENDED_LEN).
ASSUME BytesAssumption ==
  /\ Byte \in [Lengths -> STRING]
  /\ \A m, n \in Lengths : Byte[m] = Byte[n] => m = n
  /\ \A n \in Lengths : n <= OneByteMax => Byte[n] # "FF"
IsNumber(b) == \E n \in Lengths : Byte[n] = b
Number(b) == CHOOSE n \in Lengths : Byte[n] = b
Headers == [mb : BOOLEAN, me : BOOLEAN, cf : BOOLEAN, il : BOOLEAN, tnf : {"known", "mime"}]
HeaderByte == [h \in Headers |-> ToString(h)]
IsHeader(b) == \E h \in Headers : HeaderByte[h] = b

Record(tnf, type, payload) == [tnf |-> tnf, type |-> type, payload |-> payload]
RecordBytes(r, first, last) ==
  <<HeaderByte[[mb |-> first, me |-> last, cf |-> FALSE, il |-> FALSE, tnf |-> r.tnf]],
    Byte[1], Byte[Len(r.payload)], r.type>> \o r.payload
Bytes(records) ==
  FlattenSeq([i \in DOMAIN records |-> RecordBytes(records[i], i = 1, i = Len(records))])

\* The URI prefixes of one code each.
UriPrefix == [c \in {"00", "02", "04", "05", "06"} |->
  CASE c = "00" -> <<>> [] c = "02" -> <<"https://", "www.">> [] c = "04" -> <<"https://">>
    [] c = "05" -> <<"tel:">> [] c = "06" -> <<"mailto:">>]
HexPairs == Octets \cup {Escape[b] : b \in DOMAIN Escape}

DecodedUri(payload) ==  \* <<>> if it cannot be decoded
  LET code == Head(payload)
      rest == Tail(payload)
  IN  IF /\ payload # <<>> /\ code \in DOMAIN UriPrefix
         /\ Len(UriPrefix[code]) + Len(rest) < DecodeMax
         /\ \A i \in DOMAIN rest : /\ rest[i] \notin DOMAIN Escape
                                   /\ rest[i] = "%" => i < Len(rest) /\ rest[i + 1] \in HexPairs
      THEN UriPrefix[code] \o rest ELSE <<>>

-----------------------------------------------------------------------------
(***************************************************************************)
(* The firmware's encoders.                                                *)
(***************************************************************************)
Fit(bytes) == IF Len(bytes) <= MessageMax THEN bytes ELSE <<>>

EmitUri(code, uri) ==
  IF code \in DOMAIN UriPrefix /\ Len(uri) \in 1..UriMax
  THEN Fit(Bytes(<<Record("known", "U", <<code>> \o uri)>>)) ELSE <<>>
EmitText(text) ==
  IF Len(text) <= TextMax THEN Fit(Bytes(<<Record("known", "T", <<Byte[2], "e", "n">> \o text)>>))
  ELSE <<>>
EmitMime(type, payload) ==
  IF Len(payload) <= BodyMax /\ Len(payload) < ShortMax
  THEN Fit(Bytes(<<Record("mime", type, payload)>>)) ELSE <<>>

Attribute(name, value) == <<name, Byte[Len(value)]>> \o value
Wsc(ssid, psk) ==
  Attribute("Version", <<"v1">>) \o Attribute("Credential",
    Attribute("NetworkIndex", <<"01">>) \o Attribute("Ssid", ssid)
    \o Attribute("AuthType", <<"WPA2">>) \o Attribute("EncrType", <<"AES">>)
    \o Attribute("NetworkKey", psk) \o Attribute("MacAddress", <<"00">>))
Wifi(ssid, psk) ==
  IF Len(ssid) \in 1..SsidMax /\ Len(psk) \in PskMin..PskMax
  THEN EmitMime("wsc", Wsc(ssid, psk)) ELSE <<>>

Oob(mac) == <<Byte[MacOctets + 2], Byte[0]>> \o Reverse(mac)
MacText(s) ==  \* AA:BB:...
  /\ Len(s) = 2 * MacOctets - 1
  /\ \A i \in DOMAIN s : IF i % 2 = 1 THEN s[i] \in Octets ELSE s[i] = ":"
Bluetooth(s) ==
  IF MacText(s) THEN EmitMime("bt", Oob([i \in 1..MacOctets |-> s[2 * i - 1]])) ELSE <<>>

Line(name, value) == <<name, ":">> \o value \o <<"CR", "LF">>
Clean(s) == \A i \in DOMAIN s : s[i] # "CTL"
Vcard(name, tel, email) ==
  IF Clean(name) /\ Clean(tel) /\ Clean(email)
  THEN EmitMime("vcard", Line("BEGIN", <<"VCARD">>) \o Line("VERSION", <<"4">>) \o Line("FN", name)
                         \o Line("TEL", tel) \o Line("EMAIL", email) \o Line("END", <<"VCARD">>))
  ELSE <<>>

Sms(number, body) ==
  EmitUri("00", <<"sms:">> \o number \o (IF body # <<>> THEN <<"?body=">> \o body ELSE <<>>))
Mailto(address, subject, body) ==
  EmitUri("00", <<"mailto:">> \o address
    \o (IF subject # <<>> \/ body # <<>> THEN <<"?", "subject=">> \o subject ELSE <<>>)
    \o (IF body # <<>> THEN <<"&", "body=">> \o body ELSE <<>>))

\* cfg: the payload configuration, [kind, uriId, str1, str2, raw].
NoPayload == [kind |-> "none", uriId |-> "00", str1 |-> <<>>, str2 |-> <<>>, raw |-> <<>>]
BuildNdefMessage(cfg) ==
  LET pair == Cut(cfg.str2, "|") IN
  CASE cfg.kind = "none" -> <<>>
    [] cfg.kind = "url" -> EmitUri("04", cfg.str1)
    [] cfg.kind = "text" -> EmitText(cfg.str1)
    [] cfg.kind = "uri" -> EmitUri(cfg.uriId, cfg.str1)
    [] cfg.kind = "raw" -> Fit(cfg.raw)
    [] cfg.kind = "sms" -> Sms(cfg.str1, cfg.str2)
    [] cfg.kind = "mailto" -> Mailto(cfg.str1, pair.before, pair.after)
    [] cfg.kind = "geo" -> EmitUri("00", <<"geo:">> \o cfg.str1)
    [] cfg.kind = "vcard" -> Vcard(cfg.str1, pair.before, pair.after)
    [] cfg.kind = "wifi" -> Wifi(cfg.str1, cfg.str2)
    [] cfg.kind = "bt" -> Bluetooth(cfg.str1)

-----------------------------------------------------------------------------
(***************************************************************************)
(* The TLV a message is stored in.                                         *)
(***************************************************************************)
LengthField(n) == IF n <= OneByteMax THEN <<Byte[n]>> ELSE <<"FF", "hi", Byte[n]>>
Tlv(message) == <<"03">> \o LengthField(Len(message)) \o message \o <<"FE">>
EnvelopeLen(n) == n + (IF n <= OneByteMax THEN 3 ELSE 5)

\* The TLV from position p on: status, type, value and where the next one starts.
TlvNext(data, p) ==
  LET starts == {i \in p..Len(data) : data[i] # "00"}
      s == CHOOSE i \in starts : \A j \in starts : i <= j
      stop(status, next) == [status |-> status, type |-> "", value |-> <<>>, next |-> next]
      wide == s < Len(data) /\ data[s + 1] = "FF"
      at == IF wide THEN s + 3 ELSE s + 1
  IN  IF starts = {} THEN stop("none", Len(data) + 1)
      ELSE IF data[s] = "FE" THEN stop("none", s + 1)
      ELSE IF at > Len(data) \/ ~IsNumber(data[at]) \/ at + Number(data[at]) > Len(data)
      THEN stop("truncated", Len(data) + 1)
      ELSE [status |-> "ok", type |-> data[s], value |-> SubSeq(data, at + 1, at + Number(data[at])),
            next |-> at + Number(data[at]) + 1]

\* Whether the message TLV is found whole, is cut off, or is not there.
FindMessage(data) ==
  LET from[p \in 1..(Len(data) + 1)] ==
        LET t == TlvNext(data, p) IN IF t.status # "ok" \/ t.type = "03" THEN t ELSE from[t.next]
  IN  from[1]

\* reader_tags_parse_ndef_tlv_area: every message of the area, up to what ends it.
ParseTlvArea(data) ==
  LET from[p \in 1..(Len(data) + 1)] ==
        LET t == TlvNext(data, p)
        IN  CASE t.status = "none" -> <<>>
              [] t.status = "truncated" -> << <<"truncated">> >>
              [] OTHER -> (IF t.type = "03" THEN <<t.value>> ELSE <<>>) \o from[t.next]
  IN  from[1]

-----------------------------------------------------------------------------
(***************************************************************************)
(* The reader's decoders.                                                  *)
(***************************************************************************)
RecordNext(rest) ==  \* the first record of rest
  LET stop(status) == [status |-> status, len |-> 0, record |-> Record("known", "", <<>>), me |-> TRUE]
      h == CHOOSE x \in Headers : HeaderByte[x] = Head(rest)
      ids == IF h.il THEN Number(rest[4]) ELSE 0
      type == IF h.il THEN 5 ELSE 4
      body == type + Number(rest[2]) + ids
      end == body + Number(rest[3]) - 1
  IN  IF rest = <<>> THEN stop("truncated")
      ELSE IF Head(rest) = "00" THEN [stop("empty") EXCEPT !.len = 1]
      ELSE IF ~IsHeader(Head(rest)) THEN stop("truncated")
      ELSE IF h.cf THEN stop("unsupported")
      ELSE IF \/ Len(rest) < 3 \/ ~IsNumber(rest[2]) \/ ~IsNumber(rest[3])
              \/ (h.il /\ (Len(rest) < 4 \/ ~IsNumber(rest[4]))) THEN stop("truncated")
      ELSE IF end > Len(rest) THEN stop("truncated")
      ELSE [status |-> "ok", len |-> end, me |-> h.me,
            record |-> Record(h.tnf, rest[type], SubSeq(rest, body, end))]

Records(message) ==
  LET from[p \in 1..(Len(message) + 1)] ==
        LET r == RecordNext(SubSeq(message, p, Len(message)))
        IN  CASE r.status = "empty" -> from[p + 1]
              [] r.status = "ok" -> <<r.record>> \o (IF r.me THEN <<>> ELSE from[p + r.len])
              [] OTHER -> <<>>
  IN  from[1]

Shown(what, fields) == [what |-> what, fields |-> fields]
Undecoded == Shown("undecoded", <<>>)

\* The value of the first line that holds the property.
VcardProperty(payload, name) ==
  LET lines == Split(SelectSeq(payload, LAMBDA b : b # "CR"), "LF")
      i == SelectInSeq(lines, LAMBDA l : Len(l) > 1 /\ l[1] = name /\ l[2] \in {":", ";"})
  IN  IF i = 0 THEN [found |-> FALSE, value |-> <<>>]
      ELSE [found |-> TRUE, value |-> Cut(Tail(lines[i]), ":").after]
DecodedVcard(payload) ==
  LET name == VcardProperty(payload, "FN")
  IN  IF Clean(payload) /\ name.found
      THEN Shown("contact", <<name.value, VcardProperty(payload, "TEL").value,
                              VcardProperty(payload, "EMAIL").value>>)
      ELSE Undecoded

WscAttribute(payload, name) ==
  LET none == [found |-> FALSE, value |-> <<>>]
      from[p \in 1..(Len(payload) + 1)] ==
        IF p + 1 > Len(payload) \/ ~IsNumber(payload[p + 1]) THEN none
        ELSE LET end == p + 1 + Number(payload[p + 1])
             IN  IF end > Len(payload) THEN none
                 ELSE IF payload[p] = name THEN [found |-> TRUE, value |-> SubSeq(payload, p + 2, end)]
                 ELSE from[end + 1]
  IN  from[1]
DecodedWsc(payload) ==
  LET credential == WscAttribute(payload, "Credential")
      value(name) == WscAttribute(credential.value, name)
      known(name, byte) == IF value(name).value = <<byte>> THEN <<byte>> ELSE <<"unknown">>
  IN  IF /\ credential.found /\ value("Ssid").found
         /\ Clean(value("Ssid").value) /\ Clean(value("NetworkKey").value)
      THEN Shown("wifi", <<value("Ssid").value, value("NetworkKey").value,
                           known("AuthType", "WPA2"), known("EncrType", "AES")>>)
      ELSE Undecoded

DecodedOob(payload) ==
  IF /\ Len(payload) >= MacOctets + 2 /\ payload[2] = Byte[0]
     /\ IsNumber(payload[1]) /\ Number(payload[1]) >= MacOctets + 2
  THEN Shown("bt", <<Reverse(SubSeq(payload, 3, MacOctets + 2))>>) ELSE Undecoded

DecodedText(payload) ==
  LET start == 2 + Number(Head(payload))
  IN  IF /\ payload # <<>> /\ IsNumber(Head(payload))
         /\ start <= Len(payload) + 1 /\ Len(payload) - start + 1 < DecodeMax
      THEN Shown("text", <<SubSeq(payload, start, Len(payload))>>) ELSE Undecoded

Summary(r) ==  \* print_ndef_record_summary
  CASE r.tnf = "known" /\ r.type = "U" /\ DecodedUri(r.payload) # <<>> ->
         Shown("uri", <<DecodedUri(r.payload)>>)
    [] r.tnf = "known" /\ r.type = "T" -> DecodedText(r.payload)
    [] r.tnf = "mime" /\ r.type = "vcard" -> DecodedVcard(r.payload)
    [] r.tnf = "mime" /\ r.type = "wsc" -> DecodedWsc(r.payload)
    [] r.tnf = "mime" /\ r.type = "bt" -> DecodedOob(r.payload)
    [] OTHER -> Undecoded
Summaries(message) == [i \in DOMAIN Records(message) |-> Summary(Records(message)[i])]

-----------------------------------------------------------------------------
(***************************************************************************)
(* The decoders of the host's reader tool.  The contacts, networks and     *)
(* addresses are taken apart by code of its own, texts and URIs by the     *)
(* firmware's.                                                             *)
(***************************************************************************)
TextLines(s) ==  \* without the empty ones
  SelectSeq(Split([i \in DOMAIN s |-> IF s[i] = "CR" THEN "LF" ELSE s[i]], "LF"), LAMBDA l : l # <<>>)
Property(payload, name) ==
  LET lines == TextLines(payload)
      i == SelectInSeq(lines, LAMBDA l : Cut(l, ":").found /\ l[1] = name /\ l[2] \in {":", ";"})
  IN  IF i = 0 THEN [found |-> FALSE, value |-> <<>>]
      ELSE [found |-> TRUE, value |-> Cut(lines[i], ":").after]
DecodeVcardPayload(payload) ==
  LET shown == [i \in 1..3 |-> Property(payload, <<"FN", "TEL", "EMAIL">>[i])]
      begins == \E i \in DOMAIN payload : IsPrefix(<<"BEGIN", ":", "VCARD">>,
                                                    SubSeq(payload, i, Len(payload)))
  IN  IF Clean(payload) /\ begins /\ \E i \in 1..3 : shown[i].found
      THEN Shown("contact", [i \in 1..3 |-> shown[i].value]) ELSE Undecoded

DecodeWifiWscPayload(payload) ==  \* a key that cannot be displayed is left out
  LET credential == WscAttribute(payload, "Credential")
      value(name) == WscAttribute(credential.value, name)
      known(name, byte) == IF value(name).value = <<byte>> THEN <<byte>> ELSE <<"unknown">>
      key == value("NetworkKey").value
  IN  IF credential.found /\ value("Ssid").found /\ Clean(value("Ssid").value)
      THEN Shown("wifi", <<value("Ssid").value, IF Clean(key) THEN key ELSE <<>>,
                           known("AuthType", "WPA2"), known("EncrType", "AES")>>)
      ELSE Undecoded

DecodeBluetoothOobPayload(payload) ==
  IF \/ Len(payload) < MacOctets + 2 \/ payload[2] # Byte[0] \/ ~IsNumber(payload[1])
     \/ \E n \in 0..(MacOctets + 1) : payload[1] = Byte[n]
  THEN Undecoded ELSE Shown("bt", << [i \in 1..MacOctets |-> payload[MacOctets + 3 - i]] >>)

DecodeRecordPayload(r) ==
  CASE r.tnf = "known" /\ r.type = "T" -> DecodedText(r.payload)
    [] r.tnf = "known" /\ r.type = "U" /\ DecodedUri(r.payload) # <<>> ->
         Shown("uri", <<DecodedUri(r.payload)>>)
    [] r.tnf = "mime" /\ r.type = "vcard" -> DecodeVcardPayload(r.payload)
    [] r.tnf = "mime" /\ r.type = "wsc" -> DecodeWifiWscPayload(r.payload)
    [] r.tnf = "mime" /\ r.type = "bt" -> DecodeBluetoothOobPayload(r.payload)
    [] OTHER -> Undecoded
ParseNdefRecords(message) ==
  LET records == Records(message)
  IN  IF Len(message) > TotalMax THEN <<>>
      ELSE [i \in 1..(IF Len(records) < RecordsMax THEN Len(records) ELSE RecordsMax) |->
              DecodeRecordPayload(records[i])]
\* For the history of what is announced: what both readers show of a message.
ShownBy(message) == [reader |-> Summaries(message), tool |-> ParseNdefRecords(message)]

-----------------------------------------------------------------------------
(***************************************************************************)
(* The host's writer tool: one record per flag, one message of them all.   *)
(***************************************************************************)
ShortRecord(tnf, type, payload) ==  \* <<>> if it fails
  IF Len(payload) <= ShortMax THEN <<Record(tnf, type, payload)>> ELSE <<>>
BuildNdefTextRecord(text) ==
  LET payload == <<Byte[2], "e", "n">> \o text
  IN  IF Len(text) < DecodeMax THEN ShortRecord("known", "T", payload) ELSE <<>>
BuildNdefUriRecord(uri) ==  \* the longest prefix that fits
  LET codes == {c \in DOMAIN UriPrefix : IsPrefix(UriPrefix[c], uri)}
      code == CHOOSE c \in codes : \A d \in codes : Len(UriPrefix[c]) >= Len(UriPrefix[d])
      payload == <<code>> \o SubSeq(uri, Len(UriPrefix[code]) + 1, Len(uri))
  IN  IF DecodedUri(payload) # <<>> THEN ShortRecord("known", "U", payload) ELSE <<>>

UrlComponentEncode(s) ==
  FlattenSeq([i \in DOMAIN s |-> IF s[i] \in DOMAIN Escape THEN <<"%", Escape[s[i]]>> ELSE <<s[i]>>])
Part(spec, i) == LET parts == Split(spec, "|") IN IF i <= Len(parts) THEN parts[i] ELSE <<>>
Query(mark, name, value) ==
  IF value = <<>> THEN <<>> ELSE <<mark, name>> \o UrlComponentEncode(value)

BuildWriterMailRecord(spec) ==
  IF Part(spec, 1) = <<>> THEN <<>>
  ELSE BuildNdefUriRecord(<<"mailto:">> \o Part(spec, 1) \o Query("?", "subject=", Part(spec, 2))
         \o Query(IF Part(spec, 2) = <<>> THEN "?" ELSE "&", "body=", Part(spec, 3)))
BuildWriterSmsRecord(spec) ==
  IF Part(spec, 1) = <<>> THEN <<>>
  ELSE BuildNdefUriRecord(<<"sms:">> \o Part(spec, 1)
         \o (IF Part(spec, 2) = <<>> THEN <<>> ELSE <<"?body=">> \o UrlComponentEncode(Part(spec, 2))))
BuildWriterVcardRecord(spec) ==
  LET optional(name, i) == IF Part(spec, i) = <<>> THEN <<>> ELSE Line(name, Part(spec, i))
  IN  IF Part(spec, 1) = <<>> \/ ~Clean(spec) THEN <<>>
      ELSE ShortRecord("mime", "vcard",
             Line("BEGIN", <<"VCARD">>) \o Line("VERSION", <<"4">>) \o Line("FN", Part(spec, 1))
             \o optional("TEL", 2) \o optional("EMAIL", 3) \o Line("END", <<"VCARD">>))
BuildWriterWifiRecord(spec) ==
  IF Part(spec, 1) = <<>> \/ Len(Part(spec, 2)) \notin PskMin..PskMax THEN <<>>
  ELSE ShortRecord("mime", "wsc", Wsc(Part(spec, 1), Part(spec, 2)))
BuildWriterBluetoothRecord(value) ==
  LET compact == SelectSeq(value, LAMBDA b : b \notin {":", "-", "_"})
  IN  IF Len(compact) = MacOctets /\ ToSet(compact) \subseteq Octets
      THEN ShortRecord("mime", "bt", Oob(compact)) ELSE <<>>

\* A flag and its value: <<>> if the value is refused.
RecordOf(flag, value) ==
  CASE flag \in {"uri", "link", "unit-link", "social", "video", "file", "application"} ->
         BuildNdefUriRecord(value)
    [] flag \in {"text", "data"} -> BuildNdefTextRecord(value)
    [] flag = "search" ->
         BuildNdefUriRecord(<<"https://", "www.", "search?q=">> \o UrlComponentEncode(value))
    [] flag \in {"mail", "mailto"} -> BuildWriterMailRecord(value)
    [] flag = "contact" -> BuildWriterVcardRecord(value)
    [] flag \in {"phone", "phone-number"} -> BuildNdefUriRecord(<<"tel:">> \o value)
    [] flag = "sms" -> BuildWriterSmsRecord(value)
    [] flag \in {"location", "custom-location"} ->
         BuildNdefUriRecord((IF IsPrefix(<<"geo:">>, value) THEN <<>> ELSE <<"geo:">>) \o value)
    [] flag \in {"address", "destination-address"} ->
         BuildNdefUriRecord(<<"https://", "www.", "maps/">> \o UrlComponentEncode(value))
    [] flag = "bluetooth" -> BuildWriterBluetoothRecord(value)
    [] flag = "wifi" -> BuildWriterWifiRecord(value)

\* --ndef-hex: a whole storage TLV is unwrapped.
Normalize(bytes) ==
  LET t == FindMessage(bytes)
  IN  IF /\ bytes # <<>> /\ Head(bytes) = "03" /\ t.status = "ok"
         /\ t.next = Len(bytes) /\ bytes[t.next] = "FE"
      THEN t.value ELSE bytes

\* args: sequence of [flag, value]; the message the tool sends, <<>> if none.
\* A --ndef-hex drops the records before it, a record the bytes before it.
ToolMessage(args) ==
  LET hex == {i \in DOMAIN args : args[i].flag = "ndef-hex"}
      made == [i \in DOMAIN args |->
                 IF i \in hex THEN Normalize(args[i].value) ELSE RecordOf(args[i].flag, args[i].value)]
      records == FlattenSeq([i \in DOMAIN args |-> IF \E j \in hex : i <= j THEN <<>> ELSE made[i]])
  IN  CASE args = <<>> \/ \E i \in DOMAIN args : made[i] = <<>> -> <<>>
        [] records # <<>> -> Bytes(records)
        [] OTHER -> made[Max(hex)]
=============================================================================
