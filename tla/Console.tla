-------------------------------- MODULE Console --------------------------------
(***************************************************************************)
(* The serial console of the combined firmware: bytes of the host go       *)
(* through a ring and a scanner that looks for "mode reader" and           *)
(* "mode writer"; what it does not want goes back to the head of the ring, *)
(* from where the writer's command line takes one byte per turn of the     *)
(* main loop.  In reader mode nobody takes them and they are dropped.      *)
(*                                                                         *)
(* Bytes are those of NdefMessage.  A mode line is <<"m", "_", "R">> or    *)
(* <<"m", "_", "W">>: "m" and "_" are the prefix "mode ", any command word *)
(* and the hexadecimal digits of a whole message are one byte.             *)
(*                                                                         *)
(* A definition named X_... that nothing refers to is X with a plausible   *)
(* mistake, see IsoDep.                                                    *)
(***************************************************************************)
EXTENDS NdefMessage

CONSTANTS
  HostBytes,    \* what the host sends at a time: a line with its "LF", or a glitch
  SentMax,      \* bound: how often it does
  HexMessages,  \* the message that each byte of hexadecimal digits stands for
  HwMax,        \* bytes the USB stack or UART holds
  RingCap,      \* NERO_NFC_APP_SERIAL_RX_CAP
  ScanCap,      \* NFC_MODE_SCAN_CAP
  LineCap,      \* WRITER_CLI_LINE_CAP
  Late          \* whether a byte may come between a look at the ring and a direct read

ASSUME ConsoleSizesAssumption ==
  {SentMax, HwMax, RingCap, ScanCap, LineCap} \subseteq Nat \ {0}
ASSUME HostAssumption ==
  /\ HostBytes \subseteq Seq(STRING)
  /\ \A h \in DOMAIN HexMessages : HexMessages[h] \in Seq(STRING)

ModeLine(mode) == <<"m", "_", IF mode = "writer" THEN "W" ELSE "R">>

VARIABLES
  out,   \* what the host has still to deliver of what it sends
  hw,    \* bytes received and not read
  ring,  \* serial_rx
  scan,  \* mode_scan: the bytes it holds
  mode,  \* runtime_mode
  pc,    \* where the main loop is
  line,  \* cli_line
  over,  \* cli_line_overflow
  cfg,   \* the payload configuration
  sent,  \* history: what the host sent
  said   \* history: what both readers show of the payloads announced as updated

consoleVars == <<out, hw, ring, scan, mode, pc, line, over, cfg, sent, said>>

Init ==
  /\ out = <<>> /\ hw = <<>> /\ ring = <<>> /\ scan = <<>>
  /\ mode = "reader" /\ pc = "poll"
  /\ line = <<>> /\ over = FALSE /\ cfg = NoPayload
  /\ sent = <<>> /\ said = <<>>

-----------------------------------------------------------------------------
(***************************************************************************)
(* The ring and the scanner.                                               *)
(***************************************************************************)
\* What the scanner does with a byte: what it holds then, and the mode it has
\* recognised or the bytes it pushes back.
Fed(held, ch) ==
  LET keep(s) == [scan |-> s, mode |-> "", back |-> <<>>]
      all == Append(held, ch)
  IN  CASE ch = "CR" -> keep(held)
        [] ch = "LF" ->
             IF \E m \in {"reader", "writer"} : held = ModeLine(m)
             THEN [keep(<<>>) EXCEPT !.mode = IF held = ModeLine("writer") THEN "writer" ELSE "reader"]
             ELSE [keep(<<>>) EXCEPT !.back = all]
        [] OTHER ->
             IF \/ (Len(held) < 2 /\ ch # ModeLine("reader")[Len(all)])
                \/ Len(all) >= ScanCap - 1
             THEN [keep(<<>>) EXCEPT !.back = all] ELSE keep(all)

Here == [ring |-> ring, scan |-> scan, mode |-> mode, line |-> line, over |-> over, cfg |-> cfg,
         said |-> said]
\* nfc_hal_preload_serial
Preloaded(s, n) == [s EXCEPT !.ring = @ \o SubSeq(hw, 1, n)]
Room == LET free == RingCap - 1 - Len(ring) IN IF Len(hw) < free THEN Len(hw) ELSE free

\* do_mode_switch: a writer that is set up anew forgets its payload and its line.
Switched(s, new) ==
  IF new = s.mode THEN s
  ELSE [s EXCEPT !.mode = new, !.scan = <<>>,
                 !.line = IF new = "writer" THEN <<>> ELSE @,
                 !.over = IF new = "writer" THEN FALSE ELSE @,
                 !.cfg = IF new = "writer" THEN NoPayload ELSE @]

\* scan_mode_switch over the whole ring.  What it pushes back behind the bytes that are
\* left is lost if there is no room for all of it.
Fits(back, left) == IF Len(back) + left < RingCap THEN back ELSE <<>>
Scanned_StopsInReader(s) ==
  LET step(t, ch, left) ==
        IF t.done THEN [t EXCEPT !.s.ring = Append(@, ch)]
        ELSE LET f == Fed(t.s.scan, ch)
             IN  IF f.mode # "" THEN [t EXCEPT !.s = Switched([@ EXCEPT !.scan = <<>>], f.mode)]
                 ELSE IF f.back = <<>> THEN [t EXCEPT !.s.scan = f.scan]
                 ELSE [t EXCEPT !.s.scan = <<>>, !.s.ring = Fits(f.back, left), !.done = TRUE]
      after[n \in 0..Len(s.ring)] ==
        IF n = 0 THEN [s |-> [s EXCEPT !.ring = <<>>], done |-> FALSE]
        ELSE step(after[n - 1], s.ring[n], Len(s.ring) - n)
  IN  after[Len(s.ring)].s
Scanned(s) ==
  LET step(t, ch, left) ==
        IF t.done THEN [t EXCEPT !.s.ring = Append(@, ch)]
        ELSE LET f == Fed(t.s.scan, ch)
             IN  IF f.mode # "" THEN [t EXCEPT !.s = Switched([@ EXCEPT !.scan = <<>>], f.mode)]
                 ELSE IF f.back = <<>> THEN [t EXCEPT !.s.scan = f.scan]
                 ELSE IF t.s.mode = "writer"
                      THEN [t EXCEPT !.s.scan = <<>>, !.s.ring = Fits(f.back, left), !.done = TRUE]
                 ELSE [t EXCEPT !.s.scan = <<>>]
      after[n \in 0..Len(s.ring)] ==
        IF n = 0 THEN [s |-> [s EXCEPT !.ring = <<>>], done |-> FALSE]
        ELSE step(after[n - 1], s.ring[n], Len(s.ring) - n)
  IN  after[Len(s.ring)].s

Now(s) ==
  /\ ring' = s.ring /\ scan' = s.scan /\ mode' = s.mode
  /\ line' = s.line /\ over' = s.over /\ cfg' = s.cfg /\ said' = s.said

-----------------------------------------------------------------------------
(***************************************************************************)
(* A command line.                                                         *)
(***************************************************************************)
Trim(s) ==
  LET kept == {i \in DOMAIN s : s[i] # "_"}
  IN  IF kept = {} THEN <<>> ELSE SubSeq(s, Min(kept), Max(kept))

\* copy_field into a buffer of cap bytes
Field(s, cap) == Trim(SubSeq(s, 1, IF Len(s) < cap THEN Len(s) ELSE cap - 1))
\* snprintf into one: nothing if it does not fit
Printed(s, cap) == IF Len(s) < cap THEN s ELSE <<>>

\* split_pipe: what is between the first two bars, and behind them.
Second(rest) == Cut(Cut(rest, "|").after, "|").before
Third(rest) == Cut(Cut(rest, "|").after, "|").after
HasSecond(rest) == Cut(rest, "|").found
HasThird(rest) == Cut(Cut(rest, "|").after, "|").found

Applied(ok, c) == [ok |-> ok, cfg |-> c]
\* One field; a field that is refused is copied all the same.
OneField(c, id, kind, text) ==
  LET f == Field(text, Str1Max)
      d == [c EXCEPT !.uriId = id, !.str1 = f]
  IN  IF f = <<>> THEN Applied(FALSE, d) ELSE Applied(TRUE, [d EXCEPT !.str2 = <<>>, !.kind = kind])
Prefixed(c, prefix, rest) ==
  IF rest = <<>> \/ Len(prefix \o rest) >= Str1Max THEN Applied(FALSE, [c EXCEPT !.uriId = "00"])
  ELSE OneField(c, "00", "uri", prefix \o rest)
\* Two fields, the second from text; needed says that it may not be missing.
TwoFields_KeepsOld(c, kind, rest, text, needed) ==
  LET one == Field(Cut(rest, "|").before, Str1Max)
      two == IF text = <<>> THEN c.str2 ELSE Field(text, Str2Max)
      d == [c EXCEPT !.uriId = "00", !.str1 = one]
  IN  IF one = <<>> THEN Applied(FALSE, d)
      ELSE IF needed /\ two = <<>> THEN Applied(FALSE, [d EXCEPT !.str2 = two])
      ELSE Applied(TRUE, [d EXCEPT !.str2 = two, !.kind = kind])
TwoFields(c, kind, rest, text, needed) ==
  LET one == Field(Cut(rest, "|").before, Str1Max)
      two == Field(text, Str2Max)
      d == [c EXCEPT !.uriId = "00", !.str1 = one]
  IN  IF one = <<>> THEN Applied(FALSE, d)
      ELSE IF needed /\ two = <<>> THEN Applied(FALSE, [d EXCEPT !.str2 = two])
      ELSE Applied(TRUE, [d EXCEPT !.str2 = two, !.kind = kind])
HexBytes(rest, known) == IF Len(rest) = 1 /\ rest[1] \in DOMAIN known THEN known[rest[1]] ELSE <<>>
Raw(c, message) ==
  IF Len(message) \in 1..MessageMax
  THEN Applied(TRUE, [c EXCEPT !.kind = "raw", !.raw = message, !.str1 = <<>>, !.str2 = <<>>])
  ELSE Applied(FALSE, c)
BothOrOne(rest) ==
  Printed(Second(rest) \o (IF HasThird(rest) THEN <<"|">> \o Third(rest) ELSE <<>>), Str2Max)

UriWords == {"launch", "uri", "link", "unit-link", "social", "video", "file", "application"}
\* writer_cli_apply_command
Command(c, word, rest) ==
  CASE word = "url" ->
         LET r == OneField(c, "04", "url", rest) IN
         IF r.ok /\ IsPrefix(<<"https://">>, r.cfg.str1) THEN [r EXCEPT !.cfg.str1 = Tail(@)] ELSE r
    [] word \in {"text", "data"} -> OneField(c, "00", "text", rest)
    [] word \in {"phone", "phone-number"} -> Prefixed(c, <<"tel:">>, rest)
    [] word = "sms" -> TwoFields(c, "sms", rest, Second(rest), FALSE)
    [] word \in {"mailto", "mail"} -> TwoFields(c, "mailto", rest, BothOrOne(rest), FALSE)
    [] word \in {"geo", "location", "custom-location"} -> OneField(c, "00", "geo", rest)
    [] word \in {"vcard", "contact"} -> TwoFields(c, "vcard", rest, BothOrOne(rest), TRUE)
    [] word = "wifi" -> TwoFields(c, "wifi", rest, Second(rest), HasSecond(rest))
    [] word \in {"bt", "bluetooth"} -> OneField(c, "00", "bt", rest)
    [] word = "search" -> Prefixed(c, <<"https://", "www.", "search?q=">>, rest)
    [] word \in {"address", "destination-address"} ->
         Prefixed(c, <<"https://", "www.", "maps/">>, rest)
    [] word \in UriWords -> OneField(c, "00", "uri", rest)
    [] word = "ndef-hex" -> Raw(c, HexBytes(rest, HexMessages))
    [] OTHER -> Applied(FALSE, c)

\* handle_line, for a trimmed line without the "--" and "=" of a flag.
Kept(c) == IF c.kind = "raw" THEN c ELSE [c EXCEPT !.raw = <<>>]
Announced(c) == Applied(BuildNdefMessage(c) # <<>>, c)
Configured(r) == IF r.ok THEN Announced(Kept(r.cfg)) ELSE r
Plain(t) ==
  IF t = <<>> \/ Head(t) # "--" THEN t
  ELSE LET eq == Cut(Tail(t), "=") IN IF eq.found THEN eq.before \o <<"_">> \o eq.after ELSE Tail(t)
Handled(c, plain) ==
  IF \/ plain = <<>> \/ plain \in {ModeLine("reader"), ModeLine("writer")}
     \/ plain[1] \in {"help", "?", "show"} THEN Applied(FALSE, c)
  ELSE Configured(Command(c, plain[1], Trim(Cut(plain, "_").after)))

\* A byte that the command line takes; a payload that is announced is decoded
\* as the readers would.
Closed(s, r) ==
  [s EXCEPT !.line = <<>>, !.over = FALSE, !.cfg = r.cfg,
            !.said = IF r.ok THEN Append(@, ShownBy(BuildNdefMessage(r.cfg))) ELSE @]
Typed(s, ch) ==
  CASE ch \in {"CR", "LF"} ->
         Closed(s, IF s.over \/ s.line = <<>> THEN Applied(FALSE, s.cfg)
                   ELSE Handled(s.cfg, Plain(Trim(s.line))))
    [] ch = "CTL" -> s
    [] OTHER -> IF Len(s.line) < LineCap - 1 THEN [s EXCEPT !.line = Append(@, ch)]
                ELSE [s EXCEPT !.over = TRUE]

-----------------------------------------------------------------------------
(***************************************************************************)
(* The host, and the steps of a turn of the main loop up to its use of the *)
(* antenna ("rf").                                                         *)
(***************************************************************************)
firmwareVars == <<ring, scan, mode, pc, line, over, cfg, said>>

HostSends ==
  /\ out = <<>> /\ Len(sent) < SentMax
  /\ \E bytes \in HostBytes : out' = bytes /\ sent' = Append(sent, bytes)
  /\ UNCHANGED <<hw, firmwareVars>>

\* A byte may come between any two steps, only before the direct read if Late.
Arrive ==
  /\ out # <<>> /\ Len(hw) < HwMax /\ (pc = "direct" => Late)
  /\ hw' = Append(hw, Head(out)) /\ out' = Tail(out)
  /\ UNCHANGED <<sent, firmwareVars>>

Taken(n) == hw' = SubSeq(hw, n + 1, Len(hw))
Host == UNCHANGED <<out, sent>>

\* nfc_app_poll_mode_switch, by the main loop and again by writer_serial_cli_poll.
PollModeSwitch ==
  /\ pc \in {"poll", "cli"}
  /\ LET s == Scanned(Preloaded(Here, Room))
     IN  /\ Now(s) /\ Taken(Room)
         /\ pc' = CASE s.mode # mode -> "poll"
                    [] s.mode = mode /\ pc = "cli" -> "avail"
                    [] s.mode = mode /\ pc = "poll" -> IF mode = "reader" THEN "rf" ELSE "cli"
  /\ Host

\* writer_hal_serial_available
Available ==
  /\ pc = "avail"
  /\ Now(Preloaded(Here, Room)) /\ Taken(Room)
  /\ pc' = IF ring = <<>> /\ hw = <<>> THEN "rf" ELSE "read"
  /\ Host

\* writer_hal_serial_read_byte, up to the look at the ring.
ReadRing ==
  /\ pc = "read"
  /\ LET s == Scanned(Preloaded(Here, Room))
         byte == s.mode = mode /\ s.ring # <<>>
     IN  /\ Now(IF byte THEN Typed([s EXCEPT !.ring = Tail(@)], Head(s.ring)) ELSE s)
         /\ Taken(Room)
         /\ pc' = CASE s.mode # mode -> "poll" [] byte -> "rf" [] OTHER -> "direct"
  /\ Host

\* Its read from the USB stack or UART itself.
ReadDirect ==
  /\ pc = "direct"
  /\ Now(IF hw = <<>> THEN Here ELSE Typed(Here, Head(hw)))
  /\ Taken(IF hw = <<>> THEN 0 ELSE 1)
  /\ pc' = "rf" /\ Host
=============================================================================
