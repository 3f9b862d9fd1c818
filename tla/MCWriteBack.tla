------------------------------ MODULE MCWriteBack ------------------------------
(* Lines with what they ask for, and tags, for the runs of WriteBack. *)
EXTENDS WriteBack

(* As in the code, a length of 0 is the NULL TLV's byte, and the longest one *)
(* that has a byte for itself (254) is the terminator's.                     *)
MCByte == [n \in Lengths |-> CASE n = 0 -> "00" [] n = OneByteMax -> "FE" [] OTHER -> ToString(n)]
MCEscape == [b \in {"_"} |-> "x20"]
MCTier == [s \in {"213", "215", "216"} |->
  CASE s = "213" -> [mlen |-> 3, last |-> 9] [] s = "215" -> [mlen |-> 4, last |-> 12]
    [] s = "216" -> [mlen |-> 6, last |-> 16]]

Arg(flag, value) == [flag |-> flag, value |-> value]
Flags == [h \in {"h1", "h2", "h3"} |->
  CASE h = "h1" -> <<Arg("mail", <<"a", "|", "s", "_", "|", "b">>), Arg("text", <<"x">>)>>
    [] h = "h2" -> <<Arg("bluetooth", <<"AA", "-", "BB">>)>>
    [] h = "h3" -> <<Arg("ndef-hex", <<"03", "1", "ff", "FE">>)>>]
MCHexMessages == [h \in DOMAIN Flags |-> ToolMessage(Flags[h])]

Uri(bytes) == Shown("uri", <<bytes>>)
Asks == <<
  <<"text", "_", "m", "_", "_", "x">>,     <<Shown("text", << <<"m", "_", "_", "x">> >>)>>,
  <<"url", "_", "https://", "a">>,         <<Uri(<<"https://", "a">>)>>,
  <<"sms", "_", "1">>,                     <<Uri(<<"sms:", "1">>)>>,
  <<"_", "sms", "_", "1", "|", "b">>,      <<Uri(<<"sms:", "1", "?body=", "b">>)>>,
  <<"--", "mailto", "=", "a", "|", "s", "|", "b">>,
                            <<Uri(<<"mailto:", "a", "?", "subject=", "s", "&", "body=", "b">>)>>,
  <<"contact", "_", "n", "|", "1">>,       <<Shown("contact", << <<"n">>, <<"1">>, <<>> >>)>>,
  <<"wifi", "_", "n", "|", "p", "p">>,     <<Shown("wifi", << <<"n">>, <<"p", "p">>, <<"WPA2">>, <<"AES">> >>)>>,
  <<"bt", "_", "AA", ":", "FE">>,          <<Shown("bt", << <<"AA", "FE">> >>)>>,
  <<"search", "_", "m">>,                  <<Uri(<<"https://", "www.", "search?q=", "m">>)>>,
  <<"phone", "_", "1">>,                   <<Uri(<<"tel:", "1">>)>>,
  <<"geo", "_", "1">>,                     <<Uri(<<"geo:", "1">>)>>,
  <<"ndef-hex", "_", "h1">>,
      <<Uri(<<"mailto:", "a", "?", "subject=", "s", "_", "&", "body=", "b">>), Shown("text", << <<"x">> >>)>>,
  <<"ndef-hex", "_", "h2">>,               <<Shown("bt", << <<"AA", "BB">> >>)>>
>>
MCLines == [bytes \in {Asks[i] \o <<"LF">> : i \in {n \in DOMAIN Asks : n % 2 = 1}} |->
              Asks[1 + CHOOSE i \in DOMAIN Asks : i % 2 = 1 /\ Asks[i] \o <<"LF">> = bytes]]

MCHostBytes == DOMAIN MCLines \cup ModeLines \cup
  {<<"contact", "_", "n", "LF">>, <<"m", "_", "q", "LF">>, <<"x">>, <<"CTL">>, <<"help", "LF">>,
   <<"text", "_", "1", "2", "3", "4", "5", "6", "7", "8", "LF">>}
ASSUME MCHostAssumption == \A bytes \in MCHostBytes : bytes \in ModeLines \/ Unmistaken(bytes)
ASSUME MCAskingAssumption == HostBytes = MCHostBytes => Asking
FewLines == ModeLines \cup {<<"text", "_", "m", "_", "R", "LF">>}
\* A Bluetooth address with an octet "FE", behind a text that puts it at the end
\* of the first chunk the reader reads.
FeArgs == <<Arg("text", <<"a", "b", "c", "d">>), Arg("bluetooth", <<"AA", ":", "FE">>)>>
FeHexMessages == [h \in {"h1"} |-> ToolMessage(FeArgs)]
FeLines == {ModeLine("writer") \o <<"LF">>, <<"ndef-hex", "_", "h1", "LF">>}

\* Of every length.
MCMessages == {[i \in 1..n |-> "x"] : n \in 1..MessageMax}
Zeros(n) == [i \in 1..n |-> "00"]
Filled(cc, n) == cc \o Tlv(<<"old", "old">>) \o Zeros(n - Len(cc) - 5)
Tag2(version, st, mem) == [type |-> 2, version |-> version, st |-> st, mem |-> mem]
Tag5(sys, mem) == [type |-> 5, sys |-> sys, mem |-> mem]
Cc(len, mle, mlc, size, write) ==
  [len |-> len, tlv |-> "04", mle |-> mle, mlc |-> mlc, file |-> "e104", size |-> size,
   read |-> "open", write |-> write]
Tag4(cc, id, n) == [type |-> 4, cc |-> cc, id |-> id, mem |-> <<"2", "old", "old">> \o Zeros(n - 3)]
MCTags ==
  {Tag4(Cc(15, 5, 7, 43, "open"), "e104", 43), Tag4(Cc(23, 50, 50, 20, "open"), "e104", 43),
   Tag4(Cc(15, 5, 50, 43, "open"), "e104", 30), Tag4(Cc(15, 5, 1, 43, "open"), "e104", 43),
   Tag4(Cc(24, 5, 7, 43, "open"), "e104", 43), Tag4(Cc(15, 5, 7, 43, "ro"), "e104", 43),
   Tag4([Cc(15, 5, 7, 43, "open") EXCEPT !.read = "no"], "e104", 43),
   Tag4(Cc(15, 5, 7, 43, "open"), "e105", 43)} \cup
  {Tag2("213", FALSE, Zeros(28)), Tag2("216", FALSE, Zeros(56)), Tag2("21x", FALSE, Zeros(28)),
   Tag2("216", FALSE, Filled(<<"E1", "10", "6", "rw">>, 56)),
   Tag2("none", TRUE, Filled(<<"E1", "10", "5", "rw">>, 44)),
   Tag2("none", TRUE, Filled(<<"E1", "10", "00", "rw">>, 44)),
   Tag2("none", TRUE, Filled(<<"E1", "10", "5", "ro">>, 44)),
   Tag2("none", FALSE, Zeros(28)),
   Tag5(TRUE, Zeros(36)), Tag5(FALSE, Zeros(36)), Tag5(TRUE, Zeros(32)),
   Tag5(TRUE, Filled(<<"E1", "rw", "1", "00">>, 44)),
   Tag5(TRUE, Filled(<<"E2", "rw", "9", "ovf">>, 100)),
   Tag5(TRUE, Filled(<<"E1", "rw", "1", "00">>, 84)),
   Tag5(FALSE, Filled(<<"E2", "rw", "00", "00", "00", "00", "hi", "2">>, 48)),
   Tag5(TRUE, Filled(<<"E2", "rw", "00", "00", "00", "00", "hi", "5">>, 48))}
FeTags == {Tag5(TRUE, Zeros(36))}
=============================================================================
