-------------------------------- MODULE IsoDep --------------------------------
(***************************************************************************)
(* The ISO-DEP link of one session: reader_security_key_send_i_block, the  *)
(* reader's end of the block protocol, against a card and a radio that     *)
(* loses frames.  The reader sends an APDU in one or more I-blocks, each   *)
(* but the last answered by an R(ACK); the card's answer comes in one or   *)
(* more I-blocks, each but the last acknowledged by an R(ACK); before any  *)
(* answer the card may ask for more time with S(WTX), which is echoed.     *)
(*                                                                         *)
(* The card is the one of ISO/IEC 14443-4: it toggles its block number     *)
(* with every I-block it takes and with every R(ACK) of the other number.  *)
(* A frame it could not read it answers with silence, an R(NAK), or the    *)
(* R(ACK) it sent last.                                                    *)
(*                                                                         *)
(* Pieces of APDUs and of answers are counted, their bytes left out; every *)
(* piece holds at least one byte.  CID, NAD and the RF checksum, with the  *)
(* heuristics that strip it, are left out.                                 *)
(*                                                                         *)
(* A definition named X_... that nothing refers to (Acks_Any) is X with a  *)
(* plausible mistake: in the place of X it must make the property fail     *)
(* that PROJECT.json lists with it.                                        *)
(***************************************************************************)
EXTENDS Integers

CONSTANTS
  Apdus,
  Mixed, None,  \* as in ApduExchange
  Parts,        \* I-blocks each APDU takes
  AnswerMax,    \* I-blocks of the longest answer
  RspCap,       \* I-blocks the response buffer holds
  NakMax        \* READER_ISO_DEP_CHAIN_RNAK_MAX

ASSUME NotApdus == Mixed # None /\ {Mixed, None} \cap Apdus = {}
ASSUME Lengths  == /\ Parts \in [Apdus -> Nat \ {0}]
                   /\ AnswerMax \in Nat \ {0} /\ RspCap \in Nat /\ NakMax \in Nat

VARIABLES
  pc,       \* the reader: "idle", "chain" (an R(ACK) is due) or "recv"
  apdu,     \* what it sends
  off,      \* I-blocks of it acknowledged
  bn,       \* G_BLOCK_NUM
  expected, \* expected_block
  resp,     \* the answer so far: [of, from, len]
  retries,  \* rnak_retries
  air,      \* the frame on the air, or what the last transceive returned
  cbn,      \* the card's block number
  cmd,      \* what it has of the command it is being sent: [of, from, len]
  answer,   \* what it answers: [of, at, len], at being the block sent last
  todo,     \* the frame it asked more time for
  late,     \* the frame timeout has passed since the exchange began
  abort,    \* an abort of the host is pending
  sound,    \* history: no exchange has failed since the session was opened
  ran,      \* history: the command the card has run in this exchange
  got       \* history: the command whose answer the last exchange returned

reader == <<pc, apdu, off, bn, expected, resp, retries, got>>
card   == <<cbn, cmd, answer, todo, ran>>
env    == <<late, abort>>
vars   == <<reader, air, card, env, sound>>

-----------------------------------------------------------------------------
(* Frames *)

Frame(kind, n, of, from, more) ==
  [kind |-> kind, bn |-> n, of |-> of, from |-> from, more |-> more]

I(n, of, from, more) == Frame("I", n, of, from, more)
ACK(n)  == Frame("ACK", n, None, 0, FALSE)
NAK(n)  == Frame("NAK", n, None, 0, FALSE)
WTX     == Frame("WTX", 0, None, 0, FALSE)
Silence == Frame("silence", 0, None, 0, FALSE)    \* transceive timed out

ToCard(f)   == [to |-> "card", frame |-> f]
ToReader(f) == [to |-> "reader", frame |-> f]

Other(n) == 1 - n

(* Bytes put one after the other: a slice of one thing, or of no one thing *)
Nothing == [of |-> None, from |-> 0, len |-> 0]
Pieces  == [of |-> None, from |-> 0, len |-> 1]
Joined(s, of, from) ==
  IF s.len = 0 THEN [of |-> of, from |-> from, len |-> 1]
  ELSE IF s.of = of /\ s.from + s.len = from THEN [s EXCEPT !.len = @ + 1]
  ELSE Pieces

-----------------------------------------------------------------------------
(* The card *)

Meaning(s) == IF s.of \in Apdus /\ s.from = 0 /\ s.len = Parts[s.of]
              THEN s.of ELSE Mixed

(* It answers, now or after it has asked for more time *)
Replies(f) == \/ air' = ToReader(f) /\ todo' = Silence
              \/ air' = ToReader(WTX) /\ todo' = f

AnswerBlock(n, a) == I(n, a.of, a.at, a.at + 1 < a.len)

CardTakesPiece(f) ==
  /\ f.kind = "I" /\ f.more
  /\ cbn' = Other(cbn)
  /\ cmd' = Joined(cmd, f.of, f.from)
  /\ Replies(ACK(cbn'))
  /\ UNCHANGED <<answer, ran>>

CardRunsCommand(f) ==
  /\ f.kind = "I" /\ ~f.more
  /\ cbn' = Other(cbn)
  /\ cmd' = Nothing
  /\ ran' = Meaning(Joined(cmd, f.of, f.from))
  /\ \E n \in 1..AnswerMax : answer' = [of |-> ran', at |-> 0, len |-> n]
  /\ Replies(AnswerBlock(cbn', answer'))

CardContinues(f) ==
  /\ f.kind = "ACK"
  /\ cbn' = f.bn
  /\ answer' = IF f.bn = cbn THEN answer ELSE [answer EXCEPT !.at = @ + 1]
  /\ Replies(AnswerBlock(cbn', answer'))
  /\ UNCHANGED <<cmd, ran>>

CardGoesOn(f) ==
  /\ f.kind = "WTX"
  /\ Replies(todo)
  /\ UNCHANGED <<cbn, cmd, answer, ran>>

CardTakes ==
  /\ air.to = "card"
  /\ \/ CardTakesPiece(air.frame) \/ CardRunsCommand(air.frame)
     \/ CardContinues(air.frame) \/ CardGoesOn(air.frame)
  /\ UNCHANGED <<reader, env, sound>>

(* A frame the card cannot read *)
Garbled ==
  /\ air.to = "card"
  /\ \E f \in {Silence} \cup IF air.frame.kind = "I"
                             THEN {NAK(0), NAK(1), ACK(cbn)} ELSE {} :
       air' = ToReader(f)
  /\ UNCHANGED <<reader, card, env, sound>>

(* A frame the reader cannot read *)
Lost ==
  /\ air.to = "reader" /\ pc # "idle"
  /\ air' = ToReader(Silence)
  /\ UNCHANGED <<reader, card, env, sound>>

-----------------------------------------------------------------------------
(* The reader *)

Piece(n, k) == I(n, apdu', k, k + 1 < Parts[apdu'])

(* The next I-block goes out *)
SendsPiece(n, k) ==
  /\ air' = ToCard(Piece(n, k))
  /\ pc' = IF Piece(n, k).more THEN "chain" ELSE "recv"
  /\ expected' = n

Begin(a) ==
  /\ pc = "idle"
  /\ apdu' = a /\ off' = 0 /\ resp' = Nothing /\ retries' = 0
  /\ SendsPiece(bn, 0)
  /\ late' = FALSE
  /\ ran' = None /\ got' = None
  /\ UNCHANGED <<bn, cbn, cmd, answer, todo, abort, sound>>

Ends == pc' = "idle" /\ air' = ToReader(Silence)

(* The exchange returns an error, or no bytes *)
Fails ==
  /\ Ends
  /\ sound' = FALSE
  /\ UNCHANGED <<apdu, off, bn, expected, resp, retries, got>>

Heard(kind) == pc # "idle" /\ air.to = "reader" /\ air.frame.kind = kind

GivesUp_Never == FALSE
GivesUp == late \/ abort

(* S(WTX), in either loop *)
HearsWtx ==
  /\ Heard("WTX")
  /\ IF GivesUp THEN Fails
     ELSE air' = ToCard(WTX) /\ UNCHANGED <<reader, sound>>
  /\ UNCHANGED <<card, env>>

(* reader_security_key_iso_dep_rx_is_chain_ack_for_block *)
Acks_Any(f) == f.kind = "ACK"
Acks(f) == f.kind = "ACK" /\ f.bn = bn

HearsAck ==
  /\ pc = "chain" /\ Heard("ACK") /\ Acks(air.frame)
  /\ off' = off + 1 /\ bn' = Other(bn) /\ retries' = 0
  /\ UNCHANGED <<apdu, resp, got>>
  /\ SendsPiece(bn', off')
  /\ UNCHANGED <<card, env, sound>>

(* R(NAK), or an R(ACK) with the other number: the block is sent again *)
AsksAgain(f) == f.kind = "NAK" \/ (f.kind = "ACK" /\ ~Acks(f))

ResendsOrFails ==
  IF retries >= NakMax THEN Fails
  ELSE /\ retries' = retries + 1
       /\ UNCHANGED <<apdu, off, bn, resp, got, sound>>
       /\ SendsPiece(bn, off)

HearsRetry ==
  /\ pc = "chain" /\ air.to = "reader" /\ AsksAgain(air.frame)
  /\ ResendsOrFails
  /\ UNCHANGED <<card, env>>

(* reader_iso_dep_rx_i_block_number_matches *)
Expected(f) == f.bn = expected
Fits_Always(s) == TRUE
Fits(s) == s.len <= RspCap

Completes(s) == s.from = 0 /\ s.of # None

HearsAnswer ==
  /\ pc = "recv" /\ Heard("I")
  /\ LET f == air.frame
         s == Joined(resp, f.of, f.from)
     IN  IF ~Expected(f) \/ ~Fits(s) THEN Fails
         ELSE /\ resp' = s
              /\ expected' = Other(expected)
              /\ IF f.more
                 THEN air' = ToCard(ACK(expected')) /\ UNCHANGED <<pc, bn, got>>
                 ELSE /\ Ends
                      /\ bn' = expected'
                      /\ got' = IF Completes(s) THEN s.of ELSE None
              /\ UNCHANGED <<apdu, off, retries, sound>>
  /\ UNCHANGED <<card, env>>

(* Silence, or a frame of a kind that is not due *)
HearsOther ==
  /\ pc # "idle" /\ air.to = "reader"
  /\ air.frame.kind \in IF pc = "chain" THEN {"silence", "I"}
                        ELSE {"silence", "ACK", "NAK"}
  /\ Fails
  /\ UNCHANGED <<card, env>>

(* reader_security_key_iso_dep_recover_session, or the opening of a new    *)
(* session.  Where it fails the card may still have been reset.            *)
Reopened ==
  /\ pc = "idle"
  /\ bn' = 0 /\ sound' = TRUE
  /\ cbn' = 1 /\ cmd' = Nothing /\ todo' = Silence
  /\ UNCHANGED <<pc, apdu, off, expected, resp, retries, got, air, answer, ran, env>>

ReopenFails ==
  /\ pc = "idle"
  /\ sound' = FALSE
  /\ \/ cbn' = 1 /\ cmd' = Nothing /\ todo' = Silence
     \/ UNCHANGED <<cbn, cmd, todo>>
  /\ UNCHANGED <<reader, air, answer, ran, env>>

-----------------------------------------------------------------------------
(* The clock and the host *)

TimePasses == /\ pc # "idle" /\ ~late /\ late' = TRUE
              /\ UNCHANGED <<reader, air, card, abort, sound>>

HostAborts == /\ abort' = ~abort /\ (abort => pc = "idle")
              /\ UNCHANGED <<reader, air, card, late, sound>>

Init ==
  /\ pc = "idle" /\ apdu = None /\ off = 0 /\ bn = 0 /\ expected = 0
  /\ resp = Nothing /\ retries = 0 /\ air = ToReader(Silence)
  /\ cbn = 1 /\ cmd = Nothing /\ answer = [of |-> None, at |-> 0, len |-> 0]
  /\ todo = Silence
  /\ late = FALSE /\ abort = FALSE
  /\ sound = TRUE /\ ran = None /\ got = None

ReaderStep == HearsWtx \/ HearsAck \/ HearsRetry \/ HearsAnswer \/ HearsOther
CardStep   == CardTakes \/ Garbled

Next == \/ \E a \in Apdus : Begin(a)
        \/ ReaderStep \/ CardStep \/ Lost
        \/ Reopened \/ ReopenFails
        \/ TimePasses \/ HostAborts

Spec == Init /\ [][Next]_vars

(* transceive always returns, with a frame or without; the loops never     *)
(* block; the clock runs.  Nothing is asked of the card: it may ask for    *)
(* more time for ever.                                                     *)
FairSpec == /\ Spec
            /\ WF_vars(ReaderStep) /\ WF_vars(CardStep) /\ WF_vars(TimePasses)

-----------------------------------------------------------------------------
(* Properties *)

Frames == [kind : {"I", "ACK", "NAK", "WTX", "silence"}, bn : {0, 1},
           of : Apdus \cup {Mixed, None}, from : Nat, more : BOOLEAN]
Slices == [of : Apdus \cup {Mixed, None}, from : Nat, len : Nat]

(* Every variable has its type; in particular the answer never outgrows    *)
(* the response buffer (reader_iso_dep_append_inf).                        *)
TypeOK ==
  /\ pc \in {"idle", "chain", "recv"}
  /\ apdu \in Apdus \cup {None} /\ (pc # "idle" => apdu \in Apdus)
  /\ off \in Nat /\ (pc # "idle" => off < Parts[apdu])
  /\ bn \in {0, 1} /\ expected \in {0, 1}
  /\ resp \in Slices /\ resp.len <= RspCap
  /\ retries \in 0..NakMax
  /\ air \in [to : {"card", "reader"}, frame : Frames]
  /\ cbn \in {0, 1} /\ cmd \in Slices
  /\ answer \in [of : Apdus \cup {Mixed, None}, at : Nat, len : Nat]
  /\ todo \in Frames
  /\ late \in BOOLEAN /\ abort \in BOOLEAN /\ sound \in BOOLEAN
  /\ ran \in Apdus \cup {Mixed, None} /\ got \in Apdus \cup {Mixed, None}

(* The link is an ApduExchange: a card runs at most one command in an      *)
(* exchange, whatever is lost and sent again; what is returned is that     *)
(* command's answer, whole, in its order and never an older one; and until *)
(* an exchange has failed that command is the APDU                         *)
(* (reader_security_key_send_i_block).                                     *)
doing == IF pc = "idle" THEN None ELSE apdu
Exchange == INSTANCE ApduExchange
IsApduExchange == Exchange!Spec

(* Every exchange ends, though the card may go on asking for more time:    *)
(* only the deadline stops it (READER_ISO_DEP_ERR_RECV_WTX_DEADLINE).      *)
ExchangeEnds == (pc # "idle") ~> (pc = "idle")

=============================================================================
