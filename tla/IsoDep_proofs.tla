----------------------------- MODULE IsoDep_proofs -----------------------------
(***************************************************************************)
(* Theorems about IsoDep, for every set of APDUs and every number of       *)
(* blocks they and their answers take.                                     *)
(*                                                                         *)
(* The argument: where the reader is in its exchange determines what may   *)
(* be on the air and how much of the answer it holds, sound or not         *)
(* (Chaining, Awaiting, Answering); and until an exchange has failed, the  *)
(* two block numbers tell whether the card has taken the block the reader  *)
(* sent last (Agreement).                                                  *)
(***************************************************************************)
EXTENDS IsoDep, TLAPS

(* The first k blocks of the answer, and of the APDU *)
Upto(k)  == IF k = 0 THEN Nothing ELSE [of |-> ran, from |-> 0, len |-> k]
Sofar(k) == IF k = 0 THEN Nothing ELSE [of |-> apdu, from |-> 0, len |-> k]

(* What the card answers in the end *)
Due == IF air.frame.kind = "WTX" THEN todo ELSE air.frame

Quiet == pc = "idle" => air = ToReader(Silence)

Chaining ==
  pc = "chain" =>
    /\ ran = None /\ got = None /\ resp = Nothing /\ expected = bn
    /\ off + 1 < Parts[apdu]
    /\ air.to = "card" => air.frame \in {I(bn, apdu, off, TRUE), WTX}
    /\ air.to = "reader" \/ air.frame = WTX => Due.kind \in {"ACK", "NAK", "silence"}

(* The last block of the APDU is on its way, *)
Awaiting ==
  pc = "recv" /\ ran = None =>
    /\ got = None /\ resp = Nothing /\ expected = bn
    /\ off + 1 = Parts[apdu]
    /\ air.to = "card" => air.frame = I(bn, apdu, off, FALSE)
    /\ air.to = "reader" => air.frame.kind \in {"ACK", "NAK", "silence"}

(* or it has been run *)
Answering ==
  pc = "recv" /\ ran # None =>
    /\ got = None
    /\ off + 1 = Parts[apdu]
    /\ answer.of = ran
    /\ \/ air = ToReader(Silence)
       \/ Due = AnswerBlock(cbn, answer) /\ resp = Upto(answer.at)
       \/ /\ air = ToCard(ACK(expected)) /\ expected = Other(cbn)
          /\ resp = Upto(answer.at + 1)
    /\ air.to = "card" => air.frame.kind \in {"WTX", "ACK"}

Pending == cbn = Other(bn) /\ cmd = Sofar(off)
Taken   == cbn = bn /\ cmd = Sofar(off + 1)

Agreement ==
  sound =>
    /\ pc = "idle" => bn = Other(cbn) /\ cmd = Nothing
    /\ pc = "chain" =>
         /\ air.frame.kind \in {"I", "NAK"} => Pending
         /\ air.frame.kind = "ACK" => IF air.frame.bn = bn THEN Taken ELSE Pending
         /\ air.frame.kind = "WTX" => Taken /\ todo = ACK(bn)
    /\ pc = "recv" /\ ran = None /\ air.to = "card" => Pending
    /\ pc = "recv" /\ ran # None =>
         /\ ran = apdu /\ cmd = Nothing
         /\ air.frame.kind \in {"I", "WTX"} => cbn = expected

IInv == TypeOK /\ Quiet /\ Chaining /\ Awaiting /\ Answering /\ Agreement

-----------------------------------------------------------------------------
Things == Apdus \cup {Mixed, None}

(* A frame of one kind is not of another. *)
LEMMA FrameFields ==
  ASSUME NEW n, NEW of, NEW from, NEW more
  PROVE  /\ I(n, of, from, more).kind = "I" /\ I(n, of, from, more).bn = n
         /\ I(n, of, from, more).of = of /\ I(n, of, from, more).from = from
         /\ I(n, of, from, more).more = more
         /\ ACK(n).kind = "ACK" /\ ACK(n).bn = n
         /\ NAK(n).kind = "NAK" /\ NAK(n).bn = n
         /\ WTX.kind = "WTX" /\ Silence.kind = "silence"
BY DEF I, ACK, NAK, WTX, Silence, Frame

LEMMA FrameTypes ==
  /\ \A n \in {0, 1}, of \in Things, from \in Nat, more \in BOOLEAN :
       I(n, of, from, more) \in Frames
  /\ \A n \in {0, 1} : ACK(n) \in Frames /\ NAK(n) \in Frames
  /\ WTX \in Frames /\ Silence \in Frames
BY DEF I, ACK, NAK, WTX, Silence, Frame, Frames, Things

LEMMA BlockTypes ==
  ASSUME NEW n \in {0, 1}, NEW of \in Things, NEW from \in Nat, NEW more \in BOOLEAN
  PROVE  I(n, of, from, more) \in Frames
BY FrameTypes

LEMMA OnTheAir ==
  ASSUME NEW f
  PROVE  /\ ToCard(f).to = "card" /\ ToCard(f).frame = f
         /\ ToReader(f).to = "reader" /\ ToReader(f).frame = f
         /\ f \in Frames => /\ ToCard(f) \in [to : {"card", "reader"}, frame : Frames]
                            /\ ToReader(f) \in [to : {"card", "reader"}, frame : Frames]
BY DEF ToCard, ToReader

LEMMA Numbers ==
  ASSUME NEW n \in {0, 1}
  PROVE  /\ Other(n) \in {0, 1} /\ Other(n) # n /\ Other(Other(n)) = n
         /\ \A m \in {0, 1} : m # n => m = Other(n)
BY DEF Other

LEMMA SliceTypes ==
  /\ Nothing \in Slices /\ Pieces \in Slices
  /\ \A s \in Slices, of \in Things, from \in Nat : Joined(s, of, from) \in Slices
<1>1. Nothing \in Slices /\ Pieces \in Slices
  BY DEF Nothing, Pieces, Slices
<1> SUFFICES ASSUME NEW s \in Slices, NEW of \in Things, NEW from \in Nat
             PROVE  Joined(s, of, from) \in Slices
  BY <1>1
<1>2. CASE s.len = 0
  BY <1>2 DEF Joined, Slices, Things
<1>3. CASE s.len # 0 /\ s.of = of /\ s.from + s.len = from
  BY <1>3 DEF Joined, Slices
<1>4. CASE s.len # 0 /\ ~(s.of = of /\ s.from + s.len = from)
  <2>1. Joined(s, of, from) = Pieces
    BY <1>4 DEF Joined
  <2> QED
    BY <2>1, <1>1
<1> QED
  BY <1>2, <1>3, <1>4

(* The next block continues what came before it. *)
LEMMA Continues ==
  ASSUME NEW of, NEW k \in Nat, NEW s,
         s = IF k = 0 THEN Nothing ELSE [of |-> of, from |-> 0, len |-> k]
  PROVE  Joined(s, of, k) = [of |-> of, from |-> 0, len |-> k + 1]
<1>1. CASE k = 0
  BY <1>1 DEF Joined, Nothing
<1>2. CASE k # 0
  <2>1. s.len # 0 /\ s.of = of /\ s.from + s.len = k
    BY <1>2
  <2>2. [s EXCEPT !.len = @ + 1] = [of |-> of, from |-> 0, len |-> k + 1]
    BY <1>2
  <2> QED
    BY <2>1, <2>2 DEF Joined
<1> QED
  BY <1>1, <1>2

(* A whole APDU is run as itself (Meaning). *)
LEMMA MeaningOfWhole ==
  ASSUME NEW a \in Apdus
  PROVE  Meaning([of |-> a, from |-> 0, len |-> Parts[a]]) = a
BY DEF Meaning

LEMMA MeaningType == \A s : Meaning(s) \in Apdus \cup {Mixed} /\ Meaning(s) # None
BY NotApdus DEF Meaning

LEMMA PartsType == \A a \in Apdus : Parts[a] \in Nat /\ Parts[a] > 0
BY Lengths

-----------------------------------------------------------------------------
(* Types *)

TypeReader ==
  /\ pc \in {"idle", "chain", "recv"}
  /\ apdu \in Apdus \cup {None} /\ (pc # "idle" => apdu \in Apdus)
  /\ off \in Nat /\ (pc # "idle" => off < Parts[apdu])
  /\ bn \in {0, 1} /\ expected \in {0, 1}
  /\ resp \in Slices /\ resp.len <= RspCap
  /\ retries \in 0..NakMax
  /\ got \in Things

TypeAir == air \in [to : {"card", "reader"}, frame : Frames]

TypeCard ==
  /\ cbn \in {0, 1} /\ cmd \in Slices
  /\ answer \in [of : Things, at : Nat, len : Nat]
  /\ todo \in Frames
  /\ ran \in Things

TypeRest == late \in BOOLEAN /\ abort \in BOOLEAN /\ sound \in BOOLEAN

LEMMA TypeParts == TypeOK <=> TypeReader /\ TypeAir /\ TypeCard /\ TypeRest
BY DEF TypeOK, TypeReader, TypeAir, TypeCard, TypeRest, Things

LEMMA TypePartsNext == TypeReader' /\ TypeAir' /\ TypeCard' /\ TypeRest' => TypeOK'
BY DEF TypeOK, TypeReader, TypeAir, TypeCard, TypeRest, Things

(* What a block carries (SendsPiece). *)
LEMMA Sending ==
  ASSUME NEW n \in {0, 1}, NEW k \in Nat, SendsPiece(n, k), apdu' \in Apdus
  PROVE  /\ air' = ToCard(I(n, apdu', k, k + 1 < Parts[apdu'])) /\ TypeAir'
         /\ pc' = IF k + 1 < Parts[apdu'] THEN "chain" ELSE "recv"
         /\ expected' = n
<1>1. Piece(n, k) = I(n, apdu', k, k + 1 < Parts[apdu'])
  BY DEF Piece
<1>2. Piece(n, k) \in Frames
  <2>1. apdu' \in Things /\ (k + 1 < Parts[apdu']) \in BOOLEAN
    BY DEF Things
  <2> QED
    BY <1>1, <2>1, BlockTypes
<1>3. Piece(n, k).more = (k + 1 < Parts[apdu'])
  BY <1>1, FrameFields
<1>4. air' = ToCard(Piece(n, k)) /\ pc' = (IF Piece(n, k).more THEN "chain" ELSE "recv")
      /\ expected' = n
  BY DEF SendsPiece
<1>5. TypeAir'
  BY <1>2, <1>4, OnTheAir DEF TypeAir
<1> QED
  BY <1>1, <1>3, <1>4, <1>5

(* A reader that gives up is idle, with nothing on the air (Fails). *)
LEMMA Failing ==
  ASSUME Fails, TypeReader
  PROVE  /\ TypeReader' /\ TypeAir' /\ pc' = "idle" /\ air' = ToReader(Silence)
         /\ sound' = FALSE /\ UNCHANGED <<apdu, off, bn, expected, resp, retries, got>>
<1>1. pc' = "idle" /\ air' = ToReader(Silence) /\ sound' = FALSE
      /\ UNCHANGED <<apdu, off, bn, expected, resp, retries, got>>
  BY DEF Fails, Ends
<1>2. TypeReader'
  BY <1>1 DEF TypeReader
<1>3. TypeAir'
  BY <1>1, FrameTypes, OnTheAir DEF TypeAir
<1> QED
  BY <1>1, <1>2, <1>3

(* What the card answers, at once or after more time (Replies). *)
LEMMA Replying ==
  ASSUME NEW f \in Frames, f.kind # "WTX", Replies(f)
  PROVE  /\ TypeAir' /\ todo' \in Frames /\ air'.to = "reader" /\ Due' = f
         /\ \/ air'.frame = f
            \/ air'.frame = WTX /\ todo' = f
         /\ air' = ToReader(air'.frame)
         /\ f # Silence => air'.frame # Silence
<1>1. CASE air' = ToReader(f) /\ todo' = Silence
  BY <1>1, OnTheAir, FrameTypes DEF TypeAir, Due
<1>2. CASE air' = ToReader(WTX) /\ todo' = f
  BY <1>2, OnTheAir, FrameTypes, FrameFields DEF TypeAir, Due
<1> QED
  BY <1>1, <1>2 DEF Replies

LEMMA ReplyTypes ==
  ASSUME NEW f \in Frames, Replies(f)
  PROVE  TypeAir' /\ todo' \in Frames
<1>1. air' = ToReader(f) \/ air' = ToReader(WTX)
  BY DEF Replies
<1>2. TypeAir'
  BY <1>1, OnTheAir, FrameTypes DEF TypeAir
<1>3. todo' \in Frames
  BY FrameTypes DEF Replies
<1> QED
  BY <1>2, <1>3

LEMMA AnswerBlocks ==
  ASSUME NEW n \in {0, 1}, NEW a \in [of : Things, at : Nat, len : Nat]
  PROVE  /\ AnswerBlock(n, a) \in Frames /\ AnswerBlock(n, a).kind = "I"
         /\ AnswerBlock(n, a).bn = n /\ AnswerBlock(n, a).of = a.of
         /\ AnswerBlock(n, a).from = a.at
         /\ AnswerBlock(n, a).more = (a.at + 1 < a.len)
         /\ AnswerBlock(n, a).kind # "WTX" /\ AnswerBlock(n, a) # Silence
         /\ AnswerBlock(n, a) # WTX
<1> DEFINE m == a.at + 1 < a.len
<1>1. a.of \in Things /\ a.at \in Nat /\ m \in BOOLEAN
  OBVIOUS
<1>2. AnswerBlock(n, a) = I(n, a.of, a.at, m)
  BY DEF AnswerBlock
<1> HIDE DEF m
<1>3. AnswerBlock(n, a) \in Frames
  BY <1>1, <1>2, BlockTypes
<1>4. "I" # "WTX" /\ "I" # "silence"
  OBVIOUS
<1>5. /\ AnswerBlock(n, a).kind = "I" /\ AnswerBlock(n, a).bn = n
      /\ AnswerBlock(n, a).of = a.of /\ AnswerBlock(n, a).from = a.at
      /\ AnswerBlock(n, a).more = m
  BY <1>2, FrameFields
<1>6. AnswerBlock(n, a) # Silence /\ AnswerBlock(n, a) # WTX
  BY <1>4, <1>5, FrameFields
<1> QED
  BY <1>3, <1>4, <1>5, <1>6 DEF m

-----------------------------------------------------------------------------
(* Each step keeps IInv and is a step of ApduExchange, or none             *)

Step == IInv' /\ [Exchange!Next]_(Exchange!vars)

LEMMA Doing ==
  ASSUME TypeOK, pc # "idle"
  PROVE  doing = apdu /\ doing # None /\ apdu \in Apdus
BY NotApdus DEF doing, TypeOK

(* The exchange fails, for whatever reason. *)
LEMMA FailingStep ==
  ASSUME IInv, pc # "idle", Fails, UNCHANGED <<card, env>>
  PROVE  Step
<1>1. TypeReader /\ TypeCard /\ TypeRest
  BY TypeParts DEF IInv
<1>2. /\ TypeReader' /\ TypeAir' /\ pc' = "idle" /\ air' = ToReader(Silence)
      /\ sound' = FALSE /\ UNCHANGED <<got, ran, late, abort, card>>
  BY <1>1, Failing DEF card, env
<1>3. TypeOK'
  <2>1. TypeCard' /\ TypeRest'
    BY <1>1, <1>2 DEF TypeCard, TypeRest, card
  <2> QED
    BY <1>2, <2>1, TypePartsNext
<1>4. (Quiet /\ Chaining /\ Awaiting /\ Answering /\ Agreement)'
  BY <1>2 DEF Quiet, Chaining, Awaiting, Answering, Agreement
<1>5. Exchange!Fail
  <2>1. doing # None /\ doing' = None
    BY <1>2, Doing DEF IInv, doing
  <2> QED
    BY <2>1, <1>2 DEF Exchange!Fail
<1> QED
  BY <1>3, <1>4, <1>5 DEF Step, IInv, Exchange!Next

(* The first block of a new exchange (Begin). *)
LEMMA BeginStep ==
  ASSUME IInv, NEW a \in Apdus, Begin(a)
  PROVE  Step
<1>2. /\ apdu' = a /\ off' = 0 /\ resp' = Nothing /\ retries' = 0 /\ ran' = None /\ got' = None
      /\ late' = FALSE /\ UNCHANGED <<bn, cbn, cmd, answer, todo, abort, sound>>
      /\ SendsPiece(bn, 0) /\ pc = "idle"
  BY DEF Begin
<1>3. /\ TypeReader /\ TypeCard /\ TypeRest /\ bn \in {0, 1}
      /\ Parts[a] \in Nat /\ Parts[a] > 0
  BY TypeParts, PartsType DEF IInv, TypeReader
<1>4. /\ air' = ToCard(I(bn, a, 0, 0 + 1 < Parts[a])) /\ TypeAir'
      /\ pc' = (IF 0 + 1 < Parts[a] THEN "chain" ELSE "recv") /\ expected' = bn
  BY <1>2, <1>3, Sending
<1>5. TypeOK'
  <2>1. TypeReader'
    <3>1. Nothing \in Slices /\ Nothing.len = 0 /\ 0 <= RspCap /\ 0 \in 0..NakMax
      BY SliceTypes, Lengths DEF Nothing
    <3> QED
      BY <1>2, <1>3, <1>4, <3>1 DEF TypeReader, Things
  <2>2. TypeCard' /\ TypeRest'
    BY <1>2, <1>3 DEF TypeCard, TypeRest, Things
  <2> QED
    BY <2>1, <2>2, <1>4, TypePartsNext
<1> DEFINE more == 0 + 1 < Parts[a]
<1>6. /\ air'.to = "card" /\ air'.frame = I(bn, a, 0, more) /\ air'.frame.kind = "I"
  BY <1>4, OnTheAir, FrameFields
<1>7. (Quiet /\ Chaining /\ Awaiting /\ Answering)'
  <2>1. Quiet' /\ Answering'
    BY <1>2, <1>4 DEF Quiet, Answering
  <2>2. Chaining'
    <3>1. ASSUME pc' = "chain" PROVE more = TRUE /\ off' + 1 < Parts[apdu']
      BY <3>1, <1>2, <1>3, <1>4
    <3>2. air'.frame # WTX
      BY <1>6, FrameFields
    <3> QED
      BY <1>2, <1>4, <1>6, <3>1, <3>2 DEF Chaining
  <2>3. Awaiting'
    <3>1. ASSUME pc' = "recv" PROVE more = FALSE /\ off' + 1 = Parts[apdu']
      BY <3>1, <1>2, <1>3, <1>4
    <3> QED
      BY <1>2, <1>4, <1>6, <3>1 DEF Awaiting
  <2> QED
    BY <2>1, <2>2, <2>3
<1>8. Agreement'
  <2> SUFFICES ASSUME sound' PROVE Agreement'
    BY DEF Agreement
  <2>1. bn = Other(cbn) /\ cmd = Nothing
    BY <1>2 DEF IInv, Agreement
  <2>2. Pending'
    BY <2>1, <1>2, <1>3, Numbers DEF Pending, Sofar, TypeCard
  <2>3. air'.frame.kind = "I" /\ pc' # "idle" /\ ran' = None
    BY <1>2, <1>4, <1>6
  <2> QED
    BY <2>2, <2>3 DEF Agreement
<1>9. Exchange!Begin(a)
  <2>1. doing = None /\ doing' = a
    BY <1>2, <1>4 DEF doing
  <2> QED
    BY <2>1, <1>2 DEF Exchange!Begin
<1> QED
  BY <1>5, <1>7, <1>8, <1>9 DEF Step, IInv, Exchange!Next

(* A step that changes nothing an ApduExchange has. *)
LEMMA Stutter ==
  ASSUME UNCHANGED <<sound, ran, got>>, UNCHANGED doing
  PROVE  UNCHANGED Exchange!vars
BY DEF Exchange!vars

(* S(WTX) is echoed, or the exchange is over (HearsWtx). *)
LEMMA WtxStep ==
  ASSUME IInv, HearsWtx
  PROVE  Step
<1>1. pc # "idle" /\ air.to = "reader" /\ air.frame.kind = "WTX" /\ Due = todo
      /\ UNCHANGED <<card, env>>
  BY DEF HearsWtx, Heard, Due
<1>2. CASE Fails
  BY <1>1, <1>2, FailingStep
<1>3. CASE air' = ToCard(WTX) /\ UNCHANGED <<reader, sound>>
  <2>1. /\ UNCHANGED <<pc, apdu, off, bn, expected, resp, retries, got, sound>>
        /\ UNCHANGED <<cbn, cmd, answer, todo, ran, late, abort>>
    BY <1>1, <1>3 DEF reader, card, env
  <2>2. air'.to = "card" /\ air'.frame = WTX /\ air'.frame.kind = "WTX" /\ Due' = todo /\ TypeAir'
    <3>1. air'.to = "card" /\ air'.frame = WTX /\ TypeAir'
      BY <1>3, OnTheAir, FrameTypes DEF TypeAir
    <3> QED
      BY <3>1, <2>1, FrameFields DEF Due
  <2>3. TypeOK'
    <3>1. TypeReader /\ TypeCard /\ TypeRest
      BY TypeParts DEF IInv
    <3> QED
      BY <2>1, <2>2, <3>1, TypePartsNext DEF TypeReader, TypeCard, TypeRest
  <2>4. Quiet' /\ Chaining'
    BY <1>1, <2>1, <2>2 DEF IInv, Quiet, Chaining
  <2>5. ~(pc = "recv" /\ ran = None)
    BY <1>1 DEF IInv, Awaiting
  <2>6. Answering'
    <3> SUFFICES ASSUME pc = "recv", ran # None PROVE Answering'
      BY <2>1 DEF Answering
    <3>1. air # ToReader(Silence) /\ air # ToCard(ACK(expected))
      BY <1>1, OnTheAir, FrameFields
    <3>2. todo = AnswerBlock(cbn, answer) /\ resp = Upto(answer.at)
      BY <3>1, <1>1 DEF IInv, Answering
    <3>3. Due' = AnswerBlock(cbn, answer)' /\ resp' = Upto(answer.at)'
      BY <3>2, <2>1, <2>2 DEF AnswerBlock, Upto
    <3> QED
      BY <3>3, <2>1, <2>2 DEF IInv, Answering
  <2>7. Awaiting' /\ Agreement'
    BY <1>1, <2>1, <2>2, <2>5 DEF IInv, Awaiting, Agreement, Taken, Sofar
  <2>8. UNCHANGED doing
    BY <2>1 DEF doing
  <2> QED
    BY <2>1, <2>3, <2>4, <2>6, <2>7, <2>8, Stutter DEF Step, IInv
<1> QED
  BY <1>2, <1>3 DEF HearsWtx

(* A block of the APDU goes out, the same again or the next one, to a card *)
(* that has taken all blocks before it.                                    *)
LEMMA SendingStep ==
  ASSUME IInv, pc = "chain", UNCHANGED <<card, env, sound, apdu, resp, got>>,
         retries' \in 0..NakMax, NEW n \in {0, 1}, NEW k \in Nat,
         bn' = n, off' = k, k < Parts[apdu], SendsPiece(n, k),
         sound => cbn = Other(n) /\ cmd = Sofar(k)
  PROVE  Step
<1>1. /\ TypeReader /\ TypeCard /\ TypeRest /\ apdu \in Apdus
      /\ Parts[apdu] \in Nat /\ Parts[apdu] > 0 /\ apdu' = apdu
  BY TypeParts, PartsType DEF IInv, TypeReader
<1> DEFINE more == k + 1 < Parts[apdu]
<1>2. /\ air' = ToCard(I(n, apdu, k, more)) /\ TypeAir'
      /\ pc' = (IF more THEN "chain" ELSE "recv") /\ expected' = n
  BY <1>1, Sending
<1>3. /\ air'.to = "card" /\ air'.frame = I(n, apdu, k, more) /\ air'.frame.kind = "I"
      /\ air'.frame # WTX
  BY <1>2, OnTheAir, FrameFields
<1>4. /\ UNCHANGED <<cbn, cmd, answer, todo, ran, late, abort>>
      /\ ran = None /\ got = None /\ resp = Nothing
  BY DEF card, env, IInv, Chaining
<1>5. TypeOK'
  BY <1>1, <1>2, <1>4, TypePartsNext DEF TypeReader, TypeCard, TypeRest
<1>6. Quiet' /\ Answering'
  BY <1>2, <1>4 DEF Quiet, Answering
<1>7. Chaining'
  <2>1. ASSUME pc' = "chain" PROVE more = TRUE /\ off' + 1 < Parts[apdu']
    BY <2>1, <1>1, <1>2
  <2> QED
    BY <1>1, <1>2, <1>3, <1>4, <2>1 DEF Chaining
<1>8. Awaiting'
  <2>1. ASSUME pc' = "recv" PROVE more = FALSE /\ off' + 1 = Parts[apdu']
    BY <2>1, <1>1, <1>2
  <2> QED
    BY <1>1, <1>2, <1>3, <1>4, <2>1 DEF Awaiting
<1>9. Agreement'
  <2>1. sound' => Pending'
    BY <1>1, <1>4 DEF Pending, Sofar
  <2> QED
    BY <2>1, <1>2, <1>3, <1>4 DEF Agreement
<1>10. UNCHANGED <<sound, ran, got>> /\ UNCHANGED doing
  BY <1>1, <1>2, <1>4 DEF doing
<1> QED
  BY <1>5, <1>6, <1>7, <1>8, <1>9, <1>10, Stutter DEF Step, IInv

(* The card has acknowledged the block (HearsAck). *)
LEMMA AckStep ==
  ASSUME IInv, HearsAck
  PROVE  Step
<1>1. /\ pc = "chain" /\ air.frame.kind = "ACK" /\ air.frame.bn = bn
      /\ off' = off + 1 /\ bn' = Other(bn) /\ retries' = 0
      /\ UNCHANGED <<card, env, sound, apdu, resp, got>> /\ SendsPiece(bn', off')
  BY DEF HearsAck, Heard, Acks
<1>2. bn \in {0, 1} /\ bn' \in {0, 1} /\ Other(bn') = bn /\ off' \in Nat
  BY <1>1, Numbers DEF IInv, TypeOK
<1>3. off' < Parts[apdu]
  BY <1>1 DEF IInv, Chaining
<1>4. sound => cbn = Other(bn') /\ cmd = Sofar(off')
  BY <1>1, <1>2 DEF IInv, Agreement, Taken
<1>5. retries' \in 0..NakMax
  BY <1>1, Lengths
<1> QED
  BY <1>1, <1>2, <1>3, <1>4, <1>5, SendingStep

(* The block is sent again to a card that has not taken it (HearsRetry). *)
LEMMA RetryStep ==
  ASSUME IInv, HearsRetry
  PROVE  Step
<1>1. /\ pc = "chain" /\ UNCHANGED <<card, env>> /\ ResendsOrFails
      /\ (air.frame.kind = "NAK" \/ (air.frame.kind = "ACK" /\ air.frame.bn # bn))
  <2>1. pc = "chain" /\ UNCHANGED <<card, env>> /\ ResendsOrFails /\ AsksAgain(air.frame)
    BY DEF HearsRetry
  <2> QED
    BY <2>1 DEF AsksAgain, Acks
<1>2. CASE Fails
  BY <1>1, <1>2, FailingStep
<1>3. CASE /\ retries < NakMax /\ retries' = retries + 1
           /\ UNCHANGED <<apdu, off, bn, resp, got, sound>> /\ SendsPiece(bn, off)
  <2>1. bn \in {0, 1} /\ off \in Nat /\ off < Parts[apdu] /\ retries \in 0..NakMax
    BY <1>1 DEF IInv, TypeOK
  <2>2. retries' \in 0..NakMax
    BY <2>1, <1>3, Lengths
  <2>3. sound => cbn = Other(bn) /\ cmd = Sofar(off)
    BY <1>1 DEF IInv, Agreement, Pending
  <2>4. bn' = bn /\ off' = off /\ UNCHANGED <<card, env, sound, apdu, resp, got>>
    BY <1>1, <1>3
  <2> QED
    BY <1>1, <1>3, <2>1, <2>2, <2>3, <2>4, SendingStep
<1>4. retries \in 0..NakMax /\ NakMax \in Nat
  BY Lengths DEF IInv, TypeOK
<1> QED
  BY <1>1, <1>2, <1>3, <1>4 DEF ResendsOrFails

(* Silence, or a block that is not due (HearsOther). *)
LEMMA OtherStep ==
  ASSUME IInv, HearsOther
  PROVE  Step
BY FailingStep DEF HearsOther

(* The next block of the answer is taken, and acknowledged or the last     *)
(* (HearsAnswer).                                                          *)
LEMMA AnswerStep ==
  ASSUME IInv, HearsAnswer
  PROVE  Step
<1> DEFINE s == Joined(resp, air.frame.of, air.frame.from)
           Takes ==
             /\ Expected(air.frame) /\ Fits(s) /\ resp' = s /\ expected' = Other(expected)
             /\ UNCHANGED <<apdu, off, retries, sound>>
             /\ IF air.frame.more
                THEN air' = ToCard(ACK(expected')) /\ UNCHANGED <<pc, bn, got>>
                ELSE /\ Ends
                     /\ bn' = expected'
                     /\ got' = IF Completes(s) THEN s.of ELSE None
<1>1. pc = "recv" /\ air.to = "reader" /\ air.frame.kind = "I" /\ UNCHANGED <<card, env>>
  BY DEF HearsAnswer, Heard
<1>2. TypeReader /\ TypeAir /\ TypeCard /\ TypeRest
  BY TypeParts DEF IInv
<1>3. ran # None
  BY <1>1 DEF IInv, Awaiting
<1>4. got = None /\ off + 1 = Parts[apdu] /\ answer.of = ran
  BY <1>1, <1>3 DEF IInv, Answering
<1>5. air.frame = AnswerBlock(cbn, answer) /\ resp = Upto(answer.at)
  <2>1. air # ToReader(Silence) /\ air.to # "card" /\ Due = air.frame
    BY <1>1, OnTheAir, FrameFields DEF Due
  <2> QED
    BY <2>1, <1>1, <1>3, OnTheAir DEF IInv, Answering
<1>6. /\ air.frame.of = ran /\ air.frame.from = answer.at /\ air.frame.bn = cbn
      /\ answer.at \in Nat /\ cbn \in {0, 1} /\ ran \in Things
  BY <1>2, <1>4, <1>5, AnswerBlocks DEF TypeCard
<1>7. s = [of |-> ran, from |-> 0, len |-> answer.at + 1] /\ s \in Slices
  <2>1. s = [of |-> ran, from |-> 0, len |-> answer.at + 1]
    BY <1>5, <1>6, Continues DEF Upto
  <2> QED
    BY <2>1, <1>6 DEF Slices, Things
<1> HIDE DEF s
<1>8. CASE Fails
  BY <1>1, <1>8, FailingStep
<1>9. CASE Takes
  <2>1. /\ expected = cbn /\ expected' = Other(cbn) /\ expected' \in {0, 1}
        /\ resp' = Upto(answer.at + 1) /\ resp' \in Slices /\ resp'.len <= RspCap
    BY <1>6, <1>7, <1>9, Numbers DEF Expected, Fits, Upto
  <2>2. UNCHANGED <<cbn, cmd, answer, todo, ran, late, abort>>
    BY <1>1 DEF card, env
  <2>3. TypeCard' /\ TypeRest'
    BY <2>2, <1>2, <1>9 DEF TypeCard, TypeRest
  <2>4. CASE air.frame.more
    <3>1. air' = ToCard(ACK(expected')) /\ UNCHANGED <<pc, bn, got>>
      BY <2>4, <1>9
    <3>2. air'.to = "card" /\ air'.frame = ACK(expected') /\ air'.frame.kind = "ACK" /\ TypeAir'
      BY <3>1, <2>1, OnTheAir, FrameFields, FrameTypes DEF TypeAir
    <3>3. TypeReader'
      BY <3>1, <2>1, <1>2, <1>9 DEF TypeReader
    <3>4. Quiet' /\ Chaining' /\ Awaiting'
      BY <3>1, <2>2, <1>1, <1>3 DEF Quiet, Chaining, Awaiting
    <3>5. Answering'
      <4>1. Upto(answer.at + 1) = Upto(answer.at + 1)'
        BY <2>2 DEF Upto
      <4> QED
        BY <4>1, <3>1, <3>2, <2>1, <2>2, <1>1, <1>4, <1>9 DEF Answering
    <3>6. Agreement'
      BY <3>1, <3>2, <2>2, <1>1, <1>3, <1>9 DEF IInv, Agreement
    <3>7. UNCHANGED <<sound, ran, got>> /\ UNCHANGED doing
      BY <3>1, <2>2, <1>9 DEF doing
    <3> QED
      BY <2>3, <3>2, <3>3, <3>4, <3>5, <3>6, <3>7, TypePartsNext, Stutter DEF Step, IInv
  <2>5. CASE ~air.frame.more
    <3>1. /\ pc' = "idle" /\ air' = ToReader(Silence) /\ bn' = Other(cbn) /\ got' = ran
      BY <2>5, <2>1, <1>3, <1>7, <1>9 DEF Ends, Completes
    <3>2. TypeAir'
      BY <3>1, OnTheAir, FrameTypes DEF TypeAir
    <3>3. TypeReader'
      BY <3>1, <2>1, <1>2, <1>6, <1>9 DEF TypeReader
    <3>4. (Quiet /\ Chaining /\ Awaiting /\ Answering)'
      BY <3>1 DEF Quiet, Chaining, Awaiting, Answering
    <3>5. Agreement'
      BY <3>1, <2>2, <1>1, <1>3, <1>9 DEF IInv, Agreement
    <3>6. Exchange!Succeed
      <4>1. doing # None /\ doing' = None
        BY <3>1, <1>1, Doing DEF IInv, doing
      <4> QED
        BY <4>1, <3>1, <2>2, <1>3, <1>9 DEF Exchange!Succeed
    <3> QED
      BY <2>3, <3>2, <3>3, <3>4, <3>5, <3>6, TypePartsNext DEF Step, IInv, Exchange!Next
  <2> QED
    BY <2>4, <2>5
<1>10. Fails \/ Takes
  BY DEF HearsAnswer, s
<1> QED
  BY <1>8, <1>9, <1>10

-----------------------------------------------------------------------------
(* The card and the radio                                                  *)

LEMMA ReaderStays ==
  ASSUME TypeOK, UNCHANGED <<reader, env, sound>>, TypeAir', TypeCard'
  PROVE  /\ TypeOK' /\ UNCHANGED doing
         /\ UNCHANGED <<pc, apdu, off, bn, expected, resp, retries, got, late, abort, sound>>
<1>1. UNCHANGED <<pc, apdu, off, bn, expected, resp, retries, got, late, abort, sound>>
  BY DEF reader, env
<1>2. TypeReader' /\ TypeRest'
  BY <1>1, TypeParts DEF TypeReader, TypeRest
<1> QED
  BY <1>1, <1>2, TypePartsNext DEF doing

(* A block that is not the last of its APDU is taken (CardTakesPiece).     *)
LEMMA PieceStep ==
  ASSUME IInv, air.to = "card", CardTakesPiece(air.frame), UNCHANGED <<reader, env, sound>>
  PROVE  Step
<1>1. /\ air.frame.kind = "I" /\ air.frame.more /\ cbn' = Other(cbn)
      /\ cmd' = Joined(cmd, air.frame.of, air.frame.from)
      /\ Replies(ACK(cbn')) /\ UNCHANGED <<answer, ran>>
  BY DEF CardTakesPiece
<1>2. pc = "chain" /\ air.frame = I(bn, apdu, off, TRUE)
  <2>1. pc # "idle"
    BY OnTheAir DEF IInv, Quiet
  <2>2. ~(pc = "recv" /\ ran # None)
    BY <1>1 DEF IInv, Answering
  <2>3. ~(pc = "recv" /\ ran = None)
    <3>1. air.frame # I(bn, apdu, off, FALSE)
      BY <1>1 DEF I, Frame
    <3> QED
      BY <3>1 DEF IInv, Awaiting
  <2>4. pc \in {"idle", "chain", "recv"}
    BY DEF IInv, TypeOK
  <2>5. pc = "chain"
    BY <2>1, <2>2, <2>3, <2>4
  <2> QED
    BY <2>5, <1>1, FrameFields DEF IInv, Chaining
<1>3. /\ cbn \in {0, 1} /\ cmd \in Slices /\ apdu \in Apdus /\ off \in Nat /\ bn \in {0, 1}
      /\ answer \in [of : Things, at : Nat, len : Nat] /\ ran \in Things
  BY <1>2, TypeParts DEF IInv, TypeReader, TypeCard
<1>4. cmd' = Joined(cmd, apdu, off) /\ cmd' \in Slices /\ cbn' \in {0, 1}
  <2>1. cmd' = Joined(cmd, apdu, off)
    <3>1. I(bn, apdu, off, TRUE).of = apdu /\ I(bn, apdu, off, TRUE).from = off
      BY DEF I, Frame
    <3>2. air.frame.of = apdu /\ air.frame.from = off
      BY <3>1, <1>2
    <3> QED
      BY <3>2, <1>1
  <2> QED
    <3>1. apdu \in Things /\ cbn' \in {0, 1}
      BY <1>1, <1>3, Numbers DEF Things
    <3> QED
      BY <2>1, <3>1, <1>3, SliceTypes
<1>5. /\ TypeAir' /\ todo' \in Frames /\ air'.to = "reader" /\ Due' = ACK(cbn')
      /\ air'.frame = ACK(cbn') \/ (air'.frame = WTX /\ todo' = ACK(cbn'))
  <2>1. ACK(cbn') \in Frames /\ ACK(cbn').kind # "WTX"
    BY <1>4, FrameTypes, FrameFields
  <2> QED
    BY <2>1, <1>1, Replying
<1>6. TypeCard'
  BY <1>1, <1>3, <1>4, <1>5 DEF TypeCard
<1>7. /\ TypeOK' /\ UNCHANGED doing
      /\ UNCHANGED <<pc, apdu, off, bn, expected, resp, retries, got, sound>>
  BY <1>5, <1>6, ReaderStays DEF IInv
<1>8. (Quiet /\ Awaiting /\ Answering)'
  BY <1>2, <1>7 DEF Quiet, Awaiting, Answering
<1>9. Chaining'
  BY <1>1, <1>2, <1>5, <1>7, FrameFields DEF IInv, Chaining
<1>10. Agreement'
  <2> SUFFICES ASSUME sound PROVE Agreement'
    BY <1>7 DEF Agreement
  <2>1. Pending
    BY <1>1, <1>2 DEF IInv, Agreement
  <2>2. cbn' = bn
    BY <2>1, <1>1, <1>3, Numbers DEF Pending
  <2>3. cmd' = [of |-> apdu, from |-> 0, len |-> off + 1]
    BY <2>1, <1>3, <1>4, Continues DEF Pending, Sofar
  <2>4. Taken'
    BY <2>2, <2>3, <1>3, <1>7 DEF Taken, Sofar
  <2>5. CASE air'.frame = ACK(cbn')
    BY <2>2, <2>4, <2>5, <1>2, <1>7, FrameFields DEF Agreement
  <2>6. CASE air'.frame = WTX /\ todo' = ACK(cbn')
    BY <2>2, <2>4, <2>6, <1>2, <1>7, FrameFields DEF Agreement
  <2> QED
    BY <2>5, <2>6, <1>5
<1>11. UNCHANGED <<sound, ran, got>>
  BY <1>1, <1>7
<1> QED
  BY <1>7, <1>8, <1>9, <1>10, <1>11, Stutter DEF Step, IInv

(* The last block is taken, and the command run (CardRunsCommand).         *)
LEMMA RunStep ==
  ASSUME IInv, air.to = "card", CardRunsCommand(air.frame), UNCHANGED <<reader, env, sound>>
  PROVE  Step
<1>1. /\ air.frame.kind = "I" /\ ~air.frame.more /\ cbn' = Other(cbn) /\ cmd' = Nothing
      /\ ran' = Meaning(Joined(cmd, air.frame.of, air.frame.from))
      /\ \E n \in 1..AnswerMax : answer' = [of |-> ran', at |-> 0, len |-> n]
      /\ Replies(AnswerBlock(cbn', answer'))
  BY DEF CardRunsCommand
<1>2. pc = "recv" /\ ran = None /\ air.frame = I(bn, apdu, off, FALSE)
  <2>1. pc # "idle"
    BY OnTheAir DEF IInv, Quiet
  <2>2. ~(pc = "recv" /\ ran # None)
    BY <1>1 DEF IInv, Answering
  <2>3. pc # "chain"
    <3>1. air.frame # I(bn, apdu, off, TRUE) /\ air.frame # WTX
      BY <1>1 DEF I, WTX, Frame
    <3> QED
      BY <3>1 DEF IInv, Chaining
  <2>4. pc \in {"idle", "chain", "recv"}
    BY DEF IInv, TypeOK
  <2>5. pc = "recv" /\ ran = None
    BY <2>1, <2>2, <2>3, <2>4
  <2> QED
    BY <2>5 DEF IInv, Awaiting
<1>3. /\ got = None /\ resp = Nothing /\ expected = bn /\ off + 1 = Parts[apdu]
      /\ cbn \in {0, 1} /\ apdu \in Apdus /\ off \in Nat /\ bn \in {0, 1} /\ cbn' \in {0, 1}
  BY <1>1, <1>2, TypeParts, Numbers DEF IInv, Awaiting, TypeReader, TypeCard
<1>4. ran' \in Things /\ ran' # None /\ ran' \in Apdus \cup {Mixed}
  BY <1>1, MeaningType DEF Things
<1>5. /\ answer' \in [of : Things, at : Nat, len : Nat]
      /\ answer'.of = ran' /\ answer'.at = 0
  <2> PICK n \in 1..AnswerMax : answer' = [of |-> ran', at |-> 0, len |-> n]
    BY <1>1
  <2>1. n \in Nat
    BY Lengths
  <2> QED
    BY <2>1, <1>4
<1>6. /\ TypeAir' /\ todo' \in Frames /\ air'.to = "reader" /\ Due' = AnswerBlock(cbn', answer')
      /\ air'.frame = AnswerBlock(cbn', answer') \/ air'.frame = WTX
  <2>1. AnswerBlock(cbn', answer') \in Frames /\ AnswerBlock(cbn', answer').kind # "WTX"
    BY <1>3, <1>5, AnswerBlocks
  <2> QED
    BY <2>1, <1>1, Replying
<1>7. TypeCard'
  BY <1>1, <1>3, <1>4, <1>5, <1>6, SliceTypes DEF TypeCard
<1>8. /\ TypeOK' /\ UNCHANGED doing
      /\ UNCHANGED <<pc, apdu, off, bn, expected, resp, retries, got, sound>>
  BY <1>6, <1>7, ReaderStays DEF IInv
<1>9. (Quiet /\ Chaining /\ Awaiting)'
  BY <1>2, <1>4, <1>8 DEF Quiet, Chaining, Awaiting
<1>10. Answering'
  <2>1. Upto(answer.at)' = Nothing
    BY <1>5 DEF Upto
  <2>2. AnswerBlock(cbn, answer)' = AnswerBlock(cbn', answer')
    BY DEF AnswerBlock
  <2> QED
    BY <2>1, <2>2, <1>3, <1>5, <1>6, <1>8 DEF Answering
<1>11. ASSUME sound PROVE ran' = apdu /\ cbn' = expected
  <2>1. Pending
    BY <1>2, <1>11 DEF IInv, Agreement
  <2>2. Joined(cmd, apdu, off) = [of |-> apdu, from |-> 0, len |-> off + 1]
    BY <2>1, <1>3, Continues DEF Pending, Sofar
  <2>3. ran' = Meaning(Joined(cmd, apdu, off))
    <3>1. I(bn, apdu, off, FALSE).of = apdu /\ I(bn, apdu, off, FALSE).from = off
      BY DEF I, Frame
    <3>2. air.frame.of = apdu /\ air.frame.from = off
      BY <3>1, <1>2
    <3> QED
      BY <3>2, <1>1
  <2>4. ran' = apdu
    BY <2>2, <2>3, <1>3, MeaningOfWhole
  <2>5. cbn' = bn
    BY <2>1, <1>1, <1>3, Numbers DEF Pending
  <2> QED
    BY <2>4, <2>5, <1>3
<1>12. Agreement'
  <2>1. cmd' = Nothing /\ pc' = "recv" /\ ran' # None /\ sound' = sound /\ UNCHANGED <<apdu, expected>>
    BY <1>1, <1>2, <1>4, <1>8
  <2> QED
    BY <2>1, <1>11 DEF Agreement
<1>13. Exchange!Run(ran')
  <2>1. doing = apdu /\ doing # None
    BY <1>2, Doing DEF IInv
  <2> QED
    BY <2>1, <1>2, <1>8, <1>11 DEF Exchange!Run
<1> QED
  BY <1>4, <1>8, <1>9, <1>10, <1>12, <1>13 DEF Step, IInv, Exchange!Next

(* The next block of the answer (CardContinues). *)
LEMMA ContinueStep ==
  ASSUME IInv, air.to = "card", CardContinues(air.frame), UNCHANGED <<reader, env, sound>>
  PROVE  Step
<1>1. /\ air.frame.kind = "ACK" /\ cbn' = air.frame.bn
      /\ answer' = IF air.frame.bn = cbn THEN answer ELSE [answer EXCEPT !.at = @ + 1]
      /\ Replies(AnswerBlock(cbn', answer')) /\ UNCHANGED <<cmd, ran>>
  BY DEF CardContinues
<1>2. pc = "recv" /\ ran # None
  <2>1. pc # "idle"
    BY OnTheAir DEF IInv, Quiet
  <2>2. pc # "chain"
    <3>1. air.frame # I(bn, apdu, off, TRUE) /\ air.frame # WTX
      BY <1>1 DEF I, WTX, Frame
    <3> QED
      BY <3>1 DEF IInv, Chaining
  <2>3. ~(pc = "recv" /\ ran = None)
    <3>1. air.frame # I(bn, apdu, off, FALSE)
      BY <1>1 DEF I, Frame
    <3> QED
      BY <3>1 DEF IInv, Awaiting
  <2>4. pc \in {"idle", "chain", "recv"}
    BY DEF IInv, TypeOK
  <2> QED
    BY <2>1, <2>2, <2>3, <2>4
<1>3. /\ got = None /\ off + 1 = Parts[apdu] /\ answer.of = ran
      /\ cbn \in {0, 1} /\ answer \in [of : Things, at : Nat, len : Nat]
      /\ expected \in {0, 1} /\ ran \in Things /\ cmd \in Slices
  BY <1>2, TypeParts DEF IInv, Answering, TypeReader, TypeCard
<1>4. air.frame = ACK(expected) /\ expected = Other(cbn) /\ resp = Upto(answer.at + 1)
  <2>1. air # ToReader(Silence)
    BY OnTheAir
  <2>2. Due # AnswerBlock(cbn, answer)
    BY <1>1, <1>3, AnswerBlocks DEF Due
  <2> QED
    BY <2>1, <2>2, <1>2, OnTheAir DEF IInv, Answering
<1>5. /\ cbn' = expected /\ answer' = [answer EXCEPT !.at = @ + 1]
      /\ answer' \in [of : Things, at : Nat, len : Nat]
      /\ answer'.of = ran /\ answer'.at = answer.at + 1
  <2>1. cbn' = expected /\ air.frame.bn # cbn
    BY <1>1, <1>3, <1>4, FrameFields, Numbers
  <2> QED
    BY <2>1, <1>1, <1>3
<1>6. /\ TypeAir' /\ todo' \in Frames /\ air'.to = "reader" /\ Due' = AnswerBlock(cbn', answer')
  <2>1. AnswerBlock(cbn', answer') \in Frames /\ AnswerBlock(cbn', answer').kind # "WTX"
    BY <1>3, <1>5, AnswerBlocks
  <2> QED
    BY <2>1, <1>1, Replying
<1>7. TypeCard'
  BY <1>1, <1>3, <1>5, <1>6 DEF TypeCard
<1>8. /\ TypeOK' /\ UNCHANGED doing
      /\ UNCHANGED <<pc, apdu, off, bn, expected, resp, retries, got, sound>>
  BY <1>6, <1>7, ReaderStays DEF IInv
<1>9. (Quiet /\ Chaining /\ Awaiting)'
  BY <1>1, <1>2, <1>8 DEF Quiet, Chaining, Awaiting
<1>10. Answering'
  <2>1. Upto(answer.at)' = Upto(answer.at + 1)
    BY <1>1, <1>5 DEF Upto
  <2>2. AnswerBlock(cbn, answer)' = AnswerBlock(cbn', answer')
    BY DEF AnswerBlock
  <2> QED
    BY <2>1, <2>2, <1>1, <1>2, <1>3, <1>4, <1>5, <1>6, <1>8 DEF Answering
<1>11. Agreement'
  BY <1>1, <1>2, <1>5, <1>8 DEF IInv, Agreement
<1>12. UNCHANGED <<sound, ran, got>>
  BY <1>1, <1>8
<1> QED
  BY <1>8, <1>9, <1>10, <1>11, <1>12, Stutter DEF Step, IInv

(* The card answers what it asked more time for, or asks for more          *)
(* (CardGoesOn).                                                           *)
LEMMA GoOnStep ==
  ASSUME IInv, air.to = "card", CardGoesOn(air.frame), UNCHANGED <<reader, env, sound>>
  PROVE  Step
<1>1. air.frame.kind = "WTX" /\ Replies(todo) /\ UNCHANGED <<cbn, cmd, answer, ran>>
  BY DEF CardGoesOn
<1>2. pc # "idle" /\ ~(pc = "recv" /\ ran = None) /\ pc \in {"idle", "chain", "recv"}
  <2>1. air.frame # I(bn, apdu, off, FALSE)
    BY <1>1 DEF I, Frame
  <2> QED
    BY <2>1, OnTheAir DEF IInv, Quiet, Awaiting, TypeOK
<1>3. Due = todo /\ (pc = "chain" => air.frame = WTX)
  <2>1. air.frame # I(bn, apdu, off, TRUE)
    BY <1>1 DEF I, Frame
  <2> QED
    BY <2>1, <1>1 DEF IInv, Chaining, Due
<1>4. pc = "chain" => todo.kind \in {"ACK", "NAK", "silence"}
  BY <1>3 DEF IInv, Chaining
<1>5. TypeCard
  BY TypeParts DEF IInv
<1>6. pc = "recv" => todo = AnswerBlock(cbn, answer) /\ resp = Upto(answer.at)
  <2>1. air # ToReader(Silence) /\ air # ToCard(ACK(expected))
    BY <1>1, OnTheAir, FrameFields
  <2> QED
    BY <2>1, <1>2, <1>3 DEF IInv, Answering
<1>7. todo \in Frames /\ todo.kind # "WTX"
  BY <1>2, <1>4, <1>5, <1>6, AnswerBlocks DEF TypeCard
<1>8. /\ TypeAir' /\ todo' \in Frames /\ air'.to = "reader" /\ Due' = todo
      /\ air'.frame = todo \/ (air'.frame = WTX /\ todo' = todo)
  BY <1>1, <1>7, Replying
<1>9. TypeCard'
  BY <1>1, <1>5, <1>8 DEF TypeCard
<1>10. /\ TypeOK' /\ UNCHANGED doing
       /\ UNCHANGED <<pc, apdu, off, bn, expected, resp, retries, got, sound>>
  BY <1>8, <1>9, ReaderStays DEF IInv
<1>11. (Quiet /\ Awaiting)'
  BY <1>1, <1>2, <1>10 DEF Quiet, Awaiting
<1>12. Chaining'
  BY <1>1, <1>4, <1>8, <1>10 DEF IInv, Chaining
<1>13. Answering'
  <2>1. Upto(answer.at)' = Upto(answer.at) /\ AnswerBlock(cbn, answer)' = AnswerBlock(cbn, answer)
    BY <1>1 DEF Upto, AnswerBlock
  <2> QED
    BY <2>1, <1>1, <1>6, <1>8, <1>10 DEF IInv, Answering
<1>14. Agreement'
  <2> SUFFICES ASSUME sound PROVE Agreement'
    BY <1>10 DEF Agreement
  <2>1. CASE pc = "chain"
    <3>1. Taken /\ todo = ACK(bn) /\ todo.kind = "ACK" /\ todo.bn = bn
      BY <2>1, <1>1, FrameFields DEF IInv, Agreement
    <3>2. Taken'
      BY <3>1, <1>1, <1>10 DEF Taken, Sofar
    <3>3. CASE air'.frame = todo
      BY <3>1, <3>2, <3>3, <2>1, <1>10 DEF Agreement
    <3>4. CASE air'.frame = WTX /\ todo' = todo
      BY <3>1, <3>2, <3>4, <2>1, <1>10, FrameFields DEF Agreement
    <3> QED
      BY <3>3, <3>4, <1>8
  <2>2. CASE pc = "recv"
    BY <2>2, <1>1, <1>2, <1>10 DEF IInv, Agreement
  <2> QED
    BY <2>1, <2>2, <1>2
<1>15. UNCHANGED <<sound, ran, got>>
  BY <1>1, <1>10
<1> QED
  BY <1>10, <1>11, <1>12, <1>13, <1>14, <1>15, Stutter DEF Step, IInv

(* The card could not read the frame (Garbled). *)
LEMMA GarbledStep ==
  ASSUME IInv, Garbled
  PROVE  Step
<1>1. air.to = "card" /\ UNCHANGED <<reader, card, env, sound>>
  BY DEF Garbled
<1> PICK f \in {Silence} \cup IF air.frame.kind = "I" THEN {NAK(0), NAK(1), ACK(cbn)} ELSE {} :
      air' = ToReader(f)
  BY DEF Garbled
<1>2. UNCHANGED <<cbn, cmd, answer, todo, ran>>
  BY <1>1 DEF card
<1>3. TypeCard /\ cbn \in {0, 1}
  BY TypeParts DEF IInv, TypeCard
<1>4. /\ f \in Frames /\ f.kind \in {"silence", "NAK", "ACK"}
      /\ air.frame.kind # "I" => f = Silence
      /\ f.kind = "ACK" => f.bn = cbn
  BY <1>3, FrameTypes, FrameFields
<1>5. air'.to = "reader" /\ air'.frame = f /\ TypeAir' /\ Due' = f
  BY <1>4, OnTheAir DEF TypeAir, Due
<1>6. TypeCard'
  BY <1>2, <1>3 DEF TypeCard
<1>7. /\ TypeOK' /\ UNCHANGED doing
      /\ UNCHANGED <<pc, apdu, off, bn, expected, resp, retries, got, sound>>
  BY <1>1, <1>5, <1>6, ReaderStays DEF IInv
<1>8. pc # "idle"
  BY <1>1, OnTheAir DEF IInv, Quiet
<1>9. (Quiet /\ Chaining /\ Awaiting)'
  BY <1>2, <1>4, <1>5, <1>7, <1>8 DEF IInv, Quiet, Chaining, Awaiting
<1>10. Answering'
  <2>1. pc = "recv" /\ ran # None => air' = ToReader(Silence)
    BY <1>1, <1>4 DEF IInv, Answering
  <2> QED
    BY <2>1, <1>2, <1>5, <1>7 DEF IInv, Answering
<1>11. Agreement'
  <2> SUFFICES ASSUME sound PROVE Agreement'
    BY <1>7 DEF Agreement
  <2>1. CASE pc = "chain"
    <3>1. f.kind # "silence" => Pending
      BY <2>1, <1>4, FrameFields DEF IInv, Agreement
    <3>2. Pending' = Pending
      BY <1>2, <1>7 DEF Pending, Sofar
    <3>3. Pending /\ f.kind = "ACK" => f.bn # bn
      BY <1>3, <1>4, Numbers DEF Pending, IInv, TypeOK
    <3> QED
      BY <2>1, <3>1, <3>2, <3>3, <1>4, <1>5, <1>7 DEF Agreement
  <2>2. CASE pc # "chain"
    BY <2>2, <1>2, <1>4, <1>5, <1>7, <1>8 DEF IInv, Agreement
  <2> QED
    BY <2>1, <2>2
<1> QED
  BY <1>2, <1>7, <1>9, <1>10, <1>11, Stutter DEF Step, IInv

(* The reader could not read the frame (Lost). *)
LEMMA LostStep ==
  ASSUME IInv, Lost
  PROVE  Step
<1>1. pc # "idle" /\ air.to = "reader" /\ air' = ToReader(Silence) /\ UNCHANGED <<reader, card, env, sound>>
  BY DEF Lost
<1>2. UNCHANGED <<cbn, cmd, answer, todo, ran>>
  BY <1>1 DEF card
<1>3. /\ air'.to = "reader" /\ air'.frame = Silence /\ air'.frame.kind = "silence"
      /\ Due' = Silence /\ TypeAir'
  <2>1. air'.to = "reader" /\ air'.frame = Silence /\ TypeAir'
    BY <1>1, OnTheAir, FrameTypes DEF TypeAir
  <2> QED
    BY <2>1, FrameFields DEF Due
<1>4. TypeCard'
  BY <1>2, TypeParts DEF IInv, TypeCard
<1>5. /\ TypeOK' /\ UNCHANGED doing
      /\ UNCHANGED <<pc, apdu, off, bn, expected, resp, retries, got, sound>>
  BY <1>1, <1>3, <1>4, ReaderStays DEF IInv
<1>6. (Quiet /\ Chaining /\ Awaiting)'
  BY <1>1, <1>2, <1>3, <1>5 DEF IInv, Quiet, Chaining, Awaiting
<1>7. Answering'
  BY <1>1, <1>2, <1>3, <1>5 DEF IInv, Answering
<1>8. Agreement'
  BY <1>1, <1>2, <1>3, <1>5 DEF IInv, Agreement
<1> QED
  BY <1>2, <1>5, <1>6, <1>7, <1>8, Stutter DEF Step, IInv

-----------------------------------------------------------------------------
(* The session, the clock and the host                                     *)

(* The session is opened again, or an attempt to do so fails (Reopened,    *)
(* ReopenFails).                                                           *)
LEMMA ReopenStep ==
  ASSUME IInv, Reopened \/ ReopenFails
  PROVE  Step
<1>1. /\ pc = "idle" /\ pc' = "idle"
      /\ UNCHANGED <<apdu, off, expected, resp, retries, got, air, answer, ran, env>>
  BY DEF Reopened, ReopenFails, reader
<1>2. /\ bn' \in {0, 1} /\ cbn' \in {0, 1} /\ cmd' \in Slices /\ todo' \in Frames
      /\ sound' \in BOOLEAN
  <2>1. bn \in {0, 1} /\ cbn \in {0, 1} /\ cmd \in Slices /\ todo \in Frames
    BY DEF IInv, TypeOK
  <2>2. CASE Reopened
    BY <2>2, SliceTypes, FrameTypes DEF Reopened
  <2>3. CASE ReopenFails
    BY <2>1, <2>3, SliceTypes, FrameTypes DEF ReopenFails, reader
  <2> QED
    BY <2>2, <2>3
<1>3. TypeOK'
  <2>1. TypeReader /\ TypeAir /\ TypeCard /\ TypeRest
    BY TypeParts DEF IInv
  <2>2. TypeReader' /\ TypeAir'
    BY <2>1, <1>1, <1>2 DEF TypeReader, TypeAir
  <2>3. TypeCard' /\ TypeRest'
    BY <2>1, <1>1, <1>2 DEF TypeCard, TypeRest, env
  <2> QED
    BY <2>2, <2>3, TypePartsNext
<1>4. (Quiet /\ Chaining /\ Awaiting /\ Answering)'
  BY <1>1 DEF IInv, Quiet, Chaining, Awaiting, Answering
<1>5. Agreement'
  <2>1. sound' => bn' = 0 /\ cbn' = 1 /\ cmd' = Nothing
    BY DEF Reopened, ReopenFails
  <2> QED
    BY <2>1, <1>1 DEF Agreement, Other
<1>6. Exchange!Reopen
  <2>1. doing = None /\ doing' = None
    BY <1>1 DEF doing
  <2> QED
    BY <2>1, <1>1, <1>2 DEF Exchange!Reopen
<1> QED
  BY <1>3, <1>4, <1>5, <1>6 DEF Step, IInv, Exchange!Next

(* Time passes, an abort comes or goes, or nothing happens. *)
LEMMA ElsewhereStep ==
  ASSUME IInv, UNCHANGED <<reader, air, card, sound>>, late' \in BOOLEAN, abort' \in BOOLEAN
  PROVE  Step
<1>1. /\ UNCHANGED <<pc, apdu, off, bn, expected, resp, retries, got, air, sound>>
      /\ UNCHANGED <<cbn, cmd, answer, todo, ran>>
  BY DEF reader, card
<1>2. TypeOK'
  BY <1>1, TypeParts, TypePartsNext
     DEF IInv, TypeReader, TypeAir, TypeCard, TypeRest
<1>3. Due' = Due
  BY <1>1 DEF Due
<1>4. (Quiet /\ Chaining /\ Awaiting)'
  BY <1>1, <1>3 DEF IInv, Quiet, Chaining, Awaiting
<1>5. Answering'
  BY <1>1, <1>3 DEF IInv, Answering, AnswerBlock, Upto
<1>6. Agreement'
  BY <1>1 DEF IInv, Agreement, Pending, Taken, Sofar
<1>7. UNCHANGED <<sound, ran, got>> /\ UNCHANGED doing
  BY <1>1 DEF doing
<1> QED
  BY <1>2, <1>4, <1>5, <1>6, <1>7, Stutter DEF Step, IInv

-----------------------------------------------------------------------------
(* The theorems                                                            *)

LEMMA InitIInv == Init => IInv
<1> SUFFICES ASSUME Init PROVE IInv
  OBVIOUS
<1>1. TypeOK
  <2>1. TypeReader
    BY SliceTypes, Lengths DEF Init, TypeReader, Nothing, Things
  <2>2. TypeAir
    BY OnTheAir, FrameTypes DEF Init, TypeAir
  <2>3. TypeCard /\ TypeRest
    BY SliceTypes, FrameTypes DEF Init, TypeCard, TypeRest, Things
  <2> QED
    BY <2>1, <2>2, <2>3, TypeParts
<1>2. Quiet /\ Chaining /\ Awaiting /\ Answering
  BY DEF Init, Quiet, Chaining, Awaiting, Answering
<1>3. Agreement
  BY DEF Init, Agreement, Other
<1> QED
  BY <1>1, <1>2, <1>3 DEF IInv

LEMMA NextStep == IInv /\ [Next]_vars => Step
<1> SUFFICES ASSUME IInv, [Next]_vars PROVE Step
  OBVIOUS
<1>1. late \in BOOLEAN /\ abort \in BOOLEAN
  BY DEF IInv, TypeOK
<1>2. ASSUME NEW a \in Apdus, Begin(a) PROVE Step
  BY <1>2, BeginStep
<1>3. CASE ReaderStep
  BY <1>3, WtxStep, AckStep, RetryStep, AnswerStep, OtherStep DEF ReaderStep
<1>4. CASE CardTakes
  BY <1>4, PieceStep, RunStep, ContinueStep, GoOnStep DEF CardTakes
<1>5. CASE Garbled \/ Lost
  BY <1>5, GarbledStep, LostStep
<1>6. CASE Reopened \/ ReopenFails
  BY <1>6, ReopenStep
<1>7. CASE TimePasses
  BY <1>1, <1>7, ElsewhereStep DEF TimePasses
<1>8. CASE HostAborts
  BY <1>1, <1>8, ElsewhereStep DEF HostAborts
<1>9. CASE UNCHANGED vars
  BY <1>1, <1>9, ElsewhereStep DEF vars, env
<1> QED
  BY <1>2, <1>3, <1>4, <1>5, <1>6, <1>7, <1>8, <1>9 DEF Next, CardStep

LEMMA Invariance == Spec => []IInv
<1>1. IInv /\ [Next]_vars => IInv'
  BY NextStep DEF Step
<1> QED
  BY InitIInv, <1>1, PTL DEF Spec

(* The types, for every set of APDUs and length of answer; in particular   *)
(* no answer, however many blocks the card sends, outgrows the response    *)
(* buffer (reader_iso_dep_append_inf).                                     *)
THEOREM TypeCorrect == Spec => []TypeOK
BY Invariance, PTL DEF IInv

(* The block protocol implements ApduExchange: whatever frames are lost,   *)
(* answered late or sent again, the card runs at most one command in an    *)
(* exchange, a success returns that command's whole answer, and until an   *)
(* exchange fails the command is the APDU                                  *)
(* (reader_security_key_send_i_block).                                     *)
THEOREM Implements == Spec => IsApduExchange
<1>1. Init => Exchange!Init
  BY DEF Init, Exchange!Init, doing
<1>2. IInv /\ [Next]_vars => [Exchange!Next]_(Exchange!vars)
  BY NextStep DEF Step
<1> QED
  BY <1>1, <1>2, Invariance, PTL DEF Spec, IsApduExchange, Exchange!Spec
=============================================================================
