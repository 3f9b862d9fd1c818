------------------------- MODULE StorageAccess_proofs -------------------------
(***************************************************************************)
(* Theorems about StorageAccess, for every set of tags, every geometry     *)
(* and every number of attempts and exchanges of tags.                     *)
(*                                                                         *)
(* The argument: a command is served in a row of places, and each place    *)
(* tells how far it has come.  While an update writes (Updates), as many   *)
(* units are verified as precede the one it is at, and the span it writes  *)
(* was checked against the tag it is checked for, whichever tag is there   *)
(* now.  While a command reads (Reads), what is read so far comes from one *)
(* tag, and no other tag answers the next exchange: a tag that has been    *)
(* taken off is not activated again before the command ends, and a Type 5  *)
(* tag is addressed.                                                       *)
(***************************************************************************)
EXTENDS StorageAccess, SequenceTheorems, TLAPS

Places == {"write", "verify", "wake"}

Typed ==
  /\ req \in [op : Items \cup {"none", "read", "update", "raw", "addressed"}, at : Nat, n : Int]
  /\ info \in [of : Tags \cup {None}, last : Int]
  /\ answer \in Seq(Tags \X Int)
  /\ verified \in Seq(Tags)

Fresh == mem = Untouched /\ verified = << >>

Updates ==
  /\ req.op # "update" => Fresh
  /\ req.op = "update" => /\ req.n \in 1..LcMax
                          /\ pc \in Places \cup {"idle", "check"}
                          /\ pc = "check" => Fresh /\ i = 1 /\ sw = "none"
  /\ pc \in Places =>
       /\ req.op = "update" /\ sw = "none"
       /\ i \in 1..req.n /\ Len(verified) = i - 1
       /\ info.of \in Tags /\ info \in InfoOf(info.of)
       /\ NewCc(info.of, req.at, req.n) \/ WriteSpan(info.of, info.last, req.at, req.n)

(* The units read are those from the first on, of the tag t *)
From(t, before) == \A k \in 1..Len(answer) : answer[k] = <<t, before + k>>
Source == answer[1][1]

Reads ==
  /\ pc \in {"remaining", "check", "raw"} => answer = << >>
  /\ pc \in {"read", "raw"} => Len(answer) < req.n
  /\ pc = "read" /\ answer # << >> =>
       /\ From(Source, req.at - 1)
       /\ kind = "type2" => awake \in {Source, None}
       /\ kind = "type5" => uid15 = Source
  /\ pc = "get" =>
       /\ req.op \in Items \ {"uid"}
       /\ i \in 1..Len(Steps(req.op)) /\ Len(answer) = i - 1
       /\ answer # << >> => From(Source, 0) /\ awake \in {Source, None}

IInv == TypeOK /\ Typed /\ UpdateInOrder /\ Updates /\ AnswerFromOneTag /\ Reads

-----------------------------------------------------------------------------
(* What holds where only one half of the state changes *)

LEMMA Constants ==
  /\ Area \in [Tags -> Nat] /\ CcBlocks \in [Tags5 -> {1, 2}] /\ Blocks \in [Tags5 -> Nat]
  /\ Cc \in Nat /\ MaxPage \in Nat /\ SwapMax \in Nat
  /\ Units \in Nat \ {0} /\ ReadPages \in Nat \ {0} /\ MultipleMax \in Nat \ {0}
  /\ LeMax \in Nat \ {0} /\ Attempts \in Nat \ {0, 1} /\ LcMax \in Nat \ {0}
  /\ Tags2 \cap Tags5 = {} /\ None \notin Tags /\ Tags = Tags2 \cup Tags5
BY SizesAssumption, TagsAssumption DEF Tags

(* The unit an update is at lies in the memory, and in the area of the tag  *)
(* it was checked for.                                                      *)
LEMMA AtUnit ==
  ASSUME IInv, pc \in Places
  PROVE  /\ At \in Unit /\ At \in Int
         /\ \/ At >= First(info.of) /\ At <= info.last
            \/ NewCc(info.of, req.at, req.n)
<1>1. /\ req.at \in Nat /\ req.n \in Int /\ i \in 1..req.n /\ info.last \in Int
      /\ info.of \in Tags /\ info.last < Units
  BY MemoryAssumption DEF IInv, Typed, Updates
<1>2. CASE NewCc(info.of, req.at, req.n)
  BY <1>1, <1>2, Constants DEF NewCc, At, Unit
<1>3. CASE WriteSpan(info.of, info.last, req.at, req.n)
  <2>1. First(info.of) \in Int
    BY <1>1, Constants DEF First
  <2> QED
    BY <1>1, <1>3, <2>1, Constants DEF WriteSpan, ReadSpan, At, Unit
<1> QED
  BY <1>2, <1>3 DEF IInv, Updates

(* A command that is no update leaves the memory alone *)
LEMMA NoUpdate ==
  ASSUME IInv, req.op # "update", req'.op # "update",
         mem' = mem, verified' = verified, pc' \notin Places
  PROVE  UpdateInOrder' /\ Updates'
<1>1. Fresh /\ Fresh'
  BY DEF IInv, Updates, Fresh
<1>2. \A t \in Tags, u \in Unit : mem'[t][u] = 0
  BY <1>1 DEF Fresh, Untouched
<1>3. verified' = << >>
  BY <1>1 DEF Fresh
<1> QED
  BY <1>1, <1>2, <1>3 DEF UpdateInOrder, Updates

(* An update reads nothing for the host *)
LEMMA NoAnswer ==
  ASSUME IInv, answer' = answer, pc' \in Places \cup {"idle"}
  PROVE  AnswerFromOneTag' /\ Reads'
BY DEF IInv, AnswerFromOneTag, Reads, Places

(* What one tag answers is put behind what that tag has answered before *)
LEMMA TakesStep ==
  ASSUME IInv, pc \in {"read", "raw"},
         NEW t \in Tags, NEW n \in 1..Left, Takes(t, n),
         answer = << >> \/ (pc = "read" /\ Source = t), req' = req
  PROVE  /\ answer' \in Seq(Tags \X Int) /\ AnswerFromOneTag'
         /\ (pc' = "idle" /\ sw' = "ok")
            \/ /\ pc' = "read" /\ sw' = sw /\ Len(answer') < req.n
               /\ answer' # << >> /\ Source' = t /\ From(t, req.at - 1)'
<1>1. /\ req.at \in Nat /\ req.n \in Int /\ answer \in Seq(Tags \X Int)
      /\ Len(answer) \in Nat /\ n \in Nat \ {0} /\ Len(answer) + n <= req.n
  BY DEF IInv, Typed, Left
<1>2. Run(t, n) \in Seq(Tags \X Int) /\ Len(Run(t, n)) = n
      /\ \A k \in 1..n : Run(t, n)[k] = <<t, NextAt + k - 1>>
  BY <1>1 DEF Run, NextAt
<1>3. \A k \in 1..Len(answer) : answer[k] = <<t, req.at - 1 + k>>
  BY <1>1 DEF IInv, Reads, From
<1>4. answer' = answer \o Run(t, n)
  BY DEF Takes
<1>5. /\ answer' \in Seq(Tags \X Int) /\ Len(answer') = Len(answer) + n
      /\ \A k \in 1..(Len(answer) + n) :
           answer'[k] = IF k <= Len(answer) THEN answer[k] ELSE Run(t, n)[k - Len(answer)]
  <2> DEFINE S == Tags \X Int
  <2>1. answer \in Seq(S) /\ Run(t, n) \in Seq(S)
    BY <1>1, <1>2
  <2> HIDE DEF S
  <2>2. /\ answer \o Run(t, n) \in Seq(S)
        /\ Len(answer \o Run(t, n)) = Len(answer) + Len(Run(t, n))
        /\ \A k \in 1..(Len(answer) + Len(Run(t, n))) : (answer \o Run(t, n))[k] =
             IF k <= Len(answer) THEN answer[k] ELSE Run(t, n)[k - Len(answer)]
    BY <2>1, ConcatProperties
  <2>3. Len(Run(t, n)) = n
    BY <1>2
  <2> QED
    BY <1>4, <2>2, <2>3 DEF S
<1>6. \A k \in 1..Len(answer') : answer'[k] = <<t, req.at - 1 + k>>
  <2> TAKE k \in 1..Len(answer')
  <2>3. Len(answer') = Len(answer) + n /\ k \in 1..(Len(answer) + n) /\ k \in Int
    BY <1>1, <1>5
  <2>4. answer'[k] = IF k <= Len(answer) THEN answer[k] ELSE Run(t, n)[k - Len(answer)]
    BY <1>5, <2>3
  <2>1. CASE k <= Len(answer)
    <3>1. k \in 1..Len(answer)
      BY <1>1, <2>1, <2>3
    <3> QED
      BY <1>3, <2>1, <2>4, <3>1
  <2>2. CASE k > Len(answer)
    <3>1. k - Len(answer) \in 1..n /\ k \in Int
      BY <1>1, <2>2, <2>3
    <3>4. answer'[k] = Run(t, n)[k - Len(answer)]
      BY <1>1, <2>2, <2>3, <2>4
    <3>2. answer'[k] = <<t, NextAt + (k - Len(answer)) - 1>>
      BY <1>2, <3>1, <3>4
    <3>3. NextAt + (k - Len(answer)) - 1 = req.at - 1 + k
      BY <1>1, <3>1 DEF NextAt
    <3> QED
      BY <3>2, <3>3
  <2> QED
    BY <1>1, <2>1, <2>2, <2>3
<1>7. AnswerFromOneTag'
  <2>1. SUFFICES ASSUME NEW j \in 1..Len(answer'), NEW k \in 1..Len(answer')
                 PROVE  answer'[j][1] = answer'[k][1] /\ answer'[j][2] - answer'[k][2] = j - k
    BY DEF AnswerFromOneTag
  <2>2. answer'[j] = <<t, req.at - 1 + j>> /\ answer'[k] = <<t, req.at - 1 + k>>
    BY <1>6
  <2>3. j \in Int /\ k \in Int
    BY <1>1, <1>5
  <2> QED
    BY <1>1, <2>2, <2>3
<1>8. answer' # << >> /\ Source' = t
  <2>1. Len(answer') > 0 /\ 1 \in 1..Len(answer')
    BY <1>1, <1>5
  <2> QED
    BY <1>6, <2>1, EmptySeq DEF Source
<1>9. From(t, req.at - 1)'
  BY <1>6 DEF From
<1>10. CASE n = Left
  BY <1>5, <1>7, <1>10 DEF Takes, Reply, Goto
<1>11. CASE n # Left
  <2>2. Len(answer') = Len(answer) + n
    BY <1>5
  <2>3. n # req.n - Len(answer)
    BY <1>11 DEF Left
  <2>5. \A x, y, z \in Int : x + y <= z /\ y # z - x => x + y < z
    OBVIOUS
  <2>4. Len(answer) + n < req.n
    <3>1. Len(answer) \in Int /\ n \in Int /\ req.n \in Int /\ Len(answer) + n <= req.n
      BY <1>1
    <3> QED
      BY <2>3, <2>5, <3>1, Zenon
  <2>1. Len(answer') < req.n
    BY <2>2, <2>4
  <2> QED
    BY <1>5, <1>7, <1>8, <1>9, <1>11, <2>1 DEF Takes, Goto
<1> QED
  BY <1>10, <1>11

LEMMA InitIInv == Init => IInv
<1> SUFFICES ASSUME Init PROVE IInv
  OBVIOUS
<1>1. Len(<< >>) = 0 /\ 1..0 = {}
  OBVIOUS
<1>2. TypeOK
  <2>1. mem \in [Tags -> [Unit -> {Torn} \cup 0..LcMax]]
    BY Constants DEF Init, Untouched, Unit
  <2>2. /\ swaps \in 0..SwapMax /\ i \in 0..(LcMax + 1) /\ attempt \in 0..(Attempts - 1)
    BY Constants DEF Init
  <2>3. /\ fastOff \in [of : Tags2 \cup {None}, off : BOOLEAN]
        /\ multipleOff \in [of : Tags5 \cup {None}, off : BOOLEAN]
    BY DEF Init
  <2> QED
    BY <2>1, <2>2, <2>3 DEF Init, TypeOK, NoReq
<1>3. Typed
  BY DEF Init, Typed, NoReq, NoInfo
<1>4. UpdateInOrder
  <2>1. \A t \in Tags, u \in Unit : mem[t][u] = 0
    BY DEF Init, Untouched
  <2> QED
    BY <1>1, <2>1 DEF Init, UpdateInOrder, NoReq
<1>5. Updates
  BY DEF Init, Updates, Fresh, NoReq, Places
<1>6. AnswerFromOneTag /\ Reads
  BY <1>1 DEF Init, AnswerFromOneTag, Reads
<1> QED
  BY <1>2, <1>3, <1>4, <1>5, <1>6 DEF IInv

-----------------------------------------------------------------------------
(* Tags and aborts *)

LEMMA SameCommand ==
  ASSUME IInv, UNCHANGED <<mem, req, info, i, verified, sw, answer, pc>>
  PROVE  Typed' /\ UpdateInOrder' /\ Updates' /\ AnswerFromOneTag'
<1>1. Typed'
  BY DEF IInv, Typed
<1>2. UpdateInOrder'
  BY DEF IInv, UpdateInOrder, At
<1>3. Updates'
  BY DEF IInv, Updates, Fresh
<1>4. AnswerFromOneTag'
  BY DEF IInv, AnswerFromOneTag
<1> QED
  BY <1>1, <1>2, <1>3, <1>4

LEMMA WorldStep == IInv /\ (Swap \/ Detect \/ Abort) => IInv'
<1> SUFFICES ASSUME IInv, Swap \/ Detect \/ Abort PROVE IInv'
  OBVIOUS
<1>1. UNCHANGED <<mem, req, info, i, verified, sw, answer, pc>>
  BY DEF Swap, Detect, Abort, tag, command
<1>2. Typed' /\ UpdateInOrder' /\ Updates' /\ AnswerFromOneTag'
  BY <1>1, SameCommand
<1>3. CASE Swap
  <2>1. TypeOK'
    BY <1>3, Constants DEF IInv, TypeOK, Swap, known, caps, command
  <2>2. Reads'
    BY <1>3 DEF IInv, Reads, Swap, known, command, From, Source
  <2> QED
    BY <1>2, <2>1, <2>2 DEF IInv
<1>4. CASE Detect
  <2>1. TypeOK'
    BY <1>4, Constants DEF IInv, TypeOK, Detect, caps, command
  <2>2. Reads'
    BY <1>4 DEF IInv, Reads, Detect
  <2> QED
    BY <1>2, <2>1, <2>2 DEF IInv
<1>5. CASE Abort
  <2>1. TypeOK'
    BY <1>5 DEF IInv, TypeOK, Abort, tag, known, caps, command
  <2>2. Reads'
    BY <1>5 DEF IInv, Reads, Abort, tag, known, command, From, Source
  <2> QED
    BY <1>2, <2>1, <2>2 DEF IInv
<1> QED
  BY <1>3, <1>4, <1>5

-----------------------------------------------------------------------------
(* Commands and their checks *)

LEMMA BeginStep ==
  ASSUME IInv,
         NEW op \in Items \cup {"read", "update", "raw", "addressed"}, NEW at \in Unit, NEW n \in Nat,
         Begin(op, at, n),
         pc' \in {"idle", "remaining", "check", "get"},
         sw' \in {"none", "ok", "unsupported"},
         op = "update" => n \in 1..LcMax /\ pc' \in {"idle", "check"} /\ sw' # "ok",
         op = "update" /\ pc' = "check" => sw' = "none",
         pc' = "get" => op \in Items \ {"uid"}
  PROVE  IInv'
<1>1. /\ req' = [op |-> op, at |-> at, n |-> n] /\ req'.op = op /\ req'.at = at /\ req'.n = n
      /\ info' = NoInfo /\ i' = 1 /\ attempt' = 0 /\ answer' = << >> /\ verified' = << >>
      /\ mem' = Untouched /\ Len(<< >>) = 0
  BY DEF Begin
<1>2. TypeOK'
  <2>1. mem' \in [Tags -> [Unit -> {Torn} \cup 0..LcMax]]
    BY <1>1, Constants DEF Untouched, Unit
  <2>2. i' \in 0..(LcMax + 1) /\ attempt' \in 0..(Attempts - 1)
    BY <1>1, Constants
  <2>3. UNCHANGED <<field, swaps, awake, kind, uid14, uid15, fastOff, multipleOff>> /\ abort' \in BOOLEAN
    BY DEF Begin, known, caps
  <2> QED
    BY <1>1, <2>1, <2>2, <2>3 DEF IInv, TypeOK
<1>3. Typed'
  <2>1. at \in Nat
    BY Constants DEF Unit
  <2> QED
    BY <1>1, <2>1 DEF Typed, NoInfo
<1>4. UpdateInOrder'
  <2>1. \A t \in Tags, u \in Unit : mem'[t][u] = 0
    BY <1>1 DEF Untouched
  <2> QED
    BY <1>1, <2>1 DEF UpdateInOrder
<1>5. Updates'
  BY <1>1 DEF Updates, Fresh, Places
<1>6. AnswerFromOneTag'
  BY <1>1 DEF AnswerFromOneTag
<1>7. Reads'
  <2>1. op \in Items \ {"uid"} => 1 \in 1..Len(Steps(op))
    BY DEF Items, Steps
  <2> QED
    BY <1>1, <2>1 DEF Reads
<1> QED
  BY <1>2, <1>3, <1>4, <1>5, <1>6, <1>7 DEF IInv

LEMMA HostStep == IInv /\ (ReadBinary \/ UpdateBinary \/ RawRead \/ GetData) => IInv'
<1> SUFFICES ASSUME IInv, ReadBinary \/ UpdateBinary \/ RawRead \/ GetData PROVE IInv'
  OBVIOUS
<1>1. CASE ReadBinary
  <2>1. PICK at \in Unit, n \in 0..LcMax :
          /\ Begin("read", at, LesserOf(n, LeMax))
          /\ IF kind = "none" THEN Reply("unsupported")
             ELSE Goto(IF n = 0 THEN "remaining" ELSE "check") /\ sw' = "none"
    BY <1>1 DEF ReadBinary
  <2>2. LesserOf(n, LeMax) \in Nat
    BY Constants DEF LesserOf
  <2>3. pc' \in {"idle", "remaining", "check"} /\ sw' \in {"none", "unsupported"}
    BY <2>1 DEF Reply, Goto
  <2> QED
    BY <2>1, <2>2, <2>3, BeginStep DEF Items
<1>2. CASE UpdateBinary
  <2>1. PICK at \in Unit, n \in 1..LcMax :
          /\ Begin("update", at, n)
          /\ IF kind = "none" THEN Reply("unsupported") ELSE Goto("check") /\ sw' = "none"
    BY <1>2 DEF UpdateBinary
  <2>2. n \in Nat
    BY Constants
  <2>3. /\ pc' \in {"idle", "check"} /\ sw' \in {"none", "unsupported"}
        /\ pc' = "check" => sw' = "none"
    BY <2>1 DEF Reply, Goto
  <2> QED
    BY <2>1, <2>2, <2>3, BeginStep DEF Items
<1>3. CASE RawRead
  <2>1. PICK at \in Unit, n \in 1..LcMax, addressed \in BOOLEAN :
          /\ Begin(IF addressed THEN "addressed" ELSE "raw", at, n)
          /\ IF kind = "none" THEN Reply("unsupported") ELSE Goto("check") /\ sw' = "none"
    BY <1>3 DEF RawRead
  <2>2. n \in Nat
    BY Constants
  <2>3. pc' \in {"idle", "check"} /\ sw' \in {"none", "unsupported"}
    BY <2>1 DEF Reply, Goto
  <2>4. CASE addressed
    BY <2>1, <2>2, <2>3, <2>4, BeginStep DEF Items
  <2>5. CASE ~addressed
    BY <2>1, <2>2, <2>3, <2>5, BeginStep DEF Items
  <2> QED
    BY <2>4, <2>5
<1>4. CASE GetData
  <2>1. PICK item \in Items :
          /\ Begin(item, 0, 0)
          /\ IF ~Offered(item) \/ item = "uid"
             THEN Reply(IF Offered(item) THEN "ok" ELSE "unsupported")
             ELSE Goto("get") /\ sw' = "none"
    BY <1>4 DEF GetData
  <2>2. 0 \in Unit /\ 0 \in Nat
    BY Constants DEF Unit
  <2>3. /\ pc' \in {"idle", "get"} /\ sw' \in {"none", "ok", "unsupported"}
        /\ pc' = "get" => item # "uid"
    BY <2>1 DEF Reply, Goto
  <2>4. item # "update" /\ item \in Items \cup {"read", "update", "raw", "addressed"}
    BY DEF Items
  <2> QED
    BY <2>1, <2>2, <2>3, <2>4, BeginStep
<1> QED
  BY <1>1, <1>2, <1>3, <1>4

LEMMA FromATag == ASSUME IInv, InfoFrom # None PROVE InfoFrom \in Tags
BY Constants DEF IInv, TypeOK, InfoFrom, Reached

LEMMA InfoTyped ==
  ASSUME NEW t \in Tags, NEW n \in InfoOf(t)
  PROVE  n \in [of : Tags, last : Int] /\ n.of = t
<1>1. CASE t \in Tags2
  <2>1. Last2(t) \in Int
    BY <1>1, Constants DEF Last2, LesserOf
  <2> QED
    BY <1>1, <2>1 DEF InfoOf
<1>2. CASE t \notin Tags2
  <2>1. t \in Tags5
    BY <1>2, Constants
  <2>2. \A b \in {0, Blocks[t]} : Last5(t, b) \in Int
    BY <2>1, Constants DEF Last5
  <2> QED
    BY <1>2, <2>2 DEF InfoOf
<1> QED
  BY <1>1, <1>2

LEMMA SizeLeStep == IInv /\ SizeLe => IInv'
<1> SUFFICES ASSUME IInv, SizeLe PROVE IInv'
  OBVIOUS
<1>1. /\ pc = "remaining" /\ pc' = "check" /\ awake' \in {awake, None}
      /\ UNCHANGED <<field, swaps, mem, kind, uid14, uid15, fastOff, multipleOff, abort, info, i,
                     attempt, answer, verified, sw>>
  BY DEF SizeLe, Goto, Fails, known, caps
<1>2. PICK n \in Int : req' = [req EXCEPT !.n = n]
  <2>1. CASE InfoFrom # None /\ req' = [req EXCEPT !.n = Remaining(InfoFrom)]
    <3>1. InfoFrom \in Tags /\ req.at \in Int
      BY <2>1, FromATag DEF IInv, Typed
    <3>2. Remaining(InfoFrom) \in Int
      BY <3>1, Constants DEF Remaining, LesserOf
    <3> QED
      BY <2>1, <3>2
  <2>2. CASE req' = [req EXCEPT !.n = LeMax]
    BY <2>2, Constants
  <2> QED
    BY <2>1, <2>2 DEF SizeLe
<1>3. req \in [op : Items \cup {"none", "read", "update", "raw", "addressed"}, at : Nat, n : Int]
  BY DEF IInv, Typed
<1>4. /\ req' \in [op : Items \cup {"none", "read", "update", "raw", "addressed"}, at : Nat, n : Int]
      /\ req'.op = req.op
  BY <1>2, <1>3
<1>5. TypeOK' /\ Typed'
  BY <1>1, <1>4 DEF IInv, TypeOK, Typed
<1>6. req.op # "update"
  BY <1>1 DEF IInv, Updates, Places
<1>7. UpdateInOrder' /\ Updates'
  BY <1>1, <1>4, <1>6, NoUpdate DEF Places
<1>8. AnswerFromOneTag' /\ Reads'
  BY <1>1 DEF IInv, AnswerFromOneTag, Reads
<1> QED
  BY <1>5, <1>7, <1>8 DEF IInv

LEMMA CheckStep == IInv /\ Check => IInv'
<1> SUFFICES ASSUME IInv, Check PROVE IInv'
  OBVIOUS
<1>1. /\ pc = "check" /\ awake' \in {awake, None}
      /\ UNCHANGED <<field, swaps, mem, kind, uid14, uid15, fastOff, multipleOff, abort, req, i,
                     attempt, answer, verified>>
  BY DEF Check, Fails, known, caps
<1>2. CASE pc' = "idle" /\ sw' \in {"unsupported", "denied", "wrong"} /\ info' = info
  <2>1. TypeOK' /\ Typed'
    BY <1>1, <1>2 DEF IInv, TypeOK, Typed
  <2>2. UpdateInOrder' /\ Updates'
    <3>1. CASE req.op = "update"
      <4>1. Fresh
        BY <1>1, <3>1 DEF IInv, Updates
      <4>2. \A t \in Tags, u \in Unit : mem'[t][u] = 0
        BY <1>1, <4>1 DEF Fresh, Untouched
      <4>3. verified' = << >>
        BY <1>1, <4>1 DEF Fresh
      <4>4. UpdateInOrder'
        BY <1>2, <4>2, <4>3 DEF UpdateInOrder
      <4> QED
        BY <1>1, <1>2, <3>1, <4>4 DEF IInv, Updates, Places
    <3>2. CASE req.op # "update"
      BY <1>1, <1>2, <3>2, NoUpdate DEF Places
    <3> QED
      BY <3>1, <3>2
  <2> QED
    BY <1>1, <1>2, <2>1, <2>2, NoAnswer DEF IInv
<1>3. ASSUME InfoFrom # None, NEW n \in InfoOf(InfoFrom), info' = n,
             \/ pc' = "idle" /\ sw' \in {"denied", "wrong"}
             \/ /\ pc' = Permitted(n.of, n.last) /\ pc' \notin {"denied", "wrong"} /\ sw' = sw
      PROVE  IInv'
  <2>1. /\ n \in [of : Tags, last : Int] /\ n.of = InfoFrom /\ InfoFrom \in Tags
    BY <1>3, FromATag, InfoTyped
  <2>2. Typed'
    BY <1>1, <1>3, <2>1 DEF IInv, Typed
  <2>3. CASE pc' = "idle" /\ sw' \in {"denied", "wrong"}
    <3>1. TypeOK'
      BY <1>1, <2>3 DEF IInv, TypeOK
    <3>2. Fresh
      BY <1>1 DEF IInv, Updates
    <3>3. \A t \in Tags, u \in Unit : mem'[t][u] = 0
      BY <1>1, <3>2 DEF Fresh, Untouched
    <3>4. verified' = << >>
      BY <1>1, <3>2 DEF Fresh
    <3>5. UpdateInOrder'
      BY <2>3, <3>3, <3>4 DEF UpdateInOrder
    <3>6. Updates'
      BY <1>1, <2>3, <3>2 DEF IInv, Updates, Fresh, Places
    <3> QED
      BY <1>1, <2>2, <2>3, <3>1, <3>5, <3>6, NoAnswer DEF IInv
  <2>4. CASE req.op = "update" /\ pc' = "write" /\ sw' = sw
    <3>1. /\ NewCc(info'.of, req.at, req.n) \/ WriteSpan(info'.of, info'.last, req.at, req.n)
          /\ info'.of \in Tags /\ info' \in InfoOf(info'.of)
      BY <1>3, <2>1, <2>4 DEF Permitted
    <3>2. /\ Fresh /\ i = 1 /\ sw = "none" /\ req.n \in 1..LcMax
      BY <1>1, <2>4 DEF IInv, Updates
    <3>3. TypeOK'
      BY <1>1, <2>4, <3>2 DEF IInv, TypeOK
    <3>4. \A t \in Tags, u \in Unit : mem'[t][u] = 0
      BY <1>1, <3>2 DEF Fresh, Untouched
    <3>5. verified' = << >> /\ Len(verified') = 0
      BY <1>1, <3>2 DEF Fresh
    <3>6. UpdateInOrder'
      BY <2>4, <3>2, <3>4, <3>5 DEF UpdateInOrder
    <3>7. Updates'
      BY <1>1, <2>4, <3>1, <3>2, <3>5 DEF IInv, Updates, Places
    <3> QED
      BY <1>1, <2>2, <2>4, <3>3, <3>6, <3>7, NoAnswer DEF IInv, Places
  <2>5. CASE req.op # "update" /\ pc' \in {"read", "raw"} /\ sw' = sw
    <3>1. TypeOK'
      BY <1>1, <2>5 DEF IInv, TypeOK
    <3>2. UpdateInOrder' /\ Updates'
      BY <1>1, <2>5, NoUpdate DEF Places
    <3>3. ReadSpan(n.of, n.last, req.at, req.n)
      BY <1>3, <2>5 DEF Permitted
    <3>4. answer = << >> /\ Len(answer) = 0 /\ 0 < req.n
      BY <1>1, <3>3 DEF IInv, Reads, Typed, ReadSpan
    <3>5. AnswerFromOneTag' /\ Reads'
      BY <1>1, <2>5, <3>4 DEF IInv, AnswerFromOneTag, Reads
    <3> QED
      BY <2>2, <3>1, <3>2, <3>5 DEF IInv
  <2> QED
    BY <1>1, <1>3, <2>3, <2>4, <2>5 DEF Permitted
<1> QED
  BY <1>2, <1>3 DEF Check, Reply, Goto

-----------------------------------------------------------------------------
(* Reading *)

(* A read that stops, or goes on with what it has *)
LEMMA NoTake ==
  ASSUME IInv, pc \in {"read", "raw"}, UNCHANGED <<req, kind, uid15, answer>>,
         awake' \in {awake, None} \/ answer = << >>, pc' = "idle" \/ (pc' = pc /\ pc = "read")
  PROVE  AnswerFromOneTag' /\ Reads'
BY DEF IInv, AnswerFromOneTag, Reads, From, Source

(* One that takes what the tag t answers *)
LEMMA Took ==
  ASSUME IInv, pc \in {"read", "raw"}, UNCHANGED <<req, kind, uid15, awake, info, verified>>,
         NEW t \in Tags, NEW n \in 1..Left, Takes(t, n),
         answer = << >> \/ (pc = "read" /\ Source = t),
         n = Left \/ (kind = "type2" /\ t = awake) \/ (kind = "type5" /\ t = uid15)
  PROVE  /\ Typed' /\ AnswerFromOneTag' /\ Reads'
         /\ pc' \in {"idle", "read"} /\ sw' \in {"ok", sw}
<1>1. /\ answer' \in Seq(Tags \X Int) /\ AnswerFromOneTag'
      /\ \/ pc' = "idle" /\ sw' = "ok"
         \/ /\ pc' = "read" /\ sw' = sw /\ Len(answer') < req.n
            /\ answer' # << >> /\ Source' = t /\ From(t, req.at - 1)'
  BY TakesStep
<1>2. Typed'
  BY <1>1 DEF IInv, Typed
<1>3. pc' = "read" => n # Left
  BY DEF Takes, Reply, Goto
<1>4. pc' = "read" => From(Source, req.at - 1)'
  BY <1>1 DEF From
<1>5. Reads'
  BY <1>1, <1>3, <1>4 DEF Reads
<1> QED
  BY <1>1, <1>2, <1>5

LEMMA Pieces ==
  ASSUME IInv, pc = "read", NEW most \in Nat \ {0}
  PROVE  LesserOf(Left, most) \in 1..Left /\ Left \in 1..Left /\ Left > 0
<1>1. Len(answer) \in Nat /\ req.n \in Int /\ Len(answer) < req.n
  BY DEF IInv, Typed, Reads
<1>2. Left \in Int /\ Left >= 1
  BY <1>1 DEF Left
<1> HIDE DEF Left
<1> QED
  BY <1>2 DEF LesserOf

LEMMA AllowedTyped ==
  ASSUME NEW S, NEW cache \in [of : S, off : BOOLEAN], NEW uid \in S
  PROVE  /\ Allowed(cache, uid) \in [of : S, off : BOOLEAN]
         /\ [Allowed(cache, uid) EXCEPT !.off = TRUE] \in [of : S, off : BOOLEAN]
BY DEF Allowed

LEMMA FastReadStep == IInv /\ (FastRead \/ NoFastRead) => IInv'
<1> SUFFICES ASSUME IInv, FastRead \/ NoFastRead PROVE IInv'
  OBVIOUS
<1>1. /\ pc = "read" /\ FastWanted /\ attempt' = 1 /\ kind = "type2" /\ answer = << >>
      /\ UNCHANGED <<field, swaps, mem, kind, uid15, multipleOff, abort, req, info, i, verified>>
  BY DEF FastRead, NoFastRead, FastWanted, tag, known
<1>2. req.op # "update" /\ req.op = "read"
  BY <1>1 DEF FastWanted
<1>3. /\ Allowed(fastOff, uid14) \in [of : Tags2 \cup {None}, off : BOOLEAN]
      /\ [Allowed(fastOff, uid14) EXCEPT !.off = TRUE] \in [of : Tags2 \cup {None}, off : BOOLEAN]
  BY AllowedTyped DEF IInv, TypeOK
<1>4. /\ fastOff' \in [of : Tags2 \cup {None}, off : BOOLEAN]
      /\ \/ /\ awake # None /\ Takes(awake, req.n) /\ UNCHANGED <<awake, uid14>>
         \/ /\ pc' = "read" /\ UNCHANGED <<answer, sw>>
            /\ \/ awake' = awake /\ uid14' = uid14
               \/ field \in Tags2 /\ awake' = field /\ uid14' = field
               \/ awake' = None /\ uid14' = None
  <2>1. CASE FastRead
    BY <1>3, <2>1 DEF FastRead, Answers, Activated, NotActivated, Goto
  <2>2. CASE NoFastRead
    BY <1>3, <2>2 DEF NoFastRead, tag, known
  <2> QED
    BY <2>1, <2>2
<1>5. UpdateInOrder' /\ Updates'
  <2>1. pc' \notin Places
    BY <1>4 DEF Takes, Reply, Goto, Places
  <2> QED
    BY <1>1, <1>2, <2>1, NoUpdate
<1>6. attempt' \in 0..(Attempts - 1)
  BY <1>1, Constants
<1>7. CASE awake # None /\ Takes(awake, req.n) /\ UNCHANGED <<awake, uid14>>
  <2>1. req.n = Left /\ req.n \in 1..Left
    <3>1. Len(answer) = 0 /\ req.n \in Int
      BY <1>1 DEF IInv, Typed
    <3>2. req.n = Left
      BY <3>1 DEF Left
    <3> QED
      BY <1>1, <3>2, Pieces, Constants
  <2>2. awake \in Tags
    BY <1>7, Constants DEF IInv, TypeOK
  <2>3. /\ Typed' /\ AnswerFromOneTag' /\ Reads'
        /\ pc' \in {"idle", "read"} /\ sw' \in {"ok", sw}
    BY <1>1, <1>7, <2>1, <2>2, Took
  <2>4. TypeOK'
    BY <1>1, <1>2, <1>4, <1>6, <1>7, <2>3 DEF IInv, TypeOK
  <2> QED
    BY <1>5, <2>3, <2>4 DEF IInv
<1>8. CASE /\ pc' = "read" /\ UNCHANGED <<answer, sw>>
           /\ \/ awake' = awake /\ uid14' = uid14
              \/ field \in Tags2 /\ awake' = field /\ uid14' = field
              \/ awake' = None /\ uid14' = None
  <2>1. TypeOK'
    BY <1>1, <1>2, <1>4, <1>6, <1>8, Constants DEF IInv, TypeOK
  <2>2. Typed'
    BY <1>1, <1>8 DEF IInv, Typed
  <2>3. AnswerFromOneTag' /\ Reads'
    BY <1>1, <1>8, NoTake
  <2> QED
    BY <1>5, <2>1, <2>2, <2>3 DEF IInv
<1> QED
  BY <1>4, <1>7, <1>8

LEMMA ReadStep == IInv /\ Read => IInv'
<1> SUFFICES ASSUME IInv, Read PROVE IInv'
  OBVIOUS
<1>1. /\ pc = "read" /\ kind = "type2" /\ req.op # "update"
      /\ UNCHANGED <<field, swaps, mem, kind, uid14, uid15, fastOff, multipleOff, abort, req, info,
                     i, attempt, verified>>
  BY DEF Read, IInv, Updates, Places, known, caps
<1>2. \/ awake # None /\ Takes(awake, LesserOf(Left, ReadPages)) /\ awake' = awake
      \/ awake' \in {awake, None} /\ pc' = "idle" /\ sw' \in {"ok", "failed"} /\ answer' = answer
  BY DEF Read, Answers, Fails, Stops, Reply, Goto
<1>3. UpdateInOrder' /\ Updates'
  <2>1. pc' \notin Places
    BY <1>2 DEF Takes, Reply, Goto, Places
  <2> QED
    BY <1>1, <2>1, NoUpdate
<1>4. CASE awake # None /\ Takes(awake, LesserOf(Left, ReadPages)) /\ awake' = awake
  <2>1. LesserOf(Left, ReadPages) \in 1..Left
    BY <1>1, Pieces, Constants
  <2>2. awake \in Tags /\ (answer = << >> \/ Source = awake)
    BY <1>1, <1>4, Constants DEF IInv, TypeOK, Reads
  <2>3. /\ Typed' /\ AnswerFromOneTag' /\ Reads'
        /\ pc' \in {"idle", "read"} /\ sw' \in {"ok", sw}
    BY <1>1, <1>4, <2>1, <2>2, Took
  <2>4. TypeOK'
    BY <1>1, <1>4, <2>3 DEF IInv, TypeOK
  <2> QED
    BY <1>3, <2>3, <2>4 DEF IInv
<1>5. CASE awake' \in {awake, None} /\ pc' = "idle" /\ sw' \in {"ok", "failed"} /\ answer' = answer
  <2>1. TypeOK' /\ Typed'
    BY <1>1, <1>5 DEF IInv, TypeOK, Typed
  <2> QED
    BY <1>1, <1>3, <1>5, <2>1, NoTake DEF IInv
<1> QED
  BY <1>2, <1>4, <1>5

LEMMA ReadBlocksStep == IInv /\ ReadBlocks => IInv'
<1> SUFFICES ASSUME IInv, ReadBlocks PROVE IInv'
  OBVIOUS
<1>1. /\ pc = "read" /\ kind = "type5" /\ req.op # "update"
      /\ UNCHANGED <<field, swaps, awake, mem, kind, uid14, uid15, fastOff, abort, req, info,
                     i, attempt, verified>>
  BY DEF ReadBlocks, IInv, Updates, Places, tag, known
<1>2. /\ Allowed(multipleOff, uid15) \in [of : Tags5 \cup {None}, off : BOOLEAN]
      /\ [Allowed(multipleOff, uid15) EXCEPT !.off = TRUE] \in [of : Tags5 \cup {None}, off : BOOLEAN]
  BY AllowedTyped DEF IInv, TypeOK
<1>3. multipleOff' \in [of : Tags5 \cup {None}, off : BOOLEAN]
  BY <1>2 DEF ReadBlocks, IInv, TypeOK
<1>4. \/ uid15 # None /\ \E n \in {1, LesserOf(Left, MultipleMax)} : Takes(uid15, n)
      \/ pc' \in {"read", "idle"} /\ sw' \in {"ok", "failed", sw} /\ answer' = answer
  BY <1>1 DEF ReadBlocks, Reached, Stops, Reply, Goto
<1>5. UpdateInOrder' /\ Updates'
  <2>1. pc' \notin Places
    BY <1>4 DEF Takes, Reply, Goto, Places
  <2> QED
    BY <1>1, <2>1, NoUpdate
<1>6. ASSUME uid15 # None, NEW n \in {1, LesserOf(Left, MultipleMax)}, Takes(uid15, n) PROVE IInv'
  <2>1. n \in 1..Left
    <3>1. LesserOf(Left, MultipleMax) \in 1..Left /\ Left > 0 /\ Left \in 1..Left
      BY <1>1, Pieces, Constants
    <3> HIDE DEF Left
    <3> QED
      BY <1>6, <3>1
  <2>2. uid15 \in Tags /\ (answer = << >> \/ Source = uid15)
    BY <1>1, <1>6, Constants DEF IInv, TypeOK, Reads
  <2>3. /\ Typed' /\ AnswerFromOneTag' /\ Reads'
        /\ pc' \in {"idle", "read"} /\ sw' \in {"ok", sw}
    BY <1>1, <1>6, <2>1, <2>2, Took
  <2>4. TypeOK'
    BY <1>1, <1>3, <2>3 DEF IInv, TypeOK
  <2> QED
    BY <1>5, <2>3, <2>4 DEF IInv
<1>7. CASE pc' \in {"read", "idle"} /\ sw' \in {"ok", "failed", sw} /\ answer' = answer
  <2>1. TypeOK' /\ Typed'
    BY <1>1, <1>3, <1>7 DEF IInv, TypeOK, Typed
  <2>2. AnswerFromOneTag' /\ Reads'
    BY <1>1, <1>7, NoTake
  <2> QED
    BY <1>5, <2>1, <2>2 DEF IInv
<1> QED
  BY <1>4, <1>6, <1>7

LEMMA RawStep == IInv /\ RawSent => IInv'
<1> SUFFICES ASSUME IInv, RawSent PROVE IInv'
  OBVIOUS
<1>1. /\ pc = "raw" /\ answer = << >> /\ req.op # "update"
      /\ UNCHANGED <<field, swaps, mem, kind, uid14, uid15, fastOff, multipleOff, abort, req, info,
                     i, attempt, verified>>
  BY DEF RawSent, IInv, Updates, Reads, Places, known, caps
<1>2. \/ \E t \in Tags : Takes(t, Left) /\ awake' = awake
      \/ awake' \in {awake, None} /\ pc' = "idle" /\ sw' = "failed" /\ answer' = answer
  <2>1. CASE kind = "type2" /\ Answers /\ Takes(awake, Left) /\ UNCHANGED awake
    BY <2>1, Constants DEF IInv, TypeOK, Answers
  <2>2. CASE /\ kind = "type5" /\ IF req.op = "addressed" THEN Reached ELSE field \in Tags5
             /\ Takes(field, Left) /\ UNCHANGED awake
    BY <2>2, Constants DEF IInv, TypeOK, Reached
  <2>3. CASE Fails /\ Reply("failed") /\ UNCHANGED answer
    BY <2>3 DEF Fails, Reply, Goto
  <2> QED
    BY <2>1, <2>2, <2>3 DEF RawSent
<1>3. UpdateInOrder' /\ Updates'
  <2>1. pc' \notin Places
    BY <1>2 DEF Takes, Reply, Goto, Places
  <2> QED
    BY <1>1, <2>1, NoUpdate
<1>4. ASSUME NEW t \in Tags, Takes(t, Left), awake' = awake PROVE IInv'
  <2>1. Left \in 1..Left
    <3>1. Len(answer) \in Nat /\ req.n \in Int /\ Len(answer) < req.n
      BY <1>1 DEF IInv, Typed, Reads
    <3>2. Left \in Int /\ Left >= 1
      BY <3>1 DEF Left
    <3> HIDE DEF Left
    <3> QED
      BY <3>2
  <2>2. /\ Typed' /\ AnswerFromOneTag' /\ Reads'
        /\ pc' \in {"idle", "read"} /\ sw' \in {"ok", sw}
    BY <1>1, <1>4, <2>1, Took
  <2>3. TypeOK'
    BY <1>1, <1>4, <2>2 DEF IInv, TypeOK
  <2> QED
    BY <1>3, <2>2, <2>3 DEF IInv
<1>5. CASE awake' \in {awake, None} /\ pc' = "idle" /\ sw' = "failed" /\ answer' = answer
  <2>1. TypeOK' /\ Typed'
    BY <1>1, <1>5 DEF IInv, TypeOK, Typed
  <2> QED
    BY <1>1, <1>3, <1>5, <2>1, NoTake DEF IInv
<1> QED
  BY <1>2, <1>4, <1>5

LEMMA GetStepStep == IInv /\ GetStep => IInv'
<1> SUFFICES ASSUME IInv, GetStep PROVE IInv'
  OBVIOUS
<1> DEFINE steps == Steps(req.op)
           from == IF steps[i] = "info5" THEN IF Reached THEN uid15 ELSE None ELSE awake
<1>1. /\ pc = "get" /\ req.op # "update" /\ req.op \in Items \ {"uid"}
      /\ i \in 1..Len(steps) /\ Len(answer) = i - 1 /\ answer \in Seq(Tags \X Int)
      /\ UNCHANGED <<field, swaps, mem, kind, uid15, fastOff, multipleOff, abort, req, info,
                     attempt, verified>>
  BY DEF GetStep, IInv, Updates, Reads, Typed, Items, caps
<1>2. /\ Len(steps) \in {1, 2}
      /\ Len(steps) = 2 => steps[1] # "info5" /\ steps[2] # "info5"
  BY <1>1 DEF Items, Steps
<1>7. i \in {1, 2} /\ (i # Len(steps) => i = 1 /\ Len(steps) = 2)
  <2> HIDE DEF steps
  <2>1. CASE Len(steps) = 1
    BY <1>1, <2>1
  <2>2. CASE Len(steps) = 2
    BY <1>1, <2>2
  <2> QED
    BY <1>2, <2>1, <2>2
<1>3. \/ /\ from # None /\ answer' = Append(answer, <<from, i>>) /\ UNCHANGED <<awake, uid14>>
         /\ \/ i = Len(steps) /\ pc' = "idle" /\ sw' = "ok" /\ i' = i
            \/ i # Len(steps) /\ pc' = "get" /\ sw' = sw /\ i' = i + 1
      \/ /\ pc' = "idle" /\ sw' = "unsupported" /\ UNCHANGED <<i, answer>>
         /\ \/ field \in Tags2 /\ awake' = field /\ uid14' = field
            \/ awake' \in {awake, None} /\ uid14' \in {uid14, None}
  BY DEF GetStep, Reply, Goto, Activated, NotActivated, Fails
<1>4. UpdateInOrder' /\ Updates'
  <2>1. pc' \notin Places
    BY <1>3 DEF Places
  <2> QED
    BY <1>1, <2>1, NoUpdate
<1>5. CASE /\ from # None /\ answer' = Append(answer, <<from, i>>) /\ UNCHANGED <<awake, uid14>>
           /\ \/ i = Len(steps) /\ pc' = "idle" /\ sw' = "ok" /\ i' = i
              \/ i # Len(steps) /\ pc' = "get" /\ sw' = sw /\ i' = i + 1
  <2>1. from \in Tags /\ i \in Int /\ i \in 1..2 /\ i' \in {i, i + 1} /\ i' \in 1..2
    <3>1. from \in Tags
      BY <1>5, Constants DEF IInv, TypeOK, Reached
    <3> HIDE DEF steps, from
    <3> QED
      BY <1>5, <1>7, <3>1
  <2>2. /\ answer' \in Seq(Tags \X Int) /\ Len(answer') = i
        /\ \A k \in 1..i : answer'[k] = IF k = i THEN <<from, i>> ELSE answer[k]
    BY <1>1, <1>5, <2>1
  <2>3. ASSUME i = 2 PROVE answer[1] = <<from, 1>> /\ from = awake
    <3>1. answer # << >> /\ Len(answer) = 1
      BY <1>1, <2>3
    <3>2. answer[1] = <<Source, 0 + 1>> /\ awake \in {Source, None}
      BY <1>1, <3>1 DEF IInv, Reads, From
    <3>3. from = awake
      BY <1>1, <1>2, <2>3
    <3> QED
      BY <1>5, <3>2, <3>3
  <2>4. \A k \in 1..i : answer'[k] = <<from, k>>
    BY <2>1, <2>2, <2>3
  <2>5. answer' # << >> /\ Source' = from
    BY <2>1, <2>2, <2>4, EmptySeq DEF Source
  <2>6. AnswerFromOneTag'
    <3>1. SUFFICES ASSUME NEW j \in 1..i, NEW k \in 1..i
                   PROVE  answer'[j][1] = answer'[k][1] /\ answer'[j][2] - answer'[k][2] = j - k
      BY <2>2 DEF AnswerFromOneTag
    <3> QED
      BY <2>4
  <2>7. pc' = "get" => Len(answer') = i' - 1 /\ i' \in 1..Len(steps) /\ from = awake
    <3>2. i # Len(steps) => from = awake
      BY <1>2, <1>7
    <3> HIDE DEF steps, from
    <3>3. pc' = "get" => i # Len(steps) /\ i' = i + 1
      BY <1>5
    <3>4. i # Len(steps) /\ i' = i + 1 => i = 1 /\ i' = 2 /\ i' \in 1..Len(steps)
      BY <1>7
    <3>5. Len(answer') = i
      BY <2>2
    <3> QED
      BY <3>2, <3>3, <3>4, <3>5
  <2>8. From(Source, 0)'
    BY <2>1, <2>2, <2>4, <2>5 DEF From
  <2>9. Reads'
    BY <1>1, <1>5, <2>5, <2>7, <2>8 DEF Reads
  <2>10. TypeOK'
    <3>1. i' \in 0..(LcMax + 1)
      BY <2>1, Constants
    <3> QED
      BY <1>1, <1>5, <3>1 DEF IInv, TypeOK
  <2> QED
    BY <1>1, <1>4, <2>2, <2>6, <2>9, <2>10 DEF IInv, Typed
<1>6. CASE /\ pc' = "idle" /\ sw' = "unsupported" /\ UNCHANGED <<i, answer>>
           /\ \/ field \in Tags2 /\ awake' = field /\ uid14' = field
              \/ awake' \in {awake, None} /\ uid14' \in {uid14, None}
  <2>1. TypeOK' /\ Typed'
    <3>1. /\ awake' \in Tags2 \cup {None} /\ (awake' # None => awake' = field')
          /\ uid14' \in Tags2 \cup {None}
      BY <1>1, <1>6 DEF IInv, TypeOK
    <3>2. TypeOK'
      BY <1>1, <1>6, <3>1 DEF IInv, TypeOK
    <3>3. Typed'
      BY <1>1, <1>6 DEF IInv, Typed
    <3> QED
      BY <3>2, <3>3
  <2> QED
    BY <1>1, <1>4, <1>6, <2>1, NoAnswer DEF IInv
<1> QED
  BY <1>3, <1>5, <1>6

-----------------------------------------------------------------------------
(* Writing *)

(* The unit being written is changed, on whichever tag answers *)
LEMMA Written ==
  ASSUME IInv, pc \in Places, NEW t \in Tags, NEW c \in {i, mem[t][At], Torn},
         mem' = [mem EXCEPT ![t][At] = c], UNCHANGED <<req, info, i, verified>>,
         (pc' \in Places /\ sw' = sw) \/ (pc' = "idle" /\ sw' = "failed")
  PROVE  /\ UpdateInOrder' /\ Updates'
         /\ mem' \in [Tags -> [Unit -> {Torn} \cup 0..LcMax]]
<1>1. /\ req.op = "update" /\ sw = "none" /\ i \in 1..req.n /\ Len(verified) = i - 1
      /\ req.n \in 1..LcMax /\ req.at \in Nat /\ At = req.at + i - 1
      /\ mem \in [Tags -> [Unit -> {Torn} \cup 0..LcMax]]
      /\ req.n \in Int /\ i \in Int /\ verified \in Seq(Tags)
  <2>1. /\ req.op = "update" /\ sw = "none" /\ i \in 1..req.n /\ Len(verified) = i - 1
        /\ req.n \in 1..LcMax
    BY DEF IInv, Updates
  <2>2. req.at \in Nat /\ req.n \in Int /\ verified \in Seq(Tags)
    BY DEF IInv, Typed
  <2>3. mem \in [Tags -> [Unit -> {Torn} \cup 0..LcMax]]
    BY DEF IInv, TypeOK
  <2> QED
    BY <2>1, <2>2, <2>3 DEF At
<1>2. /\ At \in Unit /\ At \in Int
      /\ \/ At >= First(info.of) /\ At <= info.last
         \/ NewCc(info.of, req.at, req.n)
  BY AtUnit
<1>3. At' = At
  BY DEF At
<1>4. \A s \in Tags, u \in Unit : mem'[s][u] = IF s = t /\ u = At THEN c ELSE mem[s][u]
  BY <1>1, <1>2
<1>5. mem' \in [Tags -> [Unit -> {Torn} \cup 0..LcMax]]
  <2>1. c \in {Torn} \cup 0..LcMax
    BY <1>1, <1>2, Constants
  <2> QED
    BY <1>1, <1>2, <2>1
<1>6. ASSUME NEW s \in Tags, NEW u \in Unit, mem'[s][u] # 0
      PROVE  /\ req.op = "update" /\ u \in req.at..At
             /\ mem'[s][u] # Torn => u = req.at + mem'[s][u] - 1
             /\ s = info.of => \/ u >= First(s) /\ u <= info.last
                               \/ NewCc(s, req.at, req.n)
  <2>1. CASE s = t /\ u = At
    <3>1. CASE c = mem[t][At]
      BY <1>4, <1>6, <2>1, <3>1 DEF IInv, UpdateInOrder
    <3>2. CASE c # mem[t][At]
      <4>1. mem'[s][u] = c /\ (c # Torn => c = i)
        BY <1>4, <2>1, <3>2
      <4>2. u \in req.at..At
        BY <1>1, <1>2, <2>1
      <4>3. c # Torn => u = req.at + c - 1
        BY <1>1, <2>1, <4>1
      <4> QED
        BY <1>1, <1>2, <2>1, <4>1, <4>2, <4>3
    <3> QED
      BY <3>1, <3>2
  <2>2. CASE ~(s = t /\ u = At)
    BY <1>4, <1>6, <2>2 DEF IInv, UpdateInOrder
  <2> QED
    BY <2>1, <2>2
<1>7. \A k \in 1..Len(verified) : mem'[verified[k]][req.at + k - 1] = k
  <2> TAKE k \in 1..Len(verified)
  <2>1. k \in Int /\ 1 <= k /\ k <= i - 1
    BY <1>1
  <2>2. verified[k] \in Tags
    BY <1>1
  <2>3. req.at + k - 1 # At /\ req.at + k - 1 \in Unit
    <3>1. /\ req.at \in Int /\ i \in Int /\ At \in Int /\ Units \in Int
          /\ 0 <= req.at /\ At = req.at + i - 1 /\ At < Units
      BY <1>1, <1>2, Constants DEF Unit, At
    <3>2. /\ req.at + k - 1 \in Int /\ 0 <= req.at + k - 1
          /\ req.at + k - 1 < At /\ req.at + k - 1 <= Units - 1
      BY <2>1, <3>1
    <3> QED
      BY <3>1, <3>2 DEF Unit
  <2>4. mem[verified[k]][req.at + k - 1] = k
    BY DEF IInv, UpdateInOrder
  <2> QED
    BY <1>4, <2>2, <2>3, <2>4
<1>8. UpdateInOrder'
  BY <1>1, <1>3, <1>6, <1>7 DEF UpdateInOrder
<1>9. Updates'
  BY <1>1 DEF IInv, Updates, Places
<1> QED
  BY <1>5, <1>8, <1>9

(* Nothing is changed *)
LEMMA Unwritten ==
  ASSUME IInv, pc \in Places, UNCHANGED <<mem, req, info, i, verified>>,
         (pc' \in Places /\ sw' = sw) \/ (pc' = "idle" /\ sw' = "failed")
  PROVE  UpdateInOrder' /\ Updates'
<1>1. req.op = "update" /\ sw = "none"
  BY DEF IInv, Updates
<1>2. UpdateInOrder'
  BY <1>1 DEF IInv, UpdateInOrder, At
<1>3. Updates'
  BY <1>1 DEF IInv, Updates, Places
<1> QED
  BY <1>2, <1>3

(* A tag was found to hold the unit *)
LEMMA Verified ==
  ASSUME IInv, pc \in Places, NEW t \in Tags, mem[t][At] = i, NextUnit(t),
         UNCHANGED <<mem, req, info>>
  PROVE  /\ UpdateInOrder' /\ Updates' /\ verified' \in Seq(Tags)
         /\ pc' \in {"idle", "write"} /\ attempt' = 0 /\ sw' \in {"ok", sw}
         /\ i' \in 0..(LcMax + 1) /\ (pc' = "write" => i' <= req.n)
<1>1. /\ req.op = "update" /\ sw = "none" /\ i \in 1..req.n /\ Len(verified) = i - 1
      /\ req.n \in 1..LcMax /\ req.at \in Nat
      /\ req.n \in Int /\ i \in Int /\ verified \in Seq(Tags)
  BY Constants DEF IInv, Updates, Typed
<1>2. verified' = Append(verified, t) /\ attempt' = 0
  BY DEF NextUnit
<1>3. /\ verified' \in Seq(Tags) /\ Len(verified') = i
      /\ \A k \in 1..i : verified'[k] = IF k = i THEN t ELSE verified[k]
  BY <1>1, <1>2
<1>4. \/ i = req.n /\ i' = i /\ pc' = "idle" /\ sw' = "ok"
      \/ i # req.n /\ i' = i + 1 /\ pc' = "write" /\ sw' = sw
  BY DEF NextUnit, Reply, Goto
<1>5. i' \in Int /\ i' >= i /\ i' \in 0..(LcMax + 1) /\ (pc' = "write" => i' <= req.n /\ i' \in 1..req.n)
  BY <1>1, <1>4, Constants
<1>6. \A u \in Unit : u \in req.at..At => u \in req.at..At'
  BY <1>1, <1>5 DEF At, Unit
<1>7. \A k \in 1..Len(verified') : mem[verified'[k]][req.at + k - 1] = k
  <2> TAKE k \in 1..Len(verified')
  <2>1. CASE k = i
    BY <1>1, <1>3, <2>1 DEF At
  <2>2. CASE k # i
    <3>1. k \in 1..Len(verified) /\ k \in 1..i
      BY <1>1, <1>3, <2>2
    <3>2. verified'[k] = verified[k]
      BY <1>3, <2>2, <3>1
    <3> QED
      BY <3>1, <3>2 DEF IInv, UpdateInOrder
  <2> QED
    BY <2>1, <2>2
<1>8. UpdateInOrder'
  <2>1. ASSUME NEW s \in Tags, NEW u \in Unit, mem[s][u] # 0
        PROVE  /\ req.op = "update" /\ u \in req.at..At'
               /\ mem[s][u] # Torn => u = req.at + mem[s][u] - 1
               /\ s = info.of => \/ u >= First(s) /\ u <= info.last
                                 \/ NewCc(s, req.at, req.n)
    BY <1>6, <2>1 DEF IInv, UpdateInOrder
  <2>2. sw' = "ok" => Len(verified') = req.n
    BY <1>1, <1>3, <1>4
  <2> QED
    BY <1>7, <2>1, <2>2 DEF UpdateInOrder
<1>9. Updates'
  <2>1. pc' = "write" => Len(verified') = i' - 1
    BY <1>1, <1>3, <1>4
  <2> QED
    BY <1>1, <1>4, <1>5, <2>1 DEF IInv, Updates, Places
<1> QED
  BY <1>1, <1>2, <1>3, <1>4, <1>5, <1>8, <1>9

LEMMA AbortSeenStep == IInv /\ AbortSeen => IInv'
<1> SUFFICES ASSUME IInv, AbortSeen PROVE IInv'
  OBVIOUS
<1>1. /\ pc \in Places /\ pc' = "idle" /\ sw' = "failed"
      /\ UNCHANGED <<field, swaps, awake, mem, kind, uid14, uid15, fastOff, multipleOff, abort, req,
                     info, i, attempt, answer, verified>>
  BY DEF AbortSeen, Reply, Goto, Places, tag, known, caps
<1>2. UpdateInOrder' /\ Updates' /\ AnswerFromOneTag' /\ Reads'
  BY <1>1, Unwritten, NoAnswer
<1>3. TypeOK' /\ Typed'
  BY <1>1 DEF IInv, TypeOK, Typed
<1> QED
  BY <1>2, <1>3 DEF IInv

LEMMA WritePageStep == IInv /\ WritePage => IInv'
<1> SUFFICES ASSUME IInv, WritePage PROVE IInv'
  OBVIOUS
<1>1. /\ pc \in Places /\ pc' = "verify" /\ pc' \in Places /\ awake' \in {awake, None}
      /\ UNCHANGED <<field, swaps, kind, uid14, uid15, fastOff, multipleOff, abort, req,
                     info, i, attempt, answer, verified, sw>>
  BY DEF WritePage, Goto, Fails, Places, known, caps
<1>2. \/ mem' = mem
      \/ awake # None /\ \E c \in {i, mem[awake][At], Torn} : mem' = [mem EXCEPT ![awake][At] = c]
  BY DEF WritePage, Answers, Stores, Writes
<1>3. UpdateInOrder' /\ Updates' /\ mem' \in [Tags -> [Unit -> {Torn} \cup 0..LcMax]]
  <2>1. CASE mem' = mem
    BY <1>1, <2>1, Unwritten DEF IInv, TypeOK
  <2>2. ASSUME awake # None, NEW c \in {i, mem[awake][At], Torn}, mem' = [mem EXCEPT ![awake][At] = c]
        PROVE  UpdateInOrder' /\ Updates' /\ mem' \in [Tags -> [Unit -> {Torn} \cup 0..LcMax]]
    <3>1. awake \in Tags
      BY <2>2, Constants DEF IInv, TypeOK
    <3> QED
      BY <1>1, <2>2, <3>1, Written
  <2> QED
    BY <1>2, <2>1, <2>2
<1>4. TypeOK' /\ Typed'
  BY <1>1, <1>3 DEF IInv, TypeOK, Typed
<1> QED
  BY <1>1, <1>3, <1>4, NoAnswer DEF IInv

LEMMA WriteBlockStep == IInv /\ WriteBlock => IInv'
<1> SUFFICES ASSUME IInv, WriteBlock PROVE IInv'
  OBVIOUS
<1>1. /\ pc \in Places /\ pc = "write"
      /\ UNCHANGED <<field, swaps, awake, kind, uid14, uid15, fastOff, multipleOff, abort, req,
                     info, i, answer, verified>>
  BY DEF WriteBlock, Places, known, caps
<1>2. \/ mem' = mem
      \/ uid15 # None /\ \E c \in {i, mem[uid15][At], Torn} : mem' = [mem EXCEPT ![uid15][At] = c]
  BY DEF WriteBlock, Reached, Stores, Writes
<1>3. /\ attempt' \in {attempt, 1}
      /\ (pc' \in {"write", "verify"} /\ sw' = sw) \/ (pc' = "idle" /\ sw' = "failed")
  <2>1. CASE Goto("verify") /\ UNCHANGED <<attempt, sw>>
    BY <2>1 DEF Goto
  <2>2. CASE attempt' = 1 /\ Goto("write") /\ UNCHANGED sw
    BY <2>2 DEF Goto
  <2>3. CASE UNCHANGED attempt /\ Reply("failed")
    BY <2>3 DEF Reply, Goto
  <2> QED
    BY <2>1, <2>2, <2>3 DEF WriteBlock
<1>4. UpdateInOrder' /\ Updates' /\ mem' \in [Tags -> [Unit -> {Torn} \cup 0..LcMax]]
  <2>0. (pc' \in Places /\ sw' = sw) \/ (pc' = "idle" /\ sw' = "failed")
    BY <1>3 DEF Places
  <2>1. CASE mem' = mem
    BY <1>1, <2>0, <2>1, Unwritten DEF IInv, TypeOK
  <2>2. ASSUME uid15 # None, NEW c \in {i, mem[uid15][At], Torn}, mem' = [mem EXCEPT ![uid15][At] = c]
        PROVE  UpdateInOrder' /\ Updates' /\ mem' \in [Tags -> [Unit -> {Torn} \cup 0..LcMax]]
    <3>1. uid15 \in Tags
      BY <2>2, Constants DEF IInv, TypeOK
    <3> QED
      BY <1>1, <2>0, <2>2, <3>1, Written
  <2> QED
    BY <1>2, <2>1, <2>2
<1>5. TypeOK' /\ Typed'
  <2>1. attempt' \in 0..(Attempts - 1)
    BY <1>3, Constants DEF IInv, TypeOK
  <2> QED
    BY <1>1, <1>3, <1>4, <2>1 DEF IInv, TypeOK, Typed
<1> QED
  BY <1>1, <1>3, <1>4, <1>5, NoAnswer DEF IInv, Places

(* Another attempt, or none is left *)
LEMMA AgainStep ==
  ASSUME IInv, Again
  PROVE  /\ attempt' \in 0..(Attempts - 1)
         /\ (pc' = "wake" /\ sw' = sw) \/ (pc' = "idle" /\ sw' = "failed")
<1>1. attempt \in 0..(Attempts - 1) /\ Attempts \in Nat
  BY Constants DEF IInv, TypeOK
<1>2. CASE attempt + 1 < Attempts
  <2>1. attempt' = attempt + 1 /\ pc' = "wake" /\ sw' = sw
    BY <1>2 DEF Again, Goto
  <2>2. attempt + 1 \in 0..(Attempts - 1)
    BY <1>1, <1>2
  <2> QED
    BY <2>1, <2>2
<1>3. CASE ~(attempt + 1 < Attempts)
  BY <1>1, <1>3 DEF Again, Reply, Goto
<1> QED
  BY <1>2, <1>3

LEMMA VerifyPageStep == IInv /\ VerifyPage => IInv'
<1> SUFFICES ASSUME IInv, VerifyPage PROVE IInv'
  OBVIOUS
<1>1. /\ pc \in Places
      /\ UNCHANGED <<field, swaps, mem, kind, uid14, uid15, fastOff, multipleOff, abort, req, info, answer>>
  BY DEF VerifyPage, Places, known, caps
<1>2. CASE awake # None /\ mem[awake][At] = i /\ NextUnit(awake) /\ UNCHANGED awake
  <2>1. awake \in Tags
    BY <1>2, Constants DEF IInv, TypeOK
  <2>2. /\ UpdateInOrder' /\ Updates' /\ verified' \in Seq(Tags)
        /\ pc' \in {"idle", "write"} /\ attempt' = 0 /\ sw' \in {"ok", sw}
        /\ i' \in 0..(LcMax + 1) /\ (pc' = "write" => i' <= req.n)
    BY <1>1, <1>2, <2>1, Verified
  <2>3. TypeOK' /\ Typed'
    <3>1. attempt' \in 0..(Attempts - 1)
      BY <2>2, Constants
    <3> QED
      BY <1>1, <1>2, <2>2, <3>1 DEF IInv, TypeOK, Typed
  <2> QED
    BY <1>1, <2>2, <2>3, NoAnswer DEF IInv, Places
<1>3. CASE awake' \in {awake, None} /\ Again /\ UNCHANGED <<i, verified>>
  <2>1. /\ attempt' \in 0..(Attempts - 1)
        /\ (pc' = "wake" /\ sw' = sw) \/ (pc' = "idle" /\ sw' = "failed")
    BY <1>3, AgainStep
  <2>2. UpdateInOrder' /\ Updates'
    BY <1>1, <1>3, <2>1, Unwritten DEF Places
  <2>3. TypeOK' /\ Typed'
    BY <1>1, <1>3, <2>1 DEF IInv, TypeOK, Typed
  <2> QED
    BY <1>1, <2>1, <2>2, <2>3, NoAnswer DEF IInv, Places
<1> QED
  BY <1>2, <1>3 DEF VerifyPage, Answers, Fails

LEMMA WakeStep == IInv /\ WakeForRetry => IInv'
<1> SUFFICES ASSUME IInv, WakeForRetry PROVE IInv'
  OBVIOUS
<1>1. /\ pc \in Places
      /\ UNCHANGED <<field, swaps, mem, kind, uid15, fastOff, multipleOff, abort, req, info, i,
                     answer, verified>>
      /\ \/ field \in Tags2 /\ awake' = field /\ uid14' = field
         \/ awake' = None /\ uid14' = None
  BY DEF WakeForRetry, Activated, NotActivated, Places, caps
<1>2. /\ attempt' \in 0..(Attempts - 1)
      /\ (pc' \in {"write", "wake"} /\ sw' = sw) \/ (pc' = "idle" /\ sw' = "failed")
  <2>0. attempt \in 0..(Attempts - 1)
    BY DEF IInv, TypeOK
  <2>1. CASE Goto("write") /\ UNCHANGED <<attempt, sw>>
    BY <2>0, <2>1 DEF Goto
  <2>2. CASE Again
    BY <2>2, AgainStep
  <2> QED
    BY <2>1, <2>2 DEF WakeForRetry
<1>3. UpdateInOrder' /\ Updates'
  BY <1>1, <1>2, Unwritten DEF Places
<1>4. TypeOK' /\ Typed'
  <2>1. i <= req.n
    BY <1>1 DEF IInv, Typed, Updates
  <2>2. /\ awake' \in Tags2 \cup {None} /\ (awake' # None => awake' = field')
        /\ uid14' \in Tags2 \cup {None}
    BY <1>1 DEF IInv, TypeOK
  <2>3. TypeOK'
    BY <1>1, <1>2, <2>1, <2>2 DEF IInv, TypeOK
  <2>4. Typed'
    BY <1>1 DEF IInv, Typed
  <2> QED
    BY <2>3, <2>4
<1> QED
  BY <1>1, <1>2, <1>3, <1>4, NoAnswer DEF IInv, Places

LEMMA VerifyBlockStep == IInv /\ VerifyBlock => IInv'
<1> SUFFICES ASSUME IInv, VerifyBlock PROVE IInv'
  OBVIOUS
<1>1. /\ pc \in Places
      /\ UNCHANGED <<field, swaps, awake, mem, kind, uid14, uid15, fastOff, multipleOff, abort, req,
                     info, answer>>
  BY DEF VerifyBlock, Places, tag, known, caps
<1>2. CASE Reached /\ mem[uid15][At] = i /\ NextUnit(uid15)
  <2>1. uid15 \in Tags
    BY <1>2, Constants DEF IInv, TypeOK, Reached
  <2>2. /\ UpdateInOrder' /\ Updates' /\ verified' \in Seq(Tags)
        /\ pc' \in {"idle", "write"} /\ attempt' = 0 /\ sw' \in {"ok", sw}
        /\ i' \in 0..(LcMax + 1) /\ (pc' = "write" => i' <= req.n)
    BY <1>1, <1>2, <2>1, Verified
  <2>3. TypeOK' /\ Typed'
    <3>1. attempt' \in 0..(Attempts - 1)
      BY <2>2, Constants
    <3> QED
      BY <1>1, <2>2, <3>1 DEF IInv, TypeOK, Typed
  <2> QED
    BY <1>1, <2>2, <2>3, NoAnswer DEF IInv, Places
<1>3. CASE Reply("failed") /\ UNCHANGED <<i, attempt, verified>>
  <2>1. pc' = "idle" /\ sw' = "failed"
    BY <1>3 DEF Reply, Goto
  <2>2. UpdateInOrder' /\ Updates'
    BY <1>1, <1>3, <2>1, Unwritten
  <2>3. TypeOK' /\ Typed'
    BY <1>1, <1>3, <2>1 DEF IInv, TypeOK, Typed
  <2> QED
    BY <1>1, <2>1, <2>2, <2>3, NoAnswer DEF IInv
<1> QED
  BY <1>2, <1>3 DEF VerifyBlock

-----------------------------------------------------------------------------
(* The theorems *)

LEMMA Invariance == Spec => []IInv
<1>1. ASSUME IInv, [Next]_vars PROVE IInv'
  <2>1. CASE UNCHANGED vars
    <3>1. UNCHANGED <<mem, req, info, i, verified, sw, answer, pc>>
      BY <2>1 DEF vars, tag, command
    <3>2. Typed' /\ UpdateInOrder' /\ Updates' /\ AnswerFromOneTag'
      BY <1>1, <3>1, SameCommand
    <3>3. TypeOK' /\ Reads'
      BY <1>1, <2>1 DEF IInv, TypeOK, Reads, From, Source, vars, tag, known, caps, command
    <3> QED
      BY <3>2, <3>3 DEF IInv
  <2> QED
    BY <1>1, <2>1, WorldStep, HostStep, SizeLeStep, CheckStep, FastReadStep, ReadStep, ReadBlocksStep,
       RawStep, GetStepStep, AbortSeenStep, WritePageStep, VerifyPageStep, WakeStep, WriteBlockStep,
       VerifyBlockStep DEF Next
<1> QED
  BY InitIInv, <1>1, PTL DEF Spec

(* The types and what the places come with, for every geometry of the tags; *)
(* in particular no update is at a unit the host did not send, and no write *)
(* has more than its attempts (reader_ccid_handle_update_binary_apdu,       *)
(* reader_tags_type2_write_page).                                           *)
THEOREM TypeCorrect == Spec => []TypeOK
BY Invariance, PTL DEF IInv

(* What the host sent is on one tag or another in order, up to the unit the *)
(* update stopped at, and nowhere outside the area that was checked; a host *)
(* told 9000 has every unit on a tag that read it back: for every number of *)
(* units and attempts, however often the tags are exchanged                 *)
(* (reader_ccid_handle_update_binary_apdu).                                 *)
THEOREM UpdatesInOrder == Spec => []UpdateInOrder
BY Invariance, PTL DEF IInv

(* No answer is put together from two tags, for every size of a read and of *)
(* the pieces it is made in (reader_tags_type2_read_binary, GET DATA).      *)
THEOREM AnswersFromOneTag == Spec => []AnswerFromOneTag
BY Invariance, PTL DEF IInv
=============================================================================
