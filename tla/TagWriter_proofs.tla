---------------------------- MODULE TagWriter_proofs ----------------------------
(***************************************************************************)
(* Theorems about TagWriter, for every set of tags, every number of units, *)
(* attempts, messages and exchanges of tags.                               *)
(*                                                                         *)
(* The argument.  Nothing re-activates a Type 4 card within an attempt, so *)
(* the one that is awake is the one whose length was cleared, and it holds *)
(* the message up to the chunk it is at (Chunks).  Of a TLV the units      *)
(* before the one it is at were read back from the Type 5 tag it addresses *)
(* or, as long as the tag was not exchanged, from the Type 2 tag there     *)
(* (Pages).  That a tag is written once for as long as it stays rests on   *)
(* counting: the samples that look free while a tag is there are wrong     *)
(* ones in a row (Placement).                                              *)
(***************************************************************************)
EXTENDS TagWriter, TLAPS

Kinds2  == {"type2", "ntag", "st25tn"}
Before2 == {"version", "reactivate", "inspect2", "admit2", "cc", "format"}
Before4 == {"open", "application", "capabilities", "file", "clear"}
Before5 == {"inspect5", "admit5", "cc5"}
Before  == Before2 \cup Before4 \cup Before5
Memory  == [Tags -> [1..Units -> Int]]

Types ==
  /\ field \in Tags \cup {None}
  /\ awake # None => awake = field
  /\ mem \in Memory /\ nlen \in [Tags4 -> Int]
  /\ payload \in Nat /\ messages \in Nat /\ message \in Nat /\ i \in 1..Units
  /\ pc \in Before \cup {"idle", "write", "verify", "wake", "chunk", "length"}

(* What the writer works on, told by where it is *)
Places ==
  /\ pc \in Before2 \cup {"wake"} => kind \in Kinds2
  /\ pc \in Before4 \cup {"chunk", "length"} => kind = "type4"
  /\ pc \in Before5 => kind = "type5"
  /\ pc \in {"write", "verify"} => kind \in Kinds2 \cup {"type5"}
  /\ pc \in Before => i = 1
  /\ pc # "idle" => result = "none" /\ (kind = "type5" => uid15 \in Tags5)

Chunks ==
  pc \in {"chunk", "length"} /\ awake \in Tags4 =>
    /\ nlen[awake] = 0
    /\ \A u \in 1..Units : u < i \/ pc = "length" => mem[awake][u] = message

Pages ==
  pc \in {"write", "verify", "wake"} =>
    /\ kind = "type5" => \A u \in 1..(i - 1) : mem[uid15][u] = message
    /\ kind \in Kinds2 /\ ~moved => \A u \in 1..(i - 1) : mem[field][u] = message

IInv == Types /\ Places /\ LengthTellsMessage /\ Chunks /\ Pages /\ SuccessIsWhole

LEMMA Constants ==
  /\ Units \in Nat \ {0} /\ None \notin Tags
  /\ Tags2 \cap Tags4 = {} /\ Tags2 \cap Tags5 = {} /\ Tags4 \cap Tags5 = {}
  /\ Tags = Tags2 \cup Tags4 \cup Tags5
  /\ Old \in Int /\ Torn \in Int
BY WriterTagsAssumption, WriterBoundsAssumption DEF Tags, Old, Torn

LEMMA InitIInv == Init => IInv
<1> SUFFICES ASSUME Init PROVE IInv
  OBVIOUS
<1>1. Types
  <2>1. mem \in Memory /\ nlen \in [Tags4 -> Int]
    BY Constants DEF Init, Memory
  <2>2. field \in Tags \cup {None}
    BY WriterTagsAssumption DEF Init
  <2> QED
    BY <2>1, <2>2, Constants DEF Init, Types
<1>2. LengthTellsMessage
  BY Constants DEF Init, LengthTellsMessage
<1> QED
  BY <1>1, <1>2 DEF Init, IInv, Places, Before, Before2, Before4, Before5, Chunks, Pages,
                    SuccessIsWhole

-----------------------------------------------------------------------------
(* The tag on the antenna, the host, the clock and the loop *)

LEMMA SwapStep == IInv /\ Swap => IInv'
<1> SUFFICES ASSUME IInv, Swap PROVE IInv'
  OBVIOUS
<1>1. /\ UNCHANGED <<mem, nlen, payload, messages, message, i, pc, kind, uid15, result, wrote>>
      /\ field' \in Tags \cup {None} /\ awake' = None /\ moved' = (moved \/ pc # "idle")
  BY DEF Swap, memory, loop, config, task
<1>2. Types' /\ Places' /\ LengthTellsMessage'
  BY <1>1 DEF IInv, Types, Places, LengthTellsMessage
<1>3. Chunks'
  BY <1>1, Constants DEF Chunks
<1>4. Pages'
  BY <1>1 DEF IInv, Pages
<1>5. SuccessIsWhole'
  BY <1>1 DEF IInv, Places, SuccessIsWhole
<1> QED
  BY <1>2, <1>3, <1>4, <1>5 DEF IInv

LEMMA IdleStep == IInv /\ (Configure \/ Cooled \/ AwaitRemoval) => IInv'
<1> SUFFICES ASSUME IInv, Configure \/ Cooled \/ AwaitRemoval PROVE IInv'
  OBVIOUS
<1>1. /\ UNCHANGED <<field, awake, mem, nlen, message, i, pc, kind, uid15, result, wrote, moved>>
      /\ \/ UNCHANGED <<payload, messages>>
         \/ messages' = messages + 1 /\ payload' \in {0, messages'}
  BY DEF Configure, Cooled, AwaitRemoval, antenna, memory, loop, config, task
<1>2. Types'
  BY <1>1 DEF IInv, Types
<1>3. Places' /\ LengthTellsMessage'
  BY <1>1 DEF IInv, Places, LengthTellsMessage
<1>4. Chunks' /\ Pages' /\ SuccessIsWhole'
  BY <1>1 DEF IInv, Chunks, Pages, SuccessIsWhole
<1> QED
  BY <1>2, <1>3, <1>4 DEF IInv

LEMMA TryOneTagStep == IInv /\ TryOneTag => IInv'
<1> SUFFICES ASSUME IInv, TryOneTag PROVE IInv'
  OBVIOUS
<1>1. /\ UNCHANGED <<field, mem, nlen, payload, messages>>
      /\ message' = payload /\ i' = 1 /\ result' = "none" /\ moved' = FALSE
      /\ \/ kind' = "type2" /\ pc' = "version" /\ awake' = field
         \/ kind' = "type4" /\ pc' = "open" /\ awake' = field
         \/ kind' = "type5" /\ pc' = "inspect5" /\ awake' = None /\ uid15' \in Tags5
  BY DEF TryOneTag, Starts, antenna, memory, config
<1>2. Types'
  BY <1>1, Constants DEF IInv, Types, Before, Before2, Before4, Before5
<1>3. Places'
  BY <1>1 DEF Places, Before, Before2, Before4, Before5, Kinds2
<1>4. LengthTellsMessage'
  BY <1>1 DEF IInv, LengthTellsMessage
<1>5. Chunks' /\ Pages' /\ SuccessIsWhole'
  BY <1>1 DEF Chunks, Pages, SuccessIsWhole
<1> QED
  BY <1>2, <1>3, <1>4, <1>5 DEF IInv

-----------------------------------------------------------------------------
(* The steps before anything is written *)

(* What is allowed to a step that leaves the tags' memory alone *)
LEMMA Prepares ==
  ASSUME IInv, pc \in Before,
         UNCHANGED <<field, mem, nlen, payload, messages, message, i, uid15>>,
         awake' # None => awake' = field,
         pc' \in Before \cup {"idle", "write"},
         kind' \in (IF pc \in Before2 THEN Kinds2 ELSE {kind}),
         pc' \in Before2 => pc \in Before2,
         pc' \in Before4 => pc \in Before4,
         pc' \in Before5 => pc \in Before5,
         pc' = "write" => pc \notin Before4,
         result' # "ok", pc' # "idle" => result' = "none"
  PROVE  IInv'
<1>1. i = 1 /\ (kind' = "type5" => uid15 \in Tags5)
  BY DEF IInv, Places, Before, Before2, Before4, Before5, Kinds2
<1>2. Types'
  BY DEF IInv, Types
<1>3. /\ pc \in Before2 => kind' \in Kinds2
      /\ pc \in Before4 => kind' = "type4"
      /\ pc \in Before5 => kind' = "type5"
  BY DEF IInv, Places, Before2, Before4, Before5
<1>4. pc \in Before2 \cup Before4 \cup Before5
  BY DEF Before
<1>5. Places'
  BY <1>1, <1>3, <1>4 DEF Places, Before, Before2, Before4, Before5
<1>6. LengthTellsMessage'
  BY DEF IInv, LengthTellsMessage
<1>7. Chunks' /\ Pages' /\ SuccessIsWhole'
  BY <1>1 DEF Chunks, Pages, SuccessIsWhole, Before, Before2, Before4, Before5
<1> QED
  BY <1>2, <1>5, <1>6, <1>7 DEF IInv

(* Goes and Finish, seen from the invariant *)
LEMMA Going == ASSUME NEW p, Goes(p) PROVE pc' = p /\ result' = result
BY DEF Goes

LEMMA Failing == ASSUME Finish(FALSE) PROVE pc' = "idle" /\ result' = "failed"
BY DEF Finish

LEMMA PrepareStep ==
  IInv /\ (\/ TryGetVersion \/ Reactivate \/ Inspect2 \/ Admit2 \/ ReadCc \/ WriteCc
           \/ Open \/ SelectApplication \/ ReadCapabilities \/ SelectFile
           \/ Inspect5 \/ Admit5 \/ WriteCc5) => IInv'
<1> SUFFICES ASSUME IInv,
                    \/ TryGetVersion \/ Reactivate \/ Inspect2 \/ Admit2 \/ ReadCc \/ WriteCc
                    \/ Open \/ SelectApplication \/ ReadCapabilities \/ SelectFile
                    \/ Inspect5 \/ Admit5 \/ WriteCc5
             PROVE  IInv'
  OBVIOUS
<1>1. UNCHANGED <<field, mem, nlen, payload, messages, message, i, uid15>>
  BY DEF TryGetVersion, Reactivate, Inspect2, Admit2, ReadCc, WriteCc, Open, SelectApplication,
         ReadCapabilities, SelectFile, Exchange4, Inspect5, Admit5, WriteCc5,
         antenna, memory, config, task
<1>2. awake' # None => awake' = field
  <2>1. awake' \in {awake, field}
    BY DEF TryGetVersion, Reactivate, Inspect2, Admit2, ReadCc, WriteCc, Open, SelectApplication,
           ReadCapabilities, SelectFile, Exchange4, Inspect5, Admit5, WriteCc5, Activated
  <2> QED
    BY <2>1 DEF IInv, Types
<1>3. pc # "idle" /\ result = "none" =>
        result' # "ok" /\ (pc' # "idle" => result' = "none")
  BY Going, Failing
     DEF TryGetVersion, Reactivate, Inspect2, Admit2, ReadCc, WriteCc, Open, SelectApplication,
         ReadCapabilities, SelectFile, Exchange4, Inspect5, Admit5, WriteCc5
<1>4. CASE TryGetVersion \/ Reactivate \/ Inspect2 \/ Admit2 \/ ReadCc \/ WriteCc
  <2>1. /\ pc \in Before2 /\ pc' \in Before2 \cup {"write", "idle"}
        /\ kind' \in {kind, "ntag", "st25tn"}
    BY <1>4, Going, Failing
       DEF TryGetVersion, Reactivate, Inspect2, Admit2, ReadCc, WriteCc, Before2, task
  <2>2. kind \in Kinds2 /\ result = "none" /\ pc # "idle"
    BY <2>1 DEF IInv, Places, Before2
  <2>3. /\ pc \in Before /\ pc' \in Before \cup {"idle", "write"}
        /\ pc' \in Before2 => pc \in Before2
        /\ pc' \in Before4 => pc \in Before4
        /\ pc' \in Before5 => pc \in Before5
        /\ pc' = "write" => pc \notin Before4
    BY <2>1 DEF Before, Before2, Before4, Before5
  <2>4. kind' \in (IF pc \in Before2 THEN Kinds2 ELSE {kind})
    BY <2>1, <2>2 DEF Before2, Before4, Before5, Kinds2
  <2> QED
    BY <1>1, <1>2, <1>3, <2>2, <2>3, <2>4, Prepares
<1>5. CASE Open \/ SelectApplication \/ ReadCapabilities \/ SelectFile
  <2>1. pc \in Before4 /\ pc' \in Before4 \cup {"idle"} /\ kind' = kind
    BY <1>5, Going, Failing
       DEF Open, SelectApplication, ReadCapabilities, SelectFile, Exchange4, Before4, task
  <2>2. result = "none" /\ pc # "idle"
    BY <2>1 DEF IInv, Places, Before4
  <2>3. /\ pc \in Before /\ pc' \in Before \cup {"idle", "write"}
        /\ pc' \in Before2 => pc \in Before2
        /\ pc' \in Before4 => pc \in Before4
        /\ pc' \in Before5 => pc \in Before5
        /\ pc' = "write" => pc \notin Before4
    BY <2>1 DEF Before, Before2, Before4, Before5
  <2>4. kind' \in (IF pc \in Before2 THEN Kinds2 ELSE {kind})
    BY <2>1, <2>2 DEF Before2, Before4, Before5, Kinds2
  <2> QED
    BY <1>1, <1>2, <1>3, <2>2, <2>3, <2>4, Prepares
<1>6. CASE Inspect5 \/ Admit5 \/ WriteCc5
  <2>1. pc \in Before5 /\ pc' \in Before5 \cup {"write", "idle"} /\ kind' = kind
    BY <1>6, Going, Failing DEF Inspect5, Admit5, WriteCc5, Before5, task
  <2>2. result = "none" /\ pc # "idle"
    BY <2>1 DEF IInv, Places, Before5
  <2>3. /\ pc \in Before /\ pc' \in Before \cup {"idle", "write"}
        /\ pc' \in Before2 => pc \in Before2
        /\ pc' \in Before4 => pc \in Before4
        /\ pc' \in Before5 => pc \in Before5
        /\ pc' = "write" => pc \notin Before4
    BY <2>1 DEF Before, Before2, Before4, Before5
  <2>4. kind' \in (IF pc \in Before2 THEN Kinds2 ELSE {kind})
    BY <2>1, <2>2 DEF Before2, Before4, Before5, Kinds2
  <2> QED
    BY <1>1, <1>2, <1>3, <2>2, <2>3, <2>4, Prepares
<1> QED
  BY <1>4, <1>5, <1>6

-----------------------------------------------------------------------------
(* Writing a TLV *)

(* Whoever answers is one tag, and of the type spoken to *)
LEMMA Answering ==
  ASSUME IInv, pc # "idle", Reached
  PROVE  /\ field \in Tags
         /\ kind = "type5" => field = uid15 /\ field \notin Tags4
         /\ kind = "type4" => awake = field /\ field \in Tags4
         /\ kind \in Kinds2 => field \notin Tags4
<1>1. kind = "type5" => uid15 \in Tags5
  BY DEF IInv, Places
<1> QED
  BY <1>1, Constants DEF Reached, Kinds2

(* One unit of the tag that answers is changed *)
LEMMA Stored ==
  ASSUME IInv, field \in Tags, NEW c \in Int, mem' = [mem EXCEPT ![field][i] = c]
  PROVE  /\ mem' \in Memory
         /\ \A t \in Tags, u \in 1..Units :
              mem'[t][u] = IF t = field /\ u = i THEN c ELSE mem[t][u]
<1>1. mem \in [Tags -> [1..Units -> Int]] /\ i \in 1..Units
  BY DEF IInv, Types, Memory
<1> QED
  BY <1>1 DEF Memory

LEMMA WriteUnitStep == IInv /\ WriteUnit => IInv'
<1> SUFFICES ASSUME IInv, WriteUnit PROVE IInv'
  OBVIOUS
<1>1. /\ UNCHANGED <<field, nlen, payload, messages, awake, kind, uid15, message, i, wrote, moved, result>>
      /\ pc = "write" /\ pc' = "verify"
  BY DEF WriteUnit, Goes, antenna, config, task
<1>2. kind \in Kinds2 \cup {"type5"} /\ i \in 1..Units /\ Units \in Nat
  BY <1>1, Constants DEF IInv, Places, Types
<1>3. mem' \in Memory /\ \A t \in Tags, u \in 1..Units : u # i \/ t \in Tags4 => mem'[t][u] = mem[t][u]
  <2>1. CASE mem' = mem
    BY <2>1 DEF IInv, Types
  <2>2. ASSUME Reached, NEW c \in {message, Torn}, mem' = [mem EXCEPT ![field][i] = c]
        PROVE  mem' \in Memory
               /\ \A t \in Tags, u \in 1..Units : u # i \/ t \in Tags4 => mem'[t][u] = mem[t][u]
    <3>1. c \in Int
      BY Constants DEF IInv, Types
    <3>2. field \in Tags /\ field \notin Tags4
      BY <1>1, <1>2, <2>2, Answering
    <3>3. /\ mem' \in Memory
          /\ \A t \in Tags, u \in 1..Units :
               mem'[t][u] = IF t = field /\ u = i THEN c ELSE mem[t][u]
      BY <2>2, <3>1, <3>2, Stored
    <3> QED
      BY <3>2, <3>3
  <2> QED
    BY <2>1, <2>2 DEF WriteUnit, MayStore, Stores
<1>4. Types'
  BY <1>1, <1>3 DEF IInv, Types
<1>5. Places'
  BY <1>1 DEF IInv, Places, Before, Before2, Before4, Before5
<1>6. LengthTellsMessage'
  BY <1>1, <1>3, Constants DEF IInv, LengthTellsMessage
<1>7. Chunks' /\ SuccessIsWhole'
  BY <1>1 DEF IInv, Places, Chunks, SuccessIsWhole
<1>8. Pages'
  <2>1. \A u \in 1..(i - 1) : u \in 1..Units /\ u # i
    BY <1>2
  <2>2. kind = "type5" => uid15 \in Tags
    BY <1>1, Constants DEF IInv, Places
  <2>3. CASE field \in Tags
    BY <1>1, <1>3, <2>1, <2>2, <2>3 DEF IInv, Pages
  <2>4. CASE field \notin Tags
    <3>1. ~Reached
      BY <1>1, <2>4, Answering
    <3>2. mem' = mem
      BY <3>1 DEF WriteUnit, MayStore
    <3> QED
      BY <1>1, <3>2 DEF IInv, Pages
  <2> QED
    BY <2>3, <2>4
<1> QED
  BY <1>4, <1>5, <1>6, <1>7, <1>8 DEF IInv

(* Another attempt at the unit, or the end of them *)
LEMMA AgainStep ==
  ASSUME IInv, pc \in {"verify", "wake"}, Again,
         UNCHANGED <<field, mem, nlen, payload, messages, awake, kind, uid15, message, moved>>
  PROVE  IInv'
<1>1. /\ i' = i /\ wrote' = wrote
      /\ \/ pc' = "idle" /\ result' = "failed"
         \/ pc' = "wake" /\ result' = result /\ kind # "type5"
  BY Failing, Going DEF Again
<1>2. Types'
  BY <1>1 DEF IInv, Types
<1>3. kind \in Kinds2 \cup {"type5"} /\ result = "none" /\ (kind = "type5" => uid15 \in Tags5)
  BY DEF IInv, Places
<1>4. Places'
  BY <1>1, <1>3 DEF Places, Before, Before2, Before4, Before5
<1>5. LengthTellsMessage'
  BY DEF IInv, LengthTellsMessage
<1>6. Chunks' /\ SuccessIsWhole'
  BY <1>1, <1>3 DEF Chunks, SuccessIsWhole
<1>7. Pages'
  BY <1>1 DEF IInv, Pages
<1> QED
  BY <1>2, <1>4, <1>5, <1>6, <1>7 DEF IInv

LEMMA VerifyUnitStep == IInv /\ VerifyUnit => IInv'
<1> SUFFICES ASSUME IInv, VerifyUnit PROVE IInv'
  OBVIOUS
<1>1. /\ pc = "verify"
      /\ UNCHANGED <<field, mem, nlen, payload, messages, awake, kind, uid15, message, moved>>
  BY DEF VerifyUnit, antenna, memory, config
<1>2. CASE Again
  BY <1>1, <1>2, AgainStep
<1>3. CASE Reached /\ mem[field][i] = message /\ NextUnit
  <2>1. /\ kind \in Kinds2 \cup {"type5"} /\ i \in 1..Units /\ Units \in Nat
        /\ result = "none" /\ (kind = "type5" => uid15 \in Tags5)
    BY <1>1, Constants DEF IInv, Places, Types
  <2>2. field \in Tags /\ (kind = "type5" => field = uid15)
    BY <1>1, <1>3, Answering
  <2>3. kind = "type5" \/ ~moved => \A u \in 1..i : mem[field][u] = message
    <3>1. kind = "type5" \/ ~moved => \A u \in 1..(i - 1) : mem[field][u] = message
      BY <1>1, <2>1, <2>2 DEF IInv, Pages
    <3>2. \A u \in 1..i : u = i \/ u \in 1..(i - 1)
      BY <2>1
    <3> QED
      BY <1>3, <3>1, <3>2
  <2>4. CASE i = Units
    <3>1. i' = i /\ wrote' = field /\ pc' = "idle"
      BY <1>3, <2>4 DEF NextUnit, Finish
    <3>2. Types' /\ LengthTellsMessage'
      BY <1>1, <3>1 DEF IInv, Types, LengthTellsMessage
    <3>3. Places' /\ Chunks' /\ Pages'
      BY <3>1 DEF Places, Chunks, Pages, Before, Before2, Before4, Before5
    <3>4. SuccessIsWhole'
      BY <1>1, <2>1, <2>3, <2>4, <3>1 DEF SuccessIsWhole, Kinds2
    <3> QED
      BY <3>2, <3>3, <3>4 DEF IInv
  <2>5. CASE i # Units
    <3>1. i' = i + 1 /\ pc' = "write" /\ result' = "none"
      BY <1>3, <2>1, <2>5, Going DEF NextUnit
    <3>2. i' \in 1..Units
      BY <2>1, <2>5, <3>1
    <3>3. Types' /\ LengthTellsMessage'
      BY <1>1, <3>1, <3>2 DEF IInv, Types, LengthTellsMessage
    <3>4. Places' /\ Chunks' /\ SuccessIsWhole'
      BY <1>1, <2>1, <3>1 DEF Places, Chunks, SuccessIsWhole, Before, Before2, Before4, Before5
    <3>5. i' - 1 = i
      BY <2>1, <3>1
    <3>6. Pages'
      BY <1>1, <2>2, <2>3, <3>5 DEF Pages, Kinds2
    <3> QED
      BY <3>3, <3>4, <3>6 DEF IInv
  <2> QED
    BY <2>4, <2>5
<1> QED
  BY <1>2, <1>3 DEF VerifyUnit

LEMMA WakeStep == IInv /\ WakeForRetry => IInv'
<1> SUFFICES ASSUME IInv, WakeForRetry PROVE IInv'
  OBVIOUS
<1>1. /\ pc = "wake"
      /\ UNCHANGED <<field, mem, nlen, payload, messages, kind, uid15, message, moved>>
  BY DEF WakeForRetry, antenna, memory, config
<1>2. CASE Activated /\ Goes("write") /\ UNCHANGED <<attempt, i, wrote>>
  <2>1. awake' = field /\ pc' = "write" /\ result' = result /\ i' = i
    BY <1>2, Going DEF Activated
  <2>2. Types' /\ LengthTellsMessage'
    BY <1>1, <2>1 DEF IInv, Types, LengthTellsMessage
  <2>3. Places' /\ Chunks' /\ SuccessIsWhole'
    BY <1>1, <2>1 DEF IInv, Places, Chunks, SuccessIsWhole, Before, Before2, Before4, Before5
  <2>4. Pages'
    BY <1>1, <2>1 DEF IInv, Pages
  <2> QED
    BY <2>2, <2>3, <2>4 DEF IInv
<1>3. CASE UNCHANGED awake /\ Again
  BY <1>1, <1>3, AgainStep
<1> QED
  BY <1>2, <1>3 DEF WakeForRetry

-----------------------------------------------------------------------------
(* Writing a Type 4 file *)

(* The length is set on the card that answers, or nothing is changed *)
LEMMA LengthSet ==
  ASSUME IInv, pc # "idle", kind = "type4", NEW n \in Nat, SetsLength(n)
  PROVE  /\ field \in Tags4 /\ awake = field
         /\ nlen' \in [Tags4 -> Int]
         /\ \A t \in Tags4 : nlen'[t] = IF t = field THEN n ELSE nlen[t]
<1>1. field \in Tags4 /\ awake = field
  BY Answering DEF SetsLength
<1>2. nlen \in [Tags4 -> Int]
  BY DEF IInv, Types
<1> QED
  BY <1>1, <1>2 DEF SetsLength

LEMMA ClearLengthStep == IInv /\ ClearLength => IInv'
<1> SUFFICES ASSUME IInv, ClearLength PROVE IInv'
  OBVIOUS
<1>1. /\ UNCHANGED <<field, mem, payload, messages, awake, kind, uid15, message, i, moved, wrote>>
      /\ pc = "clear"
  BY DEF ClearLength, antenna, config, task
<1>2. kind = "type4" /\ i = 1 /\ result = "none"
  BY <1>1 DEF IInv, Places, Before, Before4
<1>3. \/ pc' = "chunk" /\ result' = "none" /\ SetsLength(0)
      \/ pc' = "idle" /\ result' = "failed" /\ SetsLength(0)
      \/ pc' = "idle" /\ result' = "failed" /\ nlen' = nlen
  BY <1>2, Going, Failing DEF ClearLength
<1>4. /\ nlen' \in [Tags4 -> Int]
      /\ \A t \in Tags4 : nlen'[t] \in {nlen[t], 0}
      /\ pc' = "chunk" => awake \in Tags4 /\ nlen'[awake] = 0
  <2>1. CASE SetsLength(0)
    BY <1>1, <1>2, <2>1, LengthSet
  <2>2. CASE pc' = "idle" /\ nlen' = nlen
    BY <2>2 DEF IInv, Types
  <2> QED
    BY <1>3, <2>1, <2>2
<1>5. Types'
  BY <1>1, <1>3, <1>4 DEF IInv, Types
<1>6. Places'
  BY <1>1, <1>2, <1>3 DEF Places, Before, Before2, Before4, Before5
<1>7. LengthTellsMessage'
  BY <1>1, <1>4 DEF IInv, LengthTellsMessage
<1>8. Chunks'
  BY <1>1, <1>2, <1>3, <1>4 DEF Chunks
<1>9. Pages' /\ SuccessIsWhole'
  BY <1>3 DEF Pages, SuccessIsWhole
<1> QED
  BY <1>5, <1>6, <1>7, <1>8, <1>9 DEF IInv

LEMMA WriteChunkStep == IInv /\ WriteChunk => IInv'
<1> SUFFICES ASSUME IInv, WriteChunk PROVE IInv'
  OBVIOUS
<1>1. /\ UNCHANGED <<field, nlen, payload, messages, awake, kind, uid15, message, moved>>
      /\ pc = "chunk"
  BY DEF WriteChunk, antenna, config
<1>2. /\ kind = "type4" /\ result = "none" /\ i \in 1..Units /\ Units \in Nat
      /\ mem \in Memory /\ message \in Int /\ Torn \in Int
  BY <1>1, Constants DEF IInv, Places, Types
<1>3. CASE /\ Reached /\ Stores(message)
           /\ IF i = Units THEN Goes("length") /\ UNCHANGED i ELSE Goes("chunk") /\ i' = i + 1
  <2>1. field \in Tags /\ field \in Tags4 /\ awake = field
    BY <1>1, <1>2, <1>3, Answering
  <2>2. /\ mem' \in Memory
        /\ \A t \in Tags, u \in 1..Units :
             mem'[t][u] = IF t = field /\ u = i THEN message ELSE mem[t][u]
    BY <1>2, <1>3, <2>1, Stored DEF Stores
  <2>3. /\ result' = "none" /\ pc' \in {"chunk", "length"}
        /\ i' \in 1..Units
        /\ pc' = "chunk" => i' = i + 1
        /\ pc' = "length" => i = Units
    BY <1>2, <1>3, Going
  <2>4. nlen[field] = 0 /\ \A u \in 1..Units : u < i => mem[field][u] = message
    BY <1>1, <2>1 DEF IInv, Chunks
  <2>5. Types' /\ Places'
    BY <1>1, <1>2, <2>2, <2>3 DEF IInv, Types, Places, Before, Before2, Before4, Before5
  <2>6. LengthTellsMessage'
    BY <1>1, <2>2, <2>4, Constants DEF IInv, LengthTellsMessage
  <2>7. Chunks'
    <3>1. \A u \in 1..Units : u < i' \/ pc' = "length" => u < i \/ u = i
      BY <1>2, <2>3
    <3>2. \A u \in 1..Units : u < i' \/ pc' = "length" => mem'[field][u] = message
      BY <2>1, <2>2, <2>4, <3>1
    <3> QED
      BY <1>1, <2>1, <2>4, <3>2 DEF Chunks
  <2>8. Pages' /\ SuccessIsWhole'
    BY <2>3 DEF Pages, SuccessIsWhole
  <2> QED
    BY <2>5, <2>6, <2>7, <2>8 DEF IInv
<1>4. CASE MayStore /\ Finish(FALSE) /\ UNCHANGED i
  <2>1. pc' = "idle" /\ result' = "failed"
    BY <1>4, Failing
  <2>2. /\ mem' \in Memory
        /\ \A t \in Tags4, u \in 1..Units : nlen[t] # 0 => mem'[t][u] = mem[t][u]
    <3>1. CASE mem' = mem
      BY <1>2, <3>1
    <3>2. ASSUME Reached, NEW c \in {message, Torn}, mem' = [mem EXCEPT ![field][i] = c]
          PROVE  mem' \in Memory
                 /\ \A t \in Tags4, u \in 1..Units : nlen[t] # 0 => mem'[t][u] = mem[t][u]
      <4>1. field \in Tags /\ field \in Tags4 /\ awake = field
        BY <1>1, <1>2, <3>2, Answering
      <4>2. nlen[field] = 0
        BY <1>1, <4>1 DEF IInv, Chunks
      <4>3. c \in Int
        BY <1>2
      <4>4. /\ mem' \in Memory
            /\ \A t \in Tags, u \in 1..Units :
                 mem'[t][u] = IF t = field /\ u = i THEN c ELSE mem[t][u]
        BY <3>2, <4>1, <4>3, Stored
      <4> QED
        BY <4>2, <4>4, Constants
    <3> QED
      BY <1>4, <3>1, <3>2 DEF MayStore, Stores
  <2>3. Types' /\ Places'
    BY <1>1, <1>4, <2>1, <2>2 DEF IInv, Types, Places, Before, Before2, Before4, Before5
  <2>4. LengthTellsMessage'
    BY <1>1, <2>2 DEF IInv, LengthTellsMessage
  <2>5. Chunks' /\ Pages' /\ SuccessIsWhole'
    BY <2>1 DEF Chunks, Pages, SuccessIsWhole
  <2> QED
    BY <2>3, <2>4, <2>5 DEF IInv
<1> QED
  BY <1>3, <1>4 DEF WriteChunk

LEMMA FinalLengthStep == IInv /\ FinalLength => IInv'
<1> SUFFICES ASSUME IInv, FinalLength PROVE IInv'
  OBVIOUS
<1>1. /\ UNCHANGED <<field, mem, payload, messages, awake, kind, uid15, message, i, moved>>
      /\ pc = "length" /\ pc' = "idle" /\ wrote' = field
  BY DEF FinalLength, antenna, config, Finish
<1>2. kind = "type4" /\ message \in Nat
  BY <1>1 DEF IInv, Places, Types
<1>3. CASE SetsLength(message)
  <2>1. /\ field \in Tags4 /\ awake = field /\ nlen' \in [Tags4 -> Int]
        /\ \A t \in Tags4 : nlen'[t] = IF t = field THEN message ELSE nlen[t]
    BY <1>1, <1>2, <1>3, LengthSet
  <2>2. \A u \in 1..Units : mem[field][u] = message
    BY <1>1, <2>1 DEF IInv, Chunks
  <2>3. LengthTellsMessage' /\ SuccessIsWhole'
    BY <1>1, <2>1, <2>2 DEF IInv, LengthTellsMessage, SuccessIsWhole
  <2>4. Types'
    BY <1>1, <2>1 DEF IInv, Types
  <2>5. Places' /\ Chunks' /\ Pages'
    BY <1>1 DEF Places, Chunks, Pages, Before, Before2, Before4, Before5
  <2> QED
    BY <2>3, <2>4, <2>5 DEF IInv
<1>4. CASE nlen' = nlen /\ result' = "failed"
  <2>1. Types' /\ LengthTellsMessage'
    BY <1>1, <1>4 DEF IInv, Types, LengthTellsMessage
  <2>2. Places' /\ Chunks' /\ Pages' /\ SuccessIsWhole'
    BY <1>1, <1>4 DEF Places, Chunks, Pages, SuccessIsWhole, Before, Before2, Before4, Before5
  <2> QED
    BY <2>1, <2>2 DEF IInv
<1> QED
  BY <1>3, <1>4, Failing DEF FinalLength

-----------------------------------------------------------------------------
LEMMA Invariance == Spec => []IInv
<1>1. IInv /\ [Next]_vars => IInv'
  <2> SUFFICES ASSUME IInv, [Next]_vars PROVE IInv'
    OBVIOUS
  <2>1. CASE UNCHANGED vars
    BY <2>1 DEF IInv, Types, Places, LengthTellsMessage, Chunks, Pages, SuccessIsWhole,
                vars, antenna, memory, loop, config, task
  <2>2. CASE Next
    BY <2>2, SwapStep, IdleStep, TryOneTagStep, PrepareStep, WriteUnitStep, VerifyUnitStep,
       WakeStep, ClearLengthStep, WriteChunkStep, FinalLengthStep
       DEF Next, Write2, Write4, Write5
  <2> QED
    BY <2>1, <2>2
<1> QED
  BY InitIInv, <1>1, PTL DEF Spec

(* A Type 4 card shows no length but that of the message it holds, whatever *)
(* fails and whenever it is taken off: for every number of chunks, messages *)
(* and cards (writer_tag_write_type4).                                      *)
THEOREM LengthsTellMessages == Spec => []LengthTellsMessage
BY Invariance, PTL DEF IInv

(* What is reported as a success is on the tag as a whole, unless a Type 2  *)
(* tag was exchanged meanwhile: for every number of units and attempts      *)
(* (writer_finish_write_attempt).                                           *)
THEOREM SuccessesAreWhole == Spec => []SuccessIsWhole
BY Invariance, PTL DEF IInv

-----------------------------------------------------------------------------
(* One write for as long as a tag stays *)

(* While a tag is there every sample that counts towards its removal is a   *)
(* wrong one                                                                *)
Placement ==
  /\ baseline = "free" /\ noise \in 0..NoiseMax /\ removed \in Nat
  /\ done \in BOOLEAN /\ written \in BOOLEAN
  /\ done => written /\ field # None /\ removed <= noise
  /\ OneWritePerPlacement

(* What writer_loop does while it works on a tag *)
LEMMA Working ==
  ASSUME Write2 \/ Write4 \/ Write5 \/ WriteUnit \/ VerifyUnit
  PROVE  /\ pc # "idle" /\ UNCHANGED <<field, noise, baseline>>
         /\ \/ UNCHANGED <<written, removed, done>>
            \/ pc' = "idle" /\ written' = TRUE /\ removed' = 0 /\ done' = (field # None)
<1>1. pc # "idle" /\ UNCHANGED <<field, noise>>
  BY DEF Write2, Write4, Write5, WriteUnit, VerifyUnit, TryGetVersion, Reactivate, Inspect2,
         Admit2, ReadCc, WriteCc, WakeForRetry, Open, SelectApplication, ReadCapabilities,
         SelectFile, Exchange4, ClearLength, WriteChunk, FinalLength, Inspect5, Admit5, WriteCc5,
         antenna
<1>2. \A p : Goes(p) => UNCHANGED <<baseline, written, removed, done>>
  BY DEF Goes, loop
<1>3. Finish(FALSE) => UNCHANGED <<baseline, written, removed, done>>
  BY DEF Finish
<1>4. Finish(TRUE) => /\ UNCHANGED baseline /\ pc' = "idle" /\ written' = TRUE
                      /\ removed' = 0 /\ done' = (field # None)
  BY DEF Finish
<1>5. (\E p : Goes(p)) \/ Finish(FALSE) \/ Finish(TRUE)
  BY DEF Write2, Write4, Write5, WriteUnit, VerifyUnit, TryGetVersion, Reactivate, Inspect2,
         Admit2, ReadCc, WriteCc, WakeForRetry, Open, SelectApplication, ReadCapabilities,
         SelectFile, Exchange4, ClearLength, WriteChunk, FinalLength, Inspect5, Admit5, WriteCc5,
         Again, NextUnit
<1> QED
  BY <1>1, <1>2, <1>3, <1>4, <1>5

LEMMA AwaitRemovalStep ==
  ASSUME NoiseMax < StableSamples, Placement, AwaitRemoval
  PROVE  Placement'
<1>1. NoiseMax \in Nat /\ StableSamples \in Nat \ {0}
  BY WriterBoundsAssumption
<1>2. pc = "idle" /\ written /\ UNCHANGED <<field, done, pc>>
  BY DEF AwaitRemoval
<1>3. PICK amp \in {"free", "loaded"} :
        LET n == IF Near(amp) THEN 0 ELSE removed + 1
        IN /\ Samples(amp)
           /\ IF n = StableSamples
              THEN written' = FALSE /\ baseline' = amp /\ removed' = 0
              ELSE removed' = n /\ UNCHANGED <<written, baseline>>
  BY DEF AwaitRemoval
<1>4. /\ noise \in 0..NoiseMax /\ removed \in Nat /\ baseline = "free"
      /\ done => field # None /\ removed <= noise
  BY DEF Placement
<1>5. noise' \in 0..NoiseMax
  BY <1>1, <1>3, <1>4 DEF Samples
<1>6. CASE amp = "loaded"
  <2>1. removed' = 0 /\ UNCHANGED <<written, baseline>>
    BY <1>1, <1>3, <1>4, <1>6 DEF Near
  <2>2. 0 <= noise'
    BY <1>1, <1>5
  <2> QED
    BY <1>2, <1>4, <1>5, <2>1, <2>2 DEF Placement, OneWritePerPlacement
<1>7. CASE amp = "free"
  <2>1. /\ Samples("free")
        /\ IF removed + 1 = StableSamples
           THEN written' = FALSE /\ baseline' = "free" /\ removed' = 0
           ELSE removed' = removed + 1 /\ UNCHANGED <<written, baseline>>
    BY <1>3, <1>7 DEF Near
  <2>2. done => noise' = noise + 1 /\ noise < NoiseMax
    BY <1>4, <2>1 DEF Samples, Amplitude
  <2>3. done => removed + 1 # StableSamples /\ removed + 1 <= noise'
    BY <1>1, <1>4, <2>2
  <2>4. removed' \in Nat /\ baseline' = "free" /\ written' \in BOOLEAN
    <3>1. removed' \in Nat /\ baseline' = "free"
      BY <1>4, <2>1
    <3>2. written' = FALSE \/ written' = written
      BY <2>1
    <3> QED
      BY <3>1, <3>2 DEF Placement
  <2>5. done => written' /\ removed' <= noise'
    BY <1>2, <2>1, <2>3
  <2> QED
    BY <1>2, <1>4, <1>5, <2>4, <2>5 DEF Placement, OneWritePerPlacement
<1> QED
  BY <1>6, <1>7

(* A tag that has been written is left alone until it is taken off, for any *)
(* number of samples that is more than those that may be wrong in a row, if *)
(* the antenna was free at setup (writer_loop).                             *)
THEOREM OneWriteEach ==
  ASSUME AtSetup = {None}, NoiseMax < StableSamples
  PROVE  Spec => []OneWritePerPlacement
<1>1. Init => Placement
  <2> SUFFICES ASSUME Init PROVE Placement
    OBVIOUS
  <2>1. baseline = "free"
    BY DEF Init, Amplitude
  <2>2. noise \in 0..NoiseMax /\ removed \in Nat
    BY WriterBoundsAssumption DEF Init
  <2>3. done = FALSE /\ written = FALSE
    BY DEF Init
  <2> QED
    BY <2>1, <2>2, <2>3 DEF Placement, OneWritePerPlacement
<1>2. Placement /\ [Next]_vars => Placement'
  <2> SUFFICES ASSUME Placement, [Next]_vars PROVE Placement'
    OBVIOUS
  <2>1. CASE UNCHANGED vars
    BY <2>1 DEF Placement, OneWritePerPlacement, vars, antenna, loop
  <2>2. CASE Swap
    BY <2>2 DEF Swap, Placement, OneWritePerPlacement, loop
  <2>3. CASE Configure \/ Cooled
    BY <2>3 DEF Configure, Cooled, Placement, OneWritePerPlacement, antenna, loop
  <2>4. CASE AwaitRemoval
    BY <2>4, AwaitRemovalStep
  <2>5. CASE TryOneTag
    BY <2>5 DEF TryOneTag, Placement, OneWritePerPlacement, antenna, loop
  <2>6. CASE Write2 \/ Write4 \/ Write5 \/ WriteUnit \/ VerifyUnit
    <3>1. /\ pc # "idle" /\ UNCHANGED <<field, noise, baseline>>
          /\ \/ UNCHANGED <<written, removed, done>>
             \/ pc' = "idle" /\ written' = TRUE /\ removed' = 0 /\ done' = (field # None)
      BY <2>6, Working
    <3>2. CASE UNCHANGED <<written, removed, done>>
      BY <3>1, <3>2 DEF Placement, OneWritePerPlacement
    <3>3. CASE pc' = "idle" /\ written' = TRUE /\ removed' = 0 /\ done' = (field # None)
      <4>1. 0 <= noise /\ noise \in 0..NoiseMax
        BY WriterBoundsAssumption DEF Placement
      <4> QED
        BY <3>1, <3>3, <4>1 DEF Placement, OneWritePerPlacement
    <3> QED
      BY <3>1, <3>2, <3>3
  <2> QED
    BY <2>1, <2>2, <2>3, <2>4, <2>5, <2>6 DEF Next
<1> QED
  BY <1>1, <1>2, PTL DEF Spec, Placement
=============================================================================
