------------------------------ MODULE PcscClient ------------------------------
(***************************************************************************)
(* The host's tools over PC/SC.  nfc-writer (RunPcscWriter) waits for a    *)
(* tag on one reader or on any, connects to it, writes its message and     *)
(* waits until the tag has been taken off; nfc-reader (RunPcscReader)      *)
(* reads and prints instead.  The type of a tag is told by the ATR.  A     *)
(* Type 4 tag is written behind a length of 0 and read back; a storage tag *)
(* (Type 2, Type 5) gets its TLV in commands of several units, unit by     *)
(* unit where that fails, and a Type 5 tag each of these in up to four     *)
(* forms.                                                                  *)
(*                                                                         *)
(* Tags come and go and are exchanged between any two exchanges.  The      *)
(* PC/SC service notices late, not at all (an exchange between two of its  *)
(* polls), or loses a tag that is still there for less than the settle     *)
(* window.  A command may get no answer though it was carried out, and a   *)
(* Worn tag answers without storing.                                       *)
(*                                                                         *)
(* The message has Units parts.  Of a tag's memory: the set of its units   *)
(* that hold the message.  A definition named X_... that nothing refers to *)
(* is X with a plausible mistake, see IsoDep.                              *)
(***************************************************************************)
EXTENDS Integers, Sequences, FiniteSets, FiniteSetsExt

CONSTANTS
  Tags2, Tags4, Tags5,
  Worn,        \* tags that may acknowledge an update and not store it
  Written,     \* tags that come with the message on them
  None,
  Readers,     \* how many readers the service lists
  Watched,     \* the one named on the command line, or all: WaitForPresentReader
  Tools,       \* which tools are run: "reader", "writer"
  Units,       \* units of the TLV, chunks of the Type 4 message
  OldLength,   \* the same of the message a tag comes with
  BulkUnits,   \* units that fit one UPDATE BINARY: kMaxUnitsPerApdu
  MoveMax,     \* bound: how often a tag is put on or taken off
  DropMax      \* bound: how often the service loses a tag that is there

Tags == Tags2 \cup Tags4 \cup Tags5

ASSUME PcscTagsAssumption ==
  /\ Tags2 \cap Tags4 = {} /\ Tags2 \cap Tags5 = {} /\ Tags4 \cap Tags5 = {}
  /\ None \notin Tags /\ Worn \cup Written \subseteq Tags
ASSUME PcscReadersAssumption ==
  Readers \in Nat \ {0} /\ Watched # {} /\ Watched \subseteq 1..Readers
ASSUME PcscBoundsAssumption ==
  {Units, OldLength, BulkUnits} \subseteq Nat \ {0} /\ {MoveMax, DropMax} \subseteq Nat

VARIABLES
  field,    \* the tag on each reader
  shown,    \* the tag whose ATR the service has for each reader
  lost,     \* readers on which it has lost a tag that is still there
  moves, drops,
  sel,      \* what is selected on a Type 4 tag: "none", "app", "cc", "ndef"
  mem,      \* the units of each tag that hold the message
  nlen,     \* the length a Type 4 tag states: "old", "zero", "new"
  roomy,    \* the Type 5 tags whose CC covers the message
  tool,
  pc,
  reader,   \* reader_name_
  card,     \* the handle: "none", "good", "dead" once its card was removed
  plan,     \* 2, 4, 5: which of the kPlans, by the ATR; 0: none
  uid,      \* the Type 5 tag that commands are addressed to
  pass,     \* 1: the first reading of a Type 4 file, 2: its verification
  idx,      \* the unit or chunk
  bulk,     \* chunk_units > 1
  form,     \* which form of a storage command is next
  got,      \* ndef_message_: for each part read, whether it is the message's
  decoded,  \* records_ were decoded from it
  says,     \* what was printed last: "none", "error", "success", "tag"
  touched,  \* history: the tags updated since the tool connected
  swapped,  \* history: a tag came or went under the connection unnoticed
  done      \* history: tags an outcome was printed for, never off since

world    == <<field, shown, lost, moves, drops>>
memory   == <<mem, nlen, roomy>>
progress == <<pass, idx, bulk, form, got, decoded>>
task     == <<reader, plan, uid>>
history  == <<touched, swapped, done>>
vars     == <<world, memory, sel, tool, pc, card, task, progress, says, history>>

Init ==
  /\ field = [r \in 1..Readers |-> None] /\ shown = field /\ lost = {}
  /\ moves = 0 /\ drops = 0
  /\ sel = [t \in Tags4 |-> "none"] /\ roomy = Written \cap Tags5
  /\ mem = [t \in Tags |-> IF t \in Written THEN 1..Units ELSE {}]
  /\ nlen = [t \in Tags4 |-> IF t \in Written THEN "new" ELSE "old"]
  /\ tool \in Tools /\ pc = "wait" /\ reader = Min(Watched)
  /\ card = "none" /\ plan = 0 /\ uid = None /\ pass = 1 /\ idx = 1 /\ bulk = TRUE
  /\ form = 1 /\ got = <<>> /\ decoded = FALSE /\ says = "none"
  /\ touched = {} /\ swapped = FALSE /\ done = {}

-----------------------------------------------------------------------------
(* The user, and the PC/SC service as the tools see it *)

Under(r) == card # "none" /\ r = reader

Place(r, t) ==
  /\ moves < MoveMax /\ field[r] = None
  /\ t \in Tags /\ \A q \in 1..Readers : field[q] # t
  /\ moves' = moves + 1 /\ field' = [field EXCEPT ![r] = t]
  /\ swapped' = (swapped \/ Under(r))
  /\ UNCHANGED <<shown, lost, drops, memory, sel, tool, pc, card, task, progress, says, touched, done>>

TakeOff(r) ==
  /\ field[r] # None
  /\ field' = [field EXCEPT ![r] = None] /\ lost' = lost \ {r}
  /\ sel' = IF field[r] \in Tags4 THEN [sel EXCEPT ![field[r]] = "none"] ELSE sel
  /\ done' = done \ {field[r]}
  /\ UNCHANGED <<shown, moves, drops, memory, tool, pc, card, task, progress, says, touched, swapped>>

(* The service sees that what it shows is not there, or that a tag is: the  *)
(* handle of a removed card answers nothing more (SCARD_W_REMOVED_CARD)     *)
Notice(r) ==
  /\ shown[r] # field[r]
  /\ shown' = [shown EXCEPT ![r] = IF @ = None THEN field[r] ELSE None]
  /\ lost' = lost \ {r}
  /\ card' = IF Under(r) /\ shown[r] # None THEN "dead" ELSE card
  /\ UNCHANGED <<field, moves, drops, memory, sel, tool, pc, task, progress, says, history>>

DropOut(r) ==
  /\ drops < DropMax /\ shown[r] # None /\ shown[r] = field[r]
  /\ drops' = drops + 1 /\ lost' = lost \cup {r}
  /\ shown' = [shown EXCEPT ![r] = None]
  /\ card' = IF Under(r) THEN "dead" ELSE card
  /\ UNCHANGED <<field, moves, memory, sel, tool, pc, task, progress, says, history>>

-----------------------------------------------------------------------------
(* Waiting, connecting and taking the reader                               *)

(* WaitForCardPresent, or the first of the readers that have a card         *)
WaitForPresentReader ==
  /\ pc = "wait" /\ \E r \in Watched : shown[r] # None
  /\ reader' = Min({r \in Watched : shown[r] # None}) /\ pc' = "connect" /\ says' = "none"
  /\ UNCHANGED <<world, memory, sel, tool, card, plan, uid, progress, history>>

(* Tried again for kPcscConnectRetryWindow while it fails for want of a card *)
Connect ==
  /\ pc = "connect" /\ shown[reader] # None
  /\ card' = "good" /\ pc' = "begin" /\ plan' = 0 /\ uid' = None
  /\ pass' = 1 /\ idx' = 1 /\ bulk' = TRUE /\ form' = 1 /\ got' = <<>> /\ decoded' = FALSE
  /\ touched' = {} /\ swapped' = FALSE
  /\ UNCHANGED <<world, memory, sel, tool, reader, says, done>>

BeginTransaction ==
  /\ pc = "begin" /\ pc' = "status"
  /\ UNCHANGED <<world, memory, sel, tool, card, task, progress, says, history>>

(* The tag an outcome is printed for                                       *)
Handled == IF shown[reader] # None /\ shown[reader] = field[reader] THEN {field[reader]} ELSE {}

(* What is printed; the transaction is ended and the card let go before     *)
(* anything is waited for                                                   *)
Conclude(what) ==
  /\ says' = what /\ pc' = "absent" /\ card' = "none" /\ done' = done \cup Handled

Kind(t) == IF t \in Tags2 THEN 2 ELSE IF t \in Tags5 THEN 5 ELSE 4

FirstStep(k) ==
  CASE k = 2 -> "cc" [] k = 5 -> "uid"
    [] k = 4 -> (IF tool = "writer" THEN "app" ELSE "probe") [] OTHER -> "end"

(* CollectPcscWriteContext, PcscReadConnectedTag: without an ATR the writer *)
(* takes the tag for a Type 4 one                                           *)
Status ==
  /\ pc = "status"
  /\ plan' \in {IF tool = "writer" THEN 4 ELSE 0}
               \cup (IF card = "good" THEN {Kind(shown[reader])} ELSE {})
  /\ pc' = FirstStep(plan')
  /\ UNCHANGED <<world, memory, sel, tool, reader, uid, card, progress, says, history>>

-----------------------------------------------------------------------------
(* One exchange                                                            *)

(* The tag that answers a command of the plan                              *)
Talk ==
  LET t == field[reader]
  IN IF card = "good" /\ t # None /\ Kind(t) = plan THEN t ELSE None

(* What becomes of n units sent to t: how many it stores, and its answer    *)
Outcomes(t, n) ==
  IF t = None THEN {[stored |-> 0, ok |-> FALSE]}
  ELSE {o \in [stored : 0..n, ok : BOOLEAN] : o.ok => (o.stored = n \/ t \in Worn)}

(* A plan that fails ends the writer's transaction; the reader goes on and  *)
(* shows what else it has                                                   *)
GiveUp ==
  IF tool = "writer" THEN Conclude("error")
  ELSE pc' = "end" /\ UNCHANGED <<says, card, done>>

(* A step that needs an answer gets none, or one that ends the plan         *)
StepFails ==
  /\ \/ pc \in {"connect", "begin"} /\ Conclude("error")
     \/ pc \in {"app", "ccfile", "cc4", "file", "nlen", "read", "cc", "fit", "short"} /\ GiveUp
     \/ pc = "probe" /\ pc' = "end" /\ UNCHANGED <<says, card, done>>
  /\ UNCHANGED <<world, memory, sel, tool, task, progress, touched, swapped>>

-----------------------------------------------------------------------------
(* A Type 4 file                                                           *)

(* ATS or SAK tell a Type 4 tag: ShouldAttemptType4NdefIo                   *)
Probe ==
  /\ pc = "probe" /\ Talk # None /\ pc' = "app"
  /\ UNCHANGED <<world, memory, sel, tool, card, task, progress, says, history>>

Opening == [app    |-> [next |-> "ccfile", after |-> "app"],
            ccfile |-> [next |-> "cc4",    after |-> "cc"],
            cc4    |-> [next |-> "file",   after |-> "cc"],
            file   |-> [next |-> "nlen",   after |-> "ndef"]]

(* SelectNdefApp, SelectFile, the CC file: a tag put on meanwhile has       *)
(* nothing selected                                                         *)
OpenNdefFile ==
  /\ pc \in DOMAIN Opening /\ Talk # None
  /\ pc = "app" \/ sel[Talk] # "none"
  /\ sel' = [sel EXCEPT ![Talk] = Opening[pc].after] /\ pc' = Opening[pc].next
  /\ UNCHANGED <<world, memory, tool, card, task, progress, says, history>>

Opened == Talk # None /\ sel[Talk] = "ndef"

Message == [i \in 1..Units |-> TRUE]

(* All of the file has been read: it is shown, written or compared          *)
Verified_Skipped(parts) == TRUE
Verified(parts) == parts = Message

FileRead(parts) ==
  \/ /\ tool = "reader" /\ decoded' = TRUE /\ pc' = "end"
     /\ UNCHANGED <<says, card, done>>
  \/ /\ tool = "writer" /\ pass = 1 /\ pc' = "clear"
     /\ UNCHANGED <<decoded, says, card, done>>
  \/ /\ tool = "writer" /\ pass = 1 /\ Conclude("error") /\ UNCHANGED decoded
  \/ /\ tool = "writer" /\ pass = 2 /\ Verified(parts) /\ pc' = "end"
     /\ UNCHANGED <<decoded, says, card, done>>
  \/ /\ tool = "writer" /\ pass = 2 /\ ~Verified(parts) /\ Conclude("error")
     /\ UNCHANGED decoded

StatedLength(t) == CASE nlen[t] = "zero" -> 0 [] nlen[t] = "new" -> Units [] OTHER -> OldLength

ReadNlen ==
  /\ pc = "nlen" /\ Opened /\ got' = <<>> /\ idx' = 1
  /\ \/ StatedLength(Talk) = 0 /\ FileRead(<<>>)
     \/ StatedLength(Talk) > 0 /\ pc' = "read" /\ UNCHANGED <<decoded, says, card, done>>
  /\ UNCHANGED <<world, memory, sel, tool, task, pass, bulk, form, touched, swapped>>

ReadChunk ==
  /\ pc = "read" /\ Opened /\ got' = Append(got, idx \in mem[Talk]) /\ idx' = idx + 1
  /\ IF idx = StatedLength(Talk) THEN FileRead(got')
     ELSE UNCHANGED <<pc, decoded, says, card, done>>
  /\ UNCHANGED <<world, memory, sel, tool, task, pass, bulk, form, touched, swapped>>

(* One UPDATE BINARY of the file's length or of a chunk, all or nothing     *)
Update(effect, next) ==
  LET t == IF Opened THEN Talk ELSE None
  IN \E o \in Outcomes(t, 1) :
       /\ IF o.stored = 1 THEN effect ELSE UNCHANGED <<mem, nlen>>
       /\ touched' = touched \cup ({t} \ {None})
       /\ IF o.ok THEN next /\ UNCHANGED <<says, card, done>>
          ELSE Conclude("error") /\ UNCHANGED <<idx, pass>>
       /\ UNCHANGED <<world, roomy, sel, tool, task, bulk, form, got, decoded, swapped>>

ClearNlen ==
  /\ pc = "clear"
  /\ Update(nlen' = [nlen EXCEPT ![Talk] = "zero"] /\ UNCHANGED mem,
            pc' = "chunk" /\ idx' = 1 /\ UNCHANGED pass)

WriteChunk ==
  /\ pc = "chunk"
  /\ Update(mem' = [mem EXCEPT ![Talk] = @ \cup {idx}] /\ UNCHANGED nlen,
            /\ IF idx = Units THEN pc' = "final" /\ UNCHANGED idx
               ELSE idx' = idx + 1 /\ UNCHANGED pc
            /\ UNCHANGED pass)

(* The length last, then everything is read back                           *)
RestoreNlen ==
  /\ pc = "final"
  /\ Update(nlen' = [nlen EXCEPT ![Talk] = "new"] /\ UNCHANGED mem,
            pc' = "app" /\ pass' = 2 /\ UNCHANGED idx)

-----------------------------------------------------------------------------
(* A storage tag                                                           *)

(* The UID that transparent commands will carry, if the reader tells it     *)
GetUid ==
  /\ pc = "uid" /\ uid' \in {Talk, None} /\ pc' = "cc"
  /\ UNCHANGED <<world, memory, sel, tool, card, reader, plan, progress, says, history>>

(* The CC page, or what the reader kept of it                              *)
ReadType2Cc ==
  /\ pc = "cc" /\ plan = 2 /\ Talk # None /\ pc' = "fit"
  /\ UNCHANGED <<world, memory, sel, tool, card, task, progress, says, history>>

(* Readable, writable and large enough                                     *)
Type2Fits ==
  /\ pc = "fit" /\ plan = 2 /\ pc' = "unit"
  /\ UNCHANGED <<world, memory, sel, tool, card, task, progress, says, history>>

(* A CC that states too little                                             *)
NeedsMlen(t) == t \notin roomy

(* By GET DATA, READ BINARY or a transparent command                       *)
ReadType5Cc ==
  /\ pc = "cc" /\ plan = 5 /\ Talk # None /\ pc' = IF NeedsMlen(Talk) THEN "short" ELSE "fit"
  /\ UNCHANGED <<world, memory, sel, tool, card, task, progress, says, history>>

(* The size, told or not: without it the CC and the data are written until  *)
(* the tag refuses                                                         *)
Type5Fits ==
  /\ pc \in {"fit", "short"} /\ plan = 5
  /\ pc' = IF tool = "writer" /\ pc = "short" THEN "mlen" ELSE "unit"
  /\ UNCHANGED <<world, memory, sel, tool, card, task, progress, says, history>>

Left == Units - idx + 1
ChunkUnits == IF tool = "writer" /\ pc = "unit" /\ bulk THEN Min({Left, BulkUnits}) ELSE 1

(* READ or UPDATE BINARY by block address, then by byte offset, then a      *)
(* transparent command with either P2; several blocks only the first two    *)
Forms == IF plan # 5 THEN 1 ELSE IF ChunkUnits > 1 \/ uid = None THEN 2 ELSE 4
Reached == IF form > 2 /\ Talk # uid THEN None ELSE Talk

(* The next form, then unit by unit, then the end                          *)
NextForm ==
  \/ form < Forms /\ form' = form + 1 /\ UNCHANGED <<pc, bulk, says, card, done>>
  \/ form = Forms /\ ChunkUnits > 1 /\ form' = 1 /\ bulk' = FALSE /\ UNCHANGED <<pc, says, card, done>>
  \/ form = Forms /\ ChunkUnits = 1 /\ GiveUp /\ UNCHANGED <<form, bulk>>

(* Type5RefreshCcIfNeeded                                                  *)
WriteMlen ==
  /\ pc = "mlen"
  /\ \E o \in Outcomes(Reached, 1) :
       /\ roomy' = IF o.stored = 1 THEN roomy \cup {Reached} ELSE roomy
       /\ touched' = touched \cup ({Reached} \ {None})
       /\ IF o.ok THEN pc' = "unit" /\ form' = 1 /\ UNCHANGED <<bulk, says, card, done>>
          ELSE NextForm
  /\ UNCHANGED <<world, mem, nlen, sel, tool, task, pass, idx, got, decoded, swapped>>

(* StorageWriteUnitsWithIo: a chunk that fails is given up for its first    *)
(* unit alone                                                              *)
WriteUnits_SkipsChunk ==
  /\ pc = "unit" /\ tool = "writer"
  /\ \E o \in Outcomes(Reached, ChunkUnits) :
       /\ mem' = IF o.stored = 0 THEN mem
                 ELSE [mem EXCEPT ![Reached] = @ \cup idx..(idx + o.stored - 1)]
       /\ touched' = touched \cup ({Reached} \ {None})
       /\ IF o.ok \/ (form = Forms /\ ChunkUnits > 1)
          THEN /\ form' = 1 /\ bulk' = o.ok /\ UNCHANGED <<says, card, done>>
               /\ IF idx + ChunkUnits > Units THEN pc' = "end" /\ UNCHANGED idx
                  ELSE idx' = idx + ChunkUnits /\ UNCHANGED pc
          ELSE NextForm /\ UNCHANGED idx
  /\ UNCHANGED <<world, nlen, roomy, sel, tool, task, pass, got, decoded, swapped>>

WriteUnits ==
  /\ pc = "unit" /\ tool = "writer"
  /\ \E o \in Outcomes(Reached, ChunkUnits) :
       /\ mem' = IF o.stored = 0 THEN mem
                 ELSE [mem EXCEPT ![Reached] = @ \cup idx..(idx + o.stored - 1)]
       /\ touched' = touched \cup ({Reached} \ {None})
       /\ IF o.ok
          THEN /\ form' = 1 /\ bulk' = TRUE /\ UNCHANGED <<says, card, done>>
               /\ IF idx + ChunkUnits > Units THEN pc' = "end" /\ UNCHANGED idx
                  ELSE idx' = idx + ChunkUnits /\ UNCHANGED pc
          ELSE NextForm /\ UNCHANGED idx
  /\ UNCHANGED <<world, nlen, roomy, sel, tool, task, pass, got, decoded, swapped>>

(* The first unit states the length                                        *)
Whole(parts) == Len(parts) = (IF parts[1] THEN Units ELSE OldLength)

ReadUnit(t) ==
  /\ got' = Append(got, idx \in mem[t]) /\ form' = 1 /\ decoded' = Whole(got')
  /\ IF Whole(got') THEN pc' = "end" /\ UNCHANGED idx ELSE idx' = idx + 1 /\ UNCHANGED pc
  /\ UNCHANGED <<bulk, says, card, done>>

ReadStorageNdefTlv ==
  /\ pc = "unit" /\ tool = "reader" /\ plan = 2
  /\ \/ Talk # None /\ ReadUnit(Talk)
     \/ NextForm /\ UNCHANGED <<got, decoded, idx>>
  /\ UNCHANGED <<world, memory, sel, tool, task, pass, touched, swapped>>

ReadType5NdefTlv ==
  /\ pc = "unit" /\ tool = "reader" /\ plan = 5
  /\ \/ Reached # None /\ ReadUnit(Reached)
     \/ NextForm /\ UNCHANGED <<got, decoded, idx>>
  /\ UNCHANGED <<world, memory, sel, tool, task, pass, touched, swapped>>

-----------------------------------------------------------------------------
(* The outcome, and the wait for the tag's removal                         *)

(* A transaction that does not end well is an error, whatever was written   *)
ReportWrite ==
  /\ pc = "end" /\ tool = "writer" /\ (Conclude("success") \/ Conclude("error"))
  /\ UNCHANGED <<world, memory, sel, tool, task, progress, touched, swapped>>

ReportTag ==
  /\ pc = "end" /\ tool = "reader" /\ (Conclude("tag") \/ Conclude("error"))
  /\ UNCHANGED <<world, memory, sel, tool, task, progress, touched, swapped>>

WaitForCardAbsent_NoSettling ==
  /\ pc = "absent" /\ shown[reader] = None /\ pc' = "wait"
  /\ UNCHANGED <<world, memory, sel, tool, card, task, progress, says, history>>

WaitForCardAbsent ==
  /\ pc = "absent" /\ shown[reader] = None /\ pc' = "settle"
  /\ UNCHANGED <<world, memory, sel, tool, card, task, progress, says, history>>

(* A card within the settle window: wait for its removal again; a tag that  *)
(* was only lost is back by the end of it                                   *)
Settle ==
  /\ pc = "settle"
  /\ \/ shown[reader] # None /\ pc' = "absent"
     \/ shown[reader] = None /\ reader \notin lost /\ pc' = "wait"
  /\ UNCHANGED <<world, memory, sel, tool, card, task, progress, says, history>>

(* SCardGetStatusChange fails: the tool ends                               *)
Exit ==
  /\ pc \in {"wait", "absent", "settle"} /\ pc' = "exit"
  /\ UNCHANGED <<world, memory, sel, tool, card, task, progress, says, history>>

-----------------------------------------------------------------------------

Environment ==
  \E r \in 1..Readers : (\E t \in Tags : Place(r, t)) \/ TakeOff(r) \/ Notice(r) \/ DropOut(r)

Program ==
  \/ WaitForPresentReader \/ Connect \/ BeginTransaction \/ Status \/ StepFails
  \/ Probe \/ OpenNdefFile \/ ReadNlen \/ ReadChunk
  \/ ClearNlen \/ WriteChunk \/ RestoreNlen
  \/ GetUid \/ ReadType2Cc \/ Type2Fits \/ ReadType5Cc \/ Type5Fits \/ WriteMlen \/ WriteUnits
  \/ ReadStorageNdefTlv \/ ReadType5NdefTlv
  \/ ReportWrite \/ ReportTag \/ WaitForCardAbsent \/ Settle \/ Exit

Next == Environment \/ Program

Spec == Init /\ [][Next]_vars

-----------------------------------------------------------------------------

Stored(t) ==
  /\ mem[t] = 1..Units
  /\ t \in Tags4 => StatedLength(t) = Units
  /\ t \in Tags5 => t \in roomy

(* "*** SUCCESS - Wrote NDEF message ***" (RunPcscWriter) is printed only   *)
(* when every tag the write touched holds all of the message, whatever came *)
(* of chunks cut off half-way, forms tried again and answers lost.  A Type  *)
(* 4 tag is read back, so this stands for a worn one, and for a good one    *)
(* exchanged unnoticed; the storage plans (WriteType2StorageNdef,           *)
(* WriteType5StorageNdef) trust the answers.                                *)
SuccessIsStored ==
  says = "success" =>
    \A t \in touched :
      \/ t \in Worn /\ swapped
      \/ t \notin Tags4 /\ (t \in Worn \/ swapped)
      \/ Stored(t)

(* Once an outcome has been printed for a tag it is neither written again   *)
(* nor shown again until it has been off the reader, though the service     *)
(* loses it and finds it again (WaitForCardAbsentStable), and whichever     *)
(* reader it is on.                                                         *)
HandledOnce ==
  [][/\ \A t \in done : mem'[t] = mem[t] /\ (t \in Tags4 => nlen'[t] = nlen[t])
     /\ pc = "end" /\ says' \in {"success", "tag"} => field[reader] \notin done]_vars
=============================================================================
