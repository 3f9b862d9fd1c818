----------------------------- MODULE PcscClient_proofs -----------------------------
(***************************************************************************)
(* Theorems about PcscClient, for every set of tags and readers, every     *)
(* length of the message and however often tags come, go and are lost.     *)
(*                                                                         *)
(* The argument.  Unless a tag was put on under the connection, one tag at *)
(* most is touched and no other is there (OneTag).  A storage tag has the  *)
(* units before the one written next (StorageProgress); a Type 4 file is   *)
(* written on one card even if another comes, which has nothing selected   *)
(* (SameFile, FileProgress), and what is read back is what that card holds *)
(* (ReadBack).  So at the end of a plan what was touched is stored         *)
(* (PlanDone).  Tags an outcome was printed for are on the reader that is  *)
(* waited for, shown or lost (Waiting), so none is left when it is not.    *)
(***************************************************************************)
EXTENDS PcscClient, SequenceTheorems, WellFoundedInduction, TLAPS

FileSteps    == {"app", "ccfile", "cc4", "file", "nlen", "read"}
FileUpdates  == {"clear", "chunk", "final"}
StorageSteps == {"cc", "fit", "short", "mlen", "unit"}
Active == {"begin", "status", "probe", "uid", "end"} \cup FileSteps \cup FileUpdates \cup StorageSteps
Resting == {"absent", "settle", "exit"}

Types ==
  /\ field \in [1..Readers -> Tags \cup {None}] /\ shown \in [1..Readers -> Tags \cup {None}]
  /\ lost \subseteq 1..Readers
  /\ sel \in [Tags4 -> {"none", "app", "cc", "ndef"}]
  /\ mem \in [Tags -> SUBSET (1..Units)] /\ nlen \in [Tags4 -> {"old", "zero", "new"}]
  /\ roomy \subseteq Tags5
  /\ pc \in Active \cup Resting \cup {"wait", "connect"}
  /\ reader \in 1..Readers /\ card \in {"none", "good", "dead"}
  /\ idx \in Nat \ {0} /\ got \in Seq(BOOLEAN) /\ pass \in {1, 2}
  /\ touched \subseteq Tags /\ swapped \in BOOLEAN

(* What the place tells of the plan and of what has been done *)
Phases ==
  /\ card # "none" <=> pc \in Active
  /\ pc \in FileSteps \cup FileUpdates \cup {"probe"} => plan = 4
  /\ pc \in StorageSteps => plan \in {2, 5}
  /\ pc \in {"uid", "short", "mlen"} => plan = 5
  /\ pc \in FileUpdates => tool = "writer" /\ pass = 1
  /\ pc \in {"begin", "status", "probe", "uid", "cc", "fit", "short"} => touched = {}
  /\ pc \in FileSteps \cup {"clear"} /\ pass = 1 => touched = {}
  /\ pc \in {"begin", "status", "probe", "uid"} => pass = 1
  /\ pc \in {"begin", "status", "uid", "cc", "fit", "short", "mlen"} => idx = 1
  /\ pc \in {"chunk", "final"} => touched # {}
  /\ pc \in FileSteps \cup FileUpdates => touched \subseteq Tags4
  /\ pc \in StorageSteps => touched \cap Tags4 = {}
  /\ pc \notin Resting \cup {"wait"} => says = "none"

ReaderStates ==
  /\ \A r \in lost : shown[r] = None /\ field[r] # None
  /\ \A t \in Tags4 : (\A q \in 1..Readers : field[q] # t) => sel[t] = "none"

Waiting ==
  \A t \in done : /\ field[reader] = t /\ t # None /\ pc \in Resting
                  /\ shown[reader] = t \/ reader \in lost

OneTag == card # "none" /\ ~swapped => \A t \in touched : field[reader] \in {t, None}

StorageProgress ==
  /\ pc \in {"fit", "unit"} /\ plan = 5 /\ ~swapped /\ tool = "writer" /\ field[reader] \in Tags5 =>
       field[reader] \in roomy \cup Worn
  /\ pc = "unit" /\ tool = "writer" =>
       /\ idx \in 1..Units /\ (idx > 1 => touched # {})
       /\ \A t \in touched : \/ t \in Worn \/ swapped
                             \/ 1..(idx - 1) \subseteq mem[t] /\ (t \in Tags5 => t \in roomy)

SameFile ==
  pc \in FileUpdates =>
    \A t \in touched : \/ field[reader] \in {t, None}
                       \/ field[reader] \notin Tags4 \/ sel[field[reader]] # "ndef"

FileProgress ==
  /\ pc = "chunk" => idx \in 1..Units /\ \A t \in touched \ Worn : 1..(idx - 1) \subseteq mem[t]
  /\ pc = "final" => \A t \in touched \ Worn : mem[t] = 1..Units
  /\ pc \in FileSteps /\ pass = 2 => \A t \in touched \ Worn : Stored(t)

ReadBack ==
  pc = "read" =>
    /\ Len(got) = idx - 1
    /\ pass = 2 /\ ~swapped =>
         \A t \in touched : \A k \in 1..Len(got) : got[k] => k \in mem[t]

Fine(t) == \/ t \in Worn /\ swapped
           \/ t \notin Tags4 /\ (t \in Worn \/ swapped)
           \/ Stored(t)

PlanDone == pc = "end" /\ tool = "writer" => \A t \in touched : Fine(t)

IInv == /\ Types /\ Phases /\ ReaderStates /\ Waiting /\ OneTag /\ StorageProgress
        /\ SameFile /\ FileProgress /\ ReadBack /\ PlanDone /\ SuccessIsStored

-----------------------------------------------------------------------------
LEMMA Constants ==
  /\ Tags = Tags2 \cup Tags4 \cup Tags5 /\ None \notin Tags
  /\ Tags2 \cap Tags4 = {} /\ Tags2 \cap Tags5 = {} /\ Tags4 \cap Tags5 = {}
  /\ Written \subseteq Tags
BY PcscTagsAssumption DEF Tags

LEMMA Sizes == /\ Units \in Nat \ {0} /\ OldLength \in Nat \ {0} /\ BulkUnits \in Nat \ {0}
               /\ Readers \in Nat \ {0} /\ Watched \subseteq 1..Readers /\ Watched # {}
BY PcscReadersAssumption, PcscBoundsAssumption

(* The smallest of some numbers is one of them *)
LEMMA SmallestIsIn == ASSUME NEW S, S \subseteq Nat, S # {} PROVE Min(S) \in S
<1>1. \E x \in S : \A y \in S : ~(<<y, x>> \in OpToRel(<, Nat))
  BY NatLessThanWellFounded, WFMin
<1>2. PICK x \in S : \A y \in S : ~(<<y, x>> \in OpToRel(<, Nat))
  BY <1>1
<1>3. \A y \in S : x <= y
  <2> TAKE y \in S
  <2>1. x \in Nat /\ y \in Nat
    OBVIOUS
  <2>2. ~(y < x)
    BY <1>2, <2>1 DEF OpToRel
  <2> QED
    BY <2>1, <2>2
<1> QED
  BY <1>3 DEF Min

LEMMA InitIInv == Init => IInv
<1> SUFFICES ASSUME Init PROVE IInv
  OBVIOUS
<1>1. reader \in 1..Readers
  <2>1. Watched \subseteq Nat
    BY Sizes
  <2>2. Min(Watched) \in Watched
    BY <2>1, SmallestIsIn, Sizes
  <2> QED
    BY <2>2, Sizes DEF Init
<1>2. /\ field \in [1..Readers -> Tags \cup {None}] /\ shown \in [1..Readers -> Tags \cup {None}]
      /\ sel \in [Tags4 -> {"none", "app", "cc", "ndef"}] /\ roomy \subseteq Tags5
  BY DEF Init
<1>3. mem \in [Tags -> SUBSET (1..Units)] /\ nlen \in [Tags4 -> {"old", "zero", "new"}]
  BY DEF Init
<1>4. /\ lost = {} /\ touched = {} /\ got = <<>> /\ idx = 1 /\ pass = 1 /\ swapped = FALSE
      /\ pc = "wait" /\ card = "none"
  BY DEF Init
<1>5. got \in Seq(BOOLEAN)
  BY <1>4, EmptySeq
<1>6. /\ lost \subseteq 1..Readers /\ touched \subseteq Tags
       /\ pass \in {1, 2} /\ idx \in Nat \ {0}
  BY <1>4
<1>7. /\ card \in {"none", "good", "dead"} /\ swapped \in BOOLEAN
       /\ pc \in Active \cup Resting \cup {"wait", "connect"}
  BY <1>4
<1>8. Types
  BY <1>1, <1>2, <1>3, <1>5, <1>6, <1>7 DEF Types
<1>9. Phases
  BY DEF Init, Phases, Active, Resting, FileSteps, FileUpdates, StorageSteps
<1>10. ReaderStates /\ Waiting /\ OneTag /\ SuccessIsStored
  BY DEF Init, ReaderStates, Waiting, OneTag, SuccessIsStored
<1>11. StorageProgress /\ SameFile /\ FileProgress /\ ReadBack /\ PlanDone
  BY DEF Init, StorageProgress, SameFile, FileProgress, ReadBack, PlanDone, FileSteps, FileUpdates
<1> QED
  BY <1>8, <1>9, <1>10, <1>11 DEF IInv

-----------------------------------------------------------------------------
(* Tags come and go, and the service notices *)

(* What no environment step changes, and what follows from that *)
LEMMA Surroundings ==
  ASSUME IInv, swapped' \in {swapped, TRUE}, card # "none" <=> card' # "none",
         UNCHANGED <<mem, nlen, roomy, tool, pc, reader, plan, idx, got, pass, touched, says>>
  PROVE  /\ Phases' /\ FileProgress' /\ ReadBack' /\ PlanDone' /\ SuccessIsStored'
<1>0. swapped \in BOOLEAN /\ swapped' \in BOOLEAN /\ (swapped => swapped')
  BY DEF IInv, Types
<1>1. Phases'
  BY DEF IInv, Phases
<1>2. \A t : Stored(t)' <=> Stored(t)
  BY DEF Stored, StatedLength
<1>3. FileProgress'
  BY <1>2 DEF IInv, FileProgress
<1>4. ReadBack'
  BY <1>0 DEF IInv, ReadBack
<1>5. PlanDone'
  BY <1>0, <1>2 DEF IInv, PlanDone, Fine
<1>6. SuccessIsStored'
  BY <1>0, <1>2 DEF IInv, SuccessIsStored
<1> QED
  BY <1>1, <1>3, <1>4, <1>5, <1>6

LEMMA PlaceStep ==
  ASSUME IInv, NEW r \in 1..Readers, NEW t \in Tags, Place(r, t)
  PROVE  IInv'
<1>1. /\ field[r] = None /\ \A q \in 1..Readers : field[q] # t
      /\ field' = [field EXCEPT ![r] = t] /\ swapped' = (swapped \/ Under(r))
      /\ UNCHANGED <<shown, lost, sel, mem, nlen, roomy, tool, pc, card, reader, plan, idx, got, pass,
                     touched, says, done>>
  BY DEF Place, memory, task, progress
<1>2. \A q \in 1..Readers : field'[q] = IF q = r THEN t ELSE field[q]
  BY <1>1 DEF IInv, Types
<1>3. swapped' \in BOOLEAN /\ (swapped => swapped') /\ swapped' \in {swapped, TRUE}
  BY <1>1 DEF IInv, Types, Under
<1>4. Types'
  BY <1>1, <1>3 DEF IInv, Types
<1>5. ReaderStates'
  <2>1. \A q \in lost : shown[q] = None /\ field'[q] # None
    BY <1>1, <1>2 DEF IInv, Types, ReaderStates
  <2>2. \A s \in Tags4 : (\A q \in 1..Readers : field'[q] # s) => sel[s] = "none"
    <3> SUFFICES ASSUME NEW s \in Tags4, \A q \in 1..Readers : field'[q] # s
                 PROVE  sel[s] = "none"
      OBVIOUS
    <3>1. \A q \in 1..Readers : field[q] # s
      <4>1. s # None
        BY Constants
      <4> QED
        BY <1>1, <1>2, <4>1
    <3> QED
      BY <3>1 DEF IInv, ReaderStates
  <2> QED
    BY <1>1, <2>1, <2>2 DEF ReaderStates
<1>6. Waiting'
  BY <1>1, <1>2 DEF IInv, Types, Waiting
<1>7. reader # r => field'[reader] = field[reader]
  BY <1>2 DEF IInv, Types
<1>8. reader = r => field'[reader] = t /\ (card # "none" => swapped')
  BY <1>1, <1>2 DEF Under
<1>9. OneTag'
  BY <1>1, <1>3, <1>7, <1>8 DEF IInv, OneTag
<1>10. StorageProgress'
  <2>1. pc \in {"fit", "unit"} => card # "none"
    BY DEF IInv, Phases, Active, StorageSteps
  <2> QED
    BY <1>1, <1>3, <1>7, <1>8, <2>1 DEF IInv, StorageProgress
<1>11. SameFile'
  <2>1. t \in Tags4 => sel[t] = "none"
    BY <1>1 DEF IInv, ReaderStates
  <2> QED
    BY <1>1, <1>7, <1>8, <2>1 DEF IInv, SameFile
<1>12. Phases' /\ FileProgress' /\ ReadBack' /\ PlanDone' /\ SuccessIsStored'
  BY <1>1, <1>3, Surroundings
<1> QED
  BY <1>4, <1>5, <1>6, <1>9, <1>10, <1>11, <1>12 DEF IInv

LEMMA TakeOffStep ==
  ASSUME IInv, NEW r \in 1..Readers, TakeOff(r)
  PROVE  IInv'
<1>1. /\ field' = [field EXCEPT ![r] = None] /\ lost' = lost \ {r}
      /\ sel' = IF field[r] \in Tags4 THEN [sel EXCEPT ![field[r]] = "none"] ELSE sel
      /\ done' = done \ {field[r]}
      /\ UNCHANGED <<shown, mem, nlen, roomy, tool, pc, card, reader, plan, idx, got, pass, touched, says,
                     swapped>>
  BY DEF TakeOff, memory, task, progress
<1>2. \A q \in 1..Readers : field'[q] = IF q = r THEN None ELSE field[q]
  BY <1>1 DEF IInv, Types
<1>3. /\ sel' \in [Tags4 -> {"none", "app", "cc", "ndef"}]
      /\ \A t \in Tags4 : sel'[t] = IF t = field[r] THEN "none" ELSE sel[t]
  BY <1>1 DEF IInv, Types
<1>4. Types'
  BY <1>1, <1>3 DEF IInv, Types
<1>5. ReaderStates'
  <2>1. \A q \in lost' : shown[q] = None /\ field'[q] # None
    BY <1>1, <1>2 DEF IInv, Types, ReaderStates
  <2>2. \A s \in Tags4 : (\A q \in 1..Readers : field'[q] # s) => sel'[s] = "none"
    <3> SUFFICES ASSUME NEW s \in Tags4, \A q \in 1..Readers : field'[q] # s, s # field[r]
                 PROVE  sel[s] = "none"
      BY <1>3
    <3>1. \A q \in 1..Readers : field[q] # s
      BY <1>2
    <3> QED
      BY <3>1 DEF IInv, ReaderStates
  <2> QED
    BY <1>1, <2>1, <2>2 DEF ReaderStates
<1>6. Waiting'
  BY <1>1, <1>2 DEF IInv, Types, Waiting
<1>7. field'[reader] \in {field[reader], None}
  BY <1>2 DEF IInv, Types
<1>8. OneTag'
  BY <1>1, <1>7 DEF IInv, OneTag
<1>9. StorageProgress'
  <2>1. None \notin Tags5
    BY Constants
  <2> QED
    BY <1>1, <1>7, <2>1 DEF IInv, StorageProgress
<1>10. SameFile'
  BY <1>1, <1>3, <1>7 DEF IInv, SameFile
<1>11. Phases' /\ FileProgress' /\ ReadBack' /\ PlanDone' /\ SuccessIsStored'
  BY <1>1, Surroundings
<1> QED
  BY <1>4, <1>5, <1>6, <1>8, <1>9, <1>10, <1>11 DEF IInv

(* The service's steps change what it shows, and the handle *)
LEMMA ServiceStep ==
  ASSUME IInv, NEW r \in 1..Readers, Notice(r) \/ DropOut(r)
  PROVE  IInv'
<1>1. /\ UNCHANGED <<field, sel, mem, nlen, roomy, tool, pc, reader, plan, idx, got, pass, touched, says,
                     swapped, done>>
      /\ card' \in {card, "dead"} /\ (card' # card => card # "none")
  BY DEF Notice, DropOut, memory, task, progress, history, Under
<1>2. \/ /\ shown[r] # field[r] /\ lost' = lost \ {r}
         /\ shown' = [shown EXCEPT ![r] = IF shown[r] = None THEN field[r] ELSE None]
      \/ /\ shown[r] # None /\ shown[r] = field[r] /\ lost' = lost \cup {r}
         /\ shown' = [shown EXCEPT ![r] = None]
  BY DEF Notice, DropOut
<1>3. \A q \in 1..Readers : q # r => shown'[q] = shown[q]
  BY <1>2 DEF IInv, Types
<1>4. /\ shown[r] # field[r] => shown'[r] = (IF shown[r] = None THEN field[r] ELSE None)
      /\ shown[r] = field[r] => shown'[r] = None
  BY <1>2 DEF IInv, Types
<1>5. Types'
  BY <1>1, <1>2 DEF IInv, Types
<1>6. ReaderStates'
  <2>1. \A q \in lost' : shown'[q] = None /\ field[q] # None
    <3> TAKE q \in lost'
    <3>1. q \in lost => shown[q] = None /\ field[q] # None
      BY DEF IInv, ReaderStates
    <3>2. CASE q # r
      <4>1. q \in lost
        BY <1>2, <3>2
      <4>2. q \in 1..Readers
        BY <4>1 DEF IInv, Types
      <4> QED
        BY <1>3, <3>1, <3>2, <4>1, <4>2
    <3>3. CASE q = r
      <4>1. shown[r] # None /\ shown[r] = field[r]
        BY <1>2, <3>3
      <4> QED
        BY <1>4, <3>3, <4>1
    <3> QED
      BY <3>2, <3>3
  <2> QED
    BY <1>1, <2>1 DEF IInv, ReaderStates
<1>7. Waiting'
  <2>1. \A q \in lost : shown[q] = None
    BY DEF IInv, ReaderStates
  <2> QED
    BY <1>1, <1>2, <1>3, <1>4, <2>1 DEF IInv, Types, Waiting
<1>8. OneTag' /\ StorageProgress' /\ SameFile'
  BY <1>1 DEF IInv, OneTag, StorageProgress, SameFile
<1>9. Phases' /\ FileProgress' /\ ReadBack' /\ PlanDone' /\ SuccessIsStored'
  BY <1>1, Surroundings
<1> QED
  BY <1>5, <1>6, <1>7, <1>8, <1>9 DEF IInv

-----------------------------------------------------------------------------
(* What the steps of the tools have in common *)

(* As long as the tool is at work on a tag, no outcome has been printed for *)
(* any that is still there                                                 *)
LEMMA NoneDone == ASSUME IInv, pc \notin Resting PROVE done = {}
BY DEF IInv, Waiting

LEMMA Silent == ASSUME IInv, pc \notin Resting \cup {"wait"} PROVE says = "none"
BY DEF IInv, Phases

LEMMA Connected == ASSUME IInv PROVE card # "none" <=> pc \in Active
BY DEF IInv, Phases

(* The tag that answers is the one on the reader, and of the plan's type *)
LEMMA Talks ==
  ASSUME IInv, Talk # None
  PROVE  /\ Talk = field[reader] /\ Talk \in Tags
         /\ Talk \in Tags4 <=> plan = 4
         /\ Talk \in Tags5 <=> plan = 5
<1>1. Talk = field[reader] /\ Kind(Talk) = plan
  BY DEF Talk
<1>2. field[reader] \in Tags \cup {None}
  BY DEF IInv, Types
<1> QED
  BY <1>1, <1>2, Constants DEF Kind

(* While no tag was exchanged the one that answers is the only one touched *)
LEMMA TheOneTouched ==
  ASSUME IInv, Talk # None, ~swapped, NEW t \in touched
  PROVE  t = Talk
<1>1. card # "none" /\ Talk = field[reader]
  BY DEF Talk
<1> QED
  BY <1>1 DEF IInv, OneTag

(* An outcome is printed and the card let go *)
LEMMA Concluding ==
  ASSUME IInv, pc \notin Resting, NEW what, Conclude(what),
         UNCHANGED <<field, shown, lost, sel, reader, swapped>>,
         mem' \in [Tags -> SUBSET (1..Units)], nlen' \in [Tags4 -> {"old", "zero", "new"}],
         roomy' \subseteq Tags5, idx' \in Nat \ {0}, got' \in Seq(BOOLEAN), pass' \in {1, 2},
         touched' \subseteq Tags, SuccessIsStored'
  PROVE  IInv'
<1>1. pc' = "absent" /\ card' = "none" /\ done' = done \cup Handled
  BY DEF Conclude
<1>2. Types'
  BY <1>1 DEF IInv, Types, Resting
<1>3. Phases'
  BY <1>1 DEF Phases, Active, Resting, FileSteps, FileUpdates, StorageSteps
<1>4. ReaderStates'
  BY DEF IInv, ReaderStates
<1>5. Waiting'
  BY <1>1, NoneDone DEF Waiting, Handled, Resting
<1>6. /\ OneTag' /\ StorageProgress' /\ SameFile' /\ FileProgress' /\ ReadBack' /\ PlanDone'
  BY <1>1 DEF OneTag, StorageProgress, SameFile, FileProgress, ReadBack, PlanDone, FileSteps,
              FileUpdates
<1> QED
  BY <1>2, <1>3, <1>4, <1>5, <1>6 DEF IInv

(* What a step within a plan leaves as it is *)
LEMMA Working ==
  ASSUME IInv, pc \in Active, pc' \in Active,
         UNCHANGED <<field, shown, lost, reader, swapped, card, says, done>>,
         touched' \subseteq touched \cup {field[reader]},
         \A t \in Tags4 : t # field[reader] => sel'[t] = sel[t]
  PROVE  /\ ReaderStates' /\ Waiting' /\ OneTag' /\ SuccessIsStored'
         /\ says' = "none" /\ card' # "none"
<1>1. pc \notin Resting \cup {"wait"}
  BY DEF Active, Resting, FileSteps, FileUpdates, StorageSteps
<1>2. done' = {} /\ says' = "none" /\ card' # "none"
  BY <1>1, NoneDone, Silent, Connected
<1>3. reader \in 1..Readers
  BY DEF IInv, Types
<1>4. ReaderStates'
  BY <1>3 DEF IInv, ReaderStates
<1>5. Waiting' /\ SuccessIsStored'
  BY <1>2 DEF Waiting, SuccessIsStored
<1>6. OneTag'
  BY <1>2 DEF IInv, OneTag
<1> QED
  BY <1>2, <1>4, <1>5, <1>6

(* The plan is through *)
LEMMA Ending ==
  ASSUME IInv, pc \in Active, pc' = "end",
         UNCHANGED <<field, shown, lost, sel, reader, swapped, card, says, done>>,
         mem' \in [Tags -> SUBSET (1..Units)], nlen' \in [Tags4 -> {"old", "zero", "new"}],
         roomy' \subseteq Tags5, idx' \in Nat \ {0}, got' \in Seq(BOOLEAN), pass' \in {1, 2},
         touched' \subseteq Tags, touched' \subseteq touched \cup {field[reader]},
         tool' = "writer" => \A t \in touched' : Fine(t)'
  PROVE  IInv'
<1>1. pc' \in Active
  BY DEF Active
<1>2. Types'
  BY <1>1 DEF IInv, Types
<1>3. ReaderStates' /\ Waiting' /\ OneTag' /\ SuccessIsStored' /\ says' = "none" /\ card' # "none"
  BY <1>1, Working
<1>4. Phases'
  BY <1>1, <1>3 DEF Phases, Active, FileSteps, FileUpdates, StorageSteps
<1>5. StorageProgress' /\ SameFile' /\ FileProgress' /\ ReadBack'
  BY DEF StorageProgress, SameFile, FileProgress, ReadBack, FileSteps, FileUpdates
<1>6. PlanDone'
  BY DEF PlanDone
<1> QED
  BY <1>2, <1>3, <1>4, <1>5, <1>6 DEF IInv

-----------------------------------------------------------------------------
(* Waiting, connecting and concluding *)

LEMMA WaitForPresentReaderStep == ASSUME IInv, WaitForPresentReader PROVE IInv'
<1>1. /\ pc = "wait" /\ pc' = "connect" /\ says' = "none"
      /\ reader' = Min({r \in Watched : shown[r] # None})
      /\ UNCHANGED <<field, shown, lost, sel, mem, nlen, roomy, tool, card, plan, idx, got, pass, touched,
                     swapped, done>>
  BY DEF WaitForPresentReader, world, memory, progress, history
<1>2. reader' \in 1..Readers
  <2> DEFINE present == {r \in Watched : shown[r] # None}
  <2>1. present # {} /\ present \subseteq Watched
    BY DEF WaitForPresentReader
  <2>2. present \subseteq 1..Readers
    BY <2>1, Sizes
  <2>3. present \subseteq Nat
    BY <2>2
  <2>4. Min(present) \in present
    BY <2>1, <2>3, SmallestIsIn
  <2> QED
    BY <1>1, <2>2, <2>4
<1>3. pc \notin Active \cup Resting /\ pc' \notin Active \cup Resting
  BY <1>1 DEF Active, Resting, FileSteps, FileUpdates, StorageSteps
<1>4. card = "none" /\ done = {}
  BY <1>3, Connected, NoneDone
<1>5. Types'
  BY <1>1, <1>2 DEF IInv, Types
<1>6. Phases'
  BY <1>1, <1>3, <1>4 DEF Phases, Active, Resting, FileSteps, FileUpdates, StorageSteps
<1>7. ReaderStates'
  BY <1>1 DEF IInv, ReaderStates
<1>8. Waiting' /\ OneTag' /\ SuccessIsStored'
  BY <1>1, <1>4 DEF Waiting, OneTag, SuccessIsStored
<1>9. StorageProgress' /\ SameFile' /\ FileProgress' /\ ReadBack' /\ PlanDone'
  BY <1>1 DEF StorageProgress, SameFile, FileProgress, ReadBack, PlanDone, FileSteps, FileUpdates
<1> QED
  BY <1>5, <1>6, <1>7, <1>8, <1>9 DEF IInv

LEMMA ConnectStep == ASSUME IInv, Connect PROVE IInv'
<1>1. /\ pc = "connect" /\ pc' = "begin" /\ card' = "good"
      /\ pass' = 1 /\ idx' = 1 /\ got' = <<>> /\ touched' = {} /\ swapped' = FALSE
      /\ UNCHANGED <<field, shown, lost, sel, mem, nlen, roomy, tool, reader, says, done>>
  BY DEF Connect, world, memory
<1>2. pc \notin Resting \cup {"wait"} /\ pc' \in Active
  BY <1>1 DEF Active, Resting
<1>3. done = {} /\ says = "none"
  BY <1>2, NoneDone, Silent
<1>4. got' \in Seq(BOOLEAN)
  BY <1>1, EmptySeq
<1>5. /\ card' \in {"none", "good", "dead"} /\ pass' \in {1, 2} /\ swapped' \in BOOLEAN
      /\ touched' \subseteq Tags
  BY <1>1
<1>6. idx' \in Nat \ {0}
  BY <1>1
<1>7. Types'
  BY <1>1, <1>2, <1>4, <1>5, <1>6 DEF IInv, Types
<1>8. Phases'
  BY <1>1, <1>2, <1>3 DEF Phases, Active, Resting, FileSteps, FileUpdates, StorageSteps
<1>9. ReaderStates'
  BY <1>1 DEF IInv, ReaderStates
<1>10. Waiting' /\ OneTag' /\ SuccessIsStored'
  BY <1>1, <1>3 DEF Waiting, OneTag, SuccessIsStored
<1>11. StorageProgress' /\ SameFile' /\ FileProgress' /\ ReadBack' /\ PlanDone'
  BY <1>1 DEF StorageProgress, SameFile, FileProgress, ReadBack, PlanDone, FileSteps, FileUpdates
<1> QED
  BY <1>7, <1>8, <1>9, <1>10, <1>11 DEF IInv

LEMMA WaitForRemovalStep ==
  ASSUME IInv, WaitForCardAbsent \/ Settle \/ Exit
  PROVE  IInv'
<1>1. UNCHANGED <<field, shown, lost, sel, mem, nlen, roomy, tool, card, reader, plan, idx, got, pass,
                  touched, says, swapped, done>>
  BY DEF WaitForCardAbsent, Settle, Exit, world, memory, task, progress, history
<1>2. pc \in Resting \cup {"wait"} /\ pc' \in Resting \cup {"wait"}
  BY DEF WaitForCardAbsent, Settle, Exit, Resting
<1>3. pc' = "wait" => shown[reader] = None /\ reader \notin lost
  BY DEF WaitForCardAbsent, Settle, Exit
<1>4. /\ pc \notin Active /\ pc' \notin Active
      /\ pc' \notin FileSteps \cup FileUpdates \cup StorageSteps
  BY <1>2 DEF Active, Resting, FileSteps, FileUpdates, StorageSteps
<1>5. card = "none"
  BY <1>4, Connected
<1>6. Types'
  BY <1>1, <1>2 DEF IInv, Types
<1>7. Phases'
  BY <1>1, <1>2, <1>4, <1>5 DEF Phases, Active, Resting, FileSteps, FileUpdates, StorageSteps
<1>8. ReaderStates' /\ SuccessIsStored'
  BY <1>1 DEF IInv, ReaderStates, SuccessIsStored, Stored, StatedLength
<1>9. Waiting'
  <2>1. \A t \in done : /\ field[reader] = t /\ t # None /\ pc \in Resting
                        /\ shown[reader] = t \/ reader \in lost
    BY DEF IInv, Waiting
  <2>2. \A t \in done : pc' # "wait"
    BY <1>3, <2>1
  <2> QED
    BY <1>1, <1>2, <2>1, <2>2 DEF Waiting
<1>10. OneTag' /\ StorageProgress' /\ SameFile' /\ FileProgress' /\ ReadBack' /\ PlanDone'
  BY <1>1, <1>2, <1>4, <1>5 DEF OneTag, StorageProgress, SameFile, FileProgress, ReadBack, PlanDone,
     Resting, FileSteps, FileUpdates
<1> QED
  BY <1>6, <1>7, <1>8, <1>9, <1>10 DEF IInv

(* A step that changes nothing but what is said, and the place *)
LEMMA Failing ==
  ASSUME IInv, pc \notin Resting, pc' = "end" => pc \in Active,
         \/ \E what : Conclude(what) /\ (what = "success" => pc = "end" /\ tool = "writer")
         \/ pc' = "end" /\ UNCHANGED <<says, card, done>> /\ (tool = "writer" => touched = {}),
         UNCHANGED <<field, shown, lost, sel, mem, nlen, roomy, tool, reader, plan, idx, got, pass, touched,
                     swapped>>
  PROVE  IInv'
<1>1. /\ mem' \in [Tags -> SUBSET (1..Units)] /\ nlen' \in [Tags4 -> {"old", "zero", "new"}]
      /\ roomy' \subseteq Tags5 /\ idx' \in Nat \ {0} /\ got' \in Seq(BOOLEAN) /\ pass' \in {1, 2}
      /\ touched' \subseteq Tags
  BY DEF IInv, Types
<1>2. ASSUME NEW what, Conclude(what), what = "success" => pc = "end" /\ tool = "writer"
      PROVE  IInv'
  <2>1. says' = what
    BY <1>2 DEF Conclude
  <2>2. SuccessIsStored'
    BY <1>2, <2>1 DEF IInv, PlanDone, Fine, SuccessIsStored, Stored, StatedLength
  <2> QED
    BY <1>1, <1>2, <2>2, Concluding
<1>3. CASE pc' = "end" /\ UNCHANGED <<says, card, done>> /\ (tool = "writer" => touched = {})
  BY <1>1, <1>3, Ending
<1> QED
  BY <1>2, <1>3

LEMMA StepFailsStep == ASSUME IInv, StepFails PROVE IInv'
<1>1. UNCHANGED <<field, shown, lost, sel, mem, nlen, roomy, tool, reader, plan, idx, got, pass, touched,
                  swapped>>
  BY DEF StepFails, world, memory, task, progress
<1>2. /\ pc \notin Resting
      /\ pc # "connect" => pc \in Active
  BY DEF StepFails, Resting, Active, FileSteps, StorageSteps
<1>3. pc = "probe" => touched = {}
  BY DEF IInv, Phases
<1>4. \/ Conclude("error")
      \/ pc # "connect" /\ pc' = "end" /\ UNCHANGED <<says, card, done>> /\ (tool = "writer" => touched = {})
  BY <1>3 DEF StepFails, GiveUp
<1>5. pc' = "end" => pc \in Active
  BY <1>2, <1>4 DEF Conclude
<1>6. \/ \E what : Conclude(what) /\ (what = "success" => pc = "end" /\ tool = "writer")
      \/ pc' = "end" /\ UNCHANGED <<says, card, done>> /\ (tool = "writer" => touched = {})
  BY <1>4
<1> QED
  BY <1>1, <1>2, <1>5, <1>6, Failing

LEMMA ReportStep == ASSUME IInv, ReportWrite \/ ReportTag PROVE IInv'
<1>1. UNCHANGED <<field, shown, lost, sel, mem, nlen, roomy, tool, reader, plan, idx, got, pass, touched,
                  swapped>>
  BY DEF ReportWrite, ReportTag, world, memory, task, progress
<1>2. pc = "end" /\ pc \notin Resting /\ pc \in Active
  BY DEF ReportWrite, ReportTag, Resting, Active
<1>3. \E what : Conclude(what) /\ (what = "success" => pc = "end" /\ tool = "writer")
  BY DEF ReportWrite, ReportTag
<1> QED
  BY <1>1, <1>2, <1>3, Failing

-----------------------------------------------------------------------------
(* A Type 4 file *)

LEMMA OpenedTag ==
  ASSUME IInv, Opened
  PROVE  Talk # None /\ Talk = field[reader] /\ sel[Talk] = "ndef"
BY Talks DEF Opened

(* The steps that only move on within a plan, before anything was touched *)
LEMMA MovingOn ==
  ASSUME IInv,
         \/ pc = "begin" /\ pc' = "status" /\ UNCHANGED plan
         \/ pc = "status" /\ plan' = 5 /\ pc' = "uid"
         \/ pc = "status" /\ plan' = 2 /\ pc' = "cc"
         \/ pc = "status" /\ plan' = 4 /\ pc' \in {"app", "probe"}
         \/ pc = "status" /\ pc' = "end"
         \/ pc = "probe" /\ pc' = "app" /\ UNCHANGED plan
         \/ pc = "uid" /\ pc' = "cc" /\ UNCHANGED plan
         \/ pc = "cc" /\ plan = 2 /\ pc' = "fit" /\ UNCHANGED plan
         \/ pc = "cc" /\ plan = 5 /\ pc' = "short" /\ UNCHANGED plan
         \/ pc = "cc" /\ plan = 5 /\ field[reader] \in roomy /\ pc' = "fit" /\ UNCHANGED plan
         \/ pc = "short" /\ pc' = "mlen" /\ UNCHANGED plan
         \/ pc = "short" /\ tool # "writer" /\ pc' = "unit" /\ UNCHANGED plan
         \/ pc = "fit" /\ pc' = "unit" /\ UNCHANGED plan,
         UNCHANGED <<field, shown, lost, sel, mem, nlen, roomy, tool, reader, idx, got, pass, touched, swapped,
                     card, says, done>>
  PROVE  IInv'
<1>1. pc \in Active /\ pc' \in Active
  BY DEF Active, FileSteps, StorageSteps
<1>2. Types'
  BY <1>1 DEF IInv, Types
<1>3. ReaderStates' /\ Waiting' /\ OneTag' /\ SuccessIsStored' /\ says' = "none" /\ card' # "none"
  BY <1>1, Working
<1>4. /\ pc # "probe" => idx = 1
      /\ pc \in {"begin", "status", "probe", "uid"} => pass = 1
      /\ pc \in {"probe"} => plan = 4
      /\ pc \in {"uid", "short"} => plan = 5
      /\ pc = "fit" => plan \in {2, 5}
  BY DEF IInv, Phases, FileSteps, StorageSteps
<1>5. touched = {}
  BY DEF IInv, Phases
<1>6. Phases'
  BY <1>1, <1>3, <1>4, <1>5 DEF Phases, Active, FileSteps, FileUpdates, StorageSteps
<1>7. StorageProgress'
  <2>1. pc' = "unit" => idx \in 1..Units /\ ~(idx > 1)
    BY <1>4, Sizes
  <2>2. pc' \in {"fit", "unit"} /\ plan' = 5 /\ ~swapped /\ tool = "writer" /\ field[reader] \in Tags5 =>
          field[reader] \in roomy \cup Worn
    BY DEF IInv, StorageProgress
  <2> QED
    BY <1>5, <2>1, <2>2 DEF StorageProgress
<1>8. SameFile' /\ FileProgress' /\ ReadBack' /\ PlanDone'
  BY <1>5 DEF SameFile, FileProgress, ReadBack, PlanDone, FileSteps, FileUpdates
<1> QED
  BY <1>2, <1>3, <1>6, <1>7, <1>8 DEF IInv

LEMMA BeginStep == ASSUME IInv, BeginTransaction \/ Probe PROVE IInv'
<1>1. UNCHANGED <<field, shown, lost, sel, mem, nlen, roomy, tool, reader, plan, idx, got, pass, touched, swapped,
                  card, says, done>>
  BY DEF BeginTransaction, Probe, world, memory, task, progress, history
<1>2. \/ pc = "begin" /\ pc' = "status"
      \/ pc = "probe" /\ pc' = "app"
  BY DEF BeginTransaction, Probe
<1> QED
  BY <1>1, <1>2, MovingOn

LEMMA StatusStep == ASSUME IInv, Status PROVE IInv'
<1>1. UNCHANGED <<field, shown, lost, sel, mem, nlen, roomy, tool, reader, idx, got, pass, touched, swapped,
                  card, says, done>>
  BY DEF Status, world, memory, progress, history
<1>2. plan' \in {0, 2, 4, 5}
  BY DEF Status, Kind
<1>3. pc = "status" /\ pc' = FirstStep(plan')
  BY DEF Status
<1>4. \/ plan' = 5 /\ pc' = "uid"
      \/ plan' = 2 /\ pc' = "cc"
      \/ plan' = 4 /\ pc' \in {"app", "probe"}
      \/ pc' = "end"
  BY <1>1, <1>2, <1>3 DEF FirstStep
<1> QED
  BY <1>1, <1>3, <1>4, MovingOn

LEMMA OpenNdefFileStep == ASSUME IInv, OpenNdefFile PROVE IInv'
<1>1. /\ pc \in DOMAIN Opening /\ Talk # None
      /\ sel' = [sel EXCEPT ![Talk] = Opening[pc].after] /\ pc' = Opening[pc].next
      /\ UNCHANGED <<field, shown, lost, mem, nlen, roomy, tool, reader, plan, idx, got, pass, touched, swapped,
                     card, says, done>>
  BY DEF OpenNdefFile, world, memory, task, progress, history
<1>2. /\ pc \in {"app", "ccfile", "cc4", "file"} /\ pc' \in {"ccfile", "cc4", "file", "nlen"}
      /\ Opening[pc].after \in {"none", "app", "cc", "ndef"}
  BY <1>1 DEF Opening
<1>3. pc \in Active /\ pc' \in Active /\ pc \in FileSteps /\ pc' \in FileSteps
  BY <1>2 DEF Active, FileSteps
<1>4. Talk = field[reader]
  BY <1>1, Talks
<1>5. /\ sel' \in [Tags4 -> {"none", "app", "cc", "ndef"}]
      /\ \A t \in Tags4 : t # field[reader] => sel'[t] = sel[t]
  BY <1>1, <1>2, <1>4 DEF IInv, Types
<1>6. Types'
  BY <1>1, <1>3, <1>5 DEF IInv, Types
<1>7. ReaderStates' /\ Waiting' /\ OneTag' /\ SuccessIsStored' /\ says' = "none" /\ card' # "none"
  BY <1>1, <1>3, <1>5, Working
<1>8. plan = 4 /\ touched \subseteq Tags4 /\ (pass = 1 => touched = {})
  BY <1>3 DEF IInv, Phases
<1>9. Phases'
  BY <1>1, <1>2, <1>3, <1>7, <1>8 DEF Phases, FileUpdates, StorageSteps, FileSteps
<1>10. FileProgress'
  BY <1>1, <1>2, <1>3 DEF IInv, FileProgress, Stored, StatedLength
<1>11. StorageProgress' /\ SameFile' /\ ReadBack' /\ PlanDone'
  BY <1>2 DEF StorageProgress, SameFile, ReadBack, PlanDone, FileUpdates
<1> QED
  BY <1>6, <1>7, <1>9, <1>10, <1>11 DEF IInv

(* All has been read: shown, written next, or compared with the message.  A *)
(* tag that was not exchanged holds what compares equal                     *)
LEMMA FileReadStep ==
  ASSUME IInv, pc \in {"nlen", "read"}, NEW parts, FileRead(parts),
         parts = Message /\ ~swapped /\ pass = 2 => \A t \in touched : Stored(t),
         idx' \in Nat \ {0}, got' \in Seq(BOOLEAN),
         UNCHANGED <<field, shown, lost, sel, mem, nlen, roomy, tool, reader, plan, pass, touched, swapped>>
  PROVE  IInv'
<1>1. pc \in Active /\ pc \in FileSteps /\ pc \notin Resting
  BY DEF Active, FileSteps, Resting
<1>2. /\ mem' \in [Tags -> SUBSET (1..Units)] /\ nlen' \in [Tags4 -> {"old", "zero", "new"}]
      /\ roomy' \subseteq Tags5 /\ pass' \in {1, 2} /\ touched' \subseteq Tags
  BY DEF IInv, Types
<1>3. plan = 4 /\ touched \subseteq Tags4 /\ (pass = 1 => touched = {})
  BY <1>1 DEF IInv, Phases
<1>4. CASE Conclude("error")
  <2>1. SuccessIsStored'
    BY <1>4 DEF Conclude, SuccessIsStored
  <2> QED
    BY <1>1, <1>2, <1>4, <2>1, Concluding
<1>5. CASE /\ pc' = "end" /\ UNCHANGED <<says, card, done>>
           /\ tool = "reader" \/ (pass = 2 /\ parts = Message)
  <2>1. ASSUME tool' = "writer", NEW t \in touched'
        PROVE  Fine(t)'
    <3>1. parts = Message /\ pass = 2
      BY <1>5, <2>1
    <3>2. ~swapped => Stored(t)
      BY <2>1, <3>1
    <3>3. t \notin Worn => Stored(t)
      BY <1>1, <2>1, <3>1 DEF IInv, FileProgress
    <3>4. Stored(t)' <=> Stored(t)
      BY DEF Stored, StatedLength
    <3>5. swapped' = swapped /\ swapped \in BOOLEAN
      BY DEF IInv, Types
    <3> QED
      BY <3>2, <3>3, <3>4, <3>5 DEF Fine
  <2> QED
    BY <1>1, <1>2, <1>5, <2>1, Ending
<1>6. CASE pc' = "clear" /\ tool = "writer" /\ pass = 1 /\ UNCHANGED <<says, card, done>>
  <2>1. pc' \in Active
    BY <1>6 DEF Active, FileUpdates
  <2>2. Types'
    BY <1>2, <2>1, <1>6 DEF IInv, Types
  <2>3. ReaderStates' /\ Waiting' /\ OneTag' /\ SuccessIsStored' /\ says' = "none" /\ card' # "none"
    BY <1>1, <1>6, <2>1, Working
  <2>4. touched = {}
    BY <1>3, <1>6
  <2>5. Phases'
    BY <1>3, <1>6, <2>1, <2>3, <2>4 DEF Phases, FileSteps, FileUpdates, StorageSteps
  <2>6. StorageProgress' /\ SameFile' /\ FileProgress' /\ ReadBack' /\ PlanDone'
    BY <1>6, <2>4 DEF StorageProgress, SameFile, FileProgress, ReadBack, PlanDone, FileSteps
  <2> QED
    BY <2>2, <2>3, <2>5, <2>6 DEF IInv
<1> QED
  BY <1>4, <1>5, <1>6 DEF FileRead, Verified

LEMMA ReadNlenStep == ASSUME IInv, ReadNlen PROVE IInv'
<1>1. /\ pc = "nlen" /\ got' = <<>> /\ idx' = 1
      /\ UNCHANGED <<field, shown, lost, sel, mem, nlen, roomy, tool, reader, plan, pass, touched, swapped>>
      /\ \/ FileRead(<<>>)
         \/ pc' = "read" /\ UNCHANGED <<says, card, done>>
  BY DEF ReadNlen, world, memory, task
<1>2. got' \in Seq(BOOLEAN) /\ Len(got') = 0
  BY <1>1, EmptySeq
<1>3. idx' \in Nat \ {0} /\ Len(got') = idx' - 1
  BY <1>1, <1>2
<1>4. CASE FileRead(<<>>)
  <2>1. <<>> # Message
    <3>1. 1 \in DOMAIN Message
      BY Sizes DEF Message
    <3>2. 1 \notin DOMAIN <<>>
      OBVIOUS
    <3> QED
      BY <3>1, <3>2
  <2> QED
    BY <1>1, <1>2, <1>3, <1>4, <2>1, FileReadStep
<1>5. CASE pc' = "read" /\ UNCHANGED <<says, card, done>>
  <2>1. pc \in Active /\ pc' \in Active /\ pc \in FileSteps /\ pc' \in FileSteps
    BY <1>1, <1>5 DEF Active, FileSteps
  <2>2. Types'
    BY <1>1, <1>2, <1>3, <1>5, <2>1 DEF IInv, Types
  <2>3. ReaderStates' /\ Waiting' /\ OneTag' /\ SuccessIsStored' /\ says' = "none" /\ card' # "none"
    BY <1>1, <1>5, <2>1, Working
  <2>4. plan = 4 /\ touched \subseteq Tags4 /\ (pass = 1 => touched = {})
    BY <2>1 DEF IInv, Phases
  <2>5. Phases'
    BY <1>1, <1>5, <2>1, <2>3, <2>4 DEF Phases, FileUpdates, StorageSteps, FileSteps
  <2>6. FileProgress'
    BY <1>1, <1>5, <2>1 DEF IInv, FileProgress, Stored, StatedLength
  <2>7. ReadBack'
    <3>1. \A k \in 1..Len(got') : FALSE
      BY <1>2
    <3> QED
      BY <1>3, <3>1 DEF ReadBack
  <2>8. StorageProgress' /\ SameFile' /\ PlanDone'
    BY <1>5 DEF StorageProgress, SameFile, PlanDone, FileUpdates
  <2> QED
    BY <2>2, <2>3, <2>5, <2>6, <2>7, <2>8 DEF IInv
<1> QED
  BY <1>1, <1>4, <1>5

(* What is read back from a tag that was not exchanged is what it holds *)
LEMMA OneMoreRead ==
  ASSUME IInv, pc = "read", Opened, got' = Append(got, idx \in mem[Talk])
  PROVE  /\ got' \in Seq(BOOLEAN) /\ Len(got') = idx
         /\ pass = 2 /\ ~swapped =>
              \A t \in touched : \A k \in 1..idx : got'[k] => k \in mem[t]
<1>1. got \in Seq(BOOLEAN) /\ idx \in Nat \ {0} /\ Len(got) = idx - 1
  BY DEF IInv, Types, ReadBack
<1>2. (idx \in mem[Talk]) \in BOOLEAN
  OBVIOUS
<1>3. Len(got') = Len(got) + 1
  BY <1>1
<1>4. Len(got') = idx
  BY <1>1, <1>3
<1>5. got' \in Seq(BOOLEAN)
  BY <1>1, <1>2, AppendProperties
<1>6. \A k \in 1..Len(got) : got'[k] = got[k]
  BY <1>1, <1>2, AppendProperties
<1>7. got'[Len(got) + 1] = (idx \in mem[Talk])
  BY <1>1, <1>2, AppendProperties
<1>8. Len(got) + 1 = idx
  BY <1>1
<1>9. ASSUME pass = 2, ~swapped, NEW t \in touched, NEW k \in 1..idx, got'[k]
      PROVE  k \in mem[t]
  <2>1. CASE k = idx
    <3>1. t = Talk
      BY <1>9, OpenedTag, TheOneTouched
    <3> QED
      BY <1>7, <1>8, <1>9, <2>1, <3>1
  <2>2. CASE k # idx
    <3>1. k \in 1..Len(got)
      BY <1>1, <2>2
    <3> QED
      BY <1>6, <1>9, <3>1 DEF IInv, ReadBack
  <2> QED
    BY <2>1, <2>2
<1> QED
  BY <1>4, <1>5, <1>9

LEMMA ReadChunkStep == ASSUME IInv, ReadChunk PROVE IInv'
<1>1. /\ pc = "read" /\ Opened /\ got' = Append(got, idx \in mem[Talk]) /\ idx' = idx + 1
      /\ UNCHANGED <<field, shown, lost, sel, mem, nlen, roomy, tool, reader, plan, pass, touched, swapped>>
      /\ \/ idx = StatedLength(Talk) /\ FileRead(got')
         \/ UNCHANGED <<pc, says, card, done>>
  BY DEF ReadChunk, world, memory, task
<1>2. /\ got' \in Seq(BOOLEAN) /\ Len(got') = idx
      /\ pass = 2 /\ ~swapped =>
           \A t \in touched : \A k \in 1..idx : got'[k] => k \in mem[t]
  BY <1>1, OneMoreRead
<1>3. idx' \in Nat \ {0} /\ idx' - 1 = idx
  BY <1>1 DEF IInv, Types
<1>4. plan = 4 /\ touched \subseteq Tags4 /\ (pass = 1 => touched = {})
  BY <1>1 DEF IInv, Phases, FileSteps
<1>5. CASE idx = StatedLength(Talk) /\ FileRead(got')
  <2>1. ASSUME got' = Message, ~swapped, pass = 2, NEW t \in touched
        PROVE  Stored(t)
    <3>1. t = Talk /\ t \in Tags4 /\ t \notin Tags5
      BY <1>1, <1>4, <2>1, OpenedTag, TheOneTouched, Constants
    <3>2. Len(got') = Units
      <4>1. Message \in Seq(BOOLEAN) /\ Len(Message) = Units
        BY Sizes DEF Message
      <4> QED
        BY <2>1, <4>1
    <3>3. \A k \in 1..Units : got'[k]
      BY <2>1 DEF Message
    <3>4. idx = Units
      BY <1>2, <3>2
    <3>5. 1..Units \subseteq mem[t]
      BY <1>2, <2>1, <3>3, <3>4
    <3>6. mem[t] \subseteq 1..Units
      BY <2>1 DEF IInv, Types
    <3> QED
      BY <1>5, <3>1, <3>4, <3>5, <3>6 DEF Stored
  <2> QED
    BY <1>1, <1>2, <1>3, <1>5, <2>1, FileReadStep
<1>6. CASE UNCHANGED <<pc, says, card, done>>
  <2>1. pc \in Active /\ pc' \in Active
    BY <1>1, <1>6 DEF Active, FileSteps
  <2>2. Types'
    BY <1>1, <1>2, <1>3, <1>6 DEF IInv, Types
  <2>3. ReaderStates' /\ Waiting' /\ OneTag' /\ SuccessIsStored' /\ says' = "none" /\ card' # "none"
    BY <1>1, <1>6, <2>1, Working
  <2>4. Phases'
    BY <1>1, <1>4, <1>6, <2>1, <2>3 DEF Phases, FileUpdates, StorageSteps, FileSteps
  <2>5. FileProgress'
    BY <1>1, <1>6 DEF IInv, FileProgress, Stored, StatedLength
  <2>6. ReadBack'
    BY <1>1, <1>2, <1>3 DEF ReadBack
  <2>7. StorageProgress' /\ SameFile' /\ PlanDone'
    BY <1>1, <1>6 DEF StorageProgress, SameFile, PlanDone, FileUpdates
  <2> QED
    BY <2>2, <2>3, <2>4, <2>5, <2>6, <2>7 DEF IInv
<1> QED
  BY <1>1, <1>5, <1>6

(* An update that is answered: sent to the one tag that is written, and    *)
(* stored unless it is worn                                                *)
LEMMA UpdatesOneTag ==
  ASSUME IInv, pc \in FileUpdates, Opened
  PROVE  touched \subseteq {Talk} /\ Talk \in Tags4
<1>1. Talk # None /\ Talk = field[reader] /\ sel[Talk] = "ndef" /\ plan = 4
  BY OpenedTag DEF IInv, Phases
<1>2. Talk \in Tags4
  BY <1>1, Talks
<1> QED
  BY <1>1, <1>2 DEF IInv, SameFile

LEMMA UpdateFails ==
  ASSUME IInv, pc \in FileUpdates, Conclude("error"),
         mem' \in [Tags -> SUBSET (1..Units)], nlen' \in [Tags4 -> {"old", "zero", "new"}],
         touched' \subseteq Tags,
         UNCHANGED <<field, shown, lost, sel, roomy, tool, reader, plan, idx, got, pass, swapped>>
  PROVE  IInv'
<1>1. pc \notin Resting
  BY DEF Resting, FileUpdates
<1>2. roomy' \subseteq Tags5 /\ idx' \in Nat \ {0} /\ got' \in Seq(BOOLEAN) /\ pass' \in {1, 2}
  BY DEF IInv, Types
<1>3. SuccessIsStored'
  BY DEF Conclude, SuccessIsStored
<1> QED
  BY <1>1, <1>2, <1>3, Concluding

LEMMA UpdateDone ==
  ASSUME IInv, pc \in FileUpdates, Opened, touched' = {Talk},
         mem' \in [Tags -> SUBSET (1..Units)], nlen' \in [Tags4 -> {"old", "zero", "new"}],
         idx' \in Nat \ {0},
         UNCHANGED <<field, shown, lost, sel, roomy, tool, reader, plan, got, swapped, card, says, done>>,
         \/ pc' \in {"chunk", "final"} /\ pass' = pass
         \/ pc' = "app" /\ pass' = 2,
         FileProgress'
  PROVE  IInv'
<1>1. pc \in Active /\ pc' \in Active
  BY DEF Active, FileUpdates, FileSteps
<1>2. Talk = field[reader] /\ Talk \in Tags4 /\ Talk \in Tags
  BY OpenedTag, UpdatesOneTag, Talks
<1>3. plan = 4 /\ tool = "writer" /\ pass = 1
  BY DEF IInv, Phases
<1>4. Types'
  BY <1>1, <1>2, <1>3 DEF IInv, Types
<1>5. ReaderStates' /\ Waiting' /\ OneTag' /\ SuccessIsStored' /\ says' = "none" /\ card' # "none"
  BY <1>1, <1>2, Working
<1>6. Phases'
  BY <1>1, <1>2, <1>3, <1>5 DEF Phases, FileUpdates, StorageSteps, FileSteps
<1>7. SameFile'
  BY <1>2 DEF SameFile
<1>8. StorageProgress' /\ ReadBack' /\ PlanDone'
  BY DEF StorageProgress, ReadBack, PlanDone
<1> QED
  BY <1>4, <1>5, <1>6, <1>7, <1>8 DEF IInv

LEMMA ClearNlenStep == ASSUME IInv, ClearNlen PROVE IInv'
<1>1. pc = "clear" /\ pc \in FileUpdates
  BY DEF ClearNlen, FileUpdates
<1> DEFINE t == IF Opened THEN Talk ELSE None
<1>2. PICK o \in Outcomes(t, 1) :
         /\ nlen' = IF o.stored = 1 THEN [nlen EXCEPT ![Talk] = "zero"] ELSE nlen
         /\ touched' = touched \cup ({t} \ {None})
         /\ \/ o.ok /\ pc' = "chunk" /\ idx' = 1 /\ UNCHANGED <<pass, says, card, done>>
            \/ Conclude("error") /\ UNCHANGED <<idx, pass>>
         /\ UNCHANGED <<field, shown, lost, mem, roomy, sel, tool, reader, plan, got, swapped>>
  BY DEF ClearNlen, Update, world, task
<1>3. o.ok => Opened
  BY <1>2 DEF Outcomes
<1>4. Opened => touched \subseteq {Talk} /\ Talk \in Tags4 /\ Talk \in Tags /\ Talk # None
  BY <1>1, UpdatesOneTag, Talks, OpenedTag
<1>5. /\ mem' \in [Tags -> SUBSET (1..Units)] /\ nlen' \in [Tags4 -> {"old", "zero", "new"}]
      /\ touched' \subseteq Tags
  BY <1>2, <1>4 DEF IInv, Types
<1>6. CASE Conclude("error") /\ UNCHANGED <<idx, pass>>
  BY <1>1, <1>2, <1>5, <1>6, UpdateFails
<1>7. CASE o.ok /\ pc' = "chunk" /\ idx' = 1 /\ UNCHANGED <<pass, says, card, done>>
  <2>1. touched' = {Talk}
    BY <1>2, <1>3, <1>4, <1>7
  <2>2. idx' \in Nat \ {0} /\ idx' \in 1..Units /\ 1..(idx' - 1) = {}
    BY <1>7, Sizes
  <2>3. FileProgress'
    BY <1>7, <2>2 DEF FileProgress, FileSteps
  <2> QED
    BY <1>1, <1>2, <1>3, <1>5, <1>7, <2>1, <2>2, <2>3, UpdateDone
<1> QED
  BY <1>2, <1>6, <1>7

LEMMA WriteChunkStep == ASSUME IInv, WriteChunk PROVE IInv'
<1>1. pc = "chunk" /\ pc \in FileUpdates
  BY DEF WriteChunk, FileUpdates
<1> DEFINE t == IF Opened THEN Talk ELSE None
<1>2. PICK o \in Outcomes(t, 1) :
         /\ mem' = IF o.stored = 1 THEN [mem EXCEPT ![Talk] = mem[Talk] \cup {idx}] ELSE mem
         /\ touched' = touched \cup ({t} \ {None})
         /\ \/ /\ o.ok /\ UNCHANGED <<pass, says, card, done>>
               /\ IF idx = Units THEN pc' = "final" /\ UNCHANGED idx
                  ELSE pc' = pc /\ idx' = idx + 1
            \/ Conclude("error") /\ UNCHANGED <<idx, pass>>
         /\ UNCHANGED <<field, shown, lost, nlen, roomy, sel, tool, reader, plan, got, swapped>>
  BY DEF WriteChunk, Update, world, task
<1>3. o.ok => Opened /\ (o.stored = 1 \/ Talk \in Worn)
  BY <1>2 DEF Outcomes
<1>4. Opened => touched \subseteq {Talk} /\ Talk \in Tags4 /\ Talk \in Tags /\ Talk # None
  BY <1>1, UpdatesOneTag, Talks, OpenedTag
<1>5. /\ idx \in 1..Units /\ \A s \in touched \ Worn : 1..(idx - 1) \subseteq mem[s]
      /\ touched # {}
  BY <1>1 DEF IInv, FileProgress, Phases
<1>6. o.stored = 1 => Opened
  BY <1>2 DEF Outcomes
<1>7. mem' \in [Tags -> SUBSET (1..Units)]
  BY <1>2, <1>4, <1>5, <1>6 DEF IInv, Types
<1>8. nlen' \in [Tags4 -> {"old", "zero", "new"}] /\ touched' \subseteq Tags
  BY <1>2, <1>4 DEF IInv, Types
<1>9. CASE Conclude("error") /\ UNCHANGED <<idx, pass>>
  BY <1>1, <1>2, <1>7, <1>8, <1>9, UpdateFails
<1>10. CASE /\ o.ok /\ UNCHANGED <<pass, says, card, done>>
            /\ IF idx = Units THEN pc' = "final" /\ UNCHANGED idx
               ELSE pc' = pc /\ idx' = idx + 1
  <2>1. touched' = {Talk} /\ Talk \in touched
    BY <1>2, <1>3, <1>4, <1>5, <1>10
  <2>2. Talk \notin Worn => 1..(idx - 1) \subseteq mem[Talk] /\ mem'[Talk] = mem[Talk] \cup {idx}
    BY <1>2, <1>3, <1>4, <1>5, <1>10, <2>1 DEF IInv, Types
  <2>3. mem'[Talk] \subseteq 1..Units
    BY <1>3, <1>4, <1>7, <1>10
  <2>4. Talk \notin Worn => 1..idx \subseteq mem'[Talk]
    <3>1. \A k \in 1..idx : k \in 1..(idx - 1) \/ k = idx
      BY <1>5, Sizes
    <3> QED
      BY <2>2, <3>1
  <2>5. CASE idx = Units
    <3>1. FileProgress'
      BY <1>10, <2>1, <2>3, <2>4, <2>5 DEF FileProgress, FileSteps
    <3>2. idx' \in Nat \ {0} /\ pc' = "final"
      BY <1>5, <1>10, <2>5
    <3> QED
      BY <1>1, <1>2, <1>3, <1>7, <1>8, <1>10, <2>1, <3>1, <3>2, UpdateDone
  <2>6. CASE idx # Units
    <3>1. idx' \in 1..Units /\ idx' \in Nat \ {0} /\ idx' - 1 = idx /\ pc' = "chunk"
      BY <1>1, <1>5, <1>10, <2>6, Sizes
    <3>2. FileProgress'
      BY <2>1, <2>4, <3>1 DEF FileProgress, FileSteps
    <3> QED
      BY <1>1, <1>2, <1>3, <1>7, <1>8, <1>10, <2>1, <3>1, <3>2, UpdateDone
  <2> QED
    BY <2>5, <2>6
<1> QED
  BY <1>2, <1>9, <1>10

LEMMA RestoreNlenStep == ASSUME IInv, RestoreNlen PROVE IInv'
<1>1. pc = "final" /\ pc \in FileUpdates
  BY DEF RestoreNlen, FileUpdates
<1> DEFINE t == IF Opened THEN Talk ELSE None
<1>2. PICK o \in Outcomes(t, 1) :
         /\ nlen' = IF o.stored = 1 THEN [nlen EXCEPT ![Talk] = "new"] ELSE nlen
         /\ touched' = touched \cup ({t} \ {None})
         /\ \/ o.ok /\ pc' = "app" /\ pass' = 2 /\ UNCHANGED <<idx, says, card, done>>
            \/ Conclude("error") /\ UNCHANGED <<idx, pass>>
         /\ UNCHANGED <<field, shown, lost, mem, roomy, sel, tool, reader, plan, got, swapped>>
  BY DEF RestoreNlen, Update, world, task
<1>3. o.ok => Opened /\ (o.stored = 1 \/ Talk \in Worn)
  BY <1>2 DEF Outcomes
<1>4. Opened => touched \subseteq {Talk} /\ Talk \in Tags4 /\ Talk \in Tags /\ Talk # None
  BY <1>1, UpdatesOneTag, Talks, OpenedTag
<1>5. (\A s \in touched \ Worn : mem[s] = 1..Units) /\ touched # {} /\ idx \in Nat \ {0}
  BY <1>1 DEF IInv, FileProgress, Phases, Types
<1>6. /\ mem' \in [Tags -> SUBSET (1..Units)] /\ nlen' \in [Tags4 -> {"old", "zero", "new"}]
      /\ touched' \subseteq Tags
  BY <1>2, <1>4 DEF IInv, Types
<1>7. CASE Conclude("error") /\ UNCHANGED <<idx, pass>>
  BY <1>1, <1>2, <1>6, <1>7, UpdateFails
<1>8. CASE o.ok /\ pc' = "app" /\ pass' = 2 /\ UNCHANGED <<idx, says, card, done>>
  <2>1. touched' = {Talk} /\ Talk \in touched
    BY <1>2, <1>3, <1>4, <1>5, <1>8
  <2>2. Talk \notin Worn => Stored(Talk)'
    <3>1. Talk' = Talk
      BY <1>2, <1>8 DEF Talk
    <3>2. Talk \notin Worn => mem'[Talk] = 1..Units /\ nlen'[Talk] = "new"
      BY <1>2, <1>3, <1>4, <1>5, <1>8, <2>1 DEF IInv, Types
    <3>3. Talk \notin Tags5
      BY <1>3, <1>4, <1>8, Constants
    <3> QED
      BY <3>1, <3>2, <3>3 DEF Stored, StatedLength
  <2>3. FileProgress'
    <3>1. \A s \in touched' : s = Talk
      BY <2>1
    <3>2. Talk' = Talk
      BY <1>2, <1>8 DEF Talk
    <3> QED
      BY <1>8, <2>2, <3>1, <3>2 DEF FileProgress
  <2> QED
    BY <1>1, <1>2, <1>3, <1>5, <1>6, <1>8, <2>1, <2>3, UpdateDone
<1> QED
  BY <1>2, <1>7, <1>8

-----------------------------------------------------------------------------
(* A storage tag *)

LEMMA StoragePlanStep ==
  ASSUME IInv, GetUid \/ ReadType2Cc \/ Type2Fits \/ ReadType5Cc \/ Type5Fits
  PROVE  IInv'
<1>1. UNCHANGED <<field, shown, lost, sel, mem, nlen, roomy, tool, reader, plan, idx, got, pass, touched, swapped,
                  card, says, done>>
  BY DEF GetUid, ReadType2Cc, Type2Fits, ReadType5Cc, Type5Fits, world, memory, task, progress, history
<1>2. ReadType5Cc => /\ pc = "cc" /\ plan = 5
                     /\ \/ pc' = "short"
                        \/ field[reader] \in roomy /\ pc' = "fit"
  BY Talks DEF ReadType5Cc, NeedsMlen
<1>3. \/ pc = "uid" /\ pc' = "cc"
      \/ pc = "cc" /\ plan = 2 /\ pc' = "fit"
      \/ pc = "cc" /\ plan = 5 /\ pc' = "short"
      \/ pc = "cc" /\ plan = 5 /\ field[reader] \in roomy /\ pc' = "fit"
      \/ pc = "short" /\ pc' = "mlen"
      \/ pc = "short" /\ tool # "writer" /\ pc' = "unit"
      \/ pc = "fit" /\ pc' = "unit"
  BY <1>2 DEF GetUid, ReadType2Cc, Type2Fits, Type5Fits
<1> QED
  BY <1>1, <1>3, MovingOn

(* The smaller of two numbers *)
LEMMA SmallerOfTwo ==
  ASSUME NEW a \in Nat, NEW b \in Nat
  PROVE  Min({a, b}) \in {a, b} /\ Min({a, b}) <= a /\ Min({a, b}) <= b
<1>1. CASE a <= b
  <2>1. a \in {a, b} /\ \A y \in {a, b} : a <= y
    BY <1>1
  <2>2. Min({a, b}) \in {a, b} /\ \A y \in {a, b} : Min({a, b}) <= y
    BY <2>1 DEF Min
  <2> QED
    BY <2>2
<1>2. CASE b <= a
  <2>1. b \in {a, b} /\ \A y \in {a, b} : b <= y
    BY <1>2
  <2>2. Min({a, b}) \in {a, b} /\ \A y \in {a, b} : Min({a, b}) <= y
    BY <2>1 DEF Min
  <2> QED
    BY <2>2
<1> QED
  BY <1>1, <1>2

LEMMA ChunkSize ==
  ASSUME idx \in 1..Units
  PROVE  ChunkUnits \in Nat \ {0} /\ idx + ChunkUnits - 1 \in idx..Units
<1>1. Left \in Nat \ {0} /\ BulkUnits \in Nat \ {0}
  BY Sizes DEF Left
<1>2. Min({Left, BulkUnits}) \in {Left, BulkUnits} /\ Min({Left, BulkUnits}) <= Left
  BY <1>1, SmallerOfTwo
<1>3. ChunkUnits \in Nat \ {0} /\ ChunkUnits <= Left
  BY <1>1, <1>2 DEF ChunkUnits
<1> QED
  BY <1>3, Sizes DEF Left

(* What a write leaves of the tags that were touched before and of the one  *)
(* it reaches                                                              *)
LEMMA ReachedTag ==
  ASSUME IInv, pc \in StorageSteps, Reached # None
  PROVE  /\ Reached = Talk /\ Reached = field[reader] /\ Reached \in Tags /\ Reached \notin Tags4
         /\ Reached \in Tags5 <=> plan = 5
<1>1. Reached = Talk /\ Talk # None
  BY DEF Reached
<1>2. plan \in {2, 5}
  BY DEF IInv, Phases
<1> QED
  BY <1>1, <1>2, Talks

(* A step of the storage plan that stays in it, or gives up *)
LEMMA StaysOrGivesUp ==
  ASSUME IInv, pc \in {"mlen", "unit"},
         \/ pc' \in {pc, "unit"} /\ UNCHANGED <<says, card, done>>
         \/ GiveUp,
         pc' = "mlen" => idx' = idx,
         UNCHANGED <<field, shown, lost, sel, nlen, tool, reader, plan, pass, swapped>>,
         mem' \in [Tags -> SUBSET (1..Units)], roomy' \subseteq Tags5,
         idx' \in Nat \ {0}, got' \in Seq(BOOLEAN),
         touched' = touched \cup ({Reached} \ {None}) \/ (touched' = touched /\ tool # "writer"),
         pc' = "unit" => StorageProgress'
  PROVE  IInv'
<1>1. pc \in Active /\ pc \in StorageSteps /\ pc \notin Resting
  BY DEF Active, StorageSteps, Resting
<1>2. plan \in {2, 5} /\ touched \cap Tags4 = {} /\ (pc = "mlen" => plan = 5 /\ idx = 1)
  BY <1>1 DEF IInv, Phases
<1>3. /\ touched' \subseteq Tags /\ touched' \cap Tags4 = {}
      /\ touched' \subseteq touched \cup {field[reader]}
  <2>1. touched \subseteq Tags
    BY DEF IInv, Types
  <2> QED
    BY <1>1, <1>2, <2>1, ReachedTag
<1>4. nlen' \in [Tags4 -> {"old", "zero", "new"}] /\ pass' \in {1, 2}
  BY DEF IInv, Types
<1>5. CASE pc' \in {pc, "unit"} /\ UNCHANGED <<says, card, done>>
  <2>1. pc' \in Active /\ pc' \in {"mlen", "unit"} /\ (pc' = "mlen" => pc = "mlen")
    BY <1>5 DEF Active, StorageSteps
  <2>2. Types'
    BY <1>3, <1>4, <1>5, <2>1 DEF IInv, Types
  <2>3. ReaderStates' /\ Waiting' /\ OneTag' /\ SuccessIsStored' /\ says' = "none" /\ card' # "none"
    BY <1>1, <1>3, <1>5, <2>1, Working
  <2>4. Phases'
    BY <1>2, <1>3, <2>1, <2>3 DEF Phases, FileUpdates, StorageSteps, FileSteps
  <2>5. StorageProgress'
    BY <2>1 DEF StorageProgress
  <2>6. SameFile' /\ FileProgress' /\ ReadBack' /\ PlanDone'
    BY <2>1 DEF SameFile, FileProgress, ReadBack, PlanDone, FileUpdates, FileSteps
  <2> QED
    BY <2>2, <2>3, <2>4, <2>5, <2>6 DEF IInv
<1>6. CASE GiveUp
  <2>1. CASE tool = "writer"
    <3>1. Conclude("error")
      BY <1>6, <2>1 DEF GiveUp
    <3>2. SuccessIsStored'
      BY <3>1 DEF Conclude, SuccessIsStored
    <3> QED
      BY <1>1, <1>3, <1>4, <3>1, <3>2, Concluding
  <2>2. CASE tool # "writer"
    BY <1>1, <1>3, <1>4, <1>6, <2>2, Ending DEF GiveUp
  <2> QED
    BY <2>1, <2>2
<1> QED
  BY <1>5, <1>6

LEMMA WriteMlenStep == ASSUME IInv, WriteMlen PROVE IInv'
<1>1. pc = "mlen" /\ pc \in StorageSteps
  BY DEF WriteMlen, StorageSteps
<1>2. PICK o \in Outcomes(Reached, 1) :
         /\ roomy' = IF o.stored = 1 THEN roomy \cup {Reached} ELSE roomy
         /\ touched' = touched \cup ({Reached} \ {None})
         /\ IF o.ok THEN pc' = "unit" /\ form' = 1 /\ UNCHANGED <<bulk, says, card, done>>
            ELSE NextForm
         /\ UNCHANGED <<field, shown, lost, mem, nlen, sel, tool, reader, plan, pass, idx, got, swapped>>
  BY DEF WriteMlen, world, task
<1>3. plan = 5 /\ idx = 1
  BY <1>1 DEF IInv, Phases
<1>4. /\ o.ok => Reached # None /\ (o.stored = 1 \/ Reached \in Worn)
      /\ o.stored = 1 => Reached # None
  BY <1>2 DEF Outcomes
<1>5. /\ mem' \in [Tags -> SUBSET (1..Units)] /\ idx' \in Nat \ {0} /\ got' \in Seq(BOOLEAN)
      /\ roomy' \subseteq Tags5
  BY <1>1, <1>2, <1>3, <1>4, ReachedTag DEF IInv, Types
<1>6. \/ pc' \in {pc, "unit"} /\ UNCHANGED <<says, card, done>>
      \/ GiveUp
  BY <1>2 DEF NextForm
<1>7. ASSUME pc' = "unit" PROVE StorageProgress'
  <2>1. o.ok
    BY <1>1, <1>2, <1>7 DEF NextForm, GiveUp, Conclude
  <2>2. /\ Reached # None /\ Reached = Talk /\ Reached = field[reader] /\ Reached \in Tags5
        /\ Reached \in roomy' \cup Worn
    BY <1>1, <1>2, <1>3, <1>4, <2>1, ReachedTag
  <2>3. ~swapped => \A t \in touched' : t = Reached
    BY <1>2, <2>2, TheOneTouched
  <2>4. idx' \in 1..Units /\ ~(idx' > 1) /\ 1..(idx' - 1) = {}
    BY <1>2, <1>3, Sizes
  <2>5. swapped' = swapped /\ swapped \in BOOLEAN /\ field'[reader'] = Reached
    BY <1>2, <2>2 DEF IInv, Types
  <2> QED
    BY <2>2, <2>3, <2>4, <2>5 DEF StorageProgress
<1>8. pc' = "mlen" => idx' = idx
  BY <1>2
<1> QED
  BY <1>1, <1>2, <1>5, <1>6, <1>7, <1>8, StaysOrGivesUp

LEMMA WriteUnitsStep == ASSUME IInv, WriteUnits PROVE IInv'
<1>1. pc = "unit" /\ pc \in StorageSteps /\ tool = "writer"
  BY DEF WriteUnits, StorageSteps
<1>2. PICK o \in Outcomes(Reached, ChunkUnits) :
         /\ mem' = IF o.stored = 0 THEN mem
                   ELSE [mem EXCEPT ![Reached] = mem[Reached] \cup idx..(idx + o.stored - 1)]
         /\ touched' = touched \cup ({Reached} \ {None})
         /\ IF o.ok
            THEN /\ form' = 1 /\ bulk' = TRUE /\ UNCHANGED <<says, card, done>>
                 /\ IF idx + ChunkUnits > Units THEN pc' = "end" /\ UNCHANGED idx
                    ELSE idx' = idx + ChunkUnits /\ UNCHANGED pc
            ELSE NextForm /\ UNCHANGED idx
         /\ UNCHANGED <<field, shown, lost, nlen, roomy, sel, tool, reader, plan, pass, got, swapped>>
  BY DEF WriteUnits, world, task
<1>3. /\ idx \in 1..Units /\ (idx > 1 => touched # {})
      /\ \A t \in touched : \/ t \in Worn \/ swapped
                            \/ 1..(idx - 1) \subseteq mem[t] /\ (t \in Tags5 => t \in roomy)
  BY <1>1 DEF IInv, StorageProgress
<1>4. ChunkUnits \in Nat \ {0} /\ idx + ChunkUnits - 1 \in idx..Units
  BY <1>3, ChunkSize
<1>5. o.stored \in 0..ChunkUnits /\ (o.stored # 0 => Reached # None)
  BY <1>2, <1>4 DEF Outcomes
<1>6. o.ok => Reached # None /\ (o.stored = ChunkUnits \/ Reached \in Worn)
  BY <1>2 DEF Outcomes
<1>7. \A t \in Tags : mem[t] \subseteq mem'[t] /\ mem'[t] \subseteq 1..Units
  <2>1. idx..(idx + o.stored - 1) \subseteq 1..Units
    <3>1. o.stored \in Nat /\ o.stored <= ChunkUnits
      BY <1>4, <1>5
    <3>2. idx \in Nat \ {0} /\ Units \in Nat /\ idx + ChunkUnits - 1 <= Units
      BY <1>3, <1>4, Sizes
    <3> QED
      BY <1>4, <3>1, <3>2
  <2> QED
    BY <1>2, <2>1 DEF IInv, Types
<1>8. /\ mem' \in [Tags -> SUBSET (1..Units)] /\ nlen' \in [Tags4 -> {"old", "zero", "new"}]
      /\ roomy' \subseteq Tags5 /\ got' \in Seq(BOOLEAN) /\ pass' \in {1, 2}
  <2>1. mem' \in [Tags -> SUBSET (1..Units)]
    BY <1>1, <1>2, <1>5, <1>7, ReachedTag DEF IInv, Types
  <2> QED
    BY <1>2, <2>1 DEF IInv, Types
(* Every tag touched has what precedes this chunk *)
<1>9. \A t \in touched' : \/ t \in Worn \/ swapped
                          \/ 1..(idx - 1) \subseteq mem[t] /\ (t \in Tags5 => t \in roomy)
  <2> SUFFICES ASSUME NEW t \in touched', t \notin Worn, ~swapped, t \notin touched
               PROVE  1..(idx - 1) \subseteq mem[t] /\ (t \in Tags5 => t \in roomy)
    BY <1>3
  <2>1. t = Reached /\ Reached # None
    BY <1>2
  <2>2. Reached = Talk /\ Reached = field[reader] /\ (Reached \in Tags5 <=> plan = 5)
    BY <1>1, <2>1, ReachedTag
  <2>3. touched = {}
    BY <2>1, <2>2, TheOneTouched
  <2>4. 1..(idx - 1) = {}
    <3>1. ~(idx > 1)
      BY <1>3, <2>3
    <3> QED
      BY <1>3, <3>1
  <2>5. t \in Tags5 => t \in roomy
    BY <1>1, <2>1, <2>2 DEF IInv, StorageProgress
  <2> QED
    BY <2>4, <2>5
<1>10. swapped' = swapped /\ swapped \in BOOLEAN /\ touched' \subseteq Tags
  BY <1>1, <1>2, ReachedTag DEF IInv, Types
(* What an answer tells of the chunk *)
<1>11. ASSUME o.ok, NEW t \in touched', t \notin Worn, ~swapped
       PROVE  1..(idx + ChunkUnits - 1) \subseteq mem'[t] /\ (t \in Tags5 => t \in roomy)
  <2>1. Reached # None /\ Reached = Talk /\ Reached \in Tags
    BY <1>1, <1>6, <1>11, ReachedTag
  <2>2. t = Reached
    BY <1>2, <1>11, <2>1, TheOneTouched
  <2>3. o.stored = ChunkUnits
    BY <1>6, <1>11, <2>2
  <2>4. mem'[t] = mem[t] \cup idx..(idx + ChunkUnits - 1)
    BY <1>2, <1>4, <2>1, <2>2, <2>3 DEF IInv, Types
  <2>5. 1..(idx - 1) \subseteq mem[t] /\ (t \in Tags5 => t \in roomy)
    BY <1>9, <1>11
  <2>6. \A k \in 1..(idx + ChunkUnits - 1) : k \in 1..(idx - 1) \/ k \in idx..(idx + ChunkUnits - 1)
    BY <1>3, <1>4
  <2> QED
    BY <2>4, <2>5, <2>6
<1>12. CASE o.ok /\ idx + ChunkUnits > Units
  <2>1. pc' = "end" /\ UNCHANGED <<says, card, done>> /\ idx' = idx
    BY <1>2, <1>12
  <2>2. pc \in Active /\ idx' \in Nat \ {0}
    BY <1>1, <1>3, <2>1 DEF Active
  <2>3. ASSUME NEW t \in touched'
        PROVE  Fine(t)'
    <3>1. t \in Tags /\ t \notin Tags4
      <4>1. touched \cap Tags4 = {}
        BY <1>1 DEF IInv, Phases
      <4> QED
        BY <1>1, <1>2, <1>10, <2>3, <4>1, ReachedTag
    <3>2. t \notin Worn /\ ~swapped => Stored(t)'
      <4> SUFFICES ASSUME t \notin Worn, ~swapped PROVE Stored(t)'
        OBVIOUS
      <4>1. idx + ChunkUnits - 1 = Units
        BY <1>3, <1>4, <1>12, Sizes
      <4>2. 1..Units \subseteq mem'[t] /\ (t \in Tags5 => t \in roomy)
        BY <1>11, <1>12, <2>3, <4>1
      <4>3. mem'[t] = 1..Units
        BY <1>7, <3>1, <4>2
      <4> QED
        BY <1>2, <3>1, <4>2, <4>3 DEF Stored
    <3> QED
      BY <1>10, <3>1, <3>2 DEF Fine
  <2>4. touched' \subseteq touched \cup {field[reader]}
    BY <1>1, <1>2, ReachedTag
  <2> QED
    BY <1>2, <1>8, <1>10, <2>1, <2>2, <2>3, <2>4, Ending
<1>13. CASE o.ok /\ ~(idx + ChunkUnits > Units)
  <2>1. pc' = pc /\ UNCHANGED <<says, card, done>> /\ idx' = idx + ChunkUnits
    BY <1>2, <1>13
  <2>2. /\ idx' \in 1..Units /\ idx' \in Nat \ {0}
        /\ idx' - 1 = idx + ChunkUnits - 1
    BY <1>3, <1>4, <1>13, <2>1, Sizes
  <2>3. StorageProgress'
    <3>1. pc' = "unit" /\ field'[reader'] = field[reader] /\ roomy' = roomy
      BY <1>1, <1>2, <2>1
    <3>2. touched' # {}
      BY <1>2, <1>6, <1>13
    <3>3. plan' = 5 /\ ~swapped' /\ field'[reader'] \in Tags5 => field'[reader'] \in roomy' \cup Worn
      BY <1>1, <1>2 DEF IInv, StorageProgress
    <3>4. \A t \in touched' : \/ t \in Worn \/ swapped'
                              \/ 1..(idx' - 1) \subseteq mem'[t] /\ (t \in Tags5 => t \in roomy')
      BY <1>10, <1>11, <1>13, <2>2, <3>1
    <3> QED
      BY <2>2, <3>2, <3>3, <3>4 DEF StorageProgress
  <2> QED
    BY <1>1, <1>2, <1>8, <2>1, <2>2, <2>3, StaysOrGivesUp
<1>14. CASE ~o.ok
  <2>1. idx' = idx /\ idx' \in Nat \ {0}
    BY <1>2, <1>3, <1>14
  <2>2. \/ pc' \in {pc, "unit"} /\ UNCHANGED <<says, card, done>>
        \/ GiveUp
    BY <1>2, <1>14 DEF NextForm
  <2>3. StorageProgress'
    <3>1. plan' = 5 /\ ~swapped' /\ field'[reader'] \in Tags5 => field'[reader'] \in roomy' \cup Worn
      BY <1>1, <1>2 DEF IInv, StorageProgress
    <3>2. \A t \in touched' : \/ t \in Worn \/ swapped'
                              \/ 1..(idx' - 1) \subseteq mem'[t] /\ (t \in Tags5 => t \in roomy')
      <4> TAKE t \in touched'
      <4>1. t \in Tags /\ mem[t] \subseteq mem'[t]
        BY <1>7, <1>10
      <4> QED
        BY <1>2, <1>9, <1>10, <2>1, <4>1
    <3>3. idx' \in 1..Units /\ (idx' > 1 => touched' # {})
      BY <1>2, <1>3, <2>1
    <3> QED
      BY <3>1, <3>2, <3>3 DEF StorageProgress
  <2> QED
    BY <1>1, <1>2, <1>8, <2>1, <2>2, <2>3, StaysOrGivesUp
<1> QED
  BY <1>12, <1>13, <1>14

LEMMA ReadTlvStep ==
  ASSUME IInv, ReadStorageNdefTlv \/ ReadType5NdefTlv
  PROVE  IInv'
<1>1. /\ pc = "unit" /\ pc \in StorageSteps /\ tool = "reader"
      /\ UNCHANGED <<field, shown, lost, mem, nlen, roomy, sel, tool, reader, plan, pass, touched, swapped>>
  BY DEF ReadStorageNdefTlv, ReadType5NdefTlv, world, memory, task, StorageSteps
<1>2. \/ \E t : ReadUnit(t)
      \/ NextForm /\ UNCHANGED <<got, decoded, idx>>
  BY DEF ReadStorageNdefTlv, ReadType5NdefTlv
<1>3. /\ idx \in Nat \ {0} /\ got \in Seq(BOOLEAN) /\ touched \subseteq Tags /\ pass \in {1, 2}
      /\ mem \in [Tags -> SUBSET (1..Units)] /\ nlen \in [Tags4 -> {"old", "zero", "new"}]
      /\ roomy \subseteq Tags5
  BY DEF IInv, Types
<1>4. StorageProgress'
  BY <1>1 DEF StorageProgress
<1>5. ASSUME NEW t, ReadUnit(t)
      PROVE  IInv'
  <2>1. /\ got' = Append(got, idx \in mem[t]) /\ UNCHANGED <<says, card, done>>
        /\ \/ pc' = "end" /\ idx' = idx
           \/ pc' = pc /\ idx' = idx + 1
    BY <1>5 DEF ReadUnit
  <2>2. got' \in Seq(BOOLEAN)
    <3>1. (idx \in mem[t]) \in BOOLEAN
      OBVIOUS
    <3> QED
      BY <1>3, <2>1, <3>1, AppendProperties
  <2>3. idx' \in Nat \ {0}
    <3>1. idx \in Nat \ {0}
      BY <1>3
    <3> QED
      BY <2>1, <3>1
  <2>4. CASE pc' = "end"
    <3>1. pc \in Active
      BY <1>1 DEF Active
    <3> QED
      BY <1>1, <1>3, <2>1, <2>2, <2>3, <2>4, <3>1, Ending
  <2>5. CASE pc' = pc
    BY <1>1, <1>3, <1>4, <2>1, <2>2, <2>3, <2>5, StaysOrGivesUp
  <2> QED
    BY <2>1, <2>4, <2>5
<1>6. CASE NextForm /\ UNCHANGED <<got, decoded, idx>>
  <2>1. \/ pc' \in {pc, "unit"} /\ UNCHANGED <<says, card, done>>
        \/ GiveUp
    BY <1>6 DEF NextForm
  <2> QED
    BY <1>1, <1>3, <1>4, <1>6, <2>1, StaysOrGivesUp
<1> QED
  BY <1>2, <1>5, <1>6

-----------------------------------------------------------------------------
(* The invariant, and what follows from it *)

LEMMA Idle == ASSUME IInv, UNCHANGED vars PROVE IInv'
<1>1. UNCHANGED <<field, shown, lost, sel, mem, nlen, roomy, tool, pc, card, reader, plan, idx, got, pass,
                  touched, says, swapped, done>>
  BY DEF vars, world, memory, task, progress, history
<1>2. Types' /\ ReaderStates' /\ Waiting' /\ OneTag' /\ StorageProgress' /\ SameFile'
  BY <1>1 DEF IInv, Types, ReaderStates, Waiting, OneTag, StorageProgress, SameFile
<1>3. Phases' /\ FileProgress' /\ ReadBack' /\ PlanDone' /\ SuccessIsStored'
  BY <1>1, Surroundings
<1> QED
  BY <1>2, <1>3 DEF IInv

LEMMA ProgramStep == ASSUME IInv, Program PROVE IInv'
BY WaitForPresentReaderStep, ConnectStep, BeginStep, StatusStep, StepFailsStep, OpenNdefFileStep,
   ReadNlenStep, ReadChunkStep, ClearNlenStep, WriteChunkStep, RestoreNlenStep, StoragePlanStep,
   WriteMlenStep, WriteUnitsStep, ReadTlvStep, ReportStep, WaitForRemovalStep DEF Program

LEMMA EnvironmentStep == ASSUME IInv, Environment PROVE IInv'
BY PlaceStep, TakeOffStep, ServiceStep DEF Environment

LEMMA Invariance == Spec => []IInv
<1>1. IInv /\ [Next]_vars => IInv'
  BY ProgramStep, EnvironmentStep, Idle DEF Next
<1> QED
  BY InitIInv, <1>1, PTL DEF Spec

(* A success is printed only when every tag the write touched holds all of  *)
(* the message, unless it is worn or was exchanged meanwhile: for every     *)
(* number of units and chunks, however often answers are lost and forms     *)
(* tried again (RunPcscWriter).                                             *)
THEOREM SuccessesAreStored == Spec => []SuccessIsStored
BY Invariance, PTL DEF IInv

(* The tool writes only while it is at work on a tag *)
LEMMA WritesAtWork ==
  ASSUME Next, pc \in Resting
  PROVE  UNCHANGED <<mem, nlen>>
<1>1. Environment => UNCHANGED <<mem, nlen>>
  BY DEF Environment, Place, TakeOff, Notice, DropOut, memory
<1>2. Program => UNCHANGED <<mem, nlen>>
  <2>1. pc \in {"absent", "settle", "exit"}
    BY DEF Resting
  <2>2. ~(ClearNlen \/ WriteChunk \/ RestoreNlen \/ WriteMlen \/ WriteUnits)
    BY <2>1 DEF ClearNlen, WriteChunk, RestoreNlen, WriteMlen, WriteUnits
  <2> QED
    BY <2>2 DEF Program, WaitForPresentReader, Connect, BeginTransaction, Status, StepFails, Probe,
       OpenNdefFile, ReadNlen, ReadChunk, GetUid, ReadType2Cc, Type2Fits, ReadType5Cc, Type5Fits,
       ReadStorageNdefTlv, ReadType5NdefTlv, ReportWrite, ReportTag, WaitForCardAbsent, Settle, Exit, memory
<1> QED
  BY <1>1, <1>2 DEF Next

(* A tag an outcome was printed for is neither written nor shown again until*)
(* it has been off the reader, for every number of readers and tags and     *)
(* however often the service loses one (WaitForCardAbsentStable).           *)
THEOREM HandledOnceEach == Spec => HandledOnce
<1>1. IInv /\ [Next]_vars =>
        [/\ \A t \in done : mem'[t] = mem[t] /\ (t \in Tags4 => nlen'[t] = nlen[t])
         /\ pc = "end" /\ says' \in {"success", "tag"} => field[reader] \notin done]_vars
  <2> SUFFICES ASSUME IInv, [Next]_vars
               PROVE  [/\ \A t \in done : mem'[t] = mem[t] /\ (t \in Tags4 => nlen'[t] = nlen[t])
                       /\ pc = "end" /\ says' \in {"success", "tag"} => field[reader] \notin done]_vars
    OBVIOUS
  <2>1. CASE pc \in Resting
    <3>1. pc # "end"
      BY <2>1 DEF Resting
    <3>2. Next => UNCHANGED <<mem, nlen>>
      BY <2>1, WritesAtWork
    <3> QED
      BY <3>1, <3>2
  <2>2. CASE pc \notin Resting
    <3>1. done = {}
      BY <2>2, NoneDone
    <3> QED
      BY <3>1
  <2> QED
    BY <2>1, <2>2
<1> QED
  BY <1>1, Invariance, PTL DEF Spec, HandledOnce
=============================================================================
