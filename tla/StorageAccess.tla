----------------------------- MODULE StorageAccess -----------------------------
(***************************************************************************)
(* The storage commands of the CCID reader: READ BINARY, UPDATE BINARY,    *)
(* GET DATA and the raw reads a host sends to a Type 2 or a Type 5 tag.    *)
(* Each is a sequence of exchanges with a tag, and the tag may be taken    *)
(* away or exchanged for another one between any two of them.  A Type 2    *)
(* tag is spoken to without an address: what answers is the tag that was   *)
(* activated last.  A Type 5 tag is addressed by its UID.                  *)
(*                                                                         *)
(* Memory is counted in units: the pages of a Type 2 tag, the blocks of a  *)
(* Type 5 tag.  What a unit holds is only told apart as far as the update  *)
(* being served goes: 0 is what it held before, k the k-th unit of the     *)
(* host's data, Torn neither.  A read block or a READ MULTIPLE that is     *)
(* tried in its short and its extended form is one exchange, which fails   *)
(* when both do; so are the exchanges that read a Type 5 tag's CC and its  *)
(* system information.  Parsing of the APDUs is left out.                  *)
(*                                                                         *)
(* A definition named X_... that nothing refers to is X with a plausible   *)
(* mistake, see IsoDep.                                                    *)
(***************************************************************************)
EXTENDS Integers, Sequences, FiniteSets

CONSTANTS
  Tags2, Tags5,  \* Type 2 and Type 5 tags
  None,
  Nxp,           \* Type 2 tags whose UID starts with NFC_TAG_MFR_CODE_NXP
  ReadOpen, WriteOpen,  \* tags whose CC grants read, write access
  Area,          \* size of a tag's data area, in units, as its CC says
  CcBlocks,      \* blocks of a Type 5 tag's CC
  Blocks,        \* block count of a Type 5 tag's system information
  Units,         \* units of memory of each tag
  Cc,            \* NFC_STORAGE_TYPE2_CC_PAGE
  MaxPage,       \* NERO_NFC_TYPE2_STORAGE_MAX_PAGE
  ReadPages,     \* NFC_TAG_T2T_READ_RESP_PAGES
  MultipleMax,   \* NFC_TAG_T5T_ISO15693_READ_MULTIPLE_BLOCKS_MAX
  LeMax,         \* units of an answer when Le = 0, and when rsp is full
  Attempts,      \* NFC_TAG_READER_TYPE2_WRITE_ATTEMPTS
  LcMax,         \* bound: units the host asks for or sends
  SwapMax        \* bound: how often a tag is put on the reader or taken off

Tags == Tags2 \cup Tags5

ASSUME TagsAssumption == /\ Tags2 \cap Tags5 = {} /\ None \notin Tags
                         /\ Nxp \subseteq Tags2
                         /\ ReadOpen \cup WriteOpen \subseteq Tags
ASSUME SizesAssumption ==
  /\ Area \in [Tags -> Nat] /\ CcBlocks \in [Tags5 -> {1, 2}] /\ Blocks \in [Tags5 -> Nat]
  /\ {Cc, MaxPage, SwapMax} \subseteq Nat
  /\ {Units, ReadPages, MultipleMax, LeMax, LcMax} \subseteq Nat \ {0}
  /\ Attempts \in Nat \ {0, 1}  \* a Type 5 write has two forms

Unit == 0..(Units - 1)
Torn == -1

VARIABLES
  field,    \* the tag on the reader
  swaps,    \* how often that has changed
  awake,    \* the Type 2 tag that is activated
  mem,      \* what the units of each tag hold
  kind,     \* G_TAG_KIND
  uid14, uid15,  \* whose G_UID14, G_UID15 the reader has
  fastOff,  \* tag_caps.type2_fast_read_uid and _disabled
  multipleOff,  \* tag_caps.type5_read_multiple_uid and _disabled
  abort,    \* an abort request for slot 0 is pending
  pc,       \* the exchange the reader is at
  req,      \* the host's command
  info,     \* the storage information the command was checked against
  i,        \* the unit of an update, the step of a GET DATA
  attempt,  \* attempts at writing the unit
  answer,   \* the units read: <<tag, unit>> (history but for its length)
  verified, \* history: which tag each unit of the update was verified on
  sw        \* the answer's status

tag     == <<field, swaps, awake, mem>>
known   == <<kind, uid14, uid15>>
caps    == <<fastOff, multipleOff>>
command == <<req, info, i, attempt, answer, verified, sw>>
vars    == <<tag, known, caps, abort, pc, command>>

NoInfo == [of |-> None, last |-> 0]
Untouched == [t \in Tags |-> [u \in Unit |-> 0]]
NoReq == [op |-> "none", at |-> 0, n |-> 0]

Init ==
  /\ field = None /\ swaps = 0 /\ awake = None /\ mem = Untouched
  /\ kind = "none" /\ uid14 = None /\ uid15 = None
  /\ fastOff = [of |-> None, off |-> FALSE] /\ multipleOff = [of |-> None, off |-> FALSE]
  /\ abort = FALSE /\ pc = "idle" /\ req = NoReq /\ info = NoInfo
  /\ i = 0 /\ attempt = 0 /\ answer = << >> /\ verified = << >> /\ sw = "none"

Goto(p) == pc' = p
Reply(s) == Goto("idle") /\ sw' = s
LesserOf(a, b) == IF a < b THEN a ELSE b

-----------------------------------------------------------------------------
(* Tags, the loop that detects them, and the host's abort requests *)

(* A tag that leaves the field is no longer activated *)
Swap ==
  /\ swaps < SwapMax
  /\ field' \in (Tags \cup {None}) \ {field}
  /\ swaps' = swaps + 1 /\ awake' = None
  /\ UNCHANGED <<mem, known, caps, abort, pc, command>>

(* Between commands the reader's loop polls for tags *)
Detect ==
  /\ pc = "idle"
  /\ \/ /\ field \in Tags2
        /\ kind' = "type2" /\ uid14' = field /\ awake' = field /\ UNCHANGED uid15
     \/ /\ field \in Tags5
        /\ kind' = "type5" /\ uid14' = None /\ uid15' = field /\ UNCHANGED awake
     \/ /\ field = None
        /\ kind' = "none" /\ uid14' = None /\ UNCHANGED <<uid15, awake>>
  /\ UNCHANGED <<field, swaps, mem, caps, abort, pc, command>>

(* reader_ccid_abort_requested looks at the slot only, so an abort of any   *)
(* command of the slot counts                                               *)
Abort == /\ pc # "idle" /\ ~abort /\ abort' = TRUE
         /\ UNCHANGED <<tag, known, caps, pc, command>>

(* An exchange with the activated Type 2 tag.  One that fails may leave the *)
(* tag idle.                                                                *)
Answers == awake # None
Fails == awake' \in {awake, None}

(* reader_protocol_activate_iso14443a: whichever Type 2 tag is in the field *)
(* is activated; when that fails the reader has no UID                      *)
Activated == field \in Tags2 /\ awake' = field /\ uid14' = field
NotActivated == awake' = None /\ uid14' = None

(* An exchange with the Type 5 tag whose UID the reader has *)
Reached == uid15 # None /\ field = uid15

-----------------------------------------------------------------------------
(* What may be read and written *)

Last2(t) == LesserOf(Cc + Area[t], MaxPage)
Last5(t, blocks) == LET last == CcBlocks[t] + Area[t] - 1
                    IN IF blocks # 0 /\ last >= blocks THEN blocks - 1 ELSE last
First(t) == IF t \in Tags2 THEN Cc + 1 ELSE CcBlocks[t]

ReadSpan(t, last, at, n) ==
  /\ n > 0 /\ Area[t] > 0
  /\ t \in Tags2 => at >= Cc
  /\ t \in Tags5 => First(t) <= last
  /\ at + n - 1 <= last

WriteSpan(t, last, at, n) == at >= First(t) /\ ReadSpan(t, last, at, n)

(* nfc_storage and get_type5_info: the last unit of the data area.  Without *)
(* its system information a Type 5 tag's area is taken from its CC alone.   *)
InfoOf(t) == IF t \in Tags2 THEN {[of |-> t, last |-> Last2(t)]}
             ELSE {[of |-> t, last |-> Last5(t, b)] : b \in {0, Blocks[t]}}

(* Bound: the memory holds every data area *)
ASSUME MemoryAssumption == \A t \in Tags : \A n \in InfoOf(t) : n.last < Units

(* Whether the storage information can be read, and from which tag *)
InfoFrom == IF kind = "type2" THEN IF uid14 = None THEN None ELSE awake
            ELSE IF kind = "type5" /\ Reached THEN uid15 ELSE None

(* An update of block 0 of a Type 5 tag by one block is its new CC *)
NewCc(t, at, n) == t \in Tags5 /\ at = 0 /\ n = 1

-----------------------------------------------------------------------------
(* The host's commands *)

Items == {"uid", "version", "sig", "cc2", "auth0", "sys5", "cc5"}

(* The exchanges a GET DATA item takes *)
Steps(item) ==
  CASE item = "version" -> <<"info2", "version">>
    [] item = "sig"     -> <<"page">>
    [] item = "cc2"     -> <<"info2">>
    [] item = "auth0"   -> <<"version", "page">>
    [] item \in {"sys5", "cc5"} -> <<"info5">>

(* What is asked before the first exchange *)
Offered(item) ==
  CASE item = "uid"     -> kind = "type5" \/ uid14 # None
    [] item = "version" -> kind = "type2"
    [] item \in {"sig", "auth0"} -> uid14 \in Nxp
    [] OTHER            -> TRUE

Begin(op, at, n) ==
  /\ pc = "idle"
  /\ req' = [op |-> op, at |-> at, n |-> n]
  /\ info' = NoInfo /\ i' = 1 /\ attempt' = 0 /\ answer' = << >> /\ verified' = << >>
  /\ mem' = Untouched /\ abort' = FALSE
  /\ UNCHANGED <<field, swaps, awake, known, caps>>

ReadBinary == \E at \in Unit, n \in 0..LcMax :
  /\ Begin("read", at, LesserOf(n, LeMax))
  /\ IF kind = "none" THEN Reply("unsupported")
     ELSE Goto(IF n = 0 THEN "remaining" ELSE "check") /\ sw' = "none"

UpdateBinary == \E at \in Unit, n \in 1..LcMax :
  /\ Begin("update", at, n)
  /\ IF kind = "none" THEN Reply("unsupported") ELSE Goto("check") /\ sw' = "none"

(* READ, FAST_READ and the read commands of ISO 15693, with or without the  *)
(* tag's UID, through InDataExchange, InCommunicateThru or the escape       *)
RawRead == \E at \in Unit, n \in 1..LcMax, addressed \in BOOLEAN :
  /\ kind = "type2" => addressed = FALSE
  /\ kind = "type5" => n <= MultipleMax
  /\ Begin(IF addressed THEN "addressed" ELSE "raw", at, n)
  /\ IF kind = "none" THEN Reply("unsupported") ELSE Goto("check") /\ sw' = "none"

GetData == \E item \in Items :
  /\ Begin(item, 0, 0)
  /\ IF ~Offered(item) \/ item = "uid"
     THEN Reply(IF Offered(item) THEN "ok" ELSE "unsupported")
     ELSE Goto("get") /\ sw' = "none"

(* Le = 0: as much as the tag has from there, or 256 bytes *)
Remaining(t) ==
  LET start == IF t \in Tags2 THEN Cc ELSE 0
      size  == IF t \in Tags2 THEN 1 + Area[t] ELSE CcBlocks[t] + Area[t]
      left  == start + size - req.at
  IN IF t \notin ReadOpen \/ req.at < start \/ left <= 0 THEN LeMax ELSE LesserOf(left, LeMax)

SizeLe ==
  /\ pc = "remaining" /\ Goto("check")
  /\ \/ /\ InfoFrom # None /\ req' = [req EXCEPT !.n = Remaining(InfoFrom)]
        /\ UNCHANGED awake
     \/ /\ Fails /\ req' = [req EXCEPT !.n = LeMax]
  /\ UNCHANGED <<field, swaps, mem, known, caps, abort, info, i, attempt, answer, verified, sw>>

-----------------------------------------------------------------------------
(* The checks against the tag's storage information *)

Permitted(t, last) ==
  IF req.op = "update"
  THEN IF t \notin WriteOpen THEN "denied"
       ELSE IF NewCc(t, req.at, req.n) \/ WriteSpan(t, last, req.at, req.n)
            THEN "write" ELSE "wrong"
  ELSE IF t \notin ReadOpen THEN "denied"
       ELSE IF ReadSpan(t, last, req.at, req.n)
            THEN IF req.op = "read" THEN "read" ELSE "raw" ELSE "wrong"

Check ==
  /\ pc = "check" /\ UNCHANGED <<field, swaps, mem, known, caps, abort, req, i, attempt, answer, verified>>
  /\ \/ /\ InfoFrom # None /\ UNCHANGED awake
        /\ \E n \in InfoOf(InfoFrom) :
             /\ info' = n
             /\ LET next == Permitted(n.of, n.last)
                IN \/ /\ next \in {"denied", "wrong"} /\ Reply(next)
                   \/ /\ next \notin {"denied", "wrong"} /\ Goto(next) /\ UNCHANGED sw
                   \/ /\ next = "write" /\ NewCc(n.of, req.at, req.n)
                      /\ Reply("wrong")  \* the new CC is not valid
     \/ /\ Fails /\ UNCHANGED info /\ Reply("unsupported")

-----------------------------------------------------------------------------
(* Reading *)

Left == req.n - Len(answer)
NextAt == req.at + Len(answer)
Run(t, n) == [k \in 1..n |-> <<t, NextAt + k - 1>>]
Takes(t, n) == /\ answer' = answer \o Run(t, n)
               /\ IF n = Left THEN Reply("ok") ELSE Goto("read") /\ UNCHANGED sw

(* A read that fails ends the answer; one without data is an error *)
Stops == IF answer = << >> THEN Reply("failed") ELSE Reply("ok")

(* The cache is refreshed when the UID has changed *)
Allowed(cache, uid) == IF cache.of = uid THEN cache ELSE [of |-> uid, off |-> FALSE]

FastWanted == /\ req.op = "read" /\ kind = "type2" /\ answer = << >>
              /\ req.n >= ReadPages /\ attempt = 0

(* FAST_READ is tried once, before anything else was read.  Without an      *)
(* answer the tag is activated again, and FAST_READ is off.                 *)
FastRead ==
  LET cache == Allowed(fastOff, uid14)
  IN /\ pc = "read" /\ FastWanted /\ ~cache.off /\ uid14 \in Nxp
     /\ attempt' = 1 /\ UNCHANGED <<field, swaps, mem, kind, uid15, multipleOff, abort, req, info, i, verified>>
     /\ \/ /\ Answers /\ fastOff' = cache /\ Takes(awake, req.n) /\ UNCHANGED <<awake, uid14>>
        \/ /\ Activated \/ NotActivated
           /\ fastOff' = [cache EXCEPT !.off = TRUE]
           /\ Goto("read") /\ UNCHANGED <<answer, sw>>

NoFastRead ==
  LET cache == Allowed(fastOff, uid14)
  IN /\ pc = "read" /\ FastWanted /\ (cache.off \/ uid14 \notin Nxp)
     /\ fastOff' = cache /\ attempt' = 1
     /\ UNCHANGED <<tag, known, multipleOff, abort, pc, req, info, i, answer, verified, sw>>

Read_ActivatesAgain ==
  /\ pc = "read" /\ kind = "type2" /\ ~FastWanted
  /\ UNCHANGED <<field, swaps, mem, kind, uid15, caps, abort, req, info, i, attempt, verified>>
  /\ \/ /\ Answers /\ Takes(awake, LesserOf(Left, ReadPages)) /\ UNCHANGED <<awake, uid14>>
     \/ /\ Fails /\ Stops /\ UNCHANGED <<answer, uid14>>
     \/ /\ Activated /\ UNCHANGED <<pc, answer, sw>>

Read ==
  /\ pc = "read" /\ kind = "type2" /\ ~FastWanted
  /\ UNCHANGED <<field, swaps, mem, known, caps, abort, req, info, i, attempt, verified>>
  /\ \/ /\ Answers /\ Takes(awake, LesserOf(Left, ReadPages)) /\ UNCHANGED awake
     \/ /\ Fails /\ Stops /\ UNCHANGED answer

(* READ MULTIPLE while the tag takes it, else one block.  The block that    *)
(* follows a failed READ MULTIPLE is read without asking again.             *)
ReadBlocks ==
  LET cache == Allowed(multipleOff, uid15)
      multiple == Left > 1 /\ ~cache.off
  IN /\ pc = "read" /\ kind = "type5"
     /\ UNCHANGED <<tag, known, fastOff, abort, req, info, i, attempt, verified>>
     /\ \/ /\ multiple /\ Reached /\ multipleOff' = cache
           /\ Takes(uid15, LesserOf(Left, MultipleMax))
        \/ /\ multiple /\ multipleOff' = [cache EXCEPT !.off = TRUE]
           /\ UNCHANGED <<pc, answer, sw>>
        \/ /\ ~multiple /\ multipleOff' = IF Left > 1 THEN cache ELSE multipleOff
           /\ \/ Reached /\ Takes(uid15, 1)
              \/ Stops /\ UNCHANGED answer

(* A raw read goes out as the host sent it: to the activated Type 2 tag, to *)
(* the Type 5 tag it names, or to whichever Type 5 tag there is             *)
RawSent ==
  /\ pc = "raw" /\ UNCHANGED <<field, swaps, mem, known, caps, abort, req, info, i, attempt, verified>>
  /\ \/ /\ kind = "type2" /\ Answers /\ Takes(awake, Left) /\ UNCHANGED awake
     \/ /\ kind = "type5" /\ IF req.op = "addressed" THEN Reached ELSE field \in Tags5
        /\ Takes(field, Left) /\ UNCHANGED awake
     \/ /\ Fails /\ Reply("failed") /\ UNCHANGED answer

(* GET DATA.  A tag that does not answer GET_VERSION is activated again; one *)
(* that answers and is not an NTAG21x is not.                               *)
GetStep ==
  LET step == Steps(req.op)[i]
      from == IF step = "info5" THEN IF Reached THEN uid15 ELSE None ELSE awake
  IN /\ pc = "get"
     /\ UNCHANGED <<field, swaps, mem, kind, uid15, caps, abort, req, info, attempt, verified>>
     /\ \/ /\ from # None /\ (step = "info2" => uid14 # None)
           /\ answer' = Append(answer, <<from, i>>)
           /\ IF i = Len(Steps(req.op)) THEN Reply("ok") /\ UNCHANGED i
              ELSE Goto("get") /\ i' = i + 1 /\ UNCHANGED sw
           /\ UNCHANGED <<awake, uid14>>
        \/ /\ Reply("unsupported") /\ UNCHANGED <<i, answer>>
           /\ \/ step = "version" /\ (Activated \/ NotActivated)
              \/ step # "version" /\ Fails /\ UNCHANGED uid14
              \/ step = "version" /\ UNCHANGED <<awake, uid14>>

-----------------------------------------------------------------------------
(* Writing *)

At == req.at + i - 1
Writes(t) == mem' \in {[mem EXCEPT ![t][At] = c] : c \in {i, mem[t][At], Torn}}
Stores(t) == mem' = [mem EXCEPT ![t][At] = i]

(* An abort is looked for before each unit, not within one *)
AbortSeen ==
  /\ pc = "write" /\ attempt = 0 /\ abort /\ Reply("failed")
  /\ UNCHANGED <<tag, known, caps, abort, req, info, i, attempt, answer, verified>>

(* reader_tags_ntag_write_page: what is stored does not depend on whether   *)
(* its acknowledgement arrives, which is not asked                          *)
WritePage ==
  /\ pc = "write" /\ kind = "type2" /\ (attempt = 0 => ~abort)
  /\ Goto("verify")
  /\ \/ Answers /\ Stores(awake) /\ UNCHANGED awake
     \/ Fails /\ IF Answers THEN Writes(awake) ELSE UNCHANGED mem
  /\ UNCHANGED <<field, swaps, known, caps, abort, req, info, i, attempt, answer, verified, sw>>

NextUnit(t) == /\ verified' = Append(verified, t) /\ attempt' = 0
               /\ IF i = req.n THEN Reply("ok") /\ UNCHANGED i
                  ELSE Goto("write") /\ i' = i + 1 /\ UNCHANGED sw

(* Another attempt begins with an activation; one that fails counts as one. *)
Again == IF attempt + 1 < Attempts
         THEN attempt' = attempt + 1 /\ Goto("wake") /\ UNCHANGED sw
         ELSE UNCHANGED attempt /\ Reply("failed")

VerifyPage_AnyPage ==
  /\ pc = "verify" /\ kind = "type2"
  /\ UNCHANGED <<field, swaps, mem, known, caps, abort, req, info, answer>>
  /\ \/ Answers /\ NextUnit(awake) /\ UNCHANGED awake
     \/ Fails /\ Again /\ UNCHANGED <<i, verified>>

VerifyPage ==
  /\ pc = "verify" /\ kind = "type2"
  /\ UNCHANGED <<field, swaps, mem, known, caps, abort, req, info, answer>>
  /\ \/ Answers /\ mem[awake][At] = i /\ NextUnit(awake) /\ UNCHANGED awake
     \/ Fails /\ Again /\ UNCHANGED <<i, verified>>

WakeForRetry_NoLimit ==
  /\ pc = "wake"
  /\ \/ Activated /\ Goto("write") /\ UNCHANGED <<attempt, sw>>
     \/ NotActivated /\ attempt' = attempt + 1 /\ UNCHANGED <<pc, sw>>
  /\ UNCHANGED <<field, swaps, mem, kind, uid15, caps, abort, req, info, i, answer, verified>>

WakeForRetry ==
  /\ pc = "wake"
  /\ \/ Activated /\ Goto("write") /\ UNCHANGED <<attempt, sw>>
     \/ NotActivated /\ Again
  /\ UNCHANGED <<field, swaps, mem, kind, uid15, caps, abort, req, info, i, answer, verified>>

(* reader_tags_iso15693_user_write: the short command, and the extended one *)
(* when no positive answer arrives                                          *)
WriteBlock ==
  /\ pc = "write" /\ kind = "type5" /\ (attempt = 0 => ~abort)
  /\ \/ /\ Reached /\ Stores(uid15) /\ Goto("verify") /\ UNCHANGED <<attempt, sw>>
     \/ /\ IF Reached THEN Writes(uid15) ELSE UNCHANGED mem
        /\ IF attempt = 0 THEN attempt' = 1 /\ Goto("write") /\ UNCHANGED sw
           ELSE UNCHANGED attempt /\ Reply("failed")
  /\ UNCHANGED <<field, swaps, awake, known, caps, abort, req, info, i, answer, verified>>

VerifyBlock ==
  /\ pc = "verify" /\ kind = "type5"
  /\ \/ Reached /\ mem[uid15][At] = i /\ NextUnit(uid15)
     \/ Reply("failed") /\ UNCHANGED <<i, attempt, verified>>
  /\ UNCHANGED <<tag, known, caps, abort, req, info, answer>>

-----------------------------------------------------------------------------
Next ==
  \/ Swap \/ Detect \/ Abort
  \/ ReadBinary \/ UpdateBinary \/ RawRead \/ GetData \/ SizeLe \/ Check
  \/ FastRead \/ NoFastRead \/ Read \/ ReadBlocks \/ RawSent \/ GetStep
  \/ AbortSeen \/ WritePage \/ VerifyPage \/ WakeForRetry
  \/ WriteBlock \/ VerifyBlock

Spec == Init /\ [][Next]_vars

-----------------------------------------------------------------------------
(* The places and what they come with: an attempt is one of Attempts, a     *)
(* unit one of the command's, a tag that is activated is on the reader.     *)
TypeOK ==
  /\ field \in Tags \cup {None} /\ swaps \in 0..SwapMax
  /\ awake \in Tags2 \cup {None} /\ (awake # None => awake = field)
  /\ mem \in [Tags -> [Unit -> {Torn} \cup 0..LcMax]]
  /\ kind \in {"none", "type2", "type5"}
  /\ uid14 \in Tags2 \cup {None} /\ uid15 \in Tags5 \cup {None}
  /\ fastOff \in [of : Tags2 \cup {None}, off : BOOLEAN]
  /\ multipleOff \in [of : Tags5 \cup {None}, off : BOOLEAN]
  /\ abort \in BOOLEAN
  /\ pc \in {"idle", "remaining", "check", "read", "raw", "get", "write", "verify", "wake"}
  /\ req.op \in Items \cup {"none", "read", "update", "raw", "addressed"}
  /\ i \in 0..(LcMax + 1) /\ (pc = "write" => i <= req.n)
  /\ attempt \in 0..(Attempts - 1)
  /\ sw \in {"none", "ok", "unsupported", "denied", "wrong", "failed"}

(* A host that is told 9000 after UPDATE BINARY has every unit on a tag     *)
(* that read it back.  Told anything else, what it sent is there up to some *)
(* unit, that unit may be torn, and nothing of it is anywhere else.  Of the *)
(* tag that was checked only the data area is written, or the CC of a       *)
(* Type 5 tag.  reader_ccid_handle_update_binary_apdu and    *)
(* reader_tags_type2_write_page, through every lost write, answer and       *)
(* activation, aborts, and another tag put in the middle.                   *)
UpdateInOrder ==
  /\ \A t \in Tags, u \in Unit : mem[t][u] # 0 =>
       /\ req.op = "update" /\ u \in req.at..At
       /\ mem[t][u] # Torn => u = req.at + mem[t][u] - 1
       /\ t = info.of => \/ u >= First(t) /\ u <= info.last
                         \/ NewCc(t, req.at, req.n)
  /\ \A k \in 1..Len(verified) : mem[verified[k]][req.at + k - 1] = k
  /\ req.op = "update" /\ sw = "ok" => Len(verified) = req.n

(* An answer is what one tag held: no command puts together what it read    *)
(* from two, though a failed FAST_READ or GET_VERSION activates whichever   *)
(* tag is there (reader_tags_type2_read_binary, the GET DATA items of more  *)
(* than one exchange).                                                      *)
AnswerFromOneTag ==
  \A j, k \in 1..Len(answer) : /\ answer[j][1] = answer[k][1]
                               /\ answer[j][2] - answer[k][2] = j - k
================================================================================
