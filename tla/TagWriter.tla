-------------------------------- MODULE TagWriter --------------------------------
(***************************************************************************)
(* The writer: writer_loop polls the antenna and writes the configured     *)
(* message on the tag it finds, once for as long as the tag stays there.   *)
(* A Type 2 and a Type 5 tag get a TLV, unit after unit from its first,    *)
(* which holds the length; a Type 4 tag gets a length of 0, the message    *)
(* and then its length.  A tag may be taken off or exchanged for another   *)
(* between any two exchanges, and any exchange may fail: a command may be  *)
(* lost, carried out without its answer, or cut off half-way.  A Type 2    *)
(* tag is spoken to without an address: whichever is activated answers.    *)
(*                                                                         *)
(* A message is the number of the command that configured it, 0 if none.   *)
(* A unit holds Old, a message (this unit of it) or Torn.  An UPDATE       *)
(* BINARY of the length alone is all or nothing.  Whether a tag admits the *)
(* message (its CC, its lock, its size) is left open.                      *)
(*                                                                         *)
(* A definition named X_... that nothing refers to is X with a plausible   *)
(* mistake, see IsoDep.                                                    *)
(***************************************************************************)
EXTENDS Integers, FiniteSets

CONSTANTS
  Tags2, Tags4, Tags5,
  Versioned,      \* Type 2 tags that answer GET_VERSION
  Formatted,      \* Type 2 tags whose CC is written already
  None,
  AtSetup,        \* what may be on the antenna when the writer is set up
  Attempts,       \* NFC_TAG_READER_TYPE2_WRITE_ATTEMPTS
  StableSamples,  \* WRITER_APP_REMOVAL_STABLE_SAMPLES
  Units,          \* units of a TLV, UPDATE BINARY commands of a message
  NoiseMax,       \* bound: wrong samples of the amplitude in a row
  SwapMax,        \* bound: how often the tag on the antenna changes
  MessageMax      \* bound: how often a message is configured

Tags == Tags2 \cup Tags4 \cup Tags5

ASSUME WriterTagsAssumption ==
  /\ Tags2 \cap Tags4 = {} /\ Tags2 \cap Tags5 = {} /\ Tags4 \cap Tags5 = {}
  /\ None \notin Tags /\ AtSetup \subseteq Tags \cup {None}
  /\ Versioned \cup Formatted \subseteq Tags2
ASSUME WriterBoundsAssumption ==
  /\ {Attempts, StableSamples, Units} \subseteq Nat \ {0}
  /\ {NoiseMax, SwapMax, MessageMax} \subseteq Nat

Old == -1
Torn == -2

VARIABLES
  field,     \* the tag on the antenna
  swaps,     \* how often that has changed
  awake,     \* the ISO 14443-A tag that is activated
  mem,       \* the units of each tag
  nlen,      \* the message whose length a Type 4 tag's NLEN is, 0 or Old
  formatted, \* the Type 2 tags whose CC is written
  baseline,  \* WRITER_APP_BASELINE_AMP: of a "free" or a "loaded" antenna
  noise,     \* wrong samples since the last right one
  written,   \* WRITER_APP_TAG_WRITTEN
  cooling,   \* less than WRITER_APP_SAME_TAG_COOLDOWN_MS since the write
  removed,   \* WRITER_APP_REMOVED_STABLE_SAMPLES
  payload,   \* the message configured
  messages,  \* how many were
  pc,        \* where the writer is
  kind,      \* the type of the tag it works on
  uid15,     \* WRITER_APP_UID15
  message,   \* the TLV or the NDEF message being written
  i,         \* its unit
  attempt,   \* attempts at that unit
  result,    \* what the last attempt came to
  wrote,     \* history: the tag its last unit was put on
  moved,     \* history: the tag has changed since the attempt began
  done       \* history: the tag on the antenna has been written since it is there

antenna == <<field, swaps, noise>>
memory  == <<mem, nlen, formatted>>
loop    == <<baseline, written, cooling, removed>>
config  == <<payload, messages>>
task    == <<kind, uid15, message, i, attempt, wrote>>
vars    == <<antenna, memory, awake, loop, config, task, pc, result, moved, done>>

(* writer_setup: the antenna as it is then counts as a free one *)
Amplitude(f) == IF f = None THEN "free" ELSE "loaded"

Init ==
  /\ field \in AtSetup /\ baseline = Amplitude(field)
  /\ swaps = 0 /\ noise = 0 /\ awake = None
  /\ mem = [t \in Tags |-> [u \in 1..Units |-> Old]]
  /\ nlen = [t \in Tags4 |-> Old] /\ formatted = Formatted
  /\ written = FALSE /\ cooling = FALSE /\ removed = 0
  /\ payload = 0 /\ messages = 0 /\ pc = "idle" /\ kind = "none" /\ uid15 = None
  /\ message = 0 /\ i = 1 /\ attempt = 0 /\ result = "none" /\ wrote = None
  /\ moved = FALSE /\ done = FALSE

-----------------------------------------------------------------------------
(* The antenna, the host and the clock *)

Swap ==
  /\ swaps < SwapMax /\ field' \in (Tags \cup {None}) \ {field}
  /\ swaps' = swaps + 1 /\ awake' = None
  /\ moved' = (moved \/ pc # "idle") /\ done' = FALSE
  /\ UNCHANGED <<noise, memory, loop, config, task, pc, result>>

(* A line of writer_serial_cli_poll: another message, or one that does not  *)
(* encode                                                                   *)
Configure ==
  /\ pc = "idle" /\ messages < MessageMax /\ messages' = messages + 1
  /\ payload' \in {0, messages'}
  /\ UNCHANGED <<antenna, memory, awake, loop, task, pc, result, moved, done>>

Cooled == /\ cooling /\ cooling' = FALSE
          /\ UNCHANGED <<antenna, memory, awake, baseline, written, removed, config, task, pc, result, moved, done>>

-----------------------------------------------------------------------------
(* writer_loop *)

(* A sample of the amplitude, right or wrong *)
Samples(amp) ==
  \/ amp = Amplitude(field) /\ noise' = 0
  \/ amp # Amplitude(field) /\ noise < NoiseMax /\ noise' = noise + 1

(* load > WRITER_APP_COUPLING_APPROACH *)
Near(amp) == baseline = "free" /\ amp = "loaded"

AwaitRemoval_KeepsCount ==
  /\ pc = "idle" /\ written /\ ~cooling
  /\ \E amp \in {"free", "loaded"} :
       LET n == IF Near(amp) THEN removed ELSE removed + 1
       IN /\ Samples(amp)
          /\ IF n = StableSamples
             THEN written' = FALSE /\ baseline' = amp /\ removed' = 0
             ELSE removed' = n /\ UNCHANGED <<written, baseline>>
  /\ UNCHANGED <<field, swaps, memory, awake, cooling, config, task, pc, result, moved, done>>

(* Nothing is written before the antenna has looked free often enough *)
AwaitRemoval ==
  /\ pc = "idle" /\ written /\ ~cooling
  /\ \E amp \in {"free", "loaded"} :
       LET n == IF Near(amp) THEN 0 ELSE removed + 1
       IN /\ Samples(amp)
          /\ IF n = StableSamples
             THEN written' = FALSE /\ baseline' = amp /\ removed' = 0
             ELSE removed' = n /\ UNCHANGED <<written, baseline>>
  /\ UNCHANGED <<field, swaps, memory, awake, cooling, config, task, pc, result, moved, done>>

(* try_one_tag: ISO 14443-A first, then ISO 15693.  The TLV is built from   *)
(* the payload as it is now.                                                *)
Starts(k, p) ==
  /\ kind' = k /\ pc' = p /\ message' = payload /\ i' = 1 /\ attempt' = 0
  /\ result' = "none" /\ wrote' = None /\ moved' = FALSE

TryOneTag ==
  /\ pc = "idle" /\ ~written /\ payload # 0
  /\ \/ /\ field \in Tags2 /\ awake' = field
        /\ Starts("type2", "version") /\ UNCHANGED uid15
     \/ /\ field \in Tags4 /\ awake' = field
        /\ Starts("type4", "open") /\ UNCHANGED uid15
     \/ /\ field \in Tags5 /\ uid15' = field /\ awake' = None
        /\ Starts("type5", "inspect5")
  /\ UNCHANGED <<antenna, memory, loop, config, done>>

(* writer_finish_write_attempt *)
Finish(ok) ==
  /\ pc' = "idle"
  /\ result' = IF ok THEN "ok" ELSE "failed"
  /\ IF ok THEN written' = TRUE /\ cooling' = TRUE /\ removed' = 0 /\ done' = (field # None)
           ELSE UNCHANGED <<written, cooling, removed, done>>
  /\ UNCHANGED baseline
Goes(p) == pc' = p /\ UNCHANGED <<loop, result, done>>

-----------------------------------------------------------------------------
(* The exchanges *)

(* A tag answers to its UID, or when it is awake and of the type spoken to *)
Reached == \/ kind = "type5" /\ field = uid15
           \/ kind = "type4" /\ field \in Tags4 /\ awake = field
           \/ kind \in {"type2", "ntag", "st25tn"} /\ field \in Tags2 /\ awake = field

(* writer_rf_activate_iso14443a: whichever tag is there *)
Activated == field \in Tags2 \cup Tags4 /\ awake' = field

(* A unit is stored, or not, or cut off *)
Stores(u) == mem' = [mem EXCEPT ![field][i] = u]
MayStore == \/ UNCHANGED mem
            \/ Reached /\ \E u \in {message, Torn} : Stores(u)

-----------------------------------------------------------------------------
(* Type 2 *)

(* writer_tag_write_identify_type2_family *)
TryGetVersion ==
  /\ pc = "version"
  /\ \/ Reached /\ field \in Versioned /\ kind' = "ntag" /\ Goes("inspect2")
     \/ Goes("reactivate") /\ UNCHANGED kind
  /\ UNCHANGED <<antenna, memory, awake, config, uid15, message, i, attempt, wrote, moved>>

(* Without a version it is an ST25TN, with its CC, or nothing to write on *)
Reactivate ==
  /\ pc = "reactivate"
  /\ \/ Activated /\ field \in formatted \ Versioned /\ kind' = "st25tn" /\ Goes("inspect2")
     \/ Goes("idle") /\ UNCHANGED <<awake, kind>>
  /\ UNCHANGED <<antenna, memory, config, uid15, message, i, attempt, wrote, moved>>

(* writer_collect_type2_info: an NTAG whose signature was not read is       *)
(* activated again.  Nothing it reads has to be there.                      *)
Inspect2 ==
  /\ pc = "inspect2" /\ Goes("admit2")
  /\ (UNCHANGED awake \/ (kind = "ntag" /\ Activated))
  /\ UNCHANGED <<antenna, memory, config, task, moved>>

(* The tag is locked, has a password, or is too small, or it is none of it *)
Admit2 ==
  /\ pc = "admit2" /\ (Finish(FALSE) \/ Goes("cc"))
  /\ UNCHANGED <<antenna, memory, awake, config, task, moved>>

(* A CC that cannot be read is taken for a blank one *)
ReadCc ==
  /\ pc = "cc"
  /\ \/ Reached /\ field \in formatted /\ Goes("write")
     \/ Goes("format")
  /\ UNCHANGED <<antenna, memory, awake, config, task, moved>>

WriteCc ==
  /\ pc = "format"
  /\ \/ /\ Reached /\ formatted' = formatted \cup {field}
        /\ (Goes("write") \/ Finish(FALSE))
     \/ Finish(FALSE) /\ UNCHANGED formatted
  /\ UNCHANGED <<antenna, mem, nlen, awake, config, task, moved>>

(* writer_type2_write_page, iso15693_write: the answer of the write counts  *)
(* for nothing, the page read back decides                                  *)
WriteUnit ==
  /\ pc = "write" /\ MayStore /\ Goes("verify")
  /\ UNCHANGED <<antenna, nlen, formatted, awake, config, task, moved>>

NextUnit ==
  /\ wrote' = field /\ attempt' = 0
  /\ IF i = Units THEN Finish(TRUE) /\ UNCHANGED i
                  ELSE Goes("write") /\ i' = i + 1

(* A Type 5 block is not tried again; a Type 2 page after an activation     *)
Again ==
  /\ UNCHANGED <<i, wrote>> /\ attempt' = attempt + 1
  /\ IF kind = "type5" \/ attempt' = Attempts THEN Finish(FALSE) ELSE Goes("wake")

VerifyUnit_AnyContent ==
  /\ pc = "verify" /\ (Again \/ (Reached /\ NextUnit))
  /\ UNCHANGED <<antenna, memory, awake, config, kind, uid15, message, moved>>

VerifyUnit ==
  /\ pc = "verify" /\ (Again \/ (Reached /\ mem[field][i] = message /\ NextUnit))
  /\ UNCHANGED <<antenna, memory, awake, config, kind, uid15, message, moved>>

WakeForRetry ==
  /\ pc = "wake"
  /\ \/ Activated /\ Goes("write") /\ UNCHANGED <<attempt, i, wrote>>
     \/ UNCHANGED awake /\ Again
  /\ UNCHANGED <<antenna, memory, config, kind, uid15, message, moved>>

-----------------------------------------------------------------------------
(* Type 5: the system information and the CC.  Only the memory that takes   *)
(* the message is kept, not the CC.                                         *)
Inspect5 ==
  /\ pc = "inspect5" /\ (Finish(FALSE) \/ Goes("admit5"))
  /\ UNCHANGED <<antenna, memory, awake, config, task, moved>>

Admit5 ==
  /\ pc = "admit5" /\ (Finish(FALSE) \/ Goes("write") \/ Goes("cc5"))
  /\ UNCHANGED <<antenna, memory, awake, config, task, moved>>

WriteCc5 ==
  /\ pc = "cc5" /\ (Finish(FALSE) \/ (Reached /\ Goes("write")))
  /\ UNCHANGED <<antenna, memory, awake, config, task, moved>>

-----------------------------------------------------------------------------
(* Type 4: an exchange that fails ends the attempt, in whatever state it    *)
(* leaves the card.                                                         *)
Exchange4(p, q) ==
  /\ pc = p /\ (Finish(FALSE) \/ (Reached /\ Goes(q)))
  /\ UNCHANGED <<antenna, memory, awake, config, task, moved>>

Open              == Exchange4("open", "application")
SelectApplication == Exchange4("application", "capabilities")
ReadCapabilities  == Exchange4("capabilities", "file")
SelectFile        == Exchange4("file", "clear")

SetsLength(n) == Reached /\ nlen' = [nlen EXCEPT ![field] = n]

ClearLength_GoesOn ==
  /\ pc = "clear" /\ Goes("chunk")
  /\ (SetsLength(0) \/ UNCHANGED nlen)
  /\ UNCHANGED <<antenna, mem, formatted, awake, config, task, moved>>

ClearLength ==
  /\ pc = "clear"
  /\ \/ SetsLength(0) /\ (Goes("chunk") \/ Finish(FALSE))
     \/ UNCHANGED nlen /\ Finish(FALSE)
  /\ UNCHANGED <<antenna, mem, formatted, awake, config, task, moved>>

WriteChunk ==
  /\ pc = "chunk"
  /\ \/ /\ Reached /\ Stores(message)
        /\ IF i = Units THEN Goes("length") /\ UNCHANGED i ELSE Goes("chunk") /\ i' = i + 1
     \/ MayStore /\ Finish(FALSE) /\ UNCHANGED i
  /\ UNCHANGED <<antenna, nlen, formatted, awake, config, kind, uid15, message, attempt, wrote, moved>>

FinalLength ==
  /\ pc = "length"
  /\ \/ SetsLength(message) /\ (Finish(TRUE) \/ Finish(FALSE))
     \/ UNCHANGED nlen /\ Finish(FALSE)
  /\ wrote' = field
  /\ UNCHANGED <<antenna, mem, formatted, awake, config, kind, uid15, message, i, attempt, moved>>

-----------------------------------------------------------------------------
Write2 == TryGetVersion \/ Reactivate \/ Inspect2 \/ Admit2 \/ ReadCc \/ WriteCc \/ WakeForRetry
Write4 == Open \/ SelectApplication \/ ReadCapabilities \/ SelectFile \/ ClearLength \/ WriteChunk \/ FinalLength
Write5 == Inspect5 \/ Admit5 \/ WriteCc5
Next == \/ Swap \/ Configure \/ Cooled \/ AwaitRemoval \/ TryOneTag
        \/ Write2 \/ Write4 \/ Write5 \/ WriteUnit \/ VerifyUnit

Spec == Init /\ [][Next]_vars

-----------------------------------------------------------------------------
(* Whatever fails and whenever the tag is taken off, the length a Type 4    *)
(* card shows is that of the message it holds, all of it: its old one until *)
(* its length is cleared, none until the new length is set ("marks file     *)
(* invalid during write", writer_tag_write_type4.c:333).                    *)
LengthTellsMessage ==
  \A t \in Tags4 : \A u \in 1..Units : nlen[t] # 0 => mem[t][u] = nlen[t]

(* When an attempt is reported as a success the tag it ended on holds the   *)
(* whole message.  A Type 2 tag exchanged for another half-way is the       *)
(* exception the code leaves open: the rest goes to the second one.         *)
SuccessIsWhole ==
  result = "ok" /\ (kind \in {"type4", "type5"} \/ ~moved)
    => \A u \in 1..Units : mem[wrote][u] = message

(* A tag that has been written is left alone for as long as it stays on the *)
(* antenna (writer_app.c:519), unless it was there when the writer started. *)
OneWritePerPlacement == pc # "idle" => ~done
==================================================================================
