# Verification of the Nero NFC reader firmware

TLA+ modules, TLC configurations and TLAPS proofs kept beside
`neroduality/nero-nfc-reader-firmware`. Paths below are relative to
`firmware/libraries/NeroNfc/src/` unless they start elsewhere.

## 1. The system

The firmware turns a microcontroller board with an ST25R3916 radio into a USB
CCID smart-card reader (and, in other builds, into a serial tag reader and tag
writer). There is one thread. `reader_loop` runs forever: it serves at most one
CCID command, then looks at the radio field. `tud_task`, and with it every USB
callback, runs only where the code waits: between loop iterations and inside
each send to the host. So what interleaves is the host, the user's hand with
the tag, the clock, and the few places where one command waits.

| # | component | state it keeps | operations | talks to |
|---|---|---|---|---|
| 1 | USB CCID transport (`usb/`) | reassembly buffer, pending frame, armed flag, abort latch | packet and control callbacks, bus reset, peek/release, send, notify | 2 (frames, abort), host |
| 2 | CCID dispatcher and session (`reader/reader_ccid*.c`, `protocol/nfc_ccid_frame.c`) | card present, kind, session flags, owner, response and command chains, deferred removal, time-extension callback | one handler per bulk command, `on_tag_detected`, `on_tag_removed_from_field`, `poll` | 1, 3, 4, 5, 6 |
| 3 | Main loop (`reader/reader_app.c`, `app/`, `core/nero_nfc_app.c`, `protocol/nfc_mode_line_scan.c`) | last UID, miss counter, probe timers, runtime mode, serial ring | `reader_loop`, `reader_ccid_loop_step`, setup, mode scan | 2, 7, 8 |
| 4 | Storage and PN53x APDUs (`reader_ccid_storage.c`, `reader_ccid_pn53x.c`) | none of its own (tag geometry cached in 7) | READ/UPDATE BINARY, GET DATA, direct transmit | 2, 5, 7 |
| 5 | ISO-DEP link (`reader_security_key_iso_dep_*.c`, `reader_iso_dep_*.h`) | block number, FSC/FWT, session open, heartbeat clock | RATS, transceive, chaining, WTX, DESELECT, recovery | 2, 6, 8 |
| 6 | Security-key relay, CTAP and CBOR codecs | selected applet | SELECT with recovery, exchange with one retry | 2, 5 |
| 7 | Tag layer and NDEF | tag geometry, lock state | Type 2/4/5 read, write, NDEF decode | 4, 8 |
| 8 | ST25R3916 front end | radio mode, FIFO | exchanges with timeouts | radio |
| 9 | Tag writer (`writer/`) | payload, CLI line, write progress | Type 2/4/5 NDEF writes, serial CLI | 7, 8 |
| 10 | Core utilities, ports, board runtime | — | bounds-checked copies, formatting, pins | all |
| 11 | Userspace tools (`userspace/`) | PC/SC handles | connect with retry, NDEF read and write over PC/SC | 2 through pcscd |

What is hard, and what makes each part correct:

* **1** A frame arrives as packets of unknown framing; a malformed one must not
  be taken for, or spliced into, a good one; the buffer handed to the
  dispatcher must not be overwritten before it is released; the endpoint must
  be armed again in every state that waits for the host.
* **2** Flags that must agree are reset on five paths; chains of both
  directions survive across commands and must not survive the session; an
  abort comes on two endpoints in either order; a removal may be deferred and
  race the next command, the next tag and the deadline; time extensions must
  speak for the running command only. A slot change that does not reach the host
  is not sent again.
* **3** Presence is inferred from noisy probes (misses, UID comparison, field
  load) and must agree with what the slot reports; probing must not disturb a
  FIDO session.
  In serial mode, bytes of the host pass through a ring, a scanner and a command
  line that each see them at another time.
* **4, 9** Multi-page writes stop half-way; what remains on the tag matters. A
  Type 2 tag is not addressed: whichever is activated answers. The writer must
  write a tag once, though it infers removal from samples of an amplitude.
* **5, 6** Lost and repeated blocks, waiting-time extensions, recovery that
  reopens the session and repeats an APDU which may have been executed.
* **7, 9, 11** Three programs compute the capacity and the layout of a tag, each
  with its own caps and rounding, and three encode or decode the same records;
  they must agree.
* **11** Connect and transmit retries against a service that notices late, or not
  at all, that a card has gone or was exchanged.

The same hazards, at their lines, are the `hazards` of `PROJECT.json`.

## 2. Modules

| module | what it is |
|---|---|
| `CcidSlot` | abstract specification: what a CCID slot promises its host |
| `CcidSession` | component 2 with the part of 3 that drives it; refines `CcidSlot` |
| `MCCcidSession` | TLC instance of `CcidSession` |
| `CcidSession_proofs` | the theorems about `CcidSession` |
| `CcidUsb` | what both directions of component 1 have in common |
| `CcidUsbRx`, `MCCcidUsbRx` | component 1, inbound: packets, reassembly, the frame buffer; its TLC instance |
| `CcidUsbTx`, `MCCcidUsbTx` | component 1, outbound: the packets of a message and the host's reads; its TLC instance |
| `CcidUsb_proofs` | the theorems about both |
| `ApduExchange` | abstract specification: what the ISO-DEP link promises for each APDU |
| `IsoDep` | the block protocol of component 5 against a card and a lossy radio; refines `ApduExchange` |
| `MCIsoDep`, `IsoDep_proofs` | its TLC instance and its theorems |
| `SecurityKeyRelay` | component 6 and the opening and recovery of sessions of 5, over `ApduExchange` |
| `SecurityKeyRelay_proofs` | the theorems about `SecurityKeyRelay` |
| `StorageAccess`, `MCStorageAccess` | component 4 with the exchanges of 7, against tags that are exchanged at any time |
| `StorageAccess_proofs` | the theorems about `StorageAccess` |
| `TagWriter` | component 9: the loop, the detection of removal, every exchange of a write |
| `TagWriter_proofs` | the theorems about `TagWriter` |
| `PcscClient` | component 11: the two PC/SC tools against the service, the readers and the tags |
| `PcscClient_proofs` | the theorems about `PcscClient` |
| `NdefMessage` | pure: encoders of the writer and of the host's tool, TLVs, the decoders of both readers |
| `TagGeometry` | pure: where a message goes on a Type 2, 4 or 5 tag and how much of it is read, for the firmware's writer and reader and for the host's tool |
| `Console` | components 3 and 9 in serial mode: ring, mode scanner, writer's command line |
| `WriteBack`, `MCWriteBack` | `Console` composed with the two pure modules: from a typed line to the printed record |
| `WriteBack_proofs` | the theorems about `WriteBack` and the modules it is composed of |

The modules meet at the frame: what `CcidUsbRx` promises of a frame the
dispatcher accepts (one whole command of the host, taken once) is what
`CcidSession` assumes when its host action hands it a command, and a message in
its `out` is one `Send` of `CcidUsbTx`. They are checked apart because nothing
else passes between them except the abort latch, which `CcidSession` has. An
exchange of `IsoDep` happens inside one dispatched APDU of `CcidSession`: there it
is an outcome, with heartbeats while it runs; `IsoDep` sees of the session only
that an abort is pending.

In every module a definition named `X_...` that nothing refers to is `X` with a
plausible mistake; put in its place it makes the property fail that
`PROJECT.json` lists with it (`mutants`).

### CcidSession: correspondence with the code

| variable | code |
|---|---|
| `cardPresent`, `tagKind`, `sess`, `isoOpen`, `fidoApp` | `G_CARD_PRESENT`, `G_TAG_KIND`, `G_SESS`, `G_ISO_SESSION_OPEN`, `G_TYPE4_SECURITY_KEY_APP` |
| `owner` | `nfc_session_owner_get()` (only CCID takes it in this build) |
| `removeDeferred`, `until`, `now` | `G_REMOVE_DEFERRED`, `G_REMOVE_DEFER_UNTIL_MS`, `reader_hal_millis()` modulo `ClockMod` |
| `rspChain` | `G_CCID_CHAIN_ACTIVE/LEN/OFF`, in bulk messages of `NFC_CCID_RSP_DATA_CAP` bytes |
| `cmdChain` | `G_CCID_CMD_CHAIN_ACTIVE/LEN/BUF`, in payloads |
| `te` | the callback installed by `reader_ccid_begin_time_extension`, with `G_CCID_TIME_EXTENSION_SEQ` |
| `abort` | `s_abort_request_pending/seq` (slot is always 0) |
| `pc`, `cmd` | where `reader_loop` is, and the command it works on |
| `out` | what the last step handed to the USB layer: bulk messages and slot changes, delivered or not |
| `told`, `acked`, `got` | history: last slot change reported if the host was delivered it, else "unknown"; payloads acknowledged since BEGIN; response chunks delivered |

Slot changes may be lost (`Notify`): `reader_hal_ccid_notify_slot_change` returns
without sending when the device is not ready, `notify_send` gives up when the host
leaves the last change in the endpoint for as long as it spins, its result is
ignored and nothing tries again. A change the endpoint still holds counts as
delivered until a bus reset (`BusReset`), after which the host knows nothing. So the
host may hear two arrivals in a row when the departure between them was lost, and
may believe in a card that has left until it sends a command (every bulk reply
carries the slot's status) or the next change gets through. `notify_send` also
clears its buffer before it has the endpoint; the model does not have what that does
to a change still waiting there.

`reader_ccid_handle_bulk` is one action per branch, in the order of the code:
refusals before any state changes, response continuation (served *before* the
abort latch is looked at), clearing of the chains, the latched abort, then the
command. `IccPowerOn` and the dispatch of an APDU are split in two actions,
because the heartbeat sends time extensions while they run and every send lets
USB callbacks in: `ControlAbort`, `Tick` and `Heartbeat` interleave there. All
other handlers are one action, since nothing looks at the latch or the clock
after their own send.

An APDU is a model value; classes say whether it is slow (answered with an
initial time extension) and whether it may select the FIDO application. What a
dispatched APDU yields is nondeterministic (`Outcomes`): number of response
messages, whether host activity was noted, whether FIDO became selected.

### CcidSlot: what it abstracts

Three variables: the slot state, the kind of card, the FIDO selection. A card
whose removal is deferred counts as gone. The refinement mapping is in
`CcidSession` (`slotState`, `slotKind`).

### CcidUsbRx: correspondence with the code

| variable | code |
|---|---|
| `cur`, `sent` | the host: the bulk-OUT transfer it is sending, bytes already taken |
| `isOpen`, `busy` | `s_ep_bulk_out != 0`, `s_bulk_out_busy` |
| `asm` | `s_rx_assembly`; the buffer is described by the slice of a transfer it holds |
| `pending`, `storeLen` | `s_rx_pending`, `s_rx_store_len` |
| `lost`, `doubt`, `yield` | history: a transfer had no end a device can see, the pending frame was assembled since, frames queued for the current transfer |

`Feed` is `ccid_usb_rx_assembly_feed` with its early returns in order;
`TakePacket` is the transfer callback around it. The host declares one length
and sends another, ends full packets with or without a zero-length packet, gives
up between two packets, or resets the bus. What the first bytes of an assembly
*read as* a length is the declared one only at the start of a transfer; further
on it is arbitrary data. `lost` marks the transfers no device could follow: one
that is neither as long as it declares nor ends with a short packet, one that
goes on where its declared frame ends on a packet boundary, and one given up
half-way. The next short packet ends it.

### CcidUsbTx: correspondence with the code

| variable | code |
|---|---|
| `isOpen` | `s_ep_bulk_in != 0` |
| `msg`, `off`, `ending`, `phase` | position in `reader_hal_ccid_send` and `ccid_send_one_chunk` |
| `queued` | the packet in the controller's bulk-IN endpoint |
| `read` | what the host's current read has collected |
| `fault` | history: a send failed or lost its bus since the last completed read |

The alternative path for the answer to GetSlotStatus inside the transfer
callback is compiled out (`NERO_CCID_ENABLE_FASTPATH_SLOT_STATUS` is 0).

### IsoDep: correspondence with the code

| variable | code |
|---|---|
| `pc` | where `reader_security_key_send_i_block` is: not running, in the loop that waits for the R(ACK) of a chained block, in the receive loop |
| `apdu`, `off` | its argument and `apdu_off`, in blocks of `frag_cap` bytes |
| `bn`, `expected`, `retries` | `G_BLOCK_NUM` (`blk_sent` is the same), `expected_block`, `rnak_retries` |
| `resp` | `resp` and `total`, as a slice of an answer |
| `air` | the frame on the air; addressed to the reader, what the last transceive returned |
| `cbn`, `cmd`, `answer`, `todo` | the card: block number, the command so far, its answer, the frame it asked more time for |
| `late`, `abort` | `frame_timeout_ms` has passed since `total_start_ms`; `reader_security_key_ccid_abort_pending()` |
| `sound`, `ran`, `got` | history: no exchange failed since the session was opened, the command the card ran in this exchange, the command whose answer was returned |

Each frame the code can hear is an action (`HearsWtx`, `HearsAck`, `HearsRetry`,
`HearsAnswer`, `HearsOther`), in either loop; each ends with the frame the code
sends next, or with the exchange over. The card is that of ISO/IEC 14443-4 and is
external, as is the radio: a frame to the card may be lost or answered with an
R(NAK) or the old R(ACK), a frame to the reader may be lost. A card may ask for
more time before every answer, for ever. `Reopened` is a whole recovery or opening
(DESELECT, activation, RATS), `ReopenFails` one that failed, with the card reset
or not. Left out: CID and NAD bytes, the choice of the information offset, the
stripping of RF checksums, frames too short to have a header (which the code
treats as a failed exchange, like silence), an empty APDU, which sends nothing,
and the GET RESPONSE loops, which the CCID relay does not use.

### ApduExchange: what it abstracts

One exchange at a time, with the command the card ran and the one whose answer
came back. It is weaker than "exactly once" on purpose: a failed exchange may have
run or not, and the code does not find out. And it promises that the command is
the APDU only while no exchange has failed since the session was opened, because a
card left with half a chained command glues the next one to it; `IsoDep` reaches
that state (see the hazards).

### SecurityKeyRelay: correspondence with the code

| variable | code |
|---|---|
| `field`, `awake`, `up`, `fido` | the card on the reader; activated, in ISO-DEP, its applet selected (external) |
| `uid`, `deselected`, `opened` | `G_UID14` with `G_SAK`, `last_deselect_ms`, `G_ISO_SESSION_OPEN` as the host has it |
| `pc`, `then`, `i` | where `reader_security_key_apdu_exchange`, the SELECT loops and the recovery are; the counter of variants and webauthn steps |
| `apdu`, `rsp`, `reply` | the host's APDU, the response buffer, what the host is answered |
| `sound`, `doing`, `ran`, `got` | `ApduExchange` (`Link`), which `IsoDep` implements |
| `repaired`, `runs` | history: the session was opened again, each run of the APDU by a card |

An exchange is one action of `Link` with a status word; the relay reads nothing
else of an answer. Cards come, go, and answer nothing at any point. Left out:
delays, heartbeats, the CID-less session `select_app_ex` would reopen (no session
the relay uses is one), the CBOR and CTAP codecs.

### StorageAccess and TagWriter: correspondence with the code

Both have one action per exchange with a tag, because that is where a tag may be
taken away: `StorageAccess` for READ and UPDATE BINARY, GET DATA and raw reads of
a CCID host, `TagWriter` for what `writer_loop` does. The caches of UIDs that do
not take FAST_READ and READ MULTIPLE (`fastOff`, `multipleOff`) and the stale
`G_UID14`, `G_UID15` are state; parsing of APDUs is not. A unit of a tag's memory
holds what the model can tell apart: old, a unit of the message, or torn. An
exchange of the writer may be lost, carried out without an answer, or cut off.
`TagWriter` has the amplitude as "free" or "loaded", noise as a bounded number of
wrong samples in a row, and `removed` as `WRITER_APP_REMOVED_STABLE_SAMPLES`.

### PcscClient: correspondence with the code

`RunPcscWriter` and `RunPcscReader` with `WaitForPresentReader`, `Connect`, the
three plans of `PcscWriteConnectedTag`, the verification of a Type 4 write, and
every fallback of a storage command (bulk, unit, byte offset, transparent, and
the retry without an answer), as one program counter. The PC/SC service is
external: `shown` and `lost` are what it believes, which may be late or wrong;
`swapped` is the history of an exchange it never saw.

### NdefMessage, TagGeometry, Console and WriteBack: correspondence with the code

A message is a sequence of *bytes*, each a string: a word ("https://", the name of
a MIME type, an attribute), a number, or a letter. What the code tells apart is
kept: lengths, length fields of one and of three bytes, terminators, the URI
prefix table as far as the lines use it, control characters, percent-encoding.
`BuildNdefMessage` is `build_ndef_message`, `ToolMessage` the records of the host's
writer tool with its flags, `Summaries` what the reader prints
(`print_ndef_record_summary`) and `ShownBy` puts what the host's reader tool
decodes (`DecodeRecordPayload`) next to it.

`TagGeometry` has for each type of tag what the writer writes (`WriteType2`,
`WriteType4`, `WriteType5`), what the reader finds (`ReadType2`, ...) and what the
host's tool does through a CCID reader (`ToolWriteType2`, `ToolReadType2`,
`ToolWriteType5`, `ToolReadType5`): capacity by CC, version, UID or system
information, when the CC is programmed, how far an area is scanned, the pieces of
a Type 4 file. Exchanges succeed here; `TagWriter` and `PcscClient` have those that
do not. The tool needs a valid CC on the tag; the firmware writes one on a blank
tag.

`Console` has a program counter for the main loop, because a byte can arrive
between the poll of the scanner, the look at the ring and the read: `Arrive`
interleaves with `PollModeSwitch`, `Available`, `ReadRing` and `ReadDirect`. The
constant `Late` says whether a byte may arrive between the look and a direct read
(a few instructions); the runs leave it out, see the hazards. In `WriteBack` a turn
of the loop may find a tag, which stays for that turn; `Brought` is a tag that was
written elsewhere, by this writer or by the host's tool.

## 3. Runs

Every bound is a CONSTANT of the cfg.

| run | question | bounds |
|---|---|---|
| `session_safety` | flags, chains, time extension, abort latch and slot changes under all interleavings, slot changes lost at any time; refinement of `CcidSlot`; a deferred removal is completed (`FairSpec`) | 2 storage kinds (so a swap between kinds occurs) and Type 4, 2 bSeqs, 2 APDU classes, command chains of 3 payloads, responses of 3 messages, clock modulo 4, deferral 1 |
| `session_te_before_atr` | the comment on time extensions before the ATR (a finding) | as `session_safety` |
| `usb_rx` | reassembly against every host, ownership of the buffer, arming | packets of 4, header 2, payload up to 7, transfers of 0 to 12 bytes declaring 0, 2, 7 or 8; 2 transfers of each shape |
| `usb_tx` | packets, zero-length packets, timeouts and resets against the host's reads | packets of 3, messages of 2 to 8 bytes, 2 of each |
| `iso_dep` | refinement of `ApduExchange`; every exchange ends | an APDU of 1 block and one of 3, answers of up to 3 blocks, room for 2, 2 retries |
| `relay` | whose answer the host gets, what is run twice, that the relay returns | 2 security keys, one of them with CID, 4 variants of the applet's name, 2 changes of the card |
| `storage` | partial updates, reads that mix two tags | 2 Type 2 tags (one by NXP) and a Type 5 tag, 6 units each, commands of up to 3 units, 3 attempts, 3 changes of the tag |
| `writer` | what a write leaves and reports, one write per placement | 4 tags of the three types (one Type 2 tag with a version, one with a CC), messages of 2 units, 2 attempts, 2 stable samples, 1 wrong sample in a row, 2 messages, 3 changes of the tag |
| `pcsc` | what the writer tool reports; a tag is dealt with once | 4 tags of the three types, one of them worn, one with a message; 2 readers, both watched; messages of 3 units, 2 to a command; 2 moves of a tag, 1 tag lost by the service |
| `write_back` | console to tag to reader | 3 lines or glitches out of 21; ring of 8, line of 11, 24 tags of up to 100 bytes, every message length up to 42 |
| `console_exact_line` | the comment on mode lines (a finding) | 3 lines out of 3 |
| `type5_terminator_byte` | the comment on Type 5 messages (a finding) | a message with FEh, a blank Type 5 tag of 9 blocks |

Why these are enough: two bSeqs are what an abort for *another* command needs;
three response messages give a BEGIN, a MIDDLE and an END; three payloads are
a whole chain with room for a misplaced one, and a fourth overflows; a clock of
four ticks has both signs of the signed difference and wraps. In `usb_rx` a frame
may fill one packet, fill two, end in the third or overflow it, and its declared
length may be right, short, long, or refused; in `usb_tx` messages are shorter than
a packet, exactly one, exactly two, and more. In `iso_dep` an APDU has a first, a
middle and a last block, the numbers come round again, and an answer may fit or
not. The proofs lift these bounds. In `relay`, `storage` and `writer` three changes of
a tag are a removal, another tag, and the first one again; messages of two or three
units have a first, a last and a middle one, so a write can stop before, between and
after them. The sizes of `write_back` are scaled down with the thresholds next to
them (one-byte lengths up to 20, tiers of 3, 4 and 6 units, chunks of 6 blocks), so
that three-byte lengths, caps by version and by UID, groups that end inside a
message and areas that end in half a unit all occur, and the messages go up to what
the largest tag holds. Three lines are what it takes for one to be left half-taken,
one to fail and one to be announced.

**Fairness.** `FairSpec` asks weak fairness of `Firmware` only: the main loop
always has a step to take and never blocks, because radio exchanges and sends
end by their own timeouts. Nothing is asked of the host, the user or the clock.
`CcidUsbRx!FairSpec` asks weak fairness of a poll that leaves the endpoint armed:
`reader_ccid_poll` runs in every iteration, and the claim of an idle endpoint
cannot be refused every time. `IsoDep!FairSpec` asks weak fairness of the reader's
steps (the loops never block), of a transceive returning, which its timeout
guarantees, and of the clock. It asks nothing of the card's answers or of the
radio: `ExchangeEnds` holds against a card that asks for more time for ever.

`SecurityKeyRelay!FairSpec` asks weak fairness of the reader only. The other runs
check safety: `TagWriter` and `PcscClient` stop when the bounds on tags are used up,
so their cfgs allow deadlock, and so does `write_back`'s.

**Findings.** `session_te_before_atr`: the comment at
`reader/reader_ccid_bulk.c:233-234` says that no time extension may be sent
before the ATR, and the handler indeed sends no initial one; but it binds the
callback, and the ISO-DEP heartbeat uses it when activation takes more than two
seconds (field reset, anticollision and three RATS attempts of 400 ms).

`console_exact_line`: `nfc_mode_line_scan.h:45-46` promises lines "matching exactly" a
mode line; but what the scanner pushed back it is fed again on every turn, one byte further on, as
the command line takes them, so the tail of `text mode reader` is a mode line.

`type5_terminator_byte`: `reader/reader_tags_type5.c:196-198` says that it "dumps any
NDEF message found inside the TLV payload"; but a byte FEh inside a message that is
not complete yet ends the reading. The loop of Type 2 tags that are not NTAG21x has
the same scan (`reader_tags_type2.c:172`).

**What `write_back` also shows.** The exceptions in `SuccessIsReadBack` are
disagreements the code states nothing about: a Type 4 tag with a CC file of 255
bytes (24 scaled down) is written and not read, since the reader's buffer has room
for 254; on a Type 5 tag with an even number of blocks, the writer rounds MLEN down
and the end of the largest messages is written and not read by the firmware, while
the host's tool, which goes by the number of blocks, reads it. The tool in turn cuts
its bound on MLEN to eight bits: with 512 data blocks it is 0 and the CC is not
refreshed, so that the firmware does not find a message which the tool finds
(`nero_nfc_pcsc_storage_type5.cpp:510`; scaled down, units are cut at 10, and one of
the tags has 10). Whenever the CC does cover the message, both find it. The search for the
terminator FEh also meets the length byte: no message of 254 bytes, nor of 510 or 766, is
read back from a Type 5 tag, or from a Type 2 tag that is no NTAG21x
(`reader_tags_type5.c:264`, `reader_tags_type2.c:172`; scaled down, the length 20).
And neither writer looks at the area of an 8-byte CC when the tag does not say how many
blocks it has (`writer_tag_write_type5.c:252`, and the tool's `WriteType5StorageNdef`):
the write succeeds beyond the area, where neither reader looks.

`ReaderHearsModeLine` needs a ring with room for what the scanner returns: when a burst
fills the ring while the scanner holds bytes, what it pushes back is lost
(`core/nero_nfc_app.c:339`, `Fits`). With the code's sizes, 128 for the ring and 32 for the
scanner, that takes 97 bytes waiting in one turn. The run's ring of 8 never
loses any with its scanner of 5 and 2 bytes at a time; with a ring of 5 the property is
violated.

## 4. Proofs

`CcidSession_proofs` proves, for every value of the constants allowed by the
four assumptions of `CcidSession` (distinct kinds, a "none" outside `Seqs`,
APDU classes inside `Apdus`, positive bounds with a deferral below half the
clock range), every safety property that `session_safety` checks.

The argument: `TypeOK` is inductive by itself. `SessionInv` adds the session
properties and `LoopPlace`, which says what `pc` implies (a power-on is running
with the link closed, a dispatch inside a session, and so on); without it the
properties are not inductive, because the second half of a split command would
start from states the first half never leaves. `ChainInv` relates the history
variables to the buffers: `acked` to `cmdChain` and `got` to `rspChain.off`.
The action properties and the refinement then follow step by step from
`SafetyInv`. `SlotChangesAlternate` is about what the reader reports, since the host
may miss any of it: it needs that a slot without a card has no kind
(`SessionConsistent`) and that a probe which found another tag has left either an
empty slot or a deferred removal (`LoopPlace`): the changes a step reports are then a
departure, an arrival, or one after the other, and they lead from the presence before
the step to the one after it. `HostKnowsCard` is what is left of it for the host: what
it was last told is true, unless the last report was lost.

`CcidUsb_proofs` proves the five safety properties of `CcidUsbRx` for every packet size, header
that fits a packet, payload bound and set of transfers. While the host is not
`lost`, the assembly is in one of three relations to the transfer on the bus
(`InStep`): it holds exactly the bytes taken so far (`Assembles`), it drains a
transfer that can no longer become acceptable (`Drains`), or the frame is complete
and only a zero-length packet is to come. `Places` adds where `sent` and a pending
frame can be. The properties need the relation: that a frame is accepted only if
it is one command follows from the bytes being consecutive from offset 0 and from
the length they declare, which a state invariant on the buffer alone does not say.

The same module proves the three of `CcidUsbTx` for every packet size and set of message
lengths: the packet in the endpoint while the loop waits is the current one
(`Waits`), full packets lie at multiples of the packet size (`Progress`), and
without a fault the host has collected the message up to `off` (`Collected`).

`IsoDep_proofs` proves the types and the refinement for every set of APDUs, any
number of blocks, any buffer and any number of retries. Where the reader is tells
what may be on the air and how much of the answer it holds, whether or not an
exchange has failed before (`Chaining`, `Awaiting`, `Answering`); while none has,
the two block numbers tell whether the card has taken the block sent last
(`Agreement`: `Pending` or `Taken`), which is why a block sent again is never taken
twice and the first block of the next exchange never mistaken for an old one.
Every step keeps this invariant and is a step of `ApduExchange` or none (`Step`,
one lemma for each action).

`StorageAccess_proofs` proves the types, `UpdateInOrder` and `AnswerFromOneTag` for
every set of tags, every geometry and any number of units, attempts and exchanges of
tags. It assumes that the memory modelled holds every data area
(`MemoryAssumption`) and that a write has at least two attempts, the short and the
extended command of a Type 5 tag. A command is served in a row of places, and each
place tells how far it has come. While an update writes (`Updates`), the span was
checked against the tag in `info` and as many units are verified as precede the one
it is at, whichever tag is in the field now; this is what the two properties leave
open in the middle of a command. While a command reads (`Reads`), what is read so far
comes from one tag and no other answers the next exchange: a tag taken off is not
activated again before the command ends, and a Type 5 tag is addressed by its UID.

`SecurityKeyRelay_proofs` proves the types, `AnswersItsOwn` and
`RunAgainOnlyRepaired` for every set of cards, any number of variants and exchanges of
cards. `Places` says what the host has transmitted and how far each loop is, and
`Exchanges` what the link carries, which is all `ApduExchange` promises and no more.
An answer kept in `rsp` is one to a SELECT (`Replies`), so no failure can turn it into
the answer to a CTAP command. A card has run the host's command at most as often as the
place admits (`Runs`); when the relay is about to send a CTAP command once more, the
session was opened again since and the applet selected in it, unless an exchange has
failed or the card has gone (`Selects`). The second property is not inductive without
the last two, as a run is judged when the card has it and not when it is sent.

`TagWriter_proofs` proves `LengthTellsMessage`, `SuccessIsWhole` and
`OneWritePerPlacement` for every set of tags, any number of units, attempts, messages and
exchanges. Nothing activates a Type 4 card again within an attempt, so the one that is
awake is the one whose length was cleared, and it has all chunks before the one written
next (`Chunks`). Of a TLV, the units before that one were read back from the Type 5 tag
addressed or, if no tag was exchanged, from the Type 2 tag on the antenna (`Pages`).
`OneWritePerPlacement` rests on counting: the samples that look free in the presence of
a tag are wrong ones in a row (`Placement`). The theorem assumes what the code needs: a
free antenna at setup, and fewer wrong samples in a row than `StableSamples`.

`PcscClient_proofs` proves `SuccessIsStored` and `HandledOnce` for every set of tags and
readers, any length of the message and any number of exchanges and losses. Unless a tag
was put on under the connection, one tag at most is touched and no other is there
(`OneTag`); a storage tag has the units before the one written next, whatever chunks were
cut off and sent again (`StorageProgress`). A Type 4 file is written on one card even if
others come, since they have nothing selected (`SameFile`, `FileProgress`), and what is
read back is what that card holds (`ReadBack`); this is why a worn card that was not
exchanged cannot pass for a good one. Tags an outcome was printed for are shown or lost on
the reader whose removal is waited for (`Waiting`), so none is left when the tool goes on.

`WriteBack_proofs` proves the three properties that `write_back` checks: first
`SuccessIsReadBack`, for every tag geometry, every set of tags and messages, and whatever the
host sends: from a byte on the serial line to the message both readers find. It assumes that lengths are told apart by the byte they are
stored as (`BytesAssumption`), that buffers have room for the longest message
(`GeometryAssumption`: the code's static assertions), that a Type 2 tag has at least
what one READ returns and a Type 5 tag at least a block behind its CC and no less than
its CC declares (`WellFormedTags`), and that messages are not longer than the writer's
buffer. The argument has four parts. *Placement*: what the three writers and the tool's
two leave on a tag (`Holds2`, `Holds4`, `Holds5`: the CC, the TLV and its terminator, and
nothing before the TLV but what `TlvNext` skips). *Reading*: whoever finds that reads far
enough, whatever area, group or chunk it stops at, and decodes the TLV that was written;
how many units a reader takes is the least of a set, so the proofs argue about the first
stop and not about a loop. *Encoding*: `BuildNdefMessage` makes a message of bytes that
fits from any payload configuration (`BuildIs`). *Console*: whatever arrives, the ring, the
scanner and the command line hold bytes and the ring keeps the room for its head
(`ConsoleInv`), for any sizes at all. The recursive functions of the pure modules (the walk over
TLVs, the pieces of a Type 4 file, the scanner's walk over the ring) are dealt with by
induction over their index, as a least counterexample: a first-order argument, which the
provers can follow where an induction theorem with an operator parameter is beyond them.

Some exceptions of `SuccessIsReadBack` came out of this proof: it would not go through
without them, and TLC then showed each on a tag (see *What `write_back` also shows*).

**A mode line is heard.** `HearsModeLine` proves `ReaderHearsModeLine`, for a ring, a scanner,
a number of sends and an interleaving of any size, under the hypothesis `Hearing`:

* the scanner holds more than a mode line, and the ring has room for what the scanner holds and
  what comes in two looks, `2 * HwMax + ScanCap <= RingCap + 1`. With the code's 32 and 128
  that is a serial port that hands over at most 48 bytes at a look; the run (2, 5 and 8) is at
  the limit. A longer burst can lose bytes, as said above, and is left out for that reason;
* no byte comes between a look at the ring and a direct read (`~Late`): the hazard at
  `runtime/nfc_hal_board.c:249`, where the property is false;
* all the host sends is mode lines or what the scanner returns from whatever byte it
  begins with (`Unmistaken`), such as a line that ends with LF, has no CR and no mode line in
  it. `SendLine` of the host's driver refuses CR and LF and adds the LF
  (`userspace/app/nero_nfc_driver.cpp:93`); a terminal that sends CR LF is not covered.

The invariant is about all bytes still to be looked at: those the scanner holds, the ring,
the port and the host's rest, in this order. Each belongs to a mode line or is returned before
one begins (`Settled`), and when they are taken one by one, a mode line switching the mode and
any other byte typed in the writer and dropped in the reader, the console ends in the same
state `z` as before the step (`Leads`, `EndsIn`): every step of the firmware takes some of
them off the front or puts some back, and leaves `z` as it is; only the host changes it, by
what it sends (`Follows`). `ModeInv` says that the mode of `z` is the one asked for last. A
step of the scanner cannot reach into a mode line with what it returns. That would not do for
the command line, which takes one byte from a ring the scanner has not looked through: hence
the rest of `EndsIn`, that a ring with bytes in it, when one is taken, begins with some that
were returned (`Stuck`), and that where the port is read directly both are empty.

**What is announced is what was asked for.** `AnnouncedAsAsked` proves `AnnouncedIsAsked`, for
any number of sends and any interleaving, under `Hearing` and a second hypothesis, `Asking`:
each line of `HostBytes`, by itself, typed into a writer that has just been set up or behind
glitches in it, is announced, if it is, as `Lines` says. `Asking` compares what one encoder and
two decoders make of a line with a table of the run's; it is about finitely many lines and no
behaviour, and TLC evaluates it for the lines of `write_back` (`MCAskingAssumption`). What the
proof adds is everything between the lines. By `EndsIn`, the bytes may be taken to be typed one
by one in the order they were sent, so nothing the scanner holds back, returns or drops gets
into a line or is missing from it. By `ToldSame`, what a line announces does not depend on the
configuration before it: of two payloads that agree on the fields their kind uses (`Same`) the
messages are equal, and every command sets those fields or is refused (`CommandSame`, one case
for each command word). And what the command line holds when a line begins is what glitches
alone leave in it (`Opened`). `SaidInv` follows: the announcements that `z` will have made
answer lines of the host, each a later one than the one before (`Answers`), and those made so
far are the first of them.

**Model-checked only.** The liveness properties (`DeferredRemovalCompleted`,
`EndpointArmedAgain`, `ExchangeEnds`, `RelayReturns`), which the provers have no rules for, and
what `Asking` says of single lines.

## 5. Not modelled, and the plan

**Hazards without a property.** Each is real; the model has the behaviour where it
says so, and nothing in the repository promises the opposite.

* `usb/ccid_usb_tinyusb.c:607` A bus reset in the send loop zeroes the endpoint; after
  a new configuration the tail of the old message goes out. `CcidUsbTx` has it as
  `fault` and promises nothing until the host has completed a read.
* `usb/ccid_usb_tinyusb.c:289`, `:391` A bus reset leaves the abort latch set; a
  second ABORT replaces the first. Both are behaviours of `CcidSession`'s latch.
* `reader/reader_security_key_iso_dep_transceive.c:502`, `:867` After a failed
  exchange the card may hold half a command (`Mixed`); a failed GET RESPONSE returns
  what it has without a status word (not modelled: the relay does not use it).
* `reader/reader_iso_dep_frame.h:108` Two answer bytes equal to their CRC are dropped.
* `reader/reader_security_key_iso_dep_session.c:381` After a recovery with another
  card the host still has the first one's ATR (`SecurityKeyRelay` reaches it).
* `reader/reader_ccid_storage.c:186`, `reader/reader_tags.c:637` GET DATA goes by the
  UID's manufacturer and not by the kind of tag; a failed re-activation clears the UID
  and the host's commands are refused until the next detection.
* `writer/writer_tag_write_internal.h:65`, `writer/writer_tag_write_type2.c:447` A
  Type 2 or 5 write that is cut off leaves the new length over both messages; a page 3
  that could not be read is taken for blank.
* `writer/writer_app.c:459` A tag on the antenna at setup lowers the baseline and is
  written over and over: `OneWritePerPlacement` fails with `AtSetup` other than {None}.
* `userspace/app/nero_nfc_pcsc_storage_type2.cpp:278`, `nero_nfc_pcsc_type4.cpp:196`
  Storage writes are not read back; a Type 4 read that fails leaves a partial message.
* `reader/reader_tags_type2.c:172`, `protocol/nfc_mode_line_scan.c:75`,
  `app/nfc_app.c:76`, `runtime/nfc_hal_board.c:249`, `writer/writer_payload.c:87`,
  `writer/writer_serial_cli.c:388`, `userspace/cli/writer_main.cpp:277` The scan for
  FEh on Type 2 tags; a glitch byte that begins a mode line; a half-typed line that
  outlives a mode line of the same mode; a byte read past the scanner; URIs of the
  console that are not percent-encoded; a subject and body that are cut; flags after
  `--ndef-hex`. `Console` and `NdefMessage` have all of them; the hosts and lines of
  the run stay clear of them where a property would fail.
* `core/nero_nfc_app.c:339` The ring drops what is pushed back when it is full. `Console`
  has it (`Fits`); the run's sizes keep it from happening.
* `reader/reader_app.c:160` CCID commands served during `reader_setup`.

**Plan.** `reader_setup` with the CCID commands served during it, the Type 5 extended
system information, and the pages of the tag-information output.

**Out of scope.** The radio chip's registers, FIFO and timings
(`frontend/st25r3916/`): what they do is in a data sheet. The encoders and
parsers of `protocol/nfc_ctap_codec.c` and `reader_cbor.c`: pure functions of fixed
layouts, of which the models have the classes an APDU or an answer is sorted into. USB
descriptors, printing and formatting, tables of constants, port detection, build and
packaging. USB bus reset and re-enumeration are in the two
USB modules and not in `CcidSession`: they do not touch its state.
