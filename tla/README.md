# opal-uefi-greeter in TLA+

opal-uefi-greeter is a UEFI application. It asks for a password in a boot menu, unlocks self-encrypting drives (OPAL over
NVMe or ATA pass-through), finds files on what is behind them (GPT, LUKS, LVM, ext4, FAT), and starts an image with an
initramfs made of them. This directory models that program, checks the models with TLC and proves most of their safety
properties with TLAPS. Source paths below are relative to the repository; models are named by module.

Contents: 1 the system, 2 the modules, 3 the runs, 4 fairness, 5 the proofs, 6 where code and text disagree,
7 what else a reader should know of the code, 8 what is not modelled, 9 the plan.

## 1. The system

The program is one thread of Rust in the firmware's boot services. Nothing in it runs concurrently with itself; what
interleaves is its environment: a drive that executes a command long after the host gave up on it, a keyboard whose keys
arrive when they like, a power button, firmware calls that fail with or without effect. The second source of
difficulty is re-entrancy: a search for a file may need a password, which may need a search for a file, on
disks the outer search holds open, with buffers and a config both share.

| Component | State it keeps | Operations | Talks to |
| --- | --- | --- | --- |
| Command codec (`opal/src/command.rs`, `defs.rs`) | payload of a builder, tokens of a response | the requests of a session, `Token::write`, `build`, `build_no_end_of_data`, `parse`, `get_uint` | the session, byte for byte |
| Level 0 discovery (`opal/src/io.rs`) | `com_id`, `is_eprise`, `was_locked` | `recv_info`, `SecureDevice::new` | drive (`secure_recv`), session (ComID), unlock loop (`was_locked`) |
| Opal session (`opal/src/session.rs`, `lib.rs`) | `tsn`, `hsn`, the call in progress | `OpalDrive::unlock`: `start`, two `set`s, `Drop`, `reconnect_controller`; `send_raw_command` | drive, firmware |
| Unlock loop and keyslot buffer (`unlock_opal`, `get_password_of_keyslot` in `src/main.rs`) | `config.keyslot_buffer`, `cached` | probe, get a password, try it, judge the result | session, console, file search |
| Reader stack (`src/io.rs`) | cursors of three readers that each believe in the one below | `read`, `seek` | firmware block IO, file system crates |
| File search (`resolve_and_read_file`, `find_read_file`, `find_read_file_internal` in `src/main.rs`) | call stack, partitions left, held protocols, `luks_masterkey_buffer` | walk up the config, walk the devices, descend | all of the above, recursively |
| Boot flow (`main`, `run`, `handle_boot_entry`, `construct_initramfs`, `handle_unlock_configured_opal_drives`) | contents read so far | config, menu choice, image, initramfs, unlock all | file search, firmware image loading |
| Boot partition (`block_devices`, `find_boot_partition`, `find_random_esp_path`) | lists of handles, the ESP found so far | list disks, reconnect them, look for the ESP | the firmware's handle database |
| Console (`src/ui.rs`) | rows of the menu, line typed so far | `choose`, `read`, `consume_old_keypresses` | keyboard and screen |
| Pass-through (`src/low_level`) | packet, registers, `return_data`, `serial_num` | `secure_send`, `secure_recv`, `serial_num` | firmware (`pass_thru`), session and discovery above |
| Configuration, errors, utilities, configtest | | parsing, conversion, allocation | |

What makes each of them correct, in a line; section 3 has the properties:

* codec and pass-through: the drive reads in the block it is sent the request that was meant, under the ComID and in the session
  it was meant for; the parser finds the drive's answer, no padding and no old byte is a token, a status is the trailer's.
* discovery: a locked drive is seen as locked; the ComID is one the drive offered; the walk ends inside the buffer.
* session: `Ok` means open, MBR hidden, reconnected; the MBR is hidden only on an open range; an answer is taken only for the
  command it answers, though nothing in it is compared; no session is left behind; a failure has a cause; a call ends.
* unlock loop: `Ok` means that the drive can be read; no password is presented twice in a row; a lock-out is final.
* readers: a skipped seek was not needed; bytes are those at the position the client believes in.
* search: a file is where its path says; it is missed only if it is not there; a password is asked for once and goes
  to the device the config gives it to; every menu choice comes to an end.
* boot partition: no handle is used that is gone; the image is told of an ESP only if there is one, and one only.
* console: the `>` is on the row of the chosen option; old keys do not answer a new prompt.

`PROJECT.json` lists every hazard at its line with the properties that are about it.

## 2. The modules

```
OpalTokens ── OpalRequests ── OpalCommand    tokens, requests made of them, commands made of those
     │                             ├─ OpalCommand_proofs
     │      PassThrough ── CommandWire       NVMe and ATA; a command on its way to the drive and back
     │           │              └─ CommandWire_proofs
     │           └─ (implements) SecureChannel     what the trait SecureProtocol promises
     └─ OpalSession ── UnlockOpal            one unlock() against a drive; the retry loop around it
            │              └─ UnlockOpal_proofs    (and those of OpalSession)
            └─ (implements) OpalUnlock       the promise of unlock()
Discovery ── Discovery_proofs                SecureDevice::new
ReaderStack ── ReaderStack_proofs            BlockIoReader, OptimizedSeek, PartialReader
FileSearch ──┐
BootPartition ── BootFlow                    the searches; the ESP; the menu on top of them
                    └─ BootFlow_proofs             (and those of FileSearch and BootPartition)
Console ── Console_proofs                    choose and read
RecursiveFunctions                           lemmas about recursive functions, for the proofs of the codec and of BootFlow
MC*                                          values of the constants for TLC
```

### OpalTokens, OpalRequests, OpalCommand

`OpalTokens` has the codec as operators on sequences of bytes: `WriteU64` and `WriteBytes` (`Token::write`, with tiny,
short and medium atoms), `BuildEod` (the three nested lengths and the padding), `Parse` (the loop that cuts
the unpadded payload into tokens, a recursive function on the offset, with `Panic` where the code indexes past the end),
`GetUint` as the code has it, header byte included, `MethodStatus`, and `DecodedId`, what `start` makes of a session number that a
drive sent with `AtomLen` data bytes.

`OpalRequests` writes what `start`, `set_locking_range`, `set_mbr_done` and `Drop` send, with the UIDs and methods of `defs.rs`, and,
independently of that, what a drive makes of a stream of tokens by the TCG core specification (`MeansRequest`). `OpalCommand` is the
builder: a request, or tokens one by one, then `build` or `build_no_end_of_data`. `Writable` are the byte strings `Token::write`
does not panic on; `SessionRequests` the requests there can be.

### SecureChannel, PassThrough, CommandWire

`SecureChannel` is what the opal crate expects of an implementation of `SecureProtocol`: what is sent reaches the drive whole, with
zeroes behind it at most, under the protocol and ComID it was sent to; what is received fills the caller's buffer from its first
byte on; the serial number is the drive's. `Ok` means that it happened, an error means nothing.

`PassThrough` has both implementations, NVMe (`CommandBuilder`, whose dwords count only if their flags are set; the
firmware transfers straight into the caller's buffer) and ATA (registers, whole sectors, a return buffer of 2048 bytes that is
copied back). `packet` is the `CommandPacket` of either, `return_data` the buffer the code allocates for itself: zeroed
in `do_io`, uninitialised in `recv_serial_num`. `pass_thru` fails before or after the drive did its part. What the
firmware and the drive do with a packet is external, from the NVMe and ATA command sets.

`CommandWire` composes the three: `send_raw_command` with every byte of the header, the command on its way through `PassThrough`,
the answer "not yet" and the answer, polled into one buffer, and `parse` on what is in it then. The drive answers in no more than
the 2048 bytes (`ReturnLen`) a host receives into. This is the protocol of
`OpalSession` one level down, for one command.

### OpalSession, OpalUnlock

`OpalSession` is one `OpalDrive::unlock` and the drive it talks to.

| State | Code |
| --- | --- |
| `pc`, `cmd` | where the call stands: before a `secure_send`, polling in the loop of `send_raw_command`, before `reconnect_controller` |
| `sess` | `OpalSession.tsn`, `.hsn`; zero until `start` has stored what it decoded |
| `outcome`, `result` | the `Result` that leaves `unlock` once `Drop` has sent EndOfSession; the last one returned |
| `connected` | whether the drivers of the handle are connected (`reconnect_controller`) |
| `locked`, `mbrDone`, `tries`, `open`, `inbox`, `reply` | the drive: locking range, shadow MBR, failed authentications, its session, the command it has, the answer it has ready |
| `fault`, `denied` | history, for properties only |

`CommandSucceeds`, `CommandRejected`, `StartUnimplemented` are the ends of the polling loop with each kind of
answer; `CommandFailed` is the `?` that drops the session and so sends EndOfSession under whatever ids there are.
`SecureSendFails`, `SecureRecvFails`, `ReconnectFails` fail with and without effect. The drive (`TPerStartSession`,
`TPerSet`, `TPerEndSession`, `TPerDrop`) is the environment the code is written for; it executes at its own pace,
may time a session out (`TPerAbort`), and loses everything at a power cycle. EndOfSession is built without the
trailer, so its answer has no status and never counts as a success; `Drop` only logs that.

`OpalUnlock` is what a caller may rely on: one try of the key per call, nothing opens without an accepted key, Ok
only for an open drive with its MBR hidden, LockedOut only for a drive out of tries. `KeepsPromise` is the refinement;
the mapping says that an attempt is a StartSession with a key which the host is about to send or the drive has not
executed, and that the drive trusts whoever is in its session. Two attempts can be about at once, since a command whose
`secure_send` failed may still be in the drive when the next call begins.

### UnlockOpal

Extends the protocol by the loop in `unlock_opal`: `Probe` reads `was_locked` once, `UseBuffered` or `Obtain` are the two
branches of `get_password_of_keyslot`, `TryUnlock` calls the protocol, `Judge` is the `match`. Reading a key file is
one step here and a whole search in `FileSearch`. `credit` is history: passwords that were got hold of and not yet
tried, at most `CreditBound` = 2 for the reason above.

### Discovery

The receive buffer as the sequence of descriptors in it; `Walk` is one turn of the loop of `recv_info`, with its breaks
at the end of the buffer, its panics where `get_com_id` indexes past it, and `LockingFlags::from_bits`, which knows
nothing of a byte with one unnamed bit. `New` is the rest of `SecureDevice::new`.

### ReaderStack

A byte is its position on the disk, so a read returns positions. `BlockRead` is `BlockIoReader::read` (first an unaligned
block, then part of one or as many whole ones as fit, either of which may fail), `OptSeek`/`OptRead` the caching of
`OptimizedSeek`, `SeekPart`/`ReadPart` the window of `PartialReader`, `IgnoreWrite` the writes that `IgnoreWriteWrapper` swallows. `expected` and `lost` are what a client has reason to
believe: after an error it has none until it seeks to a block boundary, which is what `find_read_file_internal` does
between two probes, or starts on a new partition.

### FileSearch, BootPartition, BootFlow

The functions of `src/main.rs` call each other recursively, so the model has a call stack: a frame has the locals of one
call, `ret` is the value a function returned until its caller has looked at it, `halted` how the program ended without
returning (stack overflow, memory, a panic, a reset, a shutdown, a started image). There is one action per step of the
function on top, named after what happens there. `HeldDrives` are disks whose block IO is open exclusively because a search
below on the stack is in the middle of them: they are missing from `block_devices` of a nested search. So is any other disk whose
BlockIO the firmware refuses to open (`Refusals`, the `.ok()?` of `src/main.rs:391`), in a search and in the loop that unlocks
the configured drives alike, and nobody is told. `missed` is history: what each search could not look into, by its frame: disks that
were dropped from its list, are spurious or locked, or came after one that broke it off, and volumes that could not be read or opened.
`HeldControllers` are the controllers an `unlock_opal` below has open for pass-through.

A *world* is a machine with its config: drives (bus, controller, serial, whether they have OPAL, their key, what is on
them), nodes (what is on a device: `gpt`, `lvm`, `luks`, `ext4`, `fat`, with uuid and children), partitions and keyslots of
`config.toml`, and the file wanted. What file systems look like to the crates that parse them is external and reduced
to that. `PathOf`, `ChainOf`, `Copies` and the rest of the section before the properties say, without searching, where a file
is; the properties compare the search to them.

Of a world the modules assume that every name in the config is defined in it (`ConfigIsWhole`, `MenuIsWhole`: `main.rs` indexes the
maps of the config without looking, `src/main.rs:219`, `279`, `372`, `475`, and a name that nothing has is a panic), and that what is stored
is nested (`StorageIsNested`: a thing lies in at most one other, nothing in itself, and the root of a drive in nothing).

`BootPartition` has the handle database of the firmware: opening a disk exclusively, which `block_devices` does to every disk it
lists, stops the partition driver on it and takes the handles of its partitions away; reconnecting it brings partitions back under
new handles (`fresh`), and those of the disk as it is now, not of the shadow MBR it showed before it was unlocked.
`OpenBlockIo`, `ReconnectController`, `ListPartitions`, `OpenPartitionInfo`, `OpenDevicePath` are the loops of the three
functions, each over handles of a list made earlier (`todo`), each with the firmware's refusal.

`BootFlow` extends both by `main` (finding, reading and decoding the config, each of which may fail) and `run` (an `Ok` leads
back to the menu, an error to a message and a reset), by `handle_boot_entry` (extra partitions, whose results nobody
looks at; the image, which must begin like one; the parts of the initramfs in order and the pages for them; the ESP; loading, the
question at log level Debug, and starting) and by `handle_unlock_configured_opal_drives`. The table a disk shows when the ESP is
looked for follows from what the searches before have unlocked; what it showed earlier may be left as stale handles.

### Console

Keys are pressed, travel (`air`), wait in the firmware's queue and are read. `Begin`, `SleepEnds`, `Drain` are
`consume_old_keypresses` with its 10 ms. The age of a key is history: it is new when it is pressed and old for a call that
begins after that, wherever it is by then and whatever the program did when it was pressed; an old key that the firmware has not queued
when the 10 ms are over is late. `DrawMenu`, `Mark`, `ChooseKey` are `choose`, with the rows of the screen,
scrolling, and the subtraction of `usize` that panics or wraps depending on the build (`checks`). `ReadKey` has the arms of
`read` in their order.

## 3. The runs

| Run | States | What it asks |
| --- | --- | --- |
| `session` | 5 106 | everything about one drive and any number of calls; implements `OpalUnlock` |
| `unlock_loop` | 28 156 | the retry loop on top of the whole protocol |
| `command_codec` | 38 016 | requests and payloads of up to two tokens, on their way to a drive and back; implements `SecureChannel` |
| `command_uints` | violation | `UintsSurvive`, F1 |
| `readers` | 10 806 | reads and seeks on a disk and its partitions, failing block reads |
| `readers_end` | violation | `SeeksAreRight` with offsets from the end other than 0, F2 |
| `discovery` | 19 483 | descriptors in every order, up to and past the end of the buffer |
| `discovery_newer` | violation | `LockedIsSeen` for flags the crate has no name for, F3 |
| `boot` | 161 725 | 34 machines: menu, searches, nested key files, the ESP |
| `file_copy` | violation | `FileIsFromItsDrive`, F4 |
| `console` | 429 286 | keys at any time, menus that fit and that do not |
| `console_enter` | violation | `LineEndsEndLines`, F5 |

**session.** `MbrHiddenOnlyWhenUnlocked`, `AnswersOwnCommand`, `SuccessIsComplete`, `NothingLeftBehind`, `NoSpuriousFailure`,
`AddressesOpenSession`, `CallReturns`, `KeepsPromise`. Bounds: two session numbers of different magnitude, a limit of two tries (one
that fails, one that locks out), two statuses of a failed Set. Nothing else is bounded: calls, faults and power cycles
may go on forever. One command in the drive at a time is not a bound but the ComID's protocol. More session
numbers or tries add no case; the proofs of section 5 are for all of them. Deadlock is checked, a panicked host can
always be reset.

**unlock_loop.** `OkMeansUnlocked`, `OkMeansComplete`, `EveryTryIsPaid`, `LockoutIsFinal`, `UnlockOpalEnds`, with a user who
types anything, and key files that are right, wrong or of the wrong length.

**command_codec.** `CommandArrives`, `ResponseIsTheAnswer`, `RequestIsUnderstood`, `KeepsContract`. Every request the crate can
make (Enterprise or not, ranges 0, 1 and 255, every locking state but `ArchiveLocked` (section 7), MBR shown and hidden, EndOfSession) and
payloads of up to two tokens. Integers and byte strings have the lengths at the edges of the atom classes, so that all four
paddings occur, and bytes inside of strings that look like tokens of the trailer. One ComID (`0x07FE`, whose bytes differ) and one pair
of session numbers do, as nothing branches on them; the theorems are for all of them. Statuses are
success and a failure. Blocks go over NVMe and ATA, and any call may fail.

**readers.** `StaleCursorIsUnaligned`, `ReadsAreRight`, `SeeksAreRight`. Blocks of three bytes, four blocks: enough for a
read that starts in one block, crosses a whole one and ends in a third, for a partition with a block before and
after it, and for a read past either end. `MaxPos` stops relative seeks one byte past the end. Seeks from the end have
offset 0 in this run; others go wrong (F2).

**discovery.** `LockedIsSeen`, `ComIdIsOffered`, `DiscoveryEnds`. The buffer is 108 bytes instead of 1024, so that up to four
descriptors fill it to the last byte or reach past it by up to `Overflow` = 20; flags are those the crate names.

**boot.** `AskedOnce`, `KeysGoToTheirDevice`, `StartedAsConfigured`, `HandlesAreLive`, `EspIsTheOnlyOne`, `FileIsWhereItIsNamed`,
`NotFoundMeansAbsent`, `ConfiguredDrivesAreOpen`, `MenuComesBack`. The machines are the repository's example config with its disks in either order and with
its second menu entry, and small machines for one difficulty each: a key file on the disk it is for, two LUKS layers with
one keyslot, a copy of a partition or of a LUKS device on another disk, a drive without OPAL, a drive that is not to
be unlocked, a drive whose key is on another drive of the same or of another controller or on itself, circles
among parents, a wrong key file, a LUKS partition without keyslot, several configured drives, an image that is none. `MaxDepth` = 16
frames stand for the firmware's stack; the deepest search of a config without circles needs fewer, and `MenuComesBack` would fail if
not. `AskedBound` = 2 stops counting after "more than once". Each list of disks may leave out
any of them. When the ESP is looked for, each disk may have shown nothing, what it shows
now, or a shadow MBR with one ESP before (`Earlier`).

**console.** `MarkIsOnChosen`, `OldKeysAreNoAnswer`. A screen of four rows, one menu that fits and one that does
not, two keys on their way or in the queue, lines of two characters. A key is pressed at any time, before the sleep, within it, while
the queue is drained, and while an earlier menu or prompt still reads.

Deadlock is not checked where the program stops: after a response was parsed, a drive discovered, an image started or the
machine shut down.

Type invariants are checked in every module's run but that of the retry loop, where `LoopTypeOK` is a theorem.
Every property of a passing run has a mutant in `PROJECT.json`: a definition of the module changed the way a bug
would change it (`Mutant:` in the comments), under which the run reports that property.

## 4. Fairness

* The program is a single thread that nobody preempts: weak fairness of its steps (`HostStep`, `LoopStep`,
  `ProgramStep`, `FirmwareStep`, `BootStep`). Faults, time-outs, power cycles, Escape and new calls are never assumed to happen.
* A drive answers in the end (`TPerStep`): the loop in `send_raw_command` has no limit of its own and would otherwise
  spin forever. That is an assumption about drives; the code makes it, nothing in the code enforces it.
* `ColdReset` in `LoopStep`: the firmware carries out the reset that `unlock_opal` asks for.
* A user who is asked answers (`LoopStep`), and one who is asked again and again some time types the right key (strong
  fairness of `TypeRightKey`): the loop over passwords of a LUKS partition ends no other way. `UnlockOpalEnds` does not
  need that, the drive's try limit ends it.
* `Sane` restricts `MenuComesBack` to configs without circles among parents or keyslots and with key files that fit. The
  others are in the run for the safety properties, and really do loop, run out of memory or overflow the stack.
* Nothing is assumed of the keyboard: a key may be on its way forever, and the properties of `Console` are invariants.

## 5. The proofs

The theorems are listed under "theorems" in `PROJECT.json`; each proof module extends the module it is about.

`UnlockOpal_proofs` begins with the protocol, `OpalSession`, for every try limit, every set of session numbers and every set of errors of a drive:

| Theorem | States |
| --- | --- |
| `TypeCorrect` | `Spec => []TypeOK` |
| `AnswersMatch` | `Spec => []AnswersOwnCommand` |
| `MbrHiddenAfterUnlock` | `Spec => []MbrHiddenOnlyWhenUnlocked` |
| `OkIsComplete` | `Spec => []SuccessIsComplete`, if `AtomLen = 4` |
| `SessionsAreClosed` | `Spec => []NothingLeftBehind`, if `AtomLen = 4` |
| `FailuresHaveACause` | `Spec => []NoSpuriousFailure`, if `AtomLen = 4` |
| `SetsAddressTheSession` | `Spec => []AddressesOpenSession`, if `AtomLen = 4` |

`AtomLen` is how many data bytes a drive spells its session numbers with. The assumption is needed: with fewer than four the
number is decoded wrong (F1), the Sets go to a session that is not open, and the last four theorems are false.
The first three hold for any length. The other assumptions are those of `OpalSession`: at least one try, errors of a Set
among the statuses, session numbers that are 32-bit, not zero, and fit into their atoms.

None of the properties is inductive. The invariant is `Inv == TypeOK /\ InStep /\ Ordered /\ Earnt /\ Clean`:

* `InStep`: while the host polls, the command in the drive and the answer it has are of the kind the host polls for. It gives
  `AnswersOwnCommand`, and is what makes it true that a success status means what the host thinks, also after faults: a drive that
  is still busy with a command the host gave up on takes no other.
* `Ordered`: wherever a SetMbrDone is on its way, or the host has come to the point of sending it, the range is already open. It
  needs `InStep`, as the host gets there by reading a success for SetRange. `MbrHiddenOnlyWhenUnlocked` is a part of it.
* `Earnt`: an Ok is earned step by step. A success for SetMbrDone means that the MBR is hidden, a call goes on to close its
  session with `outcome` Ok only then, and from there to reconnecting and to its result.
* `Clean`: as long as there was no fault, host and drive agree on the session, step by step: which session is open while
  each command is sent (`Opened`), worked on, answered or dropped (`Worked`, `Finished`, `Dropped`), and `Failed` comes with
  a refusal. It uses `DecodedIsId`: a four-byte atom is decoded to the id that was encoded.

The proof that each part is preserved has one step per action. The session number lemmas (`DecodedType`, `DecodedIsId`) are
about `GetUint` on the bytes of an atom and use the library's theorems on sequences.

It also proves the refinement, `PromiseKept == Spec => KeepsPromise`, for any `AtomLen`: one lemma per action says
which step of `OpalUnlock` it is. Beside `TypeOK`, `Ordered` and `Earnt` it needs `KeyIsForOpal` (an Enterprise drive is given no
key and never gets to a Set, so that `trusted` is right) and `LockOutIsTrue` (a lock-out that is reported or kept in
`outcome` is one of a drive whose tries are used up).

The rest of `UnlockOpal_proofs` is the safety of the retry loop:

| Theorem | States |
| --- | --- |
| `LoopTypeCorrect` | `LoopSpec => []LoopTypeOK` |
| `OkIsReadable` | `LoopSpec => []OkMeansUnlocked` |
| `LockOutIsTheEnd` | `LoopSpec => LockoutIsFinal` |
| `TriesArePaid` | `LoopSpec => EveryTryIsPaid` |
| `OkIsWhole` | `LoopSpec => []OkMeansComplete`, if `AtomLen = 4` |

The invariants of the protocol carry over because every step of the loop is a step of the protocol, leaves it alone, or is a
discovery that fails (`LoopStepIsProtocolStep`, `ProtectedInductive`). The loop adds `Stage` (the protocol runs only while
the loop waits for its result; a lock-out is not left; an Ok is of the menu), `Paid` (`credit` covers the password in the loop's
hand and the one that may wait in the drive: sending one moves it from hand to drive, only executing it spends it),
and `Whole` (without faults and refusals an open range comes with a hidden MBR, or in a call that is about to hide it), which
is what makes the Ok of a drive that was found open as good as one that was earned.

`CommandWire_proofs` begins with the refinement, `BothBusesKeepTheContract == Spec => KeepsContract`: over NVMe and over ATA every
step of a call is a step of `SecureChannel` or none, for buffers, answers and ComIDs of every size and value. It also proves
`WireTypeCorrect`, by which no uninitialised byte gets to a caller or to the drive. The invariant is `PassTypes /\ InCall`:
`InCall` says of each point of a call what the packet holds (the dwords or registers spell the protocol, the ComID and the
length that were asked for, the ATA buffer is the caller's data and zeroes) and, at the copying back, that `return_data` is
the answer and zeroes, or the drive's Identify data. The decoding of dwords and registers is arithmetic that is stated in lemmas of its own.

On top of it are the theorems about a command on its way to the drive and back, for every ComID and session, over both buses, for
every status and for every integer below 2^64, byte string that `Token::write` takes, control token and request:

| Theorem | States |
| --- | --- |
| `CommandsArrive` | `Spec => []CommandArrives` |
| `AnswersAreRead` | `Spec => []ResponseIsTheAnswer` |
| `RequestsAreUnderstood` | `Spec => []RequestIsUnderstood` |

The assumptions are those of `OpalCommand` and `CommandWire`: what is written is writable (a longer byte string is a panic), a range is
not asked to be `ArchiveLocked` (section 7), and a status is a tiny atom, 0 to 63, as those of the TCG core specification are. The argument has two parts.

`OpalCommand_proofs` is about the codec alone. `WrittenAs(ts, bytes)` says where the tokens `ts` begin and end in `bytes`;
`FlattenSeq` and `\o` keep it, and what `Token::write` makes of an integer, a byte string or a control token is one token, no
EmptyAtom among them. `Parse` is a recursive function on the offset in the code's order; that it finds exactly `ts` is shown by
looking at the last token at which it would not (`ParseCutsTokens`), as nothing may be proved by induction here. It needs the length
of the payload, but not what is behind it, so padding and trailer are covered by one lemma. The requests are then sequences of tokens
of known places, and `RequestIsRead` follows what the drive's parser (`MeansRequest`) makes of each of them, by cases: with a
challenge and without, Enterprise, the five locking states, range 0 and the others, the flag.

The rest of `CommandWire_proofs` follows the bytes. `Holds(bytes, k, b)` says that `b` stands at offset `k`, and is all that a header needs: five
fields at known offsets (`HeaderBytes`, `AnswerBlock`), each of which is read back as what was written (`FromBe`, `ToBe`). The
invariant is `PassTypes /\ InCall /\ WireInv`, where `WireInv` is

* `WhatIsBuilt`: the payload is the tokens written, one after the other, the command is made of it with or without the trailer, and
  a request is written as a whole;
* `WhatIsAsked`: the call in progress is the one the program is at, with the whole block or a buffer of the host's length;
* `WhatTheDriveHas`: what the drive has is the whole of what was sent, and what it was sent under, and stays so when the call
  failed after it;
* `WhatTheDriveSays`: what waits for the host is nothing, "not yet", or the answer with the code that is noted;
* `WhatIsRead`: a receive that did not fail has left one of the two at the beginning of the buffer, and what was parsed is the tokens
  of the answer. "Not yet" has data outstanding and is polled over; the answer has not, so the two are never confused.

That a block arrives whole and an answer is in the buffer is taken from the contract, `SecureChannel`: the proofs about
the wire do not look at a packet or a register again.

`BootFlow_proofs` is about whole boots, `BootSpec`, for every machine, config and menu, every size of the firmware's stack, and
whatever a user types:

| Theorem | States |
| --- | --- |
| `BootTyped` | `BootSpec => []Typed` |
| `SearchTypeCorrect` | `BootSpec => []TypeOK` |
| `PasswordAskedOnce` | `BootSpec => []AskedOnce` |
| `AllConfiguredDrivesOpen` | `BootSpec => ConfiguredDrivesAreOpen` |
| `KeysGoWhereTheyBelong` | `BootSpec /\ Orderly(world) => []KeysGoToTheirDevice` |
| `EntriesStartAsConfigured` | `BootSpec /\ Orderly(world) => []StartedAsConfigured` |
| `FilesAreWhereTheyAreNamed` | `BootSpec /\ Orderly(world) => FileIsWhereItIsNamed` |
| `MissingFilesAreAbsent` | `BootSpec /\ Orderly(world) /\ Exact(world) => NotFoundMeansAbsent` |

The functions call each other recursively, so an invariant has to speak of every frame of a stack of any depth.

* `Typed` has the types of the variables and `Good`: each frame has locals of its types, stands where its function may stand
  (`StackOK`: every frame but the last waits for a call, and the frame above is the one it has called, with the arguments it
  gave it), and `ret` is what the function that ended may return to the one that waits (`RetOK`). This is where a path never runs
  out before `partitions[0]` is looked at, and a `Vec` is never indexed past its end. The lemmas `BecomeStack`, `CallStack`, `ReturnStack` say
  once what the three moves of a stack do to such an invariant; the proof of the step has a lemma for each function.
* `Remembered`: as long as no device refused a key, no frame asks again for what it found in the buffer (`Fresh`), and a
  keyslot was asked for only if its key is in the buffer now. A search within a search may have filled it in between; it is
  looked at once more before the prompt.
* `UnlockingInv`: of the drives that `handle_unlock_configured_opal_drives` has passed or was not listed, the configured ones are open or
  missed, and an Ok of the `unlock_opal` it waits for means that its drive is.
* `Ordered` is for the three about keys, entries and files found. It says of every search frame that it is in place (`Placed`): its path is a chain of parents
  down to the partition of the file it is to read, the devices it has left are those at the place the part before stands for
  (`Place`, the uuids of a partition's parents without the drive), a frame that unlocks or asks for a password does so for a partition
  at that place and with the keyslot of it. A value that is returned is in a copy of the file at that place (`Delivered`), and so
  is each part of the image that was started (`Started`). `AskersAreInPlace`, `StartsWhatIsNamed` and `SearchFinds` get the three
  properties from it.

* `Thorough` is for the last one. It says of every search frame that each drive is on its list or is in `missed`, and that no drive it has
  passed has a copy of the file, but for what it could not look into there (`SearchThorough`, `DriveLacks`, `Unseen`); and of every probe of a
  device that what was looked at of it has none either (`ProbeThorough`), but for what is `Dark` to the search it is part of. An error
  that is returned carries what the frame that ends has seen to the one that waits for it (`Leads`, `ErrSays`).

In the last one drives are opened, and volumes fail, while other searches go on. Neither disturbs the argument, because what a search
may be excused by is its own: `missed` has the number of its frame, is never taken back while the frame is there (`AlwaysGrows`),
and is forgotten when a new search begins in its place. A drive that was locked when a search passed it stays missed by that search, and
by no other. A search that unlocks a drive looks into it next. `SearchFails` says that a search which ends with an error has gone through
all drives of its list, or was broken off and has missed the rest of it, or is one for a file on a drive itself, which has no copies.

`AllConfiguredDrivesOpen` is about every drive on the list of the loop. The drives it leaves out are those of which the firmware refused
the BlockIO when the list was made: for them the code returns Ok although they are locked, and so does the model (section 7).

`Orderly(world)` is the part of the last four that a config has to bring along: parents end; a serial number is that of an
outermost partition only; no uuid of a thing that is stored is the serial number of a drive; the extra partitions of an entry are outermost
ones. None of it is checked by the code. Each is needed: with a circle of parents nothing has a place; with a serial number inside,
`find_read_file` takes a drive for a partition or the reverse; an extra partition that lies in another is searched for from the outside,
as `handle_boot_entry` begins with that partition alone and not with its parents, so that its key could get to a device at a place the
config does not name. Of the 34 machines of the run `boot` 33 are orderly, the other one is the circle of parents.

`Exact(world)` is what a machine has to bring along for the last one, and is no fact of the code: a LUKS device holds one device,
as `find_read_file_internal` looks at the device it has opened only; a file system holds none, as it is not looked for partitions; a drive that is
neither NVMe nor ATA has no serial number of those that are looked for, as it is not asked for one; and what is on a drive
that the config names is on no drive with another serial number. All 34 machines of the run `boot` are so.

`PathOf`, `ChainOf` and `DrivesOf` are recursive functions along parents and children. What they are is proved without
induction over data: `ForestRecursion` (in `RecursiveFunctions`, and used for the folds and the parser of the codec as well) says that where every nonempty set has an element whose parent is outside of it, a
function with the recursive equation exists; that two such functions agree, and what holds of their values, follows from looking at a
least counterexample. `PathsEnd` and `StorageIsNested` say of parents and of storage that they are forests.

Its last part proves `HandlesLive` (`BootSpec => []HandlesAreLive`) and `EspIsUnique` (`BootSpec => []EspIsTheOnlyOne`), for any
number of disks and partitions and any refusal of the firmware. The invariants say that what is still to be reconnected are whole
disks, which no opening takes away (`LiveInv`); that among the partitions already looked at the one in `res` is the ESP, and there is
no other (`EspsSeen`); and that, if nothing failed, the disks that were reconnected show what is on them now, and those
not yet reconnected nothing (`NothingMissed`).

`Console_proofs` proves, for menus and screens of every size, `NoOldKeyAnswers` (`OldKeysAreNoAnswer`), `MarkIsRight`
(`MarkIsOnChosen`) and `ConsoleTypeCorrect`. `KeysInv` says that an old key is in the air only until the wait
ends, when it is late, and in the queue only until that is drained; `MenuInv` relates the rows of the screen, the scrolling and the chosen
option while the menu fits; `SizeInv` bounds the rows.

`Discovery_proofs` proves, for every buffer and every answer:

| Theorem | States |
| --- | --- |
| `DiscoveryTypeCorrect` | `Spec => []TypeOK`: the offset ends within one descriptor of the buffer, whatever the drive sends |
| `ComIdIsTheDrives` | `Spec => []ComIdIsOffered` |
| `LockedIsKnown` | `Spec => []LockedIsSeen`, if drives set no flag that has no name (F3) |

The invariant `WalkInv` says that `offset` is the first byte of the descriptor at `index`, or behind the last, and that what
was noted so far is exactly what the descriptors in front of it say.

`ReaderStack_proofs` proves, for blocks, disks, partitions and buffers of every size:

| Theorem | States |
| --- | --- |
| `ReadersTypeCorrect` | `Spec => []TypeOK` |
| `StaleCursorsAreUnaligned` | `Spec => []StaleCursorIsUnaligned` |
| `EveryReadIsRight` | `Spec => []ReadsAreRight` |
| `EverySeekIsRight` | `Spec => []SeeksAreRight` |

under two assumptions: `SeeksOnlyToTheEnd` (offsets from the end are 0, as in all callers; the last theorem is false without, F2)
and `PartitionsAreInside`. The invariant `StackInv` is `Types`, `CursorInv` (the cached cursor is wrong only in the middle of a block
and after a failure the client knows of) and `PlaceInv` (while the client has reason to believe in a position, the
readers are there). `BlockReadIsRight` says what a read of `BlockIoReader` does, by division and remainder, for every block size.

Model-checked only: liveness (`CallReturns`, `UnlockOpalEnds`, `MenuComesBack`, `DiscoveryEnds`), which is out of the prover's
reach. Every invariant and every action property of a passing run is stated by a theorem.

## 6. Where code and text disagree

Each has a run of its own that ends in a counterexample, and an entry under "findings" in `PROJECT.json`.

* **F1** `opal/src/command.rs:159`: `get_uint` ORs the header byte of an atom into the integer. `HSN` 105 read back is
  `0x8169`. A session number survives because `as u32` cuts the header of a four-byte atom off; in a shorter one it does not.
* **F2** `src/io.rs:187`: `add_end_offset` subtracts where `SeekFrom::End` adds, in both places that use it. A seek from the
  end to a place the reader is not at is answered with the cached cursor. A seek from the end by 0, to ask for the length, is right.
* **F3** `opal/src/io.rs:153`: a Locking feature with a bit the crate has no name for is treated as no feature, so a
  locked drive is taken for an open one and left alone.
* **F4** `src/main.rs:479`: once the named drive was seen, `find_read_file` has shortened the path for the devices after it as
  well. A file that is missing on the unlocked drive is taken from a partition with the same uuid on any later disk.
* **F5** `src/ui.rs:132`: Enter at an empty prompt is no end of line but the first character of the password, which
  costs a try.

## 7. What else a reader should know of the code

These are in the models and are the reason for conditions in the properties.

* After a failed `set_mbr_done` the range is open behind a shadow MBR; the next `unlock_opal` sees a drive that is not locked and
  returns Ok. Hence the `~denied` and `~fault` in `OkMeansComplete`, which for that reason says nothing of this case.
* `block_devices` drops a disk whose BlockIO the firmware refuses to open (`src/main.rs:391`), so "Unlock configured opal drives" can return
  Ok with a configured drive skipped and still locked, and a search end without having seen it. The properties name that exception
  (`missed`). Only a failing `find_handles`, and a failure to probe a listed disk or to open it again, is an error.
* A key that was pressed before a prompt and that the firmware queues more than 10 ms after the prompt began, or while the queue is drained and
  later than those 10 ms, is read as the answer. The code has no protection against it; `OldKeysAreNoAnswer` is about all others.
* Circles among the parents of the config fill the memory, circles among keyslots the stack, and a key file that is wrong is tried
  forever. `MenuComesBack` leaves such configs out (`Sane`): it says that nothing else keeps a menu choice from ending.
* Whether a disk was reconnected is not asked; `EspIsTheOnlyOne` holds if the firmware refuses no disconnect and no connect.
* If the answer to StartSession is lost, the drive has a session the host knows no number of; `Drop` closes session 0 and
  further calls fail until the drive times the session out.
* A password is in the keyslot buffer before it was tried and stays there when `unlock_opal` gives up on another error, so
  the next `unlock_opal` presents it again. `EveryTryIsPaid` lets the buffer pay once per `unlock_opal` for that reason.
* `NOT_AUTHORIZED` in answer to a Set is taken for a wrong password; a drive that always answers so would be asked
  about forever. The `unlock_loop` run has Sets fail with other statuses for that reason; in `session` they may.
* An Enterprise drive runs into `unimplemented!()`, after a session was opened.
* The cached cursor of `OptimizedSeek` is stale after a read that failed half way. It is harmless because it is then
  inside a block and all recovery goes to block boundaries (`StaleCursorIsUnaligned`); it would not be if a client went on.
* A relative seek as the first call on a `PartialReader` starts from wherever the reader below is, and a failed one has moved it.
* A key file is not found on the disk the search for it started from, which is held exclusively, and an ATA drive without
  OPAL ends every search that comes to it.
* `usize` arithmetic on rows panics, or wraps, for a menu longer than the screen.
* Two ESPs of which one does not come back after reconnecting count as one: the other is told to the image. On a machine
  without any partition, `find_handles` returns an error and nothing can be booted (`src/main.rs:239`).
* With two partitions of one name in the config, the later one counts.
* `dump` indexes the buffer by the length of the ComPacket and panics on an answer that claims more than the buffer has.
* A Locking descriptor of no data at the end of an answer takes byte 4 of what is behind it for its flags.
* `LockingState::ArchiveLocked`, which nothing uses, would unlock reading.
* ATA registers: `sector_count` stays 0 for any length; firmware goes by the byte counts in the packet.

Seen on the way, and not in the models:

* `sleep` closes no event: each call leaks a timer event that is set to fire periodically (`src/util.rs:20`).
* Aligned boxes are allocated with the alignment the firmware asks for and freed with 1; an `io_align` of 0 panics
  (`src/util.rs:35`).
* `NvmeDevice` keeps a raw pointer to the pass-through protocol after the exclusive open of it has ended.

## 8. What is not modelled

* What `toml` makes of the text of `config.toml`, and `configtest`, a host tool: pure input; a world is what is left of it.
* The archive format of the initramfs (the `initramfs` crate) and copying it into its pages; `load_image` is a step that works or fails.
* Namespaces and device paths of NVMe, port numbers of ATA: the greeter uses namespace 0 and the port the firmware lists.
* The firmware: it transfers as many bytes as the packet says, gives partitions new handles when a disk is reconnected, and
  stops the partition driver of a disk that is opened exclusively without starting it again. Handles of disks survive. Lengths of
  NVMe transfers are below 2^31.
* LUKS, LVM, GPT, ext4, FAT crates: external, reduced to kind, uuid, key and children. FAT uuids are compared as
  `{:X}-{:X}`, without leading zeros; a world has the uuids the code would compute.
* PBKDF2: a challenge is the right one or not. Error conversion, logging, wording, allocation.
* The searches hold disks, not handles; handles are in `BootPartition` only. Seek statistics.

## 9. Plan

Done, in this order: session, its promise and the proofs of both; the unlock loop and its proofs; codec; discovery; readers;
search; boot flow; console; pass-through and its contract with the proof; requests and the way of a command to the drive; the
boot partition against the handles of the firmware, with proofs; proofs of console, discovery and readers; proofs of whole boots and
the searches in them, files found as well as files missing; proofs of the codec, of the requests and of their way to the drive and back.

Still to do:

1. `CommandWire` as the implementation of one command of `OpalSession`, with the answers a drive gives to each request in bytes.
2. The archive format of the initramfs.
