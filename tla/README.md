# cloudsync-decrypt-go: a TLA+ model of its streams, readers and batches

The library `csenc` decrypts (and writes) the encrypted files of a sync client;
the command `cloudsync-decrypt` drives it. This directory holds TLA+ modules of
the library and its command line, TLC configurations that check them on small
instances, and machine-checked proofs about all of them.

## 1. Inventory

| component | state it keeps | operations | talks to |
|---|---|---|---|
| wire codec (`wire.go`, `wireEnc` in `encrypt.go`) | position in the byte stream, dicts being read | `Next`, `readOne`, `readShortBlob`; `wireEnc` | `io.Reader`, `io.Writer` |
| decrypt loop and pipeline (`decrypt.go`) | `meta`, `pipe`, lookahead `pending`, running md5, an LZ4 goroutine behind an `io.Pipe`, `doneCh` | `Decrypt`, `absorb`, `checkModes`, `newDecryptPipe`, `feed`, `finish`, `abort` | codec, session key, `out`, `OnMetadata` |
| session key (`decrypt.go`, `kdf.go`, `hash.go`) | none | `recoverSessionKey`, `verifyKeyHash`, `evpKDF`, `saltedDigest` | called by Decrypt, Writer |
| streaming Reader (`reader.go`, `file.go`) | outer `io.Pipe`, `doneCh`, metadata snapshot, close once | `NewReader`, `Read`, `Metadata`, `Close`, `NewReaderWithCloser`, `OpenFile` | a goroutine running Decrypt |
| batch (`batch.go`, `DecryptFile`) | slots, wait group, counters, errors; temporary and target files | `Batch`, `runOne`, `DecryptFile` | Decrypt, file system, `OnEvent` |
| discovery (`batch.go`, `IsCsencFile`, `main.go`) | units, `seen` | `discover`, `discoverEncryptUnits` | file system |
| Writer (`encrypt.go`) | started/closed/failed, AES buffer, chunk buffer, LZ4 writer | `NewWriter`, `Write`, `Close`, `abort`, `Encrypt`, `EncryptFile` | `wireEnc`, `out` |
| PEM keys (`file.go`, `encrypt.go`) | none | `LoadRSAPrivateKey`, `LoadRSAPublicKey` | called by the command line |
| Inspect (`decrypt.go`) | a `Metadata` | `Inspect`, `InspectFile` | codec, `absorb` |
| command line (`main.go`) | report of the encrypt batch, exit code | `runDecrypt`, `runEncrypt`, `runEncryptBatch`, `runInspect` | everything above |

What is hard here, and what must hold in spite of it:

* **Concurrency.** Decrypt and its LZ4 goroutine close the two ends of one pipe
  independently; the Reader puts a second pipe and a third party (the caller,
  reading and closing from any goroutine) around it. No unit may be lost,
  repeated or reordered, nothing may write to `out` after Decrypt returned,
  nobody may wait for ever, and the error reported must be the cause.
* **The end of the stream.** Only there is it known which block carries the
  padding, whether the LZ4 frame was whole and whether the recorded md5 agrees.
  Success must mean all of it.
* **Ordering in the stream.** Metadata may stand before, between and after data.
* **Partial failure and stops.** A batch job may fail between any two of create,
  write, rename and remove, or the process may stop there and be started again.
* **Repetition.** Commands are run again over what earlier ones left: after
  success, after failures, after a kill or a power failure.
* **Secrets.** Two secrets, two ways to wrap the session key, hashes that may be
  missing, three versions, passwords from flags and files: whoever holds a secret
  must get in, and a wrong key must not go unnoticed.
* **Boundaries.** Streams cut at any byte, empty values and tails, lengths of
  two bytes, padding that is a block of its own.

`PROJECT.json` lists these as hazards, each at its line.

## 2. Modules and how they correspond to the code

* `PlaintextStream` — what a streaming decryptor promises: units are received,
  handed on in order, the last one held back; success once, when nothing but a
  trailer is left.
* `Decrypt` — `decrypt.go`, from the magic to the return value. A payload is a
  sequence of units: blocks of content, the LZ4 end mark `End`, bytes `Pad` that
  read as valid padding. The stream is not fixed in advance: every `Next` picks
  a metadata dict, a data dict, a malformed value, an error or the end, so a
  cut, corrupted or contradictory stream is one of the choices. Variables carry
  the code's names: `meta`, `pending`, `doneCh`; `wbuf`/`rerr`/`werr` are the
  inner pipe, `sbuf` is the write in progress on `out`, `lz` is where the LZ4
  goroutine is, `mpc` where Decrypt's own is. `fed` and `out` are histories. One
  action is one step between two points where another goroutine may run: a call
  to the pipe, to `out`, to `doneCh`.
* `Reader` — extends `Decrypt` with an `out` that is the outer pipe: `HandOver`
  is a write that meets a `Read`, `WriteClosed` one that finds the pipe closed.
  `CloseBegin`, `CloseJoin`, `CloseExtra` are the three blocking parts of
  `Close`. `CallerMutates` is a caller that writes into the metadata it got.
* `Batch` — `Batch`, `runOne` and `DecryptFile`, over `target` (what stands under
  each target name), `temps`, `whole` (files written and closed) and `mtime`.
  `jpc[j]` is the position of the worker of unit `j`. `Restart(lost)` ends the
  process anywhere and starts it again on the same files, with a choice of its own
  for `SkipExisting`; `lost` are renamed files whose data a power failure took, as
  `DecryptFile` does not sync. `Refuse` is a configuration that is turned down.
* `TargetStore` — what the output directory promises: a target is absent or
  whole, and is replaced in one step; only a reboot may break one.
* `Wire` — `StreamReader.Next` with the recursion of `readOne` as a stack of open
  dicts, one step for each `io.ReadFull`, and the encoder `wireEnc` as the
  operator `Encode`. An integer is the digits of its magnitude to the base 256,
  without leading zeros, so `SetBytes` is `Stripped` and no number grows out of
  reach; `padded` remembers that one came with leading zeros, which `wireEnc` never
  writes and `readOne` accepts. `Nested[d]` are the values of depth `d`: `Depth`
  bounds the streams' length, so no value can nest deeper.
* `Writer` — `Writer`, `aesFeeder`, `pendingSink` and `Encrypt`. The bytes in the
  three stages are sequences (`lzBuf`, `aesBuf`, `chunkBuf`), a dict written to
  `out` is a kind and a payload, a byte of ciphertext is named by the byte it
  encrypts. One step is one write to `out` or what lies between two of them;
  each such write may fail (`Torn`), which `Close` and `start` record in
  `failed` and `Write` does not. The caller is `Encrypt` or anybody else. `sent` is
  a history: the payloads of the data dicts one after the other.
* `Header` — the header of a stream and the secrets that open it. A file is
  written once (`Flags` or `Call`, `NewWriter`, `Start`), perhaps as another
  writer of the format would (`OtherWriter`: digests left out or cut short, fields in two
  dicts), read dict by dict (`Absorb`), shown (`Inspect`) or opened with some secrets (`Supply`,
  `UnwrapPassword`, `UnwrapKey`, `Verify`: `recoverSessionKey`). Cryptography is
  symbolic: a ciphertext is a term with its key and its content, and gives
  `Garbage`, which may look padded, under any other AES key; OAEP refuses. `Checked` is
  the guard of `verifyKeyHash`: a hash of fewer than ten characters is not compared.
* `Tool` — the command line over a directory tree. An input is a path and whether
  "./" stands before it. `discover` is the set of units that the inputs yield
  (`Found`) and no earlier input has yielded (`Same`, the key of the `seen` map);
  `errors` counts what they miss (`Missed`). Both directions share it, as
  `discoverEncryptUnits` and the closure in `discover` differ only in the filter.
  A unit is taken (semaphore, `-skip-existing`), opened (source open, temporary
  file there), and placed or failed; `End` is the exit, `Killed` a stop anywhere,
  after which the tree holds the temporary files there were. `locked` are the files
  that cannot be read and the directories that cannot be listed; an output that is
  renamed over such a file can be read, as `CreateTemp` made it. `log` remembers the
  commands, their exits and the tree they began with.
* `DecryptProofs`, `ReaderProofs`, `BatchProofs`, `WriterProofs`, `WireProofs`,
  `HeaderProofs` — the
  theorems about the module each is named after. `ToolProofs` has those about what a
  process of `Tool` may leave behind, `ExitProofs` those about what its exit code says.
* `MCDecrypt`, `MCReader`, `MCBatch`, `MCWire`, `MCWriter`, `MCHeader`, `MCTool` —
  instances for TLC.

Composition: `Reader` extends `Decrypt`; `Decrypt` implements
`PlaintextStream`; `Batch` implements `TargetStore` and uses of Decrypt only what
`SuccessIsComplete` says (`whole` exactly when it returned nil); `Tool` takes from
`Batch` that a unit ends in one of three ways and gives its slot back, and composes
discovery, both directions and the file system; `Header` replaces what `Decrypt`
takes for granted in `KeyRecovered` and `Writer` in `Start`; `Wire` shows what
`ReadStream` in `Decrypt` may rely on, and that its clean end is not always clean.

### What is assumed of code outside the repository

* `io.Pipe`: a write is handed over piece by piece to waiting reads and returns
  with the last piece; a write of length zero still waits for one read; after a
  close the other side gets the error it was closed with, `io.EOF` or
  `io.ErrClosedPipe` by default.
* `lz4.Reader` (`github.com/pierrec/lz4/v4`): stops at the frame's end mark
  without reading on; when its input ends early it may report success, `io.EOF`
  or an error of its own (the model allows all three); garbage in a frame is an
  error. Its source is not part of the repository.
* `lz4.Writer`: forwards what it was given in order, in pieces of its own
  choosing, and on `Close` the rest and an end mark. Bytes of the frame are named
  by the content they stand for.
* `io.ReadFull`: all, `io.EOF` for nothing, `io.ErrUnexpectedEOF` for too little.
* `os.CreateTemp` never returns the name of a file or directory that is there, and its
  random number hits the name of no target of the run; `os.Rename` is atomic and, unlike
  data that was not synced, survives a power failure; `os.Stat` of an existing
  file succeeds. `os.Remove` of a temporary file succeeds: `file.go:71-74` and
  `encrypt.go:118` drop its error, and `NoLitter` and `OnlyOutputs` rest on it.
* `filepath.WalkDir` reports a directory it cannot list and goes on,
  and does not follow symbolic links (there are none in the trees of `Tool`).
* MD5, AES-CBC and RSA-OAEP are ideal: equal digests have equal inputs, and only
  the right key opens a ciphertext to its content.

## 3. Runs

| run | question | instance |
|---|---|---|
| `decrypt` | Is `out` always a proper, ordered prefix, is nothing lost, does nil mean whole and verified, is every managed return joined, is the cause reported, is `PlaintextStream` implemented, does Decrypt return? | 2 blocks, 7 payloads, 6 metadata dicts, 5 dicts per stream |
| `reader` | Do `Read` and `Close` agree with Decrypt and with each other, is the source closed last, do both return? | 6 payloads, 3 dicts, 4 dicts per stream |
| `batch_report` | Does Batch return with a settled report, within its slots? Where two units go to one target and race for it: does success stand, do times come from a source that goes there, is what was there before kept under `SkipExisting`? | 3 units, 2 of them with one target, the target of the third present before, 2 slots, 0 or 1 discovery error |
| `batch_restart` | Are targets whole and replaced in one step, over stops, power failures and further runs, and does a run that returns leave nothing behind? | 2 units with a target each, 2 slots, 3 runs, one target present before |
| `wire` | Do exactly the values that arrived whole come back, and account for every byte? | every cut of streams of two dicts, nesting depth 2; every string of up to 5 bytes out of 7 |
| `writer` | However content is cut into Writes, with and without LZ4, and wherever `out` fails: do the stages hold exactly what is not written yet, are chunks full but the last, is nil from `Close` a whole, correctly padded stream, does every call after a failed start or `Close` tell? | blocks of 2, chunks of 4, pieces of 0, 1, 3 and 5 bytes, 8 bytes |
| `header` | Does every holder of a secret get in, does no wrong key pass a hash that is compared, does `Inspect` show what was asked for? | 2 passwords and none, flags or file, with or without a line end; 2 key pairs, 7 PEM files; 7 versions, 6 calls of the library; other writers that leave out digests, cut hashes short or use two dicts |
| `tool` | Does exit 0 tell that every input was found and every file has its output, does an ended process leave only whole outputs, does a tree come back, does a repeated command touch nothing, does each process end? | 4 trees of 2 to 4 files, 7 commands, 3 processes, 2 slots |

`ExitTells`, `OnlyOutputs` and `RoundTrip` are stated from the tree as it was and
the command, by a definition of their own of which files a command reaches and
where they may go (`Ways`, `Targets`), not from the units that `discover` made. They
leave out commands whose output directory is above or below an input (`Apart`).
`RoundTrip` is about an encryption that said 0 and a later decryption of its whole output
directory that said 0. Between them any number of processes may have run, failed or been
killed, if each was the same encryption again, with or without `-skip-existing`, or wrote
neither to its sources nor to its outputs (`Harmless`). Then every file that the encryption
was to take, and that shares its target with no other (`Lone`), is where the decryption
puts it, with its content.

Runs that TLC is expected to refute, each against a sentence of the repository:

| run | what happens |
|---|---|
| `decrypt_wellformed` | The last data dict holds only padding (the compressed frame was a multiple of the chunk size); the LZ4 goroutine has seen the end mark and gone; `finish` writes an empty tail to a closed pipe and a good file is refused with `io.ErrClosedPipe`. |
| `wire_clean` | A cut between two tokens inside a dict ends like a whole stream. If the dict is the trailing metadata, Decrypt returns nil without having seen `file_md5`. |
| `reader_leak` | A malformed value after the first data dict leaves Decrypt by a bare `return`; the LZ4 goroutine waits for good, also after `Close`. |
| `reader_tail` | On the uncompressed path an empty tail is still a write; `Close` at that moment hides an md5 mismatch although every byte was read. |

Observed in the models or while translating, without a run of its own:

* `Metadata` copies a struct, not the slices in it (`reader.go:90`): a caller that
  writes into `EncKey1` or `Salt` before the key is recovered makes Decrypt fail,
  where `reader.go:82-83` lets it mutate freely. `CallerMutates` is part of the run
  `reader`; what it breaks is the key only.
* Two inputs with the same base name share a target (`batch.go:284`): under
  `SkipExisting` the second replaces the first, since the target is looked at before
  a decryption and replaced after it (`batch.go:302-320`), and `PreserveTime` may put
  one source's mtime on the other's file. The run `batch_report` has such inputs, and
  `SuccessStands`, `TimesAreOwn` and `ExistingKept` say what holds all the same: the
  target has a whole plaintext of one of them, the time of one of them, and a file that
  was there before the run is kept. `ExitTells` lets files with one target share it.
* A recorded hash of one to nine characters is not compared (`decrypt.go:381`), although
  `decrypt.go:48-50` says that hashes which are present are validated. `KeyIsTheirs` is
  about the others; for every hash that is present it is false, as TLC shows by a file
  with short hashes, a wrong password and an unwrapping that happens to look padded.
* A file that cannot be read is no stream for the default filter
  (`batch.go:291-293`): no event, no error, exit 0, where `batch.go:119-122` speaks of
  every file reachable. `ExitTells` is about readable files.
* A power failure can leave a broken file under a target (no sync before
  `file.go:83`); a run without `SkipExisting` replaces it, one with it keeps it for
  good. `TargetStore!Reboot` is that exception.
* A killed encryption leaves `.csenc-enc-*` files that begin with the magic; a later
  decryption of that directory finds them, fails on them and exits 1.
* An encryption whose output directory lies in its input finds its own outputs when
  it is run again, and one whose output directory is the input's parent replaces its
  sources; `Apart` leaves these out.
* `-o` ignores `-skip-existing` and `-preserve-time` (`main.go:110-120, 171-177`).
* Inputs are deduplicated as they are spelled: `f` and `./f` are two units with one
  target.
* The name of an input directory is part of the layout (`batch.go:272`), where
  `batch.go:26-30` says paths relative to it; `Targets` follows the code.
* An empty password file yields a password that is empty but present: it goes before
  the private key (`decrypt.go:329`) and fails. `HolderOpens` states who gets in.

A tail of padding alone does occur: `pendingSink` (`encrypt.go:419-429`) emits a
chunk as soon as it is full, so content that fills its last chunk is followed by
a dict of padding alone.

### Bounds

`MaxItems` bounds the dicts of one stream: five is enough for header, three
payloads and a trailer in any order, and the pipeline keeps no more than one
payload back, one in the pipe and one in hand. Two blocks tell order and
repetition apart. `Batch!MaxRuns` = 3 is a power failure or stop, a second one in the
resumption, and a run that completes; nothing but the files is carried over.
`Tool!MaxRuns` = 3 is a killed or failed command, its repetition, and what comes of
both: a rerun or the decryption. `TempNames` are as many as files can be left behind. `MaxDiscErrs` = 1 separates errors of discovery from
those of jobs. `MCWire!MaxBytes` = 5 holds two nested dicts or an integer with leading
zeros; `Wire!Depth` only has to be as large as the longest stream. `Writer!MaxBytes` = 8 is two chunks, so content may end before, on and
after the boundary of a block and of a chunk, and some bytes equal a padding;
`Writer!MaxItems` only stops callers that write on after a failure. Three units
on two slots make the spawning loop wait.

`Decrypt` stops (`Done`) when it has returned; an LZ4 goroutine left behind
keeps its actions. `Reader` can always read again, so it never deadlocks by
being finished.

### Fairness

* Goroutines that can run do: weak fairness of Decrypt's own steps, of the LZ4
  goroutine, of the Reader's goroutine, of a `Close` in progress, of each worker
  and of Batch's loop. The Go scheduler is preemptive and channel, pipe and wait
  group wake their waiters; nothing stronger is assumed.
* `Tool!Spec` has weak fairness of the work of a process as a whole (`Work`): one of
  its goroutines can go on until it ends, files answer with a result or an error.
  No command has to be given, and none has to be killed.
* `Decrypt!Spec` assumes that the source answers each read and `out` each write
  (they are calls the caller makes good). `Reader!Spec` assumes it of the source
  only: no caller is obliged to read or to close, and `ReadBegin`, `CloseBegin`
  carry no fairness. A source that never
  answers keeps `Close` waiting for good: it waits for Decrypt first
  (`reader.go:104`) and would only then close the source, although the comment
  above it says that an in-flight decryption is aborted.

## 4. Proofs

Every theorem holds for every value of the constants that the assumptions named in the
component's module allow; TLC evaluates these on its instances. Each component has an
inductive invariant that TLC checked on the instance of its run before it was proved.
A proof that an invariant is kept has one step per action.

### Decrypt (`DecryptProofs`)

* `TypeCorrect` — `TypeOK`, which is inductive by itself; `Invariant` — `IInv`.
* `NoUnitLost`, `Prefixes`, `SuccessComplete`, `Joined` — the safety properties
  of the run `decrypt` of the same meaning.
* `Implements` — every step of Decrypt is a step of `PlaintextStream` or does not
  show, through the mapping `fed`, `out`, result on return.

`NothingLost`, the account `fed = out ++ sbuf ++ end? ++ Ahead`, carries the
argument. It is not inductive alone: one has to know where a buffer may be
non-empty (`Places`), which results are known at which point (`Answers`), and,
once something failed and the account is closed, that `out` is still a prefix
(`Prefix`). `UnwrapAccount`, `FeedAccount`, `EndAccount`, `TakeAccount` and
`AcceptAccount` are the five actions that move units. Success follows because only
`Drain` returns nil, and there the account has been reduced to the trailer.

`CauseIsReported` adds `Cause`: the inner pipe's own error stands only for a frame
that ended well. It assumes that `closedpipe` is no error of `out`; a `Reader`, whose
`out` is a pipe of its own, is outside that assumption.

### Reader (`ReaderProofs`)

The invariant `ReaderInv` is Decrypt's `IInv`, the Reader's types, `RInv` and `EOFCause`.
`ReaderStep` says that a step of the Reader is one of Decrypt's, leaves Decrypt alone or
is `CallerMutates`, and `MutateKeeps` that the last keeps `IInv`, so the proofs about
Decrypt are used as they are. `RInv` follows the result from Decrypt to the pipe
(`Handing`), to `Close` (`Closing`) and to `Read` (`Told`); `EOFCause` says that the only
`io.EOF` that is an error is the lz4 reader's. From `SinkAssumption`, that a closed pipe
is all that can be wrong with `out`, follow

* `ReaderTypeCorrect` and `EOFComplete` — `io.EOF` from `Read` is the end of a whole and
  verified plaintext, or that of the lz4 reader;
* `ReaderImplements` — with the caller, the goroutine and the second pipe around it the
  Reader still implements `PlaintextStream`;
* `SourceOutlives`, `CloseAgreesWithRead`, `CloseTellsCause` — `Close` joins Decrypt before
  it closes the source, agrees with what `Read` said and tells the cause.

### Batch (`BatchProofs`)

* `Invariant` — `IInv`: `Control` (units start in order; which outcome is known at
  which stage), `Places` (which files a job has at each stage, and that no file is of a
  run to come), `Slots` (semaphore and WaitGroup are the numbers of workers),
  `LitterBounded` and `Tally` (each counter of the report is the number of jobs past the
  step that counts them).
* `TypeCorrect`, `LitterIsBounded`, `NothingLeft`, `ReportIsSettled` — the properties of
  the two runs. `ReportSettled` needs `Tally`, as it speaks of the end only, and that the
  ended jobs are partitioned by outcome (`Partition`); `LitterBounded` needs the injection
  from this run's temporary files into the workers with a slot (`LitterNow`).
* `SuccessHolds`, `TimesAreKept`, `ExistingIsKept` — for units that share targets, too.
  `Own` strengthens `SuccessStands`: a file of a run stands only under the target of its
  unit, its time is its own or that of a unit with the same target (`Kin`), and what stands
  under the target of a job past its `os.Stat` under SkipExisting is of this run, so that
  nothing older can be replaced, over any number of runs and stops.
* `Implements` — every step is a step of `TargetStore` or does not show. The step that
  needs the invariant is the end of a decryption: the file that becomes whole stands under
  no target yet. For a power loss the names that break are those of whole files lost.

### Writer (`WriterProofs`)

For every `BlockSize` and every `ChunkSize` that is a multiple of it, every sequence of
Writes and every failing write to `out`:

* `TypeCorrect`, `NothingLost`, `PayloadsFit`, `NilIsComplete`, `TornIsTold` — all five
  properties of the run `writer`; `Invariant` — `IInv`. `TornIsTold` covers the start that
  fails in a `Write` as well as the one in `Close`, for callers that go on after the error:
  `HeaderStays` says that a header on `out` stays as it was written, and `Control` that
  `failed` is set wherever it is not whole.

`Account` says where every byte given is at each point of a call: in `sent`, in the three
stages or still in the argument. It is stated of calls that did not fail (`Trusted`), so
`Control` has to say which calls are in progress when and that a failure is remembered,
and `Stages` how much a stage may hold (whole blocks in `chunkBuf`, less than a block in
`aesBuf` between calls). `Shape` ties the dicts on `out` to the length of `sent`. The
padding of 1 to `BlockSize` bytes that `Close` adds makes the last payload whole blocks
(`Division` and the lemmas after it); that `Close` says nil only of a padded whole follows.

### Wire (`WireProofs`)

For every set of streams, every nesting depth and every value within the sizes the
encoder accepts:

* `TypeCorrect` — `TypeOK`: what is read stays in the stream, and what is returned is a
  value the encoder could have written. `Typed` adds that the i-th open dict leaves room
  for `Depth - i` more, since each took a byte of the stream to open, and which request
  goes with which size.
* `EveryByteAccounted` — `Reencodes`, for streams of any bytes.
* `DecodesWhatWasEncoded` — `RoundTrip`: every cut of every encoding.

The encoder is defined over data of any depth. `Nested` and `Encoding` are recursive
functions of the depth, and their equations (`NestedUnfold`, `EncodingUnfold`) come from
the well-founded recursion of the library, over the strict subset ordering of finite
sets; that a value has the same encoding at every depth that admits it
(`EncodingAgrees`), that an encoding is a sequence of bytes (`EncodingType`) and what
`FlattenSeq` makes of one more value (`JoinedAppend`) are inductions by `Induction`,
which takes a set in place of the predicate that no prover here can instantiate.

The invariant, `Placed`, says where everything is. `Anchored` gives every open dict the
place its mark has in the stream: the values returned are encoded before it, its members
after it, and the value being read (`Pending`) after those. `Follows` says, when it is
known what was sent, which of the values sent each open dict is the beginning of
(`path`), and that its encoding starts at the same place. So the byte at hand is the tag
of the value that is due, or the end mark of a dict that has all its members (`DueAt`,
`TagRead`); a stream that was sent has no other bytes, and `TopEnd`, `NoValue` and
`UnknownTag` never happen on it. `GiveAnchored`, `GiveFollows`, `OpenAnchored`,
`OpenFollows`, `FrontAnchored` and `FrontFollows` carry both through the steps that move
the stack; `SizeSent` and `BodySent` decode a size and a body, `BodyAt` encodes them
again. That no value which arrived whole is missing at the end follows from
`AskedIsSent`: no request of the parser reaches past the value that is due.

### Header (`HeaderProofs`)

For every set of passwords, key pairs, PEM files, versions and callers:

* `OnlyTheirKey`, `HoldersGetIn`, `InspectIsTrue` — the three properties of the run. The
  first is about hashes of ten characters or more; section 3 says why.

`DictsOK` says that the metadata absorbed so far and the dicts still to come make a record
(`Outlook`) that says what the writer was asked for (`Told`), whichever way another writer
splits it, with hashes that are right, missing or too short to be compared (`Unchecked`);
`OptsOK` and `Shut` keep what is known of the secrets on both sides. The attempt
to prove `Verify` showed that its guards overlapped in a `CASE`, whose meaning TLA+ then
leaves open; it is now the chain of conditions that the code has.

### The command line (`ToolProofs`, `ExitProofs`)

For every tree, command, input spelling and number of processes, workers and names:

* `OutputsAlone` — `OnlyOutputs`. `ToolProofs!Invariant` says that every unit goes to a
  target of its source and has read it as it was (`Working`), and that the tree is the one
  the process met but for outputs and the temporary files of open units. Its core is about
  paths: under `Apart` no target and no temporary file lies in an input (`Below`, `Beside`,
  `Comparable`), so no source changes under a batch.
* `RerunIsIdle` — `RerunChangesNothing`. After an exit 0 every unit the command would find
  now has its target (`AllThere`), because the units of a batch are at any moment those it
  would find again (`Planned`, from `DiscoverStays`: what a batch writes is invisible to its
  own discovery); so under `-skip-existing` no unit of the repetition gets past its slot
  (`Idle`).
* `ExitCodeTells` — `ExitTells`. `Coverage` says that if nothing was missed, every input is
  there, every directory below it can be listed and every file to be worked on is the source
  of a unit to one of its targets. It takes the topmost directory that hides a file
  (`AllReached`; it would have been reported) and the first input that yields a unit
  (`AllFound`; `seen` drops the others). `Progress` then says that a unit that is done while
  nothing has failed has its output, and `End` exits with 0 only when `failed` is 0.

`ExitInvariant` strengthens `ToolProofs!Invariant` with that and with `Tree` (no file lies
below a file) and `Held` (an open unit has its temporary file for itself). `Held` was false
at first: the model let `CreateTemp` take the name of a directory, and that of a target of
the same run; `Temps` now leaves out both, and section 2 lists the second as assumed.

`Whole(W)` only names the contents the trees start from, closed under encryption and
decryption, without the parts of files that kills leave; every set of trees of whole files
has such a `W`. `ExitCodeTells` has a second hypothesis, `LeftoversFail`: a file with the
name of a temporary one is taken up, if at all, by a decryption, where it is a part and
fails. Without it the property is false, as TLC shows on four commands: an encryption that
is killed leaves a part, an *encryption* of its output directory takes the part for a file
of the user's, a decryption of another file is killed and leaves its part just where the
decryption of that file would go, and that decryption, under `-skip-existing`, takes it for
an output and exits 0. (In the model both directions draw from the same `TempNames`; the
code's names are long random numbers behind `.csenc-enc-` and `.csenc-`.)

* `ExitCodeTrue` — `ExitTells` from a hypothesis on the constants alone. `Separate` says
  that no encryption is given a file or directory that one of the commands writes to, and
  that no file of the user's is called what `CreateTemp` would call it; `SInv` (a file with
  such a name is a part that a command left where it writes, and a unit that has read one
  is decrypting it) gives `LeftoversFail` at every step.

TLC confirmed `Separate`, `SInv`, `LeftoversFail` and every conjunct of `EInv` on the
instance of the run `tool`.

* `TreeComesBack` — `RoundTrip`, for all commands and from no hypothesis at all. The two
  processes may be any number of others apart, so the invariant (`RInv`) carries what an
  encryption that said 0 has left for as long as nothing but harmless commands has been
  given since: every file it was to take still has, at one of its targets, a readable file
  that is its encryption (`Survives`), in the tree of now and in the one that the last
  process met (`Intact`). `Running` adds that a process removes no file it met and where its
  units write (`WritesTo`); from that `HarmlessKeepsSources` and `HarmlessKeepsOutputs` say
  what a harmless process leaves alone, and of the same encryption run again that it can
  replace such a file only by an equal one.
  The decryption's exit 0 then gives each of these files an output by `Coverage` and
  `Progress`, with no need of `LeftoversFail`: they are there, can be read and are encrypted.
  `OneInput` says that no other file of that tree has the same target, as one directory is
  its only input. The first attempt failed for a reason: the model left an output unreadable
  that had replaced an unreadable file, so the decryption did not see it. `Place` had to
  unlock it, and one tree of the run `tool` has such a file now.

### Only model-checked

Every invariant and every action property of the passing runs is a theorem. What is left to
TLC are `RunEnds` and the other liveness properties, which need fairness and ENABLED, and
the four runs that end in a counterexample.

## 5. Not modelled, and what is left

* Progress lines, the printed report, `runInspect` (it prints what `Inspect` says and
  always exits 0), the default of `-j`, flag parsing: no behaviour to check.
* The times the encrypt batch puts on its outputs (`main.go:343-349`): the steps of
  `runOne`, which `Batch` has.
* A `Filter` of the caller's own, symbolic links, `..` in inputs and directories that
  are empty: not in the trees of `Tool`.
* `digest`: a digest other than md5 is still compared as md5 before the log line
  that says it was not verified; logging is not modelled.
* A caller other than `Encrypt` that goes on after a failed `Write` can get nil from
  `Close` for a torn stream (`encrypt.go:207` does not set `failed`);
  `CloseIsComplete` leaves that caller out.
* Sizes and durations in events, wording of errors, `Logger`.
* A `Read` after `Close` always gets `io.ErrClosedPipe`, not what the comment at
  `reader.go:21-22` says; the model does not record it.

What a next step would be: the round trip in units, that what `Writer` puts out, read by
`Wire`, is a stream that `Decrypt` accepts.
