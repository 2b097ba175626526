# A TLA+ model of inqjet

inqjet is a logger for Rust programs that cannot wait. A log call encodes its
arguments into a ring buffer and returns; one background thread, the archiver,
takes the records out, formats them and writes them. This directory holds TLA+
modules of that system, the TLC configurations that check them, and proofs
that TLAPS checks. All definitions are translated from the Rust source; line
numbers refer to it (`lib.rs`, `logger.rs`, `consumer.rs`, `archive.rs`,
`pod.rs`, `format.rs`, `record.rs` are under `src/inqjet/src`, the macros under
`src/inqjet-macros/src/lib.rs`).

## 1. The system

| Part | State | Operations | Hard because |
|---|---|---|---|
| Builder and guard (`lib.rs` 345-353, 517-574) | `LOGGER`, `running`, the archiver's join handle | `build`, drop of the guard | racing builds; shutdown races with every log call and with the park |
| Log producers (`logger.rs` 141-266) | thread-local producer, text buffer | `hot_log_submit` (macros), `log_impl` (bridge from the `log` crate) | many threads, full ring, two backpressure modes, re-entrancy |
| Archive streams (`archive.rs`, `lib.rs` 499-511) | one ring and one writer per stream | `ArchiveHandle::write`, clone | never looks at `running`, drops silently |
| Archiver (`consumer.rs` 26-106) | `had_work`, a format buffer, the Parker's permit | poll, flush, park or spin, drain | user code in format functions; one flag for all streams; sleeps |
| Fallback stash (`pod.rs` 200-224, 304-363; macros 311-368) | dirty flag, text, offsets, read index, all thread-local | clear, push, encode | argument expressions and Display implementations may log themselves, and be refused or panic |
| Level gates (`lib.rs` 322-326, 559-567; `logger.rs` 96-100, 273-289) | `MAX_LEVEL`, log's own maximum | `set_level`, the gate of each call | two cells, several writers, no lock |
| Timestamps (`format.rs` 49-92) | none | nanoseconds to a time of day and a date | integer divisions |
| Lines and colours (`format.rs` 13-38, 107-181; `lib.rs` 577-596) | the colour flag | prefix, message, label | two branches for one layout |
| Record layout, Pod values (`record.rs`, `pod.rs`, `archive.rs` 103-202) | bytes of a region | encode, decode | narrow length fields |
| Format string parser (macros 85-236) | none | placeholders to closures and bounds, at compile time | the same string is parsed again, by std, and the bounds fall on other types than `format!`'s |
| Pod derive (macros 413-439, `pod.rs` 110-148) | none | assertions at compile time | three ways to become Pod |
| Ring buffer (`nexus_logbuf`, external) | regions in claim order | claim, commit, read, release | outside of this repository |

How the parts interact: a producer claims a region of a ring, writes it and
commits it. The archiver reads the oldest region if it is committed, gives the
text to the stream's writer and releases the region. Three other things are
shared: `running` (written by the guard, read by log calls and the archiver),
the permit of the archiver's Parker (given by the guard and by producers that
wait for room), and the process-wide `LOGGER` and levels.

What makes each part correct:

- *producers and archiver*: a region being written is never read or reused;
  records of a thread come out in call order, once; Backoff loses nothing while
  the logger runs; a Drop call never waits; no wakeup is lost;
- *archiver*: nothing stays in a writer's buffer during a sleep or after the
  end; the drain leaves nothing but what an open claim hides;
- *guard*: its drop returns;
- *stash*: a record carries the texts of its own arguments, and its claim is
  committed;
- *macros*: a call that `format!` would take compiles unless the macros cannot
  support it, and its message is what `format!` would give (section 4 lists what
  they cannot, and the two cases that print otherwise);
- *lines*: the documented layout, in both colour modes;
- *build and levels*: one logger, no call past the gate without a logger, one
  level for macros and bridge.

`PROJECT.json` lists the hazards at their lines, with the properties that would
catch each.

## 2. The modules

| Module | Models | Extends |
|---|---|---|
| `LogBuf` | what callers rely on of the external ring, as operators on sequences | |
| `Pipeline` | producers, archive handles, archiver and guard, interleaved | `LogBuf` |
| `LogService` | abstract specification: per stream, a queue written in order until it closes | |
| `Delivery` | `Pipeline` with records told apart; refines `LogService` | `Pipeline` |
| `FallbackStash` | thread-local stash, producer and text buffer of one thread, with nested calls and panics | |
| `LogInit` | `build`, drop, `set_level` and the gates, over the process-wide cells | |
| `RecordCodec` | the bytes of a record, written by the caller's thread and read by the format function | |
| `FormatSpec` | the placeholder parser of the macros beside that of `std::fmt`, as operators | |
| `LogLine` | a record from the format string in the source to the line in the output | `RecordCodec`, `FormatSpec` |
| `CivilTime` | `format_timestamp` and `civil_from_days` beside a clock and a calendar | |
| `MC*` | constants for TLC | the module of that name |
| `PipelineProofs`, `DeliveryProofs`, `LogServiceProofs`, `FallbackStashProofs`, `LogInitProofs`, `CivilTimeProofs`, `RecordCodecProofs`, `LogLineProofs` | theorems about the module of that name (section 5) | that module, TLAPS |

Operators whose comment begins with "Fault:" are plausible mistakes in the
definition that follows them. No specification uses them; each is put in place
of the original once, to see that a property notices.

### Pipeline

One step is one access to shared memory. Between two accesses a thread only
touches its own state, so merging that work into the step loses no
interleaving.

- `EnterLog` is the load of `LOGGER` and `running` (220-226; the same in
  `log_impl`, 142-149). `TryClaim` is one round of the claim loop, `CheckRunning`
  and `UnparkRetry` are the two steps of its Backoff arm (255-260), `Commit` ends
  the call. Log levels, encoding and the thread-local cell are in other modules.
- `ArchiveWrite` claims or gives up at once; `Commit` is shared.
- The archiver has one action for each thing its loop does: `LoopCheck` (38),
  `Take` (42-52), `ReleaseRecord` (53), `NothingToPoll`, `Flush` (one stream per
  step), `Spin`, `Park`, `Unparked`, `ParkTimeout`, and for the drain
  `DrainedStream` and `DrainFlush`. The loops over streams are the variable
  `cur`. `FormatPanic` unwinds out of a format function: the read claim is
  dropped and the thread is gone.
- `Spawn` precedes `Publish`, as in `build`; `StopRunning`, `GuardUnpark` and
  `Join` are the drop.

A region is a record with its owner and two pieces of history: whether
`running` was true at its claim (`born`), and whether at its commit (`st` is
"early" or "late"). Guards only ask whether a region is held.

Abstractions. Every record takes one unit of capacity; record sizes, padding and
wrap-around belong to the external ring. `running` is sequentially consistent
here, while the code loads it with `Relaxed` ordering. On real hardware a thread
may see the store of the guard later than the model's next step; a load that is
late is a load that was scheduled earlier, except that orders between different
cells may differ. `OneLateRecordPerThread` uses only the one cell.
A panic on a producer's thread between claim and commit is not modelled
(what a dropped claim does is the external crate's).

### Delivery and LogService

`Delivery` adds a name (caller and call number) to each region, the sequence
given to each writer, and the sets of accepted calls and of records their writer
refused; a writer in `Failing` may refuse a record. These variables ride along and restrict nothing. The
refinement mapping of `LogService`: `pending` is the ring without the record
just read (read but not yet released is "written" for the service), `written`
the output, `closed` the end of the archiver thread. `IsService` is the
specification of the service with its stuttering steps told apart first.

### FallbackStash

A thread's calls form a stack, since code of the caller runs inside a call:
argument expressions, and Display and Debug, which run while the stash is
borrowed (`fmt`, macros 357-362) or while the producer is (`format`,
`logger.rs` 153-169). A text is named by call and argument. Pod arguments do not
touch the stash. Another thread may build the logger (`Build`, lib.rs 552) and drop
its guard (`Stop`) between any two steps. Calls pass the gate once there is a logger
or, if `setting.early`, before, because somebody called `set_level` (lib.rs 322) before
`build()`: such a call stashes its texts and is refused in `hot_log_submit` (220-223).
`setting` says this, what the caller's code may do, and which backpressure mode is on;
the run takes all of them.

Both borrows of the stash are guarded by their panics: `EnterHot` and `PushOffset`
panic while the Display or Debug of another call's argument runs (`pod.rs` 207, 336).
The third, in the encode closure (351), has no such branch in the model;
`EncodeFindsBuffer` says that it is never met.

A panic (`CallerPanics`, a failed borrow, the encode closure) unwinds the stack
up to whoever catches it: nobody, and the thread is gone; the code outside of
every call; or the code of an argument expression or Display in the middle of a
call, and that call goes on. Lengths of texts are not modelled. Where the
closure encodes a text that is not the one its claim was sized for, it may
print it or panic (`EncodePanics`), and where there is no text left it panics.
Such a panic leaves the claim uncommitted, which `abandoned` remembers; what the
ring does with it is the external crate's.

### LogInit

Each access to `LOGGER`, `MAX_LEVEL`, log's maximum and the registered logger is a
step of its own, for any number of builders, callers of `set_level` and log
calls by both routes. inqjet's `LevelFilter` is the number `MAX_LEVEL` holds, the log
crate's levels and filters are names, and `IntoLog` and `LevelToU8` convert.
`CheckConfig` takes any configuration the setters can have left, and asks for
the writer before the level. The ring and the archiver appear only as "this builder's archiver
runs". The accesses are sequentially consistent here too; `LOGGER` is a
`OnceLock`, but the gate's load of `MAX_LEVEL` is `Relaxed`, so
`PassedGateFindsLogger` is about program order only. Other users of log's
maximum level are not modelled.

### RecordCodec, FormatSpec and LogLine

A region's payload is a sequence of bytes, written at offsets and read at offsets as the
code does, for the three kinds of records. A byte has `Base` values. With a base of 2,
two bytes of length hold at most 3 and four bytes at most 15, so that lengths that do
not fit are small enough to enumerate; all widths and offsets are those of the code. A
copy past the end of a claim makes the region longer than announced and stands for the
panic of the slice. `Submit` is the caller's side (size, claim, write, commit), `Format`
the archiver's. What a loop of the code does along a list (pushing texts, adding sizes,
encoding and decoding arguments) is a recursive function of the position in the list
(`Stash`, `Sums`, `HotReads`), which can be reasoned about. The reader knows the sizes
of Pods and tags from the types, as the generated code does, and takes every other
length from the bytes. The header is copied as one struct (record.rs 46-82), so it is a
record: the format function, as the kind of record and the witnesses it was made with,
and the level. The fallback stash appears with its offsets here, undisturbed by other
calls; who disturbs it is the subject of `FallbackStash`.

`FormatSpec` has the macro's parser, which looks for the next closing brace,
and the grammar of `std::fmt`, which reads fill, flags, width, precision and type in
turn. Both read one character after the other; their recursion is a recursive
function over positions. `LogLine` writes a macro call with any format string and
arguments of any type (`WriteMacro`), compiles or refuses it (`Expand`: the parser, the
number of arguments, the closures, std on the whole string, and for each
argument `ArgumentFits`), and then lets it run once through `RecordCodec` among the
records that have no format string of their own. Of a type, rustc looks at which traits it
implements, how it became Pod and whether it drops, and of the expression at
whether what it borrows lives on behind the `let` of macros 356. The closure's trait is
asked of a reference to the argument, the bounds of `HotDecode::Decoded` (Debug, and
the trait the macro guessed) of what the archiver decodes: the Pod itself, a `String`, or a
`PreFormattedValue`. `PrintLine` gives the line as
tokens: words and escape sequences of the prefix, characters of the message,
and data with the spec they were formatted by. A stashed argument got its spec
on the caller's thread and is passed through by `writeln!` (`Shown`); the closure
formats a reference to it, so `{:p}` gives the address of the argument (`Stashed`).
Left out: named and numbered arguments, which the macros do not support
(macros 103-106); widths and precisions from arguments (`$`, `*`); format strings that
are no literal (`concat!`); a Display that returns an error, which the closures ignore and
`format!` does not; Pods that print more than their bytes; an `.await` in an argument;
precedence of `impl`s beyond the three tiers.

### CivilTime

A behaviour walks the calendar, through the first days tick by tick and then a
day at a time; the invariants compare each date, and each time of day, with the
results of the divisions. 213503 is the last day a `u64` of nanoseconds can
express, so the bound on dates is no abstraction. A second has few ticks in the
run, since TLC's integers have 32 bits, and timestamps are compared up to the day it can
count to; the divisions by 86400, 3600 and 60 are those of the code.

## 3. What the runs check

| Run | Shows | Bounds |
|---|---|---|
| `pipeline_safety` | `TypeOK`, `ClaimsStayInPlace`, `FlushedBeforeSleep`, `DrainLeavesNoCommittedHead`, `OneLateRecordPerThread` | 2 threads and a handle that never stop calling; 3 streams, the handle on the last; log ring of 2, archive rings of 1; all options; threads symmetric |
| `pipeline_shutdown` | `GuardDropReturns`, `DropCallReturns` | 2 threads that never stop, a handle with 2 calls and a panicking formatter; rings of 1; all options |
| `pipeline_waiting` | `BackoffCallReturns`, `EverythingComesOut` | 2 threads and a handle, 2 calls each; rings of 1; Backoff, an archiver that parks |
| `delivery` | `IsService`, `OutputInCallOrder`, `BackoffLosesNothing` | a thread on a log ring of 1 whose writer fails and whose formatter panics, 2 handles on an archive ring of 2; 2 calls each; Backoff |
| `stash` | `CarefulOwnTexts`, `NoEarlierText`, `ClaimsAreCommitted`, `EncodeFindsBuffer`, `OneBufferUser` | 3 calls of up to 2 arguments; both modes, all settings, a build and a stop at any time |
| `init` | `LateBuildFails`, `FailedBuildLeavesNoTrace`, `PassedGateFindsLogger`, `LastLevelHolds` | 2 builds, 1 `set_level`, 2 log calls; filters Off, Info, Trace, calls of all levels |
| `record_codec` | `RegionIsFilled`, `PrintsWhatWasLogged`, `ReaderSurvives`, `CutPayloadIsPrefix`; `RefusedOnlyIfUnsupported`, `PrintsLikeFormat`, `LineAsDocumented` | bytes of base 2; targets of up to 6 bytes, macro calls of up to 2 arguments of the three kinds, lengths on both sides of what their fields hold; all format strings of up to 5 of 7 characters, all `{:spec}` with up to 3 characters of spec, `{:t}` for every trait's character t, and all of two placeholders with up to 2 characters in each; argument types with 4 sets of traits, single arguments of all kinds of Pod and lifetime; all colour settings |
| `civil_time` | `DateIsCalendar`, `TimestampIsClock` | all days; 2 days tick by tick, 12000 midnights |

Why the bounds suffice. A ring of one makes every second claim fail, a ring of two
lets a committed record wait behind an open claim; more capacity only delays
both. The interactions are pairwise (claim against claim, claim against drain,
check against park), so two producers on a ring show them. The claims and reads
of both kinds of stream are the same operators, so in `delivery` the two
producers that race are put on an archive ring, and the log stream has the
retries, the failing writer and the panic. Producers in `Tireless` are not
bounded at all: `pipeline_safety` covers call sequences of any length. Two
archives are the least for which "every archive" differs from "the archive".
For the stash, three nested calls allow an outer call, an inner one
and one after; a clear happens at each level. For records, two arguments are the
least for which one's end is the other's start, and an error in an offset shows
at the next field read. A format string of five characters holds one placeholder
with the longest of trait names (`{:x?}`), a fill with an align, or an escaped
brace beside a placeholder; a spec of three has a fill, an align and a trait, so that a brace
as fill meets a trait behind it; a digit or a sign is read by no branch of
the macro's parser that another character is not. A type has Display, Debug, both, or both
with LowerHex and Pointer, so that each of the traits that the two parsers can ask for is once
given and once missing; how a type is Pod, and whether it drops or borrows, is judged for each
argument alone, so calls with two arguments vary in traits only.

`stash` checks every setting and says under which the stash works: `Careful` is
Backoff mode, `set_level` only after `build()`, no panic caught by code that a log call waits for, and none caught
at all if Display or Debug log. Each conjunct is needed; without it TLC finds
records with other calls' texts, or abandoned claims (section 4).
`NoEarlierText` needs much less.

Fairness. `FairSpec` says that a thread that can step does: a producer inside a
call, the archiver, `build` and the drop once begun. That is what an operating
system's scheduler gives runnable threads; nobody is made to call or to drop,
and a park need not time out, since its duration is the user's. So
`GuardDropReturns` and `BackoffCallReturns` hold by unparks alone.
`EverythingComesOut` has the end of parks as a premise, since a commit wakes
nobody. Weak fairness is enough throughout.

Deadlock is checked in all Pipeline and Delivery runs (`Terminated` is the one
way to stop). The stash, `LogInit` and `CivilTime` really may stop: their calls
are bounded. So may `LogLine`: a format function that panics ends the archiver, and a
call that is refused at compile time never runs.

## 4. Where code and documentation differ

Each of these has a run that ends in a counterexample.

1. `doc_drop_drains_committed`: records committed before the drop can be lost
   behind another thread's open claim, although the documentation excepts only
   records mid-claim.
2. `doc_backoff_guarantees_delivery`: after a panic in a format function the
   archiver is gone, `running` is still true, and Backoff callers spin.
3. `doc_stash_drop_mode`: in Drop mode a refused nested call leaves its text to
   the outer call's record.
4. `doc_second_build_fails`: two builds at once both return Ok.

Seen while modelling, without a run of their own:

- `running` is read before the record is formatted, retried and claimed, so a
  record can be claimed after the archiver ended (lib.rs 335-337 speaks of
  records mid-claim at the drop). `OneLateRecordPerThread` bounds what is lost.
- an archive handle never looks at `running`; one that keeps its ring non-empty
  keeps the archiver polling it, and the drop waits in join. `pipeline_shutdown`
  therefore bounds the handle's calls.
- the stash's dirty flag is reset before the borrow that may panic (pod.rs
  335-336); if that panic is caught, a later record prints a stale text.
- `set_level` opens the gate of the macros (lib.rs 322-323) though nothing is
  built. A nested call that is then refused for want of a `LOGGER` leaves its texts
  unread; if another thread's `build()` finishes before the outer call submits, the outer record
  encodes them as its own, or panics on its claim. `Careful` excludes it.
- in Backoff mode too, a nested call can leave its texts to the outer one: when
  its Display panics and the argument expression that made it catches the panic.
  Texts of other lengths make the encode closure panic on the outer call's claim.
- the macro ends a placeholder at the first closing brace. In `{:}<}` the brace
  is a fill for std; a stashed argument is then formatted by `{:}` on the
  caller's thread. In `{:}<x}` it also cuts the trait off, and the call does not compile.
  `{ }` and `{:x }` are fine for std and do not compile in a
  macro call: the parser takes the blank for a name, or for the type. Both are named in the
  properties (`BraceAsFill`, `BlankBeforeBrace`).
- `format!` takes some arguments that no macro call can log (`CannotBeLogged`): a Pod
  without Debug, whatever its spec, since `HotDecode::Decoded` is Debug (pod.rs 270-281); a
  Pod that needs drop; a `&str` under `{:p}`, since it is decoded to a `String`; and
  an argument that borrows from a temporary, which ends with its `let` (macros 356).
- `{:p}` of a stashed argument prints the address of the argument and not the
  one it holds, since the closure formats a reference to it (macros 356-360,
  `AddressStashed`).
- two builds at once also race for the colour flag (lib.rs 526), which the
  archiver of either then reads.
- a macro call in a Display or Debug of a stashed argument runs before
  `TLS_PRODUCER` is borrowed and does not panic as logger.rs 16-18 says.
- the macros cut the length of a target to 16 bits and write all of it
  (macros 307), where the bridge asserts "target string exceeds u16::MAX bytes"
  (record.rs 107-111). The reader then takes target bytes for arguments, and may
  panic and end the archiver; `ReaderSurvives` says only such a call can.
- two `set_level` calls at once can leave the macros at one level and the
  facade at the other, until the next call. `LastLevelHolds` is what holds.

## 5. What is proved

For every value of the constants, with no bound on threads, handles, archives,
capacities, calls, arguments or days but the ones the modules name, and with no assumption
but those the modules state beside their constants (threads and handles are disjoint, a
handle has a stream, capacities are positive, `Levels` are filters and contain Off,
`Nobody` is no builder, a second has ticks, a byte has more than one value, a line number fits
its four bytes). TLC evaluates these assumptions in the runs.

| Module | Theorem | States | In words |
|---|---|---|---|
| `PipelineProofs` | `TypeCorrect` | `TypeOK` | |
| | `FlushBeforeSleep` | `FlushedBeforeSleep` | no text waits in a writer while the archiver sleeps or has ended |
| | `DrainIsComplete` | `DrainLeavesNoCommittedHead` | what the drain leaves is behind an open claim |
| | `OneLateRecord` | `OneLateRecordPerThread` | at most one record per thread after the drop began |
| | `ClaimsAreKept` | `ClaimsStayInPlace` | a claim keeps its region until it is committed |
| `DeliveryProofs` | `DeliveryTypeCorrect` | `DTypeOK` | |
| | `BackoffKeepsAll` | `BackoffLosesNothing` | Backoff delivers while logger and archiver live |
| | `ImplementsService` | `IsService` | the pipeline refines `LogService` |
| | `LogInCallOrder` | `OutputInCallOrder` | output in each producer's call order, none twice |
| `LogServiceProofs` | `InOrder` | `InCallOrder` | the same for the abstract service |
| `FallbackStashProofs` | `StashTypeCorrect` | `TypeOK` | |
| | `BufferHasOneUser` | `OneBufferUser` | the `UnsafeCell` of the text buffer has one user |
| | `NothingOfEarlierCalls` | `NoEarlierText` | no text of a call that is over |
| | `RecordsCarryOwnTexts` | `CarefulOwnTexts` | careful callers get their own texts, in order |
| | `ClaimsGetCommitted` | `ClaimsAreCommitted` | careful callers abandon no claim |
| | `EncodeCanBorrow` | `EncodeFindsBuffer` | the encode closure never meets another borrow of the stash |
| `LogInitProofs` | `TypeCorrect` | `TypeOK` | |
| | `SecondBuildFails` | `LateBuildFails` | a build that begins after an Ok fails |
| | `FailuresAreClean` | `FailedBuildLeavesNoTrace` | a failed build leaves nothing behind |
| | `NothingIsLostBehindTheGate` | `PassedGateFindsLogger` | past the gate there is a logger |
| | `LastWriterSetsBothGates` | `LastLevelHolds` | both gates have the level of a writer that ran alone |
| `CivilTimeProofs` | `DatesAreRight` | `DateIsCalendar` | `civil_from_days` is the calendar |
| | `TimestampsAreRight` | `TimestampIsClock` | a timestamp is the clock's time on that date |
| | `FieldsAreInRange` | | all fields fit their printed widths, the year apart |
| | `TimestampsTellTimes` | | two times are never printed alike |
| `RecordCodecProofs` | `CodecTypeCorrect` | `TypeOK` | |
| | `EveryByteIsWritten` | `RegionIsFilled` | the announced size is the size written, all of it |
| | `RecordsComeOutAsLogged` | `PrintsWhatWasLogged` | what was logged is printed, if its lengths fit their fields |
| | `ReadersSurvive` | `ReaderSurvives` | only a macro's cut target can end the archiver |
| | `CutPayloadsArePrefixes` | `CutPayloadIsPrefix` | a cut payload is printed as a prefix of itself |
| `LogLineProofs` | `LinesImplementRecords` | | `LogLine` does to records what `RecordCodec` lets it |
| | `RecordsOfLines` | all of the five | so it keeps the promises of the records |
| | `OnlyUnsupportedIsRefused` | `RefusedOnlyIfUnsupported` | what `format!` takes compiles, unless its type cannot be logged, for a blank before a brace, or a brace as fill |
| | `MessagesAreFormatted` | `PrintsLikeFormat` | the message is the one of `format!`, but for a brace as fill and `{:p}` of a stashed argument |
| | `LinesAreDocumented` | `LineAsDocumented` | the documented layout, in both colour modes |

### Pipeline

None of the four safety properties is inductive. Their strengthenings, stated in
`Pipeline` beside the properties:

- `DirtyIsTracked` says for each place of the archiver which writers may be
  dirty: none before the first record of a round, those from `cur` on during the
  flush, only `cur` during the drain. `FlushedBeforeSleep` is its case for the
  sleeping and ended archiver.
- `DrainedHaveNoCommittedHead`: a stream the drain is done with has no head
  committed while `running` was true, and draining implies that `running` is
  false. It stays true since later commits are "late" and later claims go behind
  the head.
- `LateClaimIsLast`: while `running` holds no region is a late claim, and the
  owner of a late claim is in no call that may still claim. With
  `OneLateRecordPerThread` it is inductive.
- `ClaimsStayInPlace` is inductive with `TypeOK` and `ReadClaimInPlace`, by which the region
  the archiver releases is the head it read, which is not held.

The lemmas about sequences (what appending, committing at a position and
taking the tail do to other positions) come first and are cited by name.

### Delivery and LogService

`IsPipelineStep` shows that `Delivery` only adds to the steps of `Pipeline`, so
`TypeOK`, `DirtyIsTracked` and `ClaimsStayInPlace` are used without a second proof
(`Claimed`). Two invariants are new:

- `Named`: each ring has one name for each of its regions, with the region's
  owner, and a held region has the number of its owner's present call; no name in a ring or
  an output is newer than the calls its owner has begun. The refinement needs
  it to know that a claim's number is later than all before it.
- `Accounted`: what the archiver has read is the head of its ring or
  already written or refused, and each accepted call is under way, in the ring,
  in the output, or refused. The second part alone is not inductive: a release
  takes a name out of the ring, and only the first says where it went.

`ImplementsService` maps each step. A claim is `TakePlace`, a commit
`FillIn`, taking a record `WriteNext` or, when its writer fails or its formatter panics,
`DiscardNext`, the end of the archiver `Close`; every other step leaves the mapped
variables as they are. The head that has been read is no longer pending for the service, so
a release is a stutter. The case that takes care is a commit behind such a head, whose
position shifts by one. `DSpec => Service!Spec` cannot be stated as such
since the mapped `Next` appears under a temporal operator; `IsService` is the
same with its stuttering told apart.

`InOrder` is proved of the abstract service alone, where nothing but queues
exists, and its invariant is its property with the types: a record that is
written is later than those written before it because it was so when it was pending.
`LogInCallOrder` then needs no argument about rings: it is `InOrder` read
through the refinement.

### FallbackStash

`Framed` is about the stack: calls are numbered upwards, only a call that runs
code of its caller has a call above it, calls exist only once the gate may be open, and the read index counts at most the
arguments of calls that are over. `BufferHasOneUser` follows, as a call that would start
inside the borrow of another fails the borrow.

`StashIsMarked`: a full stash is marked dirty, and holds nothing older than any
call on the stack that has cleared it. It needs `PanicsEnd`, since the flag
is reset before the borrow that may panic (section 4).

`StashIsBalanced`, under `Careful`: the innermost call with arguments has exactly
the texts it has pushed so far unread in the stash, in the order of its arguments; all
calls with arguments below it are still at their argument expressions and have pushed nothing.
So an encode reads what its call pushed, and finds as many texts as the claim was sized
for. `CarefulOwnTexts` and `ClaimsAreCommitted` speak of records that are done and are
inductive with it. A refused call breaks the balance, but careful ones are refused only
after the stop, when no hot record is written any more: without `early` there is a
logger when a call begins (`Framed`).
`EncodeFindsBuffer` rests on `StashHasOneUser`: at most one call is in a Display or Debug
of a stashed argument, and no call above it has pushed a text. The lemmas on `Rank` count the stashed arguments before a
position, with the library's facts on cardinalities.

### LogInit

`BuildsInOrder` ties each step of a build to what it has stored by then;
`FailedBuildLeavesNoTrace` is a part of it, and a late build finds `LOGGER` set
since a finished one is past `LOGGER.set`. `GateIsShut` says that with no
logger and no `set_level` begun, `MAX_LEVEL` is Off and no call is past it.
`SoleWriterRules` covers a writer between its two stores: what `MAX_LEVEL` is when
the facade's maximum is not yet written, and that every such thread is known as
a writer, so that "alone" is not claimed with another one under way.
Both need `Typed`: only configured levels are ever stored.

### CivilTime

Every day is an era, a year of the era counted from March, and a day of that
year (`IsDay`). For each division of `civil_from_days` a lemma says what it
gives on such a day, as linear arithmetic over bounded ranges once the era is
taken out: the correction terms 1460, 36524 and 146096 leave the year, 153 and
5 the month. `NextDate` then shows that the date of the next day is the calendar's
next date, at every end of a month, a year and an era, and `DatesAreRight` is
induction along the behaviour. There is no last day in the theorem, so the
result is more than the code needs. For times of day the walk of the clock
is compared at each tick (`TicksAreCounted`). `FieldsAreInRange` and
`TimestampsTellTimes` are about `FormatTimestamp` itself, for any number of
ticks, which also holds for a system clock that was set wrong.

### RecordCodec

The theorems are about more calls than TLC tries: `AnySpec` has any bytes, any number
of arguments and any base of more than one, 256 among them, and `Spec` implies it
(`SpecIsAnySpec`). Line numbers have four bytes and timestamps eight, as their types have.

Sizes, offsets and the two passes over the arguments are recursive functions, and the
library's induction theorems take operators as parameters, which the provers
cannot instantiate. `InductionOnSets` is induction for sets of numbers instead, from the
well-foundedness of `<`; `RecursionWorks` says, by it, that the function a
recursive definition chooses exists, and so has the equations it was written with.
What remains is an argument in four steps:

- *numbers*: `to_le_bytes` into a field and `from_le_bytes` out of it give the number modulo
  what the field holds, and the number itself if it fits;
- *places*: `Holds(buf, off, bytes)` says that the bytes are there, and
  `FilledTo(buf, n)` that all before is written. A copy makes the one true, moves the other
  ahead, and leaves what lies elsewhere;
- *the writer*: the texts in the stash keep their offsets when others are pushed
  (`StashExtends`), so the size announced for an argument is that of what is later encoded
  for it (`EncodedIsSized`). The k-th argument is then put where the sizes of those
  before it end, and after the last one the region is full (`HotIsWritten`);
- *the reader*: it stands where the writer stood before each argument, and has read
  the texts of those before it. Here the lengths must fit.

`RecordInv` ties a record, and what is printed of it, to its call; it is inductive since a
region is written in one step and read in one, as the claim in the ring has one owner at a time (which
is the subject of `Pipeline`).

### LogLine

`LinesImplementRecords` is the refinement: writing, compiling and printing leave the record
alone, and a compiled call is one of `AnySpec`. The five invariants follow.

For the other three, the two parsers are compared on every string, of any length:

- Both are recursive functions that make of a position what they make of a later one,
  the next after a character, an escape or a placeholder (`JumpsAhead`, `PieceNext`).
  `JumpsWork` and `JumpsKeep` are their existence and their induction, from the end of
  the string to its beginning.
- A placeholder ends for std at a brace that is the first one, unless a brace is the
  fill (`EndsAtFirstBrace`): flags, width, precision and type contain none. So the
  macro's parser cuts the same part out, and goes on at the same place.
- This part, in braces, is the format string of the stash closure. std reads it as it
  was read in the string (`Window` and the lemmas on it, one for each part of the
  grammar), since nothing of it looks behind its brace.
- The trait is guessed from the last characters, and they are std's type if there is
  one, and none of a trait's if there is none (`Stops`), unless a blank comes last.

`ParsersAgree` puts these together, and `TakenAlike` gives what compilation asks for;
`TakenArgumentFits` adds that the types fit, unless they cannot be logged: a trait that
std asks of the argument is what the closure and the bounds ask for. The blank and the
brace as fill are premises there; that `{:}<x}` is refused was found this way, since the
format strings that TLC tried until then were too short for it.

`LineInv` says what each stage of a macro call knows: the string is one of characters, a
compiled call compiles with its number of arguments, a refused one was refused for one
of the reasons `Expand` gives, and the line is what `Printed` makes of the record. With
`PrintsWhatWasLogged` this gives the message, and with it the layout: `Visible`, which
drops the escape sequences, distributes over concatenation, and the two branches of the
prefix are compared piece by piece (`PrefixVisible`). That the coloured and the plain
branch agree is proved for any level, target and line number, and for any message behind
them.

The characters and the argument types are those the module lists, with one character for each that a
parser tells apart, and calls of up to two arguments: what
`ParsersAgree` and `TakenAlike` say holds for any characters and any number of placeholders.

### What is only model-checked

All liveness: `GuardDropReturns`, `DropCallReturns`, `BackoffCallReturns`,
`EverythingComesOut`. Fairness and ENABLED are beyond the prover. So are the four
disagreements of section 4, which are counterexamples and need no proof. Every invariant and
every action property of the other runs is a theorem.


## 6. What is not modelled

The layout of a record's header (one struct, copied both ways), UTF-8
validity, what section 2 leaves out of format strings and arguments, std's layout of values,
the bytes of escape sequences, features turned off (`log-compat`), examples and
benchmarks. Memory ordering below sequential consistency: on weak hardware a thread may
see the level gate open before it sees `LOGGER` set, since the gate is read with `Relaxed`
ordering, and its first calls are then those of `early`. The internals of
`nexus_logbuf` and of the Parker: `LogBuf` assumes that a ring reuses released space alone, so
`ClaimsStayInPlace` is about what the archiver releases; what becomes of a claim that is
dropped and of a record that is larger than its ring is not known here.

## 7. Plan

Done: all modules of section 2, and proofs of all safety properties that the runs check.

What would be next: record sizes in `Pipeline`, as soon as the ring's treatment of a
record that is larger than it is known, and with it what becomes of a Backoff call whose
record never fits; the order of memory accesses weaker than sequential consistency, for
`running` and `MAX_LEVEL`.
