----------------------------- MODULE RecordCodec ----------------------------
(***************************************************************************)
(* The bytes of a region, from the call that writes them to the format     *)
(* function that reads them: records of the log bridge (record.rs), of the *)
(* macros (the code generated in inqjet-macros, pod.rs), and of archive    *)
(* handles (archive.rs).                                                   *)
(*                                                                         *)
(* A byte counts from 0 to Base - 1, with Base 256 in the code and smaller *)
(* here, so that a length that does not fit its field has a handful of     *)
(* bytes in place of 65536 or 2^32.  All field widths are those of the     *)
(* code.  The 24 bytes of the header are copied as one struct, so that the *)
(* header is a record here and region is the payload behind it.            *)
(*                                                                         *)
(* One record is in flight at a time; what else shares the ring is in      *)
(* Pipeline.  That texts are valid UTF-8 is not modelled: a reader that    *)
(* cuts a text in two may panic in the code where it prints it here.       *)
(***************************************************************************)
EXTENDS Naturals, Sequences, SequencesExt

CONSTANTS
  Base,            \* values of a byte
  Levels,          \* levels of calls of the bridge; a macro logs at Info
  Numbers,         \* line numbers and timestamps
  TargetLengths,   \* lengths of targets, in bytes
  MessageLengths,  \* lengths of messages of the bridge
  PodSizes,        \* sizes of Pod arguments and of archive tags
  TextLengths,     \* lengths of text arguments
  PayloadLengths,  \* lengths of archive payloads
  MaxArgs          \* bound: arguments of a macro call

(* The weight of a byte with k others below it: Base to the power k. *)
Weight[k \in 0 .. 8] == IF k = 0 THEN 1 ELSE Base * Weight[k - 1]

ASSUME BaseAssumption == Base \in Nat /\ Base > 1
ASSUME NumbersAssumption == \A n \in Numbers : n \in Nat /\ n < Weight[4]
ASSUME LevelsAssumption ==
  Levels \subseteq {"Error", "Warn", "Info", "Debug", "Trace"}
ASSUME LengthsAssumption ==
  /\ TargetLengths \cup MessageLengths \cup PodSizes \cup TextLengths
       \cup PayloadLengths \subseteq Nat
  /\ MaxArgs \in Nat

VARIABLES
  pc,      \* where the record is
  call,    \* what was logged
  header,  \* its header; an archive has one format function per stream
  region,  \* the bytes of its payload, once committed
  got      \* what the format function made of them

vars == << pc, call, header, region, got >>

Byte == 0 .. Base - 1

(* A value no byte has: the region was claimed and this one not written. *)
Unwritten == Base

(* Some bytes of a given length, in one of two patterns. *)
BytesOf(n) == {[i \in 1 .. n |-> (i + a) % 2] : a \in {0, 1}}
BytesIn(lengths) == UNION {BytesOf(n) : n \in lengths}

(* An argument is a Pod, a string (copied), or anything else (formatted by *)
(* the caller's thread into the fallback stash).                           *)
Arg == [type : {"pod"}, bytes : BytesIn(PodSizes)]
         \cup [type : {"str", "fmt"}, bytes : BytesIn(TextLengths)]

(* What is logged: a level, a line number or a timestamp, a target or a    *)
(* tag, and arguments, a message or a payload.                             *)
Calls ==
  [kind : {"hot"}, level : {"Info"}, number : Numbers, name : BytesIn(TargetLengths),
   args : UNION {[1 .. n -> Arg] : n \in 0 .. MaxArgs}]
  \cup
  [kind : {"bridge"}, level : Levels, number : Numbers, name : BytesIn(TargetLengths),
   args : [1 .. 1 -> [type : {"message"}, bytes : BytesIn(MessageLengths)]]]
  \cup
  [kind : {"archive"}, level : {"none"}, number : Numbers, name : BytesIn(PodSizes),
   args : [1 .. 1 -> [type : {"payload"}, bytes : BytesIn(PayloadLengths)]]]

-----------------------------------------------------------------------------
(* Numbers as bytes. *)

(* The sums of the first k numbers of a sequence, for every k. *)
Sums(ns) ==
  LET sum[k \in 0 .. Len(ns)] == IF k = 0 THEN 0 ELSE sum[k - 1] + ns[k]
  IN  sum

(* Fault: a number is not cut to the width of its field. *)
ToLEUncut(n, width) == [k \in 1 .. width |-> n \div Weight[k - 1]]

(* to_le_bytes of n cut to so many bytes. *)
ToLE(n, width) == [k \in 1 .. width |-> (n \div Weight[k - 1]) % Base]

(* from_le_bytes *)
FromLE(bytes) ==
  Sums([k \in DOMAIN bytes |-> bytes[k] * Weight[k - 1]])[Len(bytes)]

(* The bytes off .. off + n of a slice, if it has them: Rust panics else. *)
Has(bytes, off, n) == off + n <= Len(bytes)
Slice(bytes, off, n) == SubSeq(bytes, off + 1, off + n)

(* copy_from_slice to offset off.  A region that grows stands for the      *)
(* panic of a slice out of range.                                          *)
Put(buf, off, bytes) ==
  LET end == off + Len(bytes) IN
  [i \in 1 .. IF end > Len(buf) THEN end ELSE Len(buf) |->
     IF off < i /\ i <= end THEN bytes[i - off]
     ELSE IF i <= Len(buf) THEN buf[i] ELSE Unwritten]

Claimed(size) == [i \in 1 .. size |-> Unwritten]

-----------------------------------------------------------------------------
(* The fallback stash of a macro call that no other call disturbs: the     *)
(* texts in one buffer, with the offsets at which they start.              *)

IsFmt(a) == a.type = "fmt"

(* hot_size_with; only what cannot be copied is stashed. *)
Push(s, a) ==
  IF IsFmt(a)
  THEN [buf |-> s.buf \o a.bytes, offsets |-> Append(s.offsets, Len(s.buf))]
  ELSE s

(* The stash after each of the arguments; at first it was cleared. *)
Stash(args) ==
  LET stash[k \in 0 .. Len(args)] ==
        IF k = 0 THEN [buf |-> << >>, offsets |-> << >>]
        ELSE Push(stash[k - 1], args[k])
  IN  stash

(* Fault: a text reaches to the end of the stash. *)
StashedToEnd(args, j) ==
  LET s == Stash(args)[Len(args)]
  IN  SubSeq(s.buf, s.offsets[j] + 1, Len(s.buf))

(* fallback_stash_encode: the text of the read index j, from its offset to *)
(* the next or to the end.                                                 *)
StashedText(args, j) ==
  LET s == Stash(args)[Len(args)]
      end == IF j + 1 \in DOMAIN s.offsets THEN s.offsets[j + 1] ELSE Len(s.buf)
  IN  SubSeq(s.buf, s.offsets[j] + 1, end)

-----------------------------------------------------------------------------
(* The producer's side. *)

(* Fault: a stashed argument is sized by the whole stash. *)
SizeOfWholeStash(args, k) ==
  IF args[k].type = "pod" THEN Len(args[k].bytes)
  ELSE IF args[k].type = "str" THEN 4 + Len(args[k].bytes)
  ELSE 4 + Len(Stash(args)[k].buf)

(* hot_size_with *)
HotSize(args, k) ==
  CASE args[k].type = "pod" -> Len(args[k].bytes)
    [] args[k].type = "str" -> 4 + Len(args[k].bytes)
    [] args[k].type = "fmt" -> 4 + Len(Stash(args)[k].buf) - Len(Stash(args)[k - 1].buf)

(* The sizes of the first k arguments together. *)
HotSizes(args, k) == Sums([i \in DOMAIN args |-> HotSize(args, i)])[k]

(* Fault: the length prefix counts itself. *)
LengthOfAll(bytes) == ToLE(Len(bytes) + 4, 4) \o bytes

(* A text behind the four bytes of its length. *)
Prefixed(bytes) == ToLE(Len(bytes), 4) \o bytes

(* hot_encode; of the stashed arguments up to k, k is the last. *)
HotEncode(args, k) ==
  LET j == Len(Stash(args)[k].offsets) IN
  CASE args[k].type = "pod" -> args[k].bytes
    [] args[k].type = "str" -> Prefixed(args[k].bytes)
    [] args[k].type = "fmt" -> Prefixed(StashedText(args, j))

(* level_to_u8, and the levels the macros pass. *)
LevelToU8 ==
  [Error |-> 1, Warn |-> 2, Info |-> 3, Debug |-> 4, Trace |-> 5, none |-> 0]

(* hot_witness: what the types tell the archiver of each argument. *)
Witnesses(args) ==
  [k \in DOMAIN args |->
     [pod |-> args[k].type = "pod",
      size |-> IF args[k].type = "pod" THEN Len(args[k].bytes) ELSE 0]]

(* The format function, made at the call site (for an archive, when the    *)
(* stream was added), and the level.                                       *)
RecordHeader(c) ==
  [kind |-> c.kind, level |-> LevelToU8[c.level],
   witnesses |-> IF c.kind = "hot" THEN Witnesses(c.args) ELSE << >>,
   tagSize |-> IF c.kind = "archive" THEN Len(c.name) ELSE 0]

(* Line, length of the target cut to two bytes, target. *)
WritePrefix(buf, c) ==
  Put(Put(Put(buf, 0, ToLE(c.number, 4)), 4, ToLE(Len(c.name), 2)), 6, c.name)

(* The payload size a macro call announces, and what its closure writes. *)
HotTotal(c) == 4 + 2 + Len(c.name) + HotSizes(c.args, Len(c.args))

HotWrite(c) ==
  LET written[k \in 0 .. Len(c.args)] ==
        IF k = 0 THEN WritePrefix(Claimed(HotTotal(c)), c)
        ELSE Put(written[k - 1], 6 + Len(c.name) + HotSizes(c.args, k - 1),
                 HotEncode(c.args, k))
  IN  written[Len(c.args)]

(* standard_record_size without the header, write_standard_payload. *)
StandardTotal(c) == 4 + 2 + Len(c.name) + Len(c.args[1].bytes)

StandardWrite(c) ==
  Put(WritePrefix(Claimed(StandardTotal(c)), c), 6 + Len(c.name), c.args[1].bytes)

TargetTooLong(c) == Len(c.name) >= Weight[2]

(* ArchiveHandle::write: timestamp, tag, length cut to four bytes, payload. *)
ArchiveTotal(c) == 8 + Len(c.name) + 4 + Len(c.args[1].bytes)

ArchiveWrite(c) ==
  LET tag == 8 + Len(c.name)
      payload == c.args[1].bytes
      stamped == Put(Put(Claimed(ArchiveTotal(c)), 0, ToLE(c.number, 8)), 8, c.name)
  IN  Put(Put(stamped, tag, ToLE(Len(payload), 4)), tag + 4, payload)

Total(c) ==
  CASE c.kind = "hot" -> HotTotal(c)
    [] c.kind = "bridge" -> StandardTotal(c)
    [] c.kind = "archive" -> ArchiveTotal(c)

Write(c) ==
  CASE c.kind = "hot" -> HotWrite(c)
    [] c.kind = "bridge" -> StandardWrite(c)
    [] c.kind = "archive" -> ArchiveWrite(c)

-----------------------------------------------------------------------------
(* The archiver's side.  The format function knows the types of the        *)
(* arguments (its witnesses) and the size of a Pod or a tag, no length of  *)
(* a text.                                                                 *)

Line(level, number, name, texts) ==
  [ok |-> TRUE, level |-> level, number |-> number, name |-> name, texts |-> texts]
Panics == [ok |-> FALSE, level |-> 0, number |-> 0, name |-> << >>, texts |-> << >>]

(* bytes_from_buf *)
TextAt(buf, off) ==
  LET n == FromLE(Slice(buf, off, 4)) IN
  IF Has(buf, off, 4) /\ Has(buf, off + 4, n)
  THEN [ok |-> TRUE, bytes |-> Slice(buf, off + 4, n), used |-> 4 + n]
  ELSE [ok |-> FALSE, bytes |-> << >>, used |-> 0]

(* hot_decode; a Pod is asserted to be there in debug builds, and a        *)
(* release build would read what lies behind the region.                   *)
HotDecode(witness, buf, off) ==
  IF ~witness.pod THEN TextAt(buf, off)
  ELSE IF Has(buf, off, witness.size)
       THEN [ok |-> TRUE, bytes |-> Slice(buf, off, witness.size),
             used |-> witness.size]
       ELSE [ok |-> FALSE, bytes |-> << >>, used |-> 0]

(* The generated formatter: prefix, then one argument after the other. *)
HotRead(h, buf) ==
  LET tl == FromLE(Slice(buf, 4, 2))
      read[k \in 0 .. Len(h.witnesses)] ==
        IF k = 0 THEN [ok |-> Has(buf, 6, tl), off |-> 6 + tl, texts |-> << >>]
        ELSE LET before == read[k - 1]
                 arg == HotDecode(h.witnesses[k], buf, before.off)
             IN  IF before.ok /\ arg.ok
                 THEN [ok |-> TRUE, off |-> before.off + arg.used,
                       texts |-> Append(before.texts, arg.bytes)]
                 ELSE [before EXCEPT !.ok = FALSE]
      all == read[Len(h.witnesses)]
  IN  IF all.ok
      THEN Line(h.level, FromLE(Slice(buf, 0, 4)), Slice(buf, 6, tl), all.texts)
      ELSE Panics

(* read_standard_payload: the message is the rest. *)
StandardRead(h, buf) ==
  LET tl == FromLE(Slice(buf, 4, 2)) IN
  IF Has(buf, 6, tl)
  THEN Line(h.level, FromLE(Slice(buf, 0, 4)), Slice(buf, 6, tl),
            << SubSeq(buf, 7 + tl, Len(buf)) >>)
  ELSE Panics

(* Fault: the payload is read from its length on. *)
ArchiveReadEarly(tagSize, buf) ==
  LET n == FromLE(Slice(buf, 8 + tagSize, 4)) IN
  Line(0, FromLE(Slice(buf, 0, 8)), Slice(buf, 8, tagSize),
       << Slice(buf, 8 + tagSize, n) >>)

(* archive_format_fn *)
ArchiveRead(tagSize, buf) ==
  LET n == FromLE(Slice(buf, 8 + tagSize, 4)) IN
  IF Has(buf, 8 + tagSize + 4, n)
  THEN Line(0, FromLE(Slice(buf, 0, 8)), Slice(buf, 8, tagSize),
            << Slice(buf, 8 + tagSize + 4, n) >>)
  ELSE Panics

(* The archiver calls the function the header or the stream names. *)
Read(h, buf) ==
  CASE h.kind = "hot" -> HotRead(h, buf)
    [] h.kind = "bridge" -> StandardRead(h, buf)
    [] h.kind = "archive" -> ArchiveRead(h.tagSize, buf)

-----------------------------------------------------------------------------
NoCall == [kind |-> "none", level |-> "none", number |-> 0, name |-> << >>, args |-> << >>]

TypeOK ==
  /\ pc \in {"idle", "committed", "refused", "printed", "dead"}
  /\ \A i \in DOMAIN region : region[i] \in Byte \cup {Unwritten}
  /\ \A i \in DOMAIN got.name : got.name[i] \in Byte
  /\ header.level \in 0 .. 5

NoHeader == RecordHeader(NoCall)

Init ==
  /\ pc = "idle" /\ call = NoCall /\ header = NoHeader
  /\ region = << >> /\ got = Panics

(* A call writes its record and commits it; or it panics with the region   *)
(* claimed, by the assertion of the bridge or a slice out of range.        *)
Submit(c) ==
  /\ pc = "idle"
  /\ call' = c
  /\ \/ /\ c.kind = "bridge" /\ TargetTooLong(c)
        /\ pc' = "refused"
        /\ UNCHANGED << header, region >>
     \/ /\ ~(c.kind = "bridge" /\ TargetTooLong(c))
        /\ header' = RecordHeader(c)
        /\ region' = Write(c)
        /\ pc' = IF Len(region') = Total(c) THEN "committed" ELSE "refused"
  /\ UNCHANGED got

(* The archiver runs the format function, which prints or panics. *)
Format ==
  /\ pc = "committed"
  /\ got' = Read(header, region)
  /\ pc' = IF got'.ok THEN "printed" ELSE "dead"
  /\ UNCHANGED << call, header, region >>

(* The region is released; the next record finds nothing of this one. *)
Release ==
  /\ pc = "printed"
  /\ pc' = "idle"
  /\ call' = NoCall /\ header' = NoHeader /\ region' = << >> /\ got' = Panics

Next == (\E c \in Calls : Submit(c)) \/ Format \/ Release

Spec == Init /\ [][Next]_vars

-----------------------------------------------------------------------------
(* A length is longer than its field, and nothing checks it: the target of *)
(* a macro call, a text argument, an archive payload.                      *)
LengthIsCut(c) ==
  \/ c.kind = "hot" /\ TargetTooLong(c)
  \/ c.kind # "bridge" /\ \E k \in DOMAIN c.args :
                            c.args[k].type # "pod" /\ Len(c.args[k].bytes) >= Weight[4]

(* The size announced before the claim is the number of bytes written into *)
(* it: no write runs past the claim, which would panic with the claim      *)
(* open, and no byte of it is left as it was (archive.rs 105, macros 363,  *)
(* record.rs 93).  Only the bridge refuses a call, for its target.         *)
RegionIsFilled ==
  /\ pc = "committed" => \A i \in DOMAIN region : region[i] # Unwritten
  /\ pc = "refused" => call.kind = "bridge" /\ TargetTooLong(call)

(* What is printed is what was logged, level and all, for every mix of     *)
(* arguments, unless a length was cut to its field; the bridge never       *)
(* prints anything else.                                                   *)
PrintsWhatWasLogged ==
  pc = "printed" /\ ~LengthIsCut(call) =>
    got = Line(LevelToU8[call.level], call.number, call.name,
               [k \in DOMAIN call.args |-> call.args[k].bytes])

(* A format function that panics ends the archiver.  None does, unless a   *)
(* length was cut.                                                         *)
ReaderSurvives == pc = "dead" => LengthIsCut(call) /\ call.kind = "hot"

(* An archive payload whose length was cut is printed as a prefix of       *)
(* itself, and its label is right.                                         *)
CutPayloadIsPrefix ==
  pc = "printed" /\ call.kind = "archive" =>
    /\ got.number = call.number /\ got.name = call.name
    /\ IsPrefix(got.texts[1], call.args[1].bytes)
=============================================================================
