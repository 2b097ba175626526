------------------------------- MODULE LogLine ------------------------------
(***************************************************************************)
(* From the source of a log call to the line in the output: RecordCodec    *)
(* with the format string of a macro call, which is compiled before        *)
(* anything runs, and with the line the archiver prints.                   *)
(*                                                                         *)
(* A line is a sequence of tokens: a character, a word or an escape        *)
(* sequence of the prefix, or the bytes of a datum together with the spec  *)
(* it was formatted with.  How a spec lays out a value is std's.           *)
(*                                                                         *)
(* Calls without a format string of their own, those of RecordCodec, are   *)
(* printed with {} for each argument.                                      *)
(***************************************************************************)
EXTENDS RecordCodec, FormatSpec

CONSTANTS
  Alphabet,    \* characters of format strings
  MaxFormat,   \* bound: length of a format string in general
  TraitSets    \* the sets of std::fmt's traits a type of the user may implement

ASSUME FormatAssumption == MaxFormat \in Nat
ASSUME TraitsAssumption == TraitSets \subseteq SUBSET Traits

VARIABLES
  colored,     \* COLOR_ENABLED, stored once by build()
  stage,       \* where the macro call of the source is
  fmt,         \* its format string
  macroArgs,   \* its arguments, once it compiles
  refused,     \* of arguments it was refused with: whether format! takes them,
               \* and whether one is of a type that the macros cannot log
  line         \* what the archiver has printed of the record in flight

source == << stage, fmt, macroArgs, refused >>
lvars == << vars, colored, source, line >>

-----------------------------------------------------------------------------
(* The types of the arguments. *)

(* What rustc knows of an argument, an expression without a name: its type *)
(* is Pod by #[derive] or by a bare `impl Pod`, generic or not; what       *)
(* needs_drop says of a Pod; the traits the type implements; and whether   *)
(* what a reference to the expression borrows from outlives a `let`        *)
(* (`x.name().as_str()` does not).                                         *)
Types(pods, traitSets) ==
  [derived : pods, generic : pods, drops : pods, lives : BOOLEAN, traits : traitSets]

(* What a String, and in addition what a &str implements. *)
StringTraits == {"Display", "Debug"}
TextTraits == {StringTraits, StringTraits \cup {"Pointer"}}

(* One argument of each kind and type.  The bytes of a "fmt" are the text  *)
(* its closure gave.                                                       *)
MacroArg ==
  [type : {"pod"}, of : Types(BOOLEAN, TraitSets), bytes : {<< 1 >>}]
  \cup [type : {"str"}, of : Types({FALSE}, TextTraits), bytes : {<< >>, << 0, 1 >>}]
  \cup [type : {"fmt"}, of : Types({FALSE}, TraitSets), bytes : {<< 1, 1 >>}]

(* Of two arguments, the types differ in their traits alone.               *)
Ordinary(t) == t.lives /\ ~t.drops /\ ~t.generic /\ ~t.derived
MacroArgLists(n) ==
  IF n < 2 THEN [1 .. n -> MacroArg] ELSE [1 .. n -> {a \in MacroArg : Ordinary(a.of)}]

(* derive_pod asserts for a type without parameters. *)
DeriveAccepts(t) == t.derived /\ ~t.generic => ~t.drops

(* The const assertions of HotArg's methods, for each Pod that is logged.  *)
UseAccepts(t) == ~t.drops

(* What the archiver decodes: the Pod itself, a String, or a               *)
(* PreFormattedValue, which implements every trait.                        *)
DecodedTraits(a) ==
  CASE a.type = "pod" -> a.of.traits
    [] a.type = "str" -> StringTraits
    [] a.type = "fmt" -> Traits

(* rustc takes what is generated for an argument: `let v = &(arg)`, the    *)
(* closure's write! of v, a reference, which is Pointer whatever it refers *)
(* to, and the bounds on what is decoded.  The closure is compiled for     *)
(* every argument, called or not.                                          *)
ArgumentFits(a, inner) ==
  /\ DeriveAccepts(a.of) /\ UseAccepts(a.of)
  /\ a.of.lives
  /\ ClosureTrait(inner) \in a.of.traits \cup {"Pointer"}
  /\ TraitBounds(inner) \subseteq DecodedTraits(a)

(* std, external: an argument is taken by its trait alone. *)
TraitGiven(a, hole) == hole.trait \in a.of.traits

(* What the call evaluates, once its types are settled. *)
Values(args) ==
  [k \in DOMAIN args |-> [type |-> args[k].type, bytes |-> args[k].bytes]]

MacroCall(values) ==
  [kind |-> "hot", level |-> "Info", number |-> 1, name |-> << 0 >>,
   args |-> values]

-----------------------------------------------------------------------------
(* Lines. *)

Word(w) == [word |-> w, bytes |-> << >>, spec |-> << >>]
Datum(bytes, spec) == [word |-> "", bytes |-> bytes, spec |-> spec]
Words(ws) == [i \in DOMAIN ws |-> Word(ws[i])]

Escapes == {"RESET", "GRAY", "RED", "YELLOW", "GREEN", "CYAN"}

LevelColor(level) ==
  CASE level = 1 -> "RED" [] level = 2 -> "YELLOW" [] level = 3 -> "GREEN"
    [] level = 4 -> "CYAN" [] OTHER -> "GRAY"

LevelStr(level) ==
  IF level \in 1 .. 5 THEN << "ERROR", "WARN", "INFO", "DEBUG", "TRACE" >>[level]
  ELSE "?????"

(* Auto asks the terminal, NO_COLOR and TERM. *)
IsColorEnabled(mode, terminal, noColor, dumb) ==
  \/ mode = "Always"
  \/ mode = "Auto" /\ terminal /\ ~noColor /\ ~dumb

(* Line 0 stands for no line. *)
TargetAndLine(target, number) ==
  << Datum(target, << >>) >>
  \o IF number > 0 THEN << Word(":"), Datum(<< number >>, << >>) >> ELSE << >>

(* Fault: the branch with colours prints the line in any case. *)
PrefixWithLine(level, target, number) ==
  IF colored
  THEN Words(<< "GRAY", "timestamp", "RESET", Blank, LevelColor(level), "[",
                LevelStr(level), "]", "RESET", Blank, "GRAY" >>)
       \o << Datum(target, << >>), Word(":"), Datum(<< number >>, << >>) >>
       \o Words(<< "RESET", Blank >>)
  ELSE Words(<< "timestamp", Blank, "[", LevelStr(level), "]", Blank >>)
       \o TargetAndLine(target, number) \o Words(<< Blank >>)

(* write_prefix_inner *)
WritePrefixInner(level, target, number) ==
  IF colored
  THEN Words(<< "GRAY", "timestamp", "RESET", Blank, LevelColor(level), "[",
                LevelStr(level), "]", "RESET", Blank, "GRAY" >>)
       \o TargetAndLine(target, number) \o Words(<< "RESET", Blank >>)
  ELSE Words(<< "timestamp", Blank, "[", LevelStr(level), "]", Blank >>)
       \o TargetAndLine(target, number) \o Words(<< Blank >>)

-----------------------------------------------------------------------------
(* The format string of the call in flight. *)
FormatOf(c) ==
  IF stage = "logged" THEN fmt
  ELSE [i \in 1 .. 2 * Len(c.args) |-> IF i % 2 = 1 THEN Open ELSE Close]

(* Pieces with their holes filled by tokens. *)
Filled(pieces, tokens) ==
  [i \in DOMAIN pieces |->
     IF pieces[i].hole
     THEN tokens[Cardinality({j \in 1 .. i : pieces[j].hole})]
     ELSE Word(pieces[i].char)]

(* The text of a stashed argument: the closure formats a reference to it,  *)
(* and the Pointer of a reference is the address of what it refers to.     *)
Address(text, spec) == [word |-> "address", bytes |-> text, spec |-> spec]
Stashed(text, hole) ==
  IF hole.trait = "Pointer" THEN Address(text, hole.spec) ELSE Datum(text, hole.spec)

(* What writeln! makes of a decoded argument: a PreFormattedValue is       *)
(* written as it is, formatted by the closure on the caller's thread;      *)
(* anything else is formatted now.                                         *)
Shown(f, c, k, spec, text) ==
  IF IsFmt(c.args[k])
  THEN Stashed(text, Holes(ClosureFmt(ParseFormatPlaceholders(f).inners[k]))[1])
  ELSE Datum(text, spec)

MessageOf(f, c, texts) ==
  LET holes == Holes(f)
  IN  Filled(StdFormat(f).pieces,
             [k \in DOMAIN texts |-> Shown(f, c, k, holes[k].spec, texts[k])])

(* What the format function prints when it does not panic: prefix, message *)
(* and newline, or timestamp, label, payload and newline.                  *)
Printed(c, read) ==
  IF ~read.ok THEN << >>
  ELSE (CASE c.kind = "hot" ->
               WritePrefixInner(read.level, read.name, read.number)
               \o MessageOf(FormatOf(c), c, read.texts)
          [] c.kind = "bridge" ->
               WritePrefixInner(read.level, read.name, read.number)
               \o << Datum(read.texts[1], << >>) >>
          [] c.kind = "archive" ->
               << Datum(<< read.number >>, << >>) >> \o Words(<< Blank, "[" >>)
               \o << Datum(read.name, << >>) >> \o Words(<< "]", Blank >>)
               \o << Datum(read.texts[1], << >>) >>)
       \o << Word("newline") >>

-----------------------------------------------------------------------------
LInit ==
  /\ Init
  /\ \E mode \in {"Auto", "Always", "Never"}, terminal, noColor, dumb \in BOOLEAN :
       colored = IsColorEnabled(mode, terminal, noColor, dumb)
  /\ stage = "none" /\ fmt = << >> /\ macroArgs = << >>
  /\ refused = [taken |-> FALSE, unfit |-> FALSE]
  /\ line = << >>

(* Format strings of all kinds, those of one long spec, with braces in it, *)
(* those of a type alone, and those of two placeholders.                   *)
Formats ==
  LET inners == BoundedSeq(Alphabet \ Braces, 2)
  IN  BoundedSeq(Alphabet, MaxFormat)
      \cup {<< Open, ":" >> \o spec \o << Close >> : spec \in BoundedSeq(Alphabet, 3)}
      \cup {<< Open, ":", type, Close >> : type \in DOMAIN TypeChar}
      \cup {<< Open >> \o two[1] \o << Close, Open >> \o two[2] \o << Close >> :
                two \in inners \X inners}

(* Somebody writes a log macro. *)
WriteMacro ==
  /\ stage = "none" /\ pc = "idle"
  /\ stage' = "written"
  /\ fmt' \in Formats
  /\ UNCHANGED << vars, colored, macroArgs, refused, line >>

(* A type for which the macros have no formatter, whatever format! says:   *)
(* an argument that borrows from a temporary (macros 356), a Pod that      *)
(* drops (pod.rs 29) or is not Debug (pod.rs 275, 281), and a string whose *)
(* address is asked for, which is decoded to a String.                     *)
CannotBeLogged(a, hole) ==
  \/ ~a.of.lives
  \/ a.type = "pod" /\ (a.of.drops \/ "Debug" \notin a.of.traits)
  \/ a.type = "str" /\ hole.trait = "Pointer"

(* The lists of n arguments with which the call compiles, and what there   *)
(* is to say of the others.                                                *)
Compiling(n) ==
  LET inners == ParseFormatPlaceholders(fmt).inners
  IN  IF ~FormatCompiles(fmt, n) THEN {}
      ELSE {args \in MacroArgLists(n) : \A k \in 1 .. n : ArgumentFits(args[k], inners[k])}

Verdict(args) ==
  [taken |-> \A k \in DOMAIN args : TraitGiven(args[k], Holes(fmt)[k]),
   unfit |-> \E k \in DOMAIN args : CannotBeLogged(args[k], Holes(fmt)[k])]

Refusals(n) ==
  IF StdTakes(fmt, n) THEN {Verdict(args) : args \in MacroArgLists(n) \ Compiling(n)}
  ELSE {[taken |-> FALSE, unfit |-> FALSE]}

(* __hot_log and rustc. *)
Expand ==
  /\ stage = "written"
  /\ \E n \in 0 .. 2 :
       \/ /\ stage' = "compiled"
          /\ macroArgs' \in {Values(args) : args \in Compiling(n)}
          /\ UNCHANGED refused
       \/ /\ stage' = "refused"
          /\ refused' \in Refusals(n)
          /\ UNCHANGED macroArgs
  /\ UNCHANGED << vars, colored, fmt, line >>

(* The call is made, any time later. *)
SubmitMacro ==
  /\ stage = "compiled"
  /\ Submit(MacroCall(macroArgs))
  /\ stage' = "logged"
  /\ UNCHANGED << colored, fmt, macroArgs, refused, line >>

SubmitOther ==
  /\ stage = "none"
  /\ \E c \in Calls : Submit(c)
  /\ UNCHANGED << colored, source, line >>

PrintLine ==
  /\ Format
  /\ line' = Printed(call, got')
  /\ UNCHANGED << colored, source >>

LRelease == Release /\ line' = << >> /\ UNCHANGED << colored, source >>

LNext ==
  WriteMacro \/ Expand \/ SubmitMacro \/ SubmitOther \/ PrintLine \/ LRelease

LSpec == LInit /\ [][LNext]_lvars

-----------------------------------------------------------------------------
(* A macro call that format! would take, with implicit arguments, is       *)
(* refused only for a type the macros cannot log, for a blank before a     *)
(* closing brace, which std skips and the macro takes for a name or a      *)
(* type, or for a closing brace as fill, where the macro cuts the spec     *)
(* (macros 118-123), asks for another trait or takes the rest for a        *)
(* placeholder.  In particular the trait the macro reads off a spec        *)
(* (macros 85-102) and puts into the where clause is never one that the    *)
(* argument need not have.                                                 *)
BlankBeforeBrace ==
  \E i \in DOMAIN fmt : fmt[i] = Blank /\ CharAt(fmt, i + 1) = Close
BraceAsFill == \E k \in DOMAIN Holes(fmt) : Close \in ToSet(Holes(fmt)[k].spec)

RefusedOnlyIfUnsupported ==
  stage = "refused" /\ refused.taken =>
    refused.unfit \/ BlankBeforeBrace \/ BraceAsFill

(* The message is what format! with the same string and arguments would    *)
(* have given the caller: every argument formatted once, by the spec std   *)
(* reads for its place, whichever thread formats it.  The exceptions are a *)
(* closing brace as fill of an argument, and {:p} of a stashed argument,   *)
(* for which the address of the argument itself is printed, and not the    *)
(* one it points to.                                                       *)
FormatOnCaller(c) ==
  LET holes == Holes(FormatOf(c))
  IN  Filled(StdFormat(FormatOf(c)).pieces,
             [k \in DOMAIN c.args |-> Datum(c.args[k].bytes, holes[k].spec)])

AddressStashed(c) ==
  \E k \in DOMAIN c.args : IsFmt(c.args[k]) /\ Holes(fmt)[k].trait = "Pointer"

PrintsLikeFormat ==
  pc = "printed" /\ stage = "logged" /\ ~BraceAsFill /\ ~AddressStashed(call) =>
    IsSuffix(FormatOnCaller(call) \o << Word("newline") >>, line)

(* A line as a terminal shows it. *)
Visible(tokens) ==
  LET visible[k \in 0 .. Len(tokens)] ==
        IF k = 0 THEN << >>
        ELSE IF tokens[k].word \in Escapes THEN visible[k - 1]
        ELSE Append(visible[k - 1], tokens[k])
  IN  visible[Len(tokens)]

(* "timestamp [LEVEL] target:line message" (format.rs 105, 113), in either *)
(* colour mode, for the level the caller gave; the line is left out when   *)
(* it is 0.  An archive prints "timestamp [LABEL] payload" (archive.rs     *)
(* 158).                                                                   *)
Documented(c) ==
  LET place == IF c.number = 0 THEN << Datum(c.name, << >>) >>
               ELSE << Datum(c.name, << >>), Word(":"), Datum(<< c.number >>, << >>) >>
      name == [Error |-> "ERROR", Warn |-> "WARN", Info |-> "INFO",
               Debug |-> "DEBUG", Trace |-> "TRACE"]
  IN  IF c.kind = "archive"
      THEN << Datum(<< c.number >>, << >>) >> \o Words(<< Blank, "[" >>)
           \o << Datum(c.name, << >>) >> \o Words(<< "]", Blank >>)
      ELSE Words(<< "timestamp", Blank, "[", name[c.level], "]", Blank >>)
           \o place \o << Word(Blank) >>

LineAsDocumented ==
  pc = "printed" /\ ~LengthIsCut(call) => IsPrefix(Documented(call), Visible(line))
=============================================================================
