----------------------------- MODULE FormatSpec -----------------------------
(***************************************************************************)
(* Format strings at compile time: the parser of the log macros            *)
(* (inqjet-macros/src/lib.rs 85-153) and the checks of `generate`, beside  *)
(* the parser of std::fmt, which reads the same string once more when      *)
(* rustc compiles the generated writeln!.                                  *)
(*                                                                         *)
(* The macro's parser looks for the next closing brace and takes what is   *)
(* between; it knows nothing of what a format spec may contain.  std's     *)
(* parser reads argument, fill, flags, width, precision and type in turn.  *)
(*                                                                         *)
(* A string is a sequence of characters.  Widths and precisions taken from *)
(* arguments (`$`, `*`) are left out: std takes usize for them, and no     *)
(* decoded argument is one.                                                *)
(***************************************************************************)
EXTENDS Naturals, Sequences, SequencesExt

(* The characters with which a placeholder begins and ends, and a space.    *)
Open == "{"
Close == "}"
Blank == " "

Braces == {Open, Close}
CharAt(s, i) == IF i \in DOMAIN s THEN s[i] ELSE "end"

(* The characters that name a trait. *)
TypeChar ==
  [c \in {"?", "x", "X", "o", "b", "e", "E", "p"} |->
     CASE c = "?" -> "Debug" [] c = "x" -> "LowerHex" [] c = "X" -> "UpperHex"
       [] c = "o" -> "Octal" [] c = "b" -> "Binary" [] c = "e" -> "LowerExp"
       [] c = "E" -> "UpperExp" [] c = "p" -> "Pointer"]

Traits == {"Display"} \cup {TypeChar[c] : c \in DOMAIN TypeChar}

-----------------------------------------------------------------------------
(* The macro's parser. *)

(* Fault: the trait is the first character of the spec that names one. *)
TraitOfFirst(spec) ==
  LET i == SelectInSeq(spec, LAMBDA c : c \in DOMAIN TypeChar)
  IN  IF i = 0 THEN "Display" ELSE TypeChar[spec[i]]

(* The last character of the spec names the trait, or none does. *)
FormatTraitFromSpec(spec) ==
  IF spec # << >> /\ Last(spec) \in DOMAIN TypeChar
  THEN TypeChar[Last(spec)] ELSE "Display"

(* What stands before the colon, and what from the colon on. *)
SpecStart(inner) ==
  LET colon == SelectInSeq(inner, LAMBDA c : c = ":")
  IN  IF colon = 0 THEN Len(inner) + 1 ELSE colon
ArgPart(inner) == SubSeq(inner, 1, SpecStart(inner) - 1)
TraitOf(inner) ==
  FormatTraitFromSpec(SubSeq(inner, SpecStart(inner), Len(inner)))

(* The closing brace at i or behind it; the end of the string counts.      *)
CloseFrom(fmt, i) ==
  LET close == SelectInSubSeq(fmt, i, Len(fmt), LAMBDA c : c = Close)
  IN  IF close = 0 THEN Len(fmt) + 1 ELSE close

(* What is between the braces of each placeholder.  An index or a name     *)
(* before the colon is an error, a stray closing brace is not.             *)
Parsed(inner, rest) ==
  IF ArgPart(inner) = << >> /\ rest.ok
  THEN [rest EXCEPT !.inners = << inner >> \o @]
  ELSE [ok |-> FALSE, inners |-> << >>]

ParseFormatPlaceholders(fmt) ==
  LET parse[i \in 1 .. Len(fmt) + 2] ==
        IF i > Len(fmt) THEN [ok |-> TRUE, inners |-> << >>]
        ELSE IF fmt[i] \in Braces /\ CharAt(fmt, i + 1) = fmt[i] THEN parse[i + 2]
        ELSE IF fmt[i] # Open THEN parse[i + 1]
        ELSE LET close == CloseFrom(fmt, i + 1)
             IN  Parsed(SubSeq(fmt, i + 1, close - 1), parse[close + 1])
  IN  parse[1]

(* Fault: the stash closures print with {} whatever the spec was. *)
ClosurePlain(inner) == << Open, Close >>

(* The format string with which the caller's thread stashes an argument. *)
ClosureFmt(inner) == << Open >> \o inner \o << Close >>

(* What the generated formatter asks of a decoded argument's type: Debug,  *)
(* a bound of HotDecode::Decoded, and in its where clause one more trait.  *)
TraitBounds(inner) == {"Debug", TraitOf(inner)}

-----------------------------------------------------------------------------
(* std::fmt, external: what rustc makes of a format string.                *)

Digits == {"0", "1", "2", "3", "4", "5", "6", "7", "8", "9"}
NameChars == Digits \cup (DOMAIN TypeChar \ {"?"})
Aligns == {"<", "^", ">"}

(* Over one character, or over all, of a class. *)
SkipOne(s, i, class) == IF CharAt(s, i) \in class THEN i + 1 ELSE i
SkipAll(s, i, class) ==
  LET stop == SelectInSubSeq(s, i, Len(s), LAMBDA c : c \notin class)
  IN  IF stop = 0 THEN Len(s) + 1 ELSE stop

(* [[fill]align][sign]['#'][width]['.' precision], from i on.  Any         *)
(* character before an align is a fill, a brace too.                       *)
BehindFill(s, i) ==
  IF CharAt(s, i + 1) \in Aligns THEN i + 2 ELSE SkipOne(s, i, Aligns)
BehindFlags(s, i) == SkipOne(s, SkipOne(s, i, {"+", "-"}), {"#"})
BehindWidth(s, i) == SkipAll(s, i, Digits)
BehindPrecision(s, i) == IF CharAt(s, i) = "." THEN SkipAll(s, i + 1, Digits) ELSE i

BeforeType(s, i) ==
  BehindPrecision(s, BehindWidth(s, BehindFlags(s, BehindFill(s, i))))

(* '?', 'x', 'x?', ... or nothing. *)
BehindType(s, i) ==
  IF CharAt(s, i) \in {"x", "X"} /\ CharAt(s, i + 1) = "?" THEN i + 2
  ELSE SkipOne(s, i, DOMAIN TypeChar)

(* A placeholder: argument from i on, colon, type, and what is behind it,  *)
(* which must be blanks and a brace.                                       *)
Hole(s, i, colon, type, end) ==
  LET close == SkipAll(s, end, {Blank})
  IN  [ok |-> CharAt(s, close) = Close,
       next |-> close + 1,
       piece |-> [hole |-> TRUE, char |-> "none", explicit |-> colon > i,
                  spec |-> SubSeq(s, colon, end - 1),
                  trait |-> IF end > type THEN TypeChar[s[end - 1]] ELSE "Display"]]

TypedHole(s, i, colon, type) == Hole(s, i, colon, type, BehindType(s, type))

ArgumentHole(s, i, colon) ==
  IF CharAt(s, colon) = ":" THEN TypedHole(s, i, colon, BeforeType(s, colon + 1))
  ELSE Hole(s, i, colon, colon, colon)

Literal(c, ok, next) ==
  [ok |-> ok, next |-> next,
   piece |-> [hole |-> FALSE, char |-> c, explicit |-> FALSE, spec |-> << >>,
              trait |-> "none"]]

(* The piece of the format string that starts at i. *)
PieceAt(s, i) ==
  IF s[i] \in Braces /\ CharAt(s, i + 1) = s[i] THEN Literal(s[i], TRUE, i + 2)
  ELSE IF s[i] = Open THEN ArgumentHole(s, i + 1, SkipAll(s, i + 1, NameChars))
  ELSE Literal(s[i], s[i] # Close, i + 1)

(* All pieces, characters and placeholders, and the placeholders alone. *)
Prepend(first, rest) ==
  IF ~(first.ok /\ rest.ok) THEN [ok |-> FALSE, pieces |-> << >>, holes |-> << >>]
  ELSE [ok |-> TRUE, pieces |-> << first.piece >> \o rest.pieces,
        holes |-> IF first.piece.hole THEN << first.piece >> \o rest.holes
                  ELSE rest.holes]

StdFormat(s) ==
  LET std[i \in 1 .. Len(s) + 2] ==
        IF i > Len(s) THEN [ok |-> TRUE, pieces |-> << >>, holes |-> << >>]
        ELSE LET first == PieceAt(s, i) IN Prepend(first, std[first.next])
  IN  std[1]

Holes(fmt) == StdFormat(fmt).holes

(* rustc takes a format string with so many implicit arguments. *)
StdTakes(fmt, n) ==
  /\ StdFormat(fmt).ok
  /\ Len(Holes(fmt)) = n
  /\ \A k \in 1 .. n : ~Holes(fmt)[k].explicit

(* What the closure's write! asks of the argument. *)
ClosureTrait(inner) == Holes(ClosureFmt(inner))[1].trait

-----------------------------------------------------------------------------
(* A macro call with n arguments expands, and rustc takes what it expands  *)
(* to, as far as the strings decide it: one write! for each argument, and  *)
(* the writeln!, which may rely on the bounds alone.                       *)
TypesFit(inners, holes) ==
  \A k \in DOMAIN holes :
    /\ StdTakes(ClosureFmt(inners[k]), 1)
    /\ holes[k].trait \in TraitBounds(inners[k])

FormatCompiles(fmt, n) ==
  /\ ParseFormatPlaceholders(fmt).ok
  /\ Len(ParseFormatPlaceholders(fmt).inners) = n
  /\ StdTakes(fmt, n)
  /\ TypesFit(ParseFormatPlaceholders(fmt).inners, Holes(fmt))
=============================================================================
