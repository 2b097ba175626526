--------------------------- MODULE FallbackStash ----------------------------
(***************************************************************************)
(* The thread-local state of one thread that logs: the fallback stash of   *)
(* pod.rs, which carries the text of arguments that are not Pod from the   *)
(* macro expansion to the encode closure, and the producer and text buffer *)
(* of logger.rs.                                                           *)
(*                                                                         *)
(* The code of the caller runs in the middle of a log call: the argument   *)
(* expressions, and the Display and Debug implementations of arguments.    *)
(* It may log itself, so calls nest; it may panic, and the panic may be    *)
(* caught outside of every call or by caller's code inside of one, so a    *)
(* thread may log on with whatever its thread-locals were left at.         *)
(* Elsewhere, another thread builds the logger and drops its guard, at any *)
(* time.  The calls in progress are a stack, the innermost last.  A text   *)
(* is named by its call and its argument position; texts of different      *)
(* names may differ in length or not.                                      *)
(***************************************************************************)
EXTENDS Naturals, Sequences, SequencesExt

CONSTANTS
  MaxArgs,    \* bound: arguments of a call
  MaxCalls,   \* bound: calls in a behaviour
  Settings    \* what the caller's code and the logger may do

ASSUME BoundsAssumption == MaxArgs \in Nat /\ MaxCalls \in Nat

(* drop: BackpressureMode::Drop; nestInFormat: Display and Debug may log;  *)
(* caught: by whom panics are caught, if by anybody; early: the macros may *)
(* find the level gate open and LOGGER unset, for set_level (lib.rs 322)   *)
(* was called before build().                                              *)
ASSUME SettingsAssumption ==
  Settings \subseteq [drop : BOOLEAN, nestInFormat : BOOLEAN,
                      caught : {"never", "outside", "inside"}, early : BOOLEAN]

VARIABLES
  setting,
  logger,    \* LOGGER: unset, set and `running`, or set and stopped
  alive,     \* no panic has ended the thread
  made,      \* calls made
  stack,     \* calls in progress
  dirty,     \* FALLBACK_DIRTY
  stash,     \* FALLBACK_BUF cut at FALLBACK_OFFSETS: the texts stashed
  readIdx,   \* FALLBACK_READ_IDX
  \* history, for the properties only
  last,      \* the record submitted last
  abandoned  \* a claim was left uncommitted by a panic of the encode closure

vars ==
  << setting, logger, alive, made, stack, dirty, stash, readIdx, last, abandoned >>

stashed == << dirty, stash, readIdx >>
history == << last, abandoned >>

(* Arguments, TRUE for one that goes through the stash. *)
ArgLists == UNION {[1 .. n -> BOOLEAN] : n \in 0 .. MaxArgs}

NoText == [call |-> 0, arg |-> 0]
Text == [call : 0 .. MaxCalls, arg : 0 .. MaxArgs]

Frame ==
  [id : 1 .. MaxCalls, kind : {"hot", "bridge"}, args : ArgLists,
   phase : {"args", "stash", "fmt", "submit", "format"}, at : 1 .. MaxArgs + 1]

NoRecord == [id |-> 0, args |-> << >>, texts |-> << >>]
Record == [id : 0 .. MaxCalls, args : ArgLists, texts : Seq(Text)]

TypeOK ==
  /\ setting \in Settings
  /\ logger \in {"none", "running", "stopped"}
  /\ alive \in BOOLEAN /\ dirty \in BOOLEAN
  /\ made \in 0 .. MaxCalls
  /\ stack \in Seq(Frame)
  /\ stash \in Seq(Text)
  /\ readIdx \in 0 .. MaxArgs * MaxCalls
  /\ last \in Record /\ abandoned \in BOOLEAN

Init ==
  /\ setting \in Settings
  /\ logger = "none"
  /\ alive = TRUE
  /\ made = 0
  /\ stack = << >>
  /\ dirty = FALSE
  /\ stash = << >>
  /\ readIdx = 0
  /\ last = NoRecord /\ abandoned = FALSE

Running == logger = "running"

Top == stack[Len(stack)]
InPhase(phase) == stack # << >> /\ Top.phase = phase
Become(frame) == stack' = [stack EXCEPT ![Len(stack)] = frame]

(* A Display or Debug of the caller is on the stack.  In "fmt" it runs     *)
(* under the mutable borrow of FALLBACK_BUF, in "format" under that of     *)
(* TLS_PRODUCER.                                                           *)
SomeIn(phase) == \E i \in DOMAIN stack : stack[i].phase = phase
BufBorrowed == SomeIn("fmt")
ProducerBorrowed == SomeIn("format")

(* Who may call: the thread itself, or code of the caller inside a call.   *)
(* The gate, MAX_LEVEL, opens after LOGGER is set, or by set_level.        *)
MayCall ==
  /\ alive /\ made < MaxCalls
  /\ logger # "none" \/ setting.early
  /\ \/ stack = << >> \/ InPhase("args")
     \/ setting.nestInFormat /\ (InPhase("fmt") \/ InPhase("format"))

(* A panic unwinds the calls in progress, which ends their borrows, up to  *)
(* the code that catches it: outside of every call, or in one of the first *)
(* n calls.  Every call below another one is in code of the caller.        *)
Unwind(n) ==
  \/ stack' = << >> /\ alive' = (setting.caught # "never")
  \/ /\ setting.caught = "inside"
     /\ \E i \in 1 .. n : stack' = SubSeq(stack, 1, i)
     /\ UNCHANGED alive

-----------------------------------------------------------------------------
(* fallback_stash_clear, at the start of a hot call with arguments. *)

(* Fault: the stash is emptied but read on from where it was. *)
ClearKeepsIndex ==
  /\ dirty' = FALSE
  /\ IF dirty THEN stash' = << >> /\ UNCHANGED readIdx
     ELSE UNCHANGED << stash, readIdx >>

(* Fault: it is read from the start again, but not emptied. *)
ClearIndexOnly ==
  /\ dirty' = FALSE
  /\ readIdx' = (IF dirty THEN 0 ELSE readIdx)
  /\ UNCHANGED stash

Clear ==
  /\ dirty' = FALSE
  /\ IF dirty THEN stash' = << >> /\ readIdx' = 0
     ELSE UNCHANGED << stash, readIdx >>

(* Fault: the arguments are counted from zero. *)
PushAtZero(kind, args, phase) ==
  stack' = Append(stack, [id |-> made + 1, kind |-> kind, args |-> args,
                          phase |-> phase, at |-> 0])

(* A call starts, at its first argument. *)
Push(kind, args, phase) ==
  stack' = Append(stack, [id |-> made + 1, kind |-> kind, args |-> args,
                          phase |-> phase, at |-> 1])

(* A macro call with arguments: clear, then evaluate them.  `dirty` is     *)
(* reset before FALLBACK_BUF is borrowed, and the borrow panics while a    *)
(* Display or Debug of a stashed argument runs.                            *)
EnterHot(args) ==
  /\ MayCall
  /\ args # << >>
  /\ made' = made + 1
  /\ IF dirty /\ BufBorrowed
     THEN dirty' = FALSE /\ Unwind(Len(stack)) /\ UNCHANGED << stash, readIdx >>
     ELSE Clear /\ Push("hot", args, "args") /\ UNCHANGED alive
  /\ UNCHANGED << setting, logger, history >>

(* A macro call without arguments does not look at the stash. *)
EnterHotPlain ==
  /\ MayCall
  /\ made' = made + 1
  /\ Push("hot", << >>, "submit")
  /\ UNCHANGED << setting, logger, alive, stashed, history >>

(* All argument expressions have been evaluated (`let __vN = &(..)`). *)
ArgsEvaluated ==
  /\ InPhase("args")
  /\ Become([Top EXCEPT !.phase = "stash"])
  /\ UNCHANGED << setting, logger, alive, made, stashed, history >>

(* An argument expression leaves the call (`?`, return, break). *)
LeaveArgs ==
  /\ InPhase("args")
  /\ stack' = Front(stack)
  /\ UNCHANGED << setting, logger, alive, made, stashed, history >>

(* hot_size_with, argument by argument: a Pod is only measured. *)
SizePod ==
  /\ InPhase("stash")
  /\ Top.at \in DOMAIN Top.args
  /\ ~Top.args[Top.at]
  /\ Become([Top EXCEPT !.at = @ + 1])
  /\ UNCHANGED << setting, logger, alive, made, stashed, history >>

(* Fault: FALLBACK_BUF is not borrowed while Display or Debug runs. *)
PushUnborrowed ==
  /\ stash' = Append(stash, [call |-> Top.id, arg |-> Top.at])
  /\ Become([Top EXCEPT !.phase = "fmt"])
  /\ UNCHANGED alive

(* The borrow of FALLBACK_BUF panics while a Display or Debug of another   *)
(* call's stashed argument runs.                                           *)
PushOffset ==
  IF BufBorrowed
  THEN Unwind(Len(stack) - 1) /\ UNCHANGED stash
  ELSE /\ stash' = Append(stash, [call |-> Top.id, arg |-> Top.at])
       /\ Become([Top EXCEPT !.phase = "fmt"])
       /\ UNCHANGED alive

AtStashed ==
  /\ InPhase("stash")
  /\ Top.at \in DOMAIN Top.args
  /\ Top.args[Top.at]

(* Fault: nothing says that there is something to clear. *)
StashBeginUnmarked ==
  /\ AtStashed
  /\ PushOffset
  /\ UNCHANGED << setting, logger, made, dirty, readIdx, history >>

(* Anything else gets an offset, and its Display or Debug starts to run. *)
StashBegin ==
  /\ AtStashed
  /\ dirty' = TRUE
  /\ PushOffset
  /\ UNCHANGED << setting, logger, made, readIdx, history >>

StashEnd ==
  /\ InPhase("fmt")
  /\ Become([Top EXCEPT !.phase = "stash", !.at = @ + 1])
  /\ UNCHANGED << setting, logger, alive, made, stashed, history >>

AllSized ==
  /\ InPhase("stash")
  /\ Top.at = Len(Top.args) + 1
  /\ Become([Top EXCEPT !.phase = "submit"])
  /\ UNCHANGED << setting, logger, alive, made, stashed, history >>

-----------------------------------------------------------------------------
(* hot_log_submit and its encode closure. *)

Stashed(args) == {k \in DOMAIN args : args[k]}
TextCount(args) == Cardinality(Stashed(args))

(* fallback_stash_encode for one argument after the other; NoText is a     *)
(* read beyond the stash.                                                  *)
EncodedTexts(args) ==
  [j \in 1 .. TextCount(args) |->
     IF readIdx + j \in DOMAIN stash THEN stash[readIdx + j] ELSE NoText]

(* The argument whose text goes j-th through the stash. *)
ArgOfText(args, j) ==
  CHOOSE k \in Stashed(args) : Cardinality({i \in Stashed(args) : i <= k}) = j

(* The j-th text is that of the argument the claim was sized for. *)
Fits(j) ==
  EncodedTexts(Top.args)[j] = [call |-> Top.id, arg |-> ArgOfText(Top.args, j)]

Submitted(texts) ==
  last' = [id |-> Top.id, args |-> Top.args, texts |-> texts]

SubmitHot ==
  /\ InPhase("submit")
  /\ Running
  /\ ~ProducerBorrowed
  /\ NoText \notin ToSet(EncodedTexts(Top.args))
  /\ Submitted(EncodedTexts(Top.args))
  /\ readIdx' = readIdx + TextCount(Top.args)
  /\ stack' = Front(stack)
  /\ UNCHANGED << setting, logger, alive, made, dirty, stash, abandoned >>

(* A text that is longer than its place may run past the claim, and one    *)
(* beyond the stash does not exist: either panics, the read index already  *)
(* advanced, the region claimed and not committed.  The borrow of          *)
(* FALLBACK_BUF between the two does not: EncodeFindsBuffer.               *)
EncodePanics ==
  /\ InPhase("submit")
  /\ Running
  /\ ~ProducerBorrowed
  /\ \E j \in 1 .. TextCount(Top.args) :
       /\ ~Fits(j)
       /\ NoText \notin ToSet(SubSeq(EncodedTexts(Top.args), 1, j - 1))
       /\ readIdx' = readIdx + j
  /\ abandoned' = TRUE
  /\ Unwind(Len(stack) - 1)
  /\ UNCHANGED << setting, logger, made, dirty, stash, last >>

(* No logger, or it is stopping; in Drop mode also a full ring. *)
RefuseHot ==
  /\ InPhase("submit")
  /\ ~Running \/ (setting.drop /\ ~ProducerBorrowed)
  /\ stack' = Front(stack)
  /\ UNCHANGED << setting, logger, alive, made, stashed, history >>

(* try_borrow_mut fails: "re-entrant logging detected". *)
SubmitReentrant ==
  /\ InPhase("submit")
  /\ Running
  /\ ProducerBorrowed
  /\ Unwind(Len(stack) - 1)
  /\ UNCHANGED << setting, logger, made, stashed, history >>

-----------------------------------------------------------------------------
(* log_impl, the bridge from the log crate. *)

(* Fault: the producer is borrowed only once the text is there. *)
EnterBridgeUnguarded ==
  /\ MayCall /\ Running
  /\ made' = made + 1
  /\ Push("bridge", << >>, "format") /\ UNCHANGED alive
  /\ UNCHANGED << setting, logger, stashed, history >>

(* The producer is borrowed before TLS_BUF is written. *)
EnterBridge ==
  /\ MayCall
  /\ Running
  /\ made' = made + 1
  /\ IF ProducerBorrowed THEN Unwind(Len(stack))
     ELSE Push("bridge", << >>, "format") /\ UNCHANGED alive
  /\ UNCHANGED << setting, logger, stashed, history >>

(* The text is in TLS_BUF: claim and commit, or drop it. *)
SubmitBridge ==
  /\ InPhase("format")
  /\ \/ Submitted(<< >>)
     \/ (~Running \/ setting.drop) /\ UNCHANGED last
  /\ stack' = Front(stack)
  /\ UNCHANGED << setting, logger, alive, made, dirty, stash, readIdx, abandoned >>

-----------------------------------------------------------------------------
(* Code of the caller panics. *)
CallerPanics ==
  /\ InPhase("args") \/ InPhase("fmt") \/ InPhase("format")
  /\ Unwind(Len(stack) - 1)
  /\ UNCHANGED << setting, logger, made, stashed, history >>

(* Elsewhere, build() sets LOGGER. *)
Build ==
  /\ logger = "none"
  /\ logger' = "running"
  /\ UNCHANGED << setting, alive, made, stack, stashed, history >>

(* Elsewhere, the guard is dropped. *)
Stop ==
  /\ logger = "running"
  /\ logger' = "stopped"
  /\ UNCHANGED << setting, alive, made, stack, stashed, history >>

Next ==
  \/ \E args \in ArgLists : EnterHot(args)
  \/ EnterHotPlain \/ ArgsEvaluated \/ LeaveArgs \/ SizePod \/ StashBegin \/ StashEnd
  \/ AllSized \/ SubmitHot \/ EncodePanics \/ RefuseHot \/ SubmitReentrant
  \/ EnterBridge \/ SubmitBridge
  \/ CallerPanics \/ Build \/ Stop

Spec == Init /\ [][Next]_vars

-----------------------------------------------------------------------------
(* What callers must keep to for the stash to work: Backoff mode, set_level*)
(* only after build(), no panic caught by code that a log call is still    *)
(* waiting for, and none caught at all if Display and Debug log.           *)
Careful ==
  /\ ~setting.drop
  /\ ~setting.early
  /\ setting.caught # "inside"
  /\ setting.nestInFormat => setting.caught = "never"

(* The encode closure "Encodes the next stashed fallback value", "in       *)
(* order" (pod.rs 343-345): a record carries the texts of its own          *)
(* arguments, in their order.                                              *)
OwnTexts ==
  /\ Len(last.texts) = TextCount(last.args)
  /\ \A j \in DOMAIN last.texts :
       last.texts[j] = [call |-> last.id, arg |-> ArgOfText(last.args, j)]

(* With careful callers it does, whatever nests, panics or stops.          *)
CarefulOwnTexts == Careful => OwnTexts

(* Without, the clear at the start of a call (pod.rs 332-341) still keeps  *)
(* the texts of earlier calls out of a record, refused and panicked ones   *)
(* included: what it carries by mistake is of a call nested in its own.    *)
(* Only a panic in a Display or Debug that logs leaves the stash marked    *)
(* as clean, and filled.                                                   *)
NoEarlierText ==
  (setting.nestInFormat => setting.caught = "never")
  => \A j \in DOMAIN last.texts : last.texts[j].call >= last.id

(* A claim is committed: the encode closure, which runs between the two    *)
(* (logger.rs 247-250), does not panic on a stash that does not hold what  *)
(* the claim was sized for.                                                *)
ClaimsAreCommitted == Careful => ~abandoned

(* The borrow() of FALLBACK_BUF in the encode closure (pod.rs 351) never   *)
(* meets the borrow_mut() under which a Display or Debug runs (pod.rs 207),*)
(* in any setting: a call nested in that Display or Debug gets to its      *)
(* encode closure only if it has no texts to encode.                       *)
EncodeFindsBuffer ==
  InPhase("submit") /\ BufBorrowed => Stashed(Top.args) = {}

(* TLS_BUF is an UnsafeCell: the safety comment at logger.rs 161-164 rests *)
(* on no two calls of a thread ever formatting into it at the same time.   *)
OneBufferUser ==
  \A i, j \in DOMAIN stack :
    stack[i].phase = "format" /\ stack[j].phase = "format" => i = j
=============================================================================
