------------------------------ MODULE LogInit -------------------------------
(***************************************************************************)
(* The process-wide state of inqjet: LOGGER, MAX_LEVEL and the maximum     *)
(* level of the log facade.  Threads build loggers (lib.rs 517-574), drop  *)
(* the guards they got (345-353), call set_level (322-326), and log, by    *)
(* the macros or through the facade (logger.rs 98-100, 278-289).           *)
(*                                                                         *)
(* One step is one access to a shared cell.  The accesses are atomic one   *)
(* by one, and nothing orders those of two threads: build() and set_level  *)
(* take no lock.  inqjet's LevelFilter is a number, as MAX_LEVEL keeps it; *)
(* the levels and filters of the log crate are names, and are converted.   *)
(***************************************************************************)
EXTENDS Naturals, FiniteSets

CONSTANTS
  Builders,   \* threads that call build(), once each
  Setters,    \* threads that call set_level
  Callers,    \* threads that log
  Levels,     \* the LevelFilters in use, 0 (Off) included
  MaxSets,    \* bound: set_level calls of each setter
  MaxLogs,    \* bound: log calls of each caller
  Nobody

ASSUME LevelsAssumption == Levels \subseteq 0 .. 5 /\ 0 \in Levels
ASSUME NobodyAssumption == Nobody \notin Builders
ASSUME ThreadsAssumption ==
  Builders \cap Setters = {} /\ (Builders \cup Setters) \cap Callers = {}
ASSUME CallLimits == MaxSets \in Nat /\ MaxLogs \in Nat

VARIABLES
  logger,     \* the builder whose LoggerState is in LOGGER
  maxLevel,   \* MAX_LEVEL
  facade,     \* log::set_boxed_logger was called by inqjet or by another crate
  facadeMax,  \* log's own maximum level
  color,      \* the builder whose ColorMode is in COLOR_ENABLED
  archivers,  \* the builders whose archiver thread runs
  bpc,        \* where each build() is, or its result
  level,      \* the level each builder and each set_level stores, and the u8
              \* of a log call that is past a gate
  spc,        \* where each set_level is
  sets,       \* set_level calls made
  cpc,        \* where each log call is
  logs,       \* log calls made
  \* history, for the properties only
  tooLate,    \* builders that began after a build() had returned Ok
  writers,    \* builders and setters that write levels now or did so last
  unserved    \* a log call that passed the level gate met no logger

vars == << logger, maxLevel, facade, facadeMax, color, archivers, bpc, level,
           spc, sets, cpc, logs, tooLate, writers, unserved >>

globals == << logger, maxLevel, facade, facadeMax, color, archivers >>
building == << bpc, level, tooLate >>
setting == << spc, sets >>
logging == << cpc, logs, unserved >>

BuildSteps == {"config", "color", "spawn", "set", "max", "boxed", "facade"}
Errors == {"AlreadyInitialized", "NoConfiguredWriter", "NoConfiguredLogLevel"}
Writers == Builders \cup Setters

-----------------------------------------------------------------------------
(* The log crate's filters and levels, from the least verbose up. *)
LogRank == [Off |-> 0, Error |-> 1, Warn |-> 2, Info |-> 3, Debug |-> 4, Trace |-> 5]
LogFilters == DOMAIN LogRank
LogLevels == LogFilters \ {"Off"}

(* impl From<LevelFilter> for log::LevelFilter *)
IntoLog(filter) ==
  << "Off", "Error", "Warn", "Info", "Debug", "Trace" >>[filter + 1]

(* level_to_u8 *)
LevelToU8(l) ==
  [Error |-> 1, Warn |-> 2, Info |-> 3, Debug |-> 4, Trace |-> 5][l]

TypeOK ==
  /\ logger \in Builders \cup {Nobody}
  /\ maxLevel \in Levels /\ facadeMax \in LogFilters
  /\ facade \in {"none", "inqjet", "other"}
  /\ color \in Builders \cup {Nobody}
  /\ archivers \subseteq Builders
  /\ bpc \in [Builders -> BuildSteps \cup {"start", "ok", "dropped"} \cup Errors]
  /\ level \in [Writers \cup Callers -> 0 .. 5]
  /\ spc \in [Setters -> {"idle", "max", "facade"}]
  /\ sets \in [Setters -> 0 .. MaxSets]
  /\ cpc \in [Callers -> {"idle", "log", "lookup"}]
  /\ logs \in [Callers -> 0 .. MaxLogs]
  /\ tooLate \subseteq Builders /\ writers \subseteq Writers
  /\ unserved \in BOOLEAN

Init ==
  /\ logger = Nobody
  /\ maxLevel = 0 /\ facadeMax = "Off"
  /\ facade \in {"none", "other"}
  /\ color = Nobody
  /\ archivers = {}
  /\ bpc = [b \in Builders |-> "start"]
  /\ level = [w \in Writers \cup Callers |-> 0]
  /\ spc = [s \in Setters |-> "idle"]
  /\ sets = [s \in Setters |-> 0]
  /\ cpc = [c \in Callers |-> "idle"]
  /\ logs = [c \in Callers |-> 0]
  /\ tooLate = {} /\ writers = {} /\ unserved = FALSE

(* Writers of the two levels: a build from its MAX_LEVEL store on, or a    *)
(* set_level.  writers keeps the last one until the next one comes.        *)
WritesNow(w) ==
  IF w \in Builders THEN bpc[w] \in {"boxed", "facade"} ELSE spc[w] = "facade"

BeginWriting(w) == writers' = {v \in writers : WritesNow(v)} \cup {w}

-----------------------------------------------------------------------------
(* build(). *)

Goto(b, step) == bpc' = [bpc EXCEPT ![b] = step]

(* LOGGER.get().is_some() *)
BuildStart(b) ==
  /\ bpc[b] = "start"
  /\ Goto(b, IF logger = Nobody THEN "config" ELSE "AlreadyInitialized")
  /\ tooLate' = IF \E o \in Builders : bpc[o] \in {"ok", "dropped"}
                THEN tooLate \cup {b} ELSE tooLate
  /\ UNCHANGED << globals, level, setting, logging, writers >>

(* What the setters of the builder left: wr and level are Options, None by *)
(* default.  wr is asked for first.                                        *)
Configured(b, wr, hasLevel, l) ==
  IF wr /\ hasLevel THEN level' = [level EXCEPT ![b] = l] /\ Goto(b, "color")
  ELSE /\ Goto(b, IF wr THEN "NoConfiguredLogLevel" ELSE "NoConfiguredWriter")
       /\ UNCHANGED level

(* Fault: the colour mode is stored before the configuration is checked. *)
ColorBeforeConfig(b, wr, hasLevel, l) ==
  /\ bpc[b] = "config"
  /\ color' = b
  /\ Configured(b, wr, hasLevel, l)
  /\ UNCHANGED << logger, maxLevel, facade, facadeMax, archivers, tooLate,
                  setting, logging, writers >>

CheckConfig(b, wr, hasLevel, l) ==
  /\ bpc[b] = "config"
  /\ Configured(b, wr, hasLevel, l)
  /\ UNCHANGED << globals, tooLate, setting, logging, writers >>

StoreColor(b) ==
  /\ bpc[b] = "color"
  /\ color' = b
  /\ Goto(b, "spawn")
  /\ UNCHANGED << logger, maxLevel, facade, facadeMax, archivers, level,
                  tooLate, setting, logging, writers >>

(* Fault: the levels are opened together with the spawn. *)
OpenLevelsAtSpawn(b) ==
  /\ bpc[b] = "spawn"
  /\ archivers' = archivers \cup {b}
  /\ maxLevel' = level[b]
  /\ Goto(b, "set")
  /\ UNCHANGED << logger, facade, facadeMax, color, level, tooLate, setting,
                  logging, writers >>

SpawnArchiver(b) ==
  /\ bpc[b] = "spawn"
  /\ archivers' = archivers \cup {b}
  /\ Goto(b, "set")
  /\ UNCHANGED << logger, maxLevel, facade, facadeMax, color, level, tooLate,
                  setting, logging, writers >>

(* let _ = LOGGER.set(..): when another build was first, it is ignored. *)
SetLogger(b) ==
  /\ bpc[b] = "set"
  /\ logger' = IF logger = Nobody THEN b ELSE logger
  /\ Goto(b, "max")
  /\ UNCHANGED << maxLevel, facade, facadeMax, color, archivers, level,
                  tooLate, setting, logging, writers >>

(* Fault: the levels are counted from one up. *)
MaxLevelOffByOne(b) ==
  /\ bpc[b] = "max"
  /\ maxLevel' = level[b] + 1
  /\ Goto(b, "boxed")
  /\ BeginWriting(b)
  /\ UNCHANGED << logger, facade, facadeMax, color, archivers, level, tooLate,
                  setting, logging >>

StoreMaxLevel(b) ==
  /\ bpc[b] = "max"
  /\ maxLevel' = level[b]
  /\ Goto(b, "boxed")
  /\ BeginWriting(b)
  /\ UNCHANGED << logger, facade, facadeMax, color, archivers, level, tooLate,
                  setting, logging >>

(* let _ = log::set_boxed_logger(..) *)
SetBoxedLogger(b) ==
  /\ bpc[b] = "boxed"
  /\ facade' = IF facade = "none" THEN "inqjet" ELSE facade
  /\ Goto(b, "facade")
  /\ UNCHANGED << logger, maxLevel, facadeMax, color, archivers, level,
                  tooLate, setting, logging, writers >>

(* log::set_max_level(..), and Ok(guard). *)
StoreFacadeLevel(b) ==
  /\ bpc[b] = "facade"
  /\ facadeMax' = IntoLog(level[b])
  /\ Goto(b, "ok")
  /\ UNCHANGED << logger, maxLevel, facade, color, archivers, level, tooLate,
                  setting, logging, writers >>

(* Fault: dropping the guard takes the logger out of LOGGER. *)
DropGuardResets(b) ==
  /\ bpc[b] = "ok"
  /\ archivers' = archivers \ {b}
  /\ logger' = Nobody
  /\ Goto(b, "dropped")
  /\ UNCHANGED << maxLevel, facade, facadeMax, color, level, tooLate,
                  setting, logging, writers >>

(* The archiver has been joined; LOGGER and the levels stay as they are. *)
DropGuard(b) ==
  /\ bpc[b] = "ok"
  /\ archivers' = archivers \ {b}
  /\ Goto(b, "dropped")
  /\ UNCHANGED << logger, maxLevel, facade, facadeMax, color, level, tooLate,
                  setting, logging, writers >>

-----------------------------------------------------------------------------
(* set_level. *)

EnterSetLevel(s) ==
  /\ spc[s] = "idle" /\ sets[s] < MaxSets
  /\ sets' = [sets EXCEPT ![s] = @ + 1]
  /\ spc' = [spc EXCEPT ![s] = "max"]
  /\ \E l \in Levels : level' = [level EXCEPT ![s] = l]
  /\ UNCHANGED << globals, bpc, tooLate, logging, writers >>

SetMaxLevel(s) ==
  /\ spc[s] = "max"
  /\ maxLevel' = level[s]
  /\ spc' = [spc EXCEPT ![s] = "facade"]
  /\ BeginWriting(s)
  /\ UNCHANGED << logger, facade, facadeMax, color, archivers, building, sets,
                  logging >>

(* Fault: the facade is not told. *)
ForgetFacadeLevel(s) ==
  /\ spc[s] = "facade"
  /\ spc' = [spc EXCEPT ![s] = "idle"]
  /\ UNCHANGED << globals, building, sets, logging, writers >>

SetFacadeLevel(s) ==
  /\ spc[s] = "facade"
  /\ facadeMax' = IntoLog(level[s])
  /\ spc' = [spc EXCEPT ![s] = "idle"]
  /\ UNCHANGED << logger, maxLevel, facade, color, archivers, building, sets,
                  logging, writers >>

-----------------------------------------------------------------------------
(* Log calls. *)

MayLog(c) == cpc[c] = "idle" /\ logs[c] < MaxLogs
CountLog(c) == logs' = [logs EXCEPT ![c] = @ + 1]

(* Past the gate the call has its level, a u8; stopped, it is over. *)
Pass(c, l, step) == level' = [level EXCEPT ![c] = l] /\ cpc' = [cpc EXCEPT ![c] = step]
Over(c) == level' = [level EXCEPT ![c] = 0] /\ cpc' = [cpc EXCEPT ![c] = "idle"]

Untouched == UNCHANGED << globals, bpc, tooLate, setting, writers >>

(* log_enabled in a macro, which is given the number of its level. *)
MacroCall(c, l) ==
  /\ MayLog(c)
  /\ CountLog(c)
  /\ IF l <= maxLevel THEN Pass(c, l, "lookup") ELSE Over(c)
  /\ UNCHANGED unserved /\ Untouched

(* log's macros ask log's own level, then the registered logger. *)
FacadeCall(c, l) ==
  /\ MayLog(c)
  /\ CountLog(c)
  /\ IF LogRank[l] <= LogRank[facadeMax] /\ facade = "inqjet"
     THEN Pass(c, LevelToU8(l), "log") ELSE Over(c)
  /\ UNCHANGED unserved /\ Untouched

(* Logger::log asks MAX_LEVEL once more. *)
LoggerLog(c) ==
  /\ cpc[c] = "log"
  /\ IF level[c] <= maxLevel THEN Pass(c, level[c], "lookup") ELSE Over(c)
  /\ UNCHANGED << logs, unserved >> /\ Untouched

(* LOGGER.get() in hot_log_submit and log_impl. *)
Lookup(c) ==
  /\ cpc[c] = "lookup"
  /\ Over(c)
  /\ unserved' = (unserved \/ logger = Nobody)
  /\ UNCHANGED logs /\ Untouched

-----------------------------------------------------------------------------
BuildStep(b) ==
  \/ \E wr, hasLevel \in BOOLEAN, l \in Levels : CheckConfig(b, wr, hasLevel, l)
  \/ BuildStart(b) \/ StoreColor(b) \/ SpawnArchiver(b)
  \/ SetLogger(b) \/ StoreMaxLevel(b) \/ SetBoxedLogger(b)
  \/ StoreFacadeLevel(b) \/ DropGuard(b)

SetStep(s) == EnterSetLevel(s) \/ SetMaxLevel(s) \/ SetFacadeLevel(s)

LogStep(c) ==
  \/ \E l \in LogLevels : MacroCall(c, LevelToU8(l)) \/ FacadeCall(c, l)
  \/ LoggerLog(c) \/ Lookup(c)

Next ==
  \/ \E b \in Builders : BuildStep(b)
  \/ \E s \in Setters : SetStep(s)
  \/ \E c \in Callers : LogStep(c)

Spec == Init /\ [][Next]_vars

-----------------------------------------------------------------------------
(* "logger already initialized (build() called more than once)" (lib.rs    *)
(* 373): a build() that begins once another has returned Ok fails with     *)
(* that, whatever its configuration, also after the guard was dropped.     *)
LateBuildFails == \A b \in tooLate : bpc[b] = "AlreadyInitialized"

(* A build() that fails has started no thread and changed no setting. *)
FailedBuildLeavesNoTrace ==
  \A b \in Builders :
    bpc[b] \in Errors => b \notin archivers /\ logger # b /\ color # b

(* MAX_LEVEL is stored after LOGGER is set, so that a call which passes    *)
(* the level gate finds the logger: nothing is lost between the two.  Only *)
(* a set_level can open the gate too early.                                *)
PassedGateFindsLogger == unserved => \E s \in Setters : sets[s] > 0

Quiet == \A w \in Writers : ~WritesNow(w)

(* "Takes effect immediately for all subsequent log calls" (lib.rs 320):   *)
(* when the last writer of the levels had them to itself and is done, the  *)
(* macros and the facade let the levels pass that it asked for.            *)
LastLevelHolds ==
  \A w \in Writers :
    Quiet /\ writers = {w} /\ (w \in Setters => spc[w] = "idle")
    => \A l \in LogLevels :
         /\ LevelToU8(l) <= maxLevel <=> LevelToU8(l) <= level[w]
         /\ LogRank[l] <= LogRank[facadeMax] <=> LevelToU8(l) <= level[w]

-----------------------------------------------------------------------------
(* What the documentation says, and the code does not. *)

(* A guard "manages the logger's background archiver thread" (lib.rs 328)  *)
(* and a second build() is an error (lib.rs 373): the guard that build()   *)
(* returned is the guard of the logger in LOGGER.  Two threads that build  *)
(* at once both pass the check, and the loss of the race at LOGGER.set is  *)
(* ignored.                                                                *)
GuardIsOfTheLogger == \A b \in Builders : bpc[b] \in {"ok", "dropped"} => logger = b
=============================================================================
