---------------------------- MODULE LogInitProofs ----------------------------
(***************************************************************************)
(* The safety properties of LogInit, proved for every number of threads    *)
(* that build, set the level and log, and for every number of calls.       *)
(***************************************************************************)
EXTENDS LogInit, TLAPS

-----------------------------------------------------------------------------
(* The conversions between the three ways to write a level. *)

(* A level is one of the five, and its number is its rank. *)
LEMMA LevelFacts ==
  \A l \in LogLevels :
    LevelToU8(l) \in 1 .. 5 /\ LevelToU8(l) = LogRank[l] /\ l \in LogFilters
  BY DEF LogLevels, LogFilters, LogRank, LevelToU8

(* IntoLog keeps the order: a filter and its conversion have one rank. *)
LEMMA IntoLogFacts ==
  \A f \in 0 .. 5 : IntoLog(f) \in LogFilters /\ LogRank[IntoLog(f)] = f
<1> SUFFICES ASSUME NEW f \in 0 .. 5
             PROVE  IntoLog(f) \in LogFilters /\ LogRank[IntoLog(f)] = f
  OBVIOUS
<1>1. f = 0 \/ f = 1 \/ f = 2 \/ f = 3 \/ f = 4 \/ f = 5
  OBVIOUS
<1> QED
  BY <1>1 DEF IntoLog, LogFilters, LogRank

(* No thread has two of the three roles. *)
LEMMA RolesDisjoint ==
  /\ \A b \in Builders : b \notin Setters /\ b \notin Callers /\ b \in Writers
  /\ \A s \in Setters : s \notin Builders /\ s \notin Callers /\ s \in Writers
  /\ \A c \in Callers : c \notin Writers
  BY ThreadsAssumption DEF Writers

-----------------------------------------------------------------------------
(* Type correctness.  A builder's level is a configured one from the       *)
(* moment it is past CheckConfig, a setter's from the moment it is inside  *)
(* set_level: only then are they stored into the shared cells.             *)

LevelsConfigured ==
  /\ \A b \in Builders :
       bpc[b] \in BuildSteps \ {"config"} => level[b] \in Levels
  /\ \A s \in Setters : spc[s] # "idle" => level[s] \in Levels

Typed == TypeOK /\ LevelsConfigured

LEMMA InitTyped == Init => Typed
<1>1. "Off" \in LogFilters
  BY DEF LogFilters, LogRank
<1>2. ASSUME Init PROVE level \in [Writers \cup Callers -> 0 .. 5]
  BY <1>2 DEF Init
<1>3. ASSUME Init PROVE LevelsConfigured
  BY <1>3 DEF Init, LevelsConfigured, BuildSteps
<1>4. ASSUME Init PROVE unserved \in BOOLEAN
  BY <1>4, Zenon DEF Init
<1>5. ASSUME Init
      PROVE  /\ logger \in Builders \cup {Nobody} /\ color \in Builders \cup {Nobody}
             /\ maxLevel \in Levels /\ facadeMax \in LogFilters
             /\ facade \in {"none", "inqjet", "other"}
             /\ archivers \subseteq Builders
             /\ tooLate \subseteq Builders /\ writers \subseteq Writers
  BY <1>5, <1>1, LevelsAssumption DEF Init
<1>6. ASSUME Init
      PROVE  /\ bpc \in [Builders -> BuildSteps \cup {"start", "ok", "dropped"} \cup Errors]
             /\ spc \in [Setters -> {"idle", "max", "facade"}]
             /\ sets \in [Setters -> 0 .. MaxSets]
             /\ cpc \in [Callers -> {"idle", "log", "lookup"}]
             /\ logs \in [Callers -> 0 .. MaxLogs]
  BY <1>6, CallLimits DEF Init
<1> QED
  BY <1>2, <1>3, <1>4, <1>5, <1>6 DEF Typed, TypeOK

LEMMA NextTyped == Typed /\ [Next]_vars => Typed'
<1> SUFFICES ASSUME Typed, [Next]_vars PROVE Typed'
  OBVIOUS
<1> USE DEF Typed
<1>0. TypeOK /\ LevelsConfigured
  OBVIOUS
<1>1. ASSUME NEW b \in Builders, BuildStart(b) PROVE Typed'
  BY <1>1 DEF TypeOK, LevelsConfigured, BuildStart, Goto, BuildSteps, Errors,
     globals, setting, logging
<1>2. ASSUME NEW b \in Builders, NEW wr \in BOOLEAN, NEW hasLevel \in BOOLEAN,
             NEW l \in Levels, CheckConfig(b, wr, hasLevel, l)
      PROVE  Typed'
  <2>1. CASE wr /\ hasLevel
    BY <1>2, <2>1, LevelsAssumption, RolesDisjoint
    DEF TypeOK, LevelsConfigured, CheckConfig, Configured, Goto, BuildSteps,
        globals, setting, logging
  <2>2. CASE ~(wr /\ hasLevel)
    BY <1>2, <2>2
    DEF TypeOK, LevelsConfigured, CheckConfig, Configured, Goto, BuildSteps,
        Errors, globals, setting, logging
  <2> QED
    BY <2>1, <2>2
<1>3. ASSUME NEW b \in Builders, StoreColor(b) PROVE Typed'
  BY <1>3 DEF TypeOK, LevelsConfigured, StoreColor, Goto, BuildSteps,
     setting, logging
<1>4. ASSUME NEW b \in Builders, SpawnArchiver(b) PROVE Typed'
  BY <1>4 DEF TypeOK, LevelsConfigured, SpawnArchiver, Goto, BuildSteps,
     setting, logging
<1>5. ASSUME NEW b \in Builders, SetLogger(b) PROVE Typed'
  BY <1>5 DEF TypeOK, LevelsConfigured, SetLogger, Goto, BuildSteps,
     setting, logging
<1>6. ASSUME NEW b \in Builders, StoreMaxLevel(b) PROVE Typed'
  BY <1>6, RolesDisjoint DEF TypeOK, LevelsConfigured, StoreMaxLevel, Goto, BuildSteps,
     BeginWriting, setting, logging
<1>7. ASSUME NEW b \in Builders, SetBoxedLogger(b) PROVE Typed'
  BY <1>7 DEF TypeOK, LevelsConfigured, SetBoxedLogger, Goto, BuildSteps,
     setting, logging
<1>8. ASSUME NEW b \in Builders, StoreFacadeLevel(b) PROVE Typed'
  <2>1. IntoLog(level[b]) \in LogFilters
    BY <1>0, <1>8, IntoLogFacts, RolesDisjoint DEF TypeOK
  <2> QED
    BY <1>8, <2>1 DEF TypeOK, LevelsConfigured, StoreFacadeLevel, Goto, BuildSteps,
       setting, logging
<1>9. ASSUME NEW b \in Builders, DropGuard(b) PROVE Typed'
  BY <1>9 DEF TypeOK, LevelsConfigured, DropGuard, Goto, BuildSteps,
     setting, logging
<1>10. ASSUME NEW s \in Setters, EnterSetLevel(s) PROVE Typed'
  BY <1>10, LevelsAssumption, CallLimits, RolesDisjoint
  DEF TypeOK, LevelsConfigured, EnterSetLevel, globals, logging
<1>11. ASSUME NEW s \in Setters, SetMaxLevel(s) PROVE Typed'
  BY <1>11, RolesDisjoint DEF TypeOK, LevelsConfigured, SetMaxLevel, BeginWriting, building,
     logging
<1>12. ASSUME NEW s \in Setters, SetFacadeLevel(s) PROVE Typed'
  <2>1. IntoLog(level[s]) \in LogFilters
    BY <1>0, <1>12, IntoLogFacts, RolesDisjoint DEF TypeOK
  <2> QED
    BY <1>12, <2>1 DEF TypeOK, LevelsConfigured, SetFacadeLevel, building, logging
<1>13. ASSUME NEW c \in Callers, LogStep(c) PROVE Typed'
  <2>1. /\ UNCHANGED << globals, bpc, tooLate, setting, writers >>
        /\ \A w \in Writers : level'[w] = level[w]
    BY <1>0, <1>13, RolesDisjoint
    DEF LogStep, MacroCall, FacadeCall, LoggerLog, Lookup, Untouched, Pass, Over, TypeOK
  <2>2. LevelsConfigured'
    BY <1>0, <2>1, RolesDisjoint DEF LevelsConfigured, setting, globals
  <2>3. level' \in [Writers \cup Callers -> 0 .. 5]
    BY <1>0, <1>13, LevelFacts
    DEF TypeOK, LogStep, MacroCall, FacadeCall, LoggerLog, Lookup, Pass, Over
  <2>4. /\ cpc' \in [Callers -> {"idle", "log", "lookup"}]
        /\ unserved' \in BOOLEAN
    BY <1>0, <1>13
    DEF TypeOK, LogStep, MacroCall, FacadeCall, LoggerLog, Lookup, Pass, Over
  <2>5. logs' \in [Callers -> 0 .. MaxLogs]
    BY <1>0, <1>13, CallLimits
    DEF TypeOK, LogStep, MacroCall, FacadeCall, LoggerLog, Lookup, MayLog, CountLog
  <2> QED
    BY <1>0, <2>1, <2>2, <2>3, <2>4, <2>5 DEF TypeOK, globals, setting
<1>14. CASE UNCHANGED vars
  BY <1>0, <1>14 DEF TypeOK, LevelsConfigured, vars
<1> QED
  BY <1>1, <1>2, <1>3, <1>4, <1>5, <1>6, <1>7, <1>8, <1>9, <1>10, <1>11, <1>12,
     <1>13, <1>14 DEF Next, BuildStep, SetStep

(* Every variable keeps to its type, whatever the threads do: in           *)
(* particular the number stored in MAX_LEVEL is a configured LevelFilter.  *)
THEOREM TypeCorrect == Spec => []TypeOK
<1>1. Spec => []Typed
  BY InitTyped, NextTyped, PTL DEF Spec
<1>2. Typed => TypeOK
  BY DEF Typed
<1> QED
  BY <1>1, <1>2, PTL

-----------------------------------------------------------------------------
(* What LOGGER, the levels and the threads tell of each other.             *)
(*                                                                         *)
(* A build() that is past LOGGER.set has left a logger there, its own or   *)
(* another's; it has let no trace of itself in the shared cells before it  *)
(* is past its checks, and no archiver before the spawn.                   *)

PastSet == {"max", "boxed", "facade", "ok", "dropped"}

BuildsInOrder ==
  \A b \in Builders :
    /\ bpc[b] \in PastSet => logger # Nobody
    /\ bpc[b] \in {"start", "config"} \cup Errors =>
         b \notin archivers /\ logger # b /\ color # b
    /\ bpc[b] \in {"color", "spawn"} => b \notin archivers /\ logger # b
    /\ bpc[b] = "set" => logger # b

LEMMA InitOrder == Init => BuildsInOrder
  BY NobodyAssumption DEF Init, BuildsInOrder, PastSet

(* What the steps of the other two roles leave to the builders. *)
LEMMA OthersLeaveBuilders ==
  ASSUME TypeOK,
         \/ \E s \in Setters : SetStep(s)
         \/ \E c \in Callers : LogStep(c)
         \/ UNCHANGED vars
  PROVE  UNCHANGED << logger, color, archivers, bpc, tooLate >>
  BY DEF SetStep, EnterSetLevel, SetMaxLevel, SetFacadeLevel, LogStep, MacroCall,
     FacadeCall, LoggerLog, Lookup, Untouched, globals, building, setting, vars

LEMMA NextOrder == Typed /\ BuildsInOrder /\ [Next]_vars => BuildsInOrder'
<1> SUFFICES ASSUME Typed, BuildsInOrder, [Next]_vars PROVE BuildsInOrder'
  OBVIOUS
<1>0. TypeOK
  BY DEF Typed
<1> USE DEF TypeOK, BuildsInOrder, PastSet, BuildSteps, Errors, Goto
<1>1. ASSUME NEW b \in Builders, BuildStart(b) PROVE BuildsInOrder'
  BY <1>0, <1>1 DEF BuildStart, globals
<1>2. ASSUME NEW b \in Builders, NEW wr \in BOOLEAN, NEW hasLevel \in BOOLEAN,
             NEW l \in Levels, CheckConfig(b, wr, hasLevel, l)
      PROVE  BuildsInOrder'
  BY <1>0, <1>2 DEF CheckConfig, Configured, globals
<1>3. ASSUME NEW b \in Builders, StoreColor(b) PROVE BuildsInOrder'
  BY <1>0, <1>3 DEF StoreColor
<1>4. ASSUME NEW b \in Builders, SpawnArchiver(b) PROVE BuildsInOrder'
  BY <1>0, <1>4 DEF SpawnArchiver
<1>5. ASSUME NEW b \in Builders, SetLogger(b) PROVE BuildsInOrder'
  BY <1>0, <1>5, NobodyAssumption DEF SetLogger
<1>6. ASSUME NEW b \in Builders, StoreMaxLevel(b) PROVE BuildsInOrder'
  BY <1>0, <1>6 DEF StoreMaxLevel
<1>7. ASSUME NEW b \in Builders, SetBoxedLogger(b) PROVE BuildsInOrder'
  BY <1>0, <1>7 DEF SetBoxedLogger
<1>8. ASSUME NEW b \in Builders, StoreFacadeLevel(b) PROVE BuildsInOrder'
  BY <1>0, <1>8 DEF StoreFacadeLevel
<1>9. ASSUME NEW b \in Builders, DropGuard(b) PROVE BuildsInOrder'
  BY <1>0, <1>9 DEF DropGuard
<1>10. ASSUME UNCHANGED << logger, color, archivers, bpc, tooLate >>
       PROVE  BuildsInOrder'
  BY <1>10
<1> QED
  BY <1>0, <1>1, <1>2, <1>3, <1>4, <1>5, <1>6, <1>7, <1>8, <1>9, <1>10,
     OthersLeaveBuilders DEF Next, BuildStep

LEMMA Ordered == Spec => [](Typed /\ BuildsInOrder)
<1>1. Init => Typed /\ BuildsInOrder
  BY InitTyped, InitOrder
<1>2. (Typed /\ BuildsInOrder) /\ [Next]_vars => (Typed /\ BuildsInOrder)'
  BY NextTyped, NextOrder
<1> QED
  BY <1>1, <1>2, PTL DEF Spec

(* A build() that returns an error (lib.rs 520-540) has started no thread, *)
(* is not in LOGGER and has not changed the colour mode.                   *)
THEOREM FailuresAreClean == Spec => []FailedBuildLeavesNoTrace
<1>1. BuildsInOrder => FailedBuildLeavesNoTrace
  BY DEF BuildsInOrder, FailedBuildLeavesNoTrace
<1> QED
  BY <1>1, Ordered, PTL

-----------------------------------------------------------------------------
(* A second build(). *)

(* An error is final, and a builder too late starts where LOGGER is set.   *)
LEMMA NextLate ==
  Typed /\ BuildsInOrder /\ LateBuildFails /\ [Next]_vars => LateBuildFails'
<1> SUFFICES ASSUME Typed, BuildsInOrder, LateBuildFails, [Next]_vars
             PROVE  LateBuildFails'
  OBVIOUS
<1>0. TypeOK
  BY DEF Typed
<1> USE DEF LateBuildFails, TypeOK, BuildSteps, Errors, Goto
<1>1. ASSUME NEW b \in Builders, BuildStart(b) PROVE LateBuildFails'
  <2>1. CASE \E o \in Builders : bpc[o] \in {"ok", "dropped"}
    <3>1. logger # Nobody
      BY <2>1 DEF BuildsInOrder, PastSet
    <3> QED
      BY <1>0, <1>1, <2>1, <3>1 DEF BuildStart
  <2>2. CASE ~\E o \in Builders : bpc[o] \in {"ok", "dropped"}
    BY <1>0, <1>1, <2>2 DEF BuildStart
  <2> QED
    BY <2>1, <2>2
<1>2. ASSUME NEW b \in Builders, NEW wr \in BOOLEAN, NEW hasLevel \in BOOLEAN,
             NEW l \in Levels, CheckConfig(b, wr, hasLevel, l)
      PROVE  LateBuildFails'
  BY <1>0, <1>2 DEF CheckConfig, Configured
<1>3. ASSUME NEW b \in Builders,
             \/ StoreColor(b) \/ SpawnArchiver(b) \/ SetLogger(b)
             \/ StoreMaxLevel(b) \/ SetBoxedLogger(b) \/ StoreFacadeLevel(b)
             \/ DropGuard(b)
      PROVE  LateBuildFails'
  <2>1. tooLate' = tooLate /\ bpc[b] # "AlreadyInitialized"
    BY <1>3 DEF StoreColor, SpawnArchiver, SetLogger, StoreMaxLevel,
       SetBoxedLogger, StoreFacadeLevel, DropGuard
  <2>2. \A o \in Builders : o # b => bpc'[o] = bpc[o]
    BY <1>0, <1>3 DEF StoreColor, SpawnArchiver, SetLogger, StoreMaxLevel,
       SetBoxedLogger, StoreFacadeLevel, DropGuard
  <2> QED
    BY <1>0, <2>1, <2>2
<1>4. ASSUME UNCHANGED << logger, color, archivers, bpc, tooLate >>
      PROVE  LateBuildFails'
  BY <1>4
<1> QED
  BY <1>0, <1>1, <1>2, <1>3, <1>4, OthersLeaveBuilders DEF Next, BuildStep

(* "build() called more than once" (lib.rs 373) is an error: once a        *)
(* build() has returned Ok, every later one returns AlreadyInitialized,    *)
(* however the threads interleave and also after the guard is dropped.     *)
THEOREM SecondBuildFails == Spec => []LateBuildFails
<1>1. Init => LateBuildFails
  BY DEF Init, LateBuildFails
<1> QED
  BY <1>1, NextLate, Ordered, PTL DEF Spec

-----------------------------------------------------------------------------
(* The level gates. *)

(* Before the first set_level, the macros' gate is shut until a logger is  *)
(* there, and so no call is past it; a call that asks the gate the second  *)
(* time has a level above Off.                                             *)
NoSets == \A s \in Setters : sets[s] = 0

GateIsShut ==
  /\ \A s \in Setters : spc[s] # "idle" => sets[s] > 0
  /\ \A c \in Callers : cpc[c] = "log" => level[c] > 0
  /\ logger = Nobody /\ NoSets =>
       maxLevel = 0 /\ \A c \in Callers : cpc[c] # "lookup"

LEMMA InitGate == Init => GateIsShut
  BY DEF Init, GateIsShut

(* The stores of a build come after its LOGGER.set, those of set_level     *)
(* after the call was counted.                                             *)
LEMMA NextGate ==
  Typed /\ BuildsInOrder /\ GateIsShut /\ [Next]_vars => GateIsShut'
<1> SUFFICES ASSUME Typed, BuildsInOrder, GateIsShut, [Next]_vars
             PROVE  GateIsShut'
  OBVIOUS
<1>0. TypeOK
  BY DEF Typed
<1> USE DEF TypeOK, GateIsShut, NoSets
<1>1. ASSUME NEW b \in Builders, StoreMaxLevel(b) PROVE GateIsShut'
  <2>1. logger # Nobody
    BY <1>1 DEF StoreMaxLevel, BuildsInOrder, PastSet
  <2> QED
    BY <1>0, <1>1, <2>1 DEF StoreMaxLevel, setting, logging
<1>2. ASSUME NEW b \in Builders,
             BuildStep(b), ~StoreMaxLevel(b)
      PROVE  GateIsShut'
  <2>1. /\ UNCHANGED << maxLevel, spc, sets, cpc >>
        /\ logger' = Nobody => logger = Nobody
    BY <1>2 DEF BuildStep, BuildStart, CheckConfig, StoreColor, SpawnArchiver,
       SetLogger, SetBoxedLogger, StoreFacadeLevel, DropGuard, Configured,
       globals, setting, logging
  <2>2. \A c \in Callers : level'[c] = level[c]
    BY <1>0, <1>2, RolesDisjoint
    DEF BuildStep, BuildStart, CheckConfig, StoreColor, SpawnArchiver,
        SetLogger, SetBoxedLogger, StoreFacadeLevel, DropGuard, Configured
  <2> QED
    BY <2>1, <2>2
<1>3. ASSUME NEW s \in Setters, EnterSetLevel(s) PROVE GateIsShut'
  <2>1. /\ sets'[s] > 0 /\ UNCHANGED << logger, maxLevel, cpc >>
        /\ \A t \in Setters : t # s => sets'[t] = sets[t] /\ spc'[t] = spc[t]
    BY <1>0, <1>3, CallLimits DEF EnterSetLevel, globals, logging
  <2>2. \A c \in Callers : level'[c] = level[c]
    BY <1>0, <1>3, RolesDisjoint DEF EnterSetLevel
  <2> QED
    BY <2>1, <2>2
<1>4. ASSUME NEW s \in Setters, SetMaxLevel(s) \/ SetFacadeLevel(s)
      PROVE  GateIsShut'
  <2>1. /\ sets[s] > 0 /\ UNCHANGED << logger, cpc, sets, level >>
        /\ \A t \in Setters : t # s => spc'[t] = spc[t]
    BY <1>0, <1>4 DEF SetMaxLevel, SetFacadeLevel, building, logging
  <2> QED
    BY <1>0, <2>1
<1>5. ASSUME NEW c \in Callers, LogStep(c) PROVE GateIsShut'
  <2>1. /\ UNCHANGED << logger, maxLevel, spc, sets >>
        /\ \A d \in Callers : d # c => cpc'[d] = cpc[d] /\ level'[d] = level[d]
    BY <1>0, <1>5 DEF LogStep, MacroCall, FacadeCall, LoggerLog, Lookup,
       Untouched, globals, setting, Pass, Over
  <2>2. cpc'[c] = "log" => level'[c] > 0
    BY <1>0, <1>5, LevelFacts DEF LogStep, MacroCall, FacadeCall, LoggerLog,
       Lookup, Pass, Over
  <2>3. cpc'[c] = "lookup" => maxLevel > 0
    <3>1. CASE \E l \in LogLevels : MacroCall(c, LevelToU8(l)) \/ FacadeCall(c, l)
      BY <1>0, <3>1, LevelFacts, LevelsAssumption DEF MacroCall, FacadeCall, Pass, Over
    <3>2. CASE LoggerLog(c)
      BY <1>0, <3>2, LevelsAssumption DEF LoggerLog, Pass, Over
    <3>3. CASE Lookup(c)
      BY <1>0, <3>3 DEF Lookup, Over
    <3> QED
      BY <1>5, <3>1, <3>2, <3>3 DEF LogStep
  <2> QED
    BY <1>0, <2>1, <2>2, <2>3
<1>6. CASE UNCHANGED vars
  BY <1>6 DEF vars
<1> QED
  BY <1>1, <1>2, <1>3, <1>4, <1>5, <1>6 DEF Next, SetStep

(* Only Lookup can find a gate passed and no logger behind it. *)
LEMMA NextServed ==
  Typed /\ GateIsShut /\ PassedGateFindsLogger /\ [Next]_vars
  => PassedGateFindsLogger'
<1> SUFFICES ASSUME Typed, GateIsShut, PassedGateFindsLogger, [Next]_vars,
                    unserved'
             PROVE  \E s \in Setters : sets'[s] > 0
  BY DEF PassedGateFindsLogger
<1>0. TypeOK
  BY DEF Typed
<1>1. \A s \in Setters : sets[s] > 0 => sets'[s] > 0
  <2>1. ASSUME NEW s \in Setters, EnterSetLevel(s)
        PROVE  \A t \in Setters : sets[t] > 0 => sets'[t] > 0
    BY <1>0, <2>1, CallLimits DEF TypeOK, EnterSetLevel
  <2>2. \/ \E s \in Setters : EnterSetLevel(s)
        \/ sets' = sets
    BY DEF Next, BuildStep, BuildStart, CheckConfig, StoreColor, SpawnArchiver,
       SetLogger, StoreMaxLevel, SetBoxedLogger, StoreFacadeLevel, DropGuard,
       SetStep, SetMaxLevel, SetFacadeLevel, LogStep, MacroCall,
       FacadeCall, LoggerLog, Lookup, Untouched, setting, vars
  <2> QED
    BY <2>1, <2>2
<1>2. CASE unserved
  BY <1>1, <1>2 DEF PassedGateFindsLogger
<1>3. CASE ~unserved
  <2>1. \E c \in Callers : Lookup(c) /\ logger = Nobody
    BY <1>3
    DEF Next, BuildStep, BuildStart, CheckConfig, StoreColor, SpawnArchiver,
        SetLogger, StoreMaxLevel, SetBoxedLogger, StoreFacadeLevel, DropGuard,
        SetStep, EnterSetLevel, SetMaxLevel, SetFacadeLevel, LogStep, MacroCall,
        FacadeCall, LoggerLog, Lookup, logging, vars
  <2>2. ~NoSets
    BY <2>1 DEF GateIsShut, Lookup
  <2> QED
    BY <1>0, <1>1, <2>2, CallLimits DEF NoSets, TypeOK
<1> QED
  BY <1>2, <1>3

(* A macro or facade call that the level gate lets pass finds a logger,    *)
(* unless a set_level has opened the gate before any build(): MAX_LEVEL is *)
(* stored after LOGGER.set (lib.rs 552-559).                               *)
THEOREM NothingIsLostBehindTheGate == Spec => []PassedGateFindsLogger
<1>1. Init => PassedGateFindsLogger
  BY DEF Init, PassedGateFindsLogger
<1>2. Spec => []GateIsShut
  BY InitGate, NextGate, Ordered, PTL DEF Spec
<1>3. Spec => []Typed
  BY InitTyped, NextTyped, PTL DEF Spec
<1> QED
  BY <1>1, <1>2, <1>3, NextServed, PTL DEF Spec

-----------------------------------------------------------------------------
(* The one writer that was alone last has both levels as it asked.  Every  *)
(* thread that is between its two stores is among the writers.             *)
SoleWriterRules ==
  /\ \A w \in Writers : WritesNow(w) => w \in writers
  /\ \A b \in Builders : b \in writers => bpc[b] \in {"boxed", "facade", "ok", "dropped"}
  /\ \A w \in Writers :
       writers = {w} /\ (w \in Setters => spc[w] # "max") =>
         /\ maxLevel = level[w]
         /\ ~WritesNow(w) => facadeMax = IntoLog(level[w])

LEMMA InitSole == Init => SoleWriterRules
  BY DEF Init, SoleWriterRules, WritesNow, Writers

LEMMA NextSole == Typed /\ SoleWriterRules /\ [Next]_vars => SoleWriterRules'
<1> SUFFICES ASSUME Typed, SoleWriterRules, [Next]_vars PROVE SoleWriterRules'
  OBVIOUS
<1>0. TypeOK
  BY DEF Typed
<1> USE RolesDisjoint DEF TypeOK, SoleWriterRules, WritesNow, Goto
<1>1. ASSUME NEW b \in Builders, BuildStart(b) PROVE SoleWriterRules'
  BY <1>0, <1>1 DEF BuildStart, globals, setting
<1>2. ASSUME NEW b \in Builders, NEW wr \in BOOLEAN, NEW hasLevel \in BOOLEAN,
             NEW l \in Levels, CheckConfig(b, wr, hasLevel, l)
      PROVE  SoleWriterRules'
  <2>1. b \notin writers
    BY <1>2 DEF CheckConfig
  <2>2. \A w \in Writers : w # b => level'[w] = level[w]
    BY <1>0, <1>2 DEF CheckConfig, Configured
  <2>3. /\ bpc'[b] \in {"color", "NoConfiguredWriter", "NoConfiguredLogLevel"}
        /\ \A o \in Builders : o # b => bpc'[o] = bpc[o]
    BY <1>0, <1>2 DEF CheckConfig, Configured
  <2>4. UNCHANGED << maxLevel, facadeMax, spc, writers >>
    BY <1>2 DEF CheckConfig, globals, setting
  <2> QED
    BY <2>1, <2>2, <2>3, <2>4
<1>3. ASSUME NEW b \in Builders, StoreColor(b) \/ SpawnArchiver(b) \/ SetLogger(b)
      PROVE  SoleWriterRules'
  <2>1. /\ bpc[b] \in {"color", "spawn", "set"}
        /\ bpc'[b] \in {"spawn", "set", "max"}
        /\ \A o \in Builders : o # b => bpc'[o] = bpc[o]
    BY <1>0, <1>3 DEF StoreColor, SpawnArchiver, SetLogger
  <2>2. UNCHANGED << maxLevel, facadeMax, level, spc, writers >>
    BY <1>3 DEF StoreColor, SpawnArchiver, SetLogger, setting
  <2> QED
    BY <2>1, <2>2
<1>4. ASSUME NEW b \in Builders, StoreMaxLevel(b) PROVE SoleWriterRules'
  <2>1. /\ maxLevel' = level[b] /\ level' = level /\ spc' = spc
        /\ bpc'[b] = "boxed"
        /\ \A o \in Builders : o # b => bpc'[o] = bpc[o]
    BY <1>0, <1>4 DEF StoreMaxLevel, setting
  <2>2. writers' = {v \in writers : WritesNow(v)} \cup {b}
    BY <1>4 DEF StoreMaxLevel, BeginWriting
  <2> QED
    BY <2>1, <2>2
<1>5. ASSUME NEW b \in Builders, SetBoxedLogger(b) PROVE SoleWriterRules'
  BY <1>0, <1>5 DEF SetBoxedLogger, setting
<1>6. ASSUME NEW b \in Builders, StoreFacadeLevel(b) PROVE SoleWriterRules'
  BY <1>0, <1>6 DEF StoreFacadeLevel, setting
<1>7. ASSUME NEW b \in Builders, DropGuard(b) PROVE SoleWriterRules'
  BY <1>0, <1>7 DEF DropGuard, setting
<1>8. ASSUME NEW s \in Setters, EnterSetLevel(s) PROVE SoleWriterRules'
  <2>1. /\ spc[s] = "idle" /\ spc'[s] = "max"
        /\ \A t \in Setters : t # s => spc'[t] = spc[t]
        /\ \A w \in Writers : w # s => level'[w] = level[w]
    BY <1>0, <1>8 DEF EnterSetLevel
  <2>2. UNCHANGED << maxLevel, facadeMax, bpc, writers >>
    BY <1>8 DEF EnterSetLevel, globals
  <2> QED
    BY <1>0, <2>1, <2>2 DEF Writers
<1>9. ASSUME NEW s \in Setters, SetMaxLevel(s) PROVE SoleWriterRules'
  <2>1. /\ maxLevel' = level[s] /\ level' = level /\ bpc' = bpc
        /\ spc'[s] = "facade"
        /\ \A t \in Setters : t # s => spc'[t] = spc[t]
    BY <1>0, <1>9 DEF SetMaxLevel, building
  <2>2. writers' = {v \in writers : WritesNow(v)} \cup {s}
    BY <1>9 DEF SetMaxLevel, BeginWriting
  <2> QED
    BY <1>0, <2>1, <2>2 DEF Writers
<1>10. ASSUME NEW s \in Setters, SetFacadeLevel(s) PROVE SoleWriterRules'
  <2>1. /\ facadeMax' = IntoLog(level[s]) /\ spc[s] = "facade" /\ spc'[s] = "idle"
        /\ \A t \in Setters : t # s => spc'[t] = spc[t]
    BY <1>0, <1>10 DEF SetFacadeLevel
  <2>2. UNCHANGED << maxLevel, level, bpc, writers >>
    BY <1>10 DEF SetFacadeLevel, building
  <2> QED
    BY <1>0, <2>1, <2>2 DEF Writers
<1>11. ASSUME NEW c \in Callers, LogStep(c) PROVE SoleWriterRules'
  <2>1. /\ UNCHANGED << maxLevel, facadeMax, bpc, spc, writers >>
        /\ \A w \in Writers : level'[w] = level[w]
    BY <1>0, <1>11
    DEF LogStep, MacroCall, FacadeCall, LoggerLog, Lookup, Untouched, globals,
        setting, Pass, Over
  <2> QED
    BY <2>1
<1>12. CASE UNCHANGED vars
  BY <1>12 DEF vars
<1> QED
  BY <1>1, <1>2, <1>3, <1>4, <1>5, <1>6, <1>7, <1>8, <1>9, <1>10, <1>11, <1>12
  DEF Next, BuildStep, SetStep

LEMMA SoleWriterHolds == Typed /\ SoleWriterRules => LastLevelHolds
<1> SUFFICES ASSUME Typed, SoleWriterRules, NEW w \in Writers, Quiet,
                    writers = {w}, w \in Setters => spc[w] = "idle",
                    NEW l \in LogLevels
             PROVE  /\ LevelToU8(l) <= maxLevel <=> LevelToU8(l) <= level[w]
                    /\ LogRank[l] <= LogRank[facadeMax] <=> LevelToU8(l) <= level[w]
  BY DEF LastLevelHolds
<1>1. level[w] \in 0 .. 5
  BY DEF Typed, TypeOK
<1>2. maxLevel = level[w] /\ facadeMax = IntoLog(level[w])
  BY DEF SoleWriterRules, Quiet
<1>3. LogRank[facadeMax] = level[w]
  BY <1>1, <1>2, IntoLogFacts
<1> QED
  BY <1>2, <1>3, LevelFacts

(* "Takes effect immediately for all subsequent log calls" (lib.rs 320):   *)
(* however many builds and set_level calls there were, once a writer had   *)
(* the two levels to itself and is done, both gates let pass exactly the   *)
(* levels it asked for.                                                    *)
THEOREM LastWriterSetsBothGates == Spec => []LastLevelHolds
<1>1. Spec => []Typed
  BY InitTyped, NextTyped, PTL DEF Spec
<1>2. Spec => []SoleWriterRules
  BY <1>1, InitSole, NextSole, PTL DEF Spec
<1> QED
  BY <1>1, <1>2, SoleWriterHolds, PTL
=============================================================================
