------------------------------ MODULE BoneDog ------------------------------
(***************************************************************************)
(* The dog canister, src/bone_dog/src/main.rs: what DOG_CONTEXT and        *)
(* TIMER_ID hold of its mode (not the ores it mines) and what each handler *)
(* does to it.  A handler of a canister runs atomically up to its next     *)
(* await, so a handler, or the part of one after an await, is an operator  *)
(* from the context before to the context after; module Mining says when   *)
(* each runs.                                                              *)
(***************************************************************************)
EXTENDS BoneTypes

VARIABLES
    installed,  \* dogs whose wasm is installed
    dog         \* dog[d]: DOG_CONTEXT, TIMER_ID and cycles balance of dog d

\* cycles stands for canister_balance against the two thresholds of get_ore:
\* "low" <= MAX_CYCLES_SIZE < "mid" < BASE_CYCLES_SIZE <= "high".
CyclesBand == {"low", "mid", "high"}

DogContext ==
    [state: MiningState, type: MiningType, alliance: PoolIds \cup {None},
     level: DogLevel, timers: BOOLEAN, cycles: CyclesBand]

DogTypeOK ==
    /\ installed \subseteq Dogs
    /\ dog \in [Dogs -> DogContext]

\* init: an ACTIVITY copper dog mining alone, with its timers running.
NewDog ==
    [state |-> "ACTIVITY", type |-> "ALONE", alliance |-> None,
     level |-> CopperDog, timers |-> TRUE, cycles |-> "high"]

StartTimer(c) == [c EXCEPT !.timers = TRUE, !.state = "ACTIVITY"]

\* Wrong variants of stop_timer and get_ore, to be refuted: mining_type is not
\* reset; mining_state is not set; the report of a stop looks at the wrong
\* mining_state.
StopTimerKeepsType(c) ==
    IF c.timers
    THEN [c EXCEPT !.timers = FALSE, !.state = "STOP", !.alliance = None]
    ELSE c

StopTimerKeepsState(c) ==
    IF c.timers
    THEN [c EXCEPT !.timers = FALSE, !.type = "ALONE", !.alliance = None]
    ELSE c

ReportsStateSwapped(c, state) ==
    \/ state = "STOP" /\ c.cycles = "low" /\ c.state = "STOP"
    \/ state = "ACTIVITY" /\ c.cycles = "high" /\ c.state = "STOP"

\* stop_timer does nothing, not even to mining_state, when TIMER_ID is empty.
StopTimer(c) ==
    IF c.timers
    THEN [c EXCEPT !.timers = FALSE, !.state = "STOP",
                   !.type = "ALONE", !.alliance = None]
    ELSE c

\* dog_level_upgrade with its update_level_time: the timers are set again
\* whatever mining_state says.
LevelUpgrade(c, level) == [c EXCEPT !.level = level, !.timers = TRUE]

\* dog_mining_type_update: its two refusals, and its effect.
TypeUpdateAllowed(c, type, alliance) ==
    /\ alliance = None \/ c.alliance = None
    /\ type = "ALONE" \/ alliance # None

TypeUpdate(c, type, alliance) ==
    [c EXCEPT !.type = type,
              !.alliance = IF type = "ALONE" THEN None ELSE alliance]

\* get_ore, up to its first await: the state the tick reports to the main
\* canister, if any.
ReportsState(c, state) ==
    \/ state = "STOP" /\ c.cycles = "low" /\ c.state = "ACTIVITY"
    \/ state = "ACTIVITY" /\ c.cycles = "high" /\ c.state = "STOP"

\* get_ore, after the report was acknowledged.
ApplyReport(c, state) == IF state = "STOP" THEN StopTimer(c) ELSE StartTimer(c)
=============================================================================
