--------------------------- MODULE CircuitBreaker ---------------------------
(***************************************************************************)
(* The circuit breaker (Contracts/shared/src/circuit_breaker.rs) and the   *)
(* copies of its pause helpers in trading/src/lib.rs: a pause level, a set *)
(* of paused functions, and counters of the current period that trip it.   *)
(***************************************************************************)
EXTENDS HostClock

CONSTANTS
    CbConfigs,     \* breaker configurations a contract is deployed with
    PausableFns    \* function names an administrator pauses

ASSUME CbConfigsAssumption ==
    CbConfigs \subseteq [max_volume_per_period : Int, max_tx_count_per_period : Nat,
                         period_duration : Nat]

VARIABLES
    cb_config,   \* the thresholds
    cb_state,    \* level and counters of the period
    cb_p_fns     \* names of the paused functions

cbVars == <<cb_config, cb_state, cb_p_fns>>

PauseLevel == {"None", "Partial", "Full"}

CircuitBreakerState ==
    [current_period_start : Nat, current_period_volume : Int,
     current_period_tx_count : Nat, last_trigger_timestamp : Nat,
     pause_level : PauseLevel]

\* The type invariant of the breaker.
CbTypeOK ==
    /\ cb_config \in CbConfigs
    /\ cb_state \in CircuitBreakerState
    /\ cb_p_fns \in SUBSET PausableFns

FreshState(start) ==
    [current_period_start |-> start, current_period_volume |-> 0,
     current_period_tx_count |-> 0, last_trigger_timestamp |-> 0,
     pause_level |-> "None"]

\* Before init the state reads as fresh; the configuration is not read.
CbInit ==
    /\ cb_config \in CbConfigs
    /\ cb_state = FreshState(0)
    /\ cb_p_fns = {}

\* init keeps whatever functions are already listed as paused.
cb_init(config) ==
    /\ cb_config' = config
    /\ cb_state' = FreshState(now)
    /\ UNCHANGED cb_p_fns

require_not_paused(fn) ==
    /\ cb_state.pause_level # "Full"
    /\ cb_state.pause_level = "Partial" => fn \notin cb_p_fns

\* The counters after one more transaction, in a new period if the old one
\* is over.
WithActivity(state, volume) ==
    IF now >= state.current_period_start + cb_config.period_duration
    THEN [state EXCEPT !.current_period_start = now,
                       !.current_period_volume = volume,
                       !.current_period_tx_count = 1]
    ELSE [state EXCEPT !.current_period_volume = state.current_period_volume + volume,
                       !.current_period_tx_count = state.current_period_tx_count + 1]

OverThreshold(state) ==
    \/ state.current_period_volume >= cb_config.max_volume_per_period
    \/ state.current_period_tx_count >= cb_config.max_tx_count_per_period

\* Faulty: the counters move, the level does not.
track_activity_only(volume) ==
    /\ cb_state' = WithActivity(cb_state, volume)
    /\ UNCHANGED <<cb_config, cb_p_fns>>

\* Only a level of None is raised: a partial pause stays partial.
track_activity(volume) ==
    LET s == WithActivity(cb_state, volume) IN
    /\ cb_state' = IF OverThreshold(s) /\ s.pause_level = "None"
                   THEN [s EXCEPT !.pause_level = "Full", !.last_trigger_timestamp = now]
                   ELSE s
    /\ UNCHANGED <<cb_config, cb_p_fns>>

set_level(level) ==
    /\ cb_state' = [cb_state EXCEPT !.pause_level = level]
    /\ UNCHANGED <<cb_config, cb_p_fns>>

pause_fn(fn) ==
    /\ cb_p_fns' = cb_p_fns \cup {fn}
    /\ cb_state' = [cb_state EXCEPT
                      !.pause_level = IF @ = "None" THEN "Partial" ELSE @]
    /\ UNCHANGED cb_config

\* The level stays, even when no paused function is left.
unpause_fn(fn) ==
    /\ cb_p_fns' = cb_p_fns \ {fn}
    /\ UNCHANGED <<cb_config, cb_state>>
=============================================================================
