--------------------------- MODULE CircuitBreaker ---------------------------
(***************************************************************************)
(* The circuit breaker of one RPC provider and the calls that go through   *)
(* it.                                                                     *)
(*                                                                         *)
(* Source: rpc/circuit_breaker/state.rs and its use in                     *)
(* RpcManager::execute_raw_restricted (rpc/manager.rs).                    *)
(*                                                                         *)
(* can_execute copies the state and lets its lock go before it acts on the *)
(* copy, so a call is split there.  Time is reduced to the two comparisons *)
(* the code makes: whether open_duration has passed since opened_at, and   *)
(* min_state_duration since the last change.  The counters are kept up to  *)
(* the threshold they are compared with (half_open_requests would wrap     *)
(* after 2^32 requests).                                                   *)
(***************************************************************************)
EXTENDS Naturals

CONSTANTS
    Calls,             \* concurrent requests to the provider
    FailureThreshold,  \* failure_threshold
    SuccessThreshold,  \* success_threshold
    MaxProbes,         \* half_open_max_requests
    MaxForced          \* bound on the forced state changes explored

ASSUME BreakerConstants ==
    /\ FailureThreshold \in Nat \ {0}
    /\ SuccessThreshold \in Nat \ {0}
    /\ MaxProbes \in Nat \ {0}
    /\ MaxForced \in Nat

VARIABLES
    state,      \* CircuitState
    failures, successes,
    probes,     \* half_open_requests
    cooled,     \* open_duration has passed since opened_at
    settled,    \* min_state_duration has passed since last_state_change
    pc,         \* where each request stands
    earned,     \* history: successes recorded since the circuit last became half-open
    forced      \* forced state changes so far

counters == <<failures, successes, probes>>
clock == <<cooled, settled>>
breakerVars == <<state, counters, clock, pc, earned, forced>>

BreakerInit ==
    /\ state = "Closed"
    /\ failures = 0 /\ successes = 0 /\ probes = 0
    /\ cooled = FALSE /\ settled = FALSE
    /\ pc = [c \in Calls |-> "idle"]
    /\ earned = 0
    /\ forced = 0

UpTo(n, max) == IF n < max THEN n ELSE max
Goto(c, step) == pc' = [pc EXCEPT ![c] = step]

-----------------------------------------------------------------------------
(* Time. *)

CoolDown ==
    /\ state # "Closed" /\ ~cooled
    /\ cooled' = TRUE
    /\ UNCHANGED <<state, counters, settled, pc, earned, forced>>

SettleDown ==
    /\ ~settled
    /\ settled' = TRUE
    /\ UNCHANGED <<state, counters, cooled, pc, earned, forced>>

-----------------------------------------------------------------------------
(* can_execute *)

\* The copy of the state decides what the request does next.
ReadState(c) ==
    /\ pc[c] = "idle"
    /\ Goto(c, CASE state = "Closed" -> "sent"
                 [] state = "HalfOpen" -> "probe"
                 [] state = "Open" -> "open")
    /\ UNCHANGED <<state, counters, clock, earned, forced>>

\* Half-open: the first half_open_max_requests requests go through.
TakeProbe(c) ==
    /\ pc[c] = "probe"
    /\ probes' = UpTo(probes + 1, MaxProbes)
    /\ Goto(c, IF probes < MaxProbes THEN "sent" ELSE "idle")
    /\ UNCHANGED <<state, failures, successes, clock, earned, forced>>

\* Open: blocked until open_duration has passed since opened_at.  A circuit closed since
\* the copy has no opened_at and lets the request through.
CheckCooldown(c) ==
    /\ pc[c] = "open"
    /\ Goto(c, CASE state = "Closed" -> "sent"
                 [] state # "Closed" /\ cooled -> "transition"
                 [] state # "Closed" /\ ~cooled -> "idle")
    /\ UNCHANGED <<state, counters, clock, earned, forced>>

\* Defect: the successes of an earlier half-open period are kept.
ToHalfOpenKeeping(c) ==
    /\ pc[c] = "transition"
    /\ Goto(c, "sent")
    /\ IF state = "Open"
       THEN /\ state' = "HalfOpen" /\ probes' = 0 /\ settled' = FALSE
            /\ earned' = 0
       ELSE UNCHANGED <<state, probes, settled, earned>>
    /\ UNCHANGED <<failures, successes, cooled, forced>>

\* Defect: the state is compared with the wrong one.
ToHalfOpenFromClosed(c) ==
    /\ pc[c] = "transition"
    /\ Goto(c, "sent")
    /\ state' = IF state = "Closed" THEN "HalfOpen" ELSE state
    /\ UNCHANGED <<counters, clock, earned, forced>>

\* transition_to_half_open; the request goes through whether or not it made the change.
transition_to_half_open(c) ==
    /\ pc[c] = "transition"
    /\ Goto(c, "sent")
    /\ IF state = "Open"
       THEN /\ state' = "HalfOpen"
            /\ successes' = 0 /\ probes' = 0
            /\ settled' = FALSE
            /\ earned' = 0
       ELSE UNCHANGED <<state, successes, probes, settled, earned>>
    /\ UNCHANGED <<failures, cooled, forced>>

-----------------------------------------------------------------------------
(* The answer. *)

\* The circuit opens: opened_at and last_state_change are now.
Open == state' = "Open" /\ cooled' = FALSE /\ settled' = FALSE

\* Defect: one success too many is asked for.
RecoveredLate == successes + 1 > SuccessThreshold

\* The success being recorded is the last one that was missing.
Recovered == successes + 1 >= SuccessThreshold

record_success(c) ==
    /\ pc[c] = "sent"
    /\ Goto(c, "idle")
    /\ \/ /\ state = "Closed"
          /\ failures' = 0
          /\ UNCHANGED <<state, successes, probes, clock, earned>>
       \/ /\ state = "HalfOpen"
          /\ earned' = earned + 1
          /\ IF Recovered
             THEN /\ state' = "Closed"
                  /\ failures' = 0 /\ successes' = 0 /\ probes' = 0
                  /\ cooled' = FALSE /\ settled' = FALSE
             ELSE /\ successes' = successes + 1
                  /\ UNCHANGED <<state, failures, probes, clock>>
       \/ /\ state = "Open"
          /\ UNCHANGED <<state, counters, clock, earned>>
    /\ UNCHANGED forced

\* An error that is a failure of the provider and not a rate limit.
record_failure(c) ==
    /\ pc[c] = "sent"
    /\ Goto(c, "idle")
    /\ \/ /\ state = "Closed"
          /\ failures' = UpTo(failures + 1, FailureThreshold)
          /\ IF failures + 1 >= FailureThreshold /\ settled
             THEN Open
             ELSE UNCHANGED <<state, clock>>
          /\ UNCHANGED <<successes, probes>>
       \/ /\ state = "HalfOpen"
          /\ Open
          /\ successes' = 0 /\ probes' = 0
          /\ UNCHANGED failures
       \/ /\ state = "Open"
          /\ cooled' = FALSE
          /\ UNCHANGED <<state, counters, settled>>
    /\ UNCHANGED <<earned, forced>>

\* A rate limit, an answer about the request itself (an account that does not exist), or a
\* caller that is gone: the breaker hears nothing.
EndUnrecorded(c) ==
    /\ pc[c] = "sent"
    /\ Goto(c, "idle")
    /\ UNCHANGED <<state, counters, clock, earned, forced>>

-----------------------------------------------------------------------------
force_open ==
    /\ forced < MaxForced
    /\ forced' = forced + 1
    /\ Open
    /\ UNCHANGED <<counters, pc, earned>>

force_close ==
    /\ forced < MaxForced
    /\ forced' = forced + 1
    /\ state' = "Closed"
    /\ failures' = 0 /\ successes' = 0 /\ probes' = 0
    /\ cooled' = FALSE /\ settled' = FALSE
    /\ UNCHANGED <<pc, earned>>

-----------------------------------------------------------------------------
Admission(c) ==
    \/ ReadState(c)
    \/ TakeProbe(c)
    \/ CheckCooldown(c)
    \/ transition_to_half_open(c)

Answer(c) == record_success(c) \/ record_failure(c) \/ EndUnrecorded(c)

BreakerNext ==
    \/ \E c \in Calls : Admission(c) \/ Answer(c)
    \/ CoolDown \/ SettleDown
    \/ force_open \/ force_close

BreakerSpec == BreakerInit /\ [][BreakerNext]_breakerVars

\* Requests keep coming and run, each gets an answer within its timeout, and a provider
\* asked for ever answers successfully for ever again.
BreakerFairness ==
    /\ WF_breakerVars(CoolDown) /\ WF_breakerVars(SettleDown)
    /\ \A c \in Calls : /\ WF_breakerVars(Admission(c))
                        /\ WF_breakerVars(Answer(c))
                        /\ SF_breakerVars(record_success(c))

BreakerFairSpec == BreakerSpec /\ BreakerFairness

-----------------------------------------------------------------------------
(* Properties. *)

\* Every variable has its type; the counters stay within the thresholds.
BreakerTypeOK ==
    /\ state \in {"Closed", "Open", "HalfOpen"}
    /\ failures \in 0..FailureThreshold
    /\ successes \in 0..(SuccessThreshold - 1)
    /\ probes \in 0..MaxProbes
    /\ cooled \in BOOLEAN /\ settled \in BOOLEAN
    /\ pc \in [Calls -> {"idle", "probe", "open", "transition", "sent"}]
    /\ earned \in Nat
    /\ forced \in 0..MaxForced

\* The circuit closes by itself only after success_threshold successes recorded since it
\* was last half-open: no success of an earlier period counts, whatever failures, late
\* answers and forced changes lie between.
RecoveryEarned ==
    [][state = "HalfOpen" /\ state' = "Closed" /\ forced' = forced
          => earned' >= SuccessThreshold]_breakerVars

\* An open circuit is tried again: refused requests and late failures do not keep a
\* provider blocked for ever.
OpenEnds == (state = "Open") ~> (state # "Open")

\* What can_execute says of a refusal: the request may be tried again after the time it
\* returns, so with a provider that answers a half-open circuit is left.
HalfOpenEnds == (state = "HalfOpen") ~> (state # "HalfOpen")

=============================================================================
