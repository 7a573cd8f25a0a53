--------------------------- MODULE CircuitBreaker ---------------------------
(***************************************************************************)
(* The circuit breaker in front of an external service, with the retries   *)
(* of its callers (backend/src/circuit_breaker.rs, retry.rs, as the price  *)
(* fetchers use them).  The callers are threads that share two atomics;    *)
(* each step of a caller is one access to one of them.                     *)
(*                                                                         *)
(* Failures are counted up to one above the threshold: the code compares   *)
(* the count with the threshold and nothing else.  Opened_at is kept as    *)
(* the time since then, up to the recovery timeout; the stored 0 is long   *)
(* ago.                                                                    *)
(***************************************************************************)
EXTENDS Naturals, FiniteSets

CONSTANTS
  Caller,           \* the threads that call the service
  FailureThreshold, \* failures that trip the circuit
  RecoveryTimeout,  \* how long it stays open
  MaxAttempts       \* RetryConfig::max_attempts

ASSUME CircuitBreakerAssumption ==
  /\ IsFiniteSet(Caller)
  /\ {FailureThreshold, RecoveryTimeout, MaxAttempts} \subseteq Nat \ {0}

VARIABLES
  failure_count, \* Inner::failure_count
  since_opened,  \* the time since Inner::opened_at
  stage,         \* where each caller is in call
  attempts,      \* the attempts each caller has made
  service_up     \* whether the service answers

breakerVars == <<failure_count, since_opened, stage, attempts, service_up>>

Stages == {"idle", "ready", "read_opened", "closed_call", "probe", "succeeded",
           "reset_opened", "failed", "probe_failed", "tripped"}

(* CircuitBreaker::state of what the atomics hold now.                     *)
CircuitState ==
  IF failure_count < FailureThreshold THEN "Closed"
  ELSE IF since_opened >= RecoveryTimeout THEN "HalfOpen" ELSE "Open"

Goto(c, next) == stage' = [stage EXCEPT ![c] = next]
-----------------------------------------------------------------------------
Request(c) ==
  /\ stage[c] = "idle"
  /\ Goto(c, "ready")
  /\ attempts' = [attempts EXCEPT ![c] = 0]
  /\ UNCHANGED <<failure_count, since_opened, service_up>>

ReadCount(c) ==
  /\ stage[c] = "ready"
  /\ Goto(c, IF failure_count < FailureThreshold THEN "closed_call" ELSE "read_opened")
  /\ UNCHANGED <<failure_count, since_opened, attempts, service_up>>

(* A rejected request is not retried: CircuitOpen is not transient.        *)
ReadOpened(c) ==
  /\ stage[c] = "read_opened"
  /\ Goto(c, IF since_opened >= RecoveryTimeout THEN "probe" ELSE "idle")
  /\ UNCHANGED <<failure_count, since_opened, attempts, service_up>>

OperationSucceeds(c) ==
  /\ service_up
  /\ stage[c] \in {"closed_call", "probe"}
  /\ Goto(c, "succeeded")
  /\ UNCHANGED <<failure_count, since_opened, attempts, service_up>>

OperationFails(c) ==
  /\ ~service_up
  /\ stage[c] \in {"closed_call", "probe"}
  /\ Goto(c, IF stage[c] = "probe" THEN "probe_failed" ELSE "failed")
  /\ UNCHANGED <<failure_count, since_opened, attempts, service_up>>

(* A permanent error is counted when the call was a probe only.            *)
OperationRefused(c) ==
  /\ ~service_up
  /\ stage[c] \in {"closed_call", "probe"}
  /\ Goto(c, IF stage[c] = "probe" THEN "probe_failed" ELSE "idle")
  /\ attempts' = [attempts EXCEPT ![c] = MaxAttempts]
  /\ UNCHANGED <<failure_count, since_opened, service_up>>
-----------------------------------------------------------------------------
(* Faulty: a success does not reset the count.                             *)
KeepCount == UNCHANGED failure_count

ResetCount == failure_count' = 0

SwapCount(c) ==
  /\ stage[c] = "succeeded"
  /\ ResetCount
  /\ Goto(c, "reset_opened")
  /\ UNCHANGED <<since_opened, attempts, service_up>>

ResetOpened(c) ==
  /\ stage[c] = "reset_opened"
  /\ since_opened' = RecoveryTimeout
  /\ Goto(c, "idle")
  /\ UNCHANGED <<failure_count, attempts, service_up>>

(* Retry_async: the caller tries again until its attempts are used up.     *)
Retry(c) ==
  /\ attempts' = [attempts EXCEPT ![c] = IF @ = MaxAttempts THEN @ ELSE @ + 1]
  /\ Goto(c, IF attempts'[c] < MaxAttempts THEN "ready" ELSE "idle")

(* Only the failure that reaches the threshold goes on to set opened_at.   *)
AddFailure(c) ==
  /\ stage[c] \in {"failed", "probe_failed"}
  /\ failure_count' = IF failure_count > FailureThreshold THEN failure_count ELSE failure_count + 1
  /\ IF failure_count' = FailureThreshold THEN Goto(c, "tripped") /\ UNCHANGED attempts ELSE Retry(c)
  /\ UNCHANGED <<since_opened, service_up>>

StoreOpened(c) ==
  /\ stage[c] = "tripped"
  /\ since_opened' = 0
  /\ Retry(c)
  /\ UNCHANGED <<failure_count, service_up>>

TimePasses ==
  /\ since_opened < RecoveryTimeout
  /\ since_opened' = since_opened + 1
  /\ UNCHANGED <<failure_count, stage, attempts, service_up>>

ServiceChanges ==
  /\ service_up' = ~service_up
  /\ UNCHANGED <<failure_count, since_opened, stage, attempts>>
-----------------------------------------------------------------------------
BreakerInit ==
  /\ failure_count = 0
  /\ since_opened = RecoveryTimeout
  /\ stage = [c \in Caller |-> "idle"]
  /\ attempts = [c \in Caller |-> 0]
  /\ service_up = TRUE

CallerNext(c) ==
  \/ Request(c) \/ ReadCount(c) \/ ReadOpened(c)
  \/ OperationSucceeds(c) \/ OperationFails(c) \/ OperationRefused(c)
  \/ SwapCount(c) \/ ResetOpened(c) \/ AddFailure(c) \/ StoreOpened(c)

BreakerNext == (\E c \in Caller : CallerNext(c)) \/ TimePasses \/ ServiceChanges

(* Threads that are under way go on, requests keep coming, time passes.    *)
BreakerFairness ==
  /\ \A c \in Caller : WF_breakerVars(CallerNext(c))
  /\ WF_breakerVars(TimePasses)

BreakerSpec == BreakerInit /\ [][BreakerNext]_breakerVars /\ BreakerFairness
-----------------------------------------------------------------------------
(* The state has its type.                                                 *)
BreakerTypeOK ==
  /\ failure_count \in 0 .. FailureThreshold + 1
  /\ since_opened \in 0 .. RecoveryTimeout
  /\ stage \in [Caller -> Stages]
  /\ attempts \in [Caller -> 0 .. MaxAttempts]
  /\ service_up \in BOOLEAN

(* A service that has come back is used again: the circuit does not stay   *)
(* open, and the calls it rejects do not keep it so.                       *)
CircuitCloses ==
  (<>[]service_up) => []<>(CircuitState = "Closed")

(* A probe that fails opens the circuit again.                             *)
FailedProbeReopens ==
  [][\A c \in Caller :
       stage[c] = "probe_failed" /\ stage'[c] \notin {"probe_failed", "tripped"} => CircuitState' = "Open"]_breakerVars
=============================================================================
