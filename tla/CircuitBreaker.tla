--------------------------- MODULE CircuitBreaker ---------------------------
(***************************************************************************)
(* platform_sdk/resilience.py: the CircuitBreaker dataclass, which         *)
(* OpaClient and ToolResultCache share a definition (never an object) of.  *)
(*                                                                         *)
(* The code keeps the count _failures and the absolute instant             *)
(* _open_until; is_open compares them with the threshold and with          *)
(* time.monotonic().  Only the distance to _open_until matters, so the     *)
(* model keeps openFor, the time units that are left until _open_until     *)
(* (0 once it has passed), and the clock is the action Elapse.             *)
(*                                                                         *)
(* _failures is unbounded in the code, which only ever compares it with    *)
(* the threshold and with 0: the model stops counting at CountCap.         *)
(***************************************************************************)
EXTENDS Naturals

CONSTANTS
    FailureThreshold,   \* failure_threshold (default 5)
    RecoveryTimeout,    \* recovery_timeout, in time units (default 30 s)
    CountCap            \* where the model stops counting failures

ASSUME BreakerAssumption ==
    /\ FailureThreshold \in Nat \ {0}
    /\ RecoveryTimeout \in Nat \ {0}
    /\ CountCap \in Nat
    /\ CountCap >= FailureThreshold

VARIABLES
    failures,           \* _failures
    openFor             \* max(0, _open_until - time.monotonic())

breakerVars == <<failures, openFor>>

BreakerTypeOK ==
    /\ failures \in 0..CountCap
    /\ openFor \in 0..RecoveryTimeout

BreakerInit == failures = 0 /\ openFor = 0

-----------------------------------------------------------------------------
\* is_open: at the threshold, and the recovery window has not run out.
IsOpen == failures >= FailureThreshold /\ openFor > 0

(* Mutants: the breaker with a step left out.                              *)
RecordSuccessKeepsCount == UNCHANGED breakerVars
RecordFailureNoWindow ==
    /\ failures' = IF failures < CountCap THEN failures + 1 ELSE failures
    /\ UNCHANGED openFor

\* record_success: forgets the failures, leaves _open_until as it is.
RecordSuccess == failures' = 0 /\ UNCHANGED openFor

\* record_failure: counts, and (re)starts the window at the threshold.
RecordFailure ==
    /\ failures' = IF failures < CountCap THEN failures + 1 ELSE failures
    /\ openFor' = IF failures' >= FailureThreshold THEN RecoveryTimeout ELSE openFor

\* One unit of monotonic time passes.
Elapse == openFor' = (IF openFor > 0 THEN openFor - 1 ELSE 0) /\ UNCHANGED failures

BreakerStep == RecordSuccess \/ RecordFailure \/ Elapse

-----------------------------------------------------------------------------
\* The refinement mapping to BreakerContract.
Regime ==
    IF failures < FailureThreshold THEN "closed"
    ELSE IF openFor > 0 THEN "open" ELSE "probing"

Contract == INSTANCE BreakerContract WITH regime <- Regime
=============================================================================
