------------------------------ MODULE OpaClient ------------------------------
(***************************************************************************)
(* platform_sdk/security.py: OpaClient.authorize, run by any number of     *)
(* concurrent tool calls that share one client and one circuit breaker.    *)
(*                                                                         *)
(* The client runs on one asyncio loop: the code between two awaits is one *)
(* action.  The awaits of authorize are the POST to OPA and the back-off   *)
(* sleep, and at each of them other calls run, the clock moves, or the     *)
(* caller's task is cancelled (a disconnected client).  OPA itself is      *)
(* external: it decides, breaks, or stays silent.                          *)
(***************************************************************************)
EXTENDS CircuitBreaker, FiniteSets

CONSTANTS
    Callers,        \* the tool calls that may be in authorize at once
    MaxRetries,     \* opa_max_retries (default 2): posts per call at most
    RetryBackoff    \* opa_retry_backoff, in time units (default 0.2 s)

ASSUME OpaAssumption ==
    /\ MaxRetries \in Nat
    /\ RetryBackoff \in Nat

VARIABLES
    pc,             \* where each call is: idle, posting, backoff
    attempt,        \* posts made by the current (or else the last) call
    sleepFor,       \* time left of the back-off sleep
    reply,          \* what OPA answered to the latest post
    result,         \* what the last authorize of this caller returned
    opaUp,          \* OPA and the path to it answer correctly
    openPosts       \* ghost: posts each caller made since the circuit opened

clientVars == <<pc, attempt, sleepFor, reply, result>>
vars == <<breakerVars, clientVars, opaUp, openPosts>>

\* The "result" of a 200 answer that is a JSON object: a boolean, a value that
\* is not boolean but true to Python (a policy package's whole document, a
\* string, even an object that says allow: false), or one that is false to
\* Python (absent because the rule is undefined, null, empty).
Decisions == {"true", "false", "truthy", "falsy"}

\* The other answers: a 3xx, 4xx or 5xx, and a 200 that is not a JSON object.
Broken == {"http_error", "malformed"}
Results == {"none", "granted", "denied", "cancelled"}

TypeOK ==
    /\ BreakerTypeOK
    /\ pc \in [Callers -> {"idle", "posting", "backoff"}]
    /\ attempt \in [Callers -> 0..MaxRetries]
    /\ sleepFor \in [Callers -> 0..RetryBackoff]
    /\ reply \in [Callers -> Decisions \cup Broken \cup {"none"}]
    /\ result \in [Callers -> Results]
    /\ opaUp \in BOOLEAN
    /\ openPosts \in [Callers -> Nat]

Init ==
    /\ BreakerInit
    /\ pc = [c \in Callers |-> "idle"]
    /\ attempt = [c \in Callers |-> 0]
    /\ sleepFor = [c \in Callers |-> 0]
    /\ reply = [c \in Callers |-> "none"]
    /\ result = [c \in Callers |-> "none"]
    /\ opaUp = TRUE
    /\ openPosts = [c \in Callers |-> 0]

-----------------------------------------------------------------------------
(* Helpers.  The ghost follows the breaker and never guards an action.     *)

\* The circuit's window is a fresh one whenever it is not open now.
CountPosts(posters) ==
    openPosts' = [c \in Callers |->
        IF ~IsOpen' THEN 0
        ELSE IF c \in posters THEN openPosts[c] + 1 ELSE openPosts[c]]

\* authorize returns r to its caller.
Return(c, r) ==
    /\ pc' = [pc EXCEPT ![c] = "idle"]
    /\ result' = [result EXCEPT ![c] = r]

-----------------------------------------------------------------------------
(* Entering authorize.                                                     *)

\* The circuit is open (or no attempt is configured): denied at once.
ShortCircuit(c) ==
    /\ pc[c] = "idle"
    /\ IsOpen \/ MaxRetries = 0
    /\ Return(c, "denied")
    /\ UNCHANGED <<breakerVars, attempt, sleepFor, reply, opaUp>>
    /\ CountPosts({})

\* Mutant: the breaker is not consulted.
FirstPostUnchecked(c) ==
    /\ pc[c] = "idle"
    /\ MaxRetries > 0
    /\ pc' = [pc EXCEPT ![c] = "posting"]
    /\ attempt' = [attempt EXCEPT ![c] = 1]
    /\ reply' = [reply EXCEPT ![c] = "none"]
    /\ result' = [result EXCEPT ![c] = "none"]
    /\ UNCHANGED <<breakerVars, sleepFor, opaUp>>
    /\ CountPosts({c})

\* The first post of a call: the breaker is consulted here and only here.
FirstPost(c) ==
    /\ pc[c] = "idle"
    /\ ~IsOpen
    /\ MaxRetries > 0
    /\ pc' = [pc EXCEPT ![c] = "posting"]
    /\ attempt' = [attempt EXCEPT ![c] = 1]
    /\ reply' = [reply EXCEPT ![c] = "none"]
    /\ result' = [result EXCEPT ![c] = "none"]
    /\ UNCHANGED <<breakerVars, sleepFor, opaUp>>
    /\ CountPosts({c})

(* The outcomes of a post.                                                 *)

\* bool(response.json().get("result", False)).
AsBool(answer) == answer \in {"true", "truthy"}

\* A 200 answer whose result is read: record_success, then Python's truth of
\* the result is returned; nothing checks that it is a boolean.
ReceiveDecision(c) ==
    /\ pc[c] = "posting"
    /\ reply[c] \in Decisions
    /\ RecordSuccess
    /\ Return(c, IF AsBool(reply[c]) THEN "granted" ELSE "denied")
    /\ UNCHANGED <<attempt, sleepFor, reply, opaUp>>
    /\ CountPosts({})

\* HTTPStatusError: denied at once, without a retry.
ReceiveHttpError(c) ==
    /\ pc[c] = "posting"
    /\ reply[c] = "http_error"
    /\ RecordFailure
    /\ Return(c, "denied")
    /\ UNCHANGED <<attempt, sleepFor, reply, opaUp>>
    /\ CountPosts({})

\* A timeout (whatever OPA may have decided meanwhile), a connection error
\* or a 200 answer that is not a JSON object: the attempt is over.
AttemptLost(c) ==
    /\ pc[c] = "posting"
    /\ reply[c] = "malformed" \/ ~opaUp
    /\ reply[c] # "http_error"
    /\ RecordFailure

RetryLater(c) ==
    /\ AttemptLost(c)
    /\ attempt[c] < MaxRetries
    /\ pc' = [pc EXCEPT ![c] = "backoff"]
    /\ sleepFor' = [sleepFor EXCEPT ![c] = RetryBackoff]
    /\ UNCHANGED <<attempt, reply, result, opaUp>>
    /\ CountPosts({})

\* Mutant: exhausted retries fail open.
GiveUpFailOpen(c) ==
    /\ AttemptLost(c)
    /\ attempt[c] >= MaxRetries
    /\ Return(c, "granted")
    /\ UNCHANGED <<attempt, sleepFor, reply, opaUp>>
    /\ CountPosts({})

GiveUp(c) ==
    /\ AttemptLost(c)
    /\ attempt[c] >= MaxRetries
    /\ Return(c, "denied")
    /\ UNCHANGED <<attempt, sleepFor, reply, opaUp>>
    /\ CountPosts({})

\* Mutant: the attempt is not counted.
RetryUncounted(c) ==
    /\ pc[c] = "backoff"
    /\ sleepFor[c] = 0
    /\ pc' = [pc EXCEPT ![c] = "posting"]
    /\ reply' = [reply EXCEPT ![c] = "none"]
    /\ UNCHANGED <<breakerVars, attempt, sleepFor, result, opaUp>>
    /\ CountPosts({c})

\* The sleep is over and the loop posts again; is_open is not asked again.
Retry(c) ==
    /\ pc[c] = "backoff"
    /\ sleepFor[c] = 0
    /\ pc' = [pc EXCEPT ![c] = "posting"]
    /\ attempt' = [attempt EXCEPT ![c] = @ + 1]
    /\ reply' = [reply EXCEPT ![c] = "none"]
    /\ UNCHANGED <<breakerVars, sleepFor, result, opaUp>>
    /\ CountPosts({c})

\* CancelledError is a BaseException: it passes every except clause, so the
\* breaker hears nothing of it.
Cancel(c) ==
    /\ pc[c] # "idle"
    /\ Return(c, "cancelled")
    /\ UNCHANGED <<breakerVars, attempt, sleepFor, reply, opaUp>>
    /\ CountPosts({})

-----------------------------------------------------------------------------
(* The environment.                                                        *)

OpaAnswers(c) ==
    /\ pc[c] = "posting"
    /\ reply[c] = "none"
    /\ \E answer \in IF opaUp THEN Decisions ELSE Decisions \cup Broken :
           reply' = [reply EXCEPT ![c] = answer]
    /\ UNCHANGED <<breakerVars, pc, attempt, sleepFor, result, opaUp, openPosts>>

OpaChanges ==
    /\ opaUp' = ~opaUp
    /\ UNCHANGED <<breakerVars, clientVars, openPosts>>

Tick ==
    /\ Elapse
    /\ sleepFor' = [c \in Callers |-> IF sleepFor[c] > 0 THEN sleepFor[c] - 1 ELSE 0]
    /\ UNCHANGED <<pc, attempt, reply, result, opaUp>>
    /\ CountPosts({})

-----------------------------------------------------------------------------
PostEnds(c) == ReceiveDecision(c) \/ ReceiveHttpError(c) \/ RetryLater(c) \/ GiveUp(c)

Next ==
    \/ \E c \in Callers :
          \/ ShortCircuit(c)
          \/ FirstPost(c)
          \/ ReceiveDecision(c)
          \/ ReceiveHttpError(c)
          \/ RetryLater(c)
          \/ GiveUp(c)
          \/ Retry(c)
          \/ Cancel(c)
          \/ OpaAnswers(c)
    \/ OpaChanges
    \/ Tick

Spec == Init /\ [][Next]_vars

\* Monotonic time does not stop.  A working OPA answers, and httpx ends every
\* post that is not answered by a timeout.  The event loop resumes a sleeper.
Fairness ==
    /\ WF_vars(Tick)
    /\ \A c \in Callers :
          /\ WF_vars(PostEnds(c))
          /\ WF_vars(OpaAnswers(c))
          /\ WF_vars(Retry(c))

FairSpec == Spec /\ Fairness

-----------------------------------------------------------------------------
(* Safety.                                                                 *)

\* authorize grants a call only on a 200 answer to the very attempt it returned
\* on, whose "result" is true to Python: no timeout, error status, unreadable
\* or missing result, answer to an earlier attempt, exhausted retry, open
\* circuit or neighbouring call turns into a grant.  A result that is not a
\* boolean counts by its truth: authorize trusts the policy at opa_url to
\* answer a boolean.
FailClosed ==
    \A c \in Callers :
        result[c] = "granted" => pc[c] = "idle" /\ reply[c] \in {"true", "truthy"}

\* The breaker's protection is bounded, not absolute: since retries do not ask
\* is_open again, a call that was under way when the circuit opened may still
\* post, but no caller posts more than its remaining retries while it is open.
LoadWhileOpen ==
    \A c \in Callers : openPosts[c] > 0 => openPosts[c] < MaxRetries

\* What the breaker promises its users (BreakerContract), whatever the order
\* in which concurrent calls record their outcomes.
KeepsBreakerContract == Contract!Spec

\* The invariant that makes both inductive: a sleeper has an attempt left, a
\* running call has made one and holds no grant yet, and the posts made in the
\* current open window are attempts of one and the same call after its first.
RetryBudget ==
    \A c \in Callers :
        /\ pc[c] # "idle" => attempt[c] > 0
        /\ pc[c] = "backoff" => attempt[c] < MaxRetries

OpenPostsAreRetries ==
    \A c \in Callers :
        /\ ~IsOpen => openPosts[c] = 0
        /\ openPosts[c] > 0 => openPosts[c] < attempt[c]

IInv == TypeOK /\ RetryBudget /\ FailClosed /\ OpenPostsAreRetries

(* Liveness.                                                               *)

\* Every call of authorize comes back.
AuthorizeReturns == \A c \in Callers : pc[c] # "idle" ~> pc[c] = "idle"

\* Once OPA works for good, and calls that are not cancelled keep reaching
\* it, the failures are forgotten and the circuit stays closed.
HealsWithOpa ==
    (/\ <>[]opaUp
     /\ <>[](\A c \in Callers : result[c] # "cancelled")
     /\ []<>(\E c \in Callers : pc[c] = "posting")) => <>[](failures = 0)

=============================================================================
