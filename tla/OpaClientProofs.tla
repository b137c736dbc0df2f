-------------------------- MODULE OpaClientProofs --------------------------
(***************************************************************************)
(* OpaClient for any number of callers, any threshold, window, retry       *)
(* budget and back-off.  TypeOK is inductive; FailClosed needs to know     *)
(* that a caller in flight holds no grant; LoadWhileOpen needs to know     *)
(* that the posts made in an open window were all counted as attempts of   *)
(* the same call, because no call begins while the circuit is open.        *)
(***************************************************************************)
EXTENDS OpaClient, TLAPS

\* The counters stay in range: the count below its cap, the window no longer
\* than recovery_timeout (resilience.py, record_failure).
LEMMA BreakerTypeCorrect ==
    ASSUME BreakerTypeOK, BreakerStep
    PROVE  BreakerTypeOK'
BY BreakerAssumption DEF BreakerTypeOK, BreakerStep, RecordSuccess, RecordFailure, Elapse

\* Each step of the breaker is a step of the contract or leaves the regime.
LEMMA BreakerStepRefines ==
    ASSUME BreakerTypeOK, BreakerStep
    PROVE  [Contract!Next]_Regime
<1>1. CASE RecordSuccess
  BY <1>1, BreakerAssumption DEF BreakerTypeOK, RecordSuccess, Regime, Contract!Next, Contract!Close
<1>2. CASE RecordFailure
  BY <1>2, BreakerAssumption DEF BreakerTypeOK, RecordFailure, Regime, Contract!Next,
     Contract!Trip, Contract!ProbeFails
<1>3. CASE Elapse
  BY <1>3, BreakerAssumption DEF BreakerTypeOK, Elapse, Regime, Contract!Next, Contract!WindowElapses
<1>4. QED  BY <1>1, <1>2, <1>3 DEF BreakerStep

\* A fresh breaker satisfies its type and starts closed.
LEMMA BreakerInitCorrect ==
    ASSUME BreakerInit
    PROVE  BreakerTypeOK /\ Contract!Init /\ ~IsOpen
BY BreakerAssumption DEF BreakerInit, BreakerTypeOK, Contract!Init, Regime, IsOpen

\* The part of the steps that concerns the breaker: one of its operations
\* or nothing.
LEMMA BreakerUse ==
    ASSUME [Next]_vars
    PROVE  BreakerStep \/ UNCHANGED breakerVars
BY DEF Next, vars, breakerVars, BreakerStep, ShortCircuit, FirstPost, ReceiveDecision,
       ReceiveHttpError, RetryLater, GiveUp, AttemptLost, Retry, Cancel, OpaAnswers,
       OpaChanges, Tick

LEMMA BreakerTyped ==
    ASSUME TypeOK, [Next]_vars
    PROVE  BreakerTypeOK'
<1>1. CASE BreakerStep  BY <1>1, BreakerTypeCorrect DEF TypeOK
<1>2. CASE UNCHANGED breakerVars  BY <1>2 DEF TypeOK, BreakerTypeOK, breakerVars
<1>3. QED  BY <1>1, <1>2, BreakerUse

LEMMA InitInv == Init => IInv
BY BreakerInitCorrect, OpaAssumption
   DEF Init, IInv, TypeOK, Decisions, Broken, Results, RetryBudget, FailClosed, OpenPostsAreRetries

\* Each action keeps the four parts of the inductive invariant.
LEMMA StepInv ==
    ASSUME IInv, [Next]_vars
    PROVE  IInv'
<1> DEFINE ClientOK ==
      /\ pc \in [Callers -> {"idle", "posting", "backoff"}]
      /\ attempt \in [Callers -> 0..MaxRetries]
      /\ sleepFor \in [Callers -> 0..RetryBackoff]
      /\ reply \in [Callers -> Decisions \cup Broken \cup {"none"}]
      /\ result \in [Callers -> Results]
      /\ opaUp \in BOOLEAN
      /\ openPosts \in [Callers -> Nat]
<1>0. BreakerTypeOK'  BY BreakerTyped DEF IInv
<1> DEFINE Kept == ClientOK /\ RetryBudget /\ FailClosed /\ OpenPostsAreRetries
<1> SUFFICES Kept'
  BY <1>0 DEF IInv, TypeOK
<1> USE OpaAssumption DEF IInv, TypeOK, Results, Return, CountPosts,
                          RetryBudget, FailClosed, OpenPostsAreRetries
<1>1. ASSUME NEW c \in Callers, ShortCircuit(c) PROVE Kept'
  BY <1>1 DEF ShortCircuit, breakerVars, IsOpen
<1>2. ASSUME NEW c \in Callers, FirstPost(c) PROVE Kept'
  BY <1>2 DEF FirstPost, breakerVars, IsOpen
<1>3. ASSUME NEW c \in Callers, ReceiveDecision(c) PROVE Kept'
  BY <1>3 DEF ReceiveDecision, AsBool, Decisions
<1>4. ASSUME NEW c \in Callers, ReceiveHttpError(c) PROVE Kept'
  BY <1>4 DEF ReceiveHttpError
<1>5. ASSUME NEW c \in Callers, RetryLater(c) PROVE Kept'
  BY <1>5 DEF RetryLater, AttemptLost
<1>6. ASSUME NEW c \in Callers, GiveUp(c) PROVE Kept'
  BY <1>6 DEF GiveUp, AttemptLost
<1>7. ASSUME NEW c \in Callers, Retry(c) PROVE Kept'
  BY <1>7 DEF Retry, breakerVars, IsOpen
<1>8. ASSUME NEW c \in Callers, Cancel(c) PROVE Kept'
  BY <1>8 DEF Cancel, breakerVars, IsOpen
<1>9. ASSUME NEW c \in Callers, OpaAnswers(c) PROVE Kept'
  BY <1>9 DEF OpaAnswers, Decisions, Broken, breakerVars, IsOpen
<1>10. CASE OpaChanges
  BY <1>10 DEF OpaChanges, clientVars, breakerVars, IsOpen
<1>11. CASE Tick
  BY <1>11 DEF Tick
<1>12. CASE UNCHANGED vars
  BY <1>12 DEF vars, clientVars, breakerVars, IsOpen
<1>13. QED
  BY <1>1, <1>2, <1>3, <1>4, <1>5, <1>6, <1>7, <1>8, <1>9, <1>10, <1>11, <1>12 DEF Next

LEMMA Invariant == Spec => []IInv
<1>1. Init => IInv  BY InitInv
<1>2. IInv /\ [Next]_vars => IInv'  BY StepInv
<1>3. QED  BY <1>1, <1>2, PTL DEF Spec

\* The types of the client's state; among others no call posts more often
\* than opa_max_retries (the range of attempt).
THEOREM TypeCorrect == Spec => []TypeOK
<1>1. IInv => TypeOK  BY DEF IInv
<1>2. QED  BY <1>1, Invariant, PTL

\* authorize fails closed: whatever times out, breaks, is retried or runs
\* beside it, a call is granted only on a result that is true to Python, in a
\* 200 answer to the attempt the call returned on.
THEOREM GrantsAreOpas == Spec => []FailClosed
<1>1. IInv => FailClosed  BY DEF IInv
<1>2. QED  BY <1>1, Invariant, PTL

\* The open circuit protects OPA up to the retries already under way.
THEOREM OpenLoadBounded == Spec => []LoadWhileOpen
<1>1. IInv => LoadWhileOpen
  BY OpaAssumption DEF IInv, TypeOK, OpenPostsAreRetries, LoadWhileOpen
<1>2. QED  BY <1>1, Invariant, PTL

\* The client implements the breaker contract: its regimes change only in the
\* ways BreakerContract allows, for every interleaving of the callers.
THEOREM RefinesBreakerContract == Spec => KeepsBreakerContract
<1>1. Init => Contract!Init
  BY BreakerInitCorrect DEF Init
<1>2. TypeOK /\ [Next]_vars => [Contract!Next]_Regime
  <2> SUFFICES ASSUME TypeOK, [Next]_vars PROVE [Contract!Next]_Regime
    OBVIOUS
  <2>1. CASE BreakerStep  BY <2>1, BreakerStepRefines DEF TypeOK
  <2>2. CASE UNCHANGED breakerVars  BY <2>2 DEF breakerVars, Regime
  <2>3. QED  BY <2>1, <2>2, BreakerUse
<1>3. QED  BY <1>1, <1>2, TypeCorrect, PTL DEF Spec, KeepsBreakerContract, Contract!Spec

-----------------------------------------------------------------------------
(* No call goes round in circles.                                          *)

\* The posts and sleeps that a call has left: its own steps only.
StepsLeft(c) ==
    CASE pc[c] = "posting" -> 2 * (MaxRetries - attempt[c]) + 2
      [] pc[c] = "backoff" -> 2 * (MaxRetries - attempt[c]) + 1
      [] OTHER -> 0

Bounded(c) ==
    pc[c] # "idle" =>
        /\ StepsLeft(c)' <= StepsLeft(c)
        /\ PostEnds(c) \/ Retry(c) \/ Cancel(c) => StepsLeft(c)' < StepsLeft(c)
        /\ StepsLeft(c)' = StepsLeft(c) => sleepFor'[c] <= sleepFor[c]
        /\ Tick /\ sleepFor[c] > 0 => sleepFor'[c] < sleepFor[c]

LEMMA StepsLeftType ==
    ASSUME TypeOK, NEW c \in Callers
    PROVE  StepsLeft(c) \in Nat /\ (pc[c] # "idle" => StepsLeft(c) > 0)
BY OpaAssumption DEF TypeOK, StepsLeft

LEMMA StepBounded ==
    ASSUME IInv, IInv', Next, NEW c \in Callers, pc[c] # "idle"
    PROVE  Bounded(c)
<1>0. StepsLeft(c) \in Nat /\ StepsLeft(c)' \in Nat /\ StepsLeft(c) > 0
  <2>1. StepsLeft(c) \in Nat /\ StepsLeft(c) > 0  BY StepsLeftType DEF IInv
  <2>2. attempt'[c] \in 0..MaxRetries  BY DEF IInv, TypeOK
  <2>3. StepsLeft(c)' \in Nat  BY <2>2, OpaAssumption DEF StepsLeft
  <2>4. QED  BY <2>1, <2>3
<1>1. sleepFor[c] \in 0..RetryBackoff /\ sleepFor'[c] \in 0..RetryBackoff
  BY DEF IInv, TypeOK
<1>2. attempt[c] \in 0..MaxRetries /\ attempt'[c] \in 0..MaxRetries
  BY DEF IInv, TypeOK
<1> USE OpaAssumption DEF IInv, TypeOK
<1>3. ASSUME PostEnds(c) \/ Retry(c) \/ Cancel(c)  PROVE StepsLeft(c)' < StepsLeft(c)
  <2>1. CASE ReceiveDecision(c) \/ ReceiveHttpError(c) \/ GiveUp(c) \/ Cancel(c)
    <3>1. pc'[c] = "idle"  BY <2>1 DEF ReceiveDecision, ReceiveHttpError, GiveUp, Cancel, Return
    <3>2. QED  BY <1>0, <3>1 DEF StepsLeft
  <2>2. CASE RetryLater(c)
    <3>1. pc[c] = "posting" /\ pc'[c] = "backoff" /\ attempt'[c] = attempt[c]
      BY <2>2 DEF RetryLater, AttemptLost
    <3>2. QED  BY <1>2, <3>1 DEF StepsLeft
  <2>3. CASE Retry(c)
    <3>1. pc[c] = "backoff" /\ pc'[c] = "posting" /\ attempt'[c] = attempt[c] + 1
      BY <2>3 DEF Retry
    <3>2. QED  BY <1>2, <3>1 DEF StepsLeft
  <2>4. QED  BY <1>3, <2>1, <2>2, <2>3 DEF PostEnds
<1>4. ASSUME UNCHANGED <<pc, attempt>>  PROVE StepsLeft(c)' = StepsLeft(c)
  BY <1>4 DEF StepsLeft
<1>5. CASE Tick
  <2>1. sleepFor'[c] = IF sleepFor[c] > 0 THEN sleepFor[c] - 1 ELSE 0  BY <1>5 DEF Tick
  <2>2. UNCHANGED <<pc, attempt>>  BY <1>5 DEF Tick
  <2>3. QED  BY <1>0, <1>1, <1>3, <1>4, <2>1, <2>2 DEF Bounded
<1>6. ASSUME ~Tick, pc'[c] = pc[c], attempt'[c] = attempt[c], sleepFor'[c] = sleepFor[c]
      PROVE  Bounded(c)
  <2>1. StepsLeft(c)' = StepsLeft(c)  BY <1>6 DEF StepsLeft
  <2>2. QED  BY <1>0, <1>1, <1>3, <1>6, <2>1 DEF Bounded
<1>7. ASSUME ~Tick, PostEnds(c) \/ Retry(c) \/ Cancel(c)  PROVE Bounded(c)
  BY <1>0, <1>3, <1>7 DEF Bounded
<1>8. ASSUME NEW d \in Callers, d # c, ShortCircuit(d) \/ FirstPost(d) \/ PostEnds(d) \/ Retry(d)
             \/ Cancel(d)
      PROVE  pc'[c] = pc[c] /\ attempt'[c] = attempt[c] /\ sleepFor'[c] = sleepFor[c]
  <2>1. CASE ShortCircuit(d) \/ FirstPost(d)
    BY <1>8, <2>1 DEF ShortCircuit, FirstPost, Return
  <2>2. CASE PostEnds(d)
    BY <1>8, <2>2 DEF PostEnds, ReceiveDecision, ReceiveHttpError, RetryLater, GiveUp, Return
  <2>3. CASE Retry(d) \/ Cancel(d)  BY <1>8, <2>3 DEF Retry, Cancel, Return
  <2>4. QED  BY <1>8, <2>1, <2>2, <2>3
<1>9. ASSUME NEW d \in Callers, OpaAnswers(d)
      PROVE  pc'[c] = pc[c] /\ attempt'[c] = attempt[c] /\ sleepFor'[c] = sleepFor[c]
  BY <1>9 DEF OpaAnswers
<1>10. CASE OpaChanges
  <2>1. pc'[c] = pc[c] /\ attempt'[c] = attempt[c] /\ sleepFor'[c] = sleepFor[c]
    BY <1>10 DEF OpaChanges, clientVars
  <2>2. QED  BY <1>5, <1>6, <2>1
<1>11. ~ShortCircuit(c) /\ ~FirstPost(c)  BY DEF ShortCircuit, FirstPost
<1>12. QED
  BY <1>5, <1>6, <1>7, <1>8, <1>9, <1>10, <1>11 DEF Next, PostEnds

\* authorize: a call posts and sleeps a bounded number of times, each sleep is
\* over after RetryBackoff ticks, and nothing that happens to OPA, the circuit
\* or other calls sends it back.
THEOREM AuthorizeIsBounded == Spec => [][\A c \in Callers : Bounded(c)]_vars
<1>1. IInv /\ IInv' /\ [Next]_vars => [\A c \in Callers : Bounded(c)]_vars
  <2> SUFFICES ASSUME IInv, IInv', Next, NEW c \in Callers  PROVE Bounded(c)
    OBVIOUS
  <2>1. CASE pc[c] = "idle"  BY <2>1 DEF Bounded
  <2>2. CASE pc[c] # "idle"  BY <2>2, StepBounded
  <2>3. QED  BY <2>1, <2>2
<1>2. QED  BY <1>1, Invariant, PTL DEF Spec
=============================================================================
