-------------------------- MODULE McpBridgeProofs --------------------------
(***************************************************************************)
(* McpBridge for any number of requests, any timeouts and any backoff cap. *)
(* What disconnect promises its owner is a fact about the background task: *)
(* the session lives exactly inside the task's connection, the task leaves *)
(* its loop only when told to, and disconnect returns only after it left.  *)
(***************************************************************************)
EXTENDS McpBridge, WellFoundedInduction, TLAPS

\* The parameters' types, without the power that relates two of them.
LEMMA Parameters ==
    /\ StartupTimeout \in Nat
    /\ CallTimeout \in Nat \ {0}
    /\ MaxDelay \in Nat \ {0}
    /\ FailureCap \in Nat \ {0}
    /\ WatchCap \in Nat
BY BridgeAssumption

\* The flags stay Boolean.
LEMMA FlagsTyped ==
    ASSUME Flags, [Next]_vars
    PROVE  Flags'
BY ZenonT(60) DEF Flags, Next, Loop, vars, ownerVars, loopVars, Connect, ConnectReturns, Disconnect,
   DisconnectCancelled, DisconnectReturns, Start, Opened, OpenFails, BackOff, Initialized, LinkBreaks, StopSeen, Unwound,
   Slice, Request, Answered, Fails, TimesOut, BridgeUnchanged, ServerChanges, Tick

LEMMA InitInv == Init => IInv
<1>1. Init => Flags  BY Zenon DEF Init, Flags
<1>2. Init => IInv
  BY <1>1, Parameters DEF Init, IInv, TypeOK, LoopPlaces, Results, TaskOwned, SessionOwned,
     CallsHoldSession, ClosedMeansClosed
<1>3. QED  BY <1>2

LEMMA StepInv ==
    ASSUME IInv, [Next]_vars
    PROVE  IInv'
<1>0. Flags'  BY FlagsTyped DEF IInv, TypeOK
<1> USE <1>0, Parameters DEF IInv, TypeOK, LoopPlaces, Results, TaskOwned, SessionOwned,
        CallsHoldSession, ClosedMeansClosed, ownerVars, loopVars, callVars, ghosts
<1>1. CASE Connect  BY <1>1 DEF Connect
<1>2. CASE ConnectReturns  BY <1>2 DEF ConnectReturns
<1>3. CASE Disconnect  BY <1>3 DEF Disconnect
<1>4. CASE DisconnectReturns  BY <1>4 DEF DisconnectReturns
<1>5. CASE Start  BY <1>5 DEF Start, LoopTop
<1>6. CASE Opened  BY <1>6 DEF Opened
<1>7. CASE OpenFails
  <2>1. CASE stop  BY <1>7, <2>1 DEF OpenFails, BackOff
  <2>2. CASE ~stop  BY <1>7, <2>2 DEF OpenFails, BackOff
  <2>3. QED  BY <2>1, <2>2
<1>8. CASE Initialized  BY <1>8 DEF Initialized
<1>9. CASE LinkBreaks  BY <1>9 DEF LinkBreaks
<1>10. CASE StopSeen  BY <1>10 DEF StopSeen
<1>11. CASE Unwound
  <2>1. lost' \in [Calls -> BOOLEAN]  BY <1>11 DEF Unwound
  <2>2. loop' \in {"done", "sleeping"} /\ (loop' = "done" => stop)
        /\ failures' \in 0..FailureCap /\ slept' = 0
    BY <1>11 DEF Unwound, BackOff
  <2>3. call' = call /\ waited' = waited /\ result' = result
        /\ \A c \in Calls : call[c] # "idle" => lost'[c]
    BY <1>11 DEF Unwound
  <2>4. /\ ~session' /\ ~linkUp' /\ (stop' <=> stop)
        /\ owner' = owner /\ waitLeft' = waitLeft /\ downFor' = downFor /\ tries' = tries
    BY <1>11 DEF Unwound
  <2>5. TypeOK'  BY <2>1, <2>2, <2>3, <2>4
  <2>6. TaskOwned'  BY <1>11, <2>2, <2>4 DEF Unwound
  <2>7. SessionOwned' /\ CallsHoldSession' /\ ClosedMeansClosed'
    BY <1>11, <2>2, <2>3, <2>4 DEF Unwound
  <2>8. QED  BY <2>5, <2>6, <2>7
<1>12. CASE Slice  BY <1>12 DEF Slice, LoopTop, MoreSleep
<1>13. ASSUME NEW c \in Calls, Request(c) PROVE IInv'
  <2>1. CASE session  BY <1>13, <2>1 DEF Request, BridgeUnchanged
  <2>2. CASE ~session
    <3>1. PICK r \in {"unavailable", "empty"} : Return(c, r)
      BY <1>13, <2>2 DEF Request
    <3>2. QED  BY <1>13, <3>1 DEF Request, BridgeUnchanged, Return
  <2>3. QED  BY <2>1, <2>2
<1>14. ASSUME NEW c \in Calls, Answered(c) PROVE IInv'
  BY <1>14 DEF Answered, Return, BridgeUnchanged
<1>15. ASSUME NEW c \in Calls, Fails(c) PROVE IInv'
  BY <1>15 DEF Fails, Return, BridgeUnchanged
<1>16. ASSUME NEW c \in Calls, TimesOut(c) PROVE IInv'
  BY <1>16 DEF TimesOut, Return, BridgeUnchanged
<1>17. CASE ServerChanges  BY <1>17 DEF ServerChanges
<1>18. CASE Tick  BY <1>18 DEF Tick
<1>19. CASE DisconnectCancelled  BY <1>19 DEF DisconnectCancelled
<1>20. CASE UNCHANGED vars  BY <1>20 DEF vars
<1>21. QED
  BY <1>1, <1>2, <1>3, <1>4, <1>5, <1>6, <1>7, <1>8, <1>9, <1>10, <1>11, <1>12, <1>13,
     <1>14, <1>15, <1>16, <1>17, <1>18, <1>19, <1>20 DEF Next, Loop

LEMMA Invariant == Spec => []IInv
<1>1. Init => IInv  BY InitInv
<1>2. IInv /\ [Next]_vars => IInv'  BY StepInv
<1>3. QED  BY <1>1, <1>2, PTL DEF Spec

-----------------------------------------------------------------------------
\* The types of the bridge's state: among others the backoff sleeps no longer
\* than its cap.
THEOREM TypeCorrect == Spec => []TypeOK
<1>1. IInv => TypeOK  BY DEF IInv
<1>2. QED  BY <1>1, Invariant, PTL

\* disconnect: when it has returned, no task and no session of the bridge is
\* left, from whatever place the reconnect loop was stopped.
THEOREM DisconnectIsFinal == Spec => []ClosedMeansClosed
<1>1. IInv => ClosedMeansClosed  BY DEF IInv
<1>2. QED  BY <1>1, Invariant, PTL

\* _reconnect_loop: the session is_connected reports is never that of an
\* earlier connection.
THEOREM NoStaleSession == Spec => []SessionOwned
<1>1. IInv => SessionOwned  BY DEF IInv
<1>2. QED  BY <1>1, Invariant, PTL

\* disconnect and _reconnect_loop: the two together.
THEOREM NothingIsLeft == Spec => []NothingOutlives
<1>1. ClosedMeansClosed /\ SessionOwned => NothingOutlives  BY DEF NothingOutlives
<1>2. QED  BY <1>1, DisconnectIsFinal, NoStaleSession, PTL

\* disconnect, _reconnect_loop: after the stop event no attempt begins and a
\* sleeping task starts no further slice.
THEOREM StopIsPrompt == Spec => NoWorkAfterStop
<1>1. [Next]_vars => [stop /\ stop' =>
          /\ loop' = "opening" => loop = "opening"
          /\ loop = "sleeping" /\ loop' = "sleeping" => slept' = slept]_vars
  <2> SUFFICES ASSUME Next, stop, stop'
               PROVE  /\ loop' = "opening" => loop = "opening"
                      /\ loop = "sleeping" /\ loop' = "sleeping" => slept' = slept
    OBVIOUS
  <2>1. CASE Loop
    BY <2>1 DEF Loop, Start, LoopTop, Opened, OpenFails, BackOff, Initialized, LinkBreaks,
                StopSeen, Unwound, Slice
  <2>2. CASE Connect  BY <2>2 DEF Connect
  <2>3. CASE DisconnectReturns  BY <2>3 DEF DisconnectReturns
  <2>4. CASE DisconnectCancelled  BY <2>4 DEF DisconnectCancelled
  <2>5. CASE UNCHANGED <<loop, slept>>  BY <2>5
  <2>6. QED
    BY <2>1, <2>2, <2>3, <2>4, <2>5 DEF Next, ConnectReturns, Disconnect, Request, Answered, Fails,
       TimesOut, Return, BridgeUnchanged, ServerChanges, Tick, loopVars
<1>2. QED  BY <1>1, PTL DEF Spec, NoWorkAfterStop

\* The bridge implements its contract: degraded and ready alternate between
\* connect and disconnect, and it closes only after the session was given up.
THEOREM RefinesBridgeContract == Spec => KeepsBridgeContract
<1>1. Init => Contract!Init  BY DEF Init, Contract!Init, Phase
<1>2. IInv /\ [Next]_vars => [Contract!Next]_Phase
  <2> SUFFICES ASSUME IInv, Next PROVE [Contract!Next]_Phase
    BY DEF vars, ownerVars, loopVars, Phase
  <2> USE DEF IInv, TaskOwned, TypeOK, Phase, Contract!Next, Contract!Connect, Contract!BecomeReady,
              Contract!LoseSession, Contract!Disconnected, ownerVars, loopVars
  <2>1. CASE Loop
    BY <2>1 DEF Loop, Start, LoopTop, Opened, OpenFails, BackOff, Initialized, LinkBreaks,
                StopSeen, Unwound, Slice
  <2>2. CASE Connect  BY <2>2 DEF Connect
  <2>3. CASE ConnectReturns  BY <2>3 DEF ConnectReturns
  <2>4. CASE Disconnect  BY <2>4 DEF Disconnect
  <2>5. CASE DisconnectReturns  BY <2>5 DEF DisconnectReturns
  <2>6. CASE DisconnectCancelled  BY <2>6 DEF DisconnectCancelled
  <2>7. CASE UNCHANGED <<owner, loop>>  BY <2>7
  <2>8. QED
    BY <2>1, <2>2, <2>3, <2>4, <2>5, <2>6, <2>7 DEF Next, Request, Answered, Fails, TimesOut,
       BridgeUnchanged, ServerChanges, Tick
<1>3. QED  BY <1>1, <1>2, Invariant, PTL DEF Spec, KeepsBridgeContract, Contract!Spec

-----------------------------------------------------------------------------
(* The load of a server that is down.                                      *)

\* Every natural number is in a set that has 0 and, with n, n + 1.
LEMMA NatSetInduction ==
    ASSUME NEW G, 0 \in G, \A n \in Nat : n \in G => n + 1 \in G
    PROVE  \A n \in Nat : n \in G
<1> DEFINE Bad == {n \in Nat : n \notin G}
<1> SUFFICES ASSUME Bad # {}  PROVE FALSE  OBVIOUS
<1>1. IsWellFoundedOn(OpToRel(<, Nat), Nat)  BY NatLessThanWellFounded
<1>2. PICK m \in Bad : \A k \in Bad : <<k, m>> \notin OpToRel(<, Nat)
  <2>1. Bad \subseteq Nat  OBVIOUS
  <2>2. QED  BY <1>1, <2>1, WFMin
<1>3. m \in Nat /\ m \notin G /\ m # 0  OBVIOUS
<1>4. \A k \in Bad : ~(k < m)  BY <1>2 DEF OpToRel
<1>5. m - 1 \in Nat /\ m - 1 < m /\ (m - 1) + 1 = m  BY <1>3
<1>6. m - 1 \in G  BY <1>4, <1>5
<1>7. QED  BY <1>3, <1>5, <1>6

\* A recursion from n to n + 1 defines a function.
LEMMA NatRecursion ==
    ASSUME NEW a \in Nat, NEW h \in [Nat \X Nat -> Nat]
    PROVE  \E f \in [Nat -> Nat] : f[0] = a /\ \A n \in Nat : f[n + 1] = h[<<n, f[n]>>]
<1> DEFINE Partial(n, f) ==
             f \in [0..n -> Nat] /\ f[0] = a /\ \A i \in 0..(n - 1) : f[i + 1] = h[<<i, f[i]>>]
           G == {n \in Nat : \E f : Partial(n, f)}
<1>1. \A n \in Nat : \E f : Partial(n, f)
  <2>1. 0 \in G
    <3>1. Partial(0, [i \in 0..0 |-> a])  OBVIOUS
    <3>2. QED  BY <3>1
  <2>2. ASSUME NEW n \in Nat, n \in G  PROVE n + 1 \in G
    <3>1. PICK f : Partial(n, f)  BY <2>2
    <3>2. f \in [0..n -> Nat] /\ f[0] = a  BY <3>1
    <3>3. PICK v \in Nat : v = h[<<n, f[n]>>]
      <4>1. <<n, f[n]>> \in Nat \X Nat  BY <3>2
      <4>2. QED  BY <4>1
    <3> DEFINE g == [i \in 0..(n + 1) |-> IF i <= n THEN f[i] ELSE v]
    <3>4. \A i \in 0..n : g[i] = f[i]  OBVIOUS
    <3>5. g[n + 1] = v  OBVIOUS
    <3>6. g \in [0..(n + 1) -> Nat]
      <4>1. ASSUME NEW i \in 0..(n + 1)
            PROVE  (IF i <= n THEN f[i] ELSE v) \in Nat
        <5>1. CASE i <= n
          <6>1. i \in 0..n  BY <5>1
          <6>2. f[i] \in Nat  BY <3>2, <6>1
          <6>3. QED  BY <5>1, <6>2
        <5>2. CASE ~(i <= n)  BY <5>2
        <5>3. QED  BY <5>1, <5>2
      <4>2. QED  BY <4>1
    <3> HIDE DEF g
    <3>7. g[0] = a  BY <3>2, <3>4
    <3>8. ASSUME NEW i \in 0..n  PROVE g[i + 1] = h[<<i, g[i]>>]
      <4>1. CASE i = n  BY <3>3, <3>4, <3>5, <4>1
      <4>2. CASE i # n
        <5>1. i \in 0..(n - 1) /\ i + 1 \in 0..n /\ i \in 0..n  BY <4>2
        <5>2. f[i + 1] = h[<<i, f[i]>>]  BY <3>1, <5>1
        <5>3. QED  BY <3>4, <5>1, <5>2
      <4>3. QED  BY <4>1, <4>2
    <3>9. (n + 1) - 1 = n  OBVIOUS
    <3>10. Partial(n + 1, g)  BY <3>6, <3>7, <3>8, <3>9
    <3> HIDE DEF Partial
    <3>11. QED  BY <3>10
  <2> HIDE DEF G
  <2>3. \A n \in Nat : n \in G  BY <2>1, <2>2, NatSetInduction
  <2>4. QED  BY <2>3 DEF G
<1>2. ASSUME NEW n \in Nat, NEW f, Partial(n, f), NEW m \in Nat, n <= m, NEW g, Partial(m, g)
      PROVE  \A i \in 0..n : f[i] = g[i]
  <2> DEFINE H == {i \in Nat : i <= n => f[i] = g[i]}
  <2>1. 0 \in H  BY <1>2
  <2>2. ASSUME NEW i \in Nat, i \in H  PROVE i + 1 \in H
    <3> SUFFICES ASSUME i + 1 <= n  PROVE f[i + 1] = g[i + 1]  OBVIOUS
    <3>1. f[i] = g[i] /\ i \in 0..(n - 1) /\ i \in 0..(m - 1)  BY <1>2, <2>2
    <3>2. QED  BY <1>2, <3>1
  <2> HIDE DEF H
  <2>3. \A i \in Nat : i \in H  BY <2>1, <2>2, NatSetInduction
  <2>4. QED  BY <2>3 DEF H
<1> DEFINE part == [n \in Nat |-> CHOOSE f : Partial(n, f)]
           whole == [n \in Nat |-> part[n][n]]
<1>3. \A n \in Nat : Partial(n, part[n])
  <2> TAKE n \in Nat
  <2>1. \E f : Partial(n, f)  BY <1>1
  <2> HIDE DEF Partial
  <2>2. QED  BY <2>1
<1> HIDE DEF part
<1>4. whole \in [Nat -> Nat] /\ whole[0] = a  BY <1>3
<1>5. ASSUME NEW n \in Nat  PROVE whole[n + 1] = h[<<n, whole[n]>>]
  <2>1. Partial(n, part[n]) /\ Partial(n + 1, part[n + 1])  BY <1>3
  <2>2. part[n][n] = part[n + 1][n]
    <3>1. n <= n + 1 /\ n \in 0..n /\ n + 1 \in Nat  OBVIOUS
    <3> HIDE DEF Partial
    <3>2. \A i \in 0..n : part[n][i] = part[n + 1][i]  BY <1>2, <2>1, <3>1
    <3>3. QED  BY <3>1, <3>2
  <2>3. part[n + 1][n + 1] = h[<<n, part[n + 1][n]>>]
    <3>1. n \in 0..((n + 1) - 1)  OBVIOUS
    <3>2. QED  BY <2>1, <3>1
  <2>4. QED  BY <2>2, <2>3
<1> HIDE DEF whole
<1>6. QED  BY <1>4, <1>5

\* 2 ** n.
LEMMA PowerIs ==
    /\ Power \in [Nat -> Nat] /\ Power[0] = 1
    /\ \A n \in Nat : Power[n + 1] = 2 * Power[n]
<1> DEFINE h == [p \in Nat \X Nat |-> 2 * p[2]]
<1>1. h \in [Nat \X Nat -> Nat] /\ \A n, v \in Nat : h[<<n, v>>] = 2 * v  OBVIOUS
<1>1a. 1 \in Nat  OBVIOUS
<1> HIDE DEF h
<1>2. PICK f \in [Nat -> Nat] : f[0] = 1 /\ \A n \in Nat : f[n + 1] = h[<<n, f[n]>>]
  BY <1>1, <1>1a, NatRecursion
<1>3. f = [n \in Nat |-> IF n = 0 THEN 1 ELSE 2 * f[n - 1]]
  <2>1. ASSUME NEW n \in Nat  PROVE f[n] = IF n = 0 THEN 1 ELSE 2 * f[n - 1]
    <3>1. CASE n = 0  BY <1>2, <3>1
    <3>2. CASE n # 0
      <4>1. n - 1 \in Nat /\ (n - 1) + 1 = n /\ f[n - 1] \in Nat  BY <3>2
      <4>2. QED  BY <1>1, <1>2, <3>2, <4>1
    <3>3. QED  BY <3>1, <3>2
  <2>2. QED  BY <2>1
<1>4. Power = [n \in Nat |-> IF n = 0 THEN 1 ELSE 2 * Power[n - 1]]  BY <1>3 DEF Power
<1>5. Power[0] = 1 /\ \A n \in Nat : Power[n + 1] = 2 * Power[n]
  <2>1. ASSUME NEW n \in Nat  PROVE Power[n + 1] = 2 * Power[n]
    <3>1. n + 1 \in Nat /\ n + 1 # 0 /\ (n + 1) - 1 = n  OBVIOUS
    <3>2. QED  BY <1>4, <3>1
  <2>2. QED  BY <1>4, <2>1
<1>6. \A n \in Nat : Power[n] \in Nat
  <2> DEFINE G == {n \in Nat : Power[n] \in Nat}
  <2>1. 0 \in G  BY <1>5
  <2>2. \A n \in Nat : n \in G => n + 1 \in G  BY <1>5
  <2> HIDE DEF G
  <2>3. \A n \in Nat : n \in G  BY <2>1, <2>2, NatSetInduction
  <2>4. QED  BY <2>3 DEF G
<1>7. QED  BY <1>4, <1>5, <1>6

\* The delays do not get shorter.
LEMMA PowerGrows ==
    ASSUME NEW m \in Nat, NEW n \in Nat, m <= n
    PROVE  Power[m] <= Power[n]
<1> DEFINE G == {k \in Nat : m <= k => Power[m] <= Power[k]}
<1>1. 0 \in G
  <2>1. m <= 0 => m = 0  OBVIOUS
  <2>2. Power[0] \in Nat  BY PowerIs
  <2>3. QED  BY <2>1, <2>2
<1>2. ASSUME NEW k \in Nat, k \in G  PROVE k + 1 \in G
  <2>1. Power[k + 1] = 2 * Power[k] /\ Power[k] \in Nat /\ Power[m] \in Nat  BY PowerIs
  <2>2. m <= k + 1 => m <= k \/ m = k + 1  OBVIOUS
  <2>3. QED  BY <1>2, <2>1, <2>2
<1> HIDE DEF G
<1>3. \A k \in Nat : k \in G  BY <1>1, <1>2, NatSetInduction
<1>4. QED  BY <1>3 DEF G

LEMMA EarliestIs ==
    /\ \A n \in Nat : SleepAfter(n) \in Nat
    /\ Earliest \in [Nat -> Nat] /\ Earliest[1] = 0
    /\ \A k \in Nat \ {0} : Earliest[k + 1] = Earliest[k] + SleepAfter(k)
<1>1. \A n \in Nat : SleepAfter(n) \in Nat  BY PowerIs, Parameters DEF SleepAfter
<1> DEFINE h == [p \in Nat \X Nat |-> IF p[1] = 0 THEN 0 ELSE p[2] + SleepAfter(p[1])]
<1>2. /\ h \in [Nat \X Nat -> Nat]
      /\ \A n, v \in Nat : h[<<n, v>>] = IF n = 0 THEN 0 ELSE v + SleepAfter(n)
  BY <1>1
<1> HIDE DEF h
<1>3. PICK f \in [Nat -> Nat] : f[0] = 0 /\ \A n \in Nat : f[n + 1] = h[<<n, f[n]>>]
  BY <1>2, NatRecursion
<1>4. ASSUME NEW k \in Nat  PROVE f[k] = IF k < 2 THEN 0 ELSE f[k - 1] + SleepAfter(k - 1)
  <2>1. CASE k = 0  BY <1>3, <2>1
  <2>2. CASE k # 0
    <3>1. k - 1 \in Nat /\ (k - 1) + 1 = k /\ f[k - 1] \in Nat /\ (k < 2 <=> k - 1 = 0)  BY <2>2
    <3>2. f[k] = h[<<k - 1, f[k - 1]>>]  BY <1>3, <3>1
    <3>3. QED  BY <1>2, <3>1, <3>2
  <2>3. QED  BY <2>1, <2>2
<1>5. f = [k \in Nat |-> IF k < 2 THEN 0 ELSE f[k - 1] + SleepAfter(k - 1)]  BY <1>4
<1>6. Earliest = [k \in Nat |-> IF k < 2 THEN 0 ELSE Earliest[k - 1] + SleepAfter(k - 1)]
  BY <1>5 DEF Earliest
<1>7. Earliest[1] = 0 /\ \A k \in Nat \ {0} : Earliest[k + 1] = Earliest[k] + SleepAfter(k)
  <2>1. ASSUME NEW k \in Nat \ {0}  PROVE Earliest[k + 1] = Earliest[k] + SleepAfter(k)
    <3>1. k + 1 \in Nat /\ ~(k + 1 < 2) /\ (k + 1) - 1 = k  OBVIOUS
    <3>2. QED  BY <1>6, <3>1
  <2>2. QED  BY <1>6, <2>1
<1>8. \A k \in Nat : Earliest[k] \in Nat
  <2> DEFINE G == {k \in Nat : Earliest[k] \in Nat /\ Earliest[k + 1] \in Nat}
  <2>1. 0 \in G
    <3>1. Earliest[0] = 0  BY <1>6
    <3>2. QED  BY <1>7, <3>1
  <2>2. ASSUME NEW n \in Nat, n \in G PROVE n + 1 \in G
    <3>1. Earliest[n + 1] \in Nat /\ SleepAfter(n + 1) \in Nat  BY <1>1, <2>2
    <3>2. Earliest[(n + 1) + 1] = Earliest[n + 1] + SleepAfter(n + 1)  BY <1>7
    <3>3. QED  BY <3>1, <3>2
  <2> HIDE DEF G
  <2>3. \A n \in Nat : n \in G  BY <2>1, <2>2, NatSetInduction
  <2>4. QED  BY <2>3 DEF G
<1>9. QED  BY <1>1, <1>6, <1>7, <1>8

\* A sleep that has ended took as long as the attempts seen so far demand.
LEMMA SleptEnough ==
    ASSUME IInv, NEW n \in Nat, Counted(n), NEW s \in Nat, ~MoreSleep(s)
    PROVE  s >= SleepAfter(n)
<1>1. /\ failures \in Nat /\ FailureCap \in Nat /\ MaxDelay \in Nat
      /\ Power[FailureCap] >= MaxDelay
  BY BridgeAssumption DEF IInv, TypeOK
<1>2. Power[n] \in Nat /\ Power[failures] \in Nat  BY <1>1, PowerIs
<1>3. s >= MaxDelay \/ s >= Power[failures]  BY <1>1, <1>2 DEF MoreSleep
<1>4. Power[failures] >= SleepAfter(n)
  <2>1. CASE failures = FailureCap  BY <1>1, <1>2, <2>1 DEF SleepAfter
  <2>2. CASE failures >= n
    <3>1. Power[n] <= Power[failures]  BY <1>1, <2>2, PowerGrows
    <3>2. QED  BY <1>1, <1>2, <3>1 DEF SleepAfter
  <2>3. QED  BY <2>1, <2>2 DEF Counted
<1>5. MaxDelay >= SleepAfter(n)  BY <1>1, <1>2 DEF SleepAfter
<1>6. SleepAfter(n) \in Nat  BY EarliestIs
<1>7. QED  BY <1>1, <1>2, <1>3, <1>4, <1>5, <1>6

\* The part of the state that Spread reads, typed.
LEMMA SpreadTyped ==
    ASSUME IInv
    PROVE  /\ WatchCap \in Nat /\ downFor \in Nat /\ downFor <= WatchCap
           /\ tries \in Nat /\ tries <= WatchCap
           /\ slept \in Nat /\ failures \in Nat /\ failures <= FailureCap /\ FailureCap \in Nat
           /\ Earliest[tries] \in Nat
<1>1. WatchCap \in Nat /\ FailureCap \in Nat /\ MaxDelay \in Nat  BY Parameters
<1>2. tries \in Nat  BY <1>1 DEF IInv, TypeOK
<1>3. Earliest[tries] \in Nat  BY <1>2, EarliestIs
<1>4. QED  BY <1>1, <1>3 DEF IInv, TypeOK

LEMMA InitSpread == Init => Spread
BY DEF Init, Spread

LEMMA StepSpread ==
    ASSUME IInv, Spread, [Next]_vars
    PROVE  Spread'
<1>0. /\ WatchCap \in Nat /\ downFor \in Nat /\ downFor <= WatchCap
      /\ tries \in Nat /\ tries <= WatchCap
      /\ slept \in Nat /\ failures \in Nat /\ failures <= FailureCap /\ FailureCap \in Nat
      /\ Earliest[tries] \in Nat
  BY SpreadTyped
<1> USE <1>0 DEF Spread, Counted, ownerVars, loopVars, callVars, ghosts
<1>1. CASE Connect  BY <1>1 DEF Connect, IInv, SessionOwned, TaskOwned
<1>2. CASE ConnectReturns  BY <1>2 DEF ConnectReturns
<1>3. CASE Disconnect  BY <1>3 DEF Disconnect
<1>4. CASE DisconnectReturns  BY <1>4 DEF DisconnectReturns
<1>5. CASE Start
  <2>1. /\ downFor' = downFor /\ serverUp' = serverUp /\ linkUp' = linkUp
        /\ failures' = failures
        /\ loop' = "opening" \/ (loop' = "done" /\ tries' = tries)
    BY <1>5 DEF Start, LoopTop
  <2>2. CASE serverUp  BY <2>1, <2>2
  <2>3. CASE ~serverUp
    <3>1. loop = "starting" /\ tries = 0  BY <1>5, <2>3 DEF Start
    <3>2. tries' = 0 \/ (tries' = 1 /\ loop' = "opening")  BY <1>5, <2>3, <3>1 DEF Start, LoopTop
    <3>3. Earliest[1] = 0  BY EarliestIs
    <3>4. QED  BY <2>1, <2>3, <3>2, <3>3
  <2>4. QED  BY <2>2, <2>3
<1>6. CASE Opened  BY <1>6 DEF Opened
<1>7. CASE OpenFails
  <2>1. CASE stop  BY <1>7, <2>1 DEF OpenFails, BackOff
  <2>2. CASE ~stop
    <3>1. /\ loop = "opening" /\ loop' = "sleeping" /\ slept' = 0 /\ ~sliceOver'
          /\ failures' = IF failures < FailureCap THEN failures + 1 ELSE failures
          /\ serverUp' = serverUp /\ linkUp' = linkUp /\ tries' = tries /\ downFor' = downFor
      BY <1>7, <2>2 DEF OpenFails, BackOff
    <3>2. tries > 0 /\ ~serverUp => failures' = FailureCap \/ failures' >= tries
      BY <3>1
    <3>3. QED  BY <3>1, <3>2
  <2>3. QED  BY <2>1, <2>2
<1>8. CASE Initialized  BY <1>8 DEF Initialized
<1>9. CASE LinkBreaks  BY <1>9 DEF LinkBreaks
<1>10. CASE StopSeen  BY <1>10 DEF StopSeen
<1>11. CASE Unwound  BY <1>11 DEF Unwound
<1>12. CASE Slice
  <2>1. CASE serverUp  BY <1>12, <2>1 DEF Slice, LoopTop
  <2>2. CASE ~serverUp
    <3>1. /\ loop = "sleeping" /\ sliceOver /\ slept' = slept + 1 /\ ~sliceOver'
          /\ failures' = failures /\ serverUp' = serverUp /\ linkUp' = linkUp
          /\ downFor' = downFor
      BY <1>12 DEF Slice, LoopTop
    <3>2. CASE MoreSleep(slept + 1) /\ ~stop
      <4>1. loop' = loop /\ tries' = tries  BY <1>12, <3>2 DEF Slice
      <4>2. QED  BY <2>2, <3>1, <4>1
    <3>3. CASE stop
      <4>1. loop' = "done" /\ tries' = tries  BY <1>12, <3>3 DEF Slice, LoopTop
      <4>2. QED  BY <2>2, <3>1, <4>1
    <3>4. CASE ~MoreSleep(slept + 1) /\ ~stop
      <4>1. loop' = "opening" /\ tries' = IF tries = WatchCap THEN tries ELSE tries + 1
        BY <1>12, <2>2, <3>4 DEF Slice, LoopTop
      <4>2. CASE tries = 0
        <5>1. Earliest[1] = 0  BY EarliestIs
        <5>2. tries' = 0 \/ tries' = 1  BY <4>1, <4>2
        <5>3. QED  BY <2>2, <3>1, <4>1, <5>1, <5>2
      <4>3. CASE tries > 0
        <5>1. Counted(tries)  BY <2>2, <3>1, <4>3
        <5>2. slept + 1 >= SleepAfter(tries)  BY <3>4, <5>1, SleptEnough
        <5>3. Earliest[tries + 1] = Earliest[tries] + SleepAfter(tries)  BY <4>3, EarliestIs
        <5>4. SleepAfter(tries) \in Nat  BY EarliestIs
        <5>5. downFor = WatchCap \/ downFor >= Earliest[tries] + slept + 1
          BY <2>2, <3>1, <4>3
        <5>6. downFor = WatchCap
              \/ (downFor >= Earliest[tries] /\ downFor >= Earliest[tries + 1])
          BY <5>2, <5>3, <5>4, <5>5
        <5>7. tries' = tries \/ tries' = tries + 1  BY <4>1
        <5>8. QED  BY <2>2, <3>1, <4>1, <4>3, <5>1, <5>6, <5>7
      <4>4. QED  BY <4>2, <4>3
    <3>5. QED  BY <3>2, <3>3, <3>4
  <2>3. QED  BY <2>1, <2>2
<1>13. CASE \E c \in Calls : Request(c) \/ Answered(c) \/ Fails(c) \/ TimesOut(c)
  BY <1>13 DEF Request, Answered, Fails, TimesOut, BridgeUnchanged
<1>14. CASE ServerChanges
  <2>1. Earliest[1] = 0  BY EarliestIs
  <2>2. CASE serverUp' = FALSE /\ serverUp
    <3>1. /\ ~linkUp' /\ downFor' = 0 /\ loop' = loop /\ failures' = failures
          /\ tries' = 0 \/ (tries' = 1 /\ loop = "opening")
      BY <1>14, <2>2 DEF ServerChanges
    <3>2. QED  BY <2>1, <2>2, <3>1
  <2>3. CASE ~serverUp  BY <1>14, <2>3 DEF ServerChanges
  <2>4. QED  BY <1>14, <2>2, <2>3 DEF ServerChanges, IInv, TypeOK, Flags
<1>15. CASE Tick
  <2>1. /\ loop' = loop /\ tries' = tries /\ failures' = failures /\ slept' = slept
        /\ serverUp' = serverUp /\ linkUp' = linkUp
        /\ sliceOver' <=> (sliceOver \/ loop = "sleeping")
        /\ ~serverUp => downFor' = IF downFor < WatchCap THEN downFor + 1 ELSE downFor
    BY <1>15 DEF Tick
  <2>2. CASE serverUp  BY <2>1, <2>2
  <2>3. CASE ~serverUp
    <3>1. downFor' = WatchCap \/ downFor' = downFor + 1  BY <2>1, <2>3
    <3>2. QED  BY <2>1, <2>3, <3>1
  <2>4. QED  BY <2>2, <2>3
<1>16. CASE DisconnectCancelled
  <2>1. /\ downFor' = downFor /\ tries' = tries /\ serverUp' = serverUp /\ linkUp' = linkUp
        /\ loop' = "done" \/ (loop \in {"handshaking", "holding"} /\ loop' = "unwinding")
    BY <1>16 DEF DisconnectCancelled
  <2>2. QED  BY <2>1
<1>17. CASE UNCHANGED vars  BY <1>17 DEF vars
<1>18. QED
  BY <1>1, <1>2, <1>3, <1>4, <1>5, <1>6, <1>7, <1>8, <1>9, <1>10, <1>11, <1>12, <1>13, <1>14,
     <1>15, <1>16, <1>17 DEF Next, Loop

\* _reconnect_loop: whatever failed before and whenever the server went down,
\* the k-th attempt it sees comes no earlier than the sleeps of 2, 4, 8, ...
\* seconds between the first and the k-th, each cut at the cap.
THEOREM RetriesSpread == Spec => []RetryLoad
<1>1. Init => IInv /\ Spread  BY InitInv, InitSpread
<1>2. IInv /\ Spread /\ [Next]_vars => IInv' /\ Spread'  BY StepInv, StepSpread
<1>3. Spread => RetryLoad  BY DEF Spread, RetryLoad
<1>4. QED  BY <1>1, <1>2, <1>3, PTL DEF Spec
-----------------------------------------------------------------------------
(* The end of the background task.                                         *)

\* The steps that the task has before it when it was told to stop.
StopLeft ==
    CASE loop = "opening" -> 4
      [] loop = "handshaking" -> 3
      [] loop = "holding" -> 2
      [] loop \in {"starting", "sleeping", "unwinding"} -> 1
      [] OTHER -> 0

StopBounded ==
    stop /\ stop' => /\ StopLeft' <= StopLeft
                     /\ Loop => StopLeft' < StopLeft

LEMMA StopStep ==
    ASSUME [Next]_vars
    PROVE  StopBounded
<1> SUFFICES ASSUME stop, stop'
             PROVE  StopLeft' <= StopLeft /\ (Loop => StopLeft' < StopLeft)
  BY DEF StopBounded
<1>1. CASE Loop
  <2>1. CASE Start  BY <2>1 DEF Start, LoopTop, StopLeft
  <2>2. CASE Opened  BY <2>2 DEF Opened, StopLeft
  <2>3. CASE OpenFails  BY <2>3 DEF OpenFails, BackOff, StopLeft
  <2>4. CASE Initialized  BY <2>4 DEF Initialized, StopLeft
  <2>5. CASE LinkBreaks  BY <2>5 DEF LinkBreaks, StopLeft
  <2>6. CASE StopSeen  BY <2>6 DEF StopSeen, StopLeft
  <2>7. CASE Unwound  BY <2>7 DEF Unwound, BackOff, StopLeft
  <2>8. CASE Slice  BY <2>8 DEF Slice, LoopTop, StopLeft
  <2>9. StopLeft' < StopLeft
    BY <1>1, <2>1, <2>2, <2>3, <2>4, <2>5, <2>6, <2>7, <2>8 DEF Loop
  <2>10. StopLeft \in 0..4 /\ StopLeft' \in 0..4  BY DEF StopLeft
  <2>11. QED  BY <2>9, <2>10
<1>2. CASE loop' = loop /\ ~Loop  BY <1>2 DEF StopLeft
<1>3. CASE DisconnectReturns /\ ~Loop  BY <1>3 DEF DisconnectReturns, StopLeft
<1>4. ASSUME NEW c \in Calls, Request(c) \/ Answered(c) \/ Fails(c) \/ TimesOut(c)
      PROVE  loop' = loop
  BY <1>4 DEF Request, Answered, Fails, TimesOut, BridgeUnchanged, loopVars
<1>5. CASE ConnectReturns \/ Disconnect \/ ServerChanges \/ Tick \/ UNCHANGED vars
  <2>1. loop' = loop
    BY <1>5 DEF ConnectReturns, Disconnect, ServerChanges, Tick, vars, loopVars
  <2>2. QED  BY <1>1, <1>2, <2>1
<1>6. CASE Connect  BY <1>6 DEF Connect
<1>7. CASE DisconnectCancelled /\ ~Loop
  <2>1. \/ loop \in LoopPlaces \ {"handshaking", "holding", "done"} /\ loop' = "done"
        \/ loop \in {"handshaking", "holding"} /\ loop' = "unwinding"
    BY <1>7 DEF DisconnectCancelled
  <2>2. StopLeft' <= StopLeft  BY <2>1 DEF StopLeft
  <2>3. QED  BY <1>7, <2>2
<1>8. QED  BY <1>1, <1>2, <1>3, <1>4, <1>5, <1>6, <1>7 DEF Next

\* disconnect: once the event is set the task takes at most four more steps of
\* its own, and nothing that others do gives it more.
THEOREM StopIsBounded == Spec => [][StopBounded]_vars
<1>1. [Next]_vars => [StopBounded]_vars  BY StopStep
<1>2. QED  BY <1>1, PTL DEF Spec
=============================================================================
