----------------------------- MODULE McpBridge -----------------------------
(***************************************************************************)
(* platform_sdk/mcp_bridge.py: one MCPToolBridge.  Three kinds of task     *)
(* share it on one event loop: its owner (connect, disconnect), the        *)
(* background task that runs _reconnect_loop and owns the SSE connection,  *)
(* and the requests that call tools through whatever _session they find.   *)
(*                                                                         *)
(* The MCP client library and the server are external, modelled from how   *)
(* the bridge uses them: entering sse_client and initialize() succeed or   *)
(* raise or are silent, a broken link may raise in the task that holds it, *)
(* and a request on a session that is gone fails.  The time unit is one    *)
(* second, the slice in which the backoff sleeps.                          *)
(***************************************************************************)
EXTENDS Integers, FiniteSets

CONSTANTS
    Calls,          \* the requests that may be in progress at once
    StartupTimeout, \* startup_timeout of connect; 0: return at once
    CallTimeout,    \* _tool_call_timeout
    MaxDelay,       \* the cap of the backoff (60)
    FailureCap,     \* where the model stops counting failures
    WatchCap        \* where the model stops watching a server that is down

\* 2 ** n
Power[n \in Nat] == IF n = 0 THEN 1 ELSE 2 * Power[n - 1]

ASSUME BridgeAssumption ==
    /\ StartupTimeout \in Nat
    /\ CallTimeout \in Nat \ {0}
    /\ MaxDelay \in Nat \ {0}
    /\ FailureCap \in Nat \ {0}
    /\ Power[FailureCap] >= MaxDelay
    /\ WatchCap \in Nat

VARIABLES
    owner,      \* new, connecting, open, closing, closed
    stop,       \* _stop_event is set
    connected,  \* _connected_event is set
    waitLeft,   \* what is left of startup_timeout
    loop,       \* where _reconnect_loop stands
    failures,   \* consecutive_failures
    slept,      \* elapsed, of the backoff in progress
    sliceOver,  \* the sleep of the current slice is over
    session,    \* _session is not None
    linkUp,     \* the connection under the session works
    serverUp,   \* the MCP server accepts and serves connections
    call,       \* idle, or the request in progress: invoke, list
    lost,       \* the session the call holds is no longer _session
    waited,     \* how long the call has waited
    result,     \* what the last call of this slot returned
    downFor,    \* ghost: for how long the server has now been down
    tries       \* ghost: connection attempts it would have seen in that time

ownerVars == <<owner, connected, waitLeft>>
loopVars == <<loop, failures, slept, sliceOver>>
callVars == <<call, lost, waited, result>>
ghosts == <<downFor, tries>>
vars == <<ownerVars, stop, loopVars, session, linkUp, serverUp, callVars, ghosts>>

LoopPlaces == {"none", "starting", "opening", "handshaking", "holding", "unwinding",
               "sleeping", "done"}
Results == {"none", "ok", "unavailable", "empty", "timeout", "error"}

Flags ==
    /\ stop \in BOOLEAN /\ connected \in BOOLEAN /\ sliceOver \in BOOLEAN
    /\ session \in BOOLEAN /\ linkUp \in BOOLEAN /\ serverUp \in BOOLEAN

TypeOK ==
    /\ Flags
    /\ owner \in {"new", "connecting", "open", "closing", "closed"}
    /\ waitLeft \in 0..StartupTimeout
    /\ loop \in LoopPlaces
    /\ failures \in 0..FailureCap
    /\ slept \in 0..MaxDelay
    /\ call \in [Calls -> {"idle", "invoke", "list"}]
    /\ lost \in [Calls -> BOOLEAN]
    /\ waited \in [Calls -> 0..CallTimeout]
    /\ result \in [Calls -> Results]
    /\ downFor \in 0..WatchCap
    /\ tries \in 0..WatchCap

Init ==
    /\ owner = "new" /\ stop = FALSE /\ connected = FALSE /\ waitLeft = 0
    /\ loop = "none" /\ failures = 0 /\ slept = 0 /\ sliceOver = FALSE
    /\ session = FALSE /\ linkUp = FALSE
    /\ serverUp \in BOOLEAN
    /\ call = [c \in Calls |-> "idle"]
    /\ lost = [c \in Calls |-> FALSE]
    /\ waited = [c \in Calls |-> 0]
    /\ result = [c \in Calls |-> "none"]
    /\ downFor = 0 /\ tries = 0

-----------------------------------------------------------------------------
(* The owner.                                                              *)

\* connect: fresh events, a new background task, then the wait.
Connect ==
    /\ owner \in {"new", "closed"}
    /\ owner' = IF StartupTimeout > 0 THEN "connecting" ELSE "open"
    /\ stop' = FALSE /\ connected' = FALSE /\ waitLeft' = StartupTimeout
    /\ loop' = "starting" /\ failures' = 0
    /\ downFor' = 0 /\ tries' = 0
    /\ UNCHANGED <<slept, sliceOver, session, linkUp, serverUp, callVars>>

\* The first connection, or the timeout, which is only logged.
ConnectReturns ==
    /\ owner = "connecting"
    /\ connected \/ waitLeft = 0
    /\ owner' = "open" /\ waitLeft' = 0
    /\ UNCHANGED <<connected, stop, loopVars, session, linkUp, serverUp, callVars, ghosts>>

Disconnect ==
    /\ owner = "open"
    /\ owner' = "closing" /\ stop' = TRUE
    /\ UNCHANGED <<connected, waitLeft, loopVars, session, linkUp, serverUp, callVars, ghosts>>

\* Mutant: the background task is not awaited.
DisconnectReturnsAtOnce ==
    /\ owner = "closing"
    /\ owner' = "closed" /\ loop' = "none"
    /\ UNCHANGED <<connected, waitLeft, stop, failures, slept, sliceOver, session, linkUp,
                   serverUp, callVars, ghosts>>

\* disconnect returns when the background task has.
DisconnectReturns ==
    /\ owner = "closing"
    /\ loop = "done"
    /\ owner' = "closed" /\ loop' = "none"
    /\ UNCHANGED <<connected, waitLeft, stop, failures, slept, sliceOver, session, linkUp,
                   serverUp, callVars, ghosts>>

\* disconnect is cancelled while it waits, and with it the task it waits for:
\* the task breaks out of its loop, through the exit stack if it is in one.
DisconnectCancelled ==
    /\ owner = "closing" /\ loop \in LoopPlaces \ {"none", "unwinding", "done"}
    /\ loop' = IF loop \in {"handshaking", "holding"} THEN "unwinding" ELSE "done"
    /\ UNCHANGED <<ownerVars, stop, failures, slept, sliceOver, session, linkUp, serverUp,
                   callVars, ghosts>>

-----------------------------------------------------------------------------
(* The background task.                                                    *)

\* The while condition: leave, or begin another attempt.
LoopTop ==
    IF stop THEN loop' = "done" /\ UNCHANGED ghosts
    ELSE /\ loop' = "opening"
         /\ tries' = IF serverUp \/ tries = WatchCap THEN tries ELSE tries + 1
         /\ UNCHANGED downFor

\* Mutant: a failed attempt is not counted.
BackOffUncounted ==
    /\ IF stop THEN loop' = "done" ELSE loop' = "sleeping"
    /\ slept' = 0 /\ sliceOver' = FALSE
    /\ UNCHANGED failures

\* The except and finally clauses: count, drop the session, and sleep unless
\* the owner wants the bridge closed.
BackOff ==
    /\ IF stop THEN loop' = "done" /\ UNCHANGED failures
       ELSE /\ loop' = "sleeping"
            /\ failures' = IF failures < FailureCap THEN failures + 1 ELSE failures
    /\ slept' = 0 /\ sliceOver' = FALSE

Start ==
    /\ loop = "starting"
    /\ LoopTop
    /\ UNCHANGED <<ownerVars, stop, failures, slept, sliceOver, session, linkUp, serverUp, callVars>>

\* sse_client and ClientSession are entered: _session is set.
Opened ==
    /\ loop = "opening" /\ serverUp
    /\ loop' = "handshaking"
    /\ session' = TRUE /\ linkUp' = TRUE
    /\ UNCHANGED <<ownerVars, stop, failures, slept, sliceOver, serverUp, callVars, ghosts>>

OpenFails ==
    /\ loop = "opening" /\ ~serverUp
    /\ BackOff
    /\ UNCHANGED <<ownerVars, stop, session, linkUp, serverUp, callVars, ghosts>>

\* initialize() returns: the failures are forgotten, connect is told.
Initialized ==
    /\ loop = "handshaking" /\ linkUp
    /\ loop' = "holding" /\ failures' = 0 /\ connected' = TRUE
    /\ UNCHANGED <<owner, waitLeft, stop, slept, sliceOver, session, linkUp, serverUp,
                   callVars, ghosts>>

\* The link breaks during the handshake or while the loop waits for the stop
\* event: the exit stack unwinds.
LinkBreaks ==
    /\ loop \in {"handshaking", "holding"} /\ ~linkUp
    /\ loop' = "unwinding"
    /\ UNCHANGED <<ownerVars, stop, failures, slept, sliceOver, session, linkUp, serverUp,
                   callVars, ghosts>>

\* Mutant: the stop event is only looked at when the link breaks.
StopUnseen ==
    /\ loop = "holding" /\ stop /\ ~linkUp
    /\ loop' = "unwinding"
    /\ UNCHANGED <<ownerVars, stop, failures, slept, sliceOver, session, linkUp, serverUp,
                   callVars, ghosts>>

StopSeen ==
    /\ loop = "holding" /\ stop
    /\ loop' = "unwinding"
    /\ UNCHANGED <<ownerVars, stop, failures, slept, sliceOver, session, linkUp, serverUp,
                   callVars, ghosts>>

\* Mutant: no finally clause.
UnwoundKeepsSession ==
    /\ loop = "unwinding"
    /\ BackOff
    /\ UNCHANGED <<ownerVars, stop, session, linkUp, serverUp, callVars, ghosts>>

\* Mutant: a lost connection ends the loop.
UnwoundGivesUp ==
    /\ loop = "unwinding"
    /\ loop' = "done"
    /\ session' = FALSE /\ linkUp' = FALSE
    /\ lost' = [c \in Calls |-> call[c] # "idle"]
    /\ UNCHANGED <<ownerVars, stop, failures, slept, sliceOver, serverUp, call, waited, result, ghosts>>

\* The connection is closed and _session dropped, under the calls that hold it.
Unwound ==
    /\ loop = "unwinding"
    /\ BackOff
    /\ session' = FALSE /\ linkUp' = FALSE
    /\ lost' = [c \in Calls |-> call[c] # "idle"]
    /\ UNCHANGED <<ownerVars, stop, serverUp, call, waited, result, ghosts>>

\* elapsed < delay, with delay = min(2 ** consecutive_failures, MaxDelay).
MoreSleep(elapsed) == elapsed < MaxDelay /\ elapsed < Power[failures]

\* Mutant: the sleep does not look at the stop event.
SliceDeaf ==
    /\ loop = "sleeping" /\ sliceOver
    /\ slept' = slept + 1 /\ sliceOver' = FALSE
    /\ IF MoreSleep(slept + 1) THEN UNCHANGED <<loop, ghosts>> ELSE LoopTop
    /\ UNCHANGED <<ownerVars, stop, failures, session, linkUp, serverUp, callVars>>

\* A slice of the backoff is over: sleep on, leave, or try again.
Slice ==
    /\ loop = "sleeping" /\ sliceOver
    /\ slept' = slept + 1 /\ sliceOver' = FALSE
    /\ IF MoreSleep(slept + 1) /\ ~stop THEN UNCHANGED <<loop, ghosts>> ELSE LoopTop
    /\ UNCHANGED <<ownerVars, stop, failures, session, linkUp, serverUp, callVars>>

-----------------------------------------------------------------------------
(* The requests.                                                           *)

Return(c, r) ==
    /\ call' = [call EXCEPT ![c] = "idle"]
    /\ lost' = [lost EXCEPT ![c] = FALSE]
    /\ waited' = [waited EXCEPT ![c] = 0]
    /\ result' = [result EXCEPT ![c] = r]

BridgeUnchanged == UNCHANGED <<ownerVars, stop, loopVars, session, linkUp, serverUp, ghosts>>

\* invoke and get_langchain_tools take the session of the moment, if any.
Request(c) ==
    /\ call[c] = "idle" /\ owner # "new"
    /\ \/ session /\ call' \in {[call EXCEPT ![c] = k] : k \in {"invoke", "list"}}
                  /\ result' = [result EXCEPT ![c] = "none"]
                  /\ UNCHANGED <<lost, waited>>
       \/ ~session /\ \E r \in {"unavailable", "empty"} : Return(c, r)
    /\ BridgeUnchanged

\* The server answers on a session that went through the handshake.
Answered(c) ==
    /\ call[c] # "idle" /\ ~lost[c] /\ linkUp /\ loop = "holding"
    /\ Return(c, "ok")
    /\ BridgeUnchanged

\* The request fails: its session is gone, its link broken, or the server
\* refuses it because the handshake is not over.
Fails(c) ==
    /\ call[c] # "idle"
    /\ lost[c] \/ ~linkUp \/ loop # "holding"
    /\ Return(c, "error")
    /\ BridgeUnchanged

\* wait_for around call_tool; list_tools has no timeout of its own.
TimesOut(c) ==
    /\ call[c] = "invoke" /\ waited[c] = CallTimeout
    /\ Return(c, "timeout")
    /\ BridgeUnchanged

-----------------------------------------------------------------------------
(* The environment.                                                        *)

\* A server that stops takes its connections with it.
ServerChanges ==
    /\ serverUp' = ~serverUp
    /\ linkUp' = FALSE
    /\ downFor' = 0
    /\ tries' = IF serverUp /\ loop = "opening" /\ WatchCap > 0 THEN 1 ELSE 0
    /\ UNCHANGED <<ownerVars, stop, loopVars, session, callVars>>

Tick ==
    /\ waitLeft' = IF waitLeft > 0 THEN waitLeft - 1 ELSE 0
    /\ sliceOver' = (sliceOver \/ loop = "sleeping")
    /\ waited' = [c \in Calls |->
           IF call[c] # "idle" /\ waited[c] < CallTimeout THEN waited[c] + 1 ELSE waited[c]]
    /\ downFor' = IF ~serverUp /\ downFor < WatchCap THEN downFor + 1 ELSE downFor
    /\ UNCHANGED <<owner, connected, stop, loop, failures, slept, session, linkUp, serverUp,
                   call, lost, result, tries>>

-----------------------------------------------------------------------------
Loop == Start \/ Opened \/ OpenFails \/ Initialized \/ LinkBreaks \/ StopSeen \/ Unwound \/ Slice

Next ==
    \/ Connect \/ ConnectReturns
    \/ Disconnect \/ DisconnectCancelled \/ DisconnectReturns
    \/ Loop
    \/ \E c \in Calls : Request(c) \/ Answered(c) \/ Fails(c) \/ TimesOut(c)
    \/ ServerChanges
    \/ Tick

Spec == Init /\ [][Next]_vars

\* The event loop runs every task that is ready, the exit stack only cancels
\* and closes, and time passes.  Nothing is assumed of the owner and of the
\* server: entering sse_client and initialize() have no time-out of the
\* bridge's, and a link that is held is not probed, so that the steps which
\* end those awaits need not come.
Ready == Start \/ StopSeen \/ Unwound \/ Slice

FairSpec ==
    /\ Spec
    /\ WF_vars(Tick) /\ WF_vars(Ready) /\ WF_vars(ConnectReturns \/ DisconnectReturns)

-----------------------------------------------------------------------------
(* Properties.                                                             *)

\* Once disconnect has returned nothing of the bridge is left: no task, no
\* session, and none comes back before the next connect.
ClosedMeansClosed ==
    owner = "closed" => loop = "none" /\ ~session /\ stop

\* _session is there exactly while the background task is inside the
\* connection it belongs to: no stale session survives a drop.
SessionOwned == session <=> loop \in {"handshaking", "holding", "unwinding"}

\* Nothing outlives what it belongs to: the task not the owner's disconnect,
\* the session not its connection.
NothingOutlives == ClosedMeansClosed /\ SessionOwned

\* A call that still holds _session holds the session of the moment, and
\* nothing waits without one.
CallsHoldSession ==
    \A c \in Calls : call[c] # "idle" => lost[c] \/ session

\* What makes the above inductive: a task exists from connect to disconnect,
\* and only leaves its loop once it was told to.
TaskOwned ==
    /\ loop = "none" <=> owner \in {"new", "closed"}
    /\ loop = "done" => stop
    /\ stop <=> owner \in {"closing", "closed"}
    /\ linkUp => session
    /\ loop = "sleeping" => slept < MaxDelay

IInv == TypeOK /\ TaskOwned /\ SessionOwned /\ CallsHoldSession /\ ClosedMeansClosed

\* A server that is down is not hammered: however the failures before fell,
\* the attempts it sees are spread by 2, 4, 8, ... seconds, up to the cap.
SleepAfter(n) == IF Power[n] < MaxDelay THEN Power[n] ELSE MaxDelay
Earliest[k \in Nat] == IF k < 2 THEN 0 ELSE Earliest[k - 1] + SleepAfter(k - 1)
RetryLoad == ~serverUp /\ tries > 0 => downFor = WatchCap \/ downFor >= Earliest[tries]

\* What makes it inductive: each attempt that the server has seen was counted
\* as a failure, but for the one that is under way, and the sleep after the
\* last one lies within the time that the server has been down.
Counted(n) == failures = FailureCap \/ failures >= n
Spread ==
    ~serverUp =>
        /\ ~linkUp
        /\ tries > 0 =>
              /\ loop \in {"opening", "sleeping", "done", "none"}
              /\ downFor = WatchCap \/ downFor >= Earliest[tries]
              /\ loop = "opening" => Counted(tries - 1)
              /\ loop = "sleeping" =>
                    /\ Counted(tries)
                    /\ \/ downFor = WatchCap
                       \/ downFor >= Earliest[tries] + slept + (IF sliceOver THEN 1 ELSE 0)

\* "a disconnect() mid-sleep exits promptly": once the owner asked for it, no
\* attempt begins and the sleeping task starts no other slice.
NoWorkAfterStop ==
    [][stop /\ stop' => /\ loop' = "opening" => loop = "opening"
                        /\ loop = "sleeping" /\ loop' = "sleeping" => slept' = slept]_vars

Phase ==
    IF owner \in {"new", "closed"} THEN "closed"
    ELSE IF loop = "holding" THEN "ready" ELSE "degraded"

Contract == INSTANCE BridgeContract WITH phase <- Phase
KeepsBridgeContract == Contract!Spec

\* No attempt is silent for ever.
AttemptsEnd == []<>(loop \notin {"opening", "handshaking"})

\* A link that is dead is noticed by who holds it.
DeadLinksShow == []<>(loop = "holding" => linkUp)

\* disconnect returns if no attempt is silent for ever, whatever becomes of the
\* server, of the link that is held and of the backoff.
DisconnectEnds == AttemptsEnd => (owner = "closing" ~> owner = "closed")

\* The agent needs no restart: if the owner leaves the bridge open, the server
\* stays up and answers, and a dead link is noticed, tool calls end up on a
\* working session for good.
Heals ==
    /\ <>[](owner = "open" /\ serverUp)
    /\ AttemptsEnd /\ DeadLinksShow
    => <>[](loop = "holding" /\ linkUp /\ session)
=============================================================================
