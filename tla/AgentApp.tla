------------------------------ MODULE AgentApp ------------------------------
(***************************************************************************)
(* The analytics agent as a process (agents/analytics-agent/src/app.py):   *)
(* the start and stop of its bridges and store, and, while it serves, the  *)
(* tool catalogue that the intent router offers to its model.  The         *)
(* catalogue is built from what the bridges list and kept in the router's  *)
(* prompt, which all turns share, for a time.                              *)
(*                                                                         *)
(* A bridge is seen through the phases of McpBridge's task.  is_connected  *)
(* already holds while the handshake goes on, and still holds when the     *)
(* link has died unnoticed: a bridge that is asked for its tools then      *)
(* answers late, with an error, or never.  One that is ready, and stays    *)
(* so, answers within the router's time-out; but if a tool of its server   *)
(* has a schema that the bridge cannot convert, listing it raises.         *)
(***************************************************************************)
EXTENDS Naturals, Sequences

CONSTANTS
    Order,          \* the bridges, in the order of the bridges dict
    Turns,          \* the turns that may be in the router at once
    PromptTTL,      \* _PROMPT_CACHE_TTL_SECONDS, in time units
    ListTimeout     \* the router's time-out for the list, in time units

Bridges == {Order[i] : i \in DOMAIN Order}

ASSUME AppAssumption ==
    /\ \E S \in SUBSET Bridges : Order \in Seq(S)
    /\ \A i, j \in DOMAIN Order : Order[i] = Order[j] => i = j
    /\ Bridges # {}
    /\ PromptTTL \in Nat
    /\ ListTimeout \in 0..PromptTTL

\* Ages are not told apart beyond the time to live.
TooOld == PromptTTL + 1
Ages == 0..TooOld
OneMore(age) == IF age < TooOld THEN age + 1 ELSE age

VARIABLES
    stage,          \* where the lifespan is
    storeOpen,      \* the pool of the conversation store is open
    phase,          \* of each bridge, where its connection is
    unsupported,    \* the bridges with a tool schema that cannot be converted
    catalogue,      \* the bridges whose tools the cached prompt offers
    promptAge,      \* now - _cached_at; TooOld also stands for no prompt
    pc,             \* of each turn: idle, listing, asking (the model)
    at,             \* which bridge the turn waits for
    got,            \* the bridges that have answered it
    lost,           \* the one it waits for will not answer
    listed,         \* how long it has been listing
    since,          \* ghost: how long each bridge has been ready, or not ready
    calmFor         \* ghost: how long no bridge has been in trouble

appVars == <<stage, storeOpen>>
promptVars == <<catalogue, promptAge>>
turnVars == <<pc, at, got, lost, listed>>
ghosts == <<since, calmFor>>
bridgeVars == <<phase, unsupported>>
vars == <<appVars, bridgeVars, promptVars, turnVars, ghosts>>

Stages == {"off", "connecting", "fetching", "settingUp", "openingStore", "serving",
           "closingStore", "closingBridges", "down", "aborted"}
Phases == {"closed", "down", "opening", "handshaking", "ready", "stale"}

TypeOK ==
    /\ stage \in Stages
    /\ storeOpen \in BOOLEAN
    /\ phase \in [Bridges -> Phases] /\ unsupported \in SUBSET Bridges
    /\ catalogue \in SUBSET Bridges
    /\ promptAge \in Ages
    /\ pc \in [Turns -> {"idle", "listing", "asking"}]
    /\ at \in [Turns -> DOMAIN Order]
    /\ got \in [Turns -> SUBSET Bridges]
    /\ lost \in [Turns -> BOOLEAN]
    /\ listed \in [Turns -> 0..ListTimeout]
    /\ since \in [Bridges -> Ages]
    /\ calmFor \in Ages

Init ==
    /\ stage = "off" /\ storeOpen = FALSE
    /\ phase = [b \in Bridges |-> "closed"] /\ unsupported \in SUBSET Bridges
    /\ catalogue = {} /\ promptAge = TooOld
    /\ pc = [t \in Turns |-> "idle"]
    /\ at = [t \in Turns |-> 1]
    /\ got = [t \in Turns |-> {}]
    /\ lost = [t \in Turns |-> FALSE]
    /\ listed = [t \in Turns |-> 0]
    /\ since = [b \in Bridges |-> TooOld] /\ calmFor = 0

IsConnected(b) == phase[b] \in {"handshaking", "ready", "stale"}

\* A bridge that is connected, and fails whoever lists its tools.
Troubled(b) == IsConnected(b) /\ (phase[b] = "ready" => b \in unsupported)

-----------------------------------------------------------------------------
(* The bridges: each has its reconnect loop, and a server that comes and   *)
(* goes.                                                                   *)

\* Bridge b moves to another phase.  Who waits for it hears no more of it;
\* that a session is opened or lost is trouble.
Moves(b, to) ==
    /\ phase' = [phase EXCEPT ![b] = to]
    /\ since' = [since EXCEPT ![b] = IF "ready" \in {phase[b], to} THEN 0 ELSE @]
    /\ calmFor' = IF to = "ready" \/ (~IsConnected(b) /\ to # "handshaking") THEN calmFor ELSE 0
    /\ lost' = [t \in Turns |-> lost[t] \/ (pc[t] = "listing" /\ Order[at[t]] = b)]
    /\ UNCHANGED <<unsupported, promptVars, pc, at, got, listed>>

\* The bridge whose disconnect has begun, and with it the stop event set.
ToClose == {i \in DOMAIN Order : phase[Order[i]] # "closed"}
IsFirst(i, S) == i \in S /\ \A j \in S : i <= j
Disconnecting(b) == stage = "closingBridges" /\ \E i \in ToClose : IsFirst(i, ToClose) /\ Order[i] = b

\* Mutant: the loop does not look at the stop event.
BeginsDeaf(b) == phase[b] = "down" /\ Moves(b, "opening")

\* The loop looks at the stop event before an attempt, and not in it.
Begins(b) == phase[b] = "down" /\ ~Disconnecting(b) /\ Moves(b, "opening")
Opens(b) == phase[b] = "opening" /\ Moves(b, "handshaking")
OpenFails(b) == phase[b] = "opening" /\ Moves(b, "down")
Initializes(b) == phase[b] = "handshaking" /\ Moves(b, "ready")
LinkDies(b) == phase[b] = "ready" /\ Moves(b, "stale")

\* The handshake failed, the loss was noticed, or the stop event seen.
SessionEnds(b) == IsConnected(b) /\ Moves(b, "down")

BridgeStep(b) ==
    /\ \/ Begins(b) \/ Opens(b) \/ OpenFails(b) \/ Initializes(b)
       \/ LinkDies(b) \/ SessionEnds(b)
    /\ UNCHANGED appVars

-----------------------------------------------------------------------------
(* Start.  What raises here ends the process, as it is.                    *)

Goto(next) == stage' = next /\ UNCHANGED <<promptVars, turnVars>>
Idle == UNCHANGED <<bridgeVars, ghosts>>

\* gather starts every connect before it waits.
Start ==
    /\ stage = "off" /\ Goto("connecting")
    /\ phase' = [b \in Bridges |-> "down"]
    /\ UNCHANGED <<storeOpen, unsupported, ghosts>>

\* Each connect has its session, or has waited for its startup_timeout.
Connected == stage = "connecting" /\ Goto("fetching") /\ UNCHANGED storeOpen /\ Idle

\* _fetch_schema_context of the data bridge: an empty text if that is not
\* connected, or anything else is wrong.  Nothing here depends on the text.
SchemaFetched == stage = "fetching" /\ Goto("settingUp") /\ UNCHANGED storeOpen /\ Idle

CheckpointerSetUp ==
    /\ stage = "settingUp"
    /\ \E next \in {"openingStore", "aborted"} : Goto(next)
    /\ UNCHANGED storeOpen /\ Idle

\* The Postgres store; the memory store has nothing to open.
StoreConnects ==
    /\ stage = "openingStore"
    /\ \/ Goto("serving") /\ storeOpen' = TRUE
       \/ Goto("aborted") /\ UNCHANGED storeOpen
    /\ Idle

-----------------------------------------------------------------------------
(* Stop.                                                                   *)

\* The HTTP server has let its last requests end.
Stop ==
    /\ stage = "serving" /\ \A t \in Turns : pc[t] = "idle"
    /\ Goto("closingStore") /\ UNCHANGED storeOpen /\ Idle

StoreDisconnects ==
    /\ stage = "closingStore"
    /\ \/ Goto("closingBridges") /\ storeOpen' = FALSE
       \/ Goto("aborted") /\ UNCHANGED storeOpen
    /\ Idle

\* disconnect, one bridge after the other; the loop gives up its session
\* (SessionEnds) before its task ends.
BridgeDisconnects ==
    /\ stage = "closingBridges"
    /\ \E b \in Bridges : Disconnecting(b) /\ phase[b] = "down" /\ Moves(b, "closed")
    /\ UNCHANGED appVars

BridgesDisconnected ==
    /\ stage = "closingBridges" /\ ToClose = {}
    /\ Goto("down") /\ UNCHANGED storeOpen /\ Idle

-----------------------------------------------------------------------------
(* The router's prompt.                                                    *)

\* The turn's list is done with.
GoesOn(t, place) ==
    /\ pc' = [pc EXCEPT ![t] = place]
    /\ at' = [at EXCEPT ![t] = 1] /\ got' = [got EXCEPT ![t] = {}]
    /\ lost' = [lost EXCEPT ![t] = FALSE] /\ listed' = [listed EXCEPT ![t] = 0]

\* Mutant: the time of the prompt is taken when it is done.
BuildStampedLate(t, tools, age) ==
    catalogue' = tools /\ promptAge' = 0 /\ GoesOn(t, "asking")

\* The prompt is built and kept, as of the moment the turn began to list, and
\* the model is asked with it.  The turn that ends last wins.
Build(t, tools, age) ==
    catalogue' = tools /\ promptAge' = age /\ GoesOn(t, "asking")

\* _MCPBridgeToolsProvider: from the i-th bridge on, the next one that is
\* connected is asked; when there is none the list is complete.
ListFrom(t, i, tools, age) ==
    LET ahead == {j \in DOMAIN Order : j >= i /\ IsConnected(Order[j])}
    IN  \/ ahead = {} /\ Build(t, tools, age)
        \/ \E j \in ahead :
              /\ IsFirst(j, ahead)
              /\ pc' = [pc EXCEPT ![t] = "listing"]
              /\ at' = [at EXCEPT ![t] = j]
              /\ got' = [got EXCEPT ![t] = tools]
              /\ lost' = [lost EXCEPT ![t] = phase[Order[j]] # "ready"]
              /\ listed' = [listed EXCEPT ![t] = age]
              /\ UNCHANGED promptVars

\* Mutant: the prompt is never renewed.
UseCachedForever(t) ==
    /\ stage = "serving" /\ pc[t] = "idle" /\ catalogue # {}
    /\ GoesOn(t, "asking")
    /\ UNCHANGED <<appVars, bridgeVars, promptVars, ghosts>>

\* A turn enters the router: the prompt is used if it is there and not too
\* old, and built otherwise, whoever else may be building it.
UseCached(t) ==
    /\ stage = "serving" /\ pc[t] = "idle" /\ promptAge <= PromptTTL
    /\ GoesOn(t, "asking")
    /\ UNCHANGED <<appVars, bridgeVars, promptVars, ghosts>>

Refresh(t) ==
    /\ stage = "serving" /\ pc[t] = "idle" /\ promptAge = TooOld
    /\ ListFrom(t, 1, {}, 0)
    /\ UNCHANGED <<appVars, bridgeVars, ghosts>>

ListAnswered(t) ==
    /\ pc[t] = "listing" /\ ~lost[t] /\ Order[at[t]] \notin unsupported
    /\ ListFrom(t, at[t] + 1, got[t] \cup {Order[at[t]]}, listed[t])
    /\ UNCHANGED <<appVars, bridgeVars, ghosts>>

\* An error, UnsupportedSchemaError among them, or the time-out: no tools at
\* all, those already listed included.
ListFails(t) ==
    /\ pc[t] = "listing" /\ (lost[t] \/ Order[at[t]] \in unsupported)
    /\ Build(t, {}, listed[t])
    /\ UNCHANGED <<appVars, bridgeVars, ghosts>>

\* The model has answered, or the client has gone.
TurnLeaves(t) ==
    /\ pc[t] # "idle"
    /\ GoesOn(t, "idle")
    /\ UNCHANGED <<appVars, bridgeVars, promptVars, ghosts>>

\* Time passes; a list that has taken ListTimeout ends first.
Tick ==
    /\ \A t \in Turns : pc[t] = "listing" => listed[t] < ListTimeout
    /\ promptAge' = OneMore(promptAge)
    /\ listed' = [t \in Turns |-> IF pc[t] = "listing" THEN listed[t] + 1 ELSE listed[t]]
    /\ since' = [b \in Bridges |-> OneMore(since[b])]
    /\ calmFor' = IF \E b \in Bridges : Troubled(b) THEN 0 ELSE OneMore(calmFor)
    /\ UNCHANGED <<appVars, bridgeVars, catalogue, pc, at, got, lost>>

-----------------------------------------------------------------------------
Lifespan ==
    \/ Start \/ Connected \/ SchemaFetched \/ CheckpointerSetUp \/ StoreConnects
    \/ StoreDisconnects \/ BridgeDisconnects \/ BridgesDisconnected
TurnStep(t) == UseCached(t) \/ Refresh(t) \/ ListAnswered(t) \/ ListFails(t) \/ TurnLeaves(t)
Ended == stage \in {"down", "aborted"} /\ UNCHANGED vars

Next ==
    \/ Lifespan \/ Stop \/ Tick \/ Ended
    \/ \E b \in Bridges : BridgeStep(b)
    \/ \E t \in Turns : TurnStep(t)

Spec == Init /\ [][Next]_vars

\* What a stop awaits ends: the close of the store's pool, which no request
\* uses any more and whose commands have a time-out, and each disconnect as in
\* DisconnectEnds of McpBridge: whoever holds a session sees the stop event,
\* and an attempt that is under way is promised no end.
Stops == StoreDisconnects \/ BridgeDisconnects \/ BridgesDisconnected
SeesStop(b) ==
    /\ Disconnecting(b) /\ phase[b] \in {"ready", "stale"} /\ SessionEnds(b)
    /\ UNCHANGED appVars

FairSpec == Spec /\ WF_vars(Stops) /\ WF_vars(\E b \in Bridges : SeesStop(b))

-----------------------------------------------------------------------------
(* Properties.                                                             *)

Asks(t) == pc[t] # "asking" /\ pc'[t] = "asking"

\* A bridge that came back is offered to the model without a restart: when no
\* bridge has been in trouble for a time to live, each one that was ready all
\* that time is in the catalogue, whatever overlapping turns built or failed to.
\* A bridge is in trouble that opens or loses a session, whose link is dead, or
\* that is connected and lists a schema which cannot be converted: while one is,
\* the tools of the others may be missing too.
CatalogueRecovers ==
    [][\A t \in Turns, b \in Bridges :
           Asks(t) /\ phase[b] = "ready" /\ since[b] > PromptTTL /\ calmFor > PromptTTL
               => b \in catalogue']_vars

\* And one that went away is offered no longer than the time to live.
OfferedWasReady ==
    [][\A t \in Turns, b \in Bridges :
           Asks(t) /\ b \in catalogue' => phase[b] = "ready" \/ since[b] <= PromptTTL]_vars

\* A process that stopped in order has left nothing open.
CleanStop == stage = "down" => ~storeOpen /\ \A b \in Bridges : phase[b] = "closed"

\* A stop that has begun ends if no attempt to connect is silent for ever, and,
\* unless the store raised, with everything closed.
StopEnds ==
    (\A b \in Bridges : []<>(phase[b] \notin {"opening", "handshaking"})) =>
        (stage = "closingStore" ~> stage = "aborted" \/ (stage = "down" /\ CleanStop))

(* The inductive invariant of the first two.                               *)

\* Against the age of a list, which of the bridges must and which may be in it.
MustOffer(b, age) == phase[b] = "ready" /\ since[b] > age /\ calmFor > age
MayOffer(b, age) == phase[b] = "ready" \/ since[b] <= age

PromptSound ==
    \A b \in Bridges :
        /\ MustOffer(b, promptAge) => b \in catalogue
        /\ b \in catalogue => MayOffer(b, promptAge)

ListSound(t) ==
    /\ \A b \in got[t] : MayOffer(b, listed[t])
    /\ \A j \in DOMAIN Order : j < at[t] /\ MustOffer(Order[j], listed[t]) => Order[j] \in got[t]
    /\ lost[t] => calmFor <= listed[t]
    /\ ~lost[t] => phase[Order[at[t]]] = "ready"

TroubleShows == \A b \in Bridges : Troubled(b) => calmFor = 0

Asleep == stage = "off" => \A b \in Bridges : phase[b] = "closed"

IInv ==
    /\ TypeOK /\ Asleep /\ TroubleShows /\ PromptSound
    /\ \A t \in Turns : pc[t] = "listing" => ListSound(t)
=============================================================================
