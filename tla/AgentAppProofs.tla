--------------------------- MODULE AgentAppProofs ---------------------------
(***************************************************************************)
(* What the router offers follows the bridges, for any number of bridges   *)
(* and turns and any times: the proofs of AgentApp.                        *)
(***************************************************************************)
EXTENDS AgentApp, TLAPS

LEMMA Times == PromptTTL \in Nat /\ ListTimeout \in 0..PromptTTL /\ TooOld \in Nat /\ TooOld > PromptTTL
BY AppAssumption DEF TooOld

\* A position of Order is a natural number, and what stands there a bridge.
LEMMA Places ==
    /\ DOMAIN Order \subseteq Nat
    /\ 1 \in DOMAIN Order
    /\ \A i \in DOMAIN Order : Order[i] \in Bridges
<1>1. PICK S \in SUBSET Bridges : Order \in Seq(S)  BY AppAssumption
<1>2. DOMAIN Order = 1..Len(Order) /\ Len(Order) \in Nat  BY <1>1
<1>3. PICK i \in DOMAIN Order : TRUE  BY AppAssumption DEF Bridges
<1>4. QED  BY <1>2, <1>3 DEF Bridges

LEMMA InitInv == Init => IInv
<1>1. Init => ~(\E b \in Bridges : IsConnected(b) \/ phase[b] = "ready")
  BY DEF Init, IsConnected
<1>2. Init => storeOpen \in BOOLEAN  BY Zenon DEF Init
<1>3. Init => TypeOK  BY <1>2, Times, Places DEF Init, TypeOK, Stages, Phases, Ages
<1>4. Init => Asleep /\ TroubleShows /\ PromptSound
  BY Times DEF Init, Asleep, TroubleShows, Troubled, IsConnected, PromptSound, MustOffer, MayOffer
<1>5. QED  BY <1>3, <1>4 DEF Init, IInv

-----------------------------------------------------------------------------
(* Types.  The flag is for Zenon, the rest for SMT.                  *)

Flag == storeOpen \in BOOLEAN
Rest ==
    /\ stage \in Stages
    /\ phase \in [Bridges -> Phases] /\ unsupported \in SUBSET Bridges
    /\ catalogue \in SUBSET Bridges
    /\ promptAge \in Ages
    /\ pc \in [Turns -> {"idle", "listing", "asking"}]
    /\ at \in [Turns -> DOMAIN Order]
    /\ got \in [Turns -> SUBSET Bridges]
    /\ lost \in [Turns -> BOOLEAN]
    /\ listed \in [Turns -> 0..ListTimeout]
    /\ since \in [Bridges -> Ages]
    /\ calmFor \in Ages

LEMMA TypeParts == TypeOK <=> Flag /\ Rest
BY Zenon DEF TypeOK, Flag, Rest

-----------------------------------------------------------------------------
(* A bridge moves: what was certain of it no longer is.                    *)

LEMMA MoveInv ==
    ASSUME Rest, TroubleShows, PromptSound, \A t \in Turns : pc[t] = "listing" => ListSound(t),
           NEW b \in Bridges, NEW to \in Phases, Moves(b, to),
           to = "ready" => phase[b] = "handshaking",
           to = "stale" => IsConnected(b),
           stage' \in Stages
    PROVE  /\ Rest' /\ TroubleShows' /\ PromptSound'
           /\ \A t \in Turns : pc'[t] = "listing" => ListSound(t)'
<1> USE Times, Places DEF Rest, Ages, Moves, promptVars
<1>1. Rest'
  <2>1. lost' \in [Turns -> BOOLEAN]  OBVIOUS
  <2>2. phase' \in [Bridges -> Phases]  OBVIOUS
  <2>3. since' \in [Bridges -> 0..TooOld] /\ calmFor' \in 0..TooOld  OBVIOUS
  <2>4. QED  BY <2>1, <2>2, <2>3
<1>0. /\ phase'[b] = to /\ \A c \in Bridges \ {b} : phase'[c] = phase[c]
      /\ unsupported' = unsupported
      /\ calmFor' = calmFor \/ calmFor' = 0
  OBVIOUS
<1>2. TroubleShows'
  <2> SUFFICES ASSUME NEW c \in Bridges, Troubled(c)'  PROVE calmFor' = 0  BY DEF TroubleShows
  <2>1. CASE c # b
    <3>1. Troubled(c)  BY <1>0, <2>1 DEF Troubled, IsConnected
    <3>2. QED  BY <1>0, <3>1 DEF TroubleShows
  <2>2. CASE c = b /\ to = "ready"
    <3>1. Troubled(b)  BY <2>2 DEF Troubled, IsConnected
    <3>2. QED  BY <1>0, <3>1 DEF TroubleShows
  <2>3. CASE c = b /\ to # "ready"
    <3>1. to \in {"handshaking", "stale"}  BY <1>0, <2>3 DEF Troubled, IsConnected
    <3>2. QED  BY <2>3, <3>1
  <2>4. QED  BY <2>1, <2>2, <2>3
<1>3. PromptSound'
  <2>1. \A c \in Bridges : MustOffer(c, promptAge)' => MustOffer(c, promptAge)
    BY <1>0 DEF MustOffer
  <2>2. \A c \in Bridges : MayOffer(c, promptAge) => MayOffer(c, promptAge)'
    BY DEF MayOffer
  <2>3. QED  BY <2>1, <2>2 DEF PromptSound
<1>4. ASSUME NEW t \in Turns, pc'[t] = "listing"  PROVE ListSound(t)'
  <2>1. ListSound(t)  BY <1>4
  <2>2. \A c \in got'[t] : MayOffer(c, listed[t])'  BY <2>1 DEF ListSound, MayOffer
  <2>3. \A j \in DOMAIN Order :
            j < at'[t] /\ MustOffer(Order[j], listed[t])' => Order[j] \in got'[t]
    <3>1. \A c \in Bridges : MustOffer(c, listed[t])' => MustOffer(c, listed[t])
      BY <1>0 DEF MustOffer
    <3>2. QED  BY <2>1, <3>1 DEF ListSound
  <2>4. lost'[t] => calmFor' <= listed'[t]
    <3>1. CASE lost[t]  BY <2>1, <3>1, <1>0 DEF ListSound
    <3>2. CASE ~lost[t]
      <4>1. phase[Order[at[t]]] = "ready"  BY <2>1, <3>2 DEF ListSound
      <4>2. CASE Order[at[t]] = b
        <5>1. IsConnected(b) /\ to # "ready"  BY <4>1, <4>2 DEF IsConnected
        <5>2. calmFor' = 0  BY <5>1
        <5>3. QED  BY <5>2
      <4>3. CASE Order[at[t]] # b  BY <1>4, <3>2, <4>3
      <4>4. QED  BY <4>2, <4>3
    <3>3. QED  BY <3>1, <3>2
  <2>5. ~lost'[t] => phase'[Order[at'[t]]] = "ready"  BY <1>4, <2>1 DEF ListSound
  <2>6. QED  BY <2>2, <2>3, <2>4, <2>5 DEF ListSound, MustOffer, MayOffer
<1>5. QED  BY <1>1, <1>2, <1>3, <1>4

-----------------------------------------------------------------------------
(* A list goes on, and a prompt is built.                                  *)

\* A prompt of sound tools is sound.
LEMMA BuildInv ==
    ASSUME Rest, PromptSound, \A t \in Turns : pc[t] = "listing" => ListSound(t),
           NEW t \in Turns, NEW tools \in SUBSET Bridges, NEW age \in 0..ListTimeout,
           \A b \in tools : MayOffer(b, age),
           \A b \in Bridges : MustOffer(b, age) => b \in tools,
           Build(t, tools, age), UNCHANGED <<appVars, bridgeVars, ghosts>>
    PROVE  Rest' /\ PromptSound' /\ \A u \in Turns : pc'[u] = "listing" => ListSound(u)'
<1> USE Times DEF Build, GoesOn, appVars, bridgeVars, ghosts
<1>1. Rest'  BY Places DEF Rest, Ages, TooOld
<1>2. PromptSound'  BY DEF PromptSound, MustOffer, MayOffer
<1>3. ASSUME NEW u \in Turns, pc'[u] = "listing"  PROVE ListSound(u)'
  <2>1. u # t /\ pc[u] = "listing"  BY <1>3 DEF Rest
  <2>2. ListSound(u)  BY <2>1
  <2>3. at'[u] = at[u] /\ got'[u] = got[u] /\ lost'[u] = lost[u] /\ listed'[u] = listed[u]
    BY <2>1 DEF Rest
  <2>4. QED  BY <2>2, <2>3 DEF ListSound, MustOffer, MayOffer
<1>4. QED  BY <1>1, <1>2, <1>3

\* What is skipped is not connected, and who is asked while not ready shows.
LEMMA ListFromInv ==
    ASSUME Rest, TroubleShows, PromptSound, \A t \in Turns : pc[t] = "listing" => ListSound(t),
           NEW t \in Turns, NEW i \in Nat, NEW tools \in SUBSET Bridges, NEW age \in 0..ListTimeout,
           \A b \in tools : MayOffer(b, age),
           \A j \in DOMAIN Order : j < i /\ MustOffer(Order[j], age) => Order[j] \in tools,
           ListFrom(t, i, tools, age), UNCHANGED <<appVars, bridgeVars, ghosts>>
    PROVE  Rest' /\ PromptSound' /\ \A u \in Turns : pc'[u] = "listing" => ListSound(u)'
<1> DEFINE ahead == {j \in DOMAIN Order : j >= i /\ IsConnected(Order[j])}
<1>1. CASE ahead = {} /\ Build(t, tools, age)
  <2>1. ASSUME NEW b \in Bridges, MustOffer(b, age)  PROVE b \in tools
    <3>1. PICK j \in DOMAIN Order : Order[j] = b  BY DEF Bridges
    <3>2. j \in Nat /\ IsConnected(Order[j])  BY <2>1, <3>1, Places DEF MustOffer, IsConnected
    <3>3. j < i  BY <1>1, <3>2
    <3>4. QED  BY <2>1, <3>1, <3>3
  <2>2. QED  BY <1>1, <2>1, BuildInv
<1>2. ASSUME NEW j \in ahead, IsFirst(j, ahead),
             pc' = [pc EXCEPT ![t] = "listing"],
             at' = [at EXCEPT ![t] = j],
             got' = [got EXCEPT ![t] = tools],
             lost' = [lost EXCEPT ![t] = phase[Order[j]] # "ready"],
             listed' = [listed EXCEPT ![t] = age],
             UNCHANGED promptVars
      PROVE  Rest' /\ PromptSound' /\ \A u \in Turns : pc'[u] = "listing" => ListSound(u)'
  <2> USE <1>2, Places, Times DEF appVars, bridgeVars, ghosts, promptVars
  <2>1. Rest'
    <3>1. lost' \in [Turns -> BOOLEAN]  BY DEF Rest
    <3>2. QED  BY <3>1 DEF Rest
  <2>2. PromptSound'  BY DEF PromptSound, MustOffer, MayOffer
  <2>3. ListSound(t)'
    <3>1. pc'[t] = "listing" /\ at'[t] = j /\ got'[t] = tools /\ listed'[t] = age
          /\ lost'[t] = (phase[Order[j]] # "ready")
      BY DEF Rest
    <3>2. \A b \in got'[t] : MayOffer(b, listed[t])'  BY <3>1 DEF MayOffer
    <3>3. ASSUME NEW k \in DOMAIN Order, k < j, MustOffer(Order[k], age)  PROVE Order[k] \in tools
      <4>1. IsConnected(Order[k])  BY <3>3 DEF MustOffer, IsConnected
      <4>2. k \notin ahead  BY <3>3 DEF IsFirst
      <4>3. k < i  BY <4>1, <4>2
      <4>4. QED  BY <3>3, <4>3
    <3>4. phase[Order[j]] # "ready" => calmFor = 0
      BY DEF TroubleShows, Troubled, IsConnected
    <3>5. \A k \in DOMAIN Order : k < at'[t] /\ MustOffer(Order[k], listed[t])' => Order[k] \in got'[t]
      BY <3>1, <3>3 DEF MustOffer
    <3>6. lost'[t] => calmFor' <= listed'[t]
      <4>1. age >= 0  OBVIOUS
      <4>2. QED  BY <3>1, <3>4, <4>1
    <3>7. ~lost'[t] => phase'[Order[at'[t]]] = "ready"  BY <3>1
    <3>8. QED  BY Zenon, <3>2, <3>5, <3>6, <3>7 DEF ListSound
  <2>4. ASSUME NEW u \in Turns, u # t, pc'[u] = "listing"  PROVE ListSound(u)'
    <3>1. pc[u] = "listing" /\ ListSound(u)  BY <2>4 DEF Rest
    <3>2. at'[u] = at[u] /\ got'[u] = got[u] /\ lost'[u] = lost[u] /\ listed'[u] = listed[u]
      BY <2>4 DEF Rest
    <3>3. QED  BY <3>1, <3>2 DEF ListSound, MustOffer, MayOffer
  <2>5. QED  BY <2>1, <2>2, <2>3, <2>4
<1>3. QED  BY <1>1, <1>2 DEF ListFrom

-----------------------------------------------------------------------------
(* The step.                                                               *)

\* Time passes.
LEMMA TickInv ==
    ASSUME Rest, TroubleShows, PromptSound, \A t \in Turns : pc[t] = "listing" => ListSound(t), Tick
    PROVE  /\ Rest' /\ TroubleShows' /\ PromptSound'
           /\ \A t \in Turns : pc'[t] = "listing" => ListSound(t)'
<1> USE Times DEF Rest, Ages, TooOld, OneMore, Tick, appVars, bridgeVars
<1>1. Rest'
  <2>1. listed' \in [Turns -> 0..ListTimeout]  OBVIOUS
  <2>2. since' \in [Bridges -> 0..TooOld]  OBVIOUS
  <2>3. QED  BY <2>1, <2>2
<1>2. TroubleShows'  BY DEF TroubleShows, Troubled, IsConnected
<1>3. PromptSound'  BY DEF PromptSound, MustOffer, MayOffer
<1>4. ASSUME NEW t \in Turns, pc'[t] = "listing"  PROVE ListSound(t)'
  <2>1. ListSound(t) /\ listed'[t] = listed[t] + 1 /\ listed[t] \in Nat /\ listed[t] < TooOld
    BY <1>4
  <2>2. \A c \in got'[t] : MayOffer(c, listed[t])'  BY <2>1 DEF ListSound, MayOffer
  <2>3. \A j \in DOMAIN Order :
            j < at'[t] /\ MustOffer(Order[j], listed[t])' => Order[j] \in got'[t]
    BY <2>1, Places DEF ListSound, MustOffer
  <2>4. lost'[t] => calmFor' <= listed'[t]  BY <2>1 DEF ListSound
  <2>5. ~lost'[t] => phase'[Order[at'[t]]] = "ready"  BY <2>1 DEF ListSound
  <2>6. QED  BY Zenon, <2>2, <2>3, <2>4, <2>5 DEF ListSound
<1>5. QED  BY <1>1, <1>2, <1>3, <1>4

\* A step of the lifespan that moves no bridge.
LEMMA GotoInv ==
    ASSUME Rest, TroubleShows, PromptSound, \A t \in Turns : pc[t] = "listing" => ListSound(t),
           NEW next \in Stages, Goto(next), Idle
    PROVE  /\ Rest' /\ TroubleShows' /\ PromptSound'
           /\ \A t \in Turns : pc'[t] = "listing" => ListSound(t)'
<1> USE DEF Goto, Idle, bridgeVars, promptVars, turnVars, ghosts
<1>1. Rest'  BY DEF Rest
<1>2. TroubleShows' /\ PromptSound'
  BY DEF TroubleShows, Troubled, IsConnected, PromptSound, MustOffer, MayOffer
<1>3. \A t \in Turns : pc'[t] = "listing" => ListSound(t)'  BY DEF ListSound, MustOffer, MayOffer
<1>4. QED  BY <1>1, <1>2, <1>3

LEMMA StepInv == IInv /\ [Next]_vars => IInv'
<1> DEFINE Sound ==
      /\ Rest /\ TroubleShows /\ PromptSound
      /\ \A t \in Turns : pc[t] = "listing" => ListSound(t)
<1>1. IInv <=> Flag /\ Asleep /\ Sound  BY Zenon, TypeParts DEF IInv
<1>2. IInv' <=> Flag' /\ Asleep' /\ Sound'
  <2>1. TypeOK' <=> Flag' /\ Rest'  BY Zenon DEF TypeOK, Flag, Rest
  <2>2. QED  BY Zenon, <2>1 DEF IInv
<1> SUFFICES ASSUME Flag, Asleep, Sound, [Next]_vars  PROVE Flag' /\ Asleep' /\ Sound'
  BY Zenon, <1>1, <1>2
<1> HIDE DEF Sound
<1>3. Rest /\ Sound  BY DEF Sound
<1>4. ASSUME NEW b \in Bridges, BridgeStep(b)  PROVE Flag' /\ Asleep' /\ Sound'
  <2>1. Flag'  BY Zenon, <1>4 DEF BridgeStep, appVars, Flag
  <2>2. Asleep'
    BY <1>3, <1>4 DEF BridgeStep, appVars, Asleep, Rest, Begins, Opens, OpenFails, Initializes,
          LinkDies, SessionEnds, IsConnected, Moves
  <2>3. PICK to \in Phases : /\ Moves(b, to)
                             /\ to = "ready" => phase[b] = "handshaking"
                             /\ to = "stale" => IsConnected(b)
    BY <1>4 DEF BridgeStep, Begins, Opens, OpenFails, Initializes, LinkDies, SessionEnds, Phases,
          IsConnected
  <2>4. stage' \in Stages  BY <1>3, <1>4 DEF BridgeStep, appVars, Rest
  <2>5. Sound'  BY <2>3, <2>4, MoveInv DEF Sound
  <2>6. QED  BY <2>1, <2>2, <2>5
<1>5. ASSUME Start  PROVE Flag' /\ Asleep' /\ Sound'
  <2>1. Flag'  BY Zenon, <1>5 DEF Start, Flag
  <2>2. Asleep'  BY <1>5 DEF Start, Goto, Asleep
  <2>3. \A b \in Bridges : phase[b] = "closed" /\ phase'[b] = "down"  BY <1>5 DEF Start, Asleep
  <2> USE <1>5 DEF Start, Goto, promptVars, turnVars, ghosts
  <2>4. Rest'  BY <1>3 DEF Rest, Stages, Phases
  <2>5. TroubleShows' /\ PromptSound'
    BY <1>3, <2>3 DEF Sound, TroubleShows, Troubled, IsConnected, PromptSound, MustOffer, MayOffer
  <2>6. ASSUME NEW t \in Turns, pc'[t] = "listing"  PROVE ListSound(t)'
    <3>1. ListSound(t)  BY <1>3, <2>6 DEF Sound
    <3>2. at[t] \in DOMAIN Order /\ got[t] \in SUBSET Bridges  BY <1>3 DEF Rest
    <3>3. QED  BY <2>3, <3>1, <3>2, Places DEF ListSound, MustOffer, MayOffer
  <2>7. QED  BY <2>1, <2>2, <2>4, <2>5, <2>6 DEF Sound
<1>6. ASSUME Connected \/ SchemaFetched \/ CheckpointerSetUp \/ StoreConnects \/ Stop
             \/ StoreDisconnects \/ BridgesDisconnected
      PROVE  Flag' /\ Asleep' /\ Sound'
  <2> USE DEF Connected, SchemaFetched, CheckpointerSetUp, StoreConnects, Stop, StoreDisconnects,
              BridgesDisconnected
  <2>1. Flag'  BY Zenon, <1>6 DEF Flag
  <2>2. PICK next \in Stages : Goto(next) /\ Idle /\ next # "off"  BY <1>6 DEF Stages
  <2>3. Asleep'  BY <2>2 DEF Goto, Asleep
  <2>4. Sound'  BY <2>2, GotoInv DEF Sound
  <2>5. QED  BY <2>1, <2>3, <2>4
<1>7. ASSUME BridgeDisconnects  PROVE Flag' /\ Asleep' /\ Sound'
  <2>1. PICK b \in Bridges : Moves(b, "closed")  BY <1>7 DEF BridgeDisconnects
  <2>2. Flag'  BY Zenon, <1>7 DEF BridgeDisconnects, appVars, Flag
  <2>3. stage' = "closingBridges"  BY <1>7 DEF BridgeDisconnects, appVars
  <2>4. Sound'  BY <2>1, <2>3, MoveInv DEF Sound, Stages, Phases
  <2>5. QED  BY <2>2, <2>3, <2>4 DEF Asleep
<1>8. ASSUME Tick  PROVE Flag' /\ Asleep' /\ Sound'
  <2>1. Flag' /\ Asleep'  BY Zenon, <1>8 DEF Tick, appVars, bridgeVars, Flag, Asleep
  <2>2. QED  BY <1>8, <2>1, TickInv DEF Sound
<1>9. ASSUME NEW t \in Turns, TurnStep(t)  PROVE Flag' /\ Asleep' /\ Sound'
  <2>1. UNCHANGED <<appVars, bridgeVars, ghosts>>
    BY <1>9 DEF TurnStep, UseCached, Refresh, ListAnswered, ListFails, TurnLeaves
  <2>2. Flag' /\ Asleep'  BY Zenon, <2>1 DEF appVars, bridgeVars, Flag, Asleep
  <2>3. TroubleShows'
    BY <1>3, <2>1 DEF Sound, TroubleShows, Troubled, IsConnected, bridgeVars, ghosts
  <2>4. CASE UseCached(t) \/ TurnLeaves(t)
    <3> USE <2>4 DEF UseCached, TurnLeaves, GoesOn, appVars, bridgeVars, promptVars, ghosts
    <3>1. Rest'
      <4>1. 1 \in DOMAIN Order /\ 0 \in 0..ListTimeout  BY Places, Times
      <4>2. /\ pc' \in [Turns -> {"idle", "listing", "asking"}]
            /\ at' \in [Turns -> DOMAIN Order]
            /\ got' \in [Turns -> SUBSET Bridges]
        BY <1>3, <4>1 DEF Rest
      <4>3. listed' \in [Turns -> 0..ListTimeout]
        <5>1. listed \in [Turns -> 0..ListTimeout]  BY <1>3 DEF Rest
        <5>2. listed' = [listed EXCEPT ![t] = 0]  OBVIOUS
        <5>3. QED  BY ONLY <4>1, <5>1, <5>2
      <4>6. lost' \in [Turns -> BOOLEAN]
        <5>1. lost \in [Turns -> BOOLEAN]  BY <1>3 DEF Rest
        <5>2. lost' = [lost EXCEPT ![t] = FALSE]  OBVIOUS
        <5>3. QED  BY ONLY <5>1, <5>2, Zenon
      <4>4. UNCHANGED <<stage, phase, unsupported, catalogue, promptAge, since, calmFor>>  OBVIOUS
      <4>5. QED  BY <1>3, <4>2, <4>3, <4>4, <4>6 DEF Rest
    <3>2. PromptSound'  BY <1>3 DEF Sound, PromptSound, MustOffer, MayOffer
    <3>3. ASSUME NEW u \in Turns, pc'[u] = "listing"  PROVE ListSound(u)'
      <4>1. u # t /\ pc[u] = "listing"  BY <1>3, <3>3 DEF Rest
      <4>2. ListSound(u)  BY <1>3, <4>1 DEF Sound
      <4>3. at'[u] = at[u] /\ got'[u] = got[u] /\ lost'[u] = lost[u] /\ listed'[u] = listed[u]
        BY <1>3, <4>1 DEF Rest
      <4>4. QED  BY <4>2, <4>3 DEF ListSound, MustOffer, MayOffer
    <3>4. QED  BY <2>2, <2>3, <3>1, <3>2, <3>3 DEF Sound
  <2>5. CASE Refresh(t)
    <3>1. ListFrom(t, 1, {}, 0)  BY <2>5 DEF Refresh
    <3>2. 0 \in 0..ListTimeout /\ {} \in SUBSET Bridges  BY Times
    <3>3. \A j \in DOMAIN Order : ~(j < 1)
      <4>1. PICK S \in SUBSET Bridges : Order \in Seq(S)  BY AppAssumption
      <4>2. DOMAIN Order = 1..Len(Order)  BY <4>1
      <4>3. QED  BY <4>1, <4>2
    <3>4. QED  BY <1>3, <2>1, <2>2, <2>3, <3>1, <3>2, <3>3, ListFromInv DEF Sound
  <2>6. CASE ListAnswered(t)
    <3> DEFINE tools == got[t] \cup {Order[at[t]]}
    <3>1. ListFrom(t, at[t] + 1, tools, listed[t])  BY <2>6 DEF ListAnswered
    <3>2. at[t] \in DOMAIN Order /\ listed[t] \in 0..ListTimeout /\ got[t] \in SUBSET Bridges
      BY <1>3 DEF Rest
    <3>3. at[t] + 1 \in Nat /\ tools \in SUBSET Bridges  BY <3>2, Places
    <3>4. ListSound(t) /\ phase[Order[at[t]]] = "ready"  BY <1>3, <2>6 DEF Sound, ListAnswered, ListSound
    <3>5. \A b \in tools : MayOffer(b, listed[t])  BY <3>4 DEF ListSound, MayOffer
    <3>6. \A j \in DOMAIN Order : j < at[t] + 1 /\ MustOffer(Order[j], listed[t]) => Order[j] \in tools
      BY <3>2, <3>4, Places DEF ListSound
    <3> HIDE DEF tools
    <3>7. QED  BY <1>3, <2>1, <2>2, <2>3, <3>1, <3>2, <3>3, <3>5, <3>6, ListFromInv DEF Sound
  <2>7. CASE ListFails(t)
    <3>1. Build(t, {}, listed[t])  BY <2>7 DEF ListFails
    <3>2. listed[t] \in 0..ListTimeout /\ calmFor \in Nat  BY <1>3, Times DEF Rest, Ages
    <3>3. calmFor <= listed[t]
      <4>1. ListSound(t) /\ (lost[t] \/ Order[at[t]] \in unsupported)
        BY <1>3, <2>7 DEF Sound, ListFails
      <4>2. CASE lost[t]  BY <4>1, <4>2 DEF ListSound
      <4>3. CASE ~lost[t]
        <5>1. phase[Order[at[t]]] = "ready" /\ Order[at[t]] \in unsupported
          BY <4>1, <4>3 DEF ListSound
        <5>2. Order[at[t]] \in Bridges  BY <1>3, Places DEF Rest
        <5>3. calmFor = 0
          BY <1>3, <5>1, <5>2 DEF Sound, TroubleShows, Troubled, IsConnected
        <5>4. QED  BY <3>2, <5>3
      <4>4. QED  BY <4>2, <4>3
    <3>4. \A b \in Bridges : ~MustOffer(b, listed[t])  BY <3>2, <3>3 DEF MustOffer
    <3>5. QED  BY <1>3, <2>1, <2>2, <2>3, <3>1, <3>2, <3>4, BuildInv DEF Sound
  <2>8. QED  BY <1>9, <2>4, <2>5, <2>6, <2>7 DEF TurnStep
<1>10. ASSUME UNCHANGED vars  PROVE Flag' /\ Asleep' /\ Sound'
  <2> USE <1>10 DEF vars, appVars, bridgeVars, promptVars, turnVars, ghosts
  <2>1. Flag' /\ Asleep'  BY Zenon DEF Flag, Asleep
  <2>2. Rest' /\ TroubleShows' /\ PromptSound'
    BY <1>3 DEF Sound, Rest, TroubleShows, Troubled, IsConnected, PromptSound, MustOffer, MayOffer
  <2>3. \A u \in Turns : pc'[u] = "listing" => ListSound(u)'
    BY <1>3 DEF Sound, ListSound, MustOffer, MayOffer
  <2>4. QED  BY <2>1, <2>2, <2>3 DEF Sound
<1>11. QED
  BY Zenon, <1>4, <1>5, <1>6, <1>7, <1>8, <1>9, <1>10 DEF Next, Lifespan, Ended

THEOREM Invariant == Spec => []IInv
<1>1. QED  BY InitInv, StepInv, PTL DEF Spec

-----------------------------------------------------------------------------
(* The theorems.                                                           *)

\* Every variable of AgentApp keeps its type: no list outlives its time-out.
THEOREM TypeCorrect == Spec => []TypeOK
<1>1. IInv => TypeOK  BY DEF IInv
<1>2. QED  BY <1>1, Invariant, PTL

\* A turn that begins to ask leaves the router's prompt sound, and has either
\* taken it young enough or just made it.
LEMMA AskInv ==
    ASSUME IInv, Next, NEW t \in Turns, Asks(t)
    PROVE  /\ PromptSound' /\ promptAge' \in 0..PromptTTL
           /\ UNCHANGED <<phase, ghosts>>
<1> USE DEF Asks
<1>1. PromptSound'
  <2>1. IInv'  BY StepInv
  <2>2. QED  BY <2>1 DEF IInv
<1>2. Rest  BY TypeParts DEF IInv
<1>3. TurnStep(t)
  <2>1. ~(UNCHANGED pc)  OBVIOUS
  <2>2. \/ UNCHANGED pc
        \/ \E u \in Turns : TurnStep(u)
    BY DEF Next, Lifespan, Stop, Tick, Ended, Start, Connected, SchemaFetched, CheckpointerSetUp,
           StoreConnects, StoreDisconnects, BridgeDisconnects, BridgesDisconnected, BridgeStep,
           Begins, Opens, OpenFails, Initializes, LinkDies, SessionEnds, Moves, Goto, turnVars, vars
  <2>3. PICK u \in Turns : TurnStep(u)  BY <2>1, <2>2
  <2>4. \A v \in Turns : v # u => pc'[v] = pc[v]
    BY <1>2, <2>3 DEF Rest, TurnStep, UseCached, Refresh, ListAnswered, ListFails, TurnLeaves,
           ListFrom, Build, GoesOn
  <2>5. QED  BY <2>3, <2>4
<1>4. UNCHANGED <<phase, ghosts>>
  BY <1>3 DEF TurnStep, UseCached, Refresh, ListAnswered, ListFails, TurnLeaves, bridgeVars
<1>5. promptAge' \in 0..PromptTTL
  <2>1. promptAge \in Ages /\ listed[t] \in 0..ListTimeout  BY <1>2 DEF Rest
  <2>2. CASE UseCached(t)  BY <2>1, <2>2, Times DEF UseCached, promptVars, Ages
  <2>3. CASE \E tools \in SUBSET Bridges, age \in 0..ListTimeout : Build(t, tools, age)
    BY <2>3, Times DEF Build
  <2>4. CASE TurnLeaves(t)  BY <1>2, <2>4 DEF TurnLeaves, GoesOn, Rest
  <2>5. ASSUME NEW i, NEW tools \in SUBSET Bridges, NEW age \in 0..ListTimeout, ListFrom(t, i, tools, age)
        PROVE  Build(t, tools, age)
    BY <1>2, <2>5 DEF ListFrom, Rest
  <2>6. CASE Refresh(t)
    <3>1. 0 \in 0..ListTimeout /\ {} \in SUBSET Bridges  BY Times
    <3>2. Build(t, {}, 0)  BY <2>5, <2>6, <3>1 DEF Refresh
    <3>3. QED  BY <2>3, <3>1, <3>2
  <2>7. CASE ListAnswered(t)
    <3> DEFINE tools == got[t] \cup {Order[at[t]]}
    <3>1. tools \in SUBSET Bridges  BY <1>2, Places DEF Rest
    <3>2. ListFrom(t, at[t] + 1, tools, listed[t])  BY <2>7 DEF ListAnswered
    <3> HIDE DEF tools
    <3>3. Build(t, tools, listed[t])  BY <2>1, <2>5, <3>1, <3>2
    <3>4. QED  BY <2>1, <2>3, <3>1, <3>3
  <2>8. CASE ListFails(t)
    <3>1. Build(t, {}, listed[t]) /\ {} \in SUBSET Bridges  BY <2>8 DEF ListFails
    <3>2. QED  BY <2>1, <2>3, <3>1
  <2>9. QED  BY <1>3, <2>2, <2>4, <2>6, <2>7, <2>8 DEF TurnStep
<1>6. QED  BY <1>1, <1>4, <1>5

\* A bridge that has been ready for a time to live, in which no bridge was in
\* trouble (opened or lost a session, was connected and dead, or listed a
\* schema that cannot be converted), is offered by every turn that asks.
THEOREM Recovers == Spec => CatalogueRecovers
<1> DEFINE A == \A t \in Turns, b \in Bridges :
                  Asks(t) /\ phase[b] = "ready" /\ since[b] > PromptTTL /\ calmFor > PromptTTL
                      => b \in catalogue'
<1>1. IInv /\ [Next]_vars => [A]_vars
  <2> SUFFICES ASSUME IInv, Next, NEW t \in Turns, NEW b \in Bridges, Asks(t),
                      phase[b] = "ready", since[b] > PromptTTL, calmFor > PromptTTL
               PROVE  b \in catalogue'
    OBVIOUS
  <2>1. PromptSound' /\ promptAge' \in 0..PromptTTL /\ UNCHANGED <<phase, ghosts>>  BY AskInv
  <2>2. since[b] \in Nat /\ calmFor \in Nat  BY Times, TypeParts DEF IInv, Rest, Ages
  <2>3. MustOffer(b, promptAge)'  BY <2>1, <2>2, Times DEF MustOffer, ghosts
  <2>4. QED  BY <2>1, <2>3 DEF PromptSound
<1>2. QED  BY <1>1, Invariant, PTL DEF Spec, CatalogueRecovers

\* A bridge that has not been ready for longer than the time to live is not.
THEOREM OfferedWas == Spec => OfferedWasReady
<1> DEFINE A == \A t \in Turns, b \in Bridges :
                  Asks(t) /\ b \in catalogue' => phase[b] = "ready" \/ since[b] <= PromptTTL
<1>1. IInv /\ [Next]_vars => [A]_vars
  <2> SUFFICES ASSUME IInv, Next, NEW t \in Turns, NEW b \in Bridges, Asks(t), b \in catalogue'
               PROVE  phase[b] = "ready" \/ since[b] <= PromptTTL
    OBVIOUS
  <2>1. PromptSound' /\ promptAge' \in 0..PromptTTL /\ UNCHANGED <<phase, ghosts>>  BY AskInv
  <2>2. since[b] \in Nat  BY Times, TypeParts DEF IInv, Rest, Ages
  <2>3. MayOffer(b, promptAge)'  BY <2>1 DEF PromptSound
  <2>4. QED  BY <2>1, <2>2, <2>3, Times DEF MayOffer, ghosts
<1>2. QED  BY <1>1, Invariant, PTL DEF Spec, OfferedWasReady

\* A process that stopped in order has left neither pool nor session open.
THEOREM Clean == Spec => []CleanStop
<1> DEFINE Closed ==
      /\ stage \in {"closingBridges", "down"} => ~storeOpen
      /\ stage = "down" => \A b \in Bridges : phase[b] = "closed"
<1>1. Init => Closed  BY DEF Init
<1>2. Closed /\ [Next]_vars => Closed'
  <2> SUFFICES ASSUME Closed, [Next]_vars  PROVE Closed'  OBVIOUS
  <2>1. CASE BridgesDisconnected
    BY <2>1 DEF BridgesDisconnected, ToClose, Goto, Idle, bridgeVars, Bridges
  <2>2. CASE BridgeDisconnects  BY <2>2 DEF BridgeDisconnects, appVars
  <2>3. ASSUME NEW b \in Bridges, BridgeStep(b)  PROVE Closed'
    <3>1. UNCHANGED appVars  BY <2>3 DEF BridgeStep
    <3>2. phase[b] # "closed" /\ \E to : phase' = [phase EXCEPT ![b] = to]
      BY <2>3 DEF BridgeStep, Begins, Opens, OpenFails, Initializes, LinkDies, SessionEnds,
             IsConnected, Moves
    <3>3. QED  BY <3>1, <3>2 DEF appVars
  <2>4. CASE Start \/ Connected \/ SchemaFetched \/ CheckpointerSetUp \/ StoreConnects \/ Stop
    BY <2>4 DEF Start, Connected, SchemaFetched, CheckpointerSetUp, StoreConnects, Stop, Goto
  <2>5. CASE StoreDisconnects  BY <2>5 DEF StoreDisconnects, Goto
  <2>6. CASE Tick \/ Ended \/ UNCHANGED vars  BY <2>6 DEF Tick, Ended, vars, appVars, bridgeVars
  <2>7. ASSUME NEW t \in Turns, TurnStep(t)  PROVE Closed'
    BY <2>7 DEF TurnStep, UseCached, Refresh, ListAnswered, ListFails, TurnLeaves, appVars, bridgeVars
  <2>8. QED  BY <2>1, <2>2, <2>3, <2>4, <2>5, <2>6, <2>7 DEF Next, Lifespan
<1>3. Closed => CleanStop  BY DEF CleanStop
<1>4. QED  BY <1>1, <1>2, <1>3, PTL DEF Spec
=============================================================================
