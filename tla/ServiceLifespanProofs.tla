----------------------- MODULE ServiceLifespanProofs -----------------------
(***************************************************************************)
(* Sessions over one service object, any number of them: the proofs of     *)
(* ServiceLifespan.                                                        *)
(***************************************************************************)
EXTENDS ServiceLifespan, TLAPS

LEMMA KindsAre ==
    /\ Kinds = {"authorizer", "cache", "pool"}
    /\ Len(Order) = 3
    /\ Order[1] = "authorizer" /\ Order[2] = "cache" /\ Order[3] = "pool"
<1>1. DOMAIN Order = {1, 2, 3}  BY DEF Order
<1>2. QED  BY <1>1 DEF Kinds, Order

LEMMA HandlesAre ==
    /\ Sessions \subseteq Objects /\ "injected" \in Objects
    /\ Handles = Objects \cup {"none"} /\ "none" \notin Objects
    /\ "injected" \notin Sessions /\ "none" \notin Sessions
BY SessionAssumption DEF Objects, Handles

States == [Kinds -> [Objects -> {"none", "open", "closing", "closed"}]]

LEMMA FirstLeft ==
    ASSUME NEW left \in SUBSET (1..3), left # {}
    PROVE  Min(left) \in left
<1>0. PICK z : z \in left  BY Zenon
<1>1. PICK x \in left : \A y \in left : x =< y
  <2>1. CASE 1 \in left  BY <2>1
  <2>2. CASE 1 \notin left /\ 2 \in left  BY <2>2
  <2>3. CASE 1 \notin left /\ 2 \notin left
    <3>1. z = 3  BY <1>0, <2>3
    <3>2. \A y \in left : y = 3  BY <2>3
    <3>3. QED  BY <1>0, <3>1, <3>2
  <2>4. QED  BY <2>1, <2>2, <2>3
<1>2. QED  BY <1>1 DEF Min

\* CloseFrom, with the position it goes on from named.
Goes(s, j, handles, states) ==
    /\ j \in 1..3 /\ owns[Order[j]] /\ handles[Order[j]] # "none"
    /\ pc' = [pc EXCEPT ![s] = "closing"]
    /\ closing' = [closing EXCEPT ![s] = j]
    /\ target' = [target EXCEPT ![s] = handles[Order[j]]]
    /\ status' = [states EXCEPT ![Order[j]][handles[Order[j]]] =
                      IF @ = "open" THEN "closing" ELSE @]

Stops(s, states) ==
    /\ pc' = [pc EXCEPT ![s] = "ended"]
    /\ closing' = [closing EXCEPT ![s] = 0]
    /\ target' = [target EXCEPT ![s] = "none"]
    /\ status' = states

LEMMA CloseFromDoes ==
    ASSUME NEW s, NEW i \in 1..4, NEW handles, NEW states,
           CloseFrom(s, i, handles, states)
    PROVE  Stops(s, states) \/ \E j \in 1..3 : Goes(s, j, handles, states)
<1> DEFINE left == {j \in i..Len(Order) : Owned(Order[j], handles)}
<1>1. CASE left = {}  BY <1>1 DEF CloseFrom, Stops, GotoPc
<1>2. CASE left # {}
  <2>1. left \in SUBSET (1..3)  BY KindsAre
  <2>2. Min(left) \in left  BY <1>2, <2>1, FirstLeft
  <2>3. Goes(s, Min(left), handles, states)
    <3>1. Min(left) \in 1..3  BY <2>1, <2>2
    <3>2. Owned(Order[Min(left)], handles)  BY <2>2
    <3> HIDE DEF left
    <3>3. QED  BY <1>2, <3>1, <3>2 DEF CloseFrom, Goes, GotoPc, Owned, left
  <2>4. QED  BY <2>1, <2>2, <2>3
<1>3. QED  BY <1>1, <1>2

\* An end of a session: the handles and the resources as it leaves them, but
\* for the resource that it begins to close.
Ends(s, handles, states) ==
    /\ Stops(s, states) \/ \E j \in 1..3 : Goes(s, j, handles, states)
    /\ held' = handles
    /\ broken' \subseteq broken /\ \A k \in broken \ broken' : handles[k] = "none"
    /\ UNCHANGED <<owns, service, overlapped, spoiled, callVars>>

Reset(k) == [held EXCEPT ![k] = "none"]
Done(k, o) == [status EXCEPT ![k][o] = "closed"]

LEMMA SessionEndsDoes ==
    ASSUME NEW s \in Sessions, SessionEnds(s)
    PROVE  pc[s] = "serving" /\ call[s] = "idle" /\ Ends(s, held, status)
<1>1. CloseFrom(s, 1, held, status)  BY DEF SessionEnds
<1>2. QED  BY <1>1, CloseFromDoes DEF SessionEnds, Ends, failVars

LEMMA ClosedDoes ==
    ASSUME TypeOK, NEW s \in Sessions, Closed(s)
    PROVE  \E k \in Kinds : Closes(s, k) /\ Ends(s, Reset(k), Done(k, target[s]))
<1>1. closing[s] \in 1..3  BY KindsAre DEF TypeOK, Closed
<1>2. Order[closing[s]] \in Kinds  BY <1>1, KindsAre
<1>3. /\ held' = Reset(Order[closing[s]])
      /\ CloseFrom(s, closing[s] + 1, Reset(Order[closing[s]]),
                   Done(Order[closing[s]], target[s]))
  BY DEF Closed, Reset, Done
<1>4. closing[s] + 1 \in 1..4  BY <1>1
<1>5. Ends(s, Reset(Order[closing[s]]), Done(Order[closing[s]], target[s]))
  <2>1. Reset(Order[closing[s]])[Order[closing[s]]] = "none"
    BY <1>2 DEF TypeOK, Reset
  <2>2. broken' = broken \ {Order[closing[s]]}  BY DEF Closed
  <2> HIDE DEF Reset, Done
  <2>3. QED  BY <1>2, <1>3, <1>4, <2>1, <2>2, CloseFromDoes DEF Ends, Closed
<1>6. QED  BY <1>2, <1>5 DEF Closed, Closes

-----------------------------------------------------------------------------
(* Types.                                                                  *)

LEMMA TypeInit == Init => TypeOK
BY KindsAre, HandlesAre DEF Init, TypeOK, InServer

LEMMA EndsType ==
    ASSUME TypeOK, NEW s \in Sessions, NEW handles \in [Kinds -> Handles],
           NEW states \in States, Ends(s, handles, states)
    PROVE  TypeOK'
<1>1. CASE Stops(s, states)
  BY <1>1, KindsAre, HandlesAre DEF TypeOK, Ends, Stops, States, InServer, callVars
<1>2. ASSUME NEW j \in 1..3, Goes(s, j, handles, states)  PROVE TypeOK'
  <2>1. Order[j] \in Kinds  BY KindsAre
  <2>2. handles[Order[j]] \in Objects  BY <1>2, <2>1, HandlesAre DEF Goes
  <2>3. status' \in States  BY <1>2, <2>1, <2>2 DEF Goes, States
  <2>4. /\ pc' \in [Sessions -> {"new", "ended", "failed"} \cup InServer]
        /\ closing' \in [Sessions -> 0..Len(Order)]
        /\ \A u \in Sessions : pc'[u] = "closing" => closing'[u] # 0
    BY <1>2, KindsAre DEF TypeOK, Goes, InServer
  <2>5. target' \in [Sessions -> Handles]
    BY <1>2, <2>2, HandlesAre DEF TypeOK, Goes
  <2>6. held' \in [Kinds -> Handles] /\ UNCHANGED <<owns, service, overlapped, spoiled, call, outcome>>
    BY DEF Ends, callVars
  <2>7. broken' \in SUBSET Kinds  BY DEF TypeOK, Ends
  <2>8. QED  BY <2>3, <2>4, <2>5, <2>6, <2>7 DEF TypeOK, States
<1>3. QED  BY <1>1, <1>2 DEF Ends

LEMMA CreateType ==
    ASSUME TypeOK, NEW s \in Sessions, NEW kinds, Create(s, kinds)
    PROVE  /\ held' \in [Kinds -> Handles] /\ owns' \in [Kinds -> BOOLEAN]
           /\ status' \in [Kinds -> [Objects -> {"none", "open", "closing", "closed"}]]
           /\ broken' \in SUBSET Kinds
<1>1. held' \in [Kinds -> Handles] /\ owns' \in [Kinds -> BOOLEAN]
  BY HandlesAre DEF TypeOK, Create
<1>2. status' \in [Kinds -> [Objects -> {"none", "open", "closing", "closed"}]]
  BY DEF TypeOK, Create
<1>3. broken' \in SUBSET Kinds  BY DEF TypeOK, Create
<1>4. QED  BY <1>1, <1>2, <1>3

LEMMA TypeStep ==
    ASSUME TypeOK, [Next]_vars
    PROVE  TypeOK'
<1> USE HandlesAre, KindsAre
<1>1. ASSUME NEW s \in Sessions, Start(s)  PROVE TypeOK'
  <2>1. /\ held' \in [Kinds -> Handles] /\ owns' \in [Kinds -> BOOLEAN]
        /\ status' \in [Kinds -> [Objects -> {"none", "open", "closing", "closed"}]]
        /\ broken' \in SUBSET Kinds
    BY <1>1, CreateType DEF Start
  <2>2. pc' \in [Sessions -> {"new", "ended", "failed"} \cup InServer]
    BY <1>1 DEF Start, GotoPc, TypeOK, InServer
  <2>3. service' \in Handles  BY <1>1 DEF Start, TypeOK
  <2>4. overlapped' \in SUBSET Sessions /\ spoiled' \in SUBSET Sessions
    BY <1>1 DEF Start, TypeOK, Active
  <2>5. UNCHANGED <<closing, target, call, outcome>>  BY <1>1 DEF Start, callVars
  <2>6. \A u \in Sessions : pc'[u] = "closing" => closing'[u] # 0
    BY <1>1, <2>5 DEF Start, GotoPc, TypeOK
  <2>7. QED  BY <2>1, <2>2, <2>3, <2>4, <2>5, <2>6 DEF TypeOK
<1>2. ASSUME NEW s \in Sessions, PoolOpened(s)  PROVE TypeOK'
  <2>1. /\ held' \in [Kinds -> Handles] /\ owns' \in [Kinds -> BOOLEAN]
        /\ status' \in [Kinds -> [Objects -> {"none", "open", "closing", "closed"}]]
        /\ broken' \in SUBSET Kinds
    BY <1>2, CreateType DEF PoolOpened
  <2>2. pc' \in [Sessions -> {"new", "ended", "failed"} \cup InServer]
    BY <1>2 DEF PoolOpened, GotoPc, TypeOK, InServer
  <2>3. service' \in Handles /\ UNCHANGED <<closing, overlapped, spoiled, target, call, outcome>>
    BY <1>2 DEF PoolOpened, callVars
  <2>4. \A u \in Sessions : pc'[u] = "closing" => closing'[u] # 0
    BY <1>2, <2>3 DEF PoolOpened, GotoPc, TypeOK
  <2>5. QED  BY <2>1, <2>2, <2>3, <2>4 DEF TypeOK
<1>3. ASSUME NEW s \in Sessions, PoolFails(s)  PROVE TypeOK'
  BY <1>3 DEF PoolFails, GotoPc, TypeOK, InServer, callVars, objectVars, failVars
<1>4. ASSUME NEW s \in Sessions, SessionEnds(s)  PROVE TypeOK'
  BY <1>4, SessionEndsDoes, EndsType DEF TypeOK, States
<1>5. ASSUME NEW s \in Sessions, Closed(s)  PROVE TypeOK'
  <2>1. PICK k \in Kinds : Closes(s, k) /\ Ends(s, Reset(k), Done(k, target[s]))
    BY <1>5, ClosedDoes
  <2>2. Reset(k) \in [Kinds -> Handles]  BY DEF TypeOK, Reset
  <2>3. Done(k, target[s]) \in States  BY DEF TypeOK, Done, States
  <2>4. QED  BY <2>1, <2>2, <2>3, EndsType
<1>6. ASSUME NEW s \in Sessions, CallBegins(s) \/ CallResumes(s)  PROVE TypeOK'
  <2>1. UNCHANGED <<objectVars, sessionVars>>
    BY <1>6 DEF CallBegins, CallResumes, Authorized, Acquire, QueryEnds
  <2>2. /\ target' \in [Sessions -> Handles]
        /\ call' \in [Sessions -> {"idle", "authorizing", "acquiring", "querying"}]
        /\ outcome' \in [Sessions -> {"none", "done", "missing", "shut"}]
    BY <1>6 DEF CallBegins, CallResumes, Authorized, Acquire, QueryEnds, CallStays, CallEnds, TypeOK
  <2>3. QED  BY <2>1, <2>2 DEF TypeOK, objectVars, sessionVars, failVars
<1>7. ASSUME NEW s \in Sessions, CloseFails(s)  PROVE TypeOK'
  <2>1. closing[s] \in 1..3  BY <1>7 DEF TypeOK, CloseFails
  <2>2. Order[closing[s]] \in Kinds  BY <2>1
  <2>3. status' \in States  BY <1>7, <2>2 DEF TypeOK, CloseFails, States
  <2>4. broken' \in SUBSET Kinds  BY <1>7, <2>2 DEF TypeOK, CloseFails
  <2>5. /\ pc' \in [Sessions -> {"new", "ended", "failed"} \cup InServer]
        /\ closing' \in [Sessions -> 0..Len(Order)]
        /\ target' \in [Sessions -> Handles]
        /\ \A u \in Sessions : pc'[u] = "closing" => closing'[u] # 0
    BY <1>7 DEF TypeOK, CloseFails, GotoPc, InServer
  <2>6. UNCHANGED <<held, owns, service, overlapped, spoiled, call, outcome>>
    BY <1>7 DEF CloseFails, callVars
  <2>7. QED  BY <2>3, <2>4, <2>5, <2>6 DEF TypeOK, States
<1>8. CASE UNCHANGED vars
  BY <1>8 DEF TypeOK, vars, objectVars, sessionVars, failVars, callVars
<1>9. QED  BY <1>1, <1>2, <1>3, <1>4, <1>5, <1>6, <1>7, <1>8 DEF Next, Resumes

\* Every reachable state of server and sessions is well typed, for any
\* number of sessions and whatever was injected.
THEOREM TypeCorrect == Spec => []TypeOK
BY TypeInit, TypeStep, PTL DEF Spec
-----------------------------------------------------------------------------
(* The invariant, action by action.                                        *)

LEMMA InitInv == Init => IInv
BY KindsAre, HandlesAre
DEF Init, IInv, OverlapShows, NotYet, InjectedStays, HandlesGood, ClosersKnow, OpenersKnow,
    AloneUnspoiled, AloneEquipped, CallsServed, OpenIsHeld, AloneUndisturbed, Active, InServer,
    Closes

LEMMA StartInv ==
    ASSUME TypeOK, IInv, NEW s \in Sessions, Start(s)
    PROVE  IInv'
<1> USE KindsAre, HandlesAre DEF TypeOK, IInv, Start, Create, GotoPc, Active, InServer, callVars
<1>1. OverlapShows'  BY DEF OverlapShows
<1>2. NotYet'  BY DEF NotYet
<1>3. InjectedStays'  BY DEF InjectedStays
<1>4. HandlesGood'  BY DEF HandlesGood, Closes, NotYet
<1>5. ClosersKnow'  BY DEF ClosersKnow, Closes, NotYet
<1>6. OpenersKnow'  BY DEF OpenersKnow, InjectedStays
<1>7. AloneEquipped'  BY DEF AloneEquipped, CallsServed
<1>8. CallsServed'  BY DEF CallsServed
<1>9. OpenIsHeld'  BY DEF OpenIsHeld, InjectedStays
<1>10. AloneUndisturbed'  BY DEF AloneUndisturbed
<1>11. AloneUnspoiled'
  <2>1. broken' \subseteq broken /\ spoiled \subseteq spoiled' /\ overlapped \subseteq overlapped'
    OBVIOUS
  <2>2. \A u \in Sessions \ {s} : pc'[u] = pc[u]  OBVIOUS
  <2>3. s \notin overlapped' \cup spoiled' => broken = {}  OBVIOUS
  <2>4. AloneUnspoiled  OBVIOUS
  <2>5. ASSUME NEW u \in Sessions, u \notin overlapped' \cup spoiled',
               pc'[u] \in {"opening", "serving"}
        PROVE  broken' = {}
    <3>1. CASE u = s  BY ONLY <2>1, <2>3, <2>5, <3>1
    <3>2. CASE u # s  BY ONLY <2>1, <2>2, <2>4, <2>5, <3>2 DEF AloneUnspoiled
    <3>3. QED  BY ONLY <3>1, <3>2
  <2>6. QED  BY ONLY <2>5 DEF AloneUnspoiled
<1>12. QED
  BY <1>1, <1>2, <1>3, <1>4, <1>5, <1>6, <1>7, <1>8, <1>9, <1>10, <1>11

LEMMA PoolOpenedInv ==
    ASSUME TypeOK, IInv, NEW s \in Sessions, PoolOpened(s)
    PROVE  IInv'
<1> USE KindsAre, HandlesAre DEF TypeOK, IInv, PoolOpened, Create, GotoPc, Active, InServer, callVars
<1>1. OverlapShows'  BY DEF OverlapShows
<1>2. NotYet'  BY DEF NotYet
<1>3. InjectedStays'  BY DEF InjectedStays, OpenersKnow
<1>4. HandlesGood'  BY DEF HandlesGood, Closes, NotYet
<1>5. ClosersKnow'  BY DEF ClosersKnow, Closes, NotYet, OverlapShows
<1>6. OpenersKnow'  BY DEF OpenersKnow, OverlapShows
<1>7. AloneEquipped'  BY DEF AloneEquipped, CallsServed, OverlapShows
<1>8. CallsServed'  BY DEF CallsServed
<1>9. OpenIsHeld'  BY DEF OpenIsHeld, OpenersKnow
<1>10. AloneUndisturbed'  BY DEF AloneUndisturbed
<1>11. AloneUnspoiled'  BY DEF AloneUnspoiled
<1>12. QED
  BY <1>1, <1>2, <1>3, <1>4, <1>5, <1>6, <1>7, <1>8, <1>9, <1>10, <1>11

LEMMA PoolFailsInv ==
    ASSUME TypeOK, IInv, NEW s \in Sessions, PoolFails(s)
    PROVE  IInv'
BY KindsAre, HandlesAre
DEF TypeOK, IInv, PoolFails, GotoPc, Active, InServer, callVars, objectVars, failVars,
    OverlapShows, NotYet, InjectedStays, HandlesGood, ClosersKnow, OpenersKnow,
    AloneUnspoiled, AloneEquipped, CallsServed, OpenIsHeld, AloneUndisturbed, Closes

\* What both steps of an end do to the invariant, once the handles and the
\* resources from which it goes on are known to be good.
LEMMA EndsInv ==
    ASSUME TypeOK, IInv, NEW s \in Sessions, pc[s] \in {"serving", "closing"}, call[s] = "idle",
           NEW handles \in [Kinds -> Handles], NEW states \in States,
           Ends(s, handles, states),
           \A k \in Kinds : handles[k] \in {held[k], "none"},
           \A k \in Kinds, o \in Objects :
              \/ states[k][o] = status[k][o]
              \/ states[k][o] = "closed" /\ status[k][o] \in {"closing", "closed"},
           \A k \in Kinds : Closes(s, k) => handles[k] = "none",
           \A k \in Kinds : handles[k] # held[k] =>
              \A o \in Objects \ overlapped : held[k] = o => status[k][o] # "open"
    PROVE  IInv'
<1>1. /\ held' = handles /\ UNCHANGED <<owns, service, overlapped, spoiled, call, outcome>>
      /\ broken' \subseteq broken /\ \A k \in broken \ broken' : handles[k] = "none"
  BY DEF Ends, callVars
<1>2. /\ pc'[s] \in {"closing", "ended"}
      /\ \A u \in Sessions \ {s} :
            pc'[u] = pc[u] /\ closing'[u] = closing[u] /\ target'[u] = target[u]
  BY DEF TypeOK, Ends, Stops, Goes
<1>3. \A k \in Kinds, u \in Sessions \ {s} : Closes(u, k)' <=> Closes(u, k)
  BY <1>2 DEF Closes
<1>4. \A k \in Kinds : Closes(s, k)' =>
         owns[k] /\ target'[s] = held[k] /\ held[k] \in Objects /\ handles[k] = held[k]
  BY HandlesAre, KindsAre DEF TypeOK, Ends, Stops, Goes, Closes
<1>5. \A k \in Kinds, o \in Objects :
         \/ status'[k][o] = status[k][o]
               /\ (Closes(s, k)' /\ o = held[k] => status[k][o] # "open")
         \/ status'[k][o] = "closed" /\ status[k][o] \in {"closing", "closed"}
         \/ /\ status'[k][o] = "closing" /\ status[k][o] = "open"
            /\ Closes(s, k)' /\ o = held[k]
  <2>1. CASE Stops(s, states)
    <3>1. \A k \in Kinds : ~Closes(s, k)'  BY <2>1 DEF Stops, Closes, TypeOK
    <3>2. status' = states  BY <2>1 DEF Stops
    <3>3. QED  BY <3>1, <3>2
  <2>2. ASSUME NEW j \in 1..3, Goes(s, j, handles, states)
        PROVE  \A k \in Kinds, o \in Objects :
           \/ status'[k][o] = status[k][o]
                 /\ (Closes(s, k)' /\ o = held[k] => status[k][o] # "open")
           \/ status'[k][o] = "closed" /\ status[k][o] \in {"closing", "closed"}
           \/ /\ status'[k][o] = "closing" /\ status[k][o] = "open"
              /\ Closes(s, k)' /\ o = held[k]
    <3>1. Order[j] \in Kinds /\ handles[Order[j]] = held[Order[j]] /\ held[Order[j]] \in Objects
      BY <2>2, HandlesAre, KindsAre DEF Goes
    <3>2. \A k \in Kinds : Closes(s, k)' <=> k = Order[j]
      BY <2>2, <3>1 DEF Goes, Closes, TypeOK
    <3>3. \A k \in Kinds, o \in Objects :
             status'[k][o] = IF k = Order[j] /\ o = held[k] /\ states[k][o] = "open"
                             THEN "closing" ELSE states[k][o]
      BY <2>2, <3>1 DEF Goes, States
    <3>4. QED  BY <3>2, <3>3
  <2>3. QED  BY <2>1, <2>2 DEF Ends
<1>6. OverlapShows'  BY <1>1, <1>2 DEF IInv, OverlapShows, Active, InServer
<1>7. NotYet'  BY <1>2, <1>5, HandlesAre, KindsAre DEF IInv, NotYet
<1>8. InjectedStays'
  <2> SUFFICES ASSUME NEW k \in Kinds, status'[k]["injected"] # "none"
               PROVE  status'[k]["injected"] = "open" /\ held'[k] = "injected" /\ ~owns'[k]
    BY DEF InjectedStays
  <2>1. status[k]["injected"] # "none"  BY <1>5, HandlesAre
  <2>2. status[k]["injected"] = "open" /\ held[k] = "injected" /\ ~owns[k]
    BY <2>1 DEF IInv, InjectedStays
  <2>3. handles[k] = held[k]  BY <2>2, HandlesAre DEF TypeOK
  <2>4. QED  BY <1>1, <1>4, <1>5, <2>2, <2>3, HandlesAre
<1>9. HandlesGood'
  <2> SUFFICES ASSUME NEW k \in Kinds, held'[k] # "none"
               PROVE  /\ status'[k][held'[k]] # "none"
                      /\ \/ status'[k][held'[k]] = "open" \/ k \in broken'
                         \/ \E u \in Sessions : Closes(u, k)' /\ target'[u] = held'[k]
    BY DEF HandlesGood
  <2>1. held'[k] = held[k] /\ handles[k] # "none" /\ held[k] \in Objects
    BY <1>1, HandlesAre DEF TypeOK
  <2>2. /\ status[k][held[k]] # "none"
        /\ \/ status[k][held[k]] = "open" \/ k \in broken
           \/ \E u \in Sessions : Closes(u, k) /\ target[u] = held[k]
    BY <2>1 DEF IInv, HandlesGood
  <2>3. ~Closes(s, k)  BY <2>1
  <2>4. status'[k][held[k]] # "none"  BY <1>5, <2>1, <2>2
  <2>5. CASE status'[k][held[k]] = "open"  BY <2>1, <2>4, <2>5
  <2>6. CASE Closes(s, k)'  BY <1>4, <2>1, <2>4, <2>6
  <2>7. CASE k \in broken
    <3>1. k \in broken'  BY <1>1, <2>1, <2>7
    <3>2. QED  BY <2>1, <2>4, <3>1
  <2>8. CASE status'[k][held[k]] # "open" /\ ~Closes(s, k)' /\ k \notin broken
    <3>1. status[k][held[k]] # "open" /\ k \notin broken  BY <1>5, <2>1, <2>8
    <3>2. PICK u \in Sessions : Closes(u, k) /\ target[u] = held[k]  BY <2>2, <3>1
    <3>3. u # s  BY <2>3, <3>2
    <3>4. QED  BY <1>2, <1>3, <2>1, <2>4, <3>2, <3>3
  <2>9. QED  BY <2>5, <2>6, <2>7, <2>8
<1>10. ClosersKnow'
  <2> SUFFICES ASSUME NEW u \in Sessions, NEW k \in Kinds, Closes(u, k)'
               PROVE  /\ owns'[k] /\ target'[u] # "none"
                      /\ status'[k][target'[u]] \in {"closing", "closed"}
                      /\ held'[k] \in {target'[u], "none"} \cup overlapped'
    BY DEF ClosersKnow
  <2>1. CASE u = s
    <3>1. owns[k] /\ target'[s] = held[k] /\ held[k] \in Objects /\ handles[k] = held[k]
      BY <1>4, <2>1
    <3>2. status[k][held[k]] \in {"open", "closing", "closed"}
      BY <3>1, HandlesAre DEF TypeOK, IInv, HandlesGood
    <3>3. status'[k][held[k]] \in {"closing", "closed"}  BY <1>5, <2>1, <3>1, <3>2
    <3>4. QED  BY <1>1, <2>1, <3>1, <3>3, HandlesAre
  <2>2. CASE u # s
    <3>1. Closes(u, k) /\ target'[u] = target[u]  BY <1>2, <1>3, <2>2
    <3>2. /\ owns[k] /\ target[u] # "none"
          /\ status[k][target[u]] \in {"closing", "closed"}
          /\ held[k] \in {target[u], "none"} \cup overlapped
      BY <3>1 DEF IInv, ClosersKnow
    <3>3. target[u] \in Objects  BY <3>2, HandlesAre DEF TypeOK
    <3>4. status'[k][target[u]] \in {"closing", "closed"}  BY <1>5, <3>2, <3>3
    <3>5. QED  BY <1>1, <3>1, <3>2, <3>4
  <2>3. QED  BY <2>1, <2>2
<1>11. OpenersKnow'
  <2> SUFFICES ASSUME NEW u \in Sessions, pc'[u] = "opening"
               PROVE  /\ held'["pool"] \in {"none"} \cup overlapped'
                      /\ status'["pool"]["injected"] = "none"
    BY DEF OpenersKnow
  <2>1. pc[u] = "opening"  BY <1>2
  <2>2. held["pool"] \in {"none"} \cup overlapped /\ status["pool"]["injected"] = "none"
    BY <2>1 DEF IInv, OpenersKnow
  <2>3. QED  BY <1>1, <1>5, <2>2, HandlesAre, KindsAre
<1>12. AloneEquipped'
  <2> SUFFICES ASSUME NEW u \in Sessions \ overlapped
               PROVE  /\ pc'[u] \in {"opening", "serving"} => held'["authorizer"] # "none"
                      /\ pc'[u] = "serving" => held'["pool"] # "none" /\ service' = held'["pool"]
                      /\ call'[u] = "authorizing" => target'[u] = held'["authorizer"]
                      /\ call'[u] = "querying" => target'[u] = held'["pool"]
    BY <1>1 DEF AloneEquipped
  <2>1. CASE u = s  BY <1>1, <1>2, <2>1
  <2>2. CASE u # s
    <3>1. pc[u] \notin {"opening", "serving"}
      BY <2>2 DEF IInv, OverlapShows, Active, InServer
    <3>2. call[u] \notin {"authorizing", "querying"}  BY <3>1 DEF IInv, CallsServed
    <3>3. QED  BY <1>1, <1>2, <2>2, <3>1, <3>2
  <2>3. QED  BY <2>1, <2>2
<1>13. CallsServed'  BY <1>1, <1>2 DEF IInv, CallsServed
<1>14. OpenIsHeld'
  <2>1. ASSUME NEW k \in Kinds, NEW o \in Sessions \ overlapped', status'[k][o] = "open"
        PROVE  held'[k] = o
    <3>1. o \in Objects \ overlapped /\ o # "none"  BY <1>1, HandlesAre
    <3>2. status[k][o] = "open"  BY <1>5, <2>1, <3>1
    <3>3. held[k] = o  BY <1>1, <2>1, <3>2 DEF IInv, OpenIsHeld
    <3>4. handles[k] = held[k]  BY <3>1, <3>2, <3>3
    <3>5. QED  BY <1>1, <3>3, <3>4
  <2>2. \A k \in Kinds : status'[k]["injected"] # "none" =>
           status'[k]["injected"] = "open" /\ held'[k] = "injected"
    BY <1>8 DEF InjectedStays
  <2>3. QED  BY <2>1, <2>2 DEF OpenIsHeld
<1>15. AloneUndisturbed'  BY <1>1 DEF IInv, AloneUndisturbed
<1>16. AloneUnspoiled'
  <2>1. \A u \in Sessions : pc'[u] \in {"opening", "serving"} => pc[u] = pc'[u]  BY <1>2
  <2>2. QED  BY <1>1, <2>1 DEF IInv, AloneUnspoiled
<1>17. QED
  BY <1>6, <1>7, <1>8, <1>9, <1>10, <1>11, <1>12, <1>13, <1>14, <1>15, <1>16 DEF IInv

LEMMA SessionEndsInv ==
    ASSUME TypeOK, IInv, NEW s \in Sessions, SessionEnds(s)
    PROVE  IInv'
<1>1. pc[s] = "serving" /\ call[s] = "idle" /\ Ends(s, held, status)  BY SessionEndsDoes
<1>2. \A k \in Kinds : ~Closes(s, k)  BY <1>1 DEF Closes
<1>3. held \in [Kinds -> Handles] /\ status \in States  BY DEF TypeOK, States
<1>4. QED  BY <1>1, <1>2, <1>3, EndsInv

LEMMA ClosedInv ==
    ASSUME TypeOK, IInv, NEW s \in Sessions, Closed(s)
    PROVE  IInv'
<1>1. PICK k \in Kinds : Closes(s, k) /\ Ends(s, Reset(k), Done(k, target[s]))
  BY ClosedDoes
<1>2. pc[s] = "closing" /\ call[s] = "idle"  BY <1>1 DEF Closes, IInv, CallsServed, TypeOK
<1>3. /\ target[s] # "none"
      /\ status[k][target[s]] \in {"closing", "closed"}
      /\ held[k] \in {target[s], "none"} \cup overlapped
  BY <1>1 DEF IInv, ClosersKnow
<1>4. Reset(k) \in [Kinds -> Handles]  BY HandlesAre DEF TypeOK, Reset
<1>5. Done(k, target[s]) \in States  BY DEF TypeOK, Done, States
<1>6. \A l \in Kinds : Reset(k)[l] \in {held[l], "none"}  BY DEF TypeOK, Reset
<1>7. \A l \in Kinds, o \in Objects :
        \/ Done(k, target[s])[l][o] = status[l][o]
        \/ Done(k, target[s])[l][o] = "closed" /\ status[l][o] \in {"closing", "closed"}
  BY <1>3 DEF TypeOK, Done
<1>8. \A l \in Kinds : Closes(s, l) => Reset(k)[l] = "none"
  BY <1>1 DEF TypeOK, Closes, Reset
<1>9. \A l \in Kinds : Reset(k)[l] # held[l] =>
        \A o \in Objects \ overlapped : held[l] = o => status[l][o] # "open"
  BY <1>3, HandlesAre DEF TypeOK, Reset
<1>10. QED  BY <1>1, <1>2, <1>4, <1>5, <1>6, <1>7, <1>8, <1>9, EndsInv

\* A close that fails: nobody is left alone with the handle that it leaves.
LEMMA CloseFailsInv ==
    ASSUME TypeOK, IInv, NEW s \in Sessions, CloseFails(s)
    PROVE  IInv'
<1> DEFINE kind == Order[closing[s]]
<1>0. closing[s] \in 1..3 /\ kind \in Kinds  BY KindsAre DEF TypeOK, CloseFails
<1>1. Closes(s, kind) /\ pc[s] = "closing"  BY DEF CloseFails, Closes
<1>2. /\ owns[kind] /\ target[s] # "none" /\ target[s] \in Objects
      /\ status[kind][target[s]] \in {"closing", "closed"}
  BY <1>0, <1>1, HandlesAre DEF TypeOK, IInv, ClosersKnow
<1>3. /\ UNCHANGED <<held, owns, service, overlapped, spoiled, call, outcome>>
      /\ broken' = broken \cup {kind}
      /\ status' = [status EXCEPT ![kind][target[s]] = "closed"]
  BY DEF CloseFails, callVars
<1>4. /\ pc'[s] = "failed"
      /\ \A u \in Sessions \ {s} :
            pc'[u] = pc[u] /\ closing'[u] = closing[u] /\ target'[u] = target[u]
  BY DEF TypeOK, CloseFails, GotoPc
<1>5. /\ \A k \in Kinds, u \in Sessions \ {s} : Closes(u, k)' <=> Closes(u, k)
      /\ \A k \in Kinds : ~Closes(s, k)'
  BY <1>4 DEF Closes
<1>6. \A k \in Kinds, o \in Objects :
         status'[k][o] = IF k = kind /\ o = target[s] THEN "closed" ELSE status[k][o]
  BY <1>0, <1>2, <1>3 DEF TypeOK
<1> HIDE DEF kind
<1>7. OverlapShows'  BY <1>3, <1>4 DEF IInv, OverlapShows, Active, InServer
<1>8. \A k \in Kinds, o \in Objects :
         \/ status'[k][o] = status[k][o]
         \/ status'[k][o] = "closed" /\ status[k][o] \in {"closing", "closed"}
  BY <1>2, <1>6
<1>9. NotYet'  BY <1>4, <1>8, HandlesAre, KindsAre DEF IInv, NotYet
<1>10. InjectedStays'  BY <1>3, <1>8, HandlesAre DEF IInv, InjectedStays
<1>11. HandlesGood'
  <2> SUFFICES ASSUME NEW k \in Kinds, held[k] # "none"
               PROVE  /\ status'[k][held[k]] # "none"
                      /\ \/ status'[k][held[k]] = "open" \/ k \in broken'
                         \/ \E u \in Sessions : Closes(u, k)' /\ target'[u] = held[k]
    BY <1>3 DEF HandlesGood
  <2>1. held[k] \in Objects  BY HandlesAre DEF TypeOK
  <2>2. /\ status[k][held[k]] # "none"
        /\ \/ status[k][held[k]] = "open" \/ k \in broken
           \/ \E u \in Sessions : Closes(u, k) /\ target[u] = held[k]
    BY DEF IInv, HandlesGood
  <2>3. status'[k][held[k]] # "none"  BY <1>8, <2>1, <2>2
  <2>4. CASE k = kind \/ k \in broken  BY <1>3, <2>3, <2>4
  <2>5. CASE k # kind /\ status[k][held[k]] = "open"  BY <1>6, <2>1, <2>3, <2>5
  <2>6. ASSUME k # kind, NEW u \in Sessions, Closes(u, k), target[u] = held[k]
        PROVE  \E v \in Sessions : Closes(v, k)' /\ target'[v] = held[k]
    <3>1. u # s  BY <1>1, <2>6 DEF Closes, kind
    <3>2. QED  BY <1>4, <1>5, <2>6, <3>1
  <2>7. QED  BY <2>2, <2>3, <2>4, <2>5, <2>6
<1>12. ClosersKnow'
  <2> SUFFICES ASSUME NEW u \in Sessions, NEW k \in Kinds, Closes(u, k)'
               PROVE  /\ owns'[k] /\ target'[u] # "none"
                      /\ status'[k][target'[u]] \in {"closing", "closed"}
                      /\ held'[k] \in {target'[u], "none"} \cup overlapped'
    BY DEF ClosersKnow
  <2>1. u # s /\ Closes(u, k) /\ target'[u] = target[u]  BY <1>4, <1>5
  <2>2. /\ owns[k] /\ target[u] # "none"
        /\ status[k][target[u]] \in {"closing", "closed"}
        /\ held[k] \in {target[u], "none"} \cup overlapped
    BY <2>1 DEF IInv, ClosersKnow
  <2>3. target[u] \in Objects  BY <2>2, HandlesAre DEF TypeOK
  <2>4. QED  BY <1>3, <1>8, <2>1, <2>2, <2>3
<1>13. OpenersKnow'  BY <1>3, <1>4, <1>8, HandlesAre, KindsAre DEF IInv, OpenersKnow
<1>14. \A u \in Sessions \ overlapped : pc'[u] \notin {"opening", "serving"}
  <2> SUFFICES ASSUME NEW u \in Sessions \ overlapped, pc'[u] \in {"opening", "serving"}
               PROVE  FALSE
    OBVIOUS
  <2>1. u # s /\ pc[u] \in {"opening", "serving"}  BY <1>4
  <2>2. QED  BY <1>1, <2>1 DEF IInv, OverlapShows, Active, InServer
<1>15. AloneUnspoiled'  BY <1>3, <1>14 DEF AloneUnspoiled
<1>16. CallsServed'  BY <1>1, <1>3, <1>4 DEF IInv, CallsServed
<1>17. AloneEquipped'  BY <1>3, <1>14, <1>16 DEF AloneEquipped, CallsServed
<1>18. OpenIsHeld'
  <2>1. \A k \in Kinds, o \in Sessions \ overlapped : status'[k][o] = "open" => held[k] = o
    BY <1>8, HandlesAre DEF IInv, OpenIsHeld
  <2>2. QED  BY <1>3, <1>10, <2>1 DEF OpenIsHeld, InjectedStays
<1>19. AloneUndisturbed'  BY <1>3 DEF IInv, AloneUndisturbed
<1>20. QED
  BY <1>7, <1>9, <1>10, <1>11, <1>12, <1>13, <1>15, <1>16, <1>17, <1>18, <1>19 DEF IInv

\* A call of a session that is alone finds what it needs open.
LEMMA AloneFinds ==
    ASSUME TypeOK, IInv, NEW s \in Sessions \ (overlapped \cup spoiled), pc[s] = "serving"
    PROVE  \A k \in Kinds : held[k] # "none" => status[k][held[k]] = "open"
<1>1. \A u \in Sessions : pc[u] # "closing"
  BY DEF IInv, OverlapShows, Active, InServer
<1>2. broken = {}  BY DEF IInv, AloneUnspoiled
<1>3. QED  BY <1>1, <1>2 DEF IInv, HandlesGood, Closes

LEMMA CallInv ==
    ASSUME TypeOK, IInv, NEW s \in Sessions, CallBegins(s) \/ CallResumes(s)
    PROVE  IInv'
<1> USE KindsAre, HandlesAre DEF TypeOK, IInv, objectVars, sessionVars, failVars
<1>1. /\ pc[s] = "serving" /\ UNCHANGED <<held, owns, service, status, pc, closing, overlapped, broken, spoiled>>
      /\ target' \in [Sessions -> Handles]
      /\ \A u \in Sessions \ {s} :
            target'[u] = target[u] /\ call'[u] = call[u] /\ outcome'[u] = outcome[u]
  BY DEF CallBegins, CallResumes, Authorized, Acquire, QueryEnds, CallStays, CallEnds, CallsServed
<1>2. s \notin overlapped =>
         /\ call'[s] = "authorizing" => target'[s] = held["authorizer"]
         /\ call'[s] = "querying" => target'[s] = held["pool"]
  BY DEF CallsServed, CallBegins, CallResumes, Authorized, Acquire, QueryEnds, CallStays, CallEnds, AloneEquipped
<1>3. ASSUME s \notin overlapped \cup spoiled  PROVE outcome'[s] \notin {"missing", "shut"}
  <2>1. /\ held["authorizer"] # "none" /\ held["pool"] # "none" /\ service = held["pool"]
        /\ call[s] = "authorizing" => target[s] = held["authorizer"]
        /\ call[s] = "querying" => target[s] = held["pool"]
    BY <1>1, <1>3 DEF AloneEquipped
  <2>2. status["authorizer"][held["authorizer"]] = "open" /\ status["pool"][service] = "open"
    BY <1>1, <1>3, <2>1, AloneFinds
  <2>3. outcome[s] \notin {"missing", "shut"}  BY <1>3 DEF AloneUndisturbed
  <2>4. QED
    BY <2>1, <2>2, <2>3
    DEF CallBegins, CallResumes, Authorized, Acquire, QueryEnds, CallStays, CallEnds
<1>4. OverlapShows' /\ NotYet' /\ InjectedStays' /\ OpenersKnow' /\ OpenIsHeld' /\ AloneUnspoiled'
  BY <1>1 DEF AloneUnspoiled, OverlapShows, NotYet, InjectedStays, OpenersKnow, OpenIsHeld, Active, InServer
<1>5. HandlesGood' /\ ClosersKnow'  BY <1>1 DEF HandlesGood, ClosersKnow, Closes
<1>6. CallsServed'  BY <1>1 DEF CallsServed
<1>7. AloneEquipped'  BY <1>1, <1>2 DEF AloneEquipped
<1>8. AloneUndisturbed'  BY <1>1, <1>3 DEF AloneUndisturbed
<1>9. QED  BY <1>4, <1>5, <1>6, <1>7, <1>8

LEMMA StepInv == TypeOK /\ IInv /\ [Next]_vars => IInv'
<1> SUFFICES ASSUME TypeOK, IInv, [Next]_vars  PROVE IInv'  OBVIOUS
<1>1. CASE UNCHANGED vars
  BY <1>1 DEF IInv, OverlapShows, NotYet, InjectedStays, HandlesGood, ClosersKnow, OpenersKnow,
    AloneUnspoiled, AloneEquipped, CallsServed, OpenIsHeld, AloneUndisturbed, Active, InServer, Closes,
    vars, objectVars, sessionVars, failVars, callVars
<1>2. QED
  BY <1>1, StartInv, PoolOpenedInv, PoolFailsInv, SessionEndsInv, ClosedInv, CloseFailsInv, CallInv
  DEF Next, Resumes

THEOREM Invariant == Spec => []IInv
BY TypeCorrect, InitInv, StepInv, PTL DEF Spec

-----------------------------------------------------------------------------
(* The properties.                                                         *)

\* A server without sessions holds no client that the next session could not
\* use, however the sessions before it overlapped and failed, but where the
\* last close of that kind raised.
THEOREM QuietIsUsable == Spec => []QuietMeansUsable
<1>1. IInv => QuietMeansUsable
  BY DEF IInv, HandlesGood, QuietMeansUsable, Closes, Active, InServer
<1>2. QED  BY <1>1, Invariant, PTL

\* Only sessions that overlapped leave clients open that nobody will close,
\* closes that raise included, and no end closes what was injected.
THEOREM OnlyOverlapsLeak == Spec => []OpenIsHeld
<1>1. IInv => OpenIsHeld  BY DEF IInv
<1>2. QED  BY <1>1, Invariant, PTL

\* The calls of a session that is alone, and that did not start on the handle
\* of a close that raised, never meet a client that is missing or closed.
THEOREM AloneIsUndisturbed == Spec => []AloneUndisturbed
<1>1. IInv => AloneUndisturbed  BY DEF IInv
<1>2. QED  BY <1>1, Invariant, PTL
-----------------------------------------------------------------------------
(* Every end comes to its end, if the awaits return.                       *)

\* The awaits of its life cycle that a session has before it, and those of
\* its call.
EndLeft(s) ==
    CASE pc[s] = "new" -> 6
      [] pc[s] = "opening" -> 5
      [] pc[s] = "serving" -> 4
      [] pc[s] = "closing" -> 4 - closing[s]
      [] OTHER -> 0

CallLeft(s) ==
    CASE call[s] = "authorizing" -> 3
      [] call[s] = "acquiring" -> 2
      [] call[s] = "querying" -> 1
      [] OTHER -> 0

\* Nobody takes a connection of a pool that is being closed.
Drains ==
    \A p \in Objects : status["pool"][p] # "open" => Holders(p)' \subseteq Holders(p)

Bounded(s) ==
    /\ EndLeft(s)' <= EndLeft(s)
    /\ Resumes(s) => EndLeft(s)' < EndLeft(s)
    /\ call[s] # "idle" => CallLeft(s)' <= CallLeft(s)
    /\ CallResumes(s) => CallLeft(s)' < CallLeft(s)

LEMMA LeftTyped ==
    ASSUME TypeOK, NEW s \in Sessions
    PROVE  EndLeft(s) \in 0..6 /\ CallLeft(s) \in 0..3
<1>1. closing[s] \in 0..3  BY KindsAre DEF TypeOK
<1>2. QED  BY <1>1 DEF EndLeft, CallLeft

\* A close is followed by the close of a later kind, or by none.
LEMMA CloseFromFurther ==
    ASSUME NEW s \in Sessions, NEW i \in 1..4, NEW handles, NEW states,
           CloseFrom(s, i, handles, states)
    PROVE  \/ pc' = [pc EXCEPT ![s] = "ended"] /\ closing' = [closing EXCEPT ![s] = 0]
           \/ \E j \in i..3 : /\ pc' = [pc EXCEPT ![s] = "closing"]
                              /\ closing' = [closing EXCEPT ![s] = j]
<1> DEFINE left == {j \in i..Len(Order) : Owned(Order[j], handles)}
<1>1. CASE left = {}  BY <1>1 DEF CloseFrom, GotoPc
<1>2. CASE left # {}
  <2>1. left \in SUBSET (1..3) /\ left \subseteq i..3  BY KindsAre
  <2>2. Min(left) \in left  BY <1>2, <2>1, FirstLeft
  <2>3. pc' = [pc EXCEPT ![s] = "closing"] /\ closing' = [closing EXCEPT ![s] = Min(left)]
    <3> HIDE DEF left
    <3>1. QED  BY <1>2 DEF CloseFrom, GotoPc, left
  <2>4. QED  BY <2>1, <2>2, <2>3
<1>3. QED  BY <1>1, <1>2

\* What a session does in its life cycle, of its own and of others' places.
LEMMA PlaceStep ==
    ASSUME TypeOK, NEW s \in Sessions, Start(s) \/ Resumes(s) \/ SessionEnds(s)
    PROVE  /\ EndLeft(s)' < EndLeft(s)
           /\ \A u \in Sessions \ {s} : EndLeft(u)' = EndLeft(u)
           /\ UNCHANGED callVars
<1>0. /\ pc \in [Sessions -> {"new", "ended", "failed"} \cup InServer]
      /\ closing \in [Sessions -> 0..3]
      /\ pc[s] = "closing" => closing[s] # 0
  BY KindsAre DEF TypeOK
<1>1. CASE Start(s)
  <2>1. pc[s] = "new" /\ pc'[s] \in {"opening", "serving"} /\ closing' = closing
    BY <1>0, <1>1 DEF Start, GotoPc
  <2>2. \A u \in Sessions \ {s} : pc'[u] = pc[u]  BY <1>0, <1>1 DEF Start, GotoPc
  <2>3. QED  BY <1>0, <1>1, <2>1, <2>2 DEF EndLeft, Start
<1>2. CASE PoolOpened(s) \/ PoolFails(s)
  <2>1. pc[s] = "opening" /\ pc'[s] \in {"serving", "failed"} /\ closing' = closing
    BY <1>0, <1>2 DEF PoolOpened, PoolFails, GotoPc
  <2>2. \A u \in Sessions \ {s} : pc'[u] = pc[u]
    BY <1>0, <1>2 DEF PoolOpened, PoolFails, GotoPc
  <2>3. QED  BY <1>0, <1>2, <2>1, <2>2 DEF EndLeft, PoolOpened, PoolFails
<1>3. CASE SessionEnds(s) \/ Closed(s)
  <2>1. PICK i \in 1..4 :
           /\ \/ pc[s] = "serving" /\ i = 1
              \/ pc[s] = "closing" /\ i = closing[s] + 1
           /\ \E handles, states : CloseFrom(s, i, handles, states)
    <3>1. CASE SessionEnds(s)  BY <3>1 DEF SessionEnds
    <3>2. CASE Closed(s)
      <4>1. closing[s] + 1 \in 1..4 /\ pc[s] = "closing"  BY <1>0, <3>2 DEF Closed
      <4>2. \E handles, states : CloseFrom(s, closing[s] + 1, handles, states)
        BY <3>2, Zenon DEF Closed
      <4>3. QED  BY <4>1, <4>2
    <3>3. QED  BY <1>3, <3>1, <3>2
  <2>2. \/ pc' = [pc EXCEPT ![s] = "ended"] /\ closing' = [closing EXCEPT ![s] = 0]
        \/ \E j \in i..3 : /\ pc' = [pc EXCEPT ![s] = "closing"]
                           /\ closing' = [closing EXCEPT ![s] = j]
    BY <2>1, CloseFromFurther
  <2>3. \A u \in Sessions \ {s} : pc'[u] = pc[u] /\ closing'[u] = closing[u]
    BY <1>0, <2>2
  <2>4. \/ pc'[s] = "ended"
        \/ pc'[s] = "closing" /\ closing'[s] \in i..3
    BY <1>0, <2>2
  <2>5. EndLeft(s)' < EndLeft(s)  BY <1>0, <2>1, <2>4 DEF EndLeft
  <2>6. UNCHANGED callVars  BY <1>3 DEF SessionEnds, Closed
  <2>7. QED  BY <2>3, <2>5, <2>6 DEF EndLeft
<1>4. CASE CloseFails(s)
  <2>1. pc[s] = "closing" /\ pc'[s] = "failed"  BY <1>0, <1>4 DEF CloseFails, GotoPc
  <2>2. \A u \in Sessions \ {s} : pc'[u] = pc[u] /\ closing'[u] = closing[u]
    BY <1>0, <1>4 DEF CloseFails, GotoPc
  <2>3. closing[s] \in 1..3  BY <1>0, <2>1
  <2>4. QED  BY <1>4, <2>1, <2>2, <2>3 DEF EndLeft, CloseFails
<1>5. QED  BY <1>1, <1>2, <1>3, <1>4 DEF Resumes

LEMMA CallStep ==
    ASSUME TypeOK, IInv, NEW s \in Sessions, CallBegins(s) \/ CallResumes(s)
    PROVE  /\ UNCHANGED <<pc, closing>>
           /\ \A u \in Sessions \ {s} : call'[u] = call[u]
           /\ CallBegins(s) => call[s] = "idle" /\ pc[s] = "serving"
           /\ CallResumes(s) => CallLeft(s)' < CallLeft(s) /\ pc[s] = "serving"
<1>0. call \in [Sessions -> {"idle", "authorizing", "acquiring", "querying"}]
  BY DEF TypeOK
<1>1. UNCHANGED <<pc, closing>>
  BY DEF CallBegins, CallResumes, Authorized, Acquire, QueryEnds, sessionVars
<1>2. \A u \in Sessions \ {s} : call'[u] = call[u]
  BY <1>0 DEF CallBegins, CallResumes, Authorized, Acquire, QueryEnds, CallStays, CallEnds
<1>3. ASSUME CallResumes(s)  PROVE CallLeft(s)' < CallLeft(s) /\ pc[s] = "serving"
  <2>1. CASE Authorized(s)
    BY <1>0, <2>1 DEF Authorized, CallStays, CallEnds, CallLeft, IInv, CallsServed
  <2>2. CASE Acquire(s)
    BY <1>0, <2>2 DEF Acquire, CallStays, CallEnds, CallLeft, IInv, CallsServed
  <2>3. CASE QueryEnds(s)
    BY <1>0, <2>3 DEF QueryEnds, CallEnds, CallLeft, IInv, CallsServed
  <2>4. QED  BY <1>3, <2>1, <2>2, <2>3 DEF CallResumes
<1>4. QED  BY <1>1, <1>2, <1>3 DEF CallBegins

\* Who queries goes on with its own pool, and who begins to takes an open one.
LEMMA DrainStep ==
    ASSUME TypeOK, IInv, [Next]_vars
    PROVE  Drains
<1> SUFFICES ASSUME NEW p \in Objects, status["pool"][p] # "open", NEW u \in Sessions,
                    call'[u] = "querying", target'[u] = p
             PROVE  call[u] = "querying" /\ target[u] = p
  BY DEF Drains, Holders
<1>0. /\ call \in [Sessions -> {"idle", "authorizing", "acquiring", "querying"}]
      /\ target \in [Sessions -> Handles]
  BY DEF TypeOK
<1>1. ASSUME NEW s \in Sessions, Start(s) \/ PoolOpened(s) \/ PoolFails(s)
      PROVE  UNCHANGED <<call, target>>
  BY <1>1 DEF Start, PoolOpened, PoolFails, callVars
<1>2. ASSUME NEW s \in Sessions, SessionEnds(s) \/ Closed(s)
      PROVE  call[u] = "querying" /\ target[u] = p
  <2>1. call' = call /\ call[s] = "idle"
    BY <1>2 DEF SessionEnds, Closed, IInv, CallsServed, callVars
  <2>2. \E o : target' = [target EXCEPT ![s] = o]
    <3>1. CASE SessionEnds(s)
      <4>1. Ends(s, held, status)  BY <3>1, SessionEndsDoes
      <4>2. QED  BY <4>1, Zenon DEF Ends, Stops, Goes
    <3>2. CASE Closed(s)
      <4>1. PICK k \in Kinds : Closes(s, k) /\ Ends(s, Reset(k), Done(k, target[s]))
        BY <3>2, ClosedDoes
      <4>2. QED  BY <4>1, Zenon DEF Ends, Stops, Goes
    <3>3. QED  BY <1>2, <3>1, <3>2
  <2>3. QED  BY <1>0, <2>1, <2>2
<1>3. ASSUME NEW s \in Sessions, CallBegins(s) \/ Authorized(s) \/ QueryEnds(s)
      PROVE  call[u] = "querying" /\ target[u] = p
  BY <1>0, <1>3 DEF CallBegins, Authorized, QueryEnds, CallStays, CallEnds
<1>4. ASSUME NEW s \in Sessions, Acquire(s)
      PROVE  call[u] = "querying" /\ target[u] = p
  BY <1>0, <1>4 DEF Acquire, CallStays, CallEnds
<1>5. ASSUME NEW s \in Sessions, CloseFails(s)
      PROVE  call[u] = "querying" /\ target[u] = p
  <2>1. call' = call /\ call[s] = "idle"
    BY <1>5 DEF CloseFails, IInv, CallsServed, callVars
  <2>2. target' = [target EXCEPT ![s] = "none"]  BY <1>5 DEF CloseFails
  <2>3. QED  BY <1>0, <2>1, <2>2
<1>6. CASE UNCHANGED vars  BY <1>6 DEF vars, callVars
<1>7. QED  BY <1>1, <1>2, <1>3, <1>4, <1>5, <1>6 DEF Next, Resumes, CallResumes

\* lifespan's finally clause: an end waits at most once for each of the three
\* kinds, and the pool it closes waits only for queries that had begun before,
\* each of them one await from its end.
THEOREM EndsAreBounded == Spec => [][Drains /\ \A s \in Sessions : Bounded(s)]_vars
<1>1. ASSUME TypeOK, IInv, TypeOK', Next, NEW s \in Sessions  PROVE Bounded(s)
  <2>0. /\ EndLeft(s) \in 0..6 /\ CallLeft(s) \in 0..3
    BY <1>1, LeftTyped
  <2>1. closing'[s] \in 0..3  BY <1>1, KindsAre DEF TypeOK
  <2>2. EndLeft(s)' \in 0..6 /\ CallLeft(s)' \in 0..3
    BY <2>1 DEF EndLeft, CallLeft
  <2>3. Resumes(s) => EndLeft(s)' < EndLeft(s)  BY <1>1, PlaceStep
  <2>4. CallResumes(s) => CallLeft(s)' < CallLeft(s)  BY <1>1, CallStep
  <2>5. ASSUME NEW t \in Sessions, Start(t) \/ Resumes(t) \/ SessionEnds(t)
        PROVE  Bounded(s)
    <3>1. /\ EndLeft(t)' < EndLeft(t)
          /\ \A u \in Sessions \ {t} : EndLeft(u)' = EndLeft(u)
          /\ UNCHANGED callVars
      BY <1>1, <2>5, PlaceStep
    <3>2. EndLeft(s)' <= EndLeft(s)
      <4>1. CASE s = t  BY <2>0, <2>2, <3>1, <4>1
      <4>2. CASE s # t  BY <2>0, <3>1, <4>2
      <4>3. QED  BY <4>1, <4>2
    <3>3. CallLeft(s)' = CallLeft(s)  BY <3>1 DEF callVars, CallLeft
    <3>4. QED  BY <2>0, <2>3, <2>4, <3>2, <3>3 DEF Bounded
  <2>6. ASSUME NEW t \in Sessions, CallBegins(t) \/ CallResumes(t)
        PROVE  Bounded(s)
    <3>1. /\ UNCHANGED <<pc, closing>>
          /\ \A u \in Sessions \ {t} : call'[u] = call[u]
          /\ CallBegins(t) => call[t] = "idle" /\ pc[t] = "serving"
          /\ CallResumes(t) => CallLeft(t)' < CallLeft(t) /\ pc[t] = "serving"
      BY <1>1, <2>6, CallStep
    <3>2. EndLeft(s)' = EndLeft(s)  BY <3>1 DEF EndLeft
    <3>3. call[s] # "idle" => CallLeft(s)' <= CallLeft(s)
      <4>1. CASE s = t  BY <2>0, <2>2, <2>6, <3>1, <4>1
      <4>2. CASE s # t
        <5>1. CallLeft(s)' = CallLeft(s)  BY <3>1, <4>2 DEF CallLeft
        <5>2. QED  BY <2>0, <5>1
      <4>3. QED  BY <4>1, <4>2
    <3>4. QED  BY <2>0, <2>3, <2>4, <3>2, <3>3 DEF Bounded
  <2>7. CASE UNCHANGED vars
    <3>1. EndLeft(s)' = EndLeft(s) /\ CallLeft(s)' = CallLeft(s)
      BY <2>7 DEF vars, sessionVars, callVars, EndLeft, CallLeft
    <3>2. QED  BY <2>0, <2>3, <2>4, <3>1 DEF Bounded
  <2>8. QED  BY <1>1, <2>5, <2>6, <2>7 DEF Next
<1>2. TypeOK /\ IInv /\ TypeOK' /\ [Next]_vars
        => [Drains /\ \A s \in Sessions : Bounded(s)]_vars
  BY <1>1, DrainStep
<1>3. QED  BY <1>2, TypeCorrect, Invariant, PTL DEF Spec
=============================================================================
