-------------------------- MODULE ServiceLifespan --------------------------
(***************************************************************************)
(* McpService.lifespan (platform_sdk/base/mcp_service.py), the life cycle  *)
(* that every tool server passes to FastMCP.  FastMCP enters it once per   *)
(* client session, so over SSE several run at once on the one service      *)
(* object that main.py made: each start creates what the object lacks,     *)
(* and each end closes what the object holds, whoever created it.  A close *)
(* may raise or be cancelled: the exception leaves lifespan with the       *)
(* handle in place, and with what comes after it still open.               *)
(*                                                                         *)
(* A resource is named by the session that created it, or "injected" if    *)
(* the constructor was given it.  A caller has one call at a time,         *)
(* from the authorizer through the pool (the cache between them is         *)
(* ToolServer's).  FastMCP, asyncpg and httpx are external: a session that *)
(* ends has no calls left, a client or pool that is being closed serves no *)
(* new request, and a pool closes when its connections are back.  A client *)
(* or pool whose close raised is closed all the same (asyncpg terminates   *)
(* the pool, and with it the queries).                                     *)
(***************************************************************************)
EXTENDS Naturals, Sequences, FiniteSetsExt

CONSTANTS
    Sessions,       \* the client sessions of the server
    Callers,        \* those that call tools; the others come and go
    Failing         \* those whose close may raise or be cancelled

\* What lifespan creates, in the order in which it is closed again.
Order == <<"authorizer", "cache", "pool">>
Kinds == {Order[i] : i \in DOMAIN Order}
Objects == Sessions \cup {"injected"}
Handles == Objects \cup {"none"}

ASSUME SessionAssumption ==
    /\ Callers \subseteq Sessions /\ Failing \subseteq Sessions
    /\ {"injected", "none"} \cap Sessions = {}

VARIABLES
    held,       \* _authorizer, _cache, _db_pool of the service object
    owns,       \* _owns_authorizer, _owns_cache, _owns_db_pool
    service,    \* the pool that the business service was made with
    status,     \* what became of each resource
    pc,         \* where each session is in lifespan
    closing,    \* the kind a session closes, as a position in Order
    target,     \* the resource it closes, or that its call uses
    call,       \* where the session's call is
    outcome,    \* how its last call ended: "done" is answered, denied or failed
    overlapped, \* ghost: the sessions that were not alone in the server
    broken,     \* ghost: the kinds whose handle a failed close left in place
    spoiled     \* ghost: the sessions that started alone when there were such

objectVars == <<held, owns, service, status>>
failVars == <<broken, spoiled>>
sessionVars == <<pc, closing, overlapped, failVars>>
callVars == <<call, outcome>>
vars == <<objectVars, sessionVars, target, callVars>>

InServer == {"opening", "serving", "closing"}

TypeOK ==
    /\ held \in [Kinds -> Handles]
    /\ owns \in [Kinds -> BOOLEAN]
    /\ service \in Handles
    /\ status \in [Kinds -> [Objects -> {"none", "open", "closing", "closed"}]]
    /\ pc \in [Sessions -> {"new", "ended", "failed"} \cup InServer]
    /\ closing \in [Sessions -> 0..Len(Order)]
    /\ \A s \in Sessions : pc[s] = "closing" => closing[s] # 0
    /\ target \in [Sessions -> Handles]
    /\ call \in [Sessions -> {"idle", "authorizing", "acquiring", "querying"}]
    /\ outcome \in [Sessions -> {"none", "done", "missing", "shut"}]
    /\ overlapped \in SUBSET Sessions /\ spoiled \in SUBSET Sessions
    /\ broken \in SUBSET Kinds

\* The constructor: main.py injects nothing, tests inject what they like.
Init ==
    /\ \E injected \in SUBSET Kinds :
          /\ held = [k \in Kinds |-> IF k \in injected THEN "injected" ELSE "none"]
          /\ status = [k \in Kinds |-> [o \in Objects |->
                 IF o = "injected" /\ k \in injected THEN "open" ELSE "none"]]
    /\ owns = [k \in Kinds |-> FALSE]
    /\ service = "none"
    /\ pc = [s \in Sessions |-> "new"]
    /\ closing = [s \in Sessions |-> 0]
    /\ target = [s \in Sessions |-> "none"]
    /\ call = [s \in Sessions |-> "idle"]
    /\ outcome = [s \in Sessions |-> "none"]
    /\ overlapped = {} /\ spoiled = {} /\ broken = {}

Active == {s \in Sessions : pc[s] \in InServer}
GotoPc(s, place) == pc' = [pc EXCEPT ![s] = place]

-----------------------------------------------------------------------------
(* The start of a session.                                                 *)

\* What a session makes of its own: the object's handle, its flag, and the
\* resource.
Create(s, kinds) ==
    /\ held' = [k \in Kinds |-> IF k \in kinds THEN s ELSE held[k]]
    /\ owns' = [k \in Kinds |-> owns[k] \/ k \in kinds]
    /\ status' = [k \in Kinds |->
           IF k \in kinds THEN [status[k] EXCEPT ![s] = "open"] ELSE status[k]]
    /\ broken' = broken \ kinds

\* Up to the await of create_pool, or to the yield if the object has a pool.
Start(s) ==
    /\ pc[s] = "new"
    /\ Create(s, {k \in {"authorizer", "cache"} : held[k] = "none"})
    /\ IF held["pool"] = "none" THEN GotoPc(s, "opening") /\ UNCHANGED service
       ELSE GotoPc(s, "serving") /\ service' = held["pool"]
    /\ overlapped' = IF Active = {} THEN overlapped ELSE overlapped \cup Active \cup {s}
    /\ spoiled' = IF broken = {} \/ Active # {} THEN spoiled ELSE spoiled \cup {s}
    /\ UNCHANGED <<closing, target, callVars>>

\* Mutant: the business service is made once.
PoolOpenedKeepsService(s) ==
    /\ pc[s] = "opening"
    /\ Create(s, {"pool"})
    /\ service' = IF service = "none" THEN s ELSE service
    /\ GotoPc(s, "serving")
    /\ UNCHANGED <<closing, overlapped, spoiled, target, callVars>>

\* The pool is there; on_startup makes the business service with it.
PoolOpened(s) ==
    /\ pc[s] = "opening"
    /\ Create(s, {"pool"})
    /\ service' = s
    /\ GotoPc(s, "serving")
    /\ UNCHANGED <<closing, overlapped, spoiled, target, callVars>>

\* The database is not there: the exception leaves lifespan before its try.
PoolFails(s) ==
    /\ pc[s] = "opening"
    /\ GotoPc(s, "failed")
    /\ UNCHANGED <<objectVars, closing, overlapped, failVars, target, callVars>>

-----------------------------------------------------------------------------
(* The end of a session.                                                   *)

\* Mutant: what is there is closed, injected or not.
OwnedOrNot(k, handles) == handles[k] # "none"

Owned(k, handles) == owns[k] /\ handles[k] # "none"

\* Go on with the first kind from position i on that the object owns.
CloseFrom(s, i, handles, states) ==
    LET left == {j \in i..Len(Order) : Owned(Order[j], handles)}
        k == Order[Min(left)]
    IN  IF left = {}
        THEN /\ GotoPc(s, "ended")
             /\ closing' = [closing EXCEPT ![s] = 0]
             /\ target' = [target EXCEPT ![s] = "none"]
             /\ status' = states
        ELSE /\ GotoPc(s, "closing")
             /\ closing' = [closing EXCEPT ![s] = Min(left)]
             /\ target' = [target EXCEPT ![s] = handles[k]]
             /\ status' = [states EXCEPT ![k][handles[k]] = IF @ = "open" THEN "closing" ELSE @]

\* The client goes away, and its calls are over.
SessionEnds(s) ==
    /\ pc[s] = "serving" /\ call[s] = "idle"
    /\ CloseFrom(s, 1, held, status)
    /\ UNCHANGED <<held, owns, service, overlapped, failVars, callVars>>

\* The connections of a pool that are in use.
Holders(pool) == {s \in Sessions : call[s] = "querying" /\ target[s] = pool}

\* Mutant: the handle of the pool is not reset.
ClosedKeepsPool(s) ==
    /\ pc[s] = "closing"
    /\ LET k == Order[closing[s]]
           gone == IF k = "pool" THEN held ELSE [held EXCEPT ![k] = "none"]
           closed == [status EXCEPT ![k][target[s]] = "closed"]
       IN  /\ k = "pool" => Holders(target[s]) = {}
           /\ held' = gone
           /\ broken' = broken \ {k}
           /\ CloseFrom(s, closing[s] + 1, gone, closed)
    /\ UNCHANGED <<owns, service, overlapped, spoiled, callVars>>

\* The awaited close is done: the handle, whatever it is by now, is reset.
Closed(s) ==
    /\ pc[s] = "closing"
    /\ LET k == Order[closing[s]]
           gone == [held EXCEPT ![k] = "none"]
           closed == [status EXCEPT ![k][target[s]] = "closed"]
       IN  /\ k = "pool" => Holders(target[s]) = {}
           /\ held' = gone
           /\ broken' = broken \ {k}
           /\ CloseFrom(s, closing[s] + 1, gone, closed)
    /\ UNCHANGED <<owns, service, overlapped, spoiled, callVars>>

\* The close raises, or is cancelled with the session.
CloseFails(s) ==
    /\ s \in Failing /\ pc[s] = "closing"
    /\ LET k == Order[closing[s]]
       IN  /\ status' = [status EXCEPT ![k][target[s]] = "closed"]
           /\ broken' = broken \cup {k}
    /\ GotoPc(s, "failed")
    /\ closing' = [closing EXCEPT ![s] = 0]
    /\ target' = [target EXCEPT ![s] = "none"]
    /\ UNCHANGED <<held, owns, service, overlapped, spoiled, callVars>>

-----------------------------------------------------------------------------
(* The calls of a session, as the handlers of the tool servers make them.  *)

CallStays(s, place, resource) ==
    /\ call' = [call EXCEPT ![s] = place]
    /\ target' = [target EXCEPT ![s] = resource]
    /\ UNCHANGED outcome

CallEnds(s, how) ==
    /\ call' = [call EXCEPT ![s] = "idle"]
    /\ target' = [target EXCEPT ![s] = "none"]
    /\ outcome' = [outcome EXCEPT ![s] = how]

\* svc.authorizer raises if the object has none.
CallBegins(s) ==
    /\ s \in Callers
    /\ pc[s] = "serving" /\ call[s] = "idle"
    /\ IF held["authorizer"] = "none" THEN CallEnds(s, "missing")
       ELSE CallStays(s, "authorizing", held["authorizer"])
    /\ UNCHANGED <<objectVars, sessionVars>>

\* OPA's answer; a client that was closed meanwhile fails, which denies.
Authorized(s) ==
    /\ call[s] = "authorizing"
    /\ \/ /\ status["authorizer"][target[s]] = "open"
          /\ CallStays(s, "acquiring", "none") \/ CallEnds(s, "done")
       \/ status["authorizer"][target[s]] # "open" /\ CallEnds(s, "shut")
    /\ UNCHANGED <<objectVars, sessionVars>>

\* Mutant: a pool gives out connections until it is closed.
AcquireWhileClosing(s) ==
    /\ call[s] = "acquiring"
    /\ IF status["pool"][service] # "closed" THEN CallStays(s, "querying", service)
       ELSE CallEnds(s, "shut")
    /\ UNCHANGED <<objectVars, sessionVars>>

\* The business service takes a connection from the pool it was made with.
Acquire(s) ==
    /\ call[s] = "acquiring"
    /\ IF status["pool"][service] = "open" THEN CallStays(s, "querying", service)
       ELSE CallEnds(s, "shut")
    /\ UNCHANGED <<objectVars, sessionVars>>

\* The queries answer or fail; either way the connection goes back.  Those
\* of a pool that was terminated are cut off.
QueryEnds(s) ==
    /\ call[s] = "querying"
    /\ CallEnds(s, IF status["pool"][target[s]] = "closed" THEN "shut" ELSE "done")
    /\ UNCHANGED <<objectVars, sessionVars>>

-----------------------------------------------------------------------------
Resumes(s) == PoolOpened(s) \/ PoolFails(s) \/ Closed(s) \/ CloseFails(s)
CallResumes(s) == Authorized(s) \/ Acquire(s) \/ QueryEnds(s)

Over == \A s \in Sessions : pc[s] \in {"ended", "failed"}

Next ==
    \/ \E s \in Sessions :
          Start(s) \/ Resumes(s) \/ SessionEnds(s) \/ CallBegins(s) \/ CallResumes(s)
    \/ Over /\ UNCHANGED vars

Spec == Init /\ [][Next]_vars

\* A close that waits for nobody gets done, unless it raises.  Nothing else is
\* promised: create_pool sets no command_timeout, so a query may take for ever,
\* and with it the close of its pool.
FairSpec == Spec /\ \A s \in Sessions : WF_vars(Closed(s))

-----------------------------------------------------------------------------
(* Properties.                                                             *)

\* However sessions overlapped before, a server without sessions has nothing
\* left that the next one would take for a resource and could not use, but for
\* the kinds whose last close raised: their handle stays until a later end
\* closes it again.
QuietMeansUsable ==
    Active = {} => \A k \in Kinds \ broken : held[k] = "none" \/ status[k][held[k]] = "open"

\* What is open can still be closed, for the object holds it, unless sessions
\* overlapped (then a pool may leak); failed starts and failed ends leak
\* nothing.  What was injected stays its owner's.
OpenIsHeld ==
    \A k \in Kinds :
        /\ \A o \in Sessions \ overlapped : status[k][o] = "open" => held[k] = o
        /\ status[k]["injected"] # "none" =>
               status[k]["injected"] = "open" /\ held[k] = "injected"

\* A session that is alone from start to end never meets a resource that is
\* missing or closed, however those before it overlapped and failed to start,
\* if no failed close had left its handle in place when it started.
AloneUndisturbed ==
    \A s \in Sessions \ (overlapped \cup spoiled) : outcome[s] \notin {"missing", "shut"}

\* An end that has begun comes to its end, if queries do: the pool waits for
\* those that had begun, of all sessions, and lets nobody begin another.
SessionsEnd ==
    (\A c \in Callers : call[c] = "querying" ~> call[c] # "querying") =>
        \A s \in Sessions : pc[s] = "closing" ~> pc[s] \in {"ended", "failed"}

-----------------------------------------------------------------------------
(* What the safety properties rest on.                                     *)

\* Sessions that are in the server together know it.
OverlapShows == \A s, t \in Active : s # t => s \in overlapped

\* A session names nothing before it creates it.
NotYet ==
    \A s \in Sessions :
        /\ pc[s] = "new" => \A k \in Kinds : status[k][s] = "none"
        /\ pc[s] = "opening" => status["pool"][s] = "none"

\* No session owns what was injected.
InjectedStays ==
    \A k \in Kinds : status[k]["injected"] # "none" =>
        status[k]["injected"] = "open" /\ held[k] = "injected" /\ ~owns[k]

Closes(s, k) == pc[s] = "closing" /\ Order[closing[s]] = k

\* A handle that cannot be used will be reset by whoever closes it, or is left
\* of a close that failed.
HandlesGood ==
    \A k \in Kinds : held[k] # "none" =>
        /\ status[k][held[k]] # "none"
        /\ \/ status[k][held[k]] = "open" \/ k \in broken
           \/ \E s \in Sessions : Closes(s, k) /\ target[s] = held[k]

\* What an end resets is what it closes, or of sessions that overlapped.
ClosersKnow ==
    \A s \in Sessions, k \in Kinds : Closes(s, k) =>
        /\ owns[k] /\ target[s] # "none"
        /\ status[k][target[s]] \in {"closing", "closed"}
        /\ held[k] \in {target[s], "none"} \cup overlapped

\* What a start replaces is of sessions that overlapped.
OpenersKnow ==
    \A s \in Sessions : pc[s] = "opening" =>
        /\ held["pool"] \in {"none"} \cup overlapped
        /\ status["pool"]["injected"] = "none"

\* No close fails while a session is alone.
AloneUnspoiled ==
    \A s \in Sessions \ (overlapped \cup spoiled) :
        pc[s] \in {"opening", "serving"} => broken = {}

\* A session that is alone has what its calls need, and they use it.
AloneEquipped ==
    \A s \in Sessions \ overlapped :
        /\ pc[s] \in {"opening", "serving"} => held["authorizer"] # "none"
        /\ pc[s] = "serving" => held["pool"] # "none" /\ service = held["pool"]
        /\ call[s] = "authorizing" => target[s] = held["authorizer"]
        /\ call[s] = "querying" => target[s] = held["pool"]

\* Only a session that serves has a call.
CallsServed == \A s \in Sessions : call[s] # "idle" => pc[s] = "serving"

IInv ==
    /\ OverlapShows /\ NotYet /\ InjectedStays /\ HandlesGood /\ ClosersKnow
    /\ OpenersKnow /\ AloneUnspoiled /\ AloneEquipped /\ CallsServed /\ OpenIsHeld /\ AloneUndisturbed

(* What the code says, and does not keep.                                  *)

\* "Authorizer not available. Ensure it was injected or created during
\* startup": a session whose startup is done, which made sure of that, has one.
StartedHasAuthorizer == \A s \in Sessions : outcome[s] # "missing"
=============================================================================
