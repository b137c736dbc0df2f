----------------------------- MODULE ToolServer -----------------------------
(***************************************************************************)
(* The request path of an MCP tool server (tools/*-mcp/src): every handler *)
(* validates its input, asks the authorizer, looks the answer up in the    *)
(* Redis-backed ToolResultCache (platform_sdk/cache.py), runs its business *)
(* service on a miss and stores what it returned.  The calls of a server   *)
(* run concurrently on one event loop and share the cache and its breaker. *)
(*                                                                         *)
(* The authorizer is the OpaClient module seen from outside: it answers    *)
(* yes or no.  Redis and the back end (database, search API) are external: *)
(* a command that was sent to Redis is carried out at an instant of its    *)
(* own, which may come after the call has given it up.                     *)
(* A value stands for the string a service returns: what it is, for which  *)
(* view of the data it was computed and how long ago.  A server without a  *)
(* cache behaves as one whose circuit is open.                             *)
(***************************************************************************)
EXTENDS CircuitBreaker, FiniteSets

CONSTANTS
    Calls,          \* the tool calls that may be in progress at once
    Tools,          \* the tools offered: a subset of DOMAIN Handlers
    Claims,         \* what callers are: functions on Attributes
    Kinds,          \* what results may be: data, error (a failure in words)
    TTL,            \* ttl_seconds of the cache, in time units
    RedisTimeout    \* the most one Redis call takes, connecting included

-----------------------------------------------------------------------------
(* How the handlers differ.                                                *)
(*   sees        what of its caller the service's result depends on        *)
(*   names       what of its caller the cache key names                    *)
(*   errorText   the service reports some failures as an ordinary result   *)
(*   retries     an exception of the service leads to a second try         *)

Attributes == {"role", "col_mask", "assigned_account_ids"}

ExecuteReadQuery == [sees |-> {}, names |-> {"role"}, errorText |-> TRUE, retries |-> FALSE]
GetSchemaContext == [sees |-> {}, names |-> {}, errorText |-> FALSE, retries |-> FALSE]
GetSalesforceSummary ==
    [sees |-> {"role", "assigned_account_ids"}, names |-> {"role"}, errorText |-> TRUE,
     retries |-> FALSE]
GetPaymentSummary ==
    [sees |-> {"col_mask"}, names |-> {"col_mask"}, errorText |-> TRUE, retries |-> FALSE]
GetBankPaymentSummary == [sees |-> {}, names |-> {}, errorText |-> TRUE, retries |-> FALSE]
SearchCompanyNews == [sees |-> {}, names |-> {}, errorText |-> FALSE, retries |-> TRUE]

Handlers ==
    [ execute_read_query       |-> ExecuteReadQuery,
      get_schema_context       |-> GetSchemaContext,
      get_salesforce_summary   |-> GetSalesforceSummary,
      get_payment_summary      |-> GetPaymentSummary,
      get_bank_payment_summary |-> GetBankPaymentSummary,
      search_company_news      |-> SearchCompanyNews ]

ASSUME ToolAssumption ==
    /\ Tools \subseteq DOMAIN Handlers
    /\ \A p \in Claims : DOMAIN p = Attributes
    /\ Kinds \subseteq {"data", "error"}
    /\ TTL \in Nat \ {0}
    /\ RedisTimeout \in Nat

\* The keys of the tools offered name all that their results depend on: so it
\* is for every handler but get_salesforce_summary.
KeysTell == \A t \in Tools : Handlers[t].sees \subseteq Handlers[t].names

Part(claims, attributes) == [a \in attributes |-> claims[a]]

\* The view of the data that the service computes for a caller.
View(tool, claims) == Part(claims, Handlers[tool].sees)
Views == {View(t, p) : t \in Tools, p \in Claims}

\* Mutant: the caller left out of every key.
CacheKeyUnscoped(tool, claims) == <<tool, Part(claims, {})>>

\* make_cache_key: the tool's name and what the handler adds of the caller.
CacheKey(tool, claims) == <<tool, Part(claims, Handlers[tool].names)>>

Keys == {CacheKey(t, p) : t \in Tools, p \in Claims}

\* The oldest a result gets: the write that stored it was slow, its entry was
\* about to expire, and so was the lookup that found it.
MaxAge == TTL + 2 * RedisTimeout

\* A late value is one that Redis stored after its call had given it up: its
\* age is not known.
Values == [kind : Kinds, view : Views, age : 0..MaxAge, late : BOOLEAN]
NoValue == [kind |-> "none", view |-> <<>>, age |-> 0, late |-> FALSE]
NoEntry == [value |-> NoValue, ttl |-> 0]

VARIABLES
    redis,      \* what Redis holds under each key, with its remaining ttl
    overdue,    \* the writes given up by their calls, which Redis may yet do
    pc,         \* where each call is
    request,    \* the tool and the caller's claims
    granted,    \* the authorizer said yes in this call
    retried,    \* the service has been tried a second time (news search)
    waited,     \* how long the Redis call in progress has taken
    value,      \* the result in hand, or on its way from Redis
    response    \* how the last call of this slot ended (none: given up)

callVars == <<pc, request, granted, retried, waited, value, response>>
vars == <<breakerVars, redis, overdue, callVars>>

\* The awaits of ToolResultCache: a GET not yet carried out, its answer on the
\* way, a SETEX not yet carried out, its confirmation on the way.
AtRedis == {"looking", "reading", "storing", "confirming"}
Places == {"idle", "authorizing", "executing"} \cup AtRedis
Responses == {"none", "refused", "failed", "hit", "fresh"}
Requests == [tool : Tools, claims : Claims]

TypeOK ==
    /\ BreakerTypeOK
    /\ redis \in [Keys -> [value : Values \cup {NoValue}, ttl : 0..TTL]]
    /\ overdue \subseteq [key : Keys, value : Values]
    /\ pc \in [Calls -> Places]
    /\ request \in [Calls -> Requests]
    /\ granted \in [Calls -> BOOLEAN]
    /\ retried \in [Calls -> BOOLEAN]
    /\ waited \in [Calls -> 0..RedisTimeout]
    /\ value \in [Calls -> Values \cup {NoValue}]
    /\ response \in [Calls -> Responses]

Init ==
    /\ BreakerInit
    /\ redis = [k \in Keys |-> NoEntry]
    /\ overdue = {}
    /\ pc = [c \in Calls |-> "idle"]
    /\ request \in {[c \in Calls |-> r] : r \in Requests}
    /\ granted = [c \in Calls |-> FALSE]
    /\ retried = [c \in Calls |-> FALSE]
    /\ waited = [c \in Calls |-> 0]
    /\ value = [c \in Calls |-> NoValue]
    /\ response = [c \in Calls |-> "none"]

KeyOf(c) == CacheKey(request[c].tool, request[c].claims)
HandlerOf(c) == Handlers[request[c].tool]
ViewOf(c) == View(request[c].tool, request[c].claims)

Goto(c, label) ==
    /\ pc' = [pc EXCEPT ![c] = label]
    /\ waited' = [waited EXCEPT ![c] = 0]
    /\ UNCHANGED <<retried, response>>

\* The handler ends: with value v in the answer, and its locals gone.
Finish(c, how, v) ==
    /\ pc' = [pc EXCEPT ![c] = "idle"]
    /\ response' = [response EXCEPT ![c] = how]
    /\ value' = [value EXCEPT ![c] = v]
    /\ granted' = [granted EXCEPT ![c] = @ /\ v # NoValue]
    /\ retried' = [retried EXCEPT ![c] = FALSE]
    /\ waited' = [waited EXCEPT ![c] = 0]

-----------------------------------------------------------------------------
(* Validation and authorization.                                           *)

\* Mutant: the cache is asked before the authorizer.
BeginLooksFirst(c) ==
    /\ pc[c] = "idle"
    /\ \E r \in Requests : request' = [request EXCEPT ![c] = r]
    /\ granted' = [granted EXCEPT ![c] = FALSE]
    /\ value' = [value EXCEPT ![c] = NoValue]
    /\ pc' = [pc EXCEPT ![c] = IF IsOpen THEN "authorizing" ELSE "looking"]
    /\ response' = [response EXCEPT ![c] = "none"]
    /\ UNCHANGED <<breakerVars, redis, overdue, retried, waited>>

\* A call arrives; empty input is refused before anything else.
Begin(c) ==
    /\ pc[c] = "idle"
    /\ \E r \in Requests : request' = [request EXCEPT ![c] = r]
    /\ granted' = [granted EXCEPT ![c] = FALSE]
    /\ value' = [value EXCEPT ![c] = NoValue]
    /\ \/ /\ pc' = [pc EXCEPT ![c] = "authorizing"]
          /\ response' = [response EXCEPT ![c] = "none"]
       \/ response' = [response EXCEPT ![c] = "refused"] /\ UNCHANGED pc
    /\ UNCHANGED <<breakerVars, redis, overdue, retried, waited>>

\* The policy, or the row filter of get_payment_summary, says no.
Refuse(c) ==
    /\ pc[c] = "authorizing"
    /\ Finish(c, "refused", NoValue)
    /\ UNCHANGED <<breakerVars, redis, overdue, request>>

\* The policy says yes; with an open circuit the lookup is skipped.
Grant(c) ==
    /\ pc[c] = "authorizing"
    /\ granted' = [granted EXCEPT ![c] = TRUE]
    /\ Goto(c, IF IsOpen THEN "executing" ELSE "looking")
    /\ UNCHANGED <<breakerVars, redis, overdue, request, value>>

-----------------------------------------------------------------------------
(* ToolResultCache.get.                                                    *)

\* Redis carries out the GET; its answer is on the way.
RedisReads(c) ==
    /\ pc[c] = "looking"
    /\ pc' = [pc EXCEPT ![c] = "reading"]
    /\ value' = [value EXCEPT ![c] = redis[KeyOf(c)].value]
    /\ UNCHANGED <<breakerVars, redis, overdue, request, granted, retried, waited, response>>

Hit(c) ==
    /\ pc[c] = "reading"
    /\ value[c] # NoValue
    /\ RecordSuccess
    /\ Finish(c, "hit", value[c])
    /\ UNCHANGED <<redis, overdue, request>>

Miss(c) ==
    /\ pc[c] = "reading"
    /\ value[c] = NoValue
    /\ RecordSuccess
    /\ Goto(c, "executing")
    /\ UNCHANGED <<redis, overdue, request, granted, value>>

\* Redis fails or times out: a miss.
LookupFails(c) ==
    /\ pc[c] \in {"looking", "reading"}
    /\ RecordFailure
    /\ Goto(c, "executing")
    /\ value' = [value EXCEPT ![c] = NoValue]
    /\ UNCHANGED <<redis, overdue, request, granted>>

-----------------------------------------------------------------------------
(* The business service.                                                   *)

\* What the service may return for this call.
Results(c) ==
    [kind : IF HandlerOf(c).errorText THEN Kinds ELSE Kinds \ {"error"},
     view : {ViewOf(c)}, age : {0}, late : {FALSE}]

\* Mutant: set does not ask is_open.
ExecuteUnchecked(c) ==
    /\ pc[c] = "executing"
    /\ \E result \in Results(c) : value' = [value EXCEPT ![c] = result]
    /\ Goto(c, "storing")
    /\ UNCHANGED <<breakerVars, redis, overdue, request, granted>>

\* The service returns a string; it goes to the cache unless the circuit is
\* open, and the handler does not look at what it says.
Execute(c) ==
    /\ pc[c] = "executing"
    /\ \E result \in Results(c) :
           IF IsOpen THEN Finish(c, "fresh", result)
           ELSE /\ Goto(c, "storing")
                /\ value' = [value EXCEPT ![c] = result]
                /\ UNCHANGED granted
    /\ UNCHANGED <<breakerVars, redis, overdue, request>>

\* The service raises: the handler tries again or answers with an error, as a
\* reply or by raising in its turn, and caches nothing.
ServiceRaises(c) ==
    /\ pc[c] = "executing"
    /\ IF HandlerOf(c).retries /\ ~retried[c]
       THEN /\ retried' = [retried EXCEPT ![c] = TRUE]
            /\ UNCHANGED <<pc, granted, waited, value, response>>
       ELSE Finish(c, "failed", NoValue)
    /\ UNCHANGED <<breakerVars, redis, overdue, request>>

-----------------------------------------------------------------------------
(* ToolResultCache.set.                                                    *)

\* Mutant: SET without the expiry: the entry outlives its ttl.
StoredForLong(k, v) ==
    [redis EXCEPT ![k] = [value |-> v, ttl |-> TTL + 2 * RedisTimeout]]

\* What a SETEX makes of Redis.
Stored(k, v) == [redis EXCEPT ![k] = [value |-> v, ttl |-> TTL]]

\* Redis carries out the SETEX; its confirmation is on the way.
RedisWrites(c) ==
    /\ pc[c] = "storing"
    /\ redis' = Stored(KeyOf(c), value[c])
    /\ pc' = [pc EXCEPT ![c] = "confirming"]
    /\ UNCHANGED <<breakerVars, overdue, request, granted, retried, waited, value, response>>

Store(c) ==
    /\ pc[c] = "confirming"
    /\ RecordSuccess
    /\ Finish(c, "fresh", value[c])
    /\ UNCHANGED <<redis, overdue, request>>

AsLate(v) == [kind |-> v.kind, view |-> v.view, age |-> 0, late |-> TRUE]

\* A write that is given up before Redis has done it may be done at any time.
GiveUpWrite(c) ==
    overdue' = IF pc[c] = "storing"
               THEN overdue \cup {[key |-> KeyOf(c), value |-> AsLate(value[c])]}
               ELSE overdue

\* Redis fails or times out; the answer goes out anyway.
StoreFails(c) ==
    /\ pc[c] \in {"storing", "confirming"}
    /\ RecordFailure
    /\ GiveUpWrite(c)
    /\ Finish(c, "fresh", value[c])
    /\ UNCHANGED <<redis, request>>

\* The client goes away at an await.
Cancel(c) ==
    /\ pc[c] # "idle"
    /\ GiveUpWrite(c)
    /\ Finish(c, "none", NoValue)
    /\ UNCHANGED <<breakerVars, redis, request>>

-----------------------------------------------------------------------------
(* The environment.                                                        *)

\* Redis gets to a write whose call is no longer there to hear of it.  Several
\* calls may have left the same write, so it stays.
LateWrite ==
    /\ \E w \in overdue : redis' = Stored(w.key, w.value)
    /\ UNCHANGED <<breakerVars, overdue, callVars>>

\* Redis evicts a key, or restarts without it.
Evict(k) ==
    /\ redis[k] # NoEntry
    /\ redis' = [redis EXCEPT ![k] = NoEntry]
    /\ UNCHANGED <<breakerVars, overdue, callVars>>

Older(v) == IF v = NoValue \/ v.late THEN v ELSE [v EXCEPT !.age = @ + 1]

\* Time passes: entries expire, results in hand or on their way get older, and
\* no call to Redis takes longer than its time-outs.
Tick ==
    /\ \A c \in Calls : pc[c] \in AtRedis => waited[c] < RedisTimeout
    /\ Elapse
    /\ redis' = [k \in Keys |->
           IF redis[k].ttl <= 1 THEN NoEntry
           ELSE [value |-> Older(redis[k].value), ttl |-> redis[k].ttl - 1]]
    /\ waited' = [c \in Calls |-> IF pc[c] \in AtRedis THEN waited[c] + 1 ELSE waited[c]]
    /\ value' = [c \in Calls |-> IF pc[c] \in AtRedis THEN Older(value[c]) ELSE value[c]]
    /\ UNCHANGED <<overdue, pc, request, granted, retried, response>>

-----------------------------------------------------------------------------
RedisServes(c) == RedisReads(c) \/ RedisWrites(c)
RedisFails(c) == LookupFails(c) \/ StoreFails(c)

\* The steps of a call of its own.
Progress(c) ==
    \/ Refuse(c) \/ Grant(c)
    \/ Hit(c) \/ Miss(c)
    \/ Execute(c) \/ ServiceRaises(c)
    \/ Store(c)

Next ==
    \/ \E c \in Calls : Begin(c) \/ Progress(c) \/ RedisServes(c) \/ RedisFails(c) \/ Cancel(c)
    \/ LateWrite
    \/ \E k \in Keys : Evict(k)
    \/ Tick

Spec == Init /\ [][Next]_vars

\* Mutant: the client has no time-out, and a silent Redis is waited for.
TimesOutNever(c) == FALSE

\* The socket time-outs of the Redis client (cache.py, 130-131).
TimesOut(c) == waited[c] = RedisTimeout /\ RedisFails(c)

\* The authorizer always returns (OpaClient!AuthorizeReturns), time passes, and
\* the business service is taken to return: only the SELECT of execute_read_query
\* has a statement time-out, the queries of the other services end when the
\* database ends them.  Redis owes nothing: neither an answer nor an error.
FairSpec == Spec /\ WF_vars(Tick) /\ \A c \in Calls : WF_vars(Progress(c) \/ TimesOut(c))

-----------------------------------------------------------------------------
(* Properties.                                                             *)

Answered(c) == response[c] \in {"hit", "fresh"}

\* A call is answered with a result only after the authorizer granted this very
\* call, a cached result included, and the result was computed for the view of
\* the data that its own caller has, whichever call filled the cache.
AnswersAreForTheCaller ==
    \A c \in Calls : Answered(c) => granted[c] /\ value[c].view = ViewOf(c)

\* However slow the writes and the lookups, and however many calls fill the same
\* key, what the cache serves was computed less than ttl and two Redis time-outs
\* ago, unless Redis stored it after its call had given the write up.
FreshEnough ==
    \A c \in Calls : response[c] = "hit" /\ ~value[c].late => value[c].age < MaxAge

\* What makes them inductive.  Each entry, and each write Redis may yet do,
\* holds an answer for a caller whose key it is; the entry has the age that its
\* ttl has left it.
ForKey(k, v) == \E p \in Claims : k = CacheKey(k[1], p) /\ v.view = View(k[1], p)

CacheSound ==
    /\ \A k \in Keys : redis[k] # NoEntry =>
           /\ redis[k].value \in Values
           /\ ForKey(k, redis[k].value)
           /\ redis[k].ttl > 0
           /\ ~redis[k].value.late => redis[k].value.age + redis[k].ttl <= TTL + RedisTimeout
    /\ \A w \in overdue : ForKey(w.key, w.value) /\ w.value.late

\* Each call past the authorizer was granted; what comes from the cache was
\* computed for a caller with the same key, and what goes there for its own.
CallsSound ==
    \A c \in Calls :
        /\ pc[c] \notin {"idle", "authorizing"} => granted[c]
        /\ pc[c] # "idle" => response[c] = "none"
        /\ pc[c] \notin AtRedis => waited[c] = 0
        /\ pc[c] \in {"authorizing", "looking"} => value[c] = NoValue
        /\ pc[c] = "reading" /\ value[c] # NoValue =>
               /\ ForKey(KeyOf(c), value[c])
               /\ ~value[c].late => value[c].age < TTL + RedisTimeout + waited[c]
        /\ pc[c] \in {"storing", "confirming"} =>
               value[c] \in Values /\ value[c].view = ViewOf(c)
               /\ value[c].age = waited[c] /\ ~value[c].late

\* Whatever its key names of the caller, a result was computed for one caller
\* of those whose key it is.
AnswersMatchKey ==
    \A c \in Calls : Answered(c) =>
        granted[c] /\ value[c] \in Values /\ ForKey(KeyOf(c), value[c])

IInv == TypeOK /\ CacheSound /\ CallsSound /\ AnswersMatchKey /\ FreshEnough

\* The server with its cache, breaker and concurrent calls is one that answers
\* every call on its own (ToolContract): no call's answer depends on what other
\* calls left in the cache, but for its age.
Phase(c) ==
    CASE pc[c] = "idle" -> "idle"
      [] pc[c] = "authorizing" -> "asking"
      [] OTHER -> "working"
AnswerOf(c) ==
    CASE Answered(c) -> [how |-> "data", view |-> value[c].view]
      [] response[c] \in {"refused", "failed"} -> [how |-> response[c]]
      [] OTHER -> [how |-> "none"]

Uncached == INSTANCE ToolContract WITH
    phase <- [c \in Calls |-> Phase(c)],
    view <- [c \in Calls |-> ViewOf(c)],
    answer <- [c \in Calls |-> AnswerOf(c)]
KeepsToolContract == Uncached!Spec

\* While the circuit is open Redis is only left, never entered: the calls that
\* wait for it drain, and a tool call costs no Redis latency.
WaitingForRedis == {c \in Calls : pc[c] \in AtRedis}
OpenCircuitDrains == [][IsOpen /\ IsOpen' => WaitingForRedis' \subseteq WaitingForRedis]_vars

\* A Redis outage or a silent Redis never blocks a tool: every call that begins
\* ends, given that its business service returns.
CallsReturn == \A c \in Calls : pc[c] # "idle" ~> pc[c] = "idle"

\* "Store in cache (never cache errors)": a result served from the cache is
\* never an error.
ErrorsNotServedFromCache ==
    \A c \in Calls : response[c] = "hit" => value[c].kind # "error"
=============================================================================
