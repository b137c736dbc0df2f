-------------------------- MODULE ToolServerProofs --------------------------
(***************************************************************************)
(* ToolServer for any set of calls, tools and callers, any ttl and any     *)
(* time-outs.  What a handler promises its caller rests on what every      *)
(* cache entry is: an answer computed for a caller that has the entry's    *)
(* key and, unless its write was given up by its call, no older than its   *)
(* spent ttl plus the delay of that write.  That the answer was computed   *)
(* for the caller's own view of the data needs KeysTell besides.           *)
(***************************************************************************)
EXTENDS ToolServer, TLAPS

\* The counters stay in range: the count below its cap, the window no longer
\* than recovery_timeout (resilience.py, record_failure).
LEMMA BreakerTypeCorrect ==
    ASSUME BreakerTypeOK, BreakerStep
    PROVE  BreakerTypeOK'
BY BreakerAssumption DEF BreakerTypeOK, BreakerStep, RecordSuccess, RecordFailure, Elapse

\* A fresh breaker satisfies its type and starts closed.
LEMMA BreakerInitCorrect ==
    ASSUME BreakerInit
    PROVE  BreakerTypeOK /\ Contract!Init /\ ~IsOpen
BY BreakerAssumption DEF BreakerInit, BreakerTypeOK, Contract!Init, Regime, IsOpen

\* Each step of the breaker is a step of the contract or leaves the regime.
LEMMA BreakerStepRefines ==
    ASSUME BreakerTypeOK, BreakerStep
    PROVE  [Contract!Next]_Regime
<1>1. CASE RecordSuccess
  BY <1>1, BreakerAssumption DEF BreakerTypeOK, RecordSuccess, Regime, Contract!Next, Contract!Close
<1>2. CASE RecordFailure
  BY <1>2, BreakerAssumption DEF BreakerTypeOK, RecordFailure, Regime, Contract!Next,
     Contract!Trip, Contract!ProbeFails
<1>3. CASE Elapse
  BY <1>3, BreakerAssumption DEF BreakerTypeOK, Elapse, Regime, Contract!Next, Contract!WindowElapses
<1>4. QED  BY <1>1, <1>2, <1>3 DEF BreakerStep

\* What one call does, or has done for it or to it by Redis.
CallStep(c) == Begin(c) \/ Progress(c) \/ RedisServes(c) \/ RedisFails(c) \/ Cancel(c)

\* The part of a step that concerns the breaker: one operation or nothing.
LEMMA BreakerUse ==
    ASSUME [Next]_vars
    PROVE  BreakerStep \/ UNCHANGED breakerVars
BY DEF Next, vars, breakerVars, BreakerStep, Progress, RedisServes, RedisFails, Begin, Refuse,
       Grant, RedisReads, Hit, Miss, LookupFails, Execute, ServiceRaises, RedisWrites, Store,
       StoreFails, Cancel, LateWrite, Evict, Tick

LEMMA BreakerTyped ==
    ASSUME TypeOK, [Next]_vars
    PROVE  BreakerTypeOK'
<1>1. CASE BreakerStep  BY <1>1, BreakerTypeCorrect DEF TypeOK
<1>2. CASE UNCHANGED breakerVars  BY <1>2 DEF TypeOK, BreakerTypeOK, breakerVars
<1>3. QED  BY <1>1, <1>2, BreakerUse

\* The key a call reads and writes is one of the cache's, and what is computed
\* for the call is for a caller with that key.
LEMMA KeyOfCall ==
    ASSUME TypeOK, NEW c \in Calls
    PROVE  /\ KeyOf(c) \in Keys /\ ViewOf(c) \in Views
           /\ \A v : v.view = ViewOf(c) => ForKey(KeyOf(c), v)
<1>1. request[c].tool \in Tools /\ request[c].claims \in Claims  BY DEF TypeOK, Requests
<1>2. KeyOf(c) \in Keys /\ ViewOf(c) \in Views  BY <1>1 DEF KeyOf, Keys, ViewOf, Views
<1>3. KeyOf(c)[1] = request[c].tool  BY DEF KeyOf, CacheKey
<1>4. QED  BY <1>1, <1>2, <1>3 DEF ForKey, KeyOf, ViewOf

\* No result is the absence of one.
LEMMA NoValueIsNone == NoValue \notin Values
BY ToolAssumption DEF NoValue, Values

-----------------------------------------------------------------------------
(* The step, split by what it touches: Redis, then the calls.              *)

Entry == [value : Values \cup {NoValue}, ttl : 0..TTL]

EntryOK(k, e) ==
    e # NoEntry =>
        /\ e.value \in Values
        /\ ForKey(k, e.value)
        /\ e.ttl > 0
        /\ ~e.value.late => e.value.age + e.ttl <= TTL + RedisTimeout

RedisOK ==
    /\ redis \in [Keys -> Entry]
    /\ overdue \subseteq [key : Keys, value : Values]
    /\ \A k \in Keys : EntryOK(k, redis[k])
    /\ \A w \in overdue : ForKey(w.key, w.value) /\ w.value.late

\* What is known of one call.
CallOK(c) ==
    /\ pc[c] \notin {"idle", "authorizing"} => granted[c]
    /\ pc[c] # "idle" => response[c] = "none"
    /\ pc[c] \notin AtRedis => waited[c] = 0
    /\ pc[c] \in {"authorizing", "looking"} => value[c] = NoValue
    /\ pc[c] = "reading" /\ value[c] # NoValue =>
           /\ ForKey(KeyOf(c), value[c])
           /\ ~value[c].late => value[c].age < TTL + RedisTimeout + waited[c]
    /\ pc[c] \in {"storing", "confirming"} =>
           value[c] \in Values /\ value[c].view = ViewOf(c)
           /\ value[c].age = waited[c] /\ ~value[c].late
    /\ Answered(c) => granted[c] /\ value[c] \in Values /\ ForKey(KeyOf(c), value[c])
    /\ response[c] = "hit" /\ ~value[c].late => value[c].age < MaxAge

CallTypes ==
    /\ pc \in [Calls -> Places]
    /\ request \in [Calls -> Requests]
    /\ granted \in [Calls -> BOOLEAN]
    /\ retried \in [Calls -> BOOLEAN]
    /\ waited \in [Calls -> 0..RedisTimeout]
    /\ value \in [Calls -> Values \cup {NoValue}]
    /\ response \in [Calls -> Responses]

CallsOK == CallTypes /\ \A c \in Calls : CallOK(c)

LEMMA Parts == IInv <=> BreakerTypeOK /\ RedisOK /\ CallsOK
BY DEF IInv, TypeOK, CacheSound, CallsSound, AnswersMatchKey, FreshEnough, RedisOK, Entry,
       EntryOK, CallsOK, CallTypes, CallOK

LEMMA InitInv == Init => IInv
<1> SUFFICES ASSUME Init  PROVE IInv
  OBVIOUS
<1>1. BreakerTypeOK  BY BreakerInitCorrect DEF Init
<1>2. RedisOK
  <2>1. NoEntry \in Entry  BY ToolAssumption DEF NoEntry, Entry
  <2>2. QED  BY <2>1 DEF Init, RedisOK, EntryOK
<1>3. CallTypes  BY ToolAssumption DEF Init, CallTypes, Places, Responses
<1>4. ASSUME NEW c \in Calls  PROVE CallOK(c)
  <2>1. pc[c] = "idle" /\ waited[c] = 0 /\ response[c] = "none"  BY DEF Init
  <2>2. QED  BY <2>1 DEF CallOK, Answered, AtRedis
<1>5. QED  BY <1>1, <1>2, <1>3, <1>4, Parts DEF CallsOK

\* A write puts an answer under a key that its caller has.
LEMMA StoredOK ==
    ASSUME RedisOK, NEW k \in Keys, NEW v \in Values, ForKey(k, v),
           ~v.late => v.age <= RedisTimeout, redis' = Stored(k, v), overdue' = overdue
    PROVE  RedisOK'
<1> DEFINE entry == [value |-> v, ttl |-> TTL]
<1>1. entry \in Entry /\ EntryOK(k, entry)
  BY ToolAssumption DEF Entry, EntryOK, Values
<1>2. redis' = [redis EXCEPT ![k] = entry]  BY DEF Stored
<1> HIDE DEF entry
<1>3. redis' \in [Keys -> Entry] /\ \A j \in Keys : EntryOK(j, redis'[j])
  BY <1>1, <1>2 DEF RedisOK
<1>4. QED  BY <1>3 DEF RedisOK

\* A write that is given up is one for the key of its call.
LEMMA GivenUpOK ==
    ASSUME RedisOK, CallsOK, TypeOK, NEW c \in Calls, GiveUpWrite(c), redis' = redis
    PROVE  RedisOK'
<1>1. CASE pc[c] = "storing"
  <2> DEFINE v == AsLate(value[c])
             w == [key |-> KeyOf(c), value |-> v]
  <2>1. value[c] \in Values /\ value[c].view = ViewOf(c)  BY <1>1 DEF CallsOK, CallOK
  <2>2. v \in Values /\ v.view = ViewOf(c) /\ v.late
    <3>1. v = [kind |-> value[c].kind, view |-> value[c].view, age |-> 0, late |-> TRUE]
      BY DEF AsLate
    <3>2. value[c].kind \in Kinds /\ value[c].view \in Views /\ 0 \in 0..MaxAge
      BY <2>1, ToolAssumption DEF Values, MaxAge
    <3> HIDE DEF v
    <3>3. v \in Values  BY <3>1, <3>2 DEF Values
    <3>4. QED  BY <2>1, <3>1, <3>3
  <2>3. KeyOf(c) \in Keys /\ ForKey(KeyOf(c), v)  BY <2>2, KeyOfCall
  <2>4. overdue' = overdue \cup {w}  BY <1>1 DEF GiveUpWrite
  <2> HIDE DEF v
  <2>5. w \in [key : Keys, value : Values] /\ w.key = KeyOf(c) /\ w.value = v
    BY <2>2, <2>3
  <2> HIDE DEF w
  <2>6. QED  BY <2>2, <2>3, <2>4, <2>5 DEF RedisOK
<1>2. CASE pc[c] # "storing"
  BY <1>2 DEF GiveUpWrite, RedisOK
<1>3. QED  BY <1>1, <1>2

\* Redis gets to a write that was given up.
LEMMA LateWriteOK ==
    ASSUME RedisOK, LateWrite
    PROVE  RedisOK'
<1>1. PICK w \in overdue : redis' = Stored(w.key, w.value)  BY DEF LateWrite
<1>2. /\ w.key \in Keys /\ w.value \in Values
      /\ ForKey(w.key, w.value) /\ w.value.late
  BY DEF RedisOK
<1>3. overdue' = overdue  BY DEF LateWrite
<1>4. QED  BY <1>1, <1>2, <1>3, StoredOK

\* Eviction and the passage of time leave sound entries.
LEMMA EvictOK ==
    ASSUME RedisOK, NEW k \in Keys, Evict(k)
    PROVE  RedisOK'
<1>1. NoEntry \in Entry /\ EntryOK(k, NoEntry)  BY ToolAssumption DEF NoEntry, Entry, EntryOK
<1>2. QED  BY <1>1 DEF RedisOK, Evict

LEMMA TickOK ==
    ASSUME RedisOK, Tick
    PROVE  RedisOK'
<1>1. ASSUME NEW k \in Keys  PROVE redis'[k] \in Entry /\ EntryOK(k, redis'[k])
  <2>1. CASE redis[k].ttl <= 1
    <3>1. redis'[k] = NoEntry  BY <2>1 DEF Tick
    <3>2. QED  BY <3>1, ToolAssumption DEF NoEntry, Entry, EntryOK
  <2>2. CASE ~(redis[k].ttl <= 1)
    <3>1. redis'[k] = [value |-> Older(redis[k].value), ttl |-> redis[k].ttl - 1]
      BY <2>2 DEF Tick
    <3>2. redis[k] \in Entry /\ redis[k].ttl \in 0..TTL  BY DEF RedisOK, Entry
    <3>3. redis[k] # NoEntry  BY <2>2, <3>2 DEF NoEntry
    <3>4. /\ redis[k].value \in Values /\ ForKey(k, redis[k].value)
          /\ ~redis[k].value.late => redis[k].value.age + redis[k].ttl <= TTL + RedisTimeout
      BY <3>3 DEF RedisOK, EntryOK
    <3>5. redis[k].value # NoValue  BY <3>4, NoValueIsNone
    <3>6. CASE redis[k].value.late
      <4>1. Older(redis[k].value) = redis[k].value  BY <3>6 DEF Older
      <4> DEFINE e == [value |-> redis[k].value, ttl |-> redis[k].ttl - 1]
      <4>2. redis'[k] = e  BY <3>1, <4>1
      <4>3. e.value = redis[k].value /\ e.ttl > 0 /\ e.ttl \in 0..TTL
        BY <2>2, <3>2, ToolAssumption
      <4>4. e \in Entry  BY <3>4, <4>3 DEF Entry
      <4>5. EntryOK(k, e)  BY <3>4, <3>6, <4>3 DEF EntryOK
      <4>6. QED  BY <4>2, <4>4, <4>5
    <3>7. CASE ~redis[k].value.late
      <4> DEFINE v == redis[k].value
                 older == [v EXCEPT !.age = @ + 1]
      <4>1. Older(v) = older  BY <3>5, <3>7 DEF Older
      <4>2. v \in Values /\ v.age + redis[k].ttl <= TTL + RedisTimeout /\ ~v.late
        BY <3>4, <3>7
      <4>3. older.view = v.view /\ older.age = v.age + 1 /\ older.late = v.late
        BY <4>2 DEF Values
      <4>4. older \in Values
        BY <2>2, <3>2, <4>2, <4>3, ToolAssumption DEF Values, MaxAge
      <4>5. ForKey(k, older)  BY <3>4, <4>3 DEF ForKey
      <4>6. redis'[k] = [value |-> older, ttl |-> redis[k].ttl - 1]  BY <3>1, <4>1
      <4>7. older.age + (redis[k].ttl - 1) <= TTL + RedisTimeout
        BY <3>2, <4>2, <4>3, ToolAssumption DEF Values
      <4> HIDE DEF older
      <4>8. QED  BY <2>2, <3>2, <4>4, <4>5, <4>6, <4>7, ToolAssumption DEF Entry, EntryOK
    <3>8. QED  BY <3>6, <3>7
  <2>3. QED  BY <2>1, <2>2
<1>2. redis' \in [Keys -> Entry]  BY <1>1 DEF Tick
<1>3. overdue' = overdue  BY DEF Tick
<1>4. QED  BY <1>1, <1>2, <1>3 DEF RedisOK

\* What a step that leaves entries and writes alone keeps of them.
LEMMA SameRedisOK ==
    ASSUME RedisOK, UNCHANGED <<redis, overdue>>
    PROVE  RedisOK'
BY DEF RedisOK

LEMMA StepRedisOK ==
    ASSUME IInv, [Next]_vars
    PROVE  RedisOK'
<1>0. RedisOK /\ CallsOK /\ TypeOK  BY Parts DEF IInv
<1>1. ASSUME NEW c \in Calls, CallStep(c) PROVE RedisOK'
  <2>1. CASE RedisWrites(c)
    <3>1. value[c] \in Values /\ value[c].view = ViewOf(c) /\ value[c].age = waited[c]
      BY <1>0, <2>1 DEF RedisWrites, CallsOK, CallOK
    <3>2. waited[c] <= RedisTimeout  BY <1>0, ToolAssumption DEF TypeOK
    <3>3. KeyOf(c) \in Keys /\ ForKey(KeyOf(c), value[c])  BY <1>0, <3>1, KeyOfCall
    <3>4. redis' = Stored(KeyOf(c), value[c]) /\ overdue' = overdue
      BY <2>1 DEF RedisWrites
    <3>5. QED  BY <1>0, <3>1, <3>2, <3>3, <3>4, StoredOK
  <2>2. CASE StoreFails(c) \/ Cancel(c)
    <3>1. GiveUpWrite(c) /\ redis' = redis  BY <2>2 DEF StoreFails, Cancel
    <3>2. QED  BY <1>0, <3>1, GivenUpOK
  <2>3. CASE ~RedisWrites(c) /\ ~StoreFails(c) /\ ~Cancel(c)
    <3>1. UNCHANGED <<redis, overdue>>
      BY <1>1, <2>3 DEF CallStep, Begin, Progress, RedisServes, RedisFails, Refuse, Grant,
                        RedisReads, Hit, Miss, LookupFails, Execute, ServiceRaises, Store
    <3>2. QED  BY <1>0, <3>1, SameRedisOK
  <2>4. QED  BY <2>1, <2>2, <2>3
<1>2. CASE LateWrite  BY <1>0, <1>2, LateWriteOK
<1>3. ASSUME NEW k \in Keys, Evict(k) PROVE RedisOK'  BY <1>0, <1>3, EvictOK
<1>4. CASE Tick  BY <1>0, <1>4, TickOK
<1>5. CASE UNCHANGED vars  BY <1>0, <1>5, SameRedisOK DEF vars
<1>6. QED  BY <1>1, <1>2, <1>3, <1>4, <1>5 DEF Next, CallStep

\* A call that is as it was is as sound as it was.
LEMMA SameCallOK ==
    ASSUME NEW d \in Calls, CallOK(d),
           pc'[d] = pc[d], request'[d] = request[d], granted'[d] = granted[d],
           waited'[d] = waited[d], value'[d] = value[d], response'[d] = response[d]
    PROVE  CallOK(d)'
<1>1. KeyOf(d)' = KeyOf(d) /\ ViewOf(d)' = ViewOf(d)  BY DEF KeyOf, ViewOf
<1>2. Answered(d)' = Answered(d)  BY DEF Answered
<1>3. QED  BY <1>1, <1>2 DEF CallOK

\* One call moves, the others stay.
LEMMA OneMovesOK ==
    ASSUME CallsOK, NEW c \in Calls, CallTypes', CallOK(c)',
           \A d \in Calls \ {c} :
               /\ pc'[d] = pc[d] /\ request'[d] = request[d] /\ granted'[d] = granted[d]
               /\ waited'[d] = waited[d] /\ value'[d] = value[d] /\ response'[d] = response[d]
    PROVE  CallsOK'
<1>1. ASSUME NEW d \in Calls, d # c  PROVE CallOK(d)'
  BY <1>1, SameCallOK DEF CallsOK
<1>2. QED  BY <1>1 DEF CallsOK

\* A handler that ends, with an answer its caller may have.
LEMMA FinishOK ==
    ASSUME CallsOK, NEW c \in Calls, NEW how \in Responses, NEW v \in Values \cup {NoValue},
           Finish(c, how, v), UNCHANGED request,
           how \in {"hit", "fresh"} => granted[c] /\ v \in Values /\ ForKey(KeyOf(c), v),
           how = "hit" /\ ~v.late => v.age < MaxAge
    PROVE  CallsOK'
<1> USE DEF CallsOK, CallTypes
<1>1. CallTypes'
  BY ToolAssumption DEF Finish, Places
<1>2. /\ pc'[c] = "idle" /\ response'[c] = how /\ value'[c] = v /\ waited'[c] = 0
      /\ granted'[c] = (granted[c] /\ v # NoValue) /\ KeyOf(c)' = KeyOf(c)
  BY DEF Finish, KeyOf
<1>3. CallOK(c)'
  BY <1>2, NoValueIsNone DEF CallOK, Answered, AtRedis
<1>4. \A d \in Calls \ {c} :
         /\ pc'[d] = pc[d] /\ request'[d] = request[d] /\ granted'[d] = granted[d]
         /\ waited'[d] = waited[d] /\ value'[d] = value[d] /\ response'[d] = response[d]
  BY DEF Finish
<1>5. QED  BY <1>1, <1>3, <1>4, OneMovesOK

\* A handler that goes on, to the service, to a lookup or to a write.
LEMMA GotoOK ==
    ASSUME CallsOK, NEW c \in Calls, NEW label \in {"executing", "looking", "storing"},
           Goto(c, label), UNCHANGED request, pc[c] # "idle",
           NEW v \in Values \cup {NoValue}, value' = [value EXCEPT ![c] = v],
           granted' = [granted EXCEPT ![c] = TRUE],
           label = "looking" => v = NoValue,
           label = "storing" =>
               v \in Values /\ v.view = ViewOf(c) /\ v.age = 0 /\ ~v.late
    PROVE  CallsOK'
<1> USE DEF CallsOK, CallTypes
<1>1. CallTypes'
  BY ToolAssumption DEF Goto, Places, AtRedis
<1>2. /\ pc'[c] = label /\ response'[c] = "none" /\ value'[c] = v /\ waited'[c] = 0
      /\ granted'[c] /\ ViewOf(c)' = ViewOf(c)
  BY DEF Goto, ViewOf, CallOK
<1>3. CallOK(c)'
  BY <1>2 DEF CallOK, Answered, AtRedis
<1>4. \A d \in Calls \ {c} :
         /\ pc'[d] = pc[d] /\ request'[d] = request[d] /\ granted'[d] = granted[d]
         /\ waited'[d] = waited[d] /\ value'[d] = value[d] /\ response'[d] = response[d]
  BY DEF Goto
<1>5. QED  BY <1>1, <1>3, <1>4, OneMovesOK

\* Each action keeps what is known of the calls.
LEMMA StepCallsOK ==
    ASSUME IInv, [Next]_vars
    PROVE  CallsOK'
<1>0. RedisOK /\ CallsOK /\ TypeOK  BY Parts DEF IInv
<1> USE DEF CallTypes
<1>1. ASSUME NEW c \in Calls, Begin(c) PROVE CallsOK'
  <2>1. PICK r \in Requests : request' = [request EXCEPT ![c] = r]
    BY <1>1 DEF Begin
  <2>2. /\ pc' = [pc EXCEPT ![c] = pc'[c]] /\ pc'[c] \in {"idle", "authorizing"}
        /\ response' = [response EXCEPT ![c] = response'[c]]
        /\ response'[c] \in {"none", "refused"}
        /\ pc'[c] # "idle" => response'[c] = "none"
    BY <1>0, <1>1 DEF Begin, CallsOK
  <2>3. /\ granted' = [granted EXCEPT ![c] = FALSE] /\ value' = [value EXCEPT ![c] = NoValue]
        /\ UNCHANGED <<retried, waited>>
    BY <1>1 DEF Begin
  <2>4. CallTypes'
    BY <1>0, <2>1, <2>2, <2>3 DEF CallsOK, Places, Responses
  <2>5. waited'[c] = 0  BY <1>0, <1>1, <2>3 DEF Begin, CallsOK, CallOK, AtRedis
  <2>6. CallOK(c)'
    BY <1>0, <2>2, <2>3, <2>5 DEF CallsOK, CallOK, Answered, AtRedis
  <2>7. QED  BY <1>0, <2>1, <2>2, <2>3, <2>4, <2>6, OneMovesOK DEF CallsOK
<1>2. ASSUME NEW c \in Calls, Refuse(c) PROVE CallsOK'
  BY <1>0, <1>2, FinishOK DEF Refuse, Responses, NoValue
<1>3. ASSUME NEW c \in Calls, Grant(c) PROVE CallsOK'
  <2>1. value[c] = NoValue /\ value' = [value EXCEPT ![c] = NoValue]
    BY <1>0, <1>3 DEF Grant, CallsOK, CallOK
  <2>2. PICK label \in {"executing", "looking"} : Goto(c, label)  BY <1>3 DEF Grant
  <2>3. QED  BY <1>0, <1>3, <2>1, <2>2, GotoOK DEF Grant
<1>4. ASSUME NEW c \in Calls, RedisReads(c) PROVE CallsOK'
  <2> DEFINE e == redis[KeyOf(c)]
  <2>1. KeyOf(c) \in Keys  BY <1>0, KeyOfCall
  <2>2. e \in Entry /\ EntryOK(KeyOf(c), e)  BY <1>0, <2>1 DEF RedisOK
  <2>3. /\ pc[c] = "looking" /\ pc' = [pc EXCEPT ![c] = "reading"]
        /\ value' = [value EXCEPT ![c] = e.value]
        /\ UNCHANGED <<request, granted, retried, waited, response>>
    BY <1>4 DEF RedisReads
  <2>4. e.value # NoValue =>
          /\ ForKey(KeyOf(c), e.value)
          /\ ~e.value.late => e.value.age < TTL + RedisTimeout + waited[c]
    <3>1. SUFFICES ASSUME e.value # NoValue
                   PROVE  /\ ForKey(KeyOf(c), e.value)
                          /\ ~e.value.late => e.value.age < TTL + RedisTimeout + waited[c]
      OBVIOUS
    <3>2. e # NoEntry  BY <3>1 DEF NoEntry
    <3>3. waited[c] \in Nat /\ e.ttl \in Nat /\ (e.value \in Values => e.value.age \in Nat)
      BY <1>0, <2>2, ToolAssumption DEF CallsOK, Entry, Values, MaxAge
    <3> HIDE DEF e
    <3>4. QED  BY <2>2, <3>2, <3>3, ToolAssumption DEF EntryOK
  <2>5. e.value \in Values \cup {NoValue}  BY <2>2 DEF Entry
  <2> HIDE DEF e
  <2>6. CallTypes'
    BY <1>0, <2>3, <2>5 DEF CallsOK, Places, AtRedis
  <2>7. KeyOf(c)' = KeyOf(c)  BY <2>3 DEF KeyOf
  <2>8. CallOK(c)'
    BY <1>0, <2>3, <2>4, <2>7 DEF CallsOK, CallOK, Answered, AtRedis
  <2>9. QED  BY <1>0, <2>3, <2>6, <2>8, OneMovesOK DEF CallsOK
<1>5. ASSUME NEW c \in Calls, Hit(c) PROVE CallsOK'
  <2>1. pc[c] = "reading" /\ value[c] # NoValue  BY <1>5 DEF Hit
  <2>2. value[c] \in Values /\ granted[c] /\ ForKey(KeyOf(c), value[c])
    BY <1>0, <2>1 DEF CallsOK, CallOK
  <2>3. ~value[c].late => value[c].age < TTL + RedisTimeout + waited[c]
    BY <1>0, <2>1 DEF CallsOK, CallOK
  <2>4. value[c].age \in Nat /\ waited[c] \in 0..RedisTimeout
    BY <1>0, <2>2, ToolAssumption DEF CallsOK, Values, MaxAge
  <2>5. ~value[c].late => value[c].age < MaxAge
    BY <2>3, <2>4, ToolAssumption DEF MaxAge
  <2>6. Finish(c, "hit", value[c]) /\ UNCHANGED request  BY <1>5 DEF Hit
  <2>7. QED  BY <1>0, <2>2, <2>5, <2>6, FinishOK DEF Responses
<1>6. ASSUME NEW c \in Calls, Miss(c) PROVE CallsOK'
  <2>1. value[c] = NoValue /\ value' = [value EXCEPT ![c] = NoValue]
    BY <1>0, <1>6 DEF Miss, CallsOK
  <2>2. granted' = [granted EXCEPT ![c] = TRUE]
    BY <1>0, <1>6 DEF Miss, CallsOK, CallOK
  <2>3. Goto(c, "executing") /\ pc[c] # "idle" /\ UNCHANGED request  BY <1>6 DEF Miss
  <2>4. QED  BY <1>0, <2>1, <2>2, <2>3, GotoOK
<1>7. ASSUME NEW c \in Calls, LookupFails(c) PROVE CallsOK'
  <2>1. granted' = [granted EXCEPT ![c] = TRUE]
    BY <1>0, <1>7 DEF LookupFails, CallsOK, CallOK
  <2>2. /\ Goto(c, "executing") /\ pc[c] # "idle" /\ UNCHANGED request
        /\ value' = [value EXCEPT ![c] = NoValue]
    BY <1>7 DEF LookupFails
  <2>3. QED  BY <1>0, <2>1, <2>2, GotoOK
<1>8. ASSUME NEW c \in Calls, Execute(c) PROVE CallsOK'
  <2>1. PICK result \in Results(c) :
          IF IsOpen THEN Finish(c, "fresh", result)
          ELSE /\ Goto(c, "storing")
               /\ value' = [value EXCEPT ![c] = result]
               /\ UNCHANGED granted
    BY <1>8 DEF Execute
  <2>2. ViewOf(c) \in Views /\ (\A v : v.view = ViewOf(c) => ForKey(KeyOf(c), v))
    BY <1>0, KeyOfCall
  <2>3. result \in Values /\ result.view = ViewOf(c) /\ result.age = 0 /\ ~result.late
    <3>1. PICK kind \in Kinds :
            result = [kind |-> kind, view |-> ViewOf(c), age |-> 0, late |-> FALSE]
      BY DEF Results
    <3>2. 0 \in 0..MaxAge  BY ToolAssumption DEF MaxAge
    <3>3. result \in Values  BY <2>2, <3>1, <3>2 DEF Values
    <3>4. QED  BY <3>1, <3>3
  <2>4. granted[c] /\ granted = [granted EXCEPT ![c] = TRUE]
    BY <1>0, <1>8 DEF Execute, CallsOK, CallOK
  <2>5. pc[c] # "idle" /\ UNCHANGED request  BY <1>8 DEF Execute
  <2>6. CASE IsOpen
    BY <1>0, <2>1, <2>2, <2>3, <2>4, <2>5, <2>6, FinishOK DEF Responses
  <2>7. CASE ~IsOpen
    <3>1. Goto(c, "storing") /\ value' = [value EXCEPT ![c] = result]
      BY <2>1, <2>7
    <3>2. granted' = [granted EXCEPT ![c] = TRUE]  BY <2>1, <2>4, <2>7
    <3>3. QED  BY <1>0, <2>3, <2>5, <3>1, <3>2, GotoOK
  <2>8. QED  BY <2>6, <2>7
<1>9. ASSUME NEW c \in Calls, ServiceRaises(c) PROVE CallsOK'
  <2>1. CASE Finish(c, "failed", NoValue)
    BY <1>0, <1>9, <2>1, FinishOK DEF ServiceRaises, Responses, NoValue
  <2>2. CASE /\ retried' = [retried EXCEPT ![c] = TRUE]
             /\ UNCHANGED <<pc, granted, waited, value, response>>
    <3>1. UNCHANGED request  BY <1>9 DEF ServiceRaises
    <3>2. CallTypes'  BY <1>0, <2>2, <3>1 DEF CallsOK
    <3>3. QED  BY <1>0, <2>2, <3>1, <3>2, SameCallOK DEF CallsOK
  <2>3. QED  BY <1>9, <2>1, <2>2 DEF ServiceRaises
<1>10. ASSUME NEW c \in Calls, RedisWrites(c) PROVE CallsOK'
  <2>1. /\ pc[c] = "storing" /\ pc' = [pc EXCEPT ![c] = "confirming"]
        /\ UNCHANGED <<request, granted, retried, waited, value, response>>
    BY <1>10 DEF RedisWrites
  <2>2. CallTypes'  BY <1>0, <2>1 DEF CallsOK, Places, AtRedis
  <2>3. ViewOf(c)' = ViewOf(c)  BY <2>1 DEF ViewOf
  <2>4. CallOK(c)'  BY <1>0, <2>1, <2>3 DEF CallsOK, CallOK, Answered, AtRedis
  <2>5. QED  BY <1>0, <2>1, <2>2, <2>4, OneMovesOK DEF CallsOK
<1>11. ASSUME NEW c \in Calls, Store(c) \/ StoreFails(c) PROVE CallsOK'
  <2>1. /\ pc[c] \in {"storing", "confirming"} /\ Finish(c, "fresh", value[c])
        /\ UNCHANGED request
    BY <1>11 DEF Store, StoreFails
  <2>2. granted[c] /\ value[c] \in Values /\ value[c].view = ViewOf(c)
    BY <1>0, <2>1 DEF CallsOK, CallOK
  <2>3. ForKey(KeyOf(c), value[c])  BY <1>0, <2>2, KeyOfCall
  <2>4. QED  BY <1>0, <2>1, <2>2, <2>3, FinishOK DEF Responses
<1>12. ASSUME NEW c \in Calls, Cancel(c) PROVE CallsOK'
  BY <1>0, <1>12, FinishOK DEF Cancel, Responses, NoValue
<1>13. ASSUME UNCHANGED callVars PROVE CallsOK'
  <2>1. CallTypes'  BY <1>0, <1>13 DEF CallsOK, callVars
  <2>2. QED  BY <1>0, <1>13, <2>1, SameCallOK DEF CallsOK, callVars
<1>14. CASE LateWrite  BY <1>13, <1>14 DEF LateWrite
<1>15. ASSUME NEW k \in Keys, Evict(k) PROVE CallsOK'
  BY <1>13, <1>15 DEF Evict
<1>16. CASE Tick
  <2>0. /\ UNCHANGED <<pc, request, granted, retried, response>>
        /\ waited' = [c \in Calls |-> IF pc[c] \in AtRedis THEN waited[c] + 1 ELSE waited[c]]
        /\ value' = [c \in Calls |-> IF pc[c] \in AtRedis THEN Older(value[c]) ELSE value[c]]
        /\ \A c \in Calls : pc[c] \in AtRedis => waited[c] < RedisTimeout
    BY <1>16 DEF Tick
  <2>1. ASSUME NEW c \in Calls
        PROVE  /\ waited'[c] \in 0..RedisTimeout
               /\ value'[c] \in Values \cup {NoValue}
               /\ CallOK(c)'
    <3>0. /\ waited[c] \in 0..RedisTimeout /\ value[c] \in Values \cup {NoValue} /\ CallOK(c)
          /\ pc[c] \in Places
      BY <1>0 DEF CallsOK
    <3>1. CASE pc[c] \notin AtRedis
      <4>1. waited'[c] = waited[c] /\ value'[c] = value[c]  BY <2>0, <3>1
      <4>2. QED  BY <2>0, <3>0, <4>1, SameCallOK
    <3>2. CASE pc[c] \in AtRedis
      <4>1. waited'[c] = waited[c] + 1 /\ value'[c] = Older(value[c]) /\ waited[c] < RedisTimeout
        BY <2>0, <3>2
      <4>2. waited'[c] \in 0..RedisTimeout  BY <3>0, <4>1, ToolAssumption
      <4>3. KeyOf(c)' = KeyOf(c) /\ ViewOf(c)' = ViewOf(c)  BY <2>0 DEF KeyOf, ViewOf
      <4>4. response[c] = "none" /\ granted[c]
        BY <3>0, <3>2 DEF CallOK, AtRedis
      <4>5. CASE value[c] = NoValue
        <5>1. value'[c] = NoValue  BY <4>1, <4>5 DEF Older
        <5>2. pc[c] \in {"looking", "reading"}
          BY <3>0, <3>2, <4>5, NoValueIsNone DEF CallOK, AtRedis
        <5>3. CallOK(c)'
          BY <2>0, <4>4, <5>1, <5>2 DEF CallOK, Answered, AtRedis
        <5>4. QED  BY <4>2, <5>1, <5>3
      <4>6. CASE value[c] # NoValue /\ value[c].late
        <5>1. value'[c] = value[c]  BY <4>1, <4>6 DEF Older
        <5>2. pc[c] = "reading"
          BY <3>0, <3>2, <4>6 DEF CallOK, AtRedis
        <5>3. ForKey(KeyOf(c), value[c])  BY <3>0, <4>6, <5>2 DEF CallOK
        <5>4. CallOK(c)'
          BY <2>0, <4>3, <4>4, <4>6, <5>1, <5>2, <5>3 DEF CallOK, Answered, AtRedis
        <5>5. QED  BY <3>0, <4>2, <5>1, <5>4
      <4>7. CASE value[c] # NoValue /\ ~value[c].late
        <5> DEFINE v == value[c]
                   older == [v EXCEPT !.age = @ + 1]
        <5>1. v \in Values  BY <3>0, <4>7
        <5>2. /\ older.view = v.view /\ older.age = v.age + 1 /\ older.late = v.late
              /\ v.age \in Nat
          BY <5>1, ToolAssumption DEF Values, MaxAge
        <5>3. pc[c] \in {"reading", "storing", "confirming"}
          BY <3>0, <3>2, <4>7 DEF CallOK, AtRedis
        <5>4. /\ pc[c] = "reading" => /\ ForKey(KeyOf(c), v)
                                      /\ v.age < TTL + RedisTimeout + waited[c]
              /\ pc[c] # "reading" => v.view = ViewOf(c) /\ v.age = waited[c]
          BY <3>0, <4>7, <5>3 DEF CallOK
        <5>5. v.age + 1 \in 0..MaxAge
          BY <3>0, <4>1, <5>2, <5>4, ToolAssumption DEF MaxAge
        <5>6. older \in Values
          BY <5>1, <5>5 DEF Values
        <5>7. pc[c] = "reading" => ForKey(KeyOf(c), older)
          BY <5>2, <5>4 DEF ForKey
        <5>8. value'[c] = older  BY <4>1, <4>7 DEF Older
        <5> HIDE DEF older
        <5>9. pc[c] = "reading" => older.age < TTL + RedisTimeout + waited'[c]
          BY <3>0, <4>1, <5>2, <5>4, ToolAssumption
        <5>10. CallOK(c)'
          <6>1. CASE pc[c] = "reading"
            BY <2>0, <4>3, <4>4, <5>7, <5>8, <5>9, <6>1 DEF CallOK, Answered, AtRedis
          <6>2. CASE pc[c] # "reading"
            BY <2>0, <4>1, <4>3, <4>4, <4>7, <5>2, <5>3, <5>4, <5>6, <5>8, <6>2
               DEF CallOK, Answered, AtRedis
          <6>3. QED  BY <6>1, <6>2
        <5>11. QED  BY <4>2, <5>6, <5>8, <5>10
      <4>8. QED  BY <4>5, <4>6, <4>7
    <3>3. QED  BY <3>1, <3>2
  <2>2. CallTypes'  BY <1>0, <2>0, <2>1 DEF CallsOK
  <2>3. QED  BY <2>1, <2>2 DEF CallsOK
<1>17. CASE UNCHANGED vars  BY <1>13, <1>17 DEF vars
<1>18. QED
  BY <1>1, <1>2, <1>3, <1>4, <1>5, <1>6, <1>7, <1>8, <1>9, <1>10, <1>11, <1>12, <1>14,
     <1>15, <1>16, <1>17 DEF Next, Progress, RedisServes, RedisFails

LEMMA StepInv ==
    ASSUME IInv, [Next]_vars
    PROVE  IInv'
<1>1. BreakerTypeOK'  BY BreakerTyped DEF IInv
<1>2. RedisOK' /\ CallsOK'  BY StepRedisOK, StepCallsOK
<1>3. (BreakerTypeOK /\ RedisOK /\ CallsOK => IInv)'
  BY DEF IInv, TypeOK, CacheSound, CallsSound, AnswersMatchKey, FreshEnough, RedisOK, Entry,
         EntryOK, CallsOK, CallTypes, CallOK
<1>4. QED  BY <1>1, <1>2, <1>3

LEMMA Invariant == Spec => []IInv
<1>1. Init => IInv  BY InitInv
<1>2. IInv /\ [Next]_vars => IInv'  BY StepInv
<1>3. QED  BY <1>1, <1>2, PTL DEF Spec

-----------------------------------------------------------------------------
\* The types of the server's state, the breaker's included.
THEOREM TypeCorrect == Spec => []TypeOK
<1>1. IInv => TypeOK  BY DEF IInv
<1>2. QED  BY <1>1, Invariant, PTL

\* The handlers of data_mcp_service.py and its siblings, whatever their keys
\* name: a result, cached or fresh, is only returned to a call that was granted,
\* and was computed for a caller whose cache key is the same.  For
\* get_salesforce_summary that is any caller with the same role.
THEOREM ServedForTheKey == Spec => []AnswersMatchKey
<1>1. IInv => AnswersMatchKey  BY DEF IInv
<1>2. QED  BY <1>1, Invariant, PTL

\* Two callers with the same key see the same, if the keys tell.
LEMMA KeyTellsView ==
    ASSUME KeysTell, TypeOK, NEW c \in Calls, NEW v, ForKey(KeyOf(c), v)
    PROVE  v.view = ViewOf(c)
<1> DEFINE t == request[c].tool
           p == request[c].claims
<1>1. t \in Tools  BY DEF TypeOK, Requests
<1>2. KeyOf(c) = <<t, Part(p, Handlers[t].names)>>  BY DEF KeyOf, CacheKey
<1>3. KeyOf(c)[1] = t  BY <1>2
<1>4. PICK q \in Claims : KeyOf(c) = CacheKey(t, q) /\ v.view = View(t, q)
  BY <1>3 DEF ForKey
<1>5. Part(p, Handlers[t].names) = Part(q, Handlers[t].names)
  BY <1>2, <1>4 DEF CacheKey
<1>6. Handlers[t].sees \subseteq Handlers[t].names  BY <1>1 DEF KeysTell
<1> DEFINE names == Handlers[t].names
           sees == Handlers[t].sees
<1> HIDE DEF names, sees
<1>7. \A a \in names : p[a] = q[a]  BY <1>5 DEF Part, names
<1>8. Part(p, sees) = Part(q, sees)  BY <1>6, <1>7 DEF Part, names, sees
<1>9. QED  BY <1>4, <1>8 DEF ViewOf, View, sees

LEMMA AnswersForCaller == KeysTell /\ IInv => AnswersAreForTheCaller
BY KeyTellsView DEF IInv, AnswersMatchKey, AnswersAreForTheCaller

\* For a server whose keys name all that its results depend on, which is every
\* server but Salesforce's: a result is only returned to a caller that was
\* granted it, and was computed for that caller's own view of the data.
THEOREM ServedToTheRightCaller == KeysTell => (Spec => []AnswersAreForTheCaller)
<1> SUFFICES ASSUME KeysTell  PROVE Spec => []AnswersAreForTheCaller
  OBVIOUS
<1>1. IInv => AnswersAreForTheCaller  BY AnswersForCaller
<1>2. QED  BY <1>1, Invariant, PTL

\* cache.py, set and get: the staleness of what is served is bounded by the ttl
\* and the time-outs of one write and one lookup, for any number of concurrent
\* fillers, but for what a write stored that its call had given up.
THEOREM ServedFresh == Spec => []FreshEnough
<1>1. IInv => FreshEnough  BY DEF IInv
<1>2. QED  BY <1>1, Invariant, PTL

\* cache.py, get and set: while the circuit is open no call starts to wait
\* for Redis.
THEOREM NoNewRedisWaits == Spec => OpenCircuitDrains
<1>1. TypeOK /\ [Next]_vars
        => [IsOpen /\ IsOpen' => WaitingForRedis' \subseteq WaitingForRedis]_vars
  <2> SUFFICES ASSUME TypeOK, Next, IsOpen, NEW d \in Calls, d \in WaitingForRedis'
               PROVE  d \in WaitingForRedis
    BY DEF WaitingForRedis
  <2> USE DEF WaitingForRedis, TypeOK, AtRedis
  <2>1. ASSUME NEW c \in Calls, Begin(c) \/ Progress(c)
        PROVE  d \in WaitingForRedis
    BY <2>1 DEF Begin, Progress, Refuse, Grant, Hit, Miss, Execute,
                ServiceRaises, Store, Finish, Goto
  <2>2. ASSUME NEW c \in Calls, RedisServes(c) \/ RedisFails(c) \/ Cancel(c)
        PROVE  d \in WaitingForRedis
    BY <2>2 DEF RedisServes, RedisFails, RedisReads, RedisWrites, LookupFails, StoreFails, Cancel,
                Finish, Goto
  <2>3. ASSUME UNCHANGED pc PROVE d \in WaitingForRedis
    BY <2>3
  <2>4. QED  BY <2>1, <2>2, <2>3 DEF Next, LateWrite, Evict, Tick, callVars
<1>2. QED  BY <1>1, TypeCorrect, PTL DEF Spec, OpenCircuitDrains

\* The breaker of the cache keeps its contract too, with lookups and writes of
\* concurrent calls recording their outcomes in any order.
THEOREM RefinesBreakerContract == Spec => Contract!Spec
<1>1. Init => Contract!Init
  BY BreakerInitCorrect DEF Init
<1>2. TypeOK /\ [Next]_vars => [Contract!Next]_Regime
  <2> SUFFICES ASSUME TypeOK, [Next]_vars PROVE [Contract!Next]_Regime
    OBVIOUS
  <2>1. CASE BreakerStep  BY <2>1, BreakerStepRefines DEF TypeOK
  <2>2. CASE UNCHANGED breakerVars  BY <2>2 DEF breakerVars, Regime
  <2>3. QED  BY <2>1, <2>2, BreakerUse
<1>3. QED  BY <1>1, <1>2, TypeCorrect, PTL DEF Spec, Contract!Spec

-----------------------------------------------------------------------------
(* The server implements the server without a cache.                       *)

Phases == [c \in Calls |-> Phase(c)]
ViewsOf == [c \in Calls |-> ViewOf(c)]
Answers == [c \in Calls |-> AnswerOf(c)]

\* A step of one call, as the abstract server sees it.
LEMMA OneMoves ==
    ASSUME NEW c \in Calls,
           \A d \in Calls \ {c} :
               /\ Phase(d)' = Phase(d) /\ ViewOf(d)' = ViewOf(d) /\ AnswerOf(d)' = AnswerOf(d)
    PROVE  /\ Phases' = [Phases EXCEPT ![c] = Phase(c)']
           /\ ViewsOf' = [ViewsOf EXCEPT ![c] = ViewOf(c)']
           /\ Answers' = [Answers EXCEPT ![c] = AnswerOf(c)']
<1> DEFINE ph(d) == Phase(d)
           sc(d) == ViewOf(d)
           an(d) == AnswerOf(d)
<1>1. \A d \in Calls \ {c} : ph(d)' = ph(d) /\ sc(d)' = sc(d) /\ an(d)' = an(d)
  OBVIOUS
<1>2. /\ Phases = [d \in Calls |-> ph(d)] /\ ViewsOf = [d \in Calls |-> sc(d)]
      /\ Answers = [d \in Calls |-> an(d)]
  BY DEF Phases, ViewsOf, Answers
<1>3. /\ Phases' = [d \in Calls |-> ph(d)'] /\ ViewsOf' = [d \in Calls |-> sc(d)']
      /\ Answers' = [d \in Calls |-> an(d)']
  BY DEF Phases, ViewsOf, Answers
<1> HIDE DEF ph, sc, an
<1>4. /\ Phases' = [Phases EXCEPT ![c] = ph(c)']
      /\ ViewsOf' = [ViewsOf EXCEPT ![c] = sc(c)']
      /\ Answers' = [Answers EXCEPT ![c] = an(c)']
  BY <1>1, <1>2, <1>3
<1>5. QED  BY <1>4 DEF ph, sc, an

\* What a call that does not move keeps, and a call that moves but stays with
\* the service (a lookup that misses, a first exception of the news search).
LEMMA OthersStay ==
    ASSUME IInv, NEW c \in Calls, CallStep(c), NEW d \in Calls, d # c
    PROVE  Phase(d)' = Phase(d) /\ ViewOf(d)' = ViewOf(d) /\ AnswerOf(d)' = AnswerOf(d)
<1>1. /\ pc'[d] = pc[d] /\ request'[d] = request[d]
      /\ response'[d] = response[d] /\ value'[d] = value[d]
  <2> USE DEF IInv, TypeOK
  <2>1. CASE Begin(c)
    <3>1. PICK r \in Requests : request' = [request EXCEPT ![c] = r]
      BY <2>1 DEF Begin
    <3>2. pc' = [pc EXCEPT ![c] = "authorizing"] \/ pc' = pc  BY <2>1 DEF Begin
    <3>3. \E how \in {"none", "refused"} : response' = [response EXCEPT ![c] = how]
      BY <2>1 DEF Begin
    <3>4. value' = [value EXCEPT ![c] = NoValue]  BY <2>1 DEF Begin
    <3>5. QED  BY <3>1, <3>2, <3>3, <3>4
  <2>2. CASE Refuse(c) \/ Grant(c) \/ Hit(c) \/ Miss(c) \/ LookupFails(c)
    BY <2>2 DEF Refuse, Grant, Hit, Miss, LookupFails, Finish, Goto
  <2>3. CASE Execute(c) \/ ServiceRaises(c)
    BY <2>3 DEF Execute, ServiceRaises, Finish, Goto
  <2>4. CASE Store(c) \/ StoreFails(c) \/ Cancel(c)
    BY <2>4 DEF Store, StoreFails, Cancel, Finish
  <2>5. CASE RedisReads(c) \/ RedisWrites(c)
    BY <2>5 DEF RedisReads, RedisWrites
  <2>6. QED
    BY <2>1, <2>2, <2>3, <2>4, <2>5 DEF CallStep, Progress, RedisServes, RedisFails
<1>2. QED  BY <1>1 DEF Phase, ViewOf, AnswerOf, Answered

AsSeen == <<Phases, ViewsOf, Answers>>

LEMMA NobodyMoves ==
    ASSUME IInv, UNCHANGED <<pc, request, response>>,
           \A c \in Calls : pc[c] \notin AtRedis => value'[c] = value[c]
    PROVE  UNCHANGED AsSeen
<1>1. \A c \in Calls : Phase(c)' = Phase(c)  BY DEF Phase
<1>2. \A c \in Calls : ViewOf(c)' = ViewOf(c)  BY DEF ViewOf
<1>3. ASSUME NEW c \in Calls  PROVE AnswerOf(c)' = AnswerOf(c)
  <2>1. CASE pc[c] \in AtRedis
    BY <2>1 DEF IInv, CallsSound, AnswerOf, Answered, AtRedis
  <2>2. CASE pc[c] \notin AtRedis  BY <2>2 DEF AnswerOf, Answered
  <2>3. QED  BY <2>1, <2>2
<1> DEFINE ph(d) == Phase(d)
           sc(d) == ViewOf(d)
           an(d) == AnswerOf(d)
<1>4. \A d \in Calls : ph(d)' = ph(d) /\ sc(d)' = sc(d) /\ an(d)' = an(d)
  BY <1>1, <1>2, <1>3
<1>5. /\ Phases = [d \in Calls |-> ph(d)] /\ ViewsOf = [d \in Calls |-> sc(d)]
      /\ Answers = [d \in Calls |-> an(d)]
      /\ Phases' = [d \in Calls |-> ph(d)'] /\ ViewsOf' = [d \in Calls |-> sc(d)']
      /\ Answers' = [d \in Calls |-> an(d)']
  BY DEF Phases, ViewsOf, Answers
<1> HIDE DEF ph, sc, an
<1>6. QED  BY <1>4, <1>5 DEF AsSeen

\* What a call does, as the abstract server sees it.
CallSeen(c) ==
    \/ Uncached!Ask(c) \/ Uncached!Refuse(c) \/ Uncached!Grant(c)
    \/ Uncached!Answer(c) \/ Uncached!Fail(c) \/ Uncached!GiveUp(c)

\* Its moves, one by one.
Moves(c, place, sees, gets) ==
    /\ Phases' = [Phases EXCEPT ![c] = place]
    /\ ViewsOf' = [ViewsOf EXCEPT ![c] = sees]
    /\ Answers' = [Answers EXCEPT ![c] = gets]

Gets(a) == [how |-> a]
GetsData(v) == [how |-> "data", view |-> v]

LEMMA MoveSeen ==
    ASSUME NEW c \in Calls, NEW v
    PROVE  /\ Phase(c) = "idle" /\ v \in Views
                /\ (Moves(c, "asking", v, Gets("none")) \/ Moves(c, "idle", v, Gets("refused")))
              => Uncached!Ask(c)
           /\ Phase(c) = "asking" /\ Moves(c, "idle", ViewOf(c), Gets("refused"))
              => Uncached!Refuse(c)
           /\ Phase(c) = "asking" /\ Moves(c, "working", ViewOf(c), AnswerOf(c))
              => Uncached!Grant(c)
           /\ Phase(c) = "working" /\ Moves(c, "idle", ViewOf(c), GetsData(ViewOf(c)))
              => Uncached!Answer(c)
           /\ Phase(c) = "working" /\ Moves(c, "idle", ViewOf(c), Gets("failed"))
              => Uncached!Fail(c)
           /\ Phase(c) # "idle" /\ Moves(c, "idle", ViewOf(c), Gets("none"))
              => Uncached!GiveUp(c)
<1>1. /\ Phases[c] = Phase(c) /\ ViewsOf[c] = ViewOf(c) /\ Answers[c] = AnswerOf(c)
      /\ [Phases EXCEPT ![c] = Phase(c)] = Phases
      /\ [ViewsOf EXCEPT ![c] = ViewOf(c)] = ViewsOf
      /\ [Answers EXCEPT ![c] = AnswerOf(c)] = Answers
  BY DEF Phases, ViewsOf, Answers
<1> USE DEF Moves, Gets, GetsData, Uncached!Become, Uncached!Give, Uncached!NoAnswer,
            Uncached!Refused, Uncached!Failed, Uncached!Data
<1>3. ASSUME Phase(c) = "idle", v \in Views,
             Moves(c, "asking", v, Gets("none")) \/ Moves(c, "idle", v, Gets("refused"))
      PROVE  Uncached!Ask(c)
  BY <1>1, <1>3 DEF Uncached!Ask, Phases, ViewsOf, Answers
<1>4. ASSUME Phase(c) = "asking", Moves(c, "idle", ViewOf(c), Gets("refused"))
      PROVE  Uncached!Refuse(c)
  BY <1>1, <1>4 DEF Uncached!Refuse, Phases, ViewsOf, Answers
<1>5. ASSUME Phase(c) = "asking", Moves(c, "working", ViewOf(c), AnswerOf(c))
      PROVE  Uncached!Grant(c)
  BY <1>1, <1>5 DEF Uncached!Grant, Phases, ViewsOf, Answers
<1>6. ASSUME Phase(c) = "working", Moves(c, "idle", ViewOf(c), GetsData(ViewOf(c)))
      PROVE  Uncached!Answer(c)
  BY <1>1, <1>6 DEF Uncached!Answer, Phases, ViewsOf, Answers
<1>7. ASSUME Phase(c) = "working", Moves(c, "idle", ViewOf(c), Gets("failed"))
      PROVE  Uncached!Fail(c)
  BY <1>1, <1>7 DEF Uncached!Fail, Phases, ViewsOf, Answers
<1>8. ASSUME Phase(c) # "idle", Moves(c, "idle", ViewOf(c), Gets("none"))
      PROVE  Uncached!GiveUp(c)
  BY <1>1, <1>8 DEF Uncached!GiveUp, Phases, ViewsOf, Answers
<1>9. QED  BY <1>3, <1>4, <1>5, <1>6, <1>7, <1>8

LEMMA CallStepSeen ==
    ASSUME KeysTell, IInv, IInv', NEW c \in Calls, CallStep(c)
    PROVE  CallSeen(c) \/ UNCHANGED AsSeen
<1>0. Moves(c, Phase(c)', ViewOf(c)', AnswerOf(c)')
  BY OthersStay, OneMoves DEF Moves
<1>1. Phases[c] = Phase(c) /\ ViewsOf[c] = ViewOf(c) /\ Answers[c] = AnswerOf(c)
  BY DEF Phases, ViewsOf, Answers
<1>2. ASSUME Phase(c)' = Phase(c), ViewOf(c)' = ViewOf(c), AnswerOf(c)' = AnswerOf(c)
      PROVE  UNCHANGED AsSeen
  BY <1>0, <1>1, <1>2 DEF Moves, AsSeen, Phases, ViewsOf, Answers
<1>3. CASE Begin(c)
  <2>1. Phase(c) = "idle"  BY <1>3 DEF Begin, Phase
  <2>2. ViewOf(c)' \in Views
    <3>1. (TypeOK => ViewOf(c) \in Views)'  BY DEF TypeOK, Requests, ViewOf, Views
    <3>2. QED  BY <3>1 DEF IInv
  <2>3. \/ Phase(c)' = "asking" /\ AnswerOf(c)' = Gets("none")
        \/ Phase(c)' = "idle" /\ AnswerOf(c)' = Gets("refused")
    BY <1>3 DEF IInv, TypeOK, Begin, Phase, AnswerOf, Answered, Gets
  <2>4. QED  BY <1>0, <2>1, <2>2, <2>3, MoveSeen DEF CallSeen
<1>4. ASSUME ~Begin(c)
      PROVE  Moves(c, Phase(c)', ViewOf(c), AnswerOf(c)') /\ ViewOf(c)' = ViewOf(c)
  <2>1. request' = request
    BY <1>4 DEF CallStep, Progress, RedisServes, RedisFails, Refuse, Grant, RedisReads, Hit, Miss,
                LookupFails, Execute, ServiceRaises, RedisWrites, Store, StoreFails, Cancel
  <2>2. ViewOf(c)' = ViewOf(c)  BY <2>1 DEF ViewOf
  <2>3. QED  BY <1>0, <2>2
<1>5. pc[c] # "idle" => ~Begin(c)  BY DEF Begin
<1>6. CASE Refuse(c)
  <2>1. pc[c] = "authorizing" /\ pc'[c] = "idle" /\ response'[c] = "refused"
    BY <1>6 DEF IInv, TypeOK, Refuse, Finish
  <2>2. Phase(c) = "asking" /\ Phase(c)' = "idle" /\ AnswerOf(c)' = Gets("refused")
    BY <2>1 DEF Phase, AnswerOf, Answered, Gets
  <2>3. QED  BY <1>4, <1>5, <2>1, <2>2, MoveSeen DEF CallSeen
<1>7. CASE Grant(c)
  <2>1. /\ pc[c] = "authorizing" /\ pc'[c] \in {"executing", "looking"}
        /\ response'[c] = response[c] /\ value'[c] = value[c]
    BY <1>7 DEF IInv, TypeOK, Grant, Goto
  <2>2. Phase(c) = "asking" /\ Phase(c)' = "working" /\ AnswerOf(c)' = AnswerOf(c)
    BY <2>1 DEF Phase, AnswerOf, Answered
  <2>3. QED  BY <1>4, <1>5, <2>1, <2>2, MoveSeen DEF CallSeen
<1>8. CASE Cancel(c)
  <2>1. pc[c] # "idle" /\ pc'[c] = "idle" /\ response'[c] = "none"
    BY <1>8 DEF IInv, TypeOK, Cancel, Finish
  <2>2. Phase(c) # "idle" /\ Phase(c)' = "idle" /\ AnswerOf(c)' = Gets("none")
    BY <2>1 DEF Phase, AnswerOf, Answered, Gets
  <2>3. QED  BY <1>4, <1>5, <2>1, <2>2, MoveSeen DEF CallSeen
\* A result, cached or fresh: the invariant knows whose it is.
<1>9. ASSUME Phase(c) = "working", pc'[c] = "idle", Answered(c)'
      PROVE  CallSeen(c)
  <2>1. AnswersAreForTheCaller'
    <3>1. (KeysTell /\ IInv => AnswersAreForTheCaller)'  BY AnswersForCaller, PTL
    <3>2. QED  BY <3>1 DEF KeysTell
  <2>2. pc[c] # "idle"  BY <1>9 DEF Phase
  <2>3. value'[c].view = ViewOf(c)
    BY <1>4, <1>5, <1>9, <2>1, <2>2 DEF AnswersAreForTheCaller
  <2>4. Phase(c)' = "idle" /\ AnswerOf(c)' = GetsData(ViewOf(c))
    BY <1>9, <2>3 DEF Phase, AnswerOf, Answered, GetsData
  <2>5. QED  BY <1>4, <1>5, <1>9, <2>2, <2>4, MoveSeen DEF CallSeen
\* The call goes on.
<1>10. ASSUME Phase(c) = "working", Phase(c)' = "working", response'[c] = response[c]
       PROVE  UNCHANGED AsSeen
  <2>1. pc[c] # "idle"  BY <1>10 DEF Phase
  <2>2. ~Answered(c) /\ ~Answered(c)' /\ AnswerOf(c)' = AnswerOf(c)
    BY <1>10, <2>1 DEF IInv, CallsSound, Answered, AnswerOf
  <2>3. QED  BY <1>2, <1>4, <1>5, <1>10, <2>1, <2>2
<1>11. CASE Hit(c) \/ Store(c) \/ StoreFails(c)
  <2>1. Phase(c) = "working" /\ pc'[c] = "idle" /\ Answered(c)'
    BY <1>11 DEF IInv, TypeOK, Hit, Store, StoreFails, Finish, Phase, Answered
  <2>2. QED  BY <1>9, <2>1
<1>12. CASE Miss(c) \/ LookupFails(c)
  <2>1. Phase(c) = "working" /\ Phase(c)' = "working" /\ response'[c] = response[c]
    BY <1>12 DEF IInv, TypeOK, Miss, LookupFails, Goto, Phase
  <2>2. QED  BY <1>10, <2>1
<1>13. CASE RedisReads(c) \/ RedisWrites(c)
  <2>1. Phase(c) = "working" /\ Phase(c)' = "working" /\ response'[c] = response[c]
    BY <1>13 DEF IInv, TypeOK, RedisReads, RedisWrites, Phase
  <2>2. QED  BY <1>10, <2>1
<1>14. CASE Execute(c)
  <2>1. Phase(c) = "working"  BY <1>14 DEF Execute, Phase
  <2>2. \/ pc'[c] = "idle" /\ Answered(c)'
        \/ Phase(c)' = "working" /\ response'[c] = response[c]
    BY <1>14 DEF IInv, TypeOK, Execute, Finish, Goto, Answered, Phase
  <2>3. QED  BY <1>9, <1>10, <2>1, <2>2
<1>15. CASE ServiceRaises(c)
  <2>1. Phase(c) = "working" /\ pc[c] # "idle"  BY <1>15 DEF ServiceRaises, Phase
  <2>2. \/ pc'[c] = "idle" /\ response'[c] = "failed"
        \/ pc'[c] = pc[c] /\ response'[c] = response[c]
    BY <1>15 DEF IInv, TypeOK, ServiceRaises, Finish
  <2>3. CASE pc'[c] = "idle" /\ response'[c] = "failed"
    <3>1. Phase(c)' = "idle" /\ AnswerOf(c)' = Gets("failed")
      BY <2>3 DEF Phase, AnswerOf, Answered, Gets
    <3>2. QED  BY <1>4, <1>5, <2>1, <3>1, MoveSeen DEF CallSeen
  <2>4. CASE pc'[c] = pc[c] /\ response'[c] = response[c]
    BY <1>10, <2>1, <2>4 DEF Phase
  <2>5. QED  BY <2>2, <2>3, <2>4
<1>16. QED
  BY <1>3, <1>6, <1>7, <1>8, <1>11, <1>12, <1>13, <1>14, <1>15
     DEF CallStep, Progress, RedisServes, RedisFails

\* The handlers with cache.py, for a server whose keys name all that its results
\* depend on: whichever calls fill the cache, whenever Redis fails and whoever
\* gives up, every call is answered as by a server without a cache that serves
\* it alone.
THEOREM ImplementsUncached == KeysTell => (Spec => KeepsToolContract)
<1> SUFFICES ASSUME KeysTell  PROVE Spec => KeepsToolContract
  OBVIOUS
<1> USE DEF AsSeen, Phases, ViewsOf, Answers
<1>1. Init => Uncached!Init
  <2> SUFFICES ASSUME Init  PROVE Uncached!Init
    OBVIOUS
  <2>1. IInv  BY InitInv
  <2>2. ASSUME NEW c \in Calls
        PROVE  /\ Phase(c) = "idle" /\ AnswerOf(c) = Gets("none")
               /\ ViewOf(c) \in Views
    BY <2>1, KeyOfCall DEF Init, IInv, Phase, AnswerOf, Answered, Gets
  <2>3. QED  BY <2>2 DEF Uncached!Init, Uncached!NoAnswer, Gets
<1>2. IInv /\ IInv' /\ [Next]_vars => [Uncached!Next]_(Uncached!vars)
  <2> SUFFICES ASSUME IInv, IInv', [Next]_vars
               PROVE  Uncached!Next \/ UNCHANGED AsSeen
    BY DEF Uncached!vars
  <2>1. ASSUME NEW c \in Calls, CallStep(c)
        PROVE  Uncached!Next \/ UNCHANGED AsSeen
    BY <2>1, CallStepSeen DEF CallSeen, Uncached!Next
  <2>2. ASSUME UNCHANGED <<pc, request, response>>,
               \A c \in Calls : pc[c] \notin AtRedis => value'[c] = value[c]
        PROVE  UNCHANGED AsSeen
    BY <2>2, NobodyMoves
  <2>3. CASE LateWrite  BY <2>2, <2>3 DEF LateWrite, callVars
  <2>4. ASSUME NEW k \in Keys, Evict(k)  PROVE UNCHANGED AsSeen
    BY <2>2, <2>4 DEF Evict, callVars
  <2>5. CASE Tick  BY <2>2, <2>5 DEF Tick
  <2>6. CASE UNCHANGED vars  BY <2>2, <2>6 DEF vars, callVars
  <2>7. QED  BY <2>1, <2>3, <2>4, <2>5, <2>6 DEF Next, CallStep
<1>3. QED  BY <1>1, <1>2, Invariant, PTL DEF Spec, KeepsToolContract, Uncached!Spec

-----------------------------------------------------------------------------
(* No call goes round in circles.                                          *)

\* The steps that a call has left, what Redis does for it included: the second
\* try of the news search is the one step that stays where it is.
StepsLeft(c) ==
    CASE pc[c] = "authorizing" -> 7
      [] pc[c] = "looking" -> 6
      [] pc[c] = "reading" -> 5
      [] pc[c] = "executing" -> IF retried[c] THEN 3 ELSE 4
      [] pc[c] = "storing" -> 2
      [] pc[c] = "confirming" -> 1
      [] OTHER -> 0

\* The handlers of data_mcp_service.py and its siblings: a call comes back
\* after at most seven steps, Redis's part in it included; nothing that the
\* clock, other calls or the writes they left do sends it back.
THEOREM CallsAreBounded ==
    Spec => [][\A c \in Calls : pc[c] # "idle" =>
                   /\ StepsLeft(c)' <= StepsLeft(c)
                   /\ CallStep(c) => StepsLeft(c)' < StepsLeft(c)]_vars
<1>1. ASSUME TypeOK, Next, NEW c \in Calls, pc[c] # "idle"
      PROVE  /\ StepsLeft(c)' <= StepsLeft(c)
             /\ CallStep(c) => StepsLeft(c)' < StepsLeft(c)
  <2>1. StepsLeft(c) \in 0..7 /\ StepsLeft(c)' \in 0..7  BY DEF StepsLeft
  <2>2. ASSUME pc'[c] = pc[c], retried'[c] = retried[c]  PROVE StepsLeft(c)' = StepsLeft(c)
    BY <2>2 DEF StepsLeft
  <2> USE <1>1 DEF TypeOK
  <2>3. ASSUME CallStep(c)  PROVE StepsLeft(c)' < StepsLeft(c)
    <3>0. pc[c] \in Places  OBVIOUS
    <3>1. CASE Refuse(c) \/ Hit(c) \/ Store(c) \/ StoreFails(c) \/ Cancel(c)
      <4>1. pc'[c] = "idle"  BY <3>1 DEF Refuse, Hit, Store, StoreFails, Cancel, Finish
      <4>2. StepsLeft(c)' = 0  BY <4>1 DEF StepsLeft
      <4>3. StepsLeft(c) > 0  BY <1>1, <3>0 DEF StepsLeft, Places, AtRedis
      <4>4. QED  BY <4>2, <4>3
    <3>2. CASE Grant(c) \/ Miss(c) \/ LookupFails(c)
      <4>1. \/ pc[c] = "authorizing" /\ pc'[c] \in {"looking", "executing"}
            \/ pc[c] \in {"looking", "reading"} /\ pc'[c] = "executing"
        BY <3>2 DEF Grant, Miss, LookupFails, Goto
      <4>2. QED  BY <4>1 DEF StepsLeft
    <3>3. CASE Execute(c)
      <4>1. pc[c] = "executing" /\ pc'[c] \in {"idle", "storing"}
        BY <3>3 DEF Execute, Finish, Goto
      <4>2. QED  BY <4>1 DEF StepsLeft
    <3>4. CASE ServiceRaises(c)
      <4>1. /\ pc[c] = "executing"
            /\ \/ pc'[c] = "idle"
               \/ ~retried[c] /\ retried'[c] /\ pc'[c] = "executing"
        BY <3>4 DEF ServiceRaises, Finish
      <4>2. QED  BY <4>1 DEF StepsLeft
    <3>5. CASE RedisReads(c) \/ RedisWrites(c)
      <4>1. \/ pc[c] = "looking" /\ pc'[c] = "reading"
            \/ pc[c] = "storing" /\ pc'[c] = "confirming"
        BY <3>5 DEF RedisReads, RedisWrites
      <4>2. QED  BY <4>1 DEF StepsLeft
    <3>6. ~Begin(c)  BY <1>1 DEF Begin
    <3>7. QED
      BY <2>3, <3>1, <3>2, <3>3, <3>4, <3>5, <3>6 DEF CallStep, Progress, RedisServes, RedisFails
  <2>4. ASSUME NEW d \in Calls, d # c, CallStep(d)
        PROVE  pc'[c] = pc[c] /\ retried'[c] = retried[c]
    <3>1. CASE Begin(d)  BY <2>4, <3>1 DEF Begin
    <3>2. CASE Refuse(d) \/ Grant(d) \/ Hit(d) \/ Miss(d) \/ LookupFails(d)
      BY <2>4, <3>2 DEF Refuse, Grant, Hit, Miss, LookupFails, Finish, Goto
    <3>3. CASE Execute(d) \/ ServiceRaises(d)
      BY <2>4, <3>3 DEF Execute, ServiceRaises, Finish, Goto
    <3>4. CASE Store(d) \/ StoreFails(d) \/ Cancel(d)
      BY <2>4, <3>4 DEF Store, StoreFails, Cancel, Finish
    <3>5. CASE RedisReads(d) \/ RedisWrites(d)
      BY <2>4, <3>5 DEF RedisReads, RedisWrites
    <3>6. QED
      BY <2>4, <3>1, <3>2, <3>3, <3>4, <3>5 DEF CallStep, Progress, RedisServes, RedisFails
  <2>5. CASE LateWrite \/ (\E k \in Keys : Evict(k)) \/ Tick
    <3>1. UNCHANGED <<pc, retried>>  BY <2>5 DEF LateWrite, Evict, Tick, callVars
    <3>2. QED  BY <2>1, <2>2, <2>3, <3>1
  <2>6. CASE \E d \in Calls : CallStep(d)
    BY <2>1, <2>2, <2>3, <2>4, <2>6
  <2>7. QED  BY <1>1, <2>5, <2>6 DEF Next, CallStep
<1>2. TypeOK /\ [Next]_vars
        => [\A c \in Calls : pc[c] # "idle" =>
               /\ StepsLeft(c)' <= StepsLeft(c)
               /\ CallStep(c) => StepsLeft(c)' < StepsLeft(c)]_vars
  BY <1>1
<1>3. QED  BY <1>2, TypeCorrect, PTL DEF Spec
=============================================================================
