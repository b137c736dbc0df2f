---------------------------- MODULE Summaries ------------------------------
(***************************************************************************)
(* A call of get_payment_summary ("client"), get_bank_payment_summary      *)
(* ("bank"), get_salesforce_summary ("crm"), execute_read_query ("query"), *)
(* get_schema_context ("schema") or search_company_news ("news", which     *)
(* needs no database): the caller's identity is verified, the policy is    *)
(* asked, and the queries run one after the other, those of a summary in a *)
(* transaction, while other applications commit changes to the database.   *)
(* What the server keeps around the call, the breaker, the cache and the   *)
(* timeouts, is module ToolServer; only the cache of the CRM tool is here  *)
(* too, because its keys do not tell all that an answer depends on.  The   *)
(* calls share the database and that cache only, so one at a time is       *)
(* enough; of the cache one entry is followed, which Redis may drop at any *)
(* time, and it is followed from one call of the CRM tool to the next (a   *)
(* bound: calls of other tools neither read it nor write it).              *)
(***************************************************************************)
EXTENDS AgentContext, DataQueries, CrmQueries, NewsQueries

CONSTANTS
    Identities,     \* claims an agent may sign
    Users,          \* user roles of the callers
    InitialDatabases,
    MaxCommits,     \* bound: commits of other applications
    NoSnapshot, NoEntry

VARIABLES
    db,             \* the committed state of the database
    commits,        \* how many commits there were
    generation,     \* of the server's signing secret
    kept,           \* the entry of the CRM tool's cache, or NoEntry
    pc,             \* of the call
    tool, search,   \* what it asks for
    header,         \* X-Agent-Context of its connection
    userRole,       \* of the verified auth_context argument
    context,        \* the AgentContext the server goes by
    snapshot,       \* what its transaction reads, or NoSnapshot
    rows,           \* the results of its queries so far
    answer,
    hit,            \* the answer is out of the cache
    lived,          \* history: the databases committed while it ran
    entitled        \* history: the claims for which the answer was computed

callVars == <<pc, tool, search, header, userRole, context, snapshot, rows, answer, hit, lived,
              entitled>>
vars == <<db, commits, generation, kept, callVars>>

SummaryTools == {"client", "bank", "crm"}
OtherTools == {"query", "schema", "news"}
Queries == [client |-> 8, bank |-> 9, crm |-> 7]

Databases ==
    [ status : [Payments -> Statuses \cup {"absent"}], parties : SUBSET Names,
      banks : SUBSET Names, accounts : SUBSET AccountNames,
      record : [CrmRecords -> {"absent", "open", "closed"}],
      columns : SUBSET Columns, values : [Columns -> SUBSET Values] ]

ASSUME SummaryAssumption ==
    /\ InitialDatabases \subseteq Databases
    /\ NoSnapshot \notin Databases
    /\ Identities \subseteq Claims(AccountNames)
    /\ Users \subseteq UserRoles
    /\ MaxCommits \in Nat

Headers ==
    {NoHeader} \cup {Header(claims, g) : claims \in Identities, g \in {0, 1}}

Places == {"idle", "authorizing", "opening", "reading", "answered"}

Refused(reason) == [kind |-> reason]
Unfinished == Refused("unfinished")

-----------------------------------------------------------------------------
(* What the queries return, and what the service makes of it.              *)

ClientRow(view, name, i) ==
    CASE i = 2 -> Outbound(view, name)
      [] i = 3 -> Inbound(view, name)
      [] i = 4 -> PriorOutbound(view, name)
      [] i = 5 -> Counterparties(view, name)
      [] i = 6 -> StatusMix(view, name)
      [] i = 7 -> PayorBanks(view, name)
      [] i = 8 -> PartyProfile(view, name)

BankRow(view, name, i) ==
    CASE i = 2 -> BankProfile(view, name)
      [] i = 3 -> Originating(view, name)
      [] i = 4 -> Beneficiary(view, name)
      [] i = 5 -> PriorOriginating(view, name)
      [] i = 6 -> BankStatusMix(view, name)
      [] i = 7 -> TopOriginators(view, name)
      [] i = 8 -> TopBeneficiaries(view, name)
      [] i = 9 -> CounterpartyBanks(view, name)

CrmRow(view, account, i) ==
    CASE i = 2 -> KeyContacts(view, account)
      [] i = 3 -> RecentActivities(view, account)
      [] i = 4 -> OpenOpportunities(view, account)
      [] i = 5 -> OpenTasks(view, account)
      [] i = 6 -> OpenCases(view, account)
      [] i = 7 -> ActiveContracts(view, account)

\* The look-up of the name, which the queries after it use.
LookUps(t, s, view) ==
    CASE t = "client" -> Clients(view, s)
      [] t = "bank" -> Banks(view, s)
      [] t = "crm" -> {Account(view, s)}

Row(t, view, name, i) ==
    CASE t = "client" -> ClientRow(view, name, i)
      [] t = "bank" -> BankRow(view, name, i)
      [] t = "crm" -> CrmRow(view, name, i)

\* The two volume queries, after which a summary without payments ends.
Volumes == [client |-> <<2, 3>>, bank |-> <<3, 4>>]

NoVolume(t, rs) ==
    /\ t \in DOMAIN Volumes
    /\ Len(rs) >= Volumes[t][2]
    /\ rs[Volumes[t][1]] = {} /\ rs[Volumes[t][2]] = {}

\* The answer that the rows so far lead to.
SummaryOutcome(t, s, ctx, rs) ==
    IF ~rs[1].found THEN Refused("not_found")
    ELSE IF t = "crm" /\ ~MayAccess(ctx, rs[1].name) THEN Refused("access_denied")
    ELSE IF NoVolume(t, rs) THEN Refused("no_data")
    ELSE IF Len(rs) < Queries[t] THEN Unfinished
    ELSE CASE t = "client" -> ClientAnswer(s, rs, ColMask(ctx))
           [] t = "bank" -> BankAnswer(s, rs)
           [] t = "crm" -> CrmAnswer(rs, MaySeePii(ctx))

Outcome(t, s, ctx, rs) ==
    CASE t \in SummaryTools -> SummaryOutcome(t, s, ctx, rs)
      [] t = "query" -> [kind |-> "query", rows |-> rs[1]]
      [] t = "news" -> NewsAnswer(rs[1])
      [] t = "schema" -> IF Probed(rs) THEN SchemaAnswer(rs) ELSE Unfinished

\* What the query after those of rs may return.
NextRows(t, s, view, rs) ==
    CASE t \in SummaryTools ->
            IF rs = <<>> THEN LookUps(t, s, view)
            ELSE {Row(t, view, rs[1].name, Len(rs) + 1)}
      [] t = "query" -> IF Bound(s) THEN {QueryResult(view, s)} ELSE {}
      [] t = "news" -> TavilyArticles \cup {CuratedArticles(s)}
      [] t = "schema" -> SchemaRows(view, rs)

\* tool_auth.rego, whose other inputs are the server's own: the catalogue is
\* for agents, whoever their user is.
Permitted(t, s, role) ==
    CASE t \in SummaryTools \cup {"news"} -> role # ""
      [] t = "query" -> role # "" /\ ValidSession(s)
      [] t = "schema" -> TRUE

\* What is asked for; the catalogue is asked for nothing.
Asked(t) ==
    CASE t \in SummaryTools -> Searches
      [] t = "query" -> Statements
      [] t = "news" -> Companies
      [] t = "schema" -> {"none"}

\* Mutant: the key is the client's name alone.
CrmKeyNameOnly(s, ctx) == <<s, "any">>

\* make_cache_key of get_salesforce_summary.
CrmKey(s, ctx) == <<s, ctx.role>>

-----------------------------------------------------------------------------
Init ==
    /\ db \in InitialDatabases
    /\ commits = 0
    /\ generation \in {0, 1}
    /\ kept = NoEntry
    /\ pc = "idle"
    /\ tool = "schema" /\ search = "none"
    /\ header = NoHeader
    /\ userRole = "" /\ context = Anonymous
    /\ snapshot = NoSnapshot
    /\ rows = <<>>
    /\ answer = Unfinished /\ hit = FALSE
    /\ lived = {} /\ entitled = Anonymous

\* A call comes in over a connection with some header; its auth_context
\* argument was verified to be of some user, or of nobody.
Begin ==
    /\ pc = "idle"
    /\ pc' = "authorizing"
    /\ tool' \in SummaryTools \cup OtherTools
    /\ search' \in Asked(tool')
    /\ header' \in Headers
    /\ userRole' \in Users
    /\ lived' = {db}
    /\ kept' = IF tool' = "crm" THEN kept ELSE NoEntry \* bound: see above
    /\ UNCHANGED <<db, commits, generation, context, snapshot, rows, answer, hit, entitled>>

Answer(a) ==
    /\ pc' = "answered"
    /\ answer' = a
    /\ UNCHANGED <<db, commits, generation, tool, search, header, userRole, lived>>

\* authorize, and then the context that the middleware made of the header.
Authorize ==
    /\ pc = "authorizing"
    /\ context' = ContextOf(header, generation)
    /\ entitled' = context'
    /\ \/ /\ Permitted(tool, search, userRole)
          /\ pc' = "opening"
          /\ UNCHANGED <<db, commits, generation, tool, search, header, userRole, answer, lived>>
       \/ /\ ~Permitted(tool, search, userRole)
          /\ Answer(Refused("unauthorized"))
    /\ UNCHANGED <<kept, snapshot, rows, hit>>

\* The CRM tool finds an answer under its key.  It may also miss what is there:
\* Redis fails, or its circuit is open.
Hit ==
    /\ pc = "opening" /\ tool = "crm"
    /\ kept # NoEntry /\ kept.key = CrmKey(search, context)
    /\ Answer(kept.answer)
    /\ hit' = TRUE /\ entitled' = kept.claims
    /\ UNCHANGED <<kept, context, snapshot, rows>>

\* cache.set, which may fail: whatever the service returned, for its caller.
Keep(a) ==
    IF tool = "crm"
    THEN kept' \in {kept, [key |-> CrmKey(search, context), claims |-> context, answer |-> a]}
    ELSE UNCHANGED kept

\* The entry expires, or Redis drops it.
Expire ==
    /\ kept # NoEntry
    /\ kept' = NoEntry
    /\ UNCHANGED <<db, commits, generation, callVars>>

\* The service turns down what is not one SELECT.
Reject ==
    /\ pc = "opening"
    /\ tool = "query" /\ ~SingleSelect(search)
    /\ Answer(Refused("rejected"))
    /\ UNCHANGED <<kept, context, snapshot, rows, hit, entitled>>

\* pool.acquire, and for a summary BEGIN ISOLATION LEVEL REPEATABLE READ.
Open ==
    /\ pc = "opening"
    /\ tool = "query" => SingleSelect(search)
    /\ pc' = "reading"
    /\ UNCHANGED <<db, commits, generation, kept, tool, search, header, userRole, context,
                   snapshot, rows, answer, hit, lived, entitled>>

\* Mutant: READ COMMITTED, each query reads the database of its moment.
ViewCommitted == db

\* The first query fixes what the transaction sees; the catalogue is read
\* without one.
View == IF tool = "schema" \/ snapshot = NoSnapshot THEN db ELSE snapshot

\* One query, and the answer when it is the last one or ends the call early.
Fetch ==
    /\ pc = "reading"
    /\ snapshot' = IF tool = "schema" THEN NoSnapshot ELSE View
    /\ \E row \in NextRows(tool, search, View, rows) : rows' = Append(rows, row)
    /\ LET a == Outcome(tool, search, context, rows') IN
          \/ /\ a = Unfinished
             /\ UNCHANGED <<db, commits, generation, kept, pc, tool, search, header, userRole,
                            answer, lived>>
          \/ /\ a # Unfinished
             /\ Answer(a)
             /\ Keep(a)
    /\ UNCHANGED <<context, hit, entitled>>

\* How a call whose query raises ends.  The payments tools and the catalogue
\* catch every exception, two others PostgreSQL's only; the news are searched
\* a second time.
Failures(t) ==
    CASE t \in {"client", "bank"} -> {"service_error"}
      [] t = "schema" -> {"introspection_failed"}
      [] t \in {"crm", "query"} -> {"database_error", "tool_error"}
      [] t = "news" -> {"tool_error"}

\* The pool or a query raises, but for a probe of the catalogue.
DbFails ==
    /\ \/ pc = "opening" /\ (tool = "query" => SingleSelect(search))
       \/ pc = "reading" /\ (tool = "schema" => Len(rows) < 4)
    /\ \E reason \in Failures(tool) : Answer(Refused(reason))
    /\ UNCHANGED <<kept, context, snapshot, rows, hit, entitled>>

\* The caller has its answer.
Return ==
    /\ pc = "answered"
    /\ pc' = "idle"
    /\ tool' = "schema" /\ search' = "none" /\ header' = NoHeader /\ userRole' = ""
    /\ context' = Anonymous /\ entitled' = Anonymous
    /\ snapshot' = NoSnapshot /\ rows' = <<>> /\ answer' = Unfinished /\ lived' = {}
    /\ hit' = FALSE
    /\ UNCHANGED <<db, commits, generation, kept>>

\* Another application books or settles a payment, lists or drops a name,
\* opens, closes or deletes a record of the CRM, adds or drops a column, or
\* writes one.
Changed(d) ==
    LET settled == UNION {{[d EXCEPT !.status[p] = s] : s \in Statuses} : p \in Payments}
        parties == {[d EXCEPT !.parties = (@ \cup {n}) \ (@ \cap {n})] : n \in Names}
        banks == {[d EXCEPT !.banks = (@ \cup {n}) \ (@ \cap {n})] : n \in Names}
        accounts == {[d EXCEPT !.accounts = (@ \cup {n}) \ (@ \cap {n})] : n \in AccountNames}
        records == UNION {{[d EXCEPT !.record[r] = s] : s \in {"absent", "open", "closed"}} :
                             r \in CrmRecords}
        columns == {[d EXCEPT !.columns = (@ \cup {c}) \ (@ \cap {c})] : c \in Columns}
        written == UNION {{[d EXCEPT !.values[c] = V] : V \in SUBSET Values} : c \in d.columns}
    IN  UNION {settled, parties, banks, accounts, records, columns, written}

DbChanges ==
    /\ commits < MaxCommits
    /\ commits' = commits + 1
    /\ db' \in Changed(db) \ {db}
    /\ lived' = IF pc = "idle" THEN lived ELSE lived \cup {db'}
    /\ UNCHANGED <<generation, kept, pc, tool, search, header, userRole, context, snapshot,
                   rows, answer, hit, entitled>>

Next ==
    \/ Begin \/ Authorize \/ Hit \/ Reject \/ Open \/ Fetch \/ DbFails \/ Return
    \/ Expire \/ DbChanges

Spec == Init /\ [][Next]_vars

-----------------------------------------------------------------------------
TypeOK ==
    /\ db \in Databases
    /\ commits \in 0..MaxCommits
    /\ generation \in {0, 1}
    /\ pc \in Places
    /\ tool \in SummaryTools \cup OtherTools
    /\ search \in Asked(tool)
    /\ header \in Headers
    /\ userRole \in UserRoles
    /\ context \in Claims(AccountNames)
    /\ snapshot \in Databases \cup {NoSnapshot}
    /\ Len(rows) \in Nat /\ rows = [i \in 1..Len(rows) |-> rows[i]]
    /\ lived \in SUBSET Databases
    /\ hit \in BOOLEAN
    /\ entitled \in Claims(AccountNames)

(* What makes the properties inductive: where the rows come from, and the    *)
(* answer from the rows.                                                     *)

\* Nothing is read before the policy has allowed it.
NothingEarly ==
    pc \in {"idle", "authorizing", "opening"} => rows = <<>> /\ snapshot = NoSnapshot

ContextKnown ==
    /\ pc \in {"opening", "reading", "answered"} => context = ContextOf(header, generation)
    /\ pc \in {"opening", "reading", "answered"} /\ ~hit => entitled = context
    /\ hit => pc = "answered"

\* The snapshot is there from the first row on, and was committed.
SnapshotLived ==
    /\ pc # "idle" => db \in lived
    /\ tool = "schema" \/ rows = <<>> => snapshot = NoSnapshot
    /\ tool # "schema" /\ rows # <<>> => snapshot \in lived

\* Each row of a summary is the query of its place on the snapshot.
RowsRead ==
    rows # <<>> =>
        /\ tool \in SummaryTools =>
              /\ Len(rows) <= Queries[tool]
              /\ rows[1] \in LookUps(tool, search, snapshot)
              /\ \A i \in 2..Len(rows) : rows[i] = Row(tool, snapshot, rows[1].name, i)
        /\ tool = "query" => rows[1] = QueryResult(snapshot, search)

\* Each row of the catalogue was right at a moment of the call.
CatalogueRead ==
    tool = "schema" =>
        /\ Len(rows) >= 2 => \E d \in lived : rows[2] = d.columns
        /\ Len(rows) >= 4 => \E d \in lived : rows[4] = ForeignKeys(d)
        /\ \A i \in 5..Len(rows) :
              \/ rows[i] = NoValues
              \/ \E d \in lived : LET c == Candidate(rows[2], i - 4)
                               IN  c \in d.columns /\ rows[i] = d.values[c]

Excuses == {"unauthorized", "rejected"} \cup UNION {Failures(t) : t \in SummaryTools \cup OtherTools}

\* An answer of the CRM that claims allow.
Bounded(a, claims) ==
    a.kind \in SummaryTools \cup OtherTools =>
        /\ a.kind = "crm"
        /\ MayAccess(claims, a.account)
        /\ (\E c \in a.contacts : c.pii) => MaySeePii(claims)

\* What is kept was computed for a caller with the role of its key, and so was
\* what came out of the cache.
KeptBounded ==
    /\ kept # NoEntry =>
          /\ kept.claims \in Claims(AccountNames)
          /\ kept.key[2] = kept.claims.role
          /\ Bounded(kept.answer, kept.claims)
    /\ hit => /\ tool = "crm"
              /\ entitled.role = context.role
              /\ Bounded(answer, entitled)

\* While it reads the rows are too few, and the answer is the rows' or an
\* excuse, unless the cache had it.
AnswerOfRows ==
    /\ pc = "reading" /\ rows # <<>> => Outcome(tool, search, context, rows) = Unfinished
    /\ pc = "answered" /\ ~hit =>
          \/ answer \in {Refused(reason) : reason \in Excuses}
          \/ /\ rows # <<>>
             /\ answer = Outcome(tool, search, context, rows)
             /\ answer # Unfinished

IInv == /\ TypeOK /\ NothingEarly /\ ContextKnown /\ SnapshotLived
        /\ RowsRead /\ CatalogueRead /\ AnswerOfRows /\ KeptBounded

-----------------------------------------------------------------------------
(* Properties.                                                             *)

Given == pc = "answered"
Complete == Given /\ answer.kind \in SummaryTools \cup OtherTools
FromQueries ==
    /\ Given /\ ~hit /\ tool \notin {"schema", "news"}
    /\ Complete \/ answer.kind \in {"not_found", "access_denied", "no_data"}

\* What a call that has the database d to itself may answer.
RowsOn(d, lookUp) ==
    [i \in 1..Queries[tool] |-> IF i = 1 THEN lookUp ELSE Row(tool, d, lookUp.name, i)]

AnswersOn(d) ==
    IF tool = "query" THEN {Outcome(tool, search, context, <<QueryResult(d, search)>>)}
    ELSE { IF lookUp.found THEN Outcome(tool, search, context, RowsOn(d, lookUp))
           ELSE Refused("not_found") : lookUp \in LookUps(tool, search, d) }

\* The nine queries of a summary are atomic: whatever is committed meanwhile,
\* the answer that the service gives is the one of a single database that was
\* committed at some moment of the call, never a mixture of an older and a
\* newer one (totals that miss a payment that the list of counterparties
\* shows).
AnswersOneMoment == FromQueries => \E d \in lived : answer \in AnswersOn(d)

\* The catalogue is read without a transaction while migrations run.  Still,
\* the columns the planner is told of are those of one moment of the call,
\* so are the foreign keys, and the values listed for a column are all that
\* it held at some moment, never the first few of many.
CatalogueWasThere ==
    Complete /\ tool = "schema" =>
        /\ \E d \in lived : answer.columns = d.columns
        /\ \E d \in lived : answer.references = ForeignKeys(d)
        /\ \A v \in answer.values : v.values # NoValues =>
              \E d \in lived : v.column \in d.columns /\ v.values = d.values[v.column]

\* The parts of a payments answer add up, though each comes from a query of
\* its own: the totals are those of the rails and of the banks, a cut list
\* stays below its total, and the completed payments of the status mix are
\* those sent and received, one between own sides counted once.
Completed(mix) == Keyed(mix, "Completed")

PaymentFigures(a) ==
    /\ a.out = SumOf(a.byType, LAMBDA r : r.out)
    /\ a.in = SumOf(a.byType, LAMBDA r : r.in)
    /\ Total(Completed(a.statusMix)) <= a.out + a.in
    /\ Total(Completed(a.statusMix)) >= a.out
    /\ Total(Completed(a.statusMix)) >= a.in

ClientFigures(a) ==
    /\ a.out = Total(a.banks)
    /\ Count(a.banks) = SumOf(a.byType, LAMBDA r : r.count)
    /\ Total(a.top) <= a.out
    /\ Cardinality(a.top) < TopParties => Total(a.top) = a.out

BankFigures(a) ==
    /\ Total(a.originators) <= a.out
    /\ Total(a.beneficiaries) <= a.in
    /\ Total(a.banks) <= Total(Completed(a.statusMix))

FiguresAgree ==
    Complete /\ tool \in {"client", "bank"} =>
        /\ PaymentFigures(answer)
        /\ tool = "client" => ClientFigures(answer)
        /\ tool = "bank" => BankFigures(answer)

\* An account that the CRM service shows in answer to a call is one that the
\* call's own claims reach, which an agent signed with a secret the server
\* accepts; a missing or unverifiable header gives nothing.  What comes out of
\* the cache, whose key names the role only, may reach further than its caller's
\* claims: it is bounded by the claims of the caller for whom it was computed,
\* who has the same role.  So no e-mail address or telephone number gets to a
\* role without access to them on either way.
NoMoreThanClaims ==
    Complete /\ tool = "crm" =>
        /\ ~hit => /\ header.present /\ header.signature \in Accepted(generation)
                   /\ entitled = header.payload
        /\ \/ entitled.role \in {"manager", "compliance_officer", "senior_rm"}
           \/ answer.account \in entitled.accounts
        /\ entitled.role = context.role
        /\ (\E c \in answer.contacts : c.pii) => context.role # "readonly"
=============================================================================
