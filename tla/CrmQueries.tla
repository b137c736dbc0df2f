---------------------------- MODULE CrmQueries -----------------------------
(***************************************************************************)
(* The queries of SalesforceService (tools/salesforce-mcp/src) as          *)
(* operators on a state of the CRM, and the answer made from their rows.   *)
(*                                                                         *)
(* An account is its name, and a name is its place in the alphabet.  The   *)
(* other records are of a kind and either belong to an account or, events  *)
(* and tasks, to a contact; their rank is their place in the order of the  *)
(* queries that return them.  A state of the CRM says which accounts there *)
(* are and which records are absent, open or closed: completed, won, lost, *)
(* cancelled or expired, each kind in its words.                           *)
(***************************************************************************)
EXTENDS Integers, FiniteSetsExt

CONSTANTS
    AccountNames,   \* of accounts: 1..n
    CrmSearches,    \* what a caller may ask for
    CrmMatch,       \* how a search matches a name: exact, within, no
    Contacts,       \* [account, rank]
    Activities,     \* [kind, contact, rank]: events and tasks
    Dealings,       \* [kind, account, rank]: opportunities, cases, contracts
    Limit           \* the LIMIT of each query

ASSUME CrmAssumption ==
    /\ AccountNames \subseteq Nat
    /\ CrmMatch \in [CrmSearches -> [AccountNames -> {"exact", "within", "no"}]]
    /\ \A c \in Contacts : c.account \in AccountNames /\ c.rank \in Nat
    /\ \A a \in Activities : a.contact \in Contacts /\ a.kind \in {"event", "task"}
    /\ \A d \in Dealings :
          d.account \in AccountNames /\ d.kind \in {"opportunity", "case", "contract"}
    /\ Limit \in [{"contacts", "activities", "tasks", "case", "contract"} -> Nat]

CrmRecords == Contacts \cup Activities \cup Dealings

\* ORDER BY ... LIMIT n
First(S, n) == {r \in S : Cardinality({q \in S : q.rank < r.rank}) < n}

\* The exact name before the names that contain the search, in alphabetical
\* order.
Account(db, search) ==
    LET exact == {n \in db.accounts : CrmMatch[search][n] = "exact"}
        within == {n \in db.accounts : CrmMatch[search][n] # "no"}
    IN  IF exact # {} THEN [found |-> TRUE, name |-> Min(exact)]
        ELSE IF within # {} THEN [found |-> TRUE, name |-> Min(within)]
        ELSE [found |-> FALSE, name |-> 0]

OfAccount(db, S, account) == {r \in S : db.record[r] # "absent" /\ r.account = account}

KeyContacts(db, account) == First(OfAccount(db, Contacts, account), Limit["contacts"])

\* JOIN salesforce."Contact"
OfContacts(db, account) ==
    {a \in Activities : db.record[a] # "absent" /\ a.contact \in OfAccount(db, Contacts, account)}

RecentActivities(db, account) == First(OfContacts(db, account), Limit["activities"])

OpenTasks(db, account) ==
    First({a \in OfContacts(db, account) : a.kind = "task" /\ db.record[a] = "open"},
          Limit["tasks"])

OpenOf(db, account, kind) ==
    {d \in OfAccount(db, Dealings, account) : d.kind = kind /\ db.record[d] = "open"}

OpenOpportunities(db, account) == OpenOf(db, account, "opportunity")
OpenCases(db, account) == First(OpenOf(db, account, "case"), Limit["case"])
ActiveContracts(db, account) == First(OpenOf(db, account, "contract"), Limit["contract"])

\* E-mail and telephone are null without allow_pii.
CrmAnswer(rows, allowPii) ==
    [ kind |-> "crm", account |-> rows[1].name,
      contacts |-> {[contact |-> c, pii |-> allowPii] : c \in rows[2]},
      activities |-> rows[3], opportunities |-> rows[4], tasks |-> rows[5],
      cases |-> rows[6], contracts |-> rows[7] ]
=============================================================================
