---------------------------- MODULE MCSummaries ----------------------------
(* Two companies, the second with two banks, a CRM with two accounts, and  *)
(* two tables that are migrated.                                           *)
EXTENDS Summaries

MCNames == 1..3
MCSearches == {"one", "both"}
MCMatch ==
    [ one |-> [n \in MCNames |-> IF n = 1 THEN "exact" ELSE "no"],
      both |-> [n \in MCNames |-> IF n = 1 THEN "substring" ELSE "prefix"] ]

Payment(i, from, to, bank, rail, amount, period) ==
    [ id |-> i, payor |-> from, payee |-> to, payorBank |-> bank, payeeBank |-> 2,
      rail |-> rail, amount |-> amount, period |-> period ]

MCPayments ==
    { Payment(1, 1, 2, 1, "wire", 3, "current"), Payment(2, 2, 1, 1, "ach", 2, "current"),
      Payment(3, 1, 3, 2, "wire", 5, "current"), Payment(4, 1, 2, 1, "ach", 4, "prior") }

MCAccountNames == {1, 2}
MCCrmMatch ==
    [ one |-> [n \in MCAccountNames |-> IF n = 1 THEN "exact" ELSE "no"],
      both |-> [n \in MCAccountNames |-> "within"] ]

MCContacts == {[account |-> 1, rank |-> 1], [account |-> 1, rank |-> 2]}
MCActivities ==
    {[kind |-> "task", contact |-> c, rank |-> c.rank] : c \in MCContacts}
MCDealings == {[kind |-> "opportunity", account |-> 1, rank |-> 1],
               [kind |-> "case", account |-> 1, rank |-> 2],
               [kind |-> "contract", account |-> 2, rank |-> 3]}
MCLimit ==
    [contacts |-> 1, activities |-> 1, tasks |-> 1, case |-> 1, contract |-> 1]

\* Two tables; the second refers to the first.
MCColumns ==
    { [table |-> "a", rank |-> 1, text |-> FALSE, free |-> FALSE, key |-> TRUE],
      [table |-> "a", rank |-> 2, text |-> TRUE, free |-> FALSE, key |-> FALSE],
      [table |-> "b", rank |-> 3, text |-> TRUE, free |-> TRUE, key |-> FALSE],
      [table |-> "b", rank |-> 4, text |-> TRUE, free |-> FALSE, key |-> FALSE] }
MCReferences == {r \in MCColumns \X MCColumns : r[1].rank = 4 /\ r[2].rank = 1}
MCValues == {1, 2, 3}
MCHeld == [c \in MCColumns |-> IF c.rank = 2 THEN {1, 2, 3} ELSE {2}]

MCCurated ==
    [ one |-> << [sentiment |-> "negative", type |-> "leadership_change"],
                 [sentiment |-> "positive", type |-> "expansion"] >>, both |-> <<>> ]

MCIdentities ==
    { [role |-> "manager", accounts |-> {}, clearance |-> {"standard", "aml_view"}, userRole |-> ""],
      [role |-> "rm", accounts |-> {1}, clearance |-> {}, userRole |-> ""],
      [role |-> "readonly", accounts |-> {2}, clearance |-> {"standard"}, userRole |-> ""] }

Settled == [p \in MCPayments |-> "Completed"]
Open0 == [r \in MCContacts \cup MCActivities \cup MCDealings |-> "open"]

MCInitialDatabases ==
    { [ status |-> Settled, parties |-> {1, 2}, banks |-> {1, 2},
        accounts |-> {1, 2}, record |-> Open0, columns |-> MCColumns, values |-> MCHeld ],
      [ status |-> [p \in MCPayments |-> IF p.id = 1 THEN "Pending" ELSE "absent"],
        parties |-> {2}, banks |-> {}, accounts |-> {2}, record |-> Open0,
        columns |-> {c \in MCColumns : c.rank < 3}, values |-> MCHeld ] }
=============================================================================
