-------------------------- MODULE PaymentQueries ---------------------------
(***************************************************************************)
(* The queries of PaymentsService (tools/payments-mcp/src) as operators on *)
(* a state of the database, and the answers made from their rows.          *)
(*                                                                         *)
(* A name is its place in the alphabet.  A payment is a record of its      *)
(* parties, banks, rail and amount (the schema lets none be NULL) and of   *)
(* the 360-day period it falls into; a state of the database says which    *)
(* payments there are and in which status, and which names dim_party and   *)
(* dim_bank list.  ORDER BY ... LIMIT keeps a largest set, ties broken     *)
(* somehow.  The text of an answer is left out, and so is the cut of one   *)
(* that is longer than max_result_bytes.                                   *)
(***************************************************************************)
EXTENDS Integers, FiniteSetsExt

CONSTANTS
    Names,          \* of parties and banks: 1..n
    Searches,       \* what a caller may ask for
    Match,          \* how a search matches a name: exact, prefix, substring, no
    Payments,       \* the payments there may be
    TopParties,     \* LIMIT of top_counterparties
    TopBanks,       \* LIMIT of the bank summary's lists
    Suggestions     \* LIMIT of the look-up of names

ASSUME PaymentAssumption ==
    /\ Names \subseteq Nat
    /\ IsFiniteSet(Payments)
    /\ Match \in [Searches -> [Names -> {"exact", "prefix", "substring", "no"}]]
    /\ \A p \in Payments :
          /\ {p.payor, p.payee, p.payorBank, p.payeeBank} \subseteq Names
          /\ p.amount \in Nat \ {0} /\ p.period \in {"current", "prior"}
    /\ {TopParties, TopBanks, Suggestions} \subseteq Nat

Statuses == {"Completed", "Pending", "Failed", "Returned", "Reversed"}

\* The rows of fact_payments.
Facts(db) == {p \in Payments : db.status[p] # "absent"}

CompletedIn(db, period) ==
    {p \in Payments : db.status[p] = "Completed" /\ p.period = period}

SumOf(S, f(_)) == SumFunction([x \in S |-> f(x)])
Volume(facts) == SumOf(facts, LAMBDA p : p.amount)

\* SELECT key, SUM("Amount"), COUNT(*) ... GROUP BY key
Group(facts, key, k) ==
    LET group == {p \in facts : key[p] = k}
    IN  [key |-> k, total |-> Volume(group), count |-> Cardinality(group)]
Groups(facts, key) == {Group(facts, key, key[p]) : p \in facts}
GroupBy(facts, Key(_)) == Groups(facts, [p \in facts |-> Key(p)])

Total(rows) == SumOf(rows, LAMBDA r : r.total)
Count(rows) == SumOf(rows, LAMBDA r : r.count)

Keyed(rows, key) == {r \in rows : r.key = key}

\* ORDER BY total DESC LIMIT n
Top(rows, n) ==
    IF Cardinality(rows) <= n THEN rows
    ELSE CHOOSE S \in kSubset(n, rows) : \A r \in S, s \in rows \ S : r.total >= s.total

-----------------------------------------------------------------------------
(* The resolution of a name: exact, prefix and substring matches of the    *)
(* dimension, and then the names that only the payments know.              *)

NotFound == [found |-> FALSE, name |-> 0, similar |-> {}]
Found(name, similar) == [found |-> TRUE, name |-> name, similar |-> similar]

FirstOf(names, n) == {m \in names : Cardinality({k \in names : k < m}) < n}

\* The first of several close matches, and all of them as suggestions.
Closest(names) ==
    Found(Min(names), IF Cardinality(names) = 1 THEN {} ELSE FirstOf(names, Suggestions))

Matching(search, names, kinds) == {n \in names : Match[search][n] \in kinds}

\* What _resolve_client_name and _resolve_bank_name may return.
Resolutions(search, dimension, inFacts) ==
    LET exact == Matching(search, dimension, {"exact"})
        prefix == Matching(search, dimension, {"prefix", "exact"})
        anywhere == Matching(search, dimension, {"substring", "prefix", "exact"})
        fact == Matching(search, inFacts, {"substring", "prefix", "exact"})
    IN  IF exact # {} THEN {Found(n, {}) : n \in exact}
        ELSE IF prefix # {} THEN {Closest(prefix)}
        ELSE IF anywhere # {} THEN {Closest(anywhere)}
        ELSE IF fact # {} THEN {Found(Min(fact), {})}
        ELSE {NotFound}

Clients(db, search) ==
    Resolutions(search, db.parties, UNION {{p.payor, p.payee} : p \in Facts(db)})
Banks(db, search) ==
    Resolutions(search, db.banks, UNION {{p.payorBank, p.payeeBank} : p \in Facts(db)})

\* "searched_as" and "other_matches" of the answer.
OtherMatches(search, resolution) ==
    IF Match[search][resolution.name] = "exact" THEN {} ELSE resolution.similar

-----------------------------------------------------------------------------
(* The trend: in tenths of a per cent, rounded.                            *)

Tenths(now, before) == (2000 * (now - before) + before) \div (2 * before)

Trend(now, before) ==
    IF before = 0 THEN "STABLE"
    ELSE IF Tenths(now, before) > 50 THEN "INCREASING"
    ELSE IF Tenths(now, before) < -50 THEN "DECLINING"
    ELSE "STABLE"

-----------------------------------------------------------------------------
(* The client's perspective: get_summary.                                  *)

Outbound(db, name) ==
    GroupBy({p \in CompletedIn(db, "current") : p.payor = name}, LAMBDA p : p.rail)
Inbound(db, name) ==
    GroupBy({p \in CompletedIn(db, "current") : p.payee = name}, LAMBDA p : p.rail)
PriorOutbound(db, name) == Volume({p \in CompletedIn(db, "prior") : p.payor = name})
Counterparties(db, name) ==
    Top(GroupBy({p \in CompletedIn(db, "current") : p.payor = name},
                LAMBDA p : <<p.payee, p.payeeBank, p.rail>>), TopParties)
StatusMix(db, name) ==
    GroupBy({p \in Facts(db) : p.period = "current" /\ name \in {p.payor, p.payee}},
            LAMBDA p : db.status[p])

\* Mutant: the banks of payments in any status.
PayorBanksAnyStatus(db, name) ==
    GroupBy({p \in Facts(db) : p.period = "current" /\ p.payor = name},
            LAMBDA p : p.payorBank)

PayorBanks(db, name) ==
    GroupBy({p \in CompletedIn(db, "current") : p.payor = name}, LAMBDA p : p.payorBank)

\* The party's profile: the name under which the query returns each column.
ProfileColumns ==
    [ kyc_status |-> "KYCStatus", aml_risk |-> "AMLRiskCategory",
      risk_rating |-> "RiskRating", sanctions_status |-> "SanctionsScreeningStatus",
      pep_flag |-> "PEPFlag", fraud_segment |-> "FraudMonitoringSegment" ]

PartyProfile(db, name) == IF name \in db.parties THEN DOMAIN ProfileColumns ELSE {}

\* The fields of the profile that _apply_col_mask leaves: it looks the names
\* of the record's fields up in the mask.
MaskedProfile(fields, mask) == fields \ mask

\* The two volume queries, merged by rail.
Rails(outs, ins) == {r.key : r \in outs \cup ins}
ClientRail(outs, ins, k) ==
    [ rail |-> k, out |-> Total(Keyed(outs, k)), in |-> Total(Keyed(ins, k)),
      count |-> Count(Keyed(outs, k)) ]

\* The rows are those of the queries, in their order.
ClientAnswer(search, rows, mask) ==
    [ kind |-> "client", name |-> rows[1].name, others |-> OtherMatches(search, rows[1]),
      out |-> Total(rows[2]), in |-> Total(rows[3]),
      byType |-> {ClientRail(rows[2], rows[3], k) : k \in Rails(rows[2], rows[3])},
      trend |-> Trend(Total(rows[2]), rows[4]),
      top |-> rows[5], statusMix |-> rows[6], banks |-> rows[7],
      profile |-> MaskedProfile(rows[8], mask) ]

-----------------------------------------------------------------------------
(* The bank's perspective: get_bank_summary.                               *)

BankProfile(db, name) == name \in db.banks

Originating(db, name) ==
    GroupBy({p \in CompletedIn(db, "current") : p.payorBank = name}, LAMBDA p : p.rail)
Beneficiary(db, name) ==
    GroupBy({p \in CompletedIn(db, "current") : p.payeeBank = name}, LAMBDA p : p.rail)
PriorOriginating(db, name) == Volume({p \in CompletedIn(db, "prior") : p.payorBank = name})
BankStatusMix(db, name) ==
    GroupBy({p \in Facts(db) : p.period = "current" /\ name \in {p.payorBank, p.payeeBank}},
            LAMBDA p : db.status[p])
TopOriginators(db, name) ==
    Top(GroupBy({p \in CompletedIn(db, "current") : p.payorBank = name},
                LAMBDA p : <<p.payor, p.rail>>), TopBanks)
TopBeneficiaries(db, name) ==
    Top(GroupBy({p \in CompletedIn(db, "current") : p.payeeBank = name},
                LAMBDA p : <<p.payee, p.rail>>), TopBanks)

\* The other bank of each payment; those within the bank itself have none.
CounterpartyBanks(db, name) ==
    Top(GroupBy({p \in CompletedIn(db, "current") :
                    name \in {p.payorBank, p.payeeBank} /\ p.payorBank # p.payeeBank},
                LAMBDA p : IF p.payorBank = name THEN p.payeeBank ELSE p.payorBank), TopBanks)

BankRail(outs, ins, k) ==
    [ rail |-> k, out |-> Total(Keyed(outs, k)), in |-> Total(Keyed(ins, k)),
      count |-> Count(Keyed(outs, k)) + Count(Keyed(ins, k)) ]

BankAnswer(search, rows) ==
    [ kind |-> "bank", name |-> rows[1].name, others |-> OtherMatches(search, rows[1]),
      profiled |-> rows[2], out |-> Total(rows[3]), in |-> Total(rows[4]),
      byType |-> {BankRail(rows[3], rows[4], k) : k \in Rails(rows[3], rows[4])},
      trend |-> Trend(Total(rows[3]), rows[5]),
      statusMix |-> rows[6], originators |-> rows[7], beneficiaries |-> rows[8],
      banks |-> rows[9] ]
=============================================================================
