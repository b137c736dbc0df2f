---------------------------- MODULE DataQueries ----------------------------
(***************************************************************************)
(* What data-mcp reads: one SQL statement of a caller (DataQueryService),  *)
(* and the catalogue of the database (platform_sdk/schema_introspection)   *)
(* that the agent's planner is given, as operators on a state of the       *)
(* database.                                                               *)
(*                                                                         *)
(* A statement is a kind of statement.  A column is a record of its table, *)
(* its place in the order of the catalogue query, whether its type is one  *)
(* of strings, whether its name speaks of free text or an identifier, and  *)
(* whether it is in its table's primary key; a foreign key is a pair of    *)
(* columns.  A state of the database says which columns there are and      *)
(* which values each holds; a table is there if a column of it is.         *)
(* The relationships file, which nothing changes, the comments and the     *)
(* Markdown are left out.                                                  *)
(***************************************************************************)
EXTENDS PaymentQueries, Sequences

CONSTANTS
    Columns,        \* [table, rank, text, free, key]
    References,     \* pairs of columns: single-column foreign keys
    Values,         \* what columns may hold: numbers
    EnumThreshold   \* ENUM_CARDINALITY_THRESHOLD

ASSUME CatalogueAssumption ==
    /\ \A c \in Columns : c.rank \in Nat /\ {c.text, c.free, c.key} \subseteq BOOLEAN
    /\ \A c, d \in Columns : c.rank = d.rank => c = d
    /\ References \subseteq Columns \X Columns
    /\ Values \subseteq Nat
    /\ EnumThreshold \in Nat

-----------------------------------------------------------------------------
(* execute_read_query.                                                     *)

Statements ==
    {"volumes", "nothing", "two statements", "update", "no session", "similar names"}

\* The session is a UUID; the policy and the service both ask for it.
ValidSession(statement) == statement # "no session"

\* One SELECT, and no semicolon but at its end.
SingleSelect(statement) == statement \in {"volumes", "nothing", "similar names"}

\* The agent's own statement, which looks for names similar to one that was
\* not found, has a parameter, and the tool takes no parameters: it raises.
Bound(statement) == statement # "similar names"

\* What the other two SELECTs return.
QueryResult(db, statement) ==
    IF statement = "volumes" THEN GroupBy(CompletedIn(db, "current"), LAMBDA p : p.rail)
    ELSE {}

-----------------------------------------------------------------------------
(* introspect_schema.                                                      *)

TablesOf(columns) == {c.table : c \in columns}
Keys(db) == {c \in db.columns : c.key}
ForeignKeys(db) == {r \in References : {r[1], r[2]} \subseteq db.columns}

\* _looks_like_enum_candidate
Candidates(columns) == {c \in columns : c.text /\ ~c.free}

\* The candidates are probed in the order of the columns.
Candidate(columns, n) ==
    CHOOSE c \in Candidates(columns) :
        Cardinality({d \in Candidates(columns) : d.rank < c.rank}) = n - 1

NoValues == {}

\* Mutant: the probe asks for no more values than are listed.
SampledShort(db, c) ==
    LET seen == FirstOf(db.values[c], EnumThreshold)
    IN  IF Cardinality(seen) > EnumThreshold THEN NoValues ELSE seen

\* _sample_enum_values: one more value than is listed tells a long list.
Sampled(db, c) ==
    LET seen == FirstOf(db.values[c], EnumThreshold + 1)
    IN  IF Cardinality(seen) > EnumThreshold THEN NoValues ELSE seen

\* The result of the next query after those of rows; a probe that fails, as
\* it does if the column is gone by now, yields nothing.
SchemaRows(db, rows) ==
    CASE Len(rows) = 0 -> {TablesOf(db.columns)}
      [] Len(rows) = 1 -> {db.columns}
      [] Len(rows) = 2 -> {Keys(db)}
      [] Len(rows) = 3 -> {ForeignKeys(db)}
      [] Len(rows) > 3 ->
            LET c == Candidate(rows[2], Len(rows) - 3)
            IN  {NoValues} \cup (IF c \in db.columns THEN {Sampled(db, c)} ELSE {})

Probed(rows) == Len(rows) > 3 /\ Len(rows) = 4 + Cardinality(Candidates(rows[2]))

SchemaAnswer(rows) ==
    [ kind |-> "schema", described |-> TablesOf(rows[2]) \cap rows[1], columns |-> rows[2],
      keys |-> {c \in rows[3] : c.table \in TablesOf(rows[2])}, references |-> rows[4],
      values |-> {[column |-> Candidate(rows[2], i), values |-> rows[4 + i]] :
                     i \in 1..(Len(rows) - 4)} ]
=============================================================================
