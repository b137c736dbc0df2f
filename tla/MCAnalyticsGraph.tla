-------------------------- MODULE MCAnalyticsGraph --------------------------
(* AnalyticsGraph for TLC: the plans a router may return.                  *)
EXTENDS AnalyticsGraph

Step(tool, client) == [tool |-> tool, client |-> client]
Summary(client) == Step("get_payment_summary", client)
Query == Step("execute_read_query", "none")

\* No step; one look-up; the look-up of another client beside a query.  The
\* look-ups share a result key.
DistinctPlans == {<<>>, <<Summary("acme")>>, <<Summary("bmo"), Query>>}
ShortPlans == {<<>>, <<Summary("acme")>>}
=============================================================================
