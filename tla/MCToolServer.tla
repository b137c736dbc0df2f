---------------------------- MODULE MCToolServer ----------------------------
(* ToolServer for TLC: callers that differ in one attribute.               *)
EXTENDS ToolServer

CONSTANTS low, high

Caller(role, mask, accounts) ==
    [role |-> role, col_mask |-> mask, assigned_account_ids |-> accounts]

\* Two column masks of one role: what get_payment_summary tells apart.
ByMask == {Caller(low, m, low) : m \in {low, high}}

\* Two books of accounts of one role: what get_salesforce_summary tells apart.
ByAccounts == {Caller(low, low, a) : a \in {low, high}}
=============================================================================
