--------------------------- MODULE AgentContext ----------------------------
(***************************************************************************)
(* AgentContext (platform_sdk/auth.py) and its two readers in the tool     *)
(* servers (tools/shared/mcp_auth.py): the identity that an agent signs    *)
(* with a shared secret and a server verifies, and what it lets the caller *)
(* see.  A service is at some generation of the secret: it signs with that *)
(* generation's, and while secrets are rotated it accepts the one before.  *)
(* The signature of a payload is the generation that signed it.            *)
(***************************************************************************)
EXTENDS Naturals

Roles == {"readonly", "rm", "senior_rm", "manager", "compliance_officer"}
Levels == {"standard", "aml_view", "compliance_full"}
UserRoles == {"admin", "analyst", "viewer", ""}

\* The claims of a context, over the accounts that may be assigned.
Claims(accounts) ==
    [role : Roles, accounts : SUBSET accounts, clearance : SUBSET Levels,
     userRole : UserRoles \cup {"unknown"}]

\* __post_init__: no clearance is the least one, an unknown user role is none.
Normalized(claims) ==
    [claims EXCEPT !.clearance = IF @ = {} THEN {"standard"} ELSE @,
                   !.userRole = IF @ \in UserRoles THEN @ ELSE ""]

Anonymous ==
    [role |-> "readonly", accounts |-> {}, clearance |-> {"standard"}, userRole |-> ""]

-----------------------------------------------------------------------------
(* Signing and verifying.                                                  *)

\* CONTEXT_HMAC_SECRET and CONTEXT_HMAC_SECRET_PREVIOUS of a service.
Accepted(generation) ==
    {generation} \cup (IF generation = 0 THEN {} ELSE {generation - 1})

\* to_header_value, with a flag for the header that is missing or garbled.
Header(claims, generation) ==
    [present |-> TRUE, payload |-> Normalized(claims), signature |-> generation]

NoHeader == [present |-> FALSE, payload |-> Anonymous, signature |-> 0]

\* Mutant: the payload is believed whatever its signature.
ContextUnverified(header, generation) ==
    IF header.present THEN Normalized(header.payload) ELSE Anonymous

\* _verify_and_split and from_header; whoever calls them falls back to
\* Anonymous when they raise.
ContextOf(header, generation) ==
    IF header.present /\ header.signature \in Accepted(generation)
    THEN Normalized(header.payload) ELSE Anonymous

-----------------------------------------------------------------------------
(* What a context lets its caller see.                                     *)

Unrestricted(ctx) == ctx.role \in {"manager", "compliance_officer", "senior_rm"}

\* _PII_ALLOWED_ROLES of the Salesforce server.
MaySeePii(ctx) == ctx.role \in {"rm", "senior_rm", "manager", "compliance_officer"}

MayAccess(ctx, account) == Unrestricted(ctx) \/ account \in ctx.accounts

AmlColumns == {"AMLRiskCategory", "RiskRating", "KYCStatus", "FraudMonitoringSegment"}
ComplianceColumns ==
    {"SanctionsScreeningStatus", "PEPFlag", "BSAAMLProgramRating", "SanctionsComplianceStatus"}

\* build_col_mask
ColMask(ctx) ==
    (IF "compliance_full" \in ctx.clearance THEN {} ELSE ComplianceColumns)
      \cup (IF "aml_view" \in ctx.clearance THEN {} ELSE AmlColumns)
=============================================================================
