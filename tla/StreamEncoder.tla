--------------------------- MODULE StreamEncoder ---------------------------
(***************************************************************************)
(* streaming/data_stream_encoder.py: the encoder that each chat turn has   *)
(* of its own, as the operations its graph drives it with.  What a frame   *)
(* says is left out.  Kept are the tool call ids of the b: and a: frames,  *)
(* and which text the user was shown: the tokens of each model call, which *)
(* stay on the screen when that call fails, and the finished narrative,    *)
(* which is taken not to be empty.                                         *)
(*                                                                         *)
(* A plan step gets a fresh uuid as its id: here, its index in the plan.   *)
(***************************************************************************)
EXTENDS Naturals, Sequences

CONSTANTS
    Turns,          \* the chat turns
    Tools           \* tool names a plan may use

VARIABLES
    currentNode,    \* _current_node
    streamed,       \* _synthesis_streamed
    activeId,       \* _active_tool_calls: the id under each tool name, or 0
    begun,          \* the ids of the b: frames
    answered,       \* the ids of the a: frames, in order; 0 is a new uuid
    tokens,         \* ghost: the model calls with tokens in 0: frames
    narratives      \* ghost: how many 0: frames held a whole narrative

encoderVars == <<currentNode, streamed, activeId, begun, answered, tokens, narratives>>

Nodes == {"intent_router", "mcp_tool_caller", "synthesis", "error_handler"}
ReasoningNodes == Nodes \ {"synthesis"}

EncoderTypeOK ==
    /\ currentNode \in [Turns -> Nodes \cup {"none"}]
    /\ streamed \in [Turns -> BOOLEAN]
    /\ activeId \in [Turns -> [Tools -> Nat]]
    /\ begun \in [Turns -> SUBSET Nat]
    /\ answered \in [Turns -> Seq(Nat)]
    /\ tokens \in [Turns -> SUBSET Nat]
    /\ narratives \in [Turns -> Nat]

EncoderInit ==
    /\ currentNode = [t \in Turns |-> "none"]
    /\ streamed = [t \in Turns |-> FALSE]
    /\ activeId = [t \in Turns |-> [tool \in Tools |-> 0]]
    /\ begun = [t \in Turns |-> {}]
    /\ answered = [t \in Turns |-> <<>>]
    /\ tokens = [t \in Turns |-> {}]
    /\ narratives = [t \in Turns |-> 0]

-----------------------------------------------------------------------------
\* _on_chain_start of a node whose predecessor, if any, ended with the frames
\* of the operations below.
OnChainStart(t, node) == currentNode' = [currentNode EXCEPT ![t] = node]

\* Mutant: a token of any node counts as the narrative.
OnTokenOfAnyNode(t, call) ==
    /\ IF currentNode[t] \in ReasoningNodes THEN UNCHANGED tokens
       ELSE tokens' = [tokens EXCEPT ![t] = @ \cup {call}]
    /\ streamed' = [streamed EXCEPT ![t] = TRUE]
    /\ UNCHANGED <<currentNode, activeId, begun, answered, narratives>>

\* _on_chat_model_stream: reasoning, or narrative text.  The encoder does not
\* look at which call of the node's model it is.
OnToken(t, call) ==
    /\ IF currentNode[t] \in ReasoningNodes THEN UNCHANGED <<tokens, streamed>>
       ELSE /\ tokens' = [tokens EXCEPT ![t] = @ \cup {call}]
            /\ streamed' = [streamed EXCEPT ![t] = TRUE]
    /\ UNCHANGED <<currentNode, activeId, begun, answered, narratives>>

\* _on_intent_router_end: a b: frame for every step of the plan; a tool name
\* keeps the id of the last step that uses it.
LastIndexOf(plan, tool) ==
    LET uses == {i \in DOMAIN plan : plan[i].tool = tool}
    IN  CHOOSE i \in uses : \A j \in uses : j <= i

\* Mutant: the ids are sent and not remembered.
OnRouterEndForgets(t, plan) ==
    /\ begun' = [begun EXCEPT ![t] = @ \cup DOMAIN plan]
    /\ UNCHANGED <<streamed, activeId, answered, tokens, narratives>>

OnRouterEnd(t, plan) ==
    /\ begun' = [begun EXCEPT ![t] = @ \cup DOMAIN plan]
    /\ activeId' = [activeId EXCEPT ![t] =
           [tool \in Tools |-> IF \E i \in DOMAIN plan : plan[i].tool = tool
                               THEN LastIndexOf(plan, tool) ELSE @[tool]]]
    /\ UNCHANGED <<streamed, answered, tokens, narratives>>

\* _on_mcp_tool_caller_end: an a: frame for every tool that ran.
OnToolsEnd(t, plan) ==
    /\ answered' = [answered EXCEPT ![t] =
           @ \o [i \in DOMAIN plan |-> activeId[t][plan[i].tool]]]
    /\ UNCHANGED <<streamed, activeId, begun, tokens, narratives>>

\* _on_synthesis_end: the narrative, unless its tokens were streamed.
OnSynthesisEnd(t) ==
    /\ narratives' = [narratives EXCEPT ![t] = IF streamed[t] THEN @ ELSE @ + 1]
    /\ currentNode' = [currentNode EXCEPT ![t] = "none"]
    /\ UNCHANGED <<streamed, activeId, begun, answered, tokens>>

\* _on_error_handler_end: always the narrative.
OnErrorHandlerEnd(t) ==
    /\ narratives' = [narratives EXCEPT ![t] = @ + 1]
    /\ currentNode' = [currentNode EXCEPT ![t] = "none"]
    /\ UNCHANGED <<streamed, activeId, begun, answered, tokens>>
=============================================================================
