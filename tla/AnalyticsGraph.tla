--------------------------- MODULE AnalyticsGraph ---------------------------
(***************************************************************************)
(* The LangGraph of the analytics agent (graph.py, state.py and nodes/):   *)
(* intent_router, then mcp_tool_caller and synthesis, or synthesis alone,  *)
(* or error_handler, run once per chat turn over the checkpointed state of *)
(* a conversation thread, while the turn's encoder turns its events into   *)
(* frames.                                                                 *)
(*                                                                         *)
(* Threads share nothing (make_thread_id), so one is modelled.  LangGraph  *)
(* is external: a run reads the latest checkpoint when it begins and       *)
(* writes the whole state after every node; nothing keeps two runs of a    *)
(* thread apart.  The models are external too: the router answers or       *)
(* fails, synthesis attempts succeed or fail.                              *)
(*                                                                         *)
(* Of the thread's state the model keeps what a turn leaves to the next:   *)
(* raw_data_context and the query plan.  messages, errors, turn_count and  *)
(* the prompts built from them influence only what the models say.         *)
(***************************************************************************)
EXTENDS StreamEncoder

CONSTANTS
    Clients,        \* client names a plan may look up
    Plans,          \* query plans the router may return
    MaxRetries,     \* SYNTHESIS_MAX_RETRIES (2)
    Streaming,      \* the model's tokens appear as events
    Overlap         \* a message may be sent while the one before is answered

Steps == [tool : Tools, client : Clients \cup {"none"}]

ASSUME GraphAssumption ==
    /\ Plans \subseteq Seq(Steps)
    /\ <<>> \in Plans
    /\ MaxRetries \in Nat
    /\ Streaming \in BOOLEAN /\ Overlap \in BOOLEAN
    /\ "none" \notin Turns /\ "none" \notin Clients

\* result_key: "{server}:{tool}:{index}"; a tool's name stands for both.
KeyOf(plan, i) == <<plan[i].tool, i>>
Keys == UNION {{KeyOf(p, i) : i \in DOMAIN p} : p \in Plans}

\* What a tool call gives: data, a result that says "not found", an error.
Outcomes == {"data", "not_found", "error"}
Result == [turn : Turns, outcome : Outcomes]
NoResult == [turn |-> "none", outcome |-> "none"]

\* _client_suggestions: the turn that wrote it, and the name it speaks of.
Suggestion == [turn : Turns, client : Clients]
NoSuggestion == [turn |-> "none", client |-> "none"]

ThreadState ==
    [context : [Keys -> Result \cup {NoResult}],
     suggestion : Suggestion \cup {NoSuggestion},
     plan : Plans,
     plannedBy : Turns \cup {"none"}]

VARIABLES
    saved,          \* the latest checkpoint
    state,          \* the state each run works on
    pc,             \* where each turn is
    intent,         \* what the turn's router said
    attempt         \* synthesis attempts that failed

graphVars == <<saved, state, pc, intent, attempt>>
vars == <<graphVars, encoderVars>>

Ended == {"done", "raised", "cancelled"}
Running == {"routing", "calling", "synthesizing", "handling"}

TypeOK ==
    /\ EncoderTypeOK
    /\ saved \in ThreadState
    /\ state \in [Turns -> ThreadState]
    /\ pc \in [Turns -> {"new"} \cup Running \cup Ended]
    /\ intent \in [Turns -> {"none", "data_query", "follow_up", "clarification"}]
    /\ attempt \in [Turns -> 0..MaxRetries]

EmptyState ==
    [context |-> [k \in Keys |-> NoResult], suggestion |-> NoSuggestion,
     plan |-> <<>>, plannedBy |-> "none"]

Init ==
    /\ EncoderInit
    /\ saved = EmptyState
    /\ state = [t \in Turns |-> EmptyState]
    /\ pc = [t \in Turns |-> "new"]
    /\ intent = [t \in Turns |-> "none"]
    /\ attempt = [t \in Turns |-> 0]

\* A node ends: its state is the run's and the latest checkpoint.
Save(t, new) == state' = [state EXCEPT ![t] = new] /\ saved' = new
Goto(t, place) == pc' = [pc EXCEPT ![t] = place]

-----------------------------------------------------------------------------
\* astream_events: the run starts from the latest checkpoint.
Begin(t) ==
    /\ pc[t] = "new"
    /\ Overlap \/ \A u \in Turns : pc[u] \notin Running
    /\ Goto(t, "routing")
    /\ state' = [state EXCEPT ![t] = saved]
    /\ OnChainStart(t, "intent_router")
    /\ UNCHANGED <<saved, intent, attempt, streamed, activeId, begun, answered, tokens, narratives>>

Token(t) ==
    /\ Streaming
    /\ pc[t] \in {"routing", "synthesizing"}
    /\ OnToken(t, attempt[t])
    /\ UNCHANGED graphVars

HasData(t) ==
    \/ \E k \in Keys : state[t].context[k] # NoResult
    \/ state[t].suggestion # NoSuggestion

\* The fallback of a router call that fails.
FallbackIntent(t) == IF HasData(t) THEN "follow_up" ELSE "clarification"

NodeAfter(i) ==
    CASE i = "data_query" -> "mcp_tool_caller"
      [] i = "follow_up" -> "synthesis"
      [] OTHER -> "error_handler"
PlaceOf(node) ==
    CASE node = "mcp_tool_caller" -> "calling"
      [] node = "synthesis" -> "synthesizing"
      [] OTHER -> "handling"

Route(t, i, new) ==
    /\ intent' = [intent EXCEPT ![t] = i]
    /\ Save(t, new)
    /\ Goto(t, PlaceOf(NodeAfter(i)))
    /\ OnChainStart(t, NodeAfter(i))
    /\ OnRouterEnd(t, new.plan)
    /\ UNCHANGED attempt

Planned(t, plan) == [state[t] EXCEPT !.plan = plan, !.plannedBy = t]

\* The router classifies the message.
Classify(t) ==
    /\ pc[t] = "routing"
    /\ \E i \in {"data_query", "follow_up", "clarification"}, plan \in Plans :
           Route(t, i, Planned(t, plan))

\* Mutant: the fallback leaves the plan of the turn before.
RouterFailsKeepsPlan(t) ==
    /\ pc[t] = "routing"
    /\ Route(t, FallbackIntent(t), state[t])

\* The call fails, or its intent is none of the three (then clarification).
RouterFails(t) ==
    /\ pc[t] = "routing"
    /\ \E i \in {FallbackIntent(t), "clarification"} : Route(t, i, Planned(t, <<>>))

-----------------------------------------------------------------------------
(* mcp_tool_caller.                                                        *)

\* _merge_data_context, and its mutants: the first write wins; no reducer.
MergeFirstWins(old, new) ==
    [k \in Keys |-> IF old[k] # NoResult THEN old[k] ELSE new[k]]
MergeReplaces(old, new) == new
Merge(old, new) ==
    [k \in Keys |-> IF new[k] # NoResult THEN new[k] ELSE old[k]]

\* What the calls of the plan return, under the key of each step.
Results(t, plan, outcome) ==
    [k \in Keys |-> IF \E i \in DOMAIN plan : KeyOf(plan, i) = k
                    THEN [turn |-> t, outcome |-> outcome[k[2]]] ELSE NoResult]

ClientsOf(plan) == {plan[i].client : i \in DOMAIN plan} \ {"none"}

\* Mutant: the whole context is searched for "not found".
SuggestsFromContext(old, t, plan, outcome) ==
    IF ClientsOf(plan) # {} /\ \E k \in Keys : state[t].context[k].outcome = "not_found"
    THEN {[turn |-> t, client |-> c] : c \in ClientsOf(plan)}
    ELSE {old}

\* Every client of the plan is searched once one result says "not found"; the
\* last of a set remains.
Suggests(old, t, plan, outcome) ==
    IF ClientsOf(plan) # {} /\ \E i \in DOMAIN plan : outcome[i] = "not_found"
    THEN {[turn |-> t, client |-> c] : c \in ClientsOf(plan)}
    ELSE {old}

\* All steps run, concurrently, and none raises: an unknown tool, a bridge
\* without tools or a failed call is an error result.
CallTools(t) ==
    /\ pc[t] = "calling"
    /\ LET plan == state[t].plan IN
       /\ \E outcome \in [DOMAIN plan -> Outcomes] :
          \E s \in Suggests(state[t].suggestion, t, plan, outcome) :
             Save(t, [state[t] EXCEPT !.context = Merge(@, Results(t, plan, outcome)),
                                      !.suggestion = s])
       /\ OnToolsEnd(t, plan)
    /\ Goto(t, "synthesizing")
    /\ OnChainStart(t, "synthesis")
    /\ UNCHANGED <<intent, attempt>>

-----------------------------------------------------------------------------
(* synthesis and error_handler.                                            *)

SynthesisDone(t) ==
    /\ Goto(t, "done")
    /\ saved' = state[t]
    /\ OnSynthesisEnd(t)
    /\ UNCHANGED <<state, intent, attempt>>

Synthesize(t) == pc[t] = "synthesizing" /\ SynthesisDone(t)

\* The model fails, or its answer does not parse: try again, or apologize.
AttemptFails(t) ==
    /\ pc[t] = "synthesizing"
    /\ IF attempt[t] = MaxRetries THEN SynthesisDone(t)
       ELSE /\ attempt' = [attempt EXCEPT ![t] = @ + 1]
            /\ UNCHANGED <<saved, state, pc, intent, encoderVars>>

\* Mutant: the question goes to the router again.
HandleErrorReroutes(t) ==
    /\ pc[t] = "handling"
    /\ Goto(t, "routing")
    /\ OnChainStart(t, "intent_router")
    /\ UNCHANGED <<saved, state, intent, attempt, streamed, activeId, begun, answered, tokens, narratives>>

HandleError(t) ==
    /\ pc[t] = "handling"
    /\ Goto(t, "done")
    /\ saved' = state[t]
    /\ OnErrorHandlerEnd(t)
    /\ UNCHANGED <<state, intent, attempt>>

\* What no node catches (compaction, the checkpointer), and a client that goes.
Stops(t) ==
    /\ pc[t] \in Running
    /\ \E end \in {"raised", "cancelled"} : Goto(t, end)
    /\ UNCHANGED <<saved, state, intent, attempt, encoderVars>>

-----------------------------------------------------------------------------
ModelNode(t) ==
    \/ Classify(t) \/ RouterFails(t)
    \/ Synthesize(t) \/ AttemptFails(t) \/ HandleError(t)
Node(t) == CallTools(t) \/ ModelNode(t)

Finished == \A t \in Turns : pc[t] \in Ended

Next ==
    \/ \E t \in Turns : Begin(t) \/ Token(t) \/ Node(t) \/ Stops(t)
    \/ Finished /\ UNCHANGED vars

Spec == Init /\ [][Next]_vars

-----------------------------------------------------------------------------
(* Properties.                                                             *)

\* The tools run the plan of their own turn, never one that the checkpoint
\* kept of a turn that failed, was cancelled or fell back.
ToolsRunOwnPlan ==
    \A t \in Turns : pc[t] \in Running \ {"routing"} => state[t].plannedBy = t

\* A data query is answered from what its own calls returned: under the key of
\* every step of the plan stands a result of this turn, an error included,
\* whatever earlier or concurrent turns left there.
FreshResults ==
    \A t \in Turns : pc[t] = "synthesizing" /\ intent[t] = "data_query" =>
        \A i \in DOMAIN state[t].plan :
            state[t].context[KeyOf(state[t].plan, i)].turn = t

\* A suggestion under a turn's name is for a client that its own plan asks for,
\* and some step of that plan came back "not found" to it: a query beside the
\* look-up is enough, no other turn's result is.
SuggestionsGrounded ==
    \A t \in Turns : state[t].suggestion.turn = t =>
        /\ state[t].suggestion.client \in ClientsOf(state[t].plan)
        /\ \E i \in DOMAIN state[t].plan :
               state[t].context[KeyOf(state[t].plan, i)].outcome = "not_found"

\* The dashboard can close every tool call it opened: when the tools have run,
\* each id of a b: frame has had exactly one a: frame.  (Plans that use a tool
\* twice are the exception: the encoder keeps one id per tool name.)
ToolsDistinct(plan) == \A i, j \in DOMAIN plan : plan[i].tool = plan[j].tool => i = j
AnsweredOnce(t) ==
    \A id \in begun[t] : \E i \in DOMAIN answered[t] :
        answered[t][i] = id /\ \A j \in DOMAIN answered[t] : answered[t][j] = id => j = i
DistinctCallsAnswered ==
    \A t \in Turns :
        pc[t] = "synthesizing" /\ intent[t] = "data_query" /\ ToolsDistinct(state[t].plan)
            => AnsweredOnce(t)

\* A turn that ran to its end showed the user its whole narrative once or, if
\* any token of its synthesis was streamed, never ("so the on_chain_end narrative
\* is not emitted twice"), whichever way it took and however often it was tried.
\* Which attempts the tokens are of is not promised: a turn whose every attempt
\* failed after its first token leaves the user with those.
NarrativeShown ==
    \A t \in Turns :
        pc[t] = "done" => narratives[t] = IF tokens[t] = {} THEN 1 ELSE 0

\* What was fetched stays in the thread for the next turn ("raw_data_context
\* persists across turns for follow-up queries"): a turn that has seen the
\* latest checkpoint saves nothing from which a result of it is missing,
\* whichever node it ends on and whatever other turns did before.
NothingLost ==
    \A k \in Keys : saved.context[k] # NoResult => saved'.context[k] # NoResult

ContextPersists ==
    [][\A t \in Turns : pc'[t] # pc[t] /\ state[t] = saved => NothingLost]_vars

\* The models answer or fail.  That CallTools ends is not assumed: it lists the
\* tools without a time-out.
FairSpec == Spec /\ \A t \in Turns : WF_vars(ModelNode(t))

\* A turn ends, if its tools do, however often its synthesis fails.
TurnsEnd ==
    \A t \in Turns : []<>(pc[t] # "calling") => (pc[t] = "routing" ~> pc[t] \in Ended)

(* What the code's comments and prompts say, and the code does not do.     *)

\* "If the raw data contains a _client_suggestions key, the requested client
\* was not found": in the turn being answered.
SuggestionsAreOfThisTurn ==
    \A t \in Turns : pc[t] = "synthesizing" /\ intent[t] = "data_query" =>
        state[t].suggestion \in {NoSuggestion} \cup [turn : {t}, client : Clients]
=============================================================================
