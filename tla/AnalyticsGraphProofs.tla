------------------------ MODULE AnalyticsGraphProofs ------------------------
(***************************************************************************)
(* AnalyticsGraph for any turns, tools, clients and plans.  A turn's       *)
(* guarantees rest on what it has not done yet: before its tools ran,      *)
(* nothing in the thread carries its name.                                 *)
(***************************************************************************)
EXTENDS AnalyticsGraph, FiniteSetTheorems, SequenceTheorems, TLAPS

\* Before CallTools, no suggestion is the turn's own; before Begin, none
\* anywhere in the thread is.
Unheard ==
    \A t \in Turns :
        /\ pc[t] \in {"new", "routing", "calling"} => state[t].suggestion.turn # t
        /\ pc[t] = "new" =>
             /\ saved.suggestion.turn # t
             /\ \A u \in Turns : state[u].suggestion.turn # t

\* The encoder is at the turn's node, and has shown text of synthesis only.
FollowsAt(t) ==
    /\ pc[t] \in {"new", "routing", "calling", "handling"}
         => tokens[t] = {} /\ narratives[t] = 0 /\ ~streamed[t]
    /\ pc[t] \in {"routing", "calling", "handling"} => currentNode[t] \in ReasoningNodes
    /\ pc[t] = "synthesizing" => narratives[t] = 0 /\ (streamed[t] <=> tokens[t] # {})

EncoderFollows == \A t \in Turns : FollowsAt(t)

\* Without overlap the one run that is under way holds the checkpoint.
OneRun ==
    Overlap \/ \A t, u \in Turns : pc[t] \in Running =>
                   state[t] = saved /\ (pc[u] \in Running => u = t)

\* The encoder has begun and answered nothing before the nodes that do it ran;
\* in between it knows, for each tool of the plan, the id of its last step.
IdsKnown ==
    \A t \in Turns :
        /\ pc[t] \in {"new", "routing"} => begun[t] = {}
        /\ pc[t] \in {"new", "routing", "calling"} => answered[t] = <<>>
        /\ pc[t] = "calling" =>
             /\ begun[t] = DOMAIN state[t].plan
             /\ \A i \in DOMAIN state[t].plan :
                    activeId[t][state[t].plan[i].tool]
                        = LastIndexOf(state[t].plan, state[t].plan[i].tool)

-----------------------------------------------------------------------------
(* Lemmas about the operators.                                             *)

LEMMA Places ==
    /\ PlaceOf(NodeAfter("data_query")) = "calling"
    /\ PlaceOf(NodeAfter("follow_up")) = "synthesizing"
    /\ PlaceOf(NodeAfter("clarification")) = "handling"
    /\ NodeAfter("data_query") = "mcp_tool_caller"
    /\ NodeAfter("follow_up") = "synthesis"
    /\ NodeAfter("clarification") = "error_handler"
BY DEF PlaceOf, NodeAfter

LEMMA KeysOfPlans ==
    ASSUME NEW plan \in Plans, NEW i \in DOMAIN plan
    PROVE  KeyOf(plan, i) \in Keys
BY DEF Keys

LEMMA PlanShape ==
    ASSUME NEW plan \in Plans
    PROVE  plan \in Seq(Steps) /\ DOMAIN plan \subseteq Nat
BY GraphAssumption

LEMMA IntentKnown ==
    ASSUME NEW t \in Turns
    PROVE  FallbackIntent(t) \in {"data_query", "follow_up", "clarification"}
BY DEF FallbackIntent

\* Among the steps with the tool one has no later one: of the sets of later
\* steps, take a minimal one.
LEMMA LastIndexFound ==
    ASSUME NEW plan \in Plans, NEW tool, \E i \in DOMAIN plan : plan[i].tool = tool
    PROVE  LastIndexOf(plan, tool) \in DOMAIN plan /\ plan[LastIndexOf(plan, tool)].tool = tool
<1> DEFINE uses == {i \in DOMAIN plan : plan[i].tool = tool}
           Later(i) == {j \in uses : j > i}
           sets == {Later(i) : i \in uses}
<1>1. DOMAIN plan = 1..Len(plan) /\ Len(plan) \in Nat  BY PlanShape
<1>2. IsFiniteSet(uses)
  <2>1. IsFiniteSet(1..Len(plan))  BY <1>1, FS_Interval
  <2>2. QED  BY <2>1, <1>1, FS_Subset
<1>3. IsWellFoundedOn(StrictSubsetOrdering(uses), SUBSET uses)
  BY <1>2, FS_StrictSubsetOrderingWellFounded, FS_FiniteSubsetsOfFinite
<1>4. sets \subseteq SUBSET uses /\ sets # {}  OBVIOUS
<1>5. PICK s \in sets : \A r \in sets : <<r, s>> \notin StrictSubsetOrdering(uses)
  BY <1>3, <1>4, WFMin
<1>6. PICK i \in uses : s = Later(i)  BY <1>5
<1>7. ASSUME NEW j \in uses, j > i  PROVE FALSE
  <2>1. Later(j) \subseteq Later(i) /\ j \in Later(i) /\ j \notin Later(j)
    BY <1>1, <1>7
  <2>2. <<Later(j), Later(i)>> \in StrictSubsetOrdering(uses)
    BY <2>1 DEF StrictSubsetOrdering
  <2>3. QED  BY <2>2, <1>5, <1>6
<1>8. \A j \in uses : j <= i  BY <1>7, <1>1
<1>9. LastIndexOf(plan, tool) \in uses  BY <1>8 DEF LastIndexOf
<1>10. QED  BY <1>9

-----------------------------------------------------------------------------
(* Types.                                                                  *)

GraphTyped ==
    /\ saved \in ThreadState
    /\ state \in [Turns -> ThreadState]
    /\ pc \in [Turns -> {"new"} \cup Running \cup Ended]
    /\ intent \in [Turns -> {"none", "data_query", "follow_up", "clarification"}]
    /\ attempt \in [Turns -> 0..MaxRetries]

LEMMA PlannedTyped ==
    ASSUME GraphTyped, NEW t \in Turns, NEW plan \in Plans
    PROVE  Planned(t, plan) \in ThreadState
BY DEF GraphTyped, Planned, ThreadState

LEMMA ResultsTyped ==
    ASSUME NEW t \in Turns, NEW plan \in Plans, NEW outcome \in [DOMAIN plan -> Outcomes]
    PROVE  Results(t, plan, outcome) \in [Keys -> Result \cup {NoResult}]
BY DEF Results, Result, KeyOf

LEMMA MergeTyped ==
    ASSUME NEW old \in [Keys -> Result \cup {NoResult}],
           NEW new \in [Keys -> Result \cup {NoResult}]
    PROVE  Merge(old, new) \in [Keys -> Result \cup {NoResult}]
BY DEF Merge

LEMMA SuggestsTyped ==
    ASSUME NEW t \in Turns, NEW plan \in Plans, NEW outcome \in [DOMAIN plan -> Outcomes],
           NEW old \in Suggestion \cup {NoSuggestion}, NEW s \in Suggests(old, t, plan, outcome)
    PROVE  s \in Suggestion \cup {NoSuggestion}
<1>1. ClientsOf(plan) \subseteq Clients
  <2>1. \A i \in DOMAIN plan : plan[i] \in Steps  BY PlanShape
  <2>2. QED  BY <2>1 DEF ClientsOf, Steps
<1>2. QED  BY <1>1 DEF Suggests, Suggestion

LEMMA RouteTyped ==
    ASSUME GraphTyped, NEW t \in Turns, NEW i \in {"data_query", "follow_up", "clarification"},
           NEW new \in ThreadState, Route(t, i, new)
    PROVE  GraphTyped'
<1>1. PlaceOf(NodeAfter(i)) \in Running  BY Places DEF Running
<1>2. QED  BY <1>1 DEF GraphTyped, Route, Save, Goto

LEMMA CallToolsTyped ==
    ASSUME GraphTyped, NEW t \in Turns, CallTools(t)
    PROVE  GraphTyped'
<1> DEFINE plan == state[t].plan
<1>1. state[t] \in ThreadState /\ plan \in Plans  BY DEF GraphTyped, ThreadState
<1>2. PICK outcome \in [DOMAIN plan -> Outcomes] :
        \E s \in Suggests(state[t].suggestion, t, plan, outcome) :
          Save(t, [state[t] EXCEPT !.context = Merge(@, Results(t, plan, outcome)),
                                   !.suggestion = s])
  BY DEF CallTools
<1>3. PICK s \in Suggests(state[t].suggestion, t, plan, outcome) :
          Save(t, [state[t] EXCEPT !.context = Merge(@, Results(t, plan, outcome)),
                                   !.suggestion = s])
  BY <1>2
<1>4. s \in Suggestion \cup {NoSuggestion}
  <2>1. state[t].suggestion \in Suggestion \cup {NoSuggestion}  BY <1>1 DEF ThreadState
  <2>2. QED  BY <2>1, <1>1, SuggestsTyped
<1>5. Merge(state[t].context, Results(t, plan, outcome)) \in [Keys -> Result \cup {NoResult}]
  <2>1. state[t].context \in [Keys -> Result \cup {NoResult}]  BY <1>1 DEF ThreadState
  <2>2. QED  BY <2>1, <1>1, ResultsTyped, MergeTyped
<1>6. [state[t] EXCEPT !.context = Merge(@, Results(t, plan, outcome)),
                       !.suggestion = s] \in ThreadState
  BY <1>1, <1>4, <1>5 DEF ThreadState
<1>7. QED  BY <1>3, <1>6 DEF GraphTyped, CallTools, Save, Goto, Running

LEMMA GraphTypes ==
    ASSUME GraphTyped, [Next]_vars
    PROVE  GraphTyped'
<1>1. CASE UNCHANGED vars  BY <1>1 DEF GraphTyped, vars, graphVars
<1>2. ASSUME NEW t \in Turns, Begin(t)  PROVE GraphTyped'
  BY <1>2 DEF GraphTyped, Begin, Goto, Running
<1>3. ASSUME NEW t \in Turns, Token(t)  PROVE GraphTyped'
  BY <1>3 DEF GraphTyped, Token, graphVars
<1>4. ASSUME NEW t \in Turns, Classify(t)  PROVE GraphTyped'
  BY <1>4, PlannedTyped, RouteTyped DEF Classify
<1>5. ASSUME NEW t \in Turns, RouterFails(t)  PROVE GraphTyped'
  BY <1>5, PlannedTyped, RouteTyped, IntentKnown, GraphAssumption DEF RouterFails
<1>6. ASSUME NEW t \in Turns, CallTools(t)  PROVE GraphTyped'
  BY <1>6, CallToolsTyped
<1>7. ASSUME NEW t \in Turns, Synthesize(t) \/ HandleError(t)  PROVE GraphTyped'
  BY <1>7 DEF GraphTyped, Synthesize, SynthesisDone, HandleError, Goto, Ended
<1>8. ASSUME NEW t \in Turns, AttemptFails(t)  PROVE GraphTyped'
  <2>1. CASE SynthesisDone(t)  BY <2>1 DEF GraphTyped, SynthesisDone, Goto, Ended
  <2>2. CASE /\ attempt[t] # MaxRetries
             /\ attempt' = [attempt EXCEPT ![t] = @ + 1]
             /\ UNCHANGED <<saved, state, pc, intent>>
    <3>1. MaxRetries \in Nat  BY GraphAssumption
    <3>2. attempt[t] + 1 \in 0..MaxRetries  BY <2>2, <3>1 DEF GraphTyped
    <3>3. QED  BY <2>2, <3>2 DEF GraphTyped
  <2>3. QED  BY <1>8, <2>1, <2>2 DEF AttemptFails
<1>9. ASSUME NEW t \in Turns, Stops(t)  PROVE GraphTyped'
  BY <1>9 DEF GraphTyped, Stops, Goto, Ended
<1>10. QED
  BY <1>1, <1>2, <1>3, <1>4, <1>5, <1>6, <1>7, <1>8, <1>9 DEF Next, Node, ModelNode

\* The encoder; streamed, a Boolean, goes on its own.
EncoderTyped ==
    /\ currentNode \in [Turns -> Nodes \cup {"none"}]
    /\ activeId \in [Turns -> [Tools -> Nat]]
    /\ begun \in [Turns -> SUBSET Nat]
    /\ answered \in [Turns -> Seq(Nat)]
    /\ tokens \in [Turns -> SUBSET Nat]
    /\ narratives \in [Turns -> Nat]

LEMMA RouterEndTyped ==
    ASSUME EncoderTyped, NEW t \in Turns, NEW node \in Nodes, NEW plan \in Plans,
           OnChainStart(t, node), OnRouterEnd(t, plan)
    PROVE  EncoderTyped'
<1> DEFINE ids == [tool \in Tools |-> IF \E i \in DOMAIN plan : plan[i].tool = tool
                                       THEN LastIndexOf(plan, tool) ELSE activeId[t][tool]]
<1>1. DOMAIN plan \subseteq Nat  BY PlanShape
<1>2. ids \in [Tools -> Nat]
  <2>1. ASSUME NEW tool \in Tools  PROVE ids[tool] \in Nat
    <3>1. CASE \E i \in DOMAIN plan : plan[i].tool = tool
      BY <3>1, <1>1, LastIndexFound
    <3>2. CASE ~ \E i \in DOMAIN plan : plan[i].tool = tool
      BY <3>2 DEF EncoderTyped
    <3>3. QED  BY <3>1, <3>2
  <2>2. QED  BY <2>1
<1>3. activeId' = [activeId EXCEPT ![t] = ids]  BY DEF OnRouterEnd, EncoderTyped
<1>4. activeId' \in [Turns -> [Tools -> Nat]]
  <2> HIDE DEF ids
  <2>1. QED  BY <1>2, <1>3 DEF EncoderTyped
<1>5. QED  BY <1>1, <1>4 DEF EncoderTyped, OnChainStart, OnRouterEnd

LEMMA ToolsEndTyped ==
    ASSUME EncoderTyped, NEW t \in Turns, NEW plan \in Plans,
           OnChainStart(t, "synthesis"), OnToolsEnd(t, plan)
    PROVE  EncoderTyped'
<1> DEFINE ids == [i \in DOMAIN plan |-> activeId[t][plan[i].tool]]
<1>1. plan \in Seq(Steps) /\ DOMAIN plan = 1..Len(plan) /\ Len(plan) \in Nat  BY PlanShape
<1>2. \A i \in DOMAIN plan : plan[i].tool \in Tools
  <2>1. \A i \in DOMAIN plan : plan[i] \in Steps  BY <1>1
  <2>2. \A step \in Steps : step.tool \in Tools  BY DEF Steps
  <2>3. QED  BY <2>1, <2>2
<1>3. \A i \in DOMAIN plan : activeId[t][plan[i].tool] \in Nat  BY <1>2 DEF EncoderTyped
<1>4. ids \in Seq(Nat)  BY <1>1, <1>3, IsASeq
<1>5. answered[t] \o ids \in Seq(Nat)
  <2> HIDE DEF ids
  <2>1. QED  BY <1>4, ConcatProperties DEF EncoderTyped
<1>6. QED  BY <1>5 DEF EncoderTyped, OnChainStart, OnToolsEnd, Nodes

LEMMA EncoderTypes ==
    ASSUME GraphTyped, EncoderTyped, [Next]_vars
    PROVE  EncoderTyped'
<1>1. CASE UNCHANGED encoderVars  BY <1>1 DEF EncoderTyped, encoderVars
<1>2. ASSUME NEW t \in Turns, Begin(t)  PROVE EncoderTyped'
  BY <1>2 DEF EncoderTyped, Begin, OnChainStart, Nodes
<1>3. ASSUME NEW t \in Turns, Token(t)  PROVE EncoderTyped'
  <2>1. tokens[t] \cup {attempt[t]} \in SUBSET Nat
    BY GraphAssumption DEF EncoderTyped, GraphTyped
  <2>2. tokens' = tokens \/ tokens' = [tokens EXCEPT ![t] = tokens[t] \cup {attempt[t]}]
    BY <1>3 DEF Token, OnToken
  <2>3. tokens' \in [Turns -> SUBSET Nat]
    BY <2>1, <2>2 DEF EncoderTyped
  <2>4. QED  BY <1>3, <2>3 DEF EncoderTyped, Token, OnToken
<1>4. ASSUME NEW t \in Turns, NEW i \in {"data_query", "follow_up", "clarification"},
             NEW plan \in Plans, Route(t, i, Planned(t, plan))
      PROVE  EncoderTyped'
  <2>1. Planned(t, plan).plan = plan
    BY DEF Planned, GraphTyped, ThreadState
  <2>2. NodeAfter(i) \in Nodes  BY Places DEF Nodes
  <2>3. QED  BY <1>4, <2>1, <2>2, RouterEndTyped DEF Route
<1>5. ASSUME NEW t \in Turns, CallTools(t)  PROVE EncoderTyped'
  <2>1. state[t].plan \in Plans  BY DEF GraphTyped, ThreadState
  <2>2. QED  BY <1>5, <2>1, ToolsEndTyped DEF CallTools
<1>6. ASSUME NEW t \in Turns, OnSynthesisEnd(t) \/ OnErrorHandlerEnd(t)  PROVE EncoderTyped'
  <2>1. narratives[t] + 1 \in Nat  BY DEF EncoderTyped
  <2>2. \E new \in Nat : narratives' = [narratives EXCEPT ![t] = new]
    BY <1>6, <2>1 DEF EncoderTyped, OnSynthesisEnd, OnErrorHandlerEnd
  <2>3. narratives' \in [Turns -> Nat]
    BY <2>2 DEF EncoderTyped
  <2>4. QED  BY <1>6, <2>3 DEF EncoderTyped, OnSynthesisEnd, OnErrorHandlerEnd
<1>7. QED
  <2>1. ASSUME NEW t \in Turns, Classify(t)  PROVE EncoderTyped'
    BY <2>1, <1>4 DEF Classify
  <2>2. ASSUME NEW t \in Turns, RouterFails(t)  PROVE EncoderTyped'
    BY <2>2, <1>4, IntentKnown, GraphAssumption DEF RouterFails
  <2>3. ASSUME NEW t \in Turns, Synthesize(t) \/ AttemptFails(t) \/ HandleError(t) \/ Stops(t)
        PROVE  EncoderTyped'
    BY <2>3, <1>1, <1>6 DEF Synthesize, AttemptFails, SynthesisDone, HandleError, Stops
  <2>4. QED
    BY <1>1, <1>2, <1>3, <1>5, <2>1, <2>2, <2>3 DEF Next, Node, ModelNode, vars

LEMMA StreamedTyped ==
    ASSUME streamed \in [Turns -> BOOLEAN], [Next]_vars
    PROVE  streamed' \in [Turns -> BOOLEAN]
<1>1. CASE streamed' = streamed  BY <1>1, Zenon
<1>2. CASE \E t \in Turns : streamed' = [streamed EXCEPT ![t] = TRUE]  BY <1>2, Zenon
<1>3. streamed' = streamed \/ \E t \in Turns : streamed' = [streamed EXCEPT ![t] = TRUE]
  <2>1. ASSUME NEW t \in Turns, Token(t)
        PROVE  streamed' = streamed \/ streamed' = [streamed EXCEPT ![t] = TRUE]
    <3>1. OnToken(t, attempt[t])  BY <2>1 DEF Token
    <3>2. QED  BY <3>1, Zenon DEF OnToken
  <2>2. ASSUME NEW t \in Turns, Begin(t) \/ CallTools(t) \/ Stops(t)
        PROVE  streamed' = streamed
    BY <2>2 DEF Begin, CallTools, OnToolsEnd, Stops, encoderVars
  <2>3. ASSUME NEW t \in Turns, Classify(t) \/ RouterFails(t)
        PROVE  streamed' = streamed
    BY <2>3 DEF Classify, RouterFails, Route, OnRouterEnd
  <2>4. ASSUME NEW t \in Turns, Synthesize(t) \/ AttemptFails(t) \/ HandleError(t)
        PROVE  streamed' = streamed
    BY <2>4 DEF Synthesize, SynthesisDone, OnSynthesisEnd, AttemptFails, HandleError,
                OnErrorHandlerEnd, encoderVars
  <2>5. QED  BY <2>1, <2>2, <2>3, <2>4 DEF Next, Node, ModelNode, vars, encoderVars
<1>4. QED  BY <1>1, <1>2, <1>3

LEMMA TypeStep ==
    ASSUME TypeOK, [Next]_vars
    PROVE  TypeOK'
<1>1. GraphTyped /\ EncoderTyped /\ streamed \in [Turns -> BOOLEAN]
  BY Zenon DEF TypeOK, EncoderTypeOK, GraphTyped, EncoderTyped
<1>2. GraphTyped' /\ EncoderTyped' /\ streamed' \in [Turns -> BOOLEAN]
  BY <1>1, GraphTypes, EncoderTypes, StreamedTyped
<1>3. QED  BY <1>2, Zenon DEF TypeOK, EncoderTypeOK, GraphTyped, EncoderTyped

LEMMA TypeInit == Init => TypeOK
<1> SUFFICES ASSUME Init PROVE TypeOK  OBVIOUS
<1>1. EmptyState \in ThreadState
  BY GraphAssumption DEF EmptyState, ThreadState
<1>2. MaxRetries \in Nat  BY GraphAssumption
<1>3. streamed \in [Turns -> BOOLEAN]  BY Zenon DEF Init, EncoderInit
<1>4. EncoderTyped  BY DEF Init, EncoderInit, EncoderTyped
<1>5. GraphTyped  BY <1>1, <1>2 DEF Init, GraphTyped
<1>6. QED  BY <1>3, <1>4, <1>5, Zenon DEF TypeOK, EncoderTypeOK, GraphTyped, EncoderTyped

\* Every reachable state of the graph, its checkpoint and its encoders is well
\* typed; so a turn counts at most SYNTHESIS_MAX_RETRIES failed attempts.
THEOREM TypeCorrect == Spec => []TypeOK
<1>1. TypeOK /\ [Next]_vars => TypeOK'  BY TypeStep
<1>2. QED  BY <1>1, TypeInit, PTL DEF Spec

-----------------------------------------------------------------------------
(* What a step does to the thread, in five shapes.                         *)

Intents == {"data_query", "follow_up", "clarification"}

Routes(t) ==
    /\ pc[t] = "routing"
    /\ \E i \in Intents, plan \in Plans : Route(t, i, Planned(t, plan))

\* The run ends; its state may be the last checkpoint.
Ends(t) ==
    /\ pc[t] \in Running
    /\ \E end \in Ended : Goto(t, end)
    /\ saved' \in {saved, state[t]}
    /\ UNCHANGED <<state, intent>>

LEMMA StepShapes ==
    ASSUME TypeOK, [Next]_vars
    PROVE  \/ UNCHANGED <<saved, state, pc, intent>>
           \/ \E t \in Turns : Begin(t) \/ Routes(t) \/ CallTools(t) \/ Ends(t)
<1>1. CASE UNCHANGED vars  BY <1>1 DEF vars, graphVars
<1>2. ASSUME NEW t \in Turns, Classify(t) \/ RouterFails(t)  PROVE Routes(t)
  BY <1>2, IntentKnown, GraphAssumption DEF Classify, RouterFails, Routes, Intents
<1>3. ASSUME NEW t \in Turns, SynthesisDone(t), pc[t] = "synthesizing"  PROVE Ends(t)
  BY <1>3 DEF SynthesisDone, Ends, Running, Ended
<1>4. ASSUME NEW t \in Turns, HandleError(t) \/ Stops(t)  PROVE Ends(t)
  BY <1>4 DEF HandleError, Stops, Ends, Running, Ended
<1>5. ASSUME NEW t \in Turns, Token(t)  PROVE UNCHANGED <<saved, state, pc, intent>>
  BY <1>5 DEF Token, graphVars
<1>6. ASSUME NEW t \in Turns, Synthesize(t) \/ AttemptFails(t)
      PROVE  Ends(t) \/ UNCHANGED <<saved, state, pc, intent>>
  BY <1>3, <1>6 DEF Synthesize, AttemptFails
<1>7. QED
  BY <1>1, <1>2, <1>4, <1>5, <1>6 DEF Next, Node, ModelNode

\* A routed run keeps all of the thread's state but its plan.
LEMMA RoutesDoes ==
    ASSUME TypeOK, NEW t \in Turns, Routes(t)
    PROVE  \E i \in Intents, plan \in Plans :
             /\ state' = [state EXCEPT ![t] = Planned(t, plan)]
             /\ saved' = Planned(t, plan)
             /\ Planned(t, plan).plannedBy = t
             /\ Planned(t, plan).plan = plan
             /\ Planned(t, plan).context = state[t].context
             /\ Planned(t, plan).suggestion = state[t].suggestion
             /\ pc' = [pc EXCEPT ![t] = PlaceOf(NodeAfter(i))]
             /\ intent' = [intent EXCEPT ![t] = i]
             /\ PlaceOf(NodeAfter(i)) \in {"calling", "synthesizing", "handling"}
             /\ i = "data_query" => PlaceOf(NodeAfter(i)) = "calling"
<1>1. PICK i \in Intents, plan \in Plans : Route(t, i, Planned(t, plan))  BY DEF Routes
<1>2. state[t] \in ThreadState  BY DEF TypeOK
<1>3. /\ Planned(t, plan).plannedBy = t
      /\ Planned(t, plan).plan = plan
      /\ Planned(t, plan).context = state[t].context
      /\ Planned(t, plan).suggestion = state[t].suggestion
  BY <1>2 DEF Planned, ThreadState
<1>4. /\ PlaceOf(NodeAfter(i)) \in {"calling", "synthesizing", "handling"}
      /\ i = "data_query" => PlaceOf(NodeAfter(i)) = "calling"
  BY Places DEF Intents
<1>5. QED  BY <1>1, <1>3, <1>4 DEF Route, Save, Goto

\* The tools leave their results under their keys, and perhaps a suggestion.
LEMMA CallToolsDoes ==
    ASSUME TypeOK, NEW t \in Turns, CallTools(t)
    PROVE  \E outcome \in [DOMAIN state[t].plan -> Outcomes], new \in ThreadState :
             /\ state' = [state EXCEPT ![t] = new]
             /\ saved' = new
             /\ new.plan = state[t].plan
             /\ new.plannedBy = state[t].plannedBy
             /\ \A i \in DOMAIN state[t].plan :
                  new.context[KeyOf(state[t].plan, i)] = [turn |-> t, outcome |-> outcome[i]]
             /\ \A k \in Keys : state[t].context[k] # NoResult => new.context[k] # NoResult
             /\ new.suggestion \in Suggests(state[t].suggestion, t, state[t].plan, outcome)
<1> DEFINE plan == state[t].plan
           Merged(outcome) == Merge(state[t].context, Results(t, plan, outcome))
           New(outcome, s) == [state[t] EXCEPT !.context = Merged(outcome), !.suggestion = s]
<1>1. PICK outcome \in [DOMAIN plan -> Outcomes] :
        \E s \in Suggests(state[t].suggestion, t, plan, outcome) : Save(t, New(outcome, s))
  BY DEF CallTools
<1>2. PICK s \in Suggests(state[t].suggestion, t, plan, outcome) : Save(t, New(outcome, s))
  BY <1>1
<1>3. state[t] \in ThreadState /\ plan \in Plans  BY DEF TypeOK, ThreadState
<1>4. /\ New(outcome, s).plan = plan
      /\ New(outcome, s).plannedBy = state[t].plannedBy
      /\ New(outcome, s).context = Merged(outcome)
      /\ New(outcome, s).suggestion = s
  BY <1>3 DEF ThreadState
<1>5. \A i \in DOMAIN plan :
        Merged(outcome)[KeyOf(plan, i)] = [turn |-> t, outcome |-> outcome[i]]
  <2>1. TAKE i \in DOMAIN plan
  <2>2. KeyOf(plan, i) \in Keys /\ KeyOf(plan, i)[2] = i
    BY <1>3, KeysOfPlans DEF KeyOf
  <2>3. Results(t, plan, outcome)[KeyOf(plan, i)] = [turn |-> t, outcome |-> outcome[i]]
    BY <2>2 DEF Results
  <2>4. [turn |-> t, outcome |-> outcome[i]] # NoResult
    BY GraphAssumption DEF NoResult
  <2>5. QED  BY <2>2, <2>3, <2>4 DEF Merge
<1>6. \A k \in Keys : state[t].context[k] # NoResult => Merged(outcome)[k] # NoResult
  BY DEF Merge
<1>7. New(outcome, s) \in ThreadState
  <2>1. GraphTyped'  BY CallToolsTyped DEF TypeOK, GraphTyped
  <2>2. QED  BY <2>1, <1>2 DEF GraphTyped, Save
<1>8. QED
  <2> HIDE DEF New
  <2>1. WITNESS outcome \in [DOMAIN state[t].plan -> Outcomes], New(outcome, s) \in ThreadState
  <2>2. QED  BY <1>2, <1>4, <1>5, <1>6 DEF Save

-----------------------------------------------------------------------------
(* The plan, the results and the suggestion of a turn are its own.         *)

LEMMA OwnPlanStep ==
    ASSUME TypeOK, ToolsRunOwnPlan, [Next]_vars
    PROVE  ToolsRunOwnPlan'
<1>1. CASE UNCHANGED <<saved, state, pc, intent>>  BY <1>1 DEF ToolsRunOwnPlan
<1>2. ASSUME NEW t \in Turns, Begin(t)  PROVE ToolsRunOwnPlan'
  BY <1>2 DEF TypeOK, ToolsRunOwnPlan, Begin, Goto
<1>3. ASSUME NEW t \in Turns, Routes(t)  PROVE ToolsRunOwnPlan'
  BY <1>3, RoutesDoes DEF TypeOK, ToolsRunOwnPlan
<1>4. ASSUME NEW t \in Turns, CallTools(t)  PROVE ToolsRunOwnPlan'
  <2>1. pc[t] = "calling" /\ pc' = [pc EXCEPT ![t] = "synthesizing"]
    BY <1>4 DEF CallTools, Goto
  <2>2. PICK new \in ThreadState : /\ state' = [state EXCEPT ![t] = new]
                                   /\ new.plannedBy = state[t].plannedBy
    BY <1>4, CallToolsDoes
  <2>3. QED  BY <2>1, <2>2 DEF TypeOK, ToolsRunOwnPlan, Running
<1>5. ASSUME NEW t \in Turns, Ends(t)  PROVE ToolsRunOwnPlan'
  BY <1>5 DEF TypeOK, ToolsRunOwnPlan, Ends, Goto, Running, Ended
<1>6. QED  BY <1>1, <1>2, <1>3, <1>4, <1>5, StepShapes

LEMMA FreshStep ==
    ASSUME TypeOK, FreshResults, [Next]_vars
    PROVE  FreshResults'
<1>1. CASE UNCHANGED <<saved, state, pc, intent>>  BY <1>1 DEF FreshResults
<1>2. ASSUME NEW t \in Turns, Begin(t)  PROVE FreshResults'
  BY <1>2 DEF TypeOK, FreshResults, Begin, Goto
<1>3. ASSUME NEW t \in Turns, Routes(t)  PROVE FreshResults'
  BY <1>3, RoutesDoes DEF TypeOK, FreshResults
<1>4. ASSUME NEW t \in Turns, CallTools(t)  PROVE FreshResults'
  <2>1. pc' = [pc EXCEPT ![t] = "synthesizing"] /\ intent' = intent
    BY <1>4 DEF CallTools, Goto
  <2>2. PICK outcome \in [DOMAIN state[t].plan -> Outcomes], new \in ThreadState :
          /\ state' = [state EXCEPT ![t] = new]
          /\ new.plan = state[t].plan
          /\ \A i \in DOMAIN state[t].plan :
               new.context[KeyOf(state[t].plan, i)] = [turn |-> t, outcome |-> outcome[i]]
    BY <1>4, CallToolsDoes
  <2>3. ASSUME NEW i \in DOMAIN new.plan
        PROVE  new.context[KeyOf(new.plan, i)].turn = t
    <3>1. new.context[KeyOf(new.plan, i)] = [turn |-> t, outcome |-> outcome[i]]
      BY <2>2, Zenon
    <3>2. QED  BY <3>1
  <2>4. QED  BY <2>1, <2>2, <2>3 DEF TypeOK, FreshResults
<1>5. ASSUME NEW t \in Turns, Ends(t)  PROVE FreshResults'
  BY <1>5 DEF TypeOK, FreshResults, Ends, Goto, Ended
<1>6. QED  BY <1>1, <1>2, <1>3, <1>4, <1>5, StepShapes

\* What SuggestionsGrounded says of one turn's state.
Grounded(t, st) ==
    st.suggestion.turn = t =>
        /\ st.suggestion.client \in ClientsOf(st.plan)
        /\ \E i \in DOMAIN st.plan : st.context[KeyOf(st.plan, i)].outcome = "not_found"

LEMMA ToolsSuggest ==
    ASSUME TypeOK, Unheard, NEW t \in Turns, CallTools(t)
    PROVE  \E new \in ThreadState :
             /\ state' = [state EXCEPT ![t] = new]
             /\ saved' = new
             /\ Grounded(t, new)
             /\ new.suggestion.turn \in {t, state[t].suggestion.turn}
<1>1. PICK outcome \in [DOMAIN state[t].plan -> Outcomes], new \in ThreadState :
        /\ state' = [state EXCEPT ![t] = new]
        /\ saved' = new
        /\ new.plan = state[t].plan
        /\ \A i \in DOMAIN state[t].plan :
             new.context[KeyOf(state[t].plan, i)] = [turn |-> t, outcome |-> outcome[i]]
        /\ new.suggestion \in Suggests(state[t].suggestion, t, state[t].plan, outcome)
  BY CallToolsDoes
<1>2. state[t].suggestion.turn # t  BY DEF Unheard, CallTools
<1>3. CASE new.suggestion = state[t].suggestion
  BY <1>1, <1>2, <1>3 DEF Grounded
<1>4. CASE new.suggestion # state[t].suggestion
  <2>1. PICK i \in DOMAIN state[t].plan : outcome[i] = "not_found"
    BY <1>1, <1>4 DEF Suggests
  <2>2. PICK c \in ClientsOf(state[t].plan) : new.suggestion = [turn |-> t, client |-> c]
    BY <1>1, <1>4 DEF Suggests
  <2>3. new.context[KeyOf(new.plan, i)].outcome = "not_found" /\ i \in DOMAIN new.plan
    <3>1. new.context[KeyOf(new.plan, i)] = [turn |-> t, outcome |-> outcome[i]]
      BY <1>1, Zenon
    <3>2. QED  BY <1>1, <2>1, <3>1
  <2>4. Grounded(t, new)  BY <1>1, <2>2, <2>3 DEF Grounded
  <2>5. new.suggestion.turn = t  BY <2>2
  <2>6. QED  BY <1>1, <2>4, <2>5, Zenon
<1>5. QED  BY <1>3, <1>4

LEMMA GroundedStep ==
    ASSUME TypeOK, SuggestionsGrounded, Unheard, [Next]_vars
    PROVE  SuggestionsGrounded'
<1>1. SuggestionsGrounded <=> \A t \in Turns : Grounded(t, state[t])
  BY DEF SuggestionsGrounded, Grounded
<1>2. SuggestionsGrounded' <=> \A t \in Turns : Grounded(t, state'[t])
  BY DEF SuggestionsGrounded, Grounded
<1>3. CASE UNCHANGED <<saved, state, pc, intent>>  BY <1>1, <1>2, <1>3
<1>4. ASSUME NEW t \in Turns, Begin(t)  PROVE SuggestionsGrounded'
  <2>1. saved.suggestion.turn # t /\ state' = [state EXCEPT ![t] = saved]
    BY <1>4 DEF Unheard, Begin
  <2>2. Grounded(t, saved)  BY <2>1 DEF Grounded
  <2>3. QED  BY <1>1, <1>2, <2>1, <2>2 DEF TypeOK
<1>5. ASSUME NEW t \in Turns, Routes(t)  PROVE SuggestionsGrounded'
  <2>1. PICK new : state' = [state EXCEPT ![t] = new] /\ new.suggestion = state[t].suggestion
    BY <1>5, RoutesDoes
  <2>2. state[t].suggestion.turn # t  BY <1>5 DEF Unheard, Routes
  <2>3. Grounded(t, new)  BY <2>1, <2>2 DEF Grounded
  <2>4. QED  BY <1>1, <1>2, <2>1, <2>3 DEF TypeOK
<1>6. ASSUME NEW t \in Turns, CallTools(t)  PROVE SuggestionsGrounded'
  BY <1>1, <1>2, <1>6, ToolsSuggest DEF TypeOK
<1>7. ASSUME NEW t \in Turns, Ends(t)  PROVE SuggestionsGrounded'
  BY <1>1, <1>2, <1>7 DEF Ends
<1>8. QED  BY <1>3, <1>4, <1>5, <1>6, <1>7, StepShapes

LEMMA UnheardStep ==
    ASSUME TypeOK, Unheard, [Next]_vars
    PROVE  Unheard'
<1>1. CASE UNCHANGED <<saved, state, pc, intent>>  BY <1>1 DEF Unheard
<1>2. ASSUME NEW t \in Turns, Begin(t)  PROVE Unheard'
  BY <1>2 DEF TypeOK, Unheard, Begin, Goto
<1>3. ASSUME NEW t \in Turns, Routes(t)  PROVE Unheard'
  <2>1. pc[t] = "routing"  BY <1>3 DEF Routes
  <2>2. QED  BY <1>3, <2>1, RoutesDoes DEF TypeOK, Unheard
<1>4. ASSUME NEW t \in Turns, CallTools(t)  PROVE Unheard'
  <2>1. pc[t] = "calling" /\ pc' = [pc EXCEPT ![t] = "synthesizing"]
    BY <1>4 DEF CallTools, Goto
  <2>2. PICK new \in ThreadState :
          /\ state' = [state EXCEPT ![t] = new]
          /\ saved' = new
          /\ new.suggestion.turn \in {t, state[t].suggestion.turn}
    BY <1>4, ToolsSuggest
  <2>3. QED  BY <2>1, <2>2 DEF TypeOK, Unheard
<1>5. ASSUME NEW t \in Turns, Ends(t)  PROVE Unheard'
  BY <1>5 DEF TypeOK, Unheard, Ends, Goto, Ended
<1>6. QED  BY <1>1, <1>2, <1>3, <1>4, <1>5, StepShapes

LEMMA ThreadInit ==
    Init => ToolsRunOwnPlan /\ FreshResults /\ SuggestionsGrounded /\ Unheard
BY GraphAssumption
DEF Init, EmptyState, NoSuggestion, ToolsRunOwnPlan, FreshResults, SuggestionsGrounded,
    Unheard, Running

\* The tools run the plan their own turn's router wrote, whatever the turns
\* before it left in the checkpoint and whichever of them was cut off.
THEOREM OwnPlanRuns == Spec => []ToolsRunOwnPlan
<1>1. ToolsRunOwnPlan /\ TypeOK /\ [Next]_vars => ToolsRunOwnPlan'  BY OwnPlanStep
<1>2. QED  BY <1>1, ThreadInit, TypeCorrect, PTL DEF Spec

\* A data query is synthesized from the results of its own calls, for any
\* plans and any overlap of turns.
THEOREM ResultsAreFresh == Spec => []FreshResults
<1>1. FreshResults /\ TypeOK /\ [Next]_vars => FreshResults'  BY FreshStep
<1>2. QED  BY <1>1, ThreadInit, TypeCorrect, PTL DEF Spec

\* No suggestion but for a client of the turn's own plan, some step of which
\* came back "not found" to this turn.
THEOREM SuggestionsHaveCause == Spec => []SuggestionsGrounded
<1>1. Unheard /\ TypeOK /\ [Next]_vars => Unheard'  BY UnheardStep
<1>2. SuggestionsGrounded /\ Unheard /\ TypeOK /\ [Next]_vars => SuggestionsGrounded'
  BY GroundedStep
<1>3. QED  BY <1>1, <1>2, ThreadInit, TypeCorrect, PTL DEF Spec

-----------------------------------------------------------------------------
(* What the user is shown.                                                 *)

\* An attempt ends its turn, or leaves its place and the stream as they are.
LEMMA AttemptDoes ==
    ASSUME NEW t \in Turns, Synthesize(t) \/ AttemptFails(t)
    PROVE  pc[t] = "synthesizing" /\ (SynthesisDone(t) \/ UNCHANGED <<pc, encoderVars>>)
BY DEF Synthesize, AttemptFails

LEMMA ShownStep ==
    ASSUME TypeOK, EncoderFollows, NarrativeShown, [Next]_vars
    PROVE  EncoderFollows' /\ NarrativeShown'
<1> USE DEF TypeOK, EncoderTypeOK, EncoderFollows, FollowsAt, NarrativeShown
<1>1. CASE UNCHANGED vars
  <2>1. UNCHANGED <<pc, currentNode, streamed, tokens, narratives>>
    BY <1>1 DEF vars, graphVars, encoderVars
  <2>2. QED  BY <2>1, Zenon
<1>2. ASSUME NEW t \in Turns, Begin(t)  PROVE EncoderFollows' /\ NarrativeShown'
  BY <1>2 DEF Begin, Goto, OnChainStart, ReasoningNodes, Nodes
<1>3. ASSUME NEW t \in Turns, Token(t)  PROVE EncoderFollows' /\ NarrativeShown'
  <2>1. CASE currentNode[t] \in ReasoningNodes
    BY <1>3, <2>1 DEF Token, OnToken, graphVars
  <2>2. CASE currentNode[t] \notin ReasoningNodes
    <3>1. pc[t] = "synthesizing" /\ tokens[t] \cup {attempt[t]} # {}
      BY <1>3, <2>2 DEF Token
    <3>2. /\ tokens' = [tokens EXCEPT ![t] = @ \cup {attempt[t]}]
          /\ streamed' = [streamed EXCEPT ![t] = TRUE]
          /\ UNCHANGED <<pc, currentNode, narratives>>
      BY <1>3, <2>2 DEF Token, OnToken, graphVars
    <3>3. QED  BY <3>1, <3>2
  <2>3. QED  BY <2>1, <2>2
<1>4. ASSUME NEW t \in Turns, NEW i \in Intents, NEW plan \in Plans, pc[t] = "routing",
             Route(t, i, Planned(t, plan))
      PROVE  EncoderFollows' /\ NarrativeShown'
  <2>1. PlaceOf(NodeAfter(i)) # "synthesizing" => NodeAfter(i) \in ReasoningNodes
    BY Places DEF Intents, ReasoningNodes, Nodes
  <2>2. PlaceOf(NodeAfter(i)) \in {"calling", "synthesizing", "handling"}
    BY Places DEF Intents
  <2>3. QED  BY <1>4, <2>1, <2>2 DEF Route, Goto, OnChainStart, OnRouterEnd
<1>5. ASSUME NEW t \in Turns, Classify(t) \/ RouterFails(t)
      PROVE  EncoderFollows' /\ NarrativeShown'
  <2>1. FallbackIntent(t) \in Intents  BY IntentKnown DEF Intents
  <2>2. <<>> \in Plans  BY GraphAssumption
  <2>3. \E i \in Intents, plan \in Plans :
          pc[t] = "routing" /\ Route(t, i, Planned(t, plan))
    <3> USE DEF Intents
    <3>1. CASE Classify(t)  BY <3>1 DEF Classify
    <3>2. CASE RouterFails(t)  BY <3>2, <2>1, <2>2 DEF RouterFails
    <3>3. QED  BY <1>5, <3>1, <3>2
  <2>4. QED  BY <1>4, <2>3, Zenon
<1>6. ASSUME NEW t \in Turns, CallTools(t)  PROVE EncoderFollows' /\ NarrativeShown'
  BY <1>6 DEF CallTools, Goto, OnChainStart, OnToolsEnd
<1>7. ASSUME NEW t \in Turns, pc[t] = "synthesizing", SynthesisDone(t)
      PROVE  EncoderFollows' /\ NarrativeShown'
  <2>1. narratives' = [narratives EXCEPT ![t] = IF tokens[t] = {} THEN 1 ELSE 0]
    <3>1. narratives[t] = 0 /\ (streamed[t] <=> tokens[t] # {})  BY <1>7
    <3>2. narratives' = [narratives EXCEPT ![t] =
            IF streamed[t] THEN narratives[t] ELSE narratives[t] + 1]
      BY <1>7 DEF SynthesisDone, OnSynthesisEnd
    <3>3. CASE streamed[t]
      <4>1. narratives' = [narratives EXCEPT ![t] = 0]  BY ONLY <3>1, <3>2, <3>3
      <4>2. QED  BY ONLY <3>1, <3>3, <4>1
    <3>4. CASE ~streamed[t]
      <4>1. narratives' = [narratives EXCEPT ![t] = 1]  BY ONLY <3>1, <3>2, <3>4
      <4>2. QED  BY ONLY <3>1, <3>4, <4>1
    <3>5. QED  BY <3>3, <3>4
  <2>2. /\ pc' = [pc EXCEPT ![t] = "done"] /\ UNCHANGED <<streamed, tokens>>
        /\ currentNode' = [currentNode EXCEPT ![t] = "none"]
    BY <1>7 DEF SynthesisDone, OnSynthesisEnd, Goto
  <2>3. /\ pc'[t] = "done" /\ currentNode'[t] = "none"
        /\ narratives'[t] = IF tokens'[t] = {} THEN 1 ELSE 0
    BY <2>1, <2>2
  <2>4. \A u \in Turns \ {t} :
          pc'[u] = pc[u] /\ currentNode'[u] = currentNode[u] /\ narratives'[u] = narratives[u]
    BY <2>1, <2>2
  <2>5. ASSUME NEW u \in Turns
        PROVE  /\ FollowsAt(u)'
               /\ pc'[u] = "done" => narratives'[u] = IF tokens'[u] = {} THEN 1 ELSE 0
    <3>1. CASE u = t  BY <2>3, <3>1
    <3>2. CASE u # t  BY <2>2, <2>4, <3>2
    <3>3. QED  BY <3>1, <3>2
  <2> HIDE DEF FollowsAt
  <2>6. QED  BY <2>5, Zenon
<1>8. ASSUME NEW t \in Turns, Synthesize(t) \/ AttemptFails(t)
      PROVE  EncoderFollows' /\ NarrativeShown'
  <2>1. pc[t] = "synthesizing" /\ (SynthesisDone(t) \/ UNCHANGED <<pc, encoderVars>>)
    BY <1>8, AttemptDoes
  <2>2. CASE SynthesisDone(t)  BY <1>7, <2>1, <2>2
  <2>3. CASE UNCHANGED <<pc, encoderVars>>
    <3>1. UNCHANGED <<pc, currentNode, streamed, tokens, narratives>>  BY <2>3 DEF encoderVars
    <3>2. QED  BY <3>1, Zenon
  <2>4. QED  BY <2>1, <2>2, <2>3
<1>9. ASSUME NEW t \in Turns, HandleError(t)  PROVE EncoderFollows' /\ NarrativeShown'
  BY <1>9 DEF HandleError, OnErrorHandlerEnd, Goto
<1>10. ASSUME NEW t \in Turns, Stops(t)  PROVE EncoderFollows' /\ NarrativeShown'
  <2>1. PICK end \in {"raised", "cancelled"} : pc' = [pc EXCEPT ![t] = end]
    BY <1>10 DEF Stops, Goto
  <2>2. UNCHANGED <<currentNode, streamed, tokens, narratives>>  BY <1>10 DEF Stops, encoderVars
  <2>3. QED  BY <2>1, <2>2
<1>11. QED
  BY <1>1, <1>2, <1>3, <1>5, <1>6, <1>8, <1>9, <1>10 DEF Next, Node, ModelNode

LEMMA ShownInit == Init => EncoderFollows /\ NarrativeShown
BY DEF Init, EncoderInit, EncoderFollows, FollowsAt, NarrativeShown

\* For any number of attempts: a turn that ends has shown its whole narrative
\* once if no token of any attempt was streamed, and never beside tokens.
THEOREM AnswerShownOnce == Spec => []NarrativeShown
<1>1. EncoderFollows /\ NarrativeShown /\ TypeOK /\ [Next]_vars
        => EncoderFollows' /\ NarrativeShown'
  BY ShownStep
<1>2. QED  BY <1>1, ShownInit, TypeCorrect, PTL DEF Spec

-----------------------------------------------------------------------------
(* The tool calls that the dashboard opens are closed.                     *)

\* In a plan that uses no tool twice, a tool's last step is its only one.
LEMMA OnlyIndex ==
    ASSUME NEW plan \in Plans, ToolsDistinct(plan), NEW i \in DOMAIN plan
    PROVE  LastIndexOf(plan, plan[i].tool) = i
<1> DEFINE last == LastIndexOf(plan, plan[i].tool)
<1>1. last \in DOMAIN plan /\ plan[last].tool = plan[i].tool  BY LastIndexFound
<1> HIDE DEF last
<1>2. last = i  BY <1>1 DEF ToolsDistinct
<1>3. QED  BY <1>2 DEF last

\* The ids change where the router and the tools end.
LEMMA IdShapes ==
    ASSUME TypeOK, [Next]_vars
    PROVE  \/ /\ UNCHANGED <<begun, answered, activeId>>
              /\ \/ UNCHANGED <<saved, state, pc, intent>>
                 \/ \E t \in Turns : Begin(t) \/ Ends(t)
           \/ \E t \in Turns : Routes(t) \/ CallTools(t)
<1>1. CASE UNCHANGED vars  BY <1>1 DEF vars, graphVars, encoderVars
<1>2. ASSUME NEW t \in Turns, Classify(t) \/ RouterFails(t)  PROVE Routes(t)
  BY <1>2, IntentKnown, GraphAssumption DEF Classify, RouterFails, Routes, Intents
<1>3. ASSUME NEW t \in Turns, SynthesisDone(t), pc[t] = "synthesizing"
      PROVE  Ends(t) /\ UNCHANGED <<begun, answered, activeId>>
  BY <1>3 DEF SynthesisDone, OnSynthesisEnd, Ends, Running, Ended
<1>4. ASSUME NEW t \in Turns, HandleError(t) \/ Stops(t)
      PROVE  Ends(t) /\ UNCHANGED <<begun, answered, activeId>>
  BY <1>4 DEF HandleError, OnErrorHandlerEnd, Stops, encoderVars, Ends, Running, Ended
<1>5. ASSUME NEW t \in Turns, Token(t)
      PROVE  UNCHANGED <<saved, state, pc, intent, begun, answered, activeId>>
  BY <1>5 DEF Token, OnToken, graphVars
<1>6. ASSUME NEW t \in Turns, Synthesize(t) \/ AttemptFails(t)
      PROVE  /\ UNCHANGED <<begun, answered, activeId>>
             /\ Ends(t) \/ UNCHANGED <<saved, state, pc, intent>>
  BY <1>3, <1>6 DEF Synthesize, AttemptFails, encoderVars
<1>7. ASSUME NEW t \in Turns, Begin(t)  PROVE UNCHANGED <<begun, answered, activeId>>
  BY <1>7 DEF Begin
<1>8. QED
  BY <1>1, <1>2, <1>4, <1>5, <1>6, <1>7 DEF Next, Node, ModelNode

\* What the router's end leaves of the turn's ids.
LEMMA RoutesIds ==
    ASSUME TypeOK, IdsKnown, NEW t \in Turns, Routes(t)
    PROVE  \E i \in Intents, plan \in Plans :
             /\ pc' = [pc EXCEPT ![t] = PlaceOf(NodeAfter(i))]
             /\ intent' = [intent EXCEPT ![t] = i]
             /\ PlaceOf(NodeAfter(i)) \in {"calling", "synthesizing", "handling"}
             /\ i = "data_query" => PlaceOf(NodeAfter(i)) = "calling"
             /\ state'[t].plan = plan
             /\ \A u \in Turns \ {t} : state'[u] = state[u] /\ begun'[u] = begun[u]
                                       /\ activeId'[u] = activeId[u]
             /\ begun'[t] = DOMAIN plan
             /\ answered' = answered /\ answered[t] = <<>>
             /\ \A k \in DOMAIN plan :
                    activeId'[t][plan[k].tool] = LastIndexOf(plan, plan[k].tool)
<1>1. PICK i \in Intents, plan \in Plans :
        Route(t, i, Planned(t, plan)) /\ pc[t] = "routing"
  BY DEF Routes
<1>2. Planned(t, plan).plan = plan
  <2>1. state[t] \in ThreadState  BY DEF TypeOK
  <2>2. QED  BY <2>1 DEF Planned, ThreadState
<1>3. begun[t] = {} /\ answered[t] = <<>>  BY <1>1 DEF IdsKnown
<1>4. state' = [state EXCEPT ![t] = Planned(t, plan)] /\ OnRouterEnd(t, plan)
  BY <1>1, <1>2 DEF Route, Save
<1>5. /\ PlaceOf(NodeAfter(i)) \in {"calling", "synthesizing", "handling"}
      /\ i = "data_query" => PlaceOf(NodeAfter(i)) = "calling"
  BY Places DEF Intents
<1>6. begun' = [begun EXCEPT ![t] = DOMAIN plan]
  BY <1>3, <1>4 DEF OnRouterEnd
<1>7. EncoderTypeOK  BY DEF TypeOK
<1>8. ASSUME NEW k \in DOMAIN plan
      PROVE  activeId'[t][plan[k].tool] = LastIndexOf(plan, plan[k].tool)
  <2>1. plan[k].tool \in Tools
    <3>1. plan[k] \in Steps  BY PlanShape
    <3>2. QED  BY <3>1 DEF Steps
  <2>2. t \in DOMAIN activeId  BY <1>7 DEF EncoderTypeOK
  <2>3. QED  BY <1>4, <2>1, <2>2 DEF OnRouterEnd
<1>9. \A u \in Turns \ {t} : state'[u] = state[u] /\ begun'[u] = begun[u]
                             /\ activeId'[u] = activeId[u]
  <2>1. \E new : activeId' = [activeId EXCEPT ![t] = new]  BY <1>4 DEF OnRouterEnd
  <2>2. activeId \in [Turns -> [Tools -> Nat]] /\ begun \in [Turns -> SUBSET Nat]
    BY <1>7 DEF EncoderTypeOK
  <2>3. state \in [Turns -> ThreadState]  BY DEF TypeOK
  <2>4. QED  BY <1>4, <1>6, <2>1, <2>2, <2>3
<1>10. state'[t].plan = plan
  <2>1. state \in [Turns -> ThreadState]  BY DEF TypeOK
  <2>2. QED  BY <1>2, <1>4, <2>1
<1>11. begun'[t] = DOMAIN plan  BY <1>6, <1>7 DEF EncoderTypeOK
<1>12. answered' = answered  BY <1>4 DEF OnRouterEnd
<1>13. pc' = [pc EXCEPT ![t] = PlaceOf(NodeAfter(i))] /\ intent' = [intent EXCEPT ![t] = i]
  BY <1>1 DEF Route, Goto
<1>14. QED  BY <1>3, <1>5, <1>8, <1>9, <1>10, <1>11, <1>12, <1>13

LEMMA IdsKnownInit == Init => IdsKnown /\ DistinctCallsAnswered
BY DEF Init, EncoderInit, IdsKnown, DistinctCallsAnswered

LEMMA IdsKnownStep ==
    ASSUME TypeOK, IdsKnown, [Next]_vars
    PROVE  IdsKnown'
<1>1. CASE /\ UNCHANGED <<begun, answered, activeId>>
           /\ UNCHANGED <<saved, state, pc, intent>>
  BY <1>1 DEF IdsKnown
<1>2. ASSUME NEW t \in Turns, Begin(t) \/ Ends(t), UNCHANGED <<begun, answered, activeId>>
      PROVE  IdsKnown'
  <2>1. CASE Begin(t)  BY <1>2, <2>1 DEF TypeOK, IdsKnown, Begin, Goto
  <2>2. CASE Ends(t)  BY <1>2, <2>2 DEF TypeOK, IdsKnown, Ends, Goto, Ended
  <2>3. QED  BY <1>2, <2>1, <2>2
<1>3. ASSUME NEW t \in Turns, Routes(t)  PROVE IdsKnown'
  <2>1. PICK i \in Intents, plan \in Plans :
          /\ pc' = [pc EXCEPT ![t] = PlaceOf(NodeAfter(i))]
          /\ PlaceOf(NodeAfter(i)) \in {"calling", "synthesizing", "handling"}
          /\ state'[t].plan = plan /\ begun'[t] = DOMAIN plan
          /\ answered' = answered /\ answered[t] = <<>>
          /\ \A k \in DOMAIN plan :
                 activeId'[t][plan[k].tool] = LastIndexOf(plan, plan[k].tool)
          /\ \A u \in Turns \ {t} : state'[u] = state[u] /\ begun'[u] = begun[u]
                                    /\ activeId'[u] = activeId[u]
    BY <1>3, RoutesIds, Zenon
  <2>2. /\ pc'[t] \in {"calling", "synthesizing", "handling"}
        /\ \A u \in Turns \ {t} : pc'[u] = pc[u]
    BY <2>1 DEF TypeOK
  <2>3. ASSUME NEW u \in Turns
        PROVE  /\ pc'[u] \in {"new", "routing"} => begun'[u] = {}
               /\ pc'[u] \in {"new", "routing", "calling"} => answered'[u] = <<>>
               /\ pc'[u] = "calling" =>
                    /\ begun'[u] = DOMAIN state'[u].plan
                    /\ \A k \in DOMAIN state'[u].plan :
                           activeId'[u][state'[u].plan[k].tool]
                               = LastIndexOf(state'[u].plan, state'[u].plan[k].tool)
    <3>1. CASE u = t  BY <2>1, <2>2, <3>1
    <3>2. CASE u # t
      <4>1. /\ pc'[u] = pc[u] /\ state'[u] = state[u] /\ begun'[u] = begun[u]
            /\ activeId'[u] = activeId[u] /\ answered'[u] = answered[u]
        BY <2>1, <2>2, <3>2
      <4>2. QED  BY <4>1 DEF IdsKnown
    <3>3. QED  BY <3>1, <3>2
  <2>4. QED  BY <2>3, Zenon DEF IdsKnown
<1>4. ASSUME NEW t \in Turns, CallTools(t)  PROVE IdsKnown'
  <2>1. pc' = [pc EXCEPT ![t] = "synthesizing"]  BY <1>4 DEF CallTools, Goto
  <2>2. UNCHANGED <<begun, activeId>>
        /\ \E new : answered' = [answered EXCEPT ![t] = new]
    BY <1>4 DEF CallTools, OnToolsEnd
  <2>3. \E new : state' = [state EXCEPT ![t] = new]  BY <1>4, CallToolsDoes
  <2>4. answered \in [Turns -> Seq(Nat)]  BY DEF TypeOK, EncoderTypeOK
  <2>5. ASSUME NEW u \in Turns, u # t
        PROVE  pc'[u] = pc[u] /\ state'[u] = state[u] /\ answered'[u] = answered[u]
    BY <2>1, <2>2, <2>3, <2>4, <2>5 DEF TypeOK
  <2>6. pc'[t] = "synthesizing"  BY <2>1 DEF TypeOK
  <2>7. QED  BY <2>2, <2>5, <2>6 DEF IdsKnown
<1>5. QED  BY <1>1, <1>2, <1>3, <1>4, IdShapes

\* The tools' end answers every id that the router's end has begun, once.
LEMMA ToolsAnswer ==
    ASSUME TypeOK, IdsKnown, NEW t \in Turns, CallTools(t), ToolsDistinct(state[t].plan)
    PROVE  AnsweredOnce(t)'
<1> DEFINE plan == state[t].plan
           ids == [i \in DOMAIN plan |-> activeId[t][plan[i].tool]]
<1>1. plan \in Plans /\ plan \in Seq(Steps)  BY PlanShape DEF TypeOK, ThreadState
<1>2. pc[t] = "calling" /\ OnToolsEnd(t, plan)  BY DEF CallTools
<1>3. begun[t] = DOMAIN plan /\ answered[t] = <<>>
      /\ \A i \in DOMAIN plan : activeId[t][plan[i].tool] = i
  BY <1>1, <1>2, OnlyIndex DEF IdsKnown
<1>4. ids = [i \in DOMAIN plan |-> i]  BY <1>3
<1>5. DOMAIN plan = 1..Len(plan) /\ Len(plan) \in Nat  BY <1>1
<1>6. answered'[t] = ids
  <2>1. ids \in Seq(Nat)
    <3>1. \A i \in 1..Len(plan) : i \in Nat  BY <1>5
    <3>2. [i \in 1..Len(plan) |-> i] \in Seq(Nat)  BY <1>5, <3>1, IsASeq
    <3>3. QED  BY <1>4, <1>5, <3>2
  <2>2. answered'[t] = answered[t] \o ids
    BY <1>2 DEF OnToolsEnd, TypeOK, EncoderTypeOK
  <2> HIDE DEF ids
  <2>3. QED  BY <1>3, <2>1, <2>2, ConcatEmptySeq
<1>7. begun'[t] = DOMAIN plan  BY <1>2, <1>3 DEF OnToolsEnd
<1>8. DOMAIN answered'[t] = DOMAIN plan /\ \A i \in DOMAIN plan : answered'[t][i] = i
  BY <1>4, <1>6
<1> HIDE DEF ids, plan
<1>9. QED  BY <1>7, <1>8 DEF AnsweredOnce

LEMMA AnsweredStep ==
    ASSUME TypeOK, IdsKnown, DistinctCallsAnswered, [Next]_vars
    PROVE  DistinctCallsAnswered'
<1>1. CASE /\ UNCHANGED <<begun, answered, activeId>>
           /\ UNCHANGED <<saved, state, pc, intent>>
  BY <1>1 DEF DistinctCallsAnswered, AnsweredOnce
<1>2. ASSUME NEW t \in Turns, Begin(t) \/ Ends(t), UNCHANGED <<begun, answered, activeId>>
      PROVE  DistinctCallsAnswered'
  <2>1. CASE Begin(t)
    BY <1>2, <2>1 DEF TypeOK, DistinctCallsAnswered, AnsweredOnce, Begin, Goto
  <2>2. CASE Ends(t)
    BY <1>2, <2>2 DEF TypeOK, DistinctCallsAnswered, AnsweredOnce, Ends, Goto, Ended
  <2>3. QED  BY <1>2, <2>1, <2>2
<1>3. ASSUME NEW t \in Turns, Routes(t)  PROVE DistinctCallsAnswered'
  <2>1. pc'[t] = "synthesizing" => intent'[t] # "data_query"
    BY <1>3, RoutesIds DEF TypeOK
  <2>2. ASSUME NEW u \in Turns, u # t
        PROVE  /\ pc'[u] = pc[u] /\ intent'[u] = intent[u] /\ state'[u] = state[u]
               /\ begun'[u] = begun[u] /\ answered'[u] = answered[u]
    BY <1>3, <2>2, RoutesIds DEF TypeOK
  <2>3. QED  BY <2>1, <2>2 DEF DistinctCallsAnswered, AnsweredOnce
<1>4. ASSUME NEW t \in Turns, CallTools(t)  PROVE DistinctCallsAnswered'
  <2>1. state'[t].plan = state[t].plan  BY <1>4, CallToolsDoes DEF TypeOK
  <2>2. ToolsDistinct(state[t].plan) => AnsweredOnce(t)'  BY <1>4, ToolsAnswer
  <2>3. pc' = [pc EXCEPT ![t] = "synthesizing"] /\ intent' = intent
        /\ begun' = begun /\ \E new : answered' = [answered EXCEPT ![t] = new]
    BY <1>4 DEF CallTools, Goto, OnToolsEnd
  <2>4. \E new : state' = [state EXCEPT ![t] = new]  BY <1>4, CallToolsDoes
  <2>5. answered \in [Turns -> Seq(Nat)]  BY DEF TypeOK, EncoderTypeOK
  <2>6. ASSUME NEW u \in Turns, u # t
        PROVE  /\ pc'[u] = pc[u] /\ intent'[u] = intent[u] /\ state'[u] = state[u]
               /\ begun'[u] = begun[u] /\ answered'[u] = answered[u]
    BY <2>3, <2>4, <2>5, <2>6 DEF TypeOK
  <2>7. QED  BY <2>1, <2>2, <2>6 DEF DistinctCallsAnswered, AnsweredOnce
<1>5. QED  BY <1>1, <1>2, <1>3, <1>4, IdShapes

\* When the tools of a plan have run, every tool call the dashboard was told
\* of has had one answer, for any plan that uses no tool twice and however the
\* turns' events mix.
THEOREM CallsAreAnswered == Spec => []DistinctCallsAnswered
<1>1. IdsKnown /\ TypeOK /\ [Next]_vars => IdsKnown'  BY IdsKnownStep
<1>2. DistinctCallsAnswered /\ IdsKnown /\ TypeOK /\ [Next]_vars => DistinctCallsAnswered'
  BY AnsweredStep
<1>3. QED  BY <1>1, <1>2, IdsKnownInit, TypeCorrect, PTL DEF Spec

-----------------------------------------------------------------------------
(* The thread keeps what was fetched, if its turns do not overlap.         *)

LEMMA OneRunStep ==
    ASSUME TypeOK, OneRun, [Next]_vars
    PROVE  OneRun'
<1>0. SUFFICES ASSUME ~Overlap  PROVE OneRun'  BY DEF OneRun
<1>1. CASE UNCHANGED <<saved, state, pc, intent>>  BY <1>1 DEF OneRun
<1>2. ASSUME NEW t \in Turns, Begin(t)  PROVE OneRun'
  BY <1>0, <1>2 DEF TypeOK, OneRun, Begin, Goto, Running
<1>3. ASSUME NEW t \in Turns, Routes(t)  PROVE OneRun'
  <2>1. pc[t] \in Running  BY <1>3 DEF Routes, Running
  <2>2. QED  BY <1>0, <1>3, <2>1, RoutesDoes DEF TypeOK, OneRun, Running
<1>4. ASSUME NEW t \in Turns, CallTools(t)  PROVE OneRun'
  <2>1. pc[t] \in Running /\ pc' = [pc EXCEPT ![t] = "synthesizing"]
    BY <1>4 DEF CallTools, Goto, Running
  <2>2. PICK new \in ThreadState : state' = [state EXCEPT ![t] = new] /\ saved' = new
    BY <1>4, CallToolsDoes
  <2>3. QED  BY <1>0, <2>1, <2>2 DEF TypeOK, OneRun, Running
<1>5. ASSUME NEW t \in Turns, Ends(t)  PROVE OneRun'
  BY <1>0, <1>5 DEF TypeOK, OneRun, Ends, Goto, Running, Ended
<1>6. QED  BY <1>1, <1>2, <1>3, <1>4, <1>5, StepShapes

\* A turn moves by a step of its own only.
LEMMA OwnMove ==
    ASSUME TypeOK, [Next]_vars, NEW t \in Turns, pc'[t] # pc[t]
    PROVE  Begin(t) \/ Routes(t) \/ CallTools(t) \/ Ends(t)
<1>1. PICK u \in Turns : Begin(u) \/ Routes(u) \/ CallTools(u) \/ Ends(u)
  BY StepShapes
<1>2. \E place : pc' = [pc EXCEPT ![u] = place]
  <2>1. CASE Begin(u) \/ CallTools(u) \/ Ends(u)  BY <2>1 DEF Begin, CallTools, Ends, Goto
  <2>2. CASE Routes(u)  BY <2>2, RoutesDoes
  <2>3. QED  BY <1>1, <2>1, <2>2
<1>3. u = t  BY <1>2 DEF TypeOK
<1>4. QED  BY <1>1, <1>3

LEMMA PersistStep ==
    ASSUME TypeOK, [Next]_vars, NEW t \in Turns, pc'[t] # pc[t], state[t] = saved
    PROVE  NothingLost
<1> USE DEF NothingLost
<1>1. CASE Routes(t)
  <2>1. saved'.context = state[t].context  BY <1>1, RoutesDoes
  <2>2. QED  BY <2>1
<1>2. CASE CallTools(t)  BY <1>2, CallToolsDoes
<1>3. CASE Ends(t)  BY <1>3 DEF Ends
<1>4. CASE Begin(t)  BY <1>4 DEF Begin
<1>5. QED  BY <1>1, <1>2, <1>3, <1>4, OwnMove

\* Whoever has seen the latest checkpoint keeps all of it, overlapping or not.
THEOREM ContextIsKept == Spec => ContextPersists
<1>1. TypeOK /\ [Next]_vars =>
        [\A t \in Turns : pc'[t] # pc[t] /\ state[t] = saved => NothingLost]_vars
  BY PersistStep
<1>2. QED  BY <1>1, TypeCorrect, PTL DEF Spec, ContextPersists

LEMMA OneRunKeeps ==
    ASSUME TypeOK, OneRun, ~Overlap, [Next]_vars
    PROVE  NothingLost
<1>1. CASE saved' = saved  BY <1>1 DEF NothingLost
<1>2. ASSUME NEW t \in Turns, Routes(t)  PROVE NothingLost
  <2>1. state[t] = saved  BY <1>2 DEF Routes, OneRun, Running
  <2>2. saved'.context = state[t].context  BY <1>2, RoutesDoes
  <2>3. QED  BY <2>1, <2>2 DEF NothingLost
<1>3. ASSUME NEW t \in Turns, CallTools(t)  PROVE NothingLost
  <2>1. state[t] = saved  BY <1>3 DEF CallTools, OneRun, Running
  <2>2. \A k \in Keys : state[t].context[k] # NoResult => saved'.context[k] # NoResult
    BY <1>3, CallToolsDoes
  <2>3. QED  BY <2>1, <2>2 DEF NothingLost
<1>4. ASSUME NEW t \in Turns, Ends(t)  PROVE saved' = saved
  BY <1>4 DEF Ends, OneRun
<1>5. ASSUME NEW t \in Turns, Begin(t)  PROVE saved' = saved  BY <1>5 DEF Begin
<1>6. QED  BY <1>1, <1>2, <1>3, <1>4, <1>5, StepShapes

\* In a thread whose turns do not overlap every turn has seen the latest
\* checkpoint, and nothing that was fetched is ever lost.
THEOREM NothingFetchedIsLost ==
    ASSUME ~Overlap
    PROVE  Spec => [][NothingLost]_saved
<1>1. OneRun /\ TypeOK /\ [Next]_vars => OneRun'  BY OneRunStep
<1>2. Init => OneRun  BY DEF Init, OneRun, Running
<1>3. OneRun /\ TypeOK /\ [Next]_vars => [NothingLost]_saved
  BY OneRunKeeps
<1>4. QED  BY <1>1, <1>2, <1>3, TypeCorrect, PTL DEF Spec

-----------------------------------------------------------------------------
(* No run goes round in circles.                                           *)

\* The nodes and synthesis attempts that a turn has before it, at its longest.
StepsLeft(t) ==
    CASE pc[t] = "new" -> MaxRetries + 4
      [] pc[t] = "routing" -> MaxRetries + 3
      [] pc[t] = "calling" -> MaxRetries + 2
      [] pc[t] = "synthesizing" -> (MaxRetries - attempt[t]) + 1
      [] pc[t] = "handling" -> 1
      [] OTHER -> 0

Bounded(t) ==
    /\ StepsLeft(t)' <= StepsLeft(t)
    /\ Begin(t) \/ Node(t) \/ Stops(t) => StepsLeft(t)' < StepsLeft(t)

LEMMA StepsLeftType ==
    ASSUME TypeOK, NEW t \in Turns
    PROVE  StepsLeft(t) \in Nat
BY GraphAssumption DEF TypeOK, StepsLeft

\* Whether the model classifies or the call fails, the router does one thing.
LEMMA RouterRoutes ==
    ASSUME NEW t \in Turns, Classify(t) \/ RouterFails(t)
    PROVE  Routes(t)
BY IntentKnown, GraphAssumption DEF Classify, RouterFails, Routes, Intents

LEMMA NodeBounded ==
    ASSUME TypeOK, TypeOK', NEW t \in Turns, Begin(t) \/ Node(t) \/ Stops(t)
    PROVE  StepsLeft(t)' < StepsLeft(t)
<1>0. /\ MaxRetries \in Nat /\ pc \in [Turns -> {"new"} \cup Running \cup Ended]
      /\ attempt[t] \in 0..MaxRetries /\ attempt'[t] \in 0..MaxRetries
  BY GraphAssumption DEF TypeOK
<1>1. CASE Begin(t)
  <2>1. pc[t] = "new" /\ pc'[t] = "routing"  BY <1>0, <1>1 DEF Begin, Goto
  <2>2. QED  BY <1>0, <2>1 DEF StepsLeft
<1>2. CASE Routes(t)
  <2>1. pc[t] = "routing" /\ pc'[t] \in {"calling", "synthesizing", "handling"}
    <3>1. PICK i \in Intents, plan \in Plans : pc' = [pc EXCEPT ![t] = PlaceOf(NodeAfter(i))]
      BY <1>2, RoutesDoes
    <3>2. PlaceOf(NodeAfter(i)) \in {"calling", "synthesizing", "handling"}
      BY Places DEF Intents
    <3>3. QED  BY <1>0, <1>2, <3>1, <3>2 DEF Routes, Classify, RouterFails
  <2>2. QED  BY <1>0, <2>1 DEF StepsLeft
<1>3. CASE CallTools(t)
  <2>1. pc[t] = "calling" /\ pc'[t] = "synthesizing"  BY <1>0, <1>3 DEF CallTools, Goto
  <2>2. QED  BY <1>0, <2>1 DEF StepsLeft
<1>4. CASE Synthesize(t) \/ AttemptFails(t)
  <2>1. /\ pc[t] = "synthesizing"
        /\ \/ pc'[t] = "done"
           \/ /\ attempt[t] < MaxRetries /\ attempt'[t] = attempt[t] + 1
              /\ pc'[t] = "synthesizing"
    BY <1>0, <1>4 DEF Synthesize, AttemptFails, SynthesisDone, Goto, TypeOK
  <2>2. QED  BY <1>0, <2>1 DEF StepsLeft
<1>5. CASE HandleError(t)
  <2>1. pc[t] = "handling" /\ pc'[t] = "done"  BY <1>0, <1>5 DEF HandleError, Goto
  <2>2. QED  BY <1>0, <2>1 DEF StepsLeft
<1>6. CASE Stops(t)
  <2>1. pc[t] \in Running /\ pc'[t] \in {"raised", "cancelled"}
    BY <1>0, <1>6 DEF Stops, Goto
  <2>2. QED  BY <1>0, <2>1 DEF StepsLeft, Running
<1>7. QED  BY <1>1, <1>2, <1>3, <1>4, <1>5, <1>6, RouterRoutes DEF Node, ModelNode

\* What a turn does not do for itself leaves its place and its attempts alone.
LEMMA OthersBounded ==
    ASSUME TypeOK, NEW t \in Turns, NEW u \in Turns,
           ((Begin(u) \/ Node(u) \/ Stops(u)) /\ u # t) \/ Token(u)
    PROVE  pc'[t] = pc[t] /\ attempt'[t] = attempt[t]
<1>0. /\ pc \in [Turns -> {"new"} \cup Running \cup Ended]
      /\ attempt \in [Turns -> 0..MaxRetries]
  BY DEF TypeOK
<1>1. CASE Token(u)  BY <1>1 DEF Token, graphVars
<1>2. CASE Routes(u) /\ u # t
  BY <1>0, <1>2 DEF Routes, Classify, RouterFails, Route, Goto
<1>3. CASE (Begin(u) \/ CallTools(u) \/ HandleError(u) \/ Stops(u)) /\ u # t
  BY <1>0, <1>3 DEF Begin, CallTools, HandleError, Stops, Goto
<1>4. CASE (Synthesize(u) \/ AttemptFails(u)) /\ u # t
  BY <1>0, <1>4 DEF Synthesize, AttemptFails, SynthesisDone, Goto
<1>5. QED  BY <1>1, <1>2, <1>3, <1>4, RouterRoutes DEF Node, ModelNode

\* graph.py and synthesis.py: a turn runs at most three nodes and MaxRetries
\* repeated attempts; no node is entered twice, whatever fails and whoever else
\* writes the checkpoint.
THEOREM TurnsAreBounded == Spec => [][\A t \in Turns : Bounded(t)]_vars
<1>1. ASSUME TypeOK, TypeOK', Next, NEW t \in Turns  PROVE Bounded(t)
  <2>1. StepsLeft(t) \in Nat /\ StepsLeft(t)' \in Nat
    <3>1. StepsLeft(t) \in Nat  BY <1>1, StepsLeftType
    <3>2. attempt'[t] \in 0..MaxRetries  BY <1>1 DEF TypeOK
    <3>3. StepsLeft(t)' \in Nat  BY <3>2, GraphAssumption DEF StepsLeft
    <3>4. QED  BY <3>1, <3>3
  <2>2. Begin(t) \/ Node(t) \/ Stops(t) => StepsLeft(t)' < StepsLeft(t)
    BY <1>1, NodeBounded
  <2>3. ASSUME pc'[t] = pc[t], attempt'[t] = attempt[t]  PROVE Bounded(t)
    <3>1. StepsLeft(t)' = StepsLeft(t)  BY <2>3 DEF StepsLeft
    <3>2. QED  BY <2>1, <2>2, <3>1 DEF Bounded
  <2>4. CASE Begin(t) \/ Node(t) \/ Stops(t)  BY <2>1, <2>2, <2>4 DEF Bounded
  <2>5. ASSUME NEW u \in Turns, ((Begin(u) \/ Node(u) \/ Stops(u)) /\ u # t) \/ Token(u)
        PROVE  Bounded(t)
    BY <1>1, <2>3, <2>5, OthersBounded
  <2>6. CASE UNCHANGED vars  BY <2>3, <2>6 DEF vars, graphVars
  <2>7. QED  BY <1>1, <2>4, <2>5, <2>6 DEF Next
<1>2. TypeOK /\ TypeOK' /\ [Next]_vars => [\A t \in Turns : Bounded(t)]_vars  BY <1>1
<1>3. QED  BY <1>2, TypeCorrect, PTL DEF Spec
=============================================================================
