---------------------------- MODULE ChatService ----------------------------
(***************************************************************************)
(* services/chat_service.py: ChatService.execute, one async generator per  *)
(* chat request.  It makes sure the conversation exists, forwards the      *)
(* events of the graph to the wire, ends the stream, and stores the turn.  *)
(* Several turns, of one conversation too, run at once, while clients      *)
(* create, rename and delete conversations.                                *)
(*                                                                         *)
(* At every await and every yield other tasks run, and a client that goes  *)
(* away cancels the generator: CancelledError and GeneratorExit pass both  *)
(* except clauses.  The graph is external here: it emits events, among     *)
(* them the end of the synthesis node, and ends or raises.  Of the frames  *)
(* the order matters and not the contents: data (any number), error,       *)
(* finish.                                                                 *)
(***************************************************************************)
EXTENDS ConversationStore, Sequences

VARIABLES
    pc,             \* where the turn is
    conv,           \* session_id: its conversation
    frames,         \* the wire, adjacent data frames counted once
    narrative,      \* captured_narrative: none, or a text: an answer or the apology
                    \* of a synthesis whose retries are exhausted
    parted          \* ghost: the turn's question went with its conversation

turnVars == <<pc, conv, frames, narrative, parted>>
vars == <<storeVars, turnVars>>

Saving == {"savingUser", "touchingUser", "savingAnswer", "touchingAnswer"}
Ended == {"done", "cancelled"}
Places == {"new", "looking", "creating", "streaming", "failing", "finishing"} \cup Saving \cup Ended

TypeOK ==
    /\ StoreTypeOK
    /\ pc \in [Turns -> Places]
    /\ conv \in [Turns -> Ids]
    /\ frames \in [Turns -> Seq({"data", "error", "finish"})]
    /\ narrative \in [Turns -> {"none", "answer"}]
    /\ parted \in [Turns -> BOOLEAN]

Init ==
    /\ StoreInit
    /\ pc = [t \in Turns |-> "new"]
    /\ conv \in [Turns -> Ids]
    /\ frames = [t \in Turns |-> <<>>]
    /\ narrative = [t \in Turns |-> "none"]
    /\ parted = [t \in Turns |-> FALSE]

Goto(t, place) == pc' = [pc EXCEPT ![t] = place] /\ UNCHANGED <<conv, narrative, parted>>
Yield(t, frame) == frames' = [frames EXCEPT ![t] = Append(@, frame)]

\* Both except clauses: the error frame, and then the finish frame.
Fail(t) == Goto(t, "failing") /\ Yield(t, "error")

-----------------------------------------------------------------------------
(* Before the graph runs.                                                  *)

Arrive(t) ==
    /\ pc[t] = "new"
    /\ Goto(t, "looking")
    /\ UNCHANGED <<storeVars, frames>>

\* Mutant: the memory store suspends between get and create.
LookupSuspends(t) ==
    /\ pc[t] = "looking" /\ storeUp
    /\ Goto(t, IF conv[t] \in exists THEN "streaming" ELSE "creating")
    /\ UNCHANGED <<storeVars, frames>>

\* get_conversation; without a suspension create_conversation follows at once.
Lookup(t) ==
    /\ pc[t] = "looking" /\ storeUp
    /\ IF conv[t] \in exists THEN Goto(t, "streaming") /\ UNCHANGED storeVars
       ELSE IF InMemory THEN CreateConversation(conv[t], "default") /\ Goto(t, "streaming")
       ELSE Goto(t, "creating") /\ UNCHANGED storeVars
    /\ UNCHANGED frames

\* Mutant: INSERT ... ON CONFLICT DO UPDATE.
CreateUpserts(t) ==
    /\ pc[t] = "creating" /\ storeUp
    /\ Put(conv[t], "default")
    /\ Goto(t, "streaming") /\ UNCHANGED frames

\* Another turn of the conversation, or its client, may have been faster:
\* then Postgres refuses the second row.
Create(t) ==
    /\ pc[t] = "creating" /\ storeUp
    /\ IF conv[t] \in exists /\ ~InMemory THEN Fail(t) /\ UNCHANGED storeVars
       ELSE /\ CreateConversation(conv[t], "default")
            /\ Goto(t, "streaming") /\ UNCHANGED frames

\* What the INSERT in progress adds.
Inserting(t) == IF pc[t] = "savingUser" THEN Question(t) ELSE Answer(t)

\* The statement in progress was done, or was not.
DoneOrNot(t) ==
    \/ UNCHANGED storeVars
    \/ pc[t] = "creating" /\ CreateConversation(conv[t], "default")
    \/ pc[t] \in {"savingUser", "savingAnswer"} /\ AddMessages(conv[t], {Inserting(t)})

StoreRaises(t) ==
    /\ pc[t] \in {"looking", "creating"} /\ ~storeUp
    /\ DoneOrNot(t)
    /\ Fail(t)

-----------------------------------------------------------------------------
(* While the graph runs.                                                   *)

\* encode_event; adjacent data frames are one here.
Emit(t) ==
    frames' = [frames EXCEPT ![t] = IF @ = <<>> THEN <<"data">> ELSE @]

GraphEvent(t) ==
    /\ pc[t] = "streaming"
    /\ Emit(t)
    /\ UNCHANGED <<storeVars, pc, conv, narrative, parted>>

\* on_chain_end of synthesis, at most once in a run, with a text: an answer, or
\* the apology of a synthesis that failed, which ends like any other.  (With an
\* empty narrative it is one more GraphEvent.)
SynthesisEnds(t) ==
    /\ pc[t] = "streaming" /\ narrative[t] = "none"
    /\ Emit(t)
    /\ narrative' = [narrative EXCEPT ![t] = "answer"]
    /\ UNCHANGED <<storeVars, pc, conv, parted>>

GraphEnds(t) ==
    /\ pc[t] = "streaming"
    /\ Goto(t, "finishing") /\ Yield(t, "finish")
    /\ UNCHANGED storeVars

GraphRaises(t) ==
    /\ pc[t] = "streaming"
    /\ Fail(t)
    /\ UNCHANGED storeVars

\* Mutant: the turn is stored in a finally clause.
FinishFailedStores(t) ==
    /\ pc[t] = "failing"
    /\ Goto(t, IF narrative[t] = "none" THEN "done" ELSE "savingUser") /\ Yield(t, "finish")
    /\ UNCHANGED storeVars

\* The finish frame that follows the error frame.
FinishFailed(t) ==
    /\ pc[t] = "failing"
    /\ Goto(t, "done") /\ Yield(t, "finish")
    /\ UNCHANGED storeVars

-----------------------------------------------------------------------------
(* After the finish frame.                                                 *)

\* Mutant: the memory store suspends between the two messages.
ResumeSuspends(t) ==
    /\ pc[t] = "finishing"
    /\ Goto(t, IF narrative[t] = "none" THEN "done" ELSE "savingUser")
    /\ UNCHANGED <<storeVars, frames>>

\* The client has read the finish frame; without a narrative nothing is stored.
Resume(t) ==
    /\ pc[t] = "finishing"
    /\ IF narrative[t] = "none" THEN Goto(t, "done") /\ UNCHANGED storeVars
       ELSE IF ~InMemory THEN Goto(t, "savingUser") /\ UNCHANGED storeVars
       ELSE /\ Goto(t, "done")
            /\ IF conv[t] \in exists THEN AddMessages(conv[t], {Question(t), Answer(t)})
               ELSE UNCHANGED storeVars
    /\ UNCHANGED frames

Insert(t) ==
    /\ pc[t] \in {"savingUser", "savingAnswer"} /\ storeUp
    /\ \/ /\ AddMessages(conv[t], {Inserting(t)})
          /\ Goto(t, IF pc[t] = "savingUser" THEN "touchingUser" ELSE "touchingAnswer")
       \/ conv[t] \notin exists /\ Goto(t, "done") /\ UNCHANGED storeVars
    /\ UNCHANGED frames

\* UPDATE ... SET updated_at, which may match no row.
Touch(t) ==
    /\ pc[t] \in {"touchingUser", "touchingAnswer"} /\ storeUp
    /\ Goto(t, IF pc[t] = "touchingUser" THEN "savingAnswer" ELSE "done")
    /\ UNCHANGED <<storeVars, frames>>

\* Mutant: a failed save reports an error on the finished stream.
SaveRaisesAloud(t) ==
    /\ pc[t] \in Saving /\ ~storeUp
    /\ DoneOrNot(t)
    /\ Fail(t)

\* Mutant: a failed save does not stop the next one.
SaveRaisesGoesOn(t) ==
    /\ pc[t] \in Saving /\ ~storeUp
    /\ DoneOrNot(t)
    /\ Goto(t, IF pc[t] \in {"savingUser", "touchingUser"} THEN "savingAnswer" ELSE "done")
    /\ UNCHANGED frames
\* Mutant: a failed save is tried again, for ever.
SaveRaisesRetries(t) ==
    /\ pc[t] \in Saving /\ ~storeUp
    /\ DoneOrNot(t)
    /\ UNCHANGED <<turnVars>>

\* The inner except: logged, and the turn is over.
SaveRaises(t) ==
    /\ pc[t] \in Saving /\ ~storeUp
    /\ DoneOrNot(t)
    /\ Goto(t, "done")
    /\ UNCHANGED frames

Cancel(t) ==
    /\ pc[t] \notin {"new"} \cup Ended
    /\ DoneOrNot(t)
    /\ Goto(t, "cancelled")
    /\ UNCHANGED frames

-----------------------------------------------------------------------------
(* The clients of routes/conversations.py.                                 *)

\* A turn whose question is in the conversation will find it gone.
Part(i) ==
    parted' = [t \in Turns |-> parted[t] \/ (conv[t] = i /\ Question(t) \in messages[i])]

ClientCreates(i) ==
    /\ storeUp
    /\ CreateConversation(i, "chosen")
    /\ Part(i)
    /\ UNCHANGED <<pc, conv, frames, narrative>>

ClientRenames(i) ==
    /\ storeUp
    /\ UpdateTitle(i)
    /\ UNCHANGED turnVars

ClientDeletes(i) ==
    /\ storeUp
    /\ DeleteConversation(i)
    /\ Part(i)
    /\ UNCHANGED <<pc, conv, frames, narrative>>

-----------------------------------------------------------------------------
BeforeGraph(t) == Lookup(t) \/ Create(t) \/ StoreRaises(t)
Closing(t) == FinishFailed(t) \/ Resume(t) \/ Insert(t) \/ Touch(t) \/ SaveRaises(t)

Next ==
    \/ \E t \in Turns :
          \/ Arrive(t) \/ BeforeGraph(t)
          \/ GraphEvent(t) \/ SynthesisEnds(t) \/ GraphEnds(t) \/ GraphRaises(t)
          \/ Closing(t) \/ Cancel(t)
    \/ \E i \in Ids : ClientCreates(i) \/ ClientRenames(i) \/ ClientDeletes(i)
    \/ StoreChanges /\ UNCHANGED turnVars

Spec == Init /\ [][Next]_vars

\* A statement returns or runs into command_timeout, and a client reads the
\* frames or goes away (then the generator is cancelled).  Nothing is assumed
\* of the graph: mcp_tool_caller lists tools without a timeout.
FairSpec == Spec /\ \A t \in Turns : WF_vars(BeforeGraph(t)) /\ WF_vars(Closing(t))

-----------------------------------------------------------------------------
(* Properties.                                                             *)

\* What the dashboard may see of a turn, at any moment and however it ends:
\* data, then at most one error, then at most one finish, and nothing more.
\* A turn that was not cancelled did finish, a save that failed included.
OpenWires == {<<>>, <<"data">>, <<"error">>, <<"data", "error">>}
FinishedWires == {<<"finish">>, <<"data", "finish">>}
FailedWires == {<<"error", "finish">>, <<"data", "error", "finish">>}
ClosedWires == FinishedWires \cup FailedWires

FramesWellFormed ==
    \A t \in Turns :
        /\ frames[t] \in OpenWires \cup ClosedWires
        /\ pc[t] = "done" => frames[t] \in ClosedWires

\* Only a turn whose stream ended without an error is stored: no client finds
\* in the history what it never saw completed.
OnlyCompletedTurnsStored ==
    \A t \in Turns, i \in Ids :
        {Question(t), Answer(t)} \cap messages[i] # {} =>
            i = conv[t] /\ narrative[t] # "none" /\ frames[t] = <<"data", "finish">>

\* An answer stands beside its question, except where a client deleted (or, in
\* memory, replaced) the conversation between the two writes.  The memory
\* store has no between: a turn is stored whole or not at all.
AnswersFollowQuestions ==
    \A t \in Turns, i \in Ids :
        /\ Answer(t) \in messages[i] => Question(t) \in messages[i] \/ parted[t]
        /\ InMemory => (Question(t) \in messages[i] <=> Answer(t) \in messages[i])

\* What makes these inductive: the wire at each place, and what may be stored
\* of a turn there.
WireAt(t) ==
    /\ pc[t] \in {"new", "looking", "creating"} => frames[t] = <<>> /\ narrative[t] = "none"
    /\ pc[t] = "streaming" =>
           frames[t] = <<"data">> \/ (frames[t] = <<>> /\ narrative[t] = "none")
    /\ pc[t] = "failing" => frames[t] \in {<<"error">>, <<"data", "error">>}
    /\ pc[t] = "finishing" =>
           frames[t] = <<"data", "finish">> \/ (frames[t] = <<"finish">> /\ narrative[t] = "none")
    /\ pc[t] \in Saving =>
           frames[t] = <<"data", "finish">> /\ narrative[t] # "none" /\ ~InMemory
    /\ pc[t] = "done" => frames[t] \in ClosedWires
    /\ pc[t] = "creating" => ~InMemory
    /\ frames[t] \in OpenWires \cup ClosedWires

StoredAt(t) ==
    /\ \A i \in Ids : {Question(t), Answer(t)} \cap messages[i] # {} => pc[t] \in Saving \cup Ended
    /\ pc[t] \in {"touchingUser", "savingAnswer", "touchingAnswer"} =>
           Question(t) \in messages[conv[t]] \/ parted[t]

\* The foreign key and its cascade.
NoOrphans == \A i \in Ids : i \notin exists => messages[i] = {}

IInv ==
    /\ TypeOK /\ NoOrphans
    /\ \A t \in Turns : WireAt(t) /\ StoredAt(t)
    /\ FramesWellFormed /\ OnlyCompletedTurnsStored /\ AnswersFollowQuestions

\* A chat turn destroys nothing: not the messages of another turn that created
\* the same conversation meanwhile, and not a title its client chose.
TurnsOnlyAdd ==
    [][(\E t \in Turns : pc'[t] # pc[t]) =>
          \A i \in exists : /\ i \in exists'
                            /\ title'[i] = title[i]
                            /\ messages[i] \subseteq messages'[i]]_vars

\* If the graph always comes to an end, so does the turn, whatever the
\* database does.
TurnsEnd ==
    (\A t \in Turns : pc[t] = "streaming" ~> pc[t] # "streaming") =>
        \A t \in Turns : pc[t] = "looking" ~> pc[t] \in Ended
=============================================================================
