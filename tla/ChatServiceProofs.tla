------------------------- MODULE ChatServiceProofs -------------------------
(***************************************************************************)
(* ChatService for any set of turns and conversations and both back ends.  *)
(* The wire and the history are tied together by where a turn is: its      *)
(* place determines what it has sent and bounds what it has stored.        *)
(***************************************************************************)
EXTENDS ChatService, SequenceTheorems, TLAPS

Frame == {"data", "error", "finish"}

LEMMA InitInv == Init => IInv
BY DEF Init, StoreInit, IInv, TypeOK, StoreTypeOK, WireAt, StoredAt, FramesWellFormed,
       OnlyCompletedTurnsStored, AnswersFollowQuestions, NoOrphans, OpenWires, Places, Ended, Saving,
       Question, Answer, Messages

-----------------------------------------------------------------------------
(* The back end is chosen once.                                            *)

TurnStep(u) ==
    \/ Arrive(u) \/ BeforeGraph(u) \/ GraphEvent(u) \/ SynthesisEnds(u)
    \/ GraphEnds(u) \/ GraphRaises(u) \/ Closing(u) \/ Cancel(u)
ClientStep == \E i \in Ids : ClientCreates(i) \/ ClientRenames(i) \/ ClientDeletes(i)

LEMMA TurnKeepsBackend ==
    ASSUME NEW u \in Turns, TurnStep(u)
    PROVE  backend' = backend
BY DEF TurnStep, storeVars, BeforeGraph, Closing, Arrive, Lookup, Create, StoreRaises,
       GraphEvent, SynthesisEnds, GraphEnds, GraphRaises, FinishFailed, Resume, Insert,
       Touch, SaveRaises, Cancel, DoneOrNot, CreateConversation, Put, AddMessages

LEMMA ClientsKeepBackend ==
    ASSUME ClientStep \/ StoreChanges \/ UNCHANGED vars
    PROVE  backend' = backend
BY DEF ClientStep, ClientCreates, ClientRenames, ClientDeletes, CreateConversation, Put,
       UpdateTitle, DeleteConversation, StoreChanges, vars, storeVars

LEMMA BackendKept == ASSUME [Next]_vars PROVE backend' = backend
BY TurnKeepsBackend, ClientsKeepBackend DEF Next, TurnStep, ClientStep

-----------------------------------------------------------------------------
(* Types.                                                                  *)

\* The rows of the store; storeUp, a Boolean, goes on its own.
RowsTyped ==
    /\ exists \in SUBSET Ids
    /\ title \in [Ids -> {"default", "chosen"}]
    /\ messages \in [Ids -> SUBSET Messages]

LEMMA CreateTyped ==
    ASSUME RowsTyped, NEW i \in Ids, NEW name \in {"default", "chosen"},
           CreateConversation(i, name)
    PROVE  RowsTyped'
BY DEF RowsTyped, CreateConversation, Put

LEMMA AddTyped ==
    ASSUME RowsTyped, NEW i \in Ids, NEW new \in SUBSET Messages, AddMessages(i, new)
    PROVE  RowsTyped'
BY DEF RowsTyped, AddMessages

LEMMA MessageTyped ==
    ASSUME NEW t \in Turns
    PROVE  Question(t) \in Messages /\ Answer(t) \in Messages /\ Inserting(t) \in Messages
BY DEF Question, Answer, Messages, Inserting

LEMMA DoneOrNotTyped ==
    ASSUME RowsTyped, NEW t \in Turns, conv[t] \in Ids, DoneOrNot(t)
    PROVE  RowsTyped'
<1>1. CASE UNCHANGED storeVars  BY <1>1 DEF RowsTyped, storeVars
<1>2. CASE CreateConversation(conv[t], "default")  BY <1>2, CreateTyped
<1>3. CASE AddMessages(conv[t], {Inserting(t)})  BY <1>3, AddTyped, MessageTyped
<1>4. QED  BY <1>1, <1>2, <1>3 DEF DoneOrNot

LEMMA StoreUpTyped ==
    ASSUME StoreTypeOK, [Next]_vars
    PROVE  storeUp' \in BOOLEAN
<1>1. CASE storeUp' = storeUp  BY <1>1, Zenon DEF StoreTypeOK
<1>2. CASE storeUp' = ~storeUp  BY <1>2, Zenon DEF StoreTypeOK
<1>3. QED
  BY <1>1, <1>2
  DEF Next, vars, storeVars, BeforeGraph, Closing, Arrive, Lookup, Create, StoreRaises,
      GraphEvent, SynthesisEnds, GraphEnds, GraphRaises, FinishFailed, Resume, Insert,
      Touch, SaveRaises, Cancel, ClientCreates, ClientRenames, ClientDeletes, DoneOrNot,
      CreateConversation, Put, AddMessages, UpdateTitle, DeleteConversation, StoreChanges

LEMMA RowsStep ==
    ASSUME TypeOK, [Next]_vars
    PROVE  RowsTyped'
<1>0. RowsTyped /\ conv \in [Turns -> Ids]  BY DEF TypeOK, StoreTypeOK, RowsTyped
<1>1. CASE UNCHANGED <<exists, title, messages>>  BY <1>0, <1>1 DEF RowsTyped
<1>2. ASSUME NEW t \in Turns, Lookup(t) \/ Create(t) \/ Resume(t) \/ Insert(t)
      PROVE  RowsTyped'
  <2>1. CASE UNCHANGED storeVars  BY <2>1, <1>1 DEF storeVars
  <2>2. CASE CreateConversation(conv[t], "default")  BY <2>2, <1>0, CreateTyped
  <2>3. CASE AddMessages(conv[t], {Question(t), Answer(t)}) \/ AddMessages(conv[t], {Inserting(t)})
    BY <2>3, <1>0, AddTyped, MessageTyped
  <2>4. QED  BY <1>2, <2>1, <2>2, <2>3 DEF Lookup, Create, Resume, Insert
<1>3. ASSUME NEW t \in Turns, StoreRaises(t) \/ SaveRaises(t) \/ Cancel(t)  PROVE RowsTyped'
  BY <1>0, <1>3, DoneOrNotTyped DEF StoreRaises, SaveRaises, Cancel
<1>4. ASSUME NEW i \in Ids, ClientCreates(i) \/ ClientRenames(i) \/ ClientDeletes(i)
      PROVE  RowsTyped'
  <2>1. CASE ClientCreates(i)  BY <2>1, <1>0, CreateTyped DEF ClientCreates
  <2>2. CASE ClientRenames(i)  BY <2>2, <1>0 DEF ClientRenames, UpdateTitle, RowsTyped
  <2>3. CASE ClientDeletes(i)  BY <2>3, <1>0 DEF ClientDeletes, DeleteConversation, RowsTyped
  <2>4. QED  BY <1>4, <2>1, <2>2, <2>3
<1>5. ASSUME NEW t \in Turns,
             \/ Arrive(t) \/ GraphEvent(t) \/ SynthesisEnds(t) \/ GraphEnds(t)
             \/ GraphRaises(t) \/ FinishFailed(t) \/ Touch(t)
      PROVE  RowsTyped'
  BY <1>1, <1>5 DEF storeVars, Arrive, GraphEvent, SynthesisEnds, GraphEnds, GraphRaises,
                    FinishFailed, Touch
<1>6. QED
  BY <1>1, <1>2, <1>3, <1>4, <1>5
  DEF Next, BeforeGraph, Closing, vars, storeVars, StoreChanges

LEMMA PartedTyped ==
    ASSUME TypeOK, [Next]_vars
    PROVE  parted' \in [Turns -> BOOLEAN]
<1>1. CASE UNCHANGED parted  BY <1>1 DEF TypeOK
<1>2. ASSUME NEW i \in Ids, Part(i)  PROVE parted' \in [Turns -> BOOLEAN]
  BY <1>2, Zenon DEF Part
<1>3. QED
  BY <1>1, <1>2
  DEF Next, vars, turnVars, BeforeGraph, Closing, Arrive, Lookup, Create, StoreRaises,
      GraphEvent, SynthesisEnds, GraphEnds, GraphRaises, FinishFailed, Resume, Insert,
      Touch, SaveRaises, Cancel, ClientCreates, ClientRenames, ClientDeletes, Goto, Fail

TurnsTyped ==
    /\ pc \in [Turns -> Places]
    /\ conv \in [Turns -> Ids]
    /\ narrative \in [Turns -> {"none", "answer"}]
FramesTyped == frames \in [Turns -> Seq(Frame)]

LEMMA GotoTyped ==
    ASSUME TurnsTyped, NEW t \in Turns, NEW place \in Places, Goto(t, place)
    PROVE  TurnsTyped'
BY DEF TurnsTyped, Goto

LEMMA YieldTyped ==
    ASSUME FramesTyped, NEW t \in Turns, NEW frame \in Frame, Yield(t, frame)
    PROVE  FramesTyped'
<1>1. Append(frames[t], frame) \in Seq(Frame)  BY DEF FramesTyped
<1>2. QED  BY <1>1 DEF FramesTyped, Yield

LEMMA EmitTyped ==
    ASSUME FramesTyped, NEW t \in Turns, Emit(t)
    PROVE  FramesTyped'
<1>1. <<"data">> \in Seq(Frame)  BY DEF Frame
<1>2. QED  BY <1>1 DEF FramesTyped, Emit

LEMMA FailTyped ==
    ASSUME TurnsTyped, FramesTyped, NEW t \in Turns, Fail(t)
    PROVE  TurnsTyped' /\ FramesTyped'
BY GotoTyped, YieldTyped DEF Fail, Places, Frame

LEMMA TurnTyped ==
    ASSUME TypeOK, [Next]_vars
    PROVE  TurnsTyped' /\ FramesTyped'
<1>0. TurnsTyped /\ FramesTyped  BY DEF TypeOK, TurnsTyped, FramesTyped, Frame
<1>1. CASE UNCHANGED <<pc, conv, frames, narrative>>
  BY <1>0, <1>1 DEF TurnsTyped, FramesTyped
<1>2. ASSUME NEW t \in Turns, Fail(t)  PROVE TurnsTyped' /\ FramesTyped'
  BY <1>0, <1>2, FailTyped
<1>3. ASSUME NEW t \in Turns, NEW place \in Places, Goto(t, place), UNCHANGED frames
      PROVE  TurnsTyped' /\ FramesTyped'
  BY <1>0, <1>3, GotoTyped DEF FramesTyped
<1>4. ASSUME NEW t \in Turns, NEW place \in Places, Goto(t, place), Yield(t, "finish")
      PROVE  TurnsTyped' /\ FramesTyped'
  BY <1>0, <1>4, GotoTyped, YieldTyped DEF Frame
<1>5. ASSUME NEW t \in Turns, GraphEvent(t) \/ SynthesisEnds(t)
      PROVE  TurnsTyped' /\ FramesTyped'
  BY <1>0, <1>5, EmitTyped DEF GraphEvent, SynthesisEnds, TurnsTyped
<1>6. ASSUME NEW t \in Turns, Arrive(t) \/ Lookup(t) \/ Create(t) \/ StoreRaises(t)
      PROVE  TurnsTyped' /\ FramesTyped'
  BY <1>2, <1>3, <1>6 DEF Arrive, Lookup, Create, StoreRaises, Places
<1>7. ASSUME NEW t \in Turns, GraphEnds(t) \/ GraphRaises(t) \/ FinishFailed(t)
      PROVE  TurnsTyped' /\ FramesTyped'
  BY <1>2, <1>4, <1>7 DEF GraphEnds, GraphRaises, FinishFailed, Places, Ended
<1>8. ASSUME NEW t \in Turns, Resume(t) \/ Insert(t) \/ Touch(t) \/ SaveRaises(t) \/ Cancel(t)
      PROVE  TurnsTyped' /\ FramesTyped'
  BY <1>3, <1>8 DEF Resume, Insert, Touch, SaveRaises, Cancel, Places, Saving, Ended
<1>9. QED
  BY <1>1, <1>5, <1>6, <1>7, <1>8
  DEF Next, BeforeGraph, Closing, vars, turnVars, ClientCreates, ClientRenames, ClientDeletes

LEMMA TypeStep ==
    ASSUME TypeOK, [Next]_vars
    PROVE  TypeOK'
<1>1. StoreTypeOK'
  BY RowsStep, StoreUpTyped, BackendKept DEF TypeOK, StoreTypeOK, RowsTyped
<1>2. QED  BY <1>1, PartedTyped, TurnTyped DEF TypeOK, TurnsTyped, FramesTyped, Frame

-----------------------------------------------------------------------------
(* The wire.                                                               *)

\* What the frames of a turn become.
LEMMA AppendToOne ==
    ASSUME NEW e \in Frame, NEW f \in Frame
    PROVE  Append(<<e>>, f) = <<e, f>>
<1>1. <<e>> \in Seq(Frame) /\ <<e, f>> \in Seq(Frame)  OBVIOUS
<1>2. Append(<<e>>, f) \in Seq(Frame)  BY <1>1
<1>3. Len(Append(<<e>>, f)) = 2 /\ Len(<<e, f>>) = 2  BY <1>1
<1>4. \A k \in 1..2 : Append(<<e>>, f)[k] = <<e, f>>[k]  BY <1>1
<1>5. QED  BY <1>1, <1>2, <1>3, <1>4, SeqEqual

LEMMA AppendToTwo ==
    ASSUME NEW d \in Frame, NEW e \in Frame, NEW f \in Frame
    PROVE  Append(<<d, e>>, f) = <<d, e, f>>
<1>1. <<d, e>> \in Seq(Frame) /\ <<d, e, f>> \in Seq(Frame)  OBVIOUS
<1>2. Append(<<d, e>>, f) \in Seq(Frame)  BY <1>1
<1>3. Len(Append(<<d, e>>, f)) = 3 /\ Len(<<d, e, f>>) = 3  BY <1>1
<1>4. \A k \in 1..3 : Append(<<d, e>>, f)[k] = <<d, e, f>>[k]  BY <1>1
<1>5. QED  BY <1>1, <1>2, <1>3, <1>4, SeqEqual

LEMMA Appends ==
    /\ \A f \in Frame : Append(<<>>, f) = <<f>>
    /\ \A f \in Frame : Append(<<"data">>, f) = <<"data", f>>
    /\ Append(<<"error">>, "finish") = <<"error", "finish">>
    /\ Append(<<"data", "error">>, "finish") = <<"data", "error", "finish">>
<1>1. {"data", "error", "finish"} \subseteq Frame  BY DEF Frame
<1>2. \A f \in Frame : Append(<<>>, f) = <<f>>  OBVIOUS
<1>3. QED  BY <1>1, <1>2, AppendToOne, AppendToTwo

\* A step leaves alone the turns it is not of.
Quiet(t) ==
    /\ pc'[t] = pc[t] /\ frames'[t] = frames[t] /\ narrative'[t] = narrative[t]
    /\ conv' = conv /\ backend' = backend

LEMMA OthersQuiet ==
    ASSUME TypeOK, NEW t \in Turns, NEW u \in Turns, u # t, TurnStep(u)
    PROVE  Quiet(t)
BY TurnKeepsBackend
   DEF TypeOK, Quiet, TurnStep, BeforeGraph, Closing, Arrive, Lookup, Create, StoreRaises, GraphEvent,
       SynthesisEnds, GraphEnds, GraphRaises, FinishFailed, Resume, Insert, Touch,
       SaveRaises, Cancel, Goto, Yield, Fail, Emit

LEMMA QuietWire ==
    ASSUME NEW t \in Turns, WireAt(t), Quiet(t)
    PROVE  WireAt(t)'
BY DEF WireAt, Quiet, InMemory

LEMMA OwnWire ==
    ASSUME TypeOK, NEW t \in Turns, WireAt(t), TurnStep(t)
    PROVE  WireAt(t)'
<1>0. InMemory' <=> InMemory  BY TurnKeepsBackend DEF InMemory
<1> USE <1>0
<1> USE Appends DEF TypeOK, WireAt, Goto, Yield, OpenWires, ClosedWires, FailedWires, FinishedWires, Frame
<1>1. CASE Arrive(t)  BY <1>1 DEF Arrive, Saving
<1>2. CASE Lookup(t)  BY <1>2 DEF Lookup, Saving
<1>3. CASE Create(t)  BY <1>3 DEF Create, Fail, Saving
<1>4. CASE StoreRaises(t)  BY <1>4 DEF StoreRaises, Fail, Saving
<1>5. CASE GraphEvent(t) \/ SynthesisEnds(t)
  BY <1>5 DEF GraphEvent, SynthesisEnds, Emit, Saving
<1>6. CASE GraphEnds(t)  BY <1>6 DEF GraphEnds, Saving
<1>7. CASE GraphRaises(t)  BY <1>7 DEF GraphRaises, Fail, Saving
<1>8. CASE FinishFailed(t)  BY <1>8 DEF FinishFailed, Saving
<1>9. CASE Resume(t)  BY <1>9 DEF Resume, Saving
<1>10. CASE Insert(t) \/ Touch(t)  BY <1>10 DEF Insert, Touch, Saving
<1>11. CASE SaveRaises(t)  BY <1>11 DEF SaveRaises, Saving
<1>12. CASE Cancel(t)  BY <1>12 DEF Cancel, Saving
<1>13. QED
  BY <1>1, <1>2, <1>3, <1>4, <1>5, <1>6, <1>7, <1>8, <1>9, <1>10, <1>11, <1>12
  DEF TurnStep, BeforeGraph, Closing

LEMMA ClientsQuiet ==
    ASSUME NEW t \in Turns,
           \/ \E i \in Ids : ClientCreates(i) \/ ClientRenames(i) \/ ClientDeletes(i)
           \/ StoreChanges /\ UNCHANGED turnVars
           \/ UNCHANGED vars
    PROVE  Quiet(t)
BY ClientsKeepBackend DEF Quiet, ClientStep, ClientCreates, ClientRenames, ClientDeletes, vars, turnVars

LEMMA WireStep ==
    ASSUME IInv, [Next]_vars, NEW t \in Turns
    PROVE  WireAt(t)'
BY OthersQuiet, QuietWire, OwnWire, ClientsQuiet DEF IInv, Next, TurnStep

-----------------------------------------------------------------------------
(* The history.                                                            *)

\* A turn that has stored something is past its stream, so what its messages
\* were stored under does not change any more.
StoredSound(t) ==
    /\ StoredAt(t)
    /\ \A i \in Ids :
          /\ {Question(t), Answer(t)} \cap messages[i] # {} =>
                 i = conv[t] /\ narrative[t] # "none" /\ frames[t] = <<"data", "finish">>
          /\ Answer(t) \in messages[i] => Question(t) \in messages[i] \/ parted[t]
          /\ InMemory => (Question(t) \in messages[i] <=> Answer(t) \in messages[i])

LEMMA MessagesDiffer ==
    ASSUME NEW t \in Turns, NEW u \in Turns
    PROVE  /\ Question(t) # Answer(u)
           /\ t # u => Question(t) # Question(u) /\ Answer(t) # Answer(u)
BY DEF Question, Answer

\* Messages of t come and go only with its own steps and with its conversation.
SameMessages(t) ==
    \A i \in Ids : \A m \in {Question(t), Answer(t)} : m \in messages'[i] <=> m \in messages[i]

LEMMA QuietStored ==
    ASSUME NEW t \in Turns, conv[t] \in Ids, StoredSound(t), Quiet(t), SameMessages(t),
           parted'[t] = parted[t]
    PROVE  StoredSound(t)'
BY DEF StoredSound, StoredAt, Quiet, SameMessages, Saving, Ended, InMemory

\* All a turn does to the store: it creates a conversation that is not there,
\* or adds its own messages to one that is.
TurnAdds(u) ==
    \/ UNCHANGED storeVars
    \/ conv[u] \notin exists /\ Put(conv[u], "default")
    \/ \E new \in SUBSET {Question(u), Answer(u)} : AddMessages(conv[u], new)

LEMMA TurnAddsOnly ==
    ASSUME IInv, NEW u \in Turns, TurnStep(u)
    PROVE  TurnAdds(u)
<1>1. WireAt(u)  BY DEF IInv
<1>2. Inserting(u) \in {Question(u), Answer(u)}  BY DEF Inserting
<1>3. ASSUME DoneOrNot(u)  PROVE TurnAdds(u)
  BY <1>1, <1>2, <1>3 DEF DoneOrNot, TurnAdds, CreateConversation, WireAt
<1>4. CASE Lookup(u) \/ Create(u)
  BY <1>1, <1>4 DEF Lookup, Create, TurnAdds, CreateConversation, WireAt
<1>5. CASE Resume(u) \/ Insert(u)
  BY <1>2, <1>5 DEF Resume, Insert, TurnAdds
<1>6. CASE StoreRaises(u) \/ SaveRaises(u) \/ Cancel(u)
  BY <1>3, <1>6 DEF StoreRaises, SaveRaises, Cancel
<1>7. CASE \/ Arrive(u) \/ GraphEvent(u) \/ SynthesisEnds(u) \/ GraphEnds(u)
           \/ GraphRaises(u) \/ FinishFailed(u) \/ Touch(u)
  BY <1>7 DEF Arrive, GraphEvent, SynthesisEnds, GraphEnds, GraphRaises, FinishFailed, Touch, TurnAdds
<1>8. QED
  BY <1>4, <1>5, <1>6, <1>7 DEF TurnStep, BeforeGraph, Closing

LEMMA AddedMessages ==
    ASSUME IInv, NEW u \in Turns, TurnAdds(u)
    PROVE  /\ \A i \in Ids : messages[i] \subseteq messages'[i]
           /\ \A i \in Ids : messages'[i] \subseteq messages[i] \cup {Question(u), Answer(u)}
           /\ \A i \in Ids : i # conv[u] => messages'[i] = messages[i]
           /\ \A i \in exists : i \in exists' /\ title'[i] = title[i]
           /\ NoOrphans'
<1> USE DEF NoOrphans
<1>0. /\ conv[u] \in Ids /\ exists \subseteq Ids /\ NoOrphans
      /\ messages \in [Ids -> SUBSET Messages]
      /\ title \in [Ids -> {"default", "chosen"}]
  BY DEF IInv, TypeOK, StoreTypeOK
<1>1. CASE UNCHANGED storeVars  BY <1>0, <1>1 DEF storeVars
<1>2. CASE conv[u] \notin exists /\ Put(conv[u], "default")
  <2>1. \A i \in Ids : messages'[i] = messages[i]  BY <1>0, <1>2 DEF Put
  <2>2. \A i \in exists : i \in exists' /\ title'[i] = title[i]  BY <1>0, <1>2 DEF Put
  <2>3. QED  BY <1>0, <2>1, <2>2, <1>2 DEF Put
<1>3. ASSUME NEW new \in SUBSET {Question(u), Answer(u)}, AddMessages(conv[u], new)
      PROVE  /\ \A i \in Ids : messages[i] \subseteq messages'[i]
             /\ \A i \in Ids : messages'[i] \subseteq messages[i] \cup {Question(u), Answer(u)}
             /\ \A i \in Ids : i # conv[u] => messages'[i] = messages[i]
             /\ \A i \in exists : i \in exists' /\ title'[i] = title[i]
             /\ NoOrphans'
  <2>1. \A i \in Ids :
            messages'[i] = IF i = conv[u] THEN messages[i] \cup new ELSE messages[i]
    BY <1>0, <1>3 DEF AddMessages
  <2>2. exists' = exists /\ title' = title /\ conv[u] \in exists  BY <1>3 DEF AddMessages
  <2>3. QED  BY <1>0, <2>1, <2>2
<1>4. QED  BY <1>1, <1>2, <1>3 DEF TurnAdds

LEMMA OthersStored ==
    ASSUME IInv, NEW t \in Turns, NEW u \in Turns, u # t, TurnStep(u)
    PROVE  StoredSound(t)'
<1>1. TurnAdds(u)  BY TurnAddsOnly
<1>2. SameMessages(t)
  BY <1>1, AddedMessages, MessagesDiffer DEF SameMessages
<1>3. Quiet(t)  BY OthersQuiet DEF TurnStep, IInv
<1>4. parted' = parted
  BY DEF TurnStep, BeforeGraph, Closing, Arrive, Lookup, Create, StoreRaises, GraphEvent,
         SynthesisEnds, GraphEnds, GraphRaises, FinishFailed, Resume, Insert, Touch,
         SaveRaises, Cancel, Goto, Fail
<1>5. StoredSound(t) /\ conv[t] \in Ids
  BY DEF IInv, StoredSound, OnlyCompletedTurnsStored, AnswersFollowQuestions, TypeOK
<1>6. QED  BY <1>2, <1>3, <1>4, <1>5, QuietStored

\* The turn that takes the step.
LEMMA OwnStored ==
    ASSUME IInv, NEW t \in Turns, TurnStep(t)
    PROVE  StoredSound(t)'
<1>0. /\ StoredSound(t) /\ WireAt(t) /\ conv[t] \in Ids
      /\ pc[t] \in Places /\ messages \in [Ids -> SUBSET Messages]
      /\ pc \in [Turns -> Places] /\ frames \in [Turns -> Seq(Frame)]
      /\ narrative \in [Turns -> {"none", "answer"}]
  BY DEF IInv, StoredSound, OnlyCompletedTurnsStored, AnswersFollowQuestions, TypeOK, StoreTypeOK, Frame
<1>b. InMemory' <=> InMemory  BY TurnKeepsBackend DEF InMemory
<1> USE <1>b
<1>1. TurnAdds(t)  BY TurnAddsOnly
<1>2. /\ \A i \in Ids : i # conv[t] => messages'[i] = messages[i]
      /\ \A i \in Ids : messages[i] \subseteq messages'[i]
  BY <1>1, AddedMessages
<1>3. CASE pc[t] \notin Saving \cup {"finishing"}
  <2>1. UNCHANGED storeVars \/ Put(conv[t], "default")
    BY <1>3 DEF TurnStep, BeforeGraph, Closing, Arrive, Lookup, Create, StoreRaises, GraphEvent,
       SynthesisEnds, GraphEnds, GraphRaises, FinishFailed, Resume, Insert, Touch, SaveRaises,
       Cancel, DoneOrNot, CreateConversation, Saving
  <2>2. pc[t] \notin Ended
    BY DEF TurnStep, BeforeGraph, Closing, Arrive, Lookup, Create, StoreRaises, GraphEvent,
       SynthesisEnds, GraphEnds, GraphRaises, FinishFailed, Resume, Insert, Touch, SaveRaises,
       Cancel, Saving, Ended
  <2>3. \A i \in Ids : {Question(t), Answer(t)} \cap messages[i] = {}
    BY <1>0, <1>3, <2>2 DEF StoredSound, StoredAt
  <2>4. \A i \in Ids : {Question(t), Answer(t)} \cap messages'[i] = {}
    BY <1>0, <2>1, <2>3 DEF storeVars, Put
  <2>5. pc'[t] \notin {"touchingUser", "savingAnswer", "touchingAnswer"}
    BY <1>0, <1>3 DEF TurnStep, BeforeGraph, Closing, Arrive, Lookup, Create, StoreRaises,
       GraphEvent, SynthesisEnds, GraphEnds, GraphRaises, FinishFailed, Resume, Insert, Touch,
       SaveRaises, Cancel, Goto, Fail, Saving
  <2>6. QED  BY <2>4, <2>5 DEF StoredSound, StoredAt
<1>4. CASE pc[t] = "finishing"
  <2>1. Resume(t) \/ Cancel(t)
    BY <1>4 DEF TurnStep, BeforeGraph, Closing, Arrive, Lookup, Create, StoreRaises, GraphEvent,
       SynthesisEnds, GraphEnds, GraphRaises, FinishFailed, Insert, Touch, SaveRaises, Saving
  <2>2. \A i \in Ids : {Question(t), Answer(t)} \cap messages[i] = {}
    BY <1>0, <1>4 DEF StoredSound, StoredAt, Saving, Ended
  <2>3. CASE UNCHANGED storeVars
    <3>1. messages' = messages  BY <2>3 DEF storeVars
    <3>2. pc'[t] \in {"done", "cancelled", "savingUser"}
      BY <1>0, <2>1 DEF Resume, Cancel, Goto
    <3>3. QED  BY <2>2, <3>1, <3>2 DEF StoredSound, StoredAt
  <2>4. CASE /\ AddMessages(conv[t], {Question(t), Answer(t)})
             /\ Resume(t) /\ narrative[t] # "none" /\ Goto(t, "done") /\ UNCHANGED frames
    <3>1. \A i \in Ids : messages'[i] =
              IF i = conv[t] THEN messages[i] \cup {Question(t), Answer(t)} ELSE messages[i]
      BY <1>0, <2>4 DEF AddMessages
    <3>2. pc'[t] = "done" /\ conv' = conv /\ narrative' = narrative /\ frames' = frames
      BY <1>0, <2>4 DEF Goto
    <3>3. frames[t] = <<"data", "finish">>  BY <1>0, <1>4, <2>4 DEF WireAt
    <3>4. QED  BY <2>2, <2>4, <3>1, <3>2, <3>3 DEF StoredSound, StoredAt, Ended
  <2>5. QED  BY <1>4, <2>1, <2>3, <2>4 DEF Resume, Cancel, DoneOrNot
<1>5. CASE pc[t] \in Saving
  <2>1. Insert(t) \/ Touch(t) \/ SaveRaises(t) \/ Cancel(t)
    BY <1>5 DEF TurnStep, BeforeGraph, Closing, Arrive, Lookup, Create, StoreRaises, GraphEvent,
       SynthesisEnds, GraphEnds, GraphRaises, FinishFailed, Resume, Saving
  <2>2. /\ ~InMemory /\ frames[t] = <<"data", "finish">> /\ narrative[t] # "none"
        /\ frames' = frames /\ narrative' = narrative /\ conv' = conv /\ parted' = parted
    BY <1>0, <1>5, <2>1 DEF WireAt, Insert, Touch, SaveRaises, Cancel, Goto
  <2>3. pc'[t] \in Saving \cup Ended
    BY <1>0, <1>5, <2>1 DEF Insert, Touch, SaveRaises, Cancel, Goto, Saving, Ended
  <2>4. CASE UNCHANGED storeVars /\ (Touch(t) \/ pc'[t] \in Ended)
    <3>1. messages' = messages  BY <2>4 DEF storeVars
    <3>2. CASE Touch(t)
      BY <1>0, <2>2, <2>3, <3>1, <3>2 DEF Touch, StoredSound, StoredAt
    <3>3. CASE pc'[t] \in Ended
      BY <1>0, <2>2, <2>3, <3>1, <3>3 DEF StoredSound, StoredAt, Ended
    <3>4. QED  BY <2>4, <3>2, <3>3
  <2>5. CASE /\ AddMessages(conv[t], {Inserting(t)}) /\ pc[t] \in {"savingUser", "savingAnswer"}
    <3>1. \A i \in Ids : messages'[i] =
              IF i = conv[t] THEN messages[i] \cup {Inserting(t)} ELSE messages[i]
      BY <1>0, <2>5 DEF AddMessages
    <3>2. CASE pc[t] = "savingUser"
      BY <1>0, <2>2, <2>3, <3>1, <3>2, MessagesDiffer DEF Inserting, StoredSound, StoredAt
    <3>3. CASE pc[t] = "savingAnswer"
      BY <1>0, <2>2, <2>3, <3>1, <3>3, MessagesDiffer DEF Inserting, StoredSound, StoredAt
    <3>4. QED  BY <2>5, <3>2, <3>3
  <2>6. QED
    BY <1>0, <1>5, <2>1, <2>4, <2>5
    DEF Insert, Touch, SaveRaises, Cancel, DoneOrNot, Saving, Ended, Goto
<1>6. QED  BY <1>3, <1>4, <1>5

\* The clients: a conversation that goes takes its messages along, and parts
\* the turns whose questions it held.
LEMMA ClientStored ==
    ASSUME IInv, NEW t \in Turns, ClientStep
    PROVE  StoredSound(t)'
<1>0. /\ StoredSound(t) /\ conv[t] \in Ids /\ Quiet(t)
      /\ messages \in [Ids -> SUBSET Messages]
  BY ClientsQuiet
  DEF IInv, StoredSound, OnlyCompletedTurnsStored, AnswersFollowQuestions, TypeOK, StoreTypeOK, ClientStep
<1>1. PICK i \in Ids : ClientCreates(i) \/ ClientRenames(i) \/ ClientDeletes(i)
  BY DEF ClientStep
<1>2. CASE ClientRenames(i)
  <2>1. messages' = messages /\ parted' = parted
    BY <1>2 DEF ClientRenames, UpdateTitle, turnVars
  <2>2. QED  BY <1>0, <2>1, QuietStored DEF SameMessages
<1>3. CASE ClientCreates(i) \/ ClientDeletes(i)
  <2>1. \A j \in Ids : messages'[j] = IF j = i THEN {} ELSE messages[j]
    BY <1>0, <1>3 DEF ClientCreates, ClientDeletes, CreateConversation, Put, DeleteConversation
  <2>2. parted'[t] = (parted[t] \/ (conv[t] = i /\ Question(t) \in messages[i]))
    BY <1>3, Zenon DEF ClientCreates, ClientDeletes, Part
  <2>3. QED  BY <1>0, <2>1, <2>2 DEF StoredSound, StoredAt, Quiet, InMemory
<1>4. QED  BY <1>1, <1>2, <1>3

-----------------------------------------------------------------------------
(* The theorems.                                                           *)

LEMMA NoOrphansStep ==
    ASSUME IInv, [Next]_vars
    PROVE  NoOrphans'
<1>0. NoOrphans /\ messages \in [Ids -> SUBSET Messages] /\ exists \subseteq Ids
  BY DEF IInv, TypeOK, StoreTypeOK
<1>1. CASE UNCHANGED <<exists, messages>>  BY <1>0, <1>1 DEF NoOrphans
<1>2. ASSUME NEW u \in Turns, TurnStep(u)  PROVE NoOrphans'
  BY <1>2, TurnAddsOnly, AddedMessages
<1>3. ASSUME NEW i \in Ids, ClientCreates(i) \/ ClientRenames(i) \/ ClientDeletes(i)
      PROVE  NoOrphans'
  BY <1>0, <1>3 DEF NoOrphans, ClientCreates, ClientRenames, ClientDeletes, CreateConversation,
                    Put, UpdateTitle, DeleteConversation
<1>4. QED
  BY <1>1, <1>2, <1>3 DEF Next, TurnStep, vars, storeVars, StoreChanges

LEMMA StoredStep ==
    ASSUME IInv, [Next]_vars, NEW t \in Turns
    PROVE  StoredSound(t)'
<1>1. CASE (StoreChanges /\ UNCHANGED turnVars) \/ UNCHANGED vars
  <2>1. messages' = messages /\ parted' = parted /\ Quiet(t)
    BY <1>1, ClientsQuiet DEF StoreChanges, vars, storeVars, turnVars
  <2>2. StoredSound(t) /\ conv[t] \in Ids
    BY DEF IInv, StoredSound, OnlyCompletedTurnsStored, AnswersFollowQuestions, TypeOK
  <2>3. QED  BY <2>1, <2>2, QuietStored DEF SameMessages
<1>2. ASSUME NEW u \in Turns, TurnStep(u)  PROVE StoredSound(t)'
  BY <1>2, OwnStored, OthersStored
<1>3. CASE ClientStep  BY <1>3, ClientStored
<1>4. QED  BY <1>1, <1>2, <1>3 DEF Next, TurnStep, ClientStep

LEMMA StepInv == IInv /\ [Next]_vars => IInv'
<1> SUFFICES ASSUME IInv, [Next]_vars  PROVE IInv'
  OBVIOUS
<1>1. TypeOK'  BY TypeStep DEF IInv
<1>2. \A t \in Turns : WireAt(t)'  BY WireStep
<1>3. \A t \in Turns : StoredSound(t)'  BY StoredStep
<1>4. FramesWellFormed'  BY <1>2 DEF WireAt, FramesWellFormed
<1>5. QED
  BY <1>1, <1>2, <1>3, <1>4, NoOrphansStep
  DEF IInv, StoredSound, OnlyCompletedTurnsStored, AnswersFollowQuestions

LEMMA Invariance == Spec => []IInv
<1>1. QED  BY InitInv, StepInv, PTL DEF Spec

\* Every variable keeps its type.
THEOREM TypeCorrect == Spec => []TypeOK
<1>1. IInv => TypeOK  BY DEF IInv
<1>2. QED  BY <1>1, Invariance, PTL

\* However many turns run and whatever fails, each stream is data, error,
\* finish in that order, and ends with its finish unless it was cancelled.
THEOREM StreamsWellFormed == Spec => []FramesWellFormed
<1>1. IInv => FramesWellFormed  BY DEF IInv
<1>2. QED  BY <1>1, Invariance, PTL

\* What is stored belongs to a turn whose stream was completed.
THEOREM StoredWasCompleted == Spec => []OnlyCompletedTurnsStored
<1>1. IInv => OnlyCompletedTurnsStored  BY DEF IInv
<1>2. QED  BY <1>1, Invariance, PTL

\* No answer is stored without its question, except across a deletion; in
\* memory, never.
THEOREM TurnsStoredInOrder == Spec => []AnswersFollowQuestions
<1>1. IInv => AnswersFollowQuestions  BY DEF IInv
<1>2. QED  BY <1>1, Invariance, PTL

\* No chat turn removes or renames anything, for either back end.
THEOREM NothingDestroyed == Spec => TurnsOnlyAdd
<1> DEFINE Adds == (\E t \in Turns : pc'[t] # pc[t]) =>
                      \A i \in exists : /\ i \in exists'
                                        /\ title'[i] = title[i]
                                        /\ messages[i] \subseteq messages'[i]
<1>1. ASSUME IInv, [Next]_vars  PROVE [Adds]_vars
  <2>1. exists \subseteq Ids  BY <1>1 DEF IInv, TypeOK, StoreTypeOK
  <2>2. ASSUME NEW u \in Turns, TurnStep(u)  PROVE Adds
    BY <1>1, <2>1, <2>2, TurnAddsOnly, AddedMessages
  <2>3. CASE ClientStep \/ (StoreChanges /\ UNCHANGED turnVars)
    <3>1. pc' = pc
      BY <2>3 DEF ClientStep, ClientCreates, ClientRenames, ClientDeletes, turnVars
    <3>2. QED  BY <3>1
  <2>4. QED  BY <1>1, <2>2, <2>3 DEF Next, TurnStep, ClientStep
<1>2. QED  BY <1>1, Invariance, PTL DEF Spec, TurnsOnlyAdd

-----------------------------------------------------------------------------
(* No turn goes round in circles.                                          *)

\* The awaits that a turn has before it, at its longest.
StepsLeft(t) ==
    CASE pc[t] = "new" -> 10
      [] pc[t] = "looking" -> 9
      [] pc[t] = "creating" -> 8
      [] pc[t] = "streaming" -> 7
      [] pc[t] = "finishing" -> 6
      [] pc[t] = "savingUser" -> 5
      [] pc[t] = "touchingUser" -> 4
      [] pc[t] = "savingAnswer" -> 3
      [] pc[t] = "touchingAnswer" -> 2
      [] pc[t] = "failing" -> 1
      [] OTHER -> 0

\* What resumes a turn, the events of its graph excepted.
Resumes(t) ==
    Arrive(t) \/ BeforeGraph(t) \/ GraphEnds(t) \/ GraphRaises(t) \/ Closing(t) \/ Cancel(t)

Bounded(t) ==
    /\ StepsLeft(t)' <= StepsLeft(t)
    /\ Resumes(t) => StepsLeft(t)' < StepsLeft(t)

LEMMA ResumesBounded ==
    ASSUME TypeOK, NEW t \in Turns, Resumes(t)
    PROVE  StepsLeft(t)' < StepsLeft(t)
<1>1. ASSUME NEW place \in Places, Goto(t, place)  PROVE pc'[t] = place
  BY <1>1 DEF TypeOK, Goto
<1>2. CASE Arrive(t) \/ Lookup(t) \/ Create(t) \/ StoreRaises(t)
  <2>1. \/ pc[t] = "new" /\ pc'[t] = "looking"
        \/ pc[t] = "looking" /\ pc'[t] \in {"creating", "streaming", "failing"}
        \/ pc[t] = "creating" /\ pc'[t] \in {"streaming", "failing"}
    BY <1>1, <1>2 DEF Arrive, Lookup, Create, StoreRaises, Fail, Places
  <2>2. QED  BY <2>1 DEF StepsLeft
<1>3. CASE GraphEnds(t) \/ GraphRaises(t) \/ FinishFailed(t)
  <2>1. \/ pc[t] = "streaming" /\ pc'[t] \in {"finishing", "failing"}
        \/ pc[t] = "failing" /\ pc'[t] = "done"
    BY <1>1, <1>3 DEF GraphEnds, GraphRaises, FinishFailed, Fail, Places, Ended
  <2>2. QED  BY <2>1 DEF StepsLeft
<1>4. CASE Resume(t)
  <2>1. pc[t] = "finishing" /\ pc'[t] \in {"done", "savingUser"}
    BY <1>1, <1>4 DEF Resume, Places, Ended, Saving
  <2>2. QED  BY <2>1 DEF StepsLeft
<1>5. CASE Insert(t) \/ Touch(t)
  <2>1. \/ pc[t] = "savingUser" /\ pc'[t] \in {"touchingUser", "done"}
        \/ pc[t] = "touchingUser" /\ pc'[t] = "savingAnswer"
        \/ pc[t] = "savingAnswer" /\ pc'[t] \in {"touchingAnswer", "done"}
        \/ pc[t] = "touchingAnswer" /\ pc'[t] = "done"
    BY <1>1, <1>5 DEF Insert, Touch, Places, Ended, Saving
  <2>2. QED  BY <2>1 DEF StepsLeft
<1>6. CASE SaveRaises(t) \/ Cancel(t)
  <2>1. pc'[t] \in Ended  BY <1>1, <1>6 DEF SaveRaises, Cancel, Places, Ended
  <2>2. pc[t] \in Places \ Ended
    BY <1>6 DEF SaveRaises, Cancel, Saving, Ended, TypeOK
  <2>3. QED  BY <2>1, <2>2 DEF StepsLeft, Places, Saving, Ended
<1>7. QED
  BY <1>2, <1>3, <1>4, <1>5, <1>6 DEF Resumes, BeforeGraph, Closing

\* chat_service.py, execute: a turn comes to its end after at most ten steps
\* besides the events of its graph; no failure of the store, no client and no
\* other turn sends it back.
THEOREM TurnsAreBounded == Spec => [][\A t \in Turns : Bounded(t)]_vars
<1>1. ASSUME TypeOK, Next, NEW t \in Turns  PROVE Bounded(t)
  <2>1. StepsLeft(t) \in 0..10 /\ StepsLeft(t)' \in 0..10  BY DEF StepsLeft
  <2>2. Resumes(t) => StepsLeft(t)' < StepsLeft(t)  BY <1>1, ResumesBounded
  <2>3. ASSUME pc'[t] = pc[t]  PROVE Bounded(t)
    <3>1. StepsLeft(t)' = StepsLeft(t)  BY <2>3 DEF StepsLeft
    <3>2. QED  BY <2>1, <2>2, <3>1 DEF Bounded
  <2>4. CASE Resumes(t)  BY <2>1, <2>2, <2>4 DEF Bounded
  <2>5. CASE GraphEvent(t) \/ SynthesisEnds(t)
    BY <2>3, <2>5 DEF GraphEvent, SynthesisEnds
  <2>6. ASSUME NEW u \in Turns, u # t, TurnStep(u)  PROVE Bounded(t)
    BY <1>1, <2>3, <2>6, OthersQuiet DEF Quiet
  <2>7. CASE ClientStep \/ (StoreChanges /\ UNCHANGED turnVars)
    BY <2>3, <2>7, ClientsQuiet DEF ClientStep, Quiet
  <2>8. QED
    BY <1>1, <2>4, <2>5, <2>6, <2>7 DEF Next, Resumes, TurnStep, ClientStep
<1>2. TypeOK /\ [Next]_vars => [\A t \in Turns : Bounded(t)]_vars  BY <1>1
<1>3. QED  BY <1>2, TypeCorrect, PTL DEF Spec
=============================================================================
