------------------------- MODULE ConversationStore -------------------------
(***************************************************************************)
(* persistence/memory_store.py and postgres_store.py, and the CRUD routes  *)
(* (routes/conversations.py) that use them.  A conversation has a title    *)
(* and a set of messages; a turn writes at most one message of each role,  *)
(* so the turn and the role name a message.  Contents, ids and timestamps  *)
(* (and the order of list_conversations, which they give) are left out.    *)
(*                                                                         *)
(* No method of the memory store awaits anything: a caller that only calls *)
(* the store runs to its end in one step.  Each method of the Postgres     *)
(* store awaits one or more statements, every one its own transaction.     *)
(***************************************************************************)
EXTENDS Naturals

CONSTANTS
    Ids,            \* conversation ids
    Turns           \* the chat turns that may write messages

VARIABLES
    backend,        \* "memory" or "postgres", for the life of the process
    exists,         \* the conversations that are there
    title,          \* default: "New Conversation"; chosen: a client's
    messages,       \* what each conversation holds
    storeUp         \* the database answers

storeVars == <<backend, exists, title, messages, storeUp>>

Messages == [turn : Turns, role : {"user", "assistant"}]
Question(t) == [turn |-> t, role |-> "user"]
Answer(t) == [turn |-> t, role |-> "assistant"]

StoreTypeOK ==
    /\ backend \in {"memory", "postgres"}
    /\ exists \in SUBSET Ids
    /\ title \in [Ids -> {"default", "chosen"}]
    /\ messages \in [Ids -> SUBSET Messages]
    /\ storeUp \in BOOLEAN

StoreInit ==
    /\ backend \in {"memory", "postgres"}
    /\ exists = {}
    /\ title = [i \in Ids |-> "default"]
    /\ messages = [i \in Ids |-> {}]
    /\ storeUp = TRUE

InMemory == backend = "memory"

-----------------------------------------------------------------------------
(* The methods.                                                            *)

\* A new row, or a new dict.
Put(i, name) ==
    /\ exists' = exists \cup {i}
    /\ title' = [title EXCEPT ![i] = name]
    /\ messages' = [messages EXCEPT ![i] = {}]
    /\ UNCHANGED <<backend, storeUp>>

\* The memory store replaces a conversation, Postgres refuses a second row.
CreateConversation(i, name) == (InMemory \/ i \notin exists) /\ Put(i, name)

\* The INSERTs of add_message; the foreign key, or the ValueError, refuses a
\* message without its conversation.
AddMessages(i, new) ==
    /\ i \in exists
    /\ messages' = [messages EXCEPT ![i] = @ \cup new]
    /\ UNCHANGED <<backend, exists, title, storeUp>>

UpdateTitle(i) ==
    /\ i \in exists
    /\ title' = [title EXCEPT ![i] = "chosen"]
    /\ UNCHANGED <<backend, exists, messages, storeUp>>

\* The messages go with their conversation (ON DELETE CASCADE).
DeleteConversation(i) ==
    /\ i \in exists
    /\ exists' = exists \ {i}
    /\ title' = [title EXCEPT ![i] = "default"]
    /\ messages' = [messages EXCEPT ![i] = {}]
    /\ UNCHANGED <<backend, storeUp>>

StoreChanges ==
    /\ ~InMemory
    /\ storeUp' = ~storeUp
    /\ UNCHANGED <<backend, exists, title, messages>>
=============================================================================
