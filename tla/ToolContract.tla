---------------------------- MODULE ToolContract ----------------------------
(***************************************************************************)
(* What a tool server promises the agent that calls it: every call is      *)
(* answered on its own, as by a server that has no cache and no other      *)
(* caller.  A call that is not granted is refused; one that is granted     *)
(* gets what the service says for the view of the data its caller has, or  *)
(* an error; and a call that is given up gets nothing.                     *)
(***************************************************************************)
CONSTANTS
    Calls,      \* the calls that may be in progress at once
    Views       \* the views of the data that callers have

VARIABLES
    phase,      \* idle, asking (for the authorizer's word), working
    view,       \* the view that the call's request entitles it to
    answer      \* what the last call of this slot got

vars == <<phase, view, answer>>

Refused == [how |-> "refused"]
Failed == [how |-> "failed"]
NoAnswer == [how |-> "none"]
Data(v) == [how |-> "data", view |-> v]

Init ==
    /\ phase = [c \in Calls |-> "idle"]
    /\ view \in [Calls -> Views]
    /\ answer = [c \in Calls |-> NoAnswer]

Become(c, place) == phase' = [phase EXCEPT ![c] = place]
Give(c, a) == answer' = [answer EXCEPT ![c] = a]

\* A call comes in; what is not valid is refused at once.
Ask(c) ==
    /\ phase[c] = "idle"
    /\ \E v \in Views : view' = [view EXCEPT ![c] = v]
    /\ \/ Become(c, "asking") /\ Give(c, NoAnswer)
       \/ Give(c, Refused) /\ UNCHANGED phase

Refuse(c) == phase[c] = "asking" /\ Become(c, "idle") /\ Give(c, Refused) /\ UNCHANGED view
Grant(c) == phase[c] = "asking" /\ Become(c, "working") /\ UNCHANGED <<view, answer>>

Answer(c) ==
    /\ phase[c] = "working"
    /\ Become(c, "idle")
    /\ Give(c, Data(view[c]))
    /\ UNCHANGED view

Fail(c) == phase[c] = "working" /\ Become(c, "idle") /\ Give(c, Failed) /\ UNCHANGED view
GiveUp(c) == phase[c] # "idle" /\ Become(c, "idle") /\ Give(c, NoAnswer) /\ UNCHANGED view

Next == \E c \in Calls : Ask(c) \/ Refuse(c) \/ Grant(c) \/ Answer(c) \/ Fail(c) \/ GiveUp(c)

Spec == Init /\ [][Next]_vars
=============================================================================
