------------------------------ MODULE ToolCalls ------------------------------
(***************************************************************************)
(* What the bridge and the broker promise the agent about a tool call: it  *)
(* runs at most once, it is answered exactly once, and "ok" is only the    *)
(* answer to a call that ran.  A call may run after it was answered with   *)
(* an error: at most once is not "not at all".                             *)
(***************************************************************************)
CONSTANT Calls
VARIABLES asked, ran, reply
vars == <<asked, ran, reply>>

Init == asked = {} /\ ran = {} /\ reply = [c \in Calls |-> "none"]
Ask(c) == c \notin asked /\ asked' = asked \cup {c} /\ UNCHANGED <<ran, reply>>
Run(c) == c \in asked \ ran /\ ran' = ran \cup {c} /\ UNCHANGED <<asked, reply>>
Open(c) == c \in asked /\ reply[c] = "none"
Succeed(c) == Open(c) /\ c \in ran /\ reply' = [reply EXCEPT ![c] = "ok"] /\ UNCHANGED <<asked, ran>>
Fail(c) == Open(c) /\ reply' = [reply EXCEPT ![c] = "error"] /\ UNCHANGED <<asked, ran>>
Next == \E c \in Calls : Ask(c) \/ Run(c) \/ Succeed(c) \/ Fail(c)
Safety == Init /\ [][Next]_vars
Spec == Safety /\ \A c \in Calls : WF_vars(Succeed(c) \/ Fail(c))
==============================================================================
