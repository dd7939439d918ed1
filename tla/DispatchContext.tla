--------------------------- MODULE DispatchContext ---------------------------
(***************************************************************************)
(* How a handler of the broker learns whose call it serves.  dispatch puts *)
(* the session into a thread-local of the tokio worker that polls it and   *)
(* clears it at its end; handlers read it back with current_session().     *)
(* The runtime is multi-threaded: a handler that awaits gives its worker   *)
(* away, and goes on later on whichever worker is idle.                    *)
(***************************************************************************)
EXTENDS Naturals, Sequences

CONSTANTS Workers,     \* threads of the runtime
          Sessions,    \* sessions, each with one connection
          None

VARIABLES slot,    \* [Workers -> CURRENT_SESSION of the thread]
          task,    \* [Sessions -> the dispatch of its connection]
          heard    \* [Sessions -> what current_session() gave this dispatch]
vars == <<slot, task, heard>>

\* Where the handlers read the thread-local, between their awaits.
Handler ==
    [observe |-> <<"read">>,                     \* net.observe and its kin, page.console
     open    |-> <<"await", "read", "read">>,    \* tab.open
     create  |-> <<"read", "await", "read">>,    \* browser.context.create
     plain   |-> <<"await">>]                    \* a handler that never asks

Idle == [call |-> "none", pc |-> 0, on |-> None]
Free(w) == \A s \in Sessions : task[s].on # w
Current(s) == task[s].on # None /\ task[s].pc <= Len(Handler[task[s].call])
At(s) == Handler[task[s].call][task[s].pc]

\* The connection's task is polled with a new request and enters dispatch.
dispatch(s, w, call) ==
    /\ task[s] = Idle /\ Free(w)
    /\ task' = [task EXCEPT ![s] = [call |-> call, pc |-> 1, on |-> w]]
    /\ slot' = [slot EXCEPT ![w] = s]
    /\ heard' = [heard EXCEPT ![s] = <<>>]

current_session(s) ==
    /\ Current(s) /\ At(s) = "read"
    /\ heard' = [heard EXCEPT ![s] = Append(@, slot[task[s].on])]
    /\ task' = [task EXCEPT ![s].pc = @ + 1]
    /\ UNCHANGED slot

\* The future is not ready: the worker takes up another task, or none.
Park(s) ==
    /\ Current(s) /\ At(s) = "await"
    /\ task' = [task EXCEPT ![s].on = None, ![s].pc = @ + 1]
    /\ UNCHANGED <<slot, heard>>
Resume(s, w) ==
    /\ task[s] # Idle /\ task[s].on = None /\ Free(w)
    /\ task' = [task EXCEPT ![s].on = w]
    /\ UNCHANGED <<slot, heard>>

\* The end of dispatch: record_action_if_traced asks once more, and TlsGuard
\* clears the slot of the thread the call happens to end on.
Finish(s) ==
    /\ task[s].on # None /\ ~Current(s)
    /\ heard' = [heard EXCEPT ![s] = Append(@, slot[task[s].on])]
    /\ slot' = [slot EXCEPT ![task[s].on] = None]
    /\ task' = [task EXCEPT ![s] = Idle]

Init == /\ slot = [w \in Workers |-> None]
        /\ task = [s \in Sessions |-> Idle]
        /\ heard = [s \in Sessions |-> <<>>]
Next == \E s \in Sessions :
            \/ \E w \in Workers : \/ \E call \in DOMAIN Handler : dispatch(s, w, call)
                                  \/ Resume(s, w)
            \/ current_session(s) \/ Park(s) \/ Finish(s)
Spec == Init /\ [][Next]_vars

-----------------------------------------------------------------------------
\* "dispatch() sets the per-call session TLS, so this is the exact same Arc the
\* router is using for this request": whenever a handler asks, it is told the
\* session it works for.
ContextIsOwn == \A s \in Sessions : \A i \in DOMAIN heard[s] : heard[s][i] = s
=============================================================================
