--------------------------- MODULE BrokerSessions ---------------------------
(***************************************************************************)
(* Sessions of the broker (crates/broker): the registry and its cap, the   *)
(* connection handler that registers, binds and unbinds a session, and the *)
(* lifecycle task that tears a session down when its clients are gone.     *)
(*                                                                         *)
(* Every await in the code is a boundary between two actions here.  What   *)
(* Chromium does during a session is CrashRecovery's subject: here a launch *)
(* succeeds or fails, and a shutdown takes a while.                        *)
(***************************************************************************)
EXTENDS Naturals, Sequences, FiniteSets

CONSTANTS
    Conns,        \* client connections, each one run of handle_conn
    NoConn,       \* an empty conn_tx
    MaxSessions,  \* State.max_sessions
    Behaviours,   \* what clients and the socket may do beyond the plain path
    MaxSids,      \* bound: session ids allocated
    MaxTasks,     \* bound: lifecycle tasks spawned
    MaxCount,     \* bound: connections one task has been told of
    MboxCap       \* SESSION_LIFECYCLE_CAPACITY

AllBehaviours == {"reattach",    \* register with an existing session_id
                  "rebind",      \* register on a connection already bound
                  "unregister",  \* session.unregister
                  "read_error"}  \* read_line fails instead of returning 0

ASSUME SessionsAssumption ==
    /\ IsFiniteSet(Conns)
    /\ NoConn \notin Conns
    /\ MaxSessions \in Nat \ {0}
    /\ Behaviours \subseteq AllBehaviours
    /\ MaxSids \in Nat \ {0}
    /\ MaxTasks \in Nat \ {0}
    /\ MaxCount \in Nat \ {0}
    /\ MboxCap \in Nat \ {0}

Sids == 1..MaxSids      \* allocate_session_id counts from 1
Tasks == 1..MaxTasks
None == 0               \* no session, no task

VARIABLES
    registry,  \* SessionRegistry.by_id: the ids present
    nextSid,   \* COUNTER of allocate_session_id
    connTx,    \* SessionEntry.conn_tx: the connection events are pushed to
    slot,      \* SessionEntry.lifecycle: the task handle in the slot
    pc,        \* where a connection handler is
    target,    \* the session a register in progress is about
    bound,     \* bound_session of a connection
    picked,    \* the lifecycle handle a bind in progress has in hand
    handle,    \* bound_lifecycle of a connection
    nextTask,  \* lifecycle tasks spawned so far, plus one
    owner,     \* the session a lifecycle task manages
    phase,     \* where a lifecycle task is
    count,     \* its connected_count
    drain,     \* its drain_deadline is set
    mbox       \* its mpsc queue

entryVars == <<registry, nextSid, connTx, slot>>
connVars == <<pc, target, picked, bound, handle>>
taskVars == <<nextTask, owner, phase, count, drain, mbox>>
vars == <<entryVars, connVars, taskVars>>

Messages == {"Connected", "Disconnected", "Shutdown"}

TypeOK ==
    /\ registry \subseteq Sids
    /\ nextSid \in 1..(MaxSids + 1)
    /\ connTx \in [Sids -> Conns \cup {NoConn}]
    /\ slot \in [Sids -> Tasks \cup {None}]
    /\ pc \in [Conns -> {"open", "launching", "lookup", "notify", "unregister",
                         "teardown", "cleanup", "closed"}]
    /\ target \in [Conns -> Sids \cup {None}]
    /\ bound \in [Conns -> Sids \cup {None}]
    /\ picked \in [Conns -> Tasks \cup {None}]
    /\ handle \in [Conns -> Tasks \cup {None}]
    /\ nextTask \in 1..(MaxTasks + 1)
    /\ owner \in [Tasks -> Sids \cup {None}]
    /\ phase \in [Tasks -> {"none", "run", "exiting", "teardown", "done"}]
    /\ count \in [Tasks -> Nat]
    /\ drain \in [Tasks -> BOOLEAN]
    /\ mbox \in [Tasks -> Seq(Messages)]

Init ==
    /\ registry = {}
    /\ nextSid = 1
    /\ connTx = [s \in Sids |-> NoConn]
    /\ slot = [s \in Sids |-> None]
    /\ pc = [c \in Conns |-> "open"]
    /\ target = [c \in Conns |-> None]
    /\ bound = [c \in Conns |-> None]
    /\ picked = [c \in Conns |-> None]
    /\ handle = [c \in Conns |-> None]
    /\ nextTask = 1
    /\ owner = [k \in Tasks |-> None]
    /\ phase = [k \in Tasks |-> "none"]
    /\ count = [k \in Tasks |-> 0]
    /\ drain = [k \in Tasks |-> FALSE]
    /\ mbox = [k \in Tasks |-> <<>>]

----------------------------------------------------------------------------
(* session.register                                                         *)

\* A second register on a bound connection is a behaviour of its own.
MayRegister(c) == pc[c] = "open" /\ (bound[c] = None \/ "rebind" \in Behaviours)

RegisterNew(c) ==
    /\ MayRegister(c)
    /\ Cardinality(registry) < MaxSessions
    /\ nextSid \in Sids
    /\ nextSid' = nextSid + 1
    /\ target' = [target EXCEPT ![c] = nextSid]
    /\ pc' = [pc EXCEPT ![c] = "launching"]
    /\ UNCHANGED <<registry, connTx, slot, picked, bound, handle, taskVars>>

\* The binary, the sandbox or Browser::launch fails: an error reply.
LaunchFails(c) ==
    /\ pc[c] = "launching"
    /\ pc' = [pc EXCEPT ![c] = "open"]
    /\ target' = [target EXCEPT ![c] = None]
    /\ UNCHANGED <<entryVars, picked, bound, handle, taskVars>>

\* Chromium is up: the entry is inserted and the reply names the session.
LaunchSucceeds(c) ==
    /\ pc[c] = "launching"
    /\ registry' = registry \cup {target[c]}
    /\ pc' = [pc EXCEPT ![c] = "lookup"]
    /\ UNCHANGED <<nextSid, connTx, slot, target, picked, bound, handle, taskVars>>

\* Register with the id of a session the registry still holds.
RegisterExisting(c) ==
    /\ "reattach" \in Behaviours
    /\ MayRegister(c)
    /\ \E s \in registry :
          /\ slot[s] # None => count[slot[s]] + Len(mbox[slot[s]]) < MaxCount
          /\ target' = [target EXCEPT ![c] = s]
    /\ pc' = [pc EXCEPT ![c] = "lookup"]
    /\ UNCHANGED <<entryVars, picked, bound, handle, taskVars>>

----------------------------------------------------------------------------
(* handle_conn: binding the session to the connection                       *)

\* registry.get(sid) finds nothing any more: the reply goes out unbound.
LookupMisses(c) ==
    /\ pc[c] = "lookup"
    /\ target[c] \notin registry
    /\ pc' = [pc EXCEPT ![c] = "open"]
    /\ target' = [target EXCEPT ![c] = None]
    /\ UNCHANGED <<entryVars, picked, bound, handle, taskVars>>

\* The entry's lifecycle task is taken from the slot.
LookupReuses(c) ==
    LET s == target[c] IN
    /\ pc[c] = "lookup"
    /\ s \in registry
    /\ slot[s] # None
    /\ picked' = [picked EXCEPT ![c] = slot[s]]
    /\ pc' = [pc EXCEPT ![c] = "notify"]
    /\ UNCHANGED <<entryVars, target, bound, handle, taskVars>>

\* The slot is empty: SessionLifecycle::spawn, and the handle goes into it.
LookupSpawns(c) ==
    LET s == target[c] IN
    /\ pc[c] = "lookup"
    /\ s \in registry
    /\ slot[s] = None
    /\ nextTask \in Tasks
    /\ nextTask' = nextTask + 1
    /\ owner' = [owner EXCEPT ![nextTask] = s]
    /\ phase' = [phase EXCEPT ![nextTask] = "run"]
    /\ slot' = [slot EXCEPT ![s] = nextTask]
    /\ picked' = [picked EXCEPT ![c] = nextTask]
    /\ pc' = [pc EXCEPT ![c] = "notify"]
    /\ UNCHANGED <<registry, nextSid, connTx, target, bound, handle, count, drain, mbox>>

\* Room for one more message to task k; a task out of its loop reads nothing,
\* and a message to it is lost.
CanSend(k) == phase[k] # "run" \/ Len(mbox[k]) < MboxCap
Sent(k, m) == [mbox EXCEPT ![k] = IF phase[k] = "run" THEN Append(@, m) ELSE @]

\* Mutant: a bind does not tell the lifecycle task.
MutNotifyConnected(c) ==
    /\ pc[c] = "notify"
    /\ connTx' = [connTx EXCEPT ![target[c]] = c]
    /\ bound' = [bound EXCEPT ![c] = target[c]]
    /\ handle' = [handle EXCEPT ![c] = picked[c]]
    /\ target' = [target EXCEPT ![c] = None]
    /\ picked' = [picked EXCEPT ![c] = None]
    /\ pc' = [pc EXCEPT ![c] = "open"]
    /\ UNCHANGED <<registry, nextSid, slot, taskVars>>

\* notify_connected().await, then bind_conn, bound_session and bound_lifecycle.
NotifyConnected(c) ==
    /\ pc[c] = "notify"
    /\ CanSend(picked[c])
    /\ mbox' = Sent(picked[c], "Connected")
    /\ connTx' = [connTx EXCEPT ![target[c]] = c]
    /\ bound' = [bound EXCEPT ![c] = target[c]]
    /\ handle' = [handle EXCEPT ![c] = picked[c]]
    /\ target' = [target EXCEPT ![c] = None]
    /\ picked' = [picked EXCEPT ![c] = None]
    /\ pc' = [pc EXCEPT ![c] = "open"]
    /\ UNCHANGED <<registry, nextSid, slot, nextTask, owner, phase, count, drain>>

----------------------------------------------------------------------------
(* session.unregister                                                       *)

\* slot.take(); with no handle in the slot there is nobody to tell.
UnregisterTakes(c) ==
    LET s == bound[c] IN
    /\ "unregister" \in Behaviours
    /\ pc[c] = "open"
    /\ s # None
    /\ picked' = [picked EXCEPT ![c] = slot[s]]
    /\ slot' = [slot EXCEPT ![s] = None]
    /\ pc' = [pc EXCEPT ![c] = IF slot[s] = None THEN "teardown" ELSE "unregister"]
    /\ UNCHANGED <<registry, nextSid, connTx, target, bound, handle, taskVars>>

\* lifecycle.shutdown().await
UnregisterSends(c) ==
    /\ pc[c] = "unregister"
    /\ CanSend(picked[c])
    /\ mbox' = Sent(picked[c], "Shutdown")
    /\ picked' = [picked EXCEPT ![c] = None]
    /\ pc' = [pc EXCEPT ![c] = "teardown"]
    /\ UNCHANGED <<entryVars, target, bound, handle, nextTask, owner, phase, count, drain>>

\* Forwarders, drivers, watches, terminals, the trace and the browser are shut
\* down, then the entry leaves the registry.  The connection stays bound.
UnregisterRemoves(c) ==
    /\ pc[c] = "teardown"
    /\ registry' = registry \ {bound[c]}
    /\ pc' = [pc EXCEPT ![c] = "open"]
    /\ UNCHANGED <<nextSid, connTx, slot, target, picked, bound, handle, taskVars>>

----------------------------------------------------------------------------
(* handle_conn: the end of a connection                                     *)

\* Mutant: the entry keeps the sender of the connection that ends.
MutDisconnect(c) ==
    /\ pc[c] = "open"
    /\ pc' = [pc EXCEPT ![c] = IF handle[c] = None THEN "closed" ELSE "cleanup"]
    /\ UNCHANGED <<entryVars, target, picked, bound, handle, taskVars>>

\* read_line returns 0, or the writer's queue is closed: unbind_conn.
Disconnect(c) ==
    /\ pc[c] = "open"
    /\ connTx' = [s \in Sids |-> IF s = bound[c] THEN NoConn ELSE connTx[s]]
    /\ pc' = [pc EXCEPT ![c] = IF handle[c] = None THEN "closed" ELSE "cleanup"]
    /\ UNCHANGED <<registry, nextSid, slot, target, picked, bound, handle, taskVars>>

\* notify_disconnected().await, and the handler's handle is dropped.
NotifyDisconnected(c) ==
    /\ pc[c] = "cleanup"
    /\ CanSend(handle[c])
    /\ mbox' = Sent(handle[c], "Disconnected")
    /\ handle' = [handle EXCEPT ![c] = None]
    /\ pc' = [pc EXCEPT ![c] = "closed"]
    /\ UNCHANGED <<entryVars, target, picked, bound, nextTask, owner, phase, count, drain>>

\* read_line fails: the handler returns at once, past its own cleanup.
ReadError(c) ==
    /\ "read_error" \in Behaviours
    /\ pc[c] = "open"
    /\ handle' = [handle EXCEPT ![c] = None]
    /\ pc' = [pc EXCEPT ![c] = "closed"]
    /\ UNCHANGED <<entryVars, target, picked, bound, taskVars>>

----------------------------------------------------------------------------
(* lifecycle::run                                                           *)

\* The head of the queue is received while task k is in its loop.
Receives(k, m) ==
    /\ phase[k] = "run"
    /\ mbox[k] # <<>>
    /\ Head(mbox[k]) = m
    /\ mbox' = [mbox EXCEPT ![k] = Tail(@)]

TaskConnected(k) ==
    /\ Receives(k, "Connected")
    /\ count' = [count EXCEPT ![k] = @ + 1]
    /\ drain' = [drain EXCEPT ![k] = FALSE]
    /\ UNCHANGED <<entryVars, connVars, nextTask, owner, phase>>

\* Mutant: the count is tested before it is decremented.
MutTaskDisconnected(k) ==
    LET left == IF count[k] = 0 THEN 0 ELSE count[k] - 1 IN
    /\ Receives(k, "Disconnected")
    /\ count' = [count EXCEPT ![k] = left]
    /\ drain' = [drain EXCEPT ![k] = @ \/ count[k] = 0]
    /\ UNCHANGED <<entryVars, connVars, nextTask, owner, phase>>

\* saturating_sub; the deadline is set when the last connection goes.
TaskDisconnected(k) ==
    LET left == IF count[k] = 0 THEN 0 ELSE count[k] - 1 IN
    /\ Receives(k, "Disconnected")
    /\ count' = [count EXCEPT ![k] = left]
    /\ drain' = [drain EXCEPT ![k] = @ \/ left = 0]
    /\ UNCHANGED <<entryVars, connVars, nextTask, owner, phase>>

TaskShutdown(k) ==
    /\ Receives(k, "Shutdown")
    /\ phase' = [phase EXCEPT ![k] = "exiting"]
    /\ UNCHANGED <<entryVars, connVars, nextTask, owner, count, drain>>

\* The deadline passes.  The select! polls its branches in a random order, so
\* this may happen with a message waiting.
TaskDrainElapses(k) ==
    /\ phase[k] = "run"
    /\ drain[k]
    /\ phase' = [phase EXCEPT ![k] = "exiting"]
    /\ UNCHANGED <<entryVars, connVars, nextTask, owner, count, drain, mbox>>

\* recv() returns None: every handle of task k is gone.
TaskChannelCloses(k) ==
    /\ phase[k] = "run"
    /\ mbox[k] = <<>>
    /\ \A s \in Sids : slot[s] # k
    /\ \A c \in Conns : handle[c] # k /\ picked[c] # k
    /\ phase' = [phase EXCEPT ![k] = "exiting"]
    /\ UNCHANGED <<entryVars, connVars, nextTask, owner, count, drain, mbox>>

\* Mutant: the slot keeps the handle of the task that exits.
MutTaskClearsSlot(k) ==
    /\ phase[k] = "exiting"
    /\ phase' = [phase EXCEPT ![k] = "teardown"]
    /\ UNCHANGED <<entryVars, connVars, nextTask, owner, count, drain, mbox>>

\* *entry.lifecycle.lock() = None, whichever task's handle is there by now.
TaskClearsSlot(k) ==
    /\ phase[k] = "exiting"
    /\ slot' = [slot EXCEPT ![owner[k]] = None]
    /\ phase' = [phase EXCEPT ![k] = "teardown"]
    /\ UNCHANGED <<registry, nextSid, connTx, connVars, nextTask, owner, count, drain, mbox>>

\* Watches, terminals and the browser are shut down; the entry is removed.
TaskRemoves(k) ==
    /\ phase[k] = "teardown"
    /\ registry' = registry \ {owner[k]}
    /\ phase' = [phase EXCEPT ![k] = "done"]
    /\ UNCHANGED <<nextSid, connTx, slot, connVars, nextTask, owner, count, drain, mbox>>

----------------------------------------------------------------------------
\* What a connection handler does once a request has started it.
Handler(c) ==
    \/ LaunchFails(c) \/ LaunchSucceeds(c)
    \/ LookupMisses(c) \/ LookupReuses(c) \/ LookupSpawns(c) \/ NotifyConnected(c)
    \/ UnregisterSends(c) \/ UnregisterRemoves(c)
    \/ NotifyDisconnected(c)

\* What the other side of the socket may do.
Client(c) ==
    \/ RegisterNew(c) \/ RegisterExisting(c) \/ UnregisterTakes(c)
    \/ Disconnect(c) \/ ReadError(c)

LifecycleTask(k) ==
    \/ TaskConnected(k) \/ TaskDisconnected(k) \/ TaskShutdown(k)
    \/ TaskDrainElapses(k) \/ TaskChannelCloses(k)
    \/ TaskClearsSlot(k) \/ TaskRemoves(k)

Next ==
    \/ \E c \in Conns : Handler(c) \/ Client(c)
    \/ \E k \in Tasks : LifecycleTask(k)

\* The runtime keeps polling the tasks it has, a launch and a shutdown end one
\* way or the other, and time passes; clients are free to do nothing.
Fairness ==
    /\ \A c \in Conns : WF_vars(Handler(c))
    /\ \A k \in Tasks : WF_vars(LifecycleTask(k))

Spec == Init /\ [][Next]_vars
FairSpec == Spec /\ Fairness
----------------------------------------------------------------------------
Attached(s) == {c \in Conns : pc[c] # "closed" /\ (bound[c] = s \/ target[c] = s)}
InQueue(k, m) == {i \in DOMAIN mbox[k] : mbox[k][i] = m}

\* A lifecycle task never believes a session has fewer connections than hold
\* it: what it has counted plus what waits in its queue covers every handler
\* that was bound through it and has not said goodbye.
NeverUndercounted ==
    \A k \in Tasks : phase[k] = "run" =>
        Cardinality({c \in Conns : handle[c] = k}) + Cardinality(InQueue(k, "Disconnected"))
            <= count[k] + Cardinality(InQueue(k, "Connected"))

\* The handle in an entry's slot is a task of that entry which still listens,
\* or is on its way to clearing the slot itself.
SlotHoldsItsTask ==
    \A s \in Sids : slot[s] # None =>
        owner[slot[s]] = s /\ phase[slot[s]] \in {"run", "exiting"}

\* A session's events go to a connection that is bound to it and not closed.
EventsGoToBoundConns ==
    \A s \in Sids : connTx[s] # NoConn =>
        bound[connTx[s]] = s /\ pc[connTx[s]] \notin {"cleanup", "closed"}

\* A session nobody is attached to does not stay in the registry: it is
\* drained and removed, or somebody attaches to it again.
SessionsDrain ==
    \A s \in Sids : (s \in registry /\ Attached(s) = {}) ~> (s \notin registry \/ Attached(s) # {})

=============================================================================
