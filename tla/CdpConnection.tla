--------------------------- MODULE CdpConnection ---------------------------
(***************************************************************************)
(* The transport between the broker and one Chromium process               *)
(* (crates/cdp-client): callers park a oneshot under a command id in a map  *)
(* shared by all CDP sessions, a writer task drains a bounded queue into    *)
(* the pipe, a reader task completes the oneshots from the frames that     *)
(* come back and, when the pipe ends, fails what is left in the map.       *)
(*                                                                         *)
(* A frame is the pair [sess, id] that travels on the wire; its method and  *)
(* its parameters do not matter here.  `reply' remembers which frame       *)
(* completed a call, so that a property can compare it with the frame the   *)
(* call sent.                                                              *)
(***************************************************************************)
EXTENDS Naturals, Sequences, FiniteSets

CONSTANTS
    Calls,        \* caller tasks, each making one send
    NoCall,       \* "no oneshot parked under this id"
    Sessions,     \* CDP sessions: the root one and the attached targets
    Timed,        \* calls made with send_with_timeout(Some(_))
    Idempotent,   \* calls made with send_with_retry on an IDEMPOTENT command
    MaxAttempts,  \* RetryPolicy::default_idempotent().max_attempts
    MaxId,        \* bound: ids one session allocates
    WriterCap     \* WRITER_CAPACITY

ASSUME ConnectionAssumption ==
    /\ NoCall \notin Calls
    /\ Timed \subseteq Calls
    /\ Idempotent \subseteq Calls \ Timed
    /\ MaxAttempts \in Nat \ {0}
    /\ MaxId \in Nat \ {0}
    /\ WriterCap \in Nat \ {0}

VARIABLES
    nextId,    \* SessionInner.next_id, one counter per session
    pending,   \* Pending: id -> the call whose oneshot sender is parked there
    oneshot,   \* what the receiving half of a call's oneshot sees
    st,        \* where a call is in send_inner_value / send_with_retry_policy
    sess,      \* the session a call was made on
    id,        \* the id of a call's current attempt (0: none yet)
    attempt,   \* attempts made by a call
    res,       \* outcome of a call's last attempt
    reply,     \* the frame that completed a call, if a frame did
    queue,     \* frames in the writer's mpsc queue
    inbox,     \* frames Chromium has read and not answered
    pipe,      \* answers in the pipe to the reader, oldest first
    chromium,  \* the child process: "up" or "down"
    reader,    \* the reader task: "run", "drain", "done"
    writer,    \* the writer task: "run", "done"
    closed     \* closed_tx has fired

callVars == <<oneshot, st, sess, id, attempt, res, reply>>
pipeVars == <<queue, inbox, pipe, chromium>>
taskVars == <<reader, writer, closed>>
vars == <<nextId, pending, callVars, pipeVars, taskVars>>

Ids == 1..MaxId
Frames == [sess: Sessions, id: Ids]
NoFrame == [sess |-> NoCall, id |-> 0]
Answers == [frame: Frames, outcome: {"ok", "error"}]
Outcomes == {"none", "ok", "error", "closed", "timeout"}

TypeOK ==
    /\ nextId \in [Sessions -> Nat]
    /\ pending \in [Ids -> Calls \cup {NoCall}]
    /\ oneshot \in [Calls -> {"none", "open", "dropped", "ok", "error", "closed"}]
    /\ st \in [Calls -> {"idle", "parked", "waiting", "backoff", "done", "cancelled"}]
    /\ sess \in [Calls -> Sessions]
    /\ id \in [Calls -> Ids \cup {0}]
    /\ attempt \in [Calls -> 0..MaxAttempts]
    /\ res \in [Calls -> Outcomes]
    /\ reply \in [Calls -> Frames \cup {NoFrame}]
    /\ queue \in Seq(Frames)
    /\ inbox \subseteq Frames
    /\ pipe \in Seq(Answers)
    /\ chromium \in {"up", "down"}
    /\ reader \in {"run", "drain", "done"}
    /\ writer \in {"run", "done"}
    /\ closed \in BOOLEAN

Init ==
    /\ nextId = [s \in Sessions |-> 1]
    /\ pending = [i \in Ids |-> NoCall]
    /\ oneshot = [c \in Calls |-> "none"]
    /\ st = [c \in Calls |-> "idle"]
    /\ sess \in [Calls -> Sessions]
    /\ id = [c \in Calls |-> 0]
    /\ attempt = [c \in Calls |-> 0]
    /\ res = [c \in Calls |-> "none"]
    /\ reply = [c \in Calls |-> NoFrame]
    /\ queue = <<>>
    /\ inbox = {}
    /\ pipe = <<>>
    /\ chromium = "up"
    /\ reader = "run"
    /\ writer = "run"
    /\ closed = FALSE
----------------------------------------------------------------------------
(* Callers: CdpSession::send_inner_value and send_with_retry_policy         *)

\* pending.remove(&i): whoever's sender is parked under i, it is dropped.
Remove(i) ==
    /\ pending' = [pending EXCEPT ![i] = NoCall]
    /\ oneshot' = [c \in Calls |-> IF c = pending[i] THEN "dropped" ELSE oneshot[c]]

\* Mutant: the bound is compared one attempt early.
MutRetries(c, r) ==
    c \in Idempotent /\ r \in {"closed", "timeout"} /\ attempt[c] + 1 < MaxAttempts

\* is_transient, and the attempts the policy still allows this call.
Retries(c, r) ==
    c \in Idempotent /\ r \in {"closed", "timeout"} /\ attempt[c] < MaxAttempts

\* An attempt of c ends with r: the call returns, or backs off and tries again.
Finish(c, r) ==
    /\ res' = [res EXCEPT ![c] = r]
    /\ st' = [st EXCEPT ![c] = IF Retries(c, r) THEN "backoff" ELSE "done"]

\* Mutant: the oneshot is parked under the counter's new value.
MutSendParksLate(c) ==
    LET i == nextId[sess[c]] IN
    /\ st[c] \in {"idle", "backoff"}
    /\ i \in Ids
    /\ nextId' = [nextId EXCEPT ![sess[c]] = @ + 1]
    /\ pending' = [j \in Ids |-> IF j = i + 1 THEN c ELSE pending[j]]
    /\ oneshot' = [oneshot EXCEPT ![c] = "open"]
    /\ id' = [id EXCEPT ![c] = i]
    /\ attempt' = [attempt EXCEPT ![c] = @ + 1]
    /\ st' = [st EXCEPT ![c] = "parked"]
    /\ UNCHANGED <<sess, res, reply, pipeVars, taskVars>>

\* Mutant: the counter is read and not advanced.
MutSendReusesId(c) ==
    LET i == nextId[sess[c]] IN
    /\ st[c] \in {"idle", "backoff"}
    /\ pending' = [pending EXCEPT ![i] = c]
    /\ oneshot' = [d \in Calls |-> IF d = c THEN "open"
                                   ELSE IF d = pending[i] THEN "dropped"
                                   ELSE oneshot[d]]
    /\ id' = [id EXCEPT ![c] = i]
    /\ attempt' = [attempt EXCEPT ![c] = @ + 1]
    /\ st' = [st EXCEPT ![c] = "parked"]
    /\ UNCHANGED <<nextId, sess, res, reply, pipeVars, taskVars>>

\* A fresh id, a fresh oneshot, pending.insert.  The insert drops the sender
\* that was parked under the same id, if there was one.
Send(c) ==
    LET i == nextId[sess[c]] IN
    /\ st[c] \in {"idle", "backoff"}
    /\ i \in Ids
    /\ nextId' = [nextId EXCEPT ![sess[c]] = @ + 1]
    /\ pending' = [pending EXCEPT ![i] = c]
    /\ oneshot' = [d \in Calls |-> IF d = c THEN "open"
                                   ELSE IF d = pending[i] THEN "dropped"
                                   ELSE oneshot[d]]
    /\ id' = [id EXCEPT ![c] = i]
    /\ attempt' = [attempt EXCEPT ![c] = @ + 1]
    /\ st' = [st EXCEPT ![c] = "parked"]
    /\ UNCHANGED <<sess, res, reply, pipeVars, taskVars>>

\* writer.send(..).await with room in the queue.
Enqueue(c) ==
    /\ st[c] = "parked"
    /\ writer = "run"
    /\ Len(queue) < WriterCap
    /\ queue' = Append(queue, [sess |-> sess[c], id |-> id[c]])
    /\ st' = [st EXCEPT ![c] = "waiting"]
    /\ UNCHANGED <<nextId, pending, oneshot, sess, id, attempt, res, reply,
                   inbox, pipe, chromium, taskVars>>

\* writer.send(..).await fails: the writer task is gone.
EnqueueFails(c) ==
    /\ st[c] = "parked"
    /\ writer = "done"
    /\ Remove(id[c])
    /\ Finish(c, "closed")
    /\ UNCHANGED <<nextId, sess, id, attempt, reply, pipeVars, taskVars>>

\* The oneshot resolved with what the reader sent.
Resolve(c) ==
    /\ st[c] = "waiting"
    /\ oneshot[c] \in {"ok", "error", "closed"}
    /\ Finish(c, oneshot[c])
    /\ UNCHANGED <<nextId, pending, oneshot, sess, id, attempt, reply, pipeVars, taskVars>>

\* The sending half was dropped without a value: pending.remove(&id), and
\* ConnectionClosed for the caller.
ResolveDropped(c) ==
    /\ st[c] = "waiting"
    /\ oneshot[c] = "dropped"
    /\ Remove(id[c])
    /\ Finish(c, "closed")
    /\ UNCHANGED <<nextId, sess, id, attempt, reply, pipeVars, taskVars>>

\* Mutant: the entry of a command that timed out stays in the map.
MutTimeoutLeaks(c) ==
    /\ c \in Timed
    /\ st[c] = "waiting"
    /\ oneshot[c] = "open"
    /\ Finish(c, "timeout")
    /\ UNCHANGED <<nextId, pending, oneshot, sess, id, attempt, reply, pipeVars, taskVars>>

\* Mutant: the timer counts only while the connection is up.
MutTimeoutStops(c) ==
    /\ c \in Timed
    /\ st[c] = "waiting"
    /\ oneshot[c] = "open"
    /\ ~closed
    /\ Remove(id[c])
    /\ Finish(c, "timeout")
    /\ UNCHANGED <<nextId, sess, id, attempt, reply, pipeVars, taskVars>>

\* tokio::time::timeout(d, rx) elapses; it polls rx first, so only while open.
Timeout(c) ==
    /\ c \in Timed
    /\ st[c] = "waiting"
    /\ oneshot[c] = "open"
    /\ Remove(id[c])
    /\ Finish(c, "timeout")
    /\ UNCHANGED <<nextId, sess, id, attempt, reply, pipeVars, taskVars>>

\* The engine wraps plain sends in its own tokio timeout and drops the future:
\* nothing runs, the sender stays parked under the id.
Cancel(c) ==
    /\ c \notin Timed
    /\ st[c] \in {"parked", "waiting", "backoff"}
    /\ st' = [st EXCEPT ![c] = "cancelled"]
    /\ UNCHANGED <<nextId, pending, oneshot, sess, id, attempt, res, reply,
                   pipeVars, taskVars>>

----------------------------------------------------------------------------
(* The pipe actors: spawn_actors and dispatch                               *)

\* The writer task ends: its queue is dropped and closed_tx fires.
WriterEnds ==
    /\ writer' = "done"
    /\ queue' = <<>>
    /\ closed' = TRUE

WriterWrites ==
    /\ writer = "run"
    /\ queue # <<>>
    /\ chromium = "up"
    /\ inbox' = inbox \cup {Head(queue)}
    /\ queue' = Tail(queue)
    /\ UNCHANGED <<nextId, pending, callVars, pipe, chromium, taskVars>>

\* write_all or flush fails on a pipe nobody reads any more.
WriterFails ==
    /\ writer = "run"
    /\ queue # <<>>
    /\ chromium = "down"
    /\ WriterEnds
    /\ UNCHANGED <<nextId, pending, callVars, inbox, pipe, chromium, reader>>

\* dispatch on a frame with an id: the entry under that id, whatever session
\* the frame names, is completed.
ReaderDispatches ==
    /\ reader = "run"
    /\ pipe # <<>>
    /\ pipe' = Tail(pipe)
    /\ LET f == Head(pipe).frame
           d == pending[f.id] IN
       /\ pending' = [pending EXCEPT ![f.id] = NoCall]
       /\ oneshot' = [c \in Calls |-> IF c = d THEN Head(pipe).outcome ELSE oneshot[c]]
       /\ reply' = [c \in Calls |-> IF c = d THEN f ELSE reply[c]]
    /\ UNCHANGED <<nextId, st, sess, id, attempt, res, queue, inbox, chromium, taskVars>>

\* read() returns 0 once Chromium is gone and its last bytes are consumed.
ReaderEof ==
    /\ reader = "run"
    /\ chromium = "down"
    /\ pipe = <<>>
    /\ reader' = "drain"
    /\ closed' = TRUE
    /\ UNCHANGED <<nextId, pending, callVars, pipeVars, writer>>

\* A read error or a framing error (an oversized or malformed frame) ends the
\* reader too, with the rest of the pipe unread and Chromium possibly up.
ReaderBreaks ==
    /\ reader = "run"
    /\ pipe # <<>>
    /\ reader' = "drain"
    /\ closed' = TRUE
    /\ UNCHANGED <<nextId, pending, callVars, pipeVars, writer>>

\* One turn of the drain loop: any key is removed and failed.
ReaderDrains ==
    /\ reader = "drain"
    /\ \E i \in Ids :
          /\ pending[i] # NoCall
          /\ pending' = [pending EXCEPT ![i] = NoCall]
          /\ oneshot' = [c \in Calls |-> IF c = pending[i] THEN "closed" ELSE oneshot[c]]
    /\ UNCHANGED <<nextId, st, sess, id, attempt, res, reply, pipeVars, taskVars>>

\* Mutant: the reader returns without looking at the map again.
MutReaderReturns ==
    /\ reader = "drain"
    /\ reader' = "done"
    /\ UNCHANGED <<nextId, pending, callVars, pipeVars, writer, closed>>

\* The loop sees an empty map and the reader task returns.
ReaderReturns ==
    /\ reader = "drain"
    /\ \A i \in Ids : pending[i] = NoCall
    /\ reader' = "done"
    /\ UNCHANGED <<nextId, pending, callVars, pipeVars, writer, closed>>

----------------------------------------------------------------------------
(* Chromium                                                                 *)

\* Chromium answers any command it has read, in any order, or never.
ChromiumAnswers ==
    /\ chromium = "up"
    /\ \E f \in inbox, o \in {"ok", "error"} :
          /\ inbox' = inbox \ {f}
          /\ pipe' = Append(pipe, [frame |-> f, outcome |-> o])
    /\ UNCHANGED <<nextId, pending, callVars, queue, chromium, taskVars>>

\* It exits or crashes: nothing more is answered.
ChromiumExits ==
    /\ chromium = "up"
    /\ chromium' = "down"
    /\ inbox' = {}
    /\ UNCHANGED <<nextId, pending, callVars, queue, pipe, taskVars>>

----------------------------------------------------------------------------
Caller(c) ==
    \/ Enqueue(c) \/ EnqueueFails(c)
    \/ Resolve(c) \/ ResolveDropped(c)
    \/ Timeout(c)

WriterTask == WriterWrites \/ WriterFails
ReaderTask == ReaderDispatches \/ ReaderEof \/ ReaderDrains \/ ReaderReturns
Chromium == ChromiumAnswers \/ ChromiumExits

Next ==
    \/ \E c \in Calls : Send(c) \/ Caller(c) \/ Cancel(c)
    \/ WriterTask
    \/ ReaderTask
    \/ ReaderBreaks
    \/ Chromium

\* The tokio runtime keeps running every task that can proceed.  Nothing is
\* assumed of Chromium (it may never read nor answer a frame, so a write may
\* block as long as it is up) nor of the callers' first send.
Fairness ==
    /\ \A c \in Calls : WF_vars(Caller(c))
    /\ WF_vars(WriterFails)
    /\ WF_vars(ReaderTask)

Spec == Init /\ [][Next]_vars
FairSpec == Spec /\ Fairness

----------------------------------------------------------------------------
InFlight(c) == st[c] \in {"parked", "waiting"}

\* A caller that still waits on an open oneshot can always be found: its
\* sender is parked under its id, so a reply, the drain or its own timeout
\* reaches it (send_inner_value, dispatch and the drain loop all share the map).
NoOrphanWaiter ==
    \A c \in Calls : InFlight(c) /\ oneshot[c] = "open" => pending[id[c]] = c

\* The map holds no entry of a call that has returned: every way out of
\* send_inner_value leaves the id free, and only a dropped future may leave
\* its sender behind.
NoStaleEntry ==
    \A i \in Ids : pending[i] # NoCall =>
        /\ id[pending[i]] = i
        /\ st[pending[i]] \in {"parked", "waiting", "cancelled"}

\* Within one session a reply always reaches the call that sent the frame:
\* two attempts on the same session never share an id.
OneFramePerAttempt ==
    \A c, d \in Calls :
        c # d /\ sess[c] = sess[d] /\ id[c] = id[d] => id[c] = 0

\* A call given up on as idempotent has used every attempt the policy allows.
RetriesExhausted ==
    \A c \in Idempotent :
        st[c] = "done" /\ res[c] = "closed" => attempt[c] = MaxAttempts

\* A call completed by a frame was completed by the answer to its own frame:
\* the reader "demuxes inbound frames by (sessionId, id|method) and resolves
\* the right oneshot".
RepliesReachTheirCaller ==
    \A c \in Calls :
        reply[c] # NoFrame /\ oneshot[c] \in {"ok", "error"} => reply[c].sess = sess[c]

\* Once the reader has begun to fail the pending commands, a command that
\* waits for its answer returns (or its caller has dropped it).
DrainFailsPending ==
    \A c \in Calls : (reader = "drain" /\ st[c] = "waiting") ~> st[c] # "waiting"

\* Once Chromium is gone a command sent with a timeout returns, even one that
\* was queued too late for the drain to find it, or that was still waiting for
\* room in the writer's queue.
TimedCallsReturn ==
    \A c \in Timed : (chromium = "down" /\ InFlight(c)) ~> ~InFlight(c)
=============================================================================
