------------------------------ MODULE McpBridge ------------------------------
(***************************************************************************)
(* The MCP bridge's connection to the broker (mcp-server broker_client.rs, *)
(* mcp.rs) together with the broker's side of the socket (server.rs        *)
(* handle_conn).  Every tools/call is a task of its own; they share one    *)
(* writer, one table of calls in flight and, after a redial, sometimes two *)
(* reader tasks.  The broker answers one request of a connection at a      *)
(* time and may die and be restarted by launchd.                           *)
(***************************************************************************)
EXTENDS Integers, Sequences, FiniteSets, TLC

CONSTANTS Tools,       \* the agent's tool calls
          Reg,         \* the session.register of start-up
          MaxCrashes   \* bound: deaths of the broker

ASSUME RegAssumption == Reg \notin Tools /\ "none" \notin Tools \cup {Reg}
ASSUME CrashesAssumption == MaxCrashes \in Nat

VARIABLES mode,      \* "starting", "serving", "closing" (stdin at EOF) or "brokerless"
          pc,        \* where each call's task is
          attempt,   \* send_with_timeout's loop counter
          got,       \* what the call's oneshot holds
          reply,     \* what the agent was told
          inflight,  \* the ids <<call, attempt>> awaiting a response
          writer,    \* the connection of the write half, 0 when there is none
          lock,      \* the call holding the writer mutex
          conns,     \* every connection dialled so far
          broker,    \* "up" or "down"
          crashes,
          ran        \* the calls whose handler the broker ran, with how often
vars == <<mode, pc, attempt, got, reply, inflight, writer, lock, conns, broker, crashes, ran>>
client == <<mode, attempt, inflight, writer, lock>>
server == <<broker, crashes, ran>>

Calls == Tools \cup {Reg}
None == "none"
NoId == <<>>
Id(c) == <<c, attempt[c]>>
\* Mutant: a new connection is bound to the session at once.
MutNewConn == [wopen |-> TRUE, sopen |-> TRUE, reading |-> TRUE, bound |-> TRUE, torn |-> FALSE,
               up |-> <<>>, down |-> <<>>, busy |-> NoId]
\* wopen: the bridge holds the write half; sopen: the broker's task serves it;
\* reading: the bridge's reader task runs; torn: a frame without its newline.
NewConn == [wopen |-> TRUE, sopen |-> TRUE, reading |-> TRUE, bound |-> FALSE, torn |-> FALSE,
            up |-> <<>>, down |-> <<>>, busy |-> NoId]

Init ==
    /\ mode = "starting"
    /\ pc = [c \in Calls |-> IF c = Reg THEN "dial" ELSE "idle"]
    /\ attempt = [c \in Calls |-> 0] /\ got = [c \in Calls |-> None]
    /\ reply = [c \in Calls |-> None]
    /\ inflight = {} /\ writer = 0 /\ lock = None /\ conns = <<>>
    /\ broker \in {"up", "down"} /\ crashes = 0 /\ ran = [c \in Calls |-> 0]

-----------------------------------------------------------------------------
\* A task ends: the agent is answered; register's end opens the stdio loop, or
\* the brokerless one.
Finish(c, r) ==
    /\ pc' = [pc EXCEPT ![c] = "done"] /\ reply' = [reply EXCEPT ![c] = r]
    /\ mode' = IF c # Reg THEN mode ELSE IF r = "ok" THEN "serving" ELSE "brokerless"
    /\ UNCHANGED attempt
\* send_with_timeout: a transport error is redialled once.
Unavailable(c) ==
    IF attempt[c] = 0
    THEN /\ attempt' = [attempt EXCEPT ![c] = 1] /\ pc' = [pc EXCEPT ![c] = "dial"]
         /\ UNCHANGED <<reply, mode>>
    ELSE Finish(c, "BrokerUnavailable")

handle_tools_call(c) ==
    /\ pc[c] = "idle" /\ mode \in {"serving", "brokerless"}
    /\ pc' = [pc EXCEPT ![c] = IF mode = "serving" THEN "insert" ELSE "stub"]
    /\ UNCHANGED <<client, got, reply, conns, server>>
run_brokerless(c) ==
    /\ pc[c] = "stub" /\ Finish(c, "BrokerUnavailable")
    /\ UNCHANGED <<got, inflight, writer, lock, conns, server>>

\* send_once, in the order of its awaits.
send_insert(c) ==
    /\ pc[c] = "insert"
    /\ inflight' = inflight \cup {Id(c)} /\ got' = [got EXCEPT ![c] = None]
    /\ pc' = [pc EXCEPT ![c] = "lock"]
    /\ UNCHANGED <<mode, attempt, reply, writer, lock, conns, server>>
send_lock(c) ==
    /\ pc[c] = "lock" /\ lock = None
    /\ IF writer = 0
       THEN Unavailable(c) /\ UNCHANGED lock
       ELSE /\ lock' = c /\ pc' = [pc EXCEPT ![c] = "writing"]
            /\ UNCHANGED <<mode, attempt, reply>>
    /\ UNCHANGED <<got, inflight, writer, conns, server>>
write_line(c) ==
    /\ pc[c] = "writing" /\ lock' = None
    /\ IF conns[writer].sopen
       THEN /\ conns' = [conns EXCEPT ![writer].up =
                             Append(@, IF conns[writer].torn THEN NoId ELSE Id(c)),
                                      ![writer].torn = FALSE]
            /\ pc' = [pc EXCEPT ![c] = "wait"]
            /\ UNCHANGED <<mode, attempt, reply, inflight, writer>>
       ELSE /\ conns' = [conns EXCEPT ![writer].wopen = FALSE]
            /\ inflight' = inflight \ {Id(c)} /\ writer' = 0
            /\ Unavailable(c)
    /\ UNCHANGED <<got, server>>
send_receive(c) ==
    /\ pc[c] = "wait" /\ got[c] # None
    /\ IF got[c] = "closed" THEN Unavailable(c) ELSE Finish(c, got[c])
    /\ UNCHANGED <<got, inflight, writer, lock, conns, server>>
\* Mutant: the entry is removed, and the wait goes on.
MutSendTimeout(c) ==
    /\ pc[c] = "wait" /\ got[c] = None
    /\ inflight' = inflight \ {Id(c)}
    /\ UNCHANGED <<mode, pc, attempt, got, reply, writer, lock, conns, server>>
send_timeout(c) ==
    /\ pc[c] = "wait" /\ got[c] = None
    /\ inflight' = inflight \ {Id(c)}
    /\ Finish(c, "Timeout")
    /\ UNCHANGED <<got, writer, lock, conns, server>>

\* dial_and_attach: the new write half replaces the old, the old reader stays.
Attach(c) ==
    /\ lock = None
    /\ conns' = Append([k \in DOMAIN conns |-> IF k = writer THEN [conns[k] EXCEPT !.wopen = FALSE]
                                               ELSE conns[k]], NewConn)
    /\ writer' = Len(conns) + 1
    /\ \/ pc' = [pc EXCEPT ![c] = "insert"] /\ UNCHANGED <<mode, reply, attempt>>
       \/ attempt[c] = 1 /\ Finish(c, "Timeout")
    /\ UNCHANGED <<got, inflight, lock, server>>
\* A redial that fails is no reason not to try a second time, unless the call's
\* time is up.
NoDial(c) ==
    /\ IF attempt[c] = 0 THEN Finish(c, "BrokerUnavailable")
       ELSE \/ pc' = [pc EXCEPT ![c] = "insert"] /\ UNCHANGED <<mode, reply, attempt>>
            \/ Finish(c, "Timeout")
    /\ UNCHANGED <<got, inflight, writer, lock, conns, server>>
dial_first(c) == pc[c] = "dial" /\ broker = "up" /\ Attach(c)
dial_down(c) ==
    /\ pc[c] = "dial" /\ broker = "down"
    /\ pc' = [pc EXCEPT ![c] = "kick"]
    /\ UNCHANGED <<client, got, reply, conns, server>>
Severed == [k \in DOMAIN conns |-> [conns[k] EXCEPT !.sopen = FALSE, !.up = <<>>, !.busy = NoId]]
\* launchctl kickstart -k kills a running broker before it starts the new one.
kickstart_launchd(c) ==
    /\ pc[c] = "kick"
    /\ broker' \in {"up", "down"}
    /\ conns' = Severed
    /\ pc' = [pc EXCEPT ![c] = "redial"]
    /\ UNCHANGED <<client, got, reply, crashes, ran>>
dial_backoff(c) == pc[c] = "redial" /\ (IF broker = "up" THEN Attach(c) ELSE NoDial(c))

\* notifications/cancelled drops the task's future where it stands.
handle_cancelled(c) ==
    /\ c \in Tools /\ pc[c] \notin {"idle", "done", "stub"}
    /\ Finish(c, "Cancelled")
    /\ lock' = IF lock = c THEN None ELSE lock
    /\ \/ UNCHANGED conns
       \/ pc[c] = "writing" /\ conns' = [conns EXCEPT ![writer].torn = TRUE]
    /\ UNCHANGED <<got, inflight, writer, server>>
\* stdin EOF; what is still running after five seconds is aborted unanswered.
stdin_eof == mode = "serving" /\ mode' = "closing"
             /\ UNCHANGED <<pc, attempt, got, reply, inflight, writer, lock, conns, server>>
abort_all(c) ==
    /\ mode = "closing" /\ pc[c] \notin {"idle", "done"}
    /\ Finish(c, "aborted")
    /\ lock' = IF lock = c THEN None ELSE lock
    /\ UNCHANGED <<got, inflight, writer, conns, server>>

\* The reader task of connection k.
Waits(c, id) == id = Id(c) /\ pc[c] \in {"lock", "writing", "wait"}
dispatch_json_message(k) ==
    /\ conns[k].reading /\ conns[k].down # <<>>
    /\ LET m == Head(conns[k].down)
       IN  /\ inflight' = inflight \ {m.id}
           /\ got' = [c \in Calls |-> IF m.id \in inflight /\ Waits(c, m.id) THEN m.result ELSE got[c]]
    /\ conns' = [conns EXCEPT ![k].down = Tail(@)]
    /\ UNCHANGED <<mode, pc, attempt, reply, writer, lock, server>>
reader_exit(k) ==
    /\ conns[k].reading /\ conns[k].down = <<>> /\ ~conns[k].sopen
    /\ conns' = [conns EXCEPT ![k].reading = FALSE]
    /\ got' = [c \in Calls |-> IF Id(c) \in inflight /\ Waits(c, Id(c)) THEN "closed" ELSE got[c]]
    /\ inflight' = {}
    /\ UNCHANGED <<mode, pc, attempt, reply, writer, lock, server>>

\* handle_conn: one request at a time; a line it cannot parse is answered with
\* a null id, which no call awaits.
conn_read(k) ==
    /\ conns[k].sopen /\ conns[k].busy = NoId /\ conns[k].up # <<>>
    /\ conns' = [conns EXCEPT ![k].busy = Head(conns[k].up), ![k].up = Tail(@)]
    /\ UNCHANGED <<client, pc, got, reply, server>>
conn_dispatch(k) ==
    /\ conns[k].sopen /\ conns[k].busy # NoId
    /\ LET c == conns[k].busy[1]
           r == IF c = Reg \/ conns[k].bound THEN "ok" ELSE "SessionNotFound"
       IN  /\ conns' = [conns EXCEPT ![k].busy = NoId, ![k].bound = @ \/ c = Reg,
                                     ![k].down = Append(@, [id |-> conns[k].busy, result |-> r])]
           /\ ran' = IF r = "ok" THEN [ran EXCEPT ![c] = @ + 1] ELSE ran
    /\ UNCHANGED <<client, pc, got, reply, broker, crashes>>
conn_eof(k) ==
    /\ conns[k].sopen /\ ~conns[k].wopen /\ conns[k].busy = NoId /\ conns[k].up = <<>>
    /\ conns' = [conns EXCEPT ![k].sopen = FALSE]
    /\ UNCHANGED <<client, pc, got, reply, server>>
broker_dies ==
    /\ broker = "up" /\ crashes < MaxCrashes
    /\ broker' = "down" /\ crashes' = crashes + 1 /\ conns' = Severed
    /\ UNCHANGED <<client, pc, got, reply, ran>>

Task(c) == run_brokerless(c) \/ send_insert(c) \/ send_lock(c) \/ write_line(c) \/ send_receive(c) \/ send_timeout(c)
           \/ dial_first(c) \/ dial_down(c) \/ kickstart_launchd(c) \/ dial_backoff(c)
Next ==
    \/ \E c \in Calls : Task(c) \/ handle_cancelled(c)
    \/ \E c \in Tools : handle_tools_call(c) \/ abort_all(c)
    \/ \E k \in DOMAIN conns :
           dispatch_json_message(k) \/ reader_exit(k) \/ conn_read(k) \/ conn_dispatch(k) \/ conn_eof(k)
    \/ stdin_eof \/ broker_dies
\* Tasks are polled and timers fire; nothing is assumed of broker or launchd.
Spec == Init /\ [][Next]_vars /\ \A c \in Calls : WF_vars(Task(c))

-----------------------------------------------------------------------------
Ids == Calls \X {0, 1}
Conns == [wopen : BOOLEAN, sopen : BOOLEAN, reading : BOOLEAN, bound : BOOLEAN, torn : BOOLEAN,
          up : Seq(Ids \cup {NoId}), busy : Ids \cup {NoId},
          down : Seq([id : Ids, result : {"ok", "SessionNotFound"}])]
TypeOK ==
    /\ mode \in {"starting", "serving", "closing", "brokerless"}
    /\ pc \in [Calls -> {"idle", "stub", "dial", "kick", "redial", "insert", "lock", "writing",
                         "wait", "done"}]
    /\ attempt \in [Calls -> {0, 1}]
    /\ got \in [Calls -> {None, "ok", "SessionNotFound", "closed"}]
    /\ reply \in [Calls -> {None, "ok", "SessionNotFound", "BrokerUnavailable", "Timeout",
                            "Cancelled", "aborted"}]
    /\ inflight \subseteq Ids /\ writer \in 0..Len(conns) /\ lock \in Calls \cup {None}
    /\ conns \in Seq(Conns)
    /\ broker \in {"up", "down"} /\ crashes \in Nat /\ ran \in [Calls -> Nat]

\* The refinement: what the agent sees of a call.
Outcome(r) == IF r = None THEN "none" ELSE IF r = "ok" THEN "ok" ELSE "error"
Promise == INSTANCE ToolCalls WITH
    Calls <- Tools,
    asked <- {c \in Tools : pc[c] # "idle"},
    ran <- {c \in Tools : ran[c] > 0},
    reply <- [c \in Tools |-> Outcome(reply[c])]
\* Bridge and broker keep the promise of ToolCalls through retries, redials, late
\* and lost replies, deaths of the broker and cancellations: a call is answered
\* once, with "ok" only if its own handler ran, and it is always answered.
KeepsThePromise == Promise!Spec

\* send_with_timeout sends a call again when the connection failed under it, and
\* the first sending may have been carried out: no call runs twice.
RunsAtMostOnce == \A c \in Tools : ran[c] <= 1

\* PROTOCOL.md on BrokerUnavailable: "reconnect with exponential backoff [...] The
\* MCP server's `broker_client` does this for you".  After a redial tools work
\* again: no call is told that the connection has no session.
ReconnectServes == \A c \in Tools : reply[c] # "SessionNotFound"
==============================================================================
