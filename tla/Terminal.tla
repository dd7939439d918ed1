------------------------------ MODULE Terminal ------------------------------
(***************************************************************************)
(* The terminals of one broker session (crates/terminal-control, driven by  *)
(* crates/broker/src/router/term.rs): a controller that maps ids to PTY      *)
(* sessions, a blocking reader and an exit watcher per PTY, the term.*       *)
(* handlers of the connections bound to the session, the teardown that       *)
(* closes every terminal, and the bounded outbox their events go through.    *)
(*                                                                         *)
(* What a child prints is numbered 1, 2, ...: a byte is its position in the  *)
(* child's output.  Requests refused before they change anything (a bad      *)
(* size, an unknown id or signal, mouse tracking off) take no step.          *)
(***************************************************************************)
EXTENDS Naturals, Sequences, SequencesExt, FiniteSets

CONSTANTS
    Conns,      \* connections bound to the session
    RingCap,    \* DEFAULT_RAW_OUTPUT_BYTES
    ReadBuf,    \* READ_BUFFER_BYTES
    OutboxCap,  \* capacity of the connection's outbound queue
    Sizes,      \* window sizes a client asks for
    Teardown,   \* the caller of shutdown_all
    MaxTerms,   \* bound: terminals spawned
    MaxOutput   \* bound: bytes a child prints

ASSUME TerminalAssumption ==
    /\ RingCap \in Nat \ {0} /\ ReadBuf \in Nat \ {0} /\ OutboxCap \in Nat
    /\ MaxTerms \in Nat \ {0} /\ MaxOutput \in Nat
    /\ Teardown \notin Conns
    /\ Sizes # {}

Terms == 1..MaxTerms
Bytes == 1..MaxOutput
Callers == Conns \union {Teardown}
NoTerm == 0
FirstSize == CHOOSE s \in Sizes : TRUE

VARIABLES
    sessions,  \* ids in TerminalController.sessions
    nextId,    \* TerminalController.next_id
    child,     \* per terminal: "none", "running", "exited"
    killed,    \* per terminal: child.kill() has been called
    tty,       \* per terminal: printed, not yet read from the PTY
    printed,   \* per terminal: number of bytes printed
    ring,      \* ByteRing.bytes
    dropped,   \* ByteRing.dropped_since_read
    parsed,    \* bytes the vt100 parser has processed
    outputSeq, \* SharedState.output_seq
    exited,    \* SharedState.exit.exited
    writer,    \* TermSession.writer: "some", "none" or the caller holding its lock
    ptySize,   \* window size of the PTY
    screen,    \* window size of the parser's screen
    reader,    \* where the reader thread is
    chunk,     \* the bytes the reader holds
    watcher,   \* where the exit watcher is
    call,      \* per caller: the handler it is in
    keys,      \* ids shutdown_all has collected and not closed yet
    collected, \* every id shutdown_all collected
    outbox,    \* the connection's outbound queue
    lost,      \* outbound_drop_count
    got,       \* per terminal: bytes term.read has returned
    told,      \* per terminal: dropped_bytes term.read has reported
    feed       \* per terminal: events the client has received

mapVars == <<sessions, nextId>>
childVars == <<child, killed, tty, printed>>
ringVars == <<ring, dropped>>
parserVars == <<parsed, screen>>
readerVars == <<reader, chunk>>
eventVars == <<outbox, lost, outputSeq>>
clientVars == <<got, told>>
sharedVars == <<exited, writer, ptySize, watcher>>
downVars == <<keys, collected>>
vars == <<mapVars, childVars, ringVars, parserVars, readerVars, eventVars,
          clientVars, sharedVars, downVars, call, feed>>

Idle == [op |-> "idle", term |-> NoTerm]

Init ==
    /\ sessions = {} /\ nextId = 1
    /\ child = [t \in Terms |-> "none"] /\ killed = [t \in Terms |-> FALSE]
    /\ tty = [t \in Terms |-> <<>>] /\ printed = [t \in Terms |-> 0]
    /\ ring = [t \in Terms |-> <<>>] /\ dropped = [t \in Terms |-> 0]
    /\ parsed = [t \in Terms |-> 0] /\ outputSeq = [t \in Terms |-> 0]
    /\ exited = [t \in Terms |-> FALSE]
    /\ writer = [t \in Terms |-> "none"]
    /\ ptySize = [t \in Terms |-> FirstSize] /\ screen = [t \in Terms |-> FirstSize]
    /\ reader = [t \in Terms |-> "none"] /\ chunk = [t \in Terms |-> <<>>]
    /\ watcher = [t \in Terms |-> "none"]
    /\ call = [c \in Callers |-> Idle]
    /\ keys = {} /\ collected = {}
    /\ outbox = <<>> /\ lost = 0
    /\ got = [t \in Terms |-> <<>>] /\ told = [t \in Terms |-> 0]
    /\ feed = [t \in Terms |-> <<>>]

(***************************************************************************)
(* The child and its PTY.                                                   *)
(***************************************************************************)
ChildPrints(t) ==
    /\ child[t] = "running" /\ printed[t] < MaxOutput
    /\ printed' = [printed EXCEPT ![t] = @ + 1]
    /\ tty' = [tty EXCEPT ![t] = Append(@, printed[t] + 1)]
    /\ UNCHANGED <<mapVars, child, killed, ringVars, parserVars, readerVars, eventVars,
                   clientVars, sharedVars, downVars, call, feed>>

\* By itself, or on a signal of term.send_signal or close.
ChildExits(t) ==
    /\ child[t] = "running"
    /\ child' = [child EXCEPT ![t] = "exited"]
    /\ UNCHANGED <<mapVars, killed, tty, printed, ringVars, parserVars, readerVars,
                   eventVars, clientVars, sharedVars, downVars, call, feed>>

(***************************************************************************)
(* ByteRing.  Push appends byte by byte and pops the oldest when full; Take  *)
(* pops up to max bytes and hands over the drop count.                      *)
(***************************************************************************)
LastN(s, n) == SubSeq(s, Len(s) - n + 1, Len(s))

Overflow(s) == IF Len(s) > RingCap THEN Len(s) - RingCap ELSE 0

MutPush(t, data) ==  \* the drops are returned and not remembered
    /\ ring' = [ring EXCEPT ![t] = LastN(@ \o data, Len(@ \o data) - Overflow(@ \o data))]
    /\ UNCHANGED dropped

Push(t, data) ==
    LET all == ring[t] \o data IN
    /\ ring' = [ring EXCEPT ![t] = LastN(all, Len(all) - Overflow(all))]
    /\ dropped' = [dropped EXCEPT ![t] = @ + Overflow(all)]

Take(t, max) ==
    LET n == IF max < Len(ring[t]) THEN max ELSE Len(ring[t]) IN
    /\ ring' = [ring EXCEPT ![t] = SubSeq(@, n + 1, Len(@))]
    /\ dropped' = [dropped EXCEPT ![t] = 0]
    /\ got' = [got EXCEPT ![t] = @ \o SubSeq(ring[t], 1, n)]
    /\ told' = [told EXCEPT ![t] = @ + dropped[t]]

(***************************************************************************)
(* BrokerTerminalSink.notify ends in SessionEntry::try_push: a full queue    *)
(* drops the new event and counts it.                                       *)
(***************************************************************************)
Notify(e) ==
    IF Len(outbox) < OutboxCap
    THEN outbox' = Append(outbox, e) /\ UNCHANGED lost
    ELSE lost' = lost + 1 /\ UNCHANGED outbox

OutputEvent(t) == [term |-> t, kind |-> "output", seq |-> outputSeq[t] + 1, data |-> chunk[t]]
ExitEvent(t) == [term |-> t, kind |-> "exit", seq |-> 0, data |-> <<>>]

\* The connection's writer task writes one event to the socket.
WriterSends ==
    /\ outbox # <<>>
    /\ outbox' = Tail(outbox)
    /\ feed' = [feed EXCEPT ![Head(outbox).term] = Append(@, Head(outbox))]
    /\ UNCHANGED <<mapVars, childVars, ringVars, parserVars, readerVars, lost, outputSeq,
                   clientVars, sharedVars, downVars, call>>

(***************************************************************************)
(* The reader thread: read, process_output (the ring, then the parser, under *)
(* one lock each), notify.                                                  *)
(***************************************************************************)
ReaderReads(t) ==
    LET n == IF Len(tty[t]) < ReadBuf THEN Len(tty[t]) ELSE ReadBuf IN
    /\ reader[t] = "read" /\ n > 0
    /\ chunk' = [chunk EXCEPT ![t] = SubSeq(tty[t], 1, n)]
    /\ tty' = [tty EXCEPT ![t] = SubSeq(@, n + 1, Len(@))]
    /\ reader' = [reader EXCEPT ![t] = "push"]
    /\ UNCHANGED <<mapVars, child, killed, printed, ringVars, parserVars, eventVars,
                   clientVars, sharedVars, downVars, call, feed>>

ReaderPushes(t) ==
    /\ reader[t] = "push"
    /\ Push(t, chunk[t])
    /\ reader' = [reader EXCEPT ![t] = "parse"]
    /\ UNCHANGED <<mapVars, childVars, parserVars, chunk, eventVars,
                   clientVars, sharedVars, downVars, call, feed>>

ReaderParses(t) ==
    /\ reader[t] = "parse"
    /\ parsed' = [parsed EXCEPT ![t] = @ + Len(chunk[t])]
    /\ reader' = [reader EXCEPT ![t] = "notify"]
    /\ UNCHANGED <<mapVars, childVars, ringVars, screen, chunk, eventVars,
                   clientVars, sharedVars, downVars, call, feed>>

MutReaderNotifies(t) ==  \* a chunk the queue refuses does not use up a number
    /\ reader[t] = "notify"
    /\ Notify(OutputEvent(t))
    /\ outputSeq' = IF Len(outbox) < OutboxCap THEN [outputSeq EXCEPT ![t] = @ + 1]
                    ELSE outputSeq
    /\ chunk' = [chunk EXCEPT ![t] = <<>>]
    /\ reader' = [reader EXCEPT ![t] = "read"]
    /\ UNCHANGED <<mapVars, childVars, ringVars, parserVars, clientVars, sharedVars,
                   downVars, call, feed>>

ReaderNotifies(t) ==
    /\ reader[t] = "notify"
    /\ Notify(OutputEvent(t))
    /\ outputSeq' = [outputSeq EXCEPT ![t] = @ + 1]
    /\ chunk' = [chunk EXCEPT ![t] = <<>>]
    /\ reader' = [reader EXCEPT ![t] = "read"]
    /\ UNCHANGED <<mapVars, childVars, ringVars, parserVars, clientVars, sharedVars,
                   downVars, call, feed>>

\* End of file: the child is gone and everything it printed has been read.
MutReaderEnds(t) ==  \* the reader leaves as soon as the child is gone
    /\ reader[t] = "read" /\ child[t] = "exited"
    /\ reader' = [reader EXCEPT ![t] = "done"]
    /\ UNCHANGED <<mapVars, childVars, ringVars, parserVars, chunk, eventVars,
                   clientVars, sharedVars, downVars, call, feed>>

ReaderEnds(t) ==
    /\ reader[t] = "read" /\ child[t] = "exited" /\ tty[t] = <<>>
    /\ reader' = [reader EXCEPT ![t] = "done"]
    /\ UNCHANGED <<mapVars, childVars, ringVars, parserVars, chunk, eventVars,
                   clientVars, sharedVars, downVars, call, feed>>

Reader(t) ==
    ReaderReads(t) \/ ReaderPushes(t) \/ ReaderParses(t) \/ ReaderNotifies(t) \/ ReaderEnds(t)

(***************************************************************************)
(* The exit watcher polls try_wait, marks the exit and notifies.  An abort   *)
(* reaches it only while it sleeps between two polls.                       *)
(***************************************************************************)
WatcherMarks(t) ==
    /\ watcher[t] = "poll" /\ child[t] = "exited"
    /\ exited' = [exited EXCEPT ![t] = TRUE]
    /\ watcher' = [watcher EXCEPT ![t] = "notify"]
    /\ UNCHANGED <<mapVars, childVars, ringVars, parserVars, readerVars, eventVars,
                   clientVars, writer, ptySize, downVars, call, feed>>

WatcherNotifies(t) ==
    /\ watcher[t] = "notify"
    /\ Notify(ExitEvent(t))
    /\ watcher' = [watcher EXCEPT ![t] = "done"]
    /\ UNCHANGED <<mapVars, childVars, ringVars, parserVars, readerVars, outputSeq,
                   clientVars, exited, writer, ptySize, downVars, call, feed>>

Watcher(t) == WatcherMarks(t) \/ WatcherNotifies(t)

(***************************************************************************)
(* term.spawn: the child and its two tasks start first, the id is inserted   *)
(* into the map last.                                                       *)
(***************************************************************************)
At(c, op) == call[c].op = op
Enter(c, op, t) == call' = [call EXCEPT ![c] = [op |-> op, term |-> t]]
Return(c) == call' = [call EXCEPT ![c] = Idle]
Of(c) == call[c].term

TermSpawn(c) ==
    /\ At(c, "idle") /\ nextId <= MaxTerms
    /\ nextId' = nextId + 1
    /\ child' = [child EXCEPT ![nextId] = "running"]
    /\ writer' = [writer EXCEPT ![nextId] = "some"]
    /\ reader' = [reader EXCEPT ![nextId] = "read"]
    /\ watcher' = [watcher EXCEPT ![nextId] = "poll"]
    /\ Enter(c, "insert", nextId)
    /\ UNCHANGED <<sessions, killed, tty, printed, ringVars, parserVars, chunk, eventVars,
                   clientVars, exited, ptySize, downVars, feed>>

SpawnInserts(c) ==
    /\ At(c, "insert")
    /\ sessions' = sessions \union {Of(c)}
    /\ Return(c)
    /\ UNCHANGED <<nextId, childVars, ringVars, parserVars, readerVars, eventVars,
                   clientVars, sharedVars, downVars, feed>>

(***************************************************************************)
(* term.read: the exit flag is read before the ring is locked.              *)
(***************************************************************************)
TermRead(c, t) ==
    /\ At(c, "idle") /\ t \in sessions
    /\ Enter(c, IF exited[t] THEN "take_eof" ELSE "take", t)
    /\ UNCHANGED <<mapVars, childVars, ringVars, parserVars, readerVars, eventVars,
                   clientVars, sharedVars, downVars, feed>>

ReadTakes(c) ==
    /\ At(c, "take") \/ At(c, "take_eof")
    /\ \E max \in 0..RingCap : Take(Of(c), max)
    /\ Return(c)
    /\ UNCHANGED <<mapVars, childVars, parserVars, readerVars, eventVars, sharedVars,
                   downVars, feed>>

(***************************************************************************)
(* term.write and term.mouse_event hold the writer's lock across write_all,   *)
(* which returns when the child has read, or fails when it is gone.         *)
(***************************************************************************)
TermWrite(c, t) ==
    /\ At(c, "idle") /\ t \in sessions /\ writer[t] = "some"
    /\ writer' = [writer EXCEPT ![t] = "locked"]
    /\ Enter(c, "write", t)
    /\ UNCHANGED <<mapVars, childVars, ringVars, parserVars, readerVars, eventVars,
                   clientVars, exited, ptySize, watcher, downVars, feed>>

WriteEnds(c) ==
    /\ At(c, "write")
    /\ writer' = [writer EXCEPT ![Of(c)] = "some"]
    /\ Return(c)
    /\ UNCHANGED <<mapVars, childVars, ringVars, parserVars, readerVars, eventVars,
                   clientVars, exited, ptySize, watcher, downVars, feed>>

(***************************************************************************)
(* term.resize: the PTY first, then the parser's screen.                    *)
(***************************************************************************)
TermResize(c, t) ==
    /\ At(c, "idle") /\ t \in sessions
    /\ \E s \in Sizes :
         /\ ptySize' = [ptySize EXCEPT ![t] = s]
         /\ call' = [call EXCEPT ![c] = [op |-> "resize", term |-> t, size |-> s]]
    /\ UNCHANGED <<mapVars, childVars, ringVars, parserVars, readerVars, eventVars,
                   clientVars, exited, writer, watcher, downVars, feed>>

ResizesScreen(c) ==
    /\ At(c, "resize")
    /\ screen' = [screen EXCEPT ![Of(c)] = call[c].size]
    /\ Return(c)
    /\ UNCHANGED <<mapVars, childVars, ringVars, parsed, readerVars, eventVars,
                   clientVars, sharedVars, downVars, feed>>

(***************************************************************************)
(* term.close and shutdown_all: out of the map, the writer dropped, SIGHUP,   *)
(* a wait, SIGTERM, a wait, kill, a wait.  abort_tasks stops a sleeping       *)
(* watcher; the reader is a blocking thread that an abort does not reach.   *)
(***************************************************************************)
Closes(c, t) ==
    /\ sessions' = sessions \ {t}
    /\ Enter(c, "drop_writer", t)

TermClose(c, t) ==
    /\ At(c, "idle") /\ c # Teardown /\ t \in sessions
    /\ Closes(c, t)
    /\ UNCHANGED <<nextId, childVars, ringVars, parserVars, readerVars, eventVars,
                   clientVars, sharedVars, downVars, feed>>

DropsWriter(c) ==
    /\ At(c, "drop_writer") /\ writer[Of(c)] # "locked"
    /\ writer' = [writer EXCEPT ![Of(c)] = "none"]
    /\ Enter(c, "hup", Of(c))
    /\ UNCHANGED <<mapVars, childVars, ringVars, parserVars, readerVars, eventVars,
                   clientVars, exited, ptySize, watcher, downVars, feed>>

Aborted(t) == IF watcher[t] = "poll" THEN "aborted" ELSE watcher[t]

CloseEnds(c) ==
    /\ exited' = [exited EXCEPT ![Of(c)] = TRUE]
    /\ watcher' = [watcher EXCEPT ![Of(c)] = Aborted(Of(c))]
    /\ IF c = Teardown THEN Enter(c, "next", NoTerm) ELSE Return(c)

CloseSeesExit(c) ==
    /\ call[c].op \in {"hup", "term", "kill"} /\ child[Of(c)] = "exited"
    /\ CloseEnds(c)
    /\ UNCHANGED <<mapVars, childVars, ringVars, parserVars, readerVars, eventVars,
                   clientVars, writer, ptySize, downVars, feed>>

MutCloseSignals(c) ==  \* gives up after SIGTERM
    /\ call[c].op \in {"hup", "term"} /\ child[Of(c)] = "running"
    /\ \/ At(c, "hup") /\ Enter(c, "term", Of(c)) /\ UNCHANGED <<exited, watcher>>
       \/ At(c, "term") /\ CloseEnds(c)
    /\ UNCHANGED <<mapVars, childVars, ringVars, parserVars, readerVars, eventVars,
                   clientVars, writer, ptySize, downVars, feed>>

CloseSignals(c) ==
    /\ call[c].op \in {"hup", "term"} /\ child[Of(c)] = "running"
    /\ \/ At(c, "hup") /\ Enter(c, "term", Of(c)) /\ UNCHANGED killed
       \/ At(c, "term") /\ Enter(c, "kill", Of(c)) /\ killed' = [killed EXCEPT ![Of(c)] = TRUE]
    /\ UNCHANGED <<mapVars, child, tty, printed, ringVars, parserVars, readerVars, eventVars,
                   clientVars, sharedVars, downVars, feed>>

\* The last wait runs out: the exit is reported as SIGKILL all the same.
CloseGivesUp(c) ==
    /\ At(c, "kill") /\ child[Of(c)] = "running"
    /\ CloseEnds(c)
    /\ UNCHANGED <<mapVars, childVars, ringVars, parserVars, readerVars, eventVars,
                   clientVars, writer, ptySize, downVars, feed>>

CloseStep(c) == DropsWriter(c) \/ CloseSeesExit(c) \/ CloseSignals(c) \/ CloseGivesUp(c)

(***************************************************************************)
(* shutdown_all collects the ids, then closes them one by one; an id that is  *)
(* no longer in the map is skipped.                                         *)
(***************************************************************************)
ShutdownAll ==
    /\ At(Teardown, "idle") /\ collected = {}
    /\ sessions # {}
    /\ keys' = sessions /\ collected' = sessions
    /\ Enter(Teardown, "next", NoTerm)
    /\ UNCHANGED <<mapVars, childVars, ringVars, parserVars, readerVars, eventVars,
                   clientVars, sharedVars, feed>>

ShutdownNext ==
    /\ At(Teardown, "next")
    /\ \E t \in keys :
         /\ keys' = keys \ {t}
         /\ IF t \in sessions THEN Closes(Teardown, t)
            ELSE Enter(Teardown, "next", NoTerm) /\ UNCHANGED sessions
    /\ UNCHANGED <<nextId, childVars, ringVars, parserVars, readerVars, eventVars,
                   clientVars, sharedVars, collected, feed>>

ShutdownEnds ==
    /\ At(Teardown, "next") /\ keys = {}
    /\ Return(Teardown)
    /\ UNCHANGED <<mapVars, childVars, ringVars, parserVars, readerVars, eventVars,
                   clientVars, sharedVars, downVars, feed>>

Handler(c) == SpawnInserts(c) \/ ReadTakes(c) \/ ResizesScreen(c) \/ CloseStep(c)

Request(c) ==
    \/ TermSpawn(c)
    \/ \E t \in Terms : TermRead(c, t) \/ TermWrite(c, t) \/ TermResize(c, t) \/ TermClose(c, t)

Next ==
    \/ \E t \in Terms : ChildPrints(t) \/ ChildExits(t) \/ Reader(t) \/ Watcher(t)
    \/ \E c \in Conns : Request(c) \/ WriteEnds(c)
    \/ \E c \in Callers : Handler(c)
    \/ ShutdownAll \/ ShutdownNext \/ ShutdownEnds
    \/ WriterSends

Spec == Init /\ [][Next]_vars

KilledExits(t) == killed[t] /\ ChildExits(t)

(***************************************************************************)
(* Threads and tasks run on; a child that has been killed goes.  Nothing is   *)
(* assumed of clients, of the socket, or of a child that is written to.     *)
(***************************************************************************)
Fairness ==
    /\ \A t \in Terms : WF_vars(Reader(t)) /\ WF_vars(Watcher(t)) /\ WF_vars(KilledExits(t))
    /\ \A c \in Callers : WF_vars(Handler(c))
    /\ WF_vars(ShutdownNext \/ ShutdownEnds)

FairSpec == Spec /\ Fairness

-----------------------------------------------------------------------------
TypeOK ==
    /\ sessions \subseteq Terms /\ nextId \in 1..MaxTerms + 1
    /\ child \in [Terms -> {"none", "running", "exited"}]
    /\ killed \in [Terms -> BOOLEAN]
    /\ tty \in [Terms -> Seq(Bytes)] /\ printed \in [Terms -> 0..MaxOutput]
    /\ ring \in [Terms -> Seq(Bytes)] /\ dropped \in [Terms -> 0..MaxOutput]
    /\ \A t \in Terms : Len(ring[t]) <= RingCap
    /\ parsed \in [Terms -> 0..MaxOutput] /\ outputSeq \in [Terms -> 0..MaxOutput]
    /\ exited \in [Terms -> BOOLEAN]
    /\ writer \in [Terms -> {"none", "some", "locked"}]
    /\ ptySize \in [Terms -> Sizes] /\ screen \in [Terms -> Sizes]
    /\ reader \in [Terms -> {"none", "read", "push", "parse", "notify", "done"}]
    /\ chunk \in [Terms -> Seq(Bytes)]
    /\ watcher \in [Terms -> {"none", "poll", "notify", "done", "aborted"}]
    /\ \A c \in Callers : call[c].op \in {"idle", "insert", "take", "take_eof", "write", "resize",
                                          "drop_writer", "hup", "term", "kill", "next"}
    /\ keys \subseteq collected /\ collected \subseteq Terms
    /\ Len(outbox) <= OutboxCap /\ lost \in Nat
    /\ got \in [Terms -> Seq(Bytes)] /\ told \in [Terms -> 0..MaxOutput]

Pushed(t) == parsed[t] + (IF reader[t] = "parse" THEN Len(chunk[t]) ELSE 0)

(***************************************************************************)
(* What term.read returned, what it reported as dropped and what is still in  *)
(* the ring add up to what the child's reader has pushed, and a client that   *)
(* reads slowly still gets the newest bytes in order: ByteRing loses nothing  *)
(* it does not report.                                                      *)
(***************************************************************************)
ReadsAccountForEveryByte ==
    \A t \in Terms :
        /\ Len(got[t]) + told[t] + dropped[t] + Len(ring[t]) = Pushed(t)
        /\ \A i, j \in 1..Len(got[t] \o ring[t]) :
             i < j => (got[t] \o ring[t])[i] < (got[t] \o ring[t])[j]
        /\ ring[t] # <<>> => Last(ring[t]) = Pushed(t)

\* A term.output event b comes after a, and its number says what is between them.
Follows(a, b) ==
    a.kind = "output" /\ b.kind = "output" =>
        /\ a.seq < b.seq
        /\ b.seq = a.seq + 1 <=> Head(b.data) = Last(a.data) + 1

(***************************************************************************)
(* A client that follows term.output events sees every loss: two events with  *)
(* consecutive numbers carry consecutive bytes, two with a gap between their  *)
(* numbers do not, and numbers never go back, although the full outbox drops  *)
(* events between them.                                                     *)
(***************************************************************************)
FeedGapsShow ==
    \A t \in Terms : \A i, j \in 1..Len(feed[t]) : i < j => Follows(feed[t][i], feed[t][j])

InHand(t) ==
    \E c \in Callers : Of(c) = t /\ call[c].op \in {"drop_writer", "hup", "term", "kill"}

(***************************************************************************)
(* Everything a child printed reaches the ring and the parser after it has    *)
(* exited, closed or not: abort_tasks does not cut the reader off.          *)
(***************************************************************************)
OutputIsDrained ==
    \A t \in Terms : child[t] = "exited" ~> parsed[t] = printed[t]

(***************************************************************************)
(* A terminal taken out of the map comes to its end, whatever signals its     *)
(* child ignores, unless a term.write to it is stuck for good with the        *)
(* writer's lock.                                                           *)
(***************************************************************************)
CloseEndsTheChild ==
    \A t \in Terms : (InHand(t) ~> child[t] = "exited") \/ <>[](writer[t] = "locked")
=============================================================================
