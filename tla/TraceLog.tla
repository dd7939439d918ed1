------------------------------ MODULE TraceLog ------------------------------
(***************************************************************************)
(* observability trace.rs: the trace of a session.  Tool calls record      *)
(* events into a bounded buffer that drops its oldest; one writer task     *)
(* pops them, redacts them and appends them to a numbered file, which it   *)
(* closes, compresses and lists in the manifest when it is full or old.    *)
(* Session ids start over with the broker, so a later broker finds the     *)
(* directory of an earlier one and continues its numbering.                *)
(***************************************************************************)
EXTENDS Integers, Sequences, SequencesExt

CONSTANTS Starters,     \* requests that ask for the session's trace
          Secret,       \* the events with a payload the redactor changes
          BufferCap,    \* TraceOptions.buffer_cap
          MaxLines,     \* TraceOptions.max_bytes, in lines
          MaxEvents,    \* bound: events recorded
          MaxSeq,       \* bound: files
          MaxWriters    \* bound: writer tasks, over the lives of the broker

ASSUME TraceAssumption ==
    /\ BufferCap \in Nat \ {0} /\ MaxLines \in Nat \ {0}
    /\ MaxSeq \in Nat /\ MaxWriters \in Nat

VARIABLES logs,      \* the files of the directory
          manifest,  \* manifest.json
          tw,        \* the writers of this life of the broker
          entry,     \* the registry's writer of the session, 0 for none
          starter,   \* where each request to start is
          racing,    \* the writers a record has found open, one per record under way
          recorded,  \* the events recorded so far
          started,   \* the writers started so far
          written,   \* history: the events a write_event returned Ok for
          doubled    \* history: two writers have had the directory at once

traceVars == <<logs, manifest, tw, entry, starter, racing, recorded, started, written, doubled>>
fileVars == <<logs, manifest, written>>
queueVars == <<racing, recorded>>
startVars == <<entry, starter, started, doubled>>

None0 == <<<<0, "none">>>>
Seqs == 0..MaxSeq
\* A file is its plain and its compressed form; a line is an event and what is left of
\* its payload.
NoLog == [plain |-> None0, gz |-> None0]
Writers == 1..MaxWriters
NoWriter == [pc |-> "none", buffer |-> <<>>, dropped |-> 0, closing |-> FALSE, told |-> FALSE,
             seq |-> 0, lines |-> 0, linked |-> TRUE, held |-> 0, last |-> FALSE, files |-> {}]

TraceInit ==
    /\ logs = [s \in Seqs |-> NoLog] /\ manifest = {}
    /\ tw = [w \in Writers |-> NoWriter]
    /\ entry = 0 /\ starter = [r \in Starters |-> "idle"]
    /\ racing = <<>> /\ recorded = 0 /\ started = 0 /\ written = <<>> /\ doubled = FALSE

-----------------------------------------------------------------------------
Live(w) == tw[w].pc \notin {"none", "ended"}
Set(w, r) == tw' = [tw EXCEPT ![w] = r]
Goto_(w, l) == Set(w, [tw[w] EXCEPT !.pc = l])

\* scan_next_seq returns n: the number after every plain or compressed file there is.
MutScanNextSeq(n) ==
    /\ \A s \in Seqs : logs[s].plain # None0 => s < n
    /\ n # 0 => logs[n - 1].plain # None0
scan_next_seq(n) ==
    /\ \A s \in Seqs : logs[s] # NoLog => s < n
    /\ n # 0 => logs[n - 1] # NoLog

\* get_or_start looks the session up; starts a writer; inserts it over what is there.
get_or_start(r) ==
    /\ starter[r] = "idle"
    /\ starter' = [starter EXCEPT ![r] = IF entry # 0 THEN "done" ELSE "start"]
    /\ UNCHANGED <<fileVars, tw, entry, queueVars, started, doubled>>
start_in_dir(r) ==
    /\ starter[r] = "start" /\ started < MaxWriters
    /\ started' = started + 1
    /\ \E n \in Seqs : /\ scan_next_seq(n)
                       /\ Set(started + 1, [NoWriter EXCEPT !.pc = "open", !.seq = n])
    /\ entry' = started + 1
    /\ starter' = [starter EXCEPT ![r] = "done"]
    /\ doubled' = (doubled \/ \E w \in Writers : Live(w))
    /\ UNCHANGED <<fileVars, queueVars>>

\* record: the flag is read before the buffer's lock is taken.
record(w) ==
    /\ tw[w].pc # "none" /\ recorded + Len(racing) < MaxEvents
    /\ IF tw[w].closing THEN Set(w, [tw[w] EXCEPT !.dropped = @ + 1]) /\ UNCHANGED racing
       ELSE racing' = Append(racing, w) /\ UNCHANGED tw
    /\ recorded' = recorded + (IF tw[w].closing THEN 1 ELSE 0)
    /\ UNCHANGED <<fileVars, startVars>>
record_pushes ==
    /\ racing # <<>>
    /\ LET w == Head(racing)
           b == tw[w].buffer
           full == Len(b) >= BufferCap
       IN  Set(w, [tw[w] EXCEPT !.buffer = Append(IF full THEN Tail(b) ELSE b, recorded + 1),
                                !.dropped = IF full THEN @ + 1 ELSE @])
    /\ recorded' = recorded + 1 /\ racing' = Tail(racing)
    /\ UNCHANGED <<fileVars, startVars>>

\* session.unregister takes the writer out of the registry and waits for its task; a
\* writer nobody holds any more sees its channel close.
shutdown(w) ==
    /\ Live(w) /\ ~tw[w].closing /\ ~tw[w].told
    /\ entry' = IF entry = w THEN 0 ELSE entry
    /\ Set(w, [tw[w] EXCEPT !.closing = (entry = w), !.told = TRUE])
    /\ UNCHANGED <<fileVars, queueVars, starter, started, doubled>>

-----------------------------------------------------------------------------
\* open_seq appends to the file of that number, or makes it.
Open(w, s, l, r) ==
    /\ logs' = [logs EXCEPT ![s].plain = IF @ = None0 THEN <<>> ELSE @]
    /\ Set(w, [r EXCEPT !.pc = l, !.seq = s, !.linked = TRUE,
                        !.lines = IF logs[s].plain = None0 THEN 0 ELSE Len(logs[s].plain)])
write_manifest(files) == manifest' = files
\* writer_loop: a file that cannot be opened ends the task; the first manifest is empty.
writer_opens(w) ==
    /\ tw[w].pc = "open"
    /\ \/ Open(w, tw[w].seq, "select", tw[w]) /\ write_manifest({})
       \/ Goto_(w, "ended") /\ UNCHANGED <<logs, manifest>>
    /\ UNCHANGED <<queueVars, startVars, written>>
\* The select wakes for a command, for a notification, or after 50 ms at most.
writer_wakes(w) ==
    /\ tw[w].pc = "select"
    /\ Set(w, [tw[w] EXCEPT !.pc = "drain", !.last = tw[w].told])
    /\ UNCHANGED <<fileVars, queueVars, startVars>>

\* Full by lines, or old.
should_rotate(w) == {tw[w].lines >= MaxLines, TRUE}
writer_pops(w) ==
    /\ tw[w].pc = "drain" /\ tw[w].buffer # <<>>
    /\ \E full \in should_rotate(w) :
           Set(w, [tw[w] EXCEPT !.held = Head(tw[w].buffer), !.buffer = Tail(@),
                                !.pc = IF full THEN "gzip" ELSE "write"])
    /\ UNCHANGED <<fileVars, queueVars, startVars>>
\* Nothing left: rotate for age alone, wait again, or finish.
writer_empty(w) ==
    /\ tw[w].pc = "drain" /\ tw[w].buffer = <<>>
    /\ IF tw[w].last THEN Goto_(w, "final")
       ELSE \E full \in should_rotate(w) : Goto_(w, IF full THEN "gzip" ELSE "select")
    /\ UNCHANGED <<fileVars, queueVars, startVars>>

\* The redactor works on the payload of one event.
redact_event(e) == <<e, IF e \in Secret THEN "redacted" ELSE "as is">>
AppendLine(w, line) ==
    IF tw[w].linked THEN [logs EXCEPT ![tw[w].seq].plain = Append(@, line)] ELSE logs
\* A write that fails drops the event, and nothing counts it.
write_event(w) ==
    /\ tw[w].pc \in {"write", "last"}
    /\ LET next == [tw[w] EXCEPT !.held = 0, !.pc = IF @ = "last" THEN "final" ELSE "drain"]
       IN  \/ /\ logs' = AppendLine(w, redact_event(tw[w].held))
              /\ written' = Append(written, tw[w].held)
              /\ Set(w, [next EXCEPT !.lines = @ + 1])
           \/ Set(w, next) /\ UNCHANGED <<logs, written>>
    /\ UNCHANGED <<manifest, queueVars, startVars>>

\* rotate: gzip_file writes <file>.gz.tmp, renames it, then removes the plain file; an
\* error before the rename leaves the plain file alone.
gzip_rename(w) ==
    /\ tw[w].pc = "gzip" /\ logs[tw[w].seq].plain # None0
    /\ logs' = [logs EXCEPT ![tw[w].seq].gz = logs[tw[w].seq].plain]
    /\ Set(w, [tw[w] EXCEPT !.pc = "remove"])
    /\ UNCHANGED <<manifest, written, queueVars, startVars>>
gzip_remove(w) ==
    /\ tw[w].pc = "remove"
    /\ logs' = [logs EXCEPT ![tw[w].seq].plain = None0]
    /\ tw' = [v \in Writers |->
                  IF v = w THEN [tw[v] EXCEPT !.pc = "next gz"]
                  ELSE IF tw[v].seq = tw[w].seq THEN [tw[v] EXCEPT !.linked = FALSE] ELSE tw[v]]
    /\ UNCHANGED <<manifest, written, queueVars, startVars>>
gzip_fails(w) ==
    /\ tw[w].pc = "gzip" /\ Goto_(w, "next")
    /\ UNCHANGED <<fileVars, queueVars, startVars>>
\* manifest_for_closed reads back what is to be listed, if it can.
Form(f) == IF f.gz # None0 THEN f.gz ELSE f.plain
manifest_for_closed(s, gzipped) ==
    LET f == IF gzipped THEN logs[s].gz ELSE logs[s].plain
    IN  IF f = None0 THEN {} ELSE {[seq |-> s, gzipped |-> gzipped, hash |-> f]}
\* The next file is opened, the closed one listed and the manifest replaced; if the
\* next file cannot be opened the task ends there.
MutRotateOpens(w) ==
    /\ tw[w].pc \in {"next", "next gz"}
    /\ LET s == tw[w].seq
           listed == tw[w].files \cup manifest_for_closed(s, tw[w].pc = "next gz")
       IN  /\ Open(w, s, IF tw[w].held # 0 THEN "write" ELSE "select", [tw[w] EXCEPT !.files = listed])
           /\ write_manifest(listed)
    /\ UNCHANGED <<written, queueVars, startVars>>
rotate_opens(w) ==
    /\ tw[w].pc \in {"next", "next gz"}
    /\ LET s == tw[w].seq
           listed == tw[w].files \cup manifest_for_closed(s, tw[w].pc = "next gz")
       IN  \/ /\ s < MaxSeq
              /\ Open(w, s + 1, IF tw[w].held # 0 THEN "write" ELSE "select",
                      [tw[w] EXCEPT !.files = listed])
              /\ write_manifest(listed)
           \/ Set(w, [tw[w] EXCEPT !.pc = "ended", !.held = 0]) /\ UNCHANGED <<logs, manifest>>
    /\ UNCHANGED <<written, queueVars, startVars>>

\* The final drain does not rotate; the last file is listed as it is.
final_pops(w) ==
    /\ tw[w].pc = "final" /\ tw[w].buffer # <<>>
    /\ Set(w, [tw[w] EXCEPT !.held = Head(tw[w].buffer), !.buffer = Tail(@), !.pc = "last"])
    /\ UNCHANGED <<fileVars, queueVars, startVars>>
final_manifest(w) ==
    /\ tw[w].pc = "final" /\ tw[w].buffer = <<>>
    /\ write_manifest(tw[w].files \cup manifest_for_closed(tw[w].seq, FALSE))
    /\ Set(w, [tw[w] EXCEPT !.pc = "ended", !.files = {}])
    /\ UNCHANGED <<logs, written, queueVars, startVars>>

\* The broker dies; the next one hands out the same session id.
trace_dies ==
    /\ started > 0 /\ started < MaxWriters
    /\ tw' = [w \in Writers |-> NoWriter] /\ entry' = 0 /\ racing' = <<>>
    /\ starter' = [r \in Starters |-> "idle"]
    /\ UNCHANGED <<fileVars, recorded, started, doubled>>

WriterStep(w) ==
    \/ writer_opens(w) \/ writer_wakes(w) \/ writer_pops(w) \/ writer_empty(w) \/ write_event(w)
    \/ gzip_rename(w) \/ gzip_remove(w) \/ gzip_fails(w) \/ rotate_opens(w)
    \/ final_pops(w) \/ final_manifest(w)
TraceNext ==
    \/ \E r \in Starters : get_or_start(r) \/ start_in_dir(r)
    \/ \E w \in Writers : record(w) \/ shutdown(w) \/ WriterStep(w)
    \/ record_pushes \/ trace_dies
TraceSpec == TraceInit /\ [][TraceNext]_traceVars

-----------------------------------------------------------------------------
\* The trace as ofa-replay reads it, file by file.
Replay == FlattenSeq([i \in 1..(MaxSeq + 1) |-> LET f == Form(logs[i - 1]) IN IF f = None0 THEN <<>> ELSE f])

\* "No data window where neither exists": through rotation, failed compression, the
\* death of the broker between any two steps of gzip_file and the restart of the
\* numbering, the files hold exactly the events that were written, once, redacted, in
\* the order in which they happened.  With one writer at a time.
ReplayIsExact ==
    ~doubled => /\ Replay = [i \in DOMAIN written |->
                                 <<written[i], IF written[i] \in Secret THEN "redacted" ELSE "as is">>]
                /\ \A i, j \in DOMAIN written : i < j => written[i] < written[j]

\* What `ofa-replay verify` relies on: every file the manifest lists is there, in the
\* form and with the contents it was listed with.  With one writer at a time.
ManifestIsTrue ==
    ~doubled => \A m \in manifest :
                    m.hash = (IF m.gzipped THEN logs[m.seq].gz ELSE logs[m.seq].plain)
==============================================================================
