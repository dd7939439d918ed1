---------------------------- MODULE CrashRecovery ----------------------------
(***************************************************************************)
(* One session's Chromium over time (crates/broker/src/recovery.rs with     *)
(* Browser::launch, wait_for_exit and shutdown of browser-engine): the      *)
(* crash watcher that respawns and swaps the Browser, and a teardown (the  *)
(* lifecycle drain or session.unregister) that shuts the Browser down.      *)
(*                                                                         *)
(* Browsers are numbered in the order they are launched.  The connection of *)
(* a Browser is reduced to what CdpConnection shows of it: whether its      *)
(* reader and its writer still run, and whether closed_tx has fired.         *)
(***************************************************************************)
EXTENDS Naturals, FiniteSets

CONSTANTS
    MaxRespawns,  \* MAX_RESPAWN_ATTEMPTS
    Window,       \* RESPAWN_ACTIVITY_WINDOW_MS, in clock ticks
    Faults,       \* what may go wrong outside the broker
    MaxBrowsers,  \* bound: Browsers launched for the session
    MaxTime       \* bound: clock ticks

AllFaults == {"crash",       \* Chromium dies by itself
              "bad_frame",   \* the pipe breaks or carries a frame the reader rejects
              "hang",        \* Chromium never answers Browser.close
              "linger",      \* Chromium answers Browser.close and does not exit
              "no_launch",   \* a respawn's Browser::launch fails
              "no_reattach"} \* apply_seed_plan or reattach_existing_targets fails

ASSUME RecoveryAssumption ==
    /\ MaxRespawns \in Nat \ {0}
    /\ Window \in Nat
    /\ Faults \subseteq AllFaults
    /\ MaxBrowsers \in Nat \ {0}
    /\ MaxTime \in Nat

Browsers == 1..MaxBrowsers
NoBrowser == 0

VARIABLES
    now,       \* time since SessionEntry.created_at
    activity,  \* SessionEntry.last_activity_ms
    current,   \* SessionEntry.browser: the Browser in the ArcSwap
    launched,  \* Browsers launched so far
    process,   \* per Browser, its child: "none", "up", "dead"
    reading,    \* per Browser, its CDP reader task runs
    writing,    \* per Browser, its CDP writer task runs
    signal,    \* per Browser, closed_tx has fired
    rx,        \* per Browser, closed_rx is still in the Browser
    watcher,   \* where recovery::run is
    watched,   \* the Browser whose exit channel the watcher holds
    fresh,     \* the Browser a respawn has launched and not yet stored
    failures,  \* consecutive_failures
    events,    \* topics pushed to the client
    closer,    \* where the teardown is
    closing,   \* the Browser the teardown loaded
    registered \* the entry is in the registry

browserVars == <<current, launched, process, reading, writing, signal, rx>>
watcherVars == <<watcher, watched, fresh, failures, events>>
closerVars == <<closer, closing, registered>>
clockVars == <<now, activity>>
recoveryVars == <<clockVars, browserVars, watcherVars, closerVars>>

RecoveryTypeOK ==
    /\ now \in 0..MaxTime
    /\ activity \in 0..MaxTime
    /\ current \in Browsers
    /\ launched \in Browsers
    /\ process \in [Browsers -> {"none", "up", "dead"}]
    /\ reading \in [Browsers -> BOOLEAN]
    /\ writing \in [Browsers -> BOOLEAN]
    /\ signal \in [Browsers -> BOOLEAN]
    /\ rx \in [Browsers -> BOOLEAN]
    /\ watcher \in {"subscribe", "wait", "launch", "reattach", "backoff", "idle", "stopped", "gave_up"}
    /\ watched \in Browsers \cup {NoBrowser}
    /\ fresh \in Browsers \cup {NoBrowser}
    /\ failures \in 0..MaxRespawns
    /\ events \subseteq {"session.recovered", "session.recovery_failed"}
    /\ closer \in {"none", "sent", "parked", "take", "wait", "remove", "done"}
    /\ closing \in Browsers \cup {NoBrowser}
    /\ registered \in BOOLEAN

\* session.register has launched the first Browser and spawned the watcher.
RecoveryInit ==
    /\ now = 0
    /\ activity = 0
    /\ current = 1
    /\ launched = 1
    /\ process = [b \in Browsers |-> IF b = 1 THEN "up" ELSE "none"]
    /\ reading = [b \in Browsers |-> b = 1]
    /\ writing = [b \in Browsers |-> b = 1]
    /\ signal = [b \in Browsers |-> FALSE]
    /\ rx = [b \in Browsers |-> b = 1]
    /\ watcher = "subscribe"
    /\ watched = NoBrowser
    /\ fresh = NoBrowser
    /\ failures = 0
    /\ events = {}
    /\ closer = "none"
    /\ closing = NoBrowser
    /\ registered = TRUE

----------------------------------------------------------------------------
(* Time, traffic and Chromium                                               *)

Tick ==
    /\ now < MaxTime
    /\ now' = now + 1
    /\ UNCHANGED <<activity, browserVars, watcherVars, closerVars>>

\* dispatch of a request: SessionEntry::touch stores the time since creation.
Touch ==
    /\ activity' = now
    /\ UNCHANGED <<now, browserVars, watcherVars, closerVars>>

\* dispatch of a request that sends a CDP command to a dead Chromium: the
\* writer's next write fails and the writer task ends.
WriteFails ==
    /\ process[current] = "dead"
    /\ writing[current]
    /\ writing' = [writing EXCEPT ![current] = FALSE]
    /\ signal' = [signal EXCEPT ![current] = TRUE]
    /\ activity' = now
    /\ UNCHANGED <<now, current, launched, process, reading, rx, watcherVars, closerVars>>

Crash ==
    /\ "crash" \in Faults
    /\ launched < MaxBrowsers
    /\ \E b \in Browsers :
          /\ process[b] = "up"
          /\ process' = [process EXCEPT ![b] = "dead"]
    /\ UNCHANGED <<clockVars, current, launched, reading, writing, signal, rx,
                   watcherVars, closerVars>>

\* The reader task of b ends: closed_tx fires and what is pending fails, the
\* teardown's Browser.close included.
ReaderStops(b) ==
    /\ reading[b]
    /\ reading' = [reading EXCEPT ![b] = FALSE]
    /\ signal' = [signal EXCEPT ![b] = TRUE]
    /\ closer' = IF closer = "sent" /\ closing = b THEN "take" ELSE closer
    /\ UNCHANGED <<clockVars, current, launched, process, writing, rx,
                   watcherVars, closing, registered>>

\* Mutant: the reader ends without firing closed_tx.
MutReaderEndsSilently ==
    \E b \in Browsers :
        /\ process[b] = "dead"
        /\ reading[b]
        /\ reading' = [reading EXCEPT ![b] = FALSE]
        /\ closer' = IF closer = "sent" /\ closing = b THEN "take" ELSE closer
        /\ UNCHANGED <<clockVars, current, launched, process, writing, signal, rx,
                       watcherVars, closing, registered>>

\* Mutant: the reader ends and leaves what is pending.
MutReaderEndsHolding ==
    \E b \in Browsers :
        /\ process[b] = "dead"
        /\ reading[b]
        /\ reading' = [reading EXCEPT ![b] = FALSE]
        /\ signal' = [signal EXCEPT ![b] = TRUE]
        /\ UNCHANGED <<clockVars, current, launched, process, writing, rx,
                       watcherVars, closerVars>>

\* The reader of a dead Chromium hits EOF.
ReaderEnds == \E b \in Browsers : process[b] = "dead" /\ ReaderStops(b)

\* A read error or a framing error ends the reader of a Chromium that is up.
ConnectionBreaks ==
    /\ "bad_frame" \in Faults
    /\ \E b \in Browsers : process[b] = "up" /\ ReaderStops(b)

----------------------------------------------------------------------------
(* recovery::run                                                            *)

\* wait_for_exit takes the receiver out of the current Browser, if it is there.
Subscribe ==
    /\ watcher = "subscribe"
    /\ IF rx[current]
       THEN /\ rx' = [rx EXCEPT ![current] = FALSE]
            /\ watched' = current
            /\ watcher' = "wait"
       ELSE /\ watcher' = "stopped"
            /\ UNCHANGED <<rx, watched>>
    /\ UNCHANGED <<clockVars, current, launched, process, reading, writing, signal,
                   fresh, failures, events, closerVars>>

\* is_within_respawn_window(entry.last_activity_ms())
WithinWindow == activity # 0 /\ activity < Window

\* Mutant: the watcher acts before the exit channel fires.
MutWake ==
    /\ watcher = "wait"
    /\ watcher' = IF WithinWindow THEN "launch" ELSE "idle"
    /\ UNCHANGED <<clockVars, browserVars, watched, fresh, failures, events, closerVars>>

\* rx.recv() returns: Chromium is gone, for whatever reason.
Wake ==
    /\ watcher = "wait"
    /\ signal[watched]
    /\ watcher' = IF WithinWindow THEN "launch" ELSE "idle"
    /\ UNCHANGED <<clockVars, browserVars, watched, fresh, failures, events, closerVars>>

\* The failure arm of the loop.
RespawnFailed ==
    /\ failures' = failures + 1
    /\ fresh' = NoBrowser
    /\ IF failures + 1 >= MaxRespawns
       THEN /\ watcher' = "gave_up"
            /\ events' = events \cup {"session.recovery_failed"}
       ELSE /\ watcher' = "backoff"
            /\ UNCHANGED events

\* Browser::launch on the same user-data-dir fails in the spawn or in the
\* Browser.getVersion handshake, and kills its child.
LaunchFails ==
    /\ "no_launch" \in Faults
    /\ watcher = "launch"
    /\ RespawnFailed
    /\ UNCHANGED <<clockVars, browserVars, watched, closerVars>>

\* The new Chromium runs and its connection answers.
LaunchSucceeds ==
    /\ watcher = "launch"
    /\ launched < MaxBrowsers
    /\ launched' = launched + 1
    /\ fresh' = launched + 1
    /\ process' = [process EXCEPT ![launched + 1] = "up"]
    /\ reading' = [reading EXCEPT ![launched + 1] = TRUE]
    /\ writing' = [writing EXCEPT ![launched + 1] = TRUE]
    /\ rx' = [rx EXCEPT ![launched + 1] = TRUE]
    /\ watcher' = "reattach"
    /\ UNCHANGED <<clockVars, current, signal, watched, failures, events, closerVars>>

\* apply_seed_plan, at the end of the launch, or reattach_existing_targets
\* fails.  The new Browser is dropped, but its default context holds it alive,
\* so its child is not killed.
ReattachFails ==
    /\ "no_reattach" \in Faults
    /\ watcher = "reattach"
    /\ RespawnFailed
    /\ UNCHANGED <<clockVars, browserVars, watched, closerVars>>

\* Observers, forwarders and subscriptions are re-armed, the Browser is stored,
\* the client is told, and the loop goes round.
Swap ==
    /\ watcher = "reattach"
    /\ current' = fresh
    /\ fresh' = NoBrowser
    /\ failures' = 0
    /\ events' = events \cup {"session.recovered"}
    /\ watcher' = "subscribe"
    /\ UNCHANGED <<clockVars, launched, process, reading, writing, signal, rx,
                   watched, closerVars>>

\* sleep(500 ms), and the loop goes round.
Backoff ==
    /\ watcher = "backoff"
    /\ watcher' = "subscribe"
    /\ UNCHANGED <<clockVars, browserVars, watched, fresh, failures, events, closerVars>>

----------------------------------------------------------------------------
(* Teardown: Browser::shutdown, then the entry is removed                   *)

\* load_full and send(Browser.close).  With the writer gone the send fails at
\* once; with the reader gone nobody will complete it; the write itself then
\* ends the writer.
CloseSends ==
    /\ closer = "none"
    /\ closing' = current
    /\ closer' = IF ~writing[current] THEN "take"
                 ELSE IF reading[current] THEN "sent" ELSE "parked"
    /\ writing' = [writing EXCEPT ![current] = @ /\ process[current] = "up"]
    /\ signal' = [signal EXCEPT ![current] = @ \/ process[current] = "dead"]
    /\ UNCHANGED <<clockVars, current, launched, process, reading, rx,
                   watcherVars, registered>>

\* Chromium answers Browser.close and exits.
ChromiumCloses ==
    /\ closer = "sent"
    /\ process[closing] = "up"
    /\ process' = [process EXCEPT ![closing] = "dead"]
    /\ closer' = "take"
    /\ UNCHANGED <<clockVars, current, launched, reading, writing, signal, rx,
                   watcherVars, closing, registered>>

\* Chromium answers Browser.close and does not exit.
ChromiumLingers ==
    /\ "linger" \in Faults
    /\ closer = "sent"
    /\ process[closing] = "up"
    /\ closer' = "take"
    /\ UNCHANGED <<clockVars, browserVars, watcherVars, closing, registered>>

\* closed_rx.take(): there is something to wait for only if nobody took it.
CloseTakes ==
    /\ closer = "take"
    /\ closer' = IF rx[closing] THEN "wait" ELSE "remove"
    /\ rx' = [rx EXCEPT ![closing] = FALSE]
    /\ UNCHANGED <<clockVars, current, launched, process, reading, writing, signal,
                   watcherVars, closing, registered>>

CloseSeesExit ==
    /\ closer = "wait"
    /\ signal[closing]
    /\ closer' = "remove"
    /\ UNCHANGED <<clockVars, browserVars, watcherVars, closing, registered>>

\* Five seconds are over: the child is killed.
CloseKills ==
    /\ closer = "wait"
    /\ closer' = "remove"
    /\ process' = [process EXCEPT ![closing] = "dead"]
    /\ UNCHANGED <<clockVars, current, launched, reading, writing, signal, rx,
                   watcherVars, closing, registered>>

CloseRemoves ==
    /\ closer = "remove"
    /\ closer' = "done"
    /\ registered' = FALSE
    /\ UNCHANGED <<clockVars, browserVars, watcherVars, closing>>
----------------------------------------------------------------------------
Watcher ==
    \/ Subscribe \/ Wake \/ Backoff
    \/ LaunchFails \/ LaunchSucceeds
    \/ ReattachFails \/ Swap

Teardown == CloseTakes \/ CloseSeesExit \/ CloseKills \/ CloseRemoves

ChromiumReplies == ChromiumCloses \/ ChromiumLingers

Environment == Tick \/ Touch \/ WriteFails \/ Crash \/ ConnectionBreaks

RecoveryNext == Watcher \/ CloseSends \/ ChromiumReplies \/ Teardown \/ ReaderEnds \/ Environment

\* The tasks of the broker keep running; a Chromium that has not been allowed
\* to hang answers Browser.close.
RecoveryFairness ==
    /\ WF_recoveryVars(Watcher)
    /\ WF_recoveryVars(Teardown)
    /\ WF_recoveryVars(ReaderEnds)
    /\ "hang" \notin Faults => WF_recoveryVars(ChromiumReplies)

RecoverySpec == RecoveryInit /\ [][RecoveryNext]_recoveryVars
FairRecovery == RecoverySpec /\ RecoveryFairness

----------------------------------------------------------------------------
\* The broker never drives two Chromiums on one user-data-dir: the watcher
\* launches the next one only when the connection to the last is gone, whatever
\* crashes, failures and teardowns come in between.
OneChromiumPerProfile ==
    Cardinality({b \in Browsers : process[b] = "up" /\ reading[b]}) <= 1

\* A dead Chromium under watch is replaced, or the watcher says why not.
CrashIsHandled ==
    \A b \in Browsers :
        (watcher = "wait" /\ watched = b /\ process[b] = "dead" /\ launched < MaxBrowsers)
            ~> (current > b \/ watcher \in {"idle", "stopped", "gave_up"})

\* A teardown whose Browser.close reached a live connection completes, and the
\* entry leaves the registry.
TeardownCompletes == closer = "sent" ~> ~registered

\* A session that has been torn down is not respawned.
NoRespawnAfterTeardown == closer \in {"remove", "done"} => watcher \notin {"launch", "reattach"}

=============================================================================
