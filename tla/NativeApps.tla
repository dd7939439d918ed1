------------------------------ MODULE NativeApps ------------------------------
(***************************************************************************)
(* The AppController of a session: what it reads from and does to an app   *)
(* of the desktop, the clipboard cache and its background poller, and the  *)
(* subscriptions to accessibility events, each an observer thread with a   *)
(* run loop of its own.  All of it is subject to the privacy policy of the *)
(* session, which a registration may replace at any time.                  *)
(*                                                                         *)
(* The desktop is external: the pasteboard, the element tree of the app,   *)
(* its events and CFRunLoop are modelled from how the crate uses them.  A  *)
(* text either matches the redaction patterns ("secret") or does not.      *)
(***************************************************************************)
EXTENDS Integers, Sequences, FiniteSets

CONSTANTS Agents,              \* tool calls that may be under way at once
          HISTORY_CAPACITY,    \* items the clipboard history keeps
          CHANNEL_CAPACITY,    \* events a subscription buffers
          Policies,            \* policies a registration may install
          Texts,               \* texts that are copied
          Trees,               \* element trees the app may show: the text at each path
          MaxCalls,            \* bound: tool calls of this instance
          MaxCopies,           \* bound: things the user copies
          MaxPolicies,         \* bound: policies installed
          MaxEvents            \* bound: changes of the tree

ASSUME NativeAssumption ==
    /\ {HISTORY_CAPACITY, CHANNEL_CAPACITY} \subseteq Nat \ {0}
    /\ Policies \subseteq [hide : BOOLEAN, block : BOOLEAN]
    /\ {MaxCalls, MaxCopies, MaxPolicies, MaxEvents} \subseteq Nat

VARIABLES policy,      \* the redaction engine: patterns match secrets, the app is on the blocklist
          installs,    \* policies installed so far
          board,       \* the pasteboard: kind and text
          unseen,      \* its changeCount is above last_change_count
          copies,      \* things the user has copied so far
          clips,       \* the clipboard history, oldest first
          poll,        \* [Pollers -> a sampling pass under way]
          polling,     \* the background poller has not been aborted
          req,         \* [Agents -> the tool call under way, or the answer of the last one]
          calls,       \* tool calls so far
          tree,        \* the app's elements: the text at each path
          edits,       \* changes of the tree so far
          snap_seq,    \* the controller's counter
          latest_snap, \* snapshots: the latest of the app
          observer,    \* the observer thread: how far it is
          alive,       \* the flag its callback reads
          listed,      \* the subscription is in the controller's list
          subs_lock,   \* who holds that list
          buffered,    \* the subscription's channel
          receiver,    \* its receiver is held: by the call or the forwarder, or dropped
          notified     \* the last event forwarded, and the policy then in force
clipVars == <<board, unseen, copies, clips, poll, polling>>
treeVars == <<tree, edits, snap_seq, latest_snap>>
subVars == <<observer, alive, listed, subs_lock, buffered, receiver, notified>>
policyVars == <<policy, installs>>
nativeVars == <<policyVars, clipVars, req, calls, treeVars, subVars>>

Pollers == {"poller"} \cup Agents
Reads == {"read_string", "read_files", "history"}
Writes == {"write_string", "write_files", "write_image"}
NoItem == [kind |-> "Other", text |-> "none"]
Lenient == [hide |-> FALSE, block |-> FALSE]
NothingTold == [text |-> "none", under |-> Lenient]
NoSnap == [seq |-> 0, texts |-> <<>>]
AtRest == [op |-> "none", pc |-> "idle", out |-> {}, acted |-> FALSE, since |-> {},
         text |-> "none", path |-> 0, snap |-> NoSnap]

NativeInit ==
    /\ policy = Lenient /\ installs = 0
    /\ board = [kind |-> "String", text |-> "secret"] /\ unseen = TRUE /\ copies = 0
    /\ clips = <<>> /\ poll = [p \in Pollers |-> [pc |-> "idle", item |-> NoItem]] /\ polling = TRUE
    /\ req = [c \in Agents |-> AtRest] /\ calls = 0
    /\ tree = (CHOOSE t \in Trees : TRUE) /\ edits = 0 /\ snap_seq = 0 /\ latest_snap = NoSnap
    /\ observer = "none" /\ alive = FALSE /\ listed = FALSE /\ subs_lock = "free"
    /\ buffered = <<>> /\ receiver = "none" /\ notified = NothingTold

-----------------------------------------------------------------------------
\* The policy.  The blocklist and the patterns are replaced together; a call
\* under way has then seen both policies.
install(p) ==
    /\ installs < MaxPolicies /\ p # policy /\ policy' = p /\ installs' = installs + 1
    /\ req' = [c \in Agents |-> IF req[c].pc = "idle" THEN req[c]
                                 ELSE [req[c] EXCEPT !.since = @ \cup {p}]]
    /\ UNCHANGED <<clipVars, calls, treeVars, subVars>>
matches(t) == policy.hide /\ t = "secret"
redact_text(t) == IF matches(t) THEN "redacted" ELSE t
\* Mutant: the item's own flag, which every capture leaves unset, is trusted.
MutApplyClipboard(item) == item
apply_clipboard(item) ==
    IF item.kind = "String" /\ matches(item.text) THEN [item EXCEPT !.text = "redacted"] ELSE item
redact_snapshot(snap) == [snap EXCEPT !.texts = [i \in DOMAIN @ |-> redact_text(@[i])]]
require_not_blocked == ~policy.block

-----------------------------------------------------------------------------
\* Calls.  A handler that is refused or fails answers at once; an answer with
\* something in it is in req until the broker has sent it.
Begin(c) == req[c].pc = "idle" /\ calls < MaxCalls /\ calls' = calls + 1
Started(op, pc) == [AtRest EXCEPT !.op = op, !.pc = pc, !.since = {policy}]
Fails(c) == req' = [req EXCEPT ![c] = AtRest]
Replies(c, texts) == req' = [req EXCEPT ![c].pc = "done", ![c].out = texts]
Returns(c) ==
    /\ req[c].pc = "done" /\ req' = [req EXCEPT ![c] = AtRest]
    /\ UNCHANGED <<policyVars, clipVars, calls, treeVars, subVars>>
Goes(c, pc) == req' = [req EXCEPT ![c].pc = pc]

\* ClipboardCache
Cache(item) == clips' = Append(IF Len(clips) = HISTORY_CAPACITY THEN Tail(clips) ELSE clips, item)
Newest == IF clips = <<>> THEN NoItem ELSE clips[Len(clips)]

\* A sampling pass: count, capture, push, with the pasteboard free to change
\* and other passes free to run in between.  A call goes on when its pass ends.
PassEnds(p) == IF p \in Agents THEN Goes(p, "read") ELSE UNCHANGED req
MaySample(p) == IF p \in Agents THEN req[p].pc = "refresh" ELSE polling
PollCounts(p) ==
    /\ MaySample(p) /\ poll[p].pc = "idle"
    /\ IF ~unseen
       THEN p \in Agents /\ PassEnds(p) /\ UNCHANGED <<unseen, poll>>
       ELSE /\ unseen' = FALSE
            /\ poll' = [poll EXCEPT ![p] = [pc |-> "seen", item |-> NoItem]]
            /\ UNCHANGED req
    /\ UNCHANGED <<policyVars, board, copies, clips, polling, calls, treeVars, subVars>>
capture(p) ==
    /\ poll[p].pc = "seen"
    /\ poll' = [poll EXCEPT ![p] = [pc |-> "captured", item |-> board]]
    /\ UNCHANGED <<policyVars, board, unseen, copies, clips, polling, req, calls, treeVars, subVars>>
PollPushes(p) ==
    /\ poll[p].pc = "captured" /\ Cache(poll[p].item) /\ PassEnds(p)
    /\ poll' = [poll EXCEPT ![p] = [pc |-> "idle", item |-> NoItem]]
    /\ UNCHANGED <<policyVars, board, unseen, copies, polling, calls, treeVars, subVars>>

ReadClipboard(c, op) ==
    /\ Begin(c) /\ req' = [req EXCEPT ![c] = Started(op, "refresh")]
    /\ UNCHANGED <<policyVars, clipVars, treeVars, subVars>>
TextOf(item) == IF item.kind = "String" THEN {item.text} ELSE {}
read_string(c) == req[c].op = "read_string" /\ Replies(c, TextOf(apply_clipboard(Newest)))
ClipHistory(c) ==
    req[c].op = "history" /\ Replies(c, UNION {TextOf(apply_clipboard(clips[i])) : i \in DOMAIN clips})
\* read_files, and types, which differs in what it takes from the item: neither
\* is redacted.
read_files(c) == req[c].op = "read_files" /\ Replies(c, {})
ReadsHead(c) ==
    /\ req[c].pc = "read" /\ (read_string(c) \/ ClipHistory(c) \/ read_files(c))
    /\ UNCHANGED <<policyVars, clipVars, calls, treeVars, subVars>>
\* read_image reads the pasteboard, past the cache.
read_image(c) ==
    /\ Begin(c)
    /\ UNCHANGED <<req, policyVars, clipVars, treeVars, subVars>>

\* A write clears the pasteboard, which counts as a change, then sets the
\* content, then pushes an item of its own with whatever count it reads.
write_kind(op) == CASE op = "write_string" -> "String" [] op = "write_files" -> "Files" [] OTHER -> "Image"
WriteClipboard(c, op, t) ==
    /\ Begin(c) /\ ((op = "write_string") <=> (t # "none"))
    /\ \/ req' = [req EXCEPT ![c] = [Started(op, "clear") EXCEPT !.text = t]]
       \/ op # "write_string" /\ UNCHANGED req    \* no paths, no bytes
    /\ UNCHANGED <<policyVars, clipVars, treeVars, subVars>>
clearContents(c) ==
    /\ req[c].pc = "clear"
    /\ board' = NoItem /\ unseen' = TRUE /\ Goes(c, "set")
    /\ UNCHANGED <<policyVars, copies, clips, poll, polling, calls, treeVars, subVars>>
\* Only write_files ignores what the pasteboard answers.
setContents(c) ==
    /\ req[c].pc = "set"
    /\ \/ /\ board' = [board EXCEPT !.kind = write_kind(req[c].op), !.text = req[c].text]
          /\ Goes(c, "push")
       \/ /\ UNCHANGED board
          /\ IF req[c].op = "write_files" THEN Goes(c, "push") ELSE Fails(c)
    /\ UNCHANGED <<policyVars, unseen, copies, clips, poll, polling, calls, treeVars, subVars>>
WritePushes(c) ==
    /\ req[c].pc = "push"
    /\ Cache([kind |-> write_kind(req[c].op), text |-> req[c].text])
    /\ Replies(c, {})
    /\ UNCHANGED <<policyVars, board, unseen, copies, poll, polling, calls, treeVars, subVars>>
\* The user copies something.
UserCopies(kind, t) ==
    /\ copies < MaxCopies /\ copies' = copies + 1 /\ unseen' = TRUE
    /\ board' = [kind |-> kind, text |-> t]
    /\ ((kind = "String") <=> (t # "none"))
    /\ UNCHANGED <<policyVars, clips, poll, polling, req, calls, treeVars, subVars>>

-----------------------------------------------------------------------------
\* Snapshots and actions.  The walk and the action run on a blocking thread
\* after the gate; the app may have quit or changed by then.
Snapshot(c) ==
    /\ Begin(c)
    /\ IF require_not_blocked
       THEN /\ snap_seq' = snap_seq + 1
            /\ req' = [req EXCEPT ![c] = [Started("snapshot", "walk") EXCEPT !.snap.seq = snap_seq']]
       ELSE UNCHANGED req /\ UNCHANGED snap_seq
    /\ UNCHANGED <<policyVars, clipVars, tree, edits, latest_snap, subVars>>
snapshot_app(c) ==
    /\ req[c].pc = "walk"
    /\ \/ req' = [req EXCEPT ![c].pc = "redact", ![c].snap.texts = tree]
       \/ Fails(c)                                                     \* AppNotFound
    /\ UNCHANGED <<policyVars, clipVars, calls, treeVars, subVars>>
SnapshotStores(c) ==
    /\ req[c].pc = "redact"
    /\ latest_snap' = redact_snapshot(req[c].snap)
    /\ Replies(c, {latest_snap'.texts[i] : i \in DOMAIN latest_snap'.texts})
    /\ UNCHANGED <<policyVars, clipVars, calls, tree, edits, snap_seq, subVars>>
\* A ref is looked up in the latest snapshot, of which only the path is kept.
ResolveRef(i) == i \in DOMAIN latest_snap.texts
Act(c, op, i) ==
    /\ Begin(c)
    /\ req' = [req EXCEPT ![c] =
                  IF require_not_blocked /\ (i = 0 \/ ResolveRef(i))
                  THEN [Started(op, "act") EXCEPT !.path = i] ELSE AtRest]
    /\ UNCHANGED <<policyVars, clipVars, treeVars, subVars>>
click(c, i) == i > 0 /\ Act(c, "press", i)
type_text(c, i) == i > 0 /\ Act(c, "press", i)
scroll(c, i) == Act(c, "send", i)
eval(c) == Act(c, "send", 0)
\* Whatever is at the path now is acted on; a scroll goes to the app, not to its ref.
locate_by_path(i) == i \in DOMAIN tree
Acts(c) ==
    /\ req[c].pc = "act"
    /\ \/ /\ req[c].op = "press" => locate_by_path(req[c].path)
          /\ req' = [req EXCEPT ![c].pc = "done", ![c].acted = TRUE]
       \/ Fails(c)                      \* no such app, path or action, an AXError, a zero area
    /\ UNCHANGED <<policyVars, clipVars, calls, treeVars, subVars>>

-----------------------------------------------------------------------------
\* Subscriptions.  subscribe() waits, at most 2 s, for the observer thread to
\* hand over its run loop.
AppSubscribe(c) ==
    /\ Begin(c) /\ observer = "none"
    /\ IF require_not_blocked
       THEN /\ snap_seq' = snap_seq + 1
            /\ \/ /\ observer' = "starting" /\ alive' = TRUE /\ receiver' = "call"
                  /\ req' = [req EXCEPT ![c] = Started("subscribe", "await")]
               \/ UNCHANGED req /\ UNCHANGED <<observer, alive, receiver>>
       ELSE UNCHANGED req /\ UNCHANGED <<snap_seq, observer, alive, receiver>>
    /\ UNCHANGED <<policyVars, clipVars, tree, edits, latest_snap, listed, subs_lock, buffered, notified>>
\* The thread reported: it is listed, and the handler starts the forwarder.
SubscribeReturns(c) ==
    /\ req[c].pc = "await" /\ observer # "starting" /\ subs_lock = "free"
    /\ listed' = TRUE /\ receiver' = "forwarder" /\ Replies(c, {})
    /\ UNCHANGED <<policyVars, clipVars, calls, treeVars, observer, alive, subs_lock, buffered, notified>>
\* The thread did not: the receiver is dropped and the thread is left to itself.
SubscribeTimesOut(c) ==
    /\ req[c].pc = "await" /\ observer = "starting"
    /\ receiver' = "dropped" /\ Fails(c)
    /\ UNCHANGED <<policyVars, clipVars, calls, treeVars, observer, alive, listed, subs_lock, buffered, notified>>

\* run_observer_thread: report, run the loop, clean up.  An observer that
\* cannot be created reports too, and ends.
ObserverReports ==
    /\ observer = "starting" /\ observer' \in {"reported", "ended"}
    /\ UNCHANGED <<policyVars, clipVars, req, calls, treeVars, alive, listed, subs_lock, buffered, receiver, notified>>
\* A stop that came before the loop ran is forgotten by CFRunLoop, or is not.
ObserverRuns ==
    /\ \/ observer = "reported" /\ observer' = "running"
       \/ observer = "early_stop" /\ observer' \in {"deaf", "stopped"}
    /\ UNCHANGED <<policyVars, clipVars, req, calls, treeVars, alive, listed, subs_lock, buffered, receiver, notified>>
ObserverEnds ==
    /\ observer = "stopped" /\ observer' = "ended"
    /\ UNCHANGED <<policyVars, clipVars, req, calls, treeVars, alive, listed, subs_lock, buffered, receiver, notified>>
\* The callback: an event that finds the channel full, or closed, is dropped.
ax_callback(t) ==
    /\ observer \in {"running", "deaf"} /\ alive
    /\ buffered' = IF Len(buffered) < CHANNEL_CAPACITY /\ receiver # "dropped" THEN Append(buffered, t) ELSE buffered
AppChanges ==
    /\ edits < MaxEvents /\ edits' = edits + 1
    /\ tree' \in Trees
    /\ \/ \E i \in DOMAIN tree' : ax_callback(tree'[i])
       \/ UNCHANGED buffered
    /\ UNCHANGED <<policyVars, clipVars, req, calls, snap_seq, latest_snap, observer, alive, listed,
                   subs_lock, receiver, notified>>
\* The forwarder: what it sends is redacted as it is sent.
Forwards ==
    /\ receiver = "forwarder" /\ buffered # <<>>
    /\ notified' = [text |-> redact_text(Head(buffered)), under |-> policy]
    /\ buffered' = Tail(buffered)
    /\ UNCHANGED <<policyVars, clipVars, req, calls, treeVars, observer, alive, listed, subs_lock, receiver>>

\* unsubscribe() drops the subscription under the lock of the list, and the
\* drop stops the run loop and joins the thread.
Unsubscribe(c) ==
    /\ Begin(c)
    /\ req' = [req EXCEPT ![c] = Started("unsubscribe", "lock")]
    /\ UNCHANGED <<policyVars, clipVars, treeVars, subVars>>
UnsubscribeLocks(c) ==
    /\ req[c].pc = "lock" /\ subs_lock = "free"
    /\ IF listed
       THEN listed' = FALSE /\ alive' = FALSE /\ subs_lock' = c /\ Goes(c, "stop")
       ELSE Replies(c, {}) /\ UNCHANGED <<listed, alive, subs_lock>>
    /\ UNCHANGED <<policyVars, clipVars, calls, treeVars, observer, buffered, receiver, notified>>
\* Mutant: the thread is joined first.
MutDropStops(c) ==
    /\ req[c].pc = "stop" /\ observer = "ended" /\ Goes(c, "join")
    /\ UNCHANGED <<policyVars, clipVars, calls, treeVars, observer, alive, listed, subs_lock, buffered, receiver, notified>>
DropStops(c) ==
    /\ req[c].pc = "stop" /\ Goes(c, "join")
    /\ observer' = CASE observer = "running" -> "stopped"
                     [] observer = "reported" -> "early_stop"
                     [] OTHER -> observer
    /\ UNCHANGED <<policyVars, clipVars, calls, treeVars, alive, listed, subs_lock, buffered, receiver, notified>>
DropJoins(c) ==
    /\ req[c].pc = "join" /\ observer = "ended"
    /\ subs_lock' = "free" /\ Replies(c, {})
    /\ UNCHANGED <<policyVars, clipVars, calls, treeVars, observer, alive, listed, buffered, receiver, notified>>
\* The forwarder ends once the thread has dropped its sender and all is sent.
ForwarderEnds ==
    /\ receiver = "forwarder" /\ observer = "ended" /\ buffered = <<>> /\ receiver' = "none"
    /\ UNCHANGED <<policyVars, clipVars, req, calls, treeVars, observer, alive, listed, subs_lock, buffered, notified>>
\* The controller is dropped with its session, which a forwarder keeps; a pass
\* that is sampling goes on.
shutdown ==
    /\ polling /\ receiver # "forwarder" /\ \A c \in Agents : req[c].pc = "idle"
    /\ calls = MaxCalls                                        \* nobody calls it any more
    /\ polling' = FALSE /\ listed' = FALSE
    /\ UNCHANGED <<policyVars, board, unseen, copies, clips, poll, req, calls, treeVars, observer,
                   alive, subs_lock, buffered, receiver, notified>>

-----------------------------------------------------------------------------
Refs == UNION {DOMAIN t : t \in Trees}
CallBegins(c) ==
    \/ \E op \in Reads : ReadClipboard(c, op)
    \/ \E op \in Writes, t \in Texts \cup {"none"} : WriteClipboard(c, op, t)
    \/ read_image(c) \/ Snapshot(c) \/ eval(c) \/ AppSubscribe(c) \/ Unsubscribe(c)
    \/ \E i \in Refs \cup {0} : click(c, i) \/ type_text(c, i) \/ scroll(c, i)
CallGoesOn(c) ==
    \/ Returns(c) \/ ReadsHead(c) \/ clearContents(c) \/ setContents(c) \/ WritePushes(c)
    \/ snapshot_app(c) \/ SnapshotStores(c) \/ Acts(c)
    \/ SubscribeReturns(c) \/ SubscribeTimesOut(c)
    \/ UnsubscribeLocks(c) \/ DropStops(c) \/ DropJoins(c)
Samples(p) == PollCounts(p) \/ capture(p) \/ PollPushes(p)
ObserverSteps == ObserverReports \/ ObserverRuns \/ ObserverEnds
Desktop == AppChanges \/ \E kind \in {"String", "Files"}, t \in Texts \cup {"none"} : UserCopies(kind, t)

NativeNext ==
    \/ \E p \in Policies : install(p)
    \/ \E c \in Agents : CallBegins(c) \/ CallGoesOn(c)
    \/ \E p \in Pollers : Samples(p)
    \/ ObserverSteps \/ Forwards \/ ForwarderEnds \/ shutdown \/ Desktop

\* Tasks and threads run on: a call that has begun, its sampling pass, and the
\* observer; a step the policy, a client or the desktop takes need not come.
NativeFairness ==
    /\ \A c \in Agents : WF_nativeVars(CallGoesOn(c)) /\ WF_nativeVars(Samples(c))
    /\ WF_nativeVars(ObserverSteps)
NativeSpec == NativeInit /\ [][NativeNext]_nativeVars /\ NativeFairness

-----------------------------------------------------------------------------
NativeTypeOK ==
    /\ policy \in Policies /\ Len(clips) <= HISTORY_CAPACITY /\ Len(buffered) <= CHANNEL_CAPACITY
    /\ subs_lock \in Agents \cup {"free"}
    /\ observer \in {"none", "starting", "reported", "running", "early_stop", "deaf", "stopped", "ended"}

\* What the policy in force throughout a call forbids does not happen in it:
\* it returns no text of the clipboard or of an element that matches a
\* pattern, though it was captured under another policy, and does nothing to
\* an app on the blocklist; and an event is redacted by the policy in force
\* when it is sent (clipboard.rs: redaction is applied at READ time).
PolicyIsKept ==
    /\ \A c \in Agents :
           /\ "secret" \in req[c].out => \E p \in req[c].since : ~p.hide
           /\ req[c].acted => \E p \in req[c].since : ~p.block
    /\ notified.text = "secret" => ~notified.under.hide

\* Every call returns, whatever the other calls hold, unless an observer's run
\* loop was stopped before it ran and did not hear it (Drop for Subscription).
CallsReturn == \A c \in Agents : (req[c].pc # "idle") ~> (req[c].pc = "idle" \/ observer = "deaf")
=============================================================================
