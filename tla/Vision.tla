-------------------------------- MODULE Vision --------------------------------
(***************************************************************************)
(* The vision pipeline of one tab.  A capture task copies every screencast *)
(* frame into a ring of shared-memory slots and sends it down a bounded    *)
(* channel; a pump diffs it against the frame before, keeps the changes,   *)
(* and announces the frame with a handle to its slot.   A vision.* call on  *)
(* a tab without a frame primes the pipeline with a screenshot of its own, *)
(* through the same ring and the same diff.                                *)
(*                                                                         *)
(* A picture is a size and the colour of each tile.  Time stamps are taken *)
(* next to the sequence number and in its order, which stands for both.    *)
(***************************************************************************)
EXTENDS Integers, Sequences, FiniteSets

CONSTANTS slot_count,        \* slots of the ring (DEFAULT_SLOT_COUNT)
          frames_cap,        \* frames the channel holds (64)
          CHANGES_HISTORY,   \* frames whose changes are kept
          Tiles,             \* tiles of a picture
          PicSizes,             \* sizes of a picture
          Readers,           \* holders of ReadGuards
          MaxReads,          \* bound: reads of this instance
          MaxFrames          \* bound: frames of this instance

ASSUME VisionAssumption ==
    /\ {slot_count, frames_cap, CHANGES_HISTORY, MaxFrames, MaxReads} \subseteq Nat \ {0}
    /\ slot_count >= frames_cap + 2
    /\ PicSizes \subseteq Nat \ {0}

VARIABLES slots,       \* the ring: seq (0: unpublished), refcnt, whose bytes it holds
          next_seq,   \* the ring's counter
          prod,       \* [Producers -> the frame being written and how far it is]
          chan,       \* frames between the capture task and the pump
          tick,       \* [Tickers -> the frame being diffed and how far it is]
          grid,       \* last_dims and last_hashes
          history,    \* changes_history
          last_frame,
          guard,      \* [Readers -> the slot and seq it holds]
          event,      \* the last vision.frame
          view,       \* what a client that repaints the changed tiles sees
          mark,       \* a vision.frame the client has remembered
          seeded,     \* the last frame that was not diffed against another
          primed,     \* a screenshot went through the pipeline
          starved,    \* a frame failed to decode
          readsDone,      \* guards taken so far
          raced       \* one was taken in the middle of a commit
frameRingVars == <<slots, next_seq>>
watcherVars == <<event, view, mark>>
ghostVars == <<primed, starved, readsDone, raced>>
tickVars == <<tick, grid, history, last_frame, seeded>>
visionVars == <<slots, next_seq, prod, chan, tick, grid, history, last_frame, guard, event, view, mark,
                seeded, primed, starved, readsDone, raced>>

Producers == {"capture", "prime"}
Tickers == {"pump", "prime"}
Slots == 1..slot_count
Pictures == [size : PicSizes, px : [Tiles -> 0..1]]
BlankPic == [size |-> 0, px |-> [t \in Tiles |-> 0]]
NoFrame == [seq |-> 0, pic |-> BlankPic]
NotWriting == [pc |-> "idle", slot |-> 0, frame |-> NoFrame]
NotTicking == [pc |-> "idle", frame |-> NoFrame, tiles |-> {}]
NoGuard == [slot |-> 0, seq |-> 0]
NoEvent == [seq |-> 0, pic |-> BlankPic, tiles |-> {}, bytes |-> 0]
Differ(p, q) == {t \in Tiles : p.px[t] # q.px[t]}

-----------------------------------------------------------------------------
\* FrameRing: a slot nobody holds, the oldest first.
Recyclable == {i \in Slots : slots[i].refcnt = 0}
Oldest == CHOOSE i \in Recyclable :
              \A j \in Recyclable : slots[i].seq < slots[j].seq \/ (slots[i].seq = slots[j].seq /\ i <= j)
\* Mutant: the slot keeps its old number while it is written.
MutAcquire(p, pic) ==
    /\ next_seq <= MaxFrames /\ Recyclable # {}
    /\ slots' = [slots EXCEPT ![Oldest].refcnt = 1]
    /\ next_seq' = next_seq + 1
    /\ prod' = [prod EXCEPT ![p] = [pc |-> "acquired", slot |-> Oldest,
                                    frame |-> [seq |-> next_seq, pic |-> pic]]]
acquire_write(p, pic) ==
    /\ next_seq <= MaxFrames /\ Recyclable # {}
    /\ slots' = [slots EXCEPT ![Oldest] = [seq |-> 0, refcnt |-> 1, bytes |-> @.bytes]]
    /\ next_seq' = next_seq + 1
    /\ prod' = [prod EXCEPT ![p] = [pc |-> "acquired", slot |-> Oldest,
                                    frame |-> [seq |-> next_seq, pic |-> pic]]]
write(p) ==
    /\ prod[p].pc = "acquired"
    /\ slots' = [slots EXCEPT ![prod[p].slot].bytes = prod[p].frame.seq]
    /\ prod' = [prod EXCEPT ![p].pc = "written"]
    /\ UNCHANGED <<next_seq, chan, tickVars, guard, watcherVars, ghostVars>>
\* commit stores the sequence number and then the reference count, under the
\* lock that readers share.
commit_seq(p) ==
    /\ prod[p].pc = "written"
    /\ slots' = [slots EXCEPT ![prod[p].slot].seq = prod[p].frame.seq]
    /\ prod' = [prod EXCEPT ![p].pc = "published"]
    /\ UNCHANGED <<next_seq, chan, tickVars, guard, watcherVars, ghostVars>>
commit_refcnt(p) ==
    /\ prod[p].pc = "published"
    /\ slots' = [slots EXCEPT ![prod[p].slot].refcnt = 0]
    /\ prod' = [prod EXCEPT ![p].pc = "committed"]
    /\ UNCHANGED <<next_seq, chan, tickVars, guard, watcherVars, ghostVars>>
\* read shares the lock with commit alone, and takes a published slot.
read(r) ==
    /\ guard[r] = NoGuard /\ readsDone < MaxReads
    /\ \E i \in Slots :
           /\ slots[i].seq # 0
           /\ slots' = [slots EXCEPT ![i].refcnt = @ + 1]
           /\ guard' = [guard EXCEPT ![r] = [slot |-> i, seq |-> slots[i].seq]]
           /\ raced' = (raced \/ \E p \in Producers : prod[p].pc = "published" /\ prod[p].slot = i)
    /\ readsDone' = readsDone + 1
    /\ UNCHANGED <<next_seq, prod, chan, tickVars, watcherVars, primed, starved>>
\* fetch_sub wraps: below zero stands for a count that never comes back.
drop_guard(r) ==
    /\ guard[r] # NoGuard
    /\ slots' = [slots EXCEPT ![guard[r].slot].refcnt = @ - 1]
    /\ guard' = [guard EXCEPT ![r] = NoGuard]
    /\ UNCHANGED <<next_seq, prod, chan, tickVars, watcherVars, ghostVars>>

-----------------------------------------------------------------------------
\* The capture task: handle_one_frame.  A frame that is too large or finds no
\* slot is dropped before the ring, one that does not decode after it.
CaptureFrame ==
    /\ prod["capture"].pc = "idle"
    /\ \E pic \in Pictures : acquire_write("capture", pic)
    /\ UNCHANGED <<chan, tickVars, guard, watcherVars, ghostVars>>
CaptureSends ==
    /\ prod["capture"].pc = "committed" /\ Len(chan) < frames_cap
    /\ chan' = Append(chan, prod["capture"].frame)
    /\ prod' = [prod EXCEPT !["capture"] = NotWriting]
    /\ UNCHANGED <<frameRingVars, tickVars, guard, watcherVars, ghostVars>>
DecodeFails(p) ==
    /\ prod[p].pc = "committed"
    /\ prod' = [prod EXCEPT ![p] = NotWriting]
    /\ starved' = TRUE
    /\ UNCHANGED <<frameRingVars, chan, tickVars, guard, watcherVars, primed, readsDone, raced>>

\* ensure_browser_pipeline: the first vision.* call takes a screenshot, of the
\* page or of a region of it, and ingests it.
PrimeFrame ==
    /\ ~primed /\ prod["prime"].pc = "idle" /\ last_frame = NoFrame
    /\ \E pic \in Pictures : acquire_write("prime", pic)
    /\ primed' = TRUE
    /\ UNCHANGED <<chan, tickVars, guard, watcherVars, starved, readsDone, raced>>

-----------------------------------------------------------------------------
\* tick: the diff, or a fresh grid for the first frame and for one of another
\* size; each under a lock of its own, so that two ticks can mix.
Seeds(frame) == grid.size # frame.pic.size
\* Mutant: the new grid is stored before it is compared.
MutDiff(t, frame) ==
    /\ tick[t] = NotTicking
    /\ tick' = [tick EXCEPT ![t] = [pc |-> "diffed", frame |-> frame, tiles |-> {}]]
    /\ grid' = frame.pic
    /\ seeded' = IF Seeds(frame) THEN frame.seq ELSE seeded
    /\ UNCHANGED <<frameRingVars, history, last_frame, guard, watcherVars, ghostVars>>
Diff(t, frame) ==
    /\ tick[t] = NotTicking
    /\ tick' = [tick EXCEPT ![t] = [pc |-> "diffed", frame |-> frame,
                                    tiles |-> IF Seeds(frame) THEN {} ELSE Differ(grid, frame.pic)]]
    /\ grid' = frame.pic
    /\ seeded' = IF Seeds(frame) THEN frame.seq ELSE seeded
    /\ UNCHANGED <<frameRingVars, history, last_frame, guard, watcherVars, ghostVars>>
PumpDiffs ==
    /\ chan # <<>> /\ Diff("pump", Head(chan))
    /\ chan' = Tail(chan)
    /\ UNCHANGED prod
PrimeDiffs ==
    /\ prod["prime"].pc = "committed" /\ Diff("prime", prod["prime"].frame)
    /\ prod' = [prod EXCEPT !["prime"] = NotWriting]
    /\ UNCHANGED chan
Remember(h) == IF Len(h) > CHANGES_HISTORY THEN Tail(h) ELSE h
PushChanges(t) ==
    /\ tick[t].pc = "diffed"
    /\ history' = Remember(Append(history, [seq |-> tick[t].frame.seq, tiles |-> tick[t].tiles]))
    /\ tick' = [tick EXCEPT ![t].pc = "pushed"]
    /\ UNCHANGED <<frameRingVars, prod, chan, grid, last_frame, seeded, guard, watcherVars, ghostVars>>
\* After the OCR's await.
SetLastFrame(t) ==
    /\ tick[t].pc = "pushed"
    /\ last_frame' = tick[t].frame
    /\ tick' = [tick EXCEPT ![t] = IF t = "pump" THEN [@ EXCEPT !.pc = "ticked"] ELSE NotTicking]
    /\ UNCHANGED <<frameRingVars, prod, chan, grid, history, seeded, guard, watcherVars, ghostVars>>

\* tick_with_subscriber: handle_for_seq finds the frame's slot, or the ring has
\* recycled it and the event is given up.
HandleFor(seq) == {i \in Slots : slots[i].seq = seq}
Repaint(frame, tiles) ==
    IF view.size # frame.pic.size THEN frame.pic
    ELSE [view EXCEPT !.px = [t \in Tiles |-> IF t \in tiles THEN frame.pic.px[t] ELSE @[t]]]
EmitFrame ==
    /\ tick["pump"].pc = "ticked"
    /\ \E i \in HandleFor(tick["pump"].frame.seq) :
           event' = [seq |-> tick["pump"].frame.seq, pic |-> tick["pump"].frame.pic,
                     tiles |-> tick["pump"].tiles, bytes |-> slots[i].bytes]
    /\ view' = Repaint(tick["pump"].frame, tick["pump"].tiles)
    /\ mark' \in {mark, event'}
    /\ tick' = [tick EXCEPT !["pump"] = NotTicking]
    /\ UNCHANGED <<frameRingVars, prod, chan, grid, history, last_frame, seeded, guard, ghostVars>>
RingLostSeq ==
    /\ tick["pump"].pc = "ticked" /\ HandleFor(tick["pump"].frame.seq) = {}
    /\ tick' = [tick EXCEPT !["pump"] = NotTicking]
    /\ UNCHANGED <<frameRingVars, prod, chan, grid, history, last_frame, seeded, guard, watcherVars, ghostVars>>

changed_since(seq) == UNION {history[i].tiles : i \in {j \in DOMAIN history : history[j].seq > seq}}

VisionInit ==
    /\ slots = [i \in Slots |-> [seq |-> 0, refcnt |-> 0, bytes |-> 0]]
    /\ next_seq = 1
    /\ prod = [p \in Producers |-> NotWriting] /\ tick = [t \in Tickers |-> NotTicking]
    /\ chan = <<>> /\ grid = BlankPic /\ history = <<>> /\ last_frame = NoFrame /\ seeded = 0
    /\ guard = [r \in Readers |-> NoGuard]
    /\ event = NoEvent /\ view = BlankPic /\ mark = NoEvent
    /\ primed = FALSE /\ starved = FALSE /\ readsDone = 0 /\ raced = FALSE
VisionNext ==
    \/ \E p \in Producers : write(p) \/ commit_seq(p) \/ commit_refcnt(p) \/ DecodeFails(p)
    \/ \E r \in Readers : read(r) \/ drop_guard(r)
    \/ CaptureFrame \/ CaptureSends \/ PrimeFrame \/ PumpDiffs \/ PrimeDiffs
    \/ \E t \in Tickers : PushChanges(t) \/ SetLastFrame(t)
    \/ EmitFrame \/ RingLostSeq
VisionSpec == VisionInit /\ [][VisionNext]_visionVars

-----------------------------------------------------------------------------
\* A vision.frame event points at the bytes of its own frame, however many
\* frames are written while it is diffed: the slot of a frame that has been
\* recycled is never announced under the old number.  (A guard taken in the middle
\* of a commit spoils the slot's count; after that two
\* producers can write one slot.)
EventNamesItsFrame == ~raced => event.bytes = event.seq

PumpIdle == tick["pump"] = NotTicking
\* Nothing that changed on the screen is kept from the client of the continuous
\* mode: repainting the changed tiles of every vision.frame gives the picture of
\* the last one - the ring is larger than the channel, so a frame is announced
\* before its slot is recycled, unless frames failed to decode or guards held
\* slots - and vision.changed_since names every tile that differs from a picture
\* the client remembers, as long as the history reaches back to it and the size
\* stayed.  (A screenshot taken by a vision.* call before the first frame is
\* diffed without an event, and breaks this.)
NoChangeIsMissed ==
    ~primed =>
        /\ (~starved /\ readsDone = 0) => view.px = event.pic.px
        /\ (PumpIdle /\ mark.seq \in {history[i].seq : i \in DOMAIN history} /\ mark.seq >= seeded)
               => Differ(mark.pic, last_frame.pic) \subseteq changed_since(mark.seq)

=============================================================================
