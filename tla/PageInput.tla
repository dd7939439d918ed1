----------------------------- MODULE PageInput -----------------------------
(***************************************************************************)
(* The input of one tab: every caller sends the commands of its request one  *)
(* after another (PageRequests), waiting for Chromium's answer to each, and  *)
(* the callers share the tab's one mouse, keyboard and touch screen.  A      *)
(* command that fails ends the request, so what it held stays held.        *)
(***************************************************************************)
EXTENDS Naturals, PageRequests

CONSTANTS Senders   \* connections whose requests reach the tab

VARIABLES
    todo,    \* per sender: commands still to send
    held,    \* what the page believes is pressed or in progress
    stuck    \* history: devices a failed command was to let go of

inputVars == <<todo, held, stuck>>

Commands == [kind : {"down", "up", "other"}, what : SUBSET Devices, must : BOOLEAN]
Releases(prog) == UNION {prog[i].what : i \in {j \in DOMAIN prog : prog[j].kind = "up"}}

InputInit ==
    /\ todo = [c \in Senders |-> <<>>]
    /\ held = {} /\ stuck = {}

(* A request reaches the point where it sends. *)
Act(c) ==
    /\ todo[c] = <<>>
    /\ \E r \in Requests : todo' = [todo EXCEPT ![c] = r.prog]
    /\ UNCHANGED <<held, stuck>>

(* What the page holds once it has carried a command out. *)
After(cmd) ==
    CASE cmd.kind = "down" -> held \union cmd.what
      [] cmd.kind = "up" -> held \ cmd.what
      [] OTHER -> held

(* cdp_send *)
Send(c) ==
    /\ todo[c] # <<>>
    /\ held' = After(Head(todo[c]))
    /\ stuck' = stuck \cap held'
    /\ todo' = [todo EXCEPT ![c] = Tail(@)]

(* A command fails, whether or not Chromium carried it out: the error ends   *)
(* the request.                                                            *)
SendFails(c) ==
    /\ todo[c] # <<>> /\ Head(todo[c]).must
    /\ held' \in {held, After(Head(todo[c]))}
    /\ stuck' = (stuck \union Releases(todo[c])) \cap held'
    /\ todo' = [todo EXCEPT ![c] = <<>>]

(* The error of a best-effort command is dropped and the request goes on. *)
SendIgnored(c) ==
    /\ todo[c] # <<>> /\ ~Head(todo[c]).must
    /\ held' \in {held, After(Head(todo[c]))}
    /\ stuck' = (stuck \union Releases(<<Head(todo[c])>>)) \cap held'
    /\ todo' = [todo EXCEPT ![c] = Tail(@)]

InputNext == \E c \in Senders : Act(c) \/ Send(c) \/ SendFails(c) \/ SendIgnored(c)

InputSpec == InputInit /\ [][InputNext]_inputVars

-----------------------------------------------------------------------------
(* Whatever is pressed, touched, dragged or composed is about to be let go   *)
(* of by a request in progress, unless the command that was to do so failed: *)
(* the sequences of actions.rs, interleaved in any way on the shared         *)
(* devices, leave nothing held between requests.  Only a pen press and touch *)
(* emulation are meant to last.                                            *)
HeldIsReleased ==
    \A d \in held \ Lasting : d \in stuck \/ \E c \in Senders : d \in Releases(todo[c])

=============================================================================
