----------------------------- MODULE MCChromium -----------------------------
(* What a session drives: the CDP connection of one Browser; over the         *)
(* Browsers of the session, crash recovery; and the AppController, of which   *)
(* the clipboard and the app share the policy only.  Recovery sees a          *)
(* connection only as up or down and the AppController sees neither, so each  *)
(* is explored, and is fair, with the others at rest.                         *)
EXTENDS CdpConnection, CrashRecovery, NativeApps

MCTrees == {<<"secret">>, <<"plain", "secret">>}
MCPolicies == {Lenient, [hide |-> TRUE, block |-> TRUE]}

ClipOps == Reads \cup Writes
Clipped == \E c \in Agents : req[c].op \in ClipOps
ClipRests ==
    /\ clips = <<>> /\ unseen /\ copies = 0 /\ ~Clipped /\ \A p \in Pollers : poll[p].pc = "idle"
AppRests == edits = 0 /\ snap_seq = 0 /\ \A c \in Agents : req[c].op \in ClipOps \cup {"none"}
\* The poller is the one other party a call of the clipboard meets: a write
\* and a read one after the other meet it in every way.
OneAtATime == calls < MaxCalls /\ Cardinality({c \in Agents : req[c].op # "none"}) <= 1
InClip(A) == AppRests /\ A /\ <<treeVars, subVars>>' = <<treeVars, subVars>> /\ AppRests' /\ OneAtATime'
InApp(A) == ClipRests /\ A /\ ClipRests'

\* The component that moves in this behaviour.
VARIABLE scene
mcVars == <<vars, recoveryVars, nativeVars, scene>>

MCInit ==
    /\ Init /\ RecoveryInit /\ NativeInit
    /\ scene \in {"cdp", "recovery", "native"}
    /\ scene # "cdp" => sess = CHOOSE f \in [Calls -> Sessions] : TRUE
MCNext ==
    /\ \/ scene = "cdp" /\ Next /\ UNCHANGED <<recoveryVars, nativeVars>>
       \/ scene = "recovery" /\ RecoveryNext /\ UNCHANGED <<vars, nativeVars>>
       \/ scene = "native" /\ (InApp(NativeNext) \/ InClip(NativeNext)) /\ UNCHANGED <<vars, recoveryVars>>
    /\ UNCHANGED scene
MCFairness ==
    /\ \A c \in Calls : WF_vars(scene = "cdp" /\ Caller(c))
    /\ WF_vars(scene = "cdp" /\ WriterFails) /\ WF_vars(scene = "cdp" /\ ReaderTask)
    /\ WF_recoveryVars(scene = "recovery" /\ Watcher) /\ WF_recoveryVars(scene = "recovery" /\ Teardown)
    /\ WF_recoveryVars(scene = "recovery" /\ ReaderEnds)
    /\ WF_recoveryVars(scene = "recovery" /\ ChromiumReplies)
    /\ NativeFairness
MCSpec == MCInit /\ [][MCNext]_mcVars /\ MCFairness
=============================================================================
