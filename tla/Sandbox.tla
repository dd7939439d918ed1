------------------------------- MODULE Sandbox -------------------------------
(***************************************************************************)
(* A session's private copy of the user's files (crates/sandbox, with        *)
(* prepare_session_sandbox of crates/broker/src/router/session.rs): the      *)
(* clone of the Chrome profile and of the inherited directories when a        *)
(* session is registered, ofa-snapshot take and restore, and ofa-merge back    *)
(* to the host.  The commands are processes of their own and run at any time  *)
(* beside the broker, the agent and the user.                               *)
(*                                                                         *)
(* A directory is a function from file names to contents.  A content names    *)
(* the host directory it came from, or the agent that wrote it.             *)
(***************************************************************************)
EXTENDS Naturals, FiniteSets, Sequences

CONSTANTS
    Inherit,    \* the session's allowlist of host directories, in order
    Profile,    \* the host's Chrome profile directory
    Leaf,       \* last path component a host directory is cloned under
    Nested,     \* host directories that are not direct children of the home
    Files,      \* file names
    Sessions,   \* session ids the broker registers
    NewIds,     \* session ids given to ofa-snapshot restore
    Snaps,      \* snapshot names
    Tools,      \* command-line processes
    MaxEdits    \* bound: edits by the user and the agent

Ids == Sessions \union NewIds
Inherited == {Inherit[i] : i \in 1..Len(Inherit)}
Dirs == Inherited \union {Profile}
Leaves == {Leaf[d] : d \in Dirs}
Strategies == {"ours", "theirs", "prompt", "three-way"}

ASSUME SandboxAssumption ==
    /\ Inherit \in Seq(Inherited) /\ Profile \notin Inherited
    /\ Files # {}
    /\ Nested \subseteq Dirs
    /\ Sessions \cap NewIds = {}
    /\ MaxEdits \in Nat

Absent == <<"absent", 0>>
Contents == (Dirs \union {"agent"}) \X (0..MaxEdits)
Trees == [Files -> Contents \union {Absent}]
NoTree == [f \in Files |-> Absent]
NoDir == <<>>
Roots == [Leaves -> Trees \union {NoDir}]
Empty == [l \in Leaves |-> NoDir]
NoRoot == <<>>

VARIABLES
    host,     \* per directory, its files
    root,     \* per session id, its rootfs
    prep,     \* per session, where prepare_session_sandbox is
    next,     \* per session, position in the allowlist
    left,     \* per session, files the per-file walk has still to clone
    snap,     \* per snapshot name, its directory
    tool,     \* per process, the command it runs
    taken,    \* history: per snapshot, the session's rootfs when it was cloned
    restored, \* history: per new id, the snapshot it was restored from
    edits     \* edits so far

prepVars == <<prep, next, left>>
snapVars == <<snap, taken, restored>>
vars == <<host, root, prepVars, snapVars, tool, edits>>

Idle == [op |-> "idle"]
NoSnap == [state |-> "none", rootfs |-> NoRoot, meta |-> "none"]

Init ==
    /\ host = [d \in Dirs |-> [f \in Files |-> <<d, 0>>]]
    /\ root = [s \in Ids |-> NoRoot]
    /\ prep = [s \in Sessions |-> "none"] /\ next = [s \in Sessions |-> 0]
    /\ left = [s \in Sessions |-> {}]
    /\ snap = [n \in Snaps |-> NoSnap]
    /\ tool = [p \in Tools |-> Idle]
    /\ taken = [n \in Snaps |-> NoRoot]
    /\ restored = [s \in NewIds |-> "none"]
    /\ edits = 0

(***************************************************************************)
(* The user and the agent work on.                                          *)
(***************************************************************************)
UserEdits(d, f) ==
    /\ edits < MaxEdits /\ edits' = edits + 1
    /\ \E c \in {Absent, <<d, edits + 1>>} : host' = [host EXCEPT ![d][f] = c]
    /\ UNCHANGED <<root, prepVars, snapVars, tool>>

AgentEdits(s, l, f) ==
    /\ prep[s] = "ready" /\ root[s][l] # NoDir
    /\ edits < MaxEdits /\ edits' = edits + 1
    /\ \E c \in {Absent, <<"agent", edits + 1>>} : root' = [root EXCEPT ![s][l][f] = c]
    /\ UNCHANGED <<host, prepVars, snapVars, tool>>

(***************************************************************************)
(* prepare_session_sandbox: the profile, then the allowlist, one by one.      *)
(***************************************************************************)
Prepare(s) ==
    /\ prep[s] = "none"
    /\ prep' = [prep EXCEPT ![s] = "profile"]
    /\ root' = [root EXCEPT ![s] = Empty]
    /\ UNCHANGED <<host, next, left, snapVars, tool, edits>>

\* After the last directory the profile text is written, which may still fail.
NextDir(s) ==
    /\ next' = [next EXCEPT ![s] = @ + 1]
    /\ \E end \in {"ready", "failed"} :
         prep' = [prep EXCEPT ![s] = IF next[s] = Len(Inherit) THEN end ELSE "clone"]

\* What cp or ditto has written when it stops: any part of the source.
PartOf(t) == {[f \in Files |-> IF f \in part THEN t[f] ELSE Absent] : part \in SUBSET Files}

\* clonefile(2) of the whole tree, else cp or ditto; when they fail too, the
\* error of the first attempt stands and what they wrote stays on disk.
ProfileClones ==
    [result : {"cloned"}, dir : {host[Profile]}]
    \union [result : {"unsupported", "error"}, dir : PartOf(host[Profile]) \union {NoDir}]

ProfileClone(s, result) ==
    /\ prep[s] = "profile"
    /\ \E c \in ProfileClones :
         c.result = result /\ root' = [root EXCEPT ![s][Leaf[Profile]] = c.dir]

CloneProfile(s) ==
    /\ ProfileClone(s, "cloned")
    /\ NextDir(s)
    /\ UNCHANGED <<host, left, snapVars, tool, edits>>

\* Not on this volume: the host's cookies are staged for the browser instead.
SeedProfile(s) ==
    /\ ProfileClone(s, "unsupported")
    /\ NextDir(s)
    /\ UNCHANGED <<host, left, snapVars, tool, edits>>

\* Any other error fails the registration.
PrepareFails(s) ==
    /\ ProfileClone(s, "error")
    /\ prep' = [prep EXCEPT ![s] = "failed"]
    /\ UNCHANGED <<host, next, left, snapVars, tool, edits>>

Current(s) == Inherit[next[s]]
Dest(s) == Leaf[Current(s)]

\* The destination is there already: skipped.
MutSkipDir(s) ==  \* what is there is replaced
    /\ prep[s] = "clone" /\ root[s][Dest(s)] # NoDir
    /\ root' = [root EXCEPT ![s][Dest(s)] = host[Current(s)]]
    /\ NextDir(s)
    /\ UNCHANGED <<host, left, snapVars, tool, edits>>

SkipDir(s) ==
    /\ prep[s] = "clone" /\ root[s][Dest(s)] # NoDir
    /\ NextDir(s)
    /\ UNCHANGED <<host, root, left, snapVars, tool, edits>>

CloneDir(s) ==
    /\ prep[s] = "clone" /\ root[s][Dest(s)] = NoDir
    /\ root' = [root EXCEPT ![s][Dest(s)] = host[Current(s)]]
    /\ NextDir(s)
    /\ UNCHANGED <<host, left, snapVars, tool, edits>>

\* The directory-level clone fails: the walk makes the directory first.
WalkBegins(s) ==
    /\ prep[s] = "clone" /\ root[s][Dest(s)] = NoDir
    /\ root' = [root EXCEPT ![s][Dest(s)] = NoTree]
    /\ left' = [left EXCEPT ![s] = {f \in Files : host[Current(s)][f] # Absent}]
    /\ prep' = [prep EXCEPT ![s] = "walk"]
    /\ UNCHANGED <<host, next, snapVars, tool, edits>>

\* clonefile(2) of one file, retried on EDEADLK: cloned as it is now, or not.
CloneFile(old, file) == {old, file}

WalkFile(s) ==
    /\ prep[s] = "walk"
    /\ \E f \in left[s] :
         /\ left' = [left EXCEPT ![s] = @ \ {f}]
         /\ \E c \in CloneFile(Absent, host[Current(s)][f]) :
              root' = [root EXCEPT ![s][Dest(s)][f] = c]
    /\ UNCHANGED <<host, prep, next, snapVars, tool, edits>>

\* Done, out of time, or failed: the directory exists, so cp -cR is refused.
WalkEnds(s) ==
    /\ prep[s] = "walk"
    /\ left' = [left EXCEPT ![s] = {}]
    /\ NextDir(s)
    /\ UNCHANGED <<host, root, snapVars, tool, edits>>

PrepareStep(s) ==
    \/ CloneProfile(s) \/ SeedProfile(s) \/ PrepareFails(s)
    \/ SkipDir(s) \/ CloneDir(s) \/ WalkBegins(s) \/ WalkFile(s) \/ WalkEnds(s)

(***************************************************************************)
(* ofa-snapshot take: the name is checked, the directory made, the rootfs      *)
(* cloned (which fails when there is one), the metadata written last.        *)
(***************************************************************************)
Enter(p, r) == tool' = [tool EXCEPT ![p] = r]
Exit(p) == tool' = [tool EXCEPT ![p] = Idle]

Take(p, s, n) ==
    /\ tool[p] = Idle /\ root[s] # NoRoot /\ snap[n].state = "none"
    /\ Enter(p, [op |-> "make", session |-> s, name |-> n])
    /\ UNCHANGED <<host, root, prepVars, snapVars, edits>>

TakeMakes(p) ==
    /\ tool[p].op = "make"
    /\ snap' = [snap EXCEPT ![tool[p].name].state = "dir"]
    /\ Enter(p, [tool[p] EXCEPT !.op = "clone"])
    /\ UNCHANGED <<host, root, prepVars, taken, restored, edits>>

MutTakeClones(p) ==  \* an archive that is there is written over
    LET n == tool[p].name IN
    /\ tool[p].op = "clone"
    /\ snap' = [snap EXCEPT ![n].rootfs = root[tool[p].session]]
    /\ taken' = [taken EXCEPT ![n] = root[tool[p].session]]
    /\ Enter(p, [tool[p] EXCEPT !.op = "meta"])
    /\ UNCHANGED <<host, root, prepVars, restored, edits>>

TakeClones(p) ==
    LET n == tool[p].name IN
    /\ tool[p].op = "clone"
    /\ IF snap[n].rootfs = NoRoot
       THEN /\ snap' = [snap EXCEPT ![n].rootfs = root[tool[p].session]]
            /\ taken' = [taken EXCEPT ![n] = root[tool[p].session]]
            /\ Enter(p, [tool[p] EXCEPT !.op = "meta"])
       ELSE Exit(p) /\ UNCHANGED <<snap, taken>>
    /\ UNCHANGED <<host, root, prepVars, restored, edits>>

TakeWritesMeta(p) ==
    /\ tool[p].op = "meta"
    /\ snap' = [snap EXCEPT ![tool[p].name].meta = tool[p].session,
                            ![tool[p].name].state = "done"]
    /\ Exit(p)
    /\ UNCHANGED <<host, root, prepVars, taken, restored, edits>>

(***************************************************************************)
(* ofa-snapshot restore: needs the rootfs of the archive, not its metadata,    *)
(* and a session id that has none.                                          *)
(***************************************************************************)
CanRestore(n, s) == snap[n].rootfs # NoRoot /\ root[s] = NoRoot

MutRestore(n, s) ==  \* takes the inherited directories from the host again
    /\ CanRestore(n, s)
    /\ root' = [root EXCEPT ![s] = [l \in Leaves |->
                   IF \E d \in Inherited : Leaf[d] = l
                   THEN host[CHOOSE d \in Inherited : Leaf[d] = l] ELSE snap[n].rootfs[l]]]
    /\ restored' = [restored EXCEPT ![s] = n]
    /\ UNCHANGED <<host, prepVars, snap, taken, tool, edits>>

Restore(n, s) ==
    /\ CanRestore(n, s)
    /\ root' = [root EXCEPT ![s] = snap[n].rootfs]
    /\ restored' = [restored EXCEPT ![s] = n]
    /\ UNCHANGED <<host, prepVars, snap, taken, tool, edits>>

(***************************************************************************)
(* ofa-merge: one rsync per path.  A path is looked up under the rootfs by its *)
(* place below the home, so only a direct child is found where it was cloned. *)
(***************************************************************************)
AgentTree(s, d) == IF d \in Nested THEN NoDir ELSE root[s][Leaf[d]]

\* What rsync is told: a strategy that prompts, and a dry run, only report.
Flags(strategy, apply) ==
    IF ~apply \/ strategy = "prompt" THEN {"dry-run"}
    ELSE IF strategy \in {"ours", "three-way"} THEN {"ignore-existing"} ELSE {}

MutTransfers(d, f, agent, flags) ==  \* the host's file does not win
    "dry-run" \notin flags /\ agent[f] # Absent

Transfers(d, f, agent, flags) ==
    /\ "dry-run" \notin flags /\ agent[f] # Absent
    /\ "ignore-existing" \in flags => host[d][f] = Absent

Merge(p, s) ==
    /\ tool[p] = Idle /\ root[s] # NoRoot
    /\ \E strategy \in Strategies, apply \in BOOLEAN :
         Enter(p, [op |-> "merge", session |-> s, at |-> 1, flags |-> Flags(strategy, apply)])
    /\ UNCHANGED <<host, root, prepVars, snapVars, edits>>

\* rsync copies what it transfers; when it fails, part of it, and ofa-merge stops.
MergePath(p) ==
    /\ tool[p].op = "merge" /\ tool[p].at <= Len(Inherit)
    /\ LET d == Inherit[tool[p].at]
            agent == AgentTree(tool[p].session, d)
            chosen == {f \in Files : agent # NoDir /\ Transfers(d, f, agent, tool[p].flags)}
        IN \E sent \in SUBSET chosen :
             /\ host' = [host EXCEPT ![d] = [f \in Files |-> IF f \in sent THEN agent[f] ELSE @[f]]]
             /\ \/ sent = chosen /\ Enter(p, [tool[p] EXCEPT !.at = @ + 1])
                \/ agent # NoDir /\ Exit(p)
    /\ UNCHANGED <<root, prepVars, snapVars, edits>>

MergeEnds(p) ==
    /\ tool[p].op = "merge" /\ tool[p].at > Len(Inherit)
    /\ Exit(p)
    /\ UNCHANGED <<host, root, prepVars, snapVars, edits>>

\* Control-C, at any point.
ToolDies(p) ==
    /\ tool[p] # Idle
    /\ Exit(p)
    /\ UNCHANGED <<host, root, prepVars, snapVars, edits>>

ToolStep(p) ==
    TakeMakes(p) \/ TakeClones(p) \/ TakeWritesMeta(p) \/ MergePath(p) \/ MergeEnds(p)

Next ==
    \/ \E d \in Dirs, f \in Files : UserEdits(d, f)
    \/ \E s \in Sessions, l \in Leaves, f \in Files : AgentEdits(s, l, f)
    \/ \E s \in Sessions : Prepare(s) \/ PrepareStep(s)
    \/ \E p \in Tools, s \in Ids : Merge(p, s) \/ \E n \in Snaps : Take(p, s, n)
    \/ \E n \in Snaps, s \in NewIds : Restore(n, s)
    \/ \E p \in Tools : ToolStep(p) \/ ToolDies(p)

Spec == Init /\ [][Next]_vars

-----------------------------------------------------------------------------
Commands ==
    {Idle} \union [op : {"make", "clone", "meta"}, session : Ids, name : Snaps]
    \union [op : {"merge"}, session : Ids, at : 1..Len(Inherit) + 1,
            flags : {{"dry-run"}, {"ignore-existing"}, {}}]
TypeOK ==
    /\ host \in [Dirs -> Trees]
    /\ root \in [Ids -> Roots \union {NoRoot}]
    /\ prep \in [Sessions -> {"none", "profile", "clone", "walk", "ready", "failed"}]
    /\ next \in [Sessions -> 0..Len(Inherit) + 1]
    /\ \A s \in Sessions : prep[s] \in {"clone", "walk"} => next[s] \in 1..Len(Inherit)
    /\ left \in [Sessions -> SUBSET Files]
    /\ snap \in [Snaps -> [state : {"none", "dir", "done"}, rootfs : Roots \union {NoRoot},
                           meta : Ids \union {"none"}]]
    /\ taken \in [Snaps -> Roots \union {NoRoot}]
    /\ restored \in [NewIds -> Snaps \union {"none"}]
    /\ tool \in [Tools -> Commands]
    /\ edits \in 0..MaxEdits

(***************************************************************************)
(* A file the user has is replaced or removed by the user alone, or by an     *)
(* applied merge with strategy "theirs": every other merge, snapshot,         *)
(* restore or clone at most adds files to the host.                         *)
(***************************************************************************)
HostIsKept ==
    [][\A d \in Dirs, f \in Files :
         host[d][f] # Absent /\ host'[d][f] # host[d][f] =>
            \/ edits' # edits
            \/ \E p \in Tools : tool[p].op = "merge" /\ tool[p].flags = {}]_vars

(***************************************************************************)
(* What the host gets from a merge comes from the agent or from the same      *)
(* directory: the clone and the merge agree on where a directory lives,      *)
(* also when a directory deeper in the home has the same last component and   *)
(* comes later in the allowlist.                                            *)
(***************************************************************************)
MergeKeepsPlaces ==
    \A d \in Dirs, f \in Files : host[d][f] # Absent => host[d][f][1] \in {d, "agent"}

(***************************************************************************)
(* An archive never changes once it is cloned, although two commands may      *)
(* pass the check of the same name together.                                *)
(***************************************************************************)
SnapshotsAreKept ==
    [][\A n \in Snaps : snap[n].rootfs # NoRoot => snap'[n].rootfs = snap[n].rootfs]_vars

(***************************************************************************)
(* A restored session starts from the files the source session had at the     *)
(* moment the snapshot was cloned, whatever the agent and the user did after. *)
(***************************************************************************)
RestoreIsExact ==
    \A s \in NewIds : restored[s] # "none" => root[s] = taken[restored[s]]
=============================================================================
