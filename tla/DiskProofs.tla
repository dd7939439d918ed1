----------------------------- MODULE DiskProofs -----------------------------
(***************************************************************************)
(* What a session keeps in files.  The sandbox: merges keep to the agent's *)
(* files and to the places they came from, snapshots are not written over  *)
(* and restores are exact, for any allowlist, any number of sessions,      *)
(* snapshots and commands at once, and any edits.  The trace: the manifest *)
(* is true of the files it lists and the files hold exactly the events     *)
(* written, in order, for any number of writers one after the other.       *)
(***************************************************************************)
EXTENDS Sandbox, TraceLog, SequenceTheorems, NaturalsInduction, WellFoundedInduction, TLAPS

----------------------------------------------------------------------------
(* The sandbox: inductive invariant                                         *)

\* A session that has begun to prepare has a rootfs.
PreparedHaveRoots ==
    \A s \in Sessions : /\ prep[s] # "none" => root[s] # NoRoot
                        /\ prep[s] \in {"none", "profile"} => next[s] = 0

\* The walk has made the directory it fills.
WalksIntoDirs == \A s \in Sessions : prep[s] = "walk" => root[s][Leaf[Inherit[next[s]]]] # NoDir

\* ofa-merge checked that the session has a rootfs, and none is ever taken away.
MergesHaveRoots == \A p \in Tools : tool[p].op = "merge" => root[tool[p].session] # NoRoot

\* An archive is the rootfs it was cloned from, and what was restored from it.
ArchivesAreTaken == \A n \in Snaps : snap[n].rootfs = taken[n]
RestoredStand ==
    \A s \in NewIds : restored[s] # "none" =>
        taken[restored[s]] # NoRoot /\ root[s] = taken[restored[s]]

SandboxInv ==
    /\ TypeOK
    /\ PreparedHaveRoots
    /\ WalksIntoDirs
    /\ MergesHaveRoots
    /\ ArchivesAreTaken
    /\ RestoredStand

\* What the allowlist must be for clone and merge to agree: a directory deeper in
\* the home with the last component of a direct child of it comes later than that
\* child, and no direct child has the name of the profile's directory.
DirectChildrenFirst ==
    \A d \in Inherited \ Nested :
        /\ Leaf[d] # Leaf[Profile]
        /\ \A i \in 1..Len(Inherit) :
              Leaf[Inherit[i]] = Leaf[d] => Inherit[i] = d \/ \E k \in 1..(i - 1) : Inherit[k] = d

\* Every file of a tree is d's own or the agent's.
KeptIn(t, d) == \A f \in Files : t[f] # Absent => t[f][1] \in {d, "agent"}
RootKept(r) == \A d \in Inherited \ Nested : r[Leaf[d]] # NoDir => KeptIn(r[Leaf[d]], d)

\* The directories before the current one have been made.
VisitedAreMade ==
    \A s \in Sessions : \A i \in 1..Len(Inherit) :
        i < next[s] => root[s][Leaf[Inherit[i]]] # NoDir
\* A directory is walked into only where there was none.
WalksAreFirst ==
    \A s \in Sessions : prep[s] = "walk" =>
        \A i \in 1..(next[s] - 1) : Leaf[Inherit[i]] # Leaf[Inherit[next[s]]]

PlacesInv ==
    /\ \A d \in Dirs : KeptIn(host[d], d)
    /\ \A s \in Ids : root[s] # NoRoot => RootKept(root[s])
    /\ \A n \in Snaps : taken[n] # NoRoot => RootKept(taken[n])
    /\ VisitedAreMade
    /\ WalksAreFirst

----------------------------------------------------------------------------
(* Trees and roots                                                          *)

(* A directory that is not there, and a rootfs that is not there, is no tree. *)
LEMMA NothingIsNoTree ==
    /\ NoDir \notin Trees /\ NoRoot \notin Roots
    /\ Empty \in Roots /\ NoTree \in Trees
    /\ \A d \in Dirs : Leaf[d] \in Leaves
    /\ \A i \in 1..Len(Inherit) : Inherit[i] \in Inherited /\ Inherit[i] \in Dirs
    /\ Len(Inherit) \in Nat
  <1>1. \A d \in Dirs : Leaf[d] \in Leaves
    BY DEF Leaves
  <1>2. Leaf[Profile] \in Leaves
    BY <1>1 DEF Dirs
  <1>3. NoDir \notin Trees
    BY SandboxAssumption DEF NoDir, Trees
  <1>4. NoRoot \notin Roots
    BY <1>2 DEF NoRoot, Roots
  <1>5. Empty \in Roots /\ NoTree \in Trees
    BY DEF Empty, Roots, NoTree, Trees
  <1>6. \A i \in 1..Len(Inherit) : Inherit[i] \in Inherited /\ Inherit[i] \in Dirs
    BY DEF Inherited, Dirs
  <1>7. Len(Inherit) \in Nat
    BY SandboxAssumption, LenProperties
  <1> QED
    BY <1>1, <1>3, <1>4, <1>5, <1>6, <1>7

\* Session s writes tree t as directory l of its rootfs, or c as a file of it.
Writes(s, l, t) == root' = [root EXCEPT ![s][l] = t]
WritesFile(s, l, f, c) == root' = [root EXCEPT ![s][l][f] = c]

(* A step that writes one directory of one session.                         *)
LEMMA DirChanges ==
    ASSUME TypeOK, NEW s \in Ids, root[s] # NoRoot, NEW l \in Leaves,
           NEW t \in Trees \union {NoDir}, Writes(s, l, t)
    PROVE  /\ root' \in [Ids -> Roots \union {NoRoot}] /\ root'[s] \in Roots
           /\ root'[s][l] = t /\ root'[s] # NoRoot
           /\ \A k \in Leaves \ {l} : root'[s][k] = root[s][k]
           /\ \A x \in Ids \ {s} : root'[x] = root[x]
  <1>1. root[s] \in Roots /\ root \in [Ids -> Roots \union {NoRoot}]
    BY DEF TypeOK
  <1>2. [root[s] EXCEPT ![l] = t] \in Roots
    BY <1>1 DEF Roots
  <1>3. root' = [root EXCEPT ![s] = [root[s] EXCEPT ![l] = t]]
    BY <1>1 DEF Writes
  <1>4. root'[s] = [root[s] EXCEPT ![l] = t]
    BY <1>1, <1>3
  <1>5. root'[s][l] = t /\ \A k \in Leaves \ {l} : root'[s][k] = root[s][k]
    BY <1>1, <1>4 DEF Roots
  <1> QED
    BY <1>1, <1>2, <1>3, <1>4, <1>5, NothingIsNoTree

(* A step that writes one file of one directory of one session.             *)
LEMMA FileChanges ==
    ASSUME TypeOK, NEW s \in Ids, root[s] # NoRoot, NEW l \in Leaves, root[s][l] # NoDir,
           NEW f \in Files, NEW c \in Contents \union {Absent}, WritesFile(s, l, f, c)
    PROVE  \E t \in Trees : /\ Writes(s, l, t)
                            /\ t[f] = c /\ \A g \in Files \ {f} : t[g] = root[s][l][g]
  <1>1. root[s] \in Roots /\ root \in [Ids -> Roots \union {NoRoot}]
    BY DEF TypeOK
  <1>2. root[s][l] \in Trees
    BY <1>1 DEF Roots
  <1> DEFINE t == [root[s][l] EXCEPT ![f] = c]
  <1>3. t \in Trees /\ t[f] = c /\ \A g \in Files \ {f} : t[g] = root[s][l][g]
    BY <1>2 DEF Trees
  <1>4. Writes(s, l, t)
    BY <1>1, <1>2 DEF Writes, WritesFile
  <1> QED
    BY <1>3, <1>4

(* The position in the allowlist goes on, and the session ends after the last. *)
LEMMA NextDirTypes ==
    ASSUME TypeOK, NEW s \in Sessions, NextDir(s), next[s] \in 0..Len(Inherit)
    PROVE  /\ next' \in [Sessions -> 0..Len(Inherit) + 1]
           /\ prep' \in [Sessions -> {"none", "profile", "clone", "walk", "ready", "failed"}]
           /\ \A x \in Sessions : prep'[x] \in {"clone", "walk"} => next'[x] \in 1..Len(Inherit)
           /\ next'[s] = next[s] + 1 /\ prep'[s] \in {"clone", "ready", "failed"}
           /\ \A x \in Sessions \ {s} : next'[x] = next[x] /\ prep'[x] = prep[x]
  <1>1. /\ next' = [next EXCEPT ![s] = @ + 1] /\ next \in [Sessions -> 0..Len(Inherit) + 1]
        /\ prep \in [Sessions -> {"none", "profile", "clone", "walk", "ready", "failed"}]
        /\ \A x \in Sessions : prep[x] \in {"clone", "walk"} => next[x] \in 1..Len(Inherit)
    BY DEF NextDir, TypeOK
  <1>2. PICK e \in {"clone", "ready", "failed"} :
             prep' = [prep EXCEPT ![s] = e] /\ (e = "clone" => next[s] # Len(Inherit))
    BY DEF NextDir
  <1>3. Len(Inherit) \in Nat
    BY NothingIsNoTree
  <1>4. next'[s] = next[s] + 1 /\ prep'[s] = e
        /\ \A x \in Sessions \ {s} : next'[x] = next[x] /\ prep'[x] = prep[x]
    BY <1>1, <1>2
  <1>5. next'[s] \in 0..Len(Inherit) + 1 /\ (e = "clone" => next'[s] \in 1..Len(Inherit))
    BY <1>2, <1>3, <1>4
  <1>6. next' \in [Sessions -> 0..Len(Inherit) + 1]
    BY <1>1, <1>4, <1>5
  <1>7. prep' \in [Sessions -> {"none", "profile", "clone", "walk", "ready", "failed"}]
    BY <1>1, <1>2
  <1> QED
    BY <1>1, <1>2, <1>4, <1>5, <1>6, <1>7

----------------------------------------------------------------------------
(* The sandbox: steps                                                       *)

\* Session s alone moves in its preparation.
PrepMoves(s) ==
    /\ prep' \in [Sessions -> {"none", "profile", "clone", "walk", "ready", "failed"}]
    /\ next' \in [Sessions -> 0..Len(Inherit) + 1]
    /\ \A x \in Sessions : prep'[x] \in {"clone", "walk"} => next'[x] \in 1..Len(Inherit)
    /\ left' \in [Sessions -> SUBSET Files]
    /\ \A x \in Sessions \ {s} : next'[x] = next[x] /\ prep'[x] = prep[x]
    /\ prep[s] # "none" /\ prep'[s] \notin {"none", "profile"}
    /\ edits' \in 0..MaxEdits /\ UNCHANGED <<host, snap, taken, restored, tool>>

\* The tree that a step of session s writes, and how the session goes on.
ProfileWritten(s, t) ==
    /\ prep[s] = "profile"
    /\ next'[s] \in {next[s], next[s] + 1} /\ prep'[s] \in {"clone", "ready", "failed"}
DirWritten(s, t) ==
    /\ prep[s] = "clone" /\ root[s][Dest(s)] = NoDir /\ t \in Trees
    /\ KeptIn(host[Current(s)], Current(s)) => KeptIn(t, Current(s))
    /\ \/ next'[s] = next[s] + 1 /\ prep'[s] \in {"clone", "ready", "failed"}
       \/ next'[s] = next[s] /\ prep'[s] = "walk"
FileWritten(s, t) ==
    /\ prep[s] = "walk" /\ next'[s] = next[s] /\ prep'[s] = "walk" /\ t \in Trees
    /\ KeptIn(host[Current(s)], Current(s)) /\ KeptIn(root[s][Dest(s)], Current(s)) =>
           KeptIn(t, Current(s))
AgentWrote(s, l, t) ==
    /\ prep[s] = "ready" /\ prep'[s] = "ready" /\ next'[s] = next[s] /\ t \in Trees
    /\ root[s][l] # NoDir /\ \A d \in Dirs : KeptIn(root[s][l], d) => KeptIn(t, d)

(* What a step of a session does to its rootfs.                             *)
LEMMA SessionEffect ==
    ASSUME SandboxInv, NEW s \in Sessions,
           PrepareStep(s) \/ \E l \in Leaves, f \in Files : AgentEdits(s, l, f)
    PROVE  /\ PrepMoves(s)
           /\ \/ root' = root /\ next'[s] = next[s] + 1 /\ prep'[s] \in {"clone", "ready", "failed"}
                 /\ prep[s] \in {"clone", "walk"} /\ root[s][Dest(s)] # NoDir
              \/ \E t \in Trees \union {NoDir} : Writes(s, Leaf[Profile], t) /\ ProfileWritten(s, t)
              \/ \E t \in Trees : Writes(s, Dest(s), t) /\ (DirWritten(s, t) \/ FileWritten(s, t))
              \/ \E l \in Leaves, t \in Trees : Writes(s, l, t) /\ AgentWrote(s, l, t)
  <1>1. /\ TypeOK /\ PreparedHaveRoots /\ Len(Inherit) \in Nat /\ s \in Ids
        /\ prep \in [Sessions -> {"none", "profile", "clone", "walk", "ready", "failed"}]
        /\ left \in [Sessions -> SUBSET Files] /\ edits \in 0..MaxEdits /\ MaxEdits \in Nat
        /\ next \in [Sessions -> 0..Len(Inherit) + 1] /\ host \in [Dirs -> Trees]
        /\ \A x \in Sessions : prep[x] \in {"clone", "walk"} => next[x] \in 1..Len(Inherit)
    BY SandboxAssumption, NothingIsNoTree DEF SandboxInv, TypeOK, Ids
  <1>2. prep[s] = "profile" => next[s] = 0 /\ next[s] \in 0..Len(Inherit)
    BY <1>1 DEF PreparedHaveRoots
  <1>3. prep[s] \in {"clone", "walk"} =>
            /\ next[s] \in 0..Len(Inherit) /\ Current(s) \in Dirs /\ Dest(s) \in Leaves
            /\ host[Current(s)] \in Trees
    BY <1>1, NothingIsNoTree DEF Current, Dest
  <1>4. ASSUME NEW result \in {"cloned", "unsupported"}, ProfileClone(s, result), NextDir(s),
               UNCHANGED <<host, left, snapVars, tool, edits>>
        PROVE  PrepMoves(s) /\ \E t \in Trees \union {NoDir} :
                   Writes(s, Leaf[Profile], t) /\ ProfileWritten(s, t)
    <2>1. PICK c \in ProfileClones : prep[s] = "profile" /\ Writes(s, Leaf[Profile], c.dir)
      BY <1>4 DEF ProfileClone, Writes
    <2>2. c.dir \in Trees \union {NoDir}
      BY <1>1 DEF ProfileClones, PartOf, Trees, Dirs
    <2>3. ProfileWritten(s, c.dir)
      BY <1>1, <1>2, <1>4, <2>1, <2>2, NextDirTypes DEF ProfileWritten
    <2>4. PrepMoves(s)
      BY <1>1, <1>2, <1>4, <2>1, NextDirTypes DEF PrepMoves, snapVars
    <2> QED
      BY <2>1, <2>2, <2>3, <2>4
  <1>5. CASE CloneProfile(s) \/ SeedProfile(s)
    BY <1>4, <1>5 DEF CloneProfile, SeedProfile
  <1>6. CASE PrepareFails(s)
    <2>1. PICK c \in ProfileClones : prep[s] = "profile" /\ Writes(s, Leaf[Profile], c.dir)
      BY <1>6 DEF PrepareFails, ProfileClone, Writes
    <2>2. c.dir \in Trees \union {NoDir}
      BY <1>1 DEF ProfileClones, PartOf, Trees, Dirs
    <2>3. prep' = [prep EXCEPT ![s] = "failed"] /\ UNCHANGED <<host, next, left, snap, taken, restored, tool, edits>>
      BY <1>6 DEF PrepareFails, snapVars
    <2>4. ProfileWritten(s, c.dir)
      BY <1>1, <2>1, <2>2, <2>3 DEF ProfileWritten
    <2>5. PrepMoves(s)
      BY <1>1, <2>1, <2>3 DEF PrepMoves
    <2> QED
      BY <2>1, <2>2, <2>4, <2>5
  <1>7. CASE SkipDir(s)
    <2>1. /\ prep[s] = "clone" /\ root[s][Dest(s)] # NoDir /\ NextDir(s) /\ root' = root
          /\ UNCHANGED <<host, left, snap, taken, restored, tool, edits>>
      BY <1>7 DEF SkipDir, snapVars
    <2>2. PrepMoves(s) /\ next'[s] = next[s] + 1 /\ prep'[s] \in {"clone", "ready", "failed"}
      BY <1>1, <1>3, <2>1, NextDirTypes DEF PrepMoves
    <2> QED
      BY <2>1, <2>2
  <1>8. CASE CloneDir(s)
    <2>1. /\ prep[s] = "clone" /\ root[s][Dest(s)] = NoDir /\ NextDir(s)
          /\ Writes(s, Dest(s), host[Current(s)])
          /\ UNCHANGED <<host, left, snap, taken, restored, tool, edits>>
      BY <1>8 DEF CloneDir, snapVars, Writes
    <2>2. PrepMoves(s) /\ next'[s] = next[s] + 1 /\ prep'[s] \in {"clone", "ready", "failed"}
      BY <1>1, <1>3, <2>1, NextDirTypes DEF PrepMoves
    <2>3. DirWritten(s, host[Current(s)])
      BY <1>3, <2>1, <2>2 DEF DirWritten
    <2> QED
      BY <1>3, <2>1, <2>2, <2>3
  <1>9. CASE WalkBegins(s)
    <2>1. /\ prep[s] = "clone" /\ root[s][Dest(s)] = NoDir /\ Writes(s, Dest(s), NoTree)
          /\ left' = [left EXCEPT ![s] = {f \in Files : host[Current(s)][f] # Absent}]
          /\ prep' = [prep EXCEPT ![s] = "walk"]
          /\ UNCHANGED <<host, next, snap, taken, restored, tool, edits>>
      BY <1>9 DEF WalkBegins, snapVars, Writes
    <2>2. PrepMoves(s) /\ next'[s] = next[s] /\ prep'[s] = "walk"
      BY <1>1, <2>1 DEF PrepMoves
    <2>3. KeptIn(NoTree, Current(s)) /\ NoTree \in Trees
      BY NothingIsNoTree DEF KeptIn, NoTree
    <2>4. DirWritten(s, NoTree)
      BY <2>1, <2>2, <2>3 DEF DirWritten
    <2> QED
      BY <2>1, <2>2, <2>3, <2>4
  <1>10. CASE WalkFile(s) /\ root[s][Dest(s)] # NoDir
    <2>1. PICK f, c :
              /\ f \in left[s] /\ c \in {Absent, host[Current(s)][f]} /\ prep[s] = "walk" /\ WritesFile(s, Dest(s), f, c)
              /\ left' = [left EXCEPT ![s] = @ \ {f}]
              /\ UNCHANGED <<host, prep, next, snap, taken, restored, tool, edits>>
      BY <1>10 DEF WalkFile, CloneFile, WritesFile, snapVars
    <2>2. f \in Files /\ c \in Contents \union {Absent} /\ root[s] # NoRoot
      BY <1>1, <1>3, <2>1 DEF Trees, PreparedHaveRoots
    <2>3. PICK t \in Trees : /\ Writes(s, Dest(s), t) /\ t[f] = c
                             /\ \A g \in Files \ {f} : t[g] = root[s][Dest(s)][g]
      BY <1>1, <1>3, <1>10, <2>1, <2>2, FileChanges
    <2>4. PrepMoves(s)
      BY <1>1, <2>1 DEF PrepMoves
    <2>5. FileWritten(s, t)
      BY <2>1, <2>2, <2>3 DEF FileWritten, KeptIn
    <2> QED
      BY <2>3, <2>4, <2>5
  <1>11. CASE WalkEnds(s) /\ root[s][Dest(s)] # NoDir
    <2>1. /\ prep[s] = "walk" /\ NextDir(s) /\ root' = root /\ left' = [left EXCEPT ![s] = {}]
          /\ UNCHANGED <<host, snap, taken, restored, tool, edits>>
      BY <1>11 DEF WalkEnds, snapVars
    <2>2. PrepMoves(s) /\ next'[s] = next[s] + 1 /\ prep'[s] \in {"clone", "ready", "failed"}
      BY <1>1, <1>3, <2>1, NextDirTypes DEF PrepMoves
    <2> QED
      BY <1>11, <2>1, <2>2
  <1>12. ASSUME NEW l \in Leaves, NEW f \in Files, AgentEdits(s, l, f)
         PROVE  PrepMoves(s) /\ \E t \in Trees : Writes(s, l, t) /\ AgentWrote(s, l, t)
    <2>1. PICK c \in {Absent, <<"agent", edits + 1>>} :
              /\ prep[s] = "ready" /\ root[s][l] # NoDir /\ edits < MaxEdits /\ edits' = edits + 1
              /\ WritesFile(s, l, f, c)
              /\ UNCHANGED <<host, prep, next, left, snap, taken, restored, tool>>
      BY <1>12 DEF AgentEdits, WritesFile, prepVars, snapVars
    <2>2. c \in Contents \union {Absent} /\ root[s] # NoRoot /\ edits' \in 0..MaxEdits
      BY <1>1, <2>1 DEF Contents, PreparedHaveRoots
    <2>3. PICK t \in Trees : /\ Writes(s, l, t) /\ t[f] = c
                             /\ \A g \in Files \ {f} : t[g] = root[s][l][g]
      BY <1>1, <2>1, <2>2, FileChanges
    <2>4. PrepMoves(s)
      BY <1>1, <2>1, <2>2 DEF PrepMoves
    <2>5. c # Absent => c[1] = "agent"
      BY <2>1
    <2>6. AgentWrote(s, l, t)
      BY <2>1, <2>3, <2>5 DEF AgentWrote, KeptIn
    <2> QED
      BY <2>3, <2>4, <2>6
  <1>13. prep[s] = "walk" => root[s][Dest(s)] # NoDir
    BY DEF SandboxInv, WalksIntoDirs, Dest, Current
  <1> QED
    BY <1>5, <1>6, <1>7, <1>8, <1>9, <1>10, <1>11, <1>12, <1>13 DEF PrepareStep, WalkFile, WalkEnds

(* A session's step leaves the other roots alone.                           *)
LEMMA SessionRoots ==
    ASSUME SandboxInv, NEW s \in Sessions, PrepMoves(s),
           root' = root \/ \E l \in Leaves, t \in Trees \union {NoDir} : Writes(s, l, t)
    PROVE  /\ root' \in [Ids -> Roots \union {NoRoot}] /\ root'[s] # NoRoot
           /\ \A x \in Ids \ {s} : root'[x] = root[x]
  <1>1. TypeOK /\ s \in Ids /\ root[s] # NoRoot
    BY DEF SandboxInv, PreparedHaveRoots, PrepMoves, Ids
  <1>2. CASE root' = root
    BY <1>1, <1>2 DEF TypeOK
  <1>3. ASSUME NEW l \in Leaves, NEW t \in Trees \union {NoDir}, Writes(s, l, t)
        PROVE  /\ root' \in [Ids -> Roots \union {NoRoot}] /\ root'[s] # NoRoot
               /\ \A x \in Ids \ {s} : root'[x] = root[x]
    BY <1>1, <1>3, DirChanges
  <1> QED
    BY <1>2, <1>3

(* Every step of a session keeps SandboxInv.                                *)
LEMMA SessionStep ==
    ASSUME SandboxInv, NEW s \in Sessions,
           PrepareStep(s) \/ \E l \in Leaves, f \in Files : AgentEdits(s, l, f)
    PROVE  SandboxInv'
  <1>1. /\ PrepMoves(s) /\ TypeOK /\ s \in Ids /\ s \notin NewIds /\ root[s] # NoRoot
        /\ Leaf[Profile] \in Leaves
    BY SessionEffect, NothingIsNoTree, SandboxAssumption
       DEF SandboxInv, PreparedHaveRoots, PrepMoves, Ids, Dirs
  <1>2. prep[s] \in {"clone", "walk"} => Dest(s) \in Leaves
    BY <1>1, NothingIsNoTree DEF TypeOK, Dest, Current
  <1>3. root' = root \/ \E l \in Leaves, t \in Trees \union {NoDir} : Writes(s, l, t)
    <2>1. CASE \E t \in Trees : Writes(s, Dest(s), t) /\ (DirWritten(s, t) \/ FileWritten(s, t))
      BY <1>2, <2>1 DEF DirWritten, FileWritten
    <2> QED
      BY <1>1, <2>1, SessionEffect
  <1>4. /\ root' \in [Ids -> Roots \union {NoRoot}] /\ root'[s] # NoRoot
        /\ \A x \in Ids \ {s} : root'[x] = root[x]
    BY <1>1, <1>3, SessionRoots
  <1>5. TypeOK'
    BY <1>1, <1>4 DEF TypeOK, PrepMoves
  <1>6. PreparedHaveRoots'
    BY <1>1, <1>4 DEF SandboxInv, PreparedHaveRoots, PrepMoves, Ids
  <1>7. WalksIntoDirs'
    <2>1. \A x \in Sessions \ {s} : prep'[x] = "walk" => root'[x][Leaf[Inherit[next'[x]]]] # NoDir
      BY <1>1, <1>4 DEF SandboxInv, WalksIntoDirs, PrepMoves, Ids
    <2>2. ASSUME prep'[s] = "walk"
          PROVE  root'[s][Leaf[Inherit[next'[s]]]] # NoDir
      <3>1. PICK t \in Trees : /\ Writes(s, Dest(s), t) /\ prep[s] \in {"clone", "walk"}
                               /\ next'[s] = next[s]
        BY <2>2, SessionEffect DEF DirWritten, FileWritten, ProfileWritten, AgentWrote
      <3>2. root'[s][Dest(s)] = t
        BY <1>1, <1>2, <3>1, DirChanges
      <3> QED
        BY <3>1, <3>2, NothingIsNoTree DEF Dest, Current
    <2> QED
      BY <2>1, <2>2 DEF WalksIntoDirs
  <1>8. MergesHaveRoots'
    <2>1. \A p \in Tools : tool[p].op = "merge" => tool[p].session \in Ids
      BY <1>1 DEF TypeOK, Commands, Idle
    <2> QED
      BY <1>1, <1>4, <2>1 DEF SandboxInv, MergesHaveRoots, PrepMoves
  <1>9. ArchivesAreTaken' /\ RestoredStand'
    BY <1>1, <1>4 DEF SandboxInv, ArchivesAreTaken, RestoredStand, PrepMoves, Ids
  <1> QED
    BY <1>5, <1>6, <1>7, <1>8, <1>9 DEF SandboxInv

(* Every step of a session keeps clones in their places.                    *)
LEMMA SessionPlaces ==
    ASSUME DirectChildrenFirst, SandboxInv, PlacesInv, NEW s \in Sessions,
           PrepareStep(s) \/ \E l \in Leaves, f \in Files : AgentEdits(s, l, f)
    PROVE  PlacesInv'
  <1>1. /\ PrepMoves(s) /\ TypeOK /\ s \in Ids /\ root[s] # NoRoot
        /\ Leaf[Profile] \in Leaves /\ Len(Inherit) \in Nat
    BY SessionEffect, NothingIsNoTree, SandboxAssumption
       DEF SandboxInv, PreparedHaveRoots, PrepMoves, Ids, Dirs
  <1>2. prep[s] \in {"clone", "walk"} =>
            /\ Dest(s) \in Leaves /\ next[s] \in 1..Len(Inherit) /\ Current(s) \in Dirs
            /\ Current(s) = Inherit[next[s]] /\ Dest(s) = Leaf[Inherit[next[s]]]
    BY <1>1, NothingIsNoTree DEF TypeOK, Dest, Current
  <1>3. root' = root \/ \E l \in Leaves, t \in Trees \union {NoDir} : Writes(s, l, t)
    <2>1. CASE \E t \in Trees : Writes(s, Dest(s), t) /\ (DirWritten(s, t) \/ FileWritten(s, t))
      BY <1>2, <2>1 DEF DirWritten, FileWritten
    <2> QED
      BY <1>1, <2>1, SessionEffect
  <1>4. /\ root' \in [Ids -> Roots \union {NoRoot}] /\ root'[s] # NoRoot
        /\ \A x \in Ids \ {s} : root'[x] = root[x]
    BY <1>1, <1>3, SessionRoots
  <1>5. \A d \in Dirs : KeptIn(host'[d], d)
    BY <1>1 DEF PlacesInv, PrepMoves
  <1>6. \A n \in Snaps : taken'[n] # NoRoot => RootKept(taken'[n])
    BY <1>1 DEF PlacesInv, PrepMoves
  <1>7. \A x \in Ids \ {s} : root'[x] # NoRoot => RootKept(root'[x])
    BY <1>4 DEF PlacesInv
  <1> DEFINE Made == \A i \in 1..Len(Inherit) : i < next'[s] => root'[s][Leaf[Inherit[i]]] # NoDir
             First == prep'[s] = "walk" =>
                         \A i \in 1..(next'[s] - 1) : Leaf[Inherit[i]] # Leaf[Inherit[next'[s]]]
  <1>8. \A i \in 1..Len(Inherit) : i < next[s] => root[s][Leaf[Inherit[i]]] # NoDir
    BY DEF PlacesInv, VisitedAreMade
  <1>9. RootKept(root'[s]) /\ Made /\ First
    <2>1. RootKept(root[s]) /\ next[s] \in 0..Len(Inherit) + 1
      BY <1>1 DEF PlacesInv, TypeOK
    <2>2. \A d \in Inherited \ Nested : d \in Dirs /\ Leaf[d] \in Leaves
      BY NothingIsNoTree DEF Dirs
    <2>3. CASE /\ root' = root /\ next'[s] = next[s] + 1 /\ prep'[s] \in {"clone", "ready", "failed"}
               /\ prep[s] \in {"clone", "walk"} /\ root[s][Dest(s)] # NoDir
      <3>1. Made
        BY <1>1, <1>2, <1>8, <2>1, <2>3
      <3> QED
        BY <2>1, <2>3, <3>1
    <2>4. ASSUME NEW t \in Trees \union {NoDir}, Writes(s, Leaf[Profile], t), ProfileWritten(s, t)
          PROVE  RootKept(root'[s]) /\ Made /\ First
      <3>1. \A l \in Leaves \ {Leaf[Profile]} : root'[s][l] = root[s][l]
        BY <1>1, <2>4, DirChanges
      <3>2. RootKept(root'[s])
        BY <2>1, <2>2, <3>1 DEF DirectChildrenFirst, RootKept
      <3>3. next[s] = 0 /\ next'[s] \in {0, 1} /\ prep'[s] # "walk"
        BY <2>4 DEF SandboxInv, PreparedHaveRoots, ProfileWritten
      <3> QED
        BY <1>1, <3>2, <3>3
    <2>5. ASSUME NEW t \in Trees, Writes(s, Dest(s), t), DirWritten(s, t)
          PROVE  RootKept(root'[s]) /\ Made /\ First
      <3>1. /\ prep[s] = "clone" /\ root[s][Dest(s)] = NoDir
            /\ next'[s] \in {next[s], next[s] + 1} /\ (prep'[s] = "walk" => next'[s] = next[s])
            /\ KeptIn(t, Current(s))
        BY <1>2, <2>5 DEF DirWritten, PlacesInv
      <3>2. /\ root'[s][Dest(s)] = t /\ t # NoDir
            /\ \A l \in Leaves \ {Dest(s)} : root'[s][l] = root[s][l]
        BY <1>1, <1>2, <2>5, <3>1, DirChanges, NothingIsNoTree
      <3>3. \A i \in 1..Len(Inherit) : i < next[s] => Leaf[Inherit[i]] # Dest(s)
        BY <1>8, <3>1
      <3>4. ASSUME NEW d \in Inherited \ Nested, Leaf[d] = Dest(s)
            PROVE  d = Current(s)
        <4>1. \A k \in 1..(next[s] - 1) : k \in 1..Len(Inherit) /\ k < next[s]
          BY <1>1, <1>2, <3>1
        <4> QED
          BY <1>2, <3>1, <3>3, <3>4, <4>1 DEF DirectChildrenFirst
      <3>5. RootKept(root'[s])
        BY <2>1, <2>2, <3>1, <3>2, <3>4 DEF RootKept
      <3>6. Made
        <4>1. ASSUME NEW i \in 1..Len(Inherit), i < next'[s]
              PROVE  root'[s][Leaf[Inherit[i]]] # NoDir
          <5>1. i < next[s] \/ Inherit[i] = Current(s)
            BY <1>1, <1>2, <3>1, <4>1
          <5>2. Leaf[Inherit[i]] \in Leaves
            BY NothingIsNoTree
          <5> QED
            BY <1>2, <1>8, <3>1, <3>2, <3>3, <5>1, <5>2
        <4> QED
          BY <4>1
      <3>7. First
        BY <1>1, <1>2, <3>1, <3>3
      <3> QED
        BY <3>5, <3>6, <3>7
    <2>6. ASSUME NEW t \in Trees, Writes(s, Dest(s), t), FileWritten(s, t)
          PROVE  RootKept(root'[s]) /\ Made /\ First
      <3>1. /\ prep[s] = "walk" /\ next'[s] = next[s] /\ prep'[s] = "walk"
            /\ root[s][Dest(s)] # NoDir
            /\ (KeptIn(root[s][Dest(s)], Current(s)) => KeptIn(t, Current(s)))
            /\ \A i \in 1..(next[s] - 1) : Leaf[Inherit[i]] # Dest(s)
        BY <1>2, <2>6 DEF FileWritten, SandboxInv, WalksIntoDirs, PlacesInv, WalksAreFirst
      <3>2. /\ root'[s][Dest(s)] = t /\ t # NoDir
            /\ \A l \in Leaves \ {Dest(s)} : root'[s][l] = root[s][l]
        BY <1>1, <1>2, <2>6, <3>1, DirChanges, NothingIsNoTree
      <3>3. ASSUME NEW d \in Inherited \ Nested, Leaf[d] = Dest(s)
            PROVE  d = Current(s)
        BY <1>2, <3>1, <3>3 DEF DirectChildrenFirst
      <3>4. RootKept(root'[s])
        BY <2>1, <2>2, <3>1, <3>2, <3>3 DEF RootKept
      <3>5. Made
        BY <1>2, <1>8, <3>1, <3>2, NothingIsNoTree
      <3>6. First
        BY <1>2, <3>1
      <3> QED
        BY <3>4, <3>5, <3>6
    <2>7. ASSUME NEW l \in Leaves, NEW t \in Trees, Writes(s, l, t), AgentWrote(s, l, t)
          PROVE  RootKept(root'[s]) /\ Made /\ First
      <3>1. /\ prep'[s] = "ready" /\ next'[s] = next[s] /\ root[s][l] # NoDir
            /\ \A d \in Dirs : KeptIn(root[s][l], d) => KeptIn(t, d)
        BY <2>7 DEF AgentWrote
      <3>2. /\ root'[s][l] = t /\ t # NoDir
            /\ \A k \in Leaves \ {l} : root'[s][k] = root[s][k]
        BY <1>1, <2>7, DirChanges, NothingIsNoTree
      <3>3. RootKept(root'[s])
        BY <2>1, <2>2, <3>1, <3>2 DEF RootKept
      <3>4. Made
        BY <1>8, <3>1, <3>2, NothingIsNoTree
      <3> QED
        BY <3>1, <3>3, <3>4
    <2> HIDE DEF Made, First
    <2> QED
      BY <2>3, <2>4, <2>5, <2>6, <2>7, SessionEffect
  <1> QED
    <2>1. VisitedAreMade'
      <3>1. ASSUME NEW x \in Sessions, NEW i \in 1..Len(Inherit), i < next'[x]
            PROVE  root'[x][Leaf[Inherit[i]]] # NoDir
        <4>1. CASE x = s
          BY <1>9, <3>1, <4>1
        <4>2. CASE x # s
          <5>1. next'[x] = next[x] /\ root'[x] = root[x]
            BY <1>1, <1>4, <4>2 DEF PrepMoves, Ids
          <5> QED
            BY <3>1, <5>1 DEF PlacesInv, VisitedAreMade
        <4> QED
          BY <4>1, <4>2
      <3> QED
        BY <3>1 DEF VisitedAreMade
    <2>2. WalksAreFirst'
      <3>1. ASSUME NEW x \in Sessions, prep'[x] = "walk", NEW i \in 1..(next'[x] - 1)
            PROVE  Leaf[Inherit[i]] # Leaf[Inherit[next'[x]]]
        <4>1. CASE x = s
          BY <1>9, <3>1, <4>1
        <4>2. CASE x # s
          <5>1. next'[x] = next[x] /\ prep'[x] = prep[x]
            BY <1>1, <4>2 DEF PrepMoves
          <5> QED
            BY <3>1, <5>1 DEF PlacesInv, WalksAreFirst
        <4> QED
          BY <4>1, <4>2
      <3> QED
        BY <3>1 DEF WalksAreFirst
    <2>3. (\A x \in Ids : root[x] # NoRoot => RootKept(root[x]))'
      BY <1>7, <1>9
    <2> QED
      BY <1>5, <1>6, <2>1, <2>2, <2>3 DEF PlacesInv, KeptIn

(* What is known of a command that runs.                                    *)
LEMMA CommandTypes ==
    ASSUME TypeOK, NEW p \in Tools
    PROVE  /\ tool[p].op \in {"make", "clone", "meta"} =>
                 /\ tool[p].session \in Ids /\ tool[p].name \in Snaps
                 /\ \A o \in {"make", "clone", "meta"} :
                       /\ [tool[p] EXCEPT !.op = o] \in Commands
                       /\ [tool[p] EXCEPT !.op = o].op = o
           /\ tool[p].op = "merge" =>
                 /\ tool[p].session \in Ids /\ tool[p].at \in 1..Len(Inherit) + 1
                 /\ tool[p].flags \in {{"dry-run"}, {"ignore-existing"}, {}}
                 /\ tool[p].at <= Len(Inherit) =>
                       LET r == [tool[p] EXCEPT !.at = @ + 1]
                       IN  r \in Commands /\ r.session = tool[p].session
           /\ Idle \in Commands /\ Idle.op = "idle"
  <1>1. tool[p] \in Commands /\ Idle \in Commands /\ Idle.op = "idle"
    BY DEF TypeOK, Commands, Idle
  <1>2. CASE tool[p] \in [op : {"make", "clone", "meta"}, session : Ids, name : Snaps]
    BY <1>1, <1>2 DEF Commands
  <1>3. CASE tool[p] \in [op : {"merge"}, session : Ids, at : 1..Len(Inherit) + 1,
                          flags : {{"dry-run"}, {"ignore-existing"}, {}}]
    <2> DEFINE r == [tool[p] EXCEPT !.at = @ + 1]
    <2>1. tool[p].op = "merge" /\ tool[p].session \in Ids /\ tool[p].at \in 1..Len(Inherit) + 1
          /\ tool[p].flags \in {{"dry-run"}, {"ignore-existing"}, {}}
      BY <1>3
    <2>2. ASSUME tool[p].at <= Len(Inherit)
          PROVE  r \in Commands /\ r.session = tool[p].session
      <3>1. tool[p].at + 1 \in 1..Len(Inherit) + 1
        BY <2>1, <2>2, NothingIsNoTree
      <3>2. r \in [op : {"merge"}, session : Ids, at : 1..Len(Inherit) + 1,
                   flags : {{"dry-run"}, {"ignore-existing"}, {}}]
        BY <1>3, <3>1
      <3> QED
        BY <1>3, <3>2 DEF Commands
    <2> QED
      BY <1>1, <2>1, <2>2
  <1>4. CASE tool[p] = Idle
    BY <1>1, <1>4
  <1> QED
    BY <1>1, <1>2, <1>3, <1>4 DEF Commands

(* A command moves on; what it does to the archives is its own matter.      *)
LEMMA CommandMoves ==
    ASSUME SandboxInv, NEW p \in Tools, NEW r \in Commands, tool' = [tool EXCEPT ![p] = r],
           r.op = "merge" => r.session \in Ids /\ root[r.session] # NoRoot,
           host' \in [Dirs -> Trees],
           UNCHANGED <<root, prep, next, left, restored, edits>>
    PROVE  /\ tool' \in [Tools -> Commands]
           /\ TypeOK' <=> /\ snap' \in [Snaps -> [state : {"none", "dir", "done"},
                                                  rootfs : Roots \union {NoRoot},
                                                  meta : Ids \union {"none"}]]
                          /\ taken' \in [Snaps -> Roots \union {NoRoot}]
           /\ PreparedHaveRoots' /\ WalksIntoDirs' /\ MergesHaveRoots'
  <1>1. TypeOK /\ tool' \in [Tools -> Commands]
    BY DEF SandboxInv, TypeOK
  <1>2. PreparedHaveRoots' /\ WalksIntoDirs'
    BY DEF SandboxInv, PreparedHaveRoots, WalksIntoDirs
  <1>3. MergesHaveRoots'
    BY <1>1 DEF SandboxInv, MergesHaveRoots, TypeOK
  <1>4. TypeOK' <=> /\ snap' \in [Snaps -> [state : {"none", "dir", "done"},
                                            rootfs : Roots \union {NoRoot},
                                            meta : Ids \union {"none"}]]
                    /\ taken' \in [Snaps -> Roots \union {NoRoot}]
    BY <1>1 DEF TypeOK
  <1> QED
    BY <1>1, <1>2, <1>3, <1>4

\* A step that leaves host, roots and sessions alone.
SessionsRest == UNCHANGED <<host, root, prep, next, left, restored, edits>>

(* Steps that leave the archives alone too.                                 *)
LEMMA ToolMoves ==
    ASSUME SandboxInv, NEW p \in Tools, NEW r \in Commands, tool' = [tool EXCEPT ![p] = r],
           r.op = "merge" => r.session \in Ids /\ root[r.session] # NoRoot,
           SessionsRest, UNCHANGED <<snap, taken>>
    PROVE  SandboxInv' /\ (PlacesInv => PlacesInv')
  <1>1. TypeOK /\ host' \in [Dirs -> Trees]
    BY DEF SandboxInv, TypeOK, SessionsRest
  <1>2. TypeOK' /\ PreparedHaveRoots' /\ WalksIntoDirs' /\ MergesHaveRoots'
    BY <1>1, CommandMoves DEF TypeOK, SessionsRest
  <1>3. ArchivesAreTaken' /\ RestoredStand'
    BY DEF SandboxInv, ArchivesAreTaken, RestoredStand, SessionsRest
  <1>4. PlacesInv => PlacesInv'
    BY DEF PlacesInv, KeptIn, RootKept, VisitedAreMade, WalksAreFirst, SessionsRest
  <1> QED
    BY <1>2, <1>3, <1>4 DEF SandboxInv

(* ofa-snapshot take, step by step.                                         *)
LEMMA TakeStep ==
    ASSUME SandboxInv, NEW p \in Tools, TakeMakes(p) \/ TakeClones(p) \/ TakeWritesMeta(p)
    PROVE  SandboxInv' /\ (PlacesInv => PlacesInv')
  <1> DEFINE n == tool[p].name
             x == tool[p].session
             Archives == [state : {"none", "dir", "done"}, rootfs : Roots \union {NoRoot},
                          meta : Ids \union {"none"}]
  <1>1. /\ TypeOK /\ ArchivesAreTaken /\ RestoredStand /\ snap \in [Snaps -> Archives]
        /\ taken \in [Snaps -> Roots \union {NoRoot}] /\ root \in [Ids -> Roots \union {NoRoot}]
        /\ restored \in [NewIds -> Snaps \union {"none"}]
    BY DEF SandboxInv, TypeOK
  <1>2. /\ SessionsRest /\ x \in Ids /\ n \in Snaps /\ host' \in [Dirs -> Trees]
        /\ tool[p].op \in {"make", "clone", "meta"}
    <2>1. tool[p].op \in {"make", "clone", "meta"} /\ SessionsRest
      BY DEF TakeMakes, TakeClones, TakeWritesMeta, SessionsRest, prepVars
    <2> QED
      BY <1>1, <2>1, CommandTypes DEF SessionsRest, TypeOK
  <1>3. PICK r \in Commands : tool' = [tool EXCEPT ![p] = r] /\ r.op # "merge"
    BY <1>1, <1>2, CommandTypes DEF TakeMakes, TakeClones, TakeWritesMeta, Enter, Exit
  <1>4. PreparedHaveRoots' /\ WalksIntoDirs' /\ MergesHaveRoots'
        /\ (TypeOK' <=> snap' \in [Snaps -> Archives] /\ taken' \in [Snaps -> Roots \union {NoRoot}])
    BY <1>2, <1>3, CommandMoves DEF SessionsRest
  <1>5. CASE /\ taken' = taken /\ snap' \in [Snaps -> Archives]
             /\ \A m \in Snaps : snap'[m].rootfs = snap[m].rootfs
    <2>1. ArchivesAreTaken' /\ RestoredStand'
      BY <1>1, <1>2, <1>5 DEF ArchivesAreTaken, RestoredStand, SessionsRest
    <2>2. PlacesInv => PlacesInv'
      BY <1>2, <1>5 DEF PlacesInv, KeptIn, RootKept, VisitedAreMade, WalksAreFirst, SessionsRest
    <2> QED
      BY <1>1, <1>4, <1>5, <2>1, <2>2 DEF SandboxInv
  <1>6. CASE TakeMakes(p) \/ TakeWritesMeta(p)
    <2>1. taken' = taken
      BY <1>6 DEF TakeMakes, TakeWritesMeta
    <2>2. CASE TakeMakes(p)
      <3>1. snap' = [snap EXCEPT ![n].state = "dir"]
        BY <2>2 DEF TakeMakes
      <3> QED
        BY <1>1, <1>2, <1>5, <2>1, <3>1
    <2>3. CASE TakeWritesMeta(p)
      <3>1. snap' = [snap EXCEPT ![n].meta = x, ![n].state = "done"]
        BY <2>3 DEF TakeWritesMeta
      <3> QED
        BY <1>1, <1>2, <1>5, <2>1, <3>1
    <2> QED
      BY <1>6, <2>2, <2>3
  <1>7. CASE TakeClones(p)
    <2>1. CASE snap[n].rootfs # NoRoot
      BY <1>1, <1>5, <1>7, <2>1 DEF TakeClones
    <2>2. CASE snap[n].rootfs = NoRoot
      <3>1. snap' = [snap EXCEPT ![n].rootfs = root[x]] /\ taken' = [taken EXCEPT ![n] = root[x]]
        BY <1>7, <2>2 DEF TakeClones
      <3>2. /\ snap' \in [Snaps -> Archives] /\ taken' \in [Snaps -> Roots \union {NoRoot}]
            /\ snap'[n].rootfs = root[x] /\ taken'[n] = root[x] /\ taken[n] = NoRoot
            /\ \A m \in Snaps \ {n} : snap'[m].rootfs = snap[m].rootfs /\ taken'[m] = taken[m]
        BY <1>1, <1>2, <2>2, <3>1 DEF ArchivesAreTaken
      <3> HIDE DEF n, x
      <3>3. ArchivesAreTaken'
        BY <1>1, <1>2, <3>2 DEF ArchivesAreTaken
      <3>4. RestoredStand'
        BY <1>1, <1>2, <3>2 DEF RestoredStand, SessionsRest
      <3>5. PlacesInv => PlacesInv'
        <4> SUFFICES ASSUME PlacesInv PROVE PlacesInv'
          OBVIOUS
        <4>1. \A m \in Snaps : taken'[m] # NoRoot => RootKept(taken'[m])
          BY <1>2, <3>2 DEF PlacesInv
        <4>2. (\A m \in Snaps : taken[m] # NoRoot => RootKept(taken[m]))'
          BY <4>1 DEF RootKept, KeptIn
        <4> QED
          BY <1>2, <4>2 DEF PlacesInv, KeptIn, RootKept, VisitedAreMade, WalksAreFirst, SessionsRest
      <3> QED
        BY <1>4, <3>2, <3>3, <3>4, <3>5 DEF SandboxInv
    <2> QED
      BY <2>1, <2>2
  <1> QED
    BY <1>6, <1>7

(* One rsync: what it writes on the host is the agent's copy of that place. *)
LEMMA MergeEffect ==
    ASSUME SandboxInv, NEW p \in Tools, MergePath(p)
    PROVE  /\ host' \in [Dirs -> Trees]
           /\ \E d \in Inherited, sent \in SUBSET Files :
                 /\ sent # {} => d \notin Nested /\ root[tool[p].session][Leaf[d]] \in Trees
                 /\ \A e \in Dirs, f \in Files :
                       host'[e][f] = IF e = d /\ f \in sent
                                     THEN root[tool[p].session][Leaf[d]][f] ELSE host[e][f]
                 /\ tool[p].flags # {} => \A f \in sent : host[d][f] = Absent
           /\ \E r \in Commands : /\ tool' = [tool EXCEPT ![p] = r]
                                  /\ r.op = "merge" => r.session = tool[p].session
           /\ tool[p].op = "merge" /\ tool[p].session \in Ids /\ root[tool[p].session] # NoRoot
           /\ UNCHANGED <<root, prep, next, left, snap, taken, restored, edits>>
  <1> DEFINE x == tool[p].session
             d == Inherit[tool[p].at]
             agent == AgentTree(x, d)
             chosen == {f \in Files : agent # NoDir /\ Transfers(d, f, agent, tool[p].flags)}
  <1>1. /\ TypeOK /\ tool[p].op = "merge" /\ tool[p].at <= Len(Inherit) /\ x \in Ids
        /\ tool[p].at \in 1..Len(Inherit) + 1
        /\ tool[p].flags \in {{"dry-run"}, {"ignore-existing"}, {}}
    BY CommandTypes DEF SandboxInv, MergePath
  <1>2. d \in Inherited /\ d \in Dirs /\ Leaf[d] \in Leaves
    <2>1. tool[p].at \in 1..Len(Inherit)
      BY <1>1, NothingIsNoTree
    <2> QED
      BY <2>1, NothingIsNoTree
  <1>3. root[x] # NoRoot /\ root[x] \in Roots /\ host \in [Dirs -> Trees]
    BY <1>1 DEF SandboxInv, MergesHaveRoots, TypeOK
  <1>4. root[x][Leaf[d]] \in Trees \union {NoDir}
    BY <1>2, <1>3 DEF Roots
  <1>5. agent # NoDir => d \notin Nested /\ agent = root[x][Leaf[d]] /\ agent \in Trees
    BY <1>4 DEF AgentTree
  <1>6. PICK sent \in SUBSET chosen :
            /\ host' = [host EXCEPT ![d] = [f \in Files |-> IF f \in sent THEN agent[f] ELSE @[f]]]
            /\ \/ tool' = [tool EXCEPT ![p] = [tool[p] EXCEPT !.at = @ + 1]]
               \/ tool' = [tool EXCEPT ![p] = Idle]
    BY DEF MergePath, Enter, Exit
  <1>7. \A f \in sent : f \in Files /\ agent # NoDir /\ Transfers(d, f, agent, tool[p].flags)
    BY <1>6
  <1>8. sent # {} => agent # NoDir
    BY <1>7
  <1>9. tool[p].flags # {} => \A f \in sent : host[d][f] = Absent
    BY <1>1, <1>7 DEF Transfers
  <1> HIDE DEF x, d, agent, chosen
  <1>10. \A e \in Dirs, f \in Files :
             host'[e][f] = IF e = d /\ f \in sent THEN agent[f] ELSE host[e][f]
    BY <1>2, <1>3, <1>6 DEF Trees
  <1>11. host' \in [Dirs -> Trees]
    <2>1. [f \in Files |-> IF f \in sent THEN agent[f] ELSE host[d][f]] \in Trees
      BY <1>2, <1>3, <1>5, <1>8 DEF Trees
    <2> QED
      BY <1>2, <1>3, <1>6, <2>1
  <1>12. UNCHANGED <<root, prep, next, left, snap, taken, restored, edits>>
    BY DEF MergePath, prepVars, snapVars
  <1>13. \E r \in Commands : /\ tool' = [tool EXCEPT ![p] = r]
                             /\ r.op = "merge" => r.session = tool[p].session
    BY <1>1, <1>6, CommandTypes
  <1>14. \A e \in Dirs, f \in Files :
             host'[e][f] = IF e = d /\ f \in sent THEN root[x][Leaf[d]][f] ELSE host[e][f]
    BY <1>5, <1>8, <1>10
  <1>15. sent \in SUBSET Files /\ (sent # {} => d \notin Nested /\ root[x][Leaf[d]] \in Trees)
    BY <1>5, <1>7, <1>8
  <1>16. \E e \in Inherited, g \in SUBSET Files :
             /\ g # {} => e \notin Nested /\ root[x][Leaf[e]] \in Trees
             /\ \A y \in Dirs, f \in Files :
                   host'[y][f] = IF y = e /\ f \in g THEN root[x][Leaf[e]][f] ELSE host[y][f]
             /\ tool[p].flags # {} => \A f \in g : host[e][f] = Absent
    BY <1>2, <1>9, <1>14, <1>15
  <1> QED
    BY <1>1, <1>3, <1>11, <1>12, <1>13, <1>16 DEF x

(* A merge keeps the invariants.                                            *)
LEMMA MergeStep ==
    ASSUME SandboxInv, NEW p \in Tools, MergePath(p)
    PROVE  SandboxInv' /\ (PlacesInv => PlacesInv')
  <1>1. /\ host' \in [Dirs -> Trees] /\ tool[p].session \in Ids /\ root[tool[p].session] # NoRoot
        /\ UNCHANGED <<root, prep, next, left, snap, taken, restored, edits>>
    BY MergeEffect
  <1>2. PICK r \in Commands : /\ tool' = [tool EXCEPT ![p] = r]
                              /\ r.op = "merge" => r.session = tool[p].session
    BY MergeEffect
  <1>3. TypeOK' /\ PreparedHaveRoots' /\ WalksIntoDirs' /\ MergesHaveRoots'
    BY <1>1, <1>2, CommandMoves DEF SandboxInv, TypeOK
  <1>4. ArchivesAreTaken' /\ RestoredStand'
    BY <1>1 DEF SandboxInv, ArchivesAreTaken, RestoredStand
  <1>5. ASSUME PlacesInv
        PROVE  PlacesInv'
    <2>1. PICK d \in Inherited, sent \in SUBSET Files :
                 /\ sent # {} => d \notin Nested /\ root[tool[p].session][Leaf[d]] \in Trees
                 /\ \A e \in Dirs, f \in Files :
                       host'[e][f] = IF e = d /\ f \in sent
                                     THEN root[tool[p].session][Leaf[d]][f] ELSE host[e][f]
                 /\ tool[p].flags # {} => \A f \in sent : host[d][f] = Absent
      BY MergeEffect
    <2>2. sent # {} => KeptIn(root[tool[p].session][Leaf[d]], d)
      BY <1>1, <1>5, <2>1, NothingIsNoTree DEF PlacesInv, RootKept
    <2>3. \A e \in Dirs : KeptIn(host'[e], e)
      BY <1>5, <2>1, <2>2 DEF PlacesInv, KeptIn
    <2> QED
      BY <1>1, <1>5, <2>3 DEF PlacesInv, KeptIn, RootKept, VisitedAreMade, WalksAreFirst
  <1> QED
    BY <1>3, <1>4, <1>5 DEF SandboxInv

(* A restore makes a rootfs where there was none.                           *)
LEMMA RestoreStep ==
    ASSUME SandboxInv, NEW n \in Snaps, NEW s \in NewIds, Restore(n, s)
    PROVE  SandboxInv' /\ (PlacesInv => PlacesInv')
  <1>1. /\ taken[n] # NoRoot /\ root[s] = NoRoot /\ root' = [root EXCEPT ![s] = taken[n]]
        /\ restored' = [restored EXCEPT ![s] = n] /\ s \in Ids /\ s \notin Sessions
        /\ UNCHANGED <<host, prep, next, left, snap, taken, tool, edits>>
    BY SandboxAssumption DEF Restore, CanRestore, SandboxInv, ArchivesAreTaken, prepVars, Ids
  <1>2. /\ TypeOK /\ root \in [Ids -> Roots \union {NoRoot}] /\ taken \in [Snaps -> Roots \union {NoRoot}]
        /\ restored \in [NewIds -> Snaps \union {"none"}]
    BY DEF SandboxInv, TypeOK
  <1>3. /\ root'[s] = taken[n] /\ restored'[s] = n
        /\ \A x \in Ids \ {s} : root'[x] = root[x]
        /\ \A x \in NewIds \ {s} : restored'[x] = restored[x]
    BY <1>1, <1>2
  <1>4. TypeOK'
    BY <1>1, <1>2 DEF TypeOK
  <1>5. PreparedHaveRoots' /\ WalksIntoDirs'
    BY <1>1, <1>3 DEF SandboxInv, PreparedHaveRoots, WalksIntoDirs, Ids
  <1>6. MergesHaveRoots'
    <2>1. \A p \in Tools : tool[p].op = "merge" => tool[p].session \in Ids
      BY <1>2, CommandTypes
    <2> QED
      BY <1>1, <1>3, <2>1 DEF SandboxInv, MergesHaveRoots
  <1>7. ArchivesAreTaken' /\ RestoredStand'
    BY <1>1, <1>3 DEF SandboxInv, ArchivesAreTaken, RestoredStand, Ids
  <1>8. ASSUME PlacesInv
        PROVE  PlacesInv'
    <2>1. \A x \in Ids : root'[x] # NoRoot => RootKept(root'[x])
      BY <1>1, <1>3, <1>8 DEF PlacesInv
    <2>2. VisitedAreMade' /\ WalksAreFirst'
      BY <1>1, <1>3, <1>8 DEF PlacesInv, VisitedAreMade, WalksAreFirst, Ids
    <2> QED
      BY <1>1, <1>8, <2>1, <2>2 DEF PlacesInv, RootKept, KeptIn
  <1> QED
    BY <1>4, <1>5, <1>6, <1>7, <1>8 DEF SandboxInv

(* The preparation of a session begins.                                     *)
LEMMA PrepareBegins ==
    ASSUME SandboxInv, NEW s \in Sessions, Prepare(s)
    PROVE  SandboxInv' /\ (PlacesInv => PlacesInv')
  <1>1. /\ prep[s] = "none" /\ prep' = [prep EXCEPT ![s] = "profile"] /\ root' = [root EXCEPT ![s] = Empty]
        /\ next[s] = 0 /\ s \in Ids /\ s \notin NewIds
        /\ UNCHANGED <<host, next, left, snap, taken, restored, tool, edits>>
    BY SandboxAssumption DEF Prepare, SandboxInv, PreparedHaveRoots, snapVars, Ids
  <1>2. /\ TypeOK /\ root \in [Ids -> Roots \union {NoRoot}]
        /\ prep \in [Sessions -> {"none", "profile", "clone", "walk", "ready", "failed"}]
    BY DEF SandboxInv, TypeOK
  <1>3. /\ root'[s] = Empty /\ Empty # NoRoot /\ Empty \in Roots /\ prep'[s] = "profile"
        /\ \A x \in Ids \ {s} : root'[x] = root[x]
        /\ \A x \in Sessions \ {s} : prep'[x] = prep[x]
    BY <1>1, <1>2, NothingIsNoTree
  <1>4. TypeOK'
    BY <1>1, <1>2, <1>3 DEF TypeOK
  <1>5. PreparedHaveRoots' /\ WalksIntoDirs'
    BY <1>1, <1>3 DEF SandboxInv, PreparedHaveRoots, WalksIntoDirs, Ids
  <1>6. MergesHaveRoots'
    <2>1. \A p \in Tools : tool[p].op = "merge" => tool[p].session \in Ids
      BY <1>2, CommandTypes
    <2> QED
      BY <1>1, <1>3, <2>1 DEF SandboxInv, MergesHaveRoots
  <1>7. ArchivesAreTaken' /\ RestoredStand'
    BY <1>1, <1>3 DEF SandboxInv, ArchivesAreTaken, RestoredStand, Ids
  <1>8. ASSUME PlacesInv
        PROVE  PlacesInv'
    <2>1. RootKept(Empty)
      BY NothingIsNoTree DEF RootKept, Empty, Dirs
    <2>2. \A x \in Ids : root'[x] # NoRoot => RootKept(root'[x])
      BY <1>1, <1>3, <1>8, <2>1 DEF PlacesInv
    <2>3. VisitedAreMade'
      BY <1>1, <1>3, <1>8, NothingIsNoTree DEF PlacesInv, VisitedAreMade, Ids
    <2>4. WalksAreFirst'
      BY <1>1, <1>3, <1>8 DEF PlacesInv, WalksAreFirst
    <2> QED
      BY <1>1, <1>8, <2>2, <2>3, <2>4 DEF PlacesInv, RootKept, KeptIn
  <1> QED
    BY <1>4, <1>5, <1>6, <1>7, <1>8 DEF SandboxInv

(* The user edits a file of the host.                                       *)
LEMMA UserStep ==
    ASSUME SandboxInv, NEW d \in Dirs, NEW f \in Files, UserEdits(d, f)
    PROVE  SandboxInv' /\ (PlacesInv => PlacesInv')
  <1>1. PICK c \in {Absent, <<d, edits + 1>>} :
            /\ host' = [host EXCEPT ![d][f] = c] /\ edits < MaxEdits /\ edits' = edits + 1
            /\ UNCHANGED <<root, prep, next, left, snap, taken, restored, tool>>
    BY DEF UserEdits, prepVars, snapVars
  <1>2. TypeOK /\ host \in [Dirs -> Trees] /\ edits \in 0..MaxEdits /\ MaxEdits \in Nat
    BY SandboxAssumption DEF SandboxInv, TypeOK
  <1>3. edits' \in 0..MaxEdits /\ c \in Contents \union {Absent} /\ (c # Absent => c[1] = d)
    BY <1>1, <1>2 DEF Contents
  <1>4. /\ host' \in [Dirs -> Trees]
        /\ \A e \in Dirs, g \in Files : host'[e][g] = IF e = d /\ g = f THEN c ELSE host[e][g]
    BY <1>1, <1>2, <1>3 DEF Trees
  <1>5. TypeOK'
    BY <1>1, <1>2, <1>3, <1>4 DEF TypeOK
  <1>6. /\ PreparedHaveRoots' /\ WalksIntoDirs' /\ MergesHaveRoots' /\ ArchivesAreTaken'
        /\ RestoredStand'
    BY <1>1 DEF SandboxInv, PreparedHaveRoots, WalksIntoDirs, MergesHaveRoots, ArchivesAreTaken,
                RestoredStand
  <1>7. ASSUME PlacesInv
        PROVE  PlacesInv'
    <2>1. \A e \in Dirs : KeptIn(host'[e], e)
      BY <1>3, <1>4, <1>7 DEF PlacesInv, KeptIn
    <2> QED
      BY <1>1, <1>7, <2>1 DEF PlacesInv, KeptIn, RootKept, VisitedAreMade, WalksAreFirst
  <1> QED
    BY <1>5, <1>6, <1>7 DEF SandboxInv

(* A command begins, ends or is interrupted.                                *)
LEMMA CommandStep ==
    ASSUME SandboxInv, NEW p \in Tools,
           \/ \E s \in Ids : Merge(p, s) \/ \E n \in Snaps : Take(p, s, n)
           \/ MergeEnds(p) \/ ToolDies(p)
    PROVE  SandboxInv' /\ (PlacesInv => PlacesInv')
  <1>1. SessionsRest /\ UNCHANGED <<snap, taken>>
    BY DEF Merge, Take, MergeEnds, ToolDies, SessionsRest, prepVars, snapVars
  <1>2. CASE MergeEnds(p) \/ ToolDies(p)
    BY <1>1, <1>2, CommandTypes, ToolMoves DEF MergeEnds, ToolDies, Exit, SandboxInv
  <1>3. ASSUME NEW s \in Ids, NEW n \in Snaps, Take(p, s, n)
        PROVE  SandboxInv' /\ (PlacesInv => PlacesInv')
    <2> DEFINE r == [op |-> "make", session |-> s, name |-> n]
    <2>1. r \in Commands /\ r.op # "merge" /\ tool' = [tool EXCEPT ![p] = r]
      BY <1>3 DEF Take, Enter, Commands
    <2> QED
      BY <1>1, <2>1, ToolMoves
  <1>4. ASSUME NEW s \in Ids, Merge(p, s)
        PROVE  SandboxInv' /\ (PlacesInv => PlacesInv')
    <2>1. PICK strategy \in Strategies, apply \in BOOLEAN :
               tool' = [tool EXCEPT ![p] = [op |-> "merge", session |-> s, at |-> 1,
                                            flags |-> Flags(strategy, apply)]]
      BY <1>4 DEF Merge, Enter
    <2> DEFINE r == [op |-> "merge", session |-> s, at |-> 1, flags |-> Flags(strategy, apply)]
    <2>2. 1 \in 1..Len(Inherit) + 1
      BY NothingIsNoTree
    <2>3. r \in Commands /\ r.session = s /\ root[s] # NoRoot
      BY <1>4, <2>2 DEF Commands, Flags, Merge
    <2> QED
      BY <1>1, <2>1, <2>3, ToolMoves
  <1> QED
    BY <1>2, <1>3, <1>4

----------------------------------------------------------------------------
(* The sandbox: theorems                                                    *)

(* At first only the host has files, each its own.                          *)
LEMMA SandboxInit == Init => SandboxInv /\ PlacesInv
  <1> SUFFICES ASSUME Init PROVE SandboxInv /\ PlacesInv
    OBVIOUS
  <1>1. Len(Inherit) \in Nat /\ MaxEdits \in Nat
    BY NothingIsNoTree, SandboxAssumption
  <1>2. TypeOK
    <2>1. host \in [Dirs -> Trees]
      BY <1>1 DEF Init, Trees, Contents
    <2>2. snap \in [Snaps -> [state : {"none", "dir", "done"}, rootfs : Roots \union {NoRoot},
                              meta : Ids \union {"none"}]]
      BY DEF Init, NoSnap
    <2>3. 0 \in 0..Len(Inherit) + 1 /\ 0 \in 0..MaxEdits
      BY <1>1
    <2>4. next \in [Sessions -> 0..Len(Inherit) + 1] /\ edits \in 0..MaxEdits
      BY <2>3 DEF Init
    <2>5. /\ root \in [Ids -> Roots \union {NoRoot}] /\ taken \in [Snaps -> Roots \union {NoRoot}]
          /\ prep \in [Sessions -> {"none", "profile", "clone", "walk", "ready", "failed"}]
          /\ \A s \in Sessions : prep[s] \notin {"clone", "walk"}
          /\ left \in [Sessions -> SUBSET Files] /\ restored \in [NewIds -> Snaps \union {"none"}]
      BY DEF Init
    <2>6. tool \in [Tools -> Commands]
      BY DEF Init, Commands
    <2> QED
      BY <2>1, <2>2, <2>4, <2>5, <2>6 DEF TypeOK
  <1>3. PreparedHaveRoots /\ WalksIntoDirs /\ MergesHaveRoots
    BY DEF Init, PreparedHaveRoots, WalksIntoDirs, MergesHaveRoots, Idle
  <1>4. ArchivesAreTaken /\ RestoredStand
    BY DEF Init, ArchivesAreTaken, RestoredStand, NoSnap
  <1>5. PlacesInv
    <2>1. \A d \in Dirs : KeptIn(host[d], d)
      BY DEF Init, KeptIn
    <2>2. VisitedAreMade /\ WalksAreFirst
      BY <1>1 DEF Init, VisitedAreMade, WalksAreFirst
    <2> QED
      BY <2>1, <2>2 DEF Init, PlacesInv
  <1> QED
    BY <1>2, <1>3, <1>4, <1>5 DEF SandboxInv

(* Every step of the sandbox keeps both invariants.                         *)
LEMMA SandboxStep ==
    ASSUME SandboxInv, [Next]_vars
    PROVE  SandboxInv' /\ (DirectChildrenFirst /\ PlacesInv => PlacesInv')
  <1>1. ASSUME NEW d \in Dirs, NEW f \in Files, UserEdits(d, f)
        PROVE  SandboxInv' /\ (PlacesInv => PlacesInv')
    BY <1>1, UserStep
  <1>2. ASSUME NEW s \in Sessions, PrepareStep(s) \/ \E l \in Leaves, f \in Files : AgentEdits(s, l, f)
        PROVE  SandboxInv' /\ (DirectChildrenFirst /\ PlacesInv => PlacesInv')
    BY <1>2, SessionStep, SessionPlaces
  <1>3. ASSUME NEW s \in Sessions, Prepare(s)
        PROVE  SandboxInv' /\ (PlacesInv => PlacesInv')
    BY <1>3, PrepareBegins
  <1>4. ASSUME NEW n \in Snaps, NEW s \in NewIds, Restore(n, s)
        PROVE  SandboxInv' /\ (PlacesInv => PlacesInv')
    BY <1>4, RestoreStep
  <1>5. ASSUME NEW p \in Tools, \/ \E s \in Ids : Merge(p, s) \/ \E n \in Snaps : Take(p, s, n)
                                \/ MergeEnds(p) \/ ToolDies(p)
        PROVE  SandboxInv' /\ (PlacesInv => PlacesInv')
    BY <1>5, CommandStep
  <1>6. ASSUME NEW p \in Tools, TakeMakes(p) \/ TakeClones(p) \/ TakeWritesMeta(p)
        PROVE  SandboxInv' /\ (PlacesInv => PlacesInv')
    BY <1>6, TakeStep
  <1>7. ASSUME NEW p \in Tools, MergePath(p)
        PROVE  SandboxInv' /\ (PlacesInv => PlacesInv')
    BY <1>7, MergeStep
  <1>8. CASE UNCHANGED vars
    <2>1. UNCHANGED <<host, root, prep, next, left, snap, taken, restored, tool, edits>>
      BY <1>8 DEF vars, prepVars, snapVars
    <2>2. TypeOK'
      BY <2>1 DEF SandboxInv, TypeOK
    <2>3. /\ PreparedHaveRoots' /\ WalksIntoDirs' /\ MergesHaveRoots' /\ ArchivesAreTaken'
          /\ RestoredStand'
      BY <2>1 DEF SandboxInv, PreparedHaveRoots, WalksIntoDirs, MergesHaveRoots, ArchivesAreTaken,
                  RestoredStand
    <2>4. PlacesInv => PlacesInv'
      BY <2>1 DEF PlacesInv, KeptIn, RootKept, VisitedAreMade, WalksAreFirst
    <2> QED
      BY <2>2, <2>3, <2>4 DEF SandboxInv
  <1> QED
    BY <1>1, <1>2, <1>3, <1>4, <1>5, <1>6, <1>7, <1>8 DEF Next, ToolStep

(* What a session has cloned, archived and restored fits together at all
   times (prepare_session_sandbox, ofa-snapshot, ofa-merge).                 *)
THEOREM SandboxInvariance == Spec => []SandboxInv
  BY SandboxInit, SandboxStep, PTL DEF Spec

(* A restored session starts from what the source session held when the
   snapshot was cloned, whatever agents, users and commands did meanwhile.  *)
THEOREM RestoreIsExactSafety == Spec => []RestoreIsExact
  <1>1. SandboxInv => RestoreIsExact
    BY DEF SandboxInv, RestoredStand, RestoreIsExact
  <1> QED
    BY <1>1, SandboxInvariance, PTL

(* Clone and merge agree on where a directory lives, for every allowlist in
   which a direct child of the home comes before what shares its name.      *)
THEOREM MergeKeepsPlacesSafety ==
    ASSUME DirectChildrenFirst
    PROVE  Spec => []MergeKeepsPlaces
  <1>1. SandboxInv /\ PlacesInv /\ [Next]_vars => SandboxInv' /\ PlacesInv'
    BY SandboxStep
  <1>2. PlacesInv => MergeKeepsPlaces
    BY DEF PlacesInv, KeptIn, MergeKeepsPlaces
  <1> QED
    BY <1>1, <1>2, SandboxInit, PTL DEF Spec

(* rsync's flags: only the user, or an applied merge with strategy "theirs",
   replaces or removes a file the user has.                                 *)
THEOREM HostIsKeptSafety == Spec => HostIsKept
  <1> DEFINE Kept == \A d \in Dirs, f \in Files :
                        host[d][f] # Absent /\ host'[d][f] # host[d][f] =>
                            \/ edits' # edits
                            \/ \E p \in Tools : tool[p].op = "merge" /\ tool[p].flags = {}
  <1>1. SandboxInv /\ [Next]_vars => [Kept]_vars
    <2> SUFFICES ASSUME SandboxInv, Next PROVE Kept
      BY DEF vars
    <2>1. CASE host' = host
      BY <2>1
    <2>2. ASSUME NEW d \in Dirs, NEW f \in Files, UserEdits(d, f)
          PROVE  Kept
      <3>1. edits \in Nat /\ edits' = edits + 1
        BY <2>2, SandboxAssumption DEF UserEdits, SandboxInv, TypeOK
      <3> QED
        BY <3>1
    <2>3. ASSUME NEW p \in Tools, MergePath(p)
          PROVE  Kept
      <3>1. PICK d \in Inherited, sent \in SUBSET Files :
                 /\ sent # {} => d \notin Nested /\ root[tool[p].session][Leaf[d]] \in Trees
                 /\ \A e \in Dirs, f \in Files :
                       host'[e][f] = IF e = d /\ f \in sent
                                     THEN root[tool[p].session][Leaf[d]][f] ELSE host[e][f]
                 /\ tool[p].flags # {} => \A f \in sent : host[d][f] = Absent
        BY <2>3, MergeEffect, Zenon
      <3>2. tool[p].op = "merge"
        BY <2>3, MergeEffect
      <3> QED
        BY <3>1, <3>2
    <2>4. host' = host \/ (\E d \in Dirs, f \in Files : UserEdits(d, f)) \/ \E p \in Tools : MergePath(p)
      BY SessionEffect, CommandStep, Zenon DEF Next, AgentEdits, Prepare, PrepareStep, CloneProfile, SeedProfile,
         PrepareFails, SkipDir, CloneDir, WalkBegins, WalkFile, WalkEnds, Merge, Take, Restore, ToolStep,
         TakeMakes, TakeClones, TakeWritesMeta, MergeEnds, ToolDies
    <2> HIDE DEF Kept
    <2> QED
      BY <2>1, <2>2, <2>3, <2>4
  <1> QED
    BY <1>1, SandboxInvariance, PTL DEF Spec, HostIsKept

(* ofa-snapshot take: an archive is never written over, although two commands
   may pass the check of its name together.                                 *)
THEOREM SnapshotsAreKeptSafety == Spec => SnapshotsAreKept
  <1> DEFINE Kept == \A n \in Snaps : snap[n].rootfs # NoRoot => snap'[n].rootfs = snap[n].rootfs
  <1>1. SandboxInv /\ [Next]_vars => [Kept]_vars
    <2> SUFFICES ASSUME SandboxInv, Next PROVE Kept
      BY DEF vars
    <2>1. CASE snap' = snap
      BY <2>1
    <2>2. ASSUME NEW p \in Tools, TakeMakes(p) \/ TakeClones(p) \/ TakeWritesMeta(p)
          PROVE  Kept
      <3>1. TypeOK /\ snap \in [Snaps -> [state : {"none", "dir", "done"},
                                          rootfs : Roots \union {NoRoot}, meta : Ids \union {"none"}]]
        BY DEF SandboxInv, TypeOK
      <3> QED
        BY <2>2, <3>1, SMTT(30) DEF TakeMakes, TakeClones, TakeWritesMeta
    <2>3. snap' = snap \/ \E p \in Tools : TakeMakes(p) \/ TakeClones(p) \/ TakeWritesMeta(p)
      BY DEF Next, UserEdits, AgentEdits, Prepare, PrepareStep, CloneProfile, SeedProfile, PrepareFails,
         SkipDir, CloneDir, WalkBegins, WalkFile, WalkEnds, Merge, Take, Restore, ToolStep, MergePath,
         MergeEnds, ToolDies, snapVars
    <2> HIDE DEF Kept
    <2> QED
      BY <2>1, <2>2, <2>3
  <1> QED
    BY <1>1, SandboxInvariance, PTL DEF Spec, SnapshotsAreKept

----------------------------------------------------------------------------
(* The trace: inductive invariant                                           *)

LogFiles == Seq(Nat \X {"none", "redacted", "as is"})
Listing == [seq : Seqs, gzipped : BOOLEAN, hash : LogFiles]
WriterStates ==
    [pc : {"none", "open", "select", "drain", "write", "gzip", "remove", "next gz", "next", "final",
           "last", "ended"},
     buffer : Seq(Nat), dropped : Nat, closing : BOOLEAN, told : BOOLEAN, seq : Seqs, lines : Nat,
     linked : BOOLEAN, held : Nat, last : BOOLEAN, files : SUBSET Listing]
TraceTypeOK ==
    /\ logs \in [Seqs -> [plain : LogFiles, gz : LogFiles]]
    /\ manifest \subseteq Listing
    /\ tw \in [Writers -> WriterStates]
    /\ racing \in Seq(Writers) /\ recorded \in Nat /\ started \in Nat /\ doubled \in BOOLEAN

\* A listed file is there, as it was listed.
IsThere(m) == m.hash # None0 /\ m.hash = (IF m.gzipped THEN logs[m.seq].gz ELSE logs[m.seq].plain)

\* With one writer at a time, every file that is listed, or about to be, is there,
\* and the writer under way is past it.
OneLive == \A v, w \in Writers : Live(v) /\ Live(w) => v = w
ListedAreThere == \A m \in manifest : IsThere(m)
WriterIsPast ==
    \A w \in Writers : Live(w) =>
        /\ \A m \in manifest : m.seq < tw[w].seq
        /\ \A m \in tw[w].files : m.seq < tw[w].seq /\ IsThere(m)
TraceInv == TraceTypeOK /\ (~doubled => OneLive /\ ListedAreThere /\ WriterIsPast)

----------------------------------------------------------------------------
(* The trace: steps                                                         *)

(* A writer changes to r.                                                   *)
LEMMA SetWriter ==
    ASSUME TraceTypeOK, NEW w \in Writers, NEW r \in WriterStates, Set(w, r)
    PROVE  /\ tw' \in [Writers -> WriterStates] /\ tw'[w] = r
           /\ \A v \in Writers \ {w} : tw'[v] = tw[v]
  BY DEF TraceTypeOK, Set

(* The files and the lines in them have their types.                        *)
LEMMA LogTypes ==
    /\ 0 \in Seqs /\ None0 \in LogFiles /\ <<>> \in LogFiles
    /\ NoWriter \in WriterStates
    /\ \A e \in Nat : redact_event(e) \in Nat \X {"none", "redacted", "as is"}
    /\ \A f \in LogFiles, x \in Nat \X {"none", "redacted", "as is"} : Append(f, x) \in LogFiles
  <1>1. 0 \in Seqs
    BY TraceAssumption DEF Seqs
  <1>2. NoWriter \in WriterStates
    BY <1>1 DEF NoWriter, WriterStates
  <1> DEFINE Lines == Nat \X {"none", "redacted", "as is"}
  <1>3. None0 \in LogFiles /\ <<>> \in LogFiles
    <2>1. <<0, "none">> \in Lines /\ LogFiles = Seq(Lines)
      BY DEF LogFiles
    <2> DEFINE x == <<0, "none">>
    <2>2. None0 = <<x>>
      BY DEF None0
    <2> HIDE DEF Lines, x
    <2>3. <<x>> \in Seq(Lines)
      BY <2>1 DEF x
    <2> QED
      BY <2>1, <2>2, <2>3
  <1>4. \A e \in Nat : redact_event(e) \in Lines
    BY DEF redact_event
  <1>5. \A f \in LogFiles, x \in Lines : Append(f, x) \in LogFiles
    <2> HIDE DEF Lines
    <2>1. LogFiles = Seq(Lines)
      BY DEF LogFiles, Lines
    <2> QED
      BY <2>1
  <1> QED
    BY <1>1, <1>2, <1>3, <1>4, <1>5

(* What a closed file is listed as.                                         *)
LEMMA ClosedIsThere ==
    ASSUME TraceTypeOK, NEW s \in Seqs, NEW g \in BOOLEAN
    PROVE  /\ manifest_for_closed(s, g) \subseteq Listing
           /\ \A m \in manifest_for_closed(s, g) : m.seq = s /\ IsThere(m)
  BY DEF TraceTypeOK, manifest_for_closed, Listing, IsThere

(* Opening a file touches that file alone.                                  *)
LEMMA OpenTypes ==
    ASSUME TraceTypeOK, NEW w \in Writers, NEW s \in Seqs,
           NEW l \in {"select", "write"}, NEW r \in WriterStates, Open(w, s, l, r)
    PROVE  /\ logs' \in [Seqs -> [plain : LogFiles, gz : LogFiles]]
           /\ \A t \in Seqs \ {s} : logs'[t] = logs[t]
           /\ tw' \in [Writers -> WriterStates]
           /\ \A v \in Writers \ {w} : tw'[v] = tw[v]
           /\ tw'[w].pc = l /\ tw'[w].seq = s /\ tw'[w].files = r.files
  <1>1. /\ logs' \in [Seqs -> [plain : LogFiles, gz : LogFiles]]
        /\ \A t \in Seqs \ {s} : logs'[t] = logs[t]
    BY LogTypes DEF Open, TraceTypeOK
  <1> DEFINE n == IF logs[s].plain = None0 THEN 0 ELSE Len(logs[s].plain)
             q == [r EXCEPT !.pc = l, !.seq = s, !.linked = TRUE, !.lines = n]
  <1>2. n \in Nat
    <2>1. logs[s].plain \in LogFiles
      BY DEF TraceTypeOK
    <2>2. Len(logs[s].plain) \in Nat
      BY <2>1, LenProperties DEF LogFiles
    <2> QED
      BY <2>2
  <1>3. Set(w, q)
    BY DEF Open
  <1> HIDE DEF n
  <1>4. q \in WriterStates /\ q.pc = l /\ q.seq = s /\ q.files = r.files
    BY <1>2 DEF WriterStates
  <1> QED
    BY <1>1, <1>3, <1>4, SetWriter

(* Every step keeps the types.                                              *)
LEMMA TraceTypes == TraceTypeOK /\ [TraceNext]_traceVars => TraceTypeOK'
  <1> SUFFICES ASSUME TraceTypeOK, [TraceNext]_traceVars
               PROVE  TraceTypeOK'
    OBVIOUS
  <1> USE DEF traceVars, fileVars, queueVars, startVars
  <1>1. CASE UNCHANGED traceVars
    BY <1>1 DEF TraceTypeOK
  <1>2. ASSUME NEW r \in Starters, get_or_start(r)
        PROVE  TraceTypeOK'
    BY <1>2 DEF get_or_start, TraceTypeOK
  <1>3. ASSUME NEW r \in Starters, start_in_dir(r)
        PROVE  TraceTypeOK'
    <2>1. PICK n \in Seqs : Set(started + 1, [NoWriter EXCEPT !.pc = "open", !.seq = n])
      BY <1>3 DEF start_in_dir
    <2>2. started + 1 \in Writers
      BY <1>3, TraceAssumption DEF start_in_dir, TraceTypeOK, Writers
    <2>3. [NoWriter EXCEPT !.pc = "open", !.seq = n] \in WriterStates
      BY LogTypes DEF WriterStates
    <2>4. tw' \in [Writers -> WriterStates]
      BY <2>1, <2>2, <2>3, SetWriter
    <2> QED
      BY <1>3, <2>4 DEF start_in_dir, TraceTypeOK
  <1>4. ASSUME NEW w \in Writers, record(w)
        PROVE  TraceTypeOK'
    <2>1. tw[w] \in WriterStates
      BY DEF TraceTypeOK
    <2>2. [tw[w] EXCEPT !.dropped = @ + 1] \in WriterStates
      <3> DEFINE d == tw[w].dropped + 1
      <3>0. tw[w].dropped \in Nat
        BY <2>1 DEF WriterStates
      <3>1. d \in Nat
        BY <3>0
      <3> HIDE DEF d
      <3>2. [tw[w] EXCEPT !.dropped = d] \in WriterStates
        BY <2>1, <3>1 DEF WriterStates
      <3> QED
        BY <3>2 DEF d
    <2>3. tw' \in [Writers -> WriterStates]
      BY <1>4, <2>2, SetWriter DEF record, TraceTypeOK
    <2>4. racing' \in Seq(Writers)
      BY <1>4 DEF record, TraceTypeOK
    <2>5. recorded' \in Nat
      BY <1>4 DEF record, TraceTypeOK
    <2> QED
      BY <1>4, <2>3, <2>4, <2>5 DEF record, TraceTypeOK
  <1>5. ASSUME NEW w \in Writers, shutdown(w)
        PROVE  TraceTypeOK'
    <2>0. [tw[w] EXCEPT !.closing = (entry = w), !.told = TRUE] \in WriterStates
      BY ZenonT(30) DEF TraceTypeOK, WriterStates
    <2>1. tw' \in [Writers -> WriterStates]
      BY <1>5, <2>0, SetWriter DEF shutdown
    <2> QED
      BY <1>5, <2>1 DEF shutdown, TraceTypeOK
  <1>6. CASE record_pushes
    <2> DEFINE w == Head(racing)
               b == tw[w].buffer
               full == Len(b) >= BufferCap
               q == [tw[w] EXCEPT !.buffer = Append(IF full THEN Tail(b) ELSE b, recorded + 1),
                                  !.dropped = IF full THEN @ + 1 ELSE @]
    <2>1. w \in Writers /\ Tail(racing) \in Seq(Writers)
      BY <1>6 DEF record_pushes, TraceTypeOK
    <2>2. tw[w] \in WriterStates /\ b \in Seq(Nat)
      BY <2>1 DEF TraceTypeOK, WriterStates
    <2>3. full => b # <<>>
      BY <2>2, TraceAssumption
    <2>4. (IF full THEN Tail(b) ELSE b) \in Seq(Nat)
      BY <2>2, <2>3
    <2>5. Append(IF full THEN Tail(b) ELSE b, recorded + 1) \in Seq(Nat)
      BY <2>4 DEF TraceTypeOK
    <2>6. Set(w, q)
      BY <1>6 DEF record_pushes
    <2> HIDE DEF w, full
    <2>7. q \in WriterStates
      <3> DEFINE nb == Append(IF full THEN Tail(b) ELSE b, recorded + 1)
                 nd == IF full THEN tw[w].dropped + 1 ELSE tw[w].dropped
      <3>0. tw[w].dropped \in Nat
        BY <2>2 DEF WriterStates
      <3>1. nb \in Seq(Nat) /\ nd \in Nat
        BY <2>5, <3>0
      <3>2. q = [tw[w] EXCEPT !.buffer = nb, !.dropped = nd]
        OBVIOUS
      <3> HIDE DEF nb, nd, q, b
      <3> QED
        BY <2>2, <3>1, <3>2 DEF WriterStates
    <2>8. tw' \in [Writers -> WriterStates]
      BY <2>1, <2>6, <2>7, SetWriter
    <2> QED
      BY <1>6, <2>1, <2>8 DEF record_pushes, TraceTypeOK, w
  <1>7. CASE trace_dies
    <2>1. tw' \in [Writers -> WriterStates]
      BY <1>7, LogTypes DEF trace_dies
    <2>2. racing' \in Seq(Writers)
      BY <1>7 DEF trace_dies
    <2> QED
      BY <1>7, <2>1, <2>2 DEF trace_dies, TraceTypeOK
  <1>8. ASSUME NEW w \in Writers, WriterStep(w)
        PROVE  TraceTypeOK'
    <2> USE <1>8
    <2>0. /\ tw[w] \in WriterStates /\ tw[w].seq \in Seqs /\ tw[w].files \subseteq Listing
          /\ tw[w].buffer \in Seq(Nat) /\ tw[w].held \in Nat
      BY DEF TraceTypeOK, WriterStates
    <2>1. CASE writer_opens(w)
      <3>1. CASE Open(w, tw[w].seq, "select", tw[w]) /\ write_manifest({})
        BY <2>0, <2>1, <3>1, OpenTypes DEF writer_opens, write_manifest, TraceTypeOK
      <3>2. CASE Goto_(w, "ended") /\ UNCHANGED <<logs, manifest>>
        <4>1. [tw[w] EXCEPT !.pc = "ended"] \in WriterStates
          BY <2>0 DEF WriterStates
        <4> QED
          BY <2>1, <3>2, <4>1, SetWriter DEF Goto_, writer_opens, TraceTypeOK
      <3> QED
        BY <2>1, <3>1, <3>2 DEF writer_opens
    <2>2. CASE writer_wakes(w)
      <3>1. [tw[w] EXCEPT !.pc = "drain", !.last = tw[w].told] \in WriterStates
        BY <2>0 DEF WriterStates
      <3> QED
        BY <2>2, <3>1, SetWriter DEF writer_wakes, TraceTypeOK
    <2>3. CASE writer_pops(w)
      <3>1. PICK full \in should_rotate(w) :
                Set(w, [tw[w] EXCEPT !.held = Head(tw[w].buffer), !.buffer = Tail(@),
                                     !.pc = IF full THEN "gzip" ELSE "write"])
        BY <2>3 DEF writer_pops
      <3>2. Head(tw[w].buffer) \in Nat /\ Tail(tw[w].buffer) \in Seq(Nat)
        BY <2>0, <2>3, SMTT(30) DEF writer_pops
      <3>3. [tw[w] EXCEPT !.held = Head(tw[w].buffer), !.buffer = Tail(@),
                          !.pc = IF full THEN "gzip" ELSE "write"] \in WriterStates
        BY <2>0, <3>2 DEF WriterStates
      <3> QED
        BY <2>3, <3>1, <3>3, SetWriter DEF writer_pops, TraceTypeOK
    <2>4. CASE writer_empty(w)
      <3>1. PICK l \in {"final", "gzip", "select"} : Set(w, [tw[w] EXCEPT !.pc = l])
        BY <2>4 DEF writer_empty, Goto_
      <3>2. [tw[w] EXCEPT !.pc = l] \in WriterStates
        BY <2>0 DEF WriterStates
      <3> QED
        BY <2>4, <3>1, <3>2, SetWriter DEF writer_empty, TraceTypeOK
    <2>5. CASE write_event(w)
      <3> DEFINE next_ == [tw[w] EXCEPT !.held = 0, !.pc = IF @ = "last" THEN "final" ELSE "drain"]
      <3>1. next_ \in WriterStates /\ [next_ EXCEPT !.lines = @ + 1] \in WriterStates
        <4>1. next_ \in WriterStates
          BY <2>0 DEF WriterStates
        <4> HIDE DEF next_
        <4>2. [next_ EXCEPT !.lines = @ + 1] \in WriterStates
          <5> DEFINE n == next_.lines + 1
          <5>0. next_.lines \in Nat
            BY <4>1 DEF WriterStates
          <5>1. n \in Nat
            BY <5>0
          <5> HIDE DEF n
          <5>2. [next_ EXCEPT !.lines = n] \in WriterStates
            BY <4>1, <5>1 DEF WriterStates
          <5> QED
            BY <5>2 DEF n
        <4> QED
          BY <4>1, <4>2
      <3>2. PICK q \in WriterStates : Set(w, q)
        BY <2>5, <3>1 DEF write_event
      <3>3. AppendLine(w, redact_event(tw[w].held)) \in [Seqs -> [plain : LogFiles, gz : LogFiles]]
        BY <2>0, LogTypes DEF AppendLine, TraceTypeOK
      <3> QED
        BY <2>5, <3>2, <3>3, SetWriter DEF write_event, TraceTypeOK
    <2>6. CASE gzip_rename(w)
      <3>1. [tw[w] EXCEPT !.pc = "remove"] \in WriterStates
        BY <2>0 DEF WriterStates
      <3>2. logs' \in [Seqs -> [plain : LogFiles, gz : LogFiles]]
        BY <2>0, <2>6 DEF gzip_rename, TraceTypeOK
      <3> QED
        BY <2>6, <3>1, <3>2, SetWriter DEF gzip_rename, TraceTypeOK
    <2>7. CASE gzip_remove(w)
      <3>1. logs' \in [Seqs -> [plain : LogFiles, gz : LogFiles]]
        BY <2>0, <2>7, LogTypes DEF gzip_remove, TraceTypeOK
      <3>2. tw' \in [Writers -> WriterStates]
        <4>1. ASSUME NEW v \in Writers
              PROVE  /\ tw[v] \in WriterStates
                     /\ [tw[v] EXCEPT !.pc = "next gz"] \in WriterStates
                     /\ [tw[v] EXCEPT !.linked = FALSE] \in WriterStates
          BY ZenonT(30) DEF TraceTypeOK, WriterStates
        <4> HIDE DEF WriterStates
        <4> QED
          BY <2>7, <4>1 DEF gzip_remove
      <3> QED
        BY <2>7, <3>1, <3>2 DEF gzip_remove, TraceTypeOK
    <2>8. CASE gzip_fails(w)
      <3>1. [tw[w] EXCEPT !.pc = "next"] \in WriterStates
        BY <2>0 DEF WriterStates
      <3> QED
        BY <2>8, <3>1, SetWriter DEF gzip_fails, Goto_, TraceTypeOK
    <2>9. CASE rotate_opens(w)
      <3> DEFINE listed == tw[w].files \cup manifest_for_closed(tw[w].seq, tw[w].pc = "next gz")
                 l == IF tw[w].held # 0 THEN "write" ELSE "select"
      <3>1. listed \subseteq Listing
        BY <2>0, ClosedIsThere
      <3>2. [tw[w] EXCEPT !.files = listed] \in WriterStates
        <4> HIDE DEF listed
        <4> QED
          BY <2>0, <3>1 DEF WriterStates
      <3>3. CASE /\ tw[w].seq < MaxSeq /\ Open(w, tw[w].seq + 1, l, [tw[w] EXCEPT !.files = listed])
                 /\ write_manifest(listed)
        <4>0. tw[w].seq < MaxSeq
          BY <3>3
        <4>1. tw[w].seq + 1 \in Seqs /\ l \in {"select", "write"}
          BY <2>0, <4>0, TraceAssumption DEF Seqs
        <4> HIDE DEF listed, l
        <4>2. /\ logs' \in [Seqs -> [plain : LogFiles, gz : LogFiles]]
              /\ tw' \in [Writers -> WriterStates]
          BY <3>2, <3>3, <4>1, OpenTypes
        <4> QED
          BY <2>9, <3>1, <3>3, <4>2 DEF rotate_opens, write_manifest, TraceTypeOK
      <3>4. CASE Set(w, [tw[w] EXCEPT !.pc = "ended", !.held = 0]) /\ UNCHANGED <<logs, manifest>>
        <4>1. [tw[w] EXCEPT !.pc = "ended", !.held = 0] \in WriterStates
          BY <2>0 DEF WriterStates
        <4> QED
          BY <2>9, <3>4, <4>1, SetWriter DEF rotate_opens, TraceTypeOK
      <3> QED
        BY <2>9, <3>3, <3>4 DEF rotate_opens
    <2>10. CASE final_pops(w)
      <3>1. Head(tw[w].buffer) \in Nat /\ Tail(tw[w].buffer) \in Seq(Nat)
        BY <2>0, <2>10 DEF final_pops
      <3>2. [tw[w] EXCEPT !.held = Head(tw[w].buffer), !.buffer = Tail(@), !.pc = "last"]
                \in WriterStates
        BY <2>0, <3>1 DEF WriterStates
      <3> QED
        BY <2>10, <3>2, SetWriter DEF final_pops, TraceTypeOK
    <2>11. CASE final_manifest(w)
      <3>1. manifest' \subseteq Listing
        BY <2>0, <2>11, ClosedIsThere DEF final_manifest, write_manifest
      <3>2. [tw[w] EXCEPT !.pc = "ended", !.files = {}] \in WriterStates
        BY <2>0 DEF WriterStates
      <3> QED
        BY <2>11, <3>1, <3>2, SetWriter DEF final_manifest, TraceTypeOK
    <2> QED
      BY <2>1, <2>2, <2>3, <2>4, <2>5, <2>6, <2>7, <2>8, <2>9, <2>10, <2>11 DEF WriterStep
  <1> QED
    BY <1>1, <1>2, <1>3, <1>4, <1>5, <1>6, <1>7, <1>8 DEF TraceNext

\* One writer at a time, and the manifest true so far.
OneWriterTrue == OneLive /\ ListedAreThere /\ WriterIsPast

(* A step that leaves the manifest alone, and of the files at most the one  *)
(* a live writer has open.                                                  *)
LEMMA OpenFileOnly ==
    ASSUME TraceTypeOK, OneWriterTrue, manifest' = manifest,
           \/ logs' = logs
           \/ \E w \in Writers : Live(w) /\ \A s \in Seqs \ {tw[w].seq} : logs'[s] = logs[s],
           \A v \in Writers : Live(v)' => /\ Live(v) /\ tw'[v].seq = tw[v].seq
                                          /\ tw'[v].files = tw[v].files
    PROVE  OneWriterTrue'
  <1>1. OneLive'
    BY DEF OneWriterTrue, OneLive
  <1>2. ASSUME NEW m \in Listing, IsThere(m), \A v \in Writers : Live(v) => m.seq < tw[v].seq
        PROVE  IsThere(m)'
    <2>1. m.seq \in Seqs
      BY DEF Listing
    <2>2. logs'[m.seq] = logs[m.seq]
      <3>1. ASSUME NEW w \in Writers, Live(w), \A s \in Seqs \ {tw[w].seq} : logs'[s] = logs[s]
            PROVE  logs'[m.seq] = logs[m.seq]
        <4>1. m.seq < tw[w].seq /\ tw[w].seq \in Seqs
          BY <1>2, <3>1 DEF TraceTypeOK, WriterStates
        <4>2. m.seq # tw[w].seq
          BY <2>1, <4>1 DEF Seqs
        <4> QED
          BY <2>1, <3>1, <4>2
      <3> QED
        BY <3>1
    <2> QED
      BY <1>2, <2>2 DEF IsThere
  <1>3. \A m \in manifest : m \in Listing /\ IsThere(m) /\ \A v \in Writers : Live(v) => m.seq < tw[v].seq
    BY DEF TraceTypeOK, OneWriterTrue, ListedAreThere, WriterIsPast
  <1>4. ListedAreThere'
    BY <1>2, <1>3 DEF ListedAreThere
  <1>5. ASSUME NEW w \in Writers, Live(w)', NEW m \in tw'[w].files
        PROVE  m.seq < tw'[w].seq /\ IsThere(m)'
    <2>1. Live(w) /\ m \in tw[w].files /\ tw'[w].seq = tw[w].seq
      BY <1>5
    <2>2. m.seq < tw[w].seq /\ IsThere(m)
      BY <2>1 DEF OneWriterTrue, WriterIsPast
    <2>3. m \in Listing
      BY <2>1 DEF TraceTypeOK, WriterStates
    <2>4. \A v \in Writers : Live(v) => m.seq < tw[v].seq
      BY <2>1, <2>2 DEF OneWriterTrue, OneLive
    <2> QED
      BY <1>2, <2>1, <2>2, <2>3, <2>4
  <1>6. \A w \in Writers : Live(w)' => \A m \in manifest' : m.seq < tw'[w].seq
    BY <1>3
  <1>7. WriterIsPast'
    BY <1>5, <1>6 DEF WriterIsPast
  <1> QED
    BY <1>1, <1>4, <1>7 DEF OneWriterTrue

(* Every step, while one writer has had the directory at a time.             *)
LEMMA OneWriterStep ==
    ASSUME TraceTypeOK, TraceTypeOK', TraceInv, [TraceNext]_traceVars, ~doubled'
    PROVE  OneWriterTrue'
  <1> USE DEF traceVars, fileVars, queueVars, startVars
  <1>1. CASE UNCHANGED traceVars
    BY <1>1 DEF TraceInv, OneWriterTrue, OneLive, ListedAreThere, WriterIsPast, IsThere, Live
  <1>2. ASSUME NEW r \in Starters, get_or_start(r)
        PROVE  OneWriterTrue'
    BY <1>2 DEF get_or_start, TraceInv, OneWriterTrue, OneLive, ListedAreThere, WriterIsPast, IsThere, Live
  <1>3. ASSUME NEW r \in Starters, start_in_dir(r)
        PROVE  OneWriterTrue'
    <2> DEFINE k == started + 1
    <2>1. PICK n \in Seqs : scan_next_seq(n) /\ Set(k, [NoWriter EXCEPT !.pc = "open", !.seq = n])
      BY <1>3 DEF start_in_dir
    <2>2. k \in Writers
      BY <1>3, TraceAssumption DEF start_in_dir, TraceTypeOK, Writers
    <2>3. [NoWriter EXCEPT !.pc = "open", !.seq = n] \in WriterStates
      BY LogTypes DEF WriterStates
    <2> HIDE DEF k
    <2>4. /\ tw'[k] = [NoWriter EXCEPT !.pc = "open", !.seq = n]
          /\ \A v \in Writers \ {k} : tw'[v] = tw[v]
      BY <2>1, <2>2, <2>3, SetWriter
    <2>5. tw'[k].seq = n /\ tw'[k].files = {}
      BY <2>4 DEF NoWriter
    <2>6. ~doubled /\ \A v \in Writers : ~Live(v)
      BY <1>3 DEF start_in_dir, TraceTypeOK
    <2>7. \A v \in Writers : Live(v)' => v = k
      BY <2>4, <2>6 DEF Live
    <2>8. logs' = logs /\ manifest' = manifest
      BY <1>3 DEF start_in_dir
    <2>9. \A m \in manifest : IsThere(m) /\ m.seq \in Seqs /\ m.gzipped \in BOOLEAN
      BY <2>6 DEF TraceInv, TraceTypeOK, ListedAreThere, Listing
    <2>10. ASSUME NEW m \in manifest
           PROVE  m.seq < n
      <3>1. logs[m.seq] # NoLog
        BY <2>9 DEF IsThere, NoLog
      <3> QED
        BY <2>1, <2>9, <3>1 DEF scan_next_seq
    <2>11. OneLive'
      BY <2>7 DEF OneLive
    <2>12. ListedAreThere'
      BY <2>8, <2>9 DEF ListedAreThere, IsThere
    <2>13. WriterIsPast'
      BY <2>5, <2>7, <2>8, <2>10 DEF WriterIsPast
    <2> QED
      BY <2>11, <2>12, <2>13 DEF OneWriterTrue
  <1>4. ASSUME ~doubled
        PROVE  OneWriterTrue
    BY <1>4 DEF TraceInv, OneWriterTrue
  <1>5. ASSUME NEW w \in Writers, record(w)
        PROVE  OneWriterTrue'
    <2>1. \A v \in Writers : Live(v)' => /\ Live(v) /\ tw'[v].seq = tw[v].seq
                                         /\ tw'[v].files = tw[v].files
      <3>1. tw[w] \in WriterStates
        BY DEF TraceTypeOK
      <3>2. CASE tw' = tw
        BY <3>2 DEF Live
      <3>3. CASE Set(w, [tw[w] EXCEPT !.dropped = @ + 1])
        <4>1. \A v \in Writers : tw'[v] = IF v = w THEN [tw[w] EXCEPT !.dropped = @ + 1] ELSE tw[v]
          BY <3>3 DEF Set, TraceTypeOK
        <4>2. tw'[w].pc = tw[w].pc /\ tw'[w].seq = tw[w].seq /\ tw'[w].files = tw[w].files
          BY <3>1, <4>1 DEF WriterStates
        <4> QED
          BY <4>1, <4>2 DEF Live
      <3> QED
        BY <1>5, <3>2, <3>3 DEF record
    <2> QED
      BY <1>4, <1>5, <2>1, OpenFileOnly DEF record
  <1>6. ASSUME NEW w \in Writers, shutdown(w)
        PROVE  OneWriterTrue'
    <2>1. \A v \in Writers : Live(v)' => /\ Live(v) /\ tw'[v].seq = tw[v].seq
                                         /\ tw'[v].files = tw[v].files
      <3> DEFINE r == [tw[w] EXCEPT !.closing = (entry = w), !.told = TRUE]
      <3>1. tw[w] \in WriterStates
        BY DEF TraceTypeOK
      <3>2. r \in WriterStates /\ r.pc = tw[w].pc /\ r.seq = tw[w].seq /\ r.files = tw[w].files
        BY <3>1 DEF WriterStates
      <3>3. Set(w, r)
        BY <1>6 DEF shutdown
      <3> HIDE DEF r
      <3>4. tw'[w] = r /\ \A v \in Writers \ {w} : tw'[v] = tw[v]
        BY <3>2, <3>3, SetWriter
      <3> QED
        BY <3>2, <3>4 DEF Live
    <2> QED
      BY <1>4, <1>6, <2>1, OpenFileOnly DEF shutdown
  <1>7. CASE record_pushes
    <2>1. \A v \in Writers : /\ tw'[v].pc = tw[v].pc /\ tw'[v].seq = tw[v].seq
                             /\ tw'[v].files = tw[v].files
      <3>1. PICK w, b, d : Set(w, [tw[w] EXCEPT !.buffer = b, !.dropped = d]) /\ w = Head(racing)
        BY <1>7 DEF record_pushes
      <3>2. w \in Writers
        BY <1>7, <3>1 DEF record_pushes, TraceTypeOK
      <3>3. tw[w] \in WriterStates
        BY <3>2 DEF TraceTypeOK
      <3>4. \A v \in Writers : tw'[v] = IF v = w THEN [tw[w] EXCEPT !.buffer = b, !.dropped = d] ELSE tw[v]
        BY <3>1, <3>2 DEF Set, TraceTypeOK
      <3>5. tw'[w].pc = tw[w].pc /\ tw'[w].seq = tw[w].seq /\ tw'[w].files = tw[w].files
        BY <3>2, <3>3, <3>4 DEF WriterStates
      <3> QED
        BY <3>4, <3>5
    <2> QED
      BY <1>4, <1>7, <2>1, OpenFileOnly DEF record_pushes, Live
  <1>8. CASE trace_dies
    <2>1. \A v \in Writers : ~Live(v)'
      BY <1>8 DEF trace_dies, Live, NoWriter
    <2> QED
      BY <1>4, <1>8, <2>1, OpenFileOnly DEF trace_dies
  <1>9. ASSUME NEW w \in Writers, WriterStep(w)
        PROVE  OneWriterTrue'
    <2>0. tw[w] \in WriterStates /\ Live(w) /\ doubled' = doubled
      BY <1>9 DEF TraceTypeOK, WriterStep, writer_opens, writer_wakes, writer_pops, writer_empty,
         write_event, gzip_rename, gzip_remove, gzip_fails, rotate_opens, final_pops, final_manifest, Live
    <2> DEFINE s == tw[w].seq
    <2>01. OneWriterTrue /\ s \in Seqs /\ tw[w].files \subseteq Listing
      BY <1>4, <2>0 DEF WriterStates
    <2>02. ASSUME tw'[w].seq = s, tw'[w].files = tw[w].files, manifest' = manifest,
                  \A v \in Writers \ {w} : /\ tw'[v].pc = tw[v].pc /\ tw'[v].seq = tw[v].seq
                                           /\ tw'[v].files = tw[v].files,
                  \A t \in Seqs \ {s} : logs'[t] = logs[t]
           PROVE  OneWriterTrue'
      <3>1. \A v \in Writers : Live(v)' => /\ Live(v) /\ tw'[v].seq = tw[v].seq
                                           /\ tw'[v].files = tw[v].files
        BY <2>0, <2>02 DEF Live
      <3> QED
        BY <2>0, <2>01, <2>02, <3>1, OpenFileOnly
    \* A step that only moves the writer, or writes to the file it has open.
    <2>1. CASE writer_wakes(w) \/ writer_pops(w) \/ writer_empty(w) \/ gzip_fails(w) \/ final_pops(w)
      <3>1. /\ tw'[w].seq = s /\ tw'[w].files = tw[w].files
            /\ \A v \in Writers \ {w} : tw'[v] = tw[v]
        <4> DEFINE Moved(r) == r.seq = s /\ r.files = tw[w].files
        <4>1. /\ \A a : Moved([tw[w] EXCEPT !.pc = a])
              /\ \A a, b : Moved([tw[w] EXCEPT !.pc = a, !.last = b])
              /\ \A h, b, a : Moved([tw[w] EXCEPT !.held = h, !.buffer = b, !.pc = a])
          BY <2>0 DEF WriterStates
        <4>2. \E r : Moved(r) /\ Set(w, r)
          <5>1. CASE writer_wakes(w)
            BY <4>1, <5>1 DEF writer_wakes
          <5>2. CASE writer_pops(w)
            <6>1. PICK full \in should_rotate(w) :
                      Set(w, [tw[w] EXCEPT !.held = Head(tw[w].buffer), !.buffer = Tail(tw[w].buffer),
                                           !.pc = IF full THEN "gzip" ELSE "write"])
              BY <5>2 DEF writer_pops
            <6>2. Moved([tw[w] EXCEPT !.held = Head(tw[w].buffer), !.buffer = Tail(tw[w].buffer),
                                      !.pc = IF full THEN "gzip" ELSE "write"])
              BY <4>1
            <6> HIDE DEF Moved
            <6> QED
              BY <6>1, <6>2
          <5>3. CASE writer_empty(w)
            BY <4>1, <5>3 DEF writer_empty, Goto_
          <5>4. CASE gzip_fails(w)
            BY <4>1, <5>4 DEF gzip_fails, Goto_
          <5>5. CASE final_pops(w)
            <6>1. Set(w, [tw[w] EXCEPT !.held = Head(tw[w].buffer), !.buffer = Tail(tw[w].buffer),
                                       !.pc = "last"])
              BY <5>5 DEF final_pops
            <6>2. Moved([tw[w] EXCEPT !.held = Head(tw[w].buffer), !.buffer = Tail(tw[w].buffer),
                                      !.pc = "last"])
              BY <4>1
            <6> HIDE DEF Moved
            <6> QED
              BY <6>1, <6>2
          <5> QED
            BY <2>1, <5>1, <5>2, <5>3, <5>4, <5>5
        <4> QED
          BY <4>2 DEF Set, TraceTypeOK
      <3>2. logs' = logs /\ manifest' = manifest
        BY <2>1 DEF writer_wakes, writer_pops, writer_empty, gzip_fails, final_pops
      <3> QED
        BY <2>02, <3>1, <3>2
    <2>2. CASE write_event(w)
      <3>1. /\ tw'[w].seq = s /\ tw'[w].files = tw[w].files
            /\ \A v \in Writers \ {w} : tw'[v] = tw[v]
        <4> DEFINE q == [tw[w] EXCEPT !.held = 0, !.pc = IF @ = "last" THEN "final" ELSE "drain"]
        <4>1. q.seq = s /\ q.files = tw[w].files /\ q \in WriterStates
          BY <2>0 DEF WriterStates
        <4>2. Set(w, q) \/ Set(w, [q EXCEPT !.lines = @ + 1])
          BY <2>2 DEF write_event
        <4> HIDE DEF q
        <4>3. [q EXCEPT !.lines = @ + 1].seq = s /\ [q EXCEPT !.lines = @ + 1].files = tw[w].files
          BY <4>1 DEF WriterStates
        <4> QED
          BY <4>1, <4>2, <4>3 DEF Set, TraceTypeOK
      <3>2. \A t \in Seqs \ {s} : logs'[t] = logs[t]
        BY <2>2 DEF write_event, AppendLine, TraceTypeOK
      <3>3. manifest' = manifest
        BY <2>2 DEF write_event
      <3> QED
        BY <2>02, <3>1, <3>2, <3>3
    <2>3. CASE gzip_rename(w)
      <3>1. /\ tw'[w].seq = s /\ tw'[w].files = tw[w].files
            /\ \A v \in Writers \ {w} : tw'[v] = tw[v]
        BY <2>0, <2>3 DEF gzip_rename, Set, TraceTypeOK, WriterStates
      <3>2. (\A t \in Seqs \ {s} : logs'[t] = logs[t]) /\ manifest' = manifest
        BY <2>3 DEF gzip_rename, TraceTypeOK
      <3> QED
        BY <2>02, <3>1, <3>2
    <2>4. CASE gzip_remove(w)
      <3>1. /\ tw'[w].seq = s /\ tw'[w].files = tw[w].files
            /\ \A v \in Writers \ {w} : /\ tw'[v].pc = tw[v].pc /\ tw'[v].seq = tw[v].seq
                                        /\ tw'[v].files = tw[v].files
        <4>1. ASSUME NEW v \in Writers
              PROVE  /\ [tw[v] EXCEPT !.pc = "next gz"].seq = tw[v].seq
                     /\ [tw[v] EXCEPT !.pc = "next gz"].files = tw[v].files
                     /\ [tw[v] EXCEPT !.linked = FALSE].pc = tw[v].pc
                     /\ [tw[v] EXCEPT !.linked = FALSE].seq = tw[v].seq
                     /\ [tw[v] EXCEPT !.linked = FALSE].files = tw[v].files
          BY DEF TraceTypeOK, WriterStates
        <4>2. \A v \in Writers : tw'[v] = IF v = w THEN [tw[v] EXCEPT !.pc = "next gz"]
                                          ELSE IF tw[v].seq = tw[w].seq THEN [tw[v] EXCEPT !.linked = FALSE]
                                          ELSE tw[v]
          BY <2>4 DEF gzip_remove
        <4> QED
          BY <4>1, <4>2
      <3>2. (\A t \in Seqs \ {s} : logs'[t] = logs[t]) /\ manifest' = manifest
        BY <2>4 DEF gzip_remove, TraceTypeOK
      <3> QED
        BY <2>02, <3>1, <3>2
    \* The first file is opened, and the manifest is empty.
    <2>5. CASE writer_opens(w)
      <3>1. CASE Open(w, s, "select", tw[w]) /\ write_manifest({})
        <4>1. /\ \A t \in Seqs \ {s} : logs'[t] = logs[t]
              /\ \A v \in Writers \ {w} : tw'[v] = tw[v]
              /\ tw'[w].seq = s /\ tw'[w].files = tw[w].files
          BY <2>0, <2>01, <3>1, OpenTypes
        <4>2. manifest' = {}
          BY <3>1 DEF write_manifest
        <4>3. OneLive'
          BY <2>0, <2>01, <4>1 DEF OneWriterTrue, OneLive, Live
        <4>4. \A v \in Writers : Live(v)' => v = w
          BY <2>0, <2>01, <4>1 DEF OneWriterTrue, OneLive, Live
        <4>5. ASSUME NEW m \in tw'[w].files
              PROVE  m.seq < tw'[w].seq /\ IsThere(m)'
          <5>1. m \in tw[w].files /\ m \in Listing
            BY <2>01, <4>1
          <5>2. m.seq < s /\ IsThere(m) /\ m.seq \in Seqs
            BY <2>0, <2>01, <5>1 DEF OneWriterTrue, WriterIsPast, Listing
          <5>3. m.seq # s
            BY <2>01, <5>2 DEF Seqs
          <5>4. logs'[m.seq] = logs[m.seq]
            BY <4>1, <5>2, <5>3
          <5> QED
            BY <4>1, <5>2, <5>4 DEF IsThere
        <4> QED
          BY <4>2, <4>3, <4>4, <4>5 DEF OneWriterTrue, ListedAreThere, WriterIsPast
      <3>2. CASE Goto_(w, "ended") /\ UNCHANGED <<logs, manifest>>
        <4>1. /\ tw'[w].seq = s /\ tw'[w].files = tw[w].files
              /\ \A v \in Writers \ {w} : tw'[v] = tw[v]
          BY <2>0, <3>2 DEF Goto_, Set, TraceTypeOK, WriterStates
        <4> QED
          BY <2>02, <3>2, <4>1
      <3> QED
        BY <2>5, <3>1, <3>2 DEF writer_opens
    \* The closed file is listed, and the writer goes on to the next number.
    <2>6. CASE rotate_opens(w)
      <3> DEFINE closed == manifest_for_closed(s, tw[w].pc = "next gz")
                 listed == tw[w].files \cup closed
                 l == IF tw[w].held # 0 THEN "write" ELSE "select"
                 r == [tw[w] EXCEPT !.files = listed]
      <3>1. closed \subseteq Listing /\ \A m \in closed : m.seq = s /\ IsThere(m)
        BY <2>01, ClosedIsThere
      <3> HIDE DEF closed
      <3>2. \A m \in listed : m.seq < s + 1 /\ IsThere(m) /\ m \in Listing
        <4>1. \A m \in tw[w].files : m \in Listing /\ m.seq < s /\ m.seq \in Seqs /\ IsThere(m)
          BY <2>0, <2>01 DEF OneWriterTrue, WriterIsPast, Listing
        <4>2. \A m \in tw[w].files : m.seq < s + 1
          BY <2>01, <4>1 DEF Seqs
        <4>3. s < s + 1
          BY <2>01 DEF Seqs
        <4> QED
          BY <3>1, <4>1, <4>2, <4>3
      <3> HIDE DEF listed, l
      <3>3. CASE s < MaxSeq /\ Open(w, s + 1, l, r) /\ write_manifest(listed)
        <4>1. s + 1 \in Seqs
          BY <2>01, <3>3, TraceAssumption DEF Seqs
        <4>2. l \in {"select", "write"}
          BY DEF l
        <4>3. r \in WriterStates /\ r.files = listed
          BY <2>0, <3>2 DEF WriterStates
        <4>4. /\ \A t \in Seqs \ {s + 1} : logs'[t] = logs[t]
              /\ \A v \in Writers \ {w} : tw'[v] = tw[v]
              /\ tw'[w].seq = s + 1 /\ tw'[w].files = listed
          <5> HIDE DEF s, r
          <5>1. Open(w, s + 1, l, r)
            BY <3>3
          <5> QED
            BY <4>1, <4>2, <4>3, <5>1, OpenTypes
        <4>5. manifest' = listed
          BY <3>3 DEF write_manifest
        <4>6. OneLive' /\ \A v \in Writers : Live(v)' => v = w
          BY <2>0, <2>01, <4>4 DEF OneWriterTrue, OneLive, Live
        <4>7. ASSUME NEW m \in listed
              PROVE  IsThere(m)'
          <5>1. m.seq \in Seqs /\ m.seq # s + 1
            BY <2>01, <3>2 DEF Listing, Seqs
          <5>2. logs'[m.seq] = logs[m.seq]
            BY <4>4, <5>1
          <5> QED
            BY <3>2, <5>2 DEF IsThere
        <4> QED
          BY <3>2, <4>4, <4>5, <4>6, <4>7 DEF OneWriterTrue, ListedAreThere, WriterIsPast
      <3>4. CASE Set(w, [tw[w] EXCEPT !.pc = "ended", !.held = 0]) /\ UNCHANGED <<logs, manifest>>
        <4>1. /\ tw'[w].seq = s /\ tw'[w].files = tw[w].files
              /\ \A v \in Writers \ {w} : tw'[v] = tw[v]
          BY <2>0, <3>4 DEF Set, TraceTypeOK, WriterStates
        <4> QED
          BY <2>02, <3>4, <4>1
      <3> QED
        BY <2>6, <3>3, <3>4 DEF rotate_opens, listed, l, closed
    \* The last file is listed, and no writer is left.
    <2>7. CASE final_manifest(w)
      <3>1. /\ logs' = logs /\ manifest' = tw[w].files \cup manifest_for_closed(s, FALSE)
            /\ tw'[w].pc = "ended" /\ \A v \in Writers \ {w} : tw'[v] = tw[v]
        BY <2>0, <2>7 DEF final_manifest, write_manifest, Set, TraceTypeOK, WriterStates
      <3>2. \A v \in Writers : ~Live(v)'
        BY <2>0, <2>01, <3>1 DEF OneWriterTrue, OneLive, Live
      <3>3. \A m \in manifest' : IsThere(m)
        BY <2>0, <2>01, <3>1, ClosedIsThere DEF OneWriterTrue, WriterIsPast
      <3>4. ListedAreThere'
        BY <3>1, <3>3 DEF ListedAreThere, IsThere
      <3> QED
        BY <3>2, <3>4 DEF OneWriterTrue, OneLive, WriterIsPast
    <2> QED
      BY <1>9, <2>1, <2>2, <2>3, <2>4, <2>5, <2>6, <2>7 DEF WriterStep
  <1> QED
    BY <1>1, <1>2, <1>3, <1>5, <1>6, <1>7, <1>8, <1>9 DEF TraceNext

(* The trace begins with no writer and nothing listed.                      *)
LEMMA TraceInitially == TraceInit => TraceInv
  <1> SUFFICES ASSUME TraceInit PROVE TraceInv
    OBVIOUS
  <1>1. TraceTypeOK
    <2>1. logs \in [Seqs -> [plain : LogFiles, gz : LogFiles]]
      BY LogTypes DEF TraceInit, NoLog
    <2>2. racing \in Seq(Writers)
      BY DEF TraceInit
    <2> QED
      BY <2>1, <2>2, LogTypes DEF TraceInit, TraceTypeOK
  <1>2. \A w \in Writers : ~Live(w)
    BY DEF TraceInit, Live, NoWriter
  <1> QED
    BY <1>1, <1>2 DEF TraceInit, TraceInv, OneLive, ListedAreThere, WriterIsPast

(* Every step keeps it.                                                     *)
LEMMA TraceStep == TraceInv /\ [TraceNext]_traceVars => TraceInv'
  <1> SUFFICES ASSUME TraceInv, [TraceNext]_traceVars
               PROVE  TraceInv'
    OBVIOUS
  <1>1. TraceTypeOK'
    BY TraceTypes DEF TraceInv
  <1> QED
    BY <1>1, OneWriterStep DEF TraceInv, OneWriterTrue

(* The inductive invariant of the trace: its types and, while one writer    *)
(* has had the directory at a time, at most one live writer, every listed   *)
(* file there as listed, and the writer under way past all of them.         *)
THEOREM TraceInvariance == TraceSpec => []TraceInv
  BY TraceInitially, TraceStep, PTL DEF TraceSpec

(* What `ofa-replay verify` relies on (trace.rs: rotate, write_manifest,    *)
(* gzip_file): every file the manifest lists is there with the contents it  *)
(* was listed with, through rotations, failed compressions and deaths of    *)
(* the broker between any two steps, for any number of files, events and    *)
(* writers one after the other.                                             *)
THEOREM ManifestIsTrueSafety == TraceSpec => []ManifestIsTrue
  <1>1. TraceInv => ManifestIsTrue
    BY DEF TraceInv, ManifestIsTrue, ListedAreThere, IsThere
  <1> QED
    BY <1>1, TraceInvariance, PTL

----------------------------------------------------------------------------
(* The trace: reading the files back                                        *)

(* The number to begin an induction with.                                   *)
LEMMA LeastCase ==
    ASSUME NEW T, T \subseteq Nat, T # {}
    PROVE  \E m \in T : \A n \in T : m <= n
  <1>1. PICK m \in T : \A n \in T : ~(<<n, m>> \in OpToRel(<, Nat))
    BY NatLessThanWellFounded, WFMin, Zenon
  <1>2. \A n \in T : <<n, m>> \in OpToRel(<, Nat) <=> n < m
    BY DEF OpToRel
  <1>3. \A n \in T : ~(n < m)
    BY <1>1, <1>2, Zenon
  <1>4. \A n \in T : m <= n
    BY <1>3
  <1> QED
    BY <1>4

\* f concatenates the first i of the sequences s, for every i up to n.
Joins(f, s, n) == f = [i \in 1..n |-> IF i = 1 THEN s[i] ELSE f[i - 1] \o s[i]]

(* The recursion that FlattenSeq is defined by has a solution.              *)
LEMMA JoinsExist ==
    ASSUME NEW s
    PROVE  \A n \in Nat : \E f : Joins(f, s, n)
  <1> DEFINE T == {n \in Nat : ~\E f : Joins(f, s, n)}
  <1>1. ASSUME T # {} PROVE FALSE
    <2>1. PICK m \in T : \A n \in T : m <= n
      BY <1>1, LeastCase
    <2>2. m # 0
      <3>1. Joins([i \in 1..0 |-> s[i]], s, 0)
        BY DEF Joins
      <3> QED
        BY <2>1, <3>1
    <2>3. m - 1 \in Nat /\ m - 1 \notin T
      BY <2>1, <2>2
    <2>4. PICK f : Joins(f, s, m - 1)
      BY <2>3
    <2> DEFINE g == [i \in 1..m |-> IF i = m THEN IF m = 1 THEN s[m] ELSE f[m - 1] \o s[m] ELSE f[i]]
    <2>5. ASSUME NEW i \in 1..m
          PROVE  g[i] = IF i = 1 THEN s[i] ELSE g[i - 1] \o s[i]
      <3>1. CASE i = m
        BY <2>1, <2>2, <3>1
      <3>2. CASE i # m
        <4>1. i \in 1..(m - 1) /\ (i # 1 => i - 1 \in 1..(m - 1)) /\ i - 1 # m
          BY <2>1, <3>2
        <4>2. f[i] = IF i = 1 THEN s[i] ELSE f[i - 1] \o s[i]
          BY <2>4, <4>1 DEF Joins
        <4>3. i # 1 => i - 1 \in 1..m
          BY <2>1, <4>1
        <4> QED
          BY <3>2, <4>1, <4>2, <4>3
      <3> QED
        BY <3>1, <3>2
    <2>6. Joins(g, s, m)
      <3>1. g = [i \in 1..m |-> g[i]]
        OBVIOUS
      <3> HIDE DEF g
      <3> QED
        BY <2>5, <3>1 DEF Joins
    <2> QED
      BY <2>1, <2>6
  <1> QED
    BY <1>1

(* What FlattenSeq returns is the last of these.                            *)
LEMMA FlattenJoins ==
    ASSUME NEW s, Len(s) \in Nat \ {0}
    PROVE  \E f : Joins(f, s, Len(s)) /\ FlattenSeq(s) = f[Len(s)]
  <1> DEFINE F == CHOOSE f : f = [i \in 1..Len(s) |-> IF i = 1 THEN s[i] ELSE f[i - 1] \o s[i]]
  <1>1. FlattenSeq(s) = F[Len(s)]
    BY DEF FlattenSeq
  <1>2. Joins(F, s, Len(s))
    <2>1. \E f : f = [i \in 1..Len(s) |-> IF i = 1 THEN s[i] ELSE f[i - 1] \o s[i]]
      BY JoinsExist, Zenon DEF Joins
    <2>2. F = [i \in 1..Len(s) |-> IF i = 1 THEN s[i] ELSE F[i - 1] \o s[i]]
      BY <2>1, Zenon
    <2> QED
      BY <2>2, Zenon DEF Joins
  <1> QED
    BY <1>1, <1>2, Zenon

(* Every partial concatenation is a sequence.                               *)
LEMMA JoinsTypes ==
    ASSUME NEW A, NEW n \in Nat, NEW s \in [1..n -> Seq(A)], NEW f, Joins(f, s, n)
    PROVE  \A i \in 1..n : f[i] \in Seq(A)
  <1> DEFINE T == {i \in 1..n : f[i] \notin Seq(A)}
  <1>1. ASSUME T # {} PROVE FALSE
    <2>0. T \subseteq Nat
      OBVIOUS
    <2>1. PICK m \in T : \A i \in T : m <= i
      <3> HIDE DEF T
      <3> QED
        BY <1>1, <2>0, LeastCase
    <2>2. m \in 1..n /\ s[m] \in Seq(A) /\ f[m] = IF m = 1 THEN s[m] ELSE f[m - 1] \o s[m]
      BY <2>1 DEF Joins
    <2>3. m # 1
      BY <2>1, <2>2
    <2>4. m - 1 \in 1..n /\ m - 1 \notin T
      BY <2>1, <2>2, <2>3
    <2>5. f[m - 1] \in Seq(A)
      BY <2>4
    <2>6. f[m] \in Seq(A)
      BY <2>2, <2>3, <2>5
    <2> QED
      BY <2>1, <2>6
  <1> QED
    BY <1>1

(* Appending after concatenating.                                           *)
LEMMA AppendLast ==
    ASSUME NEW A, NEW s \in Seq(A), NEW t \in Seq(A), NEW e \in A
    PROVE  s \o Append(t, e) = Append(s \o t, e)
  <1>1. s \o t \in Seq(A) /\ Append(t, e) \in Seq(A)
    OBVIOUS
  <1>2. s \o Append(t, e) \in Seq(A) /\ Append(s \o t, e) \in Seq(A)
    BY <1>1
  <1>3. /\ Len(s) \in Nat /\ Len(t) \in Nat
        /\ Len(s \o Append(t, e)) = Len(s) + Len(t) + 1
        /\ Len(Append(s \o t, e)) = Len(s) + Len(t) + 1
    BY <1>1
  <1>4. \A i \in 1..(Len(s) + Len(t) + 1) : (s \o Append(t, e))[i] = Append(s \o t, e)[i]
    BY <1>1, <1>3
  <1> QED
    BY <1>2, <1>3, <1>4, SeqEqual

\* The sequences t are the sequences s with e appended to the last that is not empty.
LastExtended(A, n, s, t, k, e) ==
    /\ n \in Nat \ {0} /\ s \in [1..n -> Seq(A)] /\ t \in [1..n -> Seq(A)]
    /\ k \in 1..n /\ e \in A
    /\ t[k] = Append(s[k], e) /\ \A i \in (1..n) \ {k} : t[i] = s[i]
    /\ \A i \in 1..n : i > k => s[i] = <<>>

(* A line appended to the last file that is not empty is appended to the    *)
(* concatenation of all the files.                                          *)
LEMMA FlattenAppends ==
    ASSUME NEW A, NEW n, NEW s, NEW t, NEW k, NEW e, LastExtended(A, n, s, t, k, e)
    PROVE  FlattenSeq(t) = Append(FlattenSeq(s), e) /\ FlattenSeq(s) \in Seq(A)
  <1>0. /\ n \in Nat \ {0} /\ s \in [1..n -> Seq(A)] /\ t \in [1..n -> Seq(A)]
        /\ k \in 1..n /\ e \in A
        /\ t[k] = Append(s[k], e) /\ \A i \in (1..n) \ {k} : t[i] = s[i]
        /\ \A i \in 1..n : i > k => s[i] = <<>>
    BY DEF LastExtended
  <1> USE <1>0
  <1>1. Len(s) = n /\ Len(t) = n
    OBVIOUS
  <1>2. PICK f : Joins(f, s, n) /\ FlattenSeq(s) = f[n]
    BY <1>1, FlattenJoins
  <1>3. PICK g : Joins(g, t, n) /\ FlattenSeq(t) = g[n]
    BY <1>1, FlattenJoins
  <1>4. \A i \in 1..n : f[i] \in Seq(A)
    BY <1>2, JoinsTypes
  <1> DEFINE T == {i \in 1..n : g[i] # IF i < k THEN f[i] ELSE Append(f[i], e)}
  <1>5. ASSUME T # {} PROVE FALSE
    <2>0. T \subseteq Nat
      OBVIOUS
    <2>1. PICK m \in T : \A i \in T : m <= i
      <3> HIDE DEF T
      <3> QED
        BY <1>5, <2>0, LeastCase
    <2>2. m \in 1..n /\ g[m] # IF m < k THEN f[m] ELSE Append(f[m], e)
      BY <2>1
    <2>3. /\ f[m] = IF m = 1 THEN s[m] ELSE f[m - 1] \o s[m]
          /\ g[m] = IF m = 1 THEN t[m] ELSE g[m - 1] \o t[m]
      BY <1>2, <1>3, <2>2 DEF Joins
    <2>4. m # 1 => g[m - 1] = IF m - 1 < k THEN f[m - 1] ELSE Append(f[m - 1], e)
      BY <2>1, <2>2
    <2>5. m # 1 => m - 1 \in 1..n /\ f[m - 1] \in Seq(A)
      BY <1>4, <2>2
    <2>6. CASE m < k
      <3>1. t[m] = s[m]
        BY <2>2, <2>6
      <3>2. m # 1 => g[m - 1] = f[m - 1]
        BY <2>2, <2>4, <2>6
      <3> QED
        BY <2>2, <2>3, <2>6, <3>1, <3>2
    <2>7. CASE m = k
      <3>1. m # 1 => g[m - 1] = f[m - 1]
        BY <2>2, <2>4, <2>7
      <3>2. m # 1 => f[m - 1] \o Append(s[m], e) = Append(f[m - 1] \o s[m], e)
        <4> SUFFICES ASSUME m # 1 PROVE f[m - 1] \o Append(s[m], e) = Append(f[m - 1] \o s[m], e)
          OBVIOUS
        <4>1. f[m - 1] \in Seq(A) /\ s[m] \in Seq(A)
          BY <2>2, <2>5
        <4> DEFINE a == f[m - 1]
                   b == s[m]
        <4>2. a \in Seq(A) /\ b \in Seq(A) /\ e \in A
          BY <4>1
        <4> HIDE DEF T, a, b
        <4>3. a \o Append(b, e) = Append(a \o b, e)
          BY <4>2, AppendLast
        <4> QED
          BY <4>3 DEF a, b
      <3>3. t[m] = Append(s[m], e) /\ ~(m < k)
        BY <2>2, <2>7
      <3> HIDE DEF T
      <3> QED
        BY <2>2, <2>3, <3>1, <3>2, <3>3
    <2>8. CASE m > k
      <3>0. m # k /\ m # 1 /\ ~(m < k) /\ ~(m - 1 < k)
        BY <2>2, <2>8
      <3>01. s[m] = <<>>
        BY <2>2, <2>8
      <3>02. t[m] = s[m]
        BY <2>2, <3>0
      <3>1. s[m] = <<>> /\ t[m] = <<>> /\ m # 1 /\ ~(m < k) /\ ~(m - 1 < k)
        BY <3>0, <3>01, <3>02
      <3>2. g[m - 1] = Append(f[m - 1], e) /\ f[m - 1] \in Seq(A)
        BY <2>4, <2>5, <3>1
      <3>20. Append(f[m - 1], e) \in Seq(A)
        BY <3>2
      <3>3. f[m - 1] \o <<>> = f[m - 1] /\ Append(f[m - 1], e) \o <<>> = Append(f[m - 1], e)
        BY <3>2, <3>20, ConcatEmptySeq
      <3> QED
        BY <2>2, <2>3, <3>1, <3>2, <3>3
    <2> QED
      BY <2>2, <2>6, <2>7, <2>8
  <1>6. g[n] = Append(f[n], e)
    <2>1. ~(n < k) /\ n \in 1..n
      OBVIOUS
    <2>2. T = {}
      BY <1>5
    <2> QED
      BY <2>1, <2>2
  <1> QED
    BY <1>2, <1>3, <1>4, <1>6

(* Empty files hold nothing.                                                *)
LEMMA FlattenNothing ==
    ASSUME NEW n \in Nat \ {0}
    PROVE  FlattenSeq([i \in 1..n |-> <<>>]) = <<>>
  <1> DEFINE s == [i \in 1..n |-> <<>>]
  <1>1. Len(s) = n
    OBVIOUS
  <1>2. PICK f : Joins(f, s, n) /\ FlattenSeq(s) = f[n]
    BY <1>1, FlattenJoins
  <1> DEFINE T == {i \in 1..n : f[i] # <<>>}
  <1>3. ASSUME T # {} PROVE FALSE
    <2>0. T \subseteq Nat
      OBVIOUS
    <2>1. PICK m \in T : \A i \in T : m <= i
      <3> HIDE DEF T
      <3> QED
        BY <1>3, <2>0, LeastCase
    <2>2. m \in 1..n /\ f[m] # <<>> /\ f[m] = IF m = 1 THEN <<>> ELSE f[m - 1] \o <<>>
      BY <1>2, <2>1 DEF Joins
    <2>3. f[m - 1] = <<>>
      BY <2>1, <2>2
    <2> QED
      BY <2>2, <2>3
  <1> QED
    BY <1>2, <1>3

\* The steps at which the writer has its file open, and uncompressed.
FileIsOpen == {"select", "drain", "write", "gzip", "next", "final", "last"}
\* With one writer at a time, no file has a number above the writer's, and its own is
\* there in one form, but between the two steps of gzip_file.
FilesInTurn ==
    \A w \in Writers : Live(w) =>
        LET f == logs[tw[w].seq]
        IN  /\ tw[w].linked
            /\ \A s \in Seqs : s > tw[w].seq => logs[s] = NoLog
            /\ tw[w].pc = "open" => f = NoLog
            /\ tw[w].pc \in FileIsOpen => f.plain # None0 /\ f.gz = None0
            /\ tw[w].pc = "remove" => f.plain # None0 /\ f.gz = f.plain
\* What was written, what the writer holds and what it is still to pop follow one
\* another.
Ascending(q) == \A i, j \in DOMAIN q : i < j => q[i] < q[j]
WrittenInOrder == Ascending(written) /\ \A i \in DOMAIN written : written[i] <= recorded
WriterInOrder(w) ==
    /\ Ascending(tw[w].buffer)
    /\ \A j \in DOMAIN tw[w].buffer : tw[w].buffer[j] # 0 /\ tw[w].buffer[j] <= recorded
    /\ \A i \in DOMAIN written, j \in DOMAIN tw[w].buffer : written[i] < tw[w].buffer[j]
    /\ tw[w].held <= recorded
    /\ tw[w].held # 0 => /\ \A i \in DOMAIN written : written[i] < tw[w].held
                         /\ \A j \in DOMAIN tw[w].buffer : tw[w].held < tw[w].buffer[j]
    /\ tw[w].pc \in {"write", "last"} => tw[w].held # 0
EventsInOrder == WrittenInOrder /\ \A w \in Writers : Live(w) => WriterInOrder(w)
FilesHoldWritten == Replay = [i \in DOMAIN written |-> redact_event(written[i])]
ReplayInv ==
    /\ TraceInv /\ written \in Seq(Nat)
    /\ ~doubled => FilesInTurn /\ EventsInOrder /\ FilesHoldWritten

----------------------------------------------------------------------------
(* The trace: steps of the replay                                           *)

\* What the reader gets from the file numbered s.
Shown(s) == LET f == Form(logs[s]) IN IF f = None0 THEN <<>> ELSE f
AllShown == [i \in 1..(MaxSeq + 1) |-> Shown(i - 1)]

LEMMA ShownTypes ==
    ASSUME TraceTypeOK
    PROVE  /\ \A s \in Seqs : Shown(s) \in LogFiles
           /\ MaxSeq + 1 \in Nat \ {0}
           /\ AllShown \in [1..(MaxSeq + 1) -> LogFiles]
           /\ \A i \in 1..(MaxSeq + 1) : i - 1 \in Seqs
  <1>1. ASSUME NEW s \in Seqs PROVE Shown(s) \in LogFiles
    <2>1. logs[s].plain \in LogFiles /\ logs[s].gz \in LogFiles
      BY DEF TraceTypeOK
    <2>2. <<>> \in LogFiles
      BY LogTypes
    <2> QED
      BY <2>1, <2>2 DEF Shown, Form
  <1>2. MaxSeq + 1 \in Nat \ {0}
    BY TraceAssumption
  <1>3. \A i \in 1..(MaxSeq + 1) : i - 1 \in Seqs
    BY TraceAssumption DEF Seqs
  <1> QED
    BY <1>1, <1>2, <1>3 DEF AllShown

(* The replay changes with what is shown alone.                             *)
LEMMA ReplayKept ==
    ASSUME \A s \in Seqs : Shown(s)' = Shown(s), TraceTypeOK
    PROVE  Replay' = Replay
  <1>1. Replay = FlattenSeq(AllShown)
    BY DEF Replay, AllShown, Shown
  <1>2. Replay' = FlattenSeq(AllShown)'
    BY DEF Replay, AllShown, Shown
  <1>3. AllShown' = AllShown
    BY ShownTypes DEF AllShown
  <1> QED
    BY <1>1, <1>2, <1>3

(* The file numbered k is the one at k + 1.                                 *)
LEMMA FileNumbers ==
    \A m \in Nat : \A k \in 0..m :
        /\ k + 1 \in 1..(m + 1) /\ (k + 1) - 1 = k
        /\ \A i \in 1..(m + 1) : (i # k + 1 => i - 1 # k) /\ (i > k + 1 => i - 1 > k)
  OBVIOUS

(* A line written at the end of the newest file is the last of the replay.  *)
LEMMA ReplayAppends ==
    ASSUME TraceTypeOK, NEW k \in Seqs, NEW e \in Nat \X {"none", "redacted", "as is"},
           Shown(k)' = Append(Shown(k), e), \A s \in Seqs \ {k} : Shown(s)' = Shown(s),
           \A s \in Seqs : s > k => Shown(s) = <<>>
    PROVE  Replay' = Append(Replay, e) /\ Replay \in LogFiles
  <1>1. Replay = FlattenSeq(AllShown)
    BY DEF Replay, AllShown, Shown
  <1>2. Replay' = FlattenSeq(AllShown)'
    BY DEF Replay, AllShown, Shown
  <1> DEFINE n == MaxSeq + 1
             s == AllShown
             t == AllShown'
             A == Nat \X {"none", "redacted", "as is"}
             c == k + 1
  <1>3. LogFiles = Seq(A)
    BY DEF LogFiles
  <1>4. n \in Nat \ {0} /\ s \in [1..n -> Seq(A)] /\ t \in [1..n -> Seq(A)]
    <2>1. \A x \in Seqs : Shown(x)' \in LogFiles
      <3>1. Shown(k) \in LogFiles
        BY ShownTypes
      <3>2. Append(Shown(k), e) \in LogFiles
        BY <3>1, LogTypes
      <3> QED
        BY <3>2, ShownTypes
    <2>2. t \in [1..n -> LogFiles]
      BY <2>1, ShownTypes DEF AllShown
    <2> QED
      BY <1>3, <2>2, ShownTypes
  <1>5. /\ c \in 1..n /\ e \in A /\ c - 1 = k
        /\ \A i \in 1..n : i - 1 \in Seqs /\ (i # c => i - 1 # k) /\ (i > c => i - 1 > k)
    <2>1. k \in 0..MaxSeq /\ MaxSeq \in Nat
      BY TraceAssumption DEF Seqs
    <2>2. c \in 1..n /\ c - 1 = k /\ \A i \in 1..n : (i # c => i - 1 # k) /\ (i > c => i - 1 > k)
      BY <2>1, FileNumbers
    <2>3. \A i \in 1..n : i - 1 \in Seqs
      BY ShownTypes
    <2> QED
      BY <2>2, <2>3
  <1>6. \A i \in 1..n : s[i] = Shown(i - 1) /\ t[i] = Shown(i - 1)'
    BY DEF AllShown
  <1>7. t[c] = Append(s[c], e)
    <2>1. s[c] = Shown(k) /\ t[c] = Shown(k)'
      BY <1>5, <1>6
    <2> QED
      BY <2>1
  <1>8. \A i \in (1..n) \ {c} : t[i] = s[i]
    <2> TAKE i \in (1..n) \ {c}
    <2>1. i - 1 \in Seqs \ {k}
      BY <1>5
    <2>2. Shown(i - 1)' = Shown(i - 1)
      BY <2>1
    <2> QED
      BY <1>6, <2>2
  <1>9. \A i \in 1..n : i > c => s[i] = <<>>
    BY <1>5, <1>6
  <1> HIDE DEF n, s, t, A, c
  <1>10. FlattenSeq(t) = Append(FlattenSeq(s), e) /\ FlattenSeq(s) \in Seq(A)
    <2>1. LastExtended(A, n, s, t, c, e)
      BY <1>4, <1>5, <1>7, <1>8, <1>9 DEF LastExtended
    <2> QED
      BY <2>1, FlattenAppends
  <1> QED
    BY <1>1, <1>2, <1>3, <1>10 DEF s, t

(* A step that leaves the files alone, and of the writers keeps which file  *)
(* each has and whether it is open.                                         *)
LEMMA FilesQuiet ==
    ASSUME TraceTypeOK, FilesInTurn, logs' = logs,
           \A v \in Writers : Live(v)' =>
               /\ Live(v) /\ tw'[v].seq = tw[v].seq /\ tw'[v].linked = tw[v].linked
               /\ tw'[v].pc = tw[v].pc \/ {tw[v].pc, tw'[v].pc} \subseteq FileIsOpen
    PROVE  FilesInTurn' /\ Replay' = Replay
  <1>1. ASSUME NEW v \in Writers, Live(v)'
        PROVE  LET f == logs'[tw'[v].seq]
               IN  /\ tw'[v].linked
                   /\ \A s \in Seqs : s > tw'[v].seq => logs'[s] = NoLog
                   /\ tw'[v].pc = "open" => f = NoLog
                   /\ tw'[v].pc \in FileIsOpen => f.plain # None0 /\ f.gz = None0
                   /\ tw'[v].pc = "remove" => f.plain # None0 /\ f.gz = f.plain
    <2>1. /\ Live(v) /\ tw'[v].seq = tw[v].seq /\ tw'[v].linked = tw[v].linked
          /\ tw'[v].pc = tw[v].pc \/ {tw[v].pc, tw'[v].pc} \subseteq FileIsOpen
      BY <1>1
    <2>2. "open" \notin FileIsOpen /\ "remove" \notin FileIsOpen
      BY DEF FileIsOpen
    <2> QED
      BY <2>1, <2>2 DEF FilesInTurn
  <1>2. FilesInTurn'
    BY <1>1 DEF FilesInTurn
  <1>3. Replay' = Replay
    BY ReplayKept DEF Shown, Form
  <1> QED
    BY <1>2, <1>3

(* A step that writes and pops nothing.                                     *)
LEMMA EventsQuiet ==
    ASSUME TraceTypeOK, EventsInOrder, written \in Seq(Nat), written' = written,
           recorded' \in Nat, recorded <= recorded',
           \A v \in Writers : Live(v)' =>
               /\ Live(v) /\ tw'[v].buffer = tw[v].buffer /\ tw'[v].held \in {tw[v].held, 0}
               /\ tw'[v].pc \in {"write", "last"} => tw'[v].held # 0
    PROVE  EventsInOrder'
  <1>0. recorded \in Nat /\ \A i \in DOMAIN written : written[i] \in Nat
    BY DEF TraceTypeOK
  <1>1. WrittenInOrder'
    BY <1>0 DEF EventsInOrder, WrittenInOrder, Ascending
  <1>2. ASSUME NEW v \in Writers, Live(v)'
        PROVE  WriterInOrder(v)'
    <2>1. tw[v].buffer \in Seq(Nat) /\ tw[v].held \in Nat
      BY DEF TraceTypeOK, WriterStates
    <2>2. /\ Live(v) /\ tw'[v].buffer = tw[v].buffer /\ tw'[v].held \in {tw[v].held, 0}
          /\ tw'[v].pc \in {"write", "last"} => tw'[v].held # 0
      BY <1>2
    <2>3. WriterInOrder(v)
      BY <2>2 DEF EventsInOrder
    <2>4. /\ \A j \in DOMAIN tw[v].buffer : tw[v].buffer[j] \in Nat
          /\ 0 <= recorded'
      BY <2>1
    <2>5. \A j \in DOMAIN tw[v].buffer : tw[v].buffer[j] # 0 /\ tw[v].buffer[j] <= recorded'
      BY <1>0, <2>3, <2>4 DEF WriterInOrder
    <2>6. tw'[v].held <= recorded'
      <3>1. tw[v].held <= recorded
        BY <2>3 DEF WriterInOrder
      <3> QED
        BY <1>0, <2>1, <2>2, <2>4, <3>1
    <2>7. Ascending(tw[v].buffer)
      BY <2>3 DEF WriterInOrder
    <2> QED
      BY <2>2, <2>3, <2>5, <2>6 DEF WriterInOrder, Ascending
  <1> QED
    BY <1>1, <1>2 DEF EventsInOrder

(* The writer takes the oldest event of its buffer.                         *)
LEMMA EventPopped ==
    ASSUME TraceTypeOK, EventsInOrder, written \in Seq(Nat), written' = written, recorded' = recorded,
           NEW w \in Writers, Live(w), tw[w].buffer # <<>>,
           tw'[w].held = Head(tw[w].buffer), tw'[w].buffer = Tail(tw[w].buffer),
           \A v \in Writers \ {w} : ~Live(v)'
    PROVE  EventsInOrder'
  <1> DEFINE b == tw[w].buffer
             c == Tail(b)
  <1>0. b \in Seq(Nat) /\ recorded \in Nat
    BY DEF TraceTypeOK, WriterStates
  <1>1. /\ b \in Seq(Nat) /\ recorded \in Nat /\ Len(b) \in Nat \ {0}
        /\ \A i \in DOMAIN written : written[i] \in Nat
    BY <1>0
  <1>2. WriterInOrder(w) /\ WrittenInOrder
    BY DEF EventsInOrder
  <1>3. /\ Head(b) = b[1] /\ 1 \in DOMAIN b
        /\ \A j \in DOMAIN c : c[j] = b[j + 1] /\ j + 1 \in DOMAIN b /\ j \in Nat /\ 1 < j + 1
    BY <1>1
  <1>4. \A j \in DOMAIN b : b[j] \in Nat /\ b[j] # 0 /\ b[j] <= recorded
    BY <1>1, <1>2 DEF WriterInOrder
  <1>5. \A i, j \in DOMAIN b : i < j => b[i] < b[j]
    BY <1>2 DEF WriterInOrder, Ascending
  <1>6. \A i \in DOMAIN written, j \in DOMAIN b : written[i] < b[j]
    BY <1>2 DEF WriterInOrder
  <1>7. tw'[w].held = b[1] /\ tw'[w].buffer = c
    BY <1>3
  <1> HIDE DEF b, c
  <1>8. \A i, j \in DOMAIN c : i < j => c[i] < c[j]
    <2> TAKE i, j \in DOMAIN c
    <2> HAVE i < j
    <2>1. i + 1 < j + 1
      BY <1>3
    <2> QED
      BY <1>3, <1>5, <2>1
  <1>9. \A j \in DOMAIN c : b[1] < c[j] /\ c[j] # 0 /\ c[j] <= recorded
    BY <1>3, <1>4, <1>5
  <1>10. \A i \in DOMAIN written : written[i] < b[1] /\ \A j \in DOMAIN c : written[i] < c[j]
    BY <1>3, <1>6
  <1>11. WriterInOrder(w)'
    BY <1>3, <1>4, <1>7, <1>8, <1>9, <1>10 DEF WriterInOrder, Ascending
  <1>12. WrittenInOrder'
    BY <1>2 DEF WrittenInOrder, Ascending
  <1> QED
    BY <1>11, <1>12 DEF EventsInOrder

(* The event that the writer holds is written.                              *)
LEMMA EventWritten ==
    ASSUME TraceTypeOK, EventsInOrder, written \in Seq(Nat), recorded' = recorded,
           NEW w \in Writers, Live(w), tw[w].held # 0, written' = Append(written, tw[w].held),
           tw'[w].held = 0, tw'[w].buffer = tw[w].buffer, tw'[w].pc \notin {"write", "last"},
           \A v \in Writers \ {w} : ~Live(v)'
    PROVE  EventsInOrder'
  <1> DEFINE h == tw[w].held
             b == tw[w].buffer
             u == Append(written, h)
  <1>1. h \in Nat /\ b \in Seq(Nat) /\ recorded \in Nat
    BY DEF TraceTypeOK, WriterStates
  <1>2. WriterInOrder(w) /\ WrittenInOrder
    BY DEF EventsInOrder
  <1>3. h <= recorded /\ \A i \in DOMAIN written : written[i] < h /\ written[i] <= recorded
    BY <1>2 DEF WriterInOrder, WrittenInOrder
  <1>4. \A j \in DOMAIN b : h < b[j] /\ b[j] # 0 /\ b[j] <= recorded
    BY <1>2 DEF WriterInOrder
  <1>5. \A i \in DOMAIN written, j \in DOMAIN b : written[i] < b[j]
    BY <1>2 DEF WriterInOrder
  <1>50. \A i, j \in DOMAIN written : i < j => written[i] < written[j]
    BY <1>2 DEF WrittenInOrder, Ascending
  <1>51. Ascending(b)
    BY <1>2 DEF WriterInOrder
  <1>52. written' = u /\ tw'[w].buffer = b
    OBVIOUS
  <1> HIDE DEF h, b
  <1>6. \A i \in DOMAIN u : IF i \in DOMAIN written THEN u[i] = written[i]
                            ELSE u[i] = h /\ \A j \in DOMAIN u : ~(i < j)
    <2>1. Len(written) \in Nat /\ DOMAIN written = 1..Len(written)
      OBVIOUS
    <2>2. DOMAIN u = 1..(Len(written) + 1) /\ u[Len(written) + 1] = h
          /\ \A i \in 1..Len(written) : u[i] = written[i]
      BY <1>1, <2>1
    <2> HIDE DEF u
    <2> QED
      BY <2>1, <2>2
  <1>60. \A i, j \in DOMAIN u : i < j => i \in DOMAIN written
    BY <1>6
  <1> HIDE DEF u
  <1>7. \A i, j \in DOMAIN u : i < j => u[i] < u[j]
    BY <1>3, <1>50, <1>6, <1>60
  <1>8. \A i \in DOMAIN u : u[i] <= recorded /\ \A j \in DOMAIN b : u[i] < b[j]
    BY <1>3, <1>4, <1>5, <1>6
  <1>9. WrittenInOrder'
    BY <1>52, <1>7, <1>8 DEF WrittenInOrder, Ascending
  <1>10. WriterInOrder(w)'
    <2>1. 0 <= recorded
      BY <1>1
    <2> QED
      BY <1>4, <1>51, <1>52, <1>8, <2>1 DEF WriterInOrder, Ascending
  <1> QED
    BY <1>9, <1>10 DEF EventsInOrder

(* An event is recorded into the buffer of a writer, which drops its oldest.*)
LEMMA EventPushed ==
    ASSUME TraceTypeOK, EventsInOrder, written \in Seq(Nat), record_pushes
    PROVE  EventsInOrder'
  <1> DEFINE w == Head(racing)
             b == tw[w].buffer
             full == Len(b) >= BufferCap
             a == IF full THEN Tail(b) ELSE b
             d == IF full THEN tw[w].dropped + 1 ELSE tw[w].dropped
             n == recorded + 1
             c == Append(a, n)
  <1>1. w \in Writers /\ recorded \in Nat /\ n \in Nat /\ n > recorded /\ n # 0
    BY DEF TraceTypeOK, record_pushes
  <1>2. tw[w] \in WriterStates /\ b \in Seq(Nat)
    BY <1>1 DEF TraceTypeOK, WriterStates
  <1>3. tw' = [tw EXCEPT ![w] = [tw[w] EXCEPT !.buffer = c, !.dropped = d]]
    BY DEF record_pushes, Set
  <1>4. recorded' = n /\ written' = written
    BY DEF record_pushes, fileVars
  <1>5. /\ a \in Seq(Nat)
        /\ Ascending(b) => Ascending(a)
        /\ \A j \in DOMAIN a : \E k \in DOMAIN b : a[j] = b[k]
    <2>1. CASE ~full
      BY <1>2, <2>1
    <2>2. CASE full
      <3>1. Len(b) \in Nat \ {0}
        BY <1>2, <2>2, TraceAssumption
      <3>2. a = Tail(b) /\ \A j \in DOMAIN Tail(b) : Tail(b)[j] = b[j + 1] /\ j + 1 \in DOMAIN b /\ j \in Nat
        BY <1>2, <2>2, <3>1
      <3>3. Tail(b) \in Seq(Nat)
        BY <1>2, <3>1
      <3>4. ASSUME NEW i \in DOMAIN a, NEW j \in DOMAIN a, i < j, Ascending(b)
            PROVE  a[i] < a[j]
        <4>0. /\ a[i] = b[i + 1] /\ i + 1 \in DOMAIN b /\ i \in Nat
              /\ a[j] = b[j + 1] /\ j + 1 \in DOMAIN b /\ j \in Nat
          <5> HIDE DEF a, b
          <5> QED
            BY <3>2, <3>4
        <4>1. i + 1 < j + 1
          BY <3>4, <4>0
        <4> HIDE DEF a, b
        <4> QED
          BY <3>4, <4>0, <4>1 DEF Ascending
      <3>5. Ascending(b) => Ascending(a)
        BY <3>4 DEF Ascending
      <3> QED
        BY <3>2, <3>3, <3>5
    <2> QED
      BY <2>1, <2>2
  <1> HIDE DEF a, d, w, n
  <1>6. \A v \in Writers : /\ tw'[v].pc = tw[v].pc /\ tw'[v].held = tw[v].held
                           /\ tw'[v].buffer = IF v = w THEN c ELSE tw[v].buffer
    <2> HIDE DEF c
    <2>1. \A v \in Writers : tw[v] \in WriterStates
      BY DEF TraceTypeOK
    <2>2. \A v \in Writers : tw'[v] = IF v = w THEN [tw[w] EXCEPT !.buffer = c, !.dropped = d] ELSE tw[v]
      BY <1>1, <1>3 DEF TraceTypeOK
    <2> TAKE v \in Writers
    <2>3. /\ [tw[w] EXCEPT !.buffer = c, !.dropped = d].pc = tw[w].pc
          /\ [tw[w] EXCEPT !.buffer = c, !.dropped = d].held = tw[w].held
          /\ [tw[w] EXCEPT !.buffer = c, !.dropped = d].buffer = c
      BY <1>2 DEF WriterStates
    <2> QED
      BY <2>2, <2>3
  <1>7. \A j \in DOMAIN c : IF j \in DOMAIN a THEN c[j] = a[j] ELSE c[j] = n /\ \A i \in DOMAIN c : ~(j < i)
    <2>1. Len(a) \in Nat /\ DOMAIN a = 1..Len(a)
      BY <1>5
    <2>2. DOMAIN c = 1..(Len(a) + 1) /\ c[Len(a) + 1] = n /\ \A i \in 1..Len(a) : c[i] = a[i]
      BY <1>1, <1>5, <2>1
    <2> HIDE DEF c
    <2> QED
      BY <2>1, <2>2
  <1>70. \A j, i \in DOMAIN c : j < i => j \in DOMAIN a
    BY <1>7
  <1> HIDE DEF c, b
  <1>8. ASSUME NEW v \in Writers, Live(v)'
        PROVE  WriterInOrder(v)'
    <2>1. Live(v) /\ WriterInOrder(v)
      BY <1>6, <1>8 DEF Live, EventsInOrder
    <2>2. tw[v].buffer \in Seq(Nat) /\ tw[v].held \in Nat
      BY DEF TraceTypeOK, WriterStates
    <2>3. /\ \A i \in DOMAIN written : written[i] \in Nat /\ written[i] <= recorded
          /\ tw[v].held <= recorded
      BY <2>1 DEF EventsInOrder, WrittenInOrder, WriterInOrder
    <2>4. CASE v # w
      <3>1. tw'[v].buffer = tw[v].buffer /\ tw'[v].held = tw[v].held /\ tw'[v].pc = tw[v].pc
        BY <1>6, <2>4
      <3>2. \A j \in DOMAIN tw[v].buffer : tw[v].buffer[j] \in Nat /\ tw[v].buffer[j] <= recorded
        BY <2>1, <2>2 DEF WriterInOrder
      <3>3. tw[v].held <= n /\ \A j \in DOMAIN tw[v].buffer : tw[v].buffer[j] <= n
        BY <1>1, <2>2, <2>3, <3>2
      <3> QED
        BY <1>4, <2>1, <3>1, <3>3 DEF WriterInOrder, Ascending
    <2>5. CASE v = w
      <3>1. tw'[v].buffer = c /\ tw'[v].held = tw[v].held /\ tw'[v].pc = tw[v].pc /\ tw[v].buffer = b
        BY <1>6, <2>5 DEF b
      <3>2. \A k \in DOMAIN b : /\ b[k] \in Nat /\ b[k] # 0 /\ b[k] <= recorded
                                /\ \A i \in DOMAIN written : written[i] < b[k]
                                /\ tw[v].held # 0 => tw[v].held < b[k]
        BY <1>2, <2>1, <3>1 DEF WriterInOrder
      <3>3. \A k \in DOMAIN a : /\ a[k] \in Nat /\ a[k] # 0 /\ a[k] <= recorded
                                /\ \A i \in DOMAIN written : written[i] < a[k]
                                /\ tw[v].held # 0 => tw[v].held < a[k]
        BY <1>5, <3>2
      <3>4. \A i \in DOMAIN written : written[i] < n
        BY <1>1, <2>3
      <3>5. tw[v].held < n /\ tw[v].held <= n /\ \A k \in DOMAIN a : a[k] < n /\ a[k] <= n
        BY <1>1, <2>2, <2>3, <3>3
      <3>6. \A k \in DOMAIN c : /\ c[k] # 0 /\ c[k] <= n
                                /\ \A i \in DOMAIN written : written[i] < c[k]
                                /\ tw[v].held # 0 => tw[v].held < c[k]
        <4> TAKE k \in DOMAIN c
        <4>1. CASE k \in DOMAIN a
          BY <1>7, <3>3, <3>5, <4>1
        <4>2. CASE k \notin DOMAIN a
          <5>1. c[k] = n
            BY <1>7, <4>2
          <5> QED
            BY <1>1, <3>4, <3>5, <5>1
        <4> QED
          BY <4>1, <4>2
      <3>7. \A i, j \in DOMAIN a : i < j => a[i] < a[j]
        <4>1. Ascending(b)
          BY <2>1, <3>1 DEF WriterInOrder
        <4> QED
          BY <1>5, <4>1 DEF Ascending
      <3>8. ASSUME NEW i \in DOMAIN c, NEW j \in DOMAIN c, i < j PROVE c[i] < c[j]
        <4>1. i \in DOMAIN a /\ c[i] = a[i]
          BY <1>7, <1>70, <3>8
        <4>2. CASE j \in DOMAIN a
          BY <1>7, <3>7, <3>8, <4>1, <4>2
        <4>3. CASE j \notin DOMAIN a
          BY <1>7, <3>5, <4>1, <4>3
        <4> QED
          BY <4>2, <4>3
      <3>9. Ascending(c)
        BY <3>8 DEF Ascending
      <3>10. tw[v].pc \in {"write", "last"} => tw[v].held # 0
        BY <2>1 DEF WriterInOrder
      <3>11. tw[v].held # 0 => \A i \in DOMAIN written : written[i] < tw[v].held
        BY <2>1 DEF WriterInOrder
      <3>12. Ascending(tw'[v].buffer)
        BY <3>1, <3>9
      <3>13. /\ \A j \in DOMAIN tw'[v].buffer : tw'[v].buffer[j] # 0 /\ tw'[v].buffer[j] <= recorded'
             /\ \A i \in DOMAIN written', j \in DOMAIN tw'[v].buffer : written'[i] < tw'[v].buffer[j]
             /\ tw'[v].held # 0 => \A j \in DOMAIN tw'[v].buffer : tw'[v].held < tw'[v].buffer[j]
        <4>1. \A j \in DOMAIN c : c[j] # 0 /\ c[j] <= recorded'
          BY <1>4, <3>6
        <4>2. \A i \in DOMAIN written, j \in DOMAIN c : written[i] < c[j]
          BY <3>6
        <4>3. tw[v].held # 0 => \A j \in DOMAIN c : tw[v].held < c[j]
          BY <3>6
        <4> QED
          BY <1>4, <3>1, <4>1, <4>2, <4>3, Zenon
      <3>14. tw'[v].held <= recorded'
        BY <1>4, <3>1, <3>5
      <3>15. /\ tw'[v].held # 0 => \A i \in DOMAIN written' : written'[i] < tw'[v].held
             /\ tw'[v].pc \in {"write", "last"} => tw'[v].held # 0
        BY <1>4, <3>1, <3>10, <3>11
      <3> QED
        BY <3>12, <3>13, <3>14, <3>15 DEF WriterInOrder, Ascending
    <2> QED
      BY <2>4, <2>5
  <1>9. WrittenInOrder'
    <2>1. \A i \in DOMAIN written : written[i] \in Nat /\ written[i] <= recorded
      BY DEF EventsInOrder, WrittenInOrder
    <2>2. \A i \in DOMAIN written : written[i] <= n
      BY <1>1, <2>1
    <2> QED
      BY <1>4, <2>2 DEF EventsInOrder, WrittenInOrder, Ascending
  <1> QED
    BY <1>8, <1>9 DEF EventsInOrder

(* A file with a higher number is another file.                             *)
LEMMA HigherIsOther == \A s, t \in Seqs : t > s => t # s
  BY TraceAssumption DEF Seqs

(* The one live writer opens the file after every file there is.            *)
LEMMA FileOpened ==
    ASSUME TraceTypeOK, TraceTypeOK', NEW w \in Writers, NEW s \in Seqs, logs[s] = NoLog,
           logs' = [logs EXCEPT ![s].plain = IF @ = None0 THEN <<>> ELSE @],
           \A t \in Seqs : t > s => logs[t] = NoLog,
           tw'[w].seq = s, tw'[w].linked, tw'[w].pc \in {"select", "write"},
           \A v \in Writers \ {w} : ~Live(v)'
    PROVE  FilesInTurn' /\ Replay' = Replay
  <1>1. \A t \in Seqs : logs'[t] = IF t = s THEN [logs[s] EXCEPT !.plain = <<>>] ELSE logs[t]
    BY DEF TraceTypeOK, NoLog
  <1>2. logs[s].plain = None0 /\ logs[s].gz = None0
    BY DEF NoLog
  <1>3. <<>> # None0
    BY DEF None0
  <1>4. logs'[s].plain = <<>> /\ logs'[s].gz = None0
    BY <1>1, <1>2 DEF TraceTypeOK
  <1>5. \A t \in Seqs : Shown(t)' = Shown(t)
    <2> TAKE t \in Seqs
    <2>1. CASE t = s
      <3>1. Shown(t) = <<>>
        BY <1>2, <2>1 DEF Shown, Form
      <3>2. Shown(t)' = <<>>
        BY <1>3, <1>4, <2>1 DEF Shown, Form
      <3> QED
        BY <3>1, <3>2
    <2>2. CASE t # s
      BY <1>1, <2>2 DEF Shown, Form
    <2> QED
      BY <2>1, <2>2
  <1>6. \A t \in Seqs : t > s => logs'[t] = NoLog
    BY <1>1 DEF Seqs
  <1>7. FilesInTurn'
    <2>1. tw'[w].pc # "open" /\ tw'[w].pc # "remove"
      OBVIOUS
    <2> QED
      BY <1>3, <1>4, <1>6, <2>1 DEF FilesInTurn
  <1> QED
    BY <1>5, <1>7, ReplayKept

(* The compressed file is put beside the plain one; the plain one goes.     *)
LEMMA FileCompressed ==
    ASSUME TraceTypeOK, FilesInTurn, NEW w \in Writers, NEW s \in Seqs, Live(w), tw[w].seq = s,
           tw'[w].seq = s, tw'[w].linked = tw[w].linked, \A v \in Writers \ {w} : ~Live(v)',
           \/ /\ tw[w].pc = "gzip" /\ tw'[w].pc = "remove"
              /\ logs' = [logs EXCEPT ![s].gz = logs[s].plain]
           \/ /\ tw[w].pc = "remove" /\ tw'[w].pc = "next gz"
              /\ logs' = [logs EXCEPT ![s].plain = None0]
    PROVE  FilesInTurn' /\ Replay' = Replay
  <1>1. tw[w].linked /\ \A t \in Seqs : t > s => logs[t] = NoLog
    BY DEF FilesInTurn
  <1>2. \A t \in Seqs \ {s} : logs'[t] = logs[t]
    BY DEF TraceTypeOK
  <1>3. \A t \in Seqs : t > s => logs'[t] = NoLog
    <2>1. \A t \in Seqs : t > s => t # s
      BY HigherIsOther
    <2> QED
      BY <1>1, <1>2, <2>1
  <1>4. CASE tw[w].pc = "gzip" /\ tw'[w].pc = "remove" /\ logs' = [logs EXCEPT ![s].gz = logs[s].plain]
    <2>1. logs[s].plain # None0 /\ logs[s].gz = None0
      BY <1>4 DEF FilesInTurn, FileIsOpen
    <2>2. logs'[s].plain = logs[s].plain /\ logs'[s].gz = logs[s].plain
      BY <1>4 DEF TraceTypeOK
    <2>3. Shown(s)' = Shown(s)
      BY <2>1, <2>2 DEF Shown, Form
    <2>4. \A t \in Seqs : Shown(t)' = Shown(t)
      BY <1>2, <2>3 DEF Shown, Form
    <2>5. FilesInTurn'
      <3>1. tw'[w].linked /\ tw'[w].pc \notin FileIsOpen /\ tw'[w].pc # "open"
        BY <1>1, <1>4 DEF FileIsOpen
      <3>2. logs'[s].plain # None0 /\ logs'[s].gz = logs'[s].plain
        BY <2>1, <2>2
      <3> QED
        BY <1>3, <3>1, <3>2 DEF FilesInTurn
    <2> QED
      BY <2>4, <2>5, ReplayKept
  <1>5. CASE tw[w].pc = "remove" /\ tw'[w].pc = "next gz" /\ logs' = [logs EXCEPT ![s].plain = None0]
    <2>1. logs[s].plain # None0 /\ logs[s].gz = logs[s].plain
      BY <1>5 DEF FilesInTurn
    <2>2. logs'[s].gz = logs[s].gz
      BY <1>5 DEF TraceTypeOK
    <2>3. Shown(s)' = Shown(s)
      BY <2>1, <2>2 DEF Shown, Form
    <2>4. \A t \in Seqs : Shown(t)' = Shown(t)
      BY <1>2, <2>3 DEF Shown, Form
    <2>5. FilesInTurn'
      BY <1>1, <1>3, <1>5 DEF FilesInTurn, FileIsOpen
    <2> QED
      BY <2>4, <2>5, ReplayKept
  <1> QED
    BY <1>4, <1>5

(* A line is written to the file that is open.                              *)
LEMMA LineWritten ==
    ASSUME TraceTypeOK, FilesInTurn, NEW w \in Writers, NEW s \in Seqs, Live(w), tw[w].seq = s,
           NEW e \in Nat, logs' = AppendLine(w, redact_event(e)),
           tw[w].pc \in FileIsOpen, tw'[w].pc \in FileIsOpen,
           tw'[w].seq = s, tw'[w].linked = tw[w].linked, \A v \in Writers \ {w} : ~Live(v)'
    PROVE  FilesInTurn' /\ Replay' = Append(Replay, redact_event(e)) /\ Replay \in LogFiles
  <1> DEFINE x == redact_event(e)
  <1>1. /\ tw[w].linked /\ (\A t \in Seqs : t > s => logs[t] = NoLog)
        /\ logs[s].plain # None0 /\ logs[s].gz = None0
    BY DEF FilesInTurn
  <1>2. logs' = [logs EXCEPT ![s].plain = Append(logs[s].plain, x)]
    BY <1>1 DEF AppendLine
  <1>3. x \in Nat \X {"none", "redacted", "as is"} /\ x[2] # "none"
    BY LogTypes DEF redact_event
  <1> HIDE DEF x
  <1>4. logs[s].plain \in LogFiles
    BY DEF TraceTypeOK
  <1> DEFINE p == logs[s].plain
  <1>5. Append(p, x) # None0
    <2>1. p \in Seq(Nat \X {"none", "redacted", "as is"})
      BY <1>4 DEF LogFiles
    <2>2. Append(p, x)[Len(p) + 1] = x /\ Len(Append(p, x)) = Len(p) + 1 /\ Len(p) \in Nat
      <3> DEFINE B == Nat \X {"none", "redacted", "as is"}
      <3>1. p \in Seq(B) /\ x \in B
        BY <1>3, <2>1
      <3> HIDE DEF B, p
      <3> QED
        BY <3>1, AppendProperties, LenProperties
    <2>3. Len(None0) = 1 /\ None0[1][2] = "none"
      BY DEF None0
    <2>4. ASSUME Append(p, x) = None0 PROVE FALSE
      <3>1. Len(p) + 1 = 1
        BY <2>2, <2>3, <2>4
      <3>2. x = None0[1]
        BY <2>2, <2>4, <3>1
      <3> QED
        BY <1>3, <2>3, <3>2
    <2> QED
      BY <2>4
  <1>6. logs'[s].plain = Append(p, x) /\ logs'[s].gz = None0
    BY <1>1, <1>2 DEF TraceTypeOK
  <1>7. \A t \in Seqs \ {s} : logs'[t] = logs[t]
    BY <1>2 DEF TraceTypeOK
  <1>8. Shown(s) = p /\ Shown(s)' = Append(p, x)
    BY <1>1, <1>5, <1>6 DEF Shown, Form
  <1> HIDE DEF p
  <1>9. \A t \in Seqs : t > s => Shown(t) = <<>> /\ logs'[t] = NoLog
    <2>1. \A t \in Seqs : t > s => t # s
      BY HigherIsOther
    <2> QED
      BY <1>1, <1>7, <2>1 DEF Shown, Form, NoLog
  <1>10. \A t \in Seqs \ {s} : Shown(t)' = Shown(t)
    BY <1>7 DEF Shown, Form
  <1>11. Replay' = Append(Replay, x) /\ Replay \in LogFiles
    BY <1>3, <1>8, <1>9, <1>10, ReplayAppends
  <1>12. FilesInTurn'
    <2>1. tw'[w].pc # "open" /\ tw'[w].pc # "remove"
      BY DEF FileIsOpen
    <2> QED
      BY <1>1, <1>5, <1>6, <1>9, <2>1 DEF FilesInTurn
  <1> QED
    BY <1>11, <1>12 DEF x

(* One more event redacted.                                                 *)
LEMMA RedactedAppends ==
    ASSUME NEW u \in Seq(Nat), NEW h \in Nat
    PROVE  Append([i \in DOMAIN u |-> redact_event(u[i])], redact_event(h))
               = [i \in DOMAIN Append(u, h) |-> redact_event(Append(u, h)[i])]
  <1> DEFINE B == Nat \X {"none", "redacted", "as is"}
             n == Len(u)
             r == [i \in 1..n |-> redact_event(u[i])]
             t == Append(u, h)
             q == [i \in 1..(n + 1) |-> redact_event(t[i])]
  <1>1. n \in Nat /\ DOMAIN u = 1..n /\ t \in Seq(Nat) /\ DOMAIN t = 1..(n + 1)
    OBVIOUS
  <1>2. (\A i \in 1..n : u[i] \in Nat /\ t[i] = u[i]) /\ t[n + 1] = h
    BY <1>1
  <1>3. \A e \in Nat : redact_event(e) \in B
    BY LogTypes
  <1> HIDE DEF n, t, B
  <1>4. r \in Seq(B) /\ Len(r) = n
    BY <1>1, <1>2, <1>3
  <1>5. q \in Seq(B) /\ Len(q) = n + 1
    <2>1. \A i \in 1..(n + 1) : t[i] \in Nat
      BY <1>1
    <2> QED
      BY <1>1, <1>3, <2>1
  <1> DEFINE a == Append(r, redact_event(h))
  <1>6. /\ a \in Seq(B) /\ Len(a) = n + 1
        /\ \A i \in 1..n : a[i] = r[i]
        /\ a[n + 1] = redact_event(h)
    <2> DEFINE x == redact_event(h)
    <2>1. x \in B
      BY <1>3
    <2> HIDE DEF r, x
    <2>2. Append(r, x) \in Seq(B) /\ Len(Append(r, x)) = n + 1
          /\ (\A i \in 1..n : Append(r, x)[i] = r[i]) /\ Append(r, x)[n + 1] = x
      BY <1>1, <1>4, <2>1, AppendProperties
    <2> QED
      BY <2>2 DEF x
  <1>7. \A i \in 1..(n + 1) : a[i] = q[i]
    <2> TAKE i \in 1..(n + 1)
    <2>1. CASE i = n + 1
      BY <1>2, <1>6, <2>1
    <2>2. CASE i \in 1..n
      BY <1>2, <1>6, <2>2
    <2> QED
      BY <1>1, <2>1, <2>2
  <1> HIDE DEF a, q
  <1>8. a = q
    BY <1>5, <1>6, <1>7, SeqEqual
  <1> QED
    BY <1>1, <1>8 DEF a, q, t

(* The fields of a writer.                                                  *)
LEMMA WriterFields ==
    \A r \in WriterStates : r.seq \in Seqs /\ [r EXCEPT !.linked = FALSE].pc = r.pc
  BY DEF WriterStates

(* What a step of the writer does to it, and to the others.                 *)
LEMMA WriterAlone ==
    ASSUME TraceTypeOK, OneLive, NEW w \in Writers, WriterStep(w)
    PROVE  /\ tw[w] \in WriterStates /\ Live(w) /\ tw[w].seq \in Seqs
           /\ \A v \in Writers \ {w} : ~Live(v)'
           /\ recorded' = recorded /\ doubled' = doubled
  <1>1. tw[w] \in WriterStates /\ Live(w)
    BY DEF TraceTypeOK, WriterStep, writer_opens, writer_wakes, writer_pops, writer_empty,
       write_event, gzip_rename, gzip_remove, gzip_fails, rotate_opens, final_pops, final_manifest, Live
  <1>2. tw[w].seq \in Seqs
    BY <1>1, WriterFields
  <1>3. recorded' = recorded /\ doubled' = doubled
    BY Zenon DEF WriterStep, writer_opens, writer_wakes, writer_pops, writer_empty, write_event, gzip_rename,
       gzip_remove, gzip_fails, rotate_opens, final_pops, final_manifest, queueVars, startVars
  <1>4. ASSUME NEW v \in Writers \ {w} PROVE tw'[v].pc = tw[v].pc
    <2>1. CASE gzip_remove(w)
      <3>1. tw'[v] \in {tw[v], [tw[v] EXCEPT !.linked = FALSE]}
        BY <2>1 DEF gzip_remove
      <3>2. tw[v] \in WriterStates
        BY DEF TraceTypeOK
      <3>3. [tw[v] EXCEPT !.linked = FALSE].pc = tw[v].pc
        BY <3>2, WriterFields
      <3> QED
        BY <3>1, <3>3
    <2>2. CASE ~gzip_remove(w)
      <3>1. \E r : Set(w, r)
        BY <2>2, Zenon DEF WriterStep, writer_opens, writer_wakes, writer_pops, writer_empty, write_event,
           gzip_rename, gzip_fails, rotate_opens, final_pops, final_manifest, Goto_, Open
      <3> QED
        BY <3>1 DEF Set, TraceTypeOK
    <2> QED
      BY <2>1, <2>2
  <1>5. \A v \in Writers \ {w} : ~Live(v)'
    BY <1>1, <1>4 DEF OneLive, Live
  <1> QED
    BY <1>1, <1>2, <1>3, <1>5

(* The writer moves to the record r.                                        *)
LEMMA WriterMoves ==
    ASSUME TraceTypeOK, NEW w \in Writers, NEW r, Set(w, r)
    PROVE  tw'[w] = r
  BY DEF Set, TraceTypeOK

(* The replay through a step of the one live writer.                        *)
LEMMA WriterReplay ==
    ASSUME TraceTypeOK, TraceTypeOK', OneLive, FilesInTurn, EventsInOrder, FilesHoldWritten,
           written \in Seq(Nat), NEW w \in Writers, WriterStep(w)
    PROVE  FilesInTurn' /\ EventsInOrder' /\ FilesHoldWritten' /\ written' \in Seq(Nat)
  <1> USE DEF fileVars, queueVars, startVars
  <1>0. /\ tw[w] \in WriterStates /\ Live(w) /\ tw[w].seq \in Seqs
        /\ \A v \in Writers \ {w} : ~Live(v)'
        /\ recorded' = recorded
    BY WriterAlone
  <1>00. recorded \in Nat /\ recorded' \in Nat /\ recorded <= recorded' /\ tw[w].held \in Nat
    <2>1. recorded \in Nat
      BY DEF TraceTypeOK
    <2>2. tw[w].held \in Nat
      BY <1>0 DEF WriterStates
    <2> QED
      BY <1>0, <2>1, <2>2
  <1> DEFINE s == tw[w].seq
  \* Steps that change no file, and steps that neither pop nor write.
  <1>1. ASSUME logs' = logs, tw'[w].seq = s, tw'[w].linked = tw[w].linked,
               tw'[w].pc = "ended" \/ {tw[w].pc, tw'[w].pc} \subseteq FileIsOpen
        PROVE  FilesInTurn' /\ Replay' = Replay
    BY <1>0, <1>1, FilesQuiet DEF Live
  <1>2. ASSUME written' = written, tw'[w].buffer = tw[w].buffer, tw'[w].held \in {tw[w].held, 0},
               tw'[w].pc \in {"write", "last"} => tw'[w].held # 0
        PROVE  EventsInOrder'
    BY <1>0, <1>00, <1>2, EventsQuiet
  <1>3. ASSUME FilesInTurn', EventsInOrder', Replay' = Replay, written' = written
        PROVE  FilesInTurn' /\ EventsInOrder' /\ FilesHoldWritten' /\ written' \in Seq(Nat)
    BY <1>3 DEF FilesHoldWritten
  <1>4. CASE writer_wakes(w) \/ writer_empty(w) \/ gzip_fails(w)
    <2>1. PICK l \in FileIsOpen \ {"write", "last"} :
              tw'[w] = [tw[w] EXCEPT !.pc = l] \/ tw'[w] = [tw[w] EXCEPT !.pc = l, !.last = tw[w].told]
      BY <1>4, WriterMoves DEF writer_wakes, writer_empty, gzip_fails, Goto_, FileIsOpen
    <2>2. /\ tw'[w].seq = s /\ tw'[w].linked = tw[w].linked /\ tw'[w].pc = l
          /\ tw'[w].buffer = tw[w].buffer /\ tw'[w].held = tw[w].held
      BY <1>0, <2>1 DEF WriterStates
    <2>3. tw[w].pc \in FileIsOpen /\ logs' = logs /\ written' = written
      BY <1>4 DEF writer_wakes, writer_empty, gzip_fails, FileIsOpen
    <2> QED
      BY <1>1, <1>2, <1>3, <2>1, <2>2, <2>3
  <1>5. CASE writer_pops(w) \/ final_pops(w)
    <2>1. PICK l \in FileIsOpen :
              tw'[w] = [tw[w] EXCEPT !.held = Head(tw[w].buffer), !.buffer = Tail(tw[w].buffer), !.pc = l]
      BY <1>5, WriterMoves DEF writer_pops, final_pops, FileIsOpen
    <2>2. /\ tw'[w].seq = s /\ tw'[w].linked = tw[w].linked /\ tw'[w].pc = l
          /\ tw'[w].buffer = Tail(tw[w].buffer) /\ tw'[w].held = Head(tw[w].buffer)
      BY <1>0, <2>1 DEF WriterStates
    <2>3. tw[w].pc \in FileIsOpen /\ logs' = logs /\ written' = written /\ tw[w].buffer # <<>>
      BY <1>5 DEF writer_pops, final_pops, FileIsOpen
    <2>4. EventsInOrder'
      BY <1>0, <2>2, <2>3, EventPopped
    <2> QED
      BY <1>1, <1>3, <2>2, <2>3, <2>4
  <1>6. CASE write_event(w)
    <2> DEFINE l == IF tw[w].pc = "last" THEN "final" ELSE "drain"
               q == [tw[w] EXCEPT !.held = 0, !.pc = l]
    <2>1. q \in WriterStates /\ q.seq = s /\ q.linked = tw[w].linked /\ q.pc = l /\ q.buffer = tw[w].buffer
          /\ q.held = 0
      BY <1>0 DEF WriterStates
    <2>2. \/ /\ logs' = AppendLine(w, redact_event(tw[w].held)) /\ written' = Append(written, tw[w].held)
             /\ tw'[w] = [q EXCEPT !.lines = @ + 1]
          \/ tw'[w] = q /\ logs' = logs /\ written' = written
      BY <1>6, WriterMoves DEF write_event
    <2>3. tw[w].pc \in FileIsOpen /\ l \in FileIsOpen /\ l \notin {"write", "last"}
      BY <1>6 DEF write_event, FileIsOpen
    <2>4. tw[w].held # 0
      BY <1>0, <1>6 DEF write_event, EventsInOrder, WriterInOrder
    <2> HIDE DEF q, l
    <2>5. CASE tw'[w] = q /\ logs' = logs /\ written' = written
      BY <1>1, <1>2, <1>3, <2>1, <2>3, <2>5
    <2>6. CASE /\ logs' = AppendLine(w, redact_event(tw[w].held)) /\ written' = Append(written, tw[w].held)
               /\ tw'[w] = [q EXCEPT !.lines = @ + 1]
      <3>1. /\ tw'[w].seq = s /\ tw'[w].linked = tw[w].linked /\ tw'[w].pc = l
            /\ tw'[w].buffer = tw[w].buffer /\ tw'[w].held = 0
        BY <2>1, <2>6 DEF WriterStates
      <3>2. FilesInTurn' /\ Replay' = Append(Replay, redact_event(tw[w].held))
        BY <1>0, <1>00, <2>3, <2>6, <3>1, LineWritten
      <3>3. EventsInOrder'
        BY <1>0, <2>3, <2>4, <2>6, <3>1, EventWritten
      <3>4. written' \in Seq(Nat)
        BY <1>00, <2>6
      <3>5. FilesHoldWritten'
        BY <1>00, <2>6, <3>2, RedactedAppends DEF FilesHoldWritten
      <3> QED
        BY <3>2, <3>3, <3>4, <3>5
    <2> QED
      BY <2>2, <2>5, <2>6
  <1>7. CASE gzip_rename(w)
    <2>1. tw'[w] = [tw[w] EXCEPT !.pc = "remove"]
      BY <1>7, WriterMoves DEF gzip_rename
    <2>2. /\ tw'[w].seq = s /\ tw'[w].linked = tw[w].linked /\ tw'[w].pc = "remove"
          /\ tw'[w].buffer = tw[w].buffer /\ tw'[w].held = tw[w].held
      BY <1>0, <2>1 DEF WriterStates
    <2>3. tw[w].pc = "gzip" /\ logs' = [logs EXCEPT ![s].gz = logs[s].plain] /\ written' = written
      BY <1>7 DEF gzip_rename
    <2>4. FilesInTurn' /\ Replay' = Replay
      BY <1>0, <2>2, <2>3, FileCompressed
    <2> QED
      BY <1>2, <1>3, <2>2, <2>3, <2>4
  <1>8. CASE gzip_remove(w)
    <2>1. tw'[w] = [tw[w] EXCEPT !.pc = "next gz"]
      BY <1>8 DEF gzip_remove
    <2>2. /\ tw'[w].seq = s /\ tw'[w].linked = tw[w].linked /\ tw'[w].pc = "next gz"
          /\ tw'[w].buffer = tw[w].buffer /\ tw'[w].held = tw[w].held
      BY <1>0, <2>1 DEF WriterStates
    <2>3. tw[w].pc = "remove" /\ logs' = [logs EXCEPT ![s].plain = None0] /\ written' = written
      BY <1>8 DEF gzip_remove
    <2>4. FilesInTurn' /\ Replay' = Replay
      BY <1>0, <2>2, <2>3, FileCompressed
    <2> QED
      BY <1>2, <1>3, <2>2, <2>3, <2>4
  <1>9. CASE final_manifest(w)
    <2>1. tw'[w] = [tw[w] EXCEPT !.pc = "ended", !.files = {}]
      BY <1>9, WriterMoves DEF final_manifest
    <2>2. /\ tw'[w].seq = s /\ tw'[w].linked = tw[w].linked /\ tw'[w].pc = "ended"
          /\ tw'[w].buffer = tw[w].buffer /\ tw'[w].held = tw[w].held
      BY <1>0, <2>1 DEF WriterStates
    <2>3. logs' = logs /\ written' = written
      BY <1>9 DEF final_manifest
    <2> QED
      BY <1>1, <1>2, <1>3, <2>2, <2>3
  <1>10. CASE writer_opens(w)
    <2>1. CASE Open(w, s, "select", tw[w])
      <3>1. logs' = [logs EXCEPT ![s].plain = IF @ = None0 THEN <<>> ELSE @]
        BY <2>1 DEF Open
      <3>2. PICK n : tw'[w] = [tw[w] EXCEPT !.pc = "select", !.seq = s, !.linked = TRUE, !.lines = n]
        BY <2>1, WriterMoves DEF Open
      <3>3. /\ tw'[w].seq = s /\ tw'[w].linked /\ tw'[w].pc = "select"
            /\ tw'[w].buffer = tw[w].buffer /\ tw'[w].held = tw[w].held
        BY <1>0, <3>2 DEF WriterStates
      <3>4. logs[s] = NoLog /\ \A t \in Seqs : t > s => logs[t] = NoLog
        BY <1>0, <1>10 DEF FilesInTurn, writer_opens
      <3>5. FilesInTurn' /\ Replay' = Replay
        BY <1>0, <3>1, <3>3, <3>4, FileOpened
      <3>6. written' = written
        BY <1>10 DEF writer_opens
      <3> QED
        BY <1>2, <1>3, <3>3, <3>5, <3>6
    <2>2. CASE Goto_(w, "ended") /\ UNCHANGED <<logs, manifest>>
      <3>1. tw'[w] = [tw[w] EXCEPT !.pc = "ended"]
        BY <2>2, WriterMoves DEF Goto_
      <3>2. /\ tw'[w].seq = s /\ tw'[w].linked = tw[w].linked /\ tw'[w].pc = "ended"
            /\ tw'[w].buffer = tw[w].buffer /\ tw'[w].held = tw[w].held
        BY <1>0, <3>1 DEF WriterStates
      <3>3. logs' = logs /\ written' = written
        BY <1>10, <2>2 DEF writer_opens
      <3> QED
        BY <1>1, <1>2, <1>3, <3>2, <3>3
    <2> QED
      BY <1>10, <2>1, <2>2 DEF writer_opens
  <1>11. CASE rotate_opens(w)
    <2>1. written' = written
      BY <1>11 DEF rotate_opens
    <2>2. ASSUME NEW m, s < MaxSeq, Open(w, s + 1, IF tw[w].held # 0 THEN "write" ELSE "select",
                                         [tw[w] EXCEPT !.files = m])
          PROVE  FilesInTurn' /\ EventsInOrder' /\ FilesHoldWritten' /\ written' \in Seq(Nat)
      <3> DEFINE l == IF tw[w].held # 0 THEN "write" ELSE "select"
                 r == [tw[w] EXCEPT !.files = m]
      <3>1. logs' = [logs EXCEPT ![s + 1].plain = IF @ = None0 THEN <<>> ELSE @]
        BY <2>2 DEF Open
      <3>2. PICK n : tw'[w] = [r EXCEPT !.pc = l, !.seq = s + 1, !.linked = TRUE, !.lines = n]
        BY <2>2, WriterMoves DEF Open
      <3>3. /\ tw'[w].seq = s + 1 /\ tw'[w].linked /\ tw'[w].pc = l
            /\ tw'[w].buffer = tw[w].buffer /\ tw'[w].held = tw[w].held
        <4> HIDE DEF l, s
        <4> QED
          BY <1>0, <3>2 DEF WriterStates
      <3>4. s + 1 \in Seqs /\ s + 1 > s /\ \A t \in Seqs : t > s + 1 => t > s
        <4>1. s \in 0..MaxSeq /\ MaxSeq \in Nat
          BY <1>0, TraceAssumption DEF Seqs
        <4> HIDE DEF s
        <4> QED
          BY <2>2, <4>1 DEF Seqs
      <3>5. \A t \in Seqs : t > s => logs[t] = NoLog
        BY <1>0 DEF FilesInTurn
      <3> DEFINE k == s + 1
      <3>6. k \in Seqs /\ logs[k] = NoLog /\ \A t \in Seqs : t > k => logs[t] = NoLog
        BY <3>4, <3>5
      <3>7. l \in {"select", "write"} /\ (l \in {"write", "last"} => tw[w].held # 0)
        OBVIOUS
      <3> HIDE DEF l, k, s
      <3>8. logs' = [logs EXCEPT ![k].plain = IF @ = None0 THEN <<>> ELSE @] /\ tw'[w].seq = k
        BY <3>1, <3>3 DEF k
      <3>9. FilesInTurn' /\ Replay' = Replay
        BY <1>0, <3>3, <3>6, <3>7, <3>8, FileOpened
      <3>10. EventsInOrder'
        BY <1>2, <2>1, <3>3, <3>7
      <3> QED
        BY <1>3, <2>1, <3>9, <3>10
    <2>3. CASE Set(w, [tw[w] EXCEPT !.pc = "ended", !.held = 0]) /\ UNCHANGED <<logs, manifest>>
      <3>1. tw'[w] = [tw[w] EXCEPT !.pc = "ended", !.held = 0]
        BY <2>3, WriterMoves
      <3>2. /\ tw'[w].seq = s /\ tw'[w].linked = tw[w].linked /\ tw'[w].pc = "ended"
            /\ tw'[w].buffer = tw[w].buffer /\ tw'[w].held = 0
        BY <1>0, <3>1 DEF WriterStates
      <3> QED
        BY <1>1, <1>2, <1>3, <2>1, <2>3, <3>2
    <2> QED
      BY <1>11, <2>2, <2>3 DEF rotate_opens
  <1> QED
    BY <1>4, <1>5, <1>6, <1>7, <1>8, <1>9, <1>10, <1>11 DEF WriterStep

(* The replay through every step.                                           *)
LEMMA ReplayStep == ReplayInv /\ [TraceNext]_traceVars => ReplayInv'
  <1> SUFFICES ASSUME ReplayInv, [TraceNext]_traceVars
               PROVE  ReplayInv'
    OBVIOUS
  <1> USE DEF traceVars, fileVars, queueVars, startVars
  <1>1. TraceTypeOK /\ TraceTypeOK' /\ TraceInv /\ written \in Seq(Nat)
    BY TraceTypes DEF ReplayInv, TraceInv
  <1>2. TraceInv'
    BY <1>1, TraceStep
  <1>3. written' \in Seq(Nat)
    <2>1. CASE written' = written
      BY <1>1, <2>1
    <2>2. ASSUME NEW w \in Writers, written' = Append(written, tw[w].held)
          PROVE  written' \in Seq(Nat)
      <3>1. tw[w].held \in Nat
        BY <1>1 DEF TraceTypeOK, WriterStates
      <3> QED
        BY <1>1, <2>2, <3>1
    <2> QED
      BY <2>1, <2>2, Zenon DEF TraceNext, get_or_start, start_in_dir, record, shutdown, record_pushes, trace_dies,
         WriterStep, writer_opens, writer_wakes, writer_pops, writer_empty, write_event, gzip_rename,
         gzip_remove, gzip_fails, rotate_opens, final_pops, final_manifest
  <1>4. SUFFICES ASSUME ~doubled'
                 PROVE  FilesInTurn' /\ EventsInOrder' /\ FilesHoldWritten'
    BY <1>2, <1>3 DEF ReplayInv
  <1>5. ~doubled
    BY <1>1, <1>4, Zenon DEF TraceTypeOK, TraceNext, get_or_start, start_in_dir, record, shutdown, record_pushes,
       trace_dies, WriterStep, writer_opens, writer_wakes, writer_pops, writer_empty, write_event,
       gzip_rename, gzip_remove, gzip_fails, rotate_opens, final_pops, final_manifest
  <1>6. OneLive /\ FilesInTurn /\ EventsInOrder /\ FilesHoldWritten
    BY <1>5 DEF ReplayInv, TraceInv
  <1>7. ASSUME logs' = logs, written' = written, recorded' \in {recorded, recorded + 1},
               \A v \in Writers : Live(v)' =>
                   /\ Live(v) /\ tw'[v].seq = tw[v].seq /\ tw'[v].linked = tw[v].linked
                   /\ tw'[v].pc = tw[v].pc /\ tw'[v].buffer = tw[v].buffer /\ tw'[v].held = tw[v].held
        PROVE  FilesInTurn' /\ EventsInOrder' /\ FilesHoldWritten'
    <2>1. FilesInTurn' /\ Replay' = Replay
      BY <1>1, <1>6, <1>7, FilesQuiet
    <2>2. recorded' \in Nat /\ recorded <= recorded'
      <3>1. recorded \in Nat
        BY <1>1 DEF TraceTypeOK
      <3> QED
        BY <1>7, <3>1
    <2>3. \A v \in Writers : Live(v) => (tw[v].pc \in {"write", "last"} => tw[v].held # 0)
      BY <1>6 DEF EventsInOrder, WriterInOrder
    <2>4. EventsInOrder'
      BY <1>1, <1>6, <1>7, <2>2, <2>3, EventsQuiet
    <2> QED
      BY <1>6, <1>7, <2>1, <2>4 DEF FilesHoldWritten
  <1>8. CASE UNCHANGED traceVars
    BY <1>7, <1>8 DEF Live
  <1>9. ASSUME NEW r \in Starters, get_or_start(r)
        PROVE  FilesInTurn' /\ EventsInOrder' /\ FilesHoldWritten'
    BY <1>7, <1>9 DEF get_or_start, Live
  <1>10. ASSUME NEW r \in Starters, start_in_dir(r)
         PROVE  FilesInTurn' /\ EventsInOrder' /\ FilesHoldWritten'
    <2> DEFINE k == started + 1
    <2>1. PICK n \in Seqs : scan_next_seq(n) /\ Set(k, [NoWriter EXCEPT !.pc = "open", !.seq = n])
      BY <1>10 DEF start_in_dir
    <2>2. k \in Writers
      BY <1>1, <1>10, TraceAssumption DEF start_in_dir, TraceTypeOK, Writers
    <2> HIDE DEF k
    <2>3. /\ tw'[k] = [NoWriter EXCEPT !.pc = "open", !.seq = n]
          /\ \A v \in Writers \ {k} : tw'[v] = tw[v]
      BY <1>1, <2>1, <2>2 DEF Set, TraceTypeOK
    <2>4. /\ tw'[k].seq = n /\ tw'[k].linked /\ tw'[k].pc = "open"
          /\ tw'[k].buffer = <<>> /\ tw'[k].held = 0
      BY <2>3 DEF NoWriter
    <2>5. \A v \in Writers \ {k} : ~Live(v)'
      BY <1>1, <1>4, <1>10, <2>3 DEF start_in_dir, TraceTypeOK, Live
    <2>6. logs' = logs /\ written' = written /\ recorded' = recorded
      BY <1>10 DEF start_in_dir
    <2>7. \A s \in Seqs : s = n \/ s > n => logs[s] = NoLog
      <3>1. \A s \in Seqs : s = n \/ s > n => ~(s < n)
        BY TraceAssumption DEF Seqs
      <3> QED
        BY <2>1, <3>1 DEF scan_next_seq
    <2>8. FilesInTurn'
      <3>1. tw'[k].pc \notin FileIsOpen /\ tw'[k].pc # "remove"
        BY <2>4 DEF FileIsOpen
      <3> QED
        BY <2>4, <2>5, <2>6, <2>7, <3>1 DEF FilesInTurn
    <2>9. EventsInOrder'
      <3>1. ASSUME NEW v \in Writers, Live(v)'
            PROVE  WriterInOrder(v)'
        <4>1. recorded' \in Nat /\ 0 <= recorded'
          BY <1>1 DEF TraceTypeOK
        <4>2. tw'[v].buffer = <<>> /\ tw'[v].held = 0 /\ tw'[v].pc = "open"
          BY <2>4, <2>5, <3>1
        <4>3. DOMAIN tw'[v].buffer = {}
          BY <4>2
        <4> QED
          BY <4>1, <4>2, <4>3 DEF WriterInOrder, Ascending
      <3>2. WrittenInOrder'
        BY <1>6, <2>6 DEF EventsInOrder, WrittenInOrder, Ascending
      <3> QED
        BY <3>1, <3>2 DEF EventsInOrder
    <2>10. Replay' = Replay
      BY <1>1, <2>6, ReplayKept DEF Shown, Form
    <2> QED
      BY <1>6, <2>6, <2>8, <2>9, <2>10 DEF FilesHoldWritten
  <1>11. ASSUME NEW w \in Writers, record(w)
         PROVE  FilesInTurn' /\ EventsInOrder' /\ FilesHoldWritten'
    <2>1. logs' = logs /\ written' = written /\ recorded' \in {recorded, recorded + 1}
      <3>1. recorded \in Nat
        BY <1>1 DEF TraceTypeOK
      <3> QED
        BY <1>11, <3>1 DEF record
    <2>2. CASE tw' = tw
      BY <1>7, <2>1, <2>2 DEF Live
    <2>3. CASE Set(w, [tw[w] EXCEPT !.dropped = @ + 1])
      <3>1. \A v \in Writers : tw'[v] = IF v = w THEN [tw[w] EXCEPT !.dropped = @ + 1] ELSE tw[v]
        BY <1>1, <2>3 DEF Set, TraceTypeOK
      <3>2. tw[w] \in WriterStates
        BY <1>1 DEF TraceTypeOK
      <3>3. /\ tw'[w].pc = tw[w].pc /\ tw'[w].seq = tw[w].seq /\ tw'[w].linked = tw[w].linked
            /\ tw'[w].buffer = tw[w].buffer /\ tw'[w].held = tw[w].held
        BY <3>1, <3>2 DEF WriterStates
      <3> QED
        BY <1>7, <2>1, <3>1, <3>3 DEF Live
    <2> QED
      BY <1>11, <2>2, <2>3 DEF record
  <1>12. ASSUME NEW w \in Writers, shutdown(w)
         PROVE  FilesInTurn' /\ EventsInOrder' /\ FilesHoldWritten'
    <2> DEFINE r == [tw[w] EXCEPT !.closing = (entry = w), !.told = TRUE]
    <2>1. tw[w] \in WriterStates
      BY <1>1 DEF TraceTypeOK
    <2>2. /\ r.pc = tw[w].pc /\ r.seq = tw[w].seq /\ r.linked = tw[w].linked
          /\ r.buffer = tw[w].buffer /\ r.held = tw[w].held
      BY <2>1 DEF WriterStates
    <2> HIDE DEF r
    <2>3. tw' = [tw EXCEPT ![w] = r]
      BY <1>12 DEF shutdown, Set, r
    <2>4. \A v \in Writers : tw'[v] = IF v = w THEN r ELSE tw[v]
      BY <1>1, <2>3 DEF TraceTypeOK
    <2>5. logs' = logs /\ written' = written /\ recorded' = recorded
      BY <1>12 DEF shutdown
    <2> QED
      BY <1>7, <2>2, <2>4, <2>5 DEF Live
  <1>13. CASE record_pushes
    <2>1. PICK w, b, d : Set(w, [tw[w] EXCEPT !.buffer = b, !.dropped = d]) /\ w = Head(racing)
      BY <1>13 DEF record_pushes
    <2>2. w \in Writers
      BY <1>1, <1>13, <2>1 DEF record_pushes, TraceTypeOK
    <2>3. tw[w] \in WriterStates
      BY <1>1, <2>2 DEF TraceTypeOK
    <2>4. \A v \in Writers : tw'[v] = IF v = w THEN [tw[w] EXCEPT !.buffer = b, !.dropped = d] ELSE tw[v]
      BY <1>1, <2>1, <2>2 DEF Set, TraceTypeOK
    <2>5. tw'[w].pc = tw[w].pc /\ tw'[w].seq = tw[w].seq /\ tw'[w].linked = tw[w].linked
      BY <2>2, <2>3, <2>4 DEF WriterStates
    <2>6. logs' = logs /\ written' = written
      BY <1>13 DEF record_pushes
    <2>7. FilesInTurn' /\ Replay' = Replay
      BY <1>1, <1>6, <2>4, <2>5, <2>6, FilesQuiet DEF Live
    <2>8. EventsInOrder'
      BY <1>1, <1>6, <1>13, EventPushed
    <2> QED
      BY <1>6, <2>6, <2>7, <2>8 DEF FilesHoldWritten
  <1>14. CASE trace_dies
    <2>1. \A v \in Writers : ~Live(v)'
      BY <1>14 DEF trace_dies, Live, NoWriter
    <2> QED
      BY <1>7, <1>14, <2>1 DEF trace_dies
  <1>15. ASSUME NEW w \in Writers, WriterStep(w)
         PROVE  FilesInTurn' /\ EventsInOrder' /\ FilesHoldWritten'
    BY <1>1, <1>6, <1>15, WriterReplay
  <1> QED
    BY <1>8, <1>9, <1>10, <1>11, <1>12, <1>13, <1>14, <1>15 DEF TraceNext

(* The inductive invariant of the replay: the one live writer is at the     *)
(* newest file, which is there in one form but inside gzip_file; what was   *)
(* written, what the writer holds and what is buffered follow one another.  *)
THEOREM ReplayInvariance == TraceSpec => []ReplayInv
  <1>1. TraceInit => ReplayInv
    <2> SUFFICES ASSUME TraceInit PROVE ReplayInv
      OBVIOUS
    <2>1. TraceInv
      BY TraceInitially
    <2>2. \A w \in Writers : ~Live(w)
      BY DEF TraceInit, Live, NoWriter
    <2>3. written = <<>> /\ written \in Seq(Nat) /\ DOMAIN written = {}
      BY DEF TraceInit
    <2>4. AllShown = [i \in 1..(MaxSeq + 1) |-> <<>>]
      BY <2>1, ShownTypes DEF TraceInit, TraceInv, AllShown, Shown, Form, NoLog
    <2>5. Replay = FlattenSeq(AllShown)
      BY DEF Replay, AllShown, Shown
    <2>6. Replay = <<>>
      BY <2>4, <2>5, TraceAssumption, FlattenNothing
    <2>7. FilesHoldWritten
      BY <2>3, <2>6 DEF FilesHoldWritten
    <2> QED
      BY <2>1, <2>2, <2>3, <2>7 DEF ReplayInv, FilesInTurn, EventsInOrder, WrittenInOrder, Ascending
  <1> QED
    BY <1>1, ReplayStep, PTL DEF TraceSpec

(* "No data window where neither exists" (trace.rs: gzip_file, rotate,      *)
(* scan_next_seq, writer_loop): through rotations, failed compressions,     *)
(* failed writes, dropped events and deaths of the broker between any two   *)
(* steps, reading the files in the order of their numbers gives exactly the *)
(* events that were written, once, redacted and in the order in which they  *)
(* happened, for any number of files, events, requests and writers one      *)
(* after the other.                                                         *)
THEOREM ReplayIsExactSafety == TraceSpec => []ReplayIsExact
  <1>1. ReplayInv => ReplayIsExact
    BY DEF ReplayInv, ReplayIsExact, FilesHoldWritten, redact_event, EventsInOrder, WrittenInOrder, Ascending
  <1> QED
    BY <1>1, ReplayInvariance, PTL
============================================================================
