------------------------------- MODULE MCDisk -------------------------------
(* What a session keeps in files: the clones and snapshots of its sandbox -   *)
(* ~/Documents and ~/work/Documents, one file in each, one registered session,*)
(* one restored one, one snapshot name, two commands at a time - and its      *)
(* trace.  They share no file, so each is explored with the other at rest.    *)
EXTENDS Sandbox, TraceLog, TLC

MCInherit == <<"documents", "work">>
MCLeaf == [documents |-> "Documents", work |-> "Documents", profile |-> "Default"]
MCNested == {"work"}
Interchangeable == Permutations(Tools)

MCNext ==
    \/ TraceInit /\ Next /\ UNCHANGED traceVars
    \/ Init /\ TraceNext /\ UNCHANGED vars
MCInit == Init /\ TraceInit
MCSpec == MCInit /\ [][MCNext]_<<vars, traceVars>>

=============================================================================
