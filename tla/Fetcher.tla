------------------------------- MODULE Fetcher -------------------------------
(***************************************************************************)
(* chromium-fetcher: resolve, download (resumable, one stream), verify     *)
(* against a trust-on-first-use pin, extract.  Everything a fetch knows    *)
(* between two attempts is on disk, in the directory of the revision; the  *)
(* broker may die at any step, and resolve_chromium lets two registrations *)
(* fetch the same revision at once.                                        *)
(* A file's content is the sequence of the body's pieces it holds.         *)
(***************************************************************************)
EXTENDS Integers, Sequences, SequencesExt

CONSTANTS Fetchers,      \* calls of fetch
          Listed,        \* the cached manifests that list the revision for this platform
          Total,         \* pieces of the zip, the server's Content-Length
          Entries,       \* files in the zip; the last one is the binary
          max_attempts,
          MaxDeaths      \* bound: deaths of the broker

ASSUME TotalAssumption == Total \in Nat \ {0}
ASSUME EntriesAssumption == Entries \in Nat \ {0}

VARIABLES disk,     \* the revision's directory
          fpc,      \* where each fetch is, or how it ended
          task,     \* its local variables
          deaths,
          contended \* two fetches have been under way at once

fetchVars == <<disk, fpc, task, deaths, contended>>

NoFile == <<0>>
Body == [i \in 1..Total |-> i]
EmptyDir == [zip |-> NoFile, tmp |-> NoFile, pin |-> NoFile, marker |-> FALSE, tree |-> {}]
Binary == Entries
\* at: the offset the request asks for, then the pieces received; entry: of the zip.
NoFetch == [attempt |-> 0, at |-> 0, handle |-> "none", wiped |-> FALSE, sha |-> 0, entry |-> 0]
Ended == {"idle", "ok", "failed"}
Size(file) == IF file = NoFile THEN 0 ELSE Len(file)

FetchInit ==
    /\ disk = EmptyDir
    /\ fpc = [f \in Fetchers |-> "idle"] /\ task = [f \in Fetchers |-> NoFetch]
    /\ deaths = 0 /\ contended = FALSE

-----------------------------------------------------------------------------
Goto(f, l) == fpc' = [fpc EXCEPT ![f] = l]
Finish(f, l) == Goto(f, l) /\ task' = [task EXCEPT ![f] = NoFetch]
Stay == UNCHANGED <<deaths, contended>>
\* What becomes of the open files of other fetches when names are removed or moved.
Unlink(names) == [g \in Fetchers |-> [task[g] EXCEPT !.handle = IF @ \in names THEN "none" ELSE @]]

resolve_from_last_known == "last_known" \in Listed
resolve_from_known_good == "known_good" \in Listed
is_complete == disk.marker

fetch(f) ==
    /\ fpc[f] = "idle"
    /\ \E rev \in {"None", "Some"} :
           LET resolved == IF rev = "Some" THEN resolve_from_known_good ELSE resolve_from_last_known
           IN  Finish(f, IF ~resolved THEN "failed"
                      ELSE IF is_complete /\ Binary \in disk.tree THEN "ok" ELSE "download")
    /\ contended' = (contended \/ \E g \in Fetchers \ {f} : fpc[g] \notin Ended)
    /\ UNCHANGED <<disk, deaths>>

\* A zip that is already there is not downloaded again; a HEAD tells the size.
download_zip(f) ==
    /\ fpc[f] = "download"
    /\ \/ disk.zip # NoFile /\ Goto(f, "verify") /\ UNCHANGED task
       \/ disk.zip = NoFile /\ Finish(f, "failed")
       \/ disk.zip = NoFile /\ Goto(f, "attempt") /\ task' = [task EXCEPT ![f].attempt = 1]
    /\ UNCHANGED disk /\ Stay

\* The head of single_stream_to_tmp's loop: the offset is the size of the tmp file.
\* A tmp file that is too long is emptied, but the offset asked for is the old one.
loop_head(f) ==
    /\ fpc[f] = "attempt"
    /\ LET already == Size(disk.tmp)
       IN  /\ disk' = IF already > Total THEN [disk EXCEPT !.tmp = <<>>] ELSE disk
           /\ IF already = Total THEN Goto(f, "finalize") /\ UNCHANGED task
              ELSE \/ Goto(f, "get") /\ task' = [task EXCEPT ![f].at = already]
                   \/ Finish(f, "failed")
    /\ Stay

MutAgain(f) ==
    \/ Finish(f, "failed")
    \/ /\ task[f].attempt < max_attempts
       /\ Goto(f, "attempt") /\ task' = [task EXCEPT ![f].at = 0, ![f].handle = "none"]
\* Retry and underrun: another attempt after the backoff, unless there is none left
\* or the total timeout has passed.
Again(f) ==
    \/ Finish(f, "failed")
    \/ /\ task[f].attempt < max_attempts
       /\ Goto(f, "attempt")
       /\ task' = [task EXCEPT ![f].attempt = @ + 1, ![f].at = 0, ![f].handle = "none"]
\* An error that is not worth another attempt is fatal.
is_reqwest_error_retryable(f) == Again(f) \/ Finish(f, "failed")

\* stream_attempt: the answer to the GET.
get_refused(f) ==
    /\ fpc[f] = "get" /\ is_reqwest_error_retryable(f)
    /\ UNCHANGED disk /\ Stay
get_416(f) ==
    /\ fpc[f] = "get" /\ task[f].at > 0
    /\ disk' = IF task[f].wiped THEN disk ELSE [disk EXCEPT !.tmp = <<>>]
    /\ IF task[f].wiped \/ task[f].attempt = max_attempts THEN Finish(f, "failed")
       ELSE /\ task' = [task EXCEPT ![f].wiped = TRUE, ![f].attempt = @ + 1, ![f].at = 0]
            /\ Goto(f, "attempt")
    /\ Stay
Opened(tmp) == IF tmp = NoFile THEN <<>> ELSE tmp
get_206(f) ==
    /\ fpc[f] = "get" /\ task[f].at \in 1..(Total - 1)
    /\ disk' = [disk EXCEPT !.tmp = Opened(@)]
    /\ task' = [task EXCEPT ![f].handle = "tmp"]
    /\ Goto(f, "body") /\ Stay
MutGet200(f) ==
    /\ fpc[f] = "get"
    /\ disk' = [disk EXCEPT !.tmp = Opened(@)]
    /\ task' = [task EXCEPT ![f].at = 0, ![f].handle = "tmp"]
    /\ Goto(f, "body") /\ Stay
\* A server that ignores the Range sends everything: the tmp file is emptied first.
get_200(f) ==
    /\ fpc[f] = "get"
    /\ disk' = [disk EXCEPT !.tmp = IF task[f].at > 0 THEN <<>> ELSE Opened(@)]
    /\ task' = [task EXCEPT ![f].at = 0, ![f].handle = "tmp"]
    /\ Goto(f, "body") /\ Stay

\* A piece of the body goes to the end of the file the handle is open on.
Appended(f) ==
    CASE task[f].handle = "tmp" -> [disk EXCEPT !.tmp = Append(@, task[f].at + 1)]
      [] task[f].handle = "zip" -> [disk EXCEPT !.zip = Append(@, task[f].at + 1)]
      [] OTHER -> disk
body_bytes(f) ==
    /\ fpc[f] = "body" /\ task[f].at < Total
    /\ disk' = Appended(f)
    /\ task' = [task EXCEPT ![f].at = @ + 1]
    /\ UNCHANGED fpc /\ Stay
\* The stall watchdog or a transport error.
body_breaks(f) ==
    /\ fpc[f] = "body" /\ is_reqwest_error_retryable(f)
    /\ UNCHANGED disk /\ Stay
\* A clean end of the body, perhaps an early one: the size on disk decides.
body_eof(f) ==
    /\ fpc[f] = "body"
    /\ IF Size(disk.tmp) = Total
       THEN Goto(f, "finalize") /\ task' = [task EXCEPT ![f].at = 0, ![f].handle = "none"]
       ELSE Again(f)
    /\ UNCHANGED disk /\ Stay

\* stat, then fsync and rename.
finalize_stat(f) ==
    /\ fpc[f] = "finalize"
    /\ IF disk.tmp # NoFile /\ Len(disk.tmp) = Total THEN Goto(f, "rename") /\ UNCHANGED task
       ELSE Finish(f, "failed")
    /\ UNCHANGED disk /\ Stay
finalize_rename(f) ==
    /\ fpc[f] = "rename"
    /\ IF disk.tmp = NoFile THEN Finish(f, "failed") /\ UNCHANGED disk
       ELSE /\ disk' = [disk EXCEPT !.zip = disk.tmp, !.tmp = NoFile]
            /\ task' = [g \in Fetchers |-> [task[g] EXCEPT !.handle =
                            CASE @ = "tmp" -> "zip" [] @ = "zip" -> "none" [] OTHER -> @]]
            /\ Goto(f, "verify")
    /\ Stay

\* A mismatch wipes zip and tmp and starts over, once.
WipeAndRetry(f) ==
    IF task[f].sha = 1 THEN Finish(f, "failed") /\ UNCHANGED disk
    ELSE /\ disk' = [disk EXCEPT !.zip = NoFile, !.tmp = NoFile]
         /\ task' = [Unlink({"zip", "tmp"}) EXCEPT ![f] = [NoFetch EXCEPT !.sha = 1]]
         /\ Goto(f, "download")
verify_against(f) ==
    /\ fpc[f] = "verify" /\ disk.pin # NoFile
    /\ IF disk.zip = disk.pin THEN Goto(f, "extract") /\ UNCHANGED <<disk, task>>
       ELSE WipeAndRetry(f)
    /\ Stay
sha256_hex(f) ==
    /\ fpc[f] = "verify" /\ disk.pin = NoFile
    /\ IF disk.zip = NoFile THEN WipeAndRetry(f)
       ELSE /\ disk' = [disk EXCEPT !.pin = disk.zip] /\ Goto(f, "extract") /\ UNCHANGED task
    /\ Stay

\* extract: a directory without the marker is removed, with all that is in it.
extract(f) ==
    /\ fpc[f] = "extract"
    /\ IF is_complete THEN Goto(f, "cleanup") /\ UNCHANGED <<disk, task>>
       ELSE disk' = EmptyDir /\ task' = Unlink({"zip", "tmp"}) /\ Goto(f, "open")
    /\ Stay
\* Opening the archive; a corrupt one is refused when it is read.
extract_open(f) ==
    /\ fpc[f] = "open"
    /\ IF disk.zip = Body THEN Goto(f, "copy") /\ task' = [task EXCEPT ![f] = [NoFetch EXCEPT !.entry = 1]]
       ELSE Finish(f, "failed")
    /\ UNCHANGED disk /\ Stay
extract_entry(f) ==
    /\ fpc[f] = "copy" /\ task[f].entry <= Entries
    /\ disk' = [disk EXCEPT !.tree = @ \cup {task[f].entry}]
    /\ task' = [task EXCEPT ![f].entry = @ + 1]
    /\ UNCHANGED fpc /\ Stay
mark_complete(f) ==
    /\ fpc[f] = "copy" /\ task[f].entry > Entries
    /\ disk' = [disk EXCEPT !.marker = TRUE]
    /\ Goto(f, "cleanup")
    /\ UNCHANGED task /\ Stay
\* The zip is removed, and the binary looked for.
cleanup(f) ==
    /\ fpc[f] = "cleanup"
    /\ disk' = [disk EXCEPT !.zip = NoFile]
    /\ task' = [Unlink({"zip"}) EXCEPT ![f] = NoFetch]
    /\ Goto(f, IF Binary \in disk.tree THEN "ok" ELSE "failed")
    /\ Stay

\* The broker dies: only the directory is left, and every fetch starts over.
fetch_dies ==
    /\ deaths < MaxDeaths /\ deaths' = deaths + 1
    /\ fpc' = [f \in Fetchers |-> "idle"] /\ task' = [f \in Fetchers |-> NoFetch]
    /\ UNCHANGED <<disk, contended>>
\* A later registration fetches again.
fetch_again(f) ==
    /\ fpc[f] = "failed" /\ deaths < MaxDeaths /\ deaths' = deaths + 1
    /\ Goto(f, "idle") /\ UNCHANGED <<disk, task, contended>>

FetchStep(f) ==
    \/ fetch(f) \/ download_zip(f) \/ loop_head(f) \/ get_refused(f) \/ get_416(f) \/ get_206(f)
    \/ get_200(f) \/ body_bytes(f) \/ body_breaks(f) \/ body_eof(f) \/ finalize_stat(f)
    \/ finalize_rename(f) \/ verify_against(f) \/ sha256_hex(f) \/ extract(f) \/ extract_open(f)
    \/ extract_entry(f) \/ mark_complete(f) \/ cleanup(f)
FetchNext == (\E f \in Fetchers : FetchStep(f) \/ fetch_again(f)) \/ fetch_dies
\* A fetch's future is polled, and every wait of it has a timeout.
FetchFairness == \A f \in Fetchers : WF_fetchVars(FetchStep(f))
FetchSpec == FetchInit /\ [][FetchNext]_fetchVars /\ FetchFairness

-----------------------------------------------------------------------------
\* Resuming is exact: whatever was cut, stalled, refused with 416, answered in full
\* to a ranged request, or interrupted by the death of the broker, the file renamed
\* to the zip and the hash pinned for the revision are those of the whole body.
\* Of fetches that never ran at the same time only.
OnlyWholeZips == ~contended => {disk.zip, disk.pin} \subseteq {Body, NoFile}

\* Every fetch comes to an end: no chain of stalls, 416s and hash mismatches keeps
\* a registration waiting for ever.
FetchEnds == \A f \in Fetchers : fpc[f] # "idle" ~> fpc[f] \in Ended

\* lib.rs: fetch "returns the absolute path to the launchable Chromium binary".  The
\* archive that was verified is there when extract opens it.
ExtractFindsItsZip == \A f \in Fetchers : fpc[f] = "open" => disk.zip # NoFile
==============================================================================
