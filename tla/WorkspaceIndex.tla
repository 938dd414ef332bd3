--------------------------- MODULE WorkspaceIndex ---------------------------
(* Who keeps the workspace index after the disk: watched-file events, queued *)
(* and taken by debounced batch windows; workspace scans, of which one runs  *)
(* at a time; and the open documents, whose buffers the index holds instead. *)
(* Texts are told apart by a version, and so are the stats (size and time)    *)
(* of a file: every write makes a new one.  The fingerprint of a scan, a hash *)
(* of paths and stats, is the stats it was taken of.                          *)
EXTENDS Integers, FiniteSets

CONSTANTS
    Files,          \* script files of the workspace
    Commands,       \* foreground scans: startup, commands, changed settings
    Background,     \* the background reindex, or nothing
    Windows,        \* bound: batch windows alive at one time
    Cap,            \* WATCHED_BULK_CAP (the code: 200)
    MaxWrites,      \* bound: writes to files and buffers
    MaxFaults,      \* bound: panics and dropped requests
    Editable,       \* bound: the files the client opens
    Removable       \* bound: the files that may be removed

ASSUME ConstantsAssumption ==
    /\ IsFiniteSet(Files)
    /\ IsFiniteSet(Windows) /\ Windows \subseteq Nat \ {0}
    /\ Cap \in Nat /\ MaxWrites \in Nat /\ MaxFaults \in Nat
    /\ Editable \subseteq Files /\ Removable \subseteq Files
    /\ Commands \cap Background = {} /\ "batch" \notin Commands \cup Background

NoFile == -1
NoWindow == 0
NoFingerprint == <<>>

Versions == 0 .. MaxWrites
Contents == Versions \cup {NoFile}
EventTypes == {"created", "changed", "deleted"}

\* A quiet scan is the background's or that of a batch over the cap.
Quiet == Background \cup {"batch"}
Scanners == Commands \cup Quiet

VARIABLES
    disk,           \* file -> its text on disk, or NoFile
    stat,           \* file -> its stat, or NoFile
    buffer,         \* open document -> the text of its buffer, or NoFile
    validated,      \* open document -> its buffer was parsed and indexed
    writes,         \* versions made so far
    index,          \* file -> the text the index holds, or NoFile
    signatures,     \* watched_signatures: file -> the stat a batch read it at, or NoFile
    fingerprint,    \* last_scan_fingerprint
    outbox,         \* file events the client has not sent yet
    pending,        \* watched_pending
    deleted,        \* watched_deleted
    handler,        \* the notification the worker runs
    slot,           \* watched_debounce: the window whose handle it holds
    window,         \* window -> how far its task got
    scanning,       \* scan_in_progress
    scan,           \* scanner -> how far its scan got
    faults          \* panics and dropped requests so far

diskVars == <<disk, stat, writes, outbox>>
docVars == <<buffer, validated>>
indexVars == <<index, signatures>>
queueVars == <<pending, deleted>>
batchVars == <<slot, window>>
scanVars == <<scanning, scan, fingerprint>>
vars == <<diskVars, docVars, indexVars, queueVars, handler, batchVars, scanVars, faults>>

NoWindowTask == [pc |-> "over", changes |-> {}, deletes |-> {}, todo |-> {},
                 file |-> NoFile, text |-> NoFile, sig |-> NoFile, retried |-> FALSE, lost |-> FALSE]
NoScan == [pc |-> "idle", seen |-> NoFingerprint, open |-> {}, todo |-> {},
           read |-> [f \in Files |-> NoFile]]
IdleHandler == [pc |-> "idle", file |-> NoFile, text |-> NoFile]

WindowStates == {"sleep", "drained", "empty", "batch", "files", "read", "write", "scan",
                 "refreshing", "ending", "tail", "panicked", "over"}
\* A window that has drained events and not yet let go of the slot.
BatchStates == {"drained", "batch", "files", "read", "write", "scan", "refreshing", "ending"}
ScanStates == {"idle", "opening", "discover", "parse", "merge", "record",
               "refreshing", "finishing", "tail", "closing", "lost"}
\* A scan that has taken the flag and has still to put it back.
OwnerStates == {"opening", "discover", "parse", "merge", "record",
                "refreshing", "finishing", "closing"}

Open(f) == buffer[f] # NoFile
OpenDocs == {f \in Files : Open(f)}
Existing(seen) == {f \in Files : seen[f] # NoFile}
Queued == pending \cup deleted # {}

Init ==
    /\ disk = [f \in Files |-> 0]
    /\ stat = [f \in Files |-> 0]
    /\ buffer = [f \in Files |-> NoFile]
    /\ validated = [f \in Files |-> FALSE]
    /\ writes = 0
    /\ index = [f \in Files |-> NoFile]
    /\ signatures = [f \in Files |-> NoFile]
    /\ fingerprint = NoFingerprint
    /\ outbox = {}
    /\ pending = {}
    /\ deleted = {}
    /\ handler = IdleHandler
    /\ slot = NoWindow
    /\ window = [w \in Windows |-> NoWindowTask]
    /\ scanning = FALSE
    /\ scan = [s \in Scanners |-> NoScan]
    /\ faults = 0

-----------------------------------------------------------------------------
(* The disk, and the documents of the editor *)

Event(f, type) == [file |-> f, type |-> type]

\* The files fs get a new text each, or are removed; the client's watcher notices.
PutOnDisk(fs, text, gone) ==
    /\ writes < MaxWrites
    /\ writes' = writes + 1
    /\ disk' = [f \in Files |-> IF f \in fs THEN (IF gone THEN NoFile ELSE text) ELSE disk[f]]
    /\ stat' = [f \in Files |-> IF f \in fs THEN (IF gone THEN NoFile ELSE writes') ELSE stat[f]]
    /\ outbox' = outbox \cup
        {Event(f, IF gone THEN "deleted"
                  ELSE IF disk[f] = NoFile THEN "created" ELSE "changed") : f \in fs}

\* Files are written or removed outside the editor, one or, as by a git
\* checkout, several at a time.
Write(fs) ==
    /\ PutOnDisk(fs, writes + 1, FALSE)
    /\ UNCHANGED <<docVars, indexVars, queueVars, handler, batchVars, scanVars, faults>>

Remove(fs) ==
    /\ fs \subseteq Existing(disk) \cap Removable
    /\ PutOnDisk(fs, NoFile, TRUE)
    /\ UNCHANGED <<docVars, indexVars, queueVars, handler, batchVars, scanVars, faults>>

DidOpen(f) ==
    /\ handler.pc = "idle"
    /\ f \in Editable
    /\ ~Open(f)
    /\ disk[f] # NoFile
    /\ buffer' = [buffer EXCEPT ![f] = disk[f]]
    /\ validated' = [validated EXCEPT ![f] = FALSE]
    /\ UNCHANGED <<diskVars, indexVars, queueVars, handler, batchVars, scanVars, faults>>

DidChange(f) ==
    /\ handler.pc = "idle"
    /\ Open(f)
    /\ writes < MaxWrites
    /\ writes' = writes + 1
    /\ buffer' = [buffer EXCEPT ![f] = writes']
    /\ validated' = [validated EXCEPT ![f] = FALSE]
    /\ UNCHANGED <<disk, stat, outbox, indexVars, queueVars, handler, batchVars, scanVars, faults>>

\* The debounced validation of EditPipeline, here one step; also what a scan's
\* revalidate_all_open_docs does with a document that has no current tree.
ValidateOpen(f) ==
    /\ Open(f)
    /\ ~validated[f]
    /\ index' = [index EXCEPT ![f] = buffer[f]]
    /\ validated' = [validated EXCEPT ![f] = TRUE]
    /\ UNCHANGED <<diskVars, buffer, signatures, queueVars, handler, batchVars, scanVars, faults>>

\* The editor saves a buffer; did_save itself leaves this state as it is.
Save(f) ==
    /\ Open(f)
    /\ PutOnDisk({f}, buffer[f], FALSE)
    /\ UNCHANGED <<docVars, indexVars, queueVars, handler, batchVars, scanVars, faults>>

\* did_close removes the document, reads the file, and gives the index its text.
DidClose(f) ==
    /\ handler.pc = "idle"
    /\ Open(f)
    /\ buffer' = [buffer EXCEPT ![f] = NoFile]
    /\ validated' = [validated EXCEPT ![f] = FALSE]
    /\ handler' = [pc |-> "closing", file |-> f, text |-> NoFile]
    /\ UNCHANGED <<diskVars, indexVars, queueVars, batchVars, scanVars, faults>>

CloseRead ==
    /\ handler.pc = "closing"
    /\ handler' = [pc |-> "closed", file |-> handler.file, text |-> disk[handler.file]]
    /\ UNCHANGED <<diskVars, docVars, indexVars, queueVars, batchVars, scanVars, faults>>

CloseRestore ==
    /\ handler.pc = "closed"
    /\ index' = [index EXCEPT ![handler.file] = handler.text]
    /\ handler' = IdleHandler
    /\ UNCHANGED <<diskVars, docVars, signatures, queueVars, batchVars, scanVars, faults>>

-----------------------------------------------------------------------------
(* Arming a batch window *)

\* Mutant: a window that has drained its events no longer holds the slot.
SlotSleeps == slot # NoWindow /\ window[slot].pc = "sleep"

\* The slot holds the handle of a task that has not finished.
SlotLive == slot # NoWindow /\ window[slot].pc # "over"

\* spawn_watched_batch_window: the slot takes the handle of a new window.
Spawn(tasks, retried) ==
    \E w \in Windows :
        /\ tasks[w].pc = "over"
        /\ \A v \in Windows : tasks[v].pc = "over" => w <= v
        /\ slot' = w
        /\ window' = [tasks EXCEPT ![w] =
                        [NoWindowTask EXCEPT !.pc = "sleep", !.retried = retried]]

\* arm_watched_batch, by an actor that leaves the windows as tasks.
ArmWatchedBatch(tasks) ==
    IF SlotLive THEN slot' = slot /\ window' = tasks ELSE Spawn(tasks, FALSE)

\* did_change_watched_files_impl queues each event: a change or a creation is
\* pending, a deletion is deleted; neither takes back the other.
DidChangeWatchedFiles ==
    /\ handler.pc = "idle"
    /\ outbox # {}
    /\ pending' = pending \cup {e.file : e \in {o \in outbox : o.type # "deleted"}}
    /\ deleted' = deleted \cup {e.file : e \in {o \in outbox : o.type = "deleted"}}
    /\ outbox' = {}
    /\ handler' = [pc |-> "arming", file |-> NoFile, text |-> NoFile]
    /\ UNCHANGED <<disk, stat, writes, docVars, indexVars, batchVars, scanVars, faults>>

ArmForEvents ==
    /\ handler.pc = "arming"
    /\ ArmWatchedBatch(window)
    /\ handler' = IdleHandler
    /\ UNCHANGED <<diskVars, docVars, indexVars, queueVars, scanVars, faults>>

-----------------------------------------------------------------------------
(* A batch window *)

At(w, state) == window[w].pc = state
Phase(s, state) == scan[s].pc = state
Finished(w) == [window EXCEPT ![w] = NoWindowTask]

\* The debounce is over: the pending changes are taken, then, under a lock of
\* their own, the deletions.  A file both changed and deleted counts as changed.
DrainPending(w) ==
    /\ At(w, "sleep")
    /\ pending' = {}
    /\ window' = [window EXCEPT ![w] = [@ EXCEPT !.pc = "drained", !.changes = pending]]
    /\ UNCHANGED <<diskVars, docVars, indexVars, deleted, handler, slot, scanVars, faults>>

DrainDeleted(w) ==
    LET deletes == deleted \ window[w].changes IN
    /\ At(w, "drained")
    /\ deleted' = {}
    /\ window' = [window EXCEPT ![w] = [@ EXCEPT !.deletes = deletes,
            !.pc = IF window[w].changes \cup deletes = {} THEN "empty" ELSE "batch"]]
    /\ UNCHANGED <<diskVars, docVars, indexVars, pending, handler, slot, scanVars, faults>>

\* A window that found nothing ends; its handle stays in the slot.
EndEmpty(w) ==
    /\ At(w, "empty")
    /\ window' = Finished(w)
    /\ UNCHANGED <<diskVars, docVars, indexVars, queueVars, handler, slot, scanVars, faults>>

OverCap(w) == Cardinality(window[w].changes) + Cardinality(window[w].deletes) > Cap

\* Mutant: whole events go back into queues of files.
RequeueEvents(w) ==
    /\ pending' = pending \cup {Event(f, "changed") : f \in window[w].changes}
    /\ deleted' = deleted \cup {Event(f, "deleted") : f \in window[w].deletes}

Requeue(w) ==
    /\ pending' = pending \cup window[w].changes
    /\ deleted' = deleted \cup window[w].deletes

\* process_watched_batch over the cap: one quiet scan instead, or, while another
\* scan runs, everything goes back into the queues.
BatchScan(w) ==
    /\ At(w, "batch")
    /\ OverCap(w)
    /\ ~scanning
    /\ scanning' = TRUE
    /\ scan' = [scan EXCEPT !["batch"].pc = "discover"]
    /\ window' = [window EXCEPT ![w].pc = "scan"]
    /\ UNCHANGED <<diskVars, docVars, indexVars, queueVars, handler, slot, fingerprint, faults>>

BatchLosesScan(w) ==
    /\ At(w, "batch")
    /\ OverCap(w)
    /\ scanning
    /\ Requeue(w)
    /\ window' = [window EXCEPT ![w] = [@ EXCEPT !.pc = "ending", !.lost = TRUE]]
    /\ UNCHANGED <<diskVars, docVars, indexVars, handler, slot, scanVars, faults>>

\* Under the cap: the deleted files leave the index first (process_watched_deletes).
BatchDeletes(w) ==
    LET gone == window[w].deletes IN
    /\ At(w, "batch")
    /\ ~OverCap(w)
    /\ index' = [f \in Files |-> IF f \in gone THEN NoFile ELSE index[f]]
    /\ signatures' = [f \in Files |-> IF f \in gone THEN NoFile ELSE signatures[f]]
    /\ window' = [window EXCEPT ![w] = [@ EXCEPT !.pc = "files", !.todo = window[w].changes]]
    /\ UNCHANGED <<diskVars, docVars, queueVars, handler, slot, scanVars, faults>>

\* Each changed file is looked at, unless it is open or as it was when a batch
\* last read it; it is read after that, and may be gone, and its text waits for
\* a validation permit.
Skipped(f) == Open(f) \/ (stat[f] # NoFile /\ signatures[f] = stat[f])

BatchSkips(w) ==
    /\ At(w, "files")
    /\ \E f \in window[w].todo :
        /\ Skipped(f)
        /\ window' = [window EXCEPT ![w].todo = @ \ {f}]
    /\ UNCHANGED <<diskVars, docVars, indexVars, queueVars, handler, slot, scanVars, faults>>

BatchStats(w) ==
    /\ At(w, "files")
    /\ \E f \in window[w].todo :
        /\ ~Skipped(f)
        /\ window' = [window EXCEPT ![w] = [@ EXCEPT !.todo = window[w].todo \ {f},
                          !.pc = "read", !.file = f, !.sig = stat[f]]]
    /\ UNCHANGED <<diskVars, docVars, indexVars, queueVars, handler, slot, scanVars, faults>>

BatchReads(w) ==
    /\ At(w, "read")
    /\ \E f \in Files :
        /\ window[w].file = f
        /\ window' = [window EXCEPT ![w] =
              IF disk[f] = NoFile THEN [@ EXCEPT !.pc = "files", !.file = NoFile, !.sig = NoFile]
              ELSE [@ EXCEPT !.pc = "write", !.text = disk[f]]]
    /\ UNCHANGED <<diskVars, docVars, indexVars, queueVars, handler, slot, scanVars, faults>>

\* parse_and_validate without a version: whatever the index held is replaced.
\* A file that had no stat leaves no signature.
BatchIndexes(w) ==
    LET f == window[w].file IN
    /\ At(w, "write")
    /\ index' = [index EXCEPT ![f] = window[w].text]
    /\ signatures' = IF window[w].sig = NoFile THEN signatures
                     ELSE [signatures EXCEPT ![f] = window[w].sig]
    /\ window' = [window EXCEPT ![w] = [@ EXCEPT !.pc = "files", !.file = NoFile,
                                                !.text = NoFile, !.sig = NoFile]]
    /\ UNCHANGED <<diskVars, docVars, queueVars, handler, slot, scanVars, faults>>

\* Through its files, the batch asks the client to refresh its tokens and lenses
\* and waits for the answers; a batch whose scan is over does not.
EndFiles(w) ==
    /\ At(w, "files")
    /\ window[w].todo = {}
    /\ window' = [window EXCEPT ![w].pc = "refreshing"]
    /\ UNCHANGED <<diskVars, docVars, indexVars, queueVars, handler, slot, scanVars, faults>>

EndBatch(w) ==
    /\ At(w, "scan")
    /\ Phase("batch", "idle")
    /\ window' = [window EXCEPT ![w].pc = "ending"]
    /\ UNCHANGED <<diskVars, docVars, indexVars, queueVars, handler, slot, scanVars, faults>>

\* The client has answered, or had nothing to refresh, or can not.
EndBatchRefresh(w) ==
    /\ At(w, "refreshing")
    /\ window' = [window EXCEPT ![w].pc = "ending"]
    /\ UNCHANGED <<diskVars, docVars, indexVars, queueVars, handler, slot, scanVars, faults>>

\* The slot is emptied before the queues are looked at again.
ReleaseSlot(w) ==
    /\ At(w, "ending")
    /\ slot' = NoWindow
    /\ window' = [window EXCEPT ![w] = [NoWindowTask EXCEPT !.pc = "tail", !.lost = window[w].lost]]
    /\ UNCHANGED <<diskVars, docVars, indexVars, queueVars, handler, scanVars, faults>>

\* Mutant: only a batch that lost the scan looks at the queues again.
RearmLostOnly(w) ==
    /\ At(w, "tail")
    /\ IF window[w].lost /\ ~scanning THEN ArmWatchedBatch(Finished(w))
       ELSE slot' = slot /\ window' = Finished(w)
    /\ UNCHANGED <<diskVars, docVars, indexVars, queueVars, handler, scanVars, faults>>

\* What came meanwhile gets a window; what a scan kept back waits for its end.
RearmAfterBatch(w) ==
    /\ At(w, "tail")
    /\ IF IF window[w].lost THEN ~scanning ELSE Queued
       THEN ArmWatchedBatch(Finished(w))
       ELSE slot' = slot /\ window' = Finished(w)
    /\ UNCHANGED <<diskVars, docVars, indexVars, queueVars, handler, scanVars, faults>>

\* The batch's task panics; a scan of its own gives the flag back at once.
PanicBatch(w) ==
    /\ faults < MaxFaults
    /\ window[w].pc \in {"batch", "files", "read", "write", "refreshing"}
    /\ faults' = faults + 1
    /\ window' = [window EXCEPT ![w].pc = "panicked"]
    /\ UNCHANGED <<diskVars, docVars, indexVars, queueVars, handler, slot, scanVars>>

\* The events go back, and one more window takes them, unless this was it.
RetryBatch(w) ==
    /\ At(w, "panicked")
    /\ Requeue(w)
    /\ IF ~window[w].retried /\ SlotLive THEN Spawn(Finished(w), TRUE)
       ELSE slot' = slot /\ window' = Finished(w)
    /\ UNCHANGED <<diskVars, docVars, indexVars, handler, scanVars, faults>>

-----------------------------------------------------------------------------
(* A workspace scan *)

Goto(s, state) == scan' = [scan EXCEPT ![s].pc = state]

\* A scan that is not quiet asks the client for its loading bar first.
FirstPhase(s) == IF s \in Quiet THEN "discover" ELSE "opening"

\* Mutant: the flag is set without looking at it.
StartScanUnchecked(s) ==
    /\ s # "batch"
    /\ Phase(s, "idle")
    /\ scanning' = TRUE
    /\ Goto(s, FirstPhase(s))
    /\ UNCHANGED <<diskVars, docVars, indexVars, queueVars, handler, batchVars, fingerprint, faults>>

\* The compare-exchange of validate_entire_workspace_tracked; who loses it
\* is Busy, and tries again or gives up.
StartScan(s) ==
    /\ s # "batch"
    /\ Phase(s, "idle")
    /\ ~scanning
    /\ scanning' = TRUE
    /\ Goto(s, FirstPhase(s))
    /\ UNCHANGED <<diskVars, docVars, indexVars, queueVars, handler, batchVars, fingerprint, faults>>

\* The client has answered whether it shows the bar, or was not asked: it shows
\* one, or none ever, or the command brought its own.
OpenBar(s) ==
    /\ Phase(s, "opening")
    /\ Goto(s, "discover")
    /\ UNCHANGED <<diskVars, docVars, indexVars, queueVars, handler, batchVars,
                   scanning, fingerprint, faults>>

\* The files are discovered and their stats hashed.  A quiet pass over a
\* workspace that looks like that of the last complete scan is skipped; the
\* others leave out the documents open now.
SkipScan(s) ==
    /\ Phase(s, "discover")
    /\ s \in Quiet
    /\ Existing(disk) # {}
    /\ fingerprint = stat
    /\ Goto(s, "finishing")
    /\ UNCHANGED <<diskVars, docVars, indexVars, queueVars, handler, batchVars,
                   scanning, fingerprint, faults>>

Discover(s) ==
    /\ Phase(s, "discover")
    /\ ~(s \in Quiet /\ Existing(disk) # {} /\ fingerprint = stat)
    /\ scan' = [scan EXCEPT ![s] = [NoScan EXCEPT !.pc = "parse", !.seen = stat,
                    !.open = OpenDocs, !.todo = Existing(disk) \ OpenDocs]]
    /\ UNCHANGED <<diskVars, docVars, indexVars, queueVars, handler, batchVars,
                   scanning, fingerprint, faults>>

\* The parallel pass reads each file when its turn comes.
ParseFile(s) ==
    /\ Phase(s, "parse")
    /\ \E f \in scan[s].todo :
        scan' = [scan EXCEPT ![s] = [@ EXCEPT !.todo = scan[s].todo \ {f},
                                              !.read = [scan[s].read EXCEPT ![f] = disk[f]]]]
    /\ UNCHANGED <<diskVars, docVars, indexVars, queueVars, handler, batchVars,
                   scanning, fingerprint, faults>>

EndParse(s) ==
    /\ Phase(s, "parse")
    /\ scan[s].todo = {}
    /\ scan' = [scan EXCEPT ![s] = [@ EXCEPT !.pc = "merge", !.todo = Existing(scan[s].read)]]
    /\ UNCHANGED <<diskVars, docVars, indexVars, queueVars, handler, batchVars,
                   scanning, fingerprint, faults>>

\* merge_scanned_file, one file after the other, whatever the index holds.
MergeFile(s) ==
    /\ Phase(s, "merge")
    /\ \E f \in scan[s].todo :
        /\ index' = [index EXCEPT ![f] = scan[s].read[f]]
        /\ scan' = [scan EXCEPT ![s].todo = @ \ {f}]
    /\ UNCHANGED <<diskVars, docVars, signatures, queueVars, handler, batchVars,
                   scanning, fingerprint, faults>>

\* Files the scan did not discover, and that were not open, leave the index.
PruneRemoved(s) ==
    LET kept == Existing(scan[s].seen) \cup scan[s].open IN
    /\ Phase(s, "merge")
    /\ scan[s].todo = {}
    /\ index' = [f \in Files |->
            IF f \in kept \/ Existing(scan[s].seen) = {} THEN index[f] ELSE NoFile]
    /\ Goto(s, "record")
    /\ UNCHANGED <<diskVars, docVars, signatures, queueVars, handler, batchVars,
                   scanning, fingerprint, faults>>

\* Mutant: the fingerprint is taken at the end of the scan.
RecordLatest(s) ==
    /\ Phase(s, "record")
    /\ fingerprint' = IF Existing(scan[s].seen) = {} THEN fingerprint ELSE stat
    /\ scan' = [scan EXCEPT ![s] = [NoScan EXCEPT !.pc = "refreshing"]]
    /\ UNCHANGED <<diskVars, docVars, indexVars, queueVars, handler, batchVars, scanning, faults>>

\* A complete scan leaves the fingerprint it began with, and asks the client to
\* refresh its tokens and lenses.
RecordFingerprint(s) ==
    /\ Phase(s, "record")
    /\ fingerprint' = IF Existing(scan[s].seen) = {} THEN fingerprint ELSE scan[s].seen
    /\ scan' = [scan EXCEPT ![s] = [NoScan EXCEPT !.pc = "refreshing"]]
    /\ UNCHANGED <<diskVars, docVars, indexVars, queueVars, handler, batchVars, scanning, faults>>

\* The client has answered, or can not refresh.
EndScanRefresh(s) ==
    /\ Phase(s, "refreshing")
    /\ Goto(s, "finishing")
    /\ UNCHANGED <<diskVars, docVars, indexVars, queueVars, handler, batchVars,
                   scanning, fingerprint, faults>>

\* The cancel button of a command: the scan stops at its next check.
CancelScan(s) ==
    /\ s \in Commands
    /\ scan[s].pc \in {"parse", "merge", "record"}
    /\ scan' = [scan EXCEPT ![s] = [NoScan EXCEPT !.pc = "finishing"]]
    /\ UNCHANGED <<diskVars, docVars, indexVars, queueVars, handler, batchVars,
                   scanning, fingerprint, faults>>

\* ScanGuard::finish: the loading bar is closed, then the flag is put back.
FinishScan(s) ==
    /\ Phase(s, "finishing")
    /\ scanning' = FALSE
    /\ Goto(s, "tail")
    /\ UNCHANGED <<diskVars, docVars, indexVars, queueVars, handler, batchVars, fingerprint, faults>>

\* Mutant: a scan ends without looking at the queues.
EndWithoutRearm(s) ==
    /\ Phase(s, "tail")
    /\ Goto(s, "idle")
    /\ UNCHANGED <<diskVars, docVars, indexVars, queueVars, handler, batchVars,
                   scanning, fingerprint, faults>>

\* What batches left in the queues gets a window.
RearmAfterScan(s) ==
    /\ Phase(s, "tail")
    /\ IF Queued THEN ArmWatchedBatch(window) ELSE UNCHANGED batchVars
    /\ Goto(s, "idle")
    /\ UNCHANGED <<diskVars, docVars, indexVars, queueVars, handler, scanning, fingerprint, faults>>

\* A command's request is cancelled, or a foreground scan panics: the guard is
\* dropped, and CloseDropped, a task of its own, closes the bar and puts the
\* flag back.
DropScan(s) ==
    /\ faults < MaxFaults
    /\ s \in Commands
    /\ scan[s].pc \in {"opening", "discover", "parse", "merge", "record", "refreshing"}
    /\ faults' = faults + 1
    /\ scan' = [scan EXCEPT ![s] = [NoScan EXCEPT !.pc = "closing"]]
    /\ UNCHANGED <<diskVars, docVars, indexVars, queueVars, handler, batchVars, scanning, fingerprint>>

\* Mutant: only the bar is closed.
CloseBarOnly(s) ==
    /\ Phase(s, "closing")
    /\ Goto(s, "idle")
    /\ UNCHANGED <<diskVars, docVars, indexVars, queueVars, handler, batchVars,
                   scanning, fingerprint, faults>>

CloseDropped(s) ==
    /\ Phase(s, "closing")
    /\ scanning' = FALSE
    /\ Goto(s, "idle")
    /\ UNCHANGED <<diskVars, docVars, indexVars, queueVars, handler, batchVars, fingerprint, faults>>

\* The request is cancelled while finish waits to close the bar: the guard is
\* marked finished already, so its drop does nothing.
DropFinishing(s) ==
    /\ faults < MaxFaults
    /\ s \in Commands
    /\ Phase(s, "finishing")
    /\ faults' = faults + 1
    /\ Goto(s, "lost")
    /\ UNCHANGED <<diskVars, docVars, indexVars, queueVars, handler, batchVars, scanning, fingerprint>>

\* A quiet scan panics: its guard puts the flag back itself.  The batch whose
\* scan it was panics with it.
PanicScan(s) ==
    /\ faults < MaxFaults
    /\ s \in Quiet
    /\ scan[s].pc \in {"discover", "parse", "merge", "record", "refreshing"}
    /\ faults' = faults + 1
    /\ scanning' = FALSE
    /\ scan' = [scan EXCEPT ![s] = NoScan]
    /\ window' = [w \in Windows |-> IF s = "batch" /\ At(w, "scan")
                        THEN [window[w] EXCEPT !.pc = "panicked"] ELSE window[w]]
    /\ UNCHANGED <<diskVars, docVars, indexVars, queueVars, handler, slot, fingerprint>>

-----------------------------------------------------------------------------
Environment ==
    \/ \E fs \in SUBSET Files \ {{}} : Write(fs) \/ Remove(fs)
    \/ \E f \in Files : DidOpen(f) \/ DidChange(f) \/ Save(f) \/ DidClose(f)

HandlerStep ==
    \/ DidChangeWatchedFiles
    \/ ArmForEvents
    \/ CloseRead
    \/ CloseRestore

WindowStep(w) ==
    \/ DrainPending(w)
    \/ DrainDeleted(w)
    \/ EndEmpty(w)
    \/ BatchScan(w)
    \/ BatchLosesScan(w)
    \/ BatchDeletes(w)
    \/ BatchSkips(w)
    \/ BatchStats(w)
    \/ BatchReads(w)
    \/ BatchIndexes(w)
    \/ EndFiles(w)
    \/ EndBatch(w)
    \/ ReleaseSlot(w)
    \/ RearmAfterBatch(w)
    \/ RetryBatch(w)

ScanStep(s) ==
    \/ SkipScan(s)
    \/ Discover(s)
    \/ ParseFile(s)
    \/ EndParse(s)
    \/ MergeFile(s)
    \/ PruneRemoved(s)
    \/ RecordFingerprint(s)
    \/ FinishScan(s)
    \/ RearmAfterScan(s)
    \/ CloseDropped(s)

\* The client answers a request a batch or a scan waits on.
Answer ==
    \/ \E w \in Windows : EndBatchRefresh(w)
    \/ \E s \in Scanners : OpenBar(s) \/ EndScanRefresh(s)

Fault ==
    \/ \E w \in Windows : PanicBatch(w)
    \/ \E s \in Scanners : DropScan(s) \/ DropFinishing(s) \/ PanicScan(s)

Next ==
    \/ Environment
    \/ HandlerStep
    \/ \E f \in Files : ValidateOpen(f)
    \/ \E w \in Windows : WindowStep(w)
    \/ \E s \in Scanners : StartScan(s) \/ CancelScan(s) \/ ScanStep(s)
    \/ Answer
    \/ Fault

\* The runtime polls its tasks; nobody has to start a scan or edit a file, and
\* the client owes not even an answer.
Fairness ==
    /\ WF_vars(HandlerStep)
    /\ \A f \in Files : WF_vars(ValidateOpen(f))
    /\ \A w \in Windows : WF_vars(WindowStep(w))
    /\ \A s \in Scanners : WF_vars(ScanStep(s))

Spec == Init /\ [][Next]_vars
FairSpec == Spec /\ Fairness

\* A client that answers what it is asked.  Not the code's to promise: none of
\* these requests has a timeout (detached_client_request, request_semantic_refresh).
ClientAnswers ==
    /\ \A w \in Windows : WF_vars(EndBatchRefresh(w))
    /\ \A s \in Scanners : WF_vars(OpenBar(s) \/ EndScanRefresh(s))

-----------------------------------------------------------------------------
(* Properties *)

\* Every variable keeps its type.
TypeOK ==
    /\ disk \in [Files -> Contents]
    /\ stat \in [Files -> Contents]
    /\ buffer \in [Files -> Contents]
    /\ validated \in [Files -> BOOLEAN]
    /\ writes \in Versions
    /\ index \in [Files -> Contents]
    /\ signatures \in [Files -> Contents]
    /\ fingerprint \in [Files -> Contents] \cup {NoFingerprint}
    /\ outbox \subseteq [file : Files, type : EventTypes]
    /\ pending \subseteq Files
    /\ deleted \subseteq Files
    /\ handler \in [pc : {"idle", "arming"}, file : {NoFile}, text : {NoFile}]
                   \cup [pc : {"closing", "closed"}, file : Files, text : Contents]
    /\ slot \in Windows \cup {NoWindow}
    /\ window \in [Windows -> [pc : WindowStates, changes : SUBSET Files,
                              deletes : SUBSET Files, todo : SUBSET Files,
                              file : Files \cup {NoFile}, text : Contents,
                              sig : Contents, retried : BOOLEAN, lost : BOOLEAN]]
    /\ scanning \in BOOLEAN
    /\ scan \in [Scanners -> [pc : ScanStates,
                             seen : [Files -> Contents] \cup {NoFingerprint},
                             open : SUBSET Files, todo : SUBSET Files,
                             read : [Files -> Contents]]]
    /\ faults \in 0 .. MaxFaults

Owners == {s \in Scanners : scan[s].pc \in OwnerStates}
Lost == {s \in Scanners : Phase(s, "lost")}

\* One scan at a time, from its first phase until its bar is closed, and the flag
\* is set exactly while that scan has still to put it back: neither a panic nor a
\* request dropped while its scan works lets a second one in or leaves the flag
\* set with nobody to clear it.  One exemption: a request dropped while the scan
\* finishes leaves the flag set with no scan left, and then none runs any more
\* (ScanGuard, validate_entire_workspace_tracked).
OneScanAtATime ==
    /\ \A s, t \in Owners : s = t
    /\ scanning <=> Owners \cup Lost # {}
    /\ Lost # {} => Owners = {}

\* Between the drain of its events and the release of the slot a batch has the
\* queues to itself: no other window drains or processes meanwhile, whichever
\* windows panic and are retried (arm_watched_batch, watched_batch_slot_is_ours).
OneBatchAtATime ==
    \A v, w \in Windows : window[v].pc \in BatchStates /\ window[w].pc \in BatchStates => v = w

\* Somebody will look at the queues again: a window that has still to drain or
\* to look back, a scan that will, or the handler that queued the events.
Responsible ==
    \/ handler.pc = "arming"
    \/ \E w \in Windows : window[w].pc \notin {"empty", "over"}
    \/ \E s \in Scanners : scan[s].pc \notin {"idle", "closing", "lost"}

\* While nothing panics and no request is dropped, queued events have somebody
\* who will take them.  The exception leaves the handle of a finished window in
\* the slot: it found nothing to do and ended without looking back
\* (did_change_watched_files_impl, process_watched_batch, the end of a scan).
NoEventStranded ==
    Queued /\ faults = 0 => Responsible \/ slot # NoWindow

AtRest ==
    /\ handler.pc = "idle"
    /\ outbox = {}
    /\ ~Queued
    /\ \A w \in Windows : At(w, "over")
    /\ \A s \in Scanners : Phase(s, "idle")

\* The next quiet pass is not skipped if the index does not hold f, which is on
\* disk, as it is there.
Detected(f) ==
    disk[f] # NoFile /\ ~Open(f) /\ index[f] # disk[f] => fingerprint # stat

\* With everything queued processed, the index holds each closed file that is on
\* disk as it is there, or the fingerprint of the last complete scan tells the
\* next quiet pass that it does not: no interleaving of scans and batches, faults
\* and cancellations makes the index of a file stale for good.  It takes that no
\* batch goes over the cap and nothing is opened; and a file that was removed may
\* stay in the index (merge_scanned_file, process_watched_batch,
\* quiet_pass_can_skip).
StaleIsDetected == AtRest => \A f \in Files : Detected(f)

\* With a client that answers, a scan that panics, or whose request is dropped
\* while it works, puts the flag back; only one dropped while it finishes may not
\* (ScanGuard::drop).
ScanReturnsFlag == ClientAnswers => (scanning ~> ~scanning \/ Lost # {})

\* With a client that answers, queued events are taken, through scans that keep
\* batches waiting, unless something panicked or the slot holds the handle of a
\* window that found nothing (BatchLosesScan, RearmAfterScan: the lost
\* compare-exchange).
EventsTaken ==
    ClientAnswers => (Queued ~> ~Queued \/ faults > 0 \/ (slot # NoWindow /\ ~SlotLive))

\* With a client that answers, every scan puts the flag back (scan/mod.rs:102:
\* "a scan can't wedge later scans").
ScanReleased == ClientAnswers => (scanning ~> ~scanning)
=============================================================================
