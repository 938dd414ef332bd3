------------------------ MODULE WorkspaceDetectProofs ------------------------
(* Proof that a file the index holds otherwise than the disk is one the next *)
(* quiet pass looks at, while nothing is open and no batch goes over the cap: *)
(* for every workspace, set of scans, number of windows, cap and number of    *)
(* writes and faults.                                                         *)
EXTENDS WorkspaceIndexProofs, FiniteSetTheorems

USE ConstantsAssumption DEF ConstantsAssumption

-----------------------------------------------------------------------------
(* The invariant *)

\* Nothing is open, and no batch is large enough to become a scan.
Undisturbed ==
    /\ OpenDocs = {}
    /\ \A w \in Windows : At(w, "batch") => ~OverCap(w)

Exists(f) == stat[f] # NoFile

\* A change of f is on its way to the handler, or to the batches.
Coming(f) == \E e \in outbox : e.file = f /\ e.type # "deleted"
Announced(f) == f \in pending \/ Coming(f)

\* A batch has a change of f still to process, or gives it back if it panicked.
Taken(w, f) ==
    \/ window[w].pc \in {"drained", "batch", "panicked"} /\ f \in window[w].changes
    \/ window[w].pc \in {"files", "read", "write"} /\ f \in window[w].todo
    \/ At(w, "read") /\ f = window[w].file

Noted(f) == Announced(f) \/ \E w \in Windows : Taken(w, f)

\* A batch is about to index f as it is on disk.
Current(w, f) == At(w, "write") /\ window[w].file = f /\ window[w].text = stat[f]

\* The index holds f as it is on disk, or a batch will see to it.
Fine(f) ==
    \/ index[f] = stat[f]
    \/ Noted(f) /\ signatures[f] # stat[f]
    \/ \E w \in Windows : Current(w, f)

\* The stats a scan took are still those of f.
Knows(stats, f) == stats # NoFingerprint /\ stats[f] = stat[f]

\* Only writes outside the editor touch the disk, and each makes a new stat.
DiskOK ==
    /\ disk = stat
    /\ \A f \in Files : stat[f] <= writes /\ signatures[f] <= writes
    /\ fingerprint # NoFingerprint => \A f \in Files : fingerprint[f] <= writes
    /\ handler.pc \in {"idle", "arming"}

\* The deletion of a file that exists again is never the last of its events to be
\* processed.
DeletionOK(f) ==
    /\ Event(f, "deleted") \in outbox => Coming(f)
    /\ f \in deleted =>
        Announced(f) \/ \E w \in Windows : At(w, "drained") /\ f \in window[w].changes
    /\ \A w \in Windows :
        /\ window[w].pc \in {"batch", "files", "read", "write", "refreshing", "panicked"}
        /\ f \in window[w].deletes
        => Announced(f)

DeletesOK == \A f \in Files : Exists(f) => DeletionOK(f)

\* What a batch is about to read is not known to the signatures as it is.
NoteOK(w) ==
    LET f == window[w].file IN
    /\ f \in window[w].changes
    /\ window[w].sig <= writes
    /\ Exists(f) => signatures[f] # stat[f]

\* Nor is what it has read and not indexed yet, which was changed since if it is
\* not what is on disk; then the stat the batch noted is an old one, too.
ReadOK(w) ==
    LET f == window[w].file IN
    /\ NoteOK(w)
    /\ window[w].text # NoFile /\ window[w].text <= writes
    /\ Exists(f) /\ window[w].text # stat[f] => window[w].sig # stat[f] /\ Announced(f)

WindowOK(w) ==
    /\ ~At(w, "scan")
    /\ window[w].pc \in {"files", "read", "write"} => window[w].todo \subseteq window[w].changes
    /\ At(w, "read") => NoteOK(w)
    /\ At(w, "write") => ReadOK(w)

WindowsOK == \A w \in Windows : WindowOK(w)

\* How far a scan that discovered f as it still is has got with it.
ScannedOK(s, f) ==
    /\ Phase(s, "parse") => f \in scan[s].todo \/ scan[s].read[f] = stat[f]
    /\ Phase(s, "merge") => scan[s].read[f] = stat[f] /\ (f \in scan[s].todo \/ Fine(f))
    /\ Phase(s, "record") => Fine(f)

WorkPhases == {"parse", "merge", "record"}

\* A scan that discovered f as it no longer is leaves a fingerprint that f does not
\* match, and found one.
ScanOK(s) ==
    scan[s].pc \in WorkPhases =>
        /\ scan[s].seen \in [Files -> Contents]
        /\ scan[s].open = {}
        /\ \A f \in Files : scan[s].seen[f] <= writes
        /\ \A f \in Files : Exists(f) =>
            IF Knows(scan[s].seen, f) THEN ScannedOK(s, f) ELSE ~Knows(fingerprint, f)

ScansOK == \A s \in Scanners : ScanOK(s)

FingerprintOK == \A f \in Files : Exists(f) /\ Knows(fingerprint, f) => Fine(f)

DetectInv ==
    /\ TypeOK /\ SlotOK /\ OneScanAtATime
    /\ DiskOK
    /\ DeletesOK
    /\ WindowsOK
    /\ ScansOK
    /\ FingerprintOK

\* The whole of a step, in the states the theorem is about.
Step ==
    /\ DetectInv /\ TypeOK'
    /\ Undisturbed /\ Undisturbed'
    /\ [Next]_vars

-----------------------------------------------------------------------------
(* The steps, and what they do *)

Others(w) == \A v \in Windows \ {w} : window'[v] = window[v]

\* The states of a window with events in its hands, or to give back if it panics.
BusyStates == {"drained", "batch", "files", "read", "write", "refreshing", "panicked"}

\* A window that has nothing left to process, before a step and after it.
Idles(w) == window[w].pc \notin BusyStates \ {"refreshing"}
Idled(w) == window'[w].pc \notin BusyStates \cup {"scan"}

\* A step that arms, ends or releases windows, and leaves what they work on.
Rests ==
    /\ \A w \in Windows : window'[w] = window[w] \/ (Idles(w) /\ Idled(w))
    /\ UNCHANGED <<diskVars, indexVars, queueVars>>

LEMMA StepParts ==
    ASSUME Step
    PROVE  /\ DiskTypes /\ DocTypes /\ IndexTypes /\ QueueTypes /\ BatchTypes /\ ScanTypes
           /\ \A f \in Files : stat[f] \in Int /\ stat'[f] \in Int /\ index[f] \in Int
                               /\ signatures[f] \in Int /\ ~Open(f) /\ ~Open(f)'
           /\ writes \in Int /\ writes >= 0
           /\ \A v, w \in Windows : window[v].pc \in BusyStates \cup {"sleep"}
                                    /\ window[w].pc \in BusyStates \cup {"sleep"} => v = w
<1>1. DiskTypes /\ DocTypes /\ IndexTypes /\ QueueTypes /\ BatchTypes /\ ScanTypes /\ DiskTypes'
  <2>1. TypeOK /\ TypeOK'
    BY DEF Step, DetectInv
  <2>2. DiskTypes'
    BY <2>1 DEF TypeOK, DiskTypes
  <2> QED
    BY <2>1, <2>2, TypeParts
<1>2. \A f \in Files :
        stat[f] \in Int /\ stat'[f] \in Int /\ index[f] \in Int /\ signatures[f] \in Int
  BY <1>1 DEF DiskTypes, IndexTypes, Contents, Versions, NoFile
<1>3. \A f \in Files : ~Open(f) /\ ~Open(f)'
  BY DEF Step, Undisturbed, OpenDocs
<1>4. writes \in Int /\ writes >= 0
  BY <1>1 DEF DiskTypes, Versions
<1>5. \A v, w \in Windows : window[v].pc \in BusyStates \cup {"sleep"}
                            /\ window[w].pc \in BusyStates \cup {"sleep"} => v = w
  BY DEF Step, DetectInv, SlotOK, BusyStates
<1> QED
  BY <1>1, <1>2, <1>3, <1>4, <1>5

\* Nothing opens, changes, saves or closes a document, and no batch scans.
LEMMA StepCases ==
    ASSUME Step
    PROVE  \/ \E fs \in SUBSET Files : Write(fs) \/ Remove(fs)
           \/ DidChangeWatchedFiles
           \/ ArmForEvents
           \/ \E w \in Windows :
                \/ DrainPending(w) \/ DrainDeleted(w) \/ EndEmpty(w)
                \/ BatchDeletes(w) \/ BatchSkips(w) \/ BatchStats(w) \/ BatchReads(w)
                \/ BatchIndexes(w) \/ EndFiles(w) \/ EndBatch(w) \/ EndBatchRefresh(w)
                \/ ReleaseSlot(w) \/ RearmAfterBatch(w)
                \/ PanicBatch(w) \/ RetryBatch(w)
           \/ \E s \in Scanners :
                \/ StartScan(s) \/ OpenBar(s) \/ EndScanRefresh(s)
                \/ CancelScan(s) \/ ScanStep(s)
                \/ DropScan(s) \/ DropFinishing(s) \/ PanicScan(s)
           \/ UNCHANGED vars
<1>1. ASSUME NEW f \in Files
      PROVE  ~DidOpen(f) /\ ~DidChange(f) /\ ~Save(f) /\ ~DidClose(f) /\ ~ValidateOpen(f)
  <2>1. ~Open(f) /\ buffer'[f] = NoFile
    BY StepParts DEF Open
  <2>2. ~DidOpen(f)
    BY <2>1, StepParts DEF DidOpen, DocTypes, DiskTypes
  <2> QED
    BY <2>1, <2>2 DEF DidChange, Save, DidClose, ValidateOpen
<1>2. ~CloseRead /\ ~CloseRestore
  BY DEF Step, DetectInv, DiskOK, CloseRead, CloseRestore
<1>3. ASSUME NEW w \in Windows
      PROVE  ~BatchScan(w) /\ ~BatchLosesScan(w)
  BY DEF Step, Undisturbed, BatchScan, BatchLosesScan
<1> QED
  BY <1>1, <1>2, <1>3 DEF Step, Next, Environment, HandlerStep, WindowStep, Answer, Fault

\* What the actions of a window do to its record.
LEMMA TaskOf ==
    ASSUME BatchTypes, NEW w \in Windows
    PROVE  window[w] = [pc |-> window[w].pc, changes |-> window[w].changes,
                        deletes |-> window[w].deletes, todo |-> window[w].todo,
                        file |-> window[w].file, text |-> window[w].text,
                        sig |-> window[w].sig, retried |-> window[w].retried,
                        lost |-> window[w].lost]
BY DEF BatchTypes, WindowTasks

LEMMA TaskUpdate ==
    ASSUME BatchTypes, NEW w \in Windows, NEW t, window' = [window EXCEPT ![w] = t]
    PROVE  window'[w] = t /\ Others(w)
BY DEF BatchTypes, Others

LEMMA DrainMoves ==
    ASSUME BatchTypes, NEW w \in Windows, DrainPending(w) \/ DrainDeleted(w)
    PROVE  /\ Others(w)
           /\ DrainPending(w) =>
                window'[w].pc = "drained" /\ window'[w].changes = pending
           /\ DrainDeleted(w) =>
                /\ \/ window'[w].pc = "batch"
                   \/ window'[w].pc = "empty" /\ window[w].changes = {}
                /\ window'[w].changes = window[w].changes
                /\ window'[w].deletes = deleted \ window[w].changes
<1>1. CASE DrainPending(w)
  <2> DEFINE t == [window[w] EXCEPT !.pc = "drained", !.changes = pending]
  <2>1. window' = [window EXCEPT ![w] = t] /\ ~DrainDeleted(w)
    BY <1>1 DEF DrainPending, DrainDeleted, At
  <2>2. t.pc = "drained" /\ t.changes = pending
    BY TaskOf
  <2> HIDE DEF t
  <2> QED
    BY <2>1, <2>2, TaskUpdate
<1>2. CASE DrainDeleted(w)
  <2> DEFINE deletes == deleted \ window[w].changes
             state == IF window[w].changes \cup deletes = {} THEN "empty" ELSE "batch"
             t == [window[w] EXCEPT !.deletes = deletes, !.pc = state]
  <2>1. window' = [window EXCEPT ![w] = t] /\ ~DrainPending(w)
    BY <1>2 DEF DrainPending, DrainDeleted, At
  <2>2. t.pc = state /\ t.changes = window[w].changes /\ t.deletes = deletes
    BY TaskOf
  <2>3. state = "batch" \/ (state = "empty" /\ window[w].changes = {})
    OBVIOUS
  <2> HIDE DEF t, state
  <2> QED
    BY <2>1, <2>2, <2>3, TaskUpdate
<1> QED
  BY <1>1, <1>2

LEMMA DeletesMoves ==
    ASSUME BatchTypes, NEW w \in Windows, BatchDeletes(w)
    PROVE  /\ Others(w) /\ window'[w].pc = "files"
           /\ window'[w].changes = window[w].changes
           /\ window'[w].deletes = window[w].deletes
           /\ window'[w].todo = window[w].changes
<1> DEFINE t == [window[w] EXCEPT !.pc = "files", !.todo = window[w].changes]
<1>1. window' = [window EXCEPT ![w] = t]
  BY DEF BatchDeletes
<1>2. /\ t.pc = "files" /\ t.changes = window[w].changes
      /\ t.deletes = window[w].deletes /\ t.todo = window[w].changes
  BY TaskOf
<1> HIDE DEF t
<1> QED
  BY <1>1, <1>2, TaskUpdate

LEMMA IndexesMoves ==
    ASSUME BatchTypes, NEW w \in Windows, BatchIndexes(w)
    PROVE  /\ Others(w) /\ window'[w].pc = "files"
           /\ window'[w].changes = window[w].changes
           /\ window'[w].deletes = window[w].deletes
           /\ window'[w].todo = window[w].todo
<1> DEFINE t == [window[w] EXCEPT !.pc = "files", !.file = NoFile, !.text = NoFile, !.sig = NoFile]
<1>1. window' = [window EXCEPT ![w] = t]
  BY DEF BatchIndexes
<1>2. /\ t.pc = "files" /\ t.changes = window[w].changes
      /\ t.deletes = window[w].deletes /\ t.todo = window[w].todo
  BY TaskOf
<1> HIDE DEF t
<1> QED
  BY <1>1, <1>2, TaskUpdate

LEMMA PanicMoves ==
    ASSUME BatchTypes, NEW w \in Windows, PanicBatch(w)
    PROVE  /\ Others(w) /\ window'[w].pc = "panicked"
           /\ window'[w].changes = window[w].changes
           /\ window'[w].deletes = window[w].deletes
<1> DEFINE t == [window[w] EXCEPT !.pc = "panicked"]
<1>1. window' = [window EXCEPT ![w] = t]
  BY DEF PanicBatch
<1>2. t.pc = "panicked" /\ t.changes = window[w].changes /\ t.deletes = window[w].deletes
  BY TaskOf
<1> HIDE DEF t
<1> QED
  BY <1>1, <1>2, TaskUpdate

LEMMA StatsMoves ==
    ASSUME BatchTypes, NEW w \in Windows, BatchSkips(w) \/ BatchStats(w)
    PROVE  /\ Others(w)
           /\ window'[w].changes = window[w].changes
           /\ window'[w].deletes = window[w].deletes
           /\ \E f \in window[w].todo :
                /\ window'[w].todo = window[w].todo \ {f}
                /\ \/ Skipped(f) /\ window'[w].pc = "files"
                   \/ /\ ~Skipped(f) /\ window'[w].pc = "read"
                      /\ window'[w].file = f /\ window'[w].sig = stat[f]
<1>1. CASE BatchSkips(w)
  <2>1. PICK f \in window[w].todo :
          Skipped(f) /\ window' = [window EXCEPT ![w].todo = @ \ {f}]
    BY <1>1 DEF BatchSkips
  <2> DEFINE t == [window[w] EXCEPT !.todo = @ \ {f}]
  <2>2. window' = [window EXCEPT ![w] = t]
    BY <2>1
  <2>3. /\ t.pc = window[w].pc /\ t.changes = window[w].changes
        /\ t.deletes = window[w].deletes /\ t.todo = window[w].todo \ {f}
    BY TaskOf
  <2>4. window[w].pc = "files"
    BY <1>1 DEF BatchSkips, At
  <2> HIDE DEF t
  <2>5. window'[w] = t /\ Others(w)
    BY <2>2, TaskUpdate
  <2> QED
    BY <2>1, <2>3, <2>4, <2>5
<1>2. CASE BatchStats(w)
  <2>1. PICK f \in window[w].todo :
          /\ ~Skipped(f)
          /\ window' = [window EXCEPT ![w] = [@ EXCEPT !.todo = window[w].todo \ {f},
                          !.pc = "read", !.file = f, !.sig = stat[f]]]
    BY <1>2 DEF BatchStats
  <2> DEFINE t == [window[w] EXCEPT !.todo = window[w].todo \ {f},
                          !.pc = "read", !.file = f, !.sig = stat[f]]
  <2>2. window' = [window EXCEPT ![w] = t]
    BY <2>1
  <2>3. /\ t.pc = "read" /\ t.changes = window[w].changes
        /\ t.deletes = window[w].deletes /\ t.todo = window[w].todo \ {f}
        /\ t.file = f /\ t.sig = stat[f]
    BY TaskOf
  <2> HIDE DEF t
  <2>4. window'[w] = t /\ Others(w)
    BY <2>2, TaskUpdate
  <2> QED
    BY <2>1, <2>3, <2>4
<1> QED
  BY <1>1, <1>2

LEMMA ReadMoves ==
    ASSUME BatchTypes, NEW w \in Windows, BatchReads(w)
    PROVE  /\ Others(w)
           /\ window'[w].changes = window[w].changes
           /\ window'[w].deletes = window[w].deletes
           /\ window'[w].todo = window[w].todo
           /\ window[w].file \in Files
           /\ \/ disk[window[w].file] = NoFile /\ window'[w].pc = "files"
              \/ /\ disk[window[w].file] # NoFile /\ window'[w].pc = "write"
                 /\ window'[w].file = window[w].file
                 /\ window'[w].text = disk[window[w].file]
                 /\ window'[w].sig = window[w].sig
<1>1. PICK f \in Files :
        /\ window[w].file = f
        /\ window' = [window EXCEPT ![w] =
              IF disk[f] = NoFile THEN [@ EXCEPT !.pc = "files", !.file = NoFile, !.sig = NoFile]
              ELSE [@ EXCEPT !.pc = "write", !.text = disk[f]]]
  BY DEF BatchReads
<1> DEFINE gone == [window[w] EXCEPT !.pc = "files", !.file = NoFile, !.sig = NoFile]
           read == [window[w] EXCEPT !.pc = "write", !.text = disk[f]]
           t == IF disk[f] = NoFile THEN gone ELSE read
<1>2. window' = [window EXCEPT ![w] = t]
  BY <1>1
<1>3. /\ gone.pc = "files" /\ gone.changes = window[w].changes
      /\ gone.deletes = window[w].deletes /\ gone.todo = window[w].todo
  BY TaskOf
<1>4. /\ read.pc = "write" /\ read.changes = window[w].changes
      /\ read.deletes = window[w].deletes /\ read.todo = window[w].todo
      /\ read.file = window[w].file /\ read.text = disk[f] /\ read.sig = window[w].sig
  BY TaskOf
<1> HIDE DEF gone, read
<1>5. /\ disk[f] = NoFile => t = gone
      /\ disk[f] # NoFile => t = read
  OBVIOUS
<1> HIDE DEF t
<1>6. window'[w] = t /\ Others(w)
  BY <1>2, TaskUpdate
<1> QED
  BY <1>1, <1>3, <1>4, <1>5, <1>6

LEMMA EndMoves ==
    ASSUME BatchTypes, NEW w \in Windows, EndFiles(w)
    PROVE  /\ Others(w) /\ window'[w].pc = "refreshing"
           /\ window'[w].changes = window[w].changes
           /\ window'[w].deletes = window[w].deletes
<1> DEFINE t == [window[w] EXCEPT !.pc = "refreshing"]
<1>1. window' = [window EXCEPT ![w] = t]
  BY DEF EndFiles
<1>2. t.pc = "refreshing" /\ t.changes = window[w].changes /\ t.deletes = window[w].deletes
  BY TaskOf
<1> HIDE DEF t
<1> QED
  BY <1>1, <1>2, TaskUpdate

\* A spawned window takes the place of one that is over.
LEMMA SpawnMoves ==
    ASSUME NEW tasks \in [Windows -> WindowTasks], NEW retried \in BOOLEAN,
           Spawn(tasks, retried)
    PROVE  \A v \in Windows : \/ window'[v] = tasks[v]
                              \/ tasks[v].pc = "over" /\ window'[v].pc = "sleep"
<1>1. PICK w \in Windows :
        /\ tasks[w].pc = "over"
        /\ window' = [tasks EXCEPT ![w] = [NoWindowTask EXCEPT !.pc = "sleep", !.retried = retried]]
  BY DEF Spawn
<1>2. window'[w].pc = "sleep" /\ \A v \in Windows \ {w} : window'[v] = tasks[v]
  BY <1>1 DEF NoWindowTask
<1> QED
  BY <1>1, <1>2

\* Arming, by an actor whose own window, if it has one, is done.
LEMMA ArmRests ==
    ASSUME BatchTypes, NEW tasks \in [Windows -> WindowTasks], ArmWatchedBatch(tasks),
           \A v \in Windows : tasks[v] = window[v] \/ (Idles(v) /\ tasks[v].pc = "over")
    PROVE  \A v \in Windows : window'[v] = window[v] \/ (Idles(v) /\ Idled(v))
<1>1. \A v \in Windows : \/ window'[v] = tasks[v]
                         \/ tasks[v].pc = "over" /\ window'[v].pc = "sleep"
  BY SpawnMoves DEF ArmWatchedBatch
<1>2. \A v \in Windows : tasks[v].pc = "over" => Idles(v)
  BY DEF Idles, BusyStates
<1>3. \A v \in Windows : window'[v].pc \in {"over", "sleep"} => Idled(v)
  BY DEF Idled, BusyStates
<1> QED
  BY <1>1, <1>2, <1>3

LEMMA WindowRests ==
    ASSUME Step, NEW w \in Windows,
           EndEmpty(w) \/ EndBatch(w) \/ EndBatchRefresh(w) \/ ReleaseSlot(w) \/ RearmAfterBatch(w)
    PROVE  Rests /\ UNCHANGED <<scanVars, handler>>
<1>1. BatchTypes
  BY StepParts
<1>2. ~At(w, "scan")
  BY DEF Step, DetectInv, WindowsOK, WindowOK
<1>3. UNCHANGED <<diskVars, indexVars, queueVars, scanVars, handler>>
  BY DEF EndEmpty, EndBatch, EndBatchRefresh, ReleaseSlot, RearmAfterBatch
<1>4. Idles(w)
  BY <1>2 DEF EndEmpty, EndBatch, EndBatchRefresh, ReleaseSlot, RearmAfterBatch, At, Idles,
    BusyStates
<1>5. \A v \in Windows : Finished(w)[v] = window[v] \/ (Idles(v) /\ Finished(w)[v].pc = "over")
  BY <1>1, <1>4, FinishedPc
<1>6. CASE window' = Finished(w)
  BY <1>3, <1>5, <1>6 DEF Rests, Idled, BusyStates
<1>7. CASE ArmWatchedBatch(Finished(w))
  BY <1>1, <1>3, <1>5, <1>7, FinishedTypes, ArmRests DEF Rests
<1>8. CASE EndBatch(w) \/ EndBatchRefresh(w)
  <2> DEFINE t == [window[w] EXCEPT !.pc = "ending"]
  <2>1. window' = [window EXCEPT ![w] = t]
    BY <1>8 DEF EndBatch, EndBatchRefresh
  <2>2. t.pc = "ending"
    BY <1>1, TaskOf
  <2> HIDE DEF t
  <2>3. window'[w].pc = "ending" /\ Others(w)
    BY <1>1, <2>1, <2>2, TaskUpdate
  <2> QED
    BY <1>3, <1>4, <2>3 DEF Rests, Idled, BusyStates, Others
<1>9. CASE ReleaseSlot(w)
  <2> DEFINE t == [NoWindowTask EXCEPT !.pc = "tail", !.lost = window[w].lost]
  <2>1. window' = [window EXCEPT ![w] = t]
    BY <1>9 DEF ReleaseSlot
  <2>2. t.pc = "tail"
    BY DEF NoWindowTask
  <2> HIDE DEF t
  <2>3. window'[w].pc = "tail" /\ Others(w)
    BY <1>1, <2>1, <2>2, TaskUpdate
  <2> QED
    BY <1>3, <1>4, <2>3 DEF Rests, Idled, BusyStates, Others
<1> QED
  BY <1>6, <1>7, <1>8, <1>9 DEF EndEmpty, RearmAfterBatch

LEMMA HandlerRests ==
    ASSUME Step, ArmForEvents
    PROVE  Rests /\ UNCHANGED scanVars /\ handler'.pc = "idle"
BY StepParts, ArmRests DEF ArmForEvents, Rests, BatchTypes, IdleHandler

\* A scan works on nothing that the windows have.
LEMMA ScanRests ==
    ASSUME Step, NEW s \in Scanners,
           StartScan(s) \/ OpenBar(s) \/ CancelScan(s) \/ SkipScan(s) \/ Discover(s)
             \/ ParseFile(s) \/ EndParse(s) \/ RecordFingerprint(s) \/ EndScanRefresh(s)
             \/ FinishScan(s) \/ RearmAfterScan(s)
             \/ CloseDropped(s) \/ DropScan(s) \/ DropFinishing(s) \/ PanicScan(s)
    PROVE  Rests /\ handler' = handler
<1>1. BatchTypes
  BY StepParts
<1>2. CASE RearmAfterScan(s)
  BY <1>1, <1>2, ArmRests DEF RearmAfterScan, Rests, batchVars, BatchTypes
<1>3. CASE PanicScan(s)
  <2>1. \A v \in Windows : window'[v] = window[v]
    BY <1>3 DEF PanicScan, Step, DetectInv, WindowsOK, WindowOK
  <2> QED
    BY <1>3, <2>1 DEF PanicScan, Rests
<1>4. CASE ~RearmAfterScan(s) /\ ~PanicScan(s)
  <2>1. UNCHANGED <<diskVars, indexVars, queueVars, window, handler>>
    BY <1>4 DEF StartScan, OpenBar, CancelScan, SkipScan, Discover, ParseFile, EndParse,
      RecordFingerprint, EndScanRefresh, FinishScan, CloseDropped, DropScan, DropFinishing,
      batchVars
  <2> QED
    BY <2>1 DEF Rests
<1> QED
  BY <1>2, <1>3, <1>4

\* A batch that panicked gives its events back.
LEMMA RetryMoves ==
    ASSUME Step, NEW w \in Windows, RetryBatch(w)
    PROVE  /\ At(w, "panicked")
           /\ pending' = pending \cup window[w].changes
           /\ deleted' = deleted \cup window[w].deletes
           /\ UNCHANGED <<diskVars, indexVars, handler, scanVars>>
           /\ \A v \in Windows : \/ v # w /\ window'[v] = window[v]
                                 \/ (v = w \/ Idles(v)) /\ Idled(v)
<1>1. BatchTypes
  BY StepParts
<1>2. \A v \in Windows : \/ window'[v] = Finished(w)[v]
                         \/ Finished(w)[v].pc = "over" /\ window'[v].pc = "sleep"
  BY <1>1, FinishedTypes, SpawnMoves DEF RetryBatch
<1>3. \A v \in Windows : \/ window'[v] = Finished(w)[v]
                         \/ (v = w \/ Idles(v)) /\ Idled(v)
  BY <1>1, <1>2, FinishedPc DEF Idles, Idled, BusyStates
<1>4. window'[w] = Finished(w)[w] => Idled(w)
  BY <1>1, FinishedPc DEF Idled, BusyStates
<1>5. \A v \in Windows : \/ v # w /\ window'[v] = window[v]
                         \/ (v = w \/ Idles(v)) /\ Idled(v)
  BY <1>1, <1>3, <1>4, FinishedPc
<1> QED
  BY <1>5 DEF RetryBatch, Requeue

\* Files get new stats or go; an event of each is on its way.
LEMMA DiskMoves ==
    ASSUME Step, NEW fs \in SUBSET Files, Write(fs) \/ Remove(fs)
    PROVE  /\ disk' = stat' /\ writes' = writes + 1
           /\ \A f \in Files \ fs : stat'[f] = stat[f]
           /\ \A f \in fs : stat'[f] = NoFile \/ (stat'[f] = writes' /\ Coming(f)')
           /\ outbox \subseteq outbox'
           /\ \A e \in outbox' \ outbox : e.file \in fs
           /\ UNCHANGED <<docVars, indexVars, queueVars, handler, batchVars, scanVars>>
<1>1. disk = stat /\ writes \in Int /\ DiskTypes
  BY StepParts DEF Step, DetectInv, DiskOK
<1>2. UNCHANGED <<docVars, indexVars, queueVars, handler, batchVars, scanVars>>
  BY DEF Write, Remove
<1>3. writes' = writes + 1
  BY DEF Write, Remove, PutOnDisk
<1>4. CASE Write(fs)
  <2> DEFINE type(f) == IF disk[f] = NoFile THEN "created" ELSE "changed"
  <2>1. /\ disk' = [f \in Files |-> IF f \in fs THEN writes + 1 ELSE disk[f]]
        /\ stat' = [f \in Files |-> IF f \in fs THEN writes' ELSE stat[f]]
        /\ outbox' = outbox \cup {Event(f, type(f)) : f \in fs}
    BY <1>4 DEF Write, PutOnDisk
  <2>2. \A f \in fs : Event(f, type(f)).file = f /\ Event(f, type(f)).type # "deleted"
    BY DEF Event
  <2> HIDE DEF type
  <2>3. \A f \in fs : Coming(f)'
    BY <2>1, <2>2 DEF Coming
  <2>4. disk' = stat'
    BY <1>1, <1>3, <2>1
  <2> QED
    BY <1>2, <1>3, <2>1, <2>2, <2>3, <2>4
<1>5. CASE Remove(fs)
  <2>1. /\ disk' = [f \in Files |-> IF f \in fs THEN NoFile ELSE disk[f]]
        /\ stat' = [f \in Files |-> IF f \in fs THEN NoFile ELSE stat[f]]
        /\ outbox' = outbox \cup {Event(f, "deleted") : f \in fs}
    BY <1>5 DEF Remove, PutOnDisk
  <2>2. \A f \in fs : Event(f, "deleted").file = f
    BY DEF Event
  <2>3. disk' = stat'
    BY <1>1, <2>1
  <2> QED
    BY <1>2, <1>3, <2>1, <2>2, <2>3
<1> QED
  BY <1>4, <1>5

Works(w) == DrainPending(w) \/ DrainDeleted(w) \/ BatchDeletes(w) \/ BatchSkips(w)
    \/ BatchStats(w) \/ BatchReads(w) \/ BatchIndexes(w) \/ EndFiles(w)
    \/ PanicBatch(w) \/ RetryBatch(w)

Merges(s) == MergeFile(s) \/ PruneRemoved(s)

\* Writers, the client's events, windows at work, and scans that write the index:
\* every other step rests.
LEMMA StepKinds ==
    ASSUME Step
    PROVE  \/ \E fs \in SUBSET Files : Write(fs) \/ Remove(fs)
           \/ DidChangeWatchedFiles
           \/ \E w \in Windows : Works(w)
           \/ \E s \in Scanners : Merges(s)
           \/ Rests
<1>1. UNCHANGED vars => Rests
  BY DEF vars, batchVars, Rests
<1> QED
  BY <1>1, StepCases, WindowRests, HandlerRests, ScanRests DEF ScanStep, Works, Merges

\* What is in the hands of the windows when nobody works on it.
LEMMA RestsKeep ==
    ASSUME Rests, NEW f, NEW w \in Windows
    PROVE  /\ Taken(w, f) <=> Taken(w, f)'
           /\ Current(w, f) <=> Current(w, f)'
<1>1. UNCHANGED <<diskVars, indexVars, queueVars>>
      /\ (window'[w] = window[w] \/ (Idles(w) /\ Idled(w)))
  BY DEF Rests
<1>2. CASE window'[w] = window[w]
  BY <1>1, <1>2 DEF Taken, Current, At, diskVars
<1>3. CASE Idles(w) /\ Idled(w)
  <2>1. ~Taken(w, f) /\ ~Current(w, f)
    BY <1>3 DEF Idles, BusyStates, Taken, Current, At
  <2>2. ~Taken(w, f)' /\ ~Current(w, f)'
    BY <1>3 DEF Idled, BusyStates, Taken, Current, At
  <2> QED
    BY <2>1, <2>2
<1> QED
  BY <1>1, <1>2, <1>3

\* A window keeps its hands on what it has, unless it works.
LEMMA OthersKeep ==
    ASSUME NEW w \in Windows, Others(w), NEW v \in Windows \ {w}, NEW f, UNCHANGED stat
    PROVE  /\ Taken(v, f) <=> Taken(v, f)'
           /\ Current(v, f) <=> Current(v, f)'
BY DEF Others, Taken, Current, At

\* What is announced stays so until a window takes it.
LEMMA AnnouncedKept ==
    ASSUME Step, NEW f \in Files, Announced(f),
           \A w \in Windows : ~DrainPending(w)
    PROVE  Announced(f)'
<1>1. CASE \E fs \in SUBSET Files : Write(fs) \/ Remove(fs)
  BY <1>1, DiskMoves DEF Announced, Coming, queueVars
<1>2. CASE DidChangeWatchedFiles
  BY <1>2 DEF DidChangeWatchedFiles, Announced, Coming
<1>3. CASE Rests
  BY <1>3 DEF Rests, Announced, Coming, queueVars, diskVars
<1>4. ASSUME NEW w \in Windows, Works(w)  PROVE Announced(f)'
  <2>1. CASE RetryBatch(w)
    BY <2>1, RetryMoves DEF Announced, Coming, diskVars
  <2>2. CASE ~RetryBatch(w)
    <3>1. pending' = pending /\ outbox' = outbox
      BY <1>4, <2>2 DEF Works, DrainDeleted, BatchDeletes, BatchSkips, BatchStats, BatchReads,
        BatchIndexes, EndFiles,
        PanicBatch, queueVars, diskVars
    <3> QED
      BY <3>1 DEF Announced, Coming
  <2> QED
    BY <2>1, <2>2
<1>5. ASSUME NEW s \in Scanners, Merges(s)  PROVE Announced(f)'
  BY <1>5 DEF Merges, MergeFile, PruneRemoved, Announced, Coming, queueVars, diskVars
<1> QED
  BY <1>1, <1>2, <1>3, <1>4, <1>5, StepKinds

-----------------------------------------------------------------------------
(* A fine file stays so, unless it is written or a scan merges it *)

\* A batch that works keeps a fine file fine.
LEMMA FineWork ==
    ASSUME Step, NEW f \in Files, Exists(f), Fine(f), NEW w \in Windows, Works(w)
    PROVE  Fine(f)'
<1>1. BatchTypes /\ IndexTypes /\ f \in Files /\ QueueTypes
  BY StepParts
<1>2. WindowOK(w) /\ DeletionOK(f) /\ disk = stat /\ ~Open(f)
  BY StepParts DEF Step, DetectInv, WindowsOK, DeletesOK, DiskOK
<1>3. CASE DrainPending(w)
  <2>1. Others(w) /\ window'[w].pc = "drained" /\ window'[w].changes = pending
    BY <1>1, <1>3, DrainMoves
  <2>2. UNCHANGED <<stat, outbox, index, signatures>> /\ window[w].pc = "sleep"
    BY <1>3 DEF DrainPending, At, diskVars, indexVars
  <2>3. Noted(f) => Noted(f)'
    BY <2>1, <2>2, OthersKeep DEF Noted, Announced, Coming, Taken, At
  <2>4. ~Current(w, f)
    BY <2>2 DEF Current, At
  <2> QED
    BY <2>1, <2>2, <2>3, <2>4, OthersKeep DEF Fine
<1>4. CASE DrainDeleted(w)
  <2>1. /\ Others(w) /\ window'[w].changes = window[w].changes
        /\ window'[w].pc = "batch" \/ window[w].changes = {}
    BY <1>1, <1>4, DrainMoves
  <2>2. UNCHANGED <<stat, outbox, pending, index, signatures>> /\ window[w].pc = "drained"
    BY <1>4 DEF DrainDeleted, At, diskVars, indexVars
  <2>3. Noted(f) => Noted(f)'
    BY <2>1, <2>2, OthersKeep DEF Noted, Announced, Coming, Taken, At
  <2>4. ~Current(w, f)
    BY <2>2 DEF Current, At
  <2> QED
    BY <2>1, <2>2, <2>3, <2>4, OthersKeep DEF Fine
<1>5. CASE BatchDeletes(w)
  <2>1. Others(w) /\ window'[w].pc = "files" /\ window'[w].todo = window[w].changes
    BY <1>1, <1>5, DeletesMoves
  <2>2. UNCHANGED <<stat, outbox, pending>> /\ window[w].pc = "batch"
    BY <1>5 DEF BatchDeletes, At, diskVars, queueVars
  <2>3. Noted(f) => Noted(f)'
    BY <2>1, <2>2, OthersKeep DEF Noted, Announced, Coming, Taken, At
  <2>4. ~Current(w, f)
    BY <2>2 DEF Current, At
  <2>5. CASE f \in window[w].deletes
    <3>1. Announced(f)
      BY <1>2, <2>2, <2>5 DEF DeletionOK
    <3>2. signatures'[f] = NoFile
      BY <1>5, <2>5 DEF BatchDeletes
    <3> QED
      BY <2>2, <2>3, <3>1, <3>2 DEF Noted, Fine, Exists
  <2>6. CASE f \notin window[w].deletes
    <3>1. index'[f] = index[f] /\ signatures'[f] = signatures[f]
      BY <1>5, <2>6 DEF BatchDeletes
    <3> QED
      BY <2>1, <2>2, <2>3, <2>4, <3>1, OthersKeep DEF Fine
  <2> QED
    BY <2>5, <2>6
<1>6. CASE BatchSkips(w) \/ BatchStats(w)
  <2>1. Others(w) /\ window[w].pc = "files"
    BY <1>1, <1>6, StatsMoves DEF BatchSkips, BatchStats, At
  <2>2. PICK g \in window[w].todo :
          /\ window'[w].todo = window[w].todo \ {g}
          /\ \/ Skipped(g) /\ window'[w].pc = "files"
             \/ ~Skipped(g) /\ window'[w].pc = "read" /\ window'[w].file = g
    BY <1>1, <1>6, StatsMoves
  <2>3. UNCHANGED <<stat, outbox, pending, index, signatures>>
    BY <1>6 DEF BatchSkips, BatchStats, diskVars, indexVars, queueVars
  <2>4. ~Current(w, f)
    BY <2>1 DEF Current, At
  <2>5. CASE f = g /\ Skipped(g)
    <3>1. signatures[f] = stat[f]
      BY <1>2, <2>5 DEF Skipped, Exists
    <3> QED
      BY <2>1, <2>3, <2>4, <3>1, OthersKeep DEF Fine
  <2>6. CASE f = g /\ ~Skipped(g)
    <3>1. signatures[f] # stat[f]
      BY <2>6 DEF Skipped, Exists
    <3>2. Taken(w, f)'
      BY <2>2, <2>6 DEF Taken, At
    <3> QED
      BY <2>3, <3>1, <3>2 DEF Fine, Noted
  <2>7. CASE f # g
    <3>1. Noted(f) => Noted(f)'
      BY <2>1, <2>2, <2>3, <2>7, OthersKeep DEF Noted, Announced, Coming, Taken, At
    <3> QED
      BY <2>1, <2>3, <2>4, <3>1, OthersKeep DEF Fine
  <2> QED
    BY <2>2, <2>5, <2>6, <2>7
<1>10. CASE BatchReads(w)
  <2>1. /\ Others(w) /\ window'[w].todo = window[w].todo
        /\ \/ disk[window[w].file] = NoFile /\ window'[w].pc = "files"
           \/ /\ window'[w].pc = "write" /\ window'[w].file = window[w].file
              /\ window'[w].text = disk[window[w].file]
    BY <1>1, <1>10, ReadMoves
  <2>2. UNCHANGED <<stat, outbox, pending, index, signatures>> /\ window[w].pc = "read"
    BY <1>10 DEF BatchReads, At, diskVars, indexVars, queueVars
  <2>3. ~Current(w, f)
    BY <2>2 DEF Current, At
  <2>4. CASE f = window[w].file
    <3>1. disk[f] # NoFile
      BY <1>2 DEF Exists
    <3> QED
      BY <1>2, <2>1, <2>2, <2>4, <3>1 DEF Fine, Current, At
  <2>5. CASE f # window[w].file
    <3>1. Taken(w, f) => Taken(w, f)'
      BY <2>1, <2>2, <2>5 DEF Taken, At
    <3>2. Noted(f) => Noted(f)'
      BY <2>1, <2>2, <3>1, OthersKeep DEF Noted, Announced, Coming
    <3> QED
      BY <2>1, <2>2, <2>3, <3>2, OthersKeep DEF Fine
  <2> QED
    BY <2>4, <2>5
<1>11. CASE EndFiles(w)
  <2>1. Others(w)
    BY <1>1, <1>11, EndMoves
  <2>2. /\ UNCHANGED <<stat, outbox, pending, index, signatures>>
        /\ window[w].pc = "files" /\ window[w].todo = {}
    BY <1>11 DEF EndFiles, At, diskVars, indexVars, queueVars
  <2>3. ~Current(w, f) /\ ~Taken(w, f)
    BY <2>2 DEF Current, Taken, At
  <2>4. Noted(f) => Noted(f)'
    BY <2>1, <2>2, <2>3, OthersKeep DEF Noted, Announced, Coming
  <2> QED
    BY <2>1, <2>2, <2>3, <2>4, OthersKeep DEF Fine
<1>7. CASE BatchIndexes(w)
  <2>1. Others(w) /\ window'[w].pc = "files" /\ window'[w].todo = window[w].todo
    BY <1>1, <1>7, IndexesMoves
  <2>2. UNCHANGED <<stat, outbox, pending>> /\ window[w].pc = "write"
    BY <1>7 DEF BatchIndexes, At, diskVars, queueVars
  <2>3. Noted(f) => Noted(f)'
    BY <2>1, <2>2, OthersKeep DEF Noted, Announced, Coming, Taken, At
  <2>4. /\ index' = [index EXCEPT ![window[w].file] = window[w].text]
        /\ signatures' = IF window[w].sig = NoFile THEN signatures
                         ELSE [signatures EXCEPT ![window[w].file] = window[w].sig]
    BY <1>7 DEF BatchIndexes
  <2>5. CASE f = window[w].file
    <3>1. index'[f] = window[w].text /\ signatures'[f] \in {signatures[f], window[w].sig}
      BY <1>1, <2>4, <2>5 DEF IndexTypes
    <3>2. \/ window[w].text = stat[f]
          \/ Announced(f) /\ signatures[f] # stat[f] /\ window[w].sig # stat[f]
      BY <1>2, <2>2, <2>5 DEF WindowOK, ReadOK, NoteOK, At
    <3>3. Announced(f) => Noted(f)'
      BY <2>2 DEF Noted, Announced, Coming
    <3> QED
      BY <2>2, <3>1, <3>2, <3>3 DEF Fine
  <2>6. CASE f # window[w].file
    <3>1. index'[f] = index[f] /\ signatures'[f] = signatures[f]
      BY <1>1, <2>4, <2>6 DEF IndexTypes
    <3>2. ~Current(w, f)
      BY <2>6 DEF Current
    <3> QED
      BY <2>1, <2>2, <2>3, <3>1, <3>2, OthersKeep DEF Fine
  <2> QED
    BY <2>5, <2>6
<1>8. CASE PanicBatch(w)
  <2>1. Others(w) /\ window'[w].pc = "panicked" /\ window'[w].changes = window[w].changes
    BY <1>1, <1>8, PanicMoves
  <2>2. /\ UNCHANGED <<stat, outbox, pending, index, signatures>>
        /\ window[w].pc \in {"batch", "files", "read", "write", "refreshing"}
    BY <1>8 DEF PanicBatch, diskVars, indexVars, queueVars
  <2>3. Taken(w, f) \/ Current(w, f) => f \in window[w].changes
    BY <1>2, <2>2 DEF Taken, Current, At, WindowOK, ReadOK, NoteOK
  <2>4. Taken(w, f) \/ Current(w, f) => Taken(w, f)'
    BY <2>1, <2>3 DEF Taken
  <2>5. Noted(f) => Noted(f)'
    BY <2>1, <2>2, <2>4, OthersKeep DEF Noted, Announced, Coming
  <2>6. CASE Current(w, f)
    <3>1. signatures[f] # stat[f]
      BY <1>2, <2>6 DEF Current, At, WindowOK, ReadOK, NoteOK
    <3> QED
      BY <2>2, <2>4, <2>6, <3>1 DEF Noted, Fine
  <2> QED
    BY <2>1, <2>2, <2>5, <2>6, OthersKeep DEF Fine
<1>9. CASE RetryBatch(w)
  <2>1. /\ At(w, "panicked")
        /\ pending' = pending \cup window[w].changes
        /\ UNCHANGED <<stat, outbox, index, signatures>>
        /\ \A v \in Windows : \/ v # w /\ window'[v] = window[v]
                              \/ (v = w \/ Idles(v)) /\ Idled(v)
    BY <1>9, RetryMoves DEF diskVars, indexVars
  <2>2. ASSUME NEW v \in Windows  PROVE Taken(v, f) => Noted(f)'
    <3>1. CASE v = w
      BY <2>1, <3>1 DEF Taken, At, Noted, Announced, Coming
    <3>2. CASE v # w /\ window'[v] = window[v]
      BY <3>2 DEF Taken, Noted, At
    <3>3. CASE Idles(v)
      BY <3>3 DEF Taken, Idles, BusyStates, At
    <3> QED
      BY <2>1, <3>1, <3>2, <3>3
  <2>3. Noted(f) => Noted(f)'
    BY <2>1, <2>2 DEF Noted, Announced, Coming
  <2>4. ASSUME NEW v \in Windows, Current(v, f)  PROVE Current(v, f)'
    <3>1. v # w /\ ~Idles(v)
      BY <2>1, <2>4 DEF Current, At, Idles, BusyStates
    <3> QED
      BY <2>1, <2>4, <3>1 DEF Current, At
  <2> QED
    BY <2>1, <2>3, <2>4 DEF Fine
<1> QED
  BY <1>3, <1>4, <1>5, <1>6, <1>7, <1>8, <1>9, <1>10, <1>11 DEF Works

LEMMA FineKept ==
    ASSUME Step, NEW f \in Files, Exists(f), Fine(f), stat'[f] = stat[f],
           \A s \in Scanners : ~Merges(s)
    PROVE  Fine(f)'
<1>1. CASE \E fs \in SUBSET Files : Write(fs) \/ Remove(fs)
  <2>1. outbox \subseteq outbox' /\ UNCHANGED <<pending, window, index, signatures>>
    BY <1>1, DiskMoves DEF queueVars, batchVars, indexVars
  <2> QED
    BY <2>1 DEF Fine, Noted, Announced, Coming, Taken, Current, At
<1>2. CASE DidChangeWatchedFiles
  <2>1. UNCHANGED <<window, index, signatures>>
    BY <1>2 DEF DidChangeWatchedFiles, batchVars, indexVars
  <2>2. Announced(f) => Announced(f)'
    BY <1>2 DEF DidChangeWatchedFiles, Announced, Coming
  <2> QED
    BY <2>1, <2>2 DEF Fine, Noted, Taken, Current, At
<1>3. CASE Rests
  <2>1. UNCHANGED <<stat, outbox, pending, index, signatures>>
    BY <1>3 DEF Rests, diskVars, indexVars, queueVars
  <2>2. Noted(f) => Noted(f)'
    BY <1>3, <2>1, RestsKeep DEF Noted, Announced, Coming
  <2> QED
    BY <1>3, <2>1, <2>2, RestsKeep DEF Fine
<1> QED
  BY <1>1, <1>2, <1>3, FineWork, StepKinds

\* A scan that merges or prunes leaves what is on its way.
LEMMA MergeKeeps ==
    ASSUME NEW s \in Scanners, Merges(s), NEW f,
           index'[f] \in {index[f], stat[f]}, Fine(f) \/ index'[f] = stat[f]
    PROVE  Fine(f)'
<1>1. UNCHANGED <<stat, outbox, pending, window, signatures>>
  BY DEF Merges, MergeFile, PruneRemoved, diskVars, queueVars, batchVars
<1> QED
  BY <1>1 DEF Fine, Noted, Announced, Coming, Taken, Current, At

-----------------------------------------------------------------------------
(* The disk, the deletions and the batches *)

LEMMA DiskOKStep ==
    ASSUME Step
    PROVE  DiskOK'
<1>1. /\ disk = stat /\ \A f \in Files : stat[f] <= writes /\ signatures[f] <= writes
      /\ fingerprint # NoFingerprint => \A f \in Files : fingerprint[f] <= writes
      /\ handler.pc \in {"idle", "arming"}
      /\ writes \in Int /\ ScanTypes
  BY StepParts DEF Step, DetectInv, DiskOK
<1>2. CASE \E fs \in SUBSET Files : Write(fs) \/ Remove(fs)
  <2>1. PICK fs \in SUBSET Files : Write(fs) \/ Remove(fs)
    BY <1>2
  <2>2. disk' = stat' /\ writes' = writes + 1 /\ UNCHANGED <<fingerprint, handler, signatures>>
    BY <2>1, DiskMoves DEF scanVars, indexVars
  <2>3. ASSUME NEW f \in Files  PROVE stat'[f] <= writes' /\ signatures'[f] <= writes'
    BY <1>1, <2>1, <2>2, StepParts, DiskMoves DEF NoFile
  <2>4. fingerprint # NoFingerprint => \A f \in Files : fingerprint[f] \in Int
    BY <1>1 DEF ScanTypes, Contents, Versions, NoFile
  <2> QED
    BY <1>1, <2>2, <2>3, <2>4 DEF DiskOK
<1>3. ASSUME UNCHANGED <<disk, stat, writes>>, fingerprint' = fingerprint,
             handler'.pc \in {"idle", "arming"}, \A f \in Files : signatures'[f] <= writes
      PROVE  DiskOK'
  BY <1>1, <1>3 DEF DiskOK
<1>4. CASE DidChangeWatchedFiles
  BY <1>1, <1>3, <1>4 DEF DidChangeWatchedFiles, scanVars, indexVars
<1>5. CASE ArmForEvents
  BY <1>1, <1>3, <1>5 DEF ArmForEvents, IdleHandler, scanVars, diskVars, indexVars
<1>6. ASSUME NEW w \in Windows, Works(w) \/ EndEmpty(w) \/ EndBatch(w)
                  \/ EndBatchRefresh(w) \/ ReleaseSlot(w)
                  \/ RearmAfterBatch(w)
      PROVE  DiskOK'
  <2>1. UNCHANGED <<diskVars, fingerprint, handler>>
    BY <1>6 DEF Works, DrainPending, DrainDeleted, BatchDeletes, BatchSkips, BatchStats, BatchReads,
      BatchIndexes, EndFiles, PanicBatch, RetryBatch, EndEmpty, EndBatch, EndBatchRefresh,
      ReleaseSlot, RearmAfterBatch, scanVars
  <2>2. \A f \in Files : signatures'[f] <= writes
    <3>1. CASE BatchIndexes(w)
      <4>1. signatures' \in {signatures, [signatures EXCEPT ![window[w].file] = window[w].sig]}
        BY <3>1 DEF BatchIndexes
      <4>2. window[w].sig <= writes
        BY <3>1 DEF BatchIndexes, Step, DetectInv, WindowsOK, WindowOK, ReadOK, NoteOK
      <4> QED
        BY <1>1, <4>1, <4>2, StepParts DEF IndexTypes
    <3>2. CASE BatchDeletes(w)
      <4>1. \A f \in Files : signatures'[f] \in {signatures[f], NoFile}
        BY <3>2 DEF BatchDeletes
      <4>2. NoFile <= writes
        BY StepParts DEF NoFile
      <4> QED
        BY <1>1, <4>1, <4>2
    <3>3. CASE ~BatchIndexes(w) /\ ~BatchDeletes(w)
      <4>1. signatures' = signatures
        BY <1>6, <3>3 DEF Works, DrainPending, DrainDeleted, BatchSkips, BatchStats, BatchReads,
          EndFiles, PanicBatch, RetryBatch, EndEmpty, EndBatch, EndBatchRefresh,
          ReleaseSlot, RearmAfterBatch, indexVars
      <4> QED
        BY <1>1, <4>1
    <3> QED
      BY <3>1, <3>2, <3>3
  <2> QED
    BY <1>1, <1>3, <2>1, <2>2 DEF diskVars
<1>7. ASSUME NEW s \in Scanners, RecordFingerprint(s)  PROVE DiskOK'
  <2>1. /\ UNCHANGED <<diskVars, handler, signatures>>
        /\ fingerprint' \in {fingerprint, scan[s].seen} /\ Phase(s, "record")
    BY <1>7 DEF RecordFingerprint, indexVars
  <2>2. \A f \in Files : scan[s].seen[f] <= writes
    BY <2>1 DEF Step, DetectInv, ScansOK, ScanOK, WorkPhases, Phase
  <2> QED
    BY <1>1, <2>1, <2>2 DEF DiskOK, diskVars
<1>8. ASSUME NEW s \in Scanners,
             StartScan(s) \/ OpenBar(s) \/ EndScanRefresh(s) \/ CancelScan(s)
               \/ ScanStep(s) \/ DropScan(s) \/ DropFinishing(s)
               \/ PanicScan(s),
             ~RecordFingerprint(s)
      PROVE  DiskOK'
  <2>1. UNCHANGED <<diskVars, fingerprint, handler, signatures>>
    BY <1>8 DEF indexVars, StartScan, OpenBar, EndScanRefresh, CancelScan, ScanStep, SkipScan,
      Discover, ParseFile, EndParse,
      MergeFile, PruneRemoved, FinishScan, RearmAfterScan, CloseDropped, DropScan,
      DropFinishing, PanicScan
  <2> QED
    BY <1>1, <1>3, <2>1 DEF diskVars
<1>9. UNCHANGED vars => DiskOK'
  BY <1>1, <1>3 DEF vars, diskVars, scanVars, indexVars
<1> QED
  BY <1>2, <1>4, <1>5, <1>6, <1>7, <1>8, <1>9, StepCases DEF Works

LEMMA DeletesStep ==
    ASSUME Step
    PROVE  DeletesOK'
<1> SUFFICES ASSUME NEW f \in Files, Exists(f)'  PROVE DeletionOK(f)'
  BY DEF DeletesOK
<1>1. ASSUME Coming(f)'  PROVE DeletionOK(f)'
  BY <1>1 DEF DeletionOK, Announced
<1>2. BatchTypes
  BY StepParts
<1>3. ASSUME stat'[f] = stat[f]  PROVE DeletionOK(f)
  BY <1>3 DEF Step, DetectInv, DeletesOK, Exists
<1>4. CASE \E fs \in SUBSET Files : Write(fs) \/ Remove(fs)
  <2>1. PICK fs \in SUBSET Files : Write(fs) \/ Remove(fs)
    BY <1>4
  <2>2. CASE f \in fs
    BY <1>1, <2>1, <2>2, DiskMoves DEF Exists
  <2>3. CASE f \notin fs
    <3>1. /\ stat'[f] = stat[f] /\ outbox \subseteq outbox'
          /\ \A e \in outbox' \ outbox : e.file # f
          /\ UNCHANGED <<pending, deleted, window>>
      BY <2>1, <2>3, DiskMoves DEF queueVars, batchVars
    <3>2. DeletionOK(f) /\ (Coming(f) => Coming(f)')
      BY <1>3, <3>1 DEF Coming
    <3>3. Event(f, "deleted") \in outbox' => Event(f, "deleted") \in outbox
      BY <3>1 DEF Event
    <3> QED
      BY <3>1, <3>2, <3>3 DEF DeletionOK, Announced, At
  <2> QED
    BY <2>2, <2>3
<1>5. CASE DidChangeWatchedFiles
  <2>1. /\ UNCHANGED <<stat, window>> /\ outbox' = {}
        /\ pending' = pending \cup {e.file : e \in {o \in outbox : o.type # "deleted"}}
        /\ deleted' = deleted \cup {e.file : e \in {o \in outbox : o.type = "deleted"}}
    BY <1>5 DEF DidChangeWatchedFiles, batchVars
  <2>2. DeletionOK(f) /\ (Announced(f) => Announced(f)')
    BY <1>3, <2>1 DEF Announced, Coming
  <2>3. ASSUME NEW o \in outbox, o.type = "deleted", o.file = f  PROVE Announced(f)
    <3>1. o \in [file : Files, type : EventTypes]
      BY StepParts DEF DiskTypes
    <3>2. o = Event(f, "deleted")
      BY <2>3, <3>1 DEF Event
    <3> QED
      BY <2>2, <2>3, <3>2 DEF DeletionOK, Announced
  <2> QED
    BY <2>1, <2>2, <2>3 DEF DeletionOK, At
<1>6. CASE Rests
  <2>1. UNCHANGED <<stat, outbox, pending, deleted>>
    BY <1>6 DEF Rests, diskVars, queueVars
  <2>2. DeletionOK(f)
    BY <1>3, <2>1
  <2>3. \A w \in Windows : /\ window'[w].pc \in BusyStates => window'[w] = window[w]
                           /\ At(w, "drained") => window'[w] = window[w]
    BY <1>6 DEF Rests, Idles, Idled, BusyStates, At
  <2> QED
    BY <2>1, <2>2, <2>3 DEF DeletionOK, Announced, Coming, At, BusyStates
<1>7. ASSUME NEW s \in Scanners, Merges(s)  PROVE DeletionOK(f)'
  <2>1. UNCHANGED <<stat, outbox, pending, deleted, window>>
    BY <1>7 DEF Merges, MergeFile, PruneRemoved, diskVars, queueVars, batchVars
  <2> QED
    BY <1>3, <2>1 DEF DeletionOK, Announced, Coming, At
\* The window at work is the only one with events in its hands.
<1>8. ASSUME NEW w \in Windows, Others(w), window[w].pc \in BusyStates \cup {"sleep"}
      PROVE  \A v \in Windows \ {w} : window[v].pc \notin BusyStates /\ window'[v] = window[v]
  BY <1>8, StepParts DEF Others
<1>9. ASSUME NEW w \in Windows, DrainPending(w)  PROVE DeletionOK(f)'
  <2>1. Others(w) /\ window'[w].pc = "drained" /\ window'[w].changes = pending
    BY <1>2, <1>9, DrainMoves
  <2>2. UNCHANGED <<stat, outbox, deleted>> /\ window[w].pc = "sleep"
    BY <1>9 DEF DrainPending, At, diskVars
  <2>3. DeletionOK(f)
    BY <1>3, <2>2
  <2>4. f \in deleted => Coming(f) \/ f \in pending
    <3>1. \A v \in Windows : ~At(v, "drained")
      BY <1>8, <2>1, <2>2 DEF At, BusyStates
    <3> QED
      BY <2>3, <3>1 DEF DeletionOK, Announced
  <2> QED
    BY <1>8, <2>1, <2>2, <2>3, <2>4 DEF DeletionOK, Announced, Coming, At, BusyStates
<1>10. ASSUME NEW w \in Windows, DrainDeleted(w)  PROVE DeletionOK(f)'
  <2>1. Others(w) /\ window'[w].deletes = deleted \ window[w].changes
    BY <1>2, <1>10, DrainMoves
  <2>2. UNCHANGED <<stat, outbox, pending>> /\ deleted' = {} /\ window[w].pc = "drained"
    BY <1>10 DEF DrainDeleted, At, diskVars
  <2>3. DeletionOK(f)
    BY <1>3, <2>2
  <2>4. f \in window'[w].deletes => Announced(f)'
    <3>1. \A v \in Windows \ {w} : ~At(v, "drained")
      BY <1>8, <2>1, <2>2 DEF At, BusyStates
    <3> QED
      BY <2>1, <2>2, <2>3, <3>1 DEF DeletionOK, Announced, Coming
  <2> QED
    BY <1>8, <2>1, <2>2, <2>3, <2>4 DEF DeletionOK, Announced, Coming, At, BusyStates
<1>11. ASSUME NEW w \in Windows,
              \/ BatchDeletes(w) \/ BatchSkips(w) \/ BatchStats(w) \/ BatchReads(w)
              \/ BatchIndexes(w) \/ EndFiles(w) \/ PanicBatch(w)
       PROVE  DeletionOK(f)'
  <2>1. /\ Others(w) /\ window'[w].deletes = window[w].deletes
        /\ window'[w].pc \in {"files", "read", "write", "refreshing", "panicked"}
    BY <1>2, <1>11, DeletesMoves, StatsMoves, ReadMoves, IndexesMoves, EndMoves, PanicMoves
  <2>2. /\ UNCHANGED <<stat, outbox, pending, deleted>>
        /\ window[w].pc \in {"batch", "files", "read", "write", "refreshing"}
    BY <1>11 DEF BatchDeletes, BatchSkips, BatchStats, BatchReads, BatchIndexes, EndFiles,
      PanicBatch, At, diskVars, queueVars
  <2>3. DeletionOK(f)
    BY <1>3, <2>2
  <2>4. \A v \in Windows \ {w} : window[v].pc \notin BusyStates /\ window'[v] = window[v]
    BY <1>8, <2>1, <2>2 DEF BusyStates
  <2>5. Announced(f) => Announced(f)'
    BY <2>2 DEF Announced, Coming
  <2> QED
    BY <2>1, <2>2, <2>3, <2>4, <2>5 DEF DeletionOK, Coming, At, BusyStates
<1>12. ASSUME NEW w \in Windows, RetryBatch(w)  PROVE DeletionOK(f)'
  <2>1. /\ At(w, "panicked")
        /\ pending' = pending \cup window[w].changes
        /\ deleted' = deleted \cup window[w].deletes
        /\ UNCHANGED <<stat, outbox>>
        /\ \A v \in Windows : \/ v # w /\ window'[v] = window[v]
                              \/ (v = w \/ Idles(v)) /\ Idled(v)
    BY <1>12, RetryMoves DEF diskVars
  <2>2. DeletionOK(f) /\ (Announced(f) => Announced(f)') /\ (Coming(f) => Coming(f)')
    BY <1>3, <2>1 DEF Announced, Coming
  <2>3. \A v \in Windows \ {w} : window[v].pc \notin BusyStates
    BY <2>1, StepParts DEF At, BusyStates
  <2>4. \A v \in Windows : window'[v].pc \notin BusyStates
    BY <2>1, <2>3 DEF Idled
  <2>5. f \in deleted' => Announced(f)'
    BY <2>1, <2>2, <2>3 DEF DeletionOK, At, BusyStates
  <2> QED
    BY <2>1, <2>2, <2>4, <2>5 DEF DeletionOK, At, BusyStates
<1> QED
  BY <1>4, <1>5, <1>6, <1>7, <1>9, <1>10, <1>11, <1>12, StepKinds DEF Works

\* A window that stays as it is, while its file is announced at least as before.
LEMMA WindowKept ==
    ASSUME Step, NEW v \in Windows, window'[v] = window[v],
           UNCHANGED <<stat, writes, signatures>>,
           \A f \in Files : Announced(f) => Announced(f)'
    PROVE  WindowOK(v)'
<1>1. WindowOK(v) /\ window[v].changes \subseteq Files
  BY StepParts DEF Step, DetectInv, WindowsOK, BatchTypes, WindowTasks
<1> QED
  BY <1>1 DEF WindowOK, ReadOK, NoteOK, At, Exists

\* What a window at work has, and what it does not, comes from the moves above.
LEMMA WindowWork ==
    ASSUME Step, NEW w \in Windows, Works(w), ~RetryBatch(w)
    PROVE  WindowOK(w)'
<1>1. BatchTypes /\ DiskTypes
  BY StepParts
<1>2. WindowOK(w) /\ disk = stat /\ \A f \in Files : stat[f] <= writes
  BY DEF Step, DetectInv, WindowsOK, DiskOK
<1>3. ASSUME window'[w].pc \in {"drained", "empty", "batch", "refreshing", "panicked"}
      PROVE  WindowOK(w)'
  BY <1>3 DEF WindowOK, At
<1>4. CASE DrainPending(w) \/ DrainDeleted(w) \/ EndFiles(w) \/ PanicBatch(w)
  BY <1>1, <1>3, <1>4, DrainMoves, EndMoves, PanicMoves
<1>5. CASE BatchDeletes(w)
  BY <1>1, <1>5, DeletesMoves DEF WindowOK, At
<1>6. CASE BatchIndexes(w)
  <2>1. window[w].todo \subseteq window[w].changes
    BY <1>2, <1>6 DEF BatchIndexes, WindowOK, At
  <2> QED
    BY <1>1, <1>6, <2>1, IndexesMoves DEF WindowOK, At
<1>7. CASE BatchSkips(w) \/ BatchStats(w)
  <2>1. window[w].todo \subseteq window[w].changes /\ window[w].changes \subseteq Files
    BY <1>1, <1>2, <1>7 DEF BatchSkips, BatchStats, WindowOK, At, BatchTypes, WindowTasks
  <2>2. window'[w].changes = window[w].changes
    BY <1>1, <1>7, StatsMoves
  <2>3. PICK f \in window[w].todo :
          /\ window'[w].todo = window[w].todo \ {f}
          /\ \/ Skipped(f) /\ window'[w].pc = "files"
             \/ /\ ~Skipped(f) /\ window'[w].pc = "read"
                /\ window'[w].file = f /\ window'[w].sig = stat[f]
    BY <1>1, <1>7, StatsMoves
  <2>4. UNCHANGED <<stat, writes, signatures>>
    BY <1>7 DEF BatchSkips, BatchStats, diskVars, indexVars
  <2>5. CASE window'[w].pc = "files"
    BY <2>1, <2>2, <2>3, <2>5 DEF WindowOK, At
  <2>6. CASE window'[w].pc = "read"
    <3>1. /\ window'[w].file = f /\ f \in window'[w].changes /\ f \in Files
          /\ window'[w].sig = stat[f]
          /\ Exists(f) => signatures[f] # stat[f]
      BY <2>1, <2>2, <2>3, <2>6 DEF Skipped, Exists
    <3>2. NoteOK(w)'
      BY <1>2, <2>4, <3>1 DEF NoteOK, Exists
    <3> QED
      BY <2>1, <2>2, <2>3, <2>6, <3>2 DEF WindowOK, At
  <2> QED
    BY <2>3, <2>5, <2>6
<1>8. CASE BatchReads(w)
  <2> DEFINE f == window[w].file
  <2>1. /\ window'[w].changes = window[w].changes /\ window'[w].todo = window[w].todo
        /\ f \in Files
        /\ \/ window'[w].pc = "files"
           \/ /\ disk[f] # NoFile /\ window'[w].pc = "write"
              /\ window'[w].file = f /\ window'[w].text = disk[f]
              /\ window'[w].sig = window[w].sig
    BY <1>1, <1>8, ReadMoves
  <2>2. /\ window[w].todo \subseteq window[w].changes /\ NoteOK(w)
        /\ UNCHANGED <<stat, writes, signatures>>
    BY <1>2, <1>8 DEF BatchReads, WindowOK, At, diskVars, indexVars
  <2>3. CASE window'[w].pc = "files"
    BY <2>1, <2>2, <2>3 DEF WindowOK, At
  <2>4. CASE window'[w].pc = "write"
    <3>1. NoteOK(w)'
      BY <2>1, <2>2, <2>4 DEF NoteOK, Exists
    <3>2. ReadOK(w)'
      BY <1>2, <2>1, <2>2, <2>4, <3>1 DEF ReadOK
    <3> QED
      BY <2>1, <2>2, <2>4, <3>2 DEF WindowOK, At
  <2> QED
    BY <2>1, <2>3, <2>4
<1> QED
  BY <1>4, <1>5, <1>6, <1>7, <1>8 DEF Works

LEMMA WindowsStep ==
    ASSUME Step
    PROVE  WindowsOK'
<1> SUFFICES ASSUME NEW v \in Windows  PROVE WindowOK(v)'
  BY DEF WindowsOK
<1>1. WindowOK(v) /\ BatchTypes /\ DiskTypes /\ writes \in Int
  BY StepParts DEF Step, DetectInv, WindowsOK
<1>2. ASSUME window'[v].pc \notin BusyStates \cup {"scan"}  PROVE WindowOK(v)'
  BY <1>2 DEF WindowOK, At, BusyStates
<1>3. CASE \E fs \in SUBSET Files : Write(fs) \/ Remove(fs)
  <2>1. PICK fs \in SUBSET Files : Write(fs) \/ Remove(fs)
    BY <1>3
  <2>2. /\ writes' = writes + 1 /\ UNCHANGED <<window, signatures, pending>>
        /\ \A f \in Files \ fs : stat'[f] = stat[f]
        /\ \A f \in fs : stat'[f] = NoFile \/ (stat'[f] = writes' /\ Coming(f)')
        /\ outbox \subseteq outbox'
    BY <2>1, DiskMoves DEF batchVars, indexVars, queueVars
  <2>3. ASSUME NoteOK(v)  PROVE NoteOK(v)'
    <3> DEFINE f == window[v].file
    <3>1. f \in Files /\ window[v].sig \in Int /\ signatures[f] \in Int
      BY <1>1, <2>3, StepParts
      DEF NoteOK, BatchTypes, WindowTasks, Contents, Versions, NoFile
    <3>2. window[v].sig <= writes' /\ signatures[f] # writes'
      BY <1>1, <2>2, <2>3, <3>1 DEF NoteOK, Step, DetectInv, DiskOK
    <3> QED
      BY <2>2, <2>3, <3>1, <3>2 DEF NoteOK, Exists
  <2>4. ASSUME At(v, "write")  PROVE ReadOK(v)'
    <3> DEFINE f == window[v].file
    <3>1. ReadOK(v) /\ NoteOK(v)
      BY <1>1, <2>4 DEF WindowOK, ReadOK
    <3>2. f \in Files /\ window[v].text \in Int /\ window[v].sig \in Int
      <4>1. window[v] \in WindowTasks /\ f \in window[v].changes
        BY <1>1, <3>1 DEF BatchTypes, NoteOK
      <4>2. Contents \subseteq Int
        BY DEF Contents, Versions, NoFile
      <4> QED
        BY <4>1, <4>2 DEF WindowTasks
    <3>3. /\ window[v].text <= writes' /\ window[v].text # writes'
          /\ window[v].sig # writes'
      BY <1>1, <2>2, <3>1, <3>2 DEF ReadOK, NoteOK
    <3>4. Announced(f) => Announced(f)'
      BY <2>2 DEF Announced, Coming
    <3>5. CASE f \in fs
      BY <2>2, <2>3, <3>1, <3>3, <3>5 DEF ReadOK, Announced, Exists
    <3>6. CASE f \notin fs
      BY <2>2, <2>3, <3>1, <3>2, <3>3, <3>4, <3>6 DEF ReadOK, Exists
    <3> QED
      BY <3>5, <3>6
  <2> QED
    BY <1>1, <2>2, <2>3, <2>4 DEF WindowOK, At
<1>4. CASE DidChangeWatchedFiles
  <2>1. UNCHANGED <<window, stat, writes, signatures>>
    BY <1>4 DEF DidChangeWatchedFiles, batchVars, indexVars
  <2>2. \A f \in Files : Announced(f) => Announced(f)'
    BY <1>4 DEF DidChangeWatchedFiles, Announced, Coming
  <2> QED
    BY <2>1, <2>2, WindowKept
<1>5. CASE Rests
  <2>1. UNCHANGED <<diskVars, queueVars, indexVars>>
        /\ (window'[v] = window[v] \/ Idled(v))
    BY <1>5 DEF Rests
  <2>2. \A f \in Files : Announced(f) => Announced(f)'
    BY <2>1 DEF Announced, Coming, diskVars, queueVars
  <2> QED
    BY <1>2, <2>1, <2>2, WindowKept DEF Idled, diskVars, indexVars
<1>6. ASSUME NEW s \in Scanners, Merges(s)  PROVE WindowOK(v)'
  <2>1. UNCHANGED <<diskVars, queueVars, signatures, window>>
    BY <1>6 DEF Merges, MergeFile, PruneRemoved, batchVars
  <2>2. \A f \in Files : Announced(f) => Announced(f)'
    BY <2>1 DEF Announced, Coming, diskVars, queueVars
  <2> QED
    BY <2>1, <2>2, WindowKept DEF diskVars
<1>7. ASSUME NEW w \in Windows, Works(w)  PROVE WindowOK(v)'
  <2>1. window[w].pc \in BusyStates \cup {"sleep"}
    BY <1>7 DEF Works, DrainPending, DrainDeleted, BatchDeletes, BatchSkips, BatchStats, BatchReads,
      BatchIndexes, EndFiles, PanicBatch, RetryBatch, At, BusyStates
  <2>2. CASE RetryBatch(w)
    <3>1. \/ v # w /\ window'[v] = window[v]
          \/ (v = w \/ Idles(v)) /\ Idled(v)
      BY <2>2, RetryMoves
    <3>2. v # w => window[v].pc \notin BusyStates \cup {"scan"}
      BY <1>1, <2>1, StepParts DEF WindowOK, At
    <3> QED
      BY <1>2, <3>1, <3>2 DEF Idled
  <2>3. CASE ~RetryBatch(w) /\ v = w
    BY <1>7, <2>3, WindowWork
  <2>4. CASE ~RetryBatch(w) /\ v # w
    <3>1. Others(w)
      BY <1>1, <1>7, <2>4, DrainMoves, DeletesMoves, StatsMoves, ReadMoves,
         IndexesMoves, EndMoves, PanicMoves
      DEF Works
    <3>2. window'[v] = window[v] /\ window[v].pc \notin BusyStates \cup {"scan"}
      BY <1>1, <2>1, <2>4, <3>1, StepParts DEF WindowOK, At, Others
    <3> QED
      BY <1>2, <3>2
  <2> QED
    BY <2>2, <2>3, <2>4
<1> QED
  BY <1>3, <1>4, <1>5, <1>6, <1>7, StepKinds

-----------------------------------------------------------------------------
(* The scans, and the fingerprint *)

\* A file that exists has the stat it had, or one that nobody has seen.
LEMMA StatMoves ==
    ASSUME Step
    PROVE  /\ writes <= writes' /\ writes' \in Int
           /\ \A f \in Files : Exists(f)' => stat'[f] = stat[f] \/ stat'[f] = writes + 1
<1>1. CASE \E fs \in SUBSET Files : Write(fs) \/ Remove(fs)
  BY <1>1, StepParts, DiskMoves DEF Exists
<1>2. CASE UNCHANGED <<stat, writes>>
  BY <1>2, StepParts
<1>3. ASSUME NEW w \in Windows, Works(w)  PROVE UNCHANGED diskVars
  BY <1>3 DEF Works, DrainPending, DrainDeleted, BatchDeletes, BatchSkips, BatchStats, BatchReads,
    BatchIndexes, EndFiles, PanicBatch, RetryBatch
<1> QED
  BY <1>1, <1>2, <1>3, StepKinds
  DEF DidChangeWatchedFiles, Rests, Merges, MergeFile, PruneRemoved, diskVars

\* A scan that stays where it is keeps its promise through every step but a merge.
LEMMA ScanKept ==
    ASSUME Step, \A r \in Scanners : ~Merges(r),
           NEW s \in Scanners, scan'[s] = scan[s], fingerprint' = fingerprint
    PROVE  ScanOK(s)'
<1> SUFFICES ASSUME scan[s].pc \in WorkPhases  PROVE ScanOK(s)'
  BY DEF ScanOK
<1>1. /\ scan[s].seen \in [Files -> Contents] /\ scan[s].open = {}
      /\ \A f \in Files : scan[s].seen[f] <= writes /\ scan[s].seen[f] \in Int
  BY StepParts DEF Step, DetectInv, ScansOK, ScanOK, ScanTypes, Scans, Contents, Versions, NoFile
<1>2. \A f \in Files : scan'[s].seen[f] <= writes'
  BY <1>1, StatMoves, StepParts
<1>3. ASSUME NEW f \in Files, Exists(f)'
      PROVE  IF Knows(scan[s].seen, f)' THEN ScannedOK(s, f)' ELSE ~Knows(fingerprint, f)'
  <2>1. CASE stat'[f] = stat[f]
    <3>1. IF Knows(scan[s].seen, f) THEN ScannedOK(s, f) ELSE ~Knows(fingerprint, f)
      BY <1>3, <2>1 DEF Step, DetectInv, ScansOK, ScanOK, Exists
    <3>2. Fine(f) => Fine(f)'
      BY <1>3, <2>1, FineKept DEF Exists
    <3> QED
      BY <2>1, <3>1, <3>2 DEF Knows, ScannedOK, Phase
  <2>2. CASE stat'[f] = writes + 1
    <3>1. scan[s].seen[f] # stat'[f]
      BY <1>1, <2>2, StepParts
    <3>2. fingerprint # NoFingerprint => fingerprint[f] # stat'[f]
      <4>1. fingerprint # NoFingerprint => fingerprint[f] <= writes /\ fingerprint[f] \in Int
        BY StepParts DEF Step, DetectInv, DiskOK, ScanTypes, Contents, Versions, NoFile
      <4> QED
        BY <2>2, <4>1, StepParts
    <3> QED
      BY <3>1, <3>2 DEF Knows
  <2> QED
    BY <1>3, <2>1, <2>2, StatMoves
<1> QED
  BY <1>1, <1>2, <1>3 DEF ScanOK

\* The scan that merges is the only one under way.
LEMMA MergesAlone ==
    ASSUME Step, NEW s \in Scanners, Merges(s) \/ RecordFingerprint(s)
    PROVE  /\ scan[s].pc \in {"merge", "record"}
           /\ \A t \in Scanners \ {s} : scan[t].pc \notin OwnerStates
BY DEF Merges, MergeFile, PruneRemoved, RecordFingerprint, Phase, Step, DetectInv,
       OneScanAtATime, Owners, OwnerStates

\* What a scan merges or prunes of a file it discovered as it still is, is fine.
LEMMA MergesFine ==
    ASSUME Step, NEW s \in Scanners, Merges(s),
           NEW f \in Files, Exists(f), Knows(scan[s].seen, f),
           Fine(f) \/ index'[f] = stat[f]
    PROVE  Fine(f)'
<1>1. scan[s].pc = "merge" /\ ScanOK(s) /\ IndexTypes /\ scan[s].seen \in [Files -> Contents]
  BY StepParts DEF Merges, MergeFile, PruneRemoved, Phase, Step, DetectInv, ScansOK,
    ScanTypes, Scans, Knows
<1>2. scan[s].read[f] = stat[f] /\ f \in Existing(scan[s].seen)
  BY <1>1 DEF ScanOK, ScannedOK, WorkPhases, Phase, Existing, Exists, Knows
<1>3. CASE MergeFile(s)
  <2>1. PICK g \in scan[s].todo : index' = [index EXCEPT ![g] = scan[s].read[g]]
    BY <1>3 DEF MergeFile
  <2>2. index'[f] \in {index[f], stat[f]}
    BY <1>1, <1>2, <2>1 DEF IndexTypes
  <2> QED
    BY <2>2, MergeKeeps
<1>4. CASE PruneRemoved(s)
  <2>1. index'[f] = index[f]
    BY <1>2, <1>4 DEF PruneRemoved
  <2> QED
    BY <2>1, MergeKeeps
<1> QED
  BY <1>3, <1>4 DEF Merges

LEMMA MergingStep ==
    ASSUME Step, NEW s \in Scanners, Merges(s)
    PROVE  ScansOK' /\ FingerprintOK'
<1>1. /\ ScanTypes /\ BatchTypes /\ ScanOK(s) /\ Phase(s, "merge")
      /\ \A t \in Scanners \ {s} : scan[t].pc \notin OwnerStates
      /\ UNCHANGED <<stat, writes, fingerprint>>
  BY StepParts, MergesAlone DEF Step, DetectInv, ScansOK, Merges, MergeFile, PruneRemoved, diskVars
<1>2. /\ scan[s].seen \in [Files -> Contents] /\ scan[s].open = {}
      /\ \A f \in Files : scan[s].seen[f] <= writes
      /\ \A f \in Files : Exists(f) /\ Knows(scan[s].seen, f) =>
            scan[s].read[f] = stat[f] /\ (f \in scan[s].todo \/ Fine(f))
      /\ \A f \in Files : Exists(f) /\ ~Knows(scan[s].seen, f) => ~Knows(fingerprint, f)
  BY <1>1 DEF ScanOK, ScannedOK, WorkPhases, Phase
<1>3. FingerprintOK'
  <2> SUFFICES ASSUME NEW f \in Files, Exists(f)', Knows(fingerprint, f)'  PROVE Fine(f)'
    BY DEF FingerprintOK
  <2>1. Exists(f) /\ Knows(fingerprint, f)
    BY <1>1 DEF Exists, Knows
  <2>2. Fine(f) /\ Knows(scan[s].seen, f)
    BY <1>2, <2>1 DEF Step, DetectInv, FingerprintOK
  <2> QED
    BY <2>1, <2>2, MergesFine
<1>4. ASSUME NEW t \in Scanners \ {s}, scan'[t] = scan[t]  PROVE ScanOK(t)'
  BY <1>1, <1>4 DEF ScanOK, WorkPhases, OwnerStates
<1>5. scan[s] = [pc |-> scan[s].pc, seen |-> scan[s].seen, open |-> scan[s].open,
                 todo |-> scan[s].todo, read |-> scan[s].read]
  BY <1>1 DEF ScanTypes, Scans
<1>6. CASE MergeFile(s)
  <2>1. PICK g \in scan[s].todo :
          /\ index' = [index EXCEPT ![g] = scan[s].read[g]]
          /\ scan' = [scan EXCEPT ![s].todo = @ \ {g}]
    BY <1>6 DEF MergeFile
  <2> DEFINE t == [scan[s] EXCEPT !.todo = @ \ {g}]
  <2>2. scan' = [scan EXCEPT ![s] = t]
    BY <2>1
  <2>3. /\ t.pc = "merge" /\ t.seen = scan[s].seen /\ t.open = {}
        /\ t.todo = scan[s].todo \ {g} /\ t.read = scan[s].read
    BY <1>1, <1>2, <1>5 DEF Phase
  <2> HIDE DEF t
  <2>4. scan'[s] = t /\ \A o \in Scanners \ {s} : scan'[o] = scan[o]
    BY <1>1, <2>2, ScanUpdate DEF ScanTypes
  <2>5. ASSUME NEW f \in Files, Exists(f), Knows(scan[s].seen, f), f \notin t.todo
        PROVE  Fine(f)'
    <3>1. scan[s].read[f] = stat[f] /\ (f = g \/ Fine(f))
      BY <1>2, <2>3, <2>5
    <3>2. f = g => index'[f] = stat[f]
      BY <2>1, <3>1, StepParts DEF IndexTypes
    <3> QED
      BY <2>5, <3>1, <3>2, MergesFine
  <2>6. ScanOK(s)'
    BY <1>1, <1>2, <2>3, <2>4, <2>5 DEF ScanOK, ScannedOK, Phase, Knows, Exists
  <2> QED
    BY <1>3, <1>4, <2>4, <2>6 DEF ScansOK
<1>7. CASE PruneRemoved(s)
  <2> DEFINE t == [scan[s] EXCEPT !.pc = "record"]
  <2>1. scan' = [scan EXCEPT ![s] = t] /\ scan[s].todo = {}
    BY <1>7 DEF PruneRemoved, Goto
  <2>2. t.pc = "record" /\ t.seen = scan[s].seen /\ t.open = {}
    BY <1>2, <1>5
  <2> HIDE DEF t
  <2>3. scan'[s] = t /\ \A o \in Scanners \ {s} : scan'[o] = scan[o]
    BY <1>1, <2>1, ScanUpdate DEF ScanTypes
  <2>4. ASSUME NEW f \in Files, Exists(f), Knows(scan[s].seen, f)  PROVE Fine(f)'
    BY <1>2, <2>1, <2>4, MergesFine
  <2>5. ScanOK(s)'
    BY <1>1, <1>2, <2>2, <2>3, <2>4 DEF ScanOK, ScannedOK, Phase, Knows, Exists
  <2> QED
    BY <1>3, <1>4, <2>3, <2>5 DEF ScansOK
<1> QED
  BY <1>6, <1>7 DEF Merges

\* A scan that is not at work promises nothing.
LEMMA ScanIdle ==
    ASSUME NEW s \in Scanners, scan'[s].pc \notin WorkPhases
    PROVE  ScanOK(s)'
BY DEF ScanOK

LEMMA DiscoverOK ==
    ASSUME Step, NEW s \in Scanners, Discover(s)
    PROVE  /\ ScanOK(s)'
           /\ \A o \in Scanners \ {s} : scan'[o] = scan[o]
<1> DEFINE t == [NoScan EXCEPT !.pc = "parse", !.seen = stat,
                    !.open = OpenDocs, !.todo = Existing(disk) \ OpenDocs]
<1>1. scan' = [scan EXCEPT ![s] = t] /\ UNCHANGED <<stat, writes>>
  BY DEF Discover, diskVars
<1>2. /\ OpenDocs = {} /\ disk = stat /\ stat \in [Files -> Contents]
      /\ \A f \in Files : stat[f] <= writes /\ stat # NoFingerprint
  <2>1. stat \in [Files -> Contents]
    BY StepParts DEF DiskTypes
  <2>2. ASSUME NEW f \in Files  PROVE stat # NoFingerprint
    BY <2>1, <2>2 DEF NoFingerprint
  <2> QED
    BY <2>1, <2>2 DEF Step, DetectInv, DiskOK, Undisturbed
<1>3. t.pc = "parse" /\ t.seen = stat /\ t.open = {} /\ t.todo = Existing(stat)
  BY <1>2 DEF NoScan
<1> HIDE DEF t
<1>4. scan'[s] = t /\ \A o \in Scanners \ {s} : scan'[o] = scan[o]
  BY <1>1, StepParts, ScanUpdate DEF ScanTypes
<1>5. ScanOK(s)'
  BY <1>1, <1>2, <1>3, <1>4 DEF ScanOK, ScannedOK, Phase, Knows, Exists, Existing
<1> QED
  BY <1>4, <1>5

LEMMA ParsesOK ==
    ASSUME Step, NEW s \in Scanners, ParseFile(s) \/ EndParse(s)
    PROVE  ScanOK(s)'
<1>1. /\ UNCHANGED <<disk, stat, writes, fingerprint>> /\ scan[s].pc = "parse"
      /\ ScanTypes /\ disk = stat
  BY StepParts DEF ParseFile, EndParse, Phase, diskVars, Step, DetectInv, DiskOK
<1>2. /\ scan[s].seen \in [Files -> Contents] /\ scan[s].open = {}
      /\ \A f \in Files : scan[s].seen[f] <= writes
      /\ \A f \in Files : Exists(f) /\ Knows(scan[s].seen, f) =>
            f \in scan[s].todo \/ scan[s].read[f] = stat[f]
      /\ \A f \in Files : Exists(f) /\ ~Knows(scan[s].seen, f) => ~Knows(fingerprint, f)
  BY <1>1 DEF Step, DetectInv, ScansOK, ScanOK, ScannedOK, WorkPhases, Phase
<1>3. scan[s] = [pc |-> scan[s].pc, seen |-> scan[s].seen, open |-> scan[s].open,
                 todo |-> scan[s].todo, read |-> scan[s].read]
      /\ scan[s].read \in [Files -> Contents]
  BY <1>1 DEF ScanTypes, Scans
<1>4. CASE ParseFile(s)
  <2>1. PICK g \in scan[s].todo :
          scan' = [scan EXCEPT ![s] = [@ EXCEPT !.todo = scan[s].todo \ {g},
                                                !.read = [scan[s].read EXCEPT ![g] = disk[g]]]]
    BY <1>4 DEF ParseFile
  <2> DEFINE read == [scan[s].read EXCEPT ![g] = disk[g]]
             t == [scan[s] EXCEPT !.todo = scan[s].todo \ {g}, !.read = read]
  <2>2. scan' = [scan EXCEPT ![s] = t]
    BY <2>1
  <2>3. \A f \in Files : read[f] = IF f = g THEN stat[f] ELSE scan[s].read[f]
    BY <1>1, <1>3
  <2>4. /\ t.pc = "parse" /\ t.seen = scan[s].seen /\ t.open = {}
        /\ t.todo = scan[s].todo \ {g} /\ t.read = read
    BY <1>1, <1>2, <1>3
  <2> HIDE DEF read, t
  <2>5. scan'[s] = t
    BY <1>1, <2>2, ScanUpdate DEF ScanTypes
  <2> QED
    BY <1>1, <1>2, <2>3, <2>4, <2>5 DEF ScanOK, ScannedOK, Phase, Knows, Exists
<1>5. CASE EndParse(s)
  <2> DEFINE t == [scan[s] EXCEPT !.pc = "merge", !.todo = Existing(scan[s].read)]
  <2>1. scan' = [scan EXCEPT ![s] = t] /\ scan[s].todo = {}
    BY <1>5 DEF EndParse
  <2>2. /\ t.pc = "merge" /\ t.seen = scan[s].seen /\ t.open = {}
        /\ t.todo = Existing(scan[s].read) /\ t.read = scan[s].read
    BY <1>2, <1>3
  <2> HIDE DEF t
  <2>3. scan'[s] = t
    BY <1>1, <2>1, ScanUpdate DEF ScanTypes
  <2> QED
    BY <1>1, <1>2, <2>1, <2>2, <2>3 DEF ScanOK, ScannedOK, Phase, Knows, Exists, Existing
<1> QED
  BY <1>4, <1>5

LEMMA ScansStep ==
    ASSUME Step
    PROVE  ScansOK'
<1>1. CASE \E s \in Scanners : Merges(s)
  BY <1>1, MergingStep
<1> SUFFICES ASSUME \A s \in Scanners : ~Merges(s), NEW t \in Scanners
             PROVE  ScanOK(t)'
  BY <1>1 DEF ScansOK
<1>2. scan \in [Scanners -> Scans] /\ faults \in Nat
  BY StepParts DEF ScanTypes, Step, DetectInv, TypeOK
<1>3. ASSUME UNCHANGED <<scan, fingerprint>>  PROVE ScanOK(t)'
  BY <1>3, ScanKept
<1>4. CASE (\E fs \in SUBSET Files : Write(fs) \/ Remove(fs)) \/ DidChangeWatchedFiles
           \/ ArmForEvents \/ UNCHANGED vars
  BY <1>3, <1>4 DEF Write, Remove, DidChangeWatchedFiles, ArmForEvents, vars, scanVars
<1>5. ASSUME NEW w \in Windows, Works(w) \/ EndEmpty(w) \/ EndBatch(w)
                  \/ EndBatchRefresh(w) \/ ReleaseSlot(w)
                  \/ RearmAfterBatch(w)
      PROVE  ScanOK(t)'
  BY <1>3, <1>5 DEF Works, DrainPending, DrainDeleted, BatchDeletes, BatchSkips, BatchStats,
    BatchReads,
    BatchIndexes, EndFiles, PanicBatch, RetryBatch, EndEmpty, EndBatch, EndBatchRefresh,
      ReleaseSlot, RearmAfterBatch, scanVars
\* A scan moves; the others do not.
<1>6. ASSUME NEW s \in Scanners, \A o \in Scanners \ {s} : scan'[o] = scan[o],
             fingerprint' = fingerprint, s = t => ScanOK(t)'
      PROVE  ScanOK(t)'
  BY <1>6, ScanKept
<1>7. ASSUME NEW s \in Scanners, StartScan(s) \/ OpenBar(s) \/ SkipScan(s) \/ EndScanRefresh(s)
                  \/ FinishScan(s) \/ RearmAfterScan(s) \/ CloseDropped(s) \/ DropFinishing(s)
      PROVE  ScanOK(t)'
  <2>1. /\ \E state \in {"opening", "discover", "finishing", "tail", "idle", "lost"} :
             Goto(s, state)
        /\ fingerprint' = fingerprint
    BY <1>7 DEF StartScan, FirstPhase, OpenBar, SkipScan, EndScanRefresh, FinishScan,
      RearmAfterScan, CloseDropped, DropFinishing
  <2>2. /\ scan'[s].pc \in {"opening", "discover", "finishing", "tail", "idle", "lost"}
        /\ \A o \in Scanners \ {s} : scan'[o] = scan[o]
    BY <1>2, <2>1, GotoUpdate
  <2>3. ScanOK(s)'
    BY <2>2, ScanIdle DEF WorkPhases
  <2> QED
    BY <1>6, <2>1, <2>2, <2>3
<1>8. ASSUME NEW s \in Scanners, CancelScan(s) \/ DropScan(s)  PROVE ScanOK(t)'
  <2>1. scan'[s].pc \in {"finishing", "closing"} /\ \A o \in Scanners \ {s} : scan'[o] = scan[o]
    <3>1. \E state \in {"finishing", "closing"} :
            scan' = [scan EXCEPT ![s] = [NoScan EXCEPT !.pc = state]]
      BY <1>8 DEF CancelScan, DropScan
    <3> QED
      BY <1>2, <3>1, FreshScan, ScanUpdate
  <2>2. ScanOK(s)' /\ fingerprint' = fingerprint
    BY <1>8, <2>1, ScanIdle DEF WorkPhases, CancelScan, DropScan
  <2> QED
    BY <1>6, <2>1, <2>2
<1>9. ASSUME NEW s \in Scanners, PanicScan(s)  PROVE ScanOK(t)'
  <2>1. scan' = [scan EXCEPT ![s] = NoScan] /\ fingerprint' = fingerprint
    BY <1>9 DEF PanicScan
  <2>2. scan'[s].pc = "idle" /\ \A o \in Scanners \ {s} : scan'[o] = scan[o]
    BY <1>2, <2>1, ScanUpdate DEF NoScan
  <2>3. ScanOK(s)'
    BY <2>2, ScanIdle DEF WorkPhases
  <2> QED
    BY <1>6, <2>1, <2>2, <2>3
<1>10. ASSUME NEW s \in Scanners, Discover(s)  PROVE ScanOK(t)'
  BY <1>6, <1>10, DiscoverOK DEF Discover
<1>11. ASSUME NEW s \in Scanners, ParseFile(s) \/ EndParse(s)  PROVE ScanOK(t)'
  <2>1. \A o \in Scanners \ {s} : scan'[o] = scan[o]
    BY <1>2, <1>11, ParsingPhases
  <2>2. fingerprint' = fingerprint
    BY <1>11 DEF ParseFile, EndParse
  <2> QED
    BY <1>6, <1>11, <2>1, <2>2, ParsesOK
<1>12. ASSUME NEW s \in Scanners, RecordFingerprint(s)  PROVE ScanOK(t)'
  <2>1. scan' = [scan EXCEPT ![s] = [NoScan EXCEPT !.pc = "refreshing"]]
    BY <1>12 DEF RecordFingerprint
  <2>2. scan'[s].pc = "refreshing" /\ \A o \in Scanners \ {s} : scan'[o] = scan[o]
    BY <1>2, <2>1, FreshScan, ScanUpdate
  <2>3. \A o \in Scanners \ {s} : scan[o].pc \notin WorkPhases
    BY <1>12, MergesAlone DEF OwnerStates, WorkPhases
  <2> QED
    BY <2>2, <2>3, ScanIdle DEF WorkPhases
<1> QED
  BY <1>4, <1>5, <1>7, <1>8, <1>9, <1>10, <1>11, <1>12, StepCases DEF ScanStep, Works, Merges

LEMMA FingerprintStep ==
    ASSUME Step
    PROVE  FingerprintOK'
<1>1. CASE \E s \in Scanners : Merges(s)
  BY <1>1, MergingStep
<1> SUFFICES ASSUME \A s \in Scanners : ~Merges(s),
                    NEW f \in Files, Exists(f)', Knows(fingerprint, f)'
             PROVE  Fine(f)'
  BY <1>1 DEF FingerprintOK
<1>2. ASSUME stat'[f] = stat[f], Fine(f)  PROVE Fine(f)'
  BY <1>2, FineKept DEF Exists
<1>3. CASE fingerprint' = fingerprint
  <2>1. fingerprint[f] <= writes /\ fingerprint[f] \in Int
    BY <1>3, StepParts DEF Knows, Step, DetectInv, DiskOK, ScanTypes, Contents, Versions, NoFile
  <2>2. stat'[f] = stat[f]
    BY <1>3, <2>1, StatMoves, StepParts DEF Knows
  <2> QED
    BY <1>2, <1>3, <2>2 DEF Knows, Exists, Step, DetectInv, FingerprintOK
<1>4. ASSUME NEW s \in Scanners, RecordFingerprint(s)  PROVE Fine(f)'
  <2>1. /\ fingerprint' \in {fingerprint, scan[s].seen} /\ stat' = stat
        /\ Phase(s, "record")
    BY <1>4 DEF RecordFingerprint, diskVars
  <2>2. CASE fingerprint' = scan[s].seen
    <3>1. Exists(f) /\ Knows(scan[s].seen, f)
      BY <2>1, <2>2 DEF Exists, Knows
    <3>2. Fine(f)
      BY <2>1, <3>1 DEF Step, DetectInv, ScansOK, ScanOK, ScannedOK, WorkPhases, Phase
    <3> QED
      BY <1>2, <2>1, <3>2
  <2> QED
    BY <1>3, <2>1, <2>2
<1>5. (\A s \in Scanners : ~RecordFingerprint(s)) => fingerprint' = fingerprint
  <2>1. ASSUME NEW s \in Scanners,
               StartScan(s) \/ OpenBar(s) \/ EndScanRefresh(s) \/ CancelScan(s)
                 \/ ScanStep(s) \/ DropScan(s) \/ DropFinishing(s)
                 \/ PanicScan(s),
               ~RecordFingerprint(s)
        PROVE  fingerprint' = fingerprint
    BY <2>1 DEF StartScan, OpenBar, EndScanRefresh, CancelScan, ScanStep, SkipScan, Discover,
      ParseFile, EndParse,
      MergeFile, PruneRemoved, FinishScan, RearmAfterScan, CloseDropped, DropScan,
      DropFinishing, PanicScan
  <2>2. ASSUME NEW w \in Windows, Works(w) \/ EndEmpty(w) \/ EndBatch(w)
                  \/ EndBatchRefresh(w) \/ ReleaseSlot(w)
                    \/ RearmAfterBatch(w)
        PROVE  fingerprint' = fingerprint
    BY <2>2 DEF Works, DrainPending, DrainDeleted, BatchDeletes, BatchSkips, BatchStats, BatchReads,
      BatchIndexes, EndFiles, PanicBatch, RetryBatch, EndEmpty, EndBatch, EndBatchRefresh,
      ReleaseSlot, RearmAfterBatch, scanVars
  <2>3. (\E fs \in SUBSET Files : Write(fs) \/ Remove(fs)) \/ DidChangeWatchedFiles
          \/ ArmForEvents \/ UNCHANGED vars => fingerprint' = fingerprint
    BY DEF Write, Remove, DidChangeWatchedFiles, ArmForEvents, vars, scanVars
  <2> QED
    BY <2>1, <2>2, <2>3, StepCases DEF Works
<1> QED
  BY <1>3, <1>4, <1>5

-----------------------------------------------------------------------------
(* The theorems *)

LEMMA DetectStep ==
    ASSUME DetectInv, TypeOK', Undisturbed, Undisturbed', [Next]_vars
    PROVE  DetectInv'
<1>1. Step
  BY DEF Step
<1>2. SlotOK' /\ OneScanAtATime'
  BY SlotStep, OneScanStep DEF DetectInv
<1> QED
  BY <1>1, <1>2, DiskOKStep, DeletesStep, WindowsStep, ScansStep, FingerprintStep DEF DetectInv

LEMMA InitDetect == Init => DetectInv
<1> SUFFICES ASSUME Init  PROVE DetectInv
  OBVIOUS
<1>1. TypeOK /\ SlotOK /\ OneScanAtATime
  BY InitTypes DEF Init, SlotOK, OneScanAtATime, Owners, Lost, Phase, OwnerStates,
    NoWindowTask, NoScan
<1>2. DiskOK /\ DeletesOK
  BY DEF Init, DiskOK, DeletesOK, DeletionOK, NoWindowTask, IdleHandler, NoFile
<1>3. WindowsOK /\ ScansOK /\ FingerprintOK
  BY DEF Init, WindowsOK, WindowOK, At, NoWindowTask, ScansOK, ScanOK, WorkPhases, NoScan,
    FingerprintOK, Knows
<1> QED
  BY <1>1, <1>2, <1>3 DEF DetectInv

\* With nothing on its way, a file that the fingerprint knows is indexed as it is.
LEMMA RestDetected == DetectInv => StaleIsDetected
<1> SUFFICES ASSUME DetectInv, AtRest, NEW f \in Files, disk[f] # NoFile, fingerprint = stat
             PROVE  index[f] = disk[f]
  BY DEF StaleIsDetected, Detected
<1>1. disk = stat /\ stat \in [Files -> Contents]
  BY DEF DetectInv, DiskOK, TypeOK
<1>2. Exists(f) /\ Knows(fingerprint, f)
  BY <1>1 DEF Exists, Knows, NoFingerprint
<1>3. Fine(f)
  BY <1>2 DEF DetectInv, FingerprintOK
<1>4. ~Announced(f) /\ \A w \in Windows : ~Taken(w, f) /\ ~Current(w, f)
  BY DEF AtRest, Queued, Announced, Coming, Taken, Current, At
<1> QED
  BY <1>1, <1>3, <1>4 DEF Fine, Noted

\* While no document is open and no batch goes over the cap, whatever scans,
\* batches, writers, cancellations and faults do in between, a file on disk that
\* the index holds otherwise, once everything queued is processed, is one the
\* next quiet pass will not skip.
THEOREM DetectionCorrect == Spec /\ []Undisturbed => []StaleIsDetected
<1>1. DetectInv /\ TypeOK' /\ Undisturbed /\ Undisturbed' /\ [Next]_vars => DetectInv'
  BY DetectStep
<1> QED
  BY <1>1, InitDetect, RestDetected, TypesInvariant, PTL DEF Spec

\* Without editing, in a workspace whose files fit in a batch twice, nothing
\* disturbs.
Unedited == OpenDocs = {} /\ handler.pc \in {"idle", "arming"}

LEMMA UneditedStep ==
    ASSUME Editable = {}, TypeOK, Unedited, [Next]_vars
    PROVE  Unedited'
<1>1. buffer \in [Files -> Contents] /\ \A f \in Files : ~Open(f)
  BY DEF TypeOK, Unedited, OpenDocs
<1>2. \A f \in Files : ~DidOpen(f) /\ ~DidChange(f) /\ ~Save(f) /\ ~DidClose(f) /\ ~ValidateOpen(f)
  BY <1>1 DEF DidOpen, DidChange, Save, DidClose, ValidateOpen
<1>3. ~CloseRead /\ ~CloseRestore
  BY DEF Unedited, CloseRead, CloseRestore
<1>4. ASSUME buffer' = buffer, handler'.pc \in {"idle", "arming"}  PROVE Unedited'
  BY <1>4 DEF Unedited, OpenDocs, Open
<1>5. (\E fs \in SUBSET Files : Write(fs) \/ Remove(fs)) \/ UNCHANGED vars
        => UNCHANGED <<docVars, handler>>
  BY DEF Write, Remove, vars
<1>6. DidChangeWatchedFiles => Unedited'
  BY <1>4 DEF DidChangeWatchedFiles, docVars
<1>7. ArmForEvents => Unedited'
  BY <1>4 DEF ArmForEvents, IdleHandler, docVars
<1>8. ASSUME NEW w \in Windows, WindowStep(w) \/ EndBatchRefresh(w) \/ PanicBatch(w)
      PROVE  UNCHANGED <<docVars, handler>>
  BY <1>8 DEF WindowStep, DrainPending, DrainDeleted, EndEmpty, BatchScan, BatchLosesScan,
    BatchDeletes, BatchSkips, BatchStats, BatchReads, BatchIndexes, EndFiles, EndBatch,
    EndBatchRefresh, ReleaseSlot, RearmAfterBatch, RetryBatch, PanicBatch
<1>9. ASSUME NEW s \in Scanners, StartScan(s) \/ OpenBar(s) \/ EndScanRefresh(s)
                  \/ CancelScan(s) \/ ScanStep(s) \/ DropScan(s)
                  \/ DropFinishing(s) \/ PanicScan(s)
      PROVE  UNCHANGED <<docVars, handler>>
  BY <1>9 DEF StartScan, OpenBar, EndScanRefresh, CancelScan, ScanStep, SkipScan, Discover,
    ParseFile, EndParse,
    MergeFile, PruneRemoved, RecordFingerprint, FinishScan, RearmAfterScan, CloseDropped,
    DropScan, DropFinishing, PanicScan
<1>10. UNCHANGED <<docVars, handler>> => Unedited'
  BY <1>4 DEF docVars, Unedited
<1> QED
  BY <1>2, <1>3, <1>5, <1>6, <1>7, <1>8, <1>9, <1>10 DEF Next, Environment, HandlerStep,
    Answer, Fault

\* The same, in terms of the workspace alone: files that are only changed outside
\* the editor, at most half as many as a batch takes.
THEOREM DetectionUnedited ==
    ASSUME Editable = {}, Cardinality(Files) + Cardinality(Files) <= Cap
    PROVE  Spec => []StaleIsDetected
<1>1. Init => Unedited
  BY DEF Init, Unedited, OpenDocs, Open, IdleHandler
<1>2. TypeOK /\ Unedited /\ [Next]_vars => Unedited'
  BY UneditedStep
<1>3. TypeOK /\ Unedited => Undisturbed
  <2> SUFFICES ASSUME TypeOK, Unedited, NEW w \in Windows  PROVE ~OverCap(w)
    BY DEF Undisturbed, Unedited
  <2>1. window[w].changes \subseteq Files /\ window[w].deletes \subseteq Files
    BY DEF TypeOK
  <2>2. IsFiniteSet(Files) /\ Cap \in Nat
    OBVIOUS
  <2>3. Cardinality(Files) \in Nat
    BY ONLY <2>2, FS_CardinalityType
  <2>4. /\ Cardinality(window[w].changes) \in Nat
        /\ Cardinality(window[w].changes) <= Cardinality(Files)
    BY ONLY <2>1, <2>2, FS_Subset, FS_CardinalityType
  <2>5. /\ Cardinality(window[w].deletes) \in Nat
        /\ Cardinality(window[w].deletes) <= Cardinality(Files)
    BY ONLY <2>1, <2>2, FS_Subset, FS_CardinalityType
  <2>6. Cardinality(window[w].changes) + Cardinality(window[w].deletes) <= Cap
    BY <2>2, <2>3, <2>4, <2>5
  <2> QED
    BY <2>2, <2>4, <2>5, <2>6 DEF OverCap
<1> QED
  BY <1>1, <1>2, <1>3, TypesInvariant, DetectionCorrect, PTL DEF Spec
=============================================================================
