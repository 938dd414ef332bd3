----------------------- MODULE WorkspaceIndexProofs -----------------------
(* Proofs about WorkspaceIndex, for every workspace, set of scans, number of *)
(* windows, cap and number of writes and faults.                             *)
EXTENDS WorkspaceIndex, TLAPS

USE ConstantsAssumption DEF ConstantsAssumption

-----------------------------------------------------------------------------
(* Types, a group of variables at a time *)

WindowTasks == [pc : WindowStates, changes : SUBSET Files,
                deletes : SUBSET Files, todo : SUBSET Files,
                file : Files \cup {NoFile}, text : Contents,
                sig : Contents, retried : BOOLEAN, lost : BOOLEAN]

Scans == [pc : ScanStates, seen : [Files -> Contents] \cup {NoFingerprint},
          open : SUBSET Files, todo : SUBSET Files, read : [Files -> Contents]]

DiskTypes ==
    /\ disk \in [Files -> Contents]
    /\ stat \in [Files -> Contents]
    /\ writes \in Versions
    /\ outbox \subseteq [file : Files, type : EventTypes]

DocTypes ==
    /\ buffer \in [Files -> Contents]
    /\ validated \in [Files -> BOOLEAN]
    /\ handler \in [pc : {"idle", "arming"}, file : {NoFile}, text : {NoFile}]
                   \cup [pc : {"closing", "closed"}, file : Files, text : Contents]

IndexTypes ==
    /\ index \in [Files -> Contents]
    /\ signatures \in [Files -> Contents]

QueueTypes ==
    /\ pending \subseteq Files
    /\ deleted \subseteq Files

BatchTypes ==
    /\ slot \in Windows \cup {NoWindow}
    /\ window \in [Windows -> WindowTasks]

ScanTypes ==
    /\ fingerprint \in [Files -> Contents] \cup {NoFingerprint}
    /\ scanning \in BOOLEAN
    /\ scan \in [Scanners -> Scans]

LEMMA TypeParts ==
    TypeOK <=> /\ DiskTypes /\ DocTypes /\ IndexTypes /\ QueueTypes
               /\ BatchTypes /\ ScanTypes /\ faults \in 0 .. MaxFaults
BY DEF TypeOK, DiskTypes, DocTypes, IndexTypes, QueueTypes, BatchTypes, ScanTypes,
       WindowTasks, Scans

\* The values the model starts from, and the sets they are in.
LEMMA Values ==
    /\ 0 \in Contents /\ NoFile \in Contents
    /\ NoWindowTask \in WindowTasks
    /\ NoScan \in Scans
    /\ \A v \in Versions : v \in Contents
BY DEF Contents, Versions, NoFile, NoWindowTask, WindowTasks, WindowStates,
       NoScan, Scans, ScanStates, NoFingerprint

LEMMA InitTypes == Init => TypeOK
<1> SUFFICES ASSUME Init  PROVE TypeOK
  OBVIOUS
<1>1. DiskTypes
  BY Values DEF Init, DiskTypes, Versions
<1>2. DocTypes
  BY Values DEF Init, DocTypes, IdleHandler
<1>3. IndexTypes /\ QueueTypes
  BY Values DEF Init, IndexTypes, QueueTypes
<1>4. BatchTypes
  BY Values DEF Init, BatchTypes
<1>5. ScanTypes
  BY Values DEF Init, ScanTypes
<1> QED
  BY <1>1, <1>2, <1>3, <1>4, <1>5, TypeParts DEF Init

LEMMA DiskStep ==
    ASSUME TypeOK, [Next]_vars
    PROVE  DiskTypes'
<1>1. DiskTypes /\ DocTypes
  BY TypeParts
<1>2. ASSUME NEW fs \in SUBSET Files, NEW text \in Contents, NEW gone \in BOOLEAN,
             PutOnDisk(fs, text, gone)
      PROVE DiskTypes'
  <2>1. writes' \in Versions /\ writes' \in Contents /\ NoFile \in Contents
    BY <1>1, <1>2, Values DEF PutOnDisk, DiskTypes, Versions
  <2>2. disk' \in [Files -> Contents] /\ stat' \in [Files -> Contents]
    BY <1>1, <1>2, <2>1 DEF PutOnDisk, DiskTypes
  <2>3. outbox' \subseteq [file : Files, type : EventTypes]
    BY <1>1, <1>2 DEF PutOnDisk, DiskTypes, Event, EventTypes
  <2> QED
    BY <2>1, <2>2, <2>3 DEF DiskTypes
<1>3. ASSUME NEW fs \in SUBSET Files, Write(fs) \/ Remove(fs)  PROVE DiskTypes'
  <2>1. CASE Write(fs)
    <3>1. writes + 1 \in Contents
      BY <1>1, <2>1 DEF Write, PutOnDisk, DiskTypes, Contents, Versions
    <3> QED
      BY <2>1, <3>1, <1>2 DEF Write
  <2>2. CASE Remove(fs)
    BY <2>2, <1>2, Values DEF Remove
  <2> QED
    BY <1>3, <2>1, <2>2
<1>4. ASSUME NEW f \in Files, Save(f)  PROVE DiskTypes'
  <2>1. buffer[f] \in Contents /\ {f} \in SUBSET Files
    BY <1>1 DEF DocTypes
  <2> QED
    BY <1>4, <2>1, <1>2 DEF Save
<1>5. ASSUME NEW f \in Files, DidChange(f)  PROVE DiskTypes'
  BY <1>1, <1>5 DEF DidChange, DiskTypes, Versions
<1>6. CASE DidChangeWatchedFiles
  BY <1>1, <1>6 DEF DidChangeWatchedFiles, DiskTypes
<1>7. UNCHANGED diskVars => DiskTypes'
  BY <1>1 DEF diskVars, DiskTypes
<1>8. ASSUME NEW f \in Files, DidOpen(f) \/ DidClose(f) \/ ValidateOpen(f)  PROVE UNCHANGED diskVars
  BY <1>8 DEF DidOpen, DidClose, ValidateOpen
<1>9. ArmForEvents \/ CloseRead \/ CloseRestore => UNCHANGED diskVars
  BY DEF ArmForEvents, CloseRead, CloseRestore
<1>10. ASSUME NEW w \in Windows, WindowStep(w) \/ EndBatchRefresh(w) \/ PanicBatch(w)
       PROVE UNCHANGED diskVars
  BY <1>10 DEF WindowStep, DrainPending, DrainDeleted, EndEmpty, BatchScan,
    BatchLosesScan, BatchDeletes, BatchSkips, BatchStats, BatchReads, BatchIndexes, EndFiles,
    EndBatch, EndBatchRefresh,
    ReleaseSlot, RearmAfterBatch, RetryBatch, PanicBatch
<1>11. ASSUME NEW s \in Scanners, StartScan(s) \/ OpenBar(s) \/ EndScanRefresh(s)
                                   \/ CancelScan(s) \/ ScanStep(s) \/ DropScan(s)
                                   \/ DropFinishing(s) \/ PanicScan(s)
       PROVE UNCHANGED diskVars
  BY <1>11 DEF ScanStep, SkipScan, Discover, ParseFile, EndParse, MergeFile,
    PruneRemoved, RecordFingerprint, FinishScan, RearmAfterScan, CloseDropped,
    StartScan, OpenBar, EndScanRefresh, CancelScan, DropScan, DropFinishing, PanicScan
<1>12. UNCHANGED vars => UNCHANGED diskVars
  BY DEF vars
<1> QED
  BY <1>3, <1>4, <1>5, <1>6, <1>7, <1>8, <1>9, <1>10, <1>11, <1>12
  DEF Next, Environment, HandlerStep, Answer, Fault

LEMMA DocStep ==
    ASSUME TypeOK, [Next]_vars
    PROVE  DocTypes'
<1>1. DiskTypes /\ DocTypes
  BY TypeParts
<1>2. ASSUME NEW f \in Files, DidOpen(f) \/ DidChange(f) \/ DidClose(f) \/ ValidateOpen(f)
      PROVE DocTypes'
  <2>1. CASE DidOpen(f)
    BY <1>1, <2>1 DEF DidOpen, DocTypes, DiskTypes
  <2>2. CASE DidChange(f)
    BY <1>1, <2>2, Values DEF DidChange, DocTypes, DiskTypes, Versions
  <2>3. CASE DidClose(f)
    BY <1>1, <2>3, Values DEF DidClose, DocTypes
  <2>4. CASE ValidateOpen(f)
    BY <1>1, <2>4 DEF ValidateOpen, DocTypes
  <2> QED
    BY <1>2, <2>1, <2>2, <2>3, <2>4
<1>3. CASE DidChangeWatchedFiles \/ ArmForEvents \/ CloseRead \/ CloseRestore
  <2>1. CASE DidChangeWatchedFiles \/ ArmForEvents
    BY <1>1, <2>1, Values
    DEF DidChangeWatchedFiles, ArmForEvents, IdleHandler, DocTypes, docVars
  <2>2. CASE CloseRead
    <3>1. handler.file \in Files
      BY <1>1, <2>2 DEF CloseRead, DocTypes
    <3>2. disk[handler.file] \in Contents
      BY <1>1, <3>1 DEF DiskTypes
    <3> QED
      BY <1>1, <2>2, <3>1, <3>2 DEF CloseRead, DocTypes, docVars
  <2>3. CASE CloseRestore
    BY <1>1, <2>3, Values DEF CloseRestore, IdleHandler, DocTypes, docVars
  <2> QED
    BY <1>3, <2>1, <2>2, <2>3
<1>4. UNCHANGED <<docVars, handler>> => DocTypes'
  BY <1>1 DEF docVars, DocTypes
<1>5. ASSUME NEW f \in Files, Save(f)  PROVE UNCHANGED <<docVars, handler>>
  BY <1>5 DEF Save
<1>6. ASSUME NEW fs \in SUBSET Files, Write(fs) \/ Remove(fs)  PROVE UNCHANGED <<docVars, handler>>
  BY <1>6 DEF Write, Remove
<1>7. ASSUME NEW w \in Windows, WindowStep(w) \/ EndBatchRefresh(w) \/ PanicBatch(w)
      PROVE UNCHANGED <<docVars, handler>>
  BY <1>7 DEF WindowStep, DrainPending, DrainDeleted, EndEmpty, BatchScan,
    BatchLosesScan, BatchDeletes, BatchSkips, BatchStats, BatchReads, BatchIndexes, EndFiles,
    EndBatch, EndBatchRefresh,
    ReleaseSlot, RearmAfterBatch, RetryBatch, PanicBatch
<1>8. ASSUME NEW s \in Scanners, StartScan(s) \/ OpenBar(s) \/ EndScanRefresh(s)
                                   \/ CancelScan(s) \/ ScanStep(s) \/ DropScan(s)
                                   \/ DropFinishing(s) \/ PanicScan(s)
      PROVE UNCHANGED <<docVars, handler>>
  BY <1>8 DEF ScanStep, SkipScan, Discover, ParseFile, EndParse, MergeFile,
    PruneRemoved, RecordFingerprint, FinishScan, RearmAfterScan, CloseDropped,
    StartScan, OpenBar, EndScanRefresh, CancelScan, DropScan, DropFinishing, PanicScan
<1>9. UNCHANGED vars => UNCHANGED <<docVars, handler>>
  BY DEF vars
<1> QED
  BY <1>2, <1>3, <1>4, <1>5, <1>6, <1>7, <1>8, <1>9
  DEF Next, Environment, HandlerStep, Answer, Fault

LEMMA QueueStep ==
    ASSUME TypeOK, [Next]_vars
    PROVE  QueueTypes'
<1>1. DiskTypes /\ QueueTypes /\ BatchTypes
  BY TypeParts
<1>2. CASE DidChangeWatchedFiles
  BY <1>1, <1>2 DEF DidChangeWatchedFiles, DiskTypes, QueueTypes
<1>3. ASSUME NEW w \in Windows, DrainPending(w) \/ DrainDeleted(w)  PROVE QueueTypes'
  BY <1>1, <1>3 DEF DrainPending, DrainDeleted, QueueTypes
<1>4. ASSUME NEW w \in Windows, BatchLosesScan(w) \/ RetryBatch(w)  PROVE QueueTypes'
  BY <1>1, <1>4 DEF BatchLosesScan, RetryBatch, Requeue, QueueTypes, BatchTypes, WindowTasks
<1>5. UNCHANGED queueVars => QueueTypes'
  BY <1>1 DEF queueVars, QueueTypes
<1>6. ASSUME NEW fs \in SUBSET Files, Write(fs) \/ Remove(fs)  PROVE UNCHANGED queueVars
  BY <1>6 DEF Write, Remove
<1>7. ASSUME NEW f \in Files, DidOpen(f) \/ DidChange(f) \/ Save(f) \/ DidClose(f)
                \/ ValidateOpen(f)
      PROVE UNCHANGED queueVars
  BY <1>7 DEF DidOpen, DidChange, Save, DidClose, ValidateOpen
<1>8. ArmForEvents \/ CloseRead \/ CloseRestore => UNCHANGED queueVars
  BY DEF ArmForEvents, CloseRead, CloseRestore
<1>9. ASSUME NEW w \in Windows, EndEmpty(w) \/ BatchScan(w) \/ BatchDeletes(w) \/ BatchSkips(w)
                  \/ BatchStats(w) \/ BatchReads(w) \/ BatchIndexes(w) \/ EndFiles(w)
                  \/ EndBatch(w) \/ EndBatchRefresh(w) \/ ReleaseSlot(w)
                  \/ RearmAfterBatch(w) \/ PanicBatch(w)
      PROVE UNCHANGED queueVars
  BY <1>9 DEF EndEmpty, BatchScan, BatchDeletes, BatchSkips, BatchStats, BatchReads, BatchIndexes,
    EndFiles, EndBatch, EndBatchRefresh, ReleaseSlot, RearmAfterBatch, PanicBatch
<1>10. ASSUME NEW s \in Scanners, StartScan(s) \/ OpenBar(s) \/ EndScanRefresh(s)
                                   \/ CancelScan(s) \/ ScanStep(s) \/ DropScan(s)
                                   \/ DropFinishing(s) \/ PanicScan(s)
       PROVE UNCHANGED queueVars
  BY <1>10 DEF ScanStep, SkipScan, Discover, ParseFile, EndParse, MergeFile,
    PruneRemoved, RecordFingerprint, FinishScan, RearmAfterScan, CloseDropped,
    StartScan, OpenBar, EndScanRefresh, CancelScan, DropScan, DropFinishing, PanicScan
<1>11. UNCHANGED vars => UNCHANGED queueVars
  BY DEF vars
<1> QED
  BY <1>2, <1>3, <1>4, <1>5, <1>6, <1>7, <1>8, <1>9, <1>10, <1>11
  DEF Next, Environment, HandlerStep, WindowStep, Answer, Fault

LEMMA IndexStep ==
    ASSUME TypeOK, [Next]_vars
    PROVE  IndexTypes'
<1>1. DocTypes /\ IndexTypes /\ BatchTypes /\ ScanTypes
  BY TypeParts
<1>2. ASSUME NEW f \in Files, ValidateOpen(f)  PROVE IndexTypes'
  BY <1>1, <1>2 DEF ValidateOpen, DocTypes, IndexTypes
<1>3. CASE CloseRestore
  BY <1>1, <1>3 DEF CloseRestore, DocTypes, IndexTypes
<1>4. ASSUME NEW w \in Windows, BatchDeletes(w)  PROVE IndexTypes'
  BY <1>1, <1>4, Values DEF BatchDeletes, IndexTypes
<1>5. ASSUME NEW w \in Windows, BatchIndexes(w)  PROVE IndexTypes'
  <2>1. window[w].text \in Contents /\ window[w].sig \in Contents
    BY <1>1 DEF BatchTypes, WindowTasks
  <2> QED
    BY <1>1, <1>5, <2>1 DEF BatchIndexes, IndexTypes
<1>6. ASSUME NEW s \in Scanners, MergeFile(s) \/ PruneRemoved(s)  PROVE IndexTypes'
  <2>1. scan[s].read \in [Files -> Contents] /\ scan[s].todo \subseteq Files
    BY <1>1 DEF ScanTypes, Scans
  <2> QED
    BY <1>1, <1>6, <2>1, Values DEF MergeFile, PruneRemoved, IndexTypes
<1>7. UNCHANGED indexVars => IndexTypes'
  BY <1>1 DEF indexVars, IndexTypes
<1>8. ASSUME NEW fs \in SUBSET Files, Write(fs) \/ Remove(fs)  PROVE UNCHANGED indexVars
  BY <1>8 DEF Write, Remove
<1>9. ASSUME NEW f \in Files, DidOpen(f) \/ DidChange(f) \/ Save(f) \/ DidClose(f)
      PROVE UNCHANGED indexVars
  BY <1>9 DEF DidOpen, DidChange, Save, DidClose
<1>10. DidChangeWatchedFiles \/ ArmForEvents \/ CloseRead => UNCHANGED indexVars
  BY DEF DidChangeWatchedFiles, ArmForEvents, CloseRead
<1>11. ASSUME NEW w \in Windows, DrainPending(w) \/ DrainDeleted(w) \/ EndEmpty(w) \/ BatchScan(w)
                  \/ BatchLosesScan(w) \/ BatchSkips(w) \/ BatchStats(w) \/ BatchReads(w)
                  \/ EndFiles(w) \/ EndBatch(w) \/ EndBatchRefresh(w)
                  \/ ReleaseSlot(w) \/ RearmAfterBatch(w) \/ RetryBatch(w) \/ PanicBatch(w)
       PROVE UNCHANGED indexVars
  BY <1>11 DEF DrainPending, DrainDeleted, EndEmpty, BatchScan, BatchLosesScan, BatchSkips,
    BatchStats, BatchReads, EndFiles, EndBatch, EndBatchRefresh, ReleaseSlot, RearmAfterBatch,
    RetryBatch, PanicBatch
<1>12. ASSUME NEW s \in Scanners, StartScan(s) \/ OpenBar(s) \/ EndScanRefresh(s)
                  \/ CancelScan(s) \/ SkipScan(s) \/ Discover(s)
                  \/ ParseFile(s) \/ EndParse(s) \/ RecordFingerprint(s) \/ FinishScan(s)
                  \/ RearmAfterScan(s) \/ CloseDropped(s) \/ DropScan(s) \/ DropFinishing(s)
                  \/ PanicScan(s)
       PROVE UNCHANGED indexVars
  BY <1>12 DEF SkipScan, Discover, ParseFile, EndParse, RecordFingerprint, FinishScan,
    RearmAfterScan, CloseDropped, StartScan, OpenBar, EndScanRefresh, CancelScan, DropScan,
    DropFinishing, PanicScan
<1>13. UNCHANGED vars => UNCHANGED indexVars
  BY DEF vars
<1> QED
  BY <1>2, <1>3, <1>4, <1>5, <1>6, <1>7, <1>8, <1>9, <1>10, <1>11, <1>12, <1>13
  DEF Next, Environment, HandlerStep, WindowStep, ScanStep, Answer, Fault

\* What the steps of a window and of a scan do to their records keeps the types.
LEMMA TaskUpdates ==
    ASSUME NEW t \in WindowTasks, NEW state \in WindowStates, NEW files \in SUBSET Files
    PROVE  /\ [t EXCEPT !.pc = state, !.changes = files] \in WindowTasks
           /\ [t EXCEPT !.deletes = files, !.pc = state] \in WindowTasks
           /\ [t EXCEPT !.pc = state, !.todo = files] \in WindowTasks
           /\ [t EXCEPT !.pc = state, !.lost = TRUE] \in WindowTasks
           /\ \A f \in Files : \A sig \in Contents :
                [t EXCEPT !.todo = files, !.pc = state, !.file = f, !.sig = sig] \in WindowTasks
           /\ \A text \in Contents : [t EXCEPT !.pc = state, !.text = text] \in WindowTasks
BY DEF WindowTasks

LEMMA ScanUpdates ==
    ASSUME NEW t \in Scans, NEW state \in ScanStates, NEW files \in SUBSET Files,
           NEW read \in [Files -> Contents]
    PROVE  /\ [t EXCEPT !.todo = files, !.read = read] \in Scans
           /\ [t EXCEPT !.pc = state, !.todo = files] \in Scans
           /\ [t EXCEPT !.todo = files] \in Scans
BY DEF Scans

\* A step of one scan leaves the others alone, and what it makes of its own.
LEMMA ScanUpdate ==
    ASSUME scan \in [Scanners -> Scans], NEW s \in Scanners, NEW t,
           scan' = [scan EXCEPT ![s] = t]
    PROVE  /\ t \in Scans => scan' \in [Scanners -> Scans]
           /\ scan'[s] = t
           /\ \A o \in Scanners \ {s} : scan'[o] = scan[o]
OBVIOUS

LEMMA GotoUpdate ==
    ASSUME scan \in [Scanners -> Scans], NEW s \in Scanners, NEW state, Goto(s, state)
    PROVE  /\ state \in ScanStates => scan' \in [Scanners -> Scans]
           /\ scan'[s].pc = state
           /\ \A o \in Scanners \ {s} : scan'[o] = scan[o]
<1> DEFINE t == [scan[s] EXCEPT !.pc = state]
<1>1. scan' = [scan EXCEPT ![s] = t]
  BY DEF Goto
<1>2. t.pc = state /\ (state \in ScanStates => t \in Scans)
  BY DEF Scans
<1> HIDE DEF t
<1> QED
  BY <1>1, <1>2, ScanUpdate

LEMMA FreshScan ==
    ASSUME NEW state
    PROVE  [NoScan EXCEPT !.pc = state].pc = state
BY DEF NoScan

\* What the steps of a running scan do to its phase.
LEMMA ParsingPhases ==
    ASSUME scan \in [Scanners -> Scans], NEW s \in Scanners,
           ParseFile(s) \/ EndParse(s) \/ MergeFile(s)
    PROVE  /\ scan[s].pc \in {"parse", "merge"}
           /\ scan'[s].pc = scan[s].pc \/ scan'[s].pc = "merge"
           /\ \A o \in Scanners \ {s} : scan'[o] = scan[o]
           /\ scanning' = scanning
<1>1. scan[s] = [pc |-> scan[s].pc, seen |-> scan[s].seen, open |-> scan[s].open,
                 todo |-> scan[s].todo, read |-> scan[s].read]
  BY DEF Scans
<1>2. CASE ParseFile(s)
  <2>1. PICK f \in scan[s].todo :
          scan' = [scan EXCEPT ![s] = [@ EXCEPT !.todo = scan[s].todo \ {f},
                                                !.read = [scan[s].read EXCEPT ![f] = disk[f]]]]
    BY <1>2 DEF ParseFile
  <2> DEFINE parsed == [scan[s] EXCEPT !.todo = scan[s].todo \ {f},
                            !.read = [scan[s].read EXCEPT ![f] = disk[f]]]
  <2>2. scan' = [scan EXCEPT ![s] = parsed]
    BY <2>1
  <2>3. parsed.pc = scan[s].pc
    BY <1>1
  <2> HIDE DEF parsed
  <2>4. scan'[s] = parsed /\ \A o \in Scanners \ {s} : scan'[o] = scan[o]
    BY <2>2, ScanUpdate
  <2> QED
    BY <1>2, <2>3, <2>4 DEF ParseFile, Phase
<1>3. CASE EndParse(s)
  <2> DEFINE parsed == [scan[s] EXCEPT !.pc = "merge", !.todo = Existing(scan[s].read)]
  <2>1. scan' = [scan EXCEPT ![s] = parsed]
    BY <1>3 DEF EndParse
  <2>2. parsed.pc = "merge"
    BY <1>1
  <2> HIDE DEF parsed
  <2>3. scan'[s] = parsed /\ \A o \in Scanners \ {s} : scan'[o] = scan[o]
    BY <2>1, ScanUpdate
  <2> QED
    BY <1>3, <2>2, <2>3 DEF EndParse, Phase
<1>4. CASE MergeFile(s)
  <2>1. PICK f \in scan[s].todo : scan' = [scan EXCEPT ![s].todo = @ \ {f}]
    BY <1>4 DEF MergeFile
  <2> DEFINE merged == [scan[s] EXCEPT !.todo = @ \ {f}]
  <2>2. scan' = [scan EXCEPT ![s] = merged]
    BY <2>1
  <2>3. merged.pc = scan[s].pc
    BY <1>1
  <2> HIDE DEF merged
  <2>4. scan'[s] = merged /\ \A o \in Scanners \ {s} : scan'[o] = scan[o]
    BY <2>2, ScanUpdate
  <2> QED
    BY <1>4, <2>3, <2>4 DEF MergeFile, Phase
<1> QED
  BY <1>2, <1>3, <1>4

LEMMA NoFault ==
    ASSUME faults \in Nat, NEW s \in Scanners,
           Discover(s) \/ RecordFingerprint(s) \/ CancelScan(s)
    PROVE  ~DropScan(s)
BY DEF Discover, RecordFingerprint, CancelScan, DropScan

LEMMA FreshPhases ==
    ASSUME scan \in [Scanners -> Scans], faults \in Nat, NEW s \in Scanners,
           Discover(s) \/ RecordFingerprint(s) \/ CancelScan(s) \/ DropScan(s)
    PROVE  /\ scan[s].pc \in {"opening", "discover", "parse", "merge", "record", "refreshing"}
           /\ DropScan(s) => scan'[s].pc = "closing"
           /\ ~DropScan(s) => scan'[s].pc \in {"parse", "refreshing", "finishing"}
           /\ \A o \in Scanners \ {s} : scan'[o] = scan[o]
           /\ scanning' = scanning
<1>1. CASE Discover(s)
  <2> DEFINE found == [NoScan EXCEPT !.pc = "parse", !.seen = stat, !.open = OpenDocs,
                                     !.todo = Existing(disk) \ OpenDocs]
  <2>1. scan' = [scan EXCEPT ![s] = found] /\ scan[s].pc = "discover" /\ scanning' = scanning
    BY <1>1 DEF Discover, Phase
  <2>2. found.pc = "parse"
    BY DEF NoScan
  <2>3. ~DropScan(s)
    BY <1>1, NoFault
  <2> HIDE DEF found
  <2> QED
    BY <2>1, <2>2, <2>3, ScanUpdate
<1>2. ASSUME NEW state, scan' = [scan EXCEPT ![s] = [NoScan EXCEPT !.pc = state]]
      PROVE  scan'[s].pc = state /\ \A o \in Scanners \ {s} : scan'[o] = scan[o]
  BY <1>2, FreshScan, ScanUpdate
<1>3. CASE RecordFingerprint(s)
  <2>1. /\ scan' = [scan EXCEPT ![s] = [NoScan EXCEPT !.pc = "refreshing"]]
        /\ scan[s].pc = "record" /\ scanning' = scanning
    BY <1>3 DEF RecordFingerprint, Phase
  <2> QED
    BY <1>2, <1>3, <2>1, NoFault
<1>4. CASE CancelScan(s)
  <2>1. /\ scan' = [scan EXCEPT ![s] = [NoScan EXCEPT !.pc = "finishing"]]
        /\ scan[s].pc \in {"parse", "merge", "record"} /\ scanning' = scanning
    BY <1>4 DEF CancelScan
  <2> QED
    BY <1>2, <1>4, <2>1, NoFault
<1>5. CASE DropScan(s)
  <2>1. /\ scan' = [scan EXCEPT ![s] = [NoScan EXCEPT !.pc = "closing"]]
        /\ scan[s].pc \in {"opening", "discover", "parse", "merge", "record", "refreshing"}
        /\ scanning' = scanning
    BY <1>5 DEF DropScan
  <2> QED
    BY <1>2, <1>5, <2>1
<1> QED
  BY <1>1, <1>3, <1>4, <1>5

\* A window that ends, and the arming of one, leave the types of both variables.
LEMMA FinishedTypes ==
    ASSUME BatchTypes, NEW w \in Windows
    PROVE  Finished(w) \in [Windows -> WindowTasks]
BY Values DEF Finished, BatchTypes

LEMMA SpawnTypes ==
    ASSUME NEW tasks \in [Windows -> WindowTasks], NEW retried \in BOOLEAN,
           Spawn(tasks, retried)
    PROVE  BatchTypes'
<1>1. PICK w \in Windows :
        /\ slot' = w
        /\ window' = [tasks EXCEPT ![w] = [NoWindowTask EXCEPT !.pc = "sleep", !.retried = retried]]
  BY DEF Spawn
<1>2. [NoWindowTask EXCEPT !.pc = "sleep", !.retried = retried] \in WindowTasks
  BY Values DEF NoWindowTask, WindowTasks, WindowStates
<1> QED
  BY <1>1, <1>2 DEF BatchTypes

LEMMA ArmTypes ==
    ASSUME BatchTypes, NEW tasks \in [Windows -> WindowTasks], ArmWatchedBatch(tasks)
    PROVE  BatchTypes'
BY SpawnTypes DEF ArmWatchedBatch, BatchTypes

LEMMA BatchStep ==
    ASSUME TypeOK, [Next]_vars
    PROVE  BatchTypes'
<1>1. QueueTypes /\ BatchTypes /\ DiskTypes
  BY TypeParts
<1>2. CASE ArmForEvents
  BY <1>1, <1>2, ArmTypes DEF ArmForEvents, BatchTypes
<1>3. ASSUME NEW w \in Windows, DrainPending(w)  PROVE BatchTypes'
  BY <1>1, <1>3, TaskUpdates DEF DrainPending, BatchTypes, WindowStates, QueueTypes
<1>4. ASSUME NEW w \in Windows, DrainDeleted(w)  PROVE BatchTypes'
  <2>1. deleted \ window[w].changes \in SUBSET Files
    BY <1>1 DEF QueueTypes
  <2> QED
    BY <1>1, <1>4, <2>1, TaskUpdates DEF DrainDeleted, BatchTypes, WindowStates
<1>5. ASSUME NEW w \in Windows, EndEmpty(w)  PROVE BatchTypes'
  BY <1>1, <1>5, FinishedTypes DEF EndEmpty, BatchTypes
<1>6. ASSUME NEW w \in Windows, BatchScan(w) \/ BatchLosesScan(w) \/ BatchDeletes(w)
      PROVE BatchTypes'
  <2>1. CASE BatchScan(w)
    BY <1>1, <2>1 DEF BatchScan, BatchTypes, WindowTasks, WindowStates
  <2>2. CASE BatchLosesScan(w)
    BY <1>1, <2>2, TaskUpdates DEF BatchLosesScan, BatchTypes, WindowStates
  <2>3. CASE BatchDeletes(w)
    <3>1. window[w].changes \in SUBSET Files
      BY <1>1 DEF BatchTypes, WindowTasks
    <3> QED
      BY <1>1, <2>3, <3>1, TaskUpdates DEF BatchDeletes, BatchTypes, WindowStates
  <2> QED
    BY <1>6, <2>1, <2>2, <2>3
<1>7. ASSUME NEW w \in Windows, BatchSkips(w)  PROVE BatchTypes'
  BY <1>1, <1>7 DEF BatchSkips, BatchTypes, WindowTasks
<1>8. ASSUME NEW w \in Windows, BatchStats(w)  PROVE BatchTypes'
  <2>1. PICK f \in window[w].todo :
          window' = [window EXCEPT ![w] = [@ EXCEPT !.todo = window[w].todo \ {f},
                          !.pc = "read", !.file = f, !.sig = stat[f]]]
    BY <1>8 DEF BatchStats
  <2> DEFINE noted == [window[w] EXCEPT !.todo = window[w].todo \ {f}, !.pc = "read",
                          !.file = f, !.sig = stat[f]]
  <2>2. /\ f \in Files /\ stat[f] \in Contents
        /\ window[w] \in WindowTasks
        /\ window[w].todo \ {f} \in SUBSET Files
    BY <1>1, <2>1 DEF BatchTypes, WindowTasks, DiskTypes
  <2>3. noted \in WindowTasks
    BY <2>2, TaskUpdates DEF WindowStates
  <2>4. window' = [window EXCEPT ![w] = noted] /\ UNCHANGED slot
    BY <1>8, <2>1 DEF BatchStats
  <2> HIDE DEF noted
  <2> QED
    BY <1>1, <2>3, <2>4 DEF BatchTypes
<1>22. ASSUME NEW w \in Windows, BatchReads(w)  PROVE BatchTypes'
  <2>1. PICK f \in Files :
          window' = [window EXCEPT ![w] =
              IF disk[f] = NoFile THEN [@ EXCEPT !.pc = "files", !.file = NoFile, !.sig = NoFile]
              ELSE [@ EXCEPT !.pc = "write", !.text = disk[f]]]
    BY <1>22 DEF BatchReads
  <2> DEFINE gone == [window[w] EXCEPT !.pc = "files", !.file = NoFile, !.sig = NoFile]
             read == [window[w] EXCEPT !.pc = "write", !.text = disk[f]]
  <2>2. window' = [window EXCEPT ![w] = IF disk[f] = NoFile THEN gone ELSE read]
    BY <2>1
  <2>3. window[w] \in WindowTasks /\ disk[f] \in Contents
    BY <1>1 DEF BatchTypes, DiskTypes
  <2>4. gone \in WindowTasks
    BY <2>3, Values DEF WindowTasks, WindowStates
  <2>5. read \in WindowTasks
    BY <2>3, TaskUpdates DEF WindowStates
  <2> HIDE DEF gone, read
  <2> QED
    BY <1>1, <1>22, <2>2, <2>4, <2>5 DEF BatchReads, BatchTypes
<1>9. ASSUME NEW w \in Windows, BatchIndexes(w)  PROVE BatchTypes'
  <2> DEFINE written == [window[w] EXCEPT !.pc = "files", !.file = NoFile,
                             !.text = NoFile, !.sig = NoFile]
  <2>1. window[w] \in WindowTasks /\ "files" \in WindowStates
    BY <1>1 DEF BatchTypes, WindowStates
  <2>2. written \in WindowTasks
    BY <2>1, Values DEF WindowTasks
  <2>3. window' = [window EXCEPT ![w] = written] /\ UNCHANGED slot
    BY <1>9 DEF BatchIndexes
  <2> HIDE DEF written
  <2> QED
    BY <1>1, <2>2, <2>3 DEF BatchTypes
<1>10. ASSUME NEW w \in Windows, EndFiles(w) \/ EndBatch(w) \/ EndBatchRefresh(w) \/ PanicBatch(w)
       PROVE BatchTypes'
  BY <1>1, <1>10 DEF EndFiles, EndBatch, EndBatchRefresh, PanicBatch, BatchTypes, WindowTasks,
    WindowStates
<1>11. ASSUME NEW w \in Windows, ReleaseSlot(w)  PROVE BatchTypes'
  <2>1. [NoWindowTask EXCEPT !.pc = "tail", !.lost = window[w].lost] \in WindowTasks
    BY <1>1, Values DEF NoWindowTask, WindowTasks, WindowStates, BatchTypes
  <2> QED
    BY <1>1, <1>11, <2>1 DEF ReleaseSlot, BatchTypes
<1>12. ASSUME NEW w \in Windows, RearmAfterBatch(w)  PROVE BatchTypes'
  <2>1. ArmWatchedBatch(Finished(w)) \/ (slot' = slot /\ window' = Finished(w))
    BY <1>12 DEF RearmAfterBatch
  <2> QED
    BY <1>1, <2>1, FinishedTypes, ArmTypes DEF BatchTypes
<1>13. ASSUME NEW w \in Windows, RetryBatch(w)  PROVE BatchTypes'
  <2>1. Spawn(Finished(w), TRUE) \/ (slot' = slot /\ window' = Finished(w))
    BY <1>13 DEF RetryBatch
  <2> QED
    BY <1>1, <2>1, FinishedTypes, SpawnTypes DEF BatchTypes
<1>14. ASSUME NEW s \in Scanners, RearmAfterScan(s)  PROVE BatchTypes'
  BY <1>1, <1>14, ArmTypes DEF RearmAfterScan, BatchTypes, batchVars
<1>15. ASSUME NEW s \in Scanners, PanicScan(s)  PROVE BatchTypes'
  BY <1>1, <1>15 DEF PanicScan, BatchTypes, WindowTasks, WindowStates
<1>16. UNCHANGED batchVars => BatchTypes'
  BY <1>1 DEF batchVars, BatchTypes
<1>17. ASSUME NEW fs \in SUBSET Files, Write(fs) \/ Remove(fs)  PROVE UNCHANGED batchVars
  BY <1>17 DEF Write, Remove
<1>18. ASSUME NEW f \in Files, DidOpen(f) \/ DidChange(f) \/ Save(f) \/ DidClose(f)
                \/ ValidateOpen(f)
       PROVE UNCHANGED batchVars
  BY <1>18 DEF DidOpen, DidChange, Save, DidClose, ValidateOpen
<1>19. DidChangeWatchedFiles \/ CloseRead \/ CloseRestore => UNCHANGED batchVars
  BY DEF DidChangeWatchedFiles, CloseRead, CloseRestore
<1>20. ASSUME NEW s \in Scanners, StartScan(s) \/ OpenBar(s) \/ EndScanRefresh(s)
                  \/ CancelScan(s) \/ SkipScan(s) \/ Discover(s)
                  \/ ParseFile(s) \/ EndParse(s) \/ MergeFile(s) \/ PruneRemoved(s)
                  \/ RecordFingerprint(s) \/ FinishScan(s) \/ CloseDropped(s)
                  \/ DropScan(s) \/ DropFinishing(s)
       PROVE UNCHANGED batchVars
  BY <1>20 DEF SkipScan, Discover, ParseFile, EndParse, MergeFile, PruneRemoved,
    RecordFingerprint, FinishScan, CloseDropped, StartScan, OpenBar, EndScanRefresh,
    CancelScan, DropScan, DropFinishing
<1>21. UNCHANGED vars => UNCHANGED batchVars
  BY DEF vars
<1> QED
  BY <1>2, <1>3, <1>4, <1>5, <1>6, <1>7, <1>8, <1>9, <1>10, <1>11, <1>12, <1>13,
     <1>14, <1>15, <1>16, <1>17, <1>18, <1>19, <1>20, <1>21, <1>22
  DEF Next, Environment, HandlerStep, WindowStep, ScanStep, Answer, Fault

LEMMA ScanTypesStep ==
    ASSUME TypeOK, [Next]_vars
    PROVE  ScanTypes'
<1>1. DiskTypes /\ DocTypes /\ ScanTypes
  BY TypeParts
<1>2. "batch" \in Scanners
  BY DEF Scanners, Quiet
<1>3. ASSUME NEW s \in Scanners, NEW state \in ScanStates, Goto(s, state)
      PROVE scan' \in [Scanners -> Scans]
  BY <1>1, <1>3, GotoUpdate DEF ScanTypes
<1>4. ASSUME NEW s \in Scanners, NEW state \in ScanStates,
             scan' = [scan EXCEPT ![s] = [NoScan EXCEPT !.pc = state]]
      PROVE scan' \in [Scanners -> Scans]
  <2>1. [NoScan EXCEPT !.pc = state] \in Scans
    BY Values DEF NoScan, Scans
  <2> QED
    BY <1>1, <1>4, <2>1 DEF ScanTypes
<1>5. ASSUME NEW w \in Windows, BatchScan(w)  PROVE ScanTypes'
  <2>1. Goto("batch", "discover") /\ scanning' = TRUE /\ UNCHANGED fingerprint
    BY <1>5 DEF BatchScan, Goto
  <2>2. "discover" \in ScanStates
    BY DEF ScanStates
  <2> QED
    BY <1>1, <1>2, <2>1, <2>2, GotoUpdate DEF ScanTypes
<1>6. ASSUME NEW s \in Scanners, StartScan(s) \/ OpenBar(s) \/ EndScanRefresh(s)
                  \/ SkipScan(s) \/ FinishScan(s) \/ CloseDropped(s)
                  \/ DropFinishing(s) \/ RearmAfterScan(s) \/ PruneRemoved(s)
      PROVE ScanTypes'
  <2>1. \E state \in ScanStates : Goto(s, state)
    BY <1>6 DEF StartScan, FirstPhase, OpenBar, EndScanRefresh, SkipScan, FinishScan,
      CloseDropped, DropFinishing, RearmAfterScan, PruneRemoved, ScanStates
  <2>2. scanning' \in BOOLEAN /\ fingerprint' = fingerprint
    BY <1>1, <1>6 DEF StartScan, OpenBar, EndScanRefresh, SkipScan, FinishScan, CloseDropped,
      DropFinishing,
      RearmAfterScan, PruneRemoved, ScanTypes
  <2> QED
    BY <1>1, <1>3, <2>1, <2>2 DEF ScanTypes
<1>7. ASSUME NEW s \in Scanners, Discover(s)  PROVE ScanTypes'
  <2>1. [NoScan EXCEPT !.pc = "parse", !.seen = stat, !.open = OpenDocs,
                       !.todo = Existing(disk) \ OpenDocs] \in Scans
    BY <1>1, Values DEF NoScan, Scans, ScanStates, DiskTypes, OpenDocs, Existing
  <2> QED
    BY <1>1, <1>7, <2>1 DEF Discover, ScanTypes
<1>8. ASSUME NEW s \in Scanners, ParseFile(s) \/ MergeFile(s)  PROVE ScanTypes'
  <2>1. CASE ParseFile(s)
    <3>1. PICK f \in scan[s].todo :
            scan' = [scan EXCEPT ![s] = [@ EXCEPT !.todo = scan[s].todo \ {f},
                                                  !.read = [scan[s].read EXCEPT ![f] = disk[f]]]]
      BY <2>1 DEF ParseFile
    <3>2. scan[s] \in Scans /\ f \in Files /\ scan[s].todo \ {f} \in SUBSET Files
      BY <1>1 DEF ScanTypes, Scans
    <3>3. [scan[s].read EXCEPT ![f] = disk[f]] \in [Files -> Contents]
      BY <1>1, <3>2 DEF DiskTypes, Scans
    <3> DEFINE parsed == [scan[s] EXCEPT !.todo = scan[s].todo \ {f},
                              !.read = [scan[s].read EXCEPT ![f] = disk[f]]]
    <3>4. parsed \in Scans
      BY <3>2, <3>3, ScanUpdates DEF ScanStates
    <3>5. scan' = [scan EXCEPT ![s] = parsed]
      BY <3>1
    <3> HIDE DEF parsed
    <3> QED
      BY <1>1, <2>1, <3>4, <3>5 DEF ParseFile, ScanTypes
  <2>2. CASE MergeFile(s)
    <3>1. PICK f \in scan[s].todo : scan' = [scan EXCEPT ![s].todo = @ \ {f}]
      BY <2>2 DEF MergeFile
    <3> DEFINE merged == [scan[s] EXCEPT !.todo = @ \ {f}]
    <3>2. scan[s] \in Scans /\ scan[s].todo \ {f} \in SUBSET Files
      BY <1>1 DEF ScanTypes, Scans
    <3>3. merged \in Scans
      BY ONLY <3>2 DEF Scans
    <3>4. scan' = [scan EXCEPT ![s] = merged]
      BY <3>1
    <3> HIDE DEF merged
    <3>5. scan' \in [Scanners -> Scans]
      BY <1>1, <3>3, <3>4 DEF ScanTypes
    <3> QED
      BY <1>1, <2>2, <3>5 DEF MergeFile, ScanTypes
  <2> QED
    BY <1>8, <2>1, <2>2
<1>9. ASSUME NEW s \in Scanners, EndParse(s)  PROVE ScanTypes'
  <2> DEFINE parsed == [scan[s] EXCEPT !.pc = "merge", !.todo = Existing(scan[s].read)]
  <2>1. scan[s] \in Scans /\ Existing(scan[s].read) \in SUBSET Files
    BY <1>1 DEF ScanTypes, Existing
  <2>2. parsed \in Scans
    <3>1. "merge" \in ScanStates
      BY DEF ScanStates
    <3> QED
      BY ONLY <2>1, <3>1 DEF Scans
  <2>3. scan' = [scan EXCEPT ![s] = parsed] /\ UNCHANGED <<scanning, fingerprint>>
    BY <1>9 DEF EndParse
  <2> HIDE DEF parsed
  <2> QED
    BY <1>1, <2>2, <2>3 DEF ScanTypes
<1>10. ASSUME NEW s \in Scanners, RecordFingerprint(s)  PROVE ScanTypes'
  <2>1. fingerprint' \in [Files -> Contents] \cup {NoFingerprint}
    BY <1>1, <1>10 DEF RecordFingerprint, ScanTypes, Scans
  <2> QED
    BY <1>1, <1>4, <1>10, <2>1 DEF RecordFingerprint, ScanTypes, ScanStates
<1>11. ASSUME NEW s \in Scanners, CancelScan(s) \/ DropScan(s)  PROVE ScanTypes'
  BY <1>1, <1>4, <1>11 DEF CancelScan, DropScan, ScanTypes, ScanStates
<1>12. ASSUME NEW s \in Scanners, PanicScan(s)  PROVE ScanTypes'
  BY <1>1, <1>12, Values DEF PanicScan, ScanTypes
<1>13. UNCHANGED scanVars => ScanTypes'
  BY <1>1 DEF scanVars, ScanTypes
<1>14. ASSUME NEW fs \in SUBSET Files, Write(fs) \/ Remove(fs)  PROVE UNCHANGED scanVars
  BY <1>14 DEF Write, Remove
<1>15. ASSUME NEW f \in Files, DidOpen(f) \/ DidChange(f) \/ Save(f) \/ DidClose(f)
                \/ ValidateOpen(f)
       PROVE UNCHANGED scanVars
  BY <1>15 DEF DidOpen, DidChange, Save, DidClose, ValidateOpen
<1>16. HandlerStep => UNCHANGED scanVars
  BY DEF HandlerStep, DidChangeWatchedFiles, ArmForEvents, CloseRead, CloseRestore
<1>17. ASSUME NEW w \in Windows, DrainPending(w) \/ DrainDeleted(w) \/ EndEmpty(w)
                  \/ BatchLosesScan(w) \/ BatchDeletes(w) \/ BatchSkips(w)
                  \/ BatchStats(w) \/ BatchReads(w)
                  \/ BatchIndexes(w) \/ EndFiles(w) \/ EndBatch(w) \/ EndBatchRefresh(w)
                  \/ ReleaseSlot(w) \/ RearmAfterBatch(w)
                  \/ RetryBatch(w) \/ PanicBatch(w)
       PROVE UNCHANGED scanVars
  BY <1>17 DEF DrainPending, DrainDeleted, EndEmpty, BatchLosesScan, BatchDeletes, BatchSkips,
    BatchStats, BatchReads, BatchIndexes, EndFiles, EndBatch, EndBatchRefresh, ReleaseSlot,
    RearmAfterBatch, RetryBatch, PanicBatch
<1>18. UNCHANGED vars => UNCHANGED scanVars
  BY DEF vars
<1> QED
  BY <1>5, <1>6, <1>7, <1>8, <1>9, <1>10, <1>11, <1>12, <1>13, <1>14, <1>15, <1>16,
     <1>17, <1>18
  DEF Next, Environment, WindowStep, ScanStep, Answer, Fault

LEMMA FaultsStep ==
    ASSUME TypeOK, [Next]_vars
    PROVE  faults' \in 0 .. MaxFaults /\ faults <= faults'
<1>1. faults \in 0 .. MaxFaults
  BY TypeParts
<1>2. ASSUME NEW w \in Windows, PanicBatch(w)  PROVE faults < MaxFaults /\ faults' = faults + 1
  BY <1>2 DEF PanicBatch
<1>3. ASSUME NEW s \in Scanners, DropScan(s) \/ DropFinishing(s) \/ PanicScan(s)
      PROVE faults < MaxFaults /\ faults' = faults + 1
  BY <1>3 DEF DropScan, DropFinishing, PanicScan
<1>4. Environment => UNCHANGED faults
  BY DEF Environment, Write, Remove, DidOpen, DidChange, Save, DidClose
<1>5. HandlerStep \/ (\E f \in Files : ValidateOpen(f)) => UNCHANGED faults
  BY DEF HandlerStep, DidChangeWatchedFiles, ArmForEvents, CloseRead, CloseRestore, ValidateOpen
<1>6. ASSUME NEW w \in Windows, WindowStep(w) \/ EndBatchRefresh(w)  PROVE UNCHANGED faults
  BY <1>6 DEF WindowStep, DrainPending, DrainDeleted, EndEmpty, BatchScan,
    BatchLosesScan, BatchDeletes, BatchSkips, BatchStats, BatchReads, BatchIndexes, EndFiles,
    EndBatch, EndBatchRefresh,
    ReleaseSlot, RearmAfterBatch, RetryBatch
<1>7. ASSUME NEW s \in Scanners, StartScan(s) \/ OpenBar(s) \/ EndScanRefresh(s)
                \/ CancelScan(s) \/ ScanStep(s)
      PROVE UNCHANGED faults
  BY <1>7 DEF ScanStep, SkipScan, Discover, ParseFile, EndParse, MergeFile,
    PruneRemoved, RecordFingerprint, FinishScan, RearmAfterScan, CloseDropped,
    StartScan, OpenBar, EndScanRefresh, CancelScan
<1>8. UNCHANGED vars => UNCHANGED faults
  BY DEF vars
<1> QED
  BY <1>1, <1>2, <1>3, <1>4, <1>5, <1>6, <1>7, <1>8 DEF Next, Answer, Fault

LEMMA TypesInvariant == Spec => []TypeOK
<1>1. TypeOK /\ [Next]_vars => TypeOK'
  <2> SUFFICES ASSUME TypeOK, [Next]_vars  PROVE TypeOK'
    OBVIOUS
  <2>1. DiskTypes' /\ DocTypes' /\ IndexTypes' /\ QueueTypes' /\ BatchTypes' /\ ScanTypes'
    BY DiskStep, DocStep, IndexStep, QueueStep, BatchStep, ScanTypesStep
  <2>2. faults' \in 0 .. MaxFaults
    BY FaultsStep
  <2> QED
    BY <2>1, <2>2 DEF TypeOK, DiskTypes, DocTypes, IndexTypes, QueueTypes, BatchTypes,
      ScanTypes, WindowTasks, Scans
<1> QED
  BY <1>1, InitTypes, PTL DEF Spec

\* Whatever is written, closed, cancelled or panics, every variable keeps its type.
THEOREM TypeCorrect == Spec => []TypeOK
BY TypesInvariant

-----------------------------------------------------------------------------
(* One scan at a time *)

\* A step of one scan: it stays what it was, puts the flag back, takes it, or
\* loses it.
LEMMA ScanMoves ==
    ASSUME OneScanAtATime, NEW s \in Scanners,
           \A t \in Scanners \ {s} : scan'[t].pc = scan[t].pc,
           \/ /\ scan'[s].pc \in OwnerStates <=> scan[s].pc \in OwnerStates
              /\ scan'[s].pc = "lost" <=> scan[s].pc = "lost"
              /\ scanning' = scanning
           \/ /\ scan'[s].pc \notin OwnerStates \cup {"lost"} /\ scan[s].pc \in OwnerStates
              /\ scanning' = FALSE
           \/ /\ scan'[s].pc \in OwnerStates
              /\ scanning = FALSE /\ scanning' = TRUE
           \/ /\ scan'[s].pc = "lost" /\ scan[s].pc \in OwnerStates
              /\ scanning' = scanning
    PROVE  OneScanAtATime'
<1>1. "lost" \notin OwnerStates
  BY DEF OwnerStates
<1> QED
  BY <1>1 DEF OneScanAtATime, Owners, Lost, Phase

LEMMA OneScanStep ==
    ASSUME TypeOK, OneScanAtATime, [Next]_vars
    PROVE  OneScanAtATime'
<1>1. ScanTypes /\ faults \in Nat
  BY TypeParts
<1>2. ASSUME NEW w \in Windows, BatchScan(w)  PROVE OneScanAtATime'
  <2>1. "batch" \in Scanners
    BY DEF Scanners, Quiet
  <2>2. /\ \A t \in Scanners \ {"batch"} : scan'[t].pc = scan[t].pc
        /\ scan'["batch"].pc \in OwnerStates
        /\ scanning = FALSE /\ scanning' = TRUE
    BY <1>1, <1>2, <2>1 DEF BatchScan, ScanTypes, Scans, OwnerStates
  <2> QED
    BY <2>1, <2>2, ScanMoves
<1>3. ASSUME NEW s \in Scanners, StartScan(s)  PROVE OneScanAtATime'
  <2>1. /\ \A t \in Scanners \ {s} : scan'[t].pc = scan[t].pc
        /\ scan'[s].pc \in OwnerStates
        /\ scanning = FALSE /\ scanning' = TRUE
    BY <1>1, <1>3 DEF StartScan, FirstPhase, Goto, ScanTypes, Scans, OwnerStates
  <2> QED
    BY <2>1, ScanMoves
<1>4. ASSUME NEW s \in Scanners, FinishScan(s) \/ CloseDropped(s)  PROVE OneScanAtATime'
  <2>1. /\ \A t \in Scanners \ {s} : scan'[t].pc = scan[t].pc
        /\ scan'[s].pc \notin OwnerStates \cup {"lost"} /\ scan[s].pc \in OwnerStates
        /\ scanning' = FALSE
    BY <1>1, <1>4 DEF FinishScan, CloseDropped, Goto, Phase, ScanTypes, Scans, OwnerStates
  <2> QED
    BY <2>1, ScanMoves
<1>5. ASSUME NEW s \in Scanners, PanicScan(s)  PROVE OneScanAtATime'
  <2>1. /\ \A t \in Scanners \ {s} : scan'[t].pc = scan[t].pc
        /\ scan'[s].pc \notin OwnerStates \cup {"lost"} /\ scan[s].pc \in OwnerStates
        /\ scanning' = FALSE
    BY <1>1, <1>5 DEF PanicScan, NoScan, ScanTypes, Scans, OwnerStates
  <2> QED
    BY <2>1, ScanMoves
<1>14. ASSUME NEW s \in Scanners, DropFinishing(s)  PROVE OneScanAtATime'
  <2>1. /\ \A t \in Scanners \ {s} : scan'[t].pc = scan[t].pc
        /\ scan'[s].pc = "lost" /\ scan[s].pc \in OwnerStates
        /\ scanning' = scanning
    BY <1>1, <1>14 DEF DropFinishing, Goto, Phase, ScanTypes, Scans, OwnerStates
  <2> QED
    BY <2>1, ScanMoves
<1>6. ASSUME NEW s \in Scanners, OpenBar(s) \/ SkipScan(s) \/ PruneRemoved(s)
                  \/ EndScanRefresh(s) \/ RearmAfterScan(s)
      PROVE OneScanAtATime'
  <2>1. /\ \A t \in Scanners \ {s} : scan'[t].pc = scan[t].pc
        /\ scan'[s].pc \in OwnerStates <=> scan[s].pc \in OwnerStates
        /\ scan'[s].pc = "lost" <=> scan[s].pc = "lost"
        /\ scanning' = scanning
    BY <1>1, <1>6 DEF OpenBar, SkipScan, PruneRemoved, EndScanRefresh, RearmAfterScan, Goto,
      Phase, ScanTypes, Scans, OwnerStates
  <2> QED
    BY <2>1, ScanMoves
<1>7. ASSUME NEW s \in Scanners, Discover(s) \/ RecordFingerprint(s) \/ CancelScan(s) \/ DropScan(s)
      PROVE OneScanAtATime'
  <2>1. /\ \A t \in Scanners \ {s} : scan'[t].pc = scan[t].pc
        /\ scan'[s].pc \in OwnerStates <=> scan[s].pc \in OwnerStates
        /\ scan'[s].pc = "lost" <=> scan[s].pc = "lost"
        /\ scanning' = scanning
    BY <1>1, <1>7, FreshPhases DEF ScanTypes, OwnerStates
  <2> QED
    BY <2>1, ScanMoves
<1>8. ASSUME NEW s \in Scanners, ParseFile(s) \/ EndParse(s) \/ MergeFile(s)
      PROVE OneScanAtATime'
  <2>1. /\ \A t \in Scanners \ {s} : scan'[t].pc = scan[t].pc
        /\ scan'[s].pc \in OwnerStates <=> scan[s].pc \in OwnerStates
        /\ scan'[s].pc = "lost" <=> scan[s].pc = "lost"
        /\ scanning' = scanning
    BY <1>1, <1>8, ParsingPhases DEF ScanTypes, OwnerStates
  <2> QED
    BY <2>1, ScanMoves
<1>9. UNCHANGED scanVars => OneScanAtATime'
  BY DEF scanVars, OneScanAtATime, Owners, Lost, Phase
<1>10. Environment => UNCHANGED scanVars
  BY DEF Environment, Write, Remove, DidOpen, DidChange, Save, DidClose
<1>11. HandlerStep \/ (\E f \in Files : ValidateOpen(f)) => UNCHANGED scanVars
  BY DEF HandlerStep, DidChangeWatchedFiles, ArmForEvents, CloseRead, CloseRestore, ValidateOpen
<1>12. ASSUME NEW w \in Windows, WindowStep(w) \/ EndBatchRefresh(w) \/ PanicBatch(w), ~BatchScan(w)
       PROVE UNCHANGED scanVars
  BY <1>12 DEF WindowStep, DrainPending, DrainDeleted, EndEmpty, BatchLosesScan, BatchDeletes,
    BatchSkips, BatchStats, BatchReads, BatchIndexes, EndFiles, EndBatch, EndBatchRefresh,
    ReleaseSlot, RearmAfterBatch,
    RetryBatch, PanicBatch
<1>13. UNCHANGED vars => UNCHANGED scanVars
  BY DEF vars
<1> QED
  BY <1>2, <1>3, <1>4, <1>5, <1>6, <1>7, <1>8, <1>9, <1>10, <1>11, <1>12, <1>13, <1>14
  DEF Next, ScanStep, Answer, Fault

\* Two scans never run at once, and the flag is set exactly while a scan has still
\* to put it back, whatever panics and whichever request is dropped; but for a
\* request dropped in finish, after which the flag stays set and no scan runs.
THEOREM OneScanCorrect == Spec => []OneScanAtATime
<1>1. Init => OneScanAtATime
  BY DEF Init, OneScanAtATime, Owners, Lost, Phase, NoScan, OwnerStates
<1>2. TypeOK /\ OneScanAtATime /\ [Next]_vars => OneScanAtATime'
  BY OneScanStep
<1> QED
  BY <1>1, <1>2, TypesInvariant, PTL DEF Spec

-----------------------------------------------------------------------------
(* One batch at a time *)

\* The window that has not let go of the slot is the one whose handle it holds.
SlotOK ==
    \A w \in Windows : window[w].pc \notin {"tail", "over"} => slot = w

\* A dead handle means that no window holds on to the slot.
LEMMA NotLive ==
    ASSUME SlotOK, ~SlotLive
    PROVE  \A w \in Windows : window[w].pc \in {"tail", "over"}
BY DEF SlotOK, SlotLive, NoWindow

LEMMA SpawnSlot ==
    ASSUME NEW tasks \in [Windows -> WindowTasks], NEW retried \in BOOLEAN,
           Spawn(tasks, retried),
           \A w \in Windows : tasks[w].pc \in {"tail", "over"}
    PROVE  SlotOK'
<1>1. PICK w \in Windows :
        /\ slot' = w
        /\ window' = [tasks EXCEPT ![w] = [NoWindowTask EXCEPT !.pc = "sleep", !.retried = retried]]
  BY DEF Spawn
<1>2. \A v \in Windows \ {w} : window'[v] = tasks[v]
  BY <1>1
<1> QED
  BY <1>1, <1>2 DEF SlotOK

LEMMA ArmSlot ==
    ASSUME BatchTypes, SlotOK, NEW tasks \in [Windows -> WindowTasks],
           \A w \in Windows : tasks[w].pc = window[w].pc \/ tasks[w].pc = "over",
           ArmWatchedBatch(tasks)
    PROVE  SlotOK'
<1>1. CASE SlotLive
  BY <1>1 DEF ArmWatchedBatch, SlotOK
<1>2. CASE ~SlotLive
  <2>1. \A w \in Windows : tasks[w].pc \in {"tail", "over"}
    BY <1>2, NotLive
  <2> QED
    BY <1>2, <2>1, SpawnSlot DEF ArmWatchedBatch
<1> QED
  BY <1>1, <1>2

LEMMA FinishedPc ==
    ASSUME BatchTypes, NEW w \in Windows
    PROVE  /\ Finished(w)[w].pc = "over"
           /\ \A v \in Windows \ {w} : Finished(w)[v] = window[v]
BY DEF Finished, BatchTypes, NoWindowTask

\* A window that moves on, and keeps the slot, or ends.
LEMMA SlotMoves ==
    ASSUME SlotOK, NEW w \in Windows, slot' = slot,
           \A v \in Windows \ {w} : window'[v].pc = window[v].pc,
           window[w].pc \notin {"tail", "over"} \/ window'[w].pc = "over"
    PROVE  SlotOK'
BY DEF SlotOK

LEMMA SlotStep ==
    ASSUME TypeOK, SlotOK, [Next]_vars
    PROVE  SlotOK'
<1>1. BatchTypes
  BY TypeParts
<1>2. CASE ArmForEvents
  BY <1>1, <1>2, ArmSlot DEF ArmForEvents, BatchTypes
<1>3. ASSUME NEW s \in Scanners, RearmAfterScan(s)  PROVE SlotOK'
  BY <1>1, <1>3, ArmSlot DEF RearmAfterScan, BatchTypes, batchVars, SlotOK
<1>4. ASSUME NEW w \in Windows, DrainPending(w) \/ DrainDeleted(w) \/ BatchScan(w)
                  \/ BatchLosesScan(w) \/ BatchDeletes(w) \/ PanicBatch(w)
      PROVE SlotOK'
  <2>1. /\ slot' = slot
        /\ \A v \in Windows \ {w} : window'[v].pc = window[v].pc
        /\ window[w].pc \notin {"tail", "over"}
    BY <1>1, <1>4 DEF DrainPending, DrainDeleted, BatchScan, BatchLosesScan, BatchDeletes,
      PanicBatch, At, BatchTypes
  <2> QED
    BY <2>1, SlotMoves
<1>5. ASSUME NEW w \in Windows, BatchSkips(w) \/ BatchStats(w) \/ BatchReads(w)
                \/ BatchIndexes(w) \/ EndFiles(w) \/ EndBatch(w) \/ EndBatchRefresh(w)
      PROVE SlotOK'
  <2>1. /\ slot' = slot
        /\ \A v \in Windows \ {w} : window'[v].pc = window[v].pc
        /\ window[w].pc \notin {"tail", "over"}
    BY <1>1, <1>5 DEF BatchSkips, BatchStats, BatchReads, BatchIndexes, EndFiles, EndBatch,
      EndBatchRefresh, At, BatchTypes
  <2> QED
    BY <2>1, SlotMoves
<1>6. ASSUME NEW w \in Windows, slot' = slot, window' = Finished(w)  PROVE SlotOK'
  BY <1>1, <1>6, FinishedPc, SlotMoves
<1>7. ASSUME NEW w \in Windows, ReleaseSlot(w)  PROVE SlotOK'
  <2>1. window'[w].pc = "tail" /\ \A v \in Windows \ {w} : window'[v] = window[v]
    BY <1>1, <1>7 DEF ReleaseSlot, BatchTypes, NoWindowTask
  <2>2. slot = w
    BY <1>7 DEF ReleaseSlot, At, SlotOK
  <2> QED
    BY <2>1, <2>2 DEF SlotOK
<1>8. ASSUME NEW w \in Windows, RearmAfterBatch(w)  PROVE SlotOK'
  <2>1. ArmWatchedBatch(Finished(w)) \/ (slot' = slot /\ window' = Finished(w))
    BY <1>8 DEF RearmAfterBatch
  <2> QED
    BY <1>1, <1>6, <2>1, FinishedTypes, FinishedPc, ArmSlot
<1>9. ASSUME NEW w \in Windows, RetryBatch(w)  PROVE SlotOK'
  <2>1. Spawn(Finished(w), TRUE) \/ (slot' = slot /\ window' = Finished(w))
    BY <1>9 DEF RetryBatch
  <2>2. slot = w
    BY <1>9 DEF RetryBatch, At, SlotOK
  <2>3. \A v \in Windows : Finished(w)[v].pc \in {"tail", "over"}
    BY <1>1, <2>2, FinishedPc DEF SlotOK
  <2> QED
    BY <1>1, <1>6, <2>1, <2>3, FinishedTypes, SpawnSlot
<1>10. ASSUME NEW s \in Scanners, PanicScan(s)  PROVE SlotOK'
  BY <1>1, <1>10 DEF PanicScan, At, SlotOK, BatchTypes
<1>11. UNCHANGED batchVars => SlotOK'
  BY DEF batchVars, SlotOK
<1>12. Environment => UNCHANGED batchVars
  BY DEF Environment, Write, Remove, DidOpen, DidChange, Save, DidClose
<1>13. DidChangeWatchedFiles \/ CloseRead \/ CloseRestore \/ (\E f \in Files : ValidateOpen(f))
         => UNCHANGED batchVars
  BY DEF DidChangeWatchedFiles, CloseRead, CloseRestore, ValidateOpen
<1>14. ASSUME NEW w \in Windows, EndEmpty(w)  PROVE SlotOK'
  BY <1>6, <1>14 DEF EndEmpty
<1>15. ASSUME NEW s \in Scanners, StartScan(s) \/ OpenBar(s) \/ EndScanRefresh(s)
                  \/ CancelScan(s) \/ SkipScan(s) \/ Discover(s)
                  \/ ParseFile(s) \/ EndParse(s) \/ MergeFile(s) \/ PruneRemoved(s)
                  \/ RecordFingerprint(s) \/ FinishScan(s) \/ CloseDropped(s)
                  \/ DropScan(s) \/ DropFinishing(s)
       PROVE UNCHANGED batchVars
  BY <1>15 DEF SkipScan, Discover, ParseFile, EndParse, MergeFile, PruneRemoved,
    RecordFingerprint, FinishScan, CloseDropped, StartScan, OpenBar, EndScanRefresh,
    CancelScan, DropScan, DropFinishing
<1>16. UNCHANGED vars => UNCHANGED batchVars
  BY DEF vars
<1> QED
  BY <1>2, <1>3, <1>4, <1>5, <1>7, <1>8, <1>9, <1>10, <1>11, <1>12, <1>13, <1>14, <1>15, <1>16
  DEF Next, HandlerStep, WindowStep, ScanStep, Answer, Fault

LEMMA SlotInvariant == Spec => [](TypeOK /\ SlotOK)
<1>1. Init => SlotOK
  BY DEF Init, SlotOK, NoWindowTask
<1>2. TypeOK /\ SlotOK /\ [Next]_vars => SlotOK'
  BY SlotStep
<1> QED
  BY <1>1, <1>2, TypesInvariant, PTL DEF Spec

\* However windows are armed, retried and left behind, one batch works at a time.
THEOREM OneBatchCorrect == Spec => []OneBatchAtATime
<1>1. SlotOK => OneBatchAtATime
  BY DEF SlotOK, OneBatchAtATime, BatchStates
<1> QED
  BY <1>1, SlotInvariant, PTL

-----------------------------------------------------------------------------
(* No event is stranded *)

\* Only a panic or a dropped request leads to these states.
FaultsOK ==
    /\ \A w \in Windows : window[w].pc = "panicked" => faults > 0
    /\ \A s \in Scanners : scan[s].pc \in {"closing", "lost"} => faults > 0

LEMMA SpawnedPc ==
    ASSUME NEW tasks \in [Windows -> WindowTasks], NEW retried \in BOOLEAN,
           Spawn(tasks, retried)
    PROVE  \E w \in Windows : /\ window'[w].pc = "sleep"
                              /\ \A v \in Windows \ {w} : window'[v] = tasks[v]
<1>1. PICK w \in Windows :
        window' = [tasks EXCEPT ![w] = [NoWindowTask EXCEPT !.pc = "sleep", !.retried = retried]]
  BY DEF Spawn
<1>2. window'[w].pc = "sleep" /\ \A v \in Windows \ {w} : window'[v] = tasks[v]
  BY <1>1 DEF NoWindowTask
<1> QED
  BY <1>2

\* What a step without a fault does to the windows and the scans.
LEMMA NoNewPanic ==
    ASSUME TypeOK, [Next]_vars, ~Fault
    PROVE  \A v \in Windows : window'[v].pc = "panicked" => window[v].pc = "panicked"
<1>1. BatchTypes
  BY TypeParts
<1> DEFINE Goal == \A v \in Windows : window'[v].pc = "panicked" => window[v].pc = "panicked"
<1>2. ASSUME NEW tasks \in [Windows -> WindowTasks],
             \A v \in Windows : tasks[v].pc = "panicked" => window[v].pc = "panicked",
             ArmWatchedBatch(tasks) \/ Spawn(tasks, TRUE)
      PROVE Goal
  BY <1>2, SpawnedPc DEF ArmWatchedBatch
<1>3. ASSUME NEW w \in Windows
      PROVE  \A v \in Windows : Finished(w)[v].pc = "panicked" => window[v].pc = "panicked"
  BY <1>1, FinishedPc
<1>4. CASE ArmForEvents
  BY <1>1, <1>2, <1>4 DEF ArmForEvents, BatchTypes
<1>5. ASSUME NEW s \in Scanners, RearmAfterScan(s)  PROVE Goal
  BY <1>1, <1>2, <1>5 DEF RearmAfterScan, batchVars, BatchTypes
<1>6. ASSUME NEW w \in Windows, NEW t, t.pc # "panicked", window' = [window EXCEPT ![w] = t]
      PROVE Goal
  BY <1>1, <1>6 DEF BatchTypes
<1>7. ASSUME NEW w \in Windows, DrainPending(w) \/ DrainDeleted(w) \/ BatchScan(w)
                  \/ BatchLosesScan(w) \/ BatchDeletes(w)  PROVE Goal
  <2>1. window[w] \in WindowTasks
    BY <1>1 DEF BatchTypes
  <2>2. CASE DrainPending(w)
    BY <1>6, <2>1, <2>2 DEF DrainPending, WindowTasks
  <2>3. CASE DrainDeleted(w)
    BY <1>6, <2>1, <2>3 DEF DrainDeleted, WindowTasks
  <2>4. CASE BatchScan(w)
    BY <1>1, <2>4 DEF BatchScan, BatchTypes, WindowTasks
  <2>5. CASE BatchLosesScan(w) \/ BatchDeletes(w)
    BY <1>6, <2>1, <2>5 DEF BatchLosesScan, BatchDeletes, WindowTasks
  <2> QED
    BY <1>7, <2>2, <2>3, <2>4, <2>5
<1>8. ASSUME NEW w \in Windows, BatchSkips(w) \/ BatchStats(w) \/ BatchReads(w)
                \/ BatchIndexes(w) \/ EndFiles(w) \/ EndBatch(w) \/ EndBatchRefresh(w)
      PROVE Goal
  <2>1. window[w] \in WindowTasks
    BY <1>1 DEF BatchTypes
  <2>2. CASE BatchSkips(w)
    BY <1>1, <2>2 DEF BatchSkips, BatchTypes, WindowTasks
  <2>3. CASE BatchStats(w)
    BY <1>6, <2>1, <2>3 DEF BatchStats, WindowTasks
  <2>6. CASE BatchReads(w)
    BY <1>6, <2>1, <2>6 DEF BatchReads, WindowTasks
  <2>4. CASE BatchIndexes(w)
    BY <1>6, <2>1, <2>4 DEF BatchIndexes, WindowTasks
  <2>5. CASE EndFiles(w) \/ EndBatch(w) \/ EndBatchRefresh(w)
    BY <1>1, <2>5 DEF EndFiles, EndBatch, EndBatchRefresh, BatchTypes, WindowTasks
  <2> QED
    BY <1>8, <2>2, <2>3, <2>4, <2>5, <2>6
<1>9. ASSUME NEW w \in Windows, EndEmpty(w)  PROVE Goal
  BY <1>3, <1>9 DEF EndEmpty
<1>10. ASSUME NEW w \in Windows, ReleaseSlot(w)  PROVE Goal
  BY <1>1, <1>10 DEF ReleaseSlot, BatchTypes, NoWindowTask
<1>11. ASSUME NEW w \in Windows, RearmAfterBatch(w) \/ RetryBatch(w)  PROVE Goal
  <2>1. \/ ArmWatchedBatch(Finished(w)) \/ Spawn(Finished(w), TRUE)
        \/ window' = Finished(w)
    BY <1>11 DEF RearmAfterBatch, RetryBatch
  <2> QED
    BY <1>1, <1>2, <1>3, <2>1, FinishedTypes
<1>12. UNCHANGED batchVars => Goal
  BY DEF batchVars
<1>13. Environment => UNCHANGED batchVars
  BY DEF Environment, Write, Remove, DidOpen, DidChange, Save, DidClose
<1>14. DidChangeWatchedFiles \/ CloseRead \/ CloseRestore \/ (\E f \in Files : ValidateOpen(f))
         => UNCHANGED batchVars
  BY DEF DidChangeWatchedFiles, CloseRead, CloseRestore, ValidateOpen
<1>15. ASSUME NEW s \in Scanners, StartScan(s) \/ OpenBar(s) \/ EndScanRefresh(s)
                  \/ CancelScan(s) \/ SkipScan(s) \/ Discover(s)
                  \/ ParseFile(s) \/ EndParse(s) \/ MergeFile(s) \/ PruneRemoved(s)
                  \/ RecordFingerprint(s) \/ FinishScan(s) \/ CloseDropped(s)
       PROVE UNCHANGED batchVars
  BY <1>15 DEF SkipScan, Discover, ParseFile, EndParse, MergeFile, PruneRemoved,
    RecordFingerprint, FinishScan, CloseDropped, StartScan, OpenBar, EndScanRefresh, CancelScan
<1>16. UNCHANGED vars => UNCHANGED batchVars
  BY DEF vars
<1> QED
  BY <1>4, <1>5, <1>6, <1>7, <1>8, <1>9, <1>10, <1>11, <1>12, <1>13, <1>14, <1>15, <1>16
  DEF Next, HandlerStep, WindowStep, ScanStep, Answer

LEMMA NoNewDrop ==
    ASSUME TypeOK, [Next]_vars, ~Fault
    PROVE  \A t \in Scanners :
             scan'[t].pc \in {"closing", "lost"} => scan[t].pc \in {"closing", "lost"}
<1>1. ScanTypes /\ faults \in Nat
  BY TypeParts
<1> DEFINE Goal ==
      \A t \in Scanners : scan'[t].pc \in {"closing", "lost"} => scan[t].pc \in {"closing", "lost"}
<1>2. ASSUME NEW w \in Windows, BatchScan(w)  PROVE Goal
  <2>1. "batch" \in Scanners /\ Goto("batch", "discover")
    BY <1>2 DEF BatchScan, Goto, Scanners, Quiet
  <2> QED
    BY <1>1, <2>1, GotoUpdate DEF ScanTypes
<1>3. ASSUME NEW s \in Scanners, StartScan(s) \/ OpenBar(s) \/ EndScanRefresh(s)
                  \/ SkipScan(s) \/ PruneRemoved(s) \/ FinishScan(s)
                  \/ RearmAfterScan(s) \/ CloseDropped(s)
      PROVE Goal
  <2>1. \E state \in {"opening", "discover", "finishing", "record", "tail", "idle"} : Goto(s, state)
    BY <1>3 DEF StartScan, FirstPhase, OpenBar, EndScanRefresh, SkipScan, PruneRemoved,
      FinishScan, RearmAfterScan, CloseDropped
  <2> QED
    BY <1>1, <2>1, GotoUpdate DEF ScanTypes
<1>4. ASSUME NEW s \in Scanners, Discover(s) \/ RecordFingerprint(s) \/ CancelScan(s)  PROVE Goal
  <2>1. /\ scan'[s].pc \in {"parse", "refreshing", "finishing"}
        /\ \A t \in Scanners \ {s} : scan'[t] = scan[t]
    BY <1>1, <1>4, FreshPhases, NoFault DEF ScanTypes
  <2> QED
    BY <2>1
<1>5. ASSUME NEW s \in Scanners, ParseFile(s) \/ EndParse(s) \/ MergeFile(s)  PROVE Goal
  <2>1. /\ scan'[s].pc = "merge" \/ scan'[s].pc = scan[s].pc
        /\ \A t \in Scanners \ {s} : scan'[t] = scan[t]
    BY <1>1, <1>5, ParsingPhases DEF ScanTypes
  <2> QED
    BY <2>1
<1>6. UNCHANGED scanVars => Goal
  BY DEF scanVars
<1>7. Environment => UNCHANGED scanVars
  BY DEF Environment, Write, Remove, DidOpen, DidChange, Save, DidClose
<1>8. HandlerStep \/ (\E f \in Files : ValidateOpen(f)) => UNCHANGED scanVars
  BY DEF HandlerStep, DidChangeWatchedFiles, ArmForEvents, CloseRead, CloseRestore, ValidateOpen
<1>9. ASSUME NEW w \in Windows, WindowStep(w) \/ EndBatchRefresh(w), ~BatchScan(w)
      PROVE UNCHANGED scanVars
  BY <1>9 DEF WindowStep, DrainPending, DrainDeleted, EndEmpty, BatchLosesScan, BatchDeletes,
    BatchSkips, BatchStats, BatchReads, BatchIndexes, EndFiles, EndBatch, EndBatchRefresh,
    ReleaseSlot, RearmAfterBatch, RetryBatch
<1>10. UNCHANGED vars => UNCHANGED scanVars
  BY DEF vars
<1> QED
  BY <1>2, <1>3, <1>4, <1>5, <1>6, <1>7, <1>8, <1>9, <1>10 DEF Next, ScanStep, Answer

LEMMA FaultHappened ==
    ASSUME TypeOK, Fault
    PROVE  faults' > 0
BY DEF TypeOK, Fault, PanicBatch, DropScan, DropFinishing, PanicScan

LEMMA FaultsOKStep ==
    ASSUME TypeOK, FaultsOK, [Next]_vars
    PROVE  FaultsOK'
<1>1. CASE Fault
  BY <1>1, FaultHappened DEF FaultsOK
<1>2. CASE ~Fault
  <2>1. faults \in Nat /\ faults' \in Nat /\ faults <= faults'
    BY FaultsStep DEF TypeOK
  <2> QED
    BY <1>2, <2>1, NoNewPanic, NoNewDrop DEF FaultsOK
<1> QED
  BY <1>1, <1>2

KeptInv ==
    /\ TypeOK
    /\ SlotOK
    /\ FaultsOK
    /\ OneScanAtATime
    /\ NoEventStranded

\* Whoever arms leaves somebody to look at the queues, or a handle in the slot.
LEMMA ArmKeeps ==
    ASSUME BatchTypes, NEW tasks \in [Windows -> WindowTasks], NEW retried \in BOOLEAN,
           ArmWatchedBatch(tasks) \/ Spawn(tasks, retried)
    PROVE  Responsible' \/ slot' # NoWindow
<1>1. CASE slot' = slot /\ SlotLive
  BY <1>1 DEF SlotLive
<1>2. CASE \E r \in BOOLEAN : Spawn(tasks, r)
  BY <1>2, SpawnedPc DEF Responsible
<1> QED
  BY <1>1, <1>2 DEF ArmWatchedBatch

LEMMA KeptStep ==
    ASSUME KeptInv, [Next]_vars
    PROVE  NoEventStranded'
<1>1. BatchTypes /\ ScanTypes /\ TypeOK
  BY TypeParts DEF KeptInv
<1> DEFINE Kept == Responsible \/ slot # NoWindow
<1> SUFFICES ASSUME Queued', faults' = 0  PROVE Kept'
  BY DEF NoEventStranded
<1>2. faults = 0 /\ ~Fault
  BY <1>1, FaultsStep, FaultHappened DEF TypeOK
<1>3. Queued => Kept
  BY <1>2 DEF KeptInv, NoEventStranded
<1>4. UNCHANGED queueVars => Kept
  BY <1>3 DEF queueVars, Queued
<1>5. \A w \in Windows : window[w].pc \notin {"tail", "over"} => slot = w /\ slot # NoWindow
  BY DEF KeptInv, SlotOK, NoWindow
<1>6. ASSUME NEW w \in Windows, window'[w].pc \notin {"empty", "over"}  PROVE Kept'
  BY <1>6 DEF Responsible
<1>7. ASSUME NEW w \in Windows, NEW t, t.pc \notin {"empty", "over"},
             window' = [window EXCEPT ![w] = t]
      PROVE  Kept'
  BY <1>1, <1>6, <1>7 DEF BatchTypes
\* The disk and the documents.
<1>8. CASE Environment \/ (\E f \in Files : ValidateOpen(f)) \/ UNCHANGED vars
  <2>1. UNCHANGED <<queueVars, batchVars, scanVars>>
    BY <1>8 DEF Environment, Write, Remove, DidOpen, DidChange, Save, DidClose, ValidateOpen, vars
  <2>2. handler.pc = "arming" => UNCHANGED handler
    BY <1>8 DEF Environment, Write, Remove, DidOpen, DidChange, Save, DidClose, ValidateOpen, vars
  <2> QED
    BY <1>4, <2>1, <2>2 DEF Responsible, batchVars, scanVars
\* The handler.
<1>9. CASE HandlerStep
  <2>1. CASE DidChangeWatchedFiles
    BY <2>1 DEF DidChangeWatchedFiles, Responsible
  <2>2. CASE ArmForEvents
    BY <1>1, <2>2, ArmKeeps DEF ArmForEvents, BatchTypes
  <2>3. CASE CloseRead \/ CloseRestore
    BY <1>4, <2>3 DEF CloseRead, CloseRestore, Responsible, batchVars, scanVars
  <2> QED
    BY <1>9, <2>1, <2>2, <2>3 DEF HandlerStep
\* The windows: one that works holds the slot.
<1>10. ASSUME NEW w \in Windows, window[w].pc \notin {"tail", "over"}, slot' = slot  PROVE Kept'
  BY <1>5, <1>10
<1>11. ASSUME NEW w \in Windows, DrainPending(w) \/ DrainDeleted(w) \/ EndEmpty(w) \/ BatchScan(w)
                  \/ BatchLosesScan(w) \/ BatchDeletes(w) \/ BatchSkips(w)
                  \/ BatchStats(w) \/ BatchReads(w)
                  \/ BatchIndexes(w) \/ EndFiles(w) \/ EndBatch(w) \/ EndBatchRefresh(w)
       PROVE Kept'
  BY <1>10, <1>11 DEF DrainPending, DrainDeleted, EndEmpty, BatchScan, BatchLosesScan,
    BatchDeletes, BatchSkips, BatchStats, BatchReads, BatchIndexes, EndFiles, EndBatch,
    EndBatchRefresh, At
<1>12. ASSUME NEW w \in Windows, ReleaseSlot(w)  PROVE Kept'
  BY <1>7, <1>12 DEF ReleaseSlot, NoWindowTask
<1>13. ASSUME NEW w \in Windows, RearmAfterBatch(w)  PROVE Kept'
  <2>1. Queued
    BY <1>13 DEF RearmAfterBatch, Queued, queueVars
  <2>2. CASE window[w].lost /\ scanning
    <3>1. PICK s \in Scanners : scan[s].pc \in OwnerStates \cup {"lost"}
      BY <2>2 DEF KeptInv, OneScanAtATime, Owners, Lost, Phase
    <3>2. scan[s].pc \notin {"idle", "closing", "lost"}
      BY <1>2, <3>1 DEF KeptInv, FaultsOK, OwnerStates
    <3> QED
      BY <1>13, <3>2 DEF RearmAfterBatch, Responsible, scanVars
  <2>3. CASE ~(window[w].lost /\ scanning)
    <3>1. ArmWatchedBatch(Finished(w))
      BY <1>13, <2>1, <2>3 DEF RearmAfterBatch
    <3> QED
      BY <1>1, <3>1, ArmKeeps, FinishedTypes
  <2> QED
    BY <2>2, <2>3
<1>14. ASSUME NEW w \in Windows  PROVE ~RetryBatch(w)
  <2>1. window[w].pc # "panicked"
    BY <1>2 DEF KeptInv, FaultsOK
  <2> QED
    BY <2>1 DEF RetryBatch, At
\* The scans.
<1>15. ASSUME NEW s \in Scanners, NEW t \in Scanners, UNCHANGED <<queueVars, handler, batchVars>>,
              scan'[t].pc \notin {"idle", "closing", "lost"}
       PROVE Kept'
  BY <1>15 DEF Responsible
<1>16. ASSUME NEW s \in Scanners, StartScan(s) \/ OpenBar(s) \/ EndScanRefresh(s)
                \/ SkipScan(s) \/ PruneRemoved(s) \/ FinishScan(s)
       PROVE Kept'
  <2>1. scan'[s].pc \in {"opening", "discover", "finishing", "record", "tail"}
        /\ UNCHANGED <<queueVars, handler, batchVars>>
    <3>1. /\ \E state \in {"opening", "discover", "finishing", "record", "tail"} : Goto(s, state)
          /\ UNCHANGED <<queueVars, handler, batchVars>>
      BY <1>16 DEF StartScan, FirstPhase, OpenBar, EndScanRefresh, SkipScan, PruneRemoved,
        FinishScan
    <3> QED
      BY <1>1, <3>1, GotoUpdate DEF ScanTypes
  <2> QED
    BY <1>15, <2>1
<1>17. ASSUME NEW s \in Scanners, Discover(s) \/ RecordFingerprint(s) \/ CancelScan(s)  PROVE Kept'
  <2>1. scan'[s].pc \in {"parse", "refreshing", "finishing"}
        /\ UNCHANGED <<queueVars, handler, batchVars>>
    <3>1. UNCHANGED <<queueVars, handler, batchVars>>
      BY <1>17 DEF Discover, RecordFingerprint, CancelScan
    <3> QED
      BY <1>1, <1>2, <1>17, <3>1, FreshPhases, NoFault DEF ScanTypes
  <2> QED
    BY <1>15, <2>1
<1>18. ASSUME NEW s \in Scanners, ParseFile(s) \/ EndParse(s) \/ MergeFile(s)  PROVE Kept'
  <2>1. scan'[s].pc \in {"parse", "merge"} /\ UNCHANGED <<queueVars, handler, batchVars>>
    <3>1. UNCHANGED <<queueVars, handler, batchVars>>
      BY <1>18 DEF ParseFile, EndParse, MergeFile
    <3> QED
      BY <1>1, <1>18, <3>1, ParsingPhases DEF ScanTypes
  <2> QED
    BY <1>15, <2>1
<1>19. ASSUME NEW s \in Scanners, RearmAfterScan(s)  PROVE Kept'
  <2>1. Queued
    BY <1>19 DEF RearmAfterScan, Queued, queueVars
  <2> QED
    BY <1>1, <1>19, <2>1, ArmKeeps DEF RearmAfterScan, BatchTypes
<1>20. ASSUME NEW s \in Scanners  PROVE ~CloseDropped(s)
  BY <1>2 DEF CloseDropped, Phase, KeptInv, FaultsOK
<1> QED
  BY <1>2, <1>8, <1>9, <1>11, <1>12, <1>13, <1>14, <1>16, <1>17, <1>18, <1>19, <1>20
  DEF Next, WindowStep, ScanStep, Answer

\* While nothing panics and no request is dropped, queued events are looked at
\* again, except behind the handle of a window that found nothing.
THEOREM EventsKept == Spec => []NoEventStranded
<1>1. Init => KeptInv
  <2>1. Init => SlotOK /\ OneScanAtATime
    BY DEF Init, SlotOK, OneScanAtATime, Owners, Lost, Phase, OwnerStates, NoWindowTask, NoScan
  <2>2. Init => FaultsOK /\ NoEventStranded
    BY DEF Init, FaultsOK, NoEventStranded, Queued, NoWindowTask, NoScan
  <2> QED
    BY <2>1, <2>2, InitTypes DEF KeptInv
<1>2. TypeOK /\ TypeOK' /\ KeptInv /\ [Next]_vars => KeptInv'
  BY SlotStep, FaultsOKStep, OneScanStep, KeptStep DEF KeptInv
<1>3. KeptInv => NoEventStranded
  BY DEF KeptInv
<1> QED
  BY <1>1, <1>2, <1>3, TypesInvariant, PTL DEF Spec
=============================================================================
