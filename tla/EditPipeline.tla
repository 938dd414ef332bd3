--------------------------- MODULE EditPipeline ---------------------------
(* From an edit to its diagnostics: the document notifications, the          *)
(* debounced validation each of them spawns, the shared index those          *)
(* validations write and read, the sweeps that revalidate the other open     *)
(* documents when exports change, and the publications to the client.        *)
(*                                                                           *)
(* Documents are game-script files of a scanned workspace, none ignored, on  *)
(* a ruleset that tracks no uses; every document mentions every exported     *)
(* name.  A document's content is what it exports, and its diagnostics are a *)
(* function of its own content and of what the index says of the others.     *)
EXTENDS Integers, Sequences, FiniteSets

CONSTANTS
    Docs,       \* the documents a client may open
    MaxContent, \* bound: contents are 0 .. MaxContent
    MaxRuns,    \* bound: validation tasks the client's notifications spawn
    Permits     \* MAX_CONCURRENT_VALIDATIONS (the code: 2)

Nobody == "nobody"      \* no document, for a sweep to spare or an actor to work on

ASSUME ConstantsAssumption ==
    /\ Nobody \notin Docs
    /\ MaxContent \in Nat
    /\ MaxRuns \in Nat
    /\ Permits \in Nat \ {0}

Contents == 0 .. MaxContent
NoFile == -1            \* nothing on disk, or nothing indexed
Runs == 1 .. MaxRuns    \* debounced_validate tasks, in the order of their ids
Handler == 0            \* the notification worker: one handler at a time
Actors == {Handler} \cup Runs
NoRun == -1

VARIABLES
    open, version, text, content, astVersion, ast, validated,
                \* DocumentStore: document -> is it open, its version, the
                \* identity of its buffer, what the buffer exports, ast_version
                \* (0: none), the content of its tree and the validated mark
    disk,       \* document -> content on disk
    index,      \* document -> what info_service has indexed from it
    generation, \* edit_generation
    exports,    \* pending_export_sweep: its revision and its pending flag
    names,      \* pending_changed_names holds a name
    handles,    \* debounce_handles: document -> its latest run, or NoRun
    spawned,    \* runs spawned so far (next_debounce_id)
    actor,      \* run or handler -> its local state
    published   \* document -> what the client was last told of it

docVars == <<open, version, text, content, astVersion, ast, validated>>
sweepVars == <<exports, names>>
vars == <<docVars, disk, index, generation, sweepVars, handles, spawned, actor, published>>

NoIndex == [d \in Docs |-> NoFile]
Cleared == [content |-> NoFile, saw |-> NoIndex]    \* an empty publication
NoSweep == [kind |-> "none", exclude |-> Nobody, revision |-> 0, stale |-> FALSE,
            todo |-> {}, results |-> <<>>, sent |-> 0]
Resting(pc) ==
    [pc |-> pc, doc |-> Nobody, version |-> 0, text |-> 0, content |-> NoFile,
     gen |-> 0, cancelled |-> FALSE, saw |-> NoIndex, covered |-> 0,
     changed |-> FALSE, awaits |-> NoRun, sweep |-> NoSweep]

\* Where a run awaits: nowhere else is it aborted, and a handler never is.
AwaitStates == {"waiting", "accepted", "sending", "clearing", "refreshing"}
SweepStates == {"published", "exports", "begin", "sweeping", "sending", "clearing"}
PermitStates == {"snapshot", "indexed", "checked", "accepted", "refreshing"} \cup SweepStates
RunStates == {"unborn", "waiting", "over", "cleaned"} \cup PermitStates
HandlerStates ==
    {"idle", "edited", "awaiting", "closed", "restored", "clear", "refreshing"} \cup SweepStates

pc(a) == actor[a].pc
Goto(a, state) == actor' = [actor EXCEPT ![a].pc = state]
\* Where an actor goes when its sweeps are done.
NeverIdle(a) == "over"  \* variant: a close ends like a run
RestState(a) == IF a = Handler THEN "idle" ELSE "over"
Finish(a) == [Resting(RestState(a)) EXCEPT !.doc = IF a = Handler THEN Nobody ELSE actor[a].doc]
\* It asks the client for its CodeLenses before that, if it changed one and the
\* client knows the request, and waits for the answer without a timeout.
Refresh(a) ==
    [Resting("refreshing") EXCEPT !.doc = actor[a].doc, !.cancelled = actor[a].cancelled]
Leave(a) == \E next \in {Refresh(a), Finish(a)} : actor' = [actor EXCEPT ![a] = next]

\* Variant: a run never gives its permit back.
PermitLeaked ==
    Cardinality({a \in Actors : pc(a) \in PermitStates \cup {"over", "cleaned"}}) < Permits
PermitFree == Cardinality({a \in Actors : pc(a) \in PermitStates}) < Permits
\* did_close holds the documents lock from the index write to the new generation.
DocumentsFree == pc(Handler) # "restored"

\* What the index says of the other documents.
Reads(d) == [index EXCEPT ![d] = NoFile]

\* A session at rest: some documents open, each validated and published.
Init ==
    /\ open \in [Docs -> BOOLEAN]
    /\ disk = [d \in Docs |-> 0]
    /\ content = [d \in Docs |-> IF open[d] THEN 0 ELSE NoFile]
    /\ version = [d \in Docs |-> IF open[d] THEN 1 ELSE 0]
    /\ text = [d \in Docs |-> 0]
    /\ astVersion = version
    /\ ast = content
    /\ validated = open
    /\ index = disk
    /\ generation = 0
    /\ exports = [revision |-> 0, pending |-> FALSE]
    /\ names = FALSE
    /\ handles = [d \in Docs |-> NoRun]
    /\ spawned = 0
    /\ actor = [a \in Actors |-> Resting(IF a = Handler THEN "idle" ELSE "unborn")]
    /\ published = [d \in Docs |->
                       IF open[d] THEN [content |-> 0, saw |-> Reads(d)] ELSE Cleared]

-----------------------------------------------------------------------------
(* The document notifications, run one at a time by the notification worker *)

\* spawn_debounced_validate: the new run takes the handle, the one before it is
\* cancelled and aborted.
Spawn(d, gen, handlerState) ==
    LET previous == handles[d] IN
    /\ spawned' = spawned + 1
    /\ handles' = [handles EXCEPT ![d] = spawned']
    /\ actor' = [a \in Actors |->
            CASE a = Handler -> Resting(handlerState)
              [] a = spawned' ->
                    [Resting("waiting") EXCEPT !.doc = d, !.version = version[d], !.gen = gen]
              [] a = previous -> [actor[a] EXCEPT !.cancelled = TRUE]
              [] OTHER -> actor[a]]

\* The buffer of d becomes one that exports c; under the publication lock.
SetBuffer(d, v, c) ==
    /\ version' = [version EXCEPT ![d] = v]
    /\ text' = [text EXCEPT ![d] = spawned + 1]
    /\ content' = [content EXCEPT ![d] = c]
    /\ validated' = [validated EXCEPT ![d] = FALSE]
    /\ actor' = [actor EXCEPT ![Handler].pc = "edited", ![Handler].doc = d]

DidOpen(d) ==
    /\ pc(Handler) = "idle"
    /\ spawned < MaxRuns
    /\ ~open[d]
    /\ open' = [open EXCEPT ![d] = TRUE]
    /\ astVersion' = [astVersion EXCEPT ![d] = 0]
    /\ ast' = [ast EXCEPT ![d] = NoFile]
    /\ \E c \in Contents : SetBuffer(d, 1, c)
    /\ UNCHANGED <<disk, index, generation, sweepVars, handles, spawned, published>>

DidChange(d) ==
    /\ pc(Handler) = "idle"
    /\ spawned < MaxRuns
    /\ open[d]
    /\ \E c \in Contents : SetBuffer(d, version[d] + 1, c)
    /\ UNCHANGED <<open, astVersion, ast, disk, index, generation, sweepVars, handles, spawned, published>>

\* The rest of did_open and did_change: a new generation and a run for it.
Schedule ==
    /\ pc(Handler) = "edited"
    /\ generation' = generation + 1
    /\ Spawn(actor[Handler].doc, generation', "idle")
    /\ UNCHANGED <<docVars, disk, index, sweepVars, published>>

\* A save of a version already validated, or about to be, starts nothing.
DidSave(d) ==
    /\ pc(Handler) = "idle"
    /\ open[d]
    /\ disk' = [disk EXCEPT ![d] = content[d]]
    /\ IF validated[d] \/ handles[d] # NoRun
       THEN disk[d] # content[d] /\ UNCHANGED <<spawned, handles, actor>>
       ELSE spawned < MaxRuns /\ Spawn(d, generation, "idle")
    /\ UNCHANGED <<docVars, index, generation, sweepVars, published>>

\* did_close removes the document, then cancels its pending run.
DidClose(d) ==
    /\ pc(Handler) = "idle"
    /\ open[d]
    /\ open' = [open EXCEPT ![d] = FALSE]
    /\ version' = [version EXCEPT ![d] = 0]
    /\ text' = [text EXCEPT ![d] = 0]
    /\ content' = [content EXCEPT ![d] = NoFile]
    /\ astVersion' = [astVersion EXCEPT ![d] = 0]
    /\ ast' = [ast EXCEPT ![d] = NoFile]
    /\ validated' = [validated EXCEPT ![d] = FALSE]
    /\ handles' = [handles EXCEPT ![d] = NoRun]
    /\ actor' = [a \in Actors |->
            CASE a = Handler -> [Resting("awaiting") EXCEPT !.doc = d, !.awaits = handles[d]]
              [] a = handles[d] -> [actor[a] EXCEPT !.cancelled = TRUE]
              [] OTHER -> actor[a]]
    /\ UNCHANGED <<disk, index, generation, sweepVars, spawned, published>>

\* The pending run's cleanup has signalled that it is finished.
CloseAwaited ==
    /\ pc(Handler) = "awaiting"
    /\ actor[Handler].awaits # NoRun => pc(actor[Handler].awaits) = "cleaned"
    /\ Goto(Handler, "closed")
    /\ UNCHANGED <<docVars, disk, index, generation, sweepVars, handles, spawned, published>>

\* The index goes back to what is on disk.  No version, so no export sweep is
\* made pending: the close sweeps by itself.
CloseRestore ==
    LET d == actor[Handler].doc IN
    /\ pc(Handler) = "closed"
    /\ index' = [index EXCEPT ![d] = disk[d]]
    /\ actor' = [actor EXCEPT ![Handler].pc = "restored",
                              ![Handler].changed = index[d] # disk[d]]
    /\ UNCHANGED <<docVars, disk, generation, sweepVars, handles, spawned, published>>

CloseGeneration ==
    /\ pc(Handler) = "restored"
    /\ generation' = generation + 1
    /\ actor' = [actor EXCEPT ![Handler].pc = "clear", ![Handler].gen = generation']
    /\ UNCHANGED <<docVars, disk, index, sweepVars, handles, spawned, published>>

\* Under a validation permit, the closed document's diagnostics are cleared.
CloseClear ==
    LET d == actor[Handler].doc IN
    /\ pc(Handler) = "clear"
    /\ PermitFree
    /\ published' = [published EXCEPT ![d] = IF open[d] THEN @ ELSE Cleared]
    /\ Goto(Handler, "published")
    /\ UNCHANGED <<docVars, disk, index, generation, sweepVars, handles, spawned>>

-----------------------------------------------------------------------------
(* A debounced validation *)

\* The buffer the run r works on is still the document's.
SameVersion(r) ==
    LET d == actor[r].doc IN open[d] /\ version[d] = actor[r].version
AnySource(r) == TRUE    \* variant: the index is written without the check
SameSource(r) == SameVersion(r) /\ content[actor[r].doc] = actor[r].content
AnyText(r) == SameVersion(r)    \* variant: versions alone identify a buffer
SameText(r) == SameVersion(r) /\ text[actor[r].doc] = actor[r].text

\* The delay is over and a permit is free: the run reads its text, or ends.
Begin(r) ==
    LET d == actor[r].doc IN
    /\ pc(r) = "waiting"
    /\ PermitFree
    /\ DocumentsFree
    /\ actor' = [actor EXCEPT ![r] =
            IF SameVersion(r)
            THEN [@ EXCEPT !.pc = "snapshot", !.text = text[d], !.content = content[d]]
            ELSE Finish(r)]
    /\ UNCHANGED <<docVars, disk, index, generation, sweepVars, handles, spawned, published>>

\* replace_indexed_file_checked: under the index and documents locks, and only
\* if the document still has the version and the hash the run parsed.
Index(r) ==
    LET d == actor[r].doc
        changed == index[d] # actor[r].content
    IN
    /\ pc(r) = "snapshot"
    /\ DocumentsFree
    /\ IF SameSource(r)
       THEN /\ index' = [index EXCEPT ![d] = actor[r].content]
            /\ exports' = IF changed THEN [revision |-> exports.revision + 1, pending |-> TRUE]
                                     ELSE exports
       ELSE UNCHANGED <<index, exports>>
    /\ Goto(r, "indexed")
    /\ UNCHANGED <<docVars, disk, generation, names, handles, spawned, published>>

\* The traversal, under the index read lock.
Validate(r) ==
    /\ pc(r) = "indexed"
    /\ actor' = [actor EXCEPT ![r].pc = "checked", ![r].saw = Reads(actor[r].doc),
                              ![r].covered = exports.revision]
    /\ UNCHANGED <<docVars, disk, index, generation, sweepVars, handles, spawned, published>>

\* A cancelled traversal gives up at the next block boundary.
CancelValidate(r) ==
    /\ pc(r) = "indexed"
    /\ actor[r].cancelled
    /\ actor' = [actor EXCEPT ![r] = Finish(r)]
    /\ UNCHANGED <<docVars, disk, index, generation, sweepVars, handles, spawned, published>>

\* mark_validated and set_ast, if the buffer is still the one the run read.
Accept(r) ==
    LET d == actor[r].doc IN
    /\ pc(r) = "checked"
    /\ DocumentsFree
    /\ IF SameText(r)
       THEN /\ validated' = [validated EXCEPT ![d] = TRUE]
            /\ astVersion' = [astVersion EXCEPT ![d] = actor[r].version]
            /\ ast' = [ast EXCEPT ![d] = actor[r].content]
            /\ Goto(r, "accepted")
       ELSE /\ UNCHANGED <<validated, astVersion, ast>>
            /\ actor' = [actor EXCEPT ![r] = Finish(r)]
    /\ UNCHANGED <<open, version, text, content, disk, index, generation, sweepVars,
                   handles, spawned, published>>

\* Variant: published whatever became of the document.
PublishAlways(d, v, c, diagnostics) ==
    published' = [published EXCEPT ![d] = diagnostics]
\* publish_filtered, under the publication lock: dropped unless the document is
\* open at this version and hash.
PublishResult(d, v, c, diagnostics) ==
    published' = IF open[d] /\ version[d] = v /\ content[d] = c
                 THEN [published EXCEPT ![d] = diagnostics]
                 ELSE published

\* Variant: a run that any later edit overtook publishes nothing.
PublishLatest(r) ==
    /\ pc(r) = "accepted"
    /\ DocumentsFree
    /\ IF generation = actor[r].gen
       THEN PublishResult(actor[r].doc, actor[r].version, actor[r].content,
                          [content |-> actor[r].content, saw |-> actor[r].saw])
       ELSE UNCHANGED published
    /\ Goto(r, "published")
    /\ UNCHANGED <<docVars, disk, index, generation, sweepVars, handles, spawned>>

Publish(r) ==
    /\ pc(r) = "accepted"
    /\ DocumentsFree
    /\ PublishResult(actor[r].doc, actor[r].version, actor[r].content,
                     [content |-> actor[r].content, saw |-> actor[r].saw])
    /\ Goto(r, "published")
    /\ UNCHANGED <<docVars, disk, index, generation, sweepVars, handles, spawned>>

\* An aborted run is dropped at an await; "sending" awaits while it has results.
Abort(r) ==
    /\ actor[r].cancelled
    /\ pc(r) \in AwaitStates
    /\ pc(r) = "sending" => actor[r].sweep.sent < Len(actor[r].sweep.results)
    /\ actor' = [actor EXCEPT ![r] = Finish(r)]
    /\ UNCHANGED <<docVars, disk, index, generation, sweepVars, handles, spawned, published>>

\* The task that joins the run forgets its handle and signals that it finished.
Cleanup(r) ==
    /\ pc(r) = "over"
    /\ handles' = [d \in Docs |-> IF handles[d] = r THEN NoRun ELSE handles[d]]
    /\ actor' = [actor EXCEPT ![r] = Resting("cleaned")]
    /\ UNCHANGED <<docVars, disk, index, generation, sweepVars, spawned, published>>

-----------------------------------------------------------------------------
(* The sweeps, by a run after its publication or by a close *)

BeginSweep(a, kind, exclude) ==
    actor' = [actor EXCEPT ![a].pc = "begin",
        ![a].sweep = [NoSweep EXCEPT !.kind = kind, !.exclude = exclude,
                                     !.revision = exports.revision]]

\* The pending names are drained; they, or exports a close changed, make a
\* sweep of their own before the export sweep.
DrainNames(a) ==
    /\ pc(a) = "published"
    /\ names' = FALSE
    /\ IF names \/ actor[a].changed
       THEN BeginSweep(a, "names", actor[a].doc)
       ELSE Goto(a, "exports")
    /\ UNCHANGED <<docVars, disk, index, generation, exports, handles, spawned, published>>

\* sweep_pending_exports_for reads what is pending.  A run's own document is
\* spared if it was validated against this revision of the exports.
ReadPending(a) ==
    LET covered == a # Handler /\ actor[a].covered = exports.revision IN
    /\ pc(a) = "exports"
    /\ IF exports.pending
       THEN BeginSweep(a, "exports", IF covered THEN actor[a].doc ELSE Nobody)
       ELSE Leave(a)
    /\ UNCHANGED <<docVars, disk, index, generation, sweepVars, handles, spawned, published>>

Others(a) == {d \in Docs : open[d] /\ d # actor[a].sweep.exclude}
Current(d) == astVersion[d] = version[d]

\* revalidate_open_dependents: a snapshot of the other documents whose syntax
\* tree is current; one that is not makes the sweep incomplete.
SnapshotDependents(a) ==
    LET dependents == {d \in Others(a) : Current(d)} IN
    /\ pc(a) = "begin"
    /\ DocumentsFree
    /\ actor' = [actor EXCEPT
            ![a].pc = IF dependents = {} THEN "sending" ELSE "sweeping",
            ![a].sweep.todo = {[doc |-> d, version |-> version[d], content |-> content[d], ast |-> ast[d]] :
                                  d \in dependents},
            ![a].sweep.stale = \E d \in Others(a) : ~Current(d)]
    /\ UNCHANGED <<docVars, disk, index, generation, sweepVars, handles, spawned, published>>

\* One dependent is validated against the index as it is now.
SweepOne(a) ==
    /\ pc(a) = "sweeping"
    /\ generation = actor[a].gen
    /\ \E snapshot \in actor[a].sweep.todo :
        LET result == [snapshot |-> snapshot, saw |-> Reads(snapshot.doc)]
            left == actor[a].sweep.todo \ {snapshot}
        IN actor' = [actor EXCEPT ![a].sweep.todo = left,
                                  ![a].sweep.results = Append(@, result),
                                  ![a].pc = IF left = {} THEN "sending" ELSE "sweeping"]
    /\ UNCHANGED <<docVars, disk, index, generation, sweepVars, handles, spawned, published>>

\* A newer edit supersedes the sweep: its names go back to the pending ones.  An
\* export sweep for a script body has none.
Superseded(a) ==
    /\ pc(a) = "sweeping"
    /\ generation # actor[a].gen
    /\ names' \in IF actor[a].sweep.kind = "exports" THEN {names, TRUE} ELSE {TRUE}
    /\ actor' = [actor EXCEPT ![a].pc = "sending", ![a].sweep.todo = {}]
    /\ UNCHANGED <<docVars, disk, index, generation, exports, handles, spawned, published>>

\* The results are published in turn, each under the publication lock.
SendOne(a) ==
    LET sweep == actor[a].sweep
        result == sweep.results[sweep.sent + 1]
        snapshot == result.snapshot
    IN
    /\ pc(a) = "sending"
    /\ sweep.sent < Len(sweep.results)
    /\ DocumentsFree
    /\ PublishResult(snapshot.doc, snapshot.version, snapshot.content,
                     [content |-> snapshot.ast, saw |-> result.saw])
    /\ actor' = [actor EXCEPT ![a].sweep.sent = @ + 1]
    /\ UNCHANGED <<docVars, disk, index, generation, sweepVars, handles, spawned>>

\* Variant: a document with an outdated syntax tree does not matter.
NotSuperseded(a) == generation = actor[a].gen
Complete(a) == ~actor[a].sweep.stale /\ generation = actor[a].gen

\* A names sweep is followed by the export sweep, whatever came of it.  An
\* incomplete export sweep leaves what is pending to somebody else.
EndSweep(a) ==
    /\ pc(a) = "sending"
    /\ actor[a].sweep.sent = Len(actor[a].sweep.results)
    /\ CASE actor[a].sweep.kind = "names" -> Goto(a, "exports")
         [] actor[a].sweep.kind = "exports" /\ Complete(a) -> Goto(a, "clearing")
         [] OTHER -> Leave(a)
    /\ UNCHANGED <<docVars, disk, index, generation, sweepVars, handles, spawned, published>>

\* The client answers the CodeLens refresh that sweep_pending_exports_for waits
\* for: pending is cleared unless it moved meanwhile.
ClearPending(a) ==
    LET unmoved == /\ exports.revision = actor[a].sweep.revision
                   /\ generation = actor[a].gen
    IN
    /\ pc(a) = "clearing"
    /\ IF unmoved
       THEN exports' = [exports EXCEPT !.pending = FALSE] /\ Leave(a)
       ELSE Goto(a, "exports") /\ UNCHANGED exports
    /\ UNCHANGED <<docVars, disk, index, generation, names, handles, spawned, published>>

\* The client answers the last CodeLens refresh of a close or of a run.
EndRefresh(a) ==
    /\ pc(a) = "refreshing"
    /\ actor' = [actor EXCEPT ![a] = Finish(a)]
    /\ UNCHANGED <<docVars, disk, index, generation, sweepVars, handles, spawned, published>>

-----------------------------------------------------------------------------
Edit == \E d \in Docs : DidOpen(d) \/ DidChange(d) \/ DidSave(d)
Close == \E d \in Docs : DidClose(d)

SweepStep(a) ==
    \/ DrainNames(a)
    \/ ReadPending(a)
    \/ SnapshotDependents(a)
    \/ SweepOne(a)
    \/ Superseded(a)
    \/ SendOne(a)
    \/ EndSweep(a)

\* The client answers the request that a waits for.
Answer(a) == ClearPending(a) \/ EndRefresh(a)

HandlerStep ==
    \/ Schedule
    \/ CloseAwaited
    \/ CloseRestore
    \/ CloseGeneration
    \/ CloseClear
    \/ SweepStep(Handler)

RunStep(r) ==
    \/ Begin(r)
    \/ Index(r)
    \/ Validate(r)
    \/ CancelValidate(r)
    \/ Accept(r)
    \/ Publish(r)
    \/ SweepStep(r)
    \/ Abort(r)
    \/ Cleanup(r)

Step ==
    \/ HandlerStep
    \/ \E r \in Runs : RunStep(r)
    \/ \E a \in Actors : Answer(a)

Next == Edit \/ Close \/ Step

\* The runtime polls its tasks and the notification worker; the client owes
\* nothing, not even an answer.
Fairness == WF_vars(HandlerStep) /\ \A r \in Runs : WF_vars(RunStep(r))

\* A client that answers the server's requests in the end: nothing in the server
\* makes it so, since detached_client_request has no timeout.
ClientAnswers == \A a \in Actors : WF_vars(Answer(a))

Spec == Init /\ [][Next]_vars
FairSpec == Spec /\ Fairness

\* The same with a client that closes no document.
EditingSpec == Init /\ [][Edit \/ Step]_vars

-----------------------------------------------------------------------------
(* Properties *)

\* Every variable keeps its type, and every actor is at one of its own steps.
TypeOK ==
    /\ open \in [Docs -> BOOLEAN]
    /\ version \in [Docs -> 0 .. MaxRuns + 1]
    /\ text \in [Docs -> 0 .. MaxRuns]
    /\ content \in [Docs -> Contents \cup {NoFile}]
    /\ astVersion \in [Docs -> 0 .. MaxRuns + 1]
    /\ ast \in [Docs -> Contents \cup {NoFile}]
    /\ validated \in [Docs -> BOOLEAN]
    /\ disk \in [Docs -> Contents \cup {NoFile}]
    /\ index \in [Docs -> Contents \cup {NoFile}]
    /\ generation \in Nat
    /\ exports \in [revision : Nat, pending : BOOLEAN]
    /\ names \in BOOLEAN
    /\ handles \in [Docs -> Runs \cup {NoRun}]
    /\ spawned \in 0 .. MaxRuns
    /\ \A a \in Actors : pc(a) \in IF a = Handler THEN HandlerStates ELSE RunStates
    /\ published \in [Docs -> [content : Contents \cup {NoFile},
                               saw : [Docs -> Contents \cup {NoFile}]]]

\* The handler works on d, in one of the given states.
Handling(d, states) == pc(Handler) \in states /\ actor[Handler].doc = d

\* What the client was last told of d is computed from the buffer and the index
\* as they are.
Fresh(d) == published[d] = [content |-> content[d], saw |-> Reads(d)]

AtRest ==
    /\ pc(Handler) = "idle"
    /\ \A r \in Runs : pc(r) \in {"unborn", "cleaned"}

\* A document marked validated, for which a save starts nothing, has had its
\* diagnostics published for this buffer, or a run that nobody cancelled, or that
\* is about to be spawned, still publishes them: no supersession, abort, close
\* or reopening falls in between
\* (did_save_impl, debounced_validate).
ValidatedIsPublished ==
    \A d \in Docs :
        open[d] /\ validated[d] =>
            \/ published[d].content = content[d]
            \/ Handling(d, {"edited"})
            \/ \E r \in Runs :
                /\ pc(r) \in {"waiting", "snapshot", "indexed", "checked", "accepted"}
                /\ actor[r].doc = d
                /\ actor[r].version = version[d]
                /\ ~actor[r].cancelled

\* A syntax tree taken for current, which sweeps and requests then read, is that
\* of the buffer, though versions repeat when a document is closed and opened
\* again (mark_validated, set_ast).
CurrentTreeIsOfBuffer ==
    \A d \in Docs : open[d] /\ Current(d) => ast[d] = content[d]

\* No run or sweep brings back the diagnostics of a document once its close has
\* cleared them (publish_filtered_with_closed_state, did_close_impl).
ClosedIsCleared ==
    \A d \in Docs :
        ~open[d] /\ ~Handling(d, {"awaiting", "closed", "restored", "clear"}) =>
            published[d] = Cleared

\* The index holds the buffer of every validated document and the file of every
\* closed one, however late superseded runs finish
\* (replace_indexed_file_checked, did_close_impl).
IndexFollowsDocuments ==
    \A d \in Docs :
        /\ open[d] /\ validated[d] => index[d] = content[d]
        /\ ~open[d] /\ ~Handling(d, {"awaiting", "closed"}) => index[d] = disk[d]

\* The results of d's validation an export sweep may count on.
SweptResults(a, d) ==
    LET sweep == actor[a].sweep IN
    {sweep.results[i].saw : i \in {j \in DOMAIN sweep.results : sweep.results[j].snapshot.doc = d}}
        \cup (IF sweep.exclude = d THEN {actor[a].saw} ELSE {})

\* A pending export change is cleared only by a sweep that has validated every
\* open document, but the one the handler has just given a new buffer, against
\* what the open documents now export (validate.rs: "Keep pending export changes
\* durable across cancellation and concurrent sweeps").
PendingClearedOnlyWhenSwept ==
    [][\A a \in Actors :
        exports.pending /\ ~exports'.pending /\ pc(a) # pc(a)' =>
            \A d \in Docs : open[d] /\ ~Handling(d, {"edited"}) =>
                \E saw \in SweptResults(a, d) :
                    \A e \in Docs \ {d} : open[e] => saw[e] = index[e]]_vars

\* Once the client sends nothing more, every open buffer is validated, though
\* its runs were superseded, cancelled and aborted (debounced_validate).  With one
\* document this takes no answer of the client: a run that waits for one, and
\* would keep its permit, is aborted by its successor.
EventuallyValidated ==
    <>[](pc(Handler) = "idle") => <>[](\A d \in Docs : open[d] => validated[d])

\* With a client that answers, the notification worker gets past every handler: a
\* close does not wait for a run that never finishes, nor for a permit nobody
\* gives back.  Without its answers a close does wait for ever (did_close_impl:
\* request_code_lens_refresh on the worker).
HandlerReturns == ClientAnswers => (pc(Handler) # "idle" ~> pc(Handler) = "idle")

\* When every run and handler is done, the diagnostics of the open documents
\* are those of their buffers and of the index (ARCHITECTURE.md: "open files
\* update on edit").
FreshAtRest == AtRest => \A d \in Docs : open[d] => Fresh(d)

\* Whoever publishes last, when no sweep is owed either the diagnostics are
\* current (CHANGELOG.md: "stale results cannot replace current diagnostics").
FreshWhenNothingOwed ==
    AtRest /\ ~exports.pending /\ ~names => \A d \in Docs : open[d] => Fresh(d)

\* When every run and handler is done, the open documents have been validated
\* against the files of the closed ones (ARCHITECTURE.md: "open callers
\* revalidate on the same pass").
ClosedFilesSeen ==
    AtRest => \A d, e \in Docs : open[d] /\ ~open[e] => published[d].saw[e] = index[e]
=============================================================================
