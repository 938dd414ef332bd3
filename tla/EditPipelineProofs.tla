------------------------ MODULE EditPipelineProofs ------------------------
(* What holds of every edit, close and sweep, for any documents, number of   *)
(* runs and number of permits: the safety properties of EditPipeline.        *)
EXTENDS EditPipeline, SequenceTheorems, TLAPS

-----------------------------------------------------------------------------
(* The inductive invariant *)

Exported == Contents \cup {NoFile}
ActorStates == HandlerStates \cup RunStates

\* A snapshot is taken of a current tree, so its tree is that of its content.
Snapshots ==
    {s \in [doc : Docs, version : Nat, content : Exported, ast : Exported] :
        s.ast = s.content}
Results == [snapshot : Snapshots, saw : [Docs -> Exported]]
Sweeps == [kind : {"none", "names", "exports"}, exclude : Docs \cup {Nobody},
           revision : Nat, stale : BOOLEAN, todo : SUBSET Snapshots,
           results : Seq(Results), sent : Nat]
ActorRecords ==
    [pc : ActorStates, doc : Docs \cup {Nobody}, version : Nat, text : Nat,
     content : Exported, gen : Nat, cancelled : BOOLEAN, saw : [Docs -> Exported],
     covered : Nat, changed : BOOLEAN, awaits : Runs \cup {NoRun}, sweep : Sweeps]

\* Beside the types of the variables, those of the actors' local states.
TypesOK ==
    /\ TypeOK
    /\ actor \in [Actors -> ActorRecords]

\* The newest buffer or run there is.
Newest == IF pc(Handler) = "edited" THEN spawned + 1 ELSE spawned

\* An actor knows no buffer, generation or revision that is still to come.
CountersOK ==
    /\ pc(Handler) = "edited" => spawned < MaxRuns
    /\ \A d \in Docs :
        /\ text[d] <= Newest
        /\ version[d] <= Newest + 1
        /\ astVersion[d] <= version[d]
    /\ \A a \in Actors :
        /\ actor[a].text <= Newest
        /\ actor[a].gen <= generation
        /\ actor[a].covered <= exports.revision
        /\ actor[a].sweep.revision <= exports.revision

\* A handle is that of a run of its document; a run at work, or a handler, has a
\* document; the one a close works on is closed.
HandlesOK ==
    /\ \A r \in Runs :
        /\ r > spawned => pc(r) = "unborn"
        /\ pc(r) \notin {"unborn", "cleaned"} => actor[r].doc \in Docs
    /\ pc(Handler) # "idle" => actor[Handler].doc \in Docs
    /\ pc(Handler) \in {"awaiting", "closed", "restored", "clear"} => ~open[actor[Handler].doc]
    /\ \A d \in Docs :
        handles[d] # NoRun => handles[d] <= spawned /\ actor[handles[d]].doc = d

\* The identity of a buffer tells its content.
TextsOK ==
    \A r \in Runs :
        pc(r) \in {"snapshot", "indexed", "checked", "accepted"} /\ SameText(r) =>
            content[actor[r].doc] = actor[r].content

\* A run that has passed the index, and whose buffer is still the document's,
\* finds the buffer indexed.
IndexedOK ==
    \A r \in Runs :
        pc(r) \in {"indexed", "checked"} /\ SameText(r) =>
            index[actor[r].doc] = content[actor[r].doc]

\* The run r still has the buffer of d to publish.
Owes(r, d) ==
    /\ actor[r].doc = d
    /\ ~actor[r].cancelled
    /\ actor[r].version = version[d]
    /\ \/ pc(r) = "waiting"
       \/ pc(r) \in {"snapshot", "indexed", "checked", "accepted"} /\ actor[r].text = text[d]

\* Every open document, validated or not, has its diagnostics or is owed them.
PublishedOrOwed ==
    \A d \in Docs :
        open[d] =>
            \/ published[d].content = content[d]
            \/ Handling(d, {"edited"})
            \/ \E r \in Runs : Owes(r, d)

DocumentsInv ==
    /\ TypesOK
    /\ CountersOK
    /\ HandlesOK
    /\ TextsOK
    /\ CurrentTreeIsOfBuffer

-----------------------------------------------------------------------------
(* The sweeps *)

\* What a validation of d saw is what the index still says of the others, but
\* for the file a close is just restoring.
Agrees(saw, d) ==
    \A e \in Docs \ {d} : saw[e] = index[e] \/ Handling(e, {"restored"})

\* No edit was scheduled and no export changed since the actor's bounds.
Unmoved(a, revision) == actor[a].gen = generation /\ revision = exports.revision

\* A run that has validated saw what is still so, unless something moved.
SawOK ==
    \A r \in Runs :
        /\ pc(r) \in {"checked", "accepted"} \cup SweepStates
        /\ Unmoved(r, actor[r].covered)
        => Agrees(actor[r].saw, actor[r].doc)

\* The documents of a sweep are all there until it is done with them, and only
\* the document of a run that has validated against these exports is spared.
SweepShapes ==
    \A a \in Actors :
        LET sweep == actor[a].sweep IN
        /\ pc(a) \in {"sending", "clearing"} => sweep.todo = {}
        /\ pc(a) = "clearing" => sweep.kind = "exports" /\ ~sweep.stale
        /\ /\ pc(a) \in {"begin", "sweeping", "sending", "clearing"}
           /\ sweep.kind = "exports"
           /\ sweep.exclude # Nobody
           => /\ a \in Runs
              /\ sweep.exclude = actor[a].doc
              /\ sweep.revision = actor[a].covered

\* An export sweep has, or will have, a result for every open document.
Covers(a, d) ==
    \/ \E snapshot \in actor[a].sweep.todo : snapshot.doc = d
    \/ \E saw \in SweptResults(a, d) : Agrees(saw, d)

SweepsCover ==
    \A a \in Actors :
        /\ pc(a) \in {"sweeping", "sending", "clearing"}
        /\ actor[a].sweep.kind = "exports"
        /\ ~actor[a].sweep.stale
        /\ Unmoved(a, actor[a].sweep.revision)
        => \A d \in Docs : open[d] /\ ~Handling(d, {"edited"}) => Covers(a, d)

SweepInv ==
    /\ DocumentsInv
    /\ SawOK
    /\ SweepShapes
    /\ SweepsCover

-----------------------------------------------------------------------------
(* What the operations do to the local states of the actors *)

\* A step of an actor, or the client's answer that it waits for.
SweepMove(a) == SweepStep(a) \/ Answer(a)
RunMove(r) == RunStep(r) \/ Answer(r)
HandlerMove == HandlerStep \/ Answer(Handler)

LEMMA NextMoves ==
    ASSUME [Next]_vars
    PROVE  UNCHANGED vars \/ Edit \/ Close \/ HandlerMove \/ \E r \in Runs : RunMove(r)
BY DEF Next, Step, HandlerMove, RunMove, Actors

Only(a) == \A b \in Actors \ {a} : actor'[b] = actor[b]
Becomes(a, x) == actor' = [actor EXCEPT ![a] = x]
MovesTo(a, state, sweep) == Becomes(a, [actor[a] EXCEPT !.pc = state, !.sweep = sweep])

\* Everything about a run but its phase and its sweep.
SameCore(y, x) ==
    /\ y.doc = x.doc
    /\ y.version = x.version
    /\ y.text = x.text
    /\ y.content = x.content
    /\ y.gen = x.gen
    /\ y.cancelled = x.cancelled
    /\ y.saw = x.saw
    /\ y.covered = x.covered
SameRun(a) == SameCore(actor'[a], actor[a])

LEMMA Constants ==
    /\ Nobody \notin Docs
    /\ NoFile \in Exported /\ Contents \subseteq Exported
    /\ Handler \in Actors /\ Runs \subseteq Actors /\ Handler \notin Runs
    /\ NoRun \notin Actors
    /\ Runs \subseteq Nat
    /\ MaxRuns \in Nat
BY ConstantsAssumption DEF ConstantsAssumption, Exported, Contents, NoFile, Handler, Actors,
   Runs, NoRun

LEMMA ActorUpdate ==
    ASSUME actor \in [Actors -> ActorRecords], NEW a \in Actors, NEW x, Becomes(a, x)
    PROVE  /\ x \in ActorRecords => actor' \in [Actors -> ActorRecords]
           /\ actor'[a] = x
           /\ Only(a)
BY DEF Becomes, Only

LEMMA NoSweepFields ==
    /\ NoSweep \in Sweeps
    /\ NoSweep.kind = "none" /\ NoSweep.exclude = Nobody /\ NoSweep.revision = 0
    /\ NoSweep.stale = FALSE /\ NoSweep.todo = {} /\ NoSweep.results = <<>> /\ NoSweep.sent = 0
<1>1. <<>> \in Seq(Results)
  BY EmptySeq
<1> QED
  BY <1>1 DEF NoSweep, Sweeps

LEMMA RestingFields ==
    ASSUME NEW state
    PROVE  /\ state \in ActorStates => Resting(state) \in ActorRecords
           /\ Resting(state).pc = state /\ Resting(state).doc = Nobody
           /\ Resting(state).version = 0 /\ Resting(state).text = 0
           /\ Resting(state).content = NoFile /\ Resting(state).gen = 0
           /\ Resting(state).cancelled = FALSE /\ Resting(state).covered = 0
           /\ Resting(state).sweep = NoSweep
<1>1. NoIndex \in [Docs -> Exported]
  BY Constants DEF NoIndex
<1>2. Resting(state).sweep = NoSweep /\ NoSweep \in Sweeps
  BY NoSweepFields DEF Resting
<1> QED
  BY <1>1, <1>2, Constants DEF Resting, ActorRecords

LEMMA FinishFields ==
    ASSUME actor \in [Actors -> ActorRecords], NEW a \in Actors
    PROVE  /\ Finish(a) \in ActorRecords
           /\ Finish(a).pc = RestState(a)
           /\ Finish(a).doc = IF a = Handler THEN Nobody ELSE actor[a].doc
           /\ Finish(a).version = 0 /\ Finish(a).text = 0
           /\ Finish(a).content = NoFile /\ Finish(a).gen = 0
           /\ Finish(a).cancelled = FALSE /\ Finish(a).covered = 0
           /\ Finish(a).sweep = NoSweep
<1> DEFINE rest == Resting(RestState(a))
           doc == IF a = Handler THEN Nobody ELSE actor[a].doc
<1>1. RestState(a) \in ActorStates
  BY DEF RestState, ActorStates, HandlerStates, RunStates
<1>2. doc \in Docs \cup {Nobody}
  BY DEF ActorRecords
<1>3. /\ rest \in ActorRecords
      /\ rest.pc = RestState(a) /\ rest.version = 0 /\ rest.text = 0
      /\ rest.content = NoFile /\ rest.gen = 0
      /\ rest.cancelled = FALSE /\ rest.covered = 0
      /\ rest.sweep = NoSweep
  BY <1>1, RestingFields
<1>4. Finish(a) = [rest EXCEPT !.doc = doc]
  BY DEF Finish
<1> HIDE DEF rest, doc
<1>5. [rest EXCEPT !.doc = doc] \in ActorRecords
  BY <1>2, <1>3 DEF ActorRecords
<1>6. /\ [rest EXCEPT !.doc = doc].doc = doc
      /\ [rest EXCEPT !.doc = doc].pc = rest.pc
      /\ [rest EXCEPT !.doc = doc].version = rest.version
      /\ [rest EXCEPT !.doc = doc].text = rest.text
      /\ [rest EXCEPT !.doc = doc].content = rest.content
      /\ [rest EXCEPT !.doc = doc].gen = rest.gen
      /\ [rest EXCEPT !.doc = doc].cancelled = rest.cancelled
      /\ [rest EXCEPT !.doc = doc].covered = rest.covered
      /\ [rest EXCEPT !.doc = doc].sweep = rest.sweep
  BY <1>3 DEF ActorRecords
<1> QED
  BY <1>3, <1>4, <1>5, <1>6 DEF doc

LEMMA RefreshFields ==
    ASSUME actor \in [Actors -> ActorRecords], NEW a \in Actors
    PROVE  /\ Refresh(a) \in ActorRecords
           /\ Refresh(a).pc = "refreshing"
           /\ Refresh(a).doc = actor[a].doc
           /\ Refresh(a).version = 0 /\ Refresh(a).text = 0
           /\ Refresh(a).content = NoFile /\ Refresh(a).gen = 0
           /\ Refresh(a).cancelled = actor[a].cancelled /\ Refresh(a).covered = 0
           /\ Refresh(a).sweep = NoSweep
<1> DEFINE rest == Resting("refreshing")
<1>1. PICK old \in ActorRecords : old = actor[a]
  OBVIOUS
<1>2. "refreshing" \in ActorStates
  BY DEF ActorStates, HandlerStates
<1>3. /\ rest \in ActorRecords
      /\ rest.pc = "refreshing" /\ rest.version = 0 /\ rest.text = 0
      /\ rest.content = NoFile /\ rest.gen = 0 /\ rest.covered = 0
      /\ rest.sweep = NoSweep
  BY <1>2, RestingFields
<1>4. Refresh(a) = [rest EXCEPT !.doc = old.doc, !.cancelled = old.cancelled]
  BY <1>1 DEF Refresh
<1> HIDE DEF rest
<1> DEFINE new == [rest EXCEPT !.doc = old.doc, !.cancelled = old.cancelled]
<1>5. /\ new \in ActorRecords
      /\ new.pc = rest.pc /\ new.doc = old.doc /\ new.cancelled = old.cancelled
      /\ new.version = rest.version /\ new.text = rest.text /\ new.content = rest.content
      /\ new.gen = rest.gen /\ new.covered = rest.covered /\ new.sweep = rest.sweep
  BY <1>3 DEF ActorRecords
<1> HIDE DEF new
<1> QED
  BY <1>1, <1>3, <1>4, <1>5 DEF new

\* What is left of an actor whose sweeps are done.
Gone(a) == {Refresh(a), Finish(a)}

LEMMA GoneFields ==
    ASSUME actor \in [Actors -> ActorRecords], NEW a \in Actors, NEW x \in Gone(a)
    PROVE  /\ x \in ActorRecords
           /\ x.pc \in {"refreshing", RestState(a)}
           /\ x.pc = "refreshing" \/ a # Handler => x.doc = actor[a].doc
           /\ x.version = 0 /\ x.text = 0 /\ x.gen = 0 /\ x.covered = 0
           /\ x.cancelled \in {FALSE, actor[a].cancelled}
           /\ x.sweep = NoSweep
<1>1. "refreshing" # RestState(a)
  BY DEF RestState
<1> QED
  BY <1>1, FinishFields, RefreshFields DEF Gone

LEMMA LeaveEffect ==
    ASSUME actor \in [Actors -> ActorRecords], NEW a \in Actors, Leave(a)
    PROVE  actor' \in [Actors -> ActorRecords] /\ actor'[a] \in Gone(a) /\ Only(a)
<1>1. PICK x \in Gone(a) : Becomes(a, x)
  BY DEF Leave, Gone, Becomes
<1> QED
  BY <1>1, GoneFields, ActorUpdate

LEMMA FinishEffect ==
    ASSUME actor \in [Actors -> ActorRecords], NEW a \in Actors, Becomes(a, Finish(a))
    PROVE  actor' \in [Actors -> ActorRecords] /\ actor'[a] = Finish(a) /\ Only(a)
BY FinishFields, ActorUpdate

\* A record of an actor with another phase.
LEMMA PhaseFields ==
    ASSUME NEW x \in ActorRecords, NEW state \in ActorStates
    PROVE  LET y == [x EXCEPT !.pc = state] IN
           y \in ActorRecords /\ y.pc = state /\ SameCore(y, x) /\ y.sweep = x.sweep
BY DEF ActorRecords, SameCore

LEMMA GotoEffect ==
    ASSUME actor \in [Actors -> ActorRecords], NEW a \in Actors,
           NEW state \in ActorStates, Goto(a, state)
    PROVE  /\ actor' \in [Actors -> ActorRecords]
           /\ Only(a) /\ SameRun(a)
           /\ actor'[a].pc = state
           /\ actor'[a].sweep = actor[a].sweep
<1> DEFINE x == [actor[a] EXCEPT !.pc = state]
<1>1. Becomes(a, x)
  BY DEF Goto, Becomes
<1>2. x \in ActorRecords /\ x.pc = state /\ SameCore(x, actor[a]) /\ x.sweep = actor[a].sweep
  BY PhaseFields
<1> HIDE DEF x
<1> QED
  BY <1>1, <1>2, ActorUpdate DEF SameRun

LEMMA SweepUpdate ==
    ASSUME actor \in [Actors -> ActorRecords], NEW a \in Actors,
           NEW state \in ActorStates, NEW sweep \in Sweeps,
           MovesTo(a, state, sweep)
    PROVE  /\ actor' \in [Actors -> ActorRecords]
           /\ Only(a) /\ SameRun(a)
           /\ actor'[a].pc = state
           /\ actor'[a].sweep = sweep
<1> DEFINE x == [actor[a] EXCEPT !.pc = state, !.sweep = sweep]
<1>1. Becomes(a, x)
  BY DEF MovesTo
<1>2. x \in ActorRecords /\ x.pc = state /\ SameCore(x, actor[a]) /\ x.sweep = sweep
  <2>1. PICK old \in ActorRecords : old = actor[a]
    OBVIOUS
  <2>2. x = [old EXCEPT !.pc = state, !.sweep = sweep]
    BY <2>1
  <2> HIDE DEF x
  <2> QED
    BY <2>1, <2>2 DEF ActorRecords, SameCore
<1> HIDE DEF x
<1> QED
  BY <1>1, <1>2, ActorUpdate DEF SameRun

LEMMA BeginSweepEffect ==
    ASSUME actor \in [Actors -> ActorRecords], NEW a \in Actors, exports.revision \in Nat,
           NEW kind \in {"names", "exports"}, NEW exclude \in Docs \cup {Nobody},
           BeginSweep(a, kind, exclude)
    PROVE  /\ actor' \in [Actors -> ActorRecords]
           /\ Only(a) /\ SameRun(a)
           /\ actor'[a].pc = "begin"
           /\ actor'[a].sweep \in Sweeps
           /\ actor'[a].sweep.kind = kind
           /\ actor'[a].sweep.exclude = exclude
           /\ actor'[a].sweep.revision = exports.revision
<1> DEFINE sweep == [NoSweep EXCEPT !.kind = kind, !.exclude = exclude,
                                    !.revision = exports.revision]
<1>1. /\ sweep \in Sweeps
      /\ sweep.kind = kind /\ sweep.exclude = exclude /\ sweep.revision = exports.revision
  BY NoSweepFields DEF Sweeps
<1>2. MovesTo(a, "begin", sweep)
  BY DEF BeginSweep, Becomes, MovesTo
<1>3. "begin" \in ActorStates
  BY DEF ActorStates, RunStates, PermitStates, SweepStates
<1> HIDE DEF sweep
<1> QED
  BY <1>1, <1>2, <1>3, SweepUpdate

\* The sweep of an actor after each of its steps.
Dependents(a) == {d \in Others(a) : Current(d)}
SnapshotOf(d) == [doc |-> d, version |-> version[d], content |-> content[d], ast |-> ast[d]]
Snapshot(a) ==
    [actor[a].sweep EXCEPT !.todo = {SnapshotOf(d) : d \in Dependents(a)},
                           !.stale = \E d \in Others(a) : ~Current(d)]
Swept(a, snapshot) ==
    [actor[a].sweep EXCEPT !.todo = actor[a].sweep.todo \ {snapshot},
        !.results = Append(actor[a].sweep.results,
                           [snapshot |-> snapshot, saw |-> Reads(snapshot.doc)])]

LEMMA SnapshotBecomes ==
    ASSUME actor \in [Actors -> ActorRecords], NEW a \in Actors, SnapshotDependents(a)
    PROVE  MovesTo(a, IF Dependents(a) = {} THEN "sending" ELSE "sweeping", Snapshot(a))
<1> DEFINE todo == {SnapshotOf(d) : d \in Dependents(a)}
           stale == \E d \in Others(a) : ~Current(d)
           state == IF Dependents(a) = {} THEN "sending" ELSE "sweeping"
<1>1. actor' = [actor EXCEPT ![a].pc = state, ![a].sweep.todo = todo, ![a].sweep.stale = stale]
  BY DEF SnapshotDependents, Dependents, SnapshotOf
<1>2. PICK old \in ActorRecords : old = actor[a]
  OBVIOUS
<1> HIDE DEF todo, stale, state
<1>3. PICK sweep \in Sweeps : sweep = old.sweep
  BY DEF ActorRecords
<1>4. Becomes(a, [old EXCEPT !.pc = state, !.sweep = [sweep EXCEPT !.todo = todo, !.stale = stale]])
  BY ZenonT(60), <1>1, <1>2, <1>3 DEF Becomes, ActorRecords, Sweeps
<1> QED
  BY <1>2, <1>3, <1>4 DEF MovesTo, Snapshot, todo, stale, state

LEMMA SweptBecomes ==
    ASSUME actor \in [Actors -> ActorRecords], NEW a \in Actors, SweepOne(a)
    PROVE  \E snapshot \in actor[a].sweep.todo :
              MovesTo(a, IF actor[a].sweep.todo \ {snapshot} = {} THEN "sending" ELSE "sweeping",
                      Swept(a, snapshot))
<1>1. PICK snapshot \in actor[a].sweep.todo :
        LET result == [snapshot |-> snapshot, saw |-> Reads(snapshot.doc)]
            left == actor[a].sweep.todo \ {snapshot}
        IN actor' = [actor EXCEPT ![a].sweep.todo = left,
                                  ![a].sweep.results = Append(@, result),
                                  ![a].pc = IF left = {} THEN "sending" ELSE "sweeping"]
  BY DEF SweepOne
<1> DEFINE result == [snapshot |-> snapshot, saw |-> Reads(snapshot.doc)]
           left == actor[a].sweep.todo \ {snapshot}
           state == IF left = {} THEN "sending" ELSE "sweeping"
<1>2. actor' = [actor EXCEPT ![a].sweep.todo = left,
                             ![a].sweep.results = Append(@, result), ![a].pc = state]
  BY <1>1
<1>3. PICK old \in ActorRecords : old = actor[a]
  OBVIOUS
<1> HIDE DEF result, left, state
<1>4. PICK sweep \in Sweeps : sweep = old.sweep
  BY <1>3 DEF ActorRecords
<1>5. Becomes(a, [old EXCEPT !.sweep = [sweep EXCEPT !.todo = left,
                                 !.results = Append(sweep.results, result)], !.pc = state])
  BY ZenonT(60), <1>2, <1>3, <1>4 DEF Becomes, ActorRecords, Sweeps
<1>6. Becomes(a, [old EXCEPT !.pc = state, !.sweep = [sweep EXCEPT !.todo = left,
                                 !.results = Append(sweep.results, result)]])
  BY <1>5
<1> QED
  BY <1>3, <1>4, <1>6 DEF left, state, result, Swept, MovesTo

LEMMA SupersededBecomes ==
    ASSUME actor \in [Actors -> ActorRecords], NEW a \in Actors, Superseded(a)
    PROVE  MovesTo(a, "sending", [actor[a].sweep EXCEPT !.todo = {}])
BY DEF Superseded, Becomes, MovesTo

LEMMA SentBecomes ==
    ASSUME actor \in [Actors -> ActorRecords], NEW a \in Actors, SendOne(a)
    PROVE  MovesTo(a, "sending", [actor[a].sweep EXCEPT !.sent = actor[a].sweep.sent + 1])
<1> DEFINE sweep == [actor[a].sweep EXCEPT !.sent = actor[a].sweep.sent + 1]
<1>1. actor[a].pc = "sending" /\ Becomes(a, [actor[a] EXCEPT !.sweep = sweep])
  BY DEF SendOne, Becomes, pc
<1>2. PICK old \in ActorRecords : old = actor[a]
  OBVIOUS
<1> HIDE DEF sweep
<1>3. [old EXCEPT !.pc = "sending", !.sweep = sweep] = [old EXCEPT !.sweep = sweep]
  BY <1>1, <1>2 DEF ActorRecords
<1> QED
  BY <1>1, <1>2, <1>3 DEF sweep, MovesTo

LEMMA Typing ==
    ASSUME TypesOK, NEW a \in Actors
    PROVE  /\ actor \in [Actors -> ActorRecords]
           /\ actor[a] \in ActorRecords /\ actor[a].sweep \in Sweeps
           /\ actor[a].sweep.todo \subseteq Snapshots
           /\ actor[a].sweep.results \in Seq(Results)
           /\ actor[a].saw \in [Docs -> Exported]
           /\ actor[a].content \in Exported
           /\ actor[a].doc \in Docs \cup {Nobody}
           /\ actor[a].gen \in Nat /\ actor[a].covered \in Nat /\ actor[a].text \in Nat
           /\ actor[a].version \in Nat /\ actor[a].cancelled \in BOOLEAN
           /\ actor[a].sweep.revision \in Nat /\ actor[a].sweep.sent \in Nat
           /\ actor[a].pc \in ActorStates
<1>1. actor \in [Actors -> ActorRecords] /\ actor[a] \in ActorRecords
  BY DEF TypesOK
<1>2. PICK x \in ActorRecords : x = actor[a]
  BY <1>1
<1>3. x.sweep \in Sweeps
  BY DEF ActorRecords
<1>4. PICK sweep \in Sweeps : sweep = x.sweep
  BY <1>3
<1>5. /\ sweep.todo \subseteq Snapshots /\ sweep.results \in Seq(Results)
      /\ sweep.revision \in Nat /\ sweep.sent \in Nat
  BY DEF Sweeps
<1>6. /\ x.saw \in [Docs -> Exported] /\ x.content \in Exported
      /\ x.doc \in Docs \cup {Nobody}
      /\ x.gen \in Nat /\ x.covered \in Nat /\ x.text \in Nat /\ x.version \in Nat
      /\ x.cancelled \in BOOLEAN /\ x.pc \in ActorStates
  BY DEF ActorRecords
<1> QED
  BY <1>1, <1>2, <1>3, <1>4, <1>5, <1>6

LEMMA Reading ==
    ASSUME TypesOK, NEW d
    PROVE  /\ Reads(d) \in [Docs -> Exported]
           /\ \A e \in Docs \ {d} : Reads(d)[e] = index[e]
BY Constants DEF TypesOK, TypeOK, Reads, Exported

LEMMA SnapshotEffect ==
    ASSUME TypesOK, CurrentTreeIsOfBuffer, NEW a \in Actors, SnapshotDependents(a)
    PROVE  /\ actor' \in [Actors -> ActorRecords]
           /\ Only(a) /\ SameRun(a)
           /\ actor'[a].pc = IF Dependents(a) = {} THEN "sending" ELSE "sweeping"
           /\ actor'[a].sweep.kind = actor[a].sweep.kind
           /\ actor'[a].sweep.exclude = actor[a].sweep.exclude
           /\ actor'[a].sweep.revision = actor[a].sweep.revision
           /\ actor'[a].sweep.todo = {SnapshotOf(d) : d \in Dependents(a)}
           /\ actor'[a].sweep.stale = (\E d \in Others(a) : ~Current(d))
<1> DEFINE todo == {SnapshotOf(d) : d \in Dependents(a)}
           stale == \E d \in Others(a) : ~Current(d)
           state == IF Dependents(a) = {} THEN "sending" ELSE "sweeping"
<1>1. ASSUME NEW d \in Dependents(a)  PROVE SnapshotOf(d) \in Snapshots
  <2>1. d \in Docs /\ ast[d] = content[d]
    BY <1>1 DEF Dependents, Others, CurrentTreeIsOfBuffer
  <2>2. version[d] \in Nat /\ content[d] \in Exported /\ ast[d] \in Exported
    BY <2>1, Constants DEF TypesOK, TypeOK, Exported
  <2> QED
    BY <2>1, <2>2 DEF SnapshotOf, Snapshots
<1>2. todo \in SUBSET Snapshots /\ stale \in BOOLEAN
  BY <1>1
<1>3. PICK old \in Sweeps : old = actor[a].sweep
  BY Typing
<1>4. Snapshot(a) = [old EXCEPT !.todo = todo, !.stale = stale]
  BY <1>3 DEF Snapshot
<1>5. state \in ActorStates
  BY DEF ActorStates, RunStates, PermitStates, SweepStates
<1>6. MovesTo(a, state, Snapshot(a))
  BY Typing, SnapshotBecomes
<1> HIDE DEF todo, stale, state
<1>7. /\ Snapshot(a) \in Sweeps
      /\ Snapshot(a).kind = old.kind /\ Snapshot(a).exclude = old.exclude
      /\ Snapshot(a).revision = old.revision
      /\ Snapshot(a).todo = todo /\ Snapshot(a).stale = stale
  BY <1>2, <1>4 DEF Sweeps
<1>8. /\ actor' \in [Actors -> ActorRecords]
      /\ Only(a) /\ SameRun(a)
      /\ actor'[a].pc = state
      /\ actor'[a].sweep = Snapshot(a)
  BY <1>5, <1>6, <1>7, Typing, SweepUpdate
<1> QED
  BY <1>3, <1>7, <1>8 DEF todo, stale, state

LEMMA SweptEffect ==
    ASSUME TypesOK, NEW a \in Actors, SweepOne(a)
    PROVE  \E snapshot \in actor[a].sweep.todo :
              /\ actor' \in [Actors -> ActorRecords]
              /\ Only(a) /\ SameRun(a)
              /\ actor'[a].pc =
                    IF actor[a].sweep.todo \ {snapshot} = {} THEN "sending" ELSE "sweeping"
              /\ actor'[a].sweep.kind = actor[a].sweep.kind
              /\ actor'[a].sweep.exclude = actor[a].sweep.exclude
              /\ actor'[a].sweep.revision = actor[a].sweep.revision
              /\ actor'[a].sweep.stale = actor[a].sweep.stale
              /\ actor'[a].sweep.todo = actor[a].sweep.todo \ {snapshot}
              /\ actor'[a].sweep.results =
                    Append(actor[a].sweep.results,
                           [snapshot |-> snapshot, saw |-> Reads(snapshot.doc)])
<1>1. PICK snapshot \in actor[a].sweep.todo :
        MovesTo(a, IF actor[a].sweep.todo \ {snapshot} = {} THEN "sending" ELSE "sweeping",
                Swept(a, snapshot))
  BY Typing, SweptBecomes
<1> DEFINE result == [snapshot |-> snapshot, saw |-> Reads(snapshot.doc)]
           results == Append(actor[a].sweep.results, result)
           left == actor[a].sweep.todo \ {snapshot}
           state == IF left = {} THEN "sending" ELSE "sweeping"
<1>2. snapshot \in Snapshots /\ left \in SUBSET Snapshots
  BY Typing
<1>3. result \in Results
  BY <1>2, Reading DEF Results
<1>4. results \in Seq(Results)
  BY <1>3, Typing, AppendProperties
<1>5. PICK old \in Sweeps : old = actor[a].sweep
  BY Typing
<1>6. state \in ActorStates
  BY DEF ActorStates, RunStates, PermitStates, SweepStates
<1>7. Swept(a, snapshot) = [old EXCEPT !.todo = left, !.results = results]
  BY <1>5 DEF Swept
<1>8. MovesTo(a, state, Swept(a, snapshot))
  BY <1>1
<1> HIDE DEF result, results, left, state
<1> DEFINE new == Swept(a, snapshot)
<1>9. /\ new \in Sweeps
      /\ new.kind = old.kind /\ new.exclude = old.exclude
      /\ new.revision = old.revision /\ new.stale = old.stale
      /\ new.todo = left /\ new.results = results
  BY <1>2, <1>4, <1>7 DEF Sweeps
<1> HIDE DEF new
<1>10. /\ actor' \in [Actors -> ActorRecords]
       /\ Only(a) /\ SameRun(a)
       /\ actor'[a].pc = state
       /\ actor'[a].sweep = new
  <2>1. MovesTo(a, state, new)
    BY <1>8 DEF new
  <2> QED
    BY <2>1, <1>6, <1>9, Typing, SweepUpdate
<1> QED
  BY <1>5, <1>9, <1>10 DEF left, results, result, state

LEMMA SupersededEffect ==
    ASSUME TypesOK, NEW a \in Actors, Superseded(a)
    PROVE  /\ actor' \in [Actors -> ActorRecords]
           /\ Only(a) /\ SameRun(a)
           /\ actor'[a].pc = "sending"
           /\ actor'[a].sweep.kind = actor[a].sweep.kind
           /\ actor'[a].sweep.exclude = actor[a].sweep.exclude
           /\ actor'[a].sweep.revision = actor[a].sweep.revision
           /\ actor'[a].sweep.todo = {}
<1>1. PICK old \in Sweeps : old = actor[a].sweep
  BY Typing
<1> DEFINE new == [old EXCEPT !.todo = {}]
<1>2. MovesTo(a, "sending", new)
  BY <1>1, Typing, SupersededBecomes
<1>3. /\ new \in Sweeps
      /\ new.kind = old.kind /\ new.exclude = old.exclude
      /\ new.revision = old.revision /\ new.todo = {}
  BY DEF Sweeps
<1>4. "sending" \in ActorStates
  BY DEF ActorStates, RunStates, PermitStates, SweepStates
<1> HIDE DEF new
<1>5. /\ actor' \in [Actors -> ActorRecords]
      /\ Only(a) /\ SameRun(a)
      /\ actor'[a].pc = "sending"
      /\ actor'[a].sweep = new
  BY <1>2, <1>3, <1>4, Typing, SweepUpdate
<1> QED
  BY <1>1, <1>3, <1>5

LEMMA SentEffect ==
    ASSUME TypesOK, NEW a \in Actors, SendOne(a)
    PROVE  /\ actor' \in [Actors -> ActorRecords]
           /\ Only(a) /\ SameRun(a)
           /\ actor'[a].pc = "sending"
           /\ actor'[a].sweep.kind = actor[a].sweep.kind
           /\ actor'[a].sweep.exclude = actor[a].sweep.exclude
           /\ actor'[a].sweep.revision = actor[a].sweep.revision
           /\ actor'[a].sweep.stale = actor[a].sweep.stale
           /\ actor'[a].sweep.todo = actor[a].sweep.todo
           /\ actor'[a].sweep.results = actor[a].sweep.results
<1>1. PICK old \in Sweeps : old = actor[a].sweep
  BY Typing
<1> DEFINE new == [old EXCEPT !.sent = old.sent + 1]
<1>2. MovesTo(a, "sending", new)
  BY <1>1, Typing, SentBecomes
<1>3. /\ new \in Sweeps
      /\ new.kind = old.kind /\ new.exclude = old.exclude /\ new.revision = old.revision
      /\ new.stale = old.stale /\ new.todo = old.todo /\ new.results = old.results
  <2>1. old.sent \in Nat /\ old.sent + 1 \in Nat
    BY DEF Sweeps
  <2> QED
    BY <2>1 DEF Sweeps
<1>4. "sending" \in ActorStates
  BY DEF ActorStates, RunStates, PermitStates, SweepStates
<1> HIDE DEF new
<1>5. /\ actor' \in [Actors -> ActorRecords]
      /\ Only(a) /\ SameRun(a)
      /\ actor'[a].pc = "sending"
      /\ actor'[a].sweep = new
  BY <1>2, <1>3, <1>4, Typing, SweepUpdate
<1> QED
  BY <1>1, <1>3, <1>5

\* All of an actor but whether it is cancelled, which the handle of d decides.
SameUnlessCancelled(b, d) ==
    /\ actor'[b].pc = actor[b].pc
    /\ actor'[b].doc = actor[b].doc
    /\ actor'[b].version = actor[b].version
    /\ actor'[b].text = actor[b].text
    /\ actor'[b].content = actor[b].content
    /\ actor'[b].gen = actor[b].gen
    /\ b # handles[d] => actor'[b].cancelled = actor[b].cancelled
    /\ actor'[b].saw = actor[b].saw
    /\ actor'[b].covered = actor[b].covered
    /\ actor'[b].sweep = actor[b].sweep

LEMMA CancelledFields ==
    ASSUME TypesOK, NEW b \in Actors, NEW d,
           actor'[b] = IF b = handles[d] THEN [actor[b] EXCEPT !.cancelled = TRUE] ELSE actor[b]
    PROVE  actor'[b] \in ActorRecords /\ SameUnlessCancelled(b, d)
<1>1. PICK old \in ActorRecords : old = actor[b]
  BY Typing
<1> DEFINE new == [old EXCEPT !.cancelled = TRUE]
<1>2. /\ new \in ActorRecords
      /\ new.pc = old.pc /\ new.doc = old.doc /\ new.version = old.version
      /\ new.text = old.text /\ new.content = old.content /\ new.gen = old.gen
      /\ new.saw = old.saw /\ new.covered = old.covered /\ new.sweep = old.sweep
  BY DEF ActorRecords
<1>3. actor'[b] = IF b = handles[d] THEN new ELSE old
  BY <1>1
<1> HIDE DEF new
<1> QED
  BY <1>1, <1>2, <1>3 DEF SameUnlessCancelled

LEMMA SpawnEffect ==
    ASSUME TypesOK, NEW d \in Docs, NEW gen \in Nat, spawned < MaxRuns,
           handles[d] # spawned + 1, Spawn(d, gen, "idle")
    PROVE  /\ actor' \in [Actors -> ActorRecords]
           /\ actor'[Handler] = Resting("idle")
           /\ spawned' = spawned + 1 /\ spawned + 1 \in Runs
           /\ handles' = [handles EXCEPT ![d] = spawned + 1]
           /\ LET run == actor'[spawned + 1] IN
              /\ run.pc = "waiting" /\ run.doc = d /\ run.version = version[d]
              /\ run.gen = gen /\ run.cancelled = FALSE /\ run.text = 0
              /\ run.covered = 0 /\ run.sweep = NoSweep
           /\ \A b \in Actors \ {Handler, spawned + 1} : SameUnlessCancelled(b, d)
<1> DEFINE rest == Resting("waiting")
           new == [rest EXCEPT !.doc = d, !.version = version[d], !.gen = gen]
<1>1. spawned + 1 \in Runs /\ spawned + 1 # Handler
  BY ConstantsAssumption DEF ConstantsAssumption, TypesOK, TypeOK, Runs, Handler
<1>2. /\ spawned' = spawned + 1
      /\ handles' = [handles EXCEPT ![d] = spawned + 1]
      /\ actor' = [b \in Actors |->
            CASE b = Handler -> Resting("idle")
              [] b = spawned' -> new
              [] b = handles[d] -> [actor[b] EXCEPT !.cancelled = TRUE]
              [] OTHER -> actor[b]]
  BY DEF Spawn
<1>3. "idle" \in ActorStates /\ "waiting" \in ActorStates
  BY DEF ActorStates, HandlerStates, RunStates
<1>4. version[d] \in Nat
  BY ConstantsAssumption DEF ConstantsAssumption, TypesOK, TypeOK
<1>5. /\ rest \in ActorRecords /\ rest.pc = "waiting" /\ rest.cancelled = FALSE
      /\ rest.text = 0 /\ rest.covered = 0 /\ rest.sweep = NoSweep
  BY <1>3, RestingFields
<1> HIDE DEF rest
<1>6. /\ new \in ActorRecords
      /\ new.pc = "waiting" /\ new.doc = d /\ new.version = version[d]
      /\ new.gen = gen /\ new.cancelled = FALSE /\ new.text = 0
      /\ new.covered = 0 /\ new.sweep = NoSweep
  BY <1>4, <1>5 DEF ActorRecords
<1> HIDE DEF new
<1>7. actor'[Handler] = Resting("idle")
  <2>1. handles[d] # Handler /\ Handler \in Actors /\ spawned' # Handler
    BY <1>1, <1>2, Constants DEF TypesOK, TypeOK
  <2> QED
    BY <1>2, <2>1
<1>8. actor'[spawned + 1] = new
  <2>1. spawned' \in Actors /\ spawned' # Handler /\ spawned' # handles[d]
    BY <1>1, <1>2, Constants
  <2> QED
    BY <1>2, <2>1
<1>9. ASSUME NEW b \in Actors \ {Handler, spawned + 1}
      PROVE  actor'[b] \in ActorRecords /\ SameUnlessCancelled(b, d)
  <2>1. b # Handler /\ b # spawned'
    BY <1>2, <1>9
  <2>2. actor'[b] = IF b = handles[d] THEN [actor[b] EXCEPT !.cancelled = TRUE] ELSE actor[b]
    BY <1>2, <2>1
  <2> QED
    BY <2>2, CancelledFields
<1>10. actor' \in [Actors -> ActorRecords]
  <2>1. \A b \in Actors : actor'[b] \in ActorRecords
    BY <1>3, <1>6, <1>7, <1>8, <1>9, RestingFields
  <2>2. actor' = [b \in Actors |-> actor'[b]]
    BY <1>2
  <2> QED
    BY <2>1, <2>2
<1> QED
  BY <1>1, <1>2, <1>6, <1>7, <1>8, <1>9, <1>10

LEMMA CloseEffect ==
    ASSUME TypesOK, NEW d \in Docs, DidClose(d)
    PROVE  /\ actor' \in [Actors -> ActorRecords]
           /\ actor'[Handler].pc = "awaiting" /\ actor'[Handler].doc = d
           /\ actor'[Handler].text = 0 /\ actor'[Handler].gen = 0
           /\ actor'[Handler].covered = 0 /\ actor'[Handler].sweep = NoSweep
           /\ \A b \in Runs : SameUnlessCancelled(b, d)
<1> DEFINE rest == Resting("awaiting")
           new == [rest EXCEPT !.doc = d, !.awaits = handles[d]]
<1>1. actor' = [b \in Actors |->
            CASE b = Handler -> new
              [] b = handles[d] -> [actor[b] EXCEPT !.cancelled = TRUE]
              [] OTHER -> actor[b]]
  BY DEF DidClose
<1>2. "awaiting" \in ActorStates
  BY DEF ActorStates, HandlerStates
<1>3. handles[d] \in Runs \cup {NoRun}
  BY DEF TypesOK, TypeOK
<1>4. /\ rest \in ActorRecords /\ rest.pc = "awaiting" /\ rest.gen = 0
      /\ rest.text = 0 /\ rest.covered = 0 /\ rest.sweep = NoSweep
  BY <1>2, RestingFields
<1> HIDE DEF rest
<1>5. /\ new \in ActorRecords
      /\ new.pc = "awaiting" /\ new.doc = d /\ new.gen = 0 /\ new.text = 0
      /\ new.covered = 0 /\ new.sweep = NoSweep
  BY <1>3, <1>4 DEF ActorRecords
<1> HIDE DEF new
<1>6. actor'[Handler] = new
  <2>1. handles[d] # Handler /\ Handler \in Actors
    BY <1>3, Constants
  <2> QED
    BY <1>1, <2>1
<1>7. ASSUME NEW b \in Actors \ {Handler}
      PROVE  actor'[b] \in ActorRecords /\ SameUnlessCancelled(b, d)
  <2>1. actor'[b] = IF b = handles[d] THEN [actor[b] EXCEPT !.cancelled = TRUE] ELSE actor[b]
    BY <1>1, <1>7
  <2> QED
    BY <2>1, CancelledFields
<1>8. actor' \in [Actors -> ActorRecords]
  <2>1. \A b \in Actors : actor'[b] \in ActorRecords
    BY <1>5, <1>6, <1>7
  <2>2. actor' = [b \in Actors |-> actor'[b]]
    BY <1>1
  <2> QED
    BY <2>1, <2>2
<1> QED
  BY <1>5, <1>6, <1>7, <1>8, Constants

LEMMA EditEffect ==
    ASSUME TypesOK, NEW d \in Docs, NEW v, NEW c, SetBuffer(d, v, c)
    PROVE  /\ actor' \in [Actors -> ActorRecords]
           /\ Only(Handler)
           /\ actor'[Handler].pc = "edited" /\ actor'[Handler].doc = d
           /\ actor'[Handler].text = actor[Handler].text
           /\ actor'[Handler].gen = actor[Handler].gen
           /\ actor'[Handler].covered = actor[Handler].covered
           /\ actor'[Handler].sweep = actor[Handler].sweep
<1>1. PICK old \in ActorRecords : old = actor[Handler]
  BY Typing, Constants
<1> DEFINE new == [old EXCEPT !.pc = "edited", !.doc = d]
<1>2. Becomes(Handler, new)
  BY <1>1, Constants, Typing DEF SetBuffer, Becomes
<1>3. "edited" \in ActorStates
  BY DEF ActorStates, HandlerStates
<1>4. /\ new \in ActorRecords
      /\ new.pc = "edited" /\ new.doc = d /\ new.text = old.text /\ new.gen = old.gen
      /\ new.covered = old.covered /\ new.sweep = old.sweep
  BY <1>3 DEF ActorRecords
<1> HIDE DEF new
<1> QED
  BY <1>1, <1>2, <1>4, Constants, Typing, ActorUpdate

LEMMA CloseRestoreEffect ==
    ASSUME TypesOK, CloseRestore
    PROVE  /\ actor' \in [Actors -> ActorRecords]
           /\ Only(Handler) /\ SameRun(Handler)
           /\ actor'[Handler].pc = "restored"
           /\ actor'[Handler].sweep = actor[Handler].sweep
<1>1. PICK old \in ActorRecords : old = actor[Handler]
  BY Typing, Constants
<1> DEFINE changed == index[actor[Handler].doc] # disk[actor[Handler].doc]
           new == [old EXCEPT !.pc = "restored", !.changed = changed]
<1>2. Becomes(Handler, new)
  BY <1>1, Constants, Typing DEF CloseRestore, Becomes
<1>3. "restored" \in ActorStates /\ changed \in BOOLEAN
  BY DEF ActorStates, HandlerStates
<1> HIDE DEF changed
<1>4. /\ new \in ActorRecords
      /\ new.pc = "restored" /\ SameCore(new, old) /\ new.sweep = old.sweep
  BY <1>3 DEF ActorRecords, SameCore
<1> HIDE DEF new
<1> QED
  BY <1>1, <1>2, <1>4, Constants, Typing, ActorUpdate DEF SameRun

LEMMA CloseGenerationEffect ==
    ASSUME TypesOK, CloseGeneration
    PROVE  /\ actor' \in [Actors -> ActorRecords]
           /\ Only(Handler)
           /\ actor'[Handler].pc = "clear" /\ actor'[Handler].gen = generation + 1
           /\ actor'[Handler].doc = actor[Handler].doc
           /\ actor'[Handler].text = actor[Handler].text
           /\ actor'[Handler].covered = actor[Handler].covered
           /\ actor'[Handler].sweep = actor[Handler].sweep
<1>1. PICK old \in ActorRecords : old = actor[Handler]
  BY Typing, Constants
<1> DEFINE new == [old EXCEPT !.pc = "clear", !.gen = generation + 1]
<1>2. Becomes(Handler, new)
  BY <1>1, Constants, Typing DEF CloseGeneration, Becomes
<1>3. "clear" \in ActorStates /\ generation + 1 \in Nat
  BY DEF ActorStates, HandlerStates, TypesOK, TypeOK
<1>4. /\ new \in ActorRecords
      /\ new.pc = "clear" /\ new.gen = generation + 1 /\ new.doc = old.doc
      /\ new.text = old.text /\ new.covered = old.covered /\ new.sweep = old.sweep
  BY <1>3 DEF ActorRecords
<1> HIDE DEF new
<1> QED
  BY <1>1, <1>2, <1>4, Constants, Typing, ActorUpdate

LEMMA BeginEffect ==
    ASSUME TypesOK, NEW r \in Runs, Begin(r), actor[r].doc \in Docs
    PROVE  /\ actor' \in [Actors -> ActorRecords]
           /\ Only(r)
           /\ ~SameVersion(r) => actor'[r] = Finish(r)
           /\ SameVersion(r) =>
                /\ actor'[r].pc = "snapshot"
                /\ actor'[r].text = text[actor[r].doc]
                /\ actor'[r].content = content[actor[r].doc]
                /\ actor'[r].doc = actor[r].doc
                /\ actor'[r].version = actor[r].version
                /\ actor'[r].gen = actor[r].gen
                /\ actor'[r].cancelled = actor[r].cancelled
                /\ actor'[r].covered = actor[r].covered
                /\ actor'[r].sweep = actor[r].sweep
<1>1. PICK old \in ActorRecords : old = actor[r]
  BY Typing, Constants
<1>2. CASE SameVersion(r)
  <2> DEFINE d == actor[r].doc
             new == [old EXCEPT !.pc = "snapshot", !.text = text[d], !.content = content[d]]
  <2>1. Becomes(r, new)
    BY <1>1, <1>2 DEF Begin, Becomes
  <2>2. text[d] \in Nat /\ content[d] \in Exported /\ "snapshot" \in ActorStates
    BY Constants DEF TypesOK, TypeOK, Exported, ActorStates, RunStates, PermitStates
  <2> HIDE DEF d
  <2>3. /\ new \in ActorRecords
        /\ new.pc = "snapshot" /\ new.text = text[d] /\ new.content = content[d]
        /\ new.doc = old.doc /\ new.version = old.version /\ new.gen = old.gen
        /\ new.cancelled = old.cancelled /\ new.covered = old.covered /\ new.sweep = old.sweep
    BY <2>2 DEF ActorRecords
  <2> HIDE DEF new
  <2> QED
    BY <1>1, <1>2, <2>1, <2>3, Constants, Typing, ActorUpdate DEF d
<1>3. CASE ~SameVersion(r)
  <2>1. Becomes(r, Finish(r))
    BY <1>3 DEF Begin, Becomes
  <2> QED
    BY <1>3, <2>1, Constants, Typing, FinishEffect
<1> QED
  BY <1>2, <1>3

LEMMA ValidateEffect ==
    ASSUME TypesOK, NEW r \in Runs, Validate(r)
    PROVE  /\ actor' \in [Actors -> ActorRecords]
           /\ Only(r)
           /\ actor'[r].pc = "checked"
           /\ actor'[r].saw = Reads(actor[r].doc)
           /\ actor'[r].covered = exports.revision
           /\ actor'[r].doc = actor[r].doc
           /\ actor'[r].version = actor[r].version
           /\ actor'[r].text = actor[r].text
           /\ actor'[r].content = actor[r].content
           /\ actor'[r].gen = actor[r].gen
           /\ actor'[r].cancelled = actor[r].cancelled
           /\ actor'[r].sweep = actor[r].sweep
<1>1. PICK old \in ActorRecords : old = actor[r]
  BY Typing, Constants
<1> DEFINE saw == Reads(actor[r].doc)
           new == [old EXCEPT !.pc = "checked", !.saw = saw, !.covered = exports.revision]
<1>2. Becomes(r, new)
  BY <1>1 DEF Validate, Becomes
<1>3. saw \in [Docs -> Exported] /\ exports.revision \in Nat /\ "checked" \in ActorStates
  BY Reading DEF TypesOK, TypeOK, ActorStates, RunStates, PermitStates
<1> HIDE DEF saw
<1>4. /\ new \in ActorRecords
      /\ new.pc = "checked" /\ new.saw = saw /\ new.covered = exports.revision
      /\ new.doc = old.doc /\ new.version = old.version /\ new.text = old.text
      /\ new.content = old.content /\ new.gen = old.gen
      /\ new.cancelled = old.cancelled /\ new.sweep = old.sweep
  BY <1>3 DEF ActorRecords
<1> HIDE DEF new
<1> QED
  BY <1>1, <1>2, <1>4, Constants, Typing, ActorUpdate DEF saw

LEMMA CleanupEffect ==
    ASSUME TypesOK, NEW r \in Runs, Cleanup(r)
    PROVE  /\ actor' \in [Actors -> ActorRecords]
           /\ Only(r)
           /\ actor'[r] = Resting("cleaned")
<1>1. Becomes(r, Resting("cleaned"))
  BY DEF Cleanup, Becomes
<1>2. "cleaned" \in ActorStates
  BY DEF ActorStates, RunStates
<1> QED
  BY <1>1, <1>2, Constants, Typing, RestingFields, ActorUpdate

\* Every step of the sweeps leaves the actor in them, or ends them.
LEMMA SweepMoveEffect ==
    ASSUME TypesOK, CurrentTreeIsOfBuffer, NEW a \in Actors, SweepMove(a)
    PROVE  /\ actor' \in [Actors -> ActorRecords]
           /\ Only(a)
           /\ \/ actor[a].pc \in SweepStates
              \/ actor[a].pc = "refreshing" /\ actor'[a] = Finish(a)
           /\ \/ actor'[a] \in Gone(a)
              \/ /\ SameRun(a)
                 /\ actor'[a].pc \in SweepStates
                 /\ actor'[a].sweep.revision \in {actor[a].sweep.revision, exports.revision}
           /\ UNCHANGED <<docVars, disk, index, generation, handles, spawned>>
           /\ exports'.revision = exports.revision
<1> DEFINE Goal ==
        /\ actor' \in [Actors -> ActorRecords]
        /\ Only(a)
        /\ \/ actor'[a] \in Gone(a)
           \/ /\ SameRun(a)
              /\ actor'[a].pc \in SweepStates
              /\ actor'[a].sweep.revision \in {actor[a].sweep.revision, exports.revision}
<1>1. /\ actor[a].pc \in SweepStates \/ EndRefresh(a)
      /\ UNCHANGED <<docVars, disk, index, generation, handles, spawned>>
  BY DEF SweepMove, SweepStep, Answer, EndRefresh, DrainNames, ReadPending, SnapshotDependents,
     SweepOne, Superseded, SendOne, EndSweep, ClearPending, pc, SweepStates, sweepVars
<1>2. exports' = exports \/ exports' = [exports EXCEPT !.pending = FALSE]
  BY DEF SweepMove, SweepStep, Answer, EndRefresh, DrainNames, ReadPending, SnapshotDependents,
     SweepOne, Superseded, SendOne, EndSweep, ClearPending, sweepVars
<1>3. exports'.revision = exports.revision
  BY <1>2 DEF TypesOK, TypeOK
<1>4. ASSUME NEW state \in SweepStates, Goto(a, state)  PROVE Goal
  <2>1. state \in ActorStates
    BY DEF ActorStates, HandlerStates
  <2> QED
    BY <1>4, <2>1, Typing, GotoEffect
<1>5. ASSUME Leave(a)  PROVE Goal
  BY <1>5, Typing, LeaveEffect
<1>6. ASSUME NEW kind \in {"names", "exports"}, NEW exclude \in Docs \cup {Nobody},
             BeginSweep(a, kind, exclude)
      PROVE  Goal
  <2>1. exports.revision \in Nat /\ "begin" \in SweepStates
    BY DEF TypesOK, TypeOK, SweepStates
  <2> QED
    BY <1>6, <2>1, Typing, BeginSweepEffect
<1>7. ASSUME DrainNames(a)  PROVE Goal
  <2>1. Goto(a, "exports") \/ BeginSweep(a, "names", actor[a].doc)
    BY <1>7 DEF DrainNames
  <2> QED
    BY <2>1, <1>4, <1>6, Typing DEF SweepStates
<1>8. ASSUME ReadPending(a)  PROVE Goal
  <2>1. \/ Leave(a)
        \/ \E exclude \in {actor[a].doc, Nobody} : BeginSweep(a, "exports", exclude)
    BY <1>8 DEF ReadPending
  <2> QED
    BY <2>1, <1>5, <1>6, Typing
<1>9. ASSUME SnapshotDependents(a)  PROVE Goal
  BY <1>9, SnapshotEffect DEF SweepStates
<1>10. ASSUME SweepOne(a)  PROVE Goal
  BY <1>10, SweptEffect DEF SweepStates
<1>11. ASSUME Superseded(a)  PROVE Goal
  BY <1>11, SupersededEffect DEF SweepStates
<1>12. ASSUME SendOne(a)  PROVE Goal
  BY <1>12, SentEffect DEF SweepStates
<1>13. ASSUME EndSweep(a)  PROVE Goal
  <2>1. Goto(a, "exports") \/ Goto(a, "clearing") \/ Leave(a)
    BY <1>13 DEF EndSweep
  <2> QED
    BY <2>1, <1>4, <1>5 DEF SweepStates
<1>14. ASSUME ClearPending(a)  PROVE Goal
  <2>1. Goto(a, "exports") \/ Leave(a)
    BY <1>14 DEF ClearPending
  <2> QED
    BY <2>1, <1>4, <1>5 DEF SweepStates
<1>15. ASSUME EndRefresh(a)
       PROVE  Goal /\ actor[a].pc = "refreshing" /\ actor'[a] = Finish(a)
  <2>1. Becomes(a, Finish(a)) /\ actor[a].pc = "refreshing"
    BY <1>15 DEF EndRefresh, Becomes, pc
  <2> QED
    BY <2>1, Typing, FinishEffect DEF Gone
<1> HIDE DEF Goal
<1>16. Goal
  BY <1>7, <1>8, <1>9, <1>10, <1>11, <1>12, <1>13, <1>14, <1>15 DEF SweepMove, SweepStep, Answer
<1> QED
  BY <1>1, <1>3, <1>15, <1>16 DEF Goal

-----------------------------------------------------------------------------
(* Which operations touch what *)

LEMMA DocumentsChange ==
    ASSUME [Next]_vars
    PROVE  \/ UNCHANGED docVars
           \/ \E d \in Docs : DidOpen(d) \/ DidChange(d) \/ DidClose(d)
           \/ \E r \in Runs : Accept(r)
<1>1. ASSUME NEW a \in Actors, SweepMove(a)  PROVE UNCHANGED docVars
  BY <1>1 DEF SweepMove, SweepStep, Answer, EndRefresh, DrainNames, ReadPending,
     SnapshotDependents, SweepOne, Superseded, SendOne, EndSweep, ClearPending
<1>2. HandlerMove => UNCHANGED docVars
  BY <1>1, Constants DEF HandlerMove, HandlerStep, SweepMove, Schedule, CloseAwaited,
     CloseRestore, CloseGeneration, CloseClear
<1>3. ASSUME NEW r \in Runs, RunMove(r)  PROVE Accept(r) \/ UNCHANGED docVars
  BY <1>1, <1>3, Constants DEF RunMove, RunStep, SweepMove, Begin, Index, Validate,
     CancelValidate, Publish, Abort, Cleanup
<1>4. ASSUME NEW d \in Docs, DidSave(d)  PROVE UNCHANGED docVars
  BY <1>4 DEF DidSave
<1> QED
  BY <1>2, <1>3, <1>4, NextMoves DEF Edit, Close, vars

LEMMA IndexChanges ==
    ASSUME [Next]_vars
    PROVE  \/ UNCHANGED <<index, exports>>
           \/ UNCHANGED index /\ \E a \in Actors : ClearPending(a)
           \/ CloseRestore \/ \E r \in Runs : Index(r)
<1>1. ASSUME NEW a \in Actors, SweepMove(a)
      PROVE  UNCHANGED index /\ (UNCHANGED exports \/ ClearPending(a))
  BY <1>1 DEF SweepMove, SweepStep, Answer, EndRefresh, DrainNames, ReadPending,
     SnapshotDependents, SweepOne, Superseded, SendOne, EndSweep, ClearPending, sweepVars
<1>2. HandlerMove => \/ UNCHANGED <<index, exports>>
                     \/ CloseRestore
                     \/ UNCHANGED index /\ \E a \in Actors : ClearPending(a)
  BY <1>1, Constants DEF HandlerMove, HandlerStep, SweepMove, Schedule, CloseAwaited,
     CloseGeneration, CloseClear, sweepVars
<1>3. ASSUME NEW r \in Runs, RunMove(r)
      PROVE  \/ UNCHANGED <<index, exports>> \/ Index(r)
             \/ UNCHANGED index /\ \E a \in Actors : ClearPending(a)
  BY <1>1, <1>3, Constants DEF RunMove, RunStep, SweepMove, Begin, Validate, CancelValidate,
     Accept, Publish, Abort, Cleanup, sweepVars
<1>4. Edit \/ Close => UNCHANGED <<index, exports>>
  BY DEF Edit, Close, DidOpen, DidChange, DidSave, DidClose, sweepVars
<1> QED
  BY <1>2, <1>3, <1>4, NextMoves DEF vars, sweepVars

LEMMA SchedulingChanges ==
    ASSUME [Next]_vars
    PROVE  /\ \/ UNCHANGED <<generation, spawned, handles>>
              \/ Schedule \/ CloseGeneration
              \/ \E d \in Docs : DidSave(d) \/ DidClose(d)
              \/ \E r \in Runs : Cleanup(r)
           /\ UNCHANGED disk \/ \E d \in Docs : DidSave(d)
<1>1. ASSUME NEW a \in Actors, SweepMove(a)
      PROVE  UNCHANGED <<disk, generation, spawned, handles>>
  BY <1>1 DEF SweepMove, SweepStep, Answer, EndRefresh, DrainNames, ReadPending,
     SnapshotDependents, SweepOne, Superseded, SendOne, EndSweep, ClearPending
<1>2. HandlerMove => /\ UNCHANGED disk
                     /\ UNCHANGED <<generation, spawned, handles>> \/ Schedule \/ CloseGeneration
  BY <1>1, Constants DEF HandlerMove, HandlerStep, SweepMove, Schedule, CloseAwaited,
     CloseRestore, CloseGeneration, CloseClear
<1>3. ASSUME NEW r \in Runs, RunMove(r)
      PROVE  UNCHANGED disk /\ (UNCHANGED <<generation, spawned, handles>> \/ Cleanup(r))
  BY <1>1, <1>3, Constants DEF RunMove, RunStep, SweepMove, Begin, Index, Validate,
     CancelValidate, Accept, Publish, Abort, Cleanup
<1>4. ASSUME NEW d \in Docs, DidOpen(d) \/ DidChange(d)
      PROVE  UNCHANGED <<disk, generation, spawned, handles>>
  BY <1>4 DEF DidOpen, DidChange
<1>5. ASSUME NEW d \in Docs, DidClose(d)  PROVE UNCHANGED disk
  BY <1>5 DEF DidClose
<1> QED
  BY <1>2, <1>3, <1>4, <1>5, NextMoves DEF Edit, Close, vars

\* What a publication of a result leaves.
LEMMA PublicationChanges ==
    ASSUME [Next]_vars
    PROVE  \/ UNCHANGED published
           \/ CloseClear
           \/ \E r \in Runs : Publish(r)
           \/ \E a \in Actors : SendOne(a)
<1>1. ASSUME NEW a \in Actors, SweepMove(a)  PROVE UNCHANGED published \/ SendOne(a)
  BY <1>1 DEF SweepMove, SweepStep, Answer, EndRefresh, DrainNames, ReadPending,
     SnapshotDependents, SweepOne, Superseded, EndSweep, ClearPending
<1>2. HandlerMove => UNCHANGED published \/ CloseClear \/ \E a \in Actors : SendOne(a)
  BY <1>1, Constants DEF HandlerMove, HandlerStep, SweepMove, Schedule, CloseAwaited,
     CloseRestore, CloseGeneration
<1>3. ASSUME NEW r \in Runs, RunMove(r)
      PROVE  UNCHANGED published \/ Publish(r) \/ \E a \in Actors : SendOne(a)
  BY <1>1, <1>3, Constants DEF RunMove, RunStep, SweepMove, Begin, Index, Validate,
     CancelValidate, Accept, Abort, Cleanup
<1>4. Edit \/ Close => UNCHANGED published
  BY DEF Edit, Close, DidOpen, DidChange, DidSave, DidClose
<1> QED
  BY <1>2, <1>3, <1>4, NextMoves DEF vars

-----------------------------------------------------------------------------
(* Types *)

DocTypes ==
    /\ open \in [Docs -> BOOLEAN]
    /\ version \in [Docs -> 0 .. MaxRuns + 1]
    /\ text \in [Docs -> 0 .. MaxRuns]
    /\ content \in [Docs -> Contents \cup {NoFile}]
    /\ astVersion \in [Docs -> 0 .. MaxRuns + 1]
    /\ ast \in [Docs -> Contents \cup {NoFile}]
    /\ validated \in [Docs -> BOOLEAN]
SharedTypes ==
    /\ disk \in [Docs -> Contents \cup {NoFile}]
    /\ index \in [Docs -> Contents \cup {NoFile}]
    /\ generation \in Nat
    /\ exports \in [revision : Nat, pending : BOOLEAN]
    /\ handles \in [Docs -> Runs \cup {NoRun}]
    /\ spawned \in 0 .. MaxRuns
Publication == [content : Contents \cup {NoFile}, saw : [Docs -> Contents \cup {NoFile}]]
PublishedTypes == published \in [Docs -> Publication]
PhaseOK(a) == actor[a].pc \in IF a = Handler THEN HandlerStates ELSE RunStates
ActorTypes ==
    /\ actor \in [Actors -> ActorRecords]
    /\ \A a \in Actors : PhaseOK(a)

LEMMA TypeParts ==
    TypesOK <=> /\ DocTypes /\ SharedTypes /\ PublishedTypes /\ ActorTypes
                /\ names \in BOOLEAN
BY DEF TypesOK, TypeOK, DocTypes, SharedTypes, PublishedTypes, Publication, ActorTypes,
       PhaseOK, pc

LEMMA DocTypesStep ==
    ASSUME TypesOK, CountersOK, [Next]_vars
    PROVE  DocTypes'
<1>1. DocTypes /\ spawned \in 0 .. MaxRuns
  BY TypeParts DEF SharedTypes
<1>2. UNCHANGED docVars => DocTypes'
  BY <1>1 DEF docVars, DocTypes
<1>3. ASSUME NEW d \in Docs, NEW v \in 0 .. MaxRuns + 1, NEW c \in Contents,
             SetBuffer(d, v, c), spawned < MaxRuns
      PROVE  /\ version' \in [Docs -> 0 .. MaxRuns + 1]
             /\ text' \in [Docs -> 0 .. MaxRuns]
             /\ content' \in [Docs -> Contents \cup {NoFile}]
             /\ validated' \in [Docs -> BOOLEAN]
  <2>1. spawned + 1 \in 0 .. MaxRuns
    BY <1>1, <1>3, ConstantsAssumption DEF ConstantsAssumption
  <2> QED
    BY <1>1, <1>3, <2>1 DEF SetBuffer, DocTypes
<1>4. ASSUME NEW d \in Docs, DidOpen(d)  PROVE DocTypes'
  <2>1. 1 \in 0 .. MaxRuns + 1 /\ 0 \in 0 .. MaxRuns + 1
    BY ConstantsAssumption DEF ConstantsAssumption
  <2>2. PICK c \in Contents : SetBuffer(d, 1, c)
    BY <1>4 DEF DidOpen
  <2>3. /\ open' \in [Docs -> BOOLEAN]
        /\ astVersion' \in [Docs -> 0 .. MaxRuns + 1]
        /\ ast' \in [Docs -> Contents \cup {NoFile}]
        /\ spawned < MaxRuns
    BY <1>1, <1>4, <2>1 DEF DidOpen, DocTypes
  <2> QED
    BY <1>3, <2>1, <2>2, <2>3 DEF DocTypes
<1>5. ASSUME NEW d \in Docs, DidChange(d)  PROVE DocTypes'
  <2>1. PICK c \in Contents : SetBuffer(d, version[d] + 1, c)
    BY <1>5 DEF DidChange
  <2>2. /\ UNCHANGED <<open, astVersion, ast>>
        /\ actor[Handler].pc = "idle" /\ spawned < MaxRuns
    BY <1>5 DEF DidChange, pc
  <2>3. version[d] + 1 \in 0 .. MaxRuns + 1
    <3>1. version[d] <= spawned + 1 /\ version[d] \in Nat
      BY <1>1, <2>2, ConstantsAssumption
      DEF CountersOK, Newest, pc, ConstantsAssumption, DocTypes
    <3> QED
      BY <1>1, <2>2, <3>1, ConstantsAssumption DEF ConstantsAssumption
  <2> QED
    BY <1>1, <1>3, <2>1, <2>2, <2>3 DEF DocTypes
<1>6. ASSUME NEW d \in Docs, DidClose(d)  PROVE DocTypes'
  <2>1. 0 \in 0 .. MaxRuns + 1 /\ 0 \in 0 .. MaxRuns
    BY ConstantsAssumption DEF ConstantsAssumption
  <2> QED
    BY <1>1, <1>6, <2>1 DEF DidClose, DocTypes
<1>7. ASSUME NEW r \in Runs, Accept(r)  PROVE DocTypes'
  <2>1. CASE SameText(r)
    <3> DEFINE d == actor[r].doc
    <3>1. /\ validated' = [validated EXCEPT ![d] = TRUE]
          /\ astVersion' = [astVersion EXCEPT ![d] = actor[r].version]
          /\ ast' = [ast EXCEPT ![d] = actor[r].content]
          /\ UNCHANGED <<open, version, text, content>>
      BY <1>7, <2>1 DEF Accept
    <3>2. version[d] = actor[r].version
      BY <2>1 DEF SameText, SameVersion
    <3>3. actor[r].content \in Contents \cup {NoFile}
      BY Typing, Constants DEF Exported
    <3> HIDE DEF d
    <3> QED
      BY <1>1, <3>1, <3>2, <3>3 DEF DocTypes
  <2>2. CASE ~SameText(r)
    BY <1>2, <1>7, <2>2 DEF Accept, docVars
  <2> QED
    BY <2>1, <2>2
<1> QED
  BY <1>2, <1>4, <1>5, <1>6, <1>7, DocumentsChange

LEMMA SharedTypesStep ==
    ASSUME TypesOK, CountersOK, HandlesOK, [Next]_vars
    PROVE  SharedTypes'
<1>1. SharedTypes /\ DocTypes
  BY TypeParts
<1>2. /\ index' \in [Docs -> Contents \cup {NoFile}]
      /\ exports' \in [revision : Nat, pending : BOOLEAN]
  <2>1. ASSUME NEW a \in Actors, ClearPending(a)
        PROVE  exports' \in [revision : Nat, pending : BOOLEAN]
    BY <1>1, <2>1 DEF ClearPending, SharedTypes
  <2>2. ASSUME CloseRestore
        PROVE  index' \in [Docs -> Contents \cup {NoFile}] /\ exports' = exports
    <3>1. actor[Handler].doc \in Docs
      BY <2>2 DEF CloseRestore, HandlesOK, pc
    <3> QED
      BY <1>1, <2>2, <3>1 DEF CloseRestore, SharedTypes, sweepVars
  <2>3. ASSUME NEW r \in Runs, Index(r)
        PROVE  /\ index' \in [Docs -> Contents \cup {NoFile}]
               /\ exports' \in [revision : Nat, pending : BOOLEAN]
    <3>1. actor[r].content \in Contents \cup {NoFile}
      BY Typing, Constants DEF Exported
    <3>2. \/ index' = index
          \/ index' = [index EXCEPT ![actor[r].doc] = actor[r].content]
      BY <2>3 DEF Index
    <3>3. \/ exports' = exports
          \/ exports' = [revision |-> exports.revision + 1, pending |-> TRUE]
      BY <2>3 DEF Index
    <3>4. index' \in [Docs -> Contents \cup {NoFile}]
      BY <1>1, <3>1, <3>2 DEF SharedTypes
    <3>5. exports.revision \in Nat /\ exports \in [revision : Nat, pending : BOOLEAN]
      BY <1>1 DEF SharedTypes
    <3>6. exports' \in [revision : Nat, pending : BOOLEAN]
      <4>1. ASSUME NEW revision \in Nat
            PROVE  [revision |-> revision, pending |-> TRUE] \in [revision : Nat, pending : BOOLEAN]
        OBVIOUS
      <4>2. exports.revision + 1 \in Nat
        BY <3>5
      <4> QED
        BY <3>3, <3>5, <4>1, <4>2
    <3> QED
      BY <3>4, <3>6
  <2> QED
    BY <1>1, <2>1, <2>2, <2>3, IndexChanges DEF SharedTypes
<1>3. disk' \in [Docs -> Contents \cup {NoFile}]
  <2>1. ASSUME NEW d \in Docs, DidSave(d)  PROVE disk' \in [Docs -> Contents \cup {NoFile}]
    BY <1>1, <2>1 DEF DidSave, SharedTypes, DocTypes
  <2> QED
    BY <1>1, <2>1, SchedulingChanges DEF SharedTypes
<1>4. /\ generation' \in Nat
      /\ handles' \in [Docs -> Runs \cup {NoRun}]
      /\ spawned' \in 0 .. MaxRuns
  <2>1. ASSUME NEW d, NEW gen, NEW state, Spawn(d, gen, state), spawned < MaxRuns
        PROVE  handles' \in [Docs -> Runs \cup {NoRun}] /\ spawned' \in 0 .. MaxRuns
    <3>1. spawned' = spawned + 1 /\ handles' = [handles EXCEPT ![d] = spawned + 1]
      BY <2>1 DEF Spawn
    <3>2. spawned + 1 \in Runs /\ spawned + 1 \in 0 .. MaxRuns
      BY <1>1, <2>1, ConstantsAssumption DEF ConstantsAssumption, SharedTypes, Runs
    <3> QED
      BY <1>1, <3>1, <3>2 DEF SharedTypes
  <2>2. ASSUME Schedule
        PROVE  /\ generation' \in Nat
               /\ handles' \in [Docs -> Runs \cup {NoRun}] /\ spawned' \in 0 .. MaxRuns
    <3>1. spawned < MaxRuns
      BY <2>2 DEF Schedule, CountersOK, pc
    <3> QED
      BY <1>1, <2>1, <2>2, <3>1 DEF Schedule, SharedTypes
  <2>3. ASSUME CloseGeneration
        PROVE  /\ generation' \in Nat
               /\ handles' \in [Docs -> Runs \cup {NoRun}] /\ spawned' \in 0 .. MaxRuns
    BY <1>1, <2>3 DEF CloseGeneration, SharedTypes
  <2>4. ASSUME NEW d \in Docs, DidSave(d)
        PROVE  /\ generation' \in Nat
               /\ handles' \in [Docs -> Runs \cup {NoRun}] /\ spawned' \in 0 .. MaxRuns
    BY <1>1, <2>1, <2>4 DEF DidSave, SharedTypes
  <2>5. ASSUME NEW d \in Docs, DidClose(d)
        PROVE  /\ generation' \in Nat
               /\ handles' \in [Docs -> Runs \cup {NoRun}] /\ spawned' \in 0 .. MaxRuns
    BY <1>1, <2>5 DEF DidClose, SharedTypes
  <2>6. ASSUME NEW r \in Runs, Cleanup(r)
        PROVE  /\ generation' \in Nat
               /\ handles' \in [Docs -> Runs \cup {NoRun}] /\ spawned' \in 0 .. MaxRuns
    BY <1>1, <2>6 DEF Cleanup, SharedTypes
  <2> QED
    BY <1>1, <2>2, <2>3, <2>4, <2>5, <2>6, SchedulingChanges DEF SharedTypes
<1> QED
  BY <1>2, <1>3, <1>4 DEF SharedTypes

LEMMA PublishedTypesStep ==
    ASSUME TypesOK, [Next]_vars
    PROVE  PublishedTypes'
<1>1. PublishedTypes
  BY TypeParts
<1>2. ASSUME NEW d, NEW v, NEW c, NEW p \in Publication, PublishResult(d, v, c, p)
      PROVE  PublishedTypes'
  BY <1>1, <1>2 DEF PublishResult, PublishedTypes
<1>3. CASE CloseClear
  <2>1. Cleared \in Publication
    BY DEF Cleared, NoIndex, Publication
  <2> QED
    BY <1>1, <1>3, <2>1 DEF CloseClear, PublishedTypes
<1>4. ASSUME NEW r \in Runs, Publish(r)  PROVE PublishedTypes'
  <2>1. [content |-> actor[r].content, saw |-> actor[r].saw] \in Publication
    BY Typing, Constants DEF Publication, Exported
  <2> QED
    BY <1>2, <1>4, <2>1 DEF Publish
<1>5. ASSUME NEW a \in Actors, SendOne(a)  PROVE PublishedTypes'
  <2> DEFINE sweep == actor[a].sweep
             result == sweep.results[sweep.sent + 1]
  <2>1. sweep.results \in Seq(Results) /\ sweep.sent \in Nat
    BY Typing
  <2>2. sweep.sent < Len(sweep.results)
    BY <1>5 DEF SendOne
  <2>3. sweep.sent + 1 \in 1 .. Len(sweep.results)
    <3>1. Len(sweep.results) \in Nat
      BY <2>1, LenProperties
    <3> HIDE DEF sweep
    <3> QED
      BY <2>1, <2>2, <3>1
  <2>4. result \in Results
    <3>1. \A i \in 1 .. Len(sweep.results) : sweep.results[i] \in Results
      BY <2>1, ElementOfSeq
    <3> HIDE DEF sweep
    <3> QED
      BY <2>3, <3>1
  <2>5. PublishResult(result.snapshot.doc, result.snapshot.version, result.snapshot.content,
                      [content |-> result.snapshot.ast, saw |-> result.saw])
    BY <1>5 DEF SendOne
  <2> HIDE DEF result
  <2>6. result.snapshot \in Snapshots /\ result.saw \in [Docs -> Exported]
    BY <2>4 DEF Results
  <2>7. result.snapshot.ast \in Exported
    BY <2>6 DEF Snapshots
  <2>8. [content |-> result.snapshot.ast, saw |-> result.saw] \in Publication
    BY <2>6, <2>7 DEF Publication, Exported
  <2> QED
    BY <1>2, <2>5, <2>8
<1> QED
  BY <1>1, <1>3, <1>4, <1>5, PublicationChanges DEF PublishedTypes

\* No handle is that of the run the next notification spawns.
LEMMA NextRunIsNew ==
    ASSUME TypesOK, HandlesOK, NEW d \in Docs
    PROVE  /\ handles[d] # spawned + 1 /\ handles[d] # Handler
           /\ handles[d] # NoRun => handles[d] \in Runs /\ handles[d] <= spawned
           /\ spawned \in Nat /\ spawned <= MaxRuns
<1>1. handles[d] \in Runs \cup {NoRun} /\ spawned \in 0 .. MaxRuns
  BY TypeParts DEF SharedTypes
<1>2. handles[d] # NoRun => handles[d] <= spawned
  BY DEF HandlesOK
<1>3. spawned \in Nat /\ spawned <= MaxRuns
  BY <1>1, ConstantsAssumption DEF ConstantsAssumption
<1>4. handles[d] # spawned + 1
  BY <1>1, <1>2, <1>3, ConstantsAssumption DEF Runs, NoRun, ConstantsAssumption
<1> QED
  BY <1>1, <1>2, <1>3, <1>4, Constants

LEMMA ActorTypesStep ==
    ASSUME TypesOK, CountersOK, HandlesOK, CurrentTreeIsOfBuffer, [Next]_vars
    PROVE  ActorTypes'
<1>1. ActorTypes /\ actor \in [Actors -> ActorRecords]
  BY TypeParts DEF ActorTypes
<1>2. SweepStates \subseteq HandlerStates /\ SweepStates \subseteq RunStates
  BY DEF HandlerStates, RunStates, PermitStates
<1>3. ASSUME NEW a \in Actors, actor' \in [Actors -> ActorRecords], Only(a), PhaseOK(a)'
      PROVE  ActorTypes'
  BY <1>1, <1>3 DEF ActorTypes, PhaseOK, Only
<1>4. ASSUME NEW a \in Actors, Becomes(a, Finish(a))  PROVE ActorTypes'
  <2>1. actor' \in [Actors -> ActorRecords] /\ actor'[a] = Finish(a) /\ Only(a)
    BY <1>1, <1>4, FinishEffect
  <2>2. actor'[a].pc = RestState(a)
    BY <1>1, <2>1, FinishFields
  <2>3. PhaseOK(a)'
    BY <2>2 DEF PhaseOK, RestState, HandlerStates, RunStates
  <2> QED
    BY <1>3, <2>1, <2>3
<1>5. ASSUME NEW a \in Actors, SweepMove(a)  PROVE ActorTypes'
  <2>1. /\ actor' \in [Actors -> ActorRecords] /\ Only(a)
        /\ actor'[a] \in Gone(a) \/ actor'[a].pc \in SweepStates
    BY <1>5, SweepMoveEffect
  <2>2. PhaseOK(a)'
    <3>1. CASE actor'[a] \in Gone(a)
      <4>1. actor'[a].pc \in {"refreshing", RestState(a)}
        BY <1>1, <3>1, GoneFields
      <4> QED
        BY <4>1 DEF PhaseOK, RestState, HandlerStates, RunStates, PermitStates
    <3>2. CASE actor'[a].pc \in SweepStates
      BY <1>2, <3>2 DEF PhaseOK
    <3> QED
      BY <2>1, <3>1, <3>2
  <2> QED
    BY <1>3, <2>1, <2>2
<1>6. ASSUME NEW d \in Docs, NEW gen \in Nat, spawned < MaxRuns, Spawn(d, gen, "idle")
      PROVE  ActorTypes'
  <2>1. handles[d] # spawned + 1
    BY <1>6, NextRunIsNew
  <2>2. /\ actor' \in [Actors -> ActorRecords]
        /\ actor'[Handler] = Resting("idle")
        /\ spawned + 1 \in Runs /\ actor'[spawned + 1].pc = "waiting"
        /\ \A b \in Actors \ {Handler, spawned + 1} : SameUnlessCancelled(b, d)
    BY <1>6, <2>1, SpawnEffect
  <2>3. ASSUME NEW b \in Actors  PROVE PhaseOK(b)'
    <3>1. CASE b = Handler
      BY <2>2, <3>1, RestingFields DEF PhaseOK, HandlerStates
    <3>2. CASE b = spawned + 1
      BY <2>2, <3>2, Constants DEF PhaseOK, RunStates
    <3>3. CASE b \notin {Handler, spawned + 1}
      BY <1>1, <2>2, <3>3 DEF ActorTypes, PhaseOK, SameUnlessCancelled
    <3> QED
      BY <3>1, <3>2, <3>3
  <2> QED
    BY <2>2, <2>3 DEF ActorTypes
<1>7. ASSUME NEW d \in Docs, DidOpen(d) \/ DidChange(d)  PROVE ActorTypes'
  <2>1. \E v, c : SetBuffer(d, v, c)
    BY <1>7 DEF DidOpen, DidChange
  <2>2. actor' \in [Actors -> ActorRecords] /\ Only(Handler) /\ actor'[Handler].pc = "edited"
    BY <2>1, EditEffect
  <2> QED
    BY <1>3, <2>2, Constants DEF PhaseOK, HandlerStates
<1>8. ASSUME NEW d \in Docs, DidSave(d)  PROVE ActorTypes'
  BY <1>1, <1>6, <1>8 DEF DidSave, TypesOK, TypeOK, ActorTypes, PhaseOK
<1>9. ASSUME NEW d \in Docs, DidClose(d)  PROVE ActorTypes'
  <2>1. /\ actor' \in [Actors -> ActorRecords]
        /\ actor'[Handler].pc = "awaiting"
        /\ \A b \in Runs : SameUnlessCancelled(b, d)
    BY <1>9, CloseEffect
  <2>2. ASSUME NEW b \in Actors  PROVE PhaseOK(b)'
    <3>1. CASE b = Handler
      BY <2>1, <3>1 DEF PhaseOK, HandlerStates
    <3>2. CASE b \in Runs
      BY <1>1, <2>1, <3>2, Constants DEF ActorTypes, PhaseOK, SameUnlessCancelled
    <3> QED
      BY <3>1, <3>2 DEF Actors
  <2> QED
    BY <2>1, <2>2 DEF ActorTypes
<1>10. ASSUME NEW a \in Actors, NEW state \in ActorStates, Goto(a, state),
              a = Handler => state \in HandlerStates, a # Handler => state \in RunStates
       PROVE  ActorTypes'
  <2>1. actor' \in [Actors -> ActorRecords] /\ Only(a) /\ actor'[a].pc = state
    BY <1>1, <1>10, GotoEffect
  <2> QED
    BY <1>3, <1>10, <2>1 DEF PhaseOK
<1>11. ASSUME HandlerMove  PROVE ActorTypes'
  <2>1. CASE Schedule
    <3>1. actor[Handler].doc \in Docs /\ spawned < MaxRuns /\ generation' \in Nat
      BY <2>1 DEF Schedule, HandlesOK, CountersOK, pc, TypesOK, TypeOK
    <3> QED
      BY <1>6, <2>1, <3>1 DEF Schedule
  <2>2. CASE CloseAwaited
    BY <1>10, <2>2, Constants DEF CloseAwaited, ActorStates, HandlerStates
  <2>3. CASE CloseClear
    BY <1>10, <2>3, Constants DEF CloseClear, ActorStates, HandlerStates, SweepStates
  <2>4. CASE CloseRestore
    <3>1. /\ actor' \in [Actors -> ActorRecords] /\ Only(Handler)
          /\ actor'[Handler].pc = "restored"
      BY <2>4, CloseRestoreEffect
    <3> QED
      BY <1>3, <3>1, Constants DEF PhaseOK, HandlerStates
  <2>5. CASE CloseGeneration
    <3>1. actor' \in [Actors -> ActorRecords] /\ Only(Handler) /\ actor'[Handler].pc = "clear"
      BY <2>5, CloseGenerationEffect
    <3> QED
      BY <1>3, <3>1, Constants DEF PhaseOK, HandlerStates
  <2> QED
    BY <1>5, <1>11, <2>1, <2>2, <2>3, <2>4, <2>5, Constants DEF HandlerMove, HandlerStep, SweepMove
<1>12. ASSUME NEW r \in Runs, RunMove(r)  PROVE ActorTypes'
  <2>1. r \in Actors /\ r # Handler
    BY Constants
  <2>2. CASE Begin(r)
    <3>1. actor[r].doc \in Docs
      BY <2>2 DEF Begin, HandlesOK, pc
    <3>2. /\ actor' \in [Actors -> ActorRecords] /\ Only(r)
          /\ actor'[r] = Finish(r) \/ actor'[r].pc = "snapshot"
      BY <2>2, <3>1, BeginEffect
    <3>3. actor'[r].pc \in {"over", "snapshot"}
      BY <1>1, <2>1, <3>2, FinishFields DEF RestState
    <3> QED
      BY <1>3, <2>1, <3>2, <3>3 DEF PhaseOK, RunStates, PermitStates
  <2>3. CASE Index(r)
    BY <1>10, <2>1, <2>3 DEF Index, ActorStates, RunStates, PermitStates
  <2>4. CASE Validate(r)
    <3>1. actor' \in [Actors -> ActorRecords] /\ Only(r) /\ actor'[r].pc = "checked"
      BY <2>4, ValidateEffect
    <3> QED
      BY <1>3, <2>1, <3>1 DEF PhaseOK, RunStates, PermitStates
  <2>5. CASE CancelValidate(r) \/ Abort(r)
    BY <1>4, <2>1, <2>5 DEF CancelValidate, Abort, Becomes
  <2>6. CASE Accept(r)
    <3>1. Goto(r, "accepted") \/ Becomes(r, Finish(r))
      BY <2>6 DEF Accept, Becomes
    <3> QED
      BY <1>4, <1>10, <2>1, <3>1 DEF ActorStates, RunStates, PermitStates
  <2>7. CASE Publish(r)
    BY <1>10, <2>1, <2>7 DEF Publish, ActorStates, RunStates, PermitStates, SweepStates
  <2>8. CASE Cleanup(r)
    <3>1. /\ actor' \in [Actors -> ActorRecords] /\ Only(r)
          /\ actor'[r] = Resting("cleaned")
      BY <2>8, CleanupEffect
    <3> QED
      BY <1>3, <2>1, <3>1, RestingFields DEF PhaseOK, RunStates
  <2> QED
    BY <1>5, <1>12, <2>1, <2>2, <2>3, <2>4, <2>5, <2>6, <2>7, <2>8 DEF RunMove, RunStep, SweepMove
<1>13. UNCHANGED vars => ActorTypes'
  BY <1>1 DEF vars, ActorTypes, PhaseOK
<1> QED
  BY <1>7, <1>8, <1>9, <1>11, <1>12, <1>13, NextMoves DEF Edit, Close

LEMMA NamesStep ==
    ASSUME names \in BOOLEAN, [Next]_vars
    PROVE  names' \in BOOLEAN
<1>1. ASSUME NEW a \in Actors, SweepMove(a)  PROVE names' \in {names, TRUE, FALSE}
  BY <1>1 DEF SweepMove, SweepStep, Answer, EndRefresh, DrainNames, ReadPending,
     SnapshotDependents, SweepOne, Superseded, SendOne, EndSweep, ClearPending, sweepVars
<1>2. HandlerMove => names' \in {names, TRUE, FALSE}
  BY <1>1, Constants DEF HandlerMove, HandlerStep, SweepMove, Schedule, CloseAwaited,
     CloseRestore, CloseGeneration, CloseClear, sweepVars
<1>3. ASSUME NEW r \in Runs, RunMove(r)  PROVE names' \in {names, TRUE, FALSE}
  BY <1>1, <1>3, Constants DEF RunMove, RunStep, SweepMove, Begin, Index, Validate,
     CancelValidate, Accept, Publish, Abort, Cleanup, sweepVars
<1>4. Edit \/ Close => names' = names
  BY DEF Edit, Close, DidOpen, DidChange, DidSave, DidClose, sweepVars
<1> QED
  BY <1>2, <1>3, <1>4, NextMoves DEF vars, sweepVars

LEMMA TypesStep ==
    ASSUME TypesOK, CountersOK, HandlesOK, CurrentTreeIsOfBuffer, [Next]_vars
    PROVE  TypesOK'
<1>1. DocTypes' /\ SharedTypes' /\ PublishedTypes' /\ ActorTypes'
  BY DocTypesStep, SharedTypesStep, PublishedTypesStep, ActorTypesStep
<1>2. names' \in BOOLEAN
  BY TypeParts, NamesStep
<1> QED
  BY <1>1, <1>2 DEF TypesOK, TypeOK, DocTypes, SharedTypes, PublishedTypes, Publication,
     ActorTypes, PhaseOK, pc

-----------------------------------------------------------------------------
(* The steps, by whose local state they change *)

\* The step that starts a run for d: after an edit, or on a save.
StartsRun(d) ==
    \/ Schedule /\ actor[Handler].doc = d
    \/ DidSave(d) /\ spawned' # spawned
\* A save of what needs no run.
QuietSave(d) == DidSave(d) /\ UNCHANGED <<spawned, handles, actor>>

LEMMA StartsRunEffect ==
    ASSUME DocumentsInv, NEW d \in Docs, StartsRun(d)
    PROVE  /\ actor'[Handler] = Resting("idle")
           /\ spawned' = spawned + 1 /\ spawned + 1 \in Runs
           /\ handles' = [handles EXCEPT ![d] = spawned + 1]
           /\ LET run == actor'[spawned + 1] IN
              /\ run.pc = "waiting" /\ run.doc = d /\ run.version = version[d]
              /\ run.gen = generation' /\ run.cancelled = FALSE /\ run.text = 0
              /\ run.covered = 0 /\ run.sweep = NoSweep
           /\ \A b \in Actors \ {Handler, spawned + 1} : SameUnlessCancelled(b, d)
           /\ UNCHANGED <<docVars, index, sweepVars, published>>
           /\ generation' \in {generation, generation + 1}
           /\ \/ pc(Handler) = "edited" /\ generation' = generation + 1
              \/ pc(Handler) = "idle" /\ generation' = generation
           /\ spawned < MaxRuns
           /\ UNCHANGED disk \/ open[d]
<1>1. TypesOK /\ HandlesOK /\ CountersOK
  BY DEF DocumentsInv
<1>2. generation \in Nat /\ generation + 1 \in Nat
  BY <1>1 DEF TypesOK, TypeOK
<1>3. CASE Schedule /\ actor[Handler].doc = d
  <2>1. Spawn(d, generation', "idle") /\ generation' = generation + 1 /\ pc(Handler) = "edited"
    BY <1>3 DEF Schedule
  <2>2. spawned < MaxRuns
    BY <1>1, <2>1 DEF CountersOK
  <2>3. UNCHANGED <<docVars, disk, index, sweepVars, published>>
    BY <1>3 DEF Schedule
  <2>4. Spawn(d, generation + 1, "idle")
    BY <2>1
  <2> QED
    BY <1>1, <1>2, <2>1, <2>2, <2>3, <2>4, NextRunIsNew, SpawnEffect
<1>4. CASE DidSave(d) /\ spawned' # spawned
  <2>1. /\ Spawn(d, generation, "idle") /\ spawned < MaxRuns
        /\ generation' = generation /\ pc(Handler) = "idle" /\ open[d]
        /\ UNCHANGED <<docVars, index, sweepVars, published>>
    BY <1>4 DEF DidSave
  <2> QED
    BY <1>1, <1>2, <2>1, NextRunIsNew, SpawnEffect
<1> QED
  BY <1>3, <1>4 DEF StartsRun

\* The case split of the proofs below.
LEMMA NextCases ==
    ASSUME DocumentsInv, [Next]_vars
    PROVE  \/ UNCHANGED vars
           \/ \E d \in Docs :
                DidOpen(d) \/ DidChange(d) \/ DidClose(d) \/ StartsRun(d) \/ QuietSave(d)
           \/ CloseAwaited \/ CloseRestore \/ CloseGeneration \/ CloseClear
           \/ SweepMove(Handler)
           \/ \E r \in Runs : RunMove(r)
<1>1. TypesOK /\ HandlesOK
  BY DEF DocumentsInv
<1>2. Schedule => \E d \in Docs : StartsRun(d)
  BY <1>1 DEF Schedule, HandlesOK, StartsRun
<1>3. ASSUME NEW d \in Docs, DidSave(d)  PROVE StartsRun(d) \/ QuietSave(d)
  <2>1. UNCHANGED <<spawned, handles, actor>> \/ spawned' = spawned + 1
    BY <1>3 DEF DidSave, Spawn
  <2>2. spawned + 1 # spawned
    BY <1>1, <1>3, NextRunIsNew
  <2> QED
    BY <1>3, <2>1, <2>2 DEF StartsRun, QuietSave
<1> QED
  BY <1>2, <1>3, NextMoves DEF Edit, Close, HandlerMove, HandlerStep, SweepMove

LEMMA RunAlone ==
    ASSUME DocumentsInv, NEW r \in Runs, RunMove(r)
    PROVE  Only(r) /\ r \in Actors /\ actor'[Handler] = actor[Handler]
<1>1. TypesOK /\ HandlesOK /\ CurrentTreeIsOfBuffer /\ r \in Actors /\ Handler \in Actors \ {r}
  BY Constants DEF DocumentsInv
<1>2. ASSUME NEW state \in ActorStates, Goto(r, state)  PROVE Only(r)
  BY <1>1, <1>2, Typing, GotoEffect
<1>3. ASSUME Becomes(r, Finish(r))  PROVE Only(r)
  BY <1>1, <1>3, Typing, FinishEffect
<1>4. Begin(r) => Only(r)
  BY <1>1, BeginEffect DEF Begin, HandlesOK, pc
<1>5. Index(r) \/ Publish(r) => Only(r)
  BY <1>2 DEF Index, Publish, ActorStates, RunStates, PermitStates, SweepStates
<1>6. Accept(r) => Only(r)
  BY <1>2, <1>3 DEF Accept, Becomes, ActorStates, RunStates, PermitStates
<1>7. CancelValidate(r) \/ Abort(r) => Only(r)
  BY <1>3 DEF CancelValidate, Abort, Becomes
<1>8. Validate(r) => Only(r)
  BY <1>1, ValidateEffect
<1>9. Cleanup(r) => Only(r)
  BY <1>1, CleanupEffect
<1>10. SweepMove(r) => Only(r)
  BY <1>1, SweepMoveEffect
<1>11. Only(r)
  BY <1>4, <1>5, <1>6, <1>7, <1>8, <1>9, <1>10 DEF RunMove, RunStep, SweepMove
<1> QED
  BY <1>1, <1>11 DEF Only

\* The steps of a close and of its sweeps.
CloseStates == {"awaiting", "closed", "restored", "clear"}
HandlerProgress ==
    CloseAwaited \/ CloseRestore \/ CloseGeneration \/ CloseClear \/ SweepMove(Handler)

LEMMA HandlerProgressEffect ==
    ASSUME DocumentsInv, HandlerProgress
    PROVE  /\ Only(Handler)
           /\ UNCHANGED <<docVars, disk, handles, spawned>>
           /\ \/ actor'[Handler] \in Gone(Handler)
              \/ /\ actor'[Handler].doc = actor[Handler].doc
                 /\ actor'[Handler].text = actor[Handler].text
                 /\ actor'[Handler].covered = actor[Handler].covered
                 /\ actor'[Handler].gen \in {actor[Handler].gen, generation'}
                 /\ actor'[Handler].sweep.revision
                        \in {actor[Handler].sweep.revision, exports.revision}
                 /\ actor'[Handler].pc # "idle" /\ actor'[Handler].pc # "edited"
                 /\ actor'[Handler].pc \in CloseStates => pc(Handler) \in CloseStates
           /\ pc(Handler) # "idle" /\ pc(Handler) # "edited"
           /\ exports'.revision = exports.revision
           /\ generation' \in {generation, generation + 1}
<1>1. TypesOK /\ HandlesOK /\ CurrentTreeIsOfBuffer /\ Handler \in Actors
  BY Constants DEF DocumentsInv
<1>2. CASE CloseAwaited
  <2>1. Goto(Handler, "closed") /\ "closed" \in ActorStates
    BY <1>2 DEF CloseAwaited, ActorStates, HandlerStates
  <2>2. /\ Only(Handler) /\ SameRun(Handler) /\ actor'[Handler].pc = "closed"
        /\ actor'[Handler].sweep = actor[Handler].sweep
    BY <1>1, <2>1, Typing, GotoEffect
  <2> QED
    BY <1>2, <2>2 DEF CloseAwaited, CloseStates, SameRun, SameCore, sweepVars, pc
<1>3. CASE CloseClear
  <2>1. Goto(Handler, "published") /\ "published" \in ActorStates
    BY <1>3 DEF CloseClear, ActorStates, HandlerStates, SweepStates
  <2>2. /\ Only(Handler) /\ SameRun(Handler) /\ actor'[Handler].pc = "published"
        /\ actor'[Handler].sweep = actor[Handler].sweep
    BY <1>1, <2>1, Typing, GotoEffect
  <2> QED
    BY <1>3, <2>2 DEF CloseClear, CloseStates, SameRun, SameCore, sweepVars, pc
<1>4. CASE CloseRestore
  <2>1. /\ Only(Handler) /\ SameRun(Handler) /\ actor'[Handler].pc = "restored"
        /\ actor'[Handler].sweep = actor[Handler].sweep
    BY <1>1, <1>4, CloseRestoreEffect
  <2> QED
    BY <1>4, <2>1 DEF CloseRestore, CloseStates, SameRun, SameCore, sweepVars, pc
<1>5. CASE CloseGeneration
  <2>1. generation' = generation + 1
    BY <1>5 DEF CloseGeneration
  <2> QED
    BY <1>1, <1>5, <2>1, CloseGenerationEffect DEF CloseGeneration, CloseStates, sweepVars, pc
<1>6. CASE SweepMove(Handler)
  <2>1. /\ Only(Handler)
        /\ actor[Handler].pc \in SweepStates \cup {"refreshing"}
        /\ \/ actor'[Handler] \in Gone(Handler)
           \/ /\ SameRun(Handler)
              /\ actor'[Handler].pc \in SweepStates
              /\ actor'[Handler].sweep.revision
                    \in {actor[Handler].sweep.revision, exports.revision}
        /\ UNCHANGED <<docVars, disk, index, generation, handles, spawned>>
        /\ exports'.revision = exports.revision
    BY <1>1, <1>6, SweepMoveEffect
  <2>2. /\ "idle" \notin SweepStates /\ "edited" \notin SweepStates
        /\ SweepStates \cap CloseStates = {}
    BY DEF SweepStates, CloseStates
  <2> QED
    BY <2>1, <2>2 DEF SameRun, SameCore, pc
<1> QED
  BY <1>2, <1>3, <1>4, <1>5, <1>6 DEF HandlerProgress

LEMMA RunMoveEffect ==
    ASSUME DocumentsInv, NEW r \in Runs, RunMove(r)
    PROVE  /\ Only(r) /\ actor'[Handler] = actor[Handler]
           /\ UNCHANGED <<open, version, text, content, disk, generation, spawned>>
           /\ actor[r].doc \in Docs /\ pc(r) \notin {"unborn", "cleaned"}
           /\ \/ actor'[r] \in Gone(r)
              \/ Cleanup(r) /\ actor'[r] = Resting("cleaned")
              \/ /\ actor'[r].doc = actor[r].doc
                 /\ actor'[r].gen = actor[r].gen
                 /\ actor'[r].text \in {actor[r].text, text[actor[r].doc]}
                 /\ actor'[r].covered \in {actor[r].covered, exports.revision}
                 /\ actor'[r].sweep.revision \in {actor[r].sweep.revision, exports.revision}
           /\ UNCHANGED handles \/ Cleanup(r)
           /\ exports'.revision \in {exports.revision, exports.revision + 1}
<1>1. TypesOK /\ HandlesOK /\ CurrentTreeIsOfBuffer
  BY DEF DocumentsInv
<1>2. Only(r) /\ r \in Actors /\ actor'[Handler] = actor[Handler]
  BY RunAlone
<1> DEFINE Change ==
        \/ actor'[r] \in Gone(r)
        \/ Cleanup(r) /\ actor'[r] = Resting("cleaned")
        \/ /\ actor'[r].doc = actor[r].doc
           /\ actor'[r].gen = actor[r].gen
           /\ actor'[r].text \in {actor[r].text, text[actor[r].doc]}
           /\ actor'[r].covered \in {actor[r].covered, exports.revision}
           /\ actor'[r].sweep.revision \in {actor[r].sweep.revision, exports.revision}
<1>3. ASSUME SweepMove(r)
      PROVE  /\ Change /\ actor[r].pc \in SweepStates \cup {"refreshing"}
             /\ UNCHANGED <<open, version, text, content, disk, generation, spawned, handles>>
             /\ exports'.revision = exports.revision
  <2>1. /\ actor[r].pc \in SweepStates \cup {"refreshing"}
        /\ \/ actor'[r] \in Gone(r)
           \/ /\ SameRun(r)
              /\ actor'[r].sweep.revision \in {actor[r].sweep.revision, exports.revision}
        /\ UNCHANGED <<docVars, disk, index, generation, handles, spawned>>
        /\ exports'.revision = exports.revision
    BY <1>1, <1>2, <1>3, SweepMoveEffect
  <2> QED
    BY <2>1 DEF SameRun, SameCore, docVars
<1>4. pc(r) \notin {"unborn", "cleaned"}
  BY <1>3 DEF RunMove, RunStep, SweepMove, Begin, Index, Validate, CancelValidate, Accept,
     Publish, Abort, Cleanup, pc, SweepStates, AwaitStates
<1>5. actor[r].doc \in Docs
  BY <1>1, <1>4 DEF HandlesOK
<1>6. UNCHANGED <<open, version, text, content, disk, generation, spawned>>
  BY <1>3 DEF RunMove, RunStep, SweepMove, Begin, Index, Validate, CancelValidate, Accept,
     Publish, Abort, Cleanup, docVars
<1>7. UNCHANGED handles \/ Cleanup(r)
  BY <1>3 DEF RunMove, RunStep, SweepMove, Begin, Index, Validate, CancelValidate, Accept,
     Publish, Abort
<1>8. exports'.revision \in {exports.revision, exports.revision + 1}
  <2>1. \/ exports' = exports \/ SweepMove(r)
        \/ exports' = [revision |-> exports.revision + 1, pending |-> TRUE]
    BY DEF RunMove, RunStep, SweepMove, Begin, Index, Validate, CancelValidate, Accept, Publish,
       Abort, Cleanup, sweepVars
  <2> QED
    BY <1>3, <2>1
<1>9. ASSUME NEW state \in ActorStates, Goto(r, state)  PROVE Change
  BY <1>1, <1>2, <1>9, Typing, GotoEffect DEF SameRun, SameCore
<1>10. ASSUME Becomes(r, Finish(r))  PROVE Change
  BY <1>1, <1>2, <1>10, Typing, FinishEffect DEF Gone
<1>11. Begin(r) => Change
  BY <1>1, <1>5, BeginEffect DEF Gone
<1>12. Index(r) \/ Publish(r) => Change
  BY <1>9 DEF Index, Publish, ActorStates, RunStates, PermitStates, SweepStates
<1>13. Accept(r) => Change
  BY <1>9, <1>10 DEF Accept, Becomes, ActorStates, RunStates, PermitStates
<1>14. CancelValidate(r) \/ Abort(r) => Change
  BY <1>10 DEF CancelValidate, Abort, Becomes
<1>15. Validate(r) => Change
  BY <1>1, ValidateEffect
<1>16. Cleanup(r) => Change
  BY <1>1, CleanupEffect
<1> HIDE DEF Change
<1>17. Change
  BY <1>3, <1>11, <1>12, <1>13, <1>14, <1>15, <1>16 DEF RunMove, RunStep, SweepMove
<1> QED
  BY <1>2, <1>4, <1>5, <1>6, <1>7, <1>8, <1>17 DEF Change

-----------------------------------------------------------------------------
(* Counters and handles *)

DocCounters(d) ==
    /\ text[d] <= Newest
    /\ version[d] <= Newest + 1
    /\ astVersion[d] <= version[d]
ActorCounters(a) ==
    /\ actor[a].text <= Newest
    /\ actor[a].gen <= generation
    /\ actor[a].covered <= exports.revision
    /\ actor[a].sweep.revision <= exports.revision

LEMMA CounterParts ==
    CountersOK <=> /\ pc(Handler) = "edited" => spawned < MaxRuns
                   /\ \A d \in Docs : DocCounters(d)
                   /\ \A a \in Actors : ActorCounters(a)
BY DEF CountersOK, DocCounters, ActorCounters

LEMMA CounterTypes ==
    ASSUME TypesOK
    PROVE  /\ spawned \in Nat /\ Newest \in Nat /\ generation \in Nat /\ exports.revision \in Nat
           /\ Newest \in {spawned, spawned + 1}
           /\ \A d \in Docs : text[d] \in Nat /\ version[d] \in Nat /\ astVersion[d] \in Nat
           /\ \A a \in Actors : /\ actor[a].text \in Nat /\ actor[a].gen \in Nat
                                /\ actor[a].covered \in Nat /\ actor[a].sweep.revision \in Nat
<1>1. spawned \in Nat /\ generation \in Nat /\ exports.revision \in Nat
  BY ConstantsAssumption DEF ConstantsAssumption, TypesOK, TypeOK
<1>2. ASSUME NEW d \in Docs
      PROVE  text[d] \in Nat /\ version[d] \in Nat /\ astVersion[d] \in Nat
  BY ConstantsAssumption DEF ConstantsAssumption, TypesOK, TypeOK
<1> QED
  BY <1>1, <1>2, Typing DEF Newest

\* An actor that knows nothing new stays within the counters, which only grow.
LEMMA CountersKept ==
    ASSUME TypesOK, CountersOK, TypesOK', Newest <= Newest', generation <= generation',
           exports.revision <= exports'.revision
    PROVE  /\ \A a \in Actors :
                /\ actor'[a].text \in {0, actor[a].text} \cup {text[d] : d \in Docs}
                /\ actor'[a].gen \in {0, actor[a].gen, generation'}
                /\ actor'[a].covered \in {0, actor[a].covered, exports.revision}
                /\ actor'[a].sweep.revision \in {0, actor[a].sweep.revision, exports.revision}
                => ActorCounters(a)'
           /\ UNCHANGED docVars => \A d \in Docs : DocCounters(d)'
<1>1. /\ Newest \in Nat /\ generation \in Nat /\ exports.revision \in Nat
      /\ Newest' \in Nat /\ generation' \in Nat /\ exports'.revision \in Nat
  <2>1. spawned' \in Nat /\ generation' \in Nat /\ exports'.revision \in Nat
    <3>1. /\ spawned' \in 0 .. MaxRuns /\ generation' \in Nat
          /\ exports' \in [revision : Nat, pending : BOOLEAN]
      BY DEF TypesOK, TypeOK
    <3> QED
      BY <3>1, ConstantsAssumption DEF ConstantsAssumption
  <2>2. Newest' \in {spawned', spawned' + 1}
    BY DEF Newest
  <2> QED
    BY <2>1, <2>2, CounterTypes
<1>2. ASSUME NEW a \in Actors,
             actor'[a].text \in {0, actor[a].text} \cup {text[d] : d \in Docs},
             actor'[a].gen \in {0, actor[a].gen, generation'},
             actor'[a].covered \in {0, actor[a].covered, exports.revision},
             actor'[a].sweep.revision \in {0, actor[a].sweep.revision, exports.revision}
      PROVE  ActorCounters(a)'
  <2>1. /\ actor[a].text \in Nat /\ actor[a].gen \in Nat
        /\ actor[a].covered \in Nat /\ actor[a].sweep.revision \in Nat
    BY CounterTypes
  <2>2. ActorCounters(a)
    BY CounterParts
  <2>3. actor'[a].text <= Newest'
    <3>1. ASSUME NEW d \in Docs, actor'[a].text = text[d]  PROVE actor'[a].text <= Newest'
      <4>1. text[d] \in Nat /\ text[d] <= Newest
        BY CounterParts, CounterTypes DEF DocCounters
      <4> QED
        BY <1>1, <3>1, <4>1
    <3> QED
      BY <1>1, <1>2, <2>1, <2>2, <3>1 DEF ActorCounters
  <2>4. /\ actor'[a].gen <= generation'
        /\ actor'[a].covered <= exports'.revision
        /\ actor'[a].sweep.revision <= exports'.revision
    BY <1>1, <1>2, <2>1, <2>2 DEF ActorCounters
  <2> QED
    BY <2>3, <2>4 DEF ActorCounters
<1>3. ASSUME UNCHANGED docVars, NEW d \in Docs  PROVE DocCounters(d)'
  <2>1. DocCounters(d) /\ text[d] \in Nat /\ version[d] \in Nat
    BY CounterParts, CounterTypes
  <2>2. text[d] <= Newest' /\ version[d] <= Newest' + 1 /\ astVersion[d] <= version[d]
    BY <1>1, <2>1 DEF DocCounters
  <2> QED
    BY <1>3, <2>2 DEF DocCounters, docVars
<1> QED
  BY <1>2, <1>3

LEMMA CountersStep ==
    ASSUME DocumentsInv, TypesOK', [Next]_vars
    PROVE  CountersOK'
<1>1. TypesOK /\ CountersOK /\ HandlesOK /\ CurrentTreeIsOfBuffer /\ Handler \in Actors
  BY Constants DEF DocumentsInv
<1>2. /\ spawned \in Nat /\ Newest \in Nat /\ generation \in Nat /\ exports.revision \in Nat
      /\ Newest \in {spawned, spawned + 1}
      /\ \A d \in Docs : text[d] \in Nat /\ version[d] \in Nat /\ astVersion[d] \in Nat
      /\ \A d \in Docs : DocCounters(d)
  BY <1>1, CounterTypes, CounterParts
<1> DEFINE Actor(a) ==
              /\ actor'[a].text \in {0, actor[a].text} \cup {text[d] : d \in Docs}
              /\ actor'[a].gen \in {0, actor[a].gen, generation'}
              /\ actor'[a].covered \in {0, actor[a].covered, exports.revision}
              /\ actor'[a].sweep.revision \in {0, actor[a].sweep.revision, exports.revision}
           Grow == /\ Newest <= Newest' /\ generation <= generation'
                   /\ exports.revision <= exports'.revision
                   /\ pc(Handler)' = "edited" => spawned' < MaxRuns
<1>3. ASSUME Grow, \A a \in Actors : Actor(a)
      PROVE  /\ \A a \in Actors : ActorCounters(a)'
             /\ UNCHANGED docVars => \A d \in Docs : DocCounters(d)'
  BY <1>1, <1>3, CountersKept
<1>4. ASSUME Grow, \A a \in Actors : Actor(a), \A d \in Docs : DocCounters(d)'
      PROVE  CountersOK'
  <2>1. pc(Handler)' = "edited" => spawned' < MaxRuns
    BY <1>4
  <2>2. \A a \in Actors : ActorCounters(a)'
    BY <1>3, <1>4
  <2> QED
    BY <1>4, <2>1, <2>2 DEF CountersOK, DocCounters, ActorCounters
<1>5. ASSUME Grow, \A a \in Actors : Actor(a), UNCHANGED docVars  PROVE CountersOK'
  BY <1>3, <1>4, <1>5
<1>6. ASSUME NEW a \in Actors, actor'[a] = actor[a]  PROVE Actor(a)
  BY <1>6
<1>7. ASSUME NEW a \in Actors, actor'[a] \in Gone(a)  PROVE Actor(a)
  <2>1. /\ actor'[a].text = 0 /\ actor'[a].gen = 0 /\ actor'[a].covered = 0
        /\ actor'[a].sweep.revision = 0
    BY <1>1, <1>7, Typing, GoneFields, NoSweepFields
  <2> QED
    BY <2>1
<1>8. ASSUME NEW a \in Actors, NEW d, SameUnlessCancelled(a, d)  PROVE Actor(a)
  BY <1>8 DEF SameUnlessCancelled
<1>9. ASSUME UNCHANGED <<actor, spawned, generation>>, UNCHANGED exports, UNCHANGED docVars
      PROVE  CountersOK'
  <2>1. Newest' = Newest /\ pc(Handler)' = pc(Handler)
    BY <1>9 DEF Newest, pc
  <2>2. Grow
    BY <1>1, <1>2, <1>9, <2>1 DEF CountersOK
  <2> HIDE DEF Grow
  <2>3. \A a \in Actors : Actor(a)
    BY <1>6, <1>9
  <2> HIDE DEF Actor
  <2> QED
    BY <1>5, <1>9, <2>2, <2>3
<1>10. ASSUME NEW d \in Docs, NEW v \in Nat, NEW c, SetBuffer(d, v, c), v <= spawned + 2,
              pc(Handler) = "idle", spawned < MaxRuns,
              UNCHANGED <<spawned, generation, exports>>,
              \A e \in Docs : astVersion'[e] = astVersion[e] \/ astVersion'[e] = 0,
              astVersion'[d] <= v
       PROVE  CountersOK'
  <2>1. /\ Only(Handler) /\ actor'[Handler].pc = "edited"
        /\ actor'[Handler].text = actor[Handler].text
        /\ actor'[Handler].gen = actor[Handler].gen
        /\ actor'[Handler].covered = actor[Handler].covered
        /\ actor'[Handler].sweep = actor[Handler].sweep
    BY <1>1, <1>10, EditEffect
  <2>2. Newest = spawned /\ Newest' = spawned + 1 /\ pc(Handler)' = "edited"
    BY <1>10, <2>1 DEF Newest, pc
  <2>3. Grow
    BY <1>2, <1>10, <2>2
  <2> HIDE DEF Grow
  <2>4. \A a \in Actors : Actor(a)
    BY <1>6, <2>1 DEF Only
  <2> HIDE DEF Actor
  <2>5. ASSUME NEW e \in Docs  PROVE DocCounters(e)'
    <3>1. /\ text' = [text EXCEPT ![d] = spawned + 1]
          /\ version' = [version EXCEPT ![d] = v]
      BY <1>10 DEF SetBuffer
    <3>2. /\ text[e] <= spawned /\ version[e] <= spawned + 1 /\ astVersion[e] <= version[e]
          /\ text[e] \in Nat /\ version[e] \in Nat /\ astVersion[e] \in Nat
      BY <1>2, <2>2 DEF DocCounters
    <3>3. text'[e] \in {text[e], spawned + 1}
      BY <1>1, <3>1 DEF TypesOK, TypeOK
    <3>4. version'[e] = IF e = d THEN v ELSE version[e]
      BY <1>1, <3>1 DEF TypesOK, TypeOK
    <3>5. /\ text'[e] <= spawned + 1 /\ version'[e] <= spawned + 1 + 1
          /\ astVersion'[e] <= version'[e]
      BY <1>2, <1>10, <3>2, <3>3, <3>4
    <3> QED
      BY <2>2, <3>5 DEF DocCounters
  <2> QED
    BY <1>4, <2>3, <2>4, <2>5
<1>11. ASSUME NEW d \in Docs, DidOpen(d)  PROVE CountersOK'
  <2>1. PICK c \in Contents : SetBuffer(d, 1, c)
    BY <1>11 DEF DidOpen
  <2>2. /\ pc(Handler) = "idle" /\ spawned < MaxRuns
        /\ UNCHANGED <<spawned, generation, exports>>
        /\ astVersion' = [astVersion EXCEPT ![d] = 0]
    BY <1>11 DEF DidOpen, sweepVars
  <2>3. /\ \A e \in Docs : astVersion'[e] = astVersion[e] \/ astVersion'[e] = 0
        /\ astVersion'[d] <= 1 /\ 1 \in Nat /\ 1 <= spawned + 2
    BY <1>1, <1>2, <2>2 DEF TypesOK, TypeOK
  <2> QED
    BY <1>10, <2>1, <2>2, <2>3
<1>12. ASSUME NEW d \in Docs, DidChange(d)  PROVE CountersOK'
  <2>1. PICK c \in Contents : SetBuffer(d, version[d] + 1, c)
    BY <1>12 DEF DidChange
  <2>2. /\ pc(Handler) = "idle" /\ spawned < MaxRuns
        /\ UNCHANGED <<spawned, generation, exports>> /\ astVersion' = astVersion
    BY <1>12 DEF DidChange, sweepVars
  <2>3. Newest = spawned
    BY <2>2 DEF Newest
  <2>4. /\ version[d] + 1 \in Nat /\ version[d] + 1 <= spawned + 2
        /\ astVersion[d] <= version[d] + 1
    BY <1>2, <2>3 DEF DocCounters
  <2> QED
    BY <1>10, <2>1, <2>2, <2>4
<1>13. ASSUME NEW d \in Docs, DidClose(d)  PROVE CountersOK'
  <2>1. /\ actor'[Handler].pc = "awaiting"
        /\ actor'[Handler].text = 0 /\ actor'[Handler].gen = 0
        /\ actor'[Handler].covered = 0 /\ actor'[Handler].sweep = NoSweep
        /\ \A b \in Runs : SameUnlessCancelled(b, d)
    BY <1>1, <1>13, CloseEffect
  <2>2. /\ pc(Handler) = "idle" /\ UNCHANGED <<spawned, generation, exports>>
        /\ text' = [text EXCEPT ![d] = 0]
        /\ version' = [version EXCEPT ![d] = 0]
        /\ astVersion' = [astVersion EXCEPT ![d] = 0]
    BY <1>13 DEF DidClose, sweepVars
  <2>3. Newest' = spawned /\ Newest = spawned /\ pc(Handler)' = "awaiting"
    BY <2>1, <2>2 DEF Newest, pc
  <2>4. Grow
    BY <1>2, <2>2, <2>3
  <2> HIDE DEF Grow
  <2>5. \A a \in Actors : Actor(a)
    BY <1>8, <2>1, NoSweepFields DEF Actors
  <2> HIDE DEF Actor
  <2>6. ASSUME NEW e \in Docs  PROVE DocCounters(e)'
    <3>1. /\ text[e] <= spawned /\ version[e] <= spawned + 1 /\ astVersion[e] <= version[e]
          /\ text[e] \in Nat /\ version[e] \in Nat /\ astVersion[e] \in Nat
      BY <1>2, <2>3 DEF DocCounters
    <3>2. \/ text'[e] = text[e] /\ version'[e] = version[e] /\ astVersion'[e] = astVersion[e]
          \/ text'[e] = 0 /\ version'[e] = 0 /\ astVersion'[e] = 0
      BY <1>1, <2>2 DEF TypesOK, TypeOK
    <3> QED
      BY <1>2, <2>3, <3>1, <3>2 DEF DocCounters
  <2> QED
    BY <1>4, <2>4, <2>5, <2>6
<1>14. ASSUME NEW d \in Docs, StartsRun(d)  PROVE CountersOK'
  <2>1. /\ actor'[Handler] = Resting("idle")
        /\ spawned' = spawned + 1 /\ spawned + 1 \in Runs
        /\ actor'[spawned + 1].gen = generation' /\ actor'[spawned + 1].text = 0
        /\ actor'[spawned + 1].covered = 0 /\ actor'[spawned + 1].sweep = NoSweep
        /\ \A b \in Actors \ {Handler, spawned + 1} : SameUnlessCancelled(b, d)
        /\ UNCHANGED <<docVars, sweepVars>>
        /\ generation' \in {generation, generation + 1}
    BY <1>14, StartsRunEffect
  <2>2. /\ Resting("idle").pc = "idle" /\ Resting("idle").text = 0 /\ Resting("idle").gen = 0
        /\ Resting("idle").covered = 0 /\ Resting("idle").sweep.revision = 0
    BY RestingFields, NoSweepFields
  <2>5. Newest' = spawned + 1 /\ pc(Handler)' = "idle"
    BY <2>1, <2>2 DEF Newest, pc
  <2>3. Grow
    BY <1>2, <2>1, <2>5 DEF sweepVars
  <2> HIDE DEF Grow
  <2>4. ASSUME NEW a \in Actors  PROVE Actor(a)
    <3>1. CASE a = Handler
      BY <2>1, <2>2, <3>1
    <3>2. CASE a = spawned + 1
      BY <2>1, <3>2, NoSweepFields
    <3>3. CASE a \notin {Handler, spawned + 1}
      BY <1>8, <2>1, <3>3
    <3> QED
      BY <3>1, <3>2, <3>3
  <2> HIDE DEF Actor
  <2> QED
    BY <1>5, <2>1, <2>3, <2>4
<1>15. ASSUME HandlerProgress  PROVE CountersOK'
  <2>1. /\ Only(Handler)
        /\ UNCHANGED <<docVars, spawned>>
        /\ \/ actor'[Handler] \in Gone(Handler)
           \/ /\ actor'[Handler].text = actor[Handler].text
              /\ actor'[Handler].covered = actor[Handler].covered
              /\ actor'[Handler].gen \in {actor[Handler].gen, generation'}
              /\ actor'[Handler].sweep.revision
                        \in {actor[Handler].sweep.revision, exports.revision}
              /\ actor'[Handler].pc # "edited"
        /\ pc(Handler) # "edited"
        /\ exports'.revision = exports.revision
        /\ generation' \in {generation, generation + 1}
    BY <1>15, HandlerProgressEffect
  <2>2. pc(Handler)' # "edited"
    BY <1>1, <2>1, Typing, GoneFields DEF RestState, pc
  <2>3. Newest' = Newest
    BY <2>1, <2>2 DEF Newest
  <2>4. Grow
    BY <1>2, <2>1, <2>2, <2>3
  <2> HIDE DEF Grow
  <2>5. \A a \in Actors : Actor(a)
    BY <1>1, <1>6, <1>7, <2>1 DEF Only
  <2> HIDE DEF Actor
  <2> QED
    BY <1>5, <2>1, <2>4, <2>5
<1>16. ASSUME NEW r \in Runs, RunMove(r)  PROVE CountersOK'
  <2>1. /\ Only(r) /\ actor'[Handler] = actor[Handler]
        /\ UNCHANGED <<version, text, generation, spawned>>
        /\ actor[r].doc \in Docs
        /\ \/ actor'[r] \in Gone(r)
           \/ actor'[r] = Resting("cleaned")
           \/ /\ actor'[r].gen = actor[r].gen
              /\ actor'[r].text \in {actor[r].text, text[actor[r].doc]}
              /\ actor'[r].covered \in {actor[r].covered, exports.revision}
              /\ actor'[r].sweep.revision \in {actor[r].sweep.revision, exports.revision}
        /\ exports'.revision \in {exports.revision, exports.revision + 1}
    BY <1>16, RunMoveEffect
  <2>2. Newest' = Newest /\ pc(Handler)' = pc(Handler)
    BY <2>1 DEF Newest, pc
  <2>3. Grow
    BY <1>1, <1>2, <2>1, <2>2 DEF CountersOK
  <2> HIDE DEF Grow
  <2>4. Actor(r)
    <3>1. CASE actor'[r] = Resting("cleaned")
      <4>1. /\ Resting("cleaned").text = 0 /\ Resting("cleaned").gen = 0
            /\ Resting("cleaned").covered = 0 /\ Resting("cleaned").sweep.revision = 0
        BY RestingFields, NoSweepFields
      <4> QED
        BY <3>1, <4>1
    <3>2. CASE actor'[r] \in Gone(r)
      BY <1>7, <3>2, Constants
    <3> QED
      BY <2>1, <3>1, <3>2
  <2>5. \A a \in Actors : Actor(a)
    BY <1>6, <2>1, <2>4 DEF Only
  <2> HIDE DEF Actor
  <2>6. ASSUME NEW e \in Docs  PROVE DocCounters(e)'
    <3>1. UNCHANGED astVersion \/ Accept(r)
      <4>1. SweepMove(r) => UNCHANGED docVars
        BY <1>1, Constants, SweepMoveEffect
      <4> QED
        BY <1>16, <4>1 DEF RunMove, RunStep, SweepMove, Begin, Index, Validate, CancelValidate,
           Publish, Abort, Cleanup, docVars
    <3>2. astVersion'[e] \in {astVersion[e], version[e]}
      <4>1. CASE Accept(r) /\ SameText(r)
        <5>1. /\ astVersion' = [astVersion EXCEPT ![actor[r].doc] = actor[r].version]
              /\ version[actor[r].doc] = actor[r].version
          BY <4>1 DEF Accept, SameText, SameVersion
        <5> QED
          BY <1>1, <2>1, <5>1 DEF TypesOK, TypeOK
      <4>2. CASE Accept(r) /\ ~SameText(r)
        BY <4>2 DEF Accept
      <4> QED
        BY <3>1, <4>1, <4>2
    <3>3. DocCounters(e) /\ version[e] \in Nat
      BY <1>2
    <3> QED
      BY <2>1, <2>2, <3>2, <3>3 DEF DocCounters
  <2> QED
    BY <1>4, <2>3, <2>5, <2>6
<1>17. ASSUME UNCHANGED vars  PROVE CountersOK'
  BY <1>9, <1>17 DEF vars, sweepVars
<1>18. ASSUME NEW d \in Docs, QuietSave(d)  PROVE CountersOK'
  BY <1>9, <1>18 DEF QuietSave, DidSave, sweepVars
<1> HIDE DEF Actor, Grow
<1> QED
  BY <1>11, <1>12, <1>13, <1>14, <1>15, <1>16, <1>17, <1>18, NextCases DEF HandlerProgress

LEMMA HandlesStep ==
    ASSUME DocumentsInv, TypesOK', [Next]_vars
    PROVE  HandlesOK'
<1>1. TypesOK /\ HandlesOK /\ Handler \in Actors
  BY Constants DEF DocumentsInv
<1> DEFINE RunOK(r) == /\ r > spawned => actor[r].pc = "unborn"
                       /\ actor[r].pc \notin {"unborn", "cleaned"} => actor[r].doc \in Docs
           HandlerOK == /\ actor[Handler].pc # "idle" => actor[Handler].doc \in Docs
                        /\ actor[Handler].pc \in CloseStates => ~open[actor[Handler].doc]
           HandleOK(d) == handles[d] # NoRun =>
                             handles[d] <= spawned /\ actor[handles[d]].doc = d
<1>2. (\A r \in Runs : RunOK(r)) /\ HandlerOK /\ (\A d \in Docs : HandleOK(d))
  BY <1>1 DEF HandlesOK, CloseStates, pc
<1>3. ASSUME (\A r \in Runs : RunOK(r))', HandlerOK', (\A d \in Docs : HandleOK(d))'
      PROVE  HandlesOK'
  BY <1>3 DEF HandlesOK, CloseStates, pc
<1>4. spawned \in Nat /\ \A r \in Runs : r \in Actors /\ r # Handler /\ r \in Nat
  BY <1>1, CounterTypes, Constants
<1>5. \A d \in Docs : handles[d] # NoRun => handles[d] \in Runs
  BY <1>1, NextRunIsNew
<1>6. ASSUME UNCHANGED <<actor, spawned, handles, open>>  PROVE HandlesOK'
  BY <1>1, <1>6 DEF HandlesOK, pc
<1>7. ASSUME NEW d \in Docs, DidOpen(d) \/ DidChange(d)  PROVE HandlesOK'
  <2>1. \E v, c : SetBuffer(d, v, c)
    BY <1>7 DEF DidOpen, DidChange
  <2>2. Only(Handler) /\ actor'[Handler].pc = "edited" /\ actor'[Handler].doc = d
    BY <1>1, <2>1, EditEffect
  <2>3. UNCHANGED <<spawned, handles>>
    BY <1>7 DEF DidOpen, DidChange
  <2>4. \A r \in Runs : actor'[r] = actor[r]
    BY <1>4, <2>2 DEF Only
  <2>5. (\A r \in Runs : RunOK(r))' /\ (\A e \in Docs : HandleOK(e))'
    BY <1>2, <1>5, <2>3, <2>4
  <2>6. HandlerOK'
    BY <2>2 DEF CloseStates
  <2> HIDE DEF RunOK, HandlerOK, HandleOK
  <2> QED
    BY <1>3, <2>5, <2>6
<1>8. ASSUME NEW d \in Docs, DidClose(d)  PROVE HandlesOK'
  <2>1. /\ actor'[Handler].pc = "awaiting" /\ actor'[Handler].doc = d
        /\ \A b \in Runs : SameUnlessCancelled(b, d)
    BY <1>1, <1>8, CloseEffect
  <2>2. /\ spawned' = spawned /\ handles' = [handles EXCEPT ![d] = NoRun]
        /\ open' = [open EXCEPT ![d] = FALSE]
    BY <1>8 DEF DidClose
  <2>3. (\A r \in Runs : RunOK(r))'
    BY <1>2, <2>1, <2>2 DEF SameUnlessCancelled
  <2>4. HandlerOK'
    BY <1>1, <2>1, <2>2 DEF TypesOK, TypeOK
  <2>5. ASSUME NEW e \in Docs  PROVE HandleOK(e)'
    <3>1. handles'[e] = IF e = d THEN NoRun ELSE handles[e]
      BY <1>1, <2>2 DEF TypesOK, TypeOK
    <3>2. \A r \in Runs : actor'[r].doc = actor[r].doc
      BY <2>1 DEF SameUnlessCancelled
    <3> QED
      BY <1>2, <1>5, <2>2, <3>1, <3>2
  <2> HIDE DEF RunOK, HandlerOK, HandleOK
  <2> QED
    BY <1>3, <2>3, <2>4, <2>5
<1>9. ASSUME NEW d \in Docs, StartsRun(d)  PROVE HandlesOK'
  <2>1. /\ actor'[Handler] = Resting("idle")
        /\ spawned' = spawned + 1 /\ spawned + 1 \in Runs
        /\ handles' = [handles EXCEPT ![d] = spawned + 1]
        /\ actor'[spawned + 1].pc = "waiting" /\ actor'[spawned + 1].doc = d
        /\ \A b \in Actors \ {Handler, spawned + 1} : SameUnlessCancelled(b, d)
    BY <1>9, StartsRunEffect
  <2>2. \A r \in Runs \ {spawned + 1} :
           actor'[r].pc = actor[r].pc /\ actor'[r].doc = actor[r].doc
    BY <1>4, <2>1 DEF SameUnlessCancelled
  <2>3. (\A r \in Runs : RunOK(r))'
    BY <1>2, <1>4, <2>1, <2>2
  <2>4. HandlerOK'
    <3>1. actor'[Handler].pc = "idle"
      BY <2>1, RestingFields
    <3> QED
      BY <3>1 DEF CloseStates
  <2>5. ASSUME NEW e \in Docs  PROVE HandleOK(e)'
    <3>1. handles'[e] = IF e = d THEN spawned + 1 ELSE handles[e]
      BY <1>1, <2>1 DEF TypesOK, TypeOK
    <3>2. CASE e = d
      BY <1>4, <2>1, <3>1, <3>2
    <3>3. CASE e # d /\ handles[e] # NoRun
      <4>1. handles'[e] = handles[e] /\ handles[e] \in Runs /\ handles[e] # spawned + 1
        BY <1>1, <1>5, <3>1, <3>3, NextRunIsNew
      <4>2. actor'[handles[e]].doc = e /\ handles[e] <= spawned
        BY <1>2, <2>2, <3>3, <4>1
      <4>3. handles[e] <= spawned'
        BY <1>4, <2>1, <4>1, <4>2
      <4> QED
        BY <4>1, <4>2, <4>3
    <3> QED
      BY <3>1, <3>2, <3>3
  <2> HIDE DEF RunOK, HandlerOK, HandleOK
  <2> QED
    BY <1>3, <2>3, <2>4, <2>5
<1>10. ASSUME HandlerProgress  PROVE HandlesOK'
  <2>1. /\ Only(Handler)
        /\ UNCHANGED <<docVars, handles, spawned>>
        /\ \/ actor'[Handler] \in Gone(Handler)
           \/ /\ actor'[Handler].doc = actor[Handler].doc
              /\ actor'[Handler].pc \in CloseStates => pc(Handler) \in CloseStates
        /\ pc(Handler) # "idle"
    BY <1>10, HandlerProgressEffect
  <2>2. \A r \in Runs : actor'[r] = actor[r]
    BY <1>4, <2>1 DEF Only
  <2>3. (\A r \in Runs : RunOK(r))' /\ (\A e \in Docs : HandleOK(e))'
    BY <1>2, <1>5, <2>1, <2>2
  <2>4. HandlerOK'
    <3>1. CASE actor'[Handler] \in Gone(Handler)
      <4>1. \/ actor'[Handler].pc = "idle"
            \/ actor'[Handler].pc = "refreshing" /\ actor'[Handler].doc = actor[Handler].doc
        BY <1>1, <3>1, Typing, GoneFields DEF RestState
      <4>2. actor[Handler].doc \in Docs
        BY <1>2, <2>1 DEF pc
      <4> QED
        BY <4>1, <4>2 DEF CloseStates
    <3>2. CASE /\ actor'[Handler].doc = actor[Handler].doc
               /\ actor'[Handler].pc \in CloseStates => pc(Handler) \in CloseStates
      BY <1>2, <2>1, <3>2 DEF pc, docVars
    <3> QED
      BY <2>1, <3>1, <3>2
  <2> HIDE DEF RunOK, HandlerOK, HandleOK
  <2> QED
    BY <1>3, <2>3, <2>4
<1>11. ASSUME NEW r \in Runs, RunMove(r)  PROVE HandlesOK'
  <2>1. /\ Only(r) /\ actor'[Handler] = actor[Handler]
        /\ UNCHANGED <<open, spawned>>
        /\ actor[r].doc \in Docs /\ actor[r].pc # "unborn"
        /\ \/ actor'[r] \in Gone(r)
           \/ Cleanup(r) /\ actor'[r] = Resting("cleaned")
           \/ actor'[r].doc = actor[r].doc
        /\ UNCHANGED handles \/ Cleanup(r)
    BY <1>11, RunMoveEffect DEF pc
  <2>2. \A s \in Runs : s # r => actor'[s] = actor[s]
    BY <1>4, <2>1 DEF Only
  <2>3. actor'[r].doc = actor[r].doc \/ (Cleanup(r) /\ actor'[r].pc = "cleaned")
    <3>1. Resting("cleaned").pc = "cleaned"
      BY RestingFields
    <3>2. \A x \in Gone(r) : x.doc = actor[r].doc
      BY <1>1, <1>4, Typing, GoneFields
    <3> QED
      BY <2>1, <3>1, <3>2
  <2>4. ~(r > spawned)
    BY <1>2, <2>1
  <2>5. (\A s \in Runs : RunOK(s))'
    BY <1>2, <2>1, <2>2, <2>3, <2>4
  <2>6. HandlerOK'
    BY <1>2, <2>1
  <2>7. ASSUME NEW e \in Docs  PROVE HandleOK(e)'
    <3>1. CASE Cleanup(r)
      <4>1. handles'[e] = IF handles[e] = r THEN NoRun ELSE handles[e]
        BY <3>1 DEF Cleanup
      <4> QED
        BY <1>2, <1>5, <2>1, <2>2, <4>1
    <3>2. CASE ~Cleanup(r)
      BY <1>2, <1>5, <2>1, <2>2, <2>3, <3>2
    <3> QED
      BY <3>1, <3>2
  <2> HIDE DEF RunOK, HandlerOK, HandleOK
  <2> QED
    BY <1>3, <2>5, <2>6, <2>7
<1>12. ASSUME UNCHANGED vars  PROVE HandlesOK'
  BY <1>6, <1>12 DEF vars, docVars
<1>13. ASSUME NEW d \in Docs, QuietSave(d)  PROVE HandlesOK'
  BY <1>6, <1>13 DEF QuietSave, DidSave, docVars
<1> HIDE DEF RunOK, HandlerOK, HandleOK
<1> QED
  BY <1>7, <1>8, <1>9, <1>10, <1>11, <1>12, <1>13, NextCases DEF HandlerProgress

-----------------------------------------------------------------------------
(* Buffers and trees *)

\* A run that has read its text and not yet published.
Working == {"snapshot", "indexed", "checked", "accepted"}

LEMMA RunWork ==
    ASSUME DocumentsInv, NEW r \in Runs, RunMove(r)
    PROVE  \/ /\ actor'[r].pc \notin Working \cup {"waiting"}
              /\ \/ Begin(r) /\ ~SameVersion(r)
                 \/ Accept(r) /\ ~SameText(r)
                 \/ actor[r].cancelled
                 \/ Publish(r)
                 \/ actor[r].pc \notin Working \cup {"waiting"}
           \/ /\ Begin(r) /\ SameVersion(r)
              /\ actor'[r].pc = "snapshot"
              /\ actor'[r].doc = actor[r].doc
              /\ actor'[r].version = actor[r].version
              /\ actor'[r].text = text[actor[r].doc]
              /\ actor'[r].content = content[actor[r].doc]
              /\ actor'[r].cancelled = actor[r].cancelled
           \/ /\ actor[r].pc \in Working /\ actor'[r].pc \in Working
              /\ Index(r) \/ Validate(r) \/ (Accept(r) /\ SameText(r))
              /\ actor'[r].doc = actor[r].doc
              /\ actor'[r].version = actor[r].version
              /\ actor'[r].text = actor[r].text
              /\ actor'[r].content = actor[r].content
              /\ actor'[r].cancelled = actor[r].cancelled
<1>1. /\ TypesOK /\ HandlesOK /\ CurrentTreeIsOfBuffer /\ r \in Actors /\ r # Handler
      /\ actor \in [Actors -> ActorRecords]
  BY Constants DEF DocumentsInv, TypesOK
<1>2. /\ "over" \notin Working /\ "cleaned" \notin Working /\ "published" \notin Working
      /\ "refreshing" \notin Working \cup {"waiting"}
      /\ SweepStates \cap (Working \cup {"waiting"}) = {}
  BY DEF Working, SweepStates
<1>3. ASSUME Becomes(r, Finish(r))  PROVE actor'[r].pc \notin Working \cup {"waiting"}
  <2>1. actor'[r].pc = RestState(r)
    BY <1>1, <1>3, FinishEffect, FinishFields
  <2> QED
    BY <1>1, <1>2, <2>1 DEF RestState
<1>4. CASE Begin(r)
  <2>1. actor[r].doc \in Docs
    BY <1>1, <1>4 DEF Begin, HandlesOK, pc
  <2>2. CASE SameVersion(r)
    BY <1>1, <1>4, <2>1, <2>2, BeginEffect
  <2>3. CASE ~SameVersion(r)
    BY <1>3, <1>4, <2>3 DEF Begin, Becomes
  <2> QED
    BY <2>2, <2>3
<1>5. ASSUME NEW state \in Working, Goto(r, state)
      PROVE  /\ actor'[r].pc \in Working
             /\ actor'[r].doc = actor[r].doc
             /\ actor'[r].version = actor[r].version
             /\ actor'[r].text = actor[r].text
             /\ actor'[r].content = actor[r].content
             /\ actor'[r].cancelled = actor[r].cancelled
  <2>1. state \in ActorStates
    BY DEF Working, ActorStates, RunStates, PermitStates
  <2> QED
    BY <1>1, <1>5, <2>1, GotoEffect DEF SameRun, SameCore
<1>6. CASE Index(r)
  <2>1. actor[r].pc \in Working /\ Goto(r, "indexed") /\ "indexed" \in Working
    BY <1>6 DEF Index, Working, pc
  <2> QED
    BY <1>5, <1>6, <2>1
<1>7. CASE Validate(r)
  <2>1. actor[r].pc \in Working /\ "checked" \in Working
    BY <1>7 DEF Validate, Working, pc
  <2> QED
    BY <1>1, <1>7, <2>1, ValidateEffect
<1>8. CASE Accept(r)
  <2>1. CASE SameText(r)
    <3>1. actor[r].pc \in Working /\ Goto(r, "accepted") /\ "accepted" \in Working
      BY <1>8, <2>1 DEF Accept, Working, pc
    <3> QED
      BY <1>5, <1>8, <2>1, <3>1
  <2>2. CASE ~SameText(r)
    BY <1>3, <1>8, <2>2 DEF Accept, Becomes
  <2> QED
    BY <2>1, <2>2
<1>9. CASE CancelValidate(r) \/ Abort(r)
  BY <1>3, <1>9 DEF CancelValidate, Abort, Becomes
<1>10. CASE Publish(r)
  <2>1. Goto(r, "published") /\ "published" \in ActorStates
    BY <1>10 DEF Publish, ActorStates, RunStates, PermitStates, SweepStates
  <2> QED
    BY <1>1, <1>2, <1>10, <2>1, GotoEffect
<1>11. CASE SweepMove(r)
  <2>1. /\ actor'[r] \in Gone(r) \/ actor'[r].pc \in SweepStates
        /\ actor[r].pc \in SweepStates \cup {"refreshing"}
    BY <1>1, <1>11, SweepMoveEffect
  <2>2. \A x \in Gone(r) : x.pc \in {"refreshing", "over"}
    BY <1>1, GoneFields DEF RestState
  <2> QED
    BY <1>2, <2>1, <2>2
<1>12. CASE Cleanup(r)
  <2>1. /\ actor'[r] = Resting("cleaned") /\ Resting("cleaned").pc = "cleaned"
        /\ actor[r].pc = "over"
    BY <1>1, <1>12, CleanupEffect, RestingFields DEF Cleanup, pc
  <2> QED
    BY <1>2, <2>1
<1> QED
  BY <1>4, <1>6, <1>7, <1>8, <1>9, <1>10, <1>11, <1>12 DEF RunMove, RunStep, SweepMove

\* The case split for a single run.
LEMMA RunChanges ==
    ASSUME DocumentsInv, [Next]_vars, NEW r \in Runs
    PROVE  \/ actor'[r] = actor[r]
           \/ RunMove(r)
           \/ \E d \in Docs : StartsRun(d) /\ r = spawned + 1
           \/ \E d \in Docs : (StartsRun(d) \/ DidClose(d)) /\ SameUnlessCancelled(r, d)
<1>1. TypesOK /\ r \in Actors /\ r # Handler
  BY Constants DEF DocumentsInv
<1>2. ASSUME NEW d \in Docs, DidOpen(d) \/ DidChange(d)  PROVE actor'[r] = actor[r]
  <2>1. \E v, c : SetBuffer(d, v, c)
    BY <1>2 DEF DidOpen, DidChange
  <2> QED
    BY <1>1, <2>1, EditEffect DEF Only
<1>3. HandlerProgress => actor'[r] = actor[r]
  BY <1>1, HandlerProgressEffect DEF Only
<1>4. ASSUME NEW s \in Runs, RunMove(s), s # r  PROVE actor'[r] = actor[r]
  BY <1>1, <1>4, RunAlone DEF Only
<1>5. ASSUME NEW d \in Docs, StartsRun(d), r # spawned + 1  PROVE SameUnlessCancelled(r, d)
  BY <1>1, <1>5, StartsRunEffect
<1>6. ASSUME NEW d \in Docs, DidClose(d)  PROVE SameUnlessCancelled(r, d)
  BY <1>1, <1>6, CloseEffect
<1>7. ASSUME NEW d \in Docs, QuietSave(d)  PROVE actor'[r] = actor[r]
  BY <1>7 DEF QuietSave
<1> QED
  BY <1>2, <1>3, <1>4, <1>5, <1>6, <1>7, NextCases DEF HandlerProgress, vars

\* What edits, closes and accepted runs do to a document.
LEMMA DocumentChanges ==
    ASSUME DocumentsInv, [Next]_vars, NEW d \in Docs
    PROVE  \/ /\ open'[d] = open[d] /\ version'[d] = version[d] /\ text'[d] = text[d]
              /\ content'[d] = content[d]
              /\ \/ /\ astVersion'[d] = astVersion[d] /\ ast'[d] = ast[d]
                    /\ validated'[d] = validated[d]
                 \/ \E r \in Runs :
                      /\ Accept(r) /\ SameText(r) /\ actor[r].doc = d
                      /\ astVersion'[d] = version[d] /\ ast'[d] = actor[r].content
                      /\ validated'[d] = TRUE
           \/ /\ DidOpen(d) \/ DidChange(d)
              /\ pc(Handler) = "idle" /\ text'[d] = spawned + 1
              /\ open'[d] = TRUE /\ validated'[d] = FALSE
              /\ astVersion'[d] < version'[d]
           \/ DidClose(d) /\ open'[d] = FALSE
<1>1. TypesOK /\ CountersOK /\ DocTypes /\ version[d] \in Nat /\ astVersion[d] \in Nat
  BY TypeParts, CounterTypes DEF DocumentsInv
<1>2. CASE UNCHANGED docVars
  BY <1>2 DEF docVars
<1>3. ASSUME NEW e \in Docs, DidOpen(e)
      PROVE  \/ e = d
             \/ /\ open'[d] = open[d] /\ version'[d] = version[d] /\ text'[d] = text[d]
                /\ content'[d] = content[d]
                /\ astVersion'[d] = astVersion[d] /\ ast'[d] = ast[d]
                /\ validated'[d] = validated[d]
  BY <1>1, <1>3 DEF DidOpen, SetBuffer, DocTypes
<1>4. ASSUME NEW e \in Docs, DidChange(e)
      PROVE  \/ e = d
             \/ /\ open'[d] = open[d] /\ version'[d] = version[d] /\ text'[d] = text[d]
                /\ content'[d] = content[d]
                /\ astVersion'[d] = astVersion[d] /\ ast'[d] = ast[d]
                /\ validated'[d] = validated[d]
  BY <1>1, <1>4 DEF DidChange, SetBuffer, DocTypes
<1>5. ASSUME NEW e \in Docs, DidClose(e)
      PROVE  \/ e = d /\ open'[d] = FALSE
             \/ /\ open'[d] = open[d] /\ version'[d] = version[d] /\ text'[d] = text[d]
                /\ content'[d] = content[d]
                /\ astVersion'[d] = astVersion[d] /\ ast'[d] = ast[d]
                /\ validated'[d] = validated[d]
  BY <1>1, <1>5 DEF DidClose, DocTypes
<1>6. ASSUME DidOpen(d)
      PROVE  /\ pc(Handler) = "idle" /\ text'[d] = spawned + 1
             /\ open'[d] = TRUE /\ validated'[d] = FALSE /\ astVersion'[d] < version'[d]
  BY <1>1, <1>6 DEF DidOpen, SetBuffer, DocTypes
<1>7. ASSUME DidChange(d)
      PROVE  /\ pc(Handler) = "idle" /\ text'[d] = spawned + 1
             /\ open'[d] = TRUE /\ validated'[d] = FALSE /\ astVersion'[d] < version'[d]
  <2>1. astVersion[d] < version[d] + 1
    BY <1>1 DEF CountersOK
  <2> QED
    BY <1>1, <1>7, <2>1 DEF DidChange, SetBuffer, DocTypes
<1>8. ASSUME NEW r \in Runs, Accept(r)
      PROVE  /\ open'[d] = open[d] /\ version'[d] = version[d] /\ text'[d] = text[d]
             /\ content'[d] = content[d]
             /\ \/ /\ astVersion'[d] = astVersion[d] /\ ast'[d] = ast[d]
                   /\ validated'[d] = validated[d]
                \/ /\ SameText(r) /\ actor[r].doc = d
                   /\ astVersion'[d] = version[d] /\ ast'[d] = actor[r].content
                   /\ validated'[d] = TRUE
  <2>1. UNCHANGED <<open, version, text, content>>
    BY <1>8 DEF Accept
  <2>2. CASE SameText(r)
    <3>1. /\ validated' = [validated EXCEPT ![actor[r].doc] = TRUE]
          /\ astVersion' = [astVersion EXCEPT ![actor[r].doc] = actor[r].version]
          /\ ast' = [ast EXCEPT ![actor[r].doc] = actor[r].content]
          /\ version[actor[r].doc] = actor[r].version
      BY <1>8, <2>2 DEF Accept, SameText, SameVersion
    <3> QED
      BY <1>1, <2>1, <2>2, <3>1 DEF DocTypes
  <2>3. CASE ~SameText(r)
    BY <1>8, <2>1, <2>3 DEF Accept
  <2> QED
    BY <2>1, <2>2, <2>3
<1> QED
  BY <1>2, <1>3, <1>4, <1>5, <1>6, <1>7, <1>8, DocumentsChange

LEMMA TextsStep ==
    ASSUME DocumentsInv, [Next]_vars
    PROVE  TextsOK'
<1> DEFINE TextOK(r) == actor[r].pc \in Working /\ SameText(r) =>
                            content[actor[r].doc] = actor[r].content
<1>1. TypesOK /\ CountersOK /\ HandlesOK /\ \A r \in Runs : TextOK(r)
  BY DEF DocumentsInv, TextsOK, Working, pc
<1>2. ASSUME NEW r \in Runs, actor'[r].pc \in Working, SameText(r)'
      PROVE  content'[actor'[r].doc] = actor'[r].content
  <2> DEFINE d == actor'[r].doc
  <2>1. /\ open'[d] /\ version'[d] = actor'[r].version /\ text'[d] = actor'[r].text
    BY <1>2 DEF SameText, SameVersion
  <2>2. r \in Actors /\ Newest \in Nat /\ spawned \in Nat /\ actor[r].text \in Nat
    BY <1>1, Constants, CounterTypes
  <2>3. ASSUME actor[r].pc \in Working, actor'[r].doc = actor[r].doc,
               actor'[r].version = actor[r].version, actor'[r].text = actor[r].text,
               actor'[r].content = actor[r].content
        PROVE  content'[d] = actor'[r].content
    <3>1. d \in Docs
      BY <1>1, <2>3 DEF HandlesOK, Working, pc
    <3>2. CASE open'[d] = open[d] /\ version'[d] = version[d] /\ text'[d] = text[d]
               /\ content'[d] = content[d]
      BY <1>1, <2>1, <2>3, <3>2 DEF SameText, SameVersion
    <3>3. CASE pc(Handler) = "idle" /\ text'[d] = spawned + 1
      <4>1. actor[r].text <= spawned
        BY <1>1, <2>2, <3>3 DEF CountersOK, Newest
      <4> QED
        BY <2>1, <2>2, <2>3, <3>3, <4>1
    <3>4. CASE open'[d] = FALSE
      BY <2>1, <3>4
    <3> HIDE DEF d
    <3> QED
      BY <3>1, <3>2, <3>3, <3>4, DocumentChanges
  <2>4. CASE RunMove(r)
    <3>1. CASE Begin(r) /\ actor'[r].doc = actor[r].doc
               /\ actor'[r].content = content[actor[r].doc]
      BY <3>1 DEF Begin, docVars
    <3> QED
      BY <1>2, <2>3, <2>4, <3>1, RunWork
  <2>5. ASSUME NEW e \in Docs, StartsRun(e), r = spawned + 1  PROVE FALSE
    BY <1>2, <2>5, StartsRunEffect DEF Working
  <2>6. ASSUME NEW e \in Docs, SameUnlessCancelled(r, e)  PROVE content'[d] = actor'[r].content
    BY <1>2, <2>3, <2>6 DEF SameUnlessCancelled
  <2>7. CASE actor'[r] = actor[r]
    BY <1>2, <2>3, <2>7
  <2> QED
    BY <2>4, <2>5, <2>6, <2>7, RunChanges
<1> QED
  BY <1>2 DEF TextsOK, Working, pc

LEMMA CurrentStep ==
    ASSUME DocumentsInv, TypesOK', [Next]_vars
    PROVE  CurrentTreeIsOfBuffer'
<1>1. TypesOK /\ CurrentTreeIsOfBuffer /\ TextsOK
  BY DEF DocumentsInv
<1>2. ASSUME NEW d \in Docs, open'[d], astVersion'[d] = version'[d]
      PROVE  ast'[d] = content'[d]
  <2>1. CASE /\ open'[d] = open[d] /\ version'[d] = version[d] /\ content'[d] = content[d]
             /\ astVersion'[d] = astVersion[d] /\ ast'[d] = ast[d]
    BY <1>1, <1>2, <2>1 DEF CurrentTreeIsOfBuffer, Current
  <2>2. ASSUME NEW r \in Runs, Accept(r), SameText(r), actor[r].doc = d,
               ast'[d] = actor[r].content, content'[d] = content[d]
        PROVE  ast'[d] = content'[d]
    BY <1>1, <2>2 DEF TextsOK, Accept
  <2>3. ~(astVersion'[d] < version'[d])
    <3>1. version'[d] \in 0 .. MaxRuns + 1
      BY DEF TypesOK, TypeOK
    <3>2. version'[d] \in Nat
      BY <3>1, ConstantsAssumption DEF ConstantsAssumption
    <3> QED
      BY <1>2, <3>2
  <2> QED
    BY <1>2, <2>1, <2>2, <2>3, DocumentChanges
<1> QED
  BY <1>2 DEF CurrentTreeIsOfBuffer, Current

-----------------------------------------------------------------------------
(* The first theorems *)

LEMMA DocumentsInit == Init => DocumentsInv
<1> SUFFICES ASSUME Init  PROVE DocumentsInv
  OBVIOUS
<1>1. \A a \in Actors : actor[a] = Resting(IF a = Handler THEN "idle" ELSE "unborn")
  BY DEF Init
<1>2. "idle" \in ActorStates /\ "unborn" \in ActorStates
  BY DEF ActorStates, HandlerStates, RunStates
<1>3. /\ actor[Handler] = Resting("idle") /\ actor[Handler].pc = "idle"
      /\ \A r \in Runs : actor[r] = Resting("unborn") /\ actor[r].pc = "unborn"
  BY <1>1, Constants, RestingFields
<1>4. /\ \A d \in Docs : /\ text[d] = 0 /\ version[d] \in {0, 1} /\ astVersion[d] = version[d]
                         /\ ast[d] = content[d] /\ handles[d] = NoRun
      /\ spawned = 0 /\ generation = 0 /\ exports.revision = 0
  BY DEF Init
<1>5. TypeOK
  <2>1. 0 \in Contents /\ 0 \in 0 .. MaxRuns /\ {0, 1} \subseteq 0 .. MaxRuns + 1
    BY ConstantsAssumption DEF ConstantsAssumption, Contents
  <2>2. DocTypes
    BY <2>1 DEF Init, DocTypes
  <2>3. SharedTypes
    BY <2>1 DEF Init, SharedTypes
  <2>4. PublishedTypes
    <3>1. \A d \in Docs : Reads(d) \in [Docs -> Contents \cup {NoFile}]
      BY <2>3 DEF SharedTypes, Reads
    <3>2. Cleared \in Publication
      BY DEF Cleared, NoIndex, Publication
    <3>3. \A d \in Docs : [content |-> 0, saw |-> Reads(d)] \in Publication
      BY <2>1, <3>1 DEF Publication
    <3> QED
      BY <3>2, <3>3 DEF Init, PublishedTypes
  <2>5. \A a \in Actors : PhaseOK(a)
    BY <1>3 DEF PhaseOK, Actors, HandlerStates, RunStates
  <2>6. names \in BOOLEAN
    BY DEF Init
  <2> QED
    BY <2>2, <2>3, <2>4, <2>5, <2>6 DEF TypeOK, DocTypes, SharedTypes, PublishedTypes,
       Publication, PhaseOK, pc
<1>6. TypesOK
  <2>1. actor = [a \in Actors |-> Resting(IF a = Handler THEN "idle" ELSE "unborn")]
    BY DEF Init
  <2>2. \A a \in Actors : Resting(IF a = Handler THEN "idle" ELSE "unborn") \in ActorRecords
    BY <1>2, RestingFields
  <2> QED
    BY <1>5, <2>1, <2>2 DEF TypesOK
<1>7. CountersOK
  <2>1. Newest = 0
    BY <1>3, <1>4 DEF Newest, pc
  <2>2. \A d \in Docs : DocCounters(d)
    BY <1>4, <2>1 DEF DocCounters
  <2>3. ASSUME NEW a \in Actors  PROVE ActorCounters(a)
    <3>1. PICK state : actor[a] = Resting(state)
      BY <1>1
    <3>2. /\ Resting(state).text = 0 /\ Resting(state).gen = 0 /\ Resting(state).covered = 0
          /\ Resting(state).sweep = NoSweep /\ NoSweep.revision = 0
      BY RestingFields, NoSweepFields
    <3>3. /\ actor[a].text = 0 /\ actor[a].gen = 0 /\ actor[a].covered = 0
          /\ actor[a].sweep.revision = 0
      BY <3>1, <3>2
    <3> QED
      BY <1>4, <2>1, <3>3 DEF ActorCounters
  <2> QED
    BY <1>3, <2>2, <2>3, CounterParts DEF pc
<1>8. HandlesOK
  BY <1>3, <1>4 DEF HandlesOK, pc
<1>9. TextsOK
  BY <1>3 DEF TextsOK, pc
<1>10. CurrentTreeIsOfBuffer
  BY <1>4 DEF CurrentTreeIsOfBuffer
<1> QED
  BY <1>6, <1>7, <1>8, <1>9, <1>10 DEF DocumentsInv

LEMMA DocumentsStep == DocumentsInv /\ [Next]_vars => DocumentsInv'
<1> SUFFICES ASSUME DocumentsInv, [Next]_vars  PROVE DocumentsInv'
  OBVIOUS
<1>1. TypesOK'
  BY TypesStep DEF DocumentsInv
<1>2. CountersOK' /\ HandlesOK' /\ TextsOK' /\ CurrentTreeIsOfBuffer'
  BY <1>1, CountersStep, HandlesStep, TextsStep, CurrentStep
<1> QED
  BY <1>1, <1>2 DEF DocumentsInv

LEMMA DocumentsAlways == Spec => []DocumentsInv
BY DocumentsInit, DocumentsStep, PTL DEF Spec

\* Type correctness: however many documents, runs and permits there are, every
\* variable keeps its type and every task stays at one of its own steps.
THEOREM TypeCorrect == Spec => []TypeOK
<1>1. DocumentsInv => TypeOK
  BY DEF DocumentsInv, TypesOK
<1> QED
  BY <1>1, DocumentsAlways, PTL

\* A syntax tree whose version is the document's is the tree of its buffer,
\* though versions start again at 1 when a closed document is opened again: a
\* superseded run cannot install its tree (mark_validated, set_ast).
THEOREM CurrentTreesAreOfBuffers == Spec => []CurrentTreeIsOfBuffer
<1>1. DocumentsInv => CurrentTreeIsOfBuffer
  BY DEF DocumentsInv
<1> QED
  BY <1>1, DocumentsAlways, PTL

-----------------------------------------------------------------------------
(* Closed documents *)

\* The handler leaves each phase of a close, and an edit, by one step alone.
LEMMA HandlerPhase ==
    ASSUME DocumentsInv, [Next]_vars, actor'[Handler] # actor[Handler]
    PROVE  /\ pc(Handler) = "edited" => StartsRun(actor[Handler].doc)
           /\ pc(Handler) = "awaiting" => CloseAwaited
           /\ pc(Handler) = "closed" => CloseRestore
           /\ pc(Handler) = "restored" => CloseGeneration
           /\ pc(Handler) = "clear" => CloseClear
           /\ CloseAwaited => /\ actor'[Handler].pc = "closed"
                              /\ actor'[Handler].doc = actor[Handler].doc
           /\ CloseRestore => /\ actor'[Handler].pc = "restored"
                              /\ actor'[Handler].doc = actor[Handler].doc
           /\ CloseGeneration => /\ actor'[Handler].pc = "clear"
                                 /\ actor'[Handler].doc = actor[Handler].doc
<1>1. TypesOK /\ HandlesOK /\ CurrentTreeIsOfBuffer /\ Handler \in Actors
  BY Constants DEF DocumentsInv
<1>2. ASSUME CloseAwaited
      PROVE  actor'[Handler].pc = "closed" /\ actor'[Handler].doc = actor[Handler].doc
  <2>1. Goto(Handler, "closed") /\ "closed" \in ActorStates
    BY <1>2 DEF CloseAwaited, ActorStates, HandlerStates
  <2> QED
    BY <1>1, <2>1, Typing, GotoEffect DEF SameRun, SameCore
<1>3. CloseRestore => actor'[Handler].pc = "restored" /\ actor'[Handler].doc = actor[Handler].doc
  BY <1>1, CloseRestoreEffect DEF SameRun, SameCore
<1>4. CloseGeneration => actor'[Handler].pc = "clear" /\ actor'[Handler].doc = actor[Handler].doc
  BY <1>1, CloseGenerationEffect
<1>5. ASSUME NEW d \in Docs, DidOpen(d) \/ DidChange(d) \/ DidClose(d)
      PROVE  pc(Handler) = "idle"
  BY <1>5 DEF DidOpen, DidChange, DidClose
<1>6. ASSUME NEW d \in Docs, StartsRun(d)
      PROVE  /\ pc(Handler) \in {"idle", "edited"}
             /\ pc(Handler) = "edited" => d = actor[Handler].doc
  BY <1>6 DEF StartsRun, Schedule, DidSave
<1>7. SweepMove(Handler) => pc(Handler) \in SweepStates \cup {"refreshing"}
  BY <1>1, SweepMoveEffect DEF pc
<1>8. /\ CloseAwaited => pc(Handler) = "awaiting"
      /\ CloseRestore => pc(Handler) = "closed"
      /\ CloseGeneration => pc(Handler) = "restored"
      /\ CloseClear => pc(Handler) = "clear"
  BY DEF CloseAwaited, CloseRestore, CloseGeneration, CloseClear
<1>9. ASSUME NEW d \in Docs, QuietSave(d)  PROVE FALSE
  BY <1>9 DEF QuietSave
<1>10. ASSUME NEW r \in Runs, RunMove(r)  PROVE FALSE
  BY <1>10, RunAlone
<1>11. UNCHANGED vars => FALSE
  BY DEF vars
<1>12. \/ pc(Handler) = "idle"
       \/ pc(Handler) = "edited" /\ StartsRun(actor[Handler].doc)
       \/ CloseAwaited \/ CloseRestore \/ CloseGeneration \/ CloseClear
       \/ pc(Handler) \in SweepStates \cup {"refreshing"}
  BY <1>5, <1>6, <1>7, <1>9, <1>10, <1>11, NextCases
<1> QED
  BY <1>2, <1>3, <1>4, <1>8, <1>12 DEF SweepStates

\* Only the diagnostics of an open document are published, and they are those
\* of its buffer; a close clears the others.
LEMMA PublishedAt ==
    ASSUME DocumentsInv, [Next]_vars, NEW d \in Docs
    PROVE  \/ published'[d] = published[d]
           \/ open[d] /\ published'[d].content = content[d]
           \/ ~open[d] /\ published'[d] = Cleared
<1>1. TypesOK /\ published \in [Docs -> Publication]
  BY TypeParts DEF DocumentsInv, PublishedTypes
<1>2. ASSUME NEW e, NEW v, NEW c, NEW saw,
             PublishResult(e, v, c, [content |-> c, saw |-> saw])
      PROVE  published'[d] = published[d] \/ (open[d] /\ published'[d].content = content[d])
  BY <1>1, <1>2 DEF PublishResult
<1>3. CASE CloseClear
  BY <1>1, <1>3 DEF CloseClear
<1>4. ASSUME NEW r \in Runs, Publish(r)
      PROVE  published'[d] = published[d] \/ (open[d] /\ published'[d].content = content[d])
  BY <1>2, <1>4 DEF Publish
<1>5. ASSUME NEW a \in Actors, SendOne(a)
      PROVE  published'[d] = published[d] \/ (open[d] /\ published'[d].content = content[d])
  <2> DEFINE sweep == actor[a].sweep
             result == sweep.results[sweep.sent + 1]
  <2>1. /\ sweep.results \in Seq(Results) /\ sweep.sent \in Nat
        /\ sweep.sent < Len(sweep.results)
    BY <1>1, <1>5, Typing DEF SendOne
  <2>2. result \in Results
    <3> HIDE DEF sweep
    <3>1. Len(sweep.results) \in Nat
      BY <2>1, LenProperties
    <3>2. sweep.sent + 1 \in 1 .. Len(sweep.results)
      BY <2>1, <3>1
    <3>3. \A i \in 1 .. Len(sweep.results) : sweep.results[i] \in Results
      BY <2>1, ElementOfSeq
    <3> QED
      BY <3>2, <3>3
  <2>3. PublishResult(result.snapshot.doc, result.snapshot.version, result.snapshot.content,
                      [content |-> result.snapshot.ast, saw |-> result.saw])
    BY <1>5 DEF SendOne
  <2> HIDE DEF result
  <2>4. result.snapshot \in Snapshots
    BY <2>2 DEF Results
  <2>5. result.snapshot.ast = result.snapshot.content
    BY <2>4 DEF Snapshots
  <2> QED
    BY <1>2, <2>3, <2>5
<1> QED
  BY <1>3, <1>4, <1>5, PublicationChanges

LEMMA ClosedStep ==
    ASSUME DocumentsInv, ClosedIsCleared, [Next]_vars
    PROVE  ClosedIsCleared'
<1> SUFFICES ASSUME NEW d \in Docs, ~open'[d], ~Handling(d, CloseStates)'
             PROVE  published'[d] = Cleared
  BY DEF ClosedIsCleared, CloseStates
<1>1. TypesOK /\ CountersOK
  BY DEF DocumentsInv
<1>2. ~DidClose(d)
  BY <1>1, CloseEffect DEF Handling, CloseStates, pc
<1>3. ~open[d]
  BY <1>2, DocumentChanges
<1>4. CASE ~Handling(d, CloseStates)
  BY <1>3, <1>4, PublishedAt DEF ClosedIsCleared, CloseStates
<1>5. CASE Handling(d, CloseStates)
  <2>1. actor'[Handler] # actor[Handler]
    BY <1>5 DEF Handling, pc
  <2>2. CloseClear
    BY <1>5, <2>1, HandlerPhase DEF Handling, CloseStates, pc
  <2>3. published' = [published EXCEPT ![d] = IF open[d] THEN @ ELSE Cleared]
    BY <1>5, <2>2 DEF CloseClear, Handling
  <2> QED
    BY <1>1, <1>3, <2>3 DEF TypesOK, TypeOK
<1> QED
  BY <1>4, <1>5

\* A closed document stays cleared: however late its run, a sweep that took a
\* snapshot of it while it was open or an earlier run's publication comes, no
\* result reaches the client once the close has cleared it
\* (publish_filtered_with_closed_state, did_close_impl).
THEOREM ClosedStaysCleared == Spec => []ClosedIsCleared
<1>1. Init => ClosedIsCleared
  BY DEF Init, ClosedIsCleared
<1>2. DocumentsInv /\ ClosedIsCleared /\ [Next]_vars => ClosedIsCleared'
  BY ClosedStep
<1> QED
  BY <1>1, <1>2, DocumentsAlways, PTL DEF Spec

-----------------------------------------------------------------------------
(* Open documents *)

\* A run whose buffer is the document's after a step had it before.
LEMMA BufferKept ==
    ASSUME DocumentsInv, [Next]_vars, NEW r \in Runs, SameText(r)',
           actor[r].pc \in Working, actor'[r].doc = actor[r].doc,
           actor'[r].version = actor[r].version, actor'[r].text = actor[r].text
    PROVE  /\ actor[r].doc \in Docs /\ SameText(r)
           /\ content'[actor[r].doc] = content[actor[r].doc]
           /\ content[actor[r].doc] = actor[r].content
<1> DEFINE d == actor[r].doc
<1>1. open'[d] /\ version'[d] = actor[r].version /\ text'[d] = actor[r].text
  BY DEF SameText, SameVersion
<1>2. /\ TypesOK /\ CountersOK /\ HandlesOK /\ TextsOK /\ r \in Actors
      /\ Newest \in Nat /\ spawned \in Nat /\ actor[r].text \in Nat
  BY Constants, CounterTypes DEF DocumentsInv
<1>3. d \in Docs
  BY <1>2 DEF HandlesOK, Working, pc
<1>4. CASE open'[d] = open[d] /\ version'[d] = version[d] /\ text'[d] = text[d]
           /\ content'[d] = content[d]
  BY <1>1, <1>2, <1>3, <1>4 DEF SameText, SameVersion, TextsOK, Working, pc
<1>5. CASE pc(Handler) = "idle" /\ text'[d] = spawned + 1
  <2>1. actor[r].text <= spawned
    BY <1>2, <1>5 DEF CountersOK, Newest
  <2> QED
    BY <1>1, <1>2, <1>5, <2>1
<1>6. CASE open'[d] = FALSE
  BY <1>1, <1>6
<1> HIDE DEF d
<1>7. /\ d \in Docs /\ SameText(r)
      /\ content'[d] = content[d] /\ content[d] = actor[r].content
  BY <1>3, <1>4, <1>5, <1>6, DocumentChanges DEF d
<1> QED
  BY <1>7 DEF d

LEMMA OwedStep ==
    ASSUME DocumentsInv, PublishedOrOwed, [Next]_vars
    PROVE  PublishedOrOwed'
<1> SUFFICES ASSUME NEW d \in Docs, open'[d]
             PROVE  \/ published'[d].content = content'[d]
                    \/ Handling(d, {"edited"})'
                    \/ \E r \in Runs : Owes(r, d)'
  BY DEF PublishedOrOwed
<1>1. TypesOK /\ HandlesOK /\ TextsOK
  BY DEF DocumentsInv
<1>2. CASE DidOpen(d) \/ DidChange(d)
  <2>1. \E v, c : SetBuffer(d, v, c)
    BY <1>2 DEF DidOpen, DidChange
  <2> QED
    BY <1>1, <2>1, EditEffect DEF Handling, pc
<1>3. ASSUME ~(DidOpen(d) \/ DidChange(d))
      PROVE  /\ open[d] /\ ~DidClose(d) /\ version'[d] = version[d] /\ text'[d] = text[d]
             /\ content'[d] = content[d]
  <2>1. ~DidClose(d)
    BY <1>1 DEF DidClose, TypesOK, TypeOK
  <2> QED
    BY <1>3, <2>1, DocumentChanges
<1>4. ASSUME StartsRun(d)  PROVE \E r \in Runs : Owes(r, d)'
  <2>1. PICK r \in Runs :
          /\ actor'[r].pc = "waiting" /\ actor'[r].doc = d
          /\ actor'[r].version = version[d] /\ actor'[r].cancelled = FALSE
          /\ version' = version
    BY <1>4, StartsRunEffect DEF docVars
  <2>2. Owes(r, d)'
    BY <2>1 DEF Owes, pc
  <2> QED
    BY <2>1, <2>2
<1>5. CASE ~(DidOpen(d) \/ DidChange(d)) /\ published[d].content = content[d]
  BY <1>3, <1>5, PublishedAt
<1>6. CASE ~(DidOpen(d) \/ DidChange(d)) /\ Handling(d, {"edited"})
  <2>1. CASE actor'[Handler] = actor[Handler]
    BY <1>6, <2>1 DEF Handling, pc
  <2>2. CASE actor'[Handler] # actor[Handler]
    BY <1>4, <1>6, <2>2, HandlerPhase DEF Handling
  <2> QED
    BY <2>1, <2>2
<1>7. ASSUME ~(DidOpen(d) \/ DidChange(d)), NEW r \in Runs, Owes(r, d)
      PROVE  published'[d].content = content'[d] \/ \E s \in Runs : Owes(s, d)'
  <2>1. /\ actor[r].doc = d /\ ~actor[r].cancelled /\ actor[r].version = version[d]
        /\ \/ actor[r].pc = "waiting"
           \/ actor[r].pc \in Working /\ actor[r].text = text[d]
        /\ open[d] /\ version'[d] = version[d] /\ text'[d] = text[d]
        /\ content'[d] = content[d]
    BY <1>3, <1>7 DEF Owes, Working, pc
  <2>2. ASSUME actor'[r].doc = d, ~actor'[r].cancelled, actor'[r].version = version[d],
               actor'[r].pc = "waiting" \/ (actor'[r].pc \in Working /\ actor'[r].text = text[d])
        PROVE  Owes(r, d)'
    BY <2>1, <2>2 DEF Owes, Working, pc
  <2>3. SameVersion(r) /\ (actor[r].pc \in Working => SameText(r))
    BY <2>1 DEF SameVersion, SameText, Working
  <2>4. CASE actor'[r] = actor[r]
    BY <2>1, <2>2, <2>4
  <2>5. CASE RunMove(r)
    <3>1. ASSUME Publish(r)  PROVE published'[d].content = content'[d]
      <4>1. content[d] = actor[r].content
        BY <1>1, <2>1, <2>3, <3>1 DEF TextsOK, Publish, Working, pc
      <4>2. published' = [published EXCEPT ![d] =
                             [content |-> actor[r].content, saw |-> actor[r].saw]]
        BY <2>1, <3>1, <4>1 DEF Publish, PublishResult
      <4> QED
        BY <1>1, <2>1, <4>1, <4>2 DEF TypesOK, TypeOK
    <3>2. ~(Begin(r) /\ ~SameVersion(r)) /\ ~(Accept(r) /\ ~SameText(r))
      BY <2>3 DEF Accept, Working, pc
    <3>3. CASE actor'[r].pc = "snapshot" /\ actor'[r].doc = actor[r].doc
               /\ actor'[r].version = actor[r].version
               /\ actor'[r].text = text[actor[r].doc]
               /\ actor'[r].cancelled = actor[r].cancelled
      BY <2>1, <2>2, <3>3 DEF Working
    <3>4. CASE actor[r].pc \in Working /\ actor'[r].pc \in Working
               /\ actor'[r].doc = actor[r].doc
               /\ actor'[r].version = actor[r].version
               /\ actor'[r].text = actor[r].text
               /\ actor'[r].cancelled = actor[r].cancelled
      BY <2>1, <2>2, <3>4 DEF Working
    <3> QED
      BY <2>1, <2>5, <3>1, <3>2, <3>3, <3>4, RunWork
  <2>6. ASSUME NEW e \in Docs, StartsRun(e), r = spawned + 1  PROVE FALSE
    <3>1. spawned \in Nat
      BY <1>1, CounterTypes
    <3>2. actor[r].pc = "unborn"
      BY <1>1, <2>6, <3>1 DEF HandlesOK, pc
    <3> QED
      BY <2>1, <3>2 DEF Working
  <2>7. ASSUME NEW e \in Docs, StartsRun(e) \/ DidClose(e), SameUnlessCancelled(r, e)
        PROVE  \E s \in Runs : Owes(s, d)'
    <3>1. CASE r = handles[e]
      <4>1. handles[e] # NoRun
        BY <3>1, Constants
      <4>2. e = d
        BY <1>1, <2>1, <3>1, <4>1 DEF HandlesOK
      <4> QED
        BY <1>3, <1>4, <1>7, <2>7, <4>2
    <3>2. CASE r # handles[e]
      BY <2>1, <2>2, <2>7, <3>2 DEF SameUnlessCancelled
    <3> QED
      BY <3>1, <3>2
  <2> QED
    BY <2>2, <2>4, <2>5, <2>6, <2>7, RunChanges
<1> QED
  BY <1>2, <1>5, <1>6, <1>7, <1>3 DEF PublishedOrOwed

\* The diagnostics of every open document, marked validated or not, are of its
\* buffer, or a run that is neither cancelled nor overtaken still has them to
\* publish: neither a supersession, nor an abort at an await, nor a close and a
\* reopening between two steps of a run loses the last buffer
\* (did_save_impl, debounced_validate).
THEOREM ValidatedArePublished == Spec => []ValidatedIsPublished
<1>1. Init => PublishedOrOwed
  BY DEF Init, PublishedOrOwed
<1>2. DocumentsInv /\ PublishedOrOwed /\ [Next]_vars => PublishedOrOwed'
  BY OwedStep
<1>3. PublishedOrOwed => ValidatedIsPublished
  BY DEF PublishedOrOwed, Owes, ValidatedIsPublished
<1> QED
  BY <1>1, <1>2, <1>3, DocumentsAlways, PTL DEF Spec

-----------------------------------------------------------------------------
(* The index *)

LEMMA IndexAt ==
    ASSUME DocumentsInv, [Next]_vars, NEW d \in Docs
    PROVE  \/ index'[d] = index[d]
           \/ UNCHANGED <<docVars, disk>> /\ open[d] /\ index'[d] = content[d]
           \/ /\ UNCHANGED <<docVars, disk>> /\ ~open[d] /\ index'[d] = disk[d]
              /\ CloseRestore /\ actor[Handler].doc = d
<1>1. TypesOK /\ HandlesOK /\ index \in [Docs -> Contents \cup {NoFile}]
  BY TypeParts DEF DocumentsInv, SharedTypes
<1>2. CASE CloseRestore
  <2>1. index' = [index EXCEPT ![actor[Handler].doc] = disk[actor[Handler].doc]]
    BY <1>2 DEF CloseRestore
  <2>2. ~open[actor[Handler].doc] /\ UNCHANGED <<docVars, disk>>
    BY <1>1, <1>2 DEF CloseRestore, HandlesOK
  <2> QED
    BY <1>1, <1>2, <2>1, <2>2
<1>3. ASSUME NEW r \in Runs, Index(r)
      PROVE  \/ index'[d] = index[d]
             \/ UNCHANGED <<docVars, disk>> /\ open[d] /\ index'[d] = content[d]
  <2>1. CASE SameSource(r)
    <3>1. /\ index' = [index EXCEPT ![actor[r].doc] = actor[r].content]
          /\ open[actor[r].doc] /\ content[actor[r].doc] = actor[r].content
          /\ UNCHANGED <<docVars, disk>>
      BY <1>3, <2>1 DEF Index, SameSource, SameVersion
    <3> QED
      BY <1>1, <3>1
  <2>2. CASE ~SameSource(r)
    BY <1>3, <2>2 DEF Index
  <2> QED
    BY <2>1, <2>2
<1> QED
  BY <1>2, <1>3, IndexChanges

\* The index of a document whose buffer a step leaves alone stays its content.
LEMMA IndexedKept ==
    ASSUME DocumentsInv, [Next]_vars, NEW d \in Docs, open'[d],
           content'[d] = content[d], index[d] = content[d]
    PROVE  index'[d] = content'[d]
<1>1. CASE UNCHANGED docVars
  BY <1>1, IndexAt DEF docVars
<1>2. CASE ~UNCHANGED docVars
  BY <1>2, IndexAt
<1> QED
  BY <1>1, <1>2

LEMMA IndexedStep ==
    ASSUME DocumentsInv, IndexedOK, [Next]_vars
    PROVE  IndexedOK'
<1> SUFFICES ASSUME NEW r \in Runs, actor'[r].pc \in {"indexed", "checked"}, SameText(r)'
             PROVE  index'[actor'[r].doc] = content'[actor'[r].doc]
  BY DEF IndexedOK, pc
<1>1. TypesOK /\ HandlesOK /\ TextsOK
  BY DEF DocumentsInv
<1>2. open'[actor'[r].doc]
  BY DEF SameText, SameVersion
<1>3. ASSUME actor[r].pc \in {"indexed", "checked"}, actor'[r].doc = actor[r].doc,
             actor'[r].version = actor[r].version, actor'[r].text = actor[r].text
      PROVE  index'[actor'[r].doc] = content'[actor'[r].doc]
  <2>1. actor[r].pc \in Working
    BY <1>3 DEF Working
  <2>2. /\ actor[r].doc \in Docs /\ SameText(r)
        /\ content'[actor[r].doc] = content[actor[r].doc]
    BY <1>3, <2>1, BufferKept
  <2>3. index[actor[r].doc] = content[actor[r].doc]
    BY <1>3, <2>2 DEF IndexedOK, pc
  <2> QED
    BY <1>2, <1>3, <2>2, <2>3, IndexedKept
<1>4. CASE actor'[r] = actor[r]
  BY <1>3, <1>4
<1>5. CASE RunMove(r)
  <2>1. /\ actor[r].pc \in Working /\ actor'[r].pc \in Working
        /\ Index(r) \/ Validate(r) \/ (Accept(r) /\ SameText(r))
        /\ actor'[r].doc = actor[r].doc
        /\ actor'[r].version = actor[r].version
        /\ actor'[r].text = actor[r].text
        /\ actor'[r].content = actor[r].content
    BY <1>5, RunWork DEF Working
  <2>2. CASE Validate(r) \/ Accept(r)
    BY <1>3, <2>1, <2>2 DEF Validate, Accept, pc
  <2>3. CASE Index(r)
    <3>1. /\ actor[r].doc \in Docs /\ SameText(r)
          /\ content'[actor[r].doc] = content[actor[r].doc]
          /\ content[actor[r].doc] = actor[r].content
      BY <2>1, BufferKept
    <3>2. SameSource(r)
      BY <3>1 DEF SameSource, SameText
    <3>3. index' = [index EXCEPT ![actor[r].doc] = actor[r].content]
      BY <2>3, <3>2 DEF Index
    <3> QED
      BY <1>1, <2>1, <3>1, <3>3 DEF TypesOK, TypeOK
  <2> QED
    BY <2>1, <2>2, <2>3
<1>6. ASSUME NEW e \in Docs, StartsRun(e), r = spawned + 1  PROVE FALSE
  BY <1>6, StartsRunEffect
<1>7. ASSUME NEW e \in Docs, SameUnlessCancelled(r, e)
      PROVE  index'[actor'[r].doc] = content'[actor'[r].doc]
  BY <1>3, <1>7 DEF SameUnlessCancelled
<1> QED
  BY <1>4, <1>5, <1>6, <1>7, RunChanges

LEMMA FollowsStep ==
    ASSUME DocumentsInv, IndexedOK, IndexFollowsDocuments, [Next]_vars
    PROVE  IndexFollowsDocuments'
<1>1. TypesOK /\ HandlesOK
  BY DEF DocumentsInv
<1>2. ASSUME NEW d \in Docs, open'[d], validated'[d]  PROVE index'[d] = content'[d]
  <2>1. CASE open'[d] = open[d] /\ content'[d] = content[d] /\ validated'[d] = validated[d]
    BY <1>2, <2>1, IndexedKept DEF IndexFollowsDocuments
  <2>2. ASSUME NEW r \in Runs, Accept(r), SameText(r), actor[r].doc = d,
               content'[d] = content[d]
        PROVE  index'[d] = content'[d]
    BY <1>2, <2>2, IndexedKept DEF IndexedOK, Accept
  <2> QED
    BY <1>2, <2>1, <2>2, DocumentChanges
<1>3. ASSUME NEW d \in Docs, ~open'[d], ~Handling(d, {"awaiting", "closed"})'
      PROVE  index'[d] = disk'[d]
  <2>1. ~DidClose(d)
    BY <1>1, <1>3, CloseEffect DEF Handling, pc
  <2>2. ~open[d]
    BY <1>3, <2>1, DocumentChanges
  <2>3. disk'[d] = disk[d]
    <3>1. ASSUME NEW e \in Docs, DidSave(e)  PROVE disk'[d] = disk[d]
      BY <1>1, <2>2, <3>1 DEF DidSave, TypesOK, TypeOK
    <3> QED
      BY <3>1, SchedulingChanges
  <2>4. CASE ~Handling(d, {"awaiting", "closed"})
    BY <2>2, <2>3, <2>4, IndexAt DEF IndexFollowsDocuments
  <2>5. CASE Handling(d, {"awaiting", "closed"})
    <3>1. actor'[Handler] # actor[Handler]
      BY <1>3, <2>5 DEF Handling, pc
    <3>2. CloseRestore
      BY <1>3, <2>5, <3>1, HandlerPhase DEF Handling, pc
    <3>3. index' = [index EXCEPT ![d] = disk[d]]
      BY <2>5, <3>2 DEF CloseRestore, Handling
    <3> QED
      BY <1>1, <2>3, <3>3 DEF TypesOK, TypeOK
  <2> QED
    BY <2>4, <2>5
<1> QED
  BY <1>2, <1>3 DEF IndexFollowsDocuments

\* However late superseded runs finish, the index holds the buffer of every
\* validated document and the file of every closed one: a run writes it only
\* for the buffer it parsed, and a close puts the file back
\* (replace_indexed_file_checked, did_close_impl).
THEOREM IndexFollows == Spec => []IndexFollowsDocuments
<1>1. Init => IndexedOK
  <2> SUFFICES ASSUME Init, NEW r \in Runs  PROVE pc(r) \notin {"indexed", "checked"}
    BY DEF IndexedOK
  <2>1. \A a \in Actors : actor[a] = Resting(IF a = Handler THEN "idle" ELSE "unborn")
    BY DEF Init
  <2>2. r \in Actors /\ r # Handler
    BY Constants
  <2>3. actor[r] = Resting("unborn")
    BY <2>1, <2>2
  <2>4. Resting("unborn").pc = "unborn"
    BY RestingFields
  <2> QED
    BY <2>3, <2>4 DEF pc
<1>2. Init => IndexFollowsDocuments
  BY DEF Init, IndexFollowsDocuments
<1>3. DocumentsInv /\ IndexedOK /\ IndexFollowsDocuments /\ [Next]_vars
        => IndexedOK' /\ IndexFollowsDocuments'
  BY IndexedStep, FollowsStep
<1> QED
  BY <1>1, <1>2, <1>3, DocumentsAlways, PTL DEF Spec

-----------------------------------------------------------------------------
(* The sweeps *)

\* While no edit is scheduled and no export changes, what a validation saw
\* stays what the index says: a close changes the index of its document too,
\* but gives the edits a new generation before it lets go of the documents.
LEMMA AgreesKept ==
    ASSUME DocumentsInv, [Next]_vars, NEW saw, NEW d, Agrees(saw, d),
           generation' = generation, exports'.revision = exports.revision
    PROVE  Agrees(saw, d)'
<1> SUFFICES ASSUME NEW e \in Docs \ {d}
             PROVE  saw[e] = index'[e] \/ Handling(e, {"restored"})'
  BY DEF Agrees
<1>1. /\ TypesOK /\ HandlesOK /\ generation \in Nat /\ exports.revision \in Nat
      /\ index \in [Docs -> Contents \cup {NoFile}]
  BY CounterTypes, TypeParts DEF DocumentsInv, SharedTypes
<1>2. CASE Handling(e, {"restored"})
  <2>1. ~CloseGeneration
    BY <1>1 DEF CloseGeneration
  <2>2. actor'[Handler] = actor[Handler]
    BY <1>2, <2>1, HandlerPhase DEF Handling
  <2> QED
    BY <1>2, <2>2 DEF Handling, pc
<1>3. CASE ~Handling(e, {"restored"})
  <2>1. saw[e] = index[e]
    BY <1>3 DEF Agrees
  <2>2. CASE index'[e] = index[e]
    BY <2>1, <2>2
  <2>3. ASSUME NEW r \in Runs, Index(r)  PROVE index'[e] = index[e]
    <3>1. CASE SameSource(r)
      <4>1. /\ index' = [index EXCEPT ![actor[r].doc] = actor[r].content]
            /\ exports' = IF index[actor[r].doc] # actor[r].content
                          THEN [revision |-> exports.revision + 1, pending |-> TRUE]
                          ELSE exports
        BY <2>3, <3>1 DEF Index
      <4>2. index[actor[r].doc] = actor[r].content
        <5>1. exports.revision + 1 # exports.revision
          BY <1>1
        <5> QED
          BY <4>1, <5>1
      <4> QED
        BY <1>1, <4>1, <4>2
    <3>2. CASE ~SameSource(r)
      BY <2>3, <3>2 DEF Index
    <3> QED
      BY <3>1, <3>2
  <2>4. CASE CloseRestore
    <3>1. actor'[Handler].pc = "restored" /\ actor'[Handler].doc = actor[Handler].doc
      BY <1>1, <2>4, CloseRestoreEffect DEF SameRun, SameCore
    <3>2. index' = [index EXCEPT ![actor[Handler].doc] = disk[actor[Handler].doc]]
      BY <2>4 DEF CloseRestore
    <3>3. CASE actor[Handler].doc = e
      BY <3>1, <3>3 DEF Handling, pc
    <3>4. CASE actor[Handler].doc # e
      BY <1>1, <2>1, <3>2, <3>4
    <3> QED
      BY <3>3, <3>4
  <2> QED
    BY <2>2, <2>3, <2>4, IndexChanges
<1> QED
  BY <1>2, <1>3

\* What has not moved after a step had not moved before it.
LEMMA UnmovedBefore ==
    ASSUME DocumentsInv, DocumentsInv', [Next]_vars, NEW a \in Actors,
           actor'[a].gen = actor[a].gen, NEW revision \in Nat, revision <= exports.revision,
           actor'[a].gen = generation', revision = exports'.revision
    PROVE  /\ Unmoved(a, revision)
           /\ generation' = generation /\ exports'.revision = exports.revision
<1>1. /\ TypesOK /\ CountersOK /\ generation \in Nat /\ exports.revision \in Nat
      /\ actor[a].gen \in Nat
  BY CounterTypes DEF DocumentsInv
<1>2. actor[a].gen <= generation
  BY <1>1 DEF CountersOK
<1>3. generation' \in {generation, generation + 1}
  <2>1. \/ generation' = generation \/ generation' = generation + 1
    BY SchedulingChanges DEF Schedule, CloseGeneration, DidSave, DidClose, Cleanup
  <2> QED
    BY <2>1
<1>4. exports'.revision \in {exports.revision, exports.revision + 1}
  <2>1. exports' \in [revision : Nat, pending : BOOLEAN]
    BY DEF DocumentsInv, TypesOK, TypeOK
  <2>2. \/ exports' = exports \/ exports' = [exports EXCEPT !.pending = FALSE]
        \/ exports' = [revision |-> exports.revision + 1, pending |-> TRUE]
    BY IndexChanges DEF ClearPending, CloseRestore, Index, sweepVars
  <2>3. exports \in [revision : Nat, pending : BOOLEAN]
    BY <1>1 DEF TypesOK, TypeOK
  <2> QED
    BY <2>2, <2>3
<1>5. generation' = generation
  BY <1>1, <1>2, <1>3
<1>6. exports'.revision = exports.revision
  BY <1>1, <1>4
<1> QED
  BY <1>5, <1>6 DEF Unmoved

\* A run that has validated.
Validated == {"checked", "accepted"} \cup SweepStates

LEMMA RunSaw ==
    ASSUME DocumentsInv, NEW r \in Runs, RunMove(r), actor'[r].pc \in Validated
    PROVE  \/ Validate(r)
           \/ SameRun(r) /\ actor[r].pc \in Validated
<1>1. /\ TypesOK /\ HandlesOK /\ CurrentTreeIsOfBuffer /\ r \in Actors /\ r # Handler
      /\ actor \in [Actors -> ActorRecords]
  BY Constants DEF DocumentsInv, TypesOK
<1>2. {"over", "refreshing", "cleaned", "snapshot", "indexed"} \cap Validated = {}
  BY DEF Validated, SweepStates
<1>3. ASSUME Becomes(r, Finish(r))  PROVE FALSE
  <2>1. actor'[r].pc = "over"
    BY <1>1, <1>3, FinishEffect, FinishFields DEF RestState
  <2> QED
    BY <1>2, <2>1
<1>4. ASSUME NEW state \in ActorStates, Goto(r, state)
      PROVE  SameRun(r) /\ actor'[r].pc = state
  BY <1>1, <1>4, GotoEffect
<1>5. ~Begin(r)
  <2> SUFFICES ASSUME Begin(r)  PROVE FALSE
    OBVIOUS
  <2>1. actor[r].doc \in Docs
    BY <1>1 DEF Begin, HandlesOK, pc
  <2>2. actor'[r].pc = "snapshot" \/ Becomes(r, Finish(r))
    BY <1>1, <2>1, BeginEffect DEF Begin, Becomes
  <2> QED
    BY <1>2, <1>3, <2>2
<1>6. ~Index(r)
  BY <1>2, <1>4 DEF Index, ActorStates, RunStates, PermitStates
<1>7. Accept(r) => SameRun(r) /\ actor[r].pc \in Validated
  BY <1>3, <1>4 DEF Accept, Becomes, ActorStates, RunStates, PermitStates, Validated, pc
<1>8. Publish(r) => SameRun(r) /\ actor[r].pc \in Validated
  BY <1>4 DEF Publish, ActorStates, RunStates, PermitStates, SweepStates, Validated, pc
<1>9. ~CancelValidate(r) /\ ~Abort(r)
  BY <1>3 DEF CancelValidate, Abort, Becomes
<1>10. ASSUME SweepMove(r)  PROVE SameRun(r) /\ actor[r].pc \in Validated
  <2>1. /\ actor[r].pc \in SweepStates \/ actor'[r] \in Gone(r)
        /\ actor'[r] \in Gone(r) \/ SameRun(r)
    BY <1>1, <1>10, SweepMoveEffect DEF Gone
  <2>2. \A x \in Gone(r) : x.pc \in {"refreshing", "over"}
    BY <1>1, GoneFields DEF RestState
  <2> QED
    BY <1>2, <2>1, <2>2 DEF Validated
<1>11. ~Cleanup(r)
  <2>1. Resting("cleaned").pc = "cleaned"
    BY RestingFields
  <2> QED
    BY <1>1, <1>2, <2>1, CleanupEffect
<1> QED
  BY <1>5, <1>6, <1>7, <1>8, <1>9, <1>10, <1>11 DEF RunMove, RunStep, SweepMove

LEMMA SawStep ==
    ASSUME DocumentsInv, DocumentsInv', SawOK, [Next]_vars
    PROVE  SawOK'
<1> SUFFICES ASSUME NEW r \in Runs, actor'[r].pc \in Validated,
                    actor'[r].gen = generation', actor'[r].covered = exports'.revision
             PROVE  Agrees(actor[r].saw, actor[r].doc)'
  BY DEF SawOK, Unmoved, Validated, pc
<1>1. /\ TypesOK /\ CountersOK /\ r \in Actors
      /\ actor[r].covered \in Nat /\ actor[r].covered <= exports.revision
  BY Constants, Typing DEF DocumentsInv, CountersOK
<1>2. ASSUME actor[r].pc \in Validated, actor'[r].gen = actor[r].gen,
             actor'[r].covered = actor[r].covered, actor'[r].saw = actor[r].saw,
             actor'[r].doc = actor[r].doc
      PROVE  Agrees(actor[r].saw, actor[r].doc)'
  <2>1. /\ Unmoved(r, actor[r].covered)
        /\ generation' = generation /\ exports'.revision = exports.revision
    BY <1>1, <1>2, UnmovedBefore
  <2>2. Agrees(actor[r].saw, actor[r].doc)
    BY <1>2, <2>1 DEF SawOK, Validated, pc
  <2>3. PICK saw, d : saw = actor[r].saw /\ d = actor[r].doc
    OBVIOUS
  <2>4. \A s, e : Agrees(s, e) => Agrees(s, e)'
    BY <2>1, AgreesKept
  <2> QED
    BY <1>2, <2>2, <2>3, <2>4 DEF Agrees
<1>3. CASE actor'[r] = actor[r]
  BY <1>2, <1>3
<1>4. CASE RunMove(r)
  <2>1. CASE Validate(r)
    <3>1. /\ actor'[r].saw = Reads(actor[r].doc) /\ actor'[r].doc = actor[r].doc
          /\ index' = index
      BY <1>1, <2>1, ValidateEffect DEF Validate
    <3>2. \A e \in Docs \ {actor[r].doc} : Reads(actor[r].doc)[e] = index[e]
      BY <1>1, Reading
    <3> QED
      BY <3>1, <3>2 DEF Agrees
  <2>2. CASE SameRun(r) /\ actor[r].pc \in Validated
    BY <1>2, <2>2 DEF SameRun, SameCore
  <2> QED
    BY <1>4, <2>1, <2>2, RunSaw
<1>5. ASSUME NEW e \in Docs, StartsRun(e), r = spawned + 1  PROVE FALSE
  BY <1>5, StartsRunEffect DEF Validated, SweepStates
<1>6. ASSUME NEW e \in Docs, SameUnlessCancelled(r, e)
      PROVE  Agrees(actor[r].saw, actor[r].doc)'
  BY <1>2, <1>6 DEF SameUnlessCancelled
<1> QED
  BY <1>3, <1>4, <1>5, <1>6, RunChanges

InSweep == {"begin", "sweeping", "sending", "clearing"}
SameSweep(a) ==
    /\ actor'[a].pc = actor[a].pc
    /\ actor'[a].doc = actor[a].doc
    /\ actor'[a].gen = actor[a].gen
    /\ actor'[a].saw = actor[a].saw
    /\ actor'[a].covered = actor[a].covered
    /\ actor'[a].sweep = actor[a].sweep

\* Nothing but its own steps takes an actor through a sweep.
LEMMA SweepActor ==
    ASSUME DocumentsInv, [Next]_vars, NEW a \in Actors, actor'[a].pc \in InSweep
    PROVE  SweepMove(a) \/ SameSweep(a)
<1>1. /\ TypesOK /\ HandlesOK /\ CurrentTreeIsOfBuffer /\ Handler \in Actors
      /\ actor \in [Actors -> ActorRecords]
  BY Constants DEF DocumentsInv, TypesOK
<1>2. {"over", "idle", "cleaned", "snapshot", "indexed", "checked", "accepted", "published",
       "edited", "awaiting", "closed", "restored", "clear", "waiting"} \cap InSweep = {}
  BY DEF InSweep
<1>3. ASSUME Becomes(a, Finish(a))  PROVE FALSE
  <2>1. actor'[a].pc \in {"over", "idle"}
    BY <1>1, <1>3, FinishEffect, FinishFields DEF RestState
  <2> QED
    BY <1>2, <2>1
<1>4. ASSUME NEW state \in ActorStates, Goto(a, state)  PROVE actor'[a].pc = state
  BY <1>1, <1>4, GotoEffect
<1>5. CASE a \in Runs
  <2>1. ASSUME RunMove(a)  PROVE SweepMove(a)
    <3>1. ~Begin(a)
      <4> SUFFICES ASSUME Begin(a)  PROVE FALSE
        OBVIOUS
      <4>1. actor[a].doc \in Docs
        BY <1>1, <1>5 DEF Begin, HandlesOK, pc
      <4>2. actor'[a].pc = "snapshot" \/ Becomes(a, Finish(a))
        BY <1>1, <1>5, <4>1, BeginEffect DEF Begin, Becomes
      <4> QED
        BY <1>2, <1>3, <4>2
    <3>2. ~Index(a) /\ ~Publish(a)
      BY <1>2, <1>4 DEF Index, Publish, ActorStates, RunStates, PermitStates, SweepStates
    <3>3. ~Validate(a)
      BY <1>1, <1>2, <1>5, ValidateEffect
    <3>4. ~Accept(a)
      BY <1>2, <1>3, <1>4 DEF Accept, Becomes, ActorStates, RunStates, PermitStates
    <3>5. ~CancelValidate(a) /\ ~Abort(a)
      BY <1>3 DEF CancelValidate, Abort, Becomes
    <3>6. ~Cleanup(a)
      <4>1. Resting("cleaned").pc = "cleaned"
        BY RestingFields
      <4> QED
        BY <1>1, <1>2, <1>5, <4>1, CleanupEffect
    <3> QED
      BY <2>1, <3>1, <3>2, <3>3, <3>4, <3>5, <3>6 DEF RunMove, RunStep, SweepMove
  <2>2. ASSUME NEW e \in Docs, StartsRun(e), a = spawned + 1  PROVE FALSE
    BY <1>2, <2>2, StartsRunEffect
  <2> QED
    BY <1>5, <2>1, <2>2, RunChanges DEF SameSweep, SameUnlessCancelled
<1>6. CASE a = Handler
  <2>1. ASSUME NEW d \in Docs, DidOpen(d) \/ DidChange(d)  PROVE FALSE
    <3>1. \E v, c : SetBuffer(d, v, c)
      BY <2>1 DEF DidOpen, DidChange
    <3> QED
      BY <1>1, <1>2, <1>6, <3>1, EditEffect
  <2>2. ASSUME NEW d \in Docs, DidClose(d)  PROVE FALSE
    BY <1>1, <1>2, <1>6, <2>2, CloseEffect
  <2>3. ASSUME NEW d \in Docs, StartsRun(d)  PROVE FALSE
    <3>1. actor'[Handler] = Resting("idle") /\ Resting("idle").pc = "idle"
      BY <2>3, StartsRunEffect, RestingFields
    <3> QED
      BY <1>2, <1>6, <3>1
  <2>4. ~CloseAwaited /\ ~CloseClear
    BY <1>2, <1>4, <1>6 DEF CloseAwaited, CloseClear, ActorStates, HandlerStates, SweepStates
  <2>5. ~CloseRestore /\ ~CloseGeneration
    BY <1>1, <1>2, <1>6, CloseRestoreEffect, CloseGenerationEffect
  <2>6. ASSUME NEW r \in Runs, RunMove(r)  PROVE SameSweep(a)
    BY <1>6, <2>6, RunAlone DEF SameSweep
  <2>7. ASSUME UNCHANGED actor  PROVE SameSweep(a)
    BY <2>7 DEF SameSweep
  <2> QED
    BY <1>6, <2>1, <2>2, <2>3, <2>4, <2>5, <2>6, <2>7, NextCases DEF vars, QuietSave
<1> QED
  BY <1>5, <1>6 DEF Actors

ShapeOK(a) ==
    LET sweep == actor[a].sweep IN
    /\ actor[a].pc \in {"sending", "clearing"} => sweep.todo = {}
    /\ actor[a].pc = "clearing" => sweep.kind = "exports" /\ ~sweep.stale
    /\ actor[a].pc \in InSweep /\ sweep.kind = "exports" /\ sweep.exclude # Nobody =>
        /\ a \in Runs
        /\ sweep.exclude = actor[a].doc
        /\ sweep.revision = actor[a].covered

LEMMA ShapesStep ==
    ASSUME DocumentsInv, SweepShapes, [Next]_vars
    PROVE  SweepShapes'
<1> SUFFICES ASSUME NEW a \in Actors  PROVE ShapeOK(a)'
  BY DEF SweepShapes, ShapeOK, InSweep, pc
<1>1. /\ TypesOK /\ CurrentTreeIsOfBuffer /\ actor \in [Actors -> ActorRecords] /\ ShapeOK(a)
      /\ exports.revision \in Nat
  BY CounterTypes DEF DocumentsInv, TypesOK, SweepShapes, ShapeOK, InSweep, pc
<1>2. /\ {"over", "idle", "refreshing", "exports"} \cap InSweep = {}
      /\ {"sending", "clearing"} \subseteq InSweep
  BY DEF InSweep
<1>3. CASE actor'[a].pc \notin InSweep
  BY <1>2, <1>3 DEF ShapeOK
<1>4. CASE SameSweep(a)
  BY <1>1, <1>4 DEF ShapeOK, SameSweep
<1>5. ASSUME Leave(a) \/ EndRefresh(a)  PROVE ShapeOK(a)'
  <2>1. EndRefresh(a) => Becomes(a, Finish(a))
    BY DEF EndRefresh, Becomes
  <2>2. actor'[a] \in Gone(a)
    BY <1>1, <1>5, <2>1, LeaveEffect, FinishEffect DEF Gone
  <2>3. actor'[a].pc \in {"over", "idle", "refreshing"}
    BY <1>1, <2>2, GoneFields DEF RestState
  <2> QED
    BY <1>2, <1>3, <2>3
<1>6. ASSUME Goto(a, "exports")  PROVE ShapeOK(a)'
  <2>1. actor'[a].pc = "exports"
    BY <1>1, <1>6, GotoEffect DEF ActorStates, RunStates, PermitStates, SweepStates
  <2> QED
    BY <1>2, <1>3, <2>1
<1>7. CASE DrainNames(a)
  <2>1. CASE BeginSweep(a, "names", actor[a].doc)
    <3>1. actor'[a].pc = "begin" /\ actor'[a].sweep.kind = "names"
      BY <1>1, <2>1, Typing, BeginSweepEffect
    <3> QED
      BY <3>1 DEF ShapeOK
  <2> QED
    BY <1>6, <1>7, <2>1 DEF DrainNames
<1>8. CASE ReadPending(a)
  <2>1. ASSUME NEW exclude \in Docs \cup {Nobody}, BeginSweep(a, "exports", exclude),
               exclude = Nobody \/ (/\ exclude = actor[a].doc /\ a # Handler
                                    /\ actor[a].covered = exports.revision)
        PROVE  ShapeOK(a)'
    <3>1. /\ actor'[a].pc = "begin" /\ actor'[a].sweep.exclude = exclude
          /\ actor'[a].sweep.revision = exports.revision /\ SameRun(a)
      BY <1>1, <2>1, BeginSweepEffect
    <3> QED
      BY <2>1, <3>1 DEF ShapeOK, SameRun, SameCore, Actors
  <2>2. actor[a].doc \in Docs \cup {Nobody}
    BY <1>1, Typing
  <2>3. CASE exports.pending /\ a # Handler /\ actor[a].covered = exports.revision
    BY <1>8, <2>1, <2>2, <2>3 DEF ReadPending
  <2>4. CASE exports.pending /\ ~(a # Handler /\ actor[a].covered = exports.revision)
    BY <1>8, <2>1, <2>4 DEF ReadPending
  <2>5. CASE ~exports.pending
    BY <1>5, <1>8, <2>5 DEF ReadPending
  <2> QED
    BY <2>3, <2>4, <2>5
<1>9. CASE SnapshotDependents(a)
  <2>1. actor[a].pc = "begin"
    BY <1>9 DEF SnapshotDependents, pc
  <2>2. {SnapshotOf(d) : d \in {}} = {}
    OBVIOUS
  <2> QED
    BY <1>1, <1>9, <2>1, <2>2, SnapshotEffect DEF ShapeOK, InSweep, SameRun, SameCore
<1>10. CASE SweepOne(a)
  <2>1. actor[a].pc = "sweeping"
    BY <1>10 DEF SweepOne, pc
  <2> QED
    BY <1>1, <1>10, <2>1, SweptEffect DEF ShapeOK, InSweep, SameRun, SameCore
<1>11. CASE Superseded(a)
  <2>1. actor[a].pc = "sweeping"
    BY <1>11 DEF Superseded, pc
  <2> QED
    BY <1>1, <1>11, <2>1, SupersededEffect DEF ShapeOK, InSweep, SameRun, SameCore
<1>12. CASE SendOne(a)
  <2>1. actor[a].pc = "sending"
    BY <1>12 DEF SendOne, pc
  <2> QED
    BY <1>1, <1>12, <2>1, SentEffect DEF ShapeOK, InSweep, SameRun, SameCore
<1>13. CASE EndSweep(a)
  <2>1. actor[a].pc = "sending"
    BY <1>13 DEF EndSweep, pc
  <2>2. CASE Goto(a, "clearing") /\ actor[a].sweep.kind = "exports" /\ Complete(a)
    <3>1. /\ actor'[a].pc = "clearing" /\ SameRun(a)
          /\ actor'[a].sweep = actor[a].sweep
      BY <1>1, <2>2, GotoEffect DEF ActorStates, RunStates, PermitStates, SweepStates
    <3> QED
      BY <1>1, <2>1, <2>2, <3>1 DEF ShapeOK, Complete, InSweep, SameRun, SameCore
  <2> QED
    BY <1>5, <1>6, <1>13, <2>2 DEF EndSweep
<1>14. CASE ClearPending(a)
  BY <1>5, <1>6, <1>14 DEF ClearPending
<1>15. SweepMove(a) => ShapeOK(a)'
  BY <1>5, <1>7, <1>8, <1>9, <1>10, <1>11, <1>12, <1>13, <1>14 DEF SweepMove, SweepStep, Answer
<1> QED
  BY <1>3, <1>4, <1>15, SweepActor

LEMMA SweptKept ==
    ASSUME NEW a, NEW d, actor'[a].saw = actor[a].saw,
           actor'[a].sweep.exclude = actor[a].sweep.exclude,
           actor'[a].sweep.results = actor[a].sweep.results
    PROVE  SweptResults(a, d)' = SweptResults(a, d)
BY DEF SweptResults

LEMMA SweptMore ==
    ASSUME NEW a, actor[a].sweep.results \in Seq(Results), NEW snapshot \in Snapshots,
           NEW seen \in [Docs -> Exported], actor'[a].saw = actor[a].saw,
           actor'[a].sweep.exclude = actor[a].sweep.exclude,
           actor'[a].sweep.results =
              Append(actor[a].sweep.results, [snapshot |-> snapshot, saw |-> seen])
    PROVE  /\ \A d : \A saw \in SweptResults(a, d) : saw \in SweptResults(a, d)'
           /\ seen \in SweptResults(a, snapshot.doc)'
<1> DEFINE old == actor[a].sweep.results
           new == actor'[a].sweep.results
           result == [snapshot |-> snapshot, saw |-> seen]
           n == Len(old)
<1>1. old \in Seq(Results) /\ result \in Results /\ new = Append(old, result)
  BY DEF Results
<1> HIDE DEF old, new, result
<1>2. /\ n \in Nat /\ DOMAIN old = 1 .. n /\ DOMAIN new = 1 .. n + 1
      /\ new[n + 1] = result /\ \A i \in 1 .. n : new[i] = old[i]
  BY <1>1, LenProperties, AppendProperties
<1>3. DOMAIN old \subseteq DOMAIN new /\ n + 1 \in DOMAIN new
  BY <1>2
<1>4. \A i \in DOMAIN old : i \in DOMAIN new /\ new[i] = old[i]
  BY <1>2, <1>3
<1>5. ASSUME NEW d, NEW saw \in SweptResults(a, d)  PROVE saw \in SweptResults(a, d)'
  <2>1. CASE \E i \in DOMAIN old : old[i].snapshot.doc = d /\ saw = old[i].saw
    <3>1. PICK i \in DOMAIN old : old[i].snapshot.doc = d /\ saw = old[i].saw
      BY <2>1
    <3>2. i \in DOMAIN new /\ new[i].snapshot.doc = d /\ saw = new[i].saw
      BY <1>4, <3>1
    <3> QED
      BY <3>2 DEF SweptResults, new
  <2>2. CASE actor[a].sweep.exclude = d /\ saw = actor[a].saw
    BY <2>2 DEF SweptResults
  <2> QED
    BY <1>5, <2>1, <2>2 DEF SweptResults, old
<1>6. seen \in SweptResults(a, snapshot.doc)'
  <2>1. n + 1 \in DOMAIN new /\ new[n + 1].snapshot.doc = snapshot.doc /\ new[n + 1].saw = seen
    BY <1>2, <1>3 DEF result
  <2>2. PICK i \in DOMAIN new : new[i].snapshot.doc = snapshot.doc /\ new[i].saw = seen
    BY <2>1
  <2> QED
    BY <2>2 DEF SweptResults, new
<1> QED
  BY <1>5, <1>6

\* An open document with no new buffer was one before.
LEMMA OpenBefore ==
    ASSUME DocumentsInv, [Next]_vars, NEW d \in Docs, open'[d], ~Handling(d, {"edited"})',
           generation' = generation
    PROVE  open[d] /\ ~Handling(d, {"edited"})
<1>1. TypesOK /\ HandlesOK /\ generation \in Nat
  BY CounterTypes DEF DocumentsInv
<1>2. ~DidOpen(d) /\ ~DidChange(d)
  <2> SUFFICES ASSUME DidOpen(d) \/ DidChange(d)  PROVE FALSE
    OBVIOUS
  <2>1. \E v, c : SetBuffer(d, v, c)
    BY DEF DidOpen, DidChange
  <2> QED
    BY <1>1, <2>1, EditEffect DEF Handling, pc
<1>3. ~DidClose(d)
  BY <1>1 DEF DidClose, TypesOK, TypeOK
<1>4. open[d]
  BY <1>2, <1>3, DocumentChanges
<1>5. ASSUME Handling(d, {"edited"})  PROVE FALSE
  <2>1. actor'[Handler] # actor[Handler]
    BY <1>5 DEF Handling, pc
  <2>2. StartsRun(d)
    BY <1>5, <2>1, HandlerPhase DEF Handling
  <2>3. generation' = generation + 1
    BY <1>5, <2>2, StartsRunEffect DEF Handling
  <2> QED
    BY <1>1, <2>3
<1> QED
  BY <1>4, <1>5

CoverOK(a) ==
    /\ actor[a].pc \in {"sweeping", "sending", "clearing"}
    /\ actor[a].sweep.kind = "exports"
    /\ ~actor[a].sweep.stale
    /\ Unmoved(a, actor[a].sweep.revision)
    => \A d \in Docs : open[d] /\ ~Handling(d, {"edited"}) => Covers(a, d)

LEMMA CoversStep ==
    ASSUME SweepInv, DocumentsInv', [Next]_vars
    PROVE  SweepsCover'
<1> SUFFICES ASSUME NEW a \in Actors  PROVE CoverOK(a)'
  BY DEF SweepsCover, CoverOK, pc
<1>1. /\ DocumentsInv /\ TypesOK /\ CountersOK /\ CurrentTreeIsOfBuffer /\ SawOK
      /\ actor \in [Actors -> ActorRecords] /\ ShapeOK(a) /\ CoverOK(a)
      /\ actor[a].sweep.revision \in Nat /\ actor[a].sweep.revision <= exports.revision
  BY Typing DEF SweepInv, DocumentsInv, TypesOK, CountersOK, SweepShapes, ShapeOK, InSweep,
     SweepsCover, CoverOK, pc
<1> DEFINE Mid == {"sweeping", "sending", "clearing"}
<1>2. CASE actor'[a].pc \notin Mid
  BY <1>2 DEF CoverOK
\* The sweep was under way before the step.
<1>3. ASSUME actor[a].pc \in Mid,
             actor'[a].gen = actor[a].gen,
             actor'[a].sweep.kind = actor[a].sweep.kind,
             actor'[a].sweep.stale = actor[a].sweep.stale,
             actor'[a].sweep.revision = actor[a].sweep.revision,
             \A d \in Docs :
                /\ \A saw \in SweptResults(a, d) : saw \in SweptResults(a, d)'
                /\ \A snapshot \in actor[a].sweep.todo :
                      snapshot.doc = d => snapshot \in actor'[a].sweep.todo \/ Covers(a, d)'
      PROVE  CoverOK(a)'
  <2> SUFFICES ASSUME actor'[a].sweep.kind = "exports", ~actor'[a].sweep.stale,
                      actor'[a].gen = generation',
                      actor'[a].sweep.revision = exports'.revision,
                      NEW d \in Docs, open'[d], ~Handling(d, {"edited"})'
               PROVE  Covers(a, d)'
    BY DEF CoverOK, Unmoved
  <2>1. /\ Unmoved(a, actor[a].sweep.revision)
        /\ generation' = generation /\ exports'.revision = exports.revision
    BY <1>1, <1>3, UnmovedBefore
  <2>2. Covers(a, d)
    BY <1>1, <1>3, <2>1, OpenBefore DEF CoverOK
  <2>3. CASE \E snapshot \in actor[a].sweep.todo : snapshot.doc = d
    BY <1>3, <2>3 DEF Covers
  <2>4. CASE \E saw \in SweptResults(a, d) : Agrees(saw, d)
    <3>1. PICK saw \in SweptResults(a, d) : Agrees(saw, d)
      BY <2>4
    <3>2. Agrees(saw, d)'
      BY <1>1, <2>1, <3>1, AgreesKept
    <3> QED
      BY <1>3, <3>1, <3>2 DEF Covers
  <2> QED
    BY <2>2, <2>3, <2>4 DEF Covers
<1>4. CASE SameSweep(a)
  <2>1. CASE actor[a].pc \in Mid
    <3>1. \A d \in Docs : SweptResults(a, d)' = SweptResults(a, d)
      BY <1>4, SweptKept DEF SameSweep
    <3> QED
      BY <1>3, <1>4, <2>1, <3>1 DEF SameSweep
  <2>2. CASE actor[a].pc \notin Mid
    BY <1>2, <1>4, <2>2 DEF SameSweep
  <2> QED
    BY <2>1, <2>2
<1>5. ASSUME NEW state \in ActorStates, Goto(a, state), actor[a].pc \in Mid
      PROVE  CoverOK(a)'
  <2>1. SameRun(a) /\ actor'[a].sweep = actor[a].sweep
    BY <1>1, <1>5, GotoEffect
  <2>2. \A d \in Docs : SweptResults(a, d)' = SweptResults(a, d)
    BY <2>1, SweptKept DEF SameRun, SameCore
  <2> QED
    BY <1>3, <1>5, <2>1, <2>2 DEF SameRun, SameCore
<1>6. ASSUME Leave(a) \/ EndRefresh(a)  PROVE CoverOK(a)'
  <2>1. EndRefresh(a) => Becomes(a, Finish(a))
    BY DEF EndRefresh, Becomes
  <2>2. actor'[a] \in Gone(a)
    BY <1>1, <1>6, <2>1, LeaveEffect, FinishEffect DEF Gone
  <2>3. actor'[a].pc \in {"over", "idle", "refreshing"}
    BY <1>1, <2>2, GoneFields DEF RestState
  <2> QED
    BY <1>2, <2>3
<1>7. ASSUME Goto(a, "exports")  PROVE CoverOK(a)'
  <2>1. actor'[a].pc = "exports"
    BY <1>1, <1>7, GotoEffect DEF ActorStates, RunStates, PermitStates, SweepStates
  <2> QED
    BY <1>2, <2>1
<1>8. ASSUME NEW kind \in {"names", "exports"}, NEW exclude \in Docs \cup {Nobody},
             BeginSweep(a, kind, exclude)
      PROVE  CoverOK(a)'
  <2>1. actor'[a].pc = "begin"
    BY <1>1, <1>8, CounterTypes, BeginSweepEffect
  <2> QED
    BY <1>2, <2>1
<1>9. DrainNames(a) \/ ReadPending(a) => CoverOK(a)'
  <2>1. actor[a].doc \in Docs \cup {Nobody} /\ Nobody \in Docs \cup {Nobody}
    BY <1>1, Typing
  <2>2. DrainNames(a) => Goto(a, "exports") \/ BeginSweep(a, "names", actor[a].doc)
    BY DEF DrainNames
  <2>3. ReadPending(a) =>
           \/ Leave(a)
           \/ BeginSweep(a, "exports", actor[a].doc) \/ BeginSweep(a, "exports", Nobody)
    BY DEF ReadPending
  <2> QED
    BY <1>6, <1>7, <1>8, <2>1, <2>2, <2>3
<1>10. CASE SnapshotDependents(a)
  <2> SUFFICES ASSUME actor'[a].sweep.kind = "exports", ~actor'[a].sweep.stale,
                      actor'[a].gen = generation',
                      actor'[a].sweep.revision = exports'.revision,
                      NEW d \in Docs, open'[d]
               PROVE  Covers(a, d)'
    BY DEF CoverOK, Unmoved
  <2>1. /\ SameRun(a)
        /\ actor[a].sweep.kind = "exports"
        /\ actor'[a].sweep.exclude = actor[a].sweep.exclude
        /\ actor'[a].sweep.revision = actor[a].sweep.revision
        /\ actor'[a].sweep.todo = {SnapshotOf(e) : e \in Dependents(a)}
        /\ \A e \in Others(a) : Current(e)
        /\ actor[a].pc = "begin" /\ UNCHANGED <<docVars, index, generation, sweepVars>>
    <3>1. actor[a].pc = "begin" /\ UNCHANGED <<docVars, index, generation, sweepVars>>
      BY <1>10 DEF SnapshotDependents, pc
    <3>2. /\ SameRun(a)
          /\ actor'[a].sweep.kind = actor[a].sweep.kind
          /\ actor'[a].sweep.exclude = actor[a].sweep.exclude
          /\ actor'[a].sweep.revision = actor[a].sweep.revision
          /\ actor'[a].sweep.todo = {SnapshotOf(e) : e \in Dependents(a)}
          /\ actor'[a].sweep.stale = (\E e \in Others(a) : ~Current(e))
      BY <1>1, <1>10, SnapshotEffect
    <3>3. \A e \in Others(a) : Current(e)
      BY <3>2
    <3> QED
      BY <3>1, <3>2, <3>3
  <2>2. CASE d # actor[a].sweep.exclude
    <3>1. d \in Dependents(a)
      BY <2>1, <2>2 DEF Dependents, Others, docVars
    <3>2. SnapshotOf(d).doc = d
      BY DEF SnapshotOf
    <3>3. \E snapshot \in actor'[a].sweep.todo : snapshot.doc = d
      BY <2>1, <3>1, <3>2
    <3> QED
      BY <3>3 DEF Covers
  <2>3. CASE d = actor[a].sweep.exclude
    <3>1. a \in Runs /\ d = actor[a].doc /\ actor[a].sweep.revision = actor[a].covered
      BY <1>1, <2>1, <2>3, Constants DEF ShapeOK, InSweep
    <3>2. Unmoved(a, actor[a].covered)
      BY <2>1, <3>1 DEF Unmoved, SameRun, SameCore, sweepVars
    <3>3. PICK saw : saw = actor[a].saw
      OBVIOUS
    <3>4. Agrees(saw, d)
      BY <1>1, <2>1, <3>1, <3>2, <3>3 DEF SawOK, SweepStates, pc
    <3>5. actor'[Handler] = actor[Handler]
      BY <1>1, <1>10, <3>1, Constants, SnapshotEffect DEF Only
    <3>6. Agrees(saw, d)'
      BY <2>1, <3>4, <3>5 DEF Agrees, Handling, pc
    <3>7. saw \in SweptResults(a, d)'
      BY <2>1, <2>3, <3>3 DEF SweptResults, SameRun, SameCore
    <3> QED
      BY <3>6, <3>7 DEF Covers
  <2> QED
    BY <2>2, <2>3
<1>11. CASE SweepOne(a)
  <2>1. PICK snapshot \in actor[a].sweep.todo :
          /\ SameRun(a)
          /\ actor'[a].sweep.kind = actor[a].sweep.kind
          /\ actor'[a].sweep.exclude = actor[a].sweep.exclude
          /\ actor'[a].sweep.revision = actor[a].sweep.revision
          /\ actor'[a].sweep.stale = actor[a].sweep.stale
          /\ actor'[a].sweep.todo = actor[a].sweep.todo \ {snapshot}
          /\ actor'[a].sweep.results =
                Append(actor[a].sweep.results,
                       [snapshot |-> snapshot, saw |-> Reads(snapshot.doc)])
    BY <1>1, <1>11, SweptEffect
  <2>2. /\ actor[a].sweep.results \in Seq(Results) /\ snapshot \in Snapshots
        /\ Reads(snapshot.doc) \in [Docs -> Exported]
        /\ actor[a].pc \in Mid /\ index' = index
    BY <1>1, <1>11, Typing, Reading DEF SweepOne, pc
  <2> DEFINE seen == Reads(snapshot.doc)
  <2>3. \A e \in Docs \ {snapshot.doc} : seen[e] = index[e]
    BY <1>1, Reading
  <2> HIDE DEF seen
  <2>4. /\ \A d : \A saw \in SweptResults(a, d) : saw \in SweptResults(a, d)'
        /\ seen \in SweptResults(a, snapshot.doc)'
    BY <2>1, <2>2, SweptMore DEF SameRun, SameCore, seen
  <2>5. PICK saw : saw = seen /\ saw \in SweptResults(a, snapshot.doc)'
    BY <2>4
  <2>6. Covers(a, snapshot.doc)'
    <3>1. \A e \in Docs \ {snapshot.doc} : saw[e] = index'[e]
      BY <2>2, <2>3, <2>5
    <3> QED
      BY <2>5, <3>1 DEF Covers, Agrees
  <2>7. \A d \in Docs : \A s \in actor[a].sweep.todo :
            s.doc = d => s \in actor'[a].sweep.todo \/ Covers(a, d)'
    BY <2>1, <2>6
  <2> QED
    BY <1>3, <2>1, <2>2, <2>4, <2>7 DEF SameRun, SameCore
<1>12. CASE Superseded(a)
  <2>1. SameRun(a) /\ generation' = generation /\ generation # actor[a].gen
    BY <1>1, <1>12, SupersededEffect DEF Superseded
  <2> QED
    BY <2>1 DEF CoverOK, Unmoved, SameRun, SameCore
<1>13. CASE SendOne(a)
  <2>1. /\ SameRun(a) /\ actor[a].pc \in Mid
        /\ actor'[a].sweep.kind = actor[a].sweep.kind
        /\ actor'[a].sweep.exclude = actor[a].sweep.exclude
        /\ actor'[a].sweep.revision = actor[a].sweep.revision
        /\ actor'[a].sweep.stale = actor[a].sweep.stale
        /\ actor'[a].sweep.todo = actor[a].sweep.todo
        /\ actor'[a].sweep.results = actor[a].sweep.results
    BY <1>1, <1>13, SentEffect DEF SendOne, pc
  <2>2. \A d \in Docs : SweptResults(a, d)' = SweptResults(a, d)
    BY <2>1, SweptKept DEF SameRun, SameCore
  <2> QED
    BY <1>3, <2>1, <2>2 DEF SameRun, SameCore
<1>14. CASE EndSweep(a)
  <2>1. actor[a].pc \in Mid /\ "clearing" \in ActorStates
    BY <1>14 DEF EndSweep, pc, ActorStates, RunStates, PermitStates, SweepStates
  <2> QED
    BY <1>5, <1>6, <1>7, <1>14, <2>1 DEF EndSweep
<1>15. ClearPending(a) => CoverOK(a)'
  BY <1>6, <1>7 DEF ClearPending
<1>16. SweepMove(a) => CoverOK(a)'
  BY <1>6, <1>9, <1>10, <1>11, <1>12, <1>13, <1>14, <1>15 DEF SweepMove, SweepStep, Answer
<1> QED
  BY <1>1, <1>2, <1>4, <1>16, SweepActor DEF InSweep

LEMMA SweepsAlways == Spec => []SweepInv
<1>1. Init => SweepInv
  <2> SUFFICES ASSUME Init  PROVE SweepInv
    OBVIOUS
  <2>1. DocumentsInv
    BY DocumentsInit
  <2>2. \A a \in Actors : actor[a] = Resting(IF a = Handler THEN "idle" ELSE "unborn")
    BY DEF Init
  <2>3. Resting("idle").pc = "idle" /\ Resting("unborn").pc = "unborn"
    BY RestingFields
  <2>4. \A a \in Actors : actor[a].pc \in {"idle", "unborn"}
    BY <2>2, <2>3
  <2>5. SawOK
    BY <2>4, Constants DEF SawOK, SweepStates, pc
  <2>6. SweepShapes /\ SweepsCover
    BY <2>4 DEF SweepShapes, SweepsCover, pc
  <2> QED
    BY <2>1, <2>5, <2>6 DEF SweepInv
<1>2. SweepInv /\ [Next]_vars => SweepInv'
  <2> SUFFICES ASSUME SweepInv, [Next]_vars  PROVE SweepInv'
    OBVIOUS
  <2>1. DocumentsInv'
    BY DocumentsStep DEF SweepInv
  <2>2. SawOK' /\ SweepShapes' /\ SweepsCover'
    BY <2>1, SawStep, ShapesStep, CoversStep DEF SweepInv
  <2> QED
    BY <2>1, <2>2 DEF SweepInv
<1> QED
  BY <1>1, <1>2, PTL DEF Spec

\* What is pending is cleared by a step of one sweep, with nothing moved.
LEMMA PendingCleared ==
    ASSUME DocumentsInv, [Next]_vars, NEW a \in Actors,
           exports.pending, ~exports'.pending, pc(a) # pc(a)'
    PROVE  actor[a].pc = "clearing" /\ Unmoved(a, actor[a].sweep.revision)
<1>1. TypesOK /\ HandlesOK /\ actor \in [Actors -> ActorRecords]
  BY DEF DocumentsInv, TypesOK
<1>2. ASSUME NEW r \in Runs, Index(r)  PROVE exports'.pending
  <2>1. \/ exports' = exports
        \/ exports' = [revision |-> exports.revision + 1, pending |-> TRUE]
    BY <1>2 DEF Index
  <2> QED
    BY <2>1
<1>3. ~CloseRestore
  BY DEF CloseRestore, sweepVars
<1>4. PICK b \in Actors : ClearPending(b)
  BY <1>2, <1>3, IndexChanges
<1>5. Leave(b) /\ pc(b) = "clearing" /\ Unmoved(b, actor[b].sweep.revision)
  BY <1>4 DEF ClearPending, Unmoved
<1>6. Only(b)
  BY <1>1, <1>5, LeaveEffect
<1>7. a = b
  BY <1>6 DEF Only, pc
<1> QED
  BY <1>5, <1>7 DEF pc

\* A pending export change is durable: whatever runs and closes sweep at the
\* same time, are superseded or aborted, it is cleared only by a sweep that
\* has validated every open document (but one just edited, whose own run
\* comes) against what all the open documents export when it is cleared
\* (sweep_pending_exports_for, revalidate_open_dependents).
THEOREM PendingIsDurable == Spec => PendingClearedOnlyWhenSwept
<1> DEFINE Durable ==
        \A a \in Actors :
            exports.pending /\ ~exports'.pending /\ pc(a) # pc(a)' =>
                \A d \in Docs : open[d] /\ ~Handling(d, {"edited"}) =>
                    \E saw \in SweptResults(a, d) :
                        \A e \in Docs \ {d} : open[e] => saw[e] = index[e]
<1>1. SweepInv /\ [Next]_vars => Durable
  <2> SUFFICES ASSUME SweepInv, [Next]_vars, NEW a \in Actors,
                      exports.pending, ~exports'.pending, pc(a) # pc(a)',
                      NEW d \in Docs, open[d], ~Handling(d, {"edited"})
               PROVE  \E saw \in SweptResults(a, d) :
                          \A e \in Docs \ {d} : open[e] => saw[e] = index[e]
    OBVIOUS
  <2>1. DocumentsInv /\ HandlesOK
    BY DEF SweepInv, DocumentsInv
  <2>2. pc(a) = "clearing" /\ Unmoved(a, actor[a].sweep.revision)
    BY <2>1, PendingCleared DEF pc
  <2>3. /\ actor[a].sweep.todo = {}
        /\ actor[a].sweep.kind = "exports" /\ ~actor[a].sweep.stale
    BY <2>2 DEF SweepInv, SweepShapes
  <2>4. Covers(a, d)
    BY <2>2, <2>3 DEF SweepInv, SweepsCover
  <2>5. PICK saw \in SweptResults(a, d) : Agrees(saw, d)
    BY <2>3, <2>4 DEF Covers
  <2>6. ASSUME NEW e \in Docs \ {d}, open[e]  PROVE saw[e] = index[e]
    BY <2>1, <2>5, <2>6 DEF Agrees, Handling, HandlesOK
  <2> QED
    BY <2>5, <2>6
<1>2. Durable => [Durable]_vars
  OBVIOUS
<1>3. PendingClearedOnlyWhenSwept <=> [][Durable]_vars
  BY DEF PendingClearedOnlyWhenSwept
<1> HIDE DEF Durable
<1> QED
  BY <1>1, <1>3, SweepsAlways, PTL DEF Spec

=============================================================================
