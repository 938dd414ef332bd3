---------------------------- MODULE DocumentStore ----------------------------
(***************************************************************************)
(* The store of open documents (lsp/src/state.rs): texts, trees, cached     *)
(* localisation files and the use sites of their trees, and the account of  *)
(* the bytes they retain, which admits or refuses what comes next.          *)
(*                                                                         *)
(* The methods of DocumentStore are operators from a store to a store; the  *)
(* actions are its callers: the handlers of the notification worker, the    *)
(* validation runs, and the refreshes of the use sites after a scan or a    *)
(* rules reload.  Bytes are counted in units: a text's length, its line     *)
(* index, a use site and a slot of a table are small numbers.               *)
(***************************************************************************)
EXTENDS Integers, FiniteSets

CONSTANTS
    Uris,           \* the files the client may open
    Scripts,        \* those of them that are scripts; the rest is localisation
    Contents,       \* what a text may be, so far as its sizes tell
    Length,         \* its bytes
    Lines,          \* the bytes of its line index
    LocBytes,       \* the bytes of its parsed localisation
    Keys,           \* the (type, name) pairs that use sites refer to
    Sites,          \* the keys a content uses, under each ruleset
    NoTree,         \* a document without an accepted tree
    Tasks,          \* the tasks that may be under way at once
    NoTask,
    TableSize(_),   \* the capacity of a hash table that grew to hold n entries
    MaxDocument,    \* MAX_DOCUMENT_BYTES
    MaxOpen,        \* MAX_OPEN_DOCUMENTS
    MaxRetained,    \* MAX_RETAINED_DOCUMENT_BYTES
    MaxTexts,       \* bound: texts the client sends
    MaxRules        \* bound: rulesets loaded

Rulesets == 1 .. MaxRules

ASSUME ConstantsAssumption ==
    /\ IsFiniteSet(Uris) /\ Scripts \subseteq Uris
    /\ IsFiniteSet(Keys)
    /\ Length \in [Contents -> Nat]
    /\ Lines \in [Contents -> Nat]
    /\ LocBytes \in [Contents -> Nat]
    /\ Sites \in [Rulesets -> [Contents -> SUBSET Keys]]
    /\ NoTree \notin Contents
    /\ NoTask \notin Tasks
    /\ MaxDocument \in Nat /\ MaxOpen \in Nat /\ MaxRetained \in Nat
    /\ MaxTexts \in Nat /\ MaxRules \in Nat \ {0}

(* Tables only ever hold as many entries as there are files or keys. *)
Entries == 0 .. Cardinality(Uris) + Cardinality(Keys)

(* A table is the smallest there is that holds its entries (hashbrown rounds *)
(* up to a power of two of buckets), and an empty one takes nothing.         *)
ASSUME TableAssumption ==
    /\ TableSize(0) = 0
    /\ \A n \in Entries : TableSize(n) \in Nat /\ TableSize(n) >= n
    /\ \A m, n \in Entries : n <= TableSize(m) => TableSize(n) <= TableSize(m)

VARIABLES
    store,      \* DocumentStore, under its lock
    lock,       \* the task that holds it across several steps
    task,       \* what each task is at
    rules,      \* the ruleset in force
    texts       \* texts sent so far; each is named by its number

vars == <<store, lock, task, rules, texts>>

Put(f, u, d) == [w \in DOMAIN f \cup {u} |-> IF w = u THEN d ELSE f[w]]
Without(f, u) == [w \in DOMAIN f \ {u} |-> f[w]]

(* saturating_sub *)
Monus(a, b) == IF a >= b THEN a - b ELSE 0

-----------------------------------------------------------------------------
(* The use sites of the open documents: one site for each key of a file, the  *)
(* capacities of the two kinds of table, and the bytes counted for both;     *)
(* version names the buffer a file's sites were recorded for.                *)
(* Removing leaves no tombstones here, so a table's capacity only follows    *)
(* from its growth and its shrinking.                                        *)

Uses == [keys: [Uris -> SUBSET Keys], version: [Uris -> Nat],
         fileCap: Nat, keyCap: Nat, bytes: Nat]

NoUses == [keys |-> [u \in Uris |-> {}], version |-> [u \in Uris |-> 0],
           fileCap |-> 0, keyCap |-> 0, bytes |-> 0]

FilesIn(x) == {u \in Uris : x.keys[u] # {}}
KeysIn(x) == {k \in Keys : \E u \in Uris : k \in x.keys[u]}

FileBytes(x, u) == Cardinality(x.keys[u])

(* An entry of by_key for each of the keys, in each file that uses it. *)
Cells(x, K) == Cardinality({cell \in K \X Uris : cell[1] \in x.keys[cell[2]]})

TouchedCapacity(x, u, K) ==
    x.fileCap + x.keyCap + Cardinality(x.keys[u]) + Cells(x, K)

Grown(cap, n) == IF n > cap THEN TableSize(n) ELSE cap
Shrunk(cap, n) == IF cap > 3 * n THEN TableSize(n) ELSE cap

(* Variant: by_key is never shrunk. *)
ShrinkFilesOnly(x) == [x EXCEPT !.fileCap = Shrunk(@, Cardinality(FilesIn(x)))]

ShrinkTouched(x) ==
    [x EXCEPT !.fileCap = Shrunk(@, Cardinality(FilesIn(x))),
              !.keyCap = Shrunk(@, Cardinality(KeysIn(x)))]

(* Both ends of replace_file and remove_file: y is x with u's sites changed. *)
Recount(x, y, u, K) ==
    [y EXCEPT !.bytes = Monus(@, TouchedCapacity(x, u, K)) + TouchedCapacity(y, u, K)]

RemoveFile(x, u) ==
    IF x.keys[u] = {} THEN x
    ELSE Recount(x,
                 ShrinkTouched([x EXCEPT !.keys[u] = {}, !.version[u] = 0]),
                 u, x.keys[u])

ReplaceFile(x, u, K, version) ==
    LET removed == RemoveFile(x, u)
        added == [removed EXCEPT !.keys[u] = K,
                                 !.version[u] = IF K = {} THEN 0 ELSE version]
        grown == [added EXCEPT !.fileCap = Grown(@, Cardinality(FilesIn(added))),
                               !.keyCap = Grown(@, Cardinality(KeysIn(added)))]
    IN  Recount(removed, ShrinkTouched(grown), u, K)

(* What n sites may add to the tables: four slots of a new table, and four   *)
(* for each key and for each site of the lists and tables that hold them.    *)
CapacityBound(n) == 4 + 12 * n

ReplacementCapacityBound(x, u, K) ==
    x.bytes + Monus(CapacityBound(Cardinality(K)),
                    IF x.keys[u] = {} THEN 0 ELSE CapacityBound(Cardinality(x.keys[u])))

-----------------------------------------------------------------------------
(* Documents: loc is the cached localisation's bytes, 0 for none.            *)

Document == [version: Nat, text: Nat, content: Contents,
             tree: Contents \cup {NoTree}, treeVersion: Nat, treeBytes: Nat,
             loc: Nat]

NewDocument(version, text, content) ==
    [version |-> version, text |-> text, content |-> content,
     tree |-> NoTree, treeVersion |-> 0, treeBytes |-> 0, loc |-> 0]

EmptyStore == [docs |-> <<>>, validated |-> {}, uses |-> NoUses, retained |-> 0]

RetainedBytes(d) ==
    (IF Length[d.content] >= d.treeBytes THEN Length[d.content] ELSE d.treeBytes) + d.loc

DocumentBytes(d) == RetainedBytes(d) + Lines[d.content]

IndexBytes(x, u) == FileBytes(x, u) + x.bytes

(* Variant: the tables are left out of the total. *)
AdmitsBesideTables(s, old, new, capacity) ==
    /\ new - capacity <= MaxDocument
    /\ s.retained - old + new - capacity <= MaxRetained

(* replacement_total_with_capacity: may old bytes be replaced by new ones?   *)
Admits(s, old, new, capacity) ==
    /\ new >= capacity
    /\ new - capacity <= MaxDocument
    /\ s.retained >= old
    /\ s.retained - old + new <= MaxRetained

Retain(s, old, new) == Monus(s.retained, old) + new

(* open_with_hash *)
OldBytes(s, u) ==
    (IF u \in DOMAIN s.docs THEN DocumentBytes(s.docs[u]) ELSE 0) + IndexBytes(s.uses, u)

CanOpen(s, u, d) ==
    /\ u \in DOMAIN s.docs \/ Cardinality(DOMAIN s.docs) < MaxOpen
    /\ Admits(s, OldBytes(s, u), DocumentBytes(d) + s.uses.bytes, s.uses.bytes)

Opened(s, u, d) ==
    LET uses == RemoveFile(s.uses, u)
    IN  [docs |-> Put(s.docs, u, d),
         validated |-> s.validated \ {u},
         uses |-> uses,
         retained |-> Retain(s, OldBytes(s, u), DocumentBytes(d) + uses.bytes)]

(* change_with_hash: the tree and its sites stay, the cached localisation goes. *)
ChangedDocument(d, text, content) ==
    [d EXCEPT !.version = @ + 1, !.text = text, !.content = content, !.loc = 0]

(* Variant: only the new text is looked at, not what the document keeps. *)
CanChangeText(s, u, d) ==
    Admits(s, OldBytes(s, u),
           Length[d.content] + Lines[d.content] + IndexBytes(s.uses, u), s.uses.bytes)

CanChange(s, u, d) ==
    Admits(s, OldBytes(s, u), DocumentBytes(d) + IndexBytes(s.uses, u), s.uses.bytes)

Changed(s, u, d) ==
    [s EXCEPT !.docs = Put(@, u, d),
              !.validated = @ \ {u},
              !.retained = Retain(s, OldBytes(s, u), DocumentBytes(d) + IndexBytes(s.uses, u))]

(* Variant: a removed document keeps its mark. *)
RemovedButValidated(s, u) ==
    LET uses == RemoveFile(s.uses, u)
    IN  [docs |-> Without(s.docs, u),
         validated |-> s.validated,
         uses |-> uses,
         retained |-> Retain(s, OldBytes(s, u), uses.bytes)]

(* remove *)
Removed(s, u) ==
    LET uses == RemoveFile(s.uses, u)
    IN  [docs |-> Without(s.docs, u),
         validated |-> s.validated \ {u},
         uses |-> uses,
         retained |-> Retain(s, OldBytes(s, u), uses.bytes)]

(* Sites K replace those of u, whose document becomes d. *)
CanReplaceSites(s, u, d, K) ==
    LET bound == ReplacementCapacityBound(s.uses, u, K)
    IN  Admits(s, OldBytes(s, u), DocumentBytes(d) + Cardinality(K) + bound, bound)

WithSites(s, u, d, K) ==
    LET uses == ReplaceFile(s.uses, u, K, d.version)
    IN  [s EXCEPT !.docs = Put(@, u, d),
                  !.uses = uses,
                  !.retained = Retain(s, OldBytes(s, u), DocumentBytes(d) + IndexBytes(uses, u))]

(* set_ast_with_use_sites *)
SetAst(s, u, version, tree, K) ==
    LET d == [s.docs[u] EXCEPT !.tree = tree, !.treeVersion = version,
                               !.treeBytes = Length[s.docs[u].content]]
    IN  IF /\ u \in DOMAIN s.docs
           /\ s.docs[u].version = version
           /\ CanReplaceSites(s, u, d, K)
        THEN WithSites(s, u, d, K)
        ELSE s

(* Variant: the version of the tree is not looked at. *)
ReplaceSitesOfAnyTree(s, u, version, K) ==
    IF /\ u \in DOMAIN s.docs
       /\ s.docs[u].version = version
       /\ CanReplaceSites(s, u, s.docs[u], K)
    THEN WithSites(s, u, s.docs[u], K)
    ELSE s

(* replace_reference_sites *)
ReplaceReferenceSites(s, u, version, K) ==
    IF /\ u \in DOMAIN s.docs
       /\ s.docs[u].version = version
       /\ s.docs[u].treeVersion = version
       /\ CanReplaceSites(s, u, s.docs[u], K)
    THEN WithSites(s, u, s.docs[u], K)
    ELSE s

(* set_loc_cache *)
SetLocCache(s, u, version, bytes) ==
    LET d == [s.docs[u] EXCEPT !.loc = bytes]
    IN  IF u \in DOMAIN s.docs /\ s.docs[u].version = version /\ CanChange(s, u, d)
        THEN [s EXCEPT !.docs = Put(@, u, d),
                       !.retained = Retain(s, OldBytes(s, u),
                                           DocumentBytes(d) + IndexBytes(s.uses, u))]
        ELSE s

(* Variant: the buffer is known by its version alone. *)
MarksByVersion(s, u, version, text) ==
    u \in DOMAIN s.docs /\ s.docs[u].version = version

(* mark_validated: the buffer is the one that was validated, by its identity. *)
Marks(s, u, version, text) ==
    u \in DOMAIN s.docs /\ s.docs[u].version = version /\ s.docs[u].text = text

-----------------------------------------------------------------------------
(* The notification worker: its handlers run one at a time and change the    *)
(* store in one step each.  A refused text is dropped.                       *)

Unlocked == lock = NoTask

SendText ==
    /\ texts < MaxTexts
    /\ texts' = texts + 1
    /\ UNCHANGED <<lock, task, rules>>

(* did_open: clients number the versions of a document anew when it opens.   *)
Open(u, content) ==
    LET d == NewDocument(1, texts + 1, content)
    IN  /\ Unlocked
        /\ store' = IF CanOpen(store, u, d) THEN Opened(store, u, d) ELSE store
        /\ SendText

(* did_change *)
Change(u, content) ==
    /\ Unlocked
    /\ u \in DOMAIN store.docs
    /\ LET d == ChangedDocument(store.docs[u], texts + 1, content)
       IN  store' = IF CanChange(store, u, d) THEN Changed(store, u, d) ELSE store
    /\ SendText

(* did_close *)
Close(u) ==
    /\ Unlocked
    /\ u \in DOMAIN store.docs
    /\ store' = Removed(store, u)
    /\ UNCHANGED <<lock, task, rules, texts>>

(* move_open_document, of did_rename_files: a document refused under its new *)
(* name is closed.                                                           *)
Move(u, new) ==
    /\ Unlocked
    /\ u \in DOMAIN store.docs
    /\ LET removed == Removed(store, u)
           d == [store.docs[u] EXCEPT !.loc = 0]
       IN  store' = IF CanOpen(removed, new, d) THEN Opened(removed, new, d) ELSE removed
    /\ UNCHANGED <<lock, task, rules, texts>>

(* A settings change or a reload of the rules. *)
LoadRules ==
    /\ rules < MaxRules
    /\ rules' = rules + 1
    /\ UNCHANGED <<store, lock, task, texts>>

-----------------------------------------------------------------------------
(* Tasks.  A validation and a refresh read the store, work outside the lock  *)
(* on what they read, and come back with the version it had.                 *)

Jobs == {"idle", "validate", "refresh"}
Snapshot == [uri: Uris, version: Nat, text: Nat, content: Contents]

Idle == [job |-> "idle", of |-> {}, rules |-> 0]

Start(t, job, snapshots) ==
    /\ Unlocked
    /\ task[t] = Idle
    /\ snapshots # {}
    /\ task' = [task EXCEPT ![t] = [job |-> job, of |-> snapshots, rules |-> 0]]
    /\ UNCHANGED <<store, lock, rules, texts>>

(* debounced_validate takes the buffer and its version. *)
StartValidation(t, u) ==
    Start(t, "validate",
          {[uri |-> w, version |-> store.docs[w].version,
            text |-> store.docs[w].text, content |-> store.docs[w].content]
              : w \in DOMAIN store.docs \cap {u}})

(* refresh_open_reference_sites takes the current trees. *)
StartRefresh(t) ==
    Start(t, "refresh",
          {[uri |-> w, version |-> store.docs[w].version,
            text |-> 0, content |-> store.docs[w].tree]
              : w \in {w \in DOMAIN store.docs :
                         /\ store.docs[w].tree # NoTree
                         /\ store.docs[w].treeVersion = store.docs[w].version}})

(* The sites of the trees are found under the ruleset of the moment. *)
Classify(t) ==
    /\ task[t].rules = 0
    /\ \/ task[t].job = "refresh"
       \/ task[t].job = "validate" /\ \E snap \in task[t].of : snap.uri \in Scripts
    /\ task' = [task EXCEPT ![t].rules = rules]
    /\ UNCHANGED <<store, lock, rules, texts>>

(* A localisation file is parsed instead, and what was parsed is cached.     *)
CacheLoc(t) ==
    /\ Unlocked
    /\ task[t].job = "validate" /\ task[t].rules = 0
    /\ \E snap \in task[t].of :
        /\ snap.uri \notin Scripts
        /\ store' = SetLocCache(store, snap.uri, snap.version, LocBytes[snap.content])
    /\ task' = [task EXCEPT ![t].rules = rules]
    /\ UNCHANGED <<lock, rules, texts>>

(* The run is accepted if its buffer is still the document's; its tree may   *)
(* be refused all the same, for want of memory.                              *)
Accept(t) ==
    /\ Unlocked
    /\ task[t].job = "validate" /\ task[t].rules # 0
    /\ \E snap \in task[t].of :
        LET marked == [store EXCEPT !.validated = @ \cup {snap.uri}]
        IN  store' = IF ~Marks(store, snap.uri, snap.version, snap.text) THEN store
                     ELSE IF snap.uri \notin Scripts THEN marked
                     ELSE SetAst(marked, snap.uri, snap.version, snap.content,
                                 Sites[task[t].rules][snap.content])
    /\ task' = [task EXCEPT ![t] = Idle]
    /\ UNCHANGED <<lock, rules, texts>>

(* A newer change aborts the run at an await. *)
Supersede(t) ==
    /\ task[t].job = "validate"
    /\ task' = [task EXCEPT ![t] = Idle]
    /\ UNCHANGED <<store, lock, rules, texts>>

(* The refresh replaces the sites of one document after the other and keeps  *)
(* the lock until all are done.                                              *)
ReplaceNext(t) ==
    /\ lock \in {NoTask, t}
    /\ task[t].job = "refresh" /\ task[t].rules # 0
    /\ \E snap \in task[t].of :
        /\ store' = ReplaceReferenceSites(store, snap.uri, snap.version,
                                          Sites[task[t].rules][snap.content])
        /\ IF task[t].of = {snap}
           THEN lock' = NoTask /\ task' = [task EXCEPT ![t] = Idle]
           ELSE lock' = t /\ task' = [task EXCEPT ![t].of = @ \ {snap}]
    /\ UNCHANGED <<rules, texts>>

-----------------------------------------------------------------------------
Init ==
    /\ store = EmptyStore
    /\ lock = NoTask
    /\ task = [t \in Tasks |-> Idle]
    /\ rules = 1
    /\ texts = 0

Next ==
    \/ \E u \in Uris, content \in Contents : Open(u, content) \/ Change(u, content)
    \/ \E u \in Uris : Close(u)
    \/ \E u \in Uris : \E new \in Uris \ {u} : Move(u, new)
    \/ LoadRules
    \/ \E t \in Tasks, u \in Uris : StartValidation(t, u)
    \/ \E t \in Tasks :
        \/ StartRefresh(t)
        \/ Classify(t)
        \/ CacheLoc(t)
        \/ Accept(t)
        \/ Supersede(t)
        \/ ReplaceNext(t)

Spec == Init /\ [][Next]_vars

-----------------------------------------------------------------------------
(* Properties *)

(* Every part of the store is of its kind, and what is kept beside the       *)
(* documents - marks and use sites - is kept of open documents only, so that *)
(* a closed file is neither found by its references nor taken for validated. *)
StoreOK(s) ==
    /\ s = [docs |-> s.docs, validated |-> s.validated,
            uses |-> s.uses, retained |-> s.retained]
    /\ s.docs \in [DOMAIN s.docs -> Document]
    /\ DOMAIN s.docs \subseteq Uris
    /\ s.validated \subseteq DOMAIN s.docs
    /\ s.uses \in Uses
    /\ FilesIn(s.uses) \subseteq DOMAIN s.docs
    /\ s.retained \in Nat

TasksOK ==
    /\ lock \in Tasks \cup {NoTask}
    /\ task = [t \in Tasks |-> task[t]]
    /\ \A t \in Tasks :
        /\ task[t] = [job |-> task[t].job, of |-> task[t].of, rules |-> task[t].rules]
        /\ task[t].job \in Jobs
        /\ task[t].of \subseteq Snapshot
        /\ task[t].rules \in Rulesets \cup {0}

TypeOK == StoreOK(store) /\ TasksOK /\ rules \in Rulesets /\ texts \in Nat

(* What the store really holds, counted: the longer of a document's text and *)
(* the text its tree was parsed from, its line index and cached localisation,*)
(* byte by byte; a byte of each use site; and the tables, with a cell of     *)
(* each site in its file's list and one in its key's.                        *)
TreeLength(d) == IF d.tree = NoTree THEN 0 ELSE Length[d.tree]

HeldBytes(d) ==
    (IF Length[d.content] >= TreeLength(d) THEN Length[d.content] ELSE TreeLength(d))
        + Lines[d.content] + d.loc

BytesOf(docs) == UNION {{u} \X (1 .. HeldBytes(docs[u])) : u \in DOMAIN docs}

HeldCapacity(x) == x.fileCap + x.keyCap + 2 * Cells(x, Keys)

Held(s) == Cardinality(BytesOf(s.docs)) + Cells(s.uses, Keys) + HeldCapacity(s.uses)

(* The account, kept by differences that saturate, is exact after any        *)
(* sequence of operations (state.rs, retained_text_bytes and capacity_bytes):*)
(* a drift would refuse every edit in the end, or admit without limit.       *)
Accounted == store.retained = Held(store)

(* When the last document closes nothing stays accounted for: the tables     *)
(* shrink with their last entries.                                           *)
NothingLeft == DOMAIN store.docs = {} => store.retained = 0

(* However a document got its text, tree, sites and cached localisation -    *)
(* opened, changed, renamed, validated or refreshed, in any order - it stays *)
(* within the limit of one document, and the documents within theirs.        *)
WithinLimits(s) ==
    /\ Cardinality(DOMAIN s.docs) <= MaxOpen
    /\ \A u \in DOMAIN s.docs :
        DocumentBytes(s.docs[u]) + FileBytes(s.uses, u) <= MaxDocument

LimitsHold == WithinLimits(store)

(* A document has a version, and one without a tree has no tree's version.   *)
TreesOK(s) ==
    \A u \in DOMAIN s.docs :
        /\ s.docs[u].version # 0
        /\ s.docs[u].tree = NoTree => s.docs[u].treeVersion = 0

(* The sites of a file were found in a tree of the version whose tree the    *)
(* document holds, also when a refresh that read an older version comes back *)
(* after edits, a close or a rename (replace_reference_sites checks both     *)
(* versions).  Versions are all that is compared: sites found before a close *)
(* are let in again when the reopened document has reached that version.     *)
SitesMatch(s) ==
    \A u \in FilesIn(s.uses) :
        /\ u \in DOMAIN s.docs
        /\ s.docs[u].tree # NoTree
        /\ s.uses.version[u] = s.docs[u].treeVersion

SitesOfTree == SitesMatch(store)

(* The store goes over its limit only when it records use sites, whose       *)
(* tables may grow by more than capacity_bound foresees: no text and no      *)
(* cached localisation is admitted beyond it.                                *)
OverLimitOnlyBySites ==
    [][/\ store'.retained > MaxRetained
       /\ store'.retained > store.retained
       => store'.uses.keys # store.uses.keys]_vars
=============================================================================
