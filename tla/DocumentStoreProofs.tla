------------------------ MODULE DocumentStoreProofs ------------------------
(* Proofs about DocumentStore, for every set of files, texts, keys and tasks, *)
(* every limit and every growth of the tables.                                *)
EXTENDS DocumentStore, FiniteSetTheorems, TLAPS

USE ConstantsAssumption DEF ConstantsAssumption

-----------------------------------------------------------------------------
(* Numbers *)

LEMMA MonusType == \A a, b \in Nat : Monus(a, b) \in Nat
BY DEF Monus

LEMMA KeySets ==
    ASSUME NEW K, K \subseteq Keys
    PROVE  IsFiniteSet(K) /\ Cardinality(K) \in Nat
BY FS_Subset, FS_CardinalityType

LEMMA Counts ==
    ASSUME NEW x \in Uses
    PROVE  /\ \A u \in Uris : FileBytes(x, u) \in Nat
           /\ \A K \in SUBSET Keys : Cells(x, K) \in Nat
           /\ Cardinality(FilesIn(x)) \in Entries
           /\ Cardinality(KeysIn(x)) \in Entries
<1>1. \A u \in Uris : FileBytes(x, u) \in Nat
    BY KeySets DEF Uses, FileBytes
<1>2. \A K \in SUBSET Keys : Cells(x, K) \in Nat
    <2> SUFFICES ASSUME NEW K \in SUBSET Keys PROVE Cells(x, K) \in Nat
        OBVIOUS
    <2> DEFINE used == {cell \in K \X Uris : cell[1] \in x.keys[cell[2]]}
    <2>1. IsFiniteSet(K \X Uris)
        BY KeySets, FS_Product
    <2>2. used \in SUBSET (K \X Uris)
        OBVIOUS
    <2> HIDE DEF used
    <2>3. Cardinality(used) \in Nat
        BY <2>1, <2>2, FS_Subset, FS_CardinalityType
    <2> QED
        BY <2>3 DEF Cells, used
<1>3. /\ Cardinality(Uris) \in Nat
      /\ Cardinality(Keys) \in Nat
    BY FS_CardinalityType
<1>4. Cardinality(FilesIn(x)) \in Nat /\ Cardinality(FilesIn(x)) <= Cardinality(Uris)
    <2>1. FilesIn(x) \in SUBSET Uris
        BY DEF FilesIn
    <2> QED
        BY <2>1, FS_Subset, FS_CardinalityType
<1>5. Cardinality(KeysIn(x)) \in Nat /\ Cardinality(KeysIn(x)) <= Cardinality(Keys)
    <2>1. KeysIn(x) \in SUBSET Keys
        BY DEF KeysIn
    <2> QED
        BY <2>1, FS_Subset, FS_CardinalityType
<1> QED
    BY <1>1, <1>2, <1>3, <1>4, <1>5 DEF Entries

LEMMA Capacities ==
    \A cap \in Nat, n \in Entries : Shrunk(cap, n) \in Nat /\ Grown(cap, n) \in Nat
BY TableAssumption DEF Entries, Shrunk, Grown

-----------------------------------------------------------------------------
(* Use sites: every operation changes those of its file only. *)

LEMMA ShrinkKeeps ==
    ASSUME NEW x \in Uses
    PROVE  /\ ShrinkTouched(x) \in Uses
           /\ ShrinkTouched(x).keys = x.keys
           /\ ShrinkTouched(x).version = x.version
<1>1. /\ Shrunk(x.fileCap, Cardinality(FilesIn(x))) \in Nat
      /\ Shrunk(x.keyCap, Cardinality(KeysIn(x))) \in Nat
    BY Counts, Capacities DEF Uses
<1> QED
    BY <1>1 DEF ShrinkTouched, Uses

LEMMA RecountKeeps ==
    ASSUME NEW x \in Uses, NEW y \in Uses, NEW u \in Uris, NEW K \in SUBSET Keys
    PROVE  /\ Recount(x, y, u, K) \in Uses
           /\ Recount(x, y, u, K).keys = y.keys
           /\ Recount(x, y, u, K).version = y.version
<1>1. TouchedCapacity(x, u, K) \in Nat /\ TouchedCapacity(y, u, K) \in Nat
    BY Counts DEF TouchedCapacity, FileBytes, Uses
<1>2. Monus(y.bytes, TouchedCapacity(x, u, K)) + TouchedCapacity(y, u, K) \in Nat
    <2>1. y.bytes \in Nat
        BY DEF Uses
    <2>2. Monus(y.bytes, TouchedCapacity(x, u, K)) \in Nat
        BY <1>1, <2>1, MonusType
    <2> QED
        BY <1>1, <2>2
<1> QED
    BY <1>2 DEF Recount, Uses

LEMMA RemoveFileKeeps ==
    ASSUME NEW x \in Uses, NEW u \in Uris
    PROVE  /\ RemoveFile(x, u) \in Uses
           /\ RemoveFile(x, u).keys = [x.keys EXCEPT ![u] = {}]
           /\ \A w \in Uris \ {u} : RemoveFile(x, u).version[w] = x.version[w]
<1>1. CASE x.keys[u] = {}
    BY <1>1 DEF RemoveFile, Uses
<1>2. CASE x.keys[u] # {}
    <2> DEFINE y == [x EXCEPT !.keys[u] = {}, !.version[u] = 0]
    <2>1. /\ y \in Uses
          /\ y.keys = [x.keys EXCEPT ![u] = {}]
          /\ \A w \in Uris \ {u} : y.version[w] = x.version[w]
        BY DEF Uses
    <2>2. x.keys[u] \in SUBSET Keys
        BY DEF Uses
    <2>3. RemoveFile(x, u) = Recount(x, ShrinkTouched(y), u, x.keys[u])
        BY <1>2 DEF RemoveFile
    <2> HIDE DEF y
    <2> QED
        BY <2>1, <2>2, <2>3, ShrinkKeeps, RecountKeeps
<1> QED
    BY <1>1, <1>2

(* y is x with u's sites replaced by K, of that version. *)
Replaced(x, y, u, K, version) ==
    /\ y \in Uses
    /\ y.keys = [x.keys EXCEPT ![u] = K]
    /\ \A w \in Uris \ {u} : y.version[w] = x.version[w]
    /\ K # {} => y.version[u] = version

LEMMA ReplaceFileKeeps ==
    ASSUME NEW x \in Uses, NEW u \in Uris, NEW K \in SUBSET Keys, NEW version \in Nat
    PROVE  Replaced(x, ReplaceFile(x, u, K, version), u, K, version)
<1> USE DEF Replaced
<1> DEFINE removed == RemoveFile(x, u)
           added == [removed EXCEPT !.keys[u] = K,
                                    !.version[u] = IF K = {} THEN 0 ELSE version]
           grown == [added EXCEPT !.fileCap = Grown(@, Cardinality(FilesIn(added))),
                                  !.keyCap = Grown(@, Cardinality(KeysIn(added)))]
<1>1. /\ removed \in Uses
      /\ removed.keys = [x.keys EXCEPT ![u] = {}]
      /\ \A w \in Uris \ {u} : removed.version[w] = x.version[w]
    BY RemoveFileKeeps
<1>2. ReplaceFile(x, u, K, version) = Recount(removed, ShrinkTouched(grown), u, K)
    BY DEF ReplaceFile
<1> HIDE DEF removed
<1>3. /\ added \in Uses
      /\ added.keys = [x.keys EXCEPT ![u] = K]
      /\ \A w \in Uris \ {u} : added.version[w] = x.version[w]
      /\ K # {} => added.version[u] = version
    BY <1>1 DEF Uses
<1> HIDE DEF added
<1>4. /\ grown \in Uses
      /\ grown.keys = added.keys
      /\ grown.version = added.version
    <2>1. /\ Grown(added.fileCap, Cardinality(FilesIn(added))) \in Nat
          /\ Grown(added.keyCap, Cardinality(KeysIn(added))) \in Nat
        BY <1>3, Counts, Capacities DEF Uses
    <2> QED
        BY <1>3, <2>1 DEF Uses
<1> HIDE DEF grown
<1> QED
    BY <1>1, <1>2, <1>3, <1>4, ShrinkKeeps, RecountKeeps

-----------------------------------------------------------------------------
(* The invariant of a store *)

StoreInv(s) == StoreOK(s) /\ WithinLimits(s) /\ SitesMatch(s) /\ TreesOK(s)

LEMMA Bytes ==
    \A d \in Document :
        /\ d.loc \in Nat /\ d.treeBytes \in Nat /\ d.content \in Contents
        /\ RetainedBytes(d) \in Nat
        /\ DocumentBytes(d) \in Nat
<1> SUFFICES ASSUME NEW d \in Document
             PROVE  /\ d.loc \in Nat /\ d.treeBytes \in Nat /\ d.content \in Contents
                    /\ RetainedBytes(d) \in Nat
                    /\ DocumentBytes(d) \in Nat
    OBVIOUS
<1>1. d.loc \in Nat /\ d.treeBytes \in Nat /\ d.content \in Contents
    BY DEF Document
<1>2. Length[d.content] \in Nat /\ Lines[d.content] \in Nat
    BY <1>1
<1> QED
    BY <1>1, <1>2 DEF RetainedBytes, DocumentBytes

LEMMA Totals ==
    ASSUME NEW s, StoreOK(s), NEW u \in Uris
    PROVE  /\ s.uses.bytes \in Nat
           /\ IndexBytes(s.uses, u) \in Nat
           /\ OldBytes(s, u) \in Nat
           /\ \A new \in Nat : Retain(s, OldBytes(s, u), new) \in Nat
<1>1. s.uses \in Uses /\ s.uses.bytes \in Nat
    BY DEF StoreOK, Uses
<1>2. FileBytes(s.uses, u) \in Nat /\ IndexBytes(s.uses, u) \in Nat
    BY <1>1, Counts DEF IndexBytes
<1>3. u \in DOMAIN s.docs => DocumentBytes(s.docs[u]) \in Nat
    BY Bytes DEF StoreOK
<1>4. OldBytes(s, u) \in Nat
    BY <1>2, <1>3 DEF OldBytes
<1>5. Monus(s.retained, OldBytes(s, u)) \in Nat
    BY <1>4, MonusType DEF StoreOK
<1> QED
    BY <1>1, <1>2, <1>4, <1>5 DEF Retain

\* A store with a document put at u, and the sites of u changed, is as good as
\* the one before, if the document fits and its sites are of its tree.
LEMMA PutKeepsInv ==
    ASSUME NEW s, StoreInv(s), NEW u \in Uris,
           NEW d \in Document, d.version # 0, d.tree = NoTree => d.treeVersion = 0,
           u \in DOMAIN s.docs \/ Cardinality(DOMAIN s.docs) < MaxOpen,
           NEW x \in Uses,
           \A w \in Uris \ {u} : /\ x.keys[w] = s.uses.keys[w]
                                 /\ x.version[w] = s.uses.version[w],
           x.keys[u] # {} => d.tree # NoTree /\ x.version[u] = d.treeVersion,
           DocumentBytes(d) + FileBytes(x, u) <= MaxDocument,
           NEW V, V \subseteq s.validated \cup {u},
           NEW r \in Nat
    PROVE  StoreInv([docs |-> Put(s.docs, u, d), validated |-> V, uses |-> x, retained |-> r])
<1> DEFINE docs == Put(s.docs, u, d)
           n == [docs |-> docs, validated |-> V, uses |-> x, retained |-> r]
<1>1. /\ DOMAIN docs = DOMAIN s.docs \cup {u}
      /\ docs[u] = d
      /\ \A w \in DOMAIN s.docs \ {u} : docs[w] = s.docs[w]
      /\ docs = [w \in DOMAIN docs |-> docs[w]]
    BY DEF Put
<1>2. /\ DOMAIN s.docs \subseteq Uris /\ s.validated \subseteq DOMAIN s.docs
      /\ \A w \in DOMAIN s.docs : s.docs[w] \in Document
      /\ \A w \in Uris : s.uses.keys[w] # {} => w \in DOMAIN s.docs
    BY DEF StoreInv, StoreOK, FilesIn
<1> HIDE DEF docs
<1>3. /\ n.docs = docs /\ n.validated = V /\ n.uses = x /\ n.retained = r
      /\ n = [docs |-> n.docs, validated |-> n.validated,
              uses |-> n.uses, retained |-> n.retained]
    OBVIOUS
<1> HIDE DEF n
<1>4. StoreOK(n)
    <2>1. docs \in [DOMAIN docs -> Document]
        BY <1>1, <1>2
    <2>2. FilesIn(x) \subseteq DOMAIN docs
        BY <1>1, <1>2 DEF FilesIn
    <2> QED
        BY <1>1, <1>2, <1>3, <2>1, <2>2 DEF StoreOK
<1>5. WithinLimits(n)
    <2>1. Cardinality(DOMAIN docs) <= MaxOpen
        <3>1. IsFiniteSet(DOMAIN s.docs) /\ Cardinality(DOMAIN s.docs) \in Nat
            BY <1>2, FS_Subset, FS_CardinalityType
        <3>2. Cardinality(DOMAIN s.docs) <= MaxOpen
            BY DEF StoreInv, WithinLimits
        <3>3. Cardinality(DOMAIN docs) = IF u \in DOMAIN s.docs
                                         THEN Cardinality(DOMAIN s.docs)
                                         ELSE Cardinality(DOMAIN s.docs) + 1
            <4>1. Cardinality(DOMAIN s.docs \cup {u})
                        = IF u \in DOMAIN s.docs THEN Cardinality(DOMAIN s.docs)
                                                 ELSE Cardinality(DOMAIN s.docs) + 1
                BY ONLY <3>1, FS_AddElement
            <4> QED
                BY ONLY <1>1, <4>1
        <3> QED
            BY <3>1, <3>2, <3>3
    <2>2. ASSUME NEW w \in DOMAIN docs
          PROVE  DocumentBytes(docs[w]) + FileBytes(x, w) <= MaxDocument
        <3>1. CASE w = u
            BY <1>1, <3>1
        <3>2. CASE w # u
            <4>1. w \in DOMAIN s.docs \ {u} /\ w \in Uris \ {u}
                BY <1>1, <1>2, <3>2
            <4>2. docs[w] = s.docs[w] /\ FileBytes(x, w) = FileBytes(s.uses, w)
                BY <1>1, <4>1 DEF FileBytes
            <4> QED
                BY <4>1, <4>2 DEF StoreInv, WithinLimits
        <3> QED
            BY <3>1, <3>2
    <2> QED
        BY <1>3, <2>1, <2>2 DEF WithinLimits
<1>6. SitesMatch(n)
    <2> SUFFICES ASSUME NEW w \in Uris, x.keys[w] # {}
                 PROVE  /\ w \in DOMAIN docs
                        /\ docs[w].tree # NoTree
                        /\ x.version[w] = docs[w].treeVersion
        BY <1>3 DEF SitesMatch, FilesIn
    <2>1. CASE w = u
        BY <1>1, <2>1
    <2>2. CASE w # u
        <3>1. w \in FilesIn(s.uses) /\ x.version[w] = s.uses.version[w]
            BY <2>2 DEF FilesIn
        <3>2. /\ w \in DOMAIN s.docs
              /\ s.docs[w].tree # NoTree
              /\ s.uses.version[w] = s.docs[w].treeVersion
            BY <3>1 DEF StoreInv, SitesMatch
        <3> QED
            BY <1>1, <2>2, <3>1, <3>2
    <2> QED
        BY <2>1, <2>2
<1>7. TreesOK(n)
    BY <1>1, <1>3 DEF StoreInv, TreesOK
<1> QED
    BY <1>4, <1>5, <1>6, <1>7 DEF StoreInv, n, docs

-----------------------------------------------------------------------------
(* The methods keep the invariant. *)

Good(d) == d \in Document /\ d.version # 0 /\ (d.tree = NoTree => d.treeVersion = 0)

LEMMA GoodDocuments ==
    ASSUME NEW s, StoreInv(s), NEW u \in DOMAIN s.docs
    PROVE  Good(s.docs[u]) /\ u \in Uris
BY DEF StoreInv, StoreOK, TreesOK, Good

LEMMA OpenedKeeps ==
    ASSUME NEW s, StoreInv(s), NEW u \in Uris, NEW d, Good(d), CanOpen(s, u, d)
    PROVE  StoreInv(Opened(s, u, d))
<1> DEFINE x == RemoveFile(s.uses, u)
           V == s.validated \ {u}
           r == Retain(s, OldBytes(s, u), DocumentBytes(d) + x.bytes)
<1>1. d \in Document /\ d.version # 0 /\ (d.tree = NoTree => d.treeVersion = 0)
    BY DEF Good
<1>2. s.uses \in Uses /\ s.uses.bytes \in Nat
    BY DEF StoreInv, StoreOK, Uses
<1>3. /\ x \in Uses
      /\ x.keys = [s.uses.keys EXCEPT ![u] = {}]
      /\ \A w \in Uris \ {u} : x.version[w] = s.uses.version[w]
    BY <1>2, RemoveFileKeeps
<1> HIDE DEF x
<1>4. /\ x.keys[u] = {}
      /\ \A w \in Uris \ {u} : x.keys[w] = s.uses.keys[w]
    BY <1>2, <1>3 DEF Uses
<1>5. FileBytes(x, u) = 0
    BY <1>4, FS_EmptySet DEF FileBytes
<1>6. DocumentBytes(d) \in Nat /\ DocumentBytes(d) <= MaxDocument
    BY <1>1, <1>2, Bytes DEF CanOpen, Admits
<1>7. u \in DOMAIN s.docs \/ Cardinality(DOMAIN s.docs) < MaxOpen
    BY DEF CanOpen
<1>8. r \in Nat
    <2>1. x.bytes \in Nat
        BY <1>3 DEF Uses
    <2> QED
        BY <1>6, <2>1, Totals DEF StoreInv
<1>9. V \subseteq s.validated \cup {u}
    OBVIOUS
<1> HIDE DEF V, r
<1>10. StoreInv([docs |-> Put(s.docs, u, d), validated |-> V, uses |-> x, retained |-> r])
    <2>1. DocumentBytes(d) + FileBytes(x, u) <= MaxDocument
        BY <1>5, <1>6
    <2>2. \A w \in Uris \ {u} : /\ x.keys[w] = s.uses.keys[w]
                                /\ x.version[w] = s.uses.version[w]
        BY <1>3, <1>4
    <2>3. x.keys[u] # {} => d.tree # NoTree /\ x.version[u] = d.treeVersion
        BY <1>4
    <2> QED
        BY <1>1, <1>3, <1>7, <1>8, <1>9, <2>1, <2>2, <2>3, PutKeepsInv
<1> QED
    BY <1>10 DEF Opened, x, V, r

LEMMA RemovedKeeps ==
    ASSUME NEW s, StoreInv(s), NEW u \in DOMAIN s.docs
    PROVE  StoreInv(Removed(s, u)) /\ Removed(s, u).docs = Without(s.docs, u)
<1> DEFINE x == RemoveFile(s.uses, u)
           docs == Without(s.docs, u)
           n == Removed(s, u)
<1>1. /\ DOMAIN s.docs \subseteq Uris /\ s.validated \subseteq DOMAIN s.docs
      /\ \A w \in DOMAIN s.docs : s.docs[w] \in Document
      /\ s.uses \in Uses
      /\ FilesIn(s.uses) \subseteq DOMAIN s.docs
    BY DEF StoreInv, StoreOK
<1>2. /\ x \in Uses
      /\ x.keys = [s.uses.keys EXCEPT ![u] = {}]
      /\ \A w \in Uris \ {u} : x.version[w] = s.uses.version[w]
    BY <1>1, RemoveFileKeeps
<1> DEFINE r == Retain(s, OldBytes(s, u), x.bytes)
<1>0. n = [docs |-> docs, validated |-> s.validated \ {u}, uses |-> x, retained |-> r]
    BY DEF Removed
<1> HIDE DEF x, n, docs, r
<1>3. /\ n.docs = docs /\ n.validated = s.validated \ {u} /\ n.uses = x
      /\ n.retained = r
      /\ n = [docs |-> n.docs, validated |-> n.validated,
              uses |-> n.uses, retained |-> n.retained]
    BY <1>0
<1>4. /\ DOMAIN docs = DOMAIN s.docs \ {u}
      /\ \A w \in DOMAIN docs : docs[w] = s.docs[w]
      /\ docs = [w \in DOMAIN docs |-> docs[w]]
    BY DEF Without, docs
<1>5. /\ x.keys[u] = {}
      /\ \A w \in Uris \ {u} : x.keys[w] = s.uses.keys[w]
    BY <1>1, <1>2 DEF Uses
<1>6. \A w \in FilesIn(x) : w \in FilesIn(s.uses) /\ w \in DOMAIN docs /\ w # u
    BY <1>1, <1>4, <1>5 DEF FilesIn
<1>7. StoreOK(n)
    <2>1. x.bytes \in Nat
        BY <1>2 DEF Uses
    <2>2. n.retained \in Nat
        BY <1>1, <1>3, <2>1, Totals DEF StoreInv, r
    <2>3. docs \in [DOMAIN docs -> Document]
        BY <1>1, <1>4
    <2>4. FilesIn(x) \subseteq DOMAIN docs
        BY <1>6
    <2> QED
        BY <1>1, <1>2, <1>3, <1>4, <2>2, <2>3, <2>4 DEF StoreOK
<1>8. WithinLimits(n)
    <2>1. IsFiniteSet(DOMAIN s.docs) /\ Cardinality(DOMAIN s.docs) \in Nat
        BY <1>1, FS_Subset, FS_CardinalityType
    <2>2. Cardinality(DOMAIN docs) <= MaxOpen
        <3>1. Cardinality(DOMAIN docs) = Cardinality(DOMAIN s.docs) - 1
            <4>1. u \in DOMAIN s.docs
                OBVIOUS
            <4>2. Cardinality(DOMAIN s.docs \ {u}) = Cardinality(DOMAIN s.docs) - 1
                BY ONLY <2>1, <4>1, FS_RemoveElement
            <4> QED
                BY ONLY <1>4, <4>2
        <3>2. Cardinality(DOMAIN s.docs) <= MaxOpen
            BY DEF StoreInv, WithinLimits
        <3> QED
            BY <2>1, <3>1, <3>2
    <2>3. ASSUME NEW w \in DOMAIN docs
          PROVE  DocumentBytes(docs[w]) + FileBytes(x, w) <= MaxDocument
        <3>1. docs[w] = s.docs[w] /\ FileBytes(x, w) = FileBytes(s.uses, w)
            BY <1>1, <1>4, <1>5 DEF FileBytes
        <3> QED
            BY <1>4, <3>1 DEF StoreInv, WithinLimits
    <2> QED
        BY <1>3, <2>2, <2>3 DEF WithinLimits
<1>9. SitesMatch(n)
    <2> SUFFICES ASSUME NEW w \in FilesIn(x)
                 PROVE  /\ w \in DOMAIN docs
                        /\ docs[w].tree # NoTree
                        /\ x.version[w] = docs[w].treeVersion
        BY <1>3 DEF SitesMatch
    <2>1. w \in DOMAIN docs /\ docs[w] = s.docs[w] /\ x.version[w] = s.uses.version[w]
        BY <1>1, <1>2, <1>4, <1>6
    <2>2. s.docs[w].tree # NoTree /\ s.uses.version[w] = s.docs[w].treeVersion
        BY <1>6 DEF StoreInv, SitesMatch
    <2> QED
        BY <2>1, <2>2
<1>10. TreesOK(n)
    BY <1>3, <1>4 DEF StoreInv, TreesOK
<1> QED
    BY <1>3, <1>7, <1>8, <1>9, <1>10 DEF StoreInv, n, docs

\* A change of the text, or of the cached localisation.
LEMMA AccountedPut ==
    ASSUME NEW s, StoreInv(s), NEW u \in DOMAIN s.docs, NEW d, Good(d),
           CanChange(s, u, d),
           d.tree = s.docs[u].tree, d.treeVersion = s.docs[u].treeVersion,
           NEW V, V \subseteq s.validated
    PROVE  StoreInv([docs |-> Put(s.docs, u, d), validated |-> V, uses |-> s.uses,
                     retained |-> Retain(s, OldBytes(s, u),
                                         DocumentBytes(d) + IndexBytes(s.uses, u))])
<1> DEFINE r == Retain(s, OldBytes(s, u), DocumentBytes(d) + IndexBytes(s.uses, u))
<1>1. d \in Document /\ d.version # 0 /\ (d.tree = NoTree => d.treeVersion = 0)
    BY DEF Good
<1>2. u \in Uris /\ s.uses \in Uses /\ s.uses.bytes \in Nat
    BY GoodDocuments DEF StoreInv, StoreOK, Uses
<1>3. DocumentBytes(d) \in Nat /\ FileBytes(s.uses, u) \in Nat
    BY <1>1, <1>2, Bytes, Counts
<1>4. DocumentBytes(d) + FileBytes(s.uses, u) <= MaxDocument
    BY <1>2, <1>3 DEF CanChange, Admits, IndexBytes
<1>5. r \in Nat
    BY <1>2, <1>3, Totals DEF StoreInv
<1>6. s.uses.keys[u] # {} => d.tree # NoTree /\ s.uses.version[u] = d.treeVersion
    BY <1>2 DEF StoreInv, SitesMatch, FilesIn
<1>7. V \subseteq s.validated \cup {u}
    OBVIOUS
<1> HIDE DEF r
<1>8. StoreInv([docs |-> Put(s.docs, u, d), validated |-> V, uses |-> s.uses, retained |-> r])
    BY <1>1, <1>2, <1>4, <1>5, <1>6, <1>7, PutKeepsInv
<1> QED
    BY <1>8 DEF r

LEMMA ChangedKeeps ==
    ASSUME NEW s, StoreInv(s), NEW u \in DOMAIN s.docs, NEW d, Good(d),
           CanChange(s, u, d),
           d.tree = s.docs[u].tree, d.treeVersion = s.docs[u].treeVersion
    PROVE  StoreInv(Changed(s, u, d))
<1> DEFINE docs == Put(s.docs, u, d)
           V == s.validated \ {u}
           r == Retain(s, OldBytes(s, u), DocumentBytes(d) + IndexBytes(s.uses, u))
<1>1. V \subseteq s.validated
    OBVIOUS
<1> HIDE DEF V
<1>2. StoreInv([docs |-> docs, validated |-> V, uses |-> s.uses, retained |-> r])
    BY <1>1, AccountedPut
<1>3. s = [docs |-> s.docs, validated |-> s.validated,
           uses |-> s.uses, retained |-> s.retained]
    BY DEF StoreInv, StoreOK
<1>4. Changed(s, u, d) = [s EXCEPT !.docs = docs, !.validated = V, !.retained = r]
    BY <1>3 DEF Changed, V
<1> HIDE DEF docs, r
<1>5. Changed(s, u, d) = [docs |-> docs, validated |-> V, uses |-> s.uses, retained |-> r]
    BY <1>3, <1>4
<1> QED
    BY <1>2, <1>5

LEMMA SetLocCacheKeeps ==
    ASSUME NEW s, StoreInv(s), NEW u, NEW version, NEW bytes \in Nat
    PROVE  StoreInv(SetLocCache(s, u, version, bytes))
<1> DEFINE d == [s.docs[u] EXCEPT !.loc = bytes]
           docs == Put(s.docs, u, d)
           r == Retain(s, OldBytes(s, u), DocumentBytes(d) + IndexBytes(s.uses, u))
<1>1. CASE ~(u \in DOMAIN s.docs /\ s.docs[u].version = version /\ CanChange(s, u, d))
    BY <1>1 DEF SetLocCache
<1>2. CASE u \in DOMAIN s.docs /\ s.docs[u].version = version /\ CanChange(s, u, d)
    <2>1. /\ Good(d)
          /\ d.tree = s.docs[u].tree
          /\ d.treeVersion = s.docs[u].treeVersion
        BY <1>2, GoodDocuments DEF Good, Document
    <2>2. SetLocCache(s, u, version, bytes) = [s EXCEPT !.docs = docs, !.retained = r]
        BY <1>2 DEF SetLocCache
    <2>3. s = [docs |-> s.docs, validated |-> s.validated,
               uses |-> s.uses, retained |-> s.retained]
        BY DEF StoreInv, StoreOK
    <2> HIDE DEF d
    <2>4. StoreInv([docs |-> docs, validated |-> s.validated, uses |-> s.uses, retained |-> r])
        BY <1>2, <2>1, AccountedPut
    <2> HIDE DEF docs, r
    <2>5. SetLocCache(s, u, version, bytes)
            = [docs |-> docs, validated |-> s.validated, uses |-> s.uses, retained |-> r]
        BY <2>2, <2>3
    <2> QED
        BY <2>4, <2>5
<1> QED
    BY <1>1, <1>2

LEMMA WithSitesKeeps ==
    ASSUME NEW s, StoreInv(s), NEW u \in DOMAIN s.docs, NEW d, Good(d),
           d.tree # NoTree, d.treeVersion = d.version,
           NEW K \in SUBSET Keys, CanReplaceSites(s, u, d, K)
    PROVE  StoreInv(WithSites(s, u, d, K))
<1> DEFINE docs == Put(s.docs, u, d)
           x == ReplaceFile(s.uses, u, K, d.version)
           r == Retain(s, OldBytes(s, u), DocumentBytes(d) + IndexBytes(x, u))
           bound == ReplacementCapacityBound(s.uses, u, K)
<1>1. d \in Document /\ d.version \in Nat /\ d.version # 0
      /\ (d.tree = NoTree => d.treeVersion = 0)
    BY DEF Good, Document
<1>2. u \in Uris /\ s.uses \in Uses /\ s.uses.bytes \in Nat
    BY GoodDocuments DEF StoreInv, StoreOK, Uses
<1>3. /\ x \in Uses
      /\ x.keys = [s.uses.keys EXCEPT ![u] = K]
      /\ \A w \in Uris \ {u} : x.version[w] = s.uses.version[w]
      /\ K # {} => x.version[u] = d.version
    <2>1. Replaced(s.uses, ReplaceFile(s.uses, u, K, d.version), u, K, d.version)
        BY <1>1, <1>2, ReplaceFileKeeps
    <2> QED
        BY <2>1 DEF Replaced
<1> HIDE DEF x
<1>4. /\ x.keys[u] = K
      /\ \A w \in Uris \ {u} : x.keys[w] = s.uses.keys[w]
    BY <1>2, <1>3 DEF Uses
<1>5. DocumentBytes(d) \in Nat /\ FileBytes(x, u) = Cardinality(K) /\ Cardinality(K) \in Nat
    BY <1>1, <1>4, Bytes, KeySets DEF FileBytes
<1>6. bound \in Nat
    <2>1. CapacityBound(Cardinality(K)) \in Nat
        BY <1>5 DEF CapacityBound
    <2>2. Cardinality(s.uses.keys[u]) \in Nat
        BY <1>2, KeySets DEF Uses
    <2>3. CapacityBound(Cardinality(s.uses.keys[u])) \in Nat
        BY <2>2 DEF CapacityBound
    <2>4. Monus(CapacityBound(Cardinality(K)),
                IF s.uses.keys[u] = {} THEN 0
                ELSE CapacityBound(Cardinality(s.uses.keys[u]))) \in Nat
        BY <2>1, <2>3, MonusType
    <2> QED
        BY <1>2, <2>4 DEF ReplacementCapacityBound
<1>7. DocumentBytes(d) + FileBytes(x, u) <= MaxDocument
    <2>1. Admits(s, OldBytes(s, u), DocumentBytes(d) + Cardinality(K) + bound, bound)
        BY DEF CanReplaceSites
    <2> HIDE DEF bound
    <2> QED
        BY <1>5, <1>6, <2>1 DEF Admits
<1>8. r \in Nat
    <2>1. IndexBytes(x, u) \in Nat
        BY <1>3, <1>5 DEF IndexBytes, Uses
    <2> QED
        BY <1>2, <1>5, <2>1, Totals DEF StoreInv
<1>9. x.keys[u] # {} => d.tree # NoTree /\ x.version[u] = d.treeVersion
    BY <1>3, <1>4
<1> HIDE DEF r, bound
<1>10. StoreInv([docs |-> docs, validated |-> s.validated, uses |-> x, retained |-> r])
    <2>1. s.validated \subseteq s.validated \cup {u}
        OBVIOUS
    <2>2. \A w \in Uris \ {u} : /\ x.keys[w] = s.uses.keys[w]
                                /\ x.version[w] = s.uses.version[w]
        BY <1>3, <1>4
    <2> QED
        BY <1>1, <1>2, <1>3, <1>7, <1>8, <1>9, <2>1, <2>2, PutKeepsInv
<1>11. s = [docs |-> s.docs, validated |-> s.validated,
            uses |-> s.uses, retained |-> s.retained]
    BY DEF StoreInv, StoreOK
<1>12. WithSites(s, u, d, K) = [s EXCEPT !.docs = docs, !.uses = x, !.retained = r]
    BY DEF WithSites, x, r
<1> HIDE DEF docs
<1>13. WithSites(s, u, d, K) = [docs |-> docs, validated |-> s.validated, uses |-> x, retained |-> r]
    BY <1>11, <1>12
<1> QED
    BY <1>10, <1>13

LEMMA SetAstKeeps ==
    ASSUME NEW s, StoreInv(s), NEW u, NEW version, NEW tree \in Contents,
           NEW K \in SUBSET Keys
    PROVE  StoreInv(SetAst(s, u, version, tree, K))
<1> DEFINE d == [s.docs[u] EXCEPT !.tree = tree, !.treeVersion = version,
                                  !.treeBytes = Length[s.docs[u].content]]
           accepted == /\ u \in DOMAIN s.docs
                       /\ s.docs[u].version = version
                       /\ CanReplaceSites(s, u, d, K)
<1>1. CASE ~accepted
    BY <1>1 DEF SetAst
<1>2. CASE accepted
    <2>1. s.docs[u] \in Document /\ s.docs[u].version # 0 /\ version \in Nat
        BY <1>2, GoodDocuments DEF Good, Document
    <2>2. Length[s.docs[u].content] \in Nat
        BY <2>1, Bytes
    <2>3. Good(d) /\ d.tree # NoTree /\ d.treeVersion = d.version
        BY <1>2, <2>1, <2>2 DEF Good, Document
    <2>4. SetAst(s, u, version, tree, K) = WithSites(s, u, d, K)
        BY <1>2 DEF SetAst
    <2> HIDE DEF d
    <2> QED
        BY <1>2, <2>3, <2>4, WithSitesKeeps
<1> QED
    BY <1>1, <1>2

LEMMA ReplaceReferenceSitesKeeps ==
    ASSUME NEW s, StoreInv(s), NEW u, NEW version, NEW K \in SUBSET Keys
    PROVE  StoreInv(ReplaceReferenceSites(s, u, version, K))
<1> DEFINE d == s.docs[u]
           accepted == /\ u \in DOMAIN s.docs
                       /\ d.version = version
                       /\ d.treeVersion = version
                       /\ CanReplaceSites(s, u, d, K)
<1>1. CASE ~accepted
    BY <1>1 DEF ReplaceReferenceSites
<1>2. CASE accepted
    <2>1. Good(d) /\ d.tree # NoTree /\ d.treeVersion = d.version
        BY <1>2, GoodDocuments DEF Good
    <2>2. ReplaceReferenceSites(s, u, version, K) = WithSites(s, u, d, K)
        BY <1>2 DEF ReplaceReferenceSites
    <2> HIDE DEF d
    <2> QED
        BY <1>2, <2>1, <2>2, WithSitesKeeps
<1> QED
    BY <1>1, <1>2

LEMMA MarkedKeeps ==
    ASSUME NEW s, StoreInv(s), NEW u \in DOMAIN s.docs
    PROVE  StoreInv([s EXCEPT !.validated = @ \cup {u}])
<1> DEFINE V == s.validated \cup {u}
           n == [s EXCEPT !.validated = V]
<1>1. s = [docs |-> s.docs, validated |-> s.validated,
           uses |-> s.uses, retained |-> s.retained]
    BY DEF StoreInv, StoreOK
<1> HIDE DEF V
<1>2. n = [docs |-> s.docs, validated |-> V, uses |-> s.uses, retained |-> s.retained]
    BY <1>1
<1> HIDE DEF n
<1>3. /\ n.docs = s.docs /\ n.validated = V
      /\ n.uses = s.uses /\ n.retained = s.retained
      /\ n = [docs |-> n.docs, validated |-> n.validated,
              uses |-> n.uses, retained |-> n.retained]
    BY <1>2
<1>4. StoreOK(n)
    BY <1>3 DEF StoreInv, StoreOK, V
<1>5. WithinLimits(n) /\ SitesMatch(n) /\ TreesOK(n)
    BY <1>3 DEF StoreInv, WithinLimits, SitesMatch, TreesOK
<1> QED
    BY <1>4, <1>5 DEF StoreInv, n, V

-----------------------------------------------------------------------------
(* The inductive invariant *)

Inv == StoreInv(store) /\ TasksOK /\ rules \in Rulesets /\ texts \in Nat

LEMMA EmptyStoreInv == StoreInv(EmptyStore)
<1>1. NoUses \in Uses /\ FilesIn(NoUses) = {}
    BY DEF NoUses, Uses, FilesIn
<1>2. /\ EmptyStore.docs = <<>> /\ EmptyStore.validated = {}
      /\ EmptyStore.uses = NoUses /\ EmptyStore.retained = 0
      /\ EmptyStore = [docs |-> EmptyStore.docs, validated |-> EmptyStore.validated,
                       uses |-> EmptyStore.uses, retained |-> EmptyStore.retained]
    BY DEF EmptyStore
<1>3. DOMAIN <<>> = {} /\ <<>> \in [DOMAIN <<>> -> Document]
    OBVIOUS
<1>4. StoreOK(EmptyStore)
    BY <1>1, <1>2, <1>3 DEF StoreOK
<1>5. WithinLimits(EmptyStore)
    BY <1>2, <1>3, FS_EmptySet DEF WithinLimits
<1>6. SitesMatch(EmptyStore) /\ TreesOK(EmptyStore)
    BY <1>1, <1>2, <1>3 DEF SitesMatch, TreesOK
<1> QED
    BY <1>4, <1>5, <1>6 DEF StoreInv

LEMMA InitInv == Init => Inv
<1> SUFFICES ASSUME Init PROVE Inv
    OBVIOUS
<1>1. TasksOK
    BY DEF Init, TasksOK, Idle, Jobs
<1> QED
    BY <1>1, EmptyStoreInv DEF Init, Inv, Rulesets

LEMMA SnapshotsOK ==
    ASSUME Inv, NEW t \in Tasks, NEW snap \in task[t].of
    PROVE  /\ snap.uri \in Uris /\ snap.content \in Contents
           /\ task[t].rules # 0 => Sites[task[t].rules][snap.content] \in SUBSET Keys
           /\ LocBytes[snap.content] \in Nat
<1>1. snap \in Snapshot /\ task[t].rules \in Rulesets \cup {0}
    BY DEF Inv, TasksOK
<1> QED
    BY <1>1 DEF Snapshot

\* What an action does to a task leaves all tasks what they may be.
LEMMA TaskKept ==
    ASSUME TasksOK, NEW t \in Tasks,
           NEW job \in Jobs, NEW of \in SUBSET Snapshot, NEW r \in Rulesets \cup {0},
           task' = [task EXCEPT ![t] = [job |-> job, of |-> of, rules |-> r]],
           lock' \in Tasks \cup {NoTask}
    PROVE  TasksOK'
<1> DEFINE k == [job |-> job, of |-> of, rules |-> r]
<1>1. k.job = job /\ k.of = of /\ k.rules = r
      /\ k = [job |-> k.job, of |-> k.of, rules |-> k.rules]
    OBVIOUS
<1> HIDE DEF k
<1>2. task' = [task EXCEPT ![t] = k] /\ task = [w \in Tasks |-> task[w]]
    BY DEF TasksOK, k
<1>3. /\ task' = [w \in Tasks |-> task'[w]]
      /\ task'[t] = k
      /\ \A w \in Tasks \ {t} : task'[w] = task[w]
    BY <1>2
<1>4. ASSUME NEW w \in Tasks
      PROVE  /\ task'[w] = [job |-> task'[w].job, of |-> task'[w].of,
                            rules |-> task'[w].rules]
             /\ task'[w].job \in Jobs
             /\ task'[w].of \subseteq Snapshot
             /\ task'[w].rules \in Rulesets \cup {0}
    <2>1. CASE w = t
        BY <1>1, <1>3, <2>1
    <2>2. CASE w # t
        BY <1>3, <2>2 DEF TasksOK
    <2> QED
        BY <2>1, <2>2
<1> QED
    BY <1>3, <1>4 DEF TasksOK

LEMMA IdleKept ==
    ASSUME TasksOK, NEW t \in Tasks, task' = [task EXCEPT ![t] = Idle],
           lock' \in Tasks \cup {NoTask}
    PROVE  TasksOK'
BY TaskKept DEF Idle, Jobs

\* The ruleset of a task changes, or what it has yet to do.
LEMMA TaskChanged ==
    ASSUME TasksOK, NEW t \in Tasks, NEW of \in SUBSET Snapshot, NEW r \in Rulesets \cup {0},
           \/ task' = [task EXCEPT ![t].rules = r] /\ of = task[t].of
           \/ task' = [task EXCEPT ![t].of = of] /\ r = task[t].rules,
           lock' \in Tasks \cup {NoTask}
    PROVE  TasksOK'
<1>1. /\ task[t] = [job |-> task[t].job, of |-> task[t].of, rules |-> task[t].rules]
      /\ task[t].job \in Jobs
      /\ task = [w \in Tasks |-> task[w]]
    BY DEF TasksOK
<1>2. task' = [task EXCEPT ![t] = [job |-> task[t].job, of |-> of, rules |-> r]]
    BY <1>1
<1> QED
    BY <1>1, <1>2, TaskKept

LEMMA ChangedIsGood ==
    ASSUME NEW e, Good(e), NEW text \in Nat, NEW content \in Contents
    PROVE  /\ Good(ChangedDocument(e, text, content))
           /\ ChangedDocument(e, text, content).tree = e.tree
           /\ ChangedDocument(e, text, content).treeVersion = e.treeVersion
<1> DEFINE v == e.version + 1
           d == [version |-> v, text |-> text, content |-> content, tree |-> e.tree,
                 treeVersion |-> e.treeVersion, treeBytes |-> e.treeBytes, loc |-> 0]
<1>1. e \in Document /\ (e.tree = NoTree => e.treeVersion = 0)
    BY DEF Good
<1>2. e.version \in Nat
    BY <1>1 DEF Document
<1>3. v \in Nat /\ v # 0
    BY <1>2
<1>4. ChangedDocument(e, text, content) = d
    <2>1. e = [version |-> e.version, text |-> e.text, content |-> e.content,
               tree |-> e.tree, treeVersion |-> e.treeVersion,
               treeBytes |-> e.treeBytes, loc |-> e.loc]
        BY <1>1 DEF Document
    <2> HIDE DEF v
    <2>2. ChangedDocument(e, text, content)
            = [e EXCEPT !.version = v, !.text = text, !.content = content, !.loc = 0]
        BY DEF ChangedDocument, v
    <2> HIDE DEF d
    <2> QED
        BY ONLY <2>1, <2>2 DEF d
<1> HIDE DEF v
<1>5. d \in Document
    BY <1>1, <1>3 DEF Document
<1>6. d.version = v /\ d.tree = e.tree /\ d.treeVersion = e.treeVersion
    OBVIOUS
<1> HIDE DEF d
<1> QED
    BY <1>1, <1>3, <1>4, <1>5, <1>6 DEF Good

LEMMA HandlersKeepInv ==
    ASSUME Inv,
           \/ \E u \in Uris, content \in Contents : Open(u, content) \/ Change(u, content)
           \/ \E u \in Uris : Close(u)
           \/ \E u \in Uris : \E new \in Uris \ {u} : Move(u, new)
           \/ LoadRules
    PROVE  Inv'
<1>1. /\ StoreInv(store) /\ TasksOK /\ rules \in Rulesets
      /\ texts \in Nat /\ texts + 1 \in Nat
    BY DEF Inv
<1>2. ASSUME UNCHANGED <<lock, task>> PROVE TasksOK'
    BY <1>1, <1>2 DEF TasksOK
<1>3. ASSUME NEW u \in Uris, NEW content \in Contents, Open(u, content)
      PROVE  Inv'
    <2> DEFINE d == NewDocument(1, texts + 1, content)
    <2>1. Good(d)
        BY <1>1 DEF Good, NewDocument, Document
    <2>2. store' = IF CanOpen(store, u, d) THEN Opened(store, u, d) ELSE store
        BY <1>3 DEF Open
    <2> HIDE DEF d
    <2>3. StoreInv(store')
        BY <1>1, <2>1, <2>2, OpenedKeeps
    <2> QED
        BY <1>1, <1>2, <1>3, <2>3 DEF Inv, Open, SendText
<1>4. ASSUME NEW u \in Uris, NEW content \in Contents, Change(u, content)
      PROVE  Inv'
    <2> DEFINE d == ChangedDocument(store.docs[u], texts + 1, content)
    <2>1. u \in DOMAIN store.docs
        BY <1>4 DEF Change
    <2>2. /\ Good(d)
          /\ d.tree = store.docs[u].tree
          /\ d.treeVersion = store.docs[u].treeVersion
        <3>1. Good(store.docs[u])
            BY <1>1, <2>1, GoodDocuments
        <3> QED
            BY <1>1, <3>1, ChangedIsGood
    <2>3. store' = IF CanChange(store, u, d) THEN Changed(store, u, d) ELSE store
        BY <1>4 DEF Change
    <2> HIDE DEF d
    <2>4. StoreInv(store')
        BY <1>1, <2>1, <2>2, <2>3, ChangedKeeps
    <2> QED
        BY <1>1, <1>2, <1>4, <2>4 DEF Inv, Change, SendText
<1>5. ASSUME NEW u \in Uris, Close(u)
      PROVE  Inv'
    <2>1. StoreInv(store')
        BY <1>1, <1>5, RemovedKeeps DEF Close
    <2> QED
        BY <1>1, <1>2, <1>5, <2>1 DEF Inv, Close
<1>6. ASSUME NEW u \in Uris, NEW new \in Uris \ {u}, Move(u, new)
      PROVE  Inv'
    <2> DEFINE removed == Removed(store, u)
               d == [store.docs[u] EXCEPT !.loc = 0]
    <2>1. u \in DOMAIN store.docs
        BY <1>6 DEF Move
    <2>2. Good(d)
        BY <1>1, <2>1, GoodDocuments DEF Good, Document
    <2>3. StoreInv(removed)
        BY <1>1, <2>1, RemovedKeeps
    <2>4. store' = IF CanOpen(removed, new, d) THEN Opened(removed, new, d) ELSE removed
        BY <1>6 DEF Move
    <2> HIDE DEF removed, d
    <2>5. StoreInv(store')
        BY <2>2, <2>3, <2>4, OpenedKeeps
    <2> QED
        BY <1>1, <1>2, <1>6, <2>5 DEF Inv, Move
<1>7. ASSUME LoadRules PROVE Inv'
    <2>1. rules' \in Rulesets
        BY <1>1, <1>7 DEF LoadRules, Rulesets
    <2>2. StoreInv(store')
        BY <1>1, <1>7 DEF LoadRules
    <2> QED
        BY <1>1, <1>2, <1>7, <2>1, <2>2 DEF Inv, LoadRules
<1> QED
    BY <1>3, <1>4, <1>5, <1>6, <1>7

LEMMA TasksKeepInv ==
    ASSUME Inv, NEW t \in Tasks,
           \/ \E u \in Uris : StartValidation(t, u)
           \/ StartRefresh(t) \/ Classify(t) \/ CacheLoc(t)
           \/ Accept(t) \/ Supersede(t) \/ ReplaceNext(t)
    PROVE  Inv'
<1>1. /\ StoreInv(store) /\ TasksOK /\ rules \in Rulesets /\ texts \in Nat
      /\ lock \in Tasks \cup {NoTask}
    BY DEF Inv, TasksOK
<1>2. \A w \in DOMAIN store.docs :
        /\ w \in Uris /\ store.docs[w] \in Document
        /\ store.docs[w].version \in Nat /\ store.docs[w].text \in Nat
        /\ store.docs[w].content \in Contents
        /\ store.docs[w].tree \in Contents \cup {NoTree}
    BY <1>1, GoodDocuments DEF Good, Document
<1>3. ASSUME NEW job \in Jobs, NEW of \in SUBSET Snapshot, Start(t, job, of)
      PROVE  Inv'
    <2>1. TasksOK'
        BY <1>1, <1>3, TaskKept DEF Start
    <2> QED
        BY <1>1, <1>3, <2>1 DEF Inv, Start
<1>4. ASSUME NEW u \in Uris, StartValidation(t, u)
      PROVE  Inv'
    <2> DEFINE of == {[uri |-> w, version |-> store.docs[w].version,
                       text |-> store.docs[w].text, content |-> store.docs[w].content]
                        : w \in DOMAIN store.docs \cap {u}}
    <2>1. of \in SUBSET Snapshot
        BY <1>2 DEF Snapshot
    <2>2. Start(t, "validate", of)
        BY <1>4 DEF StartValidation
    <2> HIDE DEF of
    <2> QED
        BY <1>3, <2>1, <2>2 DEF Jobs
<1>5. ASSUME StartRefresh(t)
      PROVE  Inv'
    <2> DEFINE current == {w \in DOMAIN store.docs :
                              /\ store.docs[w].tree # NoTree
                              /\ store.docs[w].treeVersion = store.docs[w].version}
               of == {[uri |-> w, version |-> store.docs[w].version,
                       text |-> 0, content |-> store.docs[w].tree] : w \in current}
    <2>1. of \in SUBSET Snapshot
        BY <1>2 DEF Snapshot
    <2>2. Start(t, "refresh", of)
        BY <1>5 DEF StartRefresh
    <2> HIDE DEF of
    <2> QED
        BY <1>3, <2>1, <2>2 DEF Jobs
<1>6. task[t].of \in SUBSET Snapshot /\ rules \in Rulesets \cup {0}
      /\ task[t].rules \in Rulesets \cup {0}
    BY <1>1 DEF TasksOK
<1>7. ASSUME Classify(t) PROVE Inv'
    <2>1. TasksOK'
        BY <1>1, <1>6, <1>7, TaskChanged DEF Classify
    <2> QED
        BY <1>1, <1>7, <2>1 DEF Inv, Classify
<1>8. ASSUME CacheLoc(t) PROVE Inv'
    <2>1. TasksOK'
        BY <1>1, <1>6, <1>8, TaskChanged DEF CacheLoc
    <2>2. StoreInv(store')
        BY <1>1, <1>8, SnapshotsOK, SetLocCacheKeeps DEF CacheLoc
    <2> QED
        BY <1>1, <1>8, <2>1, <2>2 DEF Inv, CacheLoc
<1>9. ASSUME Accept(t) PROVE Inv'
    <2>1. TasksOK'
        BY <1>1, <1>9, IdleKept DEF Accept
    <2> PICK snap \in task[t].of :
            LET marked == [store EXCEPT !.validated = @ \cup {snap.uri}]
            IN  store' = IF ~Marks(store, snap.uri, snap.version, snap.text) THEN store
                         ELSE IF snap.uri \notin Scripts THEN marked
                         ELSE SetAst(marked, snap.uri, snap.version, snap.content,
                                     Sites[task[t].rules][snap.content])
        BY <1>9 DEF Accept
    <2> DEFINE marked == [store EXCEPT !.validated = @ \cup {snap.uri}]
               K == Sites[task[t].rules][snap.content]
    <2>2. snap.content \in Contents /\ K \in SUBSET Keys
        BY <1>9, SnapshotsOK DEF Accept
    <2>3. ASSUME Marks(store, snap.uri, snap.version, snap.text)
          PROVE  StoreInv(marked)
        BY <1>1, <2>3, MarkedKeeps DEF Marks
    <2>4. \/ store' = store
          \/ /\ Marks(store, snap.uri, snap.version, snap.text)
             /\ \/ store' = marked
                \/ store' = SetAst(marked, snap.uri, snap.version, snap.content, K)
        OBVIOUS
    <2> HIDE DEF marked, K
    <2>5. StoreInv(store')
        <3>1. CASE store' = store
            BY <1>1, <3>1
        <3>2. CASE Marks(store, snap.uri, snap.version, snap.text)
            <4>1. StoreInv(marked)
                BY <2>3, <3>2
            <4>2. StoreInv(SetAst(marked, snap.uri, snap.version, snap.content, K))
                BY ONLY <2>2, <4>1, SetAstKeeps
            <4> QED
                BY <1>1, <2>4, <4>1, <4>2
        <3> QED
            BY <2>4, <3>1, <3>2
    <2> QED
        BY <1>1, <1>9, <2>1, <2>5 DEF Inv, Accept
<1>10. ASSUME Supersede(t) PROVE Inv'
    <2>1. TasksOK'
        BY <1>1, <1>10, IdleKept DEF Supersede
    <2> QED
        BY <1>1, <1>10, <2>1 DEF Inv, Supersede
<1>11. ASSUME ReplaceNext(t) PROVE Inv'
    <2> PICK snap \in task[t].of :
            /\ store' = ReplaceReferenceSites(store, snap.uri, snap.version,
                                              Sites[task[t].rules][snap.content])
            /\ IF task[t].of = {snap}
               THEN lock' = NoTask /\ task' = [task EXCEPT ![t] = Idle]
               ELSE lock' = t /\ task' = [task EXCEPT ![t].of = @ \ {snap}]
        BY <1>11 DEF ReplaceNext
    <2>1. TasksOK'
        <3>1. CASE lock' = NoTask /\ task' = [task EXCEPT ![t] = Idle]
            BY <1>1, <3>1, IdleKept
        <3>2. CASE lock' = t /\ task' = [task EXCEPT ![t].of = @ \ {snap}]
            <4> DEFINE rest == task[t].of \ {snap}
            <4>1. rest \in SUBSET Snapshot /\ task' = [task EXCEPT ![t].of = rest]
                BY <1>6, <3>2
            <4> HIDE DEF rest
            <4> QED
                BY <1>1, <1>6, <3>2, <4>1, TaskChanged
        <3> QED
            BY <3>1, <3>2
    <2>2. Sites[task[t].rules][snap.content] \in SUBSET Keys
        BY <1>11, SnapshotsOK DEF ReplaceNext
    <2>3. StoreInv(store')
        BY <1>1, <2>2, ReplaceReferenceSitesKeeps
    <2> QED
        BY <1>1, <1>11, <2>1, <2>3 DEF Inv, ReplaceNext
<1> QED
    BY <1>4, <1>5, <1>7, <1>8, <1>9, <1>10, <1>11

LEMMA NextInv == Inv /\ [Next]_vars => Inv'
<1> SUFFICES ASSUME Inv, [Next]_vars PROVE Inv'
    OBVIOUS
<1>1. CASE UNCHANGED vars
    BY <1>1 DEF Inv, TasksOK, vars
<1>2. CASE Next
    BY <1>2, HandlersKeepInv, TasksKeepInv DEF Next
<1> QED
    BY <1>1, <1>2

LEMMA Invariance == Spec => []Inv
BY InitInv, NextInv, PTL DEF Spec

-----------------------------------------------------------------------------
(* Theorems *)

\* The store stays of its kind, and keeps marks and use sites of open
\* documents only (DocumentStore::remove and its counterparts).
THEOREM TypeCorrect == Spec => []TypeOK
<1>1. Inv => TypeOK
    BY DEF Inv, StoreInv, TypeOK
<1> QED
    BY <1>1, Invariance, PTL

\* No document outgrows MAX_DOCUMENT_BYTES with all that is kept of it, and no
\* more than MAX_OPEN_DOCUMENTS are open, whatever was admitted before.
THEOREM LimitsCorrect == Spec => []LimitsHold
<1>1. Inv => LimitsHold
    BY DEF Inv, StoreInv, LimitsHold
<1> QED
    BY <1>1, Invariance, PTL

\* No use site outlives the tree it came from (replace_reference_sites and
\* set_ast_with_use_sites check the versions they were made for).
THEOREM SitesCorrect == Spec => []SitesOfTree
<1>1. Inv => SitesOfTree
    BY DEF Inv, StoreInv, SitesOfTree
<1> QED
    BY <1>1, Invariance, PTL
=============================================================================
