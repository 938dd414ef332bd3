--------------------- MODULE DocumentStoreAccountProofs ---------------------
(* Proofs about DocumentStore's account: kept by differences that saturate,   *)
(* it is what a count of everything held gives, for every set of files,       *)
(* texts, keys and tasks, every limit and every growth of the tables.         *)
EXTENDS DocumentStoreProofs

USE ConstantsAssumption DEF ConstantsAssumption

-----------------------------------------------------------------------------
(* Counting the use sites *)

\* The sites of keys of K in the files other than u.
Elsewhere(x, u, K) ==
    {cell \in K \X (Uris \ {u}) : cell[1] \in x.keys[cell[2]]}

\* Files w other than u have the same sites in x and in y.
SameElsewhere(x, y, u) == \A w \in Uris \ {u} : y.keys[w] = x.keys[w]

LEMMA CellsSplit ==
    ASSUME NEW x \in Uses, NEW u \in Uris, NEW K \in SUBSET Keys, x.keys[u] \subseteq K
    PROVE  /\ Cardinality(Elsewhere(x, u, K)) \in Nat
           /\ FileBytes(x, u) \in Nat
           /\ Cells(x, K) = FileBytes(x, u) + Cardinality(Elsewhere(x, u, K))
<1> DEFINE here == x.keys[u] \X {u}
           there == Elsewhere(x, u, K)
<1>1. x.keys[u] \in SUBSET Keys
  BY DEF Uses
<1>2. IsFiniteSet(x.keys[u]) /\ FileBytes(x, u) \in Nat
  BY <1>1, KeySets DEF FileBytes
<1>3. IsFiniteSet({u}) /\ Cardinality({u}) = 1
  BY FS_Singleton
<1>4. IsFiniteSet(here) /\ Cardinality(here) = FileBytes(x, u)
  <2>1. /\ IsFiniteSet(x.keys[u] \X {u})
        /\ Cardinality(x.keys[u] \X {u}) = Cardinality(x.keys[u]) * Cardinality({u})
    BY ONLY <1>2, <1>3, FS_Product
  <2> QED
    BY <1>2, <1>3, <2>1 DEF FileBytes
<1>5. IsFiniteSet(there) /\ Cardinality(there) \in Nat
  <2>1. IsFiniteSet(Uris \ {u}) /\ IsFiniteSet(K)
    BY KeySets, FS_RemoveElement
  <2>2. IsFiniteSet(K \X (Uris \ {u}))
    BY <2>1, FS_Product
  <2>3. there \in SUBSET (K \X (Uris \ {u}))
    BY DEF Elsewhere
  <2> HIDE DEF there
  <2> QED
    BY <2>2, <2>3, FS_Subset, FS_CardinalityType
<1>6. {cell \in K \X Uris : cell[1] \in x.keys[cell[2]]} = here \cup there
  BY DEF Elsewhere
<1>7. here \cap there = {}
  BY DEF Elsewhere
<1> HIDE DEF here, there
<1>8. Cardinality(here \cup there) = Cardinality(here) + Cardinality(there)
  <2>1. Cardinality(here \cap there) = 0
    BY <1>7, FS_EmptySet
  <2>2. Cardinality(here \cup there)
          = Cardinality(here) + Cardinality(there) - Cardinality(here \cap there)
    BY ONLY <1>4, <1>5, FS_Union
  <2> QED
    BY <1>2, <1>4, <1>5, <2>1, <2>2
<1> QED
  BY <1>2, <1>4, <1>5, <1>6, <1>8 DEF Cells, there

LEMMA ElsewhereKept ==
    ASSUME NEW x \in Uses, NEW y \in Uses, NEW u \in Uris, NEW K \in SUBSET Keys,
           SameElsewhere(x, y, u)
    PROVE  Elsewhere(y, u, K) = Elsewhere(x, u, K)
BY DEF Elsewhere, SameElsewhere

LEMMA ElsewhereGrows ==
    ASSUME NEW x \in Uses, NEW u \in Uris, NEW K \in SUBSET Keys
    PROVE  Cardinality(Elsewhere(x, u, K)) <= Cardinality(Elsewhere(x, u, Keys))
<1>1. x.keys[u] \in SUBSET Keys
  BY DEF Uses
<1>2. Elsewhere(x, u, K) \in SUBSET Elsewhere(x, u, Keys)
  BY DEF Elsewhere
<1>3. IsFiniteSet(Elsewhere(x, u, Keys))
  <2>1. IsFiniteSet(Uris \ {u})
    BY FS_RemoveElement
  <2>2. IsFiniteSet(Keys \X (Uris \ {u}))
    BY <2>1, FS_Product
  <2>3. Elsewhere(x, u, Keys) \in SUBSET (Keys \X (Uris \ {u}))
    BY DEF Elsewhere
  <2> QED
    BY <2>2, <2>3, FS_Subset
<1> QED
  BY <1>2, <1>3, FS_Subset

-----------------------------------------------------------------------------
(* The account of the use sites *)

Sizes == {TableSize(n) : n \in Entries}

\* A table of n entries that shrinks when it can.
Fits(cap, n) == cap \in Sizes /\ cap >= n /\ (n = 0 => cap = 0)

\* The tables fit, and their bytes are counted.
UsesOK(x) ==
    /\ Fits(x.fileCap, Cardinality(FilesIn(x)))
    /\ Fits(x.keyCap, Cardinality(KeysIn(x)))
    /\ x.bytes = HeldCapacity(x)

LEMMA SizesAre == \A cap \in Sizes : cap \in Nat
BY TableAssumption DEF Sizes

LEMMA ShrunkFits ==
    ASSUME NEW cap \in Sizes, NEW n \in Entries, cap >= n
    PROVE  Fits(Shrunk(cap, n), n) /\ Shrunk(cap, n) <= cap
<1>1. cap \in Nat /\ n \in Nat
  BY SizesAre, FS_CardinalityType DEF Entries
<1>2. PICK m \in Entries : cap = TableSize(m)
  BY DEF Sizes
<1>3. /\ TableSize(n) \in Sizes /\ TableSize(n) \in Nat /\ TableSize(n) >= n
      /\ TableSize(n) <= cap /\ TableSize(0) = 0
  BY <1>2, TableAssumption DEF Sizes
<1> QED
  BY <1>1, <1>3 DEF Fits, Shrunk

LEMMA GrownFits ==
    ASSUME NEW cap \in Sizes, NEW n \in Entries
    PROVE  /\ Grown(cap, n) \in Sizes
           /\ Grown(cap, n) >= n
           /\ \A top \in Sizes : cap <= top /\ n <= top => Grown(cap, n) <= top
<1>1. cap \in Nat /\ n \in Nat
  BY SizesAre, FS_CardinalityType DEF Entries
<1>2. TableSize(n) \in Sizes /\ TableSize(n) \in Nat /\ TableSize(n) >= n
  BY TableAssumption DEF Sizes
<1>3. ASSUME NEW top \in Sizes, n <= top  PROVE TableSize(n) <= top
  BY <1>3, TableAssumption DEF Sizes
<1> QED
  BY <1>1, <1>2, <1>3 DEF Grown

\* What all the sites take, and those of one file and of the keys K.
LEMMA HeldSplit ==
    ASSUME NEW x \in Uses, NEW u \in Uris, NEW K \in SUBSET Keys, x.keys[u] \subseteq K
    PROVE  LET tables == x.fileCap + x.keyCap
               here == FileBytes(x, u)
               near == Cardinality(Elsewhere(x, u, K))
               all == Cardinality(Elsewhere(x, u, Keys))
           IN  /\ tables \in Nat /\ here \in Nat /\ near \in Nat /\ all \in Nat
               /\ near <= all
               /\ TouchedCapacity(x, u, K) = tables + here + here + near
               /\ HeldCapacity(x) = tables + 2 * (here + all)
<1>1. x.keys[u] \in SUBSET Keys /\ x.fileCap \in Nat /\ x.keyCap \in Nat
  BY DEF Uses
<1>2. /\ FileBytes(x, u) \in Nat
      /\ Cardinality(Elsewhere(x, u, K)) \in Nat
      /\ Cells(x, K) = FileBytes(x, u) + Cardinality(Elsewhere(x, u, K))
  BY CellsSplit
<1>3. /\ Cardinality(Elsewhere(x, u, Keys)) \in Nat
      /\ Cells(x, Keys) = FileBytes(x, u) + Cardinality(Elsewhere(x, u, Keys))
  BY <1>1, CellsSplit
<1>4. Cardinality(Elsewhere(x, u, K)) <= Cardinality(Elsewhere(x, u, Keys))
  BY ElsewhereGrows
<1>5. TouchedCapacity(x, u, K) = x.fileCap + x.keyCap + FileBytes(x, u) + Cells(x, K)
  BY DEF TouchedCapacity, FileBytes
<1> QED
  BY <1>1, <1>2, <1>3, <1>4, <1>5 DEF HeldCapacity

\* The difference of what two states of the touched tables take is the
\* difference of what all sites take: nothing saturates.
LEMMA RecountExact ==
    ASSUME NEW x \in Uses, NEW y \in Uses, NEW u \in Uris, NEW K \in SUBSET Keys,
           x.keys[u] \subseteq K, y.keys[u] \subseteq K, SameElsewhere(x, y, u),
           y.bytes = x.bytes, x.bytes = HeldCapacity(x)
    PROVE  /\ Recount(x, y, u, K).bytes = HeldCapacity(Recount(x, y, u, K))
           /\ Recount(x, y, u, K).fileCap = y.fileCap
           /\ Recount(x, y, u, K).keyCap = y.keyCap
<1> DEFINE z == Recount(x, y, u, K)
           bytes == Monus(y.bytes, TouchedCapacity(x, u, K)) + TouchedCapacity(y, u, K)
<1>1. z = [y EXCEPT !.bytes = bytes]
  BY DEF Recount
<1> HIDE DEF bytes
<1>2. z.bytes = bytes /\ z.keys = y.keys /\ z.fileCap = y.fileCap /\ z.keyCap = y.keyCap
  BY <1>1 DEF Uses
<1> HIDE DEF z
<1>3. HeldCapacity(z) = HeldCapacity(y)
  BY <1>2 DEF HeldCapacity, Cells
<1>4. Elsewhere(y, u, K) = Elsewhere(x, u, K) /\ Elsewhere(y, u, Keys) = Elsewhere(x, u, Keys)
  BY ElsewhereKept
<1> DEFINE tx == x.fileCap + x.keyCap
           ty == y.fileCap + y.keyCap
           hx == FileBytes(x, u)
           hy == FileBytes(y, u)
           near == Cardinality(Elsewhere(x, u, K))
           all == Cardinality(Elsewhere(x, u, Keys))
<1>5. /\ tx \in Nat /\ hx \in Nat /\ near \in Nat /\ all \in Nat /\ near <= all
      /\ TouchedCapacity(x, u, K) = tx + hx + hx + near
      /\ HeldCapacity(x) = tx + 2 * (hx + all)
  BY HeldSplit
<1>6. /\ ty \in Nat /\ hy \in Nat
      /\ TouchedCapacity(y, u, K) = ty + hy + hy + near
      /\ HeldCapacity(y) = ty + 2 * (hy + all)
  BY <1>4, HeldSplit
<1> HIDE DEF tx, ty, hx, hy, near, all
<1>7. bytes = HeldCapacity(y)
  BY <1>5, <1>6 DEF bytes, Monus
<1> QED
  BY <1>2, <1>3, <1>7 DEF z

LEMMA ShrinkFields ==
    ASSUME NEW x \in Uses
    PROVE  /\ ShrinkTouched(x).fileCap = Shrunk(x.fileCap, Cardinality(FilesIn(x)))
           /\ ShrinkTouched(x).keyCap = Shrunk(x.keyCap, Cardinality(KeysIn(x)))
           /\ ShrinkTouched(x).bytes = x.bytes
BY DEF ShrinkTouched, Uses

LEMMA SameKeys ==
    ASSUME NEW x, NEW y, x.keys = y.keys
    PROVE  FilesIn(x) = FilesIn(y) /\ KeysIn(x) = KeysIn(y)
BY DEF FilesIn, KeysIn

\* The common end of remove_file and replace_file.
LEMMA ShrunkRecount ==
    ASSUME NEW x \in Uses, NEW y \in Uses, NEW u \in Uris, NEW K \in SUBSET Keys,
           x.keys[u] \subseteq K, y.keys[u] \subseteq K, SameElsewhere(x, y, u),
           y.bytes = x.bytes, x.bytes = HeldCapacity(x),
           y.fileCap \in Sizes, y.fileCap >= Cardinality(FilesIn(y)),
           y.keyCap \in Sizes, y.keyCap >= Cardinality(KeysIn(y))
    PROVE  LET z == Recount(x, ShrinkTouched(y), u, K)
           IN  /\ UsesOK(z)
               /\ z.fileCap <= y.fileCap /\ z.keyCap <= y.keyCap
<1> DEFINE s == ShrinkTouched(y)
           z == Recount(x, s, u, K)
<1>1. s \in Uses /\ s.keys = y.keys /\ s.bytes = x.bytes
  BY ShrinkKeeps, ShrinkFields
<1>2. /\ Fits(s.fileCap, Cardinality(FilesIn(y))) /\ s.fileCap <= y.fileCap
      /\ Fits(s.keyCap, Cardinality(KeysIn(y))) /\ s.keyCap <= y.keyCap
  BY Counts, ShrinkFields, ShrunkFits
<1> HIDE DEF s
<1>3. s.keys[u] \subseteq K /\ SameElsewhere(x, s, u)
  BY <1>1 DEF SameElsewhere
<1>4. z.bytes = HeldCapacity(z) /\ z.fileCap = s.fileCap /\ z.keyCap = s.keyCap
  BY <1>1, <1>3, RecountExact
<1>5. z.keys = y.keys
  BY <1>1, RecountKeeps
<1> HIDE DEF z
<1>6. FilesIn(z) = FilesIn(y) /\ KeysIn(z) = KeysIn(y)
  BY <1>5, SameKeys
<1> QED
  BY <1>2, <1>4, <1>6 DEF UsesOK, s, z

\* With the sites of a file no more files and keys have sites.
LEMMA CountsFall ==
    ASSUME NEW x \in Uses, NEW y \in Uses, \A w \in Uris : y.keys[w] \subseteq x.keys[w]
    PROVE  /\ Cardinality(FilesIn(y)) <= Cardinality(FilesIn(x))
           /\ Cardinality(KeysIn(y)) <= Cardinality(KeysIn(x))
<1>1. FilesIn(y) \in SUBSET FilesIn(x) /\ KeysIn(y) \in SUBSET KeysIn(x)
  BY DEF FilesIn, KeysIn
<1>2. FilesIn(x) \in SUBSET Uris /\ KeysIn(x) \in SUBSET Keys
  BY DEF FilesIn, KeysIn
<1>3. IsFiniteSet(FilesIn(x)) /\ IsFiniteSet(KeysIn(x))
  BY <1>2, FS_Subset
<1> QED
  BY <1>1, <1>3, FS_Subset

LEMMA CountsAreNumbers ==
    ASSUME NEW x \in Uses
    PROVE  /\ Cardinality(FilesIn(x)) \in Nat /\ Cardinality(FilesIn(x)) \in Entries
           /\ Cardinality(KeysIn(x)) \in Nat /\ Cardinality(KeysIn(x)) \in Entries
<1>1. Entries \subseteq Nat
  BY FS_CardinalityType DEF Entries
<1> QED
  BY <1>1, Counts

\* remove_file leaves the account exact, and no table larger than it was.
LEMMA RemoveFileExact ==
    ASSUME NEW x \in Uses, UsesOK(x), NEW u \in Uris
    PROVE  /\ UsesOK(RemoveFile(x, u))
           /\ RemoveFile(x, u).fileCap <= x.fileCap
           /\ RemoveFile(x, u).keyCap <= x.keyCap
<1>1. /\ x.fileCap \in Sizes /\ x.fileCap \in Nat /\ x.fileCap >= Cardinality(FilesIn(x))
      /\ x.keyCap \in Sizes /\ x.keyCap \in Nat /\ x.keyCap >= Cardinality(KeysIn(x))
      /\ x.bytes = HeldCapacity(x)
  BY DEF UsesOK, Fits, Uses
<1>2. CASE x.keys[u] = {}
  BY <1>1, <1>2 DEF RemoveFile
<1>3. CASE x.keys[u] # {}
  <2> DEFINE y == [x EXCEPT !.keys[u] = {}, !.version[u] = 0]
  <2>1. /\ y \in Uses
        /\ y.keys = [x.keys EXCEPT ![u] = {}]
        /\ y.fileCap = x.fileCap /\ y.keyCap = x.keyCap /\ y.bytes = x.bytes
    BY DEF Uses
  <2>2. x.keys[u] \in SUBSET Keys /\ x.keys \in [Uris -> SUBSET Keys]
    BY DEF Uses
  <2>3. RemoveFile(x, u) = Recount(x, ShrinkTouched(y), u, x.keys[u])
    BY <1>3 DEF RemoveFile
  <2> HIDE DEF y
  <2>4. /\ y.keys[u] = {}
        /\ SameElsewhere(x, y, u)
        /\ \A w \in Uris : y.keys[w] \subseteq x.keys[w]
    BY <2>1, <2>2 DEF SameElsewhere
  <2>5. /\ Cardinality(FilesIn(y)) <= Cardinality(FilesIn(x))
        /\ Cardinality(KeysIn(y)) <= Cardinality(KeysIn(x))
    BY <2>1, <2>4, CountsFall
  <2>6. y.fileCap >= Cardinality(FilesIn(y)) /\ y.keyCap >= Cardinality(KeysIn(y))
    <3>1. /\ Cardinality(FilesIn(y)) \in Nat /\ Cardinality(FilesIn(x)) \in Nat
          /\ Cardinality(KeysIn(y)) \in Nat /\ Cardinality(KeysIn(x)) \in Nat
      BY <2>1, CountsAreNumbers
    <3> QED
      BY <1>1, <2>1, <2>5, <3>1
  <2> QED
    BY <1>1, <2>1, <2>2, <2>3, <2>4, <2>6, ShrunkRecount
<1> QED
  BY <1>2, <1>3

\* So does replace_file; and if the file's sites stay of the same keys, no table
\* is larger after it either.
LEMMA ReplaceFileExact ==
    ASSUME NEW x \in Uses, UsesOK(x), NEW u \in Uris, NEW K \in SUBSET Keys, NEW version \in Nat
    PROVE  /\ UsesOK(ReplaceFile(x, u, K, version))
           /\ K = x.keys[u] => /\ ReplaceFile(x, u, K, version).fileCap <= x.fileCap
                               /\ ReplaceFile(x, u, K, version).keyCap <= x.keyCap
<1> DEFINE removed == RemoveFile(x, u)
           added == [removed EXCEPT !.keys[u] = K,
                                    !.version[u] = IF K = {} THEN 0 ELSE version]
           grown == [added EXCEPT !.fileCap = Grown(@, Cardinality(FilesIn(added))),
                                  !.keyCap = Grown(@, Cardinality(KeysIn(added)))]
<1>1. /\ removed \in Uses
      /\ removed.keys = [x.keys EXCEPT ![u] = {}]
      /\ UsesOK(removed)
      /\ removed.fileCap <= x.fileCap /\ removed.keyCap <= x.keyCap
  BY RemoveFileKeeps, RemoveFileExact
<1>2. ReplaceFile(x, u, K, version) = Recount(removed, ShrinkTouched(grown), u, K)
  BY DEF ReplaceFile
<1> HIDE DEF removed
<1>3. /\ removed.fileCap \in Sizes /\ removed.fileCap \in Nat
      /\ removed.keyCap \in Sizes /\ removed.keyCap \in Nat
      /\ removed.bytes = HeldCapacity(removed)
  BY <1>1 DEF UsesOK, Fits, Uses
<1>4. /\ added \in Uses
      /\ added.keys = [x.keys EXCEPT ![u] = K]
      /\ added.fileCap = removed.fileCap /\ added.keyCap = removed.keyCap
      /\ added.bytes = removed.bytes
  BY <1>1 DEF Uses
<1> HIDE DEF added
<1>5. /\ Grown(added.fileCap, Cardinality(FilesIn(added))) \in Nat
      /\ Grown(added.keyCap, Cardinality(KeysIn(added))) \in Nat
  BY <1>4, Counts, Capacities DEF Uses
<1>6. /\ grown \in Uses /\ grown.keys = added.keys
      /\ grown.fileCap = Grown(added.fileCap, Cardinality(FilesIn(added)))
      /\ grown.keyCap = Grown(added.keyCap, Cardinality(KeysIn(added)))
      /\ grown.bytes = removed.bytes
  BY <1>4, <1>5 DEF Uses
<1> HIDE DEF grown
<1>7. FilesIn(grown) = FilesIn(added) /\ KeysIn(grown) = KeysIn(added)
  BY <1>6, SameKeys
<1>8. /\ grown.fileCap \in Sizes /\ grown.fileCap >= Cardinality(FilesIn(grown))
      /\ grown.keyCap \in Sizes /\ grown.keyCap >= Cardinality(KeysIn(grown))
  <2>1. Cardinality(FilesIn(added)) \in Entries /\ Cardinality(KeysIn(added)) \in Entries
    BY <1>4, CountsAreNumbers
  <2> QED
    BY <1>3, <1>4, <1>6, <1>7, <2>1, GrownFits
<1>9. /\ x.keys \in [Uris -> SUBSET Keys]
      /\ removed.keys[u] = {} /\ grown.keys[u] = K
      /\ SameElsewhere(removed, grown, u)
  BY <1>1, <1>4, <1>6 DEF SameElsewhere, Uses
<1> DEFINE z == Recount(removed, ShrinkTouched(grown), u, K)
<1>10. UsesOK(z) /\ z.fileCap <= grown.fileCap /\ z.keyCap <= grown.keyCap
  BY <1>1, <1>3, <1>6, <1>8, <1>9, ShrunkRecount
<1>11. z \in Uses
  BY <1>1, <1>6, ShrinkKeeps, RecountKeeps
<1> HIDE DEF z
<1>12. ASSUME K = x.keys[u]
       PROVE  z.fileCap <= x.fileCap /\ z.keyCap <= x.keyCap
  <2>1. added.keys = x.keys
    BY <1>4, <1>9, <1>12
  <2>2. /\ x.fileCap \in Sizes /\ x.fileCap >= Cardinality(FilesIn(added))
        /\ x.keyCap \in Sizes /\ x.keyCap >= Cardinality(KeysIn(added))
    BY <2>1, SameKeys DEF UsesOK, Fits
  <2>3. grown.fileCap <= x.fileCap /\ grown.keyCap <= x.keyCap
    <3>1. Cardinality(FilesIn(added)) \in Entries /\ Cardinality(KeysIn(added)) \in Entries
      BY <1>4, CountsAreNumbers
    <3> QED
      BY <1>1, <1>3, <1>4, <1>6, <2>2, <3>1, GrownFits
  <2>4. /\ grown.fileCap \in Nat /\ grown.keyCap \in Nat /\ x.fileCap \in Nat
        /\ x.keyCap \in Nat /\ z.fileCap \in Nat /\ z.keyCap \in Nat
    BY <1>6, <1>11 DEF Uses
  <2> QED
    BY <1>10, <2>3, <2>4
<1> QED
  BY <1>2, <1>10, <1>12 DEF z

-----------------------------------------------------------------------------
(* The bytes of the documents *)

DocsOK(docs) == DOMAIN docs \subseteq Uris /\ \A u \in DOMAIN docs : docs[u] \in Document

LEMMA UpTo ==
    ASSUME NEW n \in Nat
    PROVE  IsFiniteSet(1 .. n) /\ Cardinality(1 .. n) = n
<1>1. /\ IsFiniteSet(1 .. n)
      /\ Cardinality(1 .. n) = IF 1 > n THEN 0 ELSE n - 1 + 1
  BY FS_Interval
<1> QED
  BY <1>1

\* Those of the documents other than u, and those of u.
Rest(docs, u) == BytesOf(Without(docs, u))
Own(docs, u) == IF u \in DOMAIN docs THEN HeldBytes(docs[u]) ELSE 0

LEMMA HeldIsNumber == \A d \in Document : HeldBytes(d) \in Nat
<1> SUFFICES ASSUME NEW d \in Document  PROVE HeldBytes(d) \in Nat
  OBVIOUS
<1>1. d.content \in Contents /\ d.tree \in Contents \cup {NoTree} /\ d.loc \in Nat
  BY DEF Document
<1>2. Length[d.content] \in Nat /\ Lines[d.content] \in Nat /\ TreeLength(d) \in Nat
  BY <1>1 DEF TreeLength
<1> QED
  BY <1>1, <1>2 DEF HeldBytes

LEMMA BytesAreFinite ==
    ASSUME NEW docs, DocsOK(docs)
    PROVE  IsFiniteSet(BytesOf(docs)) /\ Cardinality(BytesOf(docs)) \in Nat
<1> DEFINE blocks == {{u} \X (1 .. HeldBytes(docs[u])) : u \in DOMAIN docs}
<1>1. IsFiniteSet(DOMAIN docs)
  BY FS_Subset DEF DocsOK
<1>2. IsFiniteSet(blocks)
  <2> DEFINE f == [u \in DOMAIN docs |-> {u} \X (1 .. HeldBytes(docs[u]))]
  <2>1. f \in Surjection(DOMAIN docs, blocks)
    BY DEF Surjection
  <2> HIDE DEF f, blocks
  <2> QED
    BY <1>1, <2>1, FS_Surjection
<1>3. ASSUME NEW T \in blocks  PROVE IsFiniteSet(T)
  <2>1. PICK u \in DOMAIN docs : T = {u} \X (1 .. HeldBytes(docs[u]))
    OBVIOUS
  <2>2. HeldBytes(docs[u]) \in Nat
    BY HeldIsNumber DEF DocsOK
  <2>3. IsFiniteSet({u}) /\ IsFiniteSet(1 .. HeldBytes(docs[u]))
    BY <2>2, UpTo, FS_Singleton
  <2> QED
    BY <2>1, <2>3, FS_Product
<1> HIDE DEF blocks
<1>4. IsFiniteSet(UNION blocks)
  BY <1>2, <1>3, FS_UNION
<1> QED
  BY <1>4, FS_CardinalityType DEF BytesOf, blocks

LEMMA BytesSplit ==
    ASSUME NEW docs, DocsOK(docs), NEW u \in Uris
    PROVE  /\ Cardinality(Rest(docs, u)) \in Nat
           /\ Own(docs, u) \in Nat
           /\ Cardinality(BytesOf(docs)) = Own(docs, u) + Cardinality(Rest(docs, u))
<1>1. DocsOK(Without(docs, u))
  BY DEF DocsOK, Without
<1>2. IsFiniteSet(Rest(docs, u)) /\ Cardinality(Rest(docs, u)) \in Nat
  BY <1>1, BytesAreFinite DEF Rest
<1>3. CASE u \notin DOMAIN docs
  <2>1. /\ DOMAIN Without(docs, u) = DOMAIN docs
        /\ \A w \in DOMAIN docs : Without(docs, u)[w] = docs[w]
    BY <1>3 DEF Without
  <2>2. BytesOf(docs) = Rest(docs, u)
    BY <2>1 DEF BytesOf, Rest
  <2> QED
    BY <1>2, <1>3, <2>2 DEF Own
<1>4. CASE u \in DOMAIN docs
  <2> DEFINE h == HeldBytes(docs[u])
             here == {u} \X (1 .. h)
             there == Rest(docs, u)
  <2>1. h \in Nat
    BY <1>4, HeldIsNumber DEF DocsOK
  <2>2. /\ IsFiniteSet({u}) /\ Cardinality({u}) = 1
        /\ IsFiniteSet(1 .. h) /\ Cardinality(1 .. h) = h
    BY <2>1, UpTo, FS_Singleton
  <2>3. IsFiniteSet(here) /\ Cardinality(here) = h
    <3>1. /\ IsFiniteSet({u} \X (1 .. h))
          /\ Cardinality({u} \X (1 .. h)) = Cardinality({u}) * Cardinality(1 .. h)
      BY ONLY <2>2, FS_Product
    <3> QED
      BY <2>1, <2>2, <3>1
  <2>4. /\ DOMAIN Without(docs, u) = DOMAIN docs \ {u}
        /\ \A w \in DOMAIN docs \ {u} : Without(docs, u)[w] = docs[w]
    BY DEF Without
  <2>5. there = UNION {{w} \X (1 .. HeldBytes(docs[w])) : w \in DOMAIN docs \ {u}}
    BY <2>4 DEF Rest, BytesOf
  <2>6. BytesOf(docs) = here \cup there
    BY <1>4, <2>5 DEF BytesOf
  <2>7. here \cap there = {}
    BY <2>5
  <2>8. IsFiniteSet(there)
    BY <1>2
  <2> HIDE DEF h, here, there
  <2>9. Cardinality(here \cup there) = Cardinality(here) + Cardinality(there)
    <3>1. Cardinality(here \cap there) = 0
      BY <2>7, FS_EmptySet
    <3>2. Cardinality(here \cup there)
            = Cardinality(here) + Cardinality(there) - Cardinality(here \cap there)
      BY ONLY <2>3, <2>8, FS_Union
    <3> QED
      BY <1>2, <2>1, <2>3, <3>1, <3>2 DEF there
  <2> QED
    BY <1>2, <1>4, <2>1, <2>3, <2>6, <2>9 DEF Own, h, there
<1> QED
  BY <1>3, <1>4

LEMMA RestOfPut ==
    ASSUME NEW docs, NEW u, NEW d
    PROVE  Rest(Put(docs, u, d), u) = Rest(docs, u)
<1>1. Without(Put(docs, u, d), u) = Without(docs, u)
  BY DEF Without, Put
<1> QED
  BY <1>1 DEF Rest

LEMMA RestOfWithout ==
    ASSUME NEW docs, NEW u
    PROVE  Rest(Without(docs, u), u) = Rest(docs, u) /\ Own(Without(docs, u), u) = 0
<1>1. Without(Without(docs, u), u) = Without(docs, u) /\ u \notin DOMAIN Without(docs, u)
  BY DEF Without
<1> QED
  BY <1>1 DEF Rest, Own

-----------------------------------------------------------------------------
(* The account of a store *)

\* The bytes noted for a document's tree are those of the text it came from.
TreeBytesOK(docs) == \A u \in DOMAIN docs : docs[u].treeBytes = TreeLength(docs[u])

AccountInv(s) ==
    /\ StoreInv(s)
    /\ UsesOK(s.uses)
    /\ TreeBytesOK(s.docs)
    /\ s.retained = Held(s)

LEMMA StoreParts ==
    ASSUME NEW s, StoreInv(s)
    PROVE  /\ DocsOK(s.docs)
           /\ s.uses \in Uses /\ s.uses.keys \in [Uris -> SUBSET Keys]
           /\ s.uses.bytes \in Nat
           /\ s.retained \in Nat
<1>1. s.uses \in Uses /\ s.retained \in Nat
  BY DEF StoreInv, StoreOK
<1>2. DocsOK(s.docs)
  BY DEF StoreInv, StoreOK, DocsOK
<1> QED
  BY <1>1, <1>2 DEF Uses

LEMMA ExactBytes ==
    ASSUME NEW d \in Document, d.treeBytes = TreeLength(d)
    PROVE  DocumentBytes(d) = HeldBytes(d)
<1>1. /\ Length[d.content] \in Nat /\ Lines[d.content] \in Nat
      /\ d.treeBytes \in Nat /\ d.loc \in Nat
  BY DEF Document
<1> QED
  BY <1>1 DEF DocumentBytes, RetainedBytes, HeldBytes

\* What is held, and what of it a method takes back before it changes u.
LEMMA HeldParts ==
    ASSUME NEW s, DocsOK(s.docs), s.uses \in Uses, NEW u \in Uris
    PROVE  LET own == Own(s.docs, u)
               rest == Cardinality(Rest(s.docs, u))
               here == FileBytes(s.uses, u)
               there == Cardinality(Elsewhere(s.uses, u, Keys))
           IN  /\ own \in Nat /\ rest \in Nat /\ here \in Nat /\ there \in Nat
               /\ HeldCapacity(s.uses) \in Nat
               /\ Held(s) = own + rest + here + there + HeldCapacity(s.uses)
<1>1. s.uses.keys[u] \in SUBSET Keys
  BY DEF Uses
<1>2. /\ FileBytes(s.uses, u) \in Nat
      /\ Cardinality(Elsewhere(s.uses, u, Keys)) \in Nat
      /\ Cells(s.uses, Keys) = FileBytes(s.uses, u) + Cardinality(Elsewhere(s.uses, u, Keys))
  BY <1>1, CellsSplit
<1>3. HeldCapacity(s.uses) \in Nat
  BY <1>2 DEF HeldCapacity, Uses
<1>4. /\ Own(s.docs, u) \in Nat /\ Cardinality(Rest(s.docs, u)) \in Nat
      /\ Cardinality(BytesOf(s.docs)) = Own(s.docs, u) + Cardinality(Rest(s.docs, u))
  BY BytesSplit
<1> QED
  BY <1>2, <1>3, <1>4 DEF Held

\* What a method takes back of the account is there: nothing saturates.
LEMMA OldIsHeld ==
    ASSUME NEW s, AccountInv(s), NEW u \in Uris
    PROVE  /\ OldBytes(s, u) = Own(s.docs, u) + FileBytes(s.uses, u) + HeldCapacity(s.uses)
           /\ s.retained - OldBytes(s, u)
                = Cardinality(Rest(s.docs, u)) + Cardinality(Elsewhere(s.uses, u, Keys))
           /\ OldBytes(s, u) \in Nat
           /\ OldBytes(s, u) <= s.retained
<1>1. DocsOK(s.docs) /\ s.uses \in Uses
  BY StoreParts DEF AccountInv
<1>2. u \in DOMAIN s.docs => DocumentBytes(s.docs[u]) = HeldBytes(s.docs[u])
  BY <1>1, ExactBytes DEF AccountInv, TreeBytesOK, DocsOK
<1>3. s.uses.bytes = HeldCapacity(s.uses) /\ s.retained = Held(s)
  BY DEF AccountInv, UsesOK
<1> DEFINE own == Own(s.docs, u)
           rest == Cardinality(Rest(s.docs, u))
           here == FileBytes(s.uses, u)
           there == Cardinality(Elsewhere(s.uses, u, Keys))
           tables == HeldCapacity(s.uses)
<1>4. /\ own \in Nat /\ rest \in Nat /\ here \in Nat /\ there \in Nat /\ tables \in Nat
      /\ Held(s) = own + rest + here + there + tables
  BY <1>1, HeldParts
<1>5. OldBytes(s, u) = own + (here + tables)
  BY <1>2, <1>3 DEF OldBytes, IndexBytes, Own
<1> HIDE DEF own, rest, here, there, tables
<1>6. /\ OldBytes(s, u) = own + here + tables
      /\ s.retained - OldBytes(s, u) = rest + there
      /\ OldBytes(s, u) \in Nat
      /\ OldBytes(s, u) <= s.retained
  BY <1>3, <1>4, <1>5
<1> QED
  BY <1>6 DEF own, rest, here, there, tables

\* A method that changes the document and the sites of u, and books the
\* difference, leaves the account exact.
LEMMA AccountKept ==
    ASSUME NEW s, AccountInv(s), NEW u \in Uris,
           NEW n, DocsOK(n.docs), Rest(n.docs, u) = Rest(s.docs, u),
           n.uses \in Uses, UsesOK(n.uses), SameElsewhere(s.uses, n.uses, u),
           n.retained = Retain(s, OldBytes(s, u),
                               Own(n.docs, u) + FileBytes(n.uses, u) + n.uses.bytes)
    PROVE  n.retained = Held(n)
<1>1. s.uses \in Uses /\ s.retained \in Nat
  BY StoreParts DEF AccountInv
<1>2. Elsewhere(n.uses, u, Keys) = Elsewhere(s.uses, u, Keys)
  BY <1>1, ElsewhereKept
<1> DEFINE own == Own(n.docs, u)
           rest == Cardinality(Rest(n.docs, u))
           here == FileBytes(n.uses, u)
           there == Cardinality(Elsewhere(n.uses, u, Keys))
           tables == HeldCapacity(n.uses)
           old == OldBytes(s, u)
<1>3. /\ own \in Nat /\ rest \in Nat /\ here \in Nat /\ there \in Nat /\ tables \in Nat
      /\ Held(n) = own + rest + here + there + tables
  BY HeldParts
<1>4. s.retained - old = rest + there /\ old \in Nat /\ old <= s.retained
  BY <1>2, OldIsHeld
<1>5. n.retained = Monus(s.retained, old) + (own + here + tables)
  BY DEF UsesOK, Retain
<1> HIDE DEF own, rest, here, there, tables, old
<1>6. Monus(s.retained, old) = rest + there
  BY <1>1, <1>4 DEF Monus
<1> QED
  BY <1>3, <1>5, <1>6

LEMMA PutParts ==
    ASSUME NEW docs, DocsOK(docs), TreeBytesOK(docs), NEW u \in Uris,
           NEW d \in Document, d.treeBytes = TreeLength(d)
    PROVE  /\ DocsOK(Put(docs, u, d))
           /\ TreeBytesOK(Put(docs, u, d))
           /\ Own(Put(docs, u, d), u) = DocumentBytes(d)
<1> DEFINE put == Put(docs, u, d)
<1>1. /\ DOMAIN put = DOMAIN docs \cup {u}
      /\ put[u] = d
      /\ \A w \in DOMAIN docs \ {u} : put[w] = docs[w]
  BY DEF Put
<1> HIDE DEF put
<1>2. DocsOK(put) /\ TreeBytesOK(put)
  BY <1>1 DEF DocsOK, TreeBytesOK
<1>3. Own(put, u) = DocumentBytes(d)
  BY <1>1, ExactBytes DEF Own
<1> QED
  BY <1>2, <1>3 DEF put

LEMMA OpenedExact ==
    ASSUME NEW s, AccountInv(s), NEW u \in Uris, NEW d, Good(d), d.treeBytes = TreeLength(d),
           CanOpen(s, u, d)
    PROVE  AccountInv(Opened(s, u, d))
<1> DEFINE n == Opened(s, u, d)
           x == RemoveFile(s.uses, u)
<1>1. StoreInv(n)
  BY OpenedKeeps DEF AccountInv
<1>2. /\ DocsOK(s.docs) /\ s.uses \in Uses /\ s.uses.keys \in [Uris -> SUBSET Keys]
      /\ UsesOK(s.uses) /\ TreeBytesOK(s.docs)
  BY StoreParts DEF AccountInv
<1>3. x \in Uses /\ x.keys = [s.uses.keys EXCEPT ![u] = {}] /\ UsesOK(x)
  BY <1>2, RemoveFileKeeps, RemoveFileExact
<1>4. /\ n.docs = Put(s.docs, u, d) /\ n.uses = x
      /\ n.retained = Retain(s, OldBytes(s, u), DocumentBytes(d) + x.bytes)
  BY DEF Opened
<1> HIDE DEF n, x
<1>5. SameElsewhere(s.uses, x, u) /\ FileBytes(x, u) = 0
  BY <1>2, <1>3, FS_EmptySet DEF SameElsewhere, FileBytes
<1>6. d \in Document
  BY DEF Good
<1>7. DocsOK(n.docs) /\ TreeBytesOK(n.docs) /\ Own(n.docs, u) = DocumentBytes(d)
  BY <1>2, <1>4, <1>6, PutParts
<1>8. Rest(n.docs, u) = Rest(s.docs, u)
  BY <1>4, RestOfPut
<1>9. DocumentBytes(d) + FileBytes(x, u) + x.bytes = DocumentBytes(d) + x.bytes
  BY <1>3, <1>5, <1>6, Bytes DEF Uses
<1>10. n.retained = Held(n)
  BY <1>3, <1>4, <1>5, <1>7, <1>8, <1>9, AccountKept
<1> QED
  BY <1>1, <1>3, <1>4, <1>7, <1>10 DEF AccountInv, n

LEMMA RemovedExact ==
    ASSUME NEW s, AccountInv(s), NEW u \in DOMAIN s.docs
    PROVE  AccountInv(Removed(s, u))
<1> DEFINE n == Removed(s, u)
           x == RemoveFile(s.uses, u)
<1>1. StoreInv(n)
  BY RemovedKeeps DEF AccountInv
<1>2. /\ DocsOK(s.docs) /\ s.uses \in Uses /\ s.uses.keys \in [Uris -> SUBSET Keys]
      /\ UsesOK(s.uses) /\ TreeBytesOK(s.docs) /\ u \in Uris
  BY StoreParts DEF AccountInv, DocsOK
<1>3. x \in Uses /\ x.keys = [s.uses.keys EXCEPT ![u] = {}] /\ UsesOK(x)
  BY <1>2, RemoveFileKeeps, RemoveFileExact
<1>4. /\ n.docs = Without(s.docs, u) /\ n.uses = x
      /\ n.retained = Retain(s, OldBytes(s, u), x.bytes)
  BY DEF Removed
<1> HIDE DEF n, x
<1>5. SameElsewhere(s.uses, x, u) /\ FileBytes(x, u) = 0
  BY <1>2, <1>3, FS_EmptySet DEF SameElsewhere, FileBytes
<1>6. DocsOK(n.docs) /\ TreeBytesOK(n.docs)
  BY <1>2, <1>4 DEF DocsOK, TreeBytesOK, Without
<1>7. Rest(n.docs, u) = Rest(s.docs, u) /\ Own(n.docs, u) = 0
  BY <1>4, RestOfWithout
<1>8. 0 + 0 + x.bytes = x.bytes
  BY <1>3 DEF Uses
<1>9. n.retained = Held(n)
  BY <1>2, <1>3, <1>4, <1>5, <1>6, <1>7, <1>8, AccountKept
<1> QED
  BY <1>1, <1>3, <1>4, <1>6, <1>9 DEF AccountInv, n

\* A change of the text, or of the cached localisation.
LEMMA PutExact ==
    ASSUME NEW s, AccountInv(s), NEW u \in Uris,
           NEW d \in Document, d.treeBytes = TreeLength(d),
           NEW n, StoreInv(n), n.docs = Put(s.docs, u, d), n.uses = s.uses,
           n.retained = Retain(s, OldBytes(s, u), DocumentBytes(d) + IndexBytes(s.uses, u))
    PROVE  AccountInv(n)
<1>1. /\ DocsOK(s.docs) /\ s.uses \in Uses /\ s.uses.bytes \in Nat
      /\ UsesOK(s.uses) /\ TreeBytesOK(s.docs)
  BY StoreParts DEF AccountInv
<1>2. DocsOK(n.docs) /\ TreeBytesOK(n.docs) /\ Own(n.docs, u) = DocumentBytes(d)
  BY <1>1, PutParts
<1>3. Rest(n.docs, u) = Rest(s.docs, u) /\ SameElsewhere(s.uses, n.uses, u)
  BY RestOfPut DEF SameElsewhere
<1>4. DocumentBytes(d) + FileBytes(s.uses, u) + s.uses.bytes
        = DocumentBytes(d) + IndexBytes(s.uses, u)
  BY <1>1, Bytes, Counts DEF IndexBytes
<1>5. n.retained = Held(n)
  BY <1>1, <1>2, <1>3, <1>4, AccountKept
<1> QED
  BY <1>1, <1>2, <1>5 DEF AccountInv

LEMMA ChangedExact ==
    ASSUME NEW s, AccountInv(s), NEW u \in DOMAIN s.docs, NEW d, Good(d),
           d.treeBytes = TreeLength(d), CanChange(s, u, d),
           d.tree = s.docs[u].tree, d.treeVersion = s.docs[u].treeVersion
    PROVE  AccountInv(Changed(s, u, d))
<1> DEFINE n == Changed(s, u, d)
<1>1. StoreInv(n)
  BY ChangedKeeps DEF AccountInv
<1>2. /\ s = [docs |-> s.docs, validated |-> s.validated, uses |-> s.uses, retained |-> s.retained]
      /\ u \in Uris
  BY GoodDocuments DEF AccountInv, StoreInv, StoreOK
<1>3. /\ n.docs = Put(s.docs, u, d) /\ n.uses = s.uses
      /\ n.retained = Retain(s, OldBytes(s, u), DocumentBytes(d) + IndexBytes(s.uses, u))
  BY <1>2 DEF Changed
<1> HIDE DEF n
<1>4. AccountInv(n)
  BY <1>1, <1>2, <1>3, PutExact DEF Good
<1> QED
  BY <1>4 DEF n

LEMMA SetLocCacheExact ==
    ASSUME NEW s, AccountInv(s), NEW u, NEW version, NEW bytes \in Nat
    PROVE  AccountInv(SetLocCache(s, u, version, bytes))
<1> DEFINE d == [s.docs[u] EXCEPT !.loc = bytes]
           n == SetLocCache(s, u, version, bytes)
           accepted == u \in DOMAIN s.docs /\ s.docs[u].version = version /\ CanChange(s, u, d)
<1>1. CASE ~accepted
  BY <1>1 DEF SetLocCache
<1>2. CASE accepted
  <2>1. /\ s = [docs |-> s.docs, validated |-> s.validated,
                uses |-> s.uses, retained |-> s.retained]
        /\ u \in Uris /\ s.docs[u] \in Document
    BY <1>2, GoodDocuments DEF AccountInv, StoreInv, StoreOK
  <2>2. s.docs[u].treeBytes = TreeLength(s.docs[u])
    BY <1>2 DEF AccountInv, TreeBytesOK
  <2>3. d \in Document /\ d.treeBytes = s.docs[u].treeBytes /\ TreeLength(d) = TreeLength(s.docs[u])
    BY <2>1 DEF Document, TreeLength
  <2>4. n = [s EXCEPT !.docs = Put(@, u, d),
                      !.retained = Retain(s, OldBytes(s, u),
                                          DocumentBytes(d) + IndexBytes(s.uses, u))]
    BY <1>2 DEF SetLocCache
  <2>5. StoreInv(n)
    BY SetLocCacheKeeps DEF AccountInv
  <2> HIDE DEF d, n
  <2>6. /\ n.docs = Put(s.docs, u, d) /\ n.uses = s.uses
        /\ n.retained = Retain(s, OldBytes(s, u), DocumentBytes(d) + IndexBytes(s.uses, u))
    BY <2>1, <2>4
  <2>7. AccountInv(n)
    BY <2>1, <2>2, <2>3, <2>5, <2>6, PutExact
  <2> QED
    BY <2>7 DEF n
<1> QED
  BY <1>1, <1>2

LEMMA WithSitesExact ==
    ASSUME NEW s, AccountInv(s), NEW u \in DOMAIN s.docs, NEW d, Good(d),
           d.tree # NoTree, d.treeVersion = d.version, d.treeBytes = TreeLength(d),
           NEW K \in SUBSET Keys, CanReplaceSites(s, u, d, K)
    PROVE  AccountInv(WithSites(s, u, d, K))
<1> DEFINE x == ReplaceFile(s.uses, u, K, d.version)
           n == WithSites(s, u, d, K)
<1>1. StoreInv(n)
  BY WithSitesKeeps DEF AccountInv
<1>2. /\ DocsOK(s.docs) /\ s.uses \in Uses /\ s.uses.keys \in [Uris -> SUBSET Keys]
      /\ UsesOK(s.uses) /\ TreeBytesOK(s.docs) /\ u \in Uris
      /\ s = [docs |-> s.docs, validated |-> s.validated, uses |-> s.uses, retained |-> s.retained]
  BY StoreParts DEF AccountInv, DocsOK, StoreInv, StoreOK
<1>3. d \in Document /\ d.version \in Nat
  BY DEF Good, Document
<1>4. x \in Uses /\ x.keys = [s.uses.keys EXCEPT ![u] = K] /\ UsesOK(x)
  <2>1. Replaced(s.uses, x, u, K, d.version)
    BY <1>2, <1>3, ReplaceFileKeeps
  <2>2. UsesOK(x)
    BY <1>2, <1>3, ReplaceFileExact
  <2> QED
    BY <2>1, <2>2 DEF Replaced
<1>5. /\ n.docs = Put(s.docs, u, d) /\ n.uses = x
      /\ n.retained = Retain(s, OldBytes(s, u), DocumentBytes(d) + IndexBytes(x, u))
  <2> HIDE DEF x
  <2>1. n = [s EXCEPT !.docs = Put(@, u, d), !.uses = x,
                !.retained = Retain(s, OldBytes(s, u), DocumentBytes(d) + IndexBytes(x, u))]
    BY DEF WithSites, x
  <2> HIDE DEF n
  <2> QED
    BY <1>2, <2>1
<1> HIDE DEF n, x
<1>6. SameElsewhere(s.uses, x, u)
  BY <1>2, <1>4 DEF SameElsewhere
<1>7. DocsOK(n.docs) /\ TreeBytesOK(n.docs) /\ Own(n.docs, u) = DocumentBytes(d)
  BY <1>2, <1>3, <1>5, PutParts
<1>8. Rest(n.docs, u) = Rest(s.docs, u)
  BY <1>5, RestOfPut
<1>9. DocumentBytes(d) + FileBytes(x, u) + x.bytes = DocumentBytes(d) + IndexBytes(x, u)
  <2>1. x.bytes \in Nat /\ FileBytes(x, u) \in Nat /\ DocumentBytes(d) \in Nat
    BY <1>2, <1>3, <1>4, Bytes, Counts DEF Uses
  <2> QED
    BY <2>1 DEF IndexBytes
<1>10. n.retained = Held(n)
  BY <1>2, <1>4, <1>5, <1>6, <1>7, <1>8, <1>9, AccountKept
<1> QED
  BY <1>1, <1>4, <1>5, <1>7, <1>10 DEF AccountInv, n

\* A tree comes with the text it was parsed from.
LEMMA SetAstExact ==
    ASSUME NEW s, AccountInv(s), NEW u, NEW version, NEW tree \in Contents,
           NEW K \in SUBSET Keys,
           u \in DOMAIN s.docs /\ s.docs[u].version = version => tree = s.docs[u].content
    PROVE  AccountInv(SetAst(s, u, version, tree, K))
<1> DEFINE d == [s.docs[u] EXCEPT !.tree = tree, !.treeVersion = version,
                                  !.treeBytes = Length[s.docs[u].content]]
           accepted == /\ u \in DOMAIN s.docs
                       /\ s.docs[u].version = version
                       /\ CanReplaceSites(s, u, d, K)
<1>1. CASE ~accepted
  BY <1>1 DEF SetAst
<1>2. CASE accepted
  <2>1. s.docs[u] \in Document /\ s.docs[u].version # 0 /\ version \in Nat
    BY <1>2, GoodDocuments DEF AccountInv, Good, Document
  <2>2. Length[s.docs[u].content] \in Nat
    BY <2>1, Bytes
  <2>3. Good(d) /\ d.tree # NoTree /\ d.treeVersion = d.version
    BY <1>2, <2>1, <2>2 DEF Good, Document
  <2>4. d.treeBytes = Length[tree] /\ d.tree = tree /\ tree # NoTree
    BY <1>2, <2>1 DEF Document
  <2>5. SetAst(s, u, version, tree, K) = WithSites(s, u, d, K)
    BY <1>2 DEF SetAst
  <2> HIDE DEF d
  <2>6. d.treeBytes = TreeLength(d)
    BY <2>4 DEF TreeLength
  <2> QED
    BY <1>2, <2>3, <2>5, <2>6, WithSitesExact
<1> QED
  BY <1>1, <1>2

LEMMA ReplaceReferenceSitesExact ==
    ASSUME NEW s, AccountInv(s), NEW u, NEW version, NEW K \in SUBSET Keys
    PROVE  AccountInv(ReplaceReferenceSites(s, u, version, K))
<1> DEFINE d == s.docs[u]
           accepted == /\ u \in DOMAIN s.docs
                       /\ d.version = version
                       /\ d.treeVersion = version
                       /\ CanReplaceSites(s, u, d, K)
<1>1. CASE ~accepted
  BY <1>1 DEF ReplaceReferenceSites
<1>2. CASE accepted
  <2>1. Good(d) /\ d.tree # NoTree /\ d.treeVersion = d.version
    BY <1>2, GoodDocuments DEF AccountInv, Good
  <2>2. d.treeBytes = TreeLength(d)
    BY <1>2 DEF AccountInv, TreeBytesOK
  <2>3. ReplaceReferenceSites(s, u, version, K) = WithSites(s, u, d, K)
    BY <1>2 DEF ReplaceReferenceSites
  <2> HIDE DEF d
  <2> QED
    BY <1>2, <2>1, <2>2, <2>3, WithSitesExact
<1> QED
  BY <1>1, <1>2

LEMMA MarkedExact ==
    ASSUME NEW s, AccountInv(s), NEW u \in DOMAIN s.docs
    PROVE  AccountInv([s EXCEPT !.validated = @ \cup {u}])
<1> DEFINE n == [s EXCEPT !.validated = @ \cup {u}]
<1>1. StoreInv(n)
  BY MarkedKeeps DEF AccountInv
<1>2. s = [docs |-> s.docs, validated |-> s.validated, uses |-> s.uses, retained |-> s.retained]
  BY DEF AccountInv, StoreInv, StoreOK
<1>3. n.docs = s.docs /\ n.uses = s.uses /\ n.retained = s.retained
  BY <1>2
<1> HIDE DEF n
<1>4. Held(n) = Held(s)
  BY <1>3 DEF Held
<1> QED
  BY <1>1, <1>3, <1>4 DEF AccountInv, n

-----------------------------------------------------------------------------
(* Texts.  A tree is accepted for the document of its version and its text,   *)
(* so that the bytes counted for it, those of the document's text, are its    *)
(* own: the number of a text tells what it says, in documents and in the      *)
(* snapshots of the runs.                                                     *)

Says(d, text, content) == d.text = text /\ d.content = content

OneText(a, b) == a.text = b.text => a.content = b.content

TextsOK ==
    /\ \A u \in DOMAIN store.docs :
        /\ store.docs[u].text \in Nat /\ store.docs[u].text <= texts
        /\ \A w \in DOMAIN store.docs : OneText(store.docs[u], store.docs[w])
    /\ \A t \in Tasks : task[t].job = "validate" =>
        \A snap \in task[t].of :
            /\ snap.text \in Nat /\ snap.text <= texts
            /\ \A u \in DOMAIN store.docs : OneText(snap, store.docs[u])

\* What the documents of a store say, those of another say.
TextsFrom(old, new) ==
    \A u \in DOMAIN new : \E w \in DOMAIN old : Says(new[u], old[w].text, old[w].content)

\* Or only the one text that was just sent is another.
TextsFromBut(old, new, sent) ==
    \A u \in DOMAIN new :
        \/ \E w \in DOMAIN old : Says(new[u], old[w].text, old[w].content)
        \/ Says(new[u], texts + 1, sent)

\* The runs go on with what they took, or take what a document says.
SnapshotsFrom(t) ==
    task'[t].job = "validate" =>
        \A snap \in task'[t].of :
            \/ task[t].job = "validate" /\ snap \in task[t].of
            \/ \E w \in DOMAIN store.docs :
                    Says(snap, store.docs[w].text, store.docs[w].content)

LEMMA TextsFollow ==
    ASSUME TextsOK, texts \in Nat, NEW sent,
           TextsFromBut(store.docs, store'.docs, sent), texts' = texts + 1,
           UNCHANGED task
    PROVE  TextsOK'
<1>1. ASSUME NEW u \in DOMAIN store'.docs
      PROVE  /\ store'.docs[u].text \in Nat /\ store'.docs[u].text <= texts'
             /\ \A w \in DOMAIN store'.docs : OneText(store'.docs[u], store'.docs[w])
  <2>1. \A w \in DOMAIN store'.docs :
          \/ Says(store'.docs[w], texts + 1, sent)
          \/ \E v \in DOMAIN store.docs :
                Says(store'.docs[w], store.docs[v].text, store.docs[v].content)
    BY DEF TextsFromBut
  <2>2. \A v \in DOMAIN store.docs :
          /\ store.docs[v].text \in Nat /\ store.docs[v].text <= texts
          /\ store.docs[v].text # texts + 1
          /\ \A w \in DOMAIN store.docs : OneText(store.docs[v], store.docs[w])
    BY DEF TextsOK
  <2>3. store'.docs[u].text \in Nat /\ store'.docs[u].text <= texts'
    BY <2>1, <2>2 DEF Says
  <2>4. ASSUME NEW w \in DOMAIN store'.docs
        PROVE  OneText(store'.docs[u], store'.docs[w])
    BY <2>1, <2>2 DEF Says, OneText
  <2> QED
    BY <2>3, <2>4
<1>2. ASSUME NEW t \in Tasks, task'[t].job = "validate", NEW snap \in task'[t].of
      PROVE  /\ snap.text \in Nat /\ snap.text <= texts'
             /\ \A u \in DOMAIN store'.docs : OneText(snap, store'.docs[u])
  <2>1. /\ snap.text \in Nat /\ snap.text <= texts /\ snap.text # texts + 1
        /\ \A u \in DOMAIN store.docs : OneText(snap, store.docs[u])
    BY <1>2 DEF TextsOK
  <2> QED
    BY <2>1 DEF TextsFromBut, Says, OneText
<1> QED
  BY <1>1, <1>2 DEF TextsOK

LEMMA TextsStay ==
    ASSUME TextsOK, texts \in Nat,
           TextsFrom(store.docs, store'.docs), texts' = texts,
           \A t \in Tasks : SnapshotsFrom(t)
    PROVE  TextsOK'
<1>1. ASSUME NEW u \in DOMAIN store'.docs
      PROVE  /\ store'.docs[u].text \in Nat /\ store'.docs[u].text <= texts'
             /\ \A w \in DOMAIN store'.docs : OneText(store'.docs[u], store'.docs[w])
  BY DEF TextsOK, TextsFrom, Says, OneText
<1>2. ASSUME NEW t \in Tasks, task'[t].job = "validate", NEW snap \in task'[t].of
      PROVE  /\ snap.text \in Nat /\ snap.text <= texts'
             /\ \A u \in DOMAIN store'.docs : OneText(snap, store'.docs[u])
  <2>1. \/ task[t].job = "validate" /\ snap \in task[t].of
        \/ \E w \in DOMAIN store.docs : Says(snap, store.docs[w].text, store.docs[w].content)
    BY <1>2 DEF SnapshotsFrom
  <2>2. /\ snap.text \in Nat /\ snap.text <= texts
        /\ \A u \in DOMAIN store.docs : OneText(snap, store.docs[u])
    BY <2>1 DEF TextsOK, Says, OneText
  <2> QED
    BY <2>2 DEF TextsFrom, Says, OneText
<1> QED
  BY <1>1, <1>2 DEF TextsOK

LEMMA TextsOfPut ==
    ASSUME NEW old, NEW u, NEW d,
           \E w \in DOMAIN old : Says(d, old[w].text, old[w].content)
    PROVE  TextsFrom(old, Put(old, u, d))
BY DEF TextsFrom, Says, Put

\* The callers of set_loc_cache and of the replacements of sites leave the texts.
LEMMA TextsOfTasks ==
    ASSUME NEW s, StoreInv(s), NEW u, NEW version, NEW bytes \in Nat, NEW tree \in Contents,
           NEW K
    PROVE  /\ TextsFrom(s.docs, SetLocCache(s, u, version, bytes).docs)
           /\ TextsFrom(s.docs, SetAst(s, u, version, tree, K).docs)
           /\ TextsFrom(s.docs, ReplaceReferenceSites(s, u, version, K).docs)
<1>1. s = [docs |-> s.docs, validated |-> s.validated, uses |-> s.uses, retained |-> s.retained]
  BY DEF StoreInv, StoreOK
<1>2. TextsFrom(s.docs, s.docs)
  BY DEF TextsFrom, Says
<1>3. ASSUME NEW d, u \in DOMAIN s.docs
      PROVE  WithSites(s, u, d, K).docs = Put(s.docs, u, d)
  BY <1>1 DEF WithSites
<1>4. TextsFrom(s.docs, SetLocCache(s, u, version, bytes).docs)
  <2> DEFINE d == [s.docs[u] EXCEPT !.loc = bytes]
             r == Retain(s, OldBytes(s, u), DocumentBytes(d) + IndexBytes(s.uses, u))
             n == [s EXCEPT !.docs = Put(@, u, d), !.retained = r]
  <2>1. \/ SetLocCache(s, u, version, bytes) = s
        \/ u \in DOMAIN s.docs /\ SetLocCache(s, u, version, bytes) = n
    BY DEF SetLocCache
  <2>2. ASSUME u \in DOMAIN s.docs
        PROVE  Says(d, s.docs[u].text, s.docs[u].content)
    BY <2>2, GoodDocuments DEF Good, Document, Says
  <2>3. n.docs = Put(s.docs, u, d)
    <3> HIDE DEF d, r
    <3> QED
      BY <1>1
  <2> HIDE DEF d, n
  <2> QED
    BY <1>2, <2>1, <2>2, <2>3, TextsOfPut
<1>5. TextsFrom(s.docs, SetAst(s, u, version, tree, K).docs)
  <2> DEFINE d == [s.docs[u] EXCEPT !.tree = tree, !.treeVersion = version,
                                    !.treeBytes = Length[s.docs[u].content]]
  <2>1. \/ SetAst(s, u, version, tree, K) = s
        \/ u \in DOMAIN s.docs /\ SetAst(s, u, version, tree, K) = WithSites(s, u, d, K)
    BY DEF SetAst
  <2>2. ASSUME u \in DOMAIN s.docs
        PROVE  Says(d, s.docs[u].text, s.docs[u].content)
    BY <2>2, GoodDocuments DEF Good, Document, Says
  <2> HIDE DEF d
  <2> QED
    BY <1>2, <1>3, <2>1, <2>2, TextsOfPut
<1>6. TextsFrom(s.docs, ReplaceReferenceSites(s, u, version, K).docs)
  <2> DEFINE d == s.docs[u]
  <2>1. \/ ReplaceReferenceSites(s, u, version, K) = s
        \/ /\ u \in DOMAIN s.docs
           /\ ReplaceReferenceSites(s, u, version, K) = WithSites(s, u, d, K)
    BY DEF ReplaceReferenceSites
  <2> QED
    BY <1>2, <1>3, <2>1, TextsOfPut DEF Says
<1> QED
  BY <1>4, <1>5, <1>6

-----------------------------------------------------------------------------
(* The inductive invariant of the account *)

FullInv == Inv /\ AccountInv(store) /\ TextsOK

LEMMA EmptyAccount == AccountInv(EmptyStore)
<1>1. /\ EmptyStore.docs = <<>> /\ DOMAIN <<>> = {}
      /\ EmptyStore.uses = NoUses /\ EmptyStore.retained = 0
  BY DEF EmptyStore
<1>2. /\ NoUses.fileCap = 0 /\ NoUses.keyCap = 0 /\ NoUses.bytes = 0
      /\ FilesIn(NoUses) = {} /\ KeysIn(NoUses) = {}
  BY DEF NoUses, FilesIn, KeysIn
<1>3. Cardinality({}) = 0
  BY FS_EmptySet
<1>4. Cells(NoUses, Keys) = 0
  <2>1. {cell \in Keys \X Uris : cell[1] \in NoUses.keys[cell[2]]} = {}
    BY DEF NoUses
  <2> QED
    BY <1>3, <2>1 DEF Cells
<1>5. 0 \in Sizes
  <2>1. 0 \in Entries
    BY KeySets, FS_CardinalityType DEF Entries
  <2> QED
    BY <2>1, TableAssumption DEF Sizes
<1>6. HeldCapacity(NoUses) = 0
  BY <1>2, <1>4 DEF HeldCapacity
<1>7. UsesOK(NoUses)
  BY <1>2, <1>3, <1>5, <1>6 DEF UsesOK, Fits
<1>8. BytesOf(EmptyStore.docs) = {}
  BY <1>1 DEF BytesOf
<1>9. Held(EmptyStore) = 0
  <2>1. EmptyStore.uses = NoUses /\ Cardinality(BytesOf(EmptyStore.docs)) = 0
    BY <1>1, <1>3, <1>8
  <2>2. Held(EmptyStore) = 0 + 0 + 0
    BY ONLY <1>4, <1>6, <2>1 DEF Held
  <2> QED
    BY ONLY <2>2
<1>10. TreeBytesOK(EmptyStore.docs)
  BY <1>1 DEF TreeBytesOK
<1>11. UsesOK(EmptyStore.uses) /\ EmptyStore.retained = Held(EmptyStore)
  BY <1>1, <1>7, <1>9
<1> QED
  BY ONLY <1>10, <1>11, EmptyStoreInv DEF AccountInv

LEMMA FullInit == Init => FullInv
<1> SUFFICES ASSUME Init PROVE FullInv
  OBVIOUS
<1>1. DOMAIN store.docs = {}
  BY DEF Init, EmptyStore
<1>2. \A t \in Tasks : task[t].job # "validate"
  BY DEF Init, Idle
<1>3. TextsOK
  BY <1>1, <1>2 DEF TextsOK
<1>4. AccountInv(store)
  BY EmptyAccount DEF Init
<1> QED
  BY <1>3, <1>4, InitInv DEF FullInv

LEMMA HandlersKeepAccount ==
    ASSUME FullInv,
           \/ \E u \in Uris, content \in Contents : Open(u, content) \/ Change(u, content)
           \/ \E u \in Uris : Close(u)
           \/ \E u \in Uris : \E new \in Uris \ {u} : Move(u, new)
           \/ LoadRules
    PROVE  AccountInv(store') /\ TextsOK'
<1>1. /\ StoreInv(store) /\ AccountInv(store) /\ TextsOK
      /\ texts \in Nat /\ texts + 1 \in Nat
      /\ store = [docs |-> store.docs, validated |-> store.validated,
                  uses |-> store.uses, retained |-> store.retained]
  BY DEF FullInv, Inv, StoreInv, StoreOK
<1>2. ASSUME UNCHANGED task
      PROVE  \A t \in Tasks : SnapshotsFrom(t)
  BY <1>2 DEF SnapshotsFrom
<1>3. ASSUME NEW u \in Uris, NEW content \in Contents, Open(u, content)
      PROVE  AccountInv(store') /\ TextsOK'
  <2> DEFINE d == NewDocument(1, texts + 1, content)
  <2>1. Good(d) /\ d.treeBytes = TreeLength(d) /\ Says(d, texts + 1, content)
    BY <1>1 DEF Good, NewDocument, Document, TreeLength, Says
  <2>2. store' = IF CanOpen(store, u, d) THEN Opened(store, u, d) ELSE store
    BY <1>3 DEF Open
  <2>3. texts' = texts + 1 /\ UNCHANGED task
    BY <1>3 DEF Open, SendText
  <2> HIDE DEF d
  <2>4. AccountInv(store')
    BY <1>1, <2>1, <2>2, OpenedExact
  <2>5. store'.docs \in {store.docs, Put(store.docs, u, d)}
    BY <2>2 DEF Opened
  <2>6. TextsFromBut(store.docs, store'.docs, content)
    BY <2>1, <2>5 DEF TextsFromBut, Says, Put
  <2> QED
    BY <1>1, <2>3, <2>4, <2>6, TextsFollow
<1>4. ASSUME NEW u \in Uris, NEW content \in Contents, Change(u, content)
      PROVE  AccountInv(store') /\ TextsOK'
  <2> DEFINE d == ChangedDocument(store.docs[u], texts + 1, content)
  <2>1. u \in DOMAIN store.docs /\ Good(store.docs[u])
    BY <1>1, <1>4, GoodDocuments DEF Change
  <2>2. Good(d) /\ d.tree = store.docs[u].tree /\ d.treeVersion = store.docs[u].treeVersion
    <3>1. texts + 1 \in Nat /\ content \in Contents
      BY <1>1
    <3> QED
      BY ONLY <2>1, <3>1, ChangedIsGood
  <2>3. d.treeBytes = TreeLength(d) /\ Says(d, texts + 1, content)
    <3>1. store.docs[u].treeBytes = TreeLength(store.docs[u])
      BY <1>1, <2>1 DEF AccountInv, TreeBytesOK
    <3>2. d.treeBytes = store.docs[u].treeBytes /\ d.text = texts + 1 /\ d.content = content
      BY <2>1 DEF Good, Document, ChangedDocument
    <3> HIDE DEF d
    <3> QED
      BY <2>2, <3>1, <3>2 DEF TreeLength, Says
  <2>4. store' = IF CanChange(store, u, d) THEN Changed(store, u, d) ELSE store
    BY <1>4 DEF Change
  <2>5. texts' = texts + 1 /\ UNCHANGED task
    BY <1>4 DEF Change, SendText
  <2> HIDE DEF d
  <2>6. AccountInv(store')
    BY <1>1, <2>1, <2>2, <2>3, <2>4, ChangedExact
  <2>7. store'.docs \in {store.docs, Put(store.docs, u, d)}
    BY <1>1, <2>4 DEF Changed
  <2>8. TextsFromBut(store.docs, store'.docs, content)
    BY <2>3, <2>7 DEF TextsFromBut, Says, Put
  <2> QED
    BY <1>1, <2>5, <2>6, <2>8, TextsFollow
<1>5. ASSUME NEW u \in Uris, Close(u)
      PROVE  AccountInv(store') /\ TextsOK'
  <2>1. /\ u \in DOMAIN store.docs /\ store' = Removed(store, u)
        /\ texts' = texts /\ UNCHANGED task
    BY <1>5 DEF Close
  <2>2. AccountInv(store')
    BY <1>1, <2>1, RemovedExact
  <2>3. TextsFrom(store.docs, store'.docs)
    BY <2>1 DEF Removed, Without, TextsFrom, Says
  <2> QED
    BY <1>1, <1>2, <2>1, <2>2, <2>3, TextsStay
<1>6. ASSUME NEW u \in Uris, NEW new \in Uris \ {u}, Move(u, new)
      PROVE  AccountInv(store') /\ TextsOK'
  <2> DEFINE removed == Removed(store, u)
             d == [store.docs[u] EXCEPT !.loc = 0]
  <2>1. u \in DOMAIN store.docs /\ texts' = texts /\ UNCHANGED task
    BY <1>6 DEF Move
  <2>2. /\ Good(d) /\ d.treeBytes = TreeLength(d)
        /\ Says(d, store.docs[u].text, store.docs[u].content)
    <3>1. Good(store.docs[u]) /\ store.docs[u].treeBytes = TreeLength(store.docs[u])
      BY <1>1, <2>1, GoodDocuments DEF AccountInv, TreeBytesOK
    <3> QED
      BY <3>1 DEF Good, Document, TreeLength, Says
  <2>3. AccountInv(removed)
    BY <1>1, <2>1, RemovedExact
  <2>4. store' = IF CanOpen(removed, new, d) THEN Opened(removed, new, d) ELSE removed
    BY <1>6 DEF Move
  <2>5. removed.docs = Without(store.docs, u)
    BY DEF Removed
  <2> HIDE DEF removed, d
  <2>6. AccountInv(store')
    BY <2>2, <2>3, <2>4, OpenedExact
  <2>7. store'.docs \in {removed.docs, Put(removed.docs, new, d)}
    BY <2>4 DEF Opened
  <2>8. TextsFrom(store.docs, store'.docs)
    <3>1. TextsFrom(store.docs, removed.docs)
      BY <2>5 DEF TextsFrom, Says, Without
    <3>2. TextsFrom(store.docs, Put(removed.docs, new, d))
      BY <2>1, <2>2, <3>1 DEF TextsFrom, Says, Put
    <3> QED
      BY <2>7, <3>1, <3>2
  <2> QED
    BY <1>1, <1>2, <2>1, <2>6, <2>8, TextsStay
<1>7. ASSUME LoadRules PROVE AccountInv(store') /\ TextsOK'
  <2>1. store' = store /\ texts' = texts /\ task' = task
    BY <1>7 DEF LoadRules
  <2> QED
    BY <1>1, <2>1 DEF TextsOK
<1> QED
  BY <1>3, <1>4, <1>5, <1>6, <1>7

LEMMA TasksKeepAccount ==
    ASSUME FullInv, NEW t \in Tasks,
           \/ \E u \in Uris : StartValidation(t, u)
           \/ StartRefresh(t) \/ Classify(t) \/ CacheLoc(t)
           \/ Accept(t) \/ Supersede(t) \/ ReplaceNext(t)
    PROVE  AccountInv(store') /\ TextsOK'
<1>1. /\ StoreInv(store) /\ AccountInv(store) /\ TextsOK /\ texts \in Nat
      /\ store = [docs |-> store.docs, validated |-> store.validated,
                  uses |-> store.uses, retained |-> store.retained]
      /\ task = [w \in Tasks |-> task[w]]
      /\ Inv
  BY DEF FullInv, Inv, StoreInv, StoreOK, TasksOK
<1>2. TextsFrom(store.docs, store.docs)
  BY DEF TextsFrom, Says
\* A task that is done, or goes on with less of what it took.
<1>3. ASSUME NEW k, task' = [task EXCEPT ![t] = k],
             k.job = "validate" => task[t].job = "validate" /\ k.of \subseteq task[t].of
      PROVE  \A w \in Tasks : SnapshotsFrom(w)
  <2>1. ASSUME NEW w \in Tasks PROVE SnapshotsFrom(w)
    <3>1. task'[w] = IF w = t THEN k ELSE task[w]
      BY <1>1, <1>3
    <3> QED
      BY <1>3, <3>1 DEF SnapshotsFrom
  <2> QED
    BY <2>1
<1>4. Idle.job # "validate"
  BY DEF Idle
<1>5. ASSUME NEW r, task' = [task EXCEPT ![t].rules = r]
      PROVE  \A w \in Tasks : SnapshotsFrom(w)
  <2> DEFINE k == [task[t] EXCEPT !.rules = r]
  <2>1. task' = [task EXCEPT ![t] = k] /\ k.job = task[t].job /\ k.of = task[t].of
    <3>1. task[t] = [job |-> task[t].job, of |-> task[t].of, rules |-> task[t].rules]
      BY <1>1 DEF Inv, TasksOK
    <3> QED
      BY <1>5, <3>1
  <2> HIDE DEF k
  <2> QED
    BY <1>3, <2>1
<1>6. ASSUME NEW job, NEW of, Start(t, job, of),
             job = "validate" =>
               \A snap \in of : \E w \in DOMAIN store.docs :
                    Says(snap, store.docs[w].text, store.docs[w].content)
      PROVE  AccountInv(store') /\ TextsOK'
  <2> DEFINE k == [job |-> job, of |-> of, rules |-> 0]
  <2>1. /\ task' = [task EXCEPT ![t] = k] /\ k.job = job /\ k.of = of
        /\ store' = store /\ texts' = texts
    BY <1>6 DEF Start
  <2> HIDE DEF k
  <2>2. ASSUME NEW w \in Tasks PROVE SnapshotsFrom(w)
    <3>1. task'[w] = IF w = t THEN k ELSE task[w]
      BY <1>1, <2>1
    <3> QED
      BY <1>6, <2>1, <3>1 DEF SnapshotsFrom
  <2> QED
    BY <1>1, <1>2, <2>1, <2>2, TextsStay
<1>7. ASSUME NEW u \in Uris, StartValidation(t, u)
      PROVE  AccountInv(store') /\ TextsOK'
  <2> DEFINE of == {[uri |-> w, version |-> store.docs[w].version,
                     text |-> store.docs[w].text, content |-> store.docs[w].content]
                      : w \in DOMAIN store.docs \cap {u}}
  <2>1. \A snap \in of : \E w \in DOMAIN store.docs :
            Says(snap, store.docs[w].text, store.docs[w].content)
    BY DEF Says
  <2>2. Start(t, "validate", of)
    BY <1>7 DEF StartValidation
  <2> HIDE DEF of
  <2> QED
    BY <1>6, <2>1, <2>2
<1>8. ASSUME StartRefresh(t)
      PROVE  AccountInv(store') /\ TextsOK'
  <2> DEFINE current == {w \in DOMAIN store.docs :
                            /\ store.docs[w].tree # NoTree
                            /\ store.docs[w].treeVersion = store.docs[w].version}
             of == {[uri |-> w, version |-> store.docs[w].version,
                     text |-> 0, content |-> store.docs[w].tree] : w \in current}
  <2>1. Start(t, "refresh", of)
    BY <1>8 DEF StartRefresh
  <2> HIDE DEF of
  <2>2. "refresh" # "validate"
    OBVIOUS
  <2> QED
    BY <1>6, <2>1, <2>2
<1>9. ASSUME Classify(t) PROVE AccountInv(store') /\ TextsOK'
  <2>1. store' = store /\ texts' = texts /\ task' = [task EXCEPT ![t].rules = rules]
    BY <1>9 DEF Classify
  <2> QED
    BY <1>1, <1>2, <1>5, <2>1, TextsStay
<1>10. ASSUME CacheLoc(t) PROVE AccountInv(store') /\ TextsOK'
  <2>1. PICK snap \in task[t].of :
            store' = SetLocCache(store, snap.uri, snap.version, LocBytes[snap.content])
    BY <1>10 DEF CacheLoc
  <2>2. texts' = texts /\ task' = [task EXCEPT ![t].rules = rules]
    BY <1>10 DEF CacheLoc
  <2>3. snap.content \in Contents /\ LocBytes[snap.content] \in Nat
    BY <1>1, SnapshotsOK
  <2>4. AccountInv(store')
    BY <1>1, <2>1, <2>3, SetLocCacheExact
  <2>5. TextsFrom(store.docs, store'.docs)
    BY <1>1, <2>1, <2>3, TextsOfTasks
  <2> QED
    BY <1>1, <1>5, <2>2, <2>4, <2>5, TextsStay
<1>11. ASSUME Accept(t) PROVE AccountInv(store') /\ TextsOK'
  <2>1. PICK snap \in task[t].of :
            LET marked == [store EXCEPT !.validated = @ \cup {snap.uri}]
            IN  store' = IF ~Marks(store, snap.uri, snap.version, snap.text) THEN store
                         ELSE IF snap.uri \notin Scripts THEN marked
                         ELSE SetAst(marked, snap.uri, snap.version, snap.content,
                                     Sites[task[t].rules][snap.content])
    BY <1>11 DEF Accept
  <2> DEFINE marked == [store EXCEPT !.validated = @ \cup {snap.uri}]
             K == Sites[task[t].rules][snap.content]
             n == SetAst(marked, snap.uri, snap.version, snap.content, K)
  <2>2. \/ store' = store
        \/ /\ Marks(store, snap.uri, snap.version, snap.text)
           /\ store' = marked \/ store' = n
    BY <2>1
  <2>3. /\ task[t].job = "validate" /\ task[t].rules # 0
        /\ texts' = texts /\ task' = [task EXCEPT ![t] = Idle]
    BY <1>11 DEF Accept
  <2>4. snap.content \in Contents /\ K \in SUBSET Keys
    BY <1>1, <2>3, SnapshotsOK
  <2>5. marked.docs = store.docs
    BY <1>1
  <2>6. ASSUME Marks(store, snap.uri, snap.version, snap.text)
        PROVE  AccountInv(marked) /\ store.docs[snap.uri].content = snap.content
    <3>1. snap.uri \in DOMAIN store.docs /\ store.docs[snap.uri].text = snap.text
      BY <2>6 DEF Marks
    <3>2. AccountInv(marked)
      BY <1>1, <3>1, MarkedExact
    <3>3. OneText(snap, store.docs[snap.uri])
      BY <1>1, <2>3, <3>1 DEF TextsOK
    <3> QED
      BY <3>1, <3>2, <3>3 DEF OneText
  <2> HIDE DEF marked, K
  <2>7. ASSUME Marks(store, snap.uri, snap.version, snap.text)
        PROVE  AccountInv(n) /\ TextsFrom(marked.docs, n.docs)
    <3>1. AccountInv(marked) /\ StoreInv(marked)
      BY <2>6, <2>7 DEF AccountInv
    <3>2. AccountInv(n)
      BY <2>4, <2>5, <2>6, <2>7, <3>1, SetAstExact
    <3>3. TextsFrom(marked.docs, n.docs)
      BY <2>4, <3>1, TextsOfTasks
    <3> QED
      BY <3>2, <3>3
  <2> HIDE DEF n
  <2>8. AccountInv(store') /\ TextsFrom(store.docs, store'.docs)
    BY <1>1, <1>2, <2>2, <2>5, <2>6, <2>7
  <2>9. \A w \in Tasks : SnapshotsFrom(w)
    BY <1>3, <1>4, <2>3
  <2> QED
    BY <1>1, <2>3, <2>8, <2>9, TextsStay
<1>12. ASSUME Supersede(t) PROVE AccountInv(store') /\ TextsOK'
  <2>1. store' = store /\ texts' = texts /\ task' = [task EXCEPT ![t] = Idle]
    BY <1>12 DEF Supersede
  <2>2. \A w \in Tasks : SnapshotsFrom(w)
    BY <1>3, <1>4, <2>1
  <2> QED
    BY <1>1, <1>2, <2>1, <2>2, TextsStay
<1>13. ASSUME ReplaceNext(t) PROVE AccountInv(store') /\ TextsOK'
  <2>1. PICK snap \in task[t].of :
            /\ store' = ReplaceReferenceSites(store, snap.uri, snap.version,
                                              Sites[task[t].rules][snap.content])
            /\ \/ task' = [task EXCEPT ![t] = Idle]
               \/ task' = [task EXCEPT ![t].of = @ \ {snap}]
    BY <1>13 DEF ReplaceNext
  <2>2. texts' = texts /\ task[t].rules # 0 /\ task[t].job = "refresh"
    BY <1>13 DEF ReplaceNext
  <2>3. Sites[task[t].rules][snap.content] \in SUBSET Keys /\ snap.content \in Contents
    BY <1>1, <2>2, SnapshotsOK
  <2>4. AccountInv(store')
    BY <1>1, <2>1, <2>3, ReplaceReferenceSitesExact
  <2>5. TextsFrom(store.docs, store'.docs)
    BY <1>1, <2>1, <2>3, TextsOfTasks
  <2>6. \A w \in Tasks : SnapshotsFrom(w)
    <3>1. CASE task' = [task EXCEPT ![t] = Idle]
      BY <1>3, <1>4, <3>1
    <3>2. CASE task' = [task EXCEPT ![t].of = @ \ {snap}]
      <4> DEFINE k == [task[t] EXCEPT !.of = @ \ {snap}]
      <4>1. task' = [task EXCEPT ![t] = k] /\ k.job = task[t].job
        <5>1. task[t] = [job |-> task[t].job, of |-> task[t].of, rules |-> task[t].rules]
          BY <1>1 DEF Inv, TasksOK
        <5> QED
          BY <3>2, <5>1
      <4> HIDE DEF k
      <4> QED
        BY <1>3, <2>2, <4>1
    <3> QED
      BY <2>1, <3>1, <3>2
  <2> QED
    BY <1>1, <2>2, <2>4, <2>5, <2>6, TextsStay
<1> QED
  BY <1>7, <1>8, <1>9, <1>10, <1>11, <1>12, <1>13

LEMMA FullNext == FullInv /\ [Next]_vars => FullInv'
<1> SUFFICES ASSUME FullInv, [Next]_vars PROVE FullInv'
  OBVIOUS
<1>1. Inv'
  BY NextInv DEF FullInv
<1>2. CASE UNCHANGED vars
  BY <1>1, <1>2 DEF FullInv, TextsOK, vars
<1>3. CASE Next
  <2>1. AccountInv(store') /\ TextsOK'
    BY <1>3, HandlersKeepAccount, TasksKeepAccount DEF Next
  <2> QED
    BY <1>1, <2>1 DEF FullInv
<1> QED
  BY <1>2, <1>3

LEMMA FullInvariance == Spec => []FullInv
BY FullInit, FullNext, PTL DEF Spec

-----------------------------------------------------------------------------
(* What is admitted beyond the limit *)

\* A step from a to b goes over the limit only with other use sites.
Restrained(a, b) ==
    b.retained > MaxRetained /\ b.retained > a.retained => b.uses.keys # a.uses.keys

\* The total of what is admitted is in bounds, and so is less than that.
LEMMA AdmittedFits ==
    ASSUME NEW s, s.retained \in Nat, NEW old \in Nat, NEW new \in Nat, NEW capacity,
           Admits(s, old, new, capacity), NEW less \in Nat, less <= new
    PROVE  Retain(s, old, less) <= MaxRetained
BY DEF Admits, Retain, Monus

LEMMA OpenedRestrained ==
    ASSUME NEW s, AccountInv(s), NEW u \in Uris, NEW d, Good(d), CanOpen(s, u, d)
    PROVE  Restrained(s, Opened(s, u, d))
<1> DEFINE n == Opened(s, u, d)
           x == RemoveFile(s.uses, u)
<1>1. s.uses \in Uses /\ s.uses.keys \in [Uris -> SUBSET Keys] /\ s.uses.bytes \in Nat
      /\ s.retained \in Nat
  BY StoreParts DEF AccountInv
<1>2. x.keys = [s.uses.keys EXCEPT ![u] = {}]
  BY <1>1, RemoveFileKeeps
<1>3. n.uses = x /\ n.retained = Retain(s, OldBytes(s, u), DocumentBytes(d) + x.bytes)
  BY DEF Opened
<1>4. ASSUME n.uses.keys = s.uses.keys
      PROVE  n.retained <= MaxRetained
  <2>1. s.uses.keys[u] = {}
    BY <1>1, <1>2, <1>3, <1>4
  <2>2. x = s.uses
    BY <2>1 DEF RemoveFile
  <2>3. Admits(s, OldBytes(s, u), DocumentBytes(d) + s.uses.bytes, s.uses.bytes)
    BY DEF CanOpen
  <2>4. DocumentBytes(d) + s.uses.bytes \in Nat
    BY <1>1, Bytes DEF Good
  <2>5. OldBytes(s, u) \in Nat
    BY OldIsHeld
  <2> QED
    BY <1>1, <1>3, <2>2, <2>3, <2>4, <2>5, AdmittedFits
<1>5. n.retained \in Nat
  BY OpenedKeeps DEF AccountInv, StoreInv, StoreOK
<1> HIDE DEF n
<1> QED
  BY <1>4, <1>5 DEF Restrained, n

LEMMA RemovedRestrained ==
    ASSUME NEW s, AccountInv(s), NEW u \in DOMAIN s.docs
    PROVE  Restrained(s, Removed(s, u))
<1> DEFINE n == Removed(s, u)
           x == RemoveFile(s.uses, u)
<1>1. s.uses \in Uses /\ s.uses.keys \in [Uris -> SUBSET Keys] /\ s.uses.bytes \in Nat
      /\ s.retained \in Nat /\ u \in Uris
  BY StoreParts, GoodDocuments DEF AccountInv
<1>2. x.keys = [s.uses.keys EXCEPT ![u] = {}]
  BY <1>1, RemoveFileKeeps
<1>3. n.uses = x /\ n.retained = Retain(s, OldBytes(s, u), x.bytes)
  BY DEF Removed
<1>4. ASSUME n.uses.keys = s.uses.keys
      PROVE  n.retained <= s.retained
  <2>1. s.uses.keys[u] = {}
    BY <1>1, <1>2, <1>3, <1>4
  <2>2. x = s.uses
    BY <2>1 DEF RemoveFile
  <2>3. OldBytes(s, u) \in Nat /\ OldBytes(s, u) <= s.retained
    BY <1>1, OldIsHeld
  <2>4. OldBytes(s, u) >= s.uses.bytes
    <3>1. /\ Own(s.docs, u) \in Nat /\ FileBytes(s.uses, u) \in Nat
          /\ HeldCapacity(s.uses) \in Nat
      BY <1>1, HeldParts, StoreParts DEF AccountInv
    <3>2. OldBytes(s, u) = Own(s.docs, u) + FileBytes(s.uses, u) + HeldCapacity(s.uses)
      BY <1>1, OldIsHeld
    <3>3. s.uses.bytes = HeldCapacity(s.uses)
      BY DEF AccountInv, UsesOK
    <3> QED
      BY <3>1, <3>2, <3>3
  <2> QED
    BY <1>1, <1>3, <2>2, <2>3, <2>4 DEF Retain, Monus
<1>5. n.retained \in Nat
  BY RemovedKeeps DEF AccountInv, StoreInv, StoreOK
<1> HIDE DEF n
<1> QED
  BY <1>1, <1>4, <1>5 DEF Restrained, n

\* A text or a cached localisation is admitted with all that is kept beside it.
LEMMA PutRestrained ==
    ASSUME NEW s, AccountInv(s), NEW u \in Uris, NEW d, Good(d), CanChange(s, u, d),
           NEW n, n.retained = Retain(s, OldBytes(s, u), DocumentBytes(d) + IndexBytes(s.uses, u))
    PROVE  Restrained(s, n)
<1>1. s.retained \in Nat /\ s.uses.bytes \in Nat
  BY StoreParts DEF AccountInv
<1>2. OldBytes(s, u) \in Nat
  BY OldIsHeld
<1>3. DocumentBytes(d) \in Nat /\ IndexBytes(s.uses, u) \in Nat
  BY Bytes, Totals DEF AccountInv, StoreInv, Good
<1>4. DocumentBytes(d) + IndexBytes(s.uses, u) \in Nat
  BY <1>3
<1>5. n.retained <= MaxRetained
  BY <1>1, <1>2, <1>4, AdmittedFits DEF CanChange
<1>6. n.retained \in Nat
  BY <1>1, <1>2, <1>4 DEF Retain, Monus
<1> QED
  BY <1>5, <1>6 DEF Restrained

\* The sites that a file had already need no more than was foreseen for them.
LEMMA SitesRestrained ==
    ASSUME NEW s, AccountInv(s), NEW u \in DOMAIN s.docs, NEW d, Good(d),
           NEW K \in SUBSET Keys, CanReplaceSites(s, u, d, K)
    PROVE  Restrained(s, WithSites(s, u, d, K))
<1> DEFINE x == ReplaceFile(s.uses, u, K, d.version)
           n == WithSites(s, u, d, K)
           new == DocumentBytes(d) + IndexBytes(x, u)
<1>1. /\ s.uses \in Uses /\ s.uses.keys \in [Uris -> SUBSET Keys] /\ s.uses.bytes \in Nat
      /\ s.retained \in Nat /\ u \in Uris /\ UsesOK(s.uses)
      /\ s = [docs |-> s.docs, validated |-> s.validated, uses |-> s.uses, retained |-> s.retained]
  BY StoreParts, GoodDocuments DEF AccountInv, StoreInv, StoreOK
<1>2. d \in Document /\ d.version \in Nat /\ DocumentBytes(d) \in Nat
  BY Bytes DEF Good, Document
<1>3. x \in Uses /\ x.keys = [s.uses.keys EXCEPT ![u] = K]
  <2>1. Replaced(s.uses, x, u, K, d.version)
    BY <1>1, <1>2, ReplaceFileKeeps
  <2> QED
    BY <2>1 DEF Replaced
<1>4. /\ UsesOK(x)
      /\ K = s.uses.keys[u] => x.fileCap <= s.uses.fileCap /\ x.keyCap <= s.uses.keyCap
  BY <1>1, <1>2, ReplaceFileExact
<1>5. n.uses = x /\ n.retained = Retain(s, OldBytes(s, u), new)
  <2> HIDE DEF x, new
  <2>1. n = [s EXCEPT !.docs = Put(@, u, d), !.uses = x,
                !.retained = Retain(s, OldBytes(s, u), new)]
    BY DEF WithSites, x, new
  <2> HIDE DEF n
  <2> QED
    BY <1>1, <2>1
<1>6. OldBytes(s, u) \in Nat
  BY <1>1, OldIsHeld
<1> HIDE DEF n, x
<1>7. new \in Nat
  <2>1. FileBytes(x, u) \in Nat /\ x.bytes \in Nat
    BY <1>1, <1>3, Counts DEF Uses
  <2> QED
    BY <1>2, <2>1 DEF IndexBytes
<1>8. ASSUME n.uses.keys = s.uses.keys
      PROVE  n.retained <= MaxRetained
  <2> DEFINE bound == ReplacementCapacityBound(s.uses, u, K)
             full == DocumentBytes(d) + Cardinality(K) + bound
  <2>1. K = s.uses.keys[u] /\ x.keys = s.uses.keys
    BY <1>1, <1>3, <1>5, <1>8
  <2>2. Cells(x, Keys) = Cells(s.uses, Keys) /\ FileBytes(x, u) = Cardinality(K)
    BY <2>1 DEF Cells, FileBytes
  <2>3. x.bytes <= s.uses.bytes
    <3>1. Cells(s.uses, Keys) \in Nat
      BY <1>1, Counts
    <3>2. /\ x.bytes = x.fileCap + x.keyCap + 2 * Cells(s.uses, Keys)
          /\ s.uses.bytes = s.uses.fileCap + s.uses.keyCap + 2 * Cells(s.uses, Keys)
      BY <1>1, <1>4, <2>2 DEF UsesOK, HeldCapacity
    <3>3. /\ x.fileCap \in Nat /\ x.keyCap \in Nat
          /\ s.uses.fileCap \in Nat /\ s.uses.keyCap \in Nat
      BY <1>1, <1>3 DEF Uses
    <3> QED
      BY <1>4, <2>1, <3>1, <3>2, <3>3
  <2>4. Cardinality(K) \in Nat
    BY KeySets
  <2>5. bound \in Nat /\ s.uses.bytes <= bound
    <3>1. Cardinality(s.uses.keys[u]) \in Nat
      BY <2>1, <2>4
    <3>2. Monus(CapacityBound(Cardinality(K)),
                IF s.uses.keys[u] = {} THEN 0
                ELSE CapacityBound(Cardinality(s.uses.keys[u]))) \in Nat
      BY <2>4, <3>1 DEF CapacityBound, Monus
    <3> QED
      BY <1>1, <3>2 DEF ReplacementCapacityBound
  <2>6. Admits(s, OldBytes(s, u), full, bound)
    BY DEF CanReplaceSites
  <2> HIDE DEF bound
  <2>7. full \in Nat /\ new <= full
    <3>1. x.bytes \in Nat
      BY <1>3 DEF Uses
    <3>2. new = DocumentBytes(d) + Cardinality(K) + x.bytes
      BY <1>2, <2>2, <2>4, <3>1 DEF IndexBytes
    <3> QED
      BY <1>1, <1>2, <2>3, <2>4, <2>5, <3>1, <3>2
  <2> HIDE DEF full, new
  <2> QED
    BY <1>1, <1>5, <1>6, <1>7, <2>6, <2>7, AdmittedFits
<1>9. n.retained \in Nat
  BY <1>1, <1>5, <1>6, <1>7 DEF Retain, Monus
<1> QED
  BY <1>8, <1>9 DEF Restrained, n

LEMMA Unchanging ==
    ASSUME NEW S, NEW T, NEW f \in [S -> T], NEW a
    PROVE  [f EXCEPT ![a] = f[a]] = f
OBVIOUS

LEMMA Unmoved == ASSUME NEW s, AccountInv(s) PROVE Restrained(s, s)
<1>1. s.retained \in Nat
  BY StoreParts DEF AccountInv
<1> QED
  BY <1>1 DEF Restrained

LEMMA TasksRestrained ==
    ASSUME NEW s, AccountInv(s), NEW u, NEW version, NEW bytes \in Nat, NEW tree \in Contents,
           NEW K \in SUBSET Keys
    PROVE  /\ Restrained(s, SetLocCache(s, u, version, bytes))
           /\ Restrained(s, SetAst(s, u, version, tree, K))
           /\ Restrained(s, ReplaceReferenceSites(s, u, version, K))
<1>1. /\ Restrained(s, s) /\ StoreInv(s)
      /\ s = [docs |-> s.docs, validated |-> s.validated, uses |-> s.uses, retained |-> s.retained]
  BY Unmoved DEF AccountInv, StoreInv, StoreOK
<1>2. ASSUME u \in DOMAIN s.docs
      PROVE  Good(s.docs[u]) /\ u \in Uris
  BY <1>1, <1>2, GoodDocuments
<1>3. Restrained(s, SetLocCache(s, u, version, bytes))
  <2> DEFINE d == [s.docs[u] EXCEPT !.loc = bytes]
             r == Retain(s, OldBytes(s, u), DocumentBytes(d) + IndexBytes(s.uses, u))
             n == [s EXCEPT !.docs = Put(@, u, d), !.retained = r]
  <2>1. \/ SetLocCache(s, u, version, bytes) = s
        \/ u \in DOMAIN s.docs /\ CanChange(s, u, d) /\ SetLocCache(s, u, version, bytes) = n
    BY DEF SetLocCache
  <2>2. ASSUME u \in DOMAIN s.docs PROVE Good(d)
    BY <1>2, <2>2 DEF Good, Document
  <2>3. n.retained = r
    <3> HIDE DEF d, r
    <3> QED
      BY <1>1
  <2> HIDE DEF d, n
  <2> QED
    BY <1>1, <1>2, <2>1, <2>2, <2>3, PutRestrained
<1>4. Restrained(s, SetAst(s, u, version, tree, K))
  <2> DEFINE d == [s.docs[u] EXCEPT !.tree = tree, !.treeVersion = version,
                                    !.treeBytes = Length[s.docs[u].content]]
  <2>1. \/ SetAst(s, u, version, tree, K) = s
        \/ /\ u \in DOMAIN s.docs /\ s.docs[u].version = version
           /\ CanReplaceSites(s, u, d, K)
           /\ SetAst(s, u, version, tree, K) = WithSites(s, u, d, K)
    BY DEF SetAst
  <2>2. ASSUME u \in DOMAIN s.docs, s.docs[u].version = version
        PROVE  Good(d)
    <3>1. Length[s.docs[u].content] \in Nat
      BY <1>2, <2>2 DEF Good, Document
    <3> QED
      BY <1>2, <2>2, <3>1 DEF Good, Document
  <2> HIDE DEF d
  <2> QED
    BY <1>1, <2>1, <2>2, SitesRestrained
<1>5. Restrained(s, ReplaceReferenceSites(s, u, version, K))
  <2> DEFINE d == s.docs[u]
  <2>1. \/ ReplaceReferenceSites(s, u, version, K) = s
        \/ /\ u \in DOMAIN s.docs /\ CanReplaceSites(s, u, d, K)
           /\ ReplaceReferenceSites(s, u, version, K) = WithSites(s, u, d, K)
    BY DEF ReplaceReferenceSites
  <2> QED
    BY <1>1, <1>2, <2>1, SitesRestrained
<1> QED
  BY <1>3, <1>4, <1>5

LEMMA HandlersRestrained ==
    ASSUME FullInv,
           \/ \E u \in Uris, content \in Contents : Open(u, content) \/ Change(u, content)
           \/ \E u \in Uris : Close(u)
           \/ \E u \in Uris : \E new \in Uris \ {u} : Move(u, new)
           \/ LoadRules
    PROVE  Restrained(store, store')
<1>1. /\ StoreInv(store) /\ AccountInv(store) /\ Restrained(store, store)
      /\ texts \in Nat /\ texts + 1 \in Nat
      /\ store = [docs |-> store.docs, validated |-> store.validated,
                  uses |-> store.uses, retained |-> store.retained]
  BY Unmoved DEF FullInv, Inv, StoreInv, StoreOK
<1>2. ASSUME NEW u \in Uris, NEW content \in Contents, Open(u, content)
      PROVE  Restrained(store, store')
  <2> DEFINE d == NewDocument(1, texts + 1, content)
  <2>1. Good(d)
    BY <1>1 DEF Good, NewDocument, Document
  <2>2. store' = IF CanOpen(store, u, d) THEN Opened(store, u, d) ELSE store
    BY <1>2 DEF Open
  <2> HIDE DEF d
  <2> QED
    BY <1>1, <2>1, <2>2, OpenedRestrained
<1>3. ASSUME NEW u \in Uris, NEW content \in Contents, Change(u, content)
      PROVE  Restrained(store, store')
  <2> DEFINE d == ChangedDocument(store.docs[u], texts + 1, content)
             r == Retain(store, OldBytes(store, u), DocumentBytes(d) + IndexBytes(store.uses, u))
  <2>1. u \in DOMAIN store.docs /\ Good(store.docs[u])
    BY <1>1, <1>3, GoodDocuments DEF Change
  <2>2. Good(d)
    <3>1. texts + 1 \in Nat /\ content \in Contents
      BY <1>1
    <3> QED
      BY ONLY <2>1, <3>1, ChangedIsGood
  <2>3. store' = IF CanChange(store, u, d) THEN Changed(store, u, d) ELSE store
    BY <1>3 DEF Change
  <2>4. Changed(store, u, d).retained = r
    <3> HIDE DEF d
    <3> QED
      BY <1>1 DEF Changed
  <2> HIDE DEF d
  <2> QED
    BY <1>1, <2>2, <2>3, <2>4, PutRestrained
<1>4. ASSUME NEW u \in Uris, Close(u)
      PROVE  Restrained(store, store')
  BY <1>1, <1>4, RemovedRestrained DEF Close
<1>5. ASSUME NEW u \in Uris, NEW new \in Uris \ {u}, Move(u, new)
      PROVE  Restrained(store, store')
  <2> DEFINE removed == Removed(store, u)
             d == [store.docs[u] EXCEPT !.loc = 0]
             moved == Opened(removed, new, d)
  <2>1. u \in DOMAIN store.docs
    BY <1>5 DEF Move
  <2>2. Good(d)
    BY <1>1, <2>1, GoodDocuments DEF Good, Document
  <2>3. AccountInv(removed) /\ Restrained(store, removed)
    BY <1>1, <2>1, RemovedExact, RemovedRestrained
  <2>4. store' = IF CanOpen(removed, new, d) THEN moved ELSE removed
    BY <1>5 DEF Move
  <2>5. /\ store.uses.keys \in [Uris -> SUBSET Keys]
        /\ removed.uses.keys = [store.uses.keys EXCEPT ![u] = {}]
        /\ removed.uses.keys \in [Uris -> SUBSET Keys]
        /\ moved.uses.keys = [removed.uses.keys EXCEPT ![new] = {}]
    <3>1. store.uses \in Uses /\ store.uses.keys \in [Uris -> SUBSET Keys]
      BY <1>1, StoreParts
    <3>2. removed.uses = RemoveFile(store.uses, u)
      BY DEF Removed
    <3>3. removed.uses \in Uses /\ removed.uses.keys \in [Uris -> SUBSET Keys]
      BY <2>3, StoreParts DEF AccountInv
    <3>4. moved.uses = RemoveFile(removed.uses, new)
      BY DEF Opened
    <3> HIDE DEF removed, moved
    <3>5. removed.uses.keys = [store.uses.keys EXCEPT ![u] = {}]
      BY <3>1, <3>2, RemoveFileKeeps
    <3>6. moved.uses.keys = [removed.uses.keys EXCEPT ![new] = {}]
      BY <3>3, <3>4, RemoveFileKeeps
    <3> QED
      BY <3>1, <3>3, <3>5, <3>6
  <2> HIDE DEF removed, d
  <2>6. ASSUME CanOpen(removed, new, d), moved.uses.keys = store.uses.keys
        PROVE  moved.retained <= MaxRetained \/ moved.retained <= store.retained
    <3>1. removed.uses.keys = store.uses.keys
      <4>1. moved.uses.keys = store.uses.keys
        BY <2>6
      <4> HIDE DEF moved
      <4>2. u \in Uris /\ new \in Uris /\ u # new
        OBVIOUS
      <4>3. removed.uses.keys[u] = {}
        BY ONLY <2>5, <4>2
      <4>4. moved.uses.keys[u] = removed.uses.keys[u]
        BY ONLY <2>5, <4>2
      <4>5. store.uses.keys[u] = {}
        BY ONLY <4>1, <4>3, <4>4
      <4>6. removed.uses.keys = [store.uses.keys EXCEPT ![u] = store.uses.keys[u]]
        BY ONLY <2>5, <4>5
      <4> QED
        BY ONLY <2>5, <4>6, Unchanging
    <3>2. Restrained(removed, moved)
      BY <2>2, <2>3, <2>6, OpenedRestrained
    <3>3. removed.retained \in Nat /\ store.retained \in Nat
      BY <1>1, <2>3, StoreParts DEF AccountInv
    <3>4. moved.retained \in Nat
      BY <2>2, <2>3, <2>6, OpenedKeeps DEF AccountInv, StoreInv, StoreOK
    <3>5. removed.retained <= MaxRetained \/ removed.retained <= store.retained
      BY <2>3, <3>1, <3>3 DEF Restrained
    <3>6. moved.retained <= MaxRetained \/ moved.retained <= removed.retained
      BY <2>6, <3>1, <3>2, <3>3, <3>4 DEF Restrained
    <3> HIDE DEF moved
    <3> QED
      BY <3>3, <3>4, <3>5, <3>6
  <2>7. CASE CanOpen(removed, new, d)
    <3>1. moved.retained \in Nat /\ store.retained \in Nat
      BY <1>1, <2>2, <2>3, <2>7, OpenedKeeps, StoreParts DEF AccountInv, StoreInv, StoreOK
    <3>2. store' = moved
      BY <2>4, <2>7
    <3> HIDE DEF moved
    <3> QED
      BY <2>6, <2>7, <3>1, <3>2 DEF Restrained
  <2> QED
    BY <2>3, <2>4, <2>7
<1>6. ASSUME LoadRules PROVE Restrained(store, store')
  BY <1>1, <1>6 DEF LoadRules
<1> QED
  BY <1>2, <1>3, <1>4, <1>5, <1>6

LEMMA StepsRestrained == FullInv /\ [Next]_vars => Restrained(store, store')
<1> SUFFICES ASSUME FullInv, [Next]_vars PROVE Restrained(store, store')
  OBVIOUS
<1>1. AccountInv(store) /\ Restrained(store, store) /\ Inv
  BY Unmoved DEF FullInv
<1>2. ASSUME UNCHANGED store PROVE Restrained(store, store')
  BY <1>1, <1>2
<1>3. CASE UNCHANGED vars
  BY <1>2, <1>3 DEF vars
<1>4. ASSUME NEW t \in Tasks, CacheLoc(t)
      PROVE  Restrained(store, store')
  <2>1. PICK snap \in task[t].of :
            store' = SetLocCache(store, snap.uri, snap.version, LocBytes[snap.content])
    BY <1>4 DEF CacheLoc
  <2>2. snap.content \in Contents /\ LocBytes[snap.content] \in Nat
    BY <1>1, SnapshotsOK
  <2> QED
    BY <1>1, <2>1, <2>2, TasksRestrained
<1>5. ASSUME NEW t \in Tasks, Accept(t)
      PROVE  Restrained(store, store')
  <2>1. PICK snap \in task[t].of :
            LET marked == [store EXCEPT !.validated = @ \cup {snap.uri}]
            IN  store' = IF ~Marks(store, snap.uri, snap.version, snap.text) THEN store
                         ELSE IF snap.uri \notin Scripts THEN marked
                         ELSE SetAst(marked, snap.uri, snap.version, snap.content,
                                     Sites[task[t].rules][snap.content])
    BY <1>5 DEF Accept
  <2> DEFINE marked == [store EXCEPT !.validated = @ \cup {snap.uri}]
             K == Sites[task[t].rules][snap.content]
  <2>2. \/ store' = store
        \/ /\ Marks(store, snap.uri, snap.version, snap.text)
           /\ \/ store' = marked
              \/ store' = SetAst(marked, snap.uri, snap.version, snap.content, K)
    BY <2>1
  <2>3. snap.content \in Contents /\ K \in SUBSET Keys
    BY <1>1, <1>5, SnapshotsOK DEF Accept
  <2>4. marked.uses = store.uses /\ marked.retained = store.retained
    <3>1. store = [docs |-> store.docs, validated |-> store.validated,
                   uses |-> store.uses, retained |-> store.retained]
      BY <1>1 DEF AccountInv, StoreInv, StoreOK
    <3> QED
      BY <3>1
  <2>5. Marks(store, snap.uri, snap.version, snap.text) => AccountInv(marked)
    BY <1>1, MarkedExact DEF Marks
  <2> HIDE DEF marked, K
  <2>6. CASE store' = store
    BY <1>2, <2>6
  <2>7. CASE Marks(store, snap.uri, snap.version, snap.text)
    <3>1. Restrained(marked, marked)
      BY <2>5, <2>7, Unmoved
    <3>2. Restrained(marked, SetAst(marked, snap.uri, snap.version, snap.content, K))
      BY <2>3, <2>5, <2>7, TasksRestrained
    <3> QED
      BY <1>2, <2>2, <2>4, <3>1, <3>2 DEF Restrained
  <2> QED
    BY <2>2, <2>6, <2>7
<1>6. ASSUME NEW t \in Tasks, ReplaceNext(t)
      PROVE  Restrained(store, store')
  <2>1. PICK snap \in task[t].of :
            store' = ReplaceReferenceSites(store, snap.uri, snap.version,
                                           Sites[task[t].rules][snap.content])
    BY <1>6 DEF ReplaceNext
  <2>2. Sites[task[t].rules][snap.content] \in SUBSET Keys /\ snap.content \in Contents
    BY <1>1, <1>6, SnapshotsOK DEF ReplaceNext
  <2> QED
    BY <1>1, <2>1, <2>2, TasksRestrained
<1>7. ASSUME NEW t \in Tasks,
             \/ \E u \in Uris : StartValidation(t, u)
             \/ StartRefresh(t) \/ Classify(t) \/ Supersede(t)
      PROVE  Restrained(store, store')
  BY <1>2, <1>7 DEF StartValidation, StartRefresh, Start, Classify, Supersede
<1>8. CASE Next
  BY <1>4, <1>5, <1>6, <1>7, <1>8, HandlersRestrained DEF Next
<1> QED
  BY <1>3, <1>8

-----------------------------------------------------------------------------
(* Theorems *)

\* What the store accounts for is what it holds (retained_text_bytes and
\* capacity_bytes): the differences by which it is kept lose nothing, after any
\* sequence of texts, trees, sites and removals.
THEOREM AccountCorrect == Spec => []Accounted
<1>1. FullInv => Accounted
  BY DEF FullInv, AccountInv, Accounted
<1> QED
  BY <1>1, FullInvariance, PTL

\* Without documents nothing is accounted for (ReferenceSites::remove_file
\* shrinks its tables with their last entries).
THEOREM NothingLeftCorrect == Spec => []NothingLeft
<1>1. FullInv => NothingLeft
  <2> SUFFICES ASSUME FullInv, DOMAIN store.docs = {} PROVE store.retained = 0
    BY DEF NothingLeft
  <2>1. /\ FilesIn(store.uses) = {} /\ store.uses \in Uses
        /\ UsesOK(store.uses) /\ store.retained = Held(store)
    BY DEF FullInv, AccountInv, StoreInv, StoreOK
  <2>2. \A u \in Uris : store.uses.keys[u] = {}
    BY <2>1 DEF FilesIn
  <2>3. KeysIn(store.uses) = {}
    BY <2>2 DEF KeysIn
  <2>4. Cardinality({}) = 0
    BY FS_EmptySet
  <2>5. store.uses.fileCap = 0 /\ store.uses.keyCap = 0
    BY <2>1, <2>3, <2>4 DEF UsesOK, Fits
  <2>6. Cells(store.uses, Keys) = 0
    <3>1. {cell \in Keys \X Uris : cell[1] \in store.uses.keys[cell[2]]} = {}
      BY <2>2
    <3> QED
      BY <2>4, <3>1 DEF Cells
  <2>7. BytesOf(store.docs) = {}
    BY DEF BytesOf
  <2> QED
    BY <2>1, <2>4, <2>5, <2>6, <2>7 DEF Held, HeldCapacity
<1> QED
  BY <1>1, FullInvariance, PTL

\* Only use sites take the store over its limit (replacement_total_with_capacity
\* is asked before everything else that is kept, and covers the tables as they
\* are; what capacity_bound foresees for new sites may be less than they take).
THEOREM OverLimitCorrect == Spec => OverLimitOnlyBySites
<1>1. ASSUME FullInv, [Next]_vars
      PROVE  [/\ store'.retained > MaxRetained
              /\ store'.retained > store.retained
              => store'.uses.keys # store.uses.keys]_vars
  BY <1>1, StepsRestrained DEF Restrained
<1>2. FullInv /\ [Next]_vars
        => [/\ store'.retained > MaxRetained
            /\ store'.retained > store.retained
            => store'.uses.keys # store.uses.keys]_vars
  BY <1>1
<1> QED
  BY <1>2, FullInvariance, PTL DEF Spec, OverLimitOnlyBySites

=============================================================================
