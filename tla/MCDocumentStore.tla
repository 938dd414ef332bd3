--------------------------- MODULE MCDocumentStore ---------------------------
(* A small workspace for DocumentStore: two scripts and a localisation file, *)
(* a long text and a text with many references.                              *)
EXTENDS DocumentStore, TLC

CONSTANTS script1, script2, locfile, run, long, wide, key1, key2, key3, key4

ContentLength == long :> 24 @@ wide :> 2
ContentLines == long :> 1 @@ wide :> 2
ContentLoc == long :> 20 @@ wide :> 23

(* The second ruleset finds other references in the same texts. *)
ContentSites ==
    << long :> {} @@ wide :> {key1, key2},
       long :> {key1, key2, key3} @@ wide :> {key3, key4} >>

(* The capacities of hashbrown tables. *)
HashCapacity(n) == CHOOSE c \in {0, 3, 7, 14} :
                       c >= n /\ \A d \in {0, 3, 7, 14} : d >= n => c <= d

Symmetry == Permutations({script1, script2})
=============================================================================
