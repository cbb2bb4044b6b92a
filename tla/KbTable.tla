------------------------------ MODULE KbTable ------------------------------
(***************************************************************************)
(* The hash table of src/kb/kb.c as operators on a value: a knowledge base *)
(* is the sequence of its buckets, a bucket the set of the entries in its  *)
(* chain (the order of a chain shows only in kb_foreach, and its one user  *)
(* sorts what it collects).  FNV-1a is a constant function, so every       *)
(* collision the model is given can happen.  The memory of keys and values *)
(* (who frees what) is left out.                                           *)
(***************************************************************************)
EXTENDS Naturals, Sequences, FiniteSets

CONSTANTS
    Key,              \* the keys kb_validate_key accepts
    Hash,             \* cytadel_kb_hash, for each key
    InitialBuckets,   \* CYTADEL_KB_INITIAL_BUCKETS
    NotFound          \* CYTADEL_KB_GET_NOT_FOUND

ASSUME KbTableAssumption ==
    /\ Hash \in [Key -> Nat]
    /\ InitialBuckets \in Nat \ {0}

Create == [b \in 1..InitialBuckets |-> {}]

BucketOf(k, n) == (Hash[k] % n) + 1

Entries(kb) == UNION {kb[b] : b \in DOMAIN kb}

EntryCount(kb) == Cardinality(Entries(kb))

\* The entries of key k in the one chain that kb_find walks.
Find(kb, k) == {e \in kb[BucketOf(k, Len(kb))] : e.key = k}

Present(kb, k) == Find(kb, k) # {}

Get(kb, k) ==
    IF Present(kb, k) THEN (CHOOSE e \in Find(kb, k) : TRUE).value ELSE NotFound

NeedsGrowth(kb) == (EntryCount(kb) + 1) * 4 > Len(kb) * 3

(* Mutant: growth that relinks every entry where it was. *)
RehashInPlace(kb, n) ==
    [b \in 1..n |-> IF b <= Len(kb) THEN kb[b] ELSE {}]

\* Every chain is walked and every entry moved to its new chain.
Rehash(kb, n) == [b \in 1..n |-> {e \in Entries(kb) : BucketOf(e.key, n) = b}]

\* calloc may fail to give the larger bucket array: the table goes on as it is.
GrowIfNeeded(kb, memory) ==
    IF NeedsGrowth(kb) /\ memory THEN Rehash(kb, 2 * Len(kb)) ELSE kb

Entry(k, v) == [key |-> k, value |-> v]

InsertNew(kb, k, v, memory) ==
    LET grown == GrowIfNeeded(kb, memory)
    IN  [grown EXCEPT ![BucketOf(k, Len(grown))] = @ \union {Entry(k, v)}]

Set(kb, k, v, memory) ==
    IF Present(kb, k)
    THEN [kb EXCEPT ![BucketOf(k, Len(kb))] = (@ \ Find(kb, k)) \union {Entry(k, v)}]
    ELSE InsertNew(kb, k, v, memory)

\* kb_foreach: every key, bucket by bucket.
KeysOf(kb) == {e.key : e \in Entries(kb)}

=============================================================================
