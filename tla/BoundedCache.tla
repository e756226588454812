---------------------------- MODULE BoundedCache ----------------------------
(***************************************************************************)
(* BoundedCache of dataingestion/cache.py: a dictionary of entries and a   *)
(* list of keys in the order of their last use.  Every method runs from    *)
(* its first line to its last without giving up the event loop (the lock   *)
(* around it is never contended), so an operation is a function from one   *)
(* cache to the next.  Entries are their keys here: what they hold is the  *)
(* subject of FetchPipeline.tla.                                           *)
(*                                                                         *)
(* An entry past its time to live is evicted by the next get of its key or *)
(* by the next set of any key, and is not seen before: here it goes when   *)
(* its time is over.                                                       *)
(***************************************************************************)
EXTENDS Naturals, Sequences, FiniteSets, SequencesExt

CONSTANT MaxSize    \* max_size; with 0 every set raises IndexError

ASSUME CacheAssumption == MaxSize \in Nat \ {0}

Empty == [held |-> {}, order |-> <<>>]
Hit(c, k) == k \in c.held

\* A cache with keys of K.
CacheType(K) == [held : SUBSET K, order : Seq(K)]

\* list.remove takes the first listing of a key.
Evict(c, k) == [held |-> c.held \ {k}, order |-> RemoveFirst(c.order, k)]

\* get of a live key: it becomes the one used last.
Touch(c, k) == [c EXCEPT !.order = Append(RemoveFirst(@, k), k)]

\* set evicts the first listed key until there is room: what n evictions
\* leave, and how many it needs.
Freed(c, n) ==
    [held  |-> c.held \ {c.order[i] : i \in 1 .. n},
     order |-> SubSeq(c.order, n + 1, Len(c.order))]
HasRoom(c) == Cardinality(c.held) < MaxSize
Evictions(c) ==
    CHOOSE n \in 0 .. Len(c.order) :
        /\ HasRoom(Freed(c, n))
        /\ \A m \in 0 .. n - 1 : ~HasRoom(Freed(c, m))

\* The key is listed behind the others, also if it is listed already.
Put(c, k) ==
    LET r == Freed(c, Evictions(c))
    IN  [held |-> r.held \union {k}, order |-> Append(r.order, k)]

(***************************************************************************)
(* The list has every key of the dictionary once and no other, so what set *)
(* evicts is the key not used for longest, and there is always one to      *)
(* evict; the dictionary is never over its size.  (cache.py:51-67 takes    *)
(* this for granted and does not see to it: set of a key that is held      *)
(* lists it twice.)                                                        *)
(***************************************************************************)
Sound(c) ==
    /\ \A i, j \in DOMAIN c.order : c.order[i] = c.order[j] => i = j
    /\ {c.order[i] : i \in DOMAIN c.order} = c.held
    /\ Cardinality(c.held) <= MaxSize
=============================================================================
