------------------------- MODULE BoundedCacheProofs -------------------------
(***************************************************************************)
(* What the operations of BoundedCache.tla do to a sound cache of any      *)
(* size, and the facts about sequences without duplicates that this and    *)
(* RequestsProofs.tla rest on.                                             *)
(***************************************************************************)
EXTENDS BoundedCache, SequenceTheorems, FiniteSetTheorems,
        WellFoundedInduction, TLAPS

Distinct(s) == \A i, j \in 1 .. Len(s) : s[i] = s[j] => i = j
Listed(s) == {s[i] : i \in 1 .. Len(s)}

(* What follows the first n elements. *)
LEMMA SuffixAfter ==
    ASSUME NEW S, NEW s \in Seq(S), NEW n \in 0 .. Len(s)
    PROVE  /\ SubSeq(s, n + 1, Len(s)) \in Seq(S)
           /\ Len(SubSeq(s, n + 1, Len(s))) = Len(s) - n
           /\ \A i \in 1 .. Len(s) - n :
                  SubSeq(s, n + 1, Len(s))[i] = s[n + i]
  <1> DEFINE r == SubSeq(s, n + 1, Len(s))
  <1>1. /\ Len(s) \in Nat /\ n + 1 \in Int /\ Len(s) \in Int /\ n \in Nat
        /\ \A i \in n + 1 .. Len(s) : s[i] \in S
    BY LenProperties, ElementOfSeq
  <1>2. /\ r \in Seq(S)
        /\ Len(r) = IF n + 1 <= Len(s) THEN Len(s) - (n + 1) + 1 ELSE 0
        /\ \A i \in 1 .. Len(s) - (n + 1) + 1 : r[i] = s[(n + 1) + i - 1]
    BY <1>1, SubSeqProperties
  <1> HIDE DEF r
  <1>3. \A i \in 1 .. Len(s) - n :
            r[i] = s[(n + 1) + i - 1] /\ (n + 1) + i - 1 = n + i
    BY <1>1, <1>2
  <1> QED
    BY <1>1, <1>2, <1>3 DEF r

(* list.remove of an element that is listed once closes the gap it leaves. *)
LEMMA RemoveFirstAt ==
    ASSUME NEW S, NEW s \in Seq(S), NEW n \in 1 .. Len(s), Distinct(s)
    PROVE  /\ RemoveFirst(s, s[n]) \in Seq(S)
           /\ Len(RemoveFirst(s, s[n])) = Len(s) - 1
           /\ \A i \in 1 .. Len(s) - 1 :
                  RemoveFirst(s, s[n])[i] = IF i < n THEN s[i] ELSE s[i + 1]
  <1> DEFINE e == s[n]
  <1>1. {i \in 1 .. Len(s) : s[i] = e} = {n}
    BY DEF Distinct
  <1>2. SelectInSeq(s, LAMBDA v : v = e) = n
    BY <1>1 DEF SelectInSeq, Min
  <1>3. RemoveFirst(s, e) = SubSeq(s, 1, n - 1) \o SubSeq(s, n + 1, Len(s))
    BY <1>2 DEF RemoveFirst, RemoveAt
  <1>4. /\ Len(s) \in Nat /\ n \in Int /\ n - 1 \in Int /\ n + 1 \in Int
        /\ \A i \in 1 .. n - 1 : s[i] \in S
        /\ \A i \in n + 1 .. Len(s) : s[i] \in S
    BY LenProperties, ElementOfSeq
  <1> DEFINE l == SubSeq(s, 1, n - 1)
             r == SubSeq(s, n + 1, Len(s))
  <1>5. /\ l \in Seq(S) /\ Len(l) = n - 1
        /\ \A i \in 1 .. n - 1 : l[i] = s[i]
    BY <1>4, SubSeqProperties
  <1>6. /\ r \in Seq(S) /\ Len(r) = Len(s) - n
        /\ \A i \in 1 .. Len(s) - n : r[i] = s[n + i]
    BY <1>4, SuffixAfter
  <1> HIDE DEF l, r
  <1>7. /\ l \o r \in Seq(S)
        /\ Len(l \o r) = Len(s) - 1
        /\ \A i \in 1 .. Len(s) - 1 : (l \o r)[i] = IF i <= n - 1 THEN l[i] ELSE r[i - (n - 1)]
    <2>1. /\ l \o r \in Seq(S)
          /\ Len(l \o r) = Len(l) + Len(r)
          /\ \A i \in 1 .. Len(l) + Len(r) :
                (l \o r)[i] = IF i <= Len(l) THEN l[i] ELSE r[i - Len(l)]
      BY <1>5, <1>6, ConcatProperties
    <2>2. Len(l) + Len(r) = Len(s) - 1
      BY <1>4, <1>5, <1>6
    <2> QED
      BY <1>5, <2>1, <2>2
  <1>8. ASSUME NEW i \in 1 .. Len(s) - 1
        PROVE  (l \o r)[i] = IF i < n THEN s[i] ELSE s[i + 1]
    <2>1. CASE i < n
      BY <1>4, <1>5, <1>7, <2>1
    <2>2. CASE ~(i < n)
      <3>1. i - (n - 1) \in 1 .. Len(s) - n /\ n + (i - (n - 1)) = i + 1
        BY <1>4, <2>2
      <3>2. r[i - (n - 1)] = s[n + (i - (n - 1))]
        BY <1>6, <3>1
      <3> QED
        BY <1>4, <1>7, <2>2, <3>1, <3>2
    <2> QED
      BY <2>1, <2>2
  <1> QED
    BY <1>3, <1>7, <1>8 DEF l, r

(* It leaves the others, once each; *)
LEMMA RemoveFirstKeeps ==
    ASSUME NEW S, NEW s \in Seq(S), NEW e, Distinct(s)
    PROVE  /\ RemoveFirst(s, e) \in Seq(S)
           /\ Distinct(RemoveFirst(s, e))
           /\ Listed(RemoveFirst(s, e)) = Listed(s) \ {e}
  <1> DEFINE t == RemoveFirst(s, e)
  <1>0. Len(s) \in Nat
    BY LenProperties
  <1>1. CASE e \notin Listed(s)
    <2>1. t = s
      BY <1>1 DEF RemoveFirst, Listed
    <2> QED
      BY <1>1, <2>1
  <1>2. CASE e \in Listed(s)
    <2>1. PICK n \in 1 .. Len(s) : s[n] = e
      BY <1>2 DEF Listed
    <2>2. /\ t \in Seq(S) /\ Len(t) = Len(s) - 1
          /\ \A i \in 1 .. Len(s) - 1 : t[i] = IF i < n THEN s[i] ELSE s[i + 1]
      BY <2>1, RemoveFirstAt
    <2> HIDE DEF t
    <2>3. ASSUME NEW i \in 1 .. Len(t), NEW j \in 1 .. Len(t), t[i] = t[j]
          PROVE  i = j
      BY <1>0, <2>2, <2>3 DEF Distinct
    <2>4. ASSUME NEW x \in Listed(t) PROVE x \in Listed(s) \ {e}
      <3>1. PICK i \in 1 .. Len(t) : t[i] = x
        BY DEF Listed
      <3>2. CASE i < n
        BY <1>0, <2>1, <2>2, <3>1, <3>2 DEF Listed, Distinct
      <3>3. CASE i >= n
        <4>1. i + 1 \in 1 .. Len(s) /\ i + 1 # n /\ x = s[i + 1]
          BY <1>0, <2>2, <3>1, <3>3
        <4> QED
          BY <2>1, <4>1 DEF Listed, Distinct
      <3> QED
        BY <1>0, <2>2, <3>2, <3>3
    <2>5. ASSUME NEW x \in Listed(s), x # e PROVE x \in Listed(t)
      <3>1. PICK i \in 1 .. Len(s) : s[i] = x
        BY DEF Listed
      <3>2. CASE i < n
        BY <1>0, <2>2, <3>1, <3>2 DEF Listed
      <3>3. CASE i > n
        <4>1. i - 1 \in 1 .. Len(t) /\ ~(i - 1 < n) /\ (i - 1) + 1 = i
          BY <1>0, <2>2, <3>3
        <4>2. t[i - 1] = x
          BY <2>2, <3>1, <4>1
        <4> QED
          BY <4>1, <4>2 DEF Listed
      <3> QED
        BY <2>1, <2>5, <3>1, <3>2, <3>3
    <2>6. Distinct(t)
      BY <2>3 DEF Distinct
    <2>7. Listed(t) = Listed(s) \ {e}
      BY <2>4, <2>5
    <2> QED
      BY <2>2, <2>6, <2>7 DEF t
  <1> QED
    BY <1>1, <1>2

(* and whoever was first stays first. *)
LEMMA RemoveFirstHead ==
    ASSUME NEW S, NEW s \in Seq(S), NEW e, Distinct(s),
           s # <<>>, s[1] # e
    PROVE  RemoveFirst(s, e) # <<>> /\ RemoveFirst(s, e)[1] = s[1]
  <1>0. Len(s) \in Nat \ {0}
    BY EmptySeq
  <1>1. CASE e \notin Listed(s)
    BY <1>1 DEF RemoveFirst, Listed
  <1>2. CASE e \in Listed(s)
    <2>1. PICK n \in 1 .. Len(s) : s[n] = e
      BY <1>2 DEF Listed
    <2>2. 1 < n /\ 1 \in 1 .. Len(s) - 1
      BY <1>0, <2>1
    <2>3. /\ RemoveFirst(s, e) \in Seq(S)
          /\ Len(RemoveFirst(s, e)) = Len(s) - 1
          /\ RemoveFirst(s, e)[1] = s[1]
      BY <2>1, <2>2, RemoveFirstAt
    <2> QED
      BY <1>0, <2>2, <2>3
  <1> QED
    BY <1>1, <1>2

(* An element that is not listed yet may be listed last. *)
LEMMA AppendKeeps ==
    ASSUME NEW S, NEW s \in Seq(S), NEW e \in S, Distinct(s), e \notin Listed(s)
    PROVE  /\ Append(s, e) \in Seq(S)
           /\ Distinct(Append(s, e))
           /\ Listed(Append(s, e)) = Listed(s) \union {e}
  <1> DEFINE t == Append(s, e)
  <1>1. /\ Len(s) \in Nat /\ t \in Seq(S) /\ Len(t) = Len(s) + 1
        /\ \A i \in 1 .. Len(s) : t[i] = s[i]
        /\ t[Len(s) + 1] = e
    BY LenProperties, AppendProperties
  <1> HIDE DEF t
  <1>2. Distinct(t)
    BY <1>1 DEF Distinct, Listed
  <1>3. Listed(t) = Listed(s) \union {e}
    BY <1>1 DEF Listed
  <1> QED
    BY <1>1, <1>2, <1>3 DEF t

(* Leaving out the first keeps the others. *)
LEMMA TailKeeps ==
    ASSUME NEW S, NEW s \in Seq(S), s # <<>>, Distinct(s)
    PROVE  /\ Tail(s) \in Seq(S)
           /\ Distinct(Tail(s))
           /\ Listed(Tail(s)) = Listed(s) \ {Head(s)}
           /\ Head(s) = s[1] /\ Head(s) \in Listed(s)
  <1> DEFINE t == Tail(s)
  <1>1. /\ Len(s) \in Nat \ {0} /\ t \in Seq(S) /\ Len(t) = Len(s) - 1
        /\ \A i \in 1 .. Len(t) : t[i] = s[i + 1]
        /\ Head(s) = s[1]
    BY EmptySeq, HeadTailProperties, LenProperties
  <1> HIDE DEF t
  <1>2. Distinct(t)
    BY <1>1 DEF Distinct
  <1>3. ASSUME NEW x \in Listed(t) PROVE x \in Listed(s) \ {s[1]}
    <2>1. PICK i \in 1 .. Len(t) : t[i] = x
      BY DEF Listed
    <2>2. i + 1 \in 1 .. Len(s) /\ i + 1 # 1 /\ x = s[i + 1] /\ 1 \in 1 .. Len(s)
      BY <1>1, <2>1
    <2> QED
      BY <2>2 DEF Listed, Distinct
  <1>4. ASSUME NEW x \in Listed(s), x # s[1] PROVE x \in Listed(t)
    <2>1. PICK i \in 1 .. Len(s) : s[i] = x
      BY DEF Listed
    <2>2. i - 1 \in 1 .. Len(t) /\ (i - 1) + 1 = i
      BY <1>1, <1>4, <2>1
    <2>3. t[i - 1] = x
      BY <1>1, <2>1, <2>2
    <2> QED
      BY <2>2, <2>3 DEF Listed
  <1>5. Listed(t) = Listed(s) \ {s[1]} /\ s[1] \in Listed(s)
    <2>1. s[1] \in Listed(s)
      BY <1>1 DEF Listed
    <2>2. Listed(t) = Listed(s) \ {s[1]}
      BY <1>3, <1>4
    <2> QED
      BY <2>1, <2>2
  <1> QED
    BY <1>1, <1>2, <1>5 DEF t
-----------------------------------------------------------------------------
(* A sound cache of keys of K, with its order as a set. *)
SoundOver(c, K) ==
    /\ c \in CacheType(K)
    /\ Distinct(c.order)
    /\ Listed(c.order) = c.held
    /\ IsFiniteSet(c.held)
    /\ Cardinality(c.held) <= MaxSize

LEMMA ListedFinite ==
    ASSUME NEW S, NEW s \in Seq(S)
    PROVE  IsFiniteSet(Listed(s))
  <1>1. Len(s) \in Nat /\ s \in [1 .. Len(s) -> S]
    BY LenProperties
  <1>2. s \in [1 .. Len(s) -> Listed(s)]
    BY <1>1 DEF Listed
  <1>3. s \in Surjection(1 .. Len(s), Listed(s))
    BY <1>2 DEF Surjection, Listed
  <1>4. IsFiniteSet(1 .. Len(s))
    BY <1>1, FS_Interval
  <1> QED
    BY <1>3, <1>4, FS_Surjection

LEMMA SoundIsSoundOver ==
    ASSUME NEW K, NEW c \in CacheType(K)
    PROVE  Sound(c) <=> SoundOver(c, K)
  <1>1. c.order \in Seq(K) /\ DOMAIN c.order = 1 .. Len(c.order)
    BY LenProperties DEF CacheType
  <1>2. IsFiniteSet(Listed(c.order))
    BY <1>1, ListedFinite
  <1>3. Distinct(c.order) <=> \A i, j \in DOMAIN c.order : c.order[i] = c.order[j] => i = j
    BY <1>1 DEF Distinct
  <1>4. Listed(c.order) = {c.order[i] : i \in DOMAIN c.order}
    BY <1>1 DEF Listed
  <1> QED
    BY <1>2, <1>3, <1>4 DEF Sound, SoundOver

THEOREM EmptySound ==
    ASSUME NEW K
    PROVE  SoundOver(Empty, K)
  <1>1. /\ Empty.held = {} /\ Empty.order = <<>>
        /\ <<>> \in Seq(K) /\ Len(<<>>) = 0
        /\ Empty = [held |-> {}, order |-> <<>>]
    BY EmptySeq DEF Empty
  <1>2. Empty \in CacheType(K)
    BY <1>1 DEF CacheType
  <1>3. Distinct(Empty.order) /\ Listed(Empty.order) = {}
    BY <1>1 DEF Distinct, Listed
  <1> QED
    BY <1>1, <1>2, <1>3, FS_EmptySet, CacheAssumption DEF SoundOver

(* The end of an entry's time leaves a sound cache with the other entries. *)
THEOREM EvictSound ==
    ASSUME NEW K, NEW c, SoundOver(c, K), NEW k
    PROVE  SoundOver(Evict(c, k), K) /\ Evict(c, k).held = c.held \ {k}
  <1> DEFINE d == Evict(c, k)
  <1>1. c.held \in SUBSET K /\ c.order \in Seq(K)
    BY DEF SoundOver, CacheType
  <1>2. d.held = c.held \ {k} /\ d.order = RemoveFirst(c.order, k)
    BY DEF Evict
  <1>3. /\ d.order \in Seq(K) /\ Distinct(d.order)
        /\ Listed(d.order) = d.held
    BY <1>1, <1>2, RemoveFirstKeeps DEF SoundOver
  <1>4. IsFiniteSet(d.held) /\ Cardinality(d.held) <= Cardinality(c.held)
    BY <1>2, FS_Subset DEF SoundOver
  <1>5. /\ Cardinality(d.held) \in Nat /\ Cardinality(c.held) \in Nat
        /\ MaxSize \in Nat
    BY <1>4, FS_CardinalityType, CacheAssumption DEF SoundOver
  <1>6. d \in CacheType(K)
    BY <1>1, <1>2, <1>3 DEF CacheType, Evict
  <1> QED
    BY <1>2, <1>3, <1>4, <1>5, <1>6 DEF SoundOver

(* A hit changes the order only. *)
THEOREM TouchSound ==
    ASSUME NEW K, NEW c, SoundOver(c, K), NEW k \in c.held
    PROVE  SoundOver(Touch(c, k), K) /\ Touch(c, k).held = c.held
  <1> DEFINE r == RemoveFirst(c.order, k)
             d == Touch(c, k)
  <1>1. c \in [held : SUBSET K, order : Seq(K)] /\ k \in K
    BY DEF SoundOver, CacheType
  <1>2. d.held = c.held /\ d.order = Append(r, k) /\ d = [held |-> d.held, order |-> d.order]
    <2>1. d = [c EXCEPT !.order = Append(r, k)]
      BY DEF Touch
    <2> HIDE DEF d, r
    <2> QED
      BY <1>1, <2>1
  <1>3. /\ r \in Seq(K) /\ Distinct(r)
        /\ Listed(r) = c.held \ {k}
    BY <1>1, RemoveFirstKeeps DEF SoundOver
  <1>4. /\ d.order \in Seq(K) /\ Distinct(d.order)
        /\ Listed(d.order) = (c.held \ {k}) \union {k}
    BY <1>1, <1>2, <1>3, AppendKeeps
  <1>5. d \in CacheType(K)
    BY <1>1, <1>2, <1>4 DEF CacheType
  <1> QED
    BY <1>2, <1>4, <1>5 DEF SoundOver

(* Evicting the first n entries of a sound cache. *)
LEMMA FreedSound ==
    ASSUME NEW K, NEW c, SoundOver(c, K), NEW n \in 0 .. Len(c.order)
    PROVE  SoundOver(Freed(c, n), K) /\ Freed(c, n).held \subseteq c.held
  <1> DEFINE d == Freed(c, n)
             s == c.order
  <1>1. /\ c.held \in SUBSET K /\ s \in Seq(K) /\ Len(s) \in Nat
        /\ n \in Nat /\ n + 1 \in Int /\ Len(s) \in Int
    BY LenProperties DEF SoundOver, CacheType
  <1>2. /\ d.held = c.held \ {s[i] : i \in 1 .. n}
        /\ d.order = SubSeq(s, n + 1, Len(s))
        /\ d = [held |-> d.held, order |-> d.order]
    BY DEF Freed
  <1>3. d.order = SubSeq(s, n + 1, Len(s))
    BY <1>2
  <1> HIDE DEF d, s
  <1>4. /\ d.order \in Seq(K)
        /\ Len(d.order) = Len(s) - n
        /\ \A i \in 1 .. Len(s) - n : d.order[i] = s[n + i]
    <2>1. n \in 0 .. Len(s)
      BY DEF s
    <2> QED
      BY <1>1, <1>3, <2>1, SuffixAfter
  <1> USE DEF s
  <1>5. Distinct(d.order)
    BY <1>1, <1>4 DEF Distinct, SoundOver
  <1>6. ASSUME NEW x \in Listed(d.order) PROVE x \in d.held
    <2>1. PICK i \in 1 .. Len(s) - n : x = s[n + i]
      BY <1>4 DEF Listed
    <2>2. n + i \in 1 .. Len(s) /\ \A j \in 1 .. n : j # n + i /\ j \in 1 .. Len(s)
      BY <1>1, <2>1
    <2>3. x \in c.held
      BY <2>1, <2>2 DEF Listed, SoundOver
    <2>4. \A j \in 1 .. n : s[j] # x
      BY <2>1, <2>2 DEF Distinct, SoundOver
    <2> QED
      BY <1>2, <2>3, <2>4
  <1>7. ASSUME NEW x \in d.held PROVE x \in Listed(d.order)
    <2>1. PICK i \in 1 .. Len(s) : x = s[i]
      BY <1>2 DEF Listed, SoundOver
    <2>2. i \notin 1 .. n
      BY <1>2, <2>1
    <2>3. i - n \in 1 .. Len(s) - n /\ n + (i - n) = i
      BY <1>1, <2>2
    <2>4. d.order[i - n] = x
      BY <1>4, <2>1, <2>3
    <2> QED
      BY <1>4, <2>3, <2>4 DEF Listed
  <1>8. /\ IsFiniteSet(d.held) /\ Cardinality(d.held) <= Cardinality(c.held)
        /\ d.held \subseteq c.held
    BY <1>2, FS_Subset DEF SoundOver
  <1>9. /\ Cardinality(d.held) \in Nat /\ Cardinality(c.held) \in Nat
        /\ MaxSize \in Nat
    BY <1>8, FS_CardinalityType, CacheAssumption DEF SoundOver
  <1>10. d \in CacheType(K)
    BY <1>1, <1>2, <1>4, <1>8 DEF CacheType
  <1>11. Listed(d.order) = d.held
    BY <1>6, <1>7
  <1> QED
    BY <1>5, <1>8, <1>9, <1>10, <1>11 DEF SoundOver, d

(* There is always enough to evict: the whole cache. *)
LEMMA EvictionsEnough ==
    ASSUME NEW K, NEW c, SoundOver(c, K)
    PROVE  /\ Evictions(c) \in 0 .. Len(c.order)
           /\ HasRoom(Freed(c, Evictions(c)))
           /\ \A m \in 0 .. Evictions(c) - 1 : ~HasRoom(Freed(c, m))
  <1> DEFINE T == {n \in 0 .. Len(c.order) : HasRoom(Freed(c, n))}
  <1>1. c.order \in Seq(K) /\ Len(c.order) \in Nat
    BY LenProperties DEF SoundOver, CacheType
  <1>2. Freed(c, Len(c.order)).held = {}
    BY DEF Freed, SoundOver, Listed
  <1>3. Len(c.order) \in T
    <2>1. Cardinality(Freed(c, Len(c.order)).held) < MaxSize
      BY <1>2, FS_EmptySet, CacheAssumption
    <2>2. Len(c.order) \in 0 .. Len(c.order)
      BY <1>1
    <2> QED
      BY <2>1, <2>2 DEF HasRoom
  <1>4. PICK n \in T : \A m \in T : ~(<<m, n>> \in OpToRel(<, Nat))
    <2>1. T \subseteq Nat /\ T # {}
      BY <1>1, <1>3
    <2> QED
      BY <2>1, WFMin, NatLessThanWellFounded
  <1>5. \A m \in 0 .. n - 1 : ~HasRoom(Freed(c, m))
    <2> SUFFICES ASSUME NEW m \in 0 .. n - 1, HasRoom(Freed(c, m)) PROVE FALSE
      OBVIOUS
    <2>1. m \in T /\ m < n /\ m \in Nat /\ n \in Nat
      BY <1>1
    <2> QED
      BY <1>4, <2>1 DEF OpToRel
  <1>6. \E x \in 0 .. Len(c.order) :
            /\ HasRoom(Freed(c, x))
            /\ \A m \in 0 .. x - 1 : ~HasRoom(Freed(c, m))
    BY <1>5
  <1> HIDE DEF T
  <1> QED
    BY <1>6 DEF Evictions

(* Setting a key that is not held keeps a cache sound, and evicts no more *)
(* than the size demands. *)
THEOREM PutSound ==
    ASSUME NEW K, NEW c, SoundOver(c, K), NEW k \in K, k \notin c.held
    PROVE  /\ SoundOver(Put(c, k), K)
           /\ Put(c, k).held \subseteq c.held \union {k}
           /\ k \in Put(c, k).held
  <1> DEFINE r == Freed(c, Evictions(c))
             d == Put(c, k)
  <1>1. SoundOver(r, K) /\ r.held \subseteq c.held /\ HasRoom(r)
    BY EvictionsEnough, FreedSound
  <1>2. /\ d.held = r.held \union {k} /\ d.order = Append(r.order, k)
        /\ d = [held |-> d.held, order |-> d.order]
    BY DEF Put
  <1> HIDE DEF r, d
  <1>3. /\ d.order \in Seq(K) /\ Distinct(d.order)
        /\ Listed(d.order) = d.held
    BY <1>1, <1>2, AppendKeeps DEF SoundOver, CacheType
  <1>4. IsFiniteSet(d.held) /\ Cardinality(d.held) = Cardinality(r.held) + 1
    BY <1>1, <1>2, FS_AddElement DEF SoundOver
  <1>5. Cardinality(d.held) <= MaxSize
    <2>1. Cardinality(r.held) \in Nat /\ MaxSize \in Nat
      BY <1>1, FS_CardinalityType, CacheAssumption DEF SoundOver
    <2> QED
      BY <1>1, <1>4, <2>1 DEF HasRoom
  <1>6. d \in CacheType(K)
    BY <1>1, <1>2, <1>3 DEF CacheType, SoundOver
  <1> QED
    BY <1>1, <1>2, <1>3, <1>4, <1>5, <1>6 DEF SoundOver, d

(* In a full sound cache one eviction makes room, and that of the first key is *)
(* the one that set chooses; with room left it evicts none. *)
LEMMA EvictionsAre ==
    ASSUME NEW K, NEW c, SoundOver(c, K)
    PROVE  /\ HasRoom(c) => Evictions(c) = 0
           /\ ~HasRoom(c) => Evictions(c) = 1 /\ c.order # <<>>
  <1>1. /\ c.order \in Seq(K) /\ Len(c.order) \in Nat
        /\ Cardinality(c.held) \in Nat /\ MaxSize \in Nat \ {0}
    BY LenProperties, FS_CardinalityType, CacheAssumption DEF SoundOver, CacheType
  <1>2. HasRoom(Freed(c, 0)) <=> HasRoom(c)
    <2>1. Freed(c, 0).held = c.held
      BY DEF Freed
    <2> QED
      BY <2>1 DEF HasRoom
  <1>3. ASSUME ~HasRoom(c)
        PROVE  c.order # <<>> /\ 1 \in 0 .. Len(c.order) /\ HasRoom(Freed(c, 1))
    <2>1. Cardinality(c.held) = MaxSize
      BY <1>1, <1>3 DEF HasRoom, SoundOver
    <2>2. c.held # {}
      BY <1>1, <2>1, FS_EmptySet
    <2>3. Len(c.order) # 0
      BY <2>2 DEF SoundOver, Listed
    <2>4. c.order[1] \in c.held
      BY <1>1, <2>3 DEF SoundOver, Listed
    <2>5. Freed(c, 1).held = c.held \ {c.order[1]}
      BY DEF Freed
    <2>6. Cardinality(Freed(c, 1).held) = Cardinality(c.held) - 1
      BY <2>4, <2>5, FS_RemoveElement DEF SoundOver
    <2> QED
      BY <1>1, <2>1, <2>3, <2>6 DEF HasRoom
  <1>4. /\ Evictions(c) \in Nat /\ HasRoom(Freed(c, Evictions(c)))
        /\ \A m \in 0 .. Evictions(c) - 1 : ~HasRoom(Freed(c, m))
    BY <1>1, EvictionsEnough
  <1>5. HasRoom(c) => Evictions(c) = 0
    BY <1>2, <1>4
  <1>6. ~HasRoom(c) => Evictions(c) = 1
    BY <1>2, <1>3, <1>4
  <1> QED
    BY <1>3, <1>5, <1>6

(* What set of a new key costs: nothing while there is room, and then exactly *)
(* the key that was listed first, whatever was touched, set and evicted before. *)
THEOREM PutEvictsOldest ==
    ASSUME NEW K, NEW c, SoundOver(c, K), NEW k \in K, k \notin c.held
    PROVE  Put(c, k).held =
             {k} \union IF HasRoom(c) THEN c.held ELSE c.held \ {Head(c.order)}
  <1>1. /\ c.order \in Seq(K)
        /\ Put(c, k).held = (c.held \ {c.order[i] : i \in 1 .. Evictions(c)}) \union {k}
    BY DEF SoundOver, CacheType, Put, Freed
  <1>2. CASE HasRoom(c)
    BY <1>1, <1>2, EvictionsAre
  <1>3. CASE ~HasRoom(c)
    <2>1. Evictions(c) = 1 /\ Head(c.order) = c.order[1]
      BY <1>1, <1>3, EvictionsAre, HeadTailProperties
    <2>2. {c.order[i] : i \in 1 .. 1} = {c.order[1]}
      OBVIOUS
    <2> QED
      BY <1>1, <1>3, <2>1, <2>2
  <1> QED
    BY <1>2, <1>3
=============================================================================
