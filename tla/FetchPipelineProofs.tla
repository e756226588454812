------------------------ MODULE FetchPipelineProofs ------------------------
(***************************************************************************)
(* What a completed chunk owes to the answers of Theta Terminal, for every *)
(* plan, schedule and number of runs.  The argument: a cache entry is      *)
(* always the last answer of the run for its own key (CacheInv), so what   *)
(* the chunk in hand was given is so too (HandInv), and the entry that is  *)
(* stored from it is right; nothing changes an entry afterwards.  As the   *)
(* chunks of an expiration share no day, an entry has rows of its own, and *)
(* storing it is a step of ChunkLedger.tla.                                *)
(***************************************************************************)
EXTENDS FetchPipeline, TLAPS

\* A cache keeps its type.
LEMMA PutType ==
    ASSUME NEW K, NEW S, NEW f, IsCache(f, K, S), NEW key \in K, NEW value \in S
    PROVE  IsCache(Put(f, key, value), K, S)
<1>1. DOMAIN Put(f, key, value) = DOMAIN f \union {key}
  BY DEF Put
<1>2. Put(f, key, value) \in [DOMAIN f \union {key} -> S]
  BY DEF Put, IsCache
<1> QED  BY <1>1, <1>2 DEF IsCache

LEMMA NoneType ==
    /\ IsCache(NoDays, Session, SUBSET Contract)
    /\ IsCache([w \in {} |-> FALSE], Window, BOOLEAN)
    /\ DOMAIN NoDays = {} /\ DOMAIN [w \in {} |-> FALSE] = {}
<1>1. NoDays \in [{} -> SUBSET Contract] /\ DOMAIN NoDays = {}
  BY DEF NoDays
<1>2. [w \in {} |-> FALSE] \in [{} -> BOOLEAN] /\ DOMAIN [w \in {} |-> FALSE] = {}
  OBVIOUS
<1> QED  BY <1>1, <1>2 DEF IsCache

LEMMA NothingGotType == NothingGot \in Got
BY DEF NothingGot, Got

LEMMA NotedType ==
    ASSUME NEW K, NEW S \in SUBSET K, NEW key \in K, NEW ok \in BOOLEAN
    PROVE  Noted(S, key, ok) \in SUBSET K
BY DEF Noted

\* The chunk in hand is one of the plan.
LEMMA ChunkInPlan ==
    ASSUME TypeOK
    PROVE  /\ TheChunk \in Chunk /\ TheWindow \in Window
           /\ TheChunk \in [exp : Exp, from : Nat, to : Nat]
<1>1. pos \in DOMAIN Plan
  BY PipelineAssumption DEF TypeOK
<1>2. Plan[pos] \in Chunk
  BY <1>1 DEF Chunk
<1>3. Plan[pos] \in [exp : Exp, from : Nat, to : Nat]
  <2> DEFINE Candidate == [exp : Exp, from : Nat, to : Nat]
  <2>1. Plan \in Seq(Candidate)
    BY PipelineAssumption
  <2> HIDE DEF Candidate
  <2>2. Plan[pos] \in Candidate
    BY <1>1, <2>1
  <2> QED  BY <2>2 DEF Candidate
<1> QED  BY <1>2, <1>3 DEF TheChunk, TheWindow, WindowOf, Window

\* What is claimed of the entries looks at the entries and the kind of frame only.
LEMMA EntriesStay ==
    ASSUME entries' = entries, frame' = frame,
           EntryInv, CleanRowsAreTheBackedOnes, CompletedChunkAccountsForRows
    PROVE  (EntryInv /\ CleanRowsAreTheBackedOnes /\ CompletedChunkAccountsForRows)'
<1>1. EntryInv'
  BY DEF EntryInv
<1>2. CleanRowsAreTheBackedOnes'
  <2>1. \A e, row : Backed(e, row)' <=> Backed(e, row)
    BY DEF Backed, ListedThen
  <2> QED  BY <2>1 DEF CleanRowsAreTheBackedOnes
<1>3. CompletedChunkAccountsForRows'
  BY Zenon DEF CompletedChunkAccountsForRows, ListedThen
<1> QED  BY <1>1, <1>2, <1>3
-----------------------------------------------------------------------------
(* Entering and leaving *)

LEMMA InitStep == Init => IInv
<1> SUFFICES ASSUME Init PROVE IInv
  OBVIOUS
<1>1. Len(Plan) \in Nat /\ Len(Plan) >= 1
  BY PipelineAssumption
<1>2. runs \in 0 .. MaxRuns /\ pos \in 1 .. Len(Plan)
  BY <1>1, PipelineAssumption DEF Init
<1>3. TypeOK
  BY <1>2, NoneType, NothingGotType DEF Init, TypeOK, Answer
<1>4. CacheInv /\ HandInv
  BY NoneType DEF Init, CacheInv, HandInv
<1>5. EntryInv /\ CleanRowsAreTheBackedOnes /\ CompletedChunkAccountsForRows
  BY DEF Init, EntryInv, CleanRowsAreTheBackedOnes, CompletedChunkAccountsForRows
<1> QED  BY <1>3, <1>4, <1>5 DEF IInv

LEMMA StartRunStep == ASSUME IInv, StartRun PROVE IInv'
<1>1. TypeOK'
  <2>1. runs' \in 0 .. MaxRuns
    BY PipelineAssumption DEF IInv, TypeOK, StartRun
  <2> QED  BY <2>1, NoneType, NothingGotType DEF IInv, TypeOK, StartRun, hand
<1>2. CacheInv' /\ HandInv'
  BY NoneType DEF IInv, StartRun, CacheInv, HandInv, hand
<1> QED  BY <1>1, <1>2, EntriesStay DEF IInv, StartRun

\* The next chunk finds the caches and nothing else.
LEMMA LeaveStep ==
    ASSUME IInv, Leave
    PROVE  /\ entries' = entries => TypeOK'
           /\ entries' \in SUBSET Entry => TypeOK'
           /\ CacheInv' /\ HandInv'
<1>1. pos' \in 1 .. Len(Plan) /\ pc' \in {"idle", "rates"}
  BY PipelineAssumption DEF IInv, TypeOK, Leave
<1>2. entries' \in SUBSET Entry => TypeOK'
  BY <1>1, NoneType DEF IInv, TypeOK, Leave, caches, Answer
<1>3. CacheInv' /\ HandInv'
  BY <1>1, NoneType DEF IInv, Leave, caches, CacheInv, HandInv
<1> QED  BY <1>2, <1>3 DEF IInv, TypeOK

LEMMA AbortStep == ASSUME IInv, Abort PROVE IInv'
<1>1. 1 \in 1 .. Len(Plan)
  BY PipelineAssumption
<1>2. TypeOK'
  BY <1>1, NoneType DEF IInv, TypeOK, Abort, caches, Answer
<1>3. CacheInv' /\ HandInv'
  BY NoneType DEF IInv, Abort, caches, CacheInv, HandInv
<1> QED  BY <1>2, <1>3, EntriesStay DEF IInv, Abort

\* FetchError, NoData, NoSurvivors and StoreFails leave without an entry.
LEMMA LeaveEmptyHandedStep ==
    ASSUME IInv, Leave, UNCHANGED entries
    PROVE  IInv'
BY LeaveStep, EntriesStay DEF IInv, Leave
-----------------------------------------------------------------------------
(* Answers *)

LEMMA GetRatesStep == ASSUME IInv, GetRates PROVE IInv'
<1>1. TheWindow \in Window /\ TheWindow' = TheWindow /\ TheChunk' = TheChunk
  BY ChunkInPlan DEF IInv, GetRates, TheWindow, TheChunk
<1>2. CASE /\ TheWindow \in DOMAIN rates
           /\ rate' = rates[TheWindow]
           /\ UNCHANGED <<rates, got>>
  <2>1. rate' \in BOOLEAN
    BY <1>2 DEF IInv, TypeOK, IsCache
  <2>2. TypeOK'
    BY <1>2, <2>1 DEF IInv, TypeOK, GetRates
  <2>3. rate' <=> TheWindow \in got.rates
    BY <1>2 DEF IInv, CacheInv
  <2>4. CacheInv' /\ HandInv'
    BY <1>1, <1>2, <2>3 DEF IInv, CacheInv, HandInv, GetRates
  <2> QED  BY <2>2, <2>4, EntriesStay DEF IInv, GetRates
<1>3. CASE /\ rate' \in BOOLEAN
           /\ rates' = Put(rates, TheWindow, rate')
           /\ got' = [got EXCEPT !.rates = Noted(@, TheWindow, rate')]
  <2>1. IsCache(rates', Window, BOOLEAN)
    BY <1>1, <1>3, PutType DEF IInv, TypeOK
  <2>2. /\ got'.rates = Noted(got.rates, TheWindow, rate')
        /\ got'.bars = got.bars /\ got'.oi = got.oi /\ got'.lists = got.lists
        /\ got' \in Got
    <3>1. Noted(got.rates, TheWindow, rate') \in SUBSET Window
      BY <1>1, <1>3, NotedType DEF IInv, TypeOK, Got
    <3> QED  BY <1>3, <3>1 DEF IInv, TypeOK, Got
  <2>3. TypeOK'
    BY <1>3, <2>1, <2>2 DEF IInv, TypeOK, GetRates
  <2>4. CacheInv'
    <3>1. \A w \in DOMAIN rates' : rates'[w] <=> w \in got'.rates
      <4>1. /\ DOMAIN rates' = DOMAIN rates \union {TheWindow}
            /\ rates'[TheWindow] = rate'
            /\ \A w \in DOMAIN rates : w # TheWindow => rates'[w] = rates[w]
        BY <1>3 DEF Put
      <4>2. rate' <=> TheWindow \in got'.rates
        BY <1>3, <2>2 DEF Noted
      <4>3. \A w : w # TheWindow => (w \in got'.rates <=> w \in got.rates)
        BY <2>2 DEF Noted
      <4>4. \A w \in DOMAIN rates : rates[w] <=> w \in got.rates
        BY DEF IInv, CacheInv
      <4>5. ASSUME NEW w \in DOMAIN rates'
            PROVE  rates'[w] <=> w \in got'.rates
        <5>1. CASE w = TheWindow
          BY <4>1, <4>2, <5>1
        <5>2. CASE w # TheWindow
          BY <4>1, <4>3, <4>4, <4>5, <5>2, Zenon
        <5> QED  BY <5>1, <5>2
      <4> QED  BY <4>5
    <3> QED  BY <2>2, <3>1 DEF IInv, CacheInv, GetRates
  <2>5. HandInv'
    BY <1>1, <1>3, <2>2 DEF IInv, HandInv, GetRates, Noted
  <2> QED  BY <2>3, <2>4, <2>5, EntriesStay DEF IInv, GetRates
<1> QED  BY <1>2, <1>3 DEF GetRates

\* What one more request for bars leaves behind.
LEMMA AskBarsFacts ==
    ASSUME IInv, NEW answer, AskBars(answer)
    PROVE  /\ ohlc' \in SUBSET Window /\ got' \in Got /\ ohlc' \subseteq got'.bars
           /\ got'.rates = got.rates /\ got'.oi = got.oi /\ got'.lists = got.lists
           /\ answer = "rows" <=> TheWindow \in got'.bars
<1>1. TheWindow \in Window
  BY ChunkInPlan DEF IInv
<1>2. CASE TheWindow \in ohlc /\ answer = "rows" /\ UNCHANGED <<ohlc, got>>
  BY <1>2 DEF IInv, TypeOK, CacheInv
<1>3. CASE /\ ohlc' = Noted(ohlc, TheWindow, answer = "rows")
           /\ got' = [got EXCEPT !.bars = Noted(@, TheWindow, answer = "rows")]
  <2>1. /\ got'.bars = Noted(got.bars, TheWindow, answer = "rows")
        /\ got'.rates = got.rates /\ got'.oi = got.oi /\ got'.lists = got.lists
        /\ got' \in Got
    <3>1. Noted(got.bars, TheWindow, answer = "rows") \in SUBSET Window
      BY <1>1 DEF IInv, TypeOK, Got, Noted
    <3> QED  BY <1>3, <3>1 DEF IInv, TypeOK, Got
  <2>2. ohlc' \in SUBSET Window
    BY <1>1, <1>3 DEF IInv, TypeOK, Noted
  <2> QED  BY <1>3, <2>1, <2>2 DEF IInv, CacheInv, Noted
<1> QED  BY <1>2, <1>3 DEF AskBars

LEMMA PrefetchBarsStep == ASSUME IInv, PrefetchBars PROVE IInv'
<1>1. PICK answer \in {"rows", "empty"} : AskBars(answer)
  BY DEF PrefetchBars
<1>2. TypeOK'
  BY <1>1, AskBarsFacts DEF IInv, TypeOK, PrefetchBars, hand
<1>3. CacheInv'
  BY <1>1, AskBarsFacts DEF IInv, CacheInv, PrefetchBars
<1>4. bars = "pending" /\ oi = "pending" /\ DOMAIN listed = {}
  BY NoneType DEF IInv, HandInv, PrefetchBars
<1>5. HandInv'
  BY <1>1, <1>4, AskBarsFacts DEF IInv, HandInv, PrefetchBars, hand, TheWindow, TheChunk
<1> QED  BY <1>2, <1>3, <1>5, EntriesStay DEF IInv, PrefetchBars

LEMMA GreeksReturnStep == ASSUME IInv, GreeksReturn PROVE IInv'
<1>1. TypeOK'
  BY DEF IInv, TypeOK, GreeksReturn, caches, Answer
<1>2. CacheInv' /\ HandInv'
  BY DEF IInv, CacheInv, HandInv, GreeksReturn, caches, TheWindow, TheChunk
<1> QED  BY <1>1, <1>2, EntriesStay DEF IInv, GreeksReturn

LEMMA OiReturnStep == ASSUME IInv, OiReturn PROVE IInv'
<1>1. TheChunk \in Chunk
  BY ChunkInPlan DEF IInv
<1>2. /\ got'.oi = Noted(got.oi, TheChunk, oi' = "rows")
      /\ got'.rates = got.rates /\ got'.bars = got.bars /\ got'.lists = got.lists
      /\ got' \in Got
  <2>1. Noted(got.oi, TheChunk, oi' = "rows") \in SUBSET Chunk
    BY <1>1 DEF IInv, TypeOK, Got, Noted
  <2> QED  BY <2>1 DEF IInv, TypeOK, Got, OiReturn
<1>3. TypeOK'
  BY <1>2 DEF IInv, TypeOK, OiReturn, caches, Answer
<1>4. CacheInv'
  BY <1>2 DEF IInv, CacheInv, OiReturn, caches
<1>5. HandInv'
  BY <1>2 DEF IInv, HandInv, OiReturn, Noted, TheWindow, TheChunk
<1> QED  BY <1>3, <1>4, <1>5, EntriesStay DEF IInv, OiReturn

LEMMA BarsReturnStep == ASSUME IInv, BarsReturn PROVE IInv'
<1>1. AskBars(bars')
  BY DEF BarsReturn
<1>2. TypeOK'
  BY <1>1, AskBarsFacts DEF IInv, TypeOK, BarsReturn, Answer
<1>3. CacheInv'
  BY <1>1, AskBarsFacts DEF IInv, CacheInv, BarsReturn
<1>4. HandInv'
  BY <1>1, AskBarsFacts DEF IInv, HandInv, BarsReturn, TheWindow, TheChunk
<1> QED  BY <1>2, <1>3, <1>4, EntriesStay DEF IInv, BarsReturn

LEMMA BeginListsStep == ASSUME IInv, BeginLists PROVE IInv'
<1>1. TypeOK'
  BY DEF IInv, TypeOK, BeginLists, caches, hand
<1>2. CacheInv' /\ HandInv'
  BY DEF IInv, CacheInv, HandInv, BeginLists, Gathered, caches, hand, TheWindow, TheChunk
<1> QED  BY <1>1, <1>2, EntriesStay DEF IInv, BeginLists
LEMMA ListReturnStep ==
    ASSUME IInv, NEW d \in Session, ListReturn(d)
    PROVE  IInv'
<1>1. /\ d \notin DOMAIN listed /\ pc = "lists" /\ ListAnswer(d) \in SUBSET Contract
      /\ TheChunk' = TheChunk /\ TheWindow' = TheWindow
  <2>1. Listed[d] \subseteq Exp \X Contract
    BY PipelineAssumption
  <2>2. \A x \in Listed[d] : x[2] \in Contract
    BY <2>1
  <2> QED  BY <2>2 DEF ListReturn, TheChunk, TheWindow, ListAnswer
<1> DEFINE value == IF d \in got'.lists THEN ListAnswer(d) ELSE {}
<1>2. /\ got' \in Got /\ got'.rates = got.rates /\ got'.bars = got.bars
      /\ got'.oi = got.oi /\ got'.lists \ {d} = got.lists \ {d}
      /\ listed' = Put(listed, d, value)
      /\ \/ lists' = lists /\ got'.lists = got.lists
         \/ lists' = Put(lists, d, value)
  <2>1. CASE /\ d \in DOMAIN lists
             /\ listed' = Put(listed, d, lists[d])
             /\ UNCHANGED <<lists, got>>
    BY <2>1 DEF IInv, TypeOK, CacheInv
  <2>2. CASE \E ok \in BOOLEAN :
               /\ listed' = Put(listed, d, IF ok THEN ListAnswer(d) ELSE {})
               /\ lists' = Put(lists, d, IF ok THEN ListAnswer(d) ELSE {})
               /\ got' = [got EXCEPT !.lists = Noted(@, d, ok)]
    <3>1. PICK ok \in BOOLEAN :
               /\ listed' = Put(listed, d, IF ok THEN ListAnswer(d) ELSE {})
               /\ lists' = Put(lists, d, IF ok THEN ListAnswer(d) ELSE {})
               /\ got' = [got EXCEPT !.lists = Noted(@, d, ok)]
      BY <2>2
    <3>2. Noted(got.lists, d, ok) \in SUBSET Session
      BY NotedType DEF IInv, TypeOK, Got
    <3>3. /\ got'.lists = Noted(got.lists, d, ok) /\ got' \in Got
          /\ got'.rates = got.rates /\ got'.bars = got.bars /\ got'.oi = got.oi
      BY <3>1, <3>2 DEF IInv, TypeOK, Got
    <3>4. (d \in got'.lists <=> ok) /\ got'.lists \ {d} = got.lists \ {d}
      BY <3>3 DEF Noted
    <3> QED  BY <3>1, <3>3, <3>4
  <2> QED  BY <2>1, <2>2 DEF ListReturn
<1>3. value \in SUBSET Contract
  BY <1>1
<1>4. /\ IsCache(lists', Session, SUBSET Contract)
      /\ IsCache(listed', Session, SUBSET Contract)
  <2> HIDE DEF value
  <2>1. /\ IsCache(Put(lists, d, value), Session, SUBSET Contract)
        /\ IsCache(Put(listed, d, value), Session, SUBSET Contract)
    BY <1>3, PutType DEF IInv, TypeOK
  <2> QED  BY <1>2, <2>1 DEF IInv, TypeOK
<1>5. TypeOK'
  BY <1>2, <1>4 DEF IInv, TypeOK, ListReturn
<1>6. /\ \A e \in DOMAIN lists' : lists'[e] = IF e \in got'.lists THEN ListAnswer(e) ELSE {}
      /\ \A e \in DOMAIN listed' : listed'[e] = IF e \in got'.lists THEN ListAnswer(e) ELSE {}
  <2>1. /\ \A e \in DOMAIN lists : lists[e] = IF e \in got.lists THEN ListAnswer(e) ELSE {}
        /\ \A e \in DOMAIN listed : listed[e] = IF e \in got.lists THEN ListAnswer(e) ELSE {}
    BY DEF IInv, CacheInv, HandInv
  <2>2. /\ \A e \in DOMAIN Put(lists, d, value) :
              Put(lists, d, value)[e] = IF e \in got'.lists THEN ListAnswer(e) ELSE {}
        /\ \A e \in DOMAIN Put(listed, d, value) :
              Put(listed, d, value)[e] = IF e \in got'.lists THEN ListAnswer(e) ELSE {}
    BY <1>2, <2>1 DEF Put
  <2> HIDE DEF value
  <2>3. CASE lists' = lists /\ got'.lists = got.lists
    BY <1>2, <2>1, <2>2, <2>3
  <2>4. CASE lists' = Put(lists, d, value)
    BY <1>2, <2>2, <2>4
  <2> QED  BY <1>2, <2>3, <2>4
<1>7. CacheInv' /\ HandInv'
  BY <1>1, <1>2, <1>6 DEF IInv, CacheInv, HandInv, ListReturn
<1> QED  BY <1>5, <1>7, EntriesStay DEF IInv, ListReturn
-----------------------------------------------------------------------------
(* The entry of a chunk *)

\* The entry that StoreChunk adds.
NewEntry ==
    [chunk |-> TheChunk,
     clean |-> {row \in Survivors : "CLEAN" \in Verdicts(row)},
     quar  |-> {filed \in Survivors \X Code : filed[2] \in Verdicts(filed[1])},
     known |-> KnownOf(TheChunk)]

\* What the copies of a row come to.
LEMMA VerdictFacts ==
    ASSUME NEW row
    PROVE  /\ Verdicts(row) \subseteq Code \union {"CLEAN"} /\ Verdicts(row) # {}
           /\ \A a, b \in Verdicts(row) \intersect Code : a = b
           /\ "CLEAN" \in Verdicts(row) <=>
                /\ row \in Sound /\ SpotJoined /\ rate
                /\ OpenInterest(row) \intersect Liquid # {}
           /\ "CLEAN" \in Verdicts(row) /\ Verdicts(row) \intersect Code # {} =>
                /\ Verdicts(row) \intersect Code = {"LOW_OI"}
                /\ OpenInterest(row) \ Liquid # {}
<1> DEFINE joined == {IF r \in Liquid THEN "CLEAN" ELSE "LOW_OI" : r \in OpenInterest(row)}
<1>1. /\ joined \subseteq {"CLEAN", "LOW_OI"}
      /\ joined = {} <=> OpenInterest(row) = {}
      /\ "CLEAN" \in joined <=> OpenInterest(row) \intersect Liquid # {}
      /\ "LOW_OI" \in joined <=> OpenInterest(row) \ Liquid # {}
  OBVIOUS
<1>2. \/ row \notin Sound /\ Verdicts(row) = {"STRUCTURE"}
      \/ row \in Sound /\ ~SpotJoined /\ Verdicts(row) = {"SPOT_NA"}
      \/ row \in Sound /\ SpotJoined /\ ~rate /\ Verdicts(row) = {"DELTA_BAND"}
      \/ /\ row \in Sound /\ SpotJoined /\ rate /\ OpenInterest(row) = {}
         /\ Verdicts(row) = {"LOW_OI"}
      \/ /\ row \in Sound /\ SpotJoined /\ rate /\ OpenInterest(row) # {}
         /\ Verdicts(row) = joined
  BY DEF Verdicts
<1> HIDE DEF joined
<1> QED  BY <1>1, <1>2 DEF Code

\* What the chunk in hand was given is what the run knows of it.
LEMMA StoreFacts ==
    ASSUME IInv, AllListed
    PROVE  /\ NewEntry.known.rates <=> rate
           /\ NewEntry.known.bars <=> bars = "rows"
           /\ NewEntry.known.oi <=> oi = "rows"
           /\ \A row \in RowsOf(TheChunk) :
                /\ ListedThen(NewEntry, row) <=> row \in Survivors
                /\ row.day \in Session /\ row \in Row
                /\ OpenInterest(row) =
                     IF NewEntry.known.oi THEN ReportsFor(TheChunk, row) ELSE {}
<1>1. \A row \in RowsOf(TheChunk) :
          row.day \in Days(TheChunk) /\ row.day \in Session /\ row \in Row
  BY ChunkInPlan DEF RowsOf, Days, Row, IInv
<1>2. \A d \in Days(TheChunk) : listed[d] = IF d \in got.lists THEN ListAnswer(d) ELSE {}
  BY DEF AllListed, IInv, HandInv
<1>3. NewEntry.known = KnownOf(TheChunk)
  BY DEF NewEntry
<1>4. /\ NewEntry.known.rates <=> rate
      /\ NewEntry.known.bars <=> bars = "rows"
      /\ NewEntry.known.oi <=> oi = "rows"
  <2>1. /\ rate <=> TheWindow \in got.rates
        /\ bars = "rows" <=> TheWindow \in got.bars
        /\ oi = "rows" <=> TheChunk \in got.oi
    BY DEF AllListed, IInv, HandInv
  <2>2. /\ NewEntry.known.rates = (TheWindow \in got.rates)
        /\ NewEntry.known.bars = (TheWindow \in got.bars)
        /\ NewEntry.known.oi = (TheChunk \in got.oi)
    BY <1>3 DEF KnownOf, TheWindow
  <2> QED  BY <2>1, <2>2
<1>5. \A row \in RowsOf(TheChunk) : ListedThen(NewEntry, row) <=> row \in Survivors
  <2>1. NewEntry.known.lists = got.lists \intersect Days(TheChunk)
    BY <1>3 DEF KnownOf
  <2> HIDE DEF NewEntry
  <2> QED  BY <1>1, <1>2, <2>1 DEF ListedThen, Survivors
<1>6. \A row : OpenInterest(row) = IF NewEntry.known.oi THEN ReportsFor(TheChunk, row) ELSE {}
  BY <1>4 DEF OpenInterest
<1> QED  BY <1>1, <1>4, <1>5, <1>6

LEMMA StoreType ==
    ASSUME IInv, AllListed
    PROVE  NewEntry \in Entry
<1>1. \A row \in Survivors : row \in Row
  BY StoreFacts DEF Survivors
<1>2. {row \in Survivors : "CLEAN" \in Verdicts(row)} \in SUBSET Row
  BY <1>1
<1>3. {filed \in Survivors \X Code : filed[2] \in Verdicts(filed[1])} \in SUBSET (Row \X Code)
  BY <1>1
<1>4. KnownOf(TheChunk) \in Known
  BY DEF KnownOf, Known, IInv, TypeOK, Got
<1>5. TheChunk \in Chunk
  BY ChunkInPlan DEF IInv
<1> QED  BY <1>2, <1>3, <1>4, <1>5 DEF NewEntry, Entry

LEMMA StoreChunkStep == ASSUME IInv, StoreChunk PROVE IInv'
<1>1. AllListed /\ Leave /\ frame' = frame
      /\ (entries' = entries \/ entries' = entries \union {NewEntry})
  BY DEF StoreChunk, Leave, NewEntry
<1>2. entries' \in SUBSET Entry
  BY <1>1, StoreType DEF IInv, TypeOK
<1>3. TypeOK' /\ CacheInv' /\ HandInv'
  BY <1>1, <1>2, LeaveStep
<1>4. /\ NewEntry.chunk = TheChunk
      /\ NewEntry.clean = {row \in Survivors : "CLEAN" \in Verdicts(row)}
      /\ NewEntry.quar = {filed \in Survivors \X Code : filed[2] \in Verdicts(filed[1])}
      /\ Survivors \subseteq RowsOf(TheChunk)
  BY DEF NewEntry, Survivors
<1>5. EntryInv'
  <2>1. \A q \in NewEntry.quar : q[1] \in RowsOf(TheChunk)
    BY <1>4
  <2> QED  BY <1>1, <1>4, <2>1 DEF IInv, EntryInv
<1>6. CleanRowsAreTheBackedOnes'
  <2>1. NewEntry.clean = {row \in RowsOf(NewEntry.chunk) : row \in Sound /\ Backed(NewEntry, row)}
    <3>1. ASSUME NEW row \in RowsOf(TheChunk)
          PROVE  row \in NewEntry.clean <=> row \in Sound /\ Backed(NewEntry, row)
      <4>1. row \in NewEntry.clean <=>
              /\ row \in Survivors /\ row \in Sound /\ SpotJoined /\ rate
              /\ OpenInterest(row) \intersect Liquid # {}
        BY <1>4, VerdictFacts
      <4>2. SpotJoined <=> NewEntry.known.bars /\ frame = "bare"
        BY <1>1, StoreFacts DEF SpotJoined
      <4>3. OpenInterest(row) \intersect Liquid # {} <=>
              NewEntry.known.oi /\ ReportsFor(TheChunk, row) \intersect Liquid # {}
        BY <1>1, StoreFacts
      <4>4. (rate <=> NewEntry.known.rates) /\ (row \in Survivors <=> ListedThen(NewEntry, row))
        BY <1>1, StoreFacts
      <4> HIDE DEF NewEntry
      <4> QED  BY <1>4, <4>1, <4>2, <4>3, <4>4 DEF Backed
    <3>2. NewEntry.clean \subseteq RowsOf(TheChunk)
      BY <1>4
    <3> HIDE DEF NewEntry
    <3> QED  BY <1>4, <3>1, <3>2
  <2>2. \A e, row : Backed(e, row)' <=> Backed(e, row)
    BY <1>1 DEF Backed, ListedThen
  <2> QED  BY <1>1, <2>1, <2>2 DEF IInv, CleanRowsAreTheBackedOnes
<1>7. CompletedChunkAccountsForRows'
  <2>1. ASSUME NEW row \in RowsOf(NewEntry.chunk)
        PROVE  LET codes == {code \in Code : <<row, code>> \in NewEntry.quar}
                   reports == ReportsFor(NewEntry.chunk, row)
               IN  /\ ListedThen(NewEntry, row) <=> row \in NewEntry.clean \/ codes # {}
                   /\ \A a, b \in codes : a = b
                   /\ row \in NewEntry.clean /\ codes # {} =>
                        /\ codes = {"LOW_OI"}
                        /\ reports \intersect Liquid # {} /\ reports \ Liquid # {}
    <3> DEFINE codes == {code \in Code : <<row, code>> \in NewEntry.quar}
    <3>1. codes = IF row \in Survivors THEN Verdicts(row) \intersect Code ELSE {}
      BY <1>4
    <3>2. row \in NewEntry.clean <=> row \in Survivors /\ "CLEAN" \in Verdicts(row)
      BY <1>4
    <3>3. ListedThen(NewEntry, row) <=> row \in Survivors
      BY <1>1, <1>4, <2>1, StoreFacts
    <3>4. OpenInterest(row) \subseteq ReportsFor(NewEntry.chunk, row)
      BY <1>4 DEF OpenInterest
    <3> HIDE DEF NewEntry, codes
    <3>5. ListedThen(NewEntry, row) <=> row \in NewEntry.clean \/ codes # {}
      BY <3>1, <3>2, <3>3, VerdictFacts
    <3>6. \A a, b \in codes : a = b
      BY <3>1, VerdictFacts
    <3>7. row \in NewEntry.clean /\ codes # {} =>
            /\ codes = {"LOW_OI"}
            /\ ReportsFor(NewEntry.chunk, row) \intersect Liquid # {}
            /\ ReportsFor(NewEntry.chunk, row) \ Liquid # {}
      BY <3>1, <3>2, <3>4, VerdictFacts
    <3> QED  BY <3>5, <3>6, <3>7 DEF codes
  <2>2. \A e, row : ListedThen(e, row)' <=> ListedThen(e, row)
    BY DEF ListedThen
  <2> HIDE DEF NewEntry
  <2>3. ASSUME NEW e \in entries', NEW row \in RowsOf(e.chunk)
        PROVE  LET codes == {code \in Code : <<row, code>> \in e.quar}
                   reports == ReportsFor(e.chunk, row)
               IN  /\ ListedThen(e, row) <=> row \in e.clean \/ codes # {}
                   /\ \A a, b \in codes : a = b
                   /\ row \in e.clean /\ codes # {} =>
                        /\ codes = {"LOW_OI"}
                        /\ reports \intersect Liquid # {} /\ reports \ Liquid # {}
    <3>1. CASE e = NewEntry
      BY <2>1, <2>3, <3>1
    <3>2. CASE e \in entries
      BY <2>3, <3>2 DEF IInv, CompletedChunkAccountsForRows
    <3> QED  BY <1>1, <3>1, <3>2
  <2> QED  BY <2>2, <2>3 DEF CompletedChunkAccountsForRows
<1> QED  BY <1>3, <1>5, <1>6, <1>7 DEF IInv

LEMMA StutterStep == ASSUME IInv, UNCHANGED vars PROVE IInv'
<1>1. TypeOK' /\ CacheInv' /\ HandInv'
  BY DEF vars, caches, hand, IInv, TypeOK, CacheInv, HandInv, TheWindow, TheChunk
<1> QED  BY <1>1, EntriesStay DEF vars, IInv
-----------------------------------------------------------------------------
(* The theorems *)

\* Caches and hand always agree with the last answers of the run.
THEOREM Invariance == Spec => []IInv
<1>1. ASSUME IInv, Next PROVE IInv'
  <2>1. CASE FetchError \/ NoData \/ NoSurvivors \/ StoreFails
    BY <1>1, <2>1, LeaveEmptyHandedStep DEF FetchError, NoData, NoSurvivors, StoreFails
  <2>2. CASE StartRun \/ Abort \/ GetRates \/ PrefetchBars
    BY <1>1, <2>2, StartRunStep, AbortStep, GetRatesStep, PrefetchBarsStep
  <2>3. CASE GreeksReturn \/ OiReturn \/ BarsReturn \/ BeginLists
    BY <1>1, <2>3, GreeksReturnStep, OiReturnStep, BarsReturnStep, BeginListsStep
  <2>4. CASE \E d \in Session : ListReturn(d)
    BY <1>1, <2>4, ListReturnStep
  <2>5. CASE StoreChunk
    BY <1>1, <2>5, StoreChunkStep
  <2>6. CASE AllRunsDone
    BY <1>1, <2>6, StutterStep DEF AllRunsDone
  <2> QED  BY <1>1, <2>1, <2>2, <2>3, <2>4, <2>5, <2>6 DEF Next
<1>2. IInv /\ [Next]_vars => IInv'
  BY <1>1, StutterStep
<1> QED  BY <1>2, InitStep, PTL DEF Spec

\* The caches, the locals of the chunk and the stored entries keep their types.
THEOREM TypeCorrect == Spec => []TypeOK
BY Invariance, PTL DEF IInv

\* Whatever fails or is evicted, no accepted row rests on an empty answer or on the
\* answer to another request, and no row with all its answers is lost.
THEOREM AcceptedIffBacked == Spec => []CleanRowsAreTheBackedOnes
BY Invariance, PTL DEF IInv

\* A completed chunk stores or files, under one code, the rows listed on its days and
\* no others, and does both only with a row whose copies differ in open interest.
THEOREM RowsAccounted == Spec => []CompletedChunkAccountsForRows
BY Invariance, PTL DEF IInv
-----------------------------------------------------------------------------
(* The entries as a chunk ledger *)

\* A row is fetched with one chunk of the plan.
LEMMA RowHasOneChunk ==
    ASSUME NEW c \in Chunk, NEW d \in Chunk, NEW row \in RowsOf(c), row \in RowsOf(d)
    PROVE  c = d
<1>1. row.exp = c.exp /\ row.day \in Days(c) /\ row.exp = d.exp /\ row.day \in Days(d)
  BY DEF RowsOf
<1> QED  BY <1>1, ChunksAreApart

LEMMA LedgerRows ==
    ASSUME NEW c \in Chunk
    PROVE  Ledger!RowsOf(c) = RowsOf(c)
<1> DEFINE ChunkOf(row) == CHOOSE d \in Chunk : row \in RowsOf(d)
<1>1. ASSUME NEW row \in PlannedRow
      PROVE  ChunkOf(row) \in Chunk /\ row \in RowsOf(ChunkOf(row))
  <2>1. \E d \in Chunk : row \in RowsOf(d)
    BY <1>1 DEF PlannedRow
  <2> QED  BY <2>1
<1>2. Ledger!RowsOf(c) = {row \in PlannedRow : ChunkOf(row) = c}
  BY DEF Ledger!RowsOf
<1>3. RowsOf(c) \subseteq PlannedRow
  BY DEF PlannedRow
<1> HIDE DEF ChunkOf
<1> QED  BY <1>1, <1>2, <1>3, RowHasOneChunk

LEMMA CompletingIsAStep ==
    ASSUME NEW c \in Chunk, NEW clean \in SUBSET Ledger!RowsOf(c),
           NEW quar \in SUBSET Ledger!RowsOf(c),
           Ledger!Store(c, 1, clean), Ledger!File(quar)
    PROVE  Ledger!Next
BY Zenon DEF Ledger!Next

LEMMA StoringIsCompleting ==
    ASSUME IInv, StoreChunk, entries' # entries
    PROVE  Ledger!Next
<1> DEFINE filed == {row \in Survivors : Verdicts(row) \intersect Code # {}}
           Stored(E, row) == \E e \in E : row \in e.clean
           Filed(E, row) == \E e \in E, code \in Code : <<row, code>> \in e.quar
<1>1. AllListed /\ entries' = entries \union {NewEntry} /\ ~Completed(TheChunk)
  BY DEF StoreChunk, NewEntry
<1>2. /\ NewEntry.chunk = TheChunk
      /\ NewEntry.clean = {row \in Survivors : "CLEAN" \in Verdicts(row)}
      /\ NewEntry.quar = {q \in Survivors \X Code : q[2] \in Verdicts(q[1])}
  BY DEF NewEntry
<1>3. TheChunk \in Chunk
  BY ChunkInPlan DEF IInv
<1>4. /\ NewEntry.clean \subseteq RowsOf(TheChunk)
      /\ filed \subseteq RowsOf(TheChunk)
  BY <1>2 DEF Survivors
<1>5. \A e \in entries : e.chunk # TheChunk /\ e.chunk \in Chunk
  BY <1>1 DEF Completed, IInv, TypeOK, Entry
<1>6. \A row \in RowsOf(TheChunk) : ~Filed(entries, row)
  <2>1. \A e \in entries : \A row, code : <<row, code>> \in e.quar => row \in RowsOf(e.chunk)
    BY DEF IInv, EntryInv
  <2> QED  BY <1>3, <1>5, <2>1, RowHasOneChunk
<1>7. \A row : /\ Stored(entries', row) <=> Stored(entries, row) \/ row \in NewEntry.clean
               /\ Filed(entries', row) <=> Filed(entries, row) \/ row \in filed
  <2>1. \A row : (\E code \in Code : <<row, code>> \in NewEntry.quar) <=> row \in filed
    BY <1>2
  <2> HIDE DEF NewEntry, filed
  <2> QED  BY <1>1, <2>1
<1>8. PICK c, clean, quar : c = TheChunk /\ clean = NewEntry.clean /\ quar = filed
  OBVIOUS
<1> HIDE DEF filed, NewEntry, Stored, Filed
<1>9. Ledger!Store(c, 1, clean) /\ Ledger!File(quar)
  <2> DEFINE surface(E) == [row \in PlannedRow |-> IF Stored(E, row) THEN 1 ELSE 0]
             quarantine(E) == [row \in PlannedRow |-> IF Filed(E, row) THEN 1 ELSE 0]
             progress(E) == {[chunk |-> e.chunk, run |-> 1, rows |-> e.clean] : e \in E}
  <2>1. \A e \in progress(entries) : ~(e.chunk = c /\ e.run = 1)
    BY <1>5, <1>8
  <2>2. surface(entries') =
          [row \in PlannedRow |->
             IF row \in clean /\ surface(entries)[row] = 0
             THEN 1 ELSE surface(entries)[row]]
    BY <1>7, <1>8
  <2>3. quarantine(entries') =
          [row \in PlannedRow |->
             IF row \in quar THEN quarantine(entries)[row] + 1 ELSE quarantine(entries)[row]]
    <3>1. \A row \in quar : ~Filed(entries, row)
      BY <1>4, <1>6, <1>8
    <3> QED  BY <1>7, <1>8, <3>1
  <2>4. progress(entries') =
          progress(entries) \union {[chunk |-> c, run |-> 1, rows |-> clean]}
    BY <1>1, <1>2, <1>8
  <2> QED  BY <2>1, <2>2, <2>3, <2>4 DEF Ledger!Store, Ledger!File, Stored, Filed
<1>10. c \in Chunk /\ clean \in SUBSET Ledger!RowsOf(c)
       /\ quar \in SUBSET Ledger!RowsOf(c)
  BY <1>3, <1>4, <1>8, LedgerRows
<1> QED  BY <1>9, <1>10, CompletingIsAStep

\* Only StoreChunk touches the entries.
LEMMA OthersKeepEntries ==
    ASSUME [Next]_vars, entries' # entries
    PROVE  StoreChunk
BY DEF Next, StartRun, Abort, GetRates, PrefetchBars, GreeksReturn, OiReturn,
       BarsReturn, FetchError, NoData, BeginLists, ListReturn, NoSurvivors,
       StoreFails, AllRunsDone, vars

LEMMA LedgerInit == Init => Ledger!Init
BY DEF Init, Ledger!Init

\* What a reader of the entries sees is the chunk ledger of ChunkLedger.tla.
THEOREM LedgerImplemented == Spec => ImplementsLedger
<1>1. IInv /\ [Next]_vars => [Ledger!Next]_(Ledger!ledgerVars)
  <2> SUFFICES ASSUME IInv, [Next]_vars, entries' = entries
               PROVE  UNCHANGED Ledger!ledgerVars
    BY OthersKeepEntries, StoringIsCompleting
  <2> QED  BY DEF Ledger!ledgerVars
<1> QED  BY <1>1, LedgerInit, Invariance, PTL DEF Spec, ImplementsLedger, Ledger!Spec
=============================================================================
