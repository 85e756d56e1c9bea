-------------------------- MODULE ResilienceProofs --------------------------
(***************************************************************************)
(* What libs/resilience promises holds for any number of requests,         *)
(* processes and clients, and for every limit, window and threshold: the   *)
(* rate limit, the response cache, the connection to Redis and the circuit *)
(* breaker, each with its inductive invariant.  They share nothing; each   *)
(* theorem is about the specification of its component.                    *)
(***************************************************************************)
EXTENDS RateLimit, ResponseCache, RedisConnection, CircuitBreaker, TLAPS

-----------------------------------------------------------------------------
(* The rate limit.  A window counts what it admits as long as it lasts,    *)
(* because a counter made in it outlives it.                               *)

CallerStates ==
  {NoCaller} \cup [at : {"asked"}, window : Windows]
    \cup [at : {"refused"}, window : Windows, retryAt : Nat]

RateTypeOK ==
  /\ second \in 0..MaxSeconds
  /\ counter \in [Windows -> [count : 0..MaxCount, expires : Nat]]
  /\ caller \in [Callers -> CallerStates]
  /\ admitted \in [Windows -> Nat]

\* A counter outlives its window: it is created in it or later.
CounterOutlivesWindow ==
  \A w \in Windows : counter[w].count > 0 => counter[w].expires >= (w + 1) * WindowSeconds

AskedInTime ==
  \A c \in Callers : caller[c].at = "asked" => caller[c].window <= Window(second)

AdmittedWereCounted ==
  \A w \in Windows : w >= Window(second) => admitted[w] <= counter[w].count

RateInv ==
  RateTypeOK /\ CounterOutlivesWindow /\ AskedInTime /\ AdmittedWereCounted /\ WindowBound

-----------------------------------------------------------------------------
\* A window holds the seconds from its first to the one before the next window's.
LEMMA WindowOfSecond ==
  ASSUME NEW s \in Nat
  PROVE  /\ Window(s) \in Nat
         /\ Window(s) * WindowSeconds <= s
         /\ s < (Window(s) + 1) * WindowSeconds
  BY RateLimitAssumption DEF Window

\* A second belongs to the next window from that one's first second on.
LEMMA WindowReached ==
  ASSUME NEW s \in Nat, NEW w \in Nat
  PROVE  w <= Window(s) <=> w * WindowSeconds <= s
<1>1. Window(s) \in Nat /\ WindowSeconds \in Nat /\ WindowSeconds > 0
  BY WindowOfSecond, RateLimitAssumption
<1>2. ASSUME w <= Window(s)
      PROVE  w * WindowSeconds <= s
  <2>1. w * WindowSeconds <= Window(s) * WindowSeconds
    BY <1>1, <1>2
  <2> QED
    BY <1>1, <2>1, WindowOfSecond
<1>3. ASSUME w > Window(s)
      PROVE  w * WindowSeconds > s
  <2>1. w >= Window(s) + 1
    BY <1>1, <1>3
  <2>2. w * WindowSeconds >= (Window(s) + 1) * WindowSeconds
    BY <1>1, <2>1
  <2> QED
    BY <1>1, <2>2, WindowOfSecond
<1> QED
  BY <1>1, <1>2, <1>3

\* Time goes forward through the windows, and ends in the last of them.
LEMMA WindowsInOrder ==
  ASSUME NEW s \in 0..MaxSeconds
  PROVE  /\ Window(s) \in Windows
         /\ Window(s) <= Window(s + 1)
<1>1. Window(s) \in Nat /\ Window(MaxSeconds) \in Nat /\ Window(s + 1) \in Nat
  BY WindowOfSecond, RateLimitAssumption
<1>2. Window(s) * WindowSeconds <= s
  BY WindowOfSecond
<1>3. Window(s) <= Window(MaxSeconds) /\ Window(s) <= Window(s + 1)
  BY <1>1, <1>2, WindowReached, RateLimitAssumption
<1> QED
  BY <1>1, <1>3 DEF Windows


-----------------------------------------------------------------------------
\* Initially nothing is counted.
LEMMA RateInitInv == RateLimitInit => RateInv
  BY RateLimitAssumption
  DEF RateLimitInit, RateInv, RateTypeOK, CallerStates, CounterOutlivesWindow, AskedInTime,
      AdmittedWereCounted, WindowBound, NoCounter, NoCaller, MaxCount

\* A request asks for the window in which it arrives.
LEMMA ArriveCallStep ==
  ASSUME RateInv, NEW c \in Callers, ArriveCall(c)
  PROVE  RateInv'
<1>1. Window(second) \in Windows
  BY WindowsInOrder DEF RateInv, RateTypeOK
<1>2. caller'[c] \in CallerStates /\ caller' \in [Callers -> CallerStates]
  BY <1>1 DEF ArriveCall, RateInv, RateTypeOK, CallerStates
<1>3. AskedInTime'
  BY <1>1 DEF ArriveCall, RateInv, RateTypeOK, AskedInTime, Windows, Window
<1> QED
  BY <1>2, <1>3
  DEF ArriveCall, RateInv, RateTypeOK, CounterOutlivesWindow, AdmittedWereCounted,
      WindowBound, Window

\* The script counts one more, and a key it makes lasts past its window.
LEMMA ConsumedCounter ==
  ASSUME RateInv, NEW w \in Windows, w <= Window(second)
  PROVE  /\ Consumed(w) \in [count : 0..MaxCount, expires : Nat]
         /\ Consumed(w).count > 0
         /\ Consumed(w).count >= counter[w].count
         /\ Consumed(w).count <= Limit => Consumed(w).count = counter[w].count + 1
         /\ Consumed(w).expires >= (w + 1) * WindowSeconds
<1>1. w * WindowSeconds <= second
  BY WindowReached DEF RateInv, RateTypeOK, Windows
<1>2. second + WindowSeconds >= (w + 1) * WindowSeconds
  BY <1>1, RateLimitAssumption DEF RateInv, RateTypeOK, Windows
<1>3. counter[w] \in [count : 0..MaxCount, expires : Nat]
  BY DEF RateInv, RateTypeOK
<1>4. CASE counter[w].count = 0
  BY <1>2, <1>3, <1>4, RateLimitAssumption
  DEF Consumed, ExpiryOf, MaxCount, RateInv, RateTypeOK
<1>5. CASE counter[w].count # 0
  <2>1. counter[w].expires >= (w + 1) * WindowSeconds
    BY <1>3, <1>5 DEF RateInv, CounterOutlivesWindow
  <2> QED
    BY <1>3, <1>5, <2>1, RateLimitAssumption DEF Consumed, MaxCount
<1> QED
  BY <1>4, <1>5

\* A request is admitted only below the limit, and with it the counter grows.
LEMMA ConsumeStep ==
  ASSUME RateInv, NEW c \in Callers, Consume(c)
  PROVE  RateInv'
<1> DEFINE w == caller[c].window
           k == Consumed(w)
<1>1. w \in Windows /\ w <= Window(second)
  BY DEF Consume, RateInv, RateTypeOK, CallerStates, NoCaller, AskedInTime
<1>2. /\ k \in [count : 0..MaxCount, expires : Nat]
      /\ k.count >= counter[w].count /\ k.count > 0
      /\ k.count <= Limit => k.count = counter[w].count + 1
      /\ k.expires >= (w + 1) * WindowSeconds
  BY <1>1, ConsumedCounter
<1>3. counter' = [counter EXCEPT ![w] = k] /\ second' = second
  BY DEF Consume
<1> HIDE DEF k
<1>4. caller' \in [Callers -> CallerStates] /\ AskedInTime'
  <2>1. \/ caller' = [caller EXCEPT ![c] = NoCaller]
        \/ caller' = [caller EXCEPT ![c] =
                        [at |-> "refused", window |-> w, retryAt |-> k.expires]]
    BY DEF Consume, k
  <2>2. caller'[c] \in CallerStates /\ caller'[c].at # "asked"
    BY <1>1, <1>2, <2>1 DEF CallerStates, NoCaller, RateInv, RateTypeOK
  <2> QED
    BY <1>3, <2>1, <2>2 DEF RateInv, RateTypeOK, AskedInTime, Window
<1>5. counter' \in [Windows -> [count : 0..MaxCount, expires : Nat]]
  BY <1>1, <1>2, <1>3 DEF RateInv, RateTypeOK
<1>6. CounterOutlivesWindow'
  BY <1>1, <1>2, <1>3 DEF RateInv, RateTypeOK, CounterOutlivesWindow
<1>7. CASE /\ k.count <= Limit /\ w = Window(second)
           /\ admitted' = [admitted EXCEPT ![w] = @ + 1]
  <2>1. admitted[w] <= counter[w].count
    BY <1>1, <1>7 DEF RateInv, AdmittedWereCounted, Windows
  <2>2. admitted'[w] = admitted[w] + 1 /\ admitted[w] + 1 <= k.count
    BY <1>1, <1>2, <1>7, <2>1 DEF RateInv, RateTypeOK
  <2>3. AdmittedWereCounted' /\ WindowBound' /\ admitted' \in [Windows -> Nat]
    BY <1>1, <1>2, <1>3, <1>7, <2>2, RateLimitAssumption
    DEF RateInv, RateTypeOK, AdmittedWereCounted, WindowBound, Window
  <2> QED
    BY <1>3, <1>4, <1>5, <1>6, <2>3 DEF RateInv, RateTypeOK
<1>8. CASE UNCHANGED admitted
  <2>1. AdmittedWereCounted'
    BY <1>1, <1>2, <1>3, <1>8 DEF RateInv, RateTypeOK, AdmittedWereCounted, Window
  <2> QED
    BY <1>3, <1>4, <1>5, <1>6, <1>8, <2>1 DEF RateInv, RateTypeOK, WindowBound
<1>9. \/ /\ k.count <= Limit /\ w = Window(second)
         /\ admitted' = [admitted EXCEPT ![w] = @ + 1]
      \/ UNCHANGED admitted
  BY DEF Consume, WithinLimit, k
<1> QED
  BY <1>7, <1>8, <1>9

\* The counter of a window that is not over does not expire.
LEMMA SecondPassesStep ==
  ASSUME RateInv, SecondPasses
  PROVE  RateInv'
<1>1. second \in 0..MaxSeconds /\ second' = second + 1 /\ second' \in 0..MaxSeconds
  BY RateLimitAssumption DEF SecondPasses, RateInv, RateTypeOK
<1>2. Window(second) <= Window(second') /\ Window(second) \in Nat /\ Window(second') \in Nat
  BY <1>1, WindowsInOrder, WindowOfSecond
<1>3. \A w \in Windows : w >= Window(second') => counter'[w].count = counter[w].count
  <2> SUFFICES ASSUME NEW w \in Windows, w >= Window(second')
               PROVE  counter'[w].count = counter[w].count
    OBVIOUS
  <2>1. counter[w] \in [count : 0..MaxCount, expires : Nat]
    BY DEF RateInv, RateTypeOK
  <2>2. counter'[w] = IF counter[w].expires = second + 1 THEN NoCounter ELSE counter[w]
    BY DEF SecondPasses
  <2>3. CASE counter[w].count = 0
    BY <2>1, <2>2, <2>3 DEF NoCounter
  <2>4. CASE counter[w].count # 0
    <3>1. second + 1 < (w + 1) * WindowSeconds
      <4>1. w + 1 \in Nat /\ ~(w + 1 <= Window(second'))
        BY <1>2 DEF Windows
      <4> QED
        BY <1>1, <4>1, WindowReached, RateLimitAssumption
    <3>2. counter[w].expires >= (w + 1) * WindowSeconds
      BY <2>1, <2>4 DEF RateInv, CounterOutlivesWindow
    <3> QED
      BY <1>1, <2>1, <2>2, <3>1, <3>2, RateLimitAssumption DEF Windows
  <2> QED
    BY <2>3, <2>4
<1>4. counter' \in [Windows -> [count : 0..MaxCount, expires : Nat]]
  BY RateLimitAssumption DEF SecondPasses, RateInv, RateTypeOK, NoCounter, MaxCount
<1>5. CounterOutlivesWindow'
  BY DEF SecondPasses, RateInv, RateTypeOK, CounterOutlivesWindow, NoCounter
<1>6. AdmittedWereCounted'
  <2> SUFFICES ASSUME NEW w \in Windows, w >= Window(second')
               PROVE  admitted[w] <= counter'[w].count
    BY DEF SecondPasses, AdmittedWereCounted, Window
  <2>1. w >= Window(second)
    BY <1>2 DEF Windows
  <2> QED
    BY <1>3, <2>1 DEF RateInv, AdmittedWereCounted
<1>7. AskedInTime'
  BY <1>1, <1>2 DEF SecondPasses, RateInv, RateTypeOK, CallerStates, NoCaller, AskedInTime,
     Windows, Window
<1> QED
  BY <1>1, <1>4, <1>5, <1>6, <1>7 DEF SecondPasses, RateInv, RateTypeOK, WindowBound

\* Every step of the rate limiter preserves the invariant.
LEMMA RateInvStep == RateInv /\ [RateLimitNext]_rateVars => RateInv'
<1> SUFFICES ASSUME RateInv, [RateLimitNext]_rateVars
             PROVE  RateInv'
  OBVIOUS
<1>1. ASSUME NEW c \in Callers, ArriveCall(c)
      PROVE  RateInv'
  BY <1>1, ArriveCallStep
<1>2. ASSUME NEW c \in Callers, Consume(c)
      PROVE  RateInv'
  BY <1>2, ConsumeStep
<1>3. ASSUME NEW c \in Callers, Unavailable(c)
      PROVE  RateInv'
  BY <1>3
  DEF Unavailable, RateInv, RateTypeOK, CallerStates, NoCaller, CounterOutlivesWindow,
      AskedInTime, AdmittedWereCounted, WindowBound, Window
<1>4. CASE SecondPasses
  BY <1>4, SecondPassesStep
<1>5. CASE UNCHANGED rateVars
  BY <1>5
  DEF rateVars, RateInv, RateTypeOK, CounterOutlivesWindow, AskedInTime,
      AdmittedWereCounted, WindowBound, Window
<1> QED
  BY <1>1, <1>2, <1>3, <1>4, <1>5 DEF RateLimitNext

\* A window never admits more requests than the limit: whatever the limit and the
\* length of a window, however many requests are in flight, however late they reach
\* Redis, and whether or not Redis answers.
THEOREM WindowsBounded == RateLimitSpec => []WindowBound
<1>1. RateInv => WindowBound
  BY DEF RateInv
<1> QED
  BY <1>1, RateInitInv, RateInvStep, PTL DEF RateLimitSpec

-----------------------------------------------------------------------------
(* The response cache.  A generation has one floor: the version of the data *)
(* found by the invalidation that began it, and nothing below the floor is *)
(* stored under it.                                                        *)

\* A request that knows the generation of its key.
Keyed(r) == reader[r].at \in {"look", "missed", "query", "store", "loaded"}

ReaderStates ==
  {NoReader}
    \cup [at : {"look", "missed", "query"}, in : Processes, generation : Generations,
          floor : Nat]
    \cup [at : {"store", "loaded"}, in : Processes, generation : Generations,
          floor : Nat, value : Nat]
    \cup [at : {"wait"}, for : Readers, floor : Nat]
    \cup [at : {"answered"}, floor : Nat, value : Nat]

EntryStates == {NoEntry} \cup [stored : {TRUE}, version : Nat]

CacheTypeOK ==
  /\ version \in 0..MaxWrites /\ generation \in Nat /\ pending \in Nat /\ published \in Nat
  /\ entries \in [Generations -> EntryStates]
  /\ reader \in [Readers -> ReaderStates]

\* A generation is the work of a mutation; the data only gets newer.
GenerationsAreEarned == generation + pending <= version /\ published <= version

\* The floor is a function of the generation: the data found by the invalidation
\* that began it.
FloorOfGeneration ==
  /\ \A r \in Readers : Keyed(r) =>
       /\ reader[r].generation <= generation
       /\ reader[r].floor <= published
       /\ reader[r].generation = generation => reader[r].floor = published
  /\ \A r, q \in Readers :
       Keyed(r) /\ Keyed(q) /\ reader[r].generation = reader[q].generation =>
         reader[r].floor = reader[q].floor

\* What a generation has stored is not older than its floor.
EntriesAboveFloor ==
  /\ \A g \in Generations : entries[g].stored => g <= generation
  /\ \A g \in Generations :
       g = generation /\ entries[g].stored => entries[g].version >= published
  /\ \A r \in Readers : Keyed(r) /\ entries[reader[r].generation].stored =>
       entries[reader[r].generation].version >= reader[r].floor

LoadedAboveFloor ==
  \A r \in Readers :
    reader[r].at \in {"store", "loaded", "answered"} => reader[r].value >= reader[r].floor

\* Whoever joined a promise has the floor of its maker, who is still loading.
JoinedSameFloor ==
  \A r \in Readers : reader[r].at = "wait" =>
    Loading(reader[r].for) /\ reader[reader[r].for].floor = reader[r].floor

CacheInv ==
  /\ CacheTypeOK /\ GenerationsAreEarned /\ FloorOfGeneration /\ EntriesAboveFloor
  /\ LoadedAboveFloor /\ JoinedSameFloor

USE CacheAssumption
-----------------------------------------------------------------------------
\* Initially there is no request, no entry and no mutation.
LEMMA CacheInitInv == CacheInit => CacheInv
  BY DEF CacheInit, CacheInv, CacheTypeOK, GenerationsAreEarned, FloorOfGeneration,
     EntriesAboveFloor, LoadedAboveFloor, JoinedSameFloor, Keyed, NoReader, NoEntry,
     ReaderStates, EntryStates, Generations

\* A mutation makes the data newer and touches no request.
LEMMA CommitStep ==
  ASSUME CacheInv, Commit \/ WorkerCommits \/ InvalidationSkipped
  PROVE  CacheInv'
<1>1. version' >= version /\ UNCHANGED <<generation, entries, reader, published>>
  BY DEF CacheInv, CacheTypeOK, Commit, WorkerCommits, InvalidationSkipped
<1>2. CacheTypeOK' /\ GenerationsAreEarned'
  BY DEF CacheInv, CacheTypeOK, GenerationsAreEarned, Commit, WorkerCommits,
     InvalidationSkipped
<1> QED
  BY <1>1, <1>2
  DEF CacheInv, FloorOfGeneration, EntriesAboveFloor, LoadedAboveFloor, JoinedSameFloor,
      Keyed, Loading

\* An invalidation begins a generation that nobody has a key of.
LEMMA InvalidateStep ==
  ASSUME CacheInv, Invalidate
  PROVE  CacheInv'
<1>1. /\ generation' = generation + 1 /\ published' = version /\ pending' = pending - 1
      /\ UNCHANGED <<version, entries, reader>> /\ pending > 0
  BY DEF Invalidate, NextGeneration
<1>2. CacheTypeOK' /\ GenerationsAreEarned'
  BY <1>1 DEF CacheInv, CacheTypeOK, GenerationsAreEarned
<1>3. FloorOfGeneration'
  <2>1. ASSUME NEW r \in Readers, Keyed(r)
        PROVE  /\ reader[r].generation \in Nat /\ reader[r].floor \in Nat
               /\ reader[r].generation < generation' /\ reader[r].floor <= published'
    BY <1>1, <2>1
    DEF CacheInv, CacheTypeOK, ReaderStates, NoReader, Keyed, Generations,
        GenerationsAreEarned, FloorOfGeneration
  <2> QED
    BY <1>1, <2>1 DEF CacheInv, CacheTypeOK, FloorOfGeneration, Keyed
<1>4. EntriesAboveFloor'
  BY <1>1 DEF CacheInv, CacheTypeOK, EntriesAboveFloor, Keyed, Generations
<1> QED
  BY <1>1, <1>2, <1>3, <1>4
  DEF CacheInv, LoadedAboveFloor, JoinedSameFloor, Loading

\* A request begins with the floor of the current generation.
LEMMA ReadGenerationStep ==
  ASSUME CacheInv, NEW r \in Readers, NEW p \in Processes, ReadGeneration(r, p)
  PROVE  CacheInv'
<1> DEFINE next == [at |-> "look", in |-> p, generation |-> generation, floor |-> published]
<1>1. /\ reader' = [reader EXCEPT ![r] = next] /\ reader[r].at = "idle"
      /\ UNCHANGED <<version, generation, entries, pending, published>>
  BY DEF ReadGeneration, Move
<1>2. next \in ReaderStates
  BY DEF CacheInv, CacheTypeOK, GenerationsAreEarned, ReaderStates, Generations
<1>3. CacheTypeOK' /\ GenerationsAreEarned'
  BY <1>1, <1>2 DEF CacheInv, CacheTypeOK, GenerationsAreEarned
<1>4. FloorOfGeneration'
  BY <1>1 DEF CacheInv, CacheTypeOK, FloorOfGeneration, Keyed
<1>5. EntriesAboveFloor'
  BY <1>1 DEF CacheInv, CacheTypeOK, EntriesAboveFloor, GenerationsAreEarned, Keyed, Generations
<1>6. LoadedAboveFloor' /\ JoinedSameFloor'
  BY <1>1 DEF CacheInv, CacheTypeOK, ReaderStates, LoadedAboveFloor, JoinedSameFloor, Loading
<1> QED
  BY <1>3, <1>4, <1>5, <1>6 DEF CacheInv


\* A request that moves on without another key, with a value that is new enough, and
\* whose joiners still find it loading, keeps the invariant.
LEMMA MoveStep ==
  ASSUME CacheInv, NEW r \in Readers, NEW next \in ReaderStates,
         reader' = [reader EXCEPT ![r] = next],
         UNCHANGED <<version, generation, entries, pending, published>>,
         next.at \in {"look", "missed", "query", "store", "loaded"} =>
           /\ Keyed(r) /\ next.generation = reader[r].generation
           /\ next.floor = reader[r].floor,
         next.at \in {"store", "loaded", "answered"} => next.value >= next.floor,
         next.at = "wait" =>
           next.for # r /\ Loading(next.for) /\ reader[next.for].floor = next.floor,
         Loading(r) => next.at \in {"query", "store", "loaded"}
  PROVE  CacheInv'
<1>1. CacheTypeOK' /\ GenerationsAreEarned'
  BY DEF CacheInv, CacheTypeOK, GenerationsAreEarned
<1>2. FloorOfGeneration'
  BY DEF CacheInv, CacheTypeOK, FloorOfGeneration, Keyed
<1>3. EntriesAboveFloor'
  BY DEF CacheInv, CacheTypeOK, EntriesAboveFloor, Keyed
<1>4. LoadedAboveFloor'
  BY DEF CacheInv, CacheTypeOK, LoadedAboveFloor
<1>5. JoinedSameFloor'
  <2> SUFFICES ASSUME NEW q \in Readers, reader'[q].at = "wait"
               PROVE  /\ reader'[reader'[q].for].at \in {"query", "store", "loaded"}
                      /\ reader'[reader'[q].for].floor = reader'[q].floor
    BY DEF JoinedSameFloor, Loading
  <2>1. reader'[q].for \in Readers
    BY DEF CacheInv, CacheTypeOK, ReaderStates, NoReader
  <2>2. CASE q = r
    BY <2>1, <2>2 DEF CacheInv, CacheTypeOK, Loading
  <2>3. CASE q # r
    <3>1. reader'[q] = reader[q]
      BY <2>3 DEF CacheInv, CacheTypeOK
    <3>2. Loading(reader[q].for) /\ reader[reader[q].for].floor = reader[q].floor
      BY <3>1 DEF CacheInv, JoinedSameFloor
    <3> QED
      BY <2>1, <3>1, <3>2 DEF CacheInv, CacheTypeOK, Loading
  <2> QED
    BY <2>2, <2>3
<1> QED
  BY <1>1, <1>2, <1>3, <1>4, <1>5 DEF CacheInv

\* The states in which a request has a key, or the value it loaded.
LEMMA ReaderRecord ==
  ASSUME CacheInv, NEW r \in Readers
  PROVE  /\ reader[r].at \in {"look", "missed", "query"} =>
              reader[r] \in [at : {"look", "missed", "query"}, in : Processes,
                             generation : Generations, floor : Nat]
         /\ reader[r].at \in {"store", "loaded"} =>
              reader[r] \in [at : {"store", "loaded"}, in : Processes,
                             generation : Generations, floor : Nat, value : Nat]
  BY DEF CacheInv, CacheTypeOK, ReaderStates, NoReader

\* A stored entry has a version.
LEMMA StoredEntry ==
  ASSUME NEW e \in EntryStates, e.stored
  PROVE  e.version \in Nat
<1>1. e # NoEntry
  BY DEF NoEntry
<1> QED
  BY <1>1 DEF EntryStates

\* A hit is not older than the floor of the generation it is stored in.
LEMMA LookUpStep ==
  ASSUME CacheInv, NEW r \in Readers, LookUp(r)
  PROVE  CacheInv'
<1>1. reader[r].at = "look" /\ UNCHANGED <<version, generation, entries, pending, published>>
  BY DEF LookUp
<1>2. reader[r] \in [at : {"look", "missed", "query"}, in : Processes,
                     generation : Generations, floor : Nat]
  BY <1>1, ReaderRecord
<1>3. entries[reader[r].generation] \in EntryStates
  BY <1>2 DEF CacheInv, CacheTypeOK
<1>4. CASE entries[reader[r].generation].stored
  <2> DEFINE hit == [at |-> "answered", floor |-> reader[r].floor,
                     value |-> entries[reader[r].generation].version]
  <2>1. reader' = [reader EXCEPT ![r] = hit]
    BY <1>4 DEF LookUp, Move
  <2>2. entries[reader[r].generation].version \in Nat
    BY <1>3, <1>4, StoredEntry
  <2>3. hit \in ReaderStates
    BY <1>2, <2>2 DEF ReaderStates
  <2>4. hit.value >= hit.floor
    BY <1>1, <1>4 DEF CacheInv, EntriesAboveFloor, Keyed
  <2> QED
    BY <1>1, <2>1, <2>3, <2>4, MoveStep DEF Loading
<1>5. CASE ~entries[reader[r].generation].stored
  <2> DEFINE miss == [reader[r] EXCEPT !.at = "missed"]
  <2>1. reader' = [reader EXCEPT ![r] = miss]
    BY <1>5 DEF LookUp, Move
  <2>2. /\ miss \in ReaderStates /\ miss.at = "missed"
        /\ miss.generation = reader[r].generation /\ miss.floor = reader[r].floor
    <3>1. miss \in [at : {"look", "missed", "query"}, in : Processes,
                    generation : Generations, floor : Nat]
      BY <1>2
    <3> QED
      BY <1>2, <3>1 DEF ReaderStates
  <2> HIDE DEF miss
  <2> QED
    BY <1>1, <2>1, <2>2, MoveStep DEF Loading, Keyed
<1> QED
  BY <1>4, <1>5

\* Without Redis the source answers, with the data of now.
LEMMA BypassStep ==
  ASSUME CacheInv, NEW r \in Readers, Bypass(r)
  PROVE  CacheInv'
<1> DEFINE next == [at |-> "answered", floor |-> published, value |-> version]
<1>1. /\ reader' = [reader EXCEPT ![r] = next] /\ reader[r].at \in {"idle", "look"}
      /\ UNCHANGED <<version, generation, entries, pending, published>>
  BY DEF Bypass, Move
<1>2. next \in ReaderStates /\ next.value >= next.floor
  BY DEF ReaderStates, CacheInv, CacheTypeOK, GenerationsAreEarned
<1> QED
  BY <1>1, <1>2, MoveStep DEF Loading

\* Joining needs a promise with the same key, which has the same floor.
LEMMA JoinOrLoadStep ==
  ASSUME CacheInv, NEW r \in Readers, JoinOrLoad(r)
  PROVE  CacheInv'
<1>1. reader[r].at = "missed" /\ UNCHANGED <<version, generation, entries, pending, published>>
  BY DEF JoinOrLoad
<1>2. reader[r] \in [at : {"look", "missed", "query"}, in : Processes,
                     generation : Generations, floor : Nat]
  BY <1>1, ReaderRecord
<1>3. ASSUME NEW q \in InFlight(r),
             Move(r, [at |-> "wait", for |-> q, floor |-> reader[r].floor])
      PROVE  CacheInv'
  <2> DEFINE next == [at |-> "wait", for |-> q, floor |-> reader[r].floor]
  <2>1. q \in Readers /\ Loading(q) /\ reader[q].generation = reader[r].generation
    BY DEF InFlight, SameKey
  <2>2. q # r /\ reader[q].floor = reader[r].floor
    BY <1>1, <2>1 DEF Loading, CacheInv, FloorOfGeneration, Keyed
  <2>3. next \in ReaderStates
    BY <1>2, <2>1 DEF ReaderStates
  <2> QED
    BY <1>1, <1>3, <2>1, <2>2, <2>3, MoveStep DEF Move, Loading
<1>4. CASE Move(r, [reader[r] EXCEPT !.at = "query"])
  <2> DEFINE next == [reader[r] EXCEPT !.at = "query"]
  <2>1. /\ next \in ReaderStates /\ next.at = "query"
        /\ next.generation = reader[r].generation /\ next.floor = reader[r].floor
    <3>1. next \in [at : {"look", "missed", "query"}, in : Processes,
                    generation : Generations, floor : Nat]
      BY <1>2
    <3> QED
      BY <1>2, <3>1 DEF ReaderStates
  <2>2. reader' = [reader EXCEPT ![r] = next]
    BY <1>4 DEF Move
  <2> HIDE DEF next
  <2> QED
    BY <1>1, <2>1, <2>2, MoveStep DEF Keyed, Loading
<1> QED
  BY <1>3, <1>4 DEF JoinOrLoad

\* The snapshot is of now, and no invalidation has found newer data.
LEMMA LoadSourceStep ==
  ASSUME CacheInv, NEW r \in Readers, LoadSource(r)
  PROVE  CacheInv'
<1> DEFINE next == [at |-> "store", in |-> reader[r].in, generation |-> reader[r].generation,
                    floor |-> reader[r].floor, value |-> version]
<1>1. /\ reader' = [reader EXCEPT ![r] = next] /\ reader[r].at = "query"
      /\ UNCHANGED <<version, generation, entries, pending, published>>
  BY DEF LoadSource, Move
<1>2. reader[r] \in [at : {"look", "missed", "query"}, in : Processes,
                     generation : Generations, floor : Nat]
  BY <1>1, ReaderRecord
<1>3. next \in ReaderStates
  BY <1>2 DEF ReaderStates, CacheInv, CacheTypeOK
<1>4. version >= reader[r].floor
  BY <1>1, <1>2
  DEF CacheInv, CacheTypeOK, GenerationsAreEarned, FloorOfGeneration, Keyed
<1> QED
  BY <1>1, <1>3, <1>4, MoveStep DEF Keyed, Loading

\* An entry with the floor of its generation is stored, for all who have its key.
LEMMA StoreEntryStep ==
  ASSUME CacheInv, NEW r \in Readers, StoreEntry(r)
  PROVE  CacheInv'
<1> DEFINE g == reader[r].generation
           v == reader[r].value
           next == [reader[r] EXCEPT !.at = "loaded"]
<1>1. /\ reader' = [reader EXCEPT ![r] = next] /\ reader[r].at = "store"
      /\ UNCHANGED <<version, generation, pending, published>>
      /\ entries' \in {entries, [entries EXCEPT ![g] = Entry(v)]}
  BY DEF StoreEntry, Move
<1>2. reader[r] \in [at : {"store", "loaded"}, in : Processes,
                     generation : Generations, floor : Nat, value : Nat]
  BY <1>1, ReaderRecord
<1>3. /\ next \in ReaderStates /\ next.at = "loaded" /\ next.generation = g
      /\ next.floor = reader[r].floor /\ next.value = v
  <2>1. next \in [at : {"store", "loaded"}, in : Processes,
                  generation : Generations, floor : Nat, value : Nat]
    BY <1>2
  <2> QED
    BY <1>2, <2>1 DEF ReaderStates
<1> HIDE DEF next
<1>4. v >= reader[r].floor /\ g <= generation /\ (g = generation => v >= published)
  BY <1>1, <1>2 DEF CacheInv, LoadedAboveFloor, FloorOfGeneration, Keyed
<1>5. CacheTypeOK' /\ GenerationsAreEarned'
  <2>1. entries' \in [Generations -> EntryStates]
    <3>1. Entry(v) \in EntryStates
      BY <1>2 DEF EntryStates, Entry
    <3> QED
      BY <1>1, <1>2, <3>1 DEF CacheInv, CacheTypeOK
  <2> QED
    BY <1>1, <1>3, <2>1 DEF CacheInv, CacheTypeOK, GenerationsAreEarned
<1>6. FloorOfGeneration'
  BY <1>1, <1>3 DEF CacheInv, CacheTypeOK, FloorOfGeneration, Keyed
<1>7. EntriesAboveFloor'
  <2>1. \A q \in Readers : Keyed(q)' =>
          Keyed(q) /\ reader'[q].generation = reader[q].generation
          /\ reader'[q].floor = reader[q].floor
    BY <1>1, <1>3 DEF CacheInv, CacheTypeOK, Keyed
  <2>2. \A q \in Readers : Keyed(q) /\ reader[q].generation = g => v >= reader[q].floor
    BY <1>1, <1>4 DEF CacheInv, FloorOfGeneration, Keyed
  <2>3. CASE entries' = entries
    BY <1>1, <2>1, <2>3 DEF CacheInv, EntriesAboveFloor
  <2>4. CASE entries' = [entries EXCEPT ![g] = Entry(v)]
    <3>1. \A h \in Generations : entries'[h] = IF h = g THEN Entry(v) ELSE entries[h]
      BY <2>4 DEF CacheInv, CacheTypeOK
    <3>2. \A q \in Readers : Keyed(q) => reader[q].generation \in Generations
      BY DEF CacheInv, CacheTypeOK, ReaderStates, NoReader, Keyed
    <3> QED
      BY <1>1, <1>4, <2>1, <2>2, <3>1, <3>2 DEF CacheInv, EntriesAboveFloor, Entry
  <2> QED
    BY <1>1, <2>3, <2>4
<1>8. LoadedAboveFloor' /\ JoinedSameFloor'
  BY <1>1, <1>3, <1>4
  DEF CacheInv, CacheTypeOK, ReaderStates, NoReader, LoadedAboveFloor, JoinedSameFloor, Loading
<1> QED
  BY <1>5, <1>6, <1>7, <1>8 DEF CacheInv

\* A promise settles: its maker and all who joined it are answered or fail, and
\* nobody waits for it any more.
LEMMA SettledStep ==
  ASSUME CacheInv, NEW r \in Readers, Loading(r), NEW f \in [Readers -> ReaderStates],
         reader' = [q \in Readers |-> IF q \in Waiters(r) \cup {r} THEN f[q] ELSE reader[q]],
         \A q \in Waiters(r) \cup {r} :
           f[q].at = "idle" \/ (f[q].at = "answered" /\ f[q].value >= f[q].floor),
         UNCHANGED <<version, generation, entries, pending, published>>
  PROVE  CacheInv'
<1>1. CacheTypeOK' /\ GenerationsAreEarned'
  BY DEF CacheInv, CacheTypeOK, GenerationsAreEarned
<1>2. \A q \in Readers : Keyed(q)' => reader'[q] = reader[q]
  BY DEF Keyed, Waiters
<1>3. FloorOfGeneration' /\ EntriesAboveFloor'
  BY <1>2 DEF CacheInv, FloorOfGeneration, EntriesAboveFloor, Keyed
<1>4. LoadedAboveFloor'
  BY DEF CacheInv, LoadedAboveFloor, Waiters
<1>5. JoinedSameFloor'
  <2> SUFFICES ASSUME NEW q \in Readers, reader'[q].at = "wait"
               PROVE  /\ reader'[reader'[q].for].at \in {"query", "store", "loaded"}
                      /\ reader'[reader'[q].for].floor = reader'[q].floor
    BY DEF JoinedSameFloor, Loading
  <2>1. reader'[q] = reader[q] /\ reader[q].for # r
    BY DEF Waiters
  <2>2. reader[q].for \in Readers
    BY <2>1 DEF CacheInv, CacheTypeOK, ReaderStates, NoReader
  <2>3. Loading(reader[q].for) /\ reader[reader[q].for].floor = reader[q].floor
    BY <2>1 DEF CacheInv, JoinedSameFloor
  <2>4. reader'[reader[q].for] = reader[reader[q].for]
    BY <2>1, <2>2, <2>3 DEF Waiters, Loading
  <2> QED
    BY <2>1, <2>3, <2>4 DEF Loading
<1> QED
  BY <1>1, <1>3, <1>4, <1>5 DEF CacheInv

\* Whoever joined has the floor of the maker, above which the value is.
LEMMA ResolvedStep ==
  ASSUME CacheInv, NEW r \in Readers, Resolved(r)
  PROVE  CacheInv'
<1> DEFINE answered(q) == [at |-> "answered", floor |-> reader[q].floor,
                           value |-> reader[r].value]
           f == [q \in Readers |-> IF q \in Waiters(r) \cup {r} THEN answered(q) ELSE NoReader]
<1>1. reader[r].at = "loaded"
  BY DEF Resolved
<1>2. reader[r] \in [at : {"store", "loaded"}, in : Processes,
                     generation : Generations, floor : Nat, value : Nat]
  BY <1>1, ReaderRecord
<1>3. ASSUME NEW q \in Waiters(r) \cup {r}
      PROVE  q \in Readers /\ reader[q].floor \in Nat /\ reader[r].value >= reader[q].floor
  BY <1>1, <1>2 DEF Waiters, CacheInv, JoinedSameFloor, LoadedAboveFloor
<1>4. f \in [Readers -> ReaderStates]
  <2>1. \A q \in Waiters(r) \cup {r} : answered(q) \in ReaderStates
    BY <1>2, <1>3 DEF ReaderStates
  <2> QED
    BY <2>1 DEF ReaderStates
<1>5. reader' = [q \in Readers |-> IF q \in Waiters(r) \cup {r} THEN f[q] ELSE reader[q]]
  BY <1>3 DEF Resolved
<1>6. \A q \in Waiters(r) \cup {r} : f[q].at = "answered" /\ f[q].value >= f[q].floor
  BY <1>3
<1>7. Loading(r) /\ UNCHANGED <<version, generation, entries, pending, published>>
  BY <1>1 DEF Resolved, Loading
<1> HIDE DEF f
<1> QED
  BY <1>4, <1>5, <1>6, <1>7, SettledStep

\* A failed load leaves nothing behind.
LEMMA LoadFailsStep ==
  ASSUME CacheInv, NEW r \in Readers, LoadFails(r)
  PROVE  CacheInv'
<1> DEFINE f == [q \in Readers |-> NoReader]
<1>1. f \in [Readers -> ReaderStates] /\ \A q \in Readers : f[q].at = "idle"
  BY DEF ReaderStates, NoReader
<1>2. reader' = [q \in Readers |-> IF q \in Waiters(r) \cup {r} THEN f[q] ELSE reader[q]]
  BY DEF LoadFails
<1>3. Loading(r) /\ UNCHANGED <<version, generation, entries, pending, published>>
  BY DEF LoadFails, Loading
<1>4. Waiters(r) \cup {r} \subseteq Readers
  BY DEF Waiters
<1> HIDE DEF f
<1> QED
  BY <1>1, <1>2, <1>3, <1>4, SettledStep

\* Every step of the cache preserves the invariant.
LEMMA CacheInvStep == CacheInv /\ [CacheNext]_cacheVars => CacheInv'
<1> SUFFICES ASSUME CacheInv, [CacheNext]_cacheVars
             PROVE  CacheInv'
  OBVIOUS
<1>1. CASE Commit \/ WorkerCommits \/ InvalidationSkipped
  BY <1>1, CommitStep
<1>2. CASE Invalidate
  BY <1>2, InvalidateStep
<1>3. ASSUME NEW r \in Readers, NEW p \in Processes, ReadGeneration(r, p)
      PROVE  CacheInv'
  BY <1>3, ReadGenerationStep
<1>4. ASSUME NEW r \in Readers,
             LookUp(r) \/ Bypass(r) \/ JoinOrLoad(r) \/ LoadSource(r) \/ StoreEntry(r)
               \/ Resolved(r) \/ LoadFails(r)
      PROVE  CacheInv'
  BY <1>4, LookUpStep, BypassStep, JoinOrLoadStep, LoadSourceStep, StoreEntryStep,
     ResolvedStep, LoadFailsStep
<1>5. ASSUME NEW r \in Readers, Answer(r)
      PROVE  CacheInv'
  <2>1. NoReader \in ReaderStates /\ NoReader.at = "idle"
    BY DEF ReaderStates, NoReader
  <2>2. /\ reader[r].at = "answered" /\ reader' = [reader EXCEPT ![r] = NoReader]
        /\ UNCHANGED <<version, generation, entries, pending, published>>
    BY <1>5 DEF Answer, Move
  <2> QED
    BY <2>1, <2>2, MoveStep DEF Loading
<1>6. ASSUME NEW g \in Generations, EntryExpires(g)
      PROVE  CacheInv'
  <2>1. \A h \in Generations : entries'[h].stored => entries'[h] = entries[h]
    BY <1>6 DEF EntryExpires, CacheInv, CacheTypeOK, NoEntry
  <2>2. entries' \in [Generations -> EntryStates]
    BY <1>6 DEF EntryExpires, CacheInv, CacheTypeOK, EntryStates
  <2>3. UNCHANGED <<version, generation, pending, reader, published>>
    BY <1>6 DEF EntryExpires
  <2>4. \A r \in Readers : Keyed(r) => reader[r].generation \in Generations
    BY DEF CacheInv, CacheTypeOK, ReaderStates, NoReader, Keyed
  <2>5. EntriesAboveFloor'
    BY <2>1, <2>3, <2>4 DEF CacheInv, EntriesAboveFloor, Keyed
  <2> QED
    BY <2>2, <2>3, <2>5
    DEF CacheInv, CacheTypeOK, GenerationsAreEarned, FloorOfGeneration, LoadedAboveFloor,
        JoinedSameFloor, Keyed, Loading
<1>7. CASE UNCHANGED cacheVars
  BY <1>7
  DEF cacheVars, CacheInv, CacheTypeOK, GenerationsAreEarned, FloorOfGeneration,
      EntriesAboveFloor, LoadedAboveFloor, JoinedSameFloor, Keyed, Loading
<1> QED
  BY <1>1, <1>2, <1>3, <1>4, <1>5, <1>6, <1>7 DEF CacheNext

\* No answer is older than the invalidation that came before its request, for any
\* number of processes, requests and mutations, and whatever commands to Redis fail.
THEOREM AnswersAreFresh == CacheSpec => []NoStaleAnswer
<1>1. CacheInv => NoStaleAnswer
  BY DEF CacheInv, LoadedAboveFloor, NoStaleAnswer
<1> QED
  BY <1>1, CacheInitInv, CacheInvStep, PTL DEF CacheSpec

-----------------------------------------------------------------------------
(* The connection to Redis.  OneConnection is inductive beside the types.  *)

ConnectionTypeOK ==
  /\ client \in Clients \cup {None} /\ connecting \in Clients \cup {None}
  /\ socket \in [Clients -> {"unmade", "closed", "opening", "ready"}]
  /\ user \in [Users -> {Idle} \cup {Using(k) : k \in Clients}
                               \cup {WaitingFor(k) : k \in Clients}]
  /\ stopping \in BOOLEAN

ConnectionInv == ConnectionTypeOK /\ OneConnection

\* No client is None.
LEMMA ClientsAreSome == None \notin Clients /\ Clients \subseteq Nat
  BY ConnectionAssumption DEF None, Clients

\* The places of a use.
LEMMA Places ==
  ASSUME NEW k \in Clients
  PROVE  /\ Idle.at = "idle" /\ Using(k).at = "operation"
         /\ WaitingFor(k).at = "connect" /\ WaitingFor(k).client = k
  BY DEF Idle, Using, WaitingFor

\* Whoever waits for an attempt waits for that of a client.
LEMMA WaitsForClient ==
  ASSUME ConnectionInv, NEW u \in Users, user[u].at = "connect"
  PROVE  \E k \in Clients : user[u] = WaitingFor(k)
<1>1. user[u] \in {Idle} \cup {Using(k) : k \in Clients} \cup {WaitingFor(k) : k \in Clients}
  BY DEF ConnectionInv, ConnectionTypeOK
<1>2. user[u] # Idle
  BY DEF Idle
<1>3. \A k \in Clients : user[u] # Using(k)
  BY Places
<1> QED
  BY <1>1, <1>2, <1>3

\* Initially there is no client.
LEMMA ConnectionInitInv == ConnectionInit => ConnectionInv
<1> SUFFICES ASSUME ConnectionInit
             PROVE  ConnectionInv
  OBVIOUS
<1>1. ConnectionTypeOK
  BY DEF ConnectionInit, ConnectionTypeOK
<1>2. \A k \in Clients : socket[k] = "unmade"
  BY DEF ConnectionInit
<1>3. \A u \in Users : user[u].at # "connect"
  BY DEF ConnectionInit, Idle
<1>4. OneConnection
  BY <1>2, <1>3 DEF ConnectionInit, OneConnection, Open
<1> QED
  BY <1>1, <1>4 DEF ConnectionInv

\* The client of an attempt is the one everybody uses.
LEMMA OpeningIsCurrent ==
  ASSUME ConnectionInv, NEW k \in Clients
  PROVE  /\ socket[k] \in {"opening", "ready"} => client = k
         /\ socket[k] = "opening" <=> connecting = k
  BY ClientsAreSome DEF ConnectionInv, OneConnection, Open

\* A ready client is the current one already.
LEMMA UseStep ==
  ASSUME ConnectionInv, NEW u \in Users, Use(u)
  PROVE  ConnectionInv'
<1>1. PICK k \in CurrentOrNew : socket[k] = "ready" /\ user' = [user EXCEPT ![u] = Using(k)]
  BY DEF Use
<1>2. k \in Clients
  BY ClientsAreSome DEF CurrentOrNew, Unmade, ConnectionInv, ConnectionTypeOK
<1>3. UNCHANGED <<client, connecting, socket, stopping>>
  BY DEF Use
<1>4. ConnectionTypeOK'
  BY <1>1, <1>2, <1>3 DEF ConnectionInv, ConnectionTypeOK, Clients
<1>5. OneConnection'
  BY <1>1, <1>2, <1>3, Places DEF ConnectionInv, ConnectionTypeOK, OneConnection, Open, Clients
<1> QED
  BY <1>4, <1>5 DEF ConnectionInv

\* While an attempt is under way the current client is the one that connects.
LEMMA JoinConnectStep ==
  ASSUME ConnectionInv, NEW u \in Users, JoinConnect(u)
  PROVE  ConnectionInv'
<1>1. PICK k \in CurrentOrNew : client' = k /\ user' = [user EXCEPT ![u] = WaitingFor(k)]
  BY DEF JoinConnect
<1>2. UNCHANGED <<connecting, socket, stopping>> /\ connecting # None
  BY DEF JoinConnect, Joins
<1>3. connecting \in Clients /\ client = connecting
  BY <1>2, OpeningIsCurrent DEF ConnectionInv, ConnectionTypeOK
<1>4. k = client
  BY <1>2, <1>3 DEF CurrentOrNew
<1>5. ConnectionTypeOK'
  BY <1>1, <1>2, <1>3, <1>4 DEF ConnectionInv, ConnectionTypeOK, Clients
<1>6. OneConnection'
  BY <1>1, <1>2, <1>3, <1>4, Places
  DEF ConnectionInv, ConnectionTypeOK, OneConnection, Open, Clients
<1> QED
  BY <1>5, <1>6 DEF ConnectionInv

\* A new attempt begins only when no client is open.
LEMMA ConnectStep ==
  ASSUME ConnectionInv, NEW u \in Users, Connect(u)
  PROVE  ConnectionInv'
<1>1. PICK k \in CurrentOrNew :
        /\ socket[k] # "ready" /\ ~Joins
        /\ IF socket[k] = "opening"
           THEN /\ client' = None /\ connecting' = None
                /\ socket' = [socket EXCEPT ![k] = "closed"]
                /\ UNCHANGED user
           ELSE /\ client' = k /\ connecting' = k
                /\ socket' = [socket EXCEPT ![k] = "opening"]
                /\ user' = [user EXCEPT ![u] = WaitingFor(k)]
  BY DEF Connect
<1>2. k \in Clients /\ (client = None \/ k = client) /\ UNCHANGED stopping
  BY ClientsAreSome DEF CurrentOrNew, Unmade, ConnectionInv, ConnectionTypeOK, Connect
<1>3. connecting = None
  BY <1>1 DEF Joins
<1>4. \A j \in Clients : socket[j] \notin {"opening", "ready"}
  BY <1>1, <1>2, <1>3, OpeningIsCurrent, ClientsAreSome
<1>5. /\ client' = k /\ connecting' = k /\ socket' = [socket EXCEPT ![k] = "opening"]
      /\ user' = [user EXCEPT ![u] = WaitingFor(k)]
  BY <1>1, <1>2, <1>4
<1>6. ASSUME NEW v \in Users, user[v].at = "connect"
      PROVE  FALSE
  <2>1. PICK j \in Clients : user[v] = WaitingFor(j)
    BY <1>6, WaitsForClient
  <2>2. user[v].client = j /\ user[v].client = None
    BY <1>3, <1>6, <2>1, Places DEF ConnectionInv, OneConnection
  <2> QED
    BY <2>1, <2>2, ClientsAreSome
<1>7. ConnectionTypeOK'
  BY <1>2, <1>5 DEF ConnectionInv, ConnectionTypeOK, Clients
<1>8. OneConnection'
  BY <1>2, <1>4, <1>5, <1>6, Places, ClientsAreSome
  DEF ConnectionInv, ConnectionTypeOK, OneConnection, Open, Clients
<1> QED
  BY <1>7, <1>8 DEF ConnectionInv

\* When an attempt is settled everybody who waited for it goes on.
LEMMA SettledAttempt ==
  ASSUME ConnectionInv, NEW k \in Clients, NEW next, next = Idle \/ next = Using(k),
         connecting \in {k, None}, user' = Resumed(k, next)
  PROVE  /\ user' \in [Users -> {Idle} \cup {Using(j) : j \in Clients}
                                       \cup {WaitingFor(j) : j \in Clients}]
         /\ \A u \in Users : user'[u].at # "connect"
<1>1. \A u \in Users : user[u].at = "connect" => user[u] = WaitingFor(k)
  BY Places, ClientsAreSome DEF ConnectionInv, ConnectionTypeOK, OneConnection
<1> QED
  BY <1>1, Places DEF Resumed, ConnectionInv, ConnectionTypeOK

\* The attempt that succeeds is the one everybody waited for.
LEMMA ConnectedStep ==
  ASSUME ConnectionInv, NEW k \in Clients, Connected(k)
  PROVE  ConnectionInv'
<1>1. /\ socket[k] = "opening" /\ socket' = [socket EXCEPT ![k] = "ready"]
      /\ user' = Resumed(k, Using(k)) /\ connecting' = None /\ UNCHANGED <<client, stopping>>
  BY DEF Connected
<1>2. connecting = k /\ client = k
  BY <1>1, OpeningIsCurrent
<1>3. /\ user' \in [Users -> {Idle} \cup {Using(j) : j \in Clients}
                                    \cup {WaitingFor(j) : j \in Clients}]
      /\ \A u \in Users : user'[u].at # "connect"
  BY <1>1, <1>2, SettledAttempt
<1>4. ConnectionTypeOK'
  BY <1>1, <1>3 DEF ConnectionInv, ConnectionTypeOK, Clients
<1>5. \A j \in Clients : socket'[j] # "opening" /\ (socket'[j] = "ready" => j = k)
  BY <1>1, <1>2, OpeningIsCurrent DEF ConnectionInv, ConnectionTypeOK
<1>6. OneConnection'
  BY <1>1, <1>2, <1>3, <1>5, ClientsAreSome DEF OneConnection, Open, Clients
<1> QED
  BY <1>4, <1>6 DEF ConnectionInv

\* A step that closes the one client that may be open, and ends its attempt.
LEMMA ClosedStep ==
  ASSUME ConnectionInv, NEW k \in Clients, connecting \in {k, None}, client = k,
         socket' = [socket EXCEPT ![k] = "closed"], connecting' = None,
         client' \in {None, client}, stopping' \in BOOLEAN,
         user' = Resumed(k, Idle)
  PROVE  ConnectionInv'
<1>1. /\ user' \in [Users -> {Idle} \cup {Using(j) : j \in Clients}
                                    \cup {WaitingFor(j) : j \in Clients}]
      /\ \A u \in Users : user'[u].at # "connect"
  BY SettledAttempt
<1>2. \A j \in Clients : socket'[j] \notin {"opening", "ready"}
  BY OpeningIsCurrent DEF ConnectionInv, ConnectionTypeOK
<1>3. ConnectionTypeOK'
  BY <1>1 DEF ConnectionInv, ConnectionTypeOK, Clients
<1>4. OneConnection'
  BY <1>1, <1>2, ClientsAreSome DEF OneConnection, Open, Clients
<1> QED
  BY <1>3, <1>4 DEF ConnectionInv

\* Every step of the connection preserves the invariant.
LEMMA ConnectionInvStep == ConnectionInv /\ [ConnectionNext]_connectionVars => ConnectionInv'
<1> SUFFICES ASSUME ConnectionInv, [ConnectionNext]_connectionVars
             PROVE  ConnectionInv'
  OBVIOUS
<1>1. ASSUME NEW u \in Users, Use(u) \/ JoinConnect(u) \/ Connect(u)
      PROVE  ConnectionInv'
  BY <1>1, UseStep, JoinConnectStep, ConnectStep
<1>2. ASSUME NEW u \in Users, OperationEnds(u)
      PROVE  ConnectionInv'
  <2>1. ConnectionTypeOK'
    BY <1>2 DEF OperationEnds, ConnectionInv, ConnectionTypeOK, Clients
  <2>2. OneConnection'
    BY <1>2, ClientsAreSome
    DEF OperationEnds, ConnectionInv, ConnectionTypeOK, OneConnection, Open, Clients, Idle
  <2> QED
    BY <2>1, <2>2 DEF ConnectionInv
<1>3. ASSUME NEW k \in Clients, Connected(k)
      PROVE  ConnectionInv'
  BY <1>3, ConnectedStep
<1>4. ASSUME NEW k \in Clients, ConnectFails(k)
      PROVE  ConnectionInv'
  <2>1. connecting = k /\ client = k
    BY <1>4, OpeningIsCurrent DEF ConnectFails
  <2> QED
    BY <1>4, <2>1, ClosedStep DEF ConnectFails, ConnectionInv, ConnectionTypeOK
<1>5. ASSUME NEW k \in Clients, ConnectionLost(k)
      PROVE  ConnectionInv'
  <2>1. ConnectionTypeOK'
    BY <1>5 DEF ConnectionLost, ConnectionInv, ConnectionTypeOK, Clients
  <2>2. OneConnection'
    BY <1>5 DEF ConnectionLost, ConnectionInv, ConnectionTypeOK, OneConnection, Open, Clients
  <2> QED
    BY <2>1, <2>2 DEF ConnectionInv
<1>6. CASE Shutdown
  <2>1. CASE client = None
    BY <1>6, <2>1
    DEF Shutdown, ConnectionInv, ConnectionTypeOK, OneConnection, Open, Clients
  <2>2. CASE client # None
    <3>1. client \in Clients /\ connecting \in {client, None}
      BY <2>2, OpeningIsCurrent DEF ConnectionInv, ConnectionTypeOK
    <3> QED
      BY <1>6, <2>2, <3>1, ClosedStep DEF Shutdown
  <2> QED
    BY <2>1, <2>2
<1>7. CASE UNCHANGED connectionVars
  BY <1>7
  DEF connectionVars, ConnectionInv, ConnectionTypeOK, OneConnection, Open, Clients
<1> QED
  BY <1>1, <1>2, <1>3, <1>4, <1>5, <1>6, <1>7 DEF ConnectionNext

\* For any number of uses and clients, at most one client is open and it is the
\* current one; connect() is never called on an open client.
THEOREM ConnectsOnce == ConnectionSpec => []OneConnection
<1>1. ConnectionInv => OneConnection
  BY DEF ConnectionInv
<1> QED
  BY <1>1, ConnectionInitInv, ConnectionInvStep, PTL DEF ConnectionSpec

-----------------------------------------------------------------------------
(* The circuit breaker.  SingleProbe and OpenAfterFailures are inductive   *)
(* together with the types.                                                *)

BreakerInv == BreakerTypeOK /\ SingleProbe /\ OpenAfterFailures

USE DEF Openings, CallModes

-----------------------------------------------------------------------------
\* Initially no call is in flight and the circuit has seen no failure.
LEMMA BreakerInitInv == BreakerInit => BreakerInv
<1> SUFFICES ASSUME BreakerInit
             PROVE  BreakerInv
  OBVIOUS
<1>1. failures \in 0..Threshold /\ OpenAfterFailures
  BY ThresholdAssumption DEF BreakerInit, OpenAfterFailures
<1>2. \A c \in Calls : call[c] = "none"
  BY DEF BreakerInit
<1>3. SingleProbe
  BY <1>2 DEF BreakerInit, SingleProbe
<1>4. opened \in Openings /\ probeInFlight \in BOOLEAN /\ call \in [Calls -> CallModes]
  BY DEF BreakerInit
<1> QED
  BY <1>1, <1>3, <1>4 DEF BreakerInv, BreakerTypeOK

\* A call is admitted as the probe only when no probe is in flight.
LEMMA BeginStep ==
  ASSUME BreakerInv, NEW c \in Calls, Begin(c)
  PROVE  BreakerInv'
<1>1. BreakerTypeOK' /\ OpenAfterFailures'
  BY DEF BreakerInv, BreakerTypeOK, OpenAfterFailures, Begin
<1>2. SingleProbe'
  <2>1. CASE State = "half-open"
    <3>1. ~probeInFlight /\ probeInFlight' = TRUE
      BY <2>1 DEF Begin, Admits
    <3>2. \A d \in Calls : call[d] # "probing"
      BY <3>1 DEF BreakerInv, SingleProbe
    <3>3. call' = [call EXCEPT ![c] = "probing"]
      BY <2>1 DEF Begin
    <3> QED
      BY <3>1, <3>2, <3>3 DEF BreakerInv, BreakerTypeOK, SingleProbe
  <2>2. CASE State # "half-open"
    BY <2>2 DEF Begin, BreakerInv, BreakerTypeOK, SingleProbe
  <2> QED
    BY <2>1, <2>2
<1> QED
  BY <1>1, <1>2 DEF BreakerInv

\* A call that leaves clears the flag exactly when it is the probe.
LEMMA FinallyStep ==
  ASSUME BreakerTypeOK, SingleProbe, NEW c \in Calls, call[c] # "none", Finally(c)
  PROVE  /\ SingleProbe'
         /\ probeInFlight' \in BOOLEAN
         /\ call' \in [Calls -> CallModes]
<1>1. call' = [call EXCEPT ![c] = "none"]
  BY DEF Finally
<1>2. CASE call[c] = "probing"
  <2>1. \A d \in Calls : call'[d] # "probing"
    BY <1>1, <1>2 DEF BreakerTypeOK, SingleProbe
  <2>2. probeInFlight' = FALSE
    BY <1>2 DEF Finally
  <2> QED
    BY <1>1, <2>1, <2>2 DEF BreakerTypeOK, SingleProbe
<1>3. CASE call[c] # "probing"
  <2>1. \A d \in Calls : call'[d] = "probing" <=> call[d] = "probing"
    BY <1>1, <1>3 DEF BreakerTypeOK
  <2>2. probeInFlight' = probeInFlight
    BY <1>3 DEF Finally, BreakerTypeOK
  <2> QED
    BY <1>1, <2>1, <2>2 DEF BreakerTypeOK, SingleProbe
<1> QED
  BY <1>2, <1>3

\* Every step of the circuit preserves the invariant.
LEMMA BreakerInvStep == BreakerInv /\ [BreakerNext]_breakerVars => BreakerInv'
<1> SUFFICES ASSUME BreakerInv, [BreakerNext]_breakerVars
             PROVE  BreakerInv'
  OBVIOUS
<1>1. ASSUME NEW c \in Calls, Begin(c)
      PROVE  BreakerInv'
  BY <1>1, BeginStep
<1>2. ASSUME NEW c \in Calls, Succeed(c)
      PROVE  BreakerInv'
  <2>1. SingleProbe' /\ probeInFlight' \in BOOLEAN /\ call' \in [Calls -> CallModes]
    BY <1>2, FinallyStep DEF BreakerInv, Succeed
  <2>2. failures' \in 0..Threshold /\ opened' \in Openings /\ OpenAfterFailures'
    BY <1>2, ThresholdAssumption DEF Succeed, OpenAfterFailures
  <2> QED
    BY <2>1, <2>2 DEF BreakerInv, BreakerTypeOK
<1>3. ASSUME NEW c \in Calls, FailCall(c)
      PROVE  BreakerInv'
  <2>1. SingleProbe' /\ probeInFlight' \in BOOLEAN /\ call' \in [Calls -> CallModes]
    BY <1>3, FinallyStep DEF BreakerInv, FailCall
  <2>2. failures' \in 1..Threshold
    BY <1>3, ThresholdAssumption DEF BreakerInv, BreakerTypeOK, FailCall, CountFailure
  <2>3. opened' \in Openings
    BY <1>3 DEF BreakerInv, BreakerTypeOK, FailCall
  <2>4. opened' = "no" => failures' < Threshold
    BY <1>3, ThresholdAssumption
    DEF BreakerInv, BreakerTypeOK, OpenAfterFailures, FailCall, Trips, CountFailure
  <2> QED
    BY <2>1, <2>2, <2>3, <2>4, ThresholdAssumption DEF BreakerInv, BreakerTypeOK, OpenAfterFailures
<1>4. CASE ResetElapses
  BY <1>4 DEF ResetElapses, BreakerInv, BreakerTypeOK, SingleProbe, OpenAfterFailures
<1>5. CASE UNCHANGED breakerVars
  BY <1>5 DEF breakerVars, BreakerInv, BreakerTypeOK, SingleProbe, OpenAfterFailures
<1> QED
  BY <1>1, <1>2, <1>3, <1>4, <1>5 DEF BreakerNext

\* The invariant holds throughout every behaviour.
LEMMA BreakerInvariance == BreakerSpec => []BreakerInv
  BY BreakerInitInv, BreakerInvStep, PTL DEF BreakerSpec

\* Every variable stays within its type.
THEOREM BreakerTypeCorrect == BreakerSpec => []BreakerTypeOK
<1>1. BreakerInv => BreakerTypeOK
  BY DEF BreakerInv
<1> QED
  BY <1>1, BreakerInvariance, PTL

\* At most one probe is in flight, and probeInFlight says whether one is,
\* however many callers share the circuit.
THEOREM OneProbeAtATime == BreakerSpec => []SingleProbe
<1>1. BreakerInv => SingleProbe
  BY DEF BreakerInv
<1> QED
  BY <1>1, BreakerInvariance, PTL

\* A closed circuit has seen fewer failures in a row than the threshold, an
\* open one at least one.
THEOREM ClosedMeansFewFailures == BreakerSpec => []OpenAfterFailures
<1>1. BreakerInv => OpenAfterFailures
  BY DEF BreakerInv
<1> QED
  BY <1>1, BreakerInvariance, PTL
=============================================================================
