------------------------ MODULE CustomChannelProofs ------------------------
(***************************************************************************)
(* Theorems about CustomChannel for every set of readers and pushers, of   *)
(* values, every refresh interval and fetch timeout, and every bound of    *)
(* the clock.                                                              *)
(***************************************************************************)
EXTENDS CustomChannel, TLAPS

(* Only a pulled channel is fetched, and only a webhook channel pushed to.  *)
KindRespected ==
  /\ Webhook => mu = Free /\ ~failed
  /\ mu # Free => fetchAt \in 0 .. clock
  /\ ~Webhook /\ snap # None => snap.fetched = at
  /\ \A c \in Pushers : pc[c] = "store" =>
       Webhook /\ pushed[c] \in Snapshot /\ pushed[c].fetched <= clock

(* A reader that waits began to wait during the fetch under way, or now, or *)
(* has the result of the fetch that just ended to find.                     *)
WaitExplained ==
  ~failed =>
    /\ mu # Free /\ kind # "orphan" => clock <= fetchAt + FetchTimeout
    /\ \A c \in Readers : pc[c] \in {"lock", "fetch"} =>
         IF mu # Free THEN fetchAt <= began[c]
         ELSE began[c] = clock \/ (Cached /\ at = clock)

(* A stream's ticker fires within a refresh, and runs while it watches. *)
TickerRuns ==
  \A c \in Streams :
    /\ ticker[c].next <= clock + Refresh
    /\ ticker[c].next # 0 => ticker[c].next > clock
    /\ pc[c] = "watch" => ticker[c].next # 0

(* A stream remembers what it sent for as long as its client is connected.  *)
Connected ==
  \A c \in Streams : pc[c] # "store" /\ (pc[c] = "idle" => last[c] = None)

(* What a stream sent last is younger than two refreshes when it asks for   *)
(* the next snapshot.                                                       *)
FreshUntilAsked ==
  \A c \in Streams : kind = "pull" /\ ~failed /\ last[c] # None =>
    /\ pc[c] = "watch" =>
         /\ clock < last[c].fetched + 2 * Refresh
         /\ ticker[c].ready \/ ticker[c].next < last[c].fetched + 2 * Refresh
    /\ pc[c] \in {"lock", "fetch"} => began[c] < last[c].fetched + 2 * Refresh

(* A watching stream that has not sent what is stored asks for it within a  *)
(* refresh of its being stored.                                             *)
AsksForStored ==
  \A c \in Streams :
    /\ Webhook \/ ~failed
    /\ pc[c] = "watch" /\ ~ticker[c].ready
    /\ snap # None /\ last[c] # snap
    => ticker[c].next <= at + Refresh

(* The inductive invariants: of the types, of the waits, of the streams.    *)
TInv == TypeOK /\ KindRespected
WInv == WaitExplained /\ WaitBounded
SInv == TickerRuns /\ Connected /\ FreshUntilAsked /\ AsksForStored

-----------------------------------------------------------------------------
(* The types the steps share. *)
PCs == {"idle", "lock", "fetch", "watch", "store"}
Tickers == [next : 0 .. MaxTime + Refresh, ready : BOOLEAN]
Handlers == Readers \cup Pushers

LEMMA ClockTypes ==
  ASSUME TInv
  PROVE  /\ clock \in Nat /\ clock <= MaxTime /\ at \in Nat /\ at <= clock
         /\ MaxTime \in Nat /\ Refresh \in Nat /\ Refresh > 0
         /\ FetchTimeout \in Nat /\ FetchTimeout > 0
BY CustomAssumption DEF TInv, TypeOK

(* Who fetches holds channel.mu, of a pulled channel. *)
LEMMA Fetching ==
  ASSUME TInv, NEW c \in Readers, pc[c] = "fetch"
  PROVE  /\ mu = c /\ mu # Free /\ ~Webhook /\ fetchAt \in 0 .. clock
         /\ said # {} /\ \A d \in Readers \ {c} : pc[d] # "fetch"
BY CustomAssumption DEF TInv, TypeOK, KindRespected

(* A reader is in Snapshot from now on. *)
LEMMA AskMoves ==
  ASSUME TInv, NEW c \in Readers, Ask(c)
  PROVE  /\ pc' \in [Handlers -> PCs] /\ began' \in [Readers -> 0 .. clock]
         /\ \A d \in Handlers : pc'[d] = IF d = c THEN "lock" ELSE pc[d]
         /\ \A d \in Readers : began'[d] = IF d = c THEN clock ELSE began[d]
<1>1. clock \in 0 .. clock
  BY ClockTypes
<1>2. QED
  BY <1>1 DEF Ask, Handlers, PCs, TInv, TypeOK

(* Return moves one reader out of Snapshot. *)
LEMMA ReturnMoves ==
  ASSUME TInv, NEW c \in Readers, NEW result \in Snapshot \cup {None}, Return(c, result)
  PROVE  /\ pc' \in [Handlers -> PCs] /\ began' \in [Readers -> 0 .. clock]
         /\ gone' \subseteq Readers
         /\ \A d \in Handlers :
              pc'[d] = IF d # c THEN pc[d] ELSE IF c \in Streams THEN "watch" ELSE "idle"
         /\ \A d \in Readers : began'[d] = IF d = c THEN 0 ELSE began[d]
         /\ last' \in [Streams -> Snapshot \cup {None}]
         /\ \A d \in Streams : last'[d] = IF d = c /\ result # None THEN result ELSE last[d]
         /\ ticker' \in [Streams -> Tickers]
         /\ \A d \in Streams :
              /\ ticker'[d].ready = ticker[d].ready
              /\ ticker'[d].next = IF d = c /\ ticker[d].next = 0 THEN clock + Refresh
                                   ELSE ticker[d].next
<1>0. 0 \in 0 .. clock /\ clock + Refresh \in 0 .. MaxTime + Refresh
  BY ClockTypes
<1>1. /\ began' \in [Readers -> 0 .. clock]
      /\ \A d \in Readers : began'[d] = IF d = c THEN 0 ELSE began[d]
  BY <1>0 DEF Return, TInv, TypeOK
<1>2. CASE c \in Getters
  <2>1. /\ c \notin Streams /\ pc' = [pc EXCEPT ![c] = "idle"]
        /\ gone' = gone \ {c} /\ UNCHANGED <<last, ticker>>
    BY <1>2, CustomAssumption DEF Return
  <2>2. QED
    BY <1>1, <2>1 DEF TInv, TypeOK, PCs, Tickers, Handlers
<1>3. CASE c \in Streams
  <2>1. /\ pc' = [pc EXCEPT ![c] = "watch"] /\ UNCHANGED gone
        /\ last' = IF result = None THEN last ELSE [last EXCEPT ![c] = result]
        /\ ticker' = IF ticker[c].next # 0 THEN ticker
                     ELSE [ticker EXCEPT ![c].next = clock + Refresh]
    BY <1>3, CustomAssumption DEF Return
  <2>2. /\ pc' \in [Handlers -> PCs] /\ gone' \subseteq Readers
        /\ \A d \in Handlers :
             pc'[d] = IF d # c THEN pc[d] ELSE IF c \in Streams THEN "watch" ELSE "idle"
    BY <1>3, <2>1 DEF TInv, TypeOK, PCs, Handlers
  <2>3. /\ last' \in [Streams -> Snapshot \cup {None}]
        /\ \A d \in Streams : last'[d] = IF d = c /\ result # None THEN result ELSE last[d]
    BY <1>3, <2>1 DEF TInv, TypeOK
  <2>4. ticker \in [Streams -> Tickers] /\ ticker[c] \in Tickers
    BY <1>3 DEF TInv, TypeOK, Tickers
  <2>5. /\ ticker' \in [Streams -> Tickers]
        /\ \A d \in Streams :
             /\ ticker'[d].ready = ticker[d].ready
             /\ ticker'[d].next = IF d = c /\ ticker[d].next = 0 THEN clock + Refresh
                                  ELSE ticker[d].next
    BY <1>0, <1>3, <2>1, <2>4 DEF Tickers
  <2>6. QED
    BY <1>1, <2>2, <2>3, <2>5
<1>4. QED
  BY <1>2, <1>3 DEF Readers

-----------------------------------------------------------------------------
(* The types: one lemma per action, or per group with the same argument. *)
LEMMA AskTypes ==
  ASSUME TInv, NEW c \in Readers,
         handleCustomSnapshot(c) \/ handleCustomSSE(c) \/ (c \in Streams /\ StreamTick(c))
  PROVE  TInv'
<1>0. /\ pc[c] # "fetch" /\ Ask(c)
      /\ UNCHANGED <<kind, clock, source, snap, at, mu, pushed, last, gone, fetchAt, said, failed>>
  BY DEF handleCustomSnapshot, handleCustomSSE, StreamTick
<1>1. ticker' \in [Streams -> Tickers]
  <2>1. CASE UNCHANGED ticker
    BY <2>1 DEF TInv, TypeOK, Tickers
  <2>2. CASE c \in Streams /\ StreamTick(c)
    <3>1. ticker[c] \in Tickers /\ ticker \in [Streams -> Tickers]
      BY <2>2 DEF TInv, TypeOK, Tickers
    <3>2. QED
      BY <2>2, <3>1 DEF StreamTick, Tickers
  <2>3. QED
    BY <2>1, <2>2 DEF handleCustomSnapshot, handleCustomSSE
<1>2. \A d \in Readers : pc'[d] = "fetch" <=> mu = d
  BY <1>0, AskMoves DEF TInv, TypeOK, Handlers
<1>3. TypeOK'
  BY <1>0, <1>1, <1>2, AskMoves DEF TInv, TypeOK, Tickers, PCs, Handlers
<1>4. KindRespected'
  BY <1>0, AskMoves DEF TInv, KindRespected, Webhook, Handlers
<1>5. QED
  BY <1>3, <1>4 DEF TInv

LEMMA SnapshotCachedTypes ==
  ASSUME TInv, NEW c \in Readers, SnapshotCached(c)
  PROVE  TInv'
<1>0. /\ pc[c] = "lock" /\ mu = Free /\ Return(c, snap) /\ snap \in Snapshot \cup {None}
      /\ UNCHANGED <<kind, clock, source, snap, at, mu, pushed, fetchAt, said, failed>>
  BY DEF SnapshotCached, TInv, TypeOK
<1>1. \A d \in Readers : pc'[d] = "fetch" <=> mu = d
  BY <1>0, ReturnMoves DEF TInv, TypeOK, Handlers
<1>2. TypeOK'
  BY <1>0, <1>1, ReturnMoves DEF TInv, TypeOK, Tickers, PCs, Handlers
<1>3. KindRespected'
  <2>1. \A d \in Pushers : pc'[d] = pc[d]
    BY <1>0, ReturnMoves, CustomAssumption DEF Handlers
  <2>2. QED
    BY <1>0, <2>1 DEF TInv, KindRespected, Webhook
<1>4. QED
  BY <1>2, <1>3 DEF TInv

LEMMA SnapshotFetchTypes ==
  ASSUME TInv, NEW c \in Readers, SnapshotFetch(c)
  PROVE  TInv'
<1>0. /\ pc[c] = "lock" /\ mu = Free /\ mu' = c /\ ~Webhook
      /\ pc' = [pc EXCEPT ![c] = "fetch"] /\ fetchAt' = clock /\ said' = {source}
      /\ UNCHANGED <<kind, clock, source, snap, at, began, pushed, last, ticker, gone, failed>>
  BY DEF SnapshotFetch
<1>1. /\ pc' \in [Handlers -> PCs] /\ clock \in 0 .. clock
      /\ \A d \in Readers : pc'[d] = "fetch" <=> mu' = d
  BY <1>0, ClockTypes, CustomAssumption DEF TInv, TypeOK, PCs, Handlers
<1>2. TypeOK'
  BY <1>0, <1>1, CustomAssumption DEF TInv, TypeOK, PCs, Handlers
<1>3. KindRespected'
  <2>1. \A d \in Pushers : pc'[d] = pc[d]
    BY <1>0, CustomAssumption DEF TInv, TypeOK
  <2>2. QED
    BY <1>0, <1>1, <2>1 DEF TInv, KindRespected, Webhook
<1>4. QED
  BY <1>2, <1>3 DEF TInv

(* A fetch ends, with a snapshot or without. *)
LEMMA FetchEndsTypes ==
  ASSUME TInv, NEW c \in Readers,
         FetchError(c) \/ \E v \in Values : FetchOK(c, v)
  PROVE  TInv'
<1>0. /\ pc[c] = "fetch" /\ mu' = Free /\ fetchAt' = None /\ said' = {}
      /\ UNCHANGED <<kind, clock, source, pushed>>
      /\ failed' \in BOOLEAN
  BY DEF FetchOK, FetchError, TInv, TypeOK
<1>1. /\ snap' \in Snapshot \cup {None} /\ at' \in 0 .. clock
      /\ snap' # None => snap'.fetched <= at'
      /\ snap' # None => snap'.fetched = at'
  <2>1. CASE FetchError(c)
    BY <2>1, Fetching DEF FetchError, TInv, TypeOK, KindRespected
  <2>2. ASSUME NEW v \in Values, FetchOK(c, v)
        PROVE  /\ snap' = [val |-> v, fetched |-> clock] /\ at' = clock
               /\ snap' \in Snapshot /\ clock \in 0 .. clock
    BY <2>2, ClockTypes DEF FetchOK, Snapshot
  <2>3. QED
    BY <2>1, <2>2, ClockTypes
<1>2. \E result \in Snapshot \cup {None} : Return(c, result)
  <2>1. CASE FetchError(c)
    BY <2>1 DEF FetchError
  <2>2. CASE \E v \in Values : FetchOK(c, v)
    BY <1>1, <2>2 DEF FetchOK
  <2>3. QED
    BY <2>1, <2>2
<1>3. PICK result \in Snapshot \cup {None} : Return(c, result)
  BY <1>2
<1>4. \A d \in Readers : pc'[d] # "fetch"
  BY <1>0, <1>3, Fetching, ReturnMoves DEF Handlers
<1>5. TypeOK'
  BY <1>0, <1>1, <1>3, <1>4, ReturnMoves, CustomAssumption DEF TInv, TypeOK, Tickers, PCs, Handlers
<1>6. KindRespected'
  <2>1. \A d \in Pushers : pc'[d] = pc[d]
    BY <1>3, ReturnMoves, CustomAssumption DEF Handlers
  <2>2. QED
    BY <1>0, <1>1, <2>1, Fetching DEF TInv, KindRespected, Webhook
<1>7. QED
  BY <1>5, <1>6 DEF TInv

LEMMA PushTypes ==
  ASSUME TInv, NEW c \in Pushers, NEW v \in Values, NEW token, NEW loopback,
         handleCustomIngest(c, v, token, loopback)
  PROVE  TInv'
<1>0. /\ Webhook /\ pc' = [pc EXCEPT ![c] = "store"]
      /\ pushed' = [pushed EXCEPT ![c] = [val |-> v, fetched |-> clock]]
      /\ UNCHANGED <<kind, clock, source, snap, at, mu, began, last, ticker, gone,
                     fetchAt, said, failed>>
  BY DEF handleCustomIngest
<1>1. [val |-> v, fetched |-> clock] \in Snapshot
  BY ClockTypes DEF Snapshot
<1>2. /\ pc' \in [Handlers -> PCs] /\ pushed' \in [Pushers -> Snapshot \cup {None}]
      /\ \A d \in Readers : pc'[d] = pc[d]
  BY <1>0, <1>1, CustomAssumption DEF TInv, TypeOK, PCs, Handlers
<1>3. TypeOK'
  BY <1>0, <1>2 DEF TInv, TypeOK, PCs, Handlers
<1>4. \A d \in Pushers : pc'[d] = "store" =>
        Webhook /\ pushed'[d] \in Snapshot /\ pushed'[d].fetched <= clock
  BY <1>0, <1>1, ClockTypes DEF TInv, TypeOK, KindRespected
<1>5. KindRespected'
  BY <1>0, <1>4 DEF TInv, KindRespected, Webhook
<1>6. QED
  BY <1>3, <1>5 DEF TInv

LEMMA IngestTypes ==
  ASSUME TInv, NEW c \in Pushers, Ingest(c)
  PROVE  TInv' /\ Webhook
<1>0. /\ pc[c] = "store" /\ snap' = pushed[c] /\ at' = clock
      /\ pc' = [pc EXCEPT ![c] = "idle"] /\ pushed' = [pushed EXCEPT ![c] = None]
      /\ UNCHANGED <<kind, clock, source, mu, began, last, ticker, gone, fetchAt, said, failed>>
  BY DEF Ingest
<1>1. Webhook /\ snap' \in Snapshot /\ snap'.fetched <= at' /\ at' \in 0 .. clock
  BY <1>0, ClockTypes DEF TInv, KindRespected
<1>2. /\ pc' \in [Handlers -> PCs] /\ pushed' \in [Pushers -> Snapshot \cup {None}]
      /\ \A d \in Readers : pc'[d] = pc[d]
  BY <1>0, CustomAssumption DEF TInv, TypeOK, PCs, Handlers
<1>3. TypeOK'
  BY <1>0, <1>1, <1>2 DEF TInv, TypeOK, PCs, Handlers
<1>4. KindRespected'
  BY <1>0, <1>1 DEF TInv, TypeOK, KindRespected, Webhook
<1>5. QED
  BY <1>1, <1>3, <1>4 DEF TInv

LEMMA StreamEndsTypes ==
  ASSUME TInv, NEW c \in Streams, StreamEnds(c)
  PROVE  TInv'
<1>0. c \in Readers /\ c \notin Pushers
  BY CustomAssumption DEF Readers
<1>1. /\ pc' \in [Handlers -> PCs] /\ gone' \subseteq Readers
      /\ last' \in [Streams -> Snapshot \cup {None}]
      /\ \A d \in Readers : pc'[d] = "fetch" <=> mu = d
      /\ \A d \in Pushers : pc'[d] = pc[d]
  BY <1>0 DEF StreamEnds, TInv, TypeOK, PCs, Handlers
<1>2. ticker' \in [Streams -> Tickers]
  BY ClockTypes DEF StreamEnds, NoTicker, TInv, TypeOK, Tickers
<1>3. TypeOK'
  BY <1>1, <1>2 DEF StreamEnds, TInv, TypeOK, PCs, Handlers, Tickers
<1>4. KindRespected'
  BY <1>1 DEF StreamEnds, TInv, KindRespected, Webhook
<1>5. QED
  BY <1>3, <1>4 DEF TInv

LEMMA TickTypes ==
  ASSUME TInv, Tick
  PROVE  /\ TInv' /\ clock' = clock + 1
         /\ \A d \in Streams :
              ticker'[d] = IF ticker[d].next = clock + 1
                           THEN [next |-> clock + 1 + Refresh, ready |-> TRUE] ELSE ticker[d]
<1>0. /\ clock < MaxTime /\ clock' = clock + 1
      /\ UNCHANGED <<kind, source, snap, at, mu, pc, began, pushed, last, gone, fetchAt, said,
                     failed>>
  BY DEF Tick
<1>1. /\ clock' \in 0 .. MaxTime /\ at' \in 0 .. clock'
      /\ \A n \in 0 .. clock : n \in 0 .. clock'
      /\ clock + 1 + Refresh \in 0 .. MaxTime + Refresh
  BY <1>0, ClockTypes
<1>2. began' \in [Readers -> 0 .. clock'] /\ fetchAt' \in (0 .. clock') \cup {None}
  BY <1>0, <1>1 DEF TInv, TypeOK
<1>3. ticker' \in [Streams -> Tickers]
  <2>1. [next |-> clock + 1 + Refresh, ready |-> TRUE] \in Tickers
    BY <1>1 DEF Tickers
  <2>2. QED
    BY <2>1 DEF Tick, TInv, TypeOK, Tickers
<1>4. TypeOK'
  BY <1>0, <1>1, <1>2, <1>3 DEF TInv, TypeOK, Tickers
<1>5. KindRespected'
  <2>1. \A n \in 0 .. MaxTime : n <= clock => n <= clock'
    BY <1>0, ClockTypes
  <2>2. \A d \in Pushers : pc[d] = "store" => pushed[d].fetched <= clock'
    BY <2>1 DEF TInv, KindRespected, Snapshot
  <2>3. QED
    BY <1>0, <1>1, <2>2 DEF TInv, KindRespected, Webhook
<1>6. QED
  BY <1>0, <1>4, <1>5 DEF TInv, Tick

LEMMA TypesInductive == TInv /\ [Next]_vars => TInv'
<1> SUFFICES ASSUME TInv, [Next]_vars PROVE TInv'
  OBVIOUS
<1>1. ASSUME NEW c \in Readers, HangUp(c) PROVE TInv'
  BY <1>1 DEF HangUp, TInv, TypeOK, KindRespected, Webhook
<1>2. ASSUME NEW v \in Values, SourceChanges(v) PROVE TInv'
  <2>1. said' \subseteq Values /\ (said' = {} <=> said = {})
    BY <1>2 DEF SourceChanges, TInv, TypeOK
  <2>2. QED
    BY <1>2, <2>1 DEF SourceChanges, TInv, TypeOK, KindRespected, Webhook
<1>3. CASE UNCHANGED vars
  BY <1>3 DEF vars, TInv, TypeOK, KindRespected, Webhook
<1>4. ASSUME NEW c \in Getters, handleCustomSnapshot(c) PROVE TInv'
  BY <1>4, AskTypes DEF Readers
<1>5. ASSUME NEW c \in Streams, handleCustomSSE(c) \/ StreamTick(c) \/ StreamEnds(c) PROVE TInv'
  BY <1>5, AskTypes, StreamEndsTypes DEF Readers
<1>6. ASSUME NEW c \in Readers,
             SnapshotCached(c) \/ SnapshotFetch(c) \/ FetchError(c) \/ \E v \in Values : FetchOK(c, v)
      PROVE  TInv'
  BY <1>6, SnapshotCachedTypes, SnapshotFetchTypes, FetchEndsTypes
<1>7. QED
  BY <1>1, <1>2, <1>3, <1>4, <1>5, <1>6, PushTypes, IngestTypes, TickTypes DEF Next

LEMMA InitTypes == Init => TInv
<1> SUFFICES ASSUME Init PROVE TInv
  OBVIOUS
<1>1. NoTicker \in Tickers /\ 0 \in 0 .. MaxTime /\ 0 \in 0 .. 0
  BY CustomAssumption DEF NoTicker, Tickers
<1>2. QED
  BY <1>1, CustomAssumption DEF Init, TInv, TypeOK, KindRespected, Webhook, Tickers

(* channel.mu is held exactly by the reader that fetches, and no snapshot   *)
(* is dated in the future, pushed or fetched (snapshot, Ingest).            *)
THEOREM TypeCorrect == Spec => []TypeOK
<1>1. TInv => TypeOK
  BY DEF TInv
<1>2. QED
  BY <1>1, InitTypes, TypesInductive, PTL DEF Spec

-----------------------------------------------------------------------------
(* What FeedCache sees of a channel. *)
HeldNow == IF Webhook \/ snap = None THEN None
           ELSE [content |-> snap.val, age |-> IF Cached THEN clock - at ELSE Refresh]

LEMMA HeldExpired == ASSUME TInv, ~Webhook PROVE Cache!Expired("it") <=> ~Cached
<1>1. CASE snap = None
  BY <1>1 DEF Cache!Expired, Cached
<1>2. CASE snap # None /\ Cached
  <2>1. clock - at # Refresh /\ clock - at \in 0 .. Refresh
    BY <1>2, ClockTypes DEF Cached
  <2>2. snap.val \in Values
    BY <1>2 DEF TInv, TypeOK, Snapshot
  <2>3. [content |-> snap.val, age |-> clock - at] \in Held
    BY <2>1, <2>2 DEF Held
  <2>4. QED
    BY <1>2, <2>1, <2>3, CustomAssumption DEF Cache!Expired
<1>3. CASE snap # None /\ ~Cached
  BY <1>3 DEF Cache!Expired
<1>4. QED
  BY <1>1, <1>2, <1>3

LEMMA StepRefines == TInv /\ TInv' /\ [Next]_vars => [Cache!Next]_(Cache!fcVars)
<1> SUFFICES ASSUME TInv, TInv', [Next]_vars PROVE [Cache!Next]_(Cache!fcVars)
  OBVIOUS
<1>1. ASSUME UNCHANGED <<source, said, HeldNow>> PROVE [Cache!Next]_(Cache!fcVars)
  BY <1>1 DEF Cache!fcVars, HeldNow
<1>2. ASSUME UNCHANGED <<kind, clock, source, snap, at, said>> PROVE [Cache!Next]_(Cache!fcVars)
  BY <1>1, <1>2 DEF HeldNow, Webhook, Cached
<1>3. ASSUME NEW c \in Readers, SnapshotFetch(c) PROVE Cache!Next
  <2>1. /\ said = {} /\ said' = {source} /\ UNCHANGED <<kind, clock, source, snap, at>>
        /\ ~Webhook /\ ~Cached
    BY <1>3 DEF SnapshotFetch, TInv, TypeOK
  <2>2. Cache!Expired("it")
    BY <2>1, HeldExpired
  <2>3. Cache!Begin("it")
    BY <2>1, <2>2 DEF Cache!Begin, Webhook, Cached
  <2>4. QED
    BY <2>3 DEF Cache!Next
<1>4. ASSUME NEW c \in Readers, NEW v \in Values, FetchOK(c, v) PROVE Cache!Next
  <2>1. /\ v \in said /\ said' = {} /\ UNCHANGED <<kind, source>>
        /\ snap' = [val |-> v, fetched |-> clock] /\ at' = clock /\ clock' = clock
        /\ ~Webhook
    BY <1>4, Fetching DEF FetchOK
  <2>2. snap' # None /\ snap'.val = v
    BY <2>1, ClockTypes, CustomAssumption DEF Snapshot
  <2>3. Cached' /\ clock' - at' = 0 /\ ~Webhook'
    BY <2>1, <2>2, ClockTypes DEF Cached, Webhook
  <2>4. Cache!Store("it", v)
    BY <2>1, <2>2, <2>3 DEF Cache!Store
  <2>5. QED
    BY <2>4 DEF Cache!Next
<1>5. ASSUME NEW c \in Readers, FetchError(c) PROVE Cache!Next
  <2>1. said # {} /\ said' = {} /\ UNCHANGED <<kind, clock, source, snap, at>>
    BY <1>5, Fetching DEF FetchError
  <2>2. Cache!Abandon("it")
    BY <2>1 DEF Cache!Abandon, Webhook, Cached
  <2>3. QED
    BY <2>2 DEF Cache!Next
<1>6. ASSUME NEW v \in Values, SourceChanges(v) PROVE Cache!Next
  <2>1. /\ source' = v /\ said' = IF said = {} THEN {} ELSE said \cup {v}
        /\ UNCHANGED <<kind, clock, snap, at>>
    BY <1>6 DEF SourceChanges
  <2>2. Cache!Change("it", v)
    BY <2>1 DEF Cache!Change, Webhook, Cached
  <2>3. QED
    BY <2>2 DEF Cache!Next
<1>7. ASSUME NEW c \in Pushers, Ingest(c) PROVE [Cache!Next]_(Cache!fcVars)
  BY <1>1, <1>7, IngestTypes DEF Ingest, HeldNow, Webhook
<1>8. CASE Tick
  <2>0. UNCHANGED <<kind, source, snap, at, said>> /\ clock' = clock + 1
    BY <1>8 DEF Tick
  <2>1. CASE Webhook \/ snap = None
    BY <1>1, <2>0, <2>1 DEF HeldNow, Webhook
  <2>2. CASE ~Webhook /\ snap # None
    <3>1. CASE ~Cached
      <4>1. ~Cached'
        BY <2>0, <3>1, ClockTypes DEF Cached
      <4>2. QED
        BY <1>1, <2>0, <2>2, <3>1, <4>1 DEF HeldNow, Webhook
    <3>2. CASE Cached
      <4>1. (IF Cached THEN clock - at ELSE Refresh)' = clock - at + 1
        BY <2>0, <2>2, <3>2, ClockTypes DEF Cached
      <4>2. ~Cache!Expired("it") /\ ~Webhook'
        BY <2>0, <2>2, <3>2, HeldExpired DEF Webhook
      <4>3. Cache!Elapse
        BY <2>0, <2>2, <3>2, <4>1, <4>2 DEF Cache!Elapse
      <4>4. QED
        BY <4>3 DEF Cache!Next
    <3>3. QED
      BY <3>1, <3>2
  <2>3. QED
    BY <2>1, <2>2
<1>9. ASSUME NEW c \in Streams \cup Getters,
             \/ handleCustomSnapshot(c) \/ handleCustomSSE(c) \/ StreamTick(c)
             \/ StreamEnds(c) \/ SnapshotCached(c) \/ HangUp(c)
      PROVE  [Cache!Next]_(Cache!fcVars)
  BY <1>2, <1>9 DEF handleCustomSnapshot, handleCustomSSE, StreamTick, StreamEnds,
                    SnapshotCached, HangUp
<1>10. ASSUME NEW c \in Pushers, NEW v \in Values, NEW token, NEW loopback,
              handleCustomIngest(c, v, token, loopback)
       PROVE  [Cache!Next]_(Cache!fcVars)
  BY <1>2, <1>10 DEF handleCustomIngest
<1>11. CASE UNCHANGED vars
  BY <1>2, <1>11 DEF vars
<1>12. QED
  <2>1. CASE Next
    BY <1>3, <1>4, <1>5, <1>6, <1>7, <1>8, <1>9, <1>10, <2>1 DEF Next, Readers
  <2>2. QED
    BY <1>11, <2>1

(* A pulled channel is the cache FeedCache specifies, a webhook channel     *)
(* never reads, and what is pushed is none of its content (snapshot).       *)
THEOREM ImplementsFeedCache == Spec => IsFeedCache
<1>1. Init => Cache!Init
  BY DEF Init, Cache!Init
<1>2. QED
  BY <1>1, InitTypes, TypesInductive, StepRefines, PTL DEF Spec, IsFeedCache, Cache!Spec

-----------------------------------------------------------------------------
(* A step that leaves time, the lock and every waiting reader alone. *)
LEMMA QuietWaits ==
  ASSUME TInv, TInv', WInv, UNCHANGED <<kind, clock, mu, fetchAt>>, failed => failed',
         snap' # None \/ UNCHANGED snap, at' \in {at, clock},
         \A c \in Readers : pc'[c] \in {"lock", "fetch"} =>
           \/ began'[c] = clock
           \/ pc[c] \in {"lock", "fetch"} /\ began'[c] = began[c]
  PROVE  WInv'
<1>1. SUFFICES ASSUME ~failed, ~failed' PROVE WInv'
  BY DEF WInv, WaitExplained, WaitBounded
<1>2. Cached /\ at = clock => Cached' /\ at' = clock'
  BY ClockTypes DEF Cached
<1>3. mu # Free => fetchAt <= clock
  BY ClockTypes DEF TInv, KindRespected
<1>4. ASSUME NEW c \in Readers, pc'[c] \in {"lock", "fetch"}
      PROVE  /\ mu' # Free => fetchAt' <= began'[c]
             /\ mu' = Free => began'[c] = clock' \/ (Cached' /\ at' = clock')
             /\ kind' # "orphan" => clock' <= began'[c] + FetchTimeout
  <2>1. CASE began'[c] = clock
    BY <1>3, <2>1, ClockTypes
  <2>2. CASE pc[c] \in {"lock", "fetch"} /\ began'[c] = began[c]
    BY <1>1, <1>2, <2>2 DEF WInv, WaitExplained, WaitBounded
  <2>3. QED
    BY <1>4, <2>1, <2>2
<1>5. WaitExplained'
  BY <1>1, <1>4 DEF WInv, WaitExplained
<1>6. WaitBounded'
  BY <1>4 DEF WaitBounded
<1>7. QED
  BY <1>5, <1>6 DEF WInv

LEMMA AskWaits ==
  ASSUME TInv, TInv', WInv, NEW c \in Readers,
         handleCustomSnapshot(c) \/ handleCustomSSE(c) \/ StreamTick(c)
  PROVE  WInv'
<1>1. Ask(c) /\ UNCHANGED <<kind, clock, snap, at, mu, fetchAt, failed>>
  BY DEF handleCustomSnapshot, handleCustomSSE, StreamTick
<1>2. QED
  BY <1>1, AskMoves, QuietWaits DEF Handlers

LEMMA SnapshotCachedWaits ==
  ASSUME TInv, TInv', WInv, NEW c \in Readers, SnapshotCached(c)
  PROVE  WInv'
<1>1. /\ Return(c, snap) /\ snap \in Snapshot \cup {None}
      /\ UNCHANGED <<kind, clock, snap, at, mu, fetchAt, failed>>
  BY DEF SnapshotCached, TInv, TypeOK
<1>2. QED
  BY <1>1, ReturnMoves, QuietWaits DEF Handlers

LEMMA SnapshotFetchWaits ==
  ASSUME TInv, TInv', WInv, NEW c \in Readers, SnapshotFetch(c)
  PROVE  WInv'
<1>1. SUFFICES ASSUME ~failed PROVE WInv'
  BY DEF SnapshotFetch, WInv, WaitExplained, WaitBounded
<1>2. /\ mu = Free /\ mu' # Free /\ ~Cached /\ fetchAt' = clock
      /\ pc[c] = "lock" /\ pc' = [pc EXCEPT ![c] = "fetch"]
      /\ UNCHANGED <<kind, clock, began, failed>>
  BY CustomAssumption DEF SnapshotFetch
<1>3. ASSUME NEW d \in Readers, pc'[d] \in {"lock", "fetch"} PROVE began[d] = clock
  BY <1>1, <1>2, <1>3 DEF WInv, WaitExplained, TInv, TypeOK
<1>4. WaitExplained' /\ WaitBounded'
  BY <1>2, <1>3, ClockTypes DEF WaitExplained, WaitBounded
<1>5. QED
  BY <1>4 DEF WInv

LEMMA FetchOKWaits ==
  ASSUME TInv, TInv', WInv, NEW c \in Readers, NEW v \in Values, FetchOK(c, v)
  PROVE  WInv'
<1>1. /\ snap' = [val |-> v, fetched |-> clock] /\ at' = clock /\ mu' = Free
      /\ Return(c, snap') /\ UNCHANGED <<kind, clock, failed>> /\ snap' \in Snapshot
  BY ClockTypes DEF FetchOK, Snapshot
<1>2. Cached' /\ at' = clock'
  BY <1>1, ClockTypes, CustomAssumption DEF Cached
<1>3. ASSUME NEW d \in Readers, pc'[d] \in {"lock", "fetch"}
      PROVE  pc[d] = pc'[d] /\ began'[d] = began[d]
  BY <1>1, <1>3, ReturnMoves DEF Handlers
<1>4. WaitExplained' /\ WaitBounded'
  BY <1>1, <1>2, <1>3 DEF WInv, WaitExplained, WaitBounded
<1>5. QED
  BY <1>4 DEF WInv

LEMMA TickWaits ==
  ASSUME TInv, TInv', WInv, Tick
  PROVE  WInv'
<1>1. SUFFICES ASSUME ~failed PROVE WInv'
  BY DEF Tick, WInv, WaitExplained, WaitBounded
<1>2. clock' = clock + 1 /\ UNCHANGED <<kind, mu, pc, began, fetchAt, failed>>
  BY DEF Tick
<1>3. mu # Free /\ kind # "orphan" => clock' <= fetchAt + FetchTimeout
  <2>1. mu # Free => fetchAt \in 0 .. clock
    BY DEF TInv, KindRespected
  <2>2. QED
    BY <1>2, <2>1, ClockTypes DEF Tick
<1>4. ASSUME NEW c \in Readers, pc[c] \in {"lock", "fetch"}
      PROVE  /\ mu # Free /\ fetchAt <= began[c]
             /\ kind # "orphan" => clock' <= began[c] + FetchTimeout
  <2>1. mu # Free
    BY <1>4, Fetching DEF Tick
  <2>2. fetchAt <= began[c] /\ fetchAt \in 0 .. clock /\ began[c] \in 0 .. clock
    BY <1>1, <1>4, <2>1 DEF WInv, WaitExplained, TInv, TypeOK, KindRespected
  <2>3. QED
    BY <1>2, <1>3, <2>1, <2>2, ClockTypes
<1>5. WaitExplained' /\ WaitBounded'
  BY <1>2, <1>3, <1>4 DEF WaitExplained, WaitBounded
<1>6. QED
  BY <1>5 DEF WInv

LEMMA WaitsInductive == TInv /\ TInv' /\ WInv /\ [Next]_vars => WInv'
<1> SUFFICES ASSUME TInv, TInv', WInv, [Next]_vars PROVE WInv'
  OBVIOUS
<1>1. ASSUME NEW c \in Readers, FetchError(c) PROVE WInv'
  BY <1>1 DEF FetchError, WInv, WaitExplained, WaitBounded
<1>2. ASSUME NEW c \in Readers, HangUp(c) PROVE WInv'
  BY <1>2, QuietWaits DEF HangUp
<1>3. ASSUME NEW c \in Streams, StreamEnds(c) PROVE WInv'
  <2>1. \A d \in Readers : pc'[d] \in {"lock", "fetch"} => pc'[d] = pc[d]
    BY <1>3 DEF StreamEnds, TInv, TypeOK
  <2>2. QED
    BY <1>3, <2>1, QuietWaits DEF StreamEnds
<1>4. ASSUME NEW c \in Pushers, NEW v \in Values, NEW token, NEW loopback,
             handleCustomIngest(c, v, token, loopback)
      PROVE  WInv'
  <2>1. \A d \in Readers : pc'[d] = pc[d]
    BY <1>4, CustomAssumption DEF handleCustomIngest, TInv, TypeOK
  <2>2. QED
    BY <1>4, <2>1, QuietWaits DEF handleCustomIngest
<1>5. ASSUME NEW c \in Pushers, Ingest(c) PROVE WInv'
  <2>1. \A d \in Readers : pc'[d] = pc[d]
    BY <1>5, CustomAssumption DEF Ingest, TInv, TypeOK
  <2>2. snap' # None
    BY <1>5, CustomAssumption DEF Ingest, TInv, KindRespected
  <2>3. QED
    BY <1>5, <2>1, <2>2, QuietWaits DEF Ingest
<1>6. ASSUME NEW v \in Values, SourceChanges(v) PROVE WInv'
  BY <1>6, QuietWaits DEF SourceChanges
<1>7. CASE UNCHANGED vars
  BY <1>7, QuietWaits DEF vars
<1>8. ASSUME NEW c \in Getters, handleCustomSnapshot(c) PROVE WInv'
  BY <1>8, AskWaits DEF Readers
<1>9. ASSUME NEW c \in Streams, handleCustomSSE(c) \/ StreamTick(c) PROVE WInv'
  BY <1>9, AskWaits DEF Readers
<1>10. QED
  BY <1>1, <1>2, <1>3, <1>4, <1>5, <1>6, <1>7, <1>8, <1>9, SnapshotCachedWaits,
     SnapshotFetchWaits, FetchOKWaits, TickWaits DEF Next

LEMMA InitWaits == Init => WInv
BY DEF Init, WInv, WaitExplained, WaitBounded

(* While no fetch has failed or waits for an orphan, a reader waits for one *)
(* fetch at most, however many readers share channel.mu (snapshot).         *)
THEOREM WaitsAreBounded == Spec => []WaitBounded
<1>1. WInv => WaitBounded
  BY DEF WInv
<1>2. QED
  BY <1>1, InitTypes, TypesInductive, InitWaits, WaitsInductive, PTL DEF Spec

-----------------------------------------------------------------------------
(* A step that leaves the streams, the snapshot and the time alone. *)
LEMMA QuietStreams ==
  ASSUME SInv, UNCHANGED <<kind, clock, snap, at, last, ticker, began, failed>>,
         \A d \in Streams : pc'[d] = pc[d]
  PROVE  SInv'
BY DEF SInv, TickerRuns, Connected, FreshUntilAsked, AsksForStored, Webhook

(* The types of what a stream remembers. *)
LEMMA StreamTypes ==
  ASSUME TInv, NEW d \in Streams
  PROVE  /\ d \in Readers /\ d \in Handlers /\ d \notin Getters
         /\ ticker[d].next \in Nat /\ ticker[d].ready \in BOOLEAN /\ began[d] \in Nat
         /\ last[d] \in Snapshot \cup {None}
         /\ last[d] # None => last[d].fetched \in Nat
BY CustomAssumption DEF TInv, TypeOK, Readers, Handlers, Snapshot

LEMMA AskStreams ==
  ASSUME TInv, SInv, NEW c \in Readers,
         handleCustomSnapshot(c) \/ handleCustomSSE(c) \/ (c \in Streams /\ StreamTick(c))
  PROVE  SInv'
<1>1. /\ Ask(c) /\ UNCHANGED <<kind, clock, snap, at, last, failed>>
      /\ pc[c] = "idle" \/ (c \in Streams /\ pc[c] = "watch")
  BY DEF handleCustomSnapshot, handleCustomSSE, StreamTick
<1>2. \A d \in Streams : /\ ticker'[d].next = ticker[d].next
                         /\ d # c => ticker'[d] = ticker[d]
  <2>1. CASE UNCHANGED ticker
    BY <2>1
  <2>2. CASE c \in Streams /\ StreamTick(c)
    BY <2>2 DEF StreamTick, TInv, TypeOK
  <2>3. QED
    BY <2>1, <2>2 DEF handleCustomSnapshot, handleCustomSSE
<1>3. \A d \in Streams : /\ pc'[d] = IF d = c THEN "lock" ELSE pc[d]
                         /\ began'[d] = IF d = c THEN clock ELSE began[d]
  BY <1>1, AskMoves, StreamTypes
<1>4. TickerRuns' /\ Connected'
  BY <1>1, <1>2, <1>3 DEF SInv, TickerRuns, Connected
<1>5. FreshUntilAsked'
  BY <1>1, <1>2, <1>3 DEF SInv, Connected, FreshUntilAsked
<1>6. AsksForStored'
  BY <1>1, <1>2, <1>3 DEF SInv, AsksForStored, Webhook
<1>7. QED
  BY <1>4, <1>5, <1>6 DEF SInv

LEMMA StreamEndsStreams ==
  ASSUME TInv, SInv, NEW c \in Streams, StreamEnds(c)
  PROVE  SInv'
<1>1. /\ UNCHANGED <<kind, clock, snap, at, began, failed>>
      /\ \A d \in Streams : /\ pc'[d] = IF d = c THEN "idle" ELSE pc[d]
                            /\ last'[d] = IF d = c THEN None ELSE last[d]
                            /\ ticker'[d] = IF d = c THEN NoTicker ELSE ticker[d]
  BY StreamTypes DEF StreamEnds, TInv, TypeOK, Handlers
<1>2. NoTicker.next = 0
  BY DEF NoTicker
<1>3. TickerRuns' /\ Connected'
  BY <1>1, <1>2, ClockTypes DEF SInv, TickerRuns, Connected
<1>4. FreshUntilAsked' /\ AsksForStored'
  BY <1>1 DEF SInv, FreshUntilAsked, AsksForStored, Webhook
<1>5. QED
  BY <1>3, <1>4 DEF SInv

(* A reader returns with what is stored, old or new: a stream has sent it,  *)
(* and the others ask for it in time.                                       *)
LEMMA ReturnStreams ==
  ASSUME TInv, TInv', SInv, NEW c \in Readers, Return(c, snap'), snap' \in Snapshot \cup {None},
         UNCHANGED <<kind, clock, failed>>, pc[c] \in {"lock", "fetch"},
         UNCHANGED <<snap, at>> \/ at' = clock,
         kind = "pull" => snap' # None /\ clock < at' + Refresh
  PROVE  SInv'
<1>1. \A d \in Streams :
        /\ pc'[d] = IF d # c THEN pc[d] ELSE "watch"
        /\ began'[d] = IF d = c THEN 0 ELSE began[d]
        /\ last'[d] = IF d = c /\ snap' # None THEN snap' ELSE last[d]
        /\ ticker'[d].ready = ticker[d].ready
        /\ ticker'[d].next = IF d = c /\ ticker[d].next = 0 THEN clock + Refresh
                             ELSE ticker[d].next
  BY ReturnMoves, StreamTypes
<1>2. TickerRuns'
  BY <1>1, ClockTypes, StreamTypes DEF SInv, TickerRuns
<1>3. Connected'
  BY <1>1 DEF SInv, Connected
<1>4. ASSUME NEW d \in Streams, kind = "pull", ~failed, last'[d] # None
      PROVE  /\ pc'[d] = "watch" =>
                  /\ clock < last'[d].fetched + 2 * Refresh
                  /\ ticker'[d].ready \/ ticker'[d].next < last'[d].fetched + 2 * Refresh
             /\ pc'[d] \in {"lock", "fetch"} => began'[d] < last'[d].fetched + 2 * Refresh
  <2>1. CASE d # c
    BY <1>1, <1>4, <2>1 DEF SInv, FreshUntilAsked
  <2>2. CASE d = c
    <3>1. /\ last'[d].fetched = at' /\ clock < at' + Refresh /\ pc'[d] = "watch"
      BY <1>1, <1>4, <2>2 DEF TInv, KindRespected, Webhook
    <3>2. ticker'[d].next <= clock + Refresh /\ ticker'[d].next \in Nat
      BY <1>1, <1>2, ClockTypes, StreamTypes DEF TickerRuns
    <3>3. at' \in Nat /\ at' <= clock
      BY ClockTypes
    <3>4. QED
      BY <3>1, <3>2, <3>3, ClockTypes
  <2>3. QED
    BY <2>1, <2>2
<1>5. FreshUntilAsked'
  BY <1>4 DEF FreshUntilAsked
<1>6. ASSUME NEW d \in Streams, Webhook \/ ~failed, pc'[d] = "watch", ~ticker'[d].ready,
             snap' # None, last'[d] # snap'
      PROVE  ticker'[d].next <= at' + Refresh
  <2>1. d # c
    BY <1>1, <1>6
  <2>2. CASE UNCHANGED <<snap, at>>
    BY <1>1, <1>6, <2>1, <2>2 DEF SInv, AsksForStored
  <2>3. CASE at' = clock
    BY <1>1, <2>1, <2>3 DEF SInv, TickerRuns
  <2>4. QED
    BY <2>2, <2>3
<1>7. AsksForStored'
  BY <1>6 DEF AsksForStored, Webhook
<1>8. QED
  BY <1>2, <1>3, <1>5, <1>7 DEF SInv

LEMMA SnapshotCachedStreams ==
  ASSUME TInv, TInv', SInv, NEW c \in Readers, SnapshotCached(c)
  PROVE  SInv'
<1>1. /\ Return(c, snap) /\ pc[c] = "lock" /\ (Webhook \/ Cached)
      /\ UNCHANGED <<kind, clock, snap, at, failed>>
  BY DEF SnapshotCached
<1>2. Return(c, snap') /\ snap' \in Snapshot \cup {None}
  BY <1>1 DEF TInv, TypeOK
<1>3. kind = "pull" => snap' # None /\ clock < at' + Refresh
  BY <1>1, ClockTypes DEF Cached, Webhook
<1>4. QED
  BY <1>1, <1>2, <1>3, ReturnStreams

LEMMA FetchOKStreams ==
  ASSUME TInv, TInv', SInv, NEW c \in Readers, NEW v \in Values, FetchOK(c, v)
  PROVE  SInv'
<1>1. /\ snap' = [val |-> v, fetched |-> clock] /\ at' = clock /\ snap' \in Snapshot
      /\ Return(c, snap') /\ UNCHANGED <<kind, clock, failed>> /\ pc[c] = "fetch"
  BY ClockTypes DEF FetchOK, Snapshot
<1>2. snap' # None /\ clock < at' + Refresh
  BY <1>1, ClockTypes, CustomAssumption
<1>3. QED
  BY <1>1, <1>2, ReturnStreams

LEMMA FetchErrorStreams ==
  ASSUME TInv, TInv', SInv, NEW c \in Readers, FetchError(c)
  PROVE  SInv'
<1>1. /\ Return(c, None) /\ failed' = TRUE /\ pc[c] = "fetch"
      /\ UNCHANGED <<kind, clock, snap, at>> /\ ~Webhook
  BY Fetching DEF FetchError
<1>2. \A d \in Streams :
        /\ pc'[d] = IF d # c THEN pc[d] ELSE "watch"
        /\ last'[d] = last[d]
        /\ ticker'[d].next = IF d = c /\ ticker[d].next = 0 THEN clock + Refresh
                             ELSE ticker[d].next
  BY <1>1, ReturnMoves, StreamTypes
<1>3. TickerRuns'
  BY <1>1, <1>2, ClockTypes, StreamTypes DEF SInv, TickerRuns
<1>4. Connected'
  BY <1>1, <1>2 DEF SInv, Connected
<1>5. FreshUntilAsked' /\ AsksForStored'
  BY <1>1 DEF FreshUntilAsked, AsksForStored, Webhook
<1>6. QED
  BY <1>3, <1>4, <1>5 DEF SInv

LEMMA IngestStreams ==
  ASSUME TInv, SInv, NEW c \in Pushers, Ingest(c)
  PROVE  SInv'
<1>1. /\ at' = clock /\ Webhook
      /\ UNCHANGED <<kind, clock, began, last, ticker, failed>>
  BY IngestTypes DEF Ingest
<1>2. \A d \in Streams : pc'[d] = pc[d]
  BY CustomAssumption, StreamTypes DEF Ingest, TInv, TypeOK, Handlers
<1>3. TickerRuns' /\ Connected' /\ FreshUntilAsked'
  BY <1>1, <1>2 DEF SInv, TickerRuns, Connected, FreshUntilAsked
<1>4. AsksForStored'
  BY <1>1 DEF SInv, TickerRuns, AsksForStored
<1>5. QED
  BY <1>3, <1>4 DEF SInv

LEMMA TickStreams ==
  ASSUME TInv, SInv, Tick
  PROVE  SInv'
<1>1. /\ clock' = clock + 1
      /\ UNCHANGED <<kind, snap, at, pc, began, last, failed>>
      /\ \A d \in Streams : pc[d] = "watch" => ~ticker[d].ready
  BY DEF Tick
<1>2. \A d \in Streams :
        /\ ticker[d].next = clock + 1 =>
             ticker'[d].next = clock + 1 + Refresh /\ ticker'[d].ready
        /\ ticker[d].next # clock + 1 => ticker'[d] = ticker[d]
  BY TickTypes
<1>3. TickerRuns'
  BY <1>1, <1>2, ClockTypes, StreamTypes DEF SInv, TickerRuns
<1>4. Connected'
  BY <1>1 DEF SInv, Connected
<1>5. ASSUME NEW d \in Streams, kind = "pull", ~failed, last[d] # None
      PROVE  /\ pc[d] = "watch" =>
                  /\ clock' < last[d].fetched + 2 * Refresh
                  /\ ticker'[d].ready \/ ticker'[d].next < last[d].fetched + 2 * Refresh
             /\ pc[d] \in {"lock", "fetch"} => began[d] < last[d].fetched + 2 * Refresh
  <2>1. CASE pc[d] = "watch"
    <3>1. /\ ticker[d].next < last[d].fetched + 2 * Refresh /\ ticker[d].next # 0
          /\ ticker[d].next > clock
      BY <1>1, <1>5, <2>1 DEF SInv, TickerRuns, FreshUntilAsked
    <3>2. QED
      BY <1>1, <1>2, <1>5, <2>1, <3>1, ClockTypes, StreamTypes
  <2>2. CASE pc[d] # "watch"
    BY <1>5, <2>2 DEF SInv, FreshUntilAsked
  <2>3. QED
    BY <2>1, <2>2
<1>6. FreshUntilAsked'
  BY <1>1, <1>5 DEF FreshUntilAsked
<1>7. AsksForStored'
  BY <1>1, <1>2 DEF SInv, AsksForStored, Webhook
<1>8. QED
  BY <1>3, <1>4, <1>6, <1>7 DEF SInv

LEMMA StreamsInductive == TInv /\ TInv' /\ SInv /\ [Next]_vars => SInv'
<1> SUFFICES ASSUME TInv, TInv', SInv, [Next]_vars PROVE SInv'
  OBVIOUS
<1>1. ASSUME NEW c \in Readers, SnapshotFetch(c) PROVE SInv'
  <2>1. /\ UNCHANGED <<kind, clock, snap, at, last, ticker, began, failed>>
        /\ \A d \in Streams : pc'[d] = IF d = c THEN "fetch" ELSE pc[d]
        /\ pc[c] = "lock"
    BY <1>1, StreamTypes DEF SnapshotFetch, TInv, TypeOK, Handlers
  <2>2. QED
    BY <2>1 DEF SInv, TickerRuns, Connected, FreshUntilAsked, AsksForStored, Webhook
<1>2. ASSUME NEW c \in Readers, HangUp(c) PROVE SInv'
  BY <1>2, QuietStreams DEF HangUp
<1>3. ASSUME NEW c \in Pushers, NEW v \in Values, NEW token, NEW loopback,
             handleCustomIngest(c, v, token, loopback)
      PROVE  SInv'
  <2>1. \A d \in Streams : pc'[d] = pc[d]
    BY <1>3, CustomAssumption, StreamTypes DEF handleCustomIngest, TInv, TypeOK, Handlers
  <2>2. QED
    BY <1>3, <2>1, QuietStreams DEF handleCustomIngest
<1>4. ASSUME NEW v \in Values, SourceChanges(v) PROVE SInv'
  BY <1>4, QuietStreams DEF SourceChanges
<1>5. CASE UNCHANGED vars
  BY <1>5, QuietStreams DEF vars
<1>6. ASSUME NEW c \in Getters, handleCustomSnapshot(c) PROVE SInv'
  BY <1>6, AskStreams DEF Readers
<1>7. ASSUME NEW c \in Streams, handleCustomSSE(c) \/ StreamTick(c) PROVE SInv'
  BY <1>7, AskStreams DEF Readers
<1>8. QED
  BY <1>1, <1>2, <1>3, <1>4, <1>5, <1>6, <1>7, StreamEndsStreams, SnapshotCachedStreams,
     FetchOKStreams, FetchErrorStreams, IngestStreams, TickStreams DEF Next

LEMMA InitStreams == Init => SInv
<1> SUFFICES ASSUME Init PROVE SInv
  OBVIOUS
<1>1. \A d \in Streams : pc[d] = "idle" /\ last[d] = None /\ ticker[d].next = 0
  BY DEF Init, Readers, NoTicker
<1>2. QED
  BY <1>1, CustomAssumption
     DEF Init, SInv, TickerRuns, Connected, FreshUntilAsked, AsksForStored

LEMMA StreamsImply == TInv /\ WInv /\ SInv => StreamFresh /\ StreamFollows
<1> SUFFICES ASSUME TInv, WInv, SInv PROVE StreamFresh /\ StreamFollows
  OBVIOUS
<1>1. ASSUME NEW c \in Streams, kind = "pull", ~failed, pc[c] # "idle", last[c] # None
      PROVE  clock < last[c].fetched + 2 * Refresh + FetchTimeout
  <2>1. pc[c] \in {"lock", "fetch", "watch"}
    BY <1>1, StreamTypes DEF SInv, Connected, TInv, TypeOK, Handlers
  <2>2. CASE pc[c] = "watch"
    BY <1>1, <2>2, ClockTypes, StreamTypes DEF SInv, FreshUntilAsked
  <2>3. CASE pc[c] \in {"lock", "fetch"}
    <3>1. began[c] < last[c].fetched + 2 * Refresh /\ clock <= began[c] + FetchTimeout
      BY <1>1, <2>3, StreamTypes DEF SInv, FreshUntilAsked, WInv, WaitBounded
    <3>2. QED
      BY <1>1, <3>1, ClockTypes, StreamTypes
  <2>4. QED
    BY <2>1, <2>2, <2>3
<1>2. ASSUME NEW c \in Streams, Webhook \/ ~failed, pc[c] = "watch", ~ticker[c].ready,
             snap # None, clock >= at + Refresh, last[c] # snap
      PROVE  FALSE
  <2>1. ticker[c].next <= at + Refresh /\ ticker[c].next > clock
    BY <1>2 DEF SInv, AsksForStored, TickerRuns
  <2>2. QED
    BY <1>2, <2>1, ClockTypes, StreamTypes
<1>3. QED
  BY <1>1, <1>2 DEF StreamFresh, StreamFollows

(* While no fetch has failed, what a watching client was sent last is less  *)
(* than two refreshes old, a fetch under way aside, though the ticker of    *)
(* handleCustomSSE and the cache of snapshot are not synchronised.          *)
THEOREM StreamsAreFresh == Spec => []StreamFresh
BY StreamsImply, InitTypes, TypesInductive, InitWaits, WaitsInductive, InitStreams,
   StreamsInductive, PTL DEF Spec

(* A snapshot, pushed or fetched for somebody else, reaches every stream    *)
(* within one refresh (handleCustomSSE, Ingest, snapshot).                  *)
THEOREM StreamsFollow == Spec => []StreamFollows
BY StreamsImply, InitTypes, TypesInductive, InitWaits, WaitsInductive, InitStreams,
   StreamsInductive, PTL DEF Spec
=============================================================================
