---------------------------- MODULE NotesProofs ----------------------------
(***************************************************************************)
(* Theorems about Notes for every set of feeds, readers and contents, and  *)
(* every ttl, ticker period and read timeout of NotesAssumption.           *)
(***************************************************************************)
EXTENDS Notes, FiniteSetTheorems, TLAPS

(* A handler that is not idle serves a configured channel. *)
Configured == \A c \in Readers : pc[c] # "idle" => on[c] \in Feeds

(* A read is of a feed whose held content, if any, has expired. *)
ReadStale == mu # Free => read.said # {} /\ ~Fresh(read.feed)

(* The feeds read since c began to wait: their content is younger than the  *)
(* wait.                                                                    *)
ReadSince(c) == {f \in Feeds : cache[f] # None /\ cache[f].age < waited[c]}

(* How long the read under way has taken. *)
Took == IF mu = Free THEN 0 ELSE read.took

(* A reader has waited for one read of each of these feeds and for the one  *)
(* under way, at most.                                                      *)
WaitExplained ==
  \A c \in Readers :
    /\ waited[c] <= Cardinality(ReadSince(c)) * ReadTimeout + Took
    /\ pc[c] \notin {"lock", "read"} => waited[c] = 0
    /\ failed => waited[c] = 0

(* Nothing is owed to an idle stream, after a failure, or of an item that   *)
(* the feed does not hold.                                                  *)
NothingOwed ==
  \A c \in Streams, i \in Ids :
    pc[c] = "idle" \/ failed \/ i \notin source[on[c]] => unsent[c][i] = 0

(* An item missing in what the source said during the read under way has    *)
(* appeared since the read began, and one missing in what is held since     *)
(* the read of it began.                                                    *)
MissingIsNew ==
  \A c \in Streams, i \in Ids : pc[c] # "idle" =>
    /\ mu # Free /\ read.feed = on[c] =>
         \A v \in read.said : i \notin v => unsent[c][i] <= read.took
    /\ Fresh(on[c]) /\ i \notin cache[on[c]].content =>
         unsent[c][i] <= cache[on[c]].age + ReadTimeout

(* What a stream owes by the time it asks for the content again. *)
AskBound == ReadTimeout + TTL + Period

(* A watching stream owes nothing longer than its next tick allows, and one *)
(* in Get nothing longer than its wait allows.                              *)
OwedUntilTick ==
  \A c \in Streams, i \in Ids :
    /\ pc[c] = "watch" =>
         /\ ticker[c].next > 0 /\ unsent[c][i] <= AskBound
         /\ ticker[c].ready \/ unsent[c][i] + ticker[c].next <= AskBound
    /\ pc[c] \in {"lock", "read"} => unsent[c][i] <= AskBound + waited[c]

(* The inductive invariants: of the types, of the waits, of the items.      *)
TInv == TypeOK /\ Configured
WInv == ReadStale /\ WaitExplained /\ WaitBounded
AInv == NothingOwed /\ MissingIsNew /\ OwedUntilTick

-----------------------------------------------------------------------------
(* The types the steps share. *)
PCs == {"idle", "lock", "read", "watch"}
Tickers == [next : 0 .. Period, ready : BOOLEAN]

(* What a read under way is, and who holds Store.mu. *)
LEMMA ReadUnderWay ==
  ASSUME TInv, mu # Free
  PROVE  /\ mu \in Readers /\ pc[mu] = "read"
         /\ read \in Reads /\ read.feed = on[mu] /\ on[mu] \in Feeds
BY DEF TInv, TypeOK, Configured

(* Return moves one handler out of Get. *)
LEMMA ReturnMoves ==
  ASSUME TInv, NEW c \in Readers, pc[c] \in {"lock", "read"}, Return(c)
  PROVE  /\ pc' \in [Readers -> PCs] /\ pc'[c] \in {"idle", "watch"}
         /\ \A d \in Readers \ {c} : pc'[d] = pc[d] /\ on'[d] = on[d]
         /\ on' \in [Readers -> Feeds \cup {None}]
         /\ pc'[c] = "watch" => c \in Streams /\ on'[c] = on[c]
         /\ ticker' \in [Streams -> Tickers]
         /\ \A d \in Streams \ {c} : ticker'[d] = ticker[d]
         /\ pc'[c] = "watch" => ticker'[c].next > 0
<1>1. CASE c \in Getters
  <2>1. /\ pc' = [pc EXCEPT ![c] = "idle"] /\ on' = [on EXCEPT ![c] = None]
        /\ UNCHANGED ticker
    BY <1>1, NotesAssumption DEF Return
  <2>2. QED
    BY <2>1 DEF TInv, TypeOK, PCs, Tickers
<1>2. CASE c \in Streams
  <2>1. /\ pc' = [pc EXCEPT ![c] = "watch"] /\ UNCHANGED on
        /\ ticker' = IF ticker[c].next # 0 THEN ticker
                     ELSE [ticker EXCEPT ![c].next = Period]
    BY <1>2, NotesAssumption DEF Return
  <2>2. pc' \in [Readers -> PCs] /\ pc'[c] = "watch" /\ \A d \in Readers \ {c} : pc'[d] = pc[d]
    BY <2>1 DEF TInv, TypeOK, PCs
  <2>3. ticker \in [Streams -> Tickers] /\ ticker[c] \in Tickers
    BY <1>2 DEF TInv, TypeOK, Tickers
  <2>4. /\ ticker' \in [Streams -> Tickers] /\ ticker'[c].next > 0
        /\ \A d \in Streams \ {c} : ticker'[d] = ticker[d]
    BY <1>2, <2>1, <2>3, NotesAssumption DEF Tickers
  <2>5. QED
    BY <2>1, <2>2, <2>4, <1>2 DEF TInv, TypeOK
<1>3. QED
  BY <1>1, <1>2 DEF Readers

(* Served answers one handler, and a stream sends what is new to it. *)
LEMMA ServedMoves ==
  ASSUME TInv, NEW c \in Readers, NEW content \in Contents, Served(c, content)
  PROVE  /\ waited' \in [Readers -> Nat] /\ waited'[c] = 0
         /\ \A d \in Readers \ {c} : waited'[d] = waited[d]
         /\ seen' \in [Streams -> SUBSET Ids] /\ unsent' \in [Streams -> [Ids -> Nat]]
         /\ \A d \in Streams, i \in Ids :
              unsent'[d][i] = IF d = c /\ i \in content THEN 0 ELSE unsent[d][i]
<1>1. /\ waited' \in [Readers -> Nat] /\ waited'[c] = 0
      /\ \A d \in Readers \ {c} : waited'[d] = waited[d]
  BY DEF Served, TInv, TypeOK
<1>2. content \ {NoID} \subseteq Ids
  BY NotesAssumption
<1>3. CASE c \in Streams
  <2>1. /\ seen' = [seen EXCEPT ![c] = @ \cup (content \ {NoID})]
        /\ unsent' = [unsent EXCEPT ![c] = [i \in Ids |-> IF i \in content THEN 0 ELSE @[i]]]
    BY <1>3 DEF Served, emit
  <2>2. seen' \in [Streams -> SUBSET Ids]
    BY <2>1, <1>2, <1>3 DEF TInv, TypeOK
  <2>3. [i \in Ids |-> IF i \in content THEN 0 ELSE unsent[c][i]] \in [Ids -> Nat]
    BY <1>3 DEF TInv, TypeOK
  <2>4. unsent' \in [Streams -> [Ids -> Nat]]
    BY <2>1, <2>3, <1>3 DEF TInv, TypeOK
  <2>5. QED
    BY <1>1, <1>3, <2>1, <2>2, <2>4 DEF TInv, TypeOK
<1>4. CASE c \notin Streams
  BY <1>1, <1>4 DEF Served, TInv, TypeOK
<1>5. QED
  BY <1>3, <1>4

-----------------------------------------------------------------------------
(* The types: one lemma per action, or per group with the same argument. *)
LEMMA AskTypes ==
  ASSUME TInv, NEW c \in Readers, NEW f \in Feeds, HandleChannel(c, f)
  PROVE  TInv'
<1>1. /\ pc' = [pc EXCEPT ![c] = "lock"] /\ on' = [on EXCEPT ![c] = f] /\ mu # c
  BY DEF HandleChannel, TInv, TypeOK
<1>2. /\ pc' \in [Readers -> PCs] /\ on' \in [Readers -> Feeds \cup {None}]
      /\ \A d \in Readers : pc'[d] = "read" <=> mu = d
      /\ mu # Free => on'[mu] = on[mu]
  BY <1>1 DEF TInv, TypeOK, PCs
<1>3. TypeOK'
  BY <1>2 DEF HandleChannel, TInv, TypeOK, PCs
<1>4. Configured'
  BY <1>1 DEF TInv, TypeOK, Configured
<1>5. QED
  BY <1>3, <1>4 DEF TInv

LEMMA StreamTickTypes ==
  ASSUME TInv, NEW c \in Streams, StreamTick(c)
  PROVE  TInv'
<1>0. c \in Readers /\ ticker[c] \in Tickers /\ ticker \in [Streams -> Tickers]
  BY DEF Readers, TInv, TypeOK, Tickers
<1>1. /\ pc' = [pc EXCEPT ![c] = "lock"] /\ mu # c
      /\ ticker' = [ticker EXCEPT ![c].ready = FALSE]
  BY <1>0 DEF StreamTick, TInv, TypeOK
<1>2. /\ pc' \in [Readers -> PCs] /\ ticker' \in [Streams -> Tickers]
      /\ \A d \in Readers : pc'[d] = "read" <=> mu = d
  BY <1>0, <1>1 DEF TInv, TypeOK, PCs, Tickers
<1>3. TypeOK'
  BY <1>2 DEF StreamTick, TInv, TypeOK, PCs, Tickers
<1>4. Configured'
  BY <1>0, <1>1 DEF StreamTick, TInv, TypeOK, Configured
<1>5. QED
  BY <1>3, <1>4 DEF TInv

LEMMA GetCachedTypes ==
  ASSUME TInv, NEW c \in Readers, GetCached(c)
  PROVE  TInv' /\ cache[on[c]] \in Held
<1>0. on[c] \in Feeds /\ cache[on[c]] \in Held /\ cache[on[c]].content \in Contents
  BY DEF GetCached, Fresh, TInv, TypeOK, Configured, Held
<1>1. pc[c] = "lock" /\ mu = Free /\ Served(c, cache[on[c]].content) /\ Return(c)
  BY DEF GetCached, Served
<1>2. TypeOK'
  BY <1>0, <1>1, ReturnMoves, ServedMoves DEF GetCached, TInv, TypeOK, PCs, Tickers
<1>3. Configured'
  BY <1>0, <1>1, ReturnMoves DEF TInv, Configured
<1>4. QED
  BY <1>0, <1>2, <1>3 DEF TInv

LEMMA GetReadTypes ==
  ASSUME TInv, NEW c \in Readers, GetRead(c)
  PROVE  TInv'
<1>0. on[c] \in Feeds /\ source[on[c]] \in Contents /\ c # Free
  BY NotesAssumption DEF GetRead, TInv, TypeOK, Configured
<1>1. read' \in Reads /\ read' # None /\ read'.feed = on[c]
  BY <1>0, NotesAssumption DEF GetRead, Reads
<1>2. /\ pc' \in [Readers -> PCs]
      /\ \A d \in Readers : pc'[d] = "read" <=> mu' = d
  BY NotesAssumption DEF GetRead, TInv, TypeOK, PCs
<1>3. TypeOK'
  BY <1>1, <1>2 DEF GetRead, TInv, TypeOK, PCs
<1>4. Configured'
  BY <1>0 DEF GetRead, TInv, TypeOK, Configured
<1>5. QED
  BY <1>3, <1>4 DEF TInv

LEMMA ReadOKTypes ==
  ASSUME TInv, NEW c \in Readers, NEW content \in Contents, ReadOK(c, content)
  PROVE  TInv'
<1>0. pc[c] = "read" /\ on[c] \in Feeds /\ Served(c, content) /\ Return(c) /\ mu = c
  BY DEF ReadOK, Served, TInv, TypeOK, Configured
<1>1. [content |-> content, age |-> 0] \in Held
  BY NotesAssumption DEF Held
<1>2. cache' \in [Feeds -> Held \cup {None}]
  BY <1>0, <1>1 DEF ReadOK, TInv, TypeOK
<1>3. \A d \in Readers : pc'[d] # "read"
  BY <1>0, ReturnMoves DEF TInv, TypeOK
<1>4. TypeOK'
  BY <1>0, <1>2, <1>3, ReturnMoves, ServedMoves, NotesAssumption
     DEF ReadOK, TInv, TypeOK, PCs, Tickers
<1>5. Configured'
  BY <1>0, ReturnMoves DEF TInv, Configured
<1>6. QED
  BY <1>4, <1>5 DEF TInv

LEMMA ReadErrorTypes ==
  ASSUME TInv, NEW c \in Readers, ReadError(c)
  PROVE  TInv'
<1>0. pc[c] = "read" /\ Return(c) /\ mu = c
  BY DEF ReadError, TInv, TypeOK
<1>1. \A d \in Readers : pc'[d] # "read"
  BY <1>0, ReturnMoves DEF TInv, TypeOK
<1>2. waited' \in [Readers -> Nat] /\ unsent' \in [Streams -> [Ids -> Nat]]
  BY DEF ReadError
<1>3. TypeOK'
  BY <1>0, <1>1, <1>2, ReturnMoves, NotesAssumption DEF ReadError, TInv, TypeOK, PCs, Tickers
<1>4. Configured'
  BY <1>0, ReturnMoves DEF TInv, Configured
<1>5. QED
  BY <1>3, <1>4 DEF TInv

LEMMA StreamEndsTypes ==
  ASSUME TInv, NEW c \in Streams, StreamEnds(c)
  PROVE  TInv'
<1>0. c \in Readers /\ mu # c
  BY DEF StreamEnds, Readers, TInv, TypeOK
<1>1. /\ pc' \in [Readers -> PCs] /\ on' \in [Readers -> Feeds \cup {None}]
      /\ seen' \in [Streams -> SUBSET Ids]
      /\ \A d \in Readers : pc'[d] = "read" <=> mu = d
      /\ mu # Free => on'[mu] = on[mu]
  BY <1>0 DEF StreamEnds, TInv, TypeOK, PCs
<1>2. ticker' \in [Streams -> Tickers] /\ unsent' \in [Streams -> [Ids -> Nat]]
  BY NotesAssumption DEF StreamEnds, NoTicker, TInv, TypeOK, Tickers
<1>3. TypeOK'
  BY <1>1, <1>2 DEF StreamEnds, TInv, TypeOK, PCs, Tickers
<1>4. Configured'
  BY <1>0 DEF StreamEnds, TInv, TypeOK, Configured
<1>5. QED
  BY <1>3, <1>4 DEF TInv

LEMMA FeedChangesTypes ==
  ASSUME TInv, NEW f \in Feeds, NEW content \in Contents, FeedChanges(f, content)
  PROVE  /\ TInv'
         /\ mu # Free => read' = IF read.feed = f
                                 THEN [read EXCEPT !.said = @ \cup {content}] ELSE read
         /\ \A c \in Streams, i \in Ids :
              unsent'[c][i] = IF on[c] = f /\ i \notin content THEN 0 ELSE unsent[c][i]
<1>1. mu # Free => /\ read' \in Reads /\ read'.feed = read.feed
                   /\ read' = IF read.feed = f
                              THEN [read EXCEPT !.said = @ \cup {content}] ELSE read
  BY ReadUnderWay DEF FeedChanges, Reads
<1>2. mu = Free => read' = read
  BY DEF FeedChanges
<1>3. /\ unsent' \in [Streams -> [Ids -> Nat]]
      /\ \A c \in Streams, i \in Ids :
           unsent'[c][i] = IF on[c] = f /\ i \notin content THEN 0 ELSE unsent[c][i]
  BY DEF FeedChanges, TInv, TypeOK
<1>4. TypeOK'
  BY <1>1, <1>2, <1>3, NotesAssumption DEF FeedChanges, TInv, TypeOK
<1>5. Configured'
  BY DEF FeedChanges, TInv, Configured
<1>6. QED
  BY <1>1, <1>3, <1>4, <1>5 DEF TInv

(* One time unit: every countdown and age moves by one at most. *)
LEMMA TickTypes ==
  ASSUME TInv, Tick
  PROVE  /\ TInv'
         /\ mu # Free => read' = [read EXCEPT !.took = @ + 1]
         /\ \A f \in Feeds : cache'[f] = IF Fresh(f) THEN [cache[f] EXCEPT !.age = @ + 1]
                                         ELSE cache[f]
         /\ \A c \in Readers : waited'[c] = IF ~failed /\ pc[c] \in {"lock", "read"}
                                            THEN waited[c] + 1 ELSE 0
         /\ \A c \in Streams, i \in Ids :
              unsent'[c][i] = IF ~failed /\ pc[c] # "idle" /\ i \in source[on[c]] \ seen[c]
                              THEN unsent[c][i] + 1 ELSE 0
<1>1. mu # Free => /\ read' \in Reads /\ read'.feed = read.feed
                   /\ read' = [read EXCEPT !.took = @ + 1]
  BY ReadUnderWay, NotesAssumption DEF Tick, Reads
<1>2. mu = Free => read' = read
  BY DEF Tick
<1>3. /\ cache' \in [Feeds -> Held \cup {None}]
      /\ \A f \in Feeds : cache'[f] = IF Fresh(f) THEN [cache[f] EXCEPT !.age = @ + 1]
                                      ELSE cache[f]
  <2>1. ASSUME NEW f \in Feeds, Fresh(f)
        PROVE  [cache[f] EXCEPT !.age = @ + 1] \in Held
    BY <2>1, NotesAssumption DEF Fresh, Held, TInv, TypeOK
  <2>2. QED
    BY <2>1 DEF Tick, TInv, TypeOK
<1>4. ticker' \in [Streams -> Tickers]
  <2>1. ASSUME NEW c \in Streams
        PROVE  /\ ticker[c] \in Tickers
               /\ [next |-> Period, ready |-> TRUE] \in Tickers
               /\ ticker[c].next \notin {0, 1} => [ticker[c] EXCEPT !.next = @ - 1] \in Tickers
    <3>1. ticker[c] \in Tickers
      BY DEF Tickers, TInv, TypeOK
    <3>2. [next |-> Period, ready |-> TRUE] \in Tickers
      BY NotesAssumption DEF Tickers
    <3>3. ticker[c].next \notin {0, 1} => ticker[c].next - 1 \in 0 .. Period
      BY <3>1, NotesAssumption DEF Tickers
    <3>4. QED
      BY <3>1, <3>2, <3>3 DEF Tickers
  <2>2. QED
    BY <2>1 DEF Tick
<1>5. /\ waited' \in [Readers -> Nat]
      /\ \A c \in Readers : waited'[c] = IF ~failed /\ pc[c] \in {"lock", "read"}
                                         THEN waited[c] + 1 ELSE 0
  BY DEF Tick, Age, TInv, TypeOK
<1>6. /\ unsent' \in [Streams -> [Ids -> Nat]]
      /\ \A c \in Streams, i \in Ids :
           unsent'[c][i] = IF ~failed /\ pc[c] # "idle" /\ i \in source[on[c]] \ seen[c]
                           THEN unsent[c][i] + 1 ELSE 0
  BY DEF Tick, Age, TInv, TypeOK
<1>7. TypeOK'
  BY <1>1, <1>2, <1>3, <1>4, <1>5, <1>6, NotesAssumption DEF Tick, TInv, TypeOK, Tickers
<1>8. Configured'
  BY DEF Tick, TInv, Configured
<1>9. QED
  BY <1>1, <1>3, <1>5, <1>6, <1>7, <1>8 DEF TInv

LEMMA TypesInductive == TInv /\ [Next]_vars => TInv'
<1> SUFFICES ASSUME TInv, [Next]_vars PROVE TInv'
  OBVIOUS
<1>1. ASSUME NEW c \in Streams, HangUp(c) PROVE TInv'
  BY <1>1 DEF HangUp, TInv, TypeOK, Configured
<1>2. CASE UNCHANGED vars
  BY <1>2 DEF vars, TInv, TypeOK, Configured
<1>3. QED
  BY <1>1, <1>2, AskTypes, StreamTickTypes, GetCachedTypes, GetReadTypes, ReadOKTypes,
     ReadErrorTypes, StreamEndsTypes, FeedChangesTypes, TickTypes DEF Next

LEMMA InitTypes == Init => TInv
<1> SUFFICES ASSUME Init PROVE TInv
  OBVIOUS
<1>1. NoTicker \in [next : 0 .. Period, ready : BOOLEAN]
  BY NotesAssumption DEF NoTicker
<1>2. QED
  BY <1>1, NotesAssumption DEF Init, TInv, TypeOK, Configured

(* Store.mu is held exactly by the reader that reads, whatever waits, fails *)
(* or hangs up, and every age and countdown stays in its range (Get).       *)
THEOREM TypeCorrect == Spec => []TypeOK
<1>1. TInv => TypeOK
  BY DEF TInv
<1>2. QED
  BY <1>1, InitTypes, TypesInductive, PTL DEF Spec

-----------------------------------------------------------------------------
(* The store is the cache of FeedCache: what is abstracted is who waits.    *)
LEMMA StepRefines == TInv /\ TInv' /\ ReadStale /\ [Next]_vars => [Cache!Next]_(Cache!fcVars)
<1> SUFFICES ASSUME TInv, TInv', ReadStale, [Next]_vars PROVE [Cache!Next]_(Cache!fcVars)
  OBVIOUS
<1> DEFINE fill == [f \in Feeds |-> IF mu # Free /\ read.feed = f THEN read.said ELSE {}]
<1>0. ASSUME NEW f \in Feeds PROVE Fresh(f) <=> ~Cache!Expired(f)
  <2>1. cache[f] \in Held \cup {None}
    BY DEF TInv, TypeOK
  <2>2. CASE cache[f] = None
    BY <2>2 DEF Fresh, Cache!Expired
  <2>3. CASE cache[f] # None
    <3>1. cache[f].age \in 0 .. TTL
      BY <2>1, <2>3 DEF Held
    <3>2. QED
      BY <2>3, <3>1, NotesAssumption DEF Fresh, Cache!Expired
  <2>4. QED
    BY <2>2, <2>3
<1>1. ASSUME UNCHANGED <<source, cache, mu, read>> PROVE [Cache!Next]_(Cache!fcVars)
  BY <1>1 DEF Cache!fcVars
<1>2. ASSUME NEW c \in Readers, GetRead(c) PROVE Cache!Begin(on[c]) /\ on[c] \in Feeds
  <2>0. on[c] \in Feeds /\ c # Free
    BY <1>2, NotesAssumption DEF GetRead, TInv, Configured
  <2>1. fill[on[c]] = {}
    BY <2>0, <1>2 DEF GetRead
  <2>2. Cache!Expired(on[c])
    BY <2>0, <1>0, <1>2 DEF GetRead
  <2>3. fill' = [fill EXCEPT ![on[c]] = {source[on[c]]}]
    BY <2>0, <1>2 DEF GetRead
  <2>4. QED
    BY <2>0, <2>1, <2>2, <2>3, <1>2 DEF GetRead, Cache!Begin
<1>3. ASSUME NEW c \in Readers, pc[c] = "read" PROVE on[c] \in Feeds /\ fill[on[c]] = read.said
  BY <1>3, ReadUnderWay, NotesAssumption DEF TInv, TypeOK
<1>4. ASSUME NEW c \in Readers, pc[c] = "read", mu' = Free
      PROVE  fill' = [fill EXCEPT ![on[c]] = {}]
  BY <1>4, ReadUnderWay, NotesAssumption DEF TInv, TypeOK
<1>5. ASSUME NEW c \in Readers, NEW content \in Contents, ReadOK(c, content)
      PROVE  Cache!Store(on[c], content) /\ on[c] \in Feeds
  BY <1>3, <1>4, <1>5 DEF ReadOK, Cache!Store
<1>6. ASSUME NEW c \in Readers, ReadError(c) PROVE Cache!Abandon(on[c]) /\ on[c] \in Feeds
  <2>1. read.said # {}
    BY <1>6, NotesAssumption DEF ReadError, ReadStale, TInv, TypeOK
  <2>2. QED
    BY <2>1, <1>3, <1>4, <1>6 DEF ReadError, Cache!Abandon
<1>7. ASSUME NEW f \in Feeds, NEW content \in Contents, FeedChanges(f, content)
      PROVE  Cache!Change(f, content)
  <2>1. fill' = IF fill[f] = {} THEN fill ELSE [fill EXCEPT ![f] = @ \cup {content}]
    <3>1. CASE mu = Free
      BY <3>1, <1>7 DEF FeedChanges
    <3>2. CASE mu # Free /\ read.feed # f
      BY <3>2, <1>7, FeedChangesTypes DEF FeedChanges
    <3>3. CASE mu # Free /\ read.feed = f
      <4>1. read' = [read EXCEPT !.said = @ \cup {content}] /\ mu' = mu /\ read \in Reads
        BY <3>3, <1>7, ReadUnderWay DEF FeedChanges
      <4>2. read'.feed = f /\ read'.said = read.said \cup {content}
        BY <3>3, <4>1 DEF Reads
      <4>3. fill[f] = read.said /\ read.said # {}
        BY <3>3 DEF ReadStale
      <4>4. QED
        BY <3>3, <4>1, <4>2, <4>3
    <3>4. QED
      BY <3>1, <3>2, <3>3
  <2>2. QED
    BY <2>1, <1>7 DEF FeedChanges, Cache!Change
<1>8. ASSUME Tick PROVE Cache!Elapse
  <2>1. fill' = fill
    BY <1>8, TickTypes, ReadUnderWay DEF Tick, Reads
  <2>2. QED
    BY <2>1, <1>0, <1>8 DEF Tick, Cache!Elapse
<1>9. ASSUME NEW c \in Readers, GetCached(c) \/ \E f \in Feeds : HandleChannel(c, f)
      PROVE  [Cache!Next]_(Cache!fcVars)
  BY <1>1, <1>9 DEF GetCached, HandleChannel
<1>10. ASSUME NEW c \in Streams, StreamTick(c) \/ HangUp(c) \/ StreamEnds(c)
       PROVE  [Cache!Next]_(Cache!fcVars)
  BY <1>1, <1>10 DEF StreamTick, HangUp, StreamEnds
<1>11. CASE UNCHANGED vars
  BY <1>1, <1>11 DEF vars
<1>12. QED
  <2>1. \A k \in Feeds : Cache!Begin(k) \/ Cache!Abandon(k) => Cache!Next
    BY DEF Cache!Next
  <2>2. \A k \in Feeds, v \in Contents : Cache!Store(k, v) \/ Cache!Change(k, v) => Cache!Next
    BY DEF Cache!Next
  <2>3. Cache!Elapse => Cache!Next
    BY DEF Cache!Next
  <2>4. ASSUME NEW c \in Readers, GetRead(c) \/ ReadError(c) PROVE Cache!Next
    <3>1. PICK f \in Feeds : f = on[c]
      BY <1>2, <1>6, <2>4
    <3>2. Cache!Begin(f) \/ Cache!Abandon(f)
      BY <1>2, <1>6, <2>4, <3>1 DEF Cache!Begin, Cache!Expired, Cache!Abandon
    <3>3. QED
      BY <2>1, <3>2
  <2>5. ASSUME NEW c \in Readers, NEW content \in Contents, ReadOK(c, content) PROVE Cache!Next
    BY <1>5, <2>2, <2>5
  <2>6. ASSUME NEW f \in Feeds, NEW content \in Contents, FeedChanges(f, content)
        PROVE  Cache!Next
    BY <1>7, <2>2, <2>6
  <2>7. CASE Tick
    BY <1>8, <2>3, <2>7
  <2>8. CASE Next
    BY <1>9, <1>10, <2>4, <2>5, <2>6, <2>7, <2>8 DEF Next
  <2>9. QED
    BY <1>11, <2>8

-----------------------------------------------------------------------------
(* How long the reads of some of the feeds take together. *)
LEMMA ReadsOf ==
  ASSUME NEW S \in SUBSET Feeds
  PROVE  /\ Cardinality(S) * ReadTimeout \in Nat
         /\ Cardinality(S) * ReadTimeout <= WaitBound
         /\ \A T \in SUBSET S : Cardinality(T) * ReadTimeout <= Cardinality(S) * ReadTimeout
         /\ \A f \in Feeds \ S :
              /\ Cardinality(S \cup {f}) * ReadTimeout = Cardinality(S) * ReadTimeout + ReadTimeout
              /\ Cardinality(S) * ReadTimeout + ReadTimeout <= WaitBound
<1>0. ReadTimeout \in Nat /\ IsFiniteSet(Feeds)
  BY NotesAssumption
<1>1. ASSUME NEW m \in Nat, NEW n \in Nat, m <= n PROVE m * ReadTimeout <= n * ReadTimeout
  <2>1. n = m + (n - m) /\ n - m \in Nat
    BY <1>1
  <2>2. n * ReadTimeout = m * ReadTimeout + (n - m) * ReadTimeout
    BY <2>1, <1>0
  <2>3. (n - m) * ReadTimeout \in Nat /\ m * ReadTimeout \in Nat
    BY <2>1, <1>0
  <2>4. QED
    BY <2>2, <2>3
<1>2. ASSUME NEW T \in SUBSET Feeds PROVE IsFiniteSet(T) /\ Cardinality(T) \in Nat
  BY <1>0, FS_Subset, FS_CardinalityType
<1>3. ASSUME NEW A \in SUBSET Feeds, NEW B \in SUBSET A
      PROVE  Cardinality(B) * ReadTimeout <= Cardinality(A) * ReadTimeout
  <2>1. Cardinality(B) <= Cardinality(A)
    BY <1>2, FS_Subset
  <2>2. QED
    BY <1>1, <1>2, <2>1
<1>4. Cardinality(S) * ReadTimeout \in Nat /\ Cardinality(S) * ReadTimeout <= WaitBound
  BY <1>0, <1>2, <1>3 DEF WaitBound
<1>5. ASSUME NEW f \in Feeds \ S
      PROVE  /\ Cardinality(S \cup {f}) * ReadTimeout = Cardinality(S) * ReadTimeout + ReadTimeout
             /\ Cardinality(S) * ReadTimeout + ReadTimeout <= WaitBound
  <2>1. Cardinality(S \cup {f}) = Cardinality(S) + 1
    BY <1>2, FS_AddElement
  <2>2. (Cardinality(S) + 1) * ReadTimeout = Cardinality(S) * ReadTimeout + ReadTimeout
    BY <1>0, <1>2
  <2>3. Cardinality(S \cup {f}) * ReadTimeout <= WaitBound
    BY <1>3 DEF WaitBound
  <2>4. QED
    BY <2>1, <2>2, <2>3
<1>6. QED
  BY <1>3, <1>4, <1>5

(* A reader that is not waiting owes no explanation. *)
LEMMA NoWaitExplained ==
  ASSUME TInv', NEW c \in Readers, waited'[c] = 0
  PROVE  waited'[c] <= (Cardinality(ReadSince(c)) * ReadTimeout + Took)'
<1>1. ReadSince(c)' \in SUBSET Feeds
  BY DEF ReadSince
<1>2. Took' \in Nat
  BY NotesAssumption DEF Took, TInv, TypeOK, Reads
<1>3. QED
  BY <1>1, <1>2, ReadsOf

(* A wait goes on with the same explanation while the cache and the read    *)
(* under way do.                                                            *)
LEMMA WaitGoesOn ==
  ASSUME WInv, NEW c \in Readers, waited'[c] = waited[c], UNCHANGED cache, Took' = Took
  PROVE  waited'[c] <= (Cardinality(ReadSince(c)) * ReadTimeout + Took)'
<1>1. ReadSince(c)' = ReadSince(c)
  BY DEF ReadSince
<1>2. QED
  BY <1>1 DEF WInv, WaitExplained

(* The steps that touch neither the cache, nor the lock, nor a wait. *)
LEMMA QuietWaits ==
  ASSUME TInv, TInv', WInv, UNCHANGED <<cache, mu, waited, failed>>,
         mu # Free => /\ read'.feed = read.feed /\ read'.took = read.took
                      /\ read'.said # {},
         \A c \in Readers : pc'[c] \notin {"lock", "read"} => pc[c] \notin {"lock", "read"}
  PROVE  WInv'
<1>1. Took' = Took
  BY DEF Took
<1>2. ReadStale'
  BY DEF WInv, ReadStale, Fresh
<1>3. WaitExplained'
  BY <1>1, WaitGoesOn DEF WInv, WaitExplained
<1>4. QED
  BY <1>2, <1>3 DEF WInv, WaitBounded

LEMMA GetCachedWaits ==
  ASSUME TInv, TInv', WInv, NEW c \in Readers, GetCached(c)
  PROVE  WInv'
<1>0. /\ pc[c] = "lock" /\ Return(c) /\ cache[on[c]].content \in Contents
      /\ Served(c, cache[on[c]].content)
  BY GetCachedTypes DEF GetCached, Served, Held
<1>1. Took' = Took /\ ReadStale'
  BY DEF GetCached, Took, WInv, ReadStale, Fresh
<1>2. ASSUME NEW d \in Readers
      PROVE  /\ waited'[d] \in {0, waited[d]}
             /\ pc'[d] \notin {"lock", "read"} => waited'[d] = 0
             /\ failed' => waited'[d] = 0
  BY <1>0, ReturnMoves, ServedMoves DEF GetCached, WInv, WaitExplained
<1>3. ASSUME NEW d \in Readers
      PROVE  waited'[d] <= (Cardinality(ReadSince(d)) * ReadTimeout + Took)'
  BY <1>1, <1>2, NoWaitExplained, WaitGoesOn DEF GetCached
<1>4. WaitBounded'
  <2>1. 0 <= WaitBound
    BY ReadsOf DEF WaitBound
  <2>2. QED
    BY <1>2, <2>1 DEF WInv, WaitBounded
<1>5. QED
  BY <1>1, <1>2, <1>3, <1>4 DEF WInv, WaitExplained

LEMMA GetReadWaits ==
  ASSUME TInv, TInv', WInv, NEW c \in Readers, GetRead(c)
  PROVE  WInv'
<1>0. c # Free /\ mu = Free /\ mu' = c /\ UNCHANGED <<cache, waited, failed>>
  BY NotesAssumption DEF GetRead
<1>1. read'.said # {} /\ read'.took = 0 /\ read'.feed = on[c]
  BY DEF GetRead
<1>2. Took' = Took
  BY <1>0, <1>1 DEF Took
<1>3. ReadStale'
  BY <1>0, <1>1 DEF GetRead, ReadStale, Fresh
<1>4. \A d \in Readers : pc'[d] \notin {"lock", "read"} => pc[d] \notin {"lock", "read"}
  BY DEF GetRead, TInv, TypeOK
<1>5. WaitExplained'
  BY <1>0, <1>2, <1>4, WaitGoesOn DEF WInv, WaitExplained
<1>6. QED
  BY <1>0, <1>3, <1>5 DEF WInv, WaitBounded

(* A feed being read is none of those read since a reader began to wait.    *)
LEMMA ReadIsNotAgain ==
  ASSUME ReadableWithinTTL, TInv, WInv, mu # Free, NEW c \in Readers
  PROVE  read.feed \in Feeds \ ReadSince(c)
<1>1. read.feed \in Feeds /\ ~Fresh(read.feed)
  BY ReadUnderWay DEF WInv, ReadStale
<1>2. cache[read.feed] # None => cache[read.feed] \in Held
  BY <1>1 DEF TInv, TypeOK
<1>3. waited[c] <= TTL /\ waited[c] \in Nat
  BY NotesAssumption, ReadsOf DEF ReadableWithinTTL, WInv, WaitBounded, WaitBound, TInv, TypeOK
<1>4. cache[read.feed] # None => ~(cache[read.feed].age < waited[c])
  BY <1>1, <1>2, <1>3, NotesAssumption DEF Fresh, Held
<1>5. QED
  BY <1>1, <1>4 DEF ReadSince

LEMMA ReadOKWaits ==
  ASSUME ReadableWithinTTL, TInv, TInv', WInv,
         NEW c \in Readers, NEW content \in Contents, ReadOK(c, content)
  PROVE  WInv'
<1>0. /\ pc[c] = "read" /\ Return(c) /\ Served(c, content) /\ mu = c /\ mu # Free
      /\ mu' = Free /\ UNCHANGED failed
      /\ cache' = [cache EXCEPT ![on[c]] = [content |-> content, age |-> 0]]
  BY NotesAssumption DEF ReadOK, Served, TInv, TypeOK
<1>1. ReadStale' /\ Took' = 0
  BY <1>0 DEF ReadStale, Took
<1>2. ASSUME NEW d \in Readers
      PROVE  /\ waited'[d] \in {0, waited[d]}
             /\ pc'[d] \notin {"lock", "read"} => waited'[d] = 0
             /\ failed' => waited'[d] = 0
  BY <1>0, ReturnMoves, ServedMoves DEF WInv, WaitExplained
<1>3. ASSUME NEW d \in Readers
      PROVE  waited'[d] <= (Cardinality(ReadSince(d)) * ReadTimeout + Took)'
  <2>1. CASE waited'[d] = 0
    BY <2>1, NoWaitExplained
  <2>2. CASE waited'[d] # 0
    <3>0. waited'[d] = waited[d] /\ waited[d] \in Nat \ {0}
      BY <1>2, <2>2 DEF TInv, TypeOK
    <3>1. read.feed \in Feeds \ ReadSince(d) /\ read.feed = on[c] /\ read.took \in 0 .. ReadTimeout
      BY <1>0, ReadUnderWay, ReadIsNotAgain DEF Reads
    <3>2. cache'[on[c]] = [content |-> content, age |-> 0] /\ cache'[on[c]] # None
      <4>1. [content |-> content, age |-> 0] \in Held
        BY NotesAssumption DEF Held
      <4>2. QED
        BY <4>1, <1>0, <3>1, NotesAssumption DEF TInv, TypeOK
    <3>3. ReadSince(d)' = ReadSince(d) \cup {on[c]}
      <4>1. \A f \in Feeds \ {on[c]} : cache'[f] = cache[f]
        BY <1>0 DEF TInv, TypeOK
      <4>2. on[c] \in ReadSince(d)'
        BY <3>0, <3>1, <3>2 DEF ReadSince
      <4>3. QED
        BY <3>0, <3>1, <4>1, <4>2 DEF ReadSince
    <3>4. ReadSince(d) \in SUBSET Feeds
      BY DEF ReadSince
    <3>5. waited[d] <= Cardinality(ReadSince(d)) * ReadTimeout + read.took
      BY <1>0 DEF WInv, WaitExplained, Took
    <3>6. /\ Cardinality(ReadSince(d) \cup {on[c]}) * ReadTimeout =
               Cardinality(ReadSince(d)) * ReadTimeout + ReadTimeout
          /\ Cardinality(ReadSince(d)) * ReadTimeout \in Nat
      BY <3>1, <3>4, ReadsOf
    <3>7. waited'[d] <= Cardinality(ReadSince(d)') * ReadTimeout + Took'
      BY <3>0, <3>1, <3>3, <3>5, <3>6, <1>1, NotesAssumption
    <3>8. QED
      BY <3>7
  <2>3. QED
    BY <2>1, <2>2
<1>4. WaitBounded'
  <2>1. 0 <= WaitBound
    BY ReadsOf DEF WaitBound
  <2>2. QED
    BY <1>2, <2>1 DEF WInv, WaitBounded
<1>5. QED
  BY <1>1, <1>2, <1>3, <1>4 DEF WInv, WaitExplained

LEMMA ReadErrorWaits ==
  ASSUME TInv, TInv', WInv, NEW c \in Readers, ReadError(c)
  PROVE  WInv'
<1>1. ReadStale' /\ \A d \in Readers : waited'[d] = 0
  BY DEF ReadError, ReadStale
<1>2. WaitExplained'
  BY <1>1, NoWaitExplained DEF WaitExplained
<1>3. 0 <= WaitBound
  BY ReadsOf DEF WaitBound
<1>4. QED
  BY <1>1, <1>2, <1>3 DEF WInv, WaitBounded

LEMMA TickWaits ==
  ASSUME ReadableWithinTTL, TInv, TInv', WInv, Tick
  PROVE  WInv'
<1>0. UNCHANGED <<mu, pc, failed>>
  BY DEF Tick
<1>1. ReadStale'
  <2> SUFFICES ASSUME mu # Free PROVE read'.said # {} /\ ~Fresh(read.feed)'
    BY <1>0 DEF ReadStale
  <2>1. read'.feed = read.feed /\ read'.said = read.said /\ read.feed \in Feeds
    BY TickTypes, ReadUnderWay DEF Reads
  <2>2. cache'[read.feed] = cache[read.feed] /\ ~Fresh(read.feed)
    BY <2>1, TickTypes DEF WInv, ReadStale
  <2>3. QED
    BY <2>1, <2>2 DEF WInv, ReadStale, Fresh
<1>2. ASSUME NEW c \in Readers
      PROVE  /\ waited'[c] <= (Cardinality(ReadSince(c)) * ReadTimeout + Took)'
             /\ waited'[c] <= WaitBound
             /\ pc'[c] \notin {"lock", "read"} => waited'[c] = 0
             /\ failed' => waited'[c] = 0
  <2>1. waited'[c] = IF ~failed /\ pc[c] \in {"lock", "read"} THEN waited[c] + 1 ELSE 0
    BY TickTypes
  <2>2. CASE waited'[c] = 0
    BY <1>0, <2>1, <2>2, NoWaitExplained, ReadsOf DEF WaitBound
  <2>3. CASE waited'[c] # 0
    <3>0. ~failed /\ pc[c] \in {"lock", "read"} /\ waited'[c] = waited[c] + 1 /\ mu # Free
      BY <2>1, <2>3, NotesAssumption DEF Tick, TInv, TypeOK
    <3>1. /\ read.feed \in Feeds \ ReadSince(c) /\ read.took \in 0 .. ReadTimeout
          /\ read.took < ReadTimeout /\ read'.took = read.took + 1
      BY <3>0, ReadUnderWay, ReadIsNotAgain, TickTypes DEF Tick, Reads
    <3>2. ReadSince(c) \in SUBSET Feeds /\ ReadSince(c)' \in SUBSET Feeds
      BY DEF ReadSince
    <3>3. ReadSince(c) \subseteq ReadSince(c)'
      <4> SUFFICES ASSUME NEW f \in Feeds, cache[f] # None, cache[f].age < waited[c]
                   PROVE  cache'[f] # None /\ cache'[f].age < waited[c] + 1
        BY <3>0 DEF ReadSince
      <4>1. cache[f] \in Held /\ waited[c] \in Nat /\ cache[f].age \in 0 .. TTL
        BY DEF TInv, TypeOK, Held
      <4>2. CASE Fresh(f)
        <5>1. cache'[f] = [cache[f] EXCEPT !.age = @ + 1]
          BY <4>2, TickTypes
        <5>2. cache'[f].age = cache[f].age + 1
          BY <4>1, <5>1 DEF Held
        <5>3. cache'[f] \in Held
          BY <4>1, <4>2, <5>1, NotesAssumption DEF Held, Fresh
        <5>4. QED
          BY <5>2, <5>3, <4>1, NotesAssumption
      <4>3. CASE ~Fresh(f)
        <5>1. cache'[f] = cache[f]
          BY <4>3, TickTypes
        <5>2. QED
          BY <5>1, <4>1, NotesAssumption
      <4>4. QED
        BY <4>2, <4>3
    <3>4. waited[c] <= Cardinality(ReadSince(c)) * ReadTimeout + read.took
      BY <3>0 DEF WInv, WaitExplained, Took
    <3>5. /\ Cardinality(ReadSince(c)) * ReadTimeout \in Nat
          /\ Cardinality(ReadSince(c)) * ReadTimeout + ReadTimeout <= WaitBound
      BY <3>1, <3>2, ReadsOf
    <3>6. /\ Cardinality(ReadSince(c)') * ReadTimeout \in Nat
          /\ Cardinality(ReadSince(c)) * ReadTimeout <= Cardinality(ReadSince(c)') * ReadTimeout
      BY <3>2, <3>3, ReadsOf
    <3>7. Took' = read.took + 1 /\ waited[c] \in Nat /\ WaitBound \in Nat
      BY <3>0, <3>1, <1>0, ReadsOf DEF Took, TInv, TypeOK, WaitBound
    <3>8. /\ waited'[c] <= Cardinality(ReadSince(c)') * ReadTimeout + Took'
          /\ waited'[c] <= WaitBound
      BY <3>0, <3>1, <3>4, <3>5, <3>6, <3>7, NotesAssumption
    <3>9. QED
      BY <3>0, <3>8, <1>0
  <2>4. QED
    BY <2>2, <2>3
<1>3. QED
  BY <1>1, <1>2 DEF WInv, WaitExplained, WaitBounded

LEMMA WaitsInductive ==
  ASSUME ReadableWithinTTL, TInv, TInv', WInv, [Next]_vars
  PROVE  WInv'
<1>1. ASSUME NEW c \in Readers, NEW f \in Feeds, HandleChannel(c, f) PROVE WInv'
  <2>1. \A d \in Readers : pc'[d] \notin {"lock", "read"} => pc[d] \notin {"lock", "read"}
    BY <1>1 DEF HandleChannel, TInv, TypeOK
  <2>2. QED
    BY <1>1, <2>1, QuietWaits DEF HandleChannel, WInv, ReadStale
<1>2. ASSUME NEW c \in Streams, StreamTick(c) \/ HangUp(c) \/ StreamEnds(c) PROVE WInv'
  <2>1. \A d \in Readers : pc'[d] \notin {"lock", "read"} => pc[d] \notin {"lock", "read"}
    BY <1>2 DEF StreamTick, HangUp, StreamEnds, TInv, TypeOK, Readers
  <2>2. QED
    BY <1>2, <2>1, QuietWaits DEF StreamTick, HangUp, StreamEnds, WInv, ReadStale
<1>3. ASSUME NEW f \in Feeds, NEW content \in Contents, FeedChanges(f, content) PROVE WInv'
  <2>1. mu # Free => /\ read'.feed = read.feed /\ read'.took = read.took
                     /\ read'.said # {}
    <3> SUFFICES ASSUME mu # Free
                 PROVE  /\ read'.feed = read.feed /\ read'.took = read.took
                        /\ read'.said # {}
      OBVIOUS
    <3>1. read \in Reads /\ read.said # {}
      BY ReadUnderWay DEF WInv, ReadStale
    <3>2. read' = IF read.feed = f THEN [read EXCEPT !.said = @ \cup {content}] ELSE read
      BY <1>3, FeedChangesTypes
    <3>3. QED
      BY <3>1, <3>2 DEF Reads
  <2>2. QED
    BY <1>3, <2>1, QuietWaits DEF FeedChanges
<1>4. CASE UNCHANGED vars
  BY <1>4, QuietWaits DEF vars, WInv, ReadStale
<1>5. QED
  BY <1>1, <1>2, <1>3, <1>4, GetCachedWaits, GetReadWaits, ReadOKWaits, ReadErrorWaits,
     TickWaits DEF Next

LEMMA InitWaits == Init => WInv
<1> SUFFICES ASSUME Init PROVE WInv
  OBVIOUS
<1>1. ASSUME NEW c \in Readers PROVE 0 <= Cardinality(ReadSince(c)) * ReadTimeout + Took
  BY ReadsOf DEF ReadSince, Init, Took
<1>2. 0 <= WaitBound
  BY ReadsOf DEF WaitBound
<1>3. QED
  BY <1>1, <1>2 DEF Init, WInv, ReadStale, WaitExplained, WaitBounded

(* While no read has failed, a reader of a store whose feeds can all be     *)
(* read within one ttl waits for one read of every feed at most, however    *)
(* many readers share Store.mu (Get).                                       *)
THEOREM WaitsAreBounded == ASSUME ReadableWithinTTL PROVE Spec => []WaitBounded
<1>1. WInv => WaitBounded
  BY DEF WInv
<1>2. TInv /\ TInv' /\ WInv /\ [Next]_vars => WInv'
  BY WaitsInductive
<1>3. QED
  BY <1>1, <1>2, InitTypes, TypesInductive, InitWaits, PTL DEF Spec

(* A read begins for a feed that has expired, and nothing else can renew it.*)
LEMMA StaleInductive == TInv /\ TInv' /\ ReadStale /\ [Next]_vars => ReadStale'
<1> SUFFICES ASSUME TInv, TInv', ReadStale, [Next]_vars PROVE ReadStale'
  OBVIOUS
<1>1. ASSUME NEW c \in Readers, GetCached(c) \/ \E f \in Feeds : HandleChannel(c, f)
      PROVE  ReadStale'
  BY <1>1 DEF HandleChannel, GetCached, ReadStale, Fresh
<1>2. ASSUME NEW c \in Readers, GetRead(c) PROVE ReadStale'
  BY <1>2 DEF GetRead, ReadStale, Fresh
<1>3. ASSUME NEW c \in Readers, ReadError(c) \/ \E content \in Contents : ReadOK(c, content)
      PROVE  ReadStale'
  BY <1>3 DEF ReadError, ReadOK, ReadStale
<1>4. ASSUME NEW c \in Streams, StreamTick(c) \/ HangUp(c) \/ StreamEnds(c) PROVE ReadStale'
  BY <1>4 DEF StreamTick, HangUp, StreamEnds, ReadStale, Fresh
<1>5. ASSUME NEW f \in Feeds, NEW content \in Contents, FeedChanges(f, content)
      PROVE  ReadStale'
  <2>1. UNCHANGED <<mu, cache>>
    BY <1>5 DEF FeedChanges
  <2>2. ASSUME mu # Free PROVE read'.feed = read.feed /\ read'.said # {}
    <3>1. read \in Reads /\ read.said # {}
      BY <2>2, ReadUnderWay DEF ReadStale
    <3>2. read' = IF read.feed = f THEN [read EXCEPT !.said = @ \cup {content}] ELSE read
      BY <1>5, <2>2, FeedChangesTypes
    <3>3. QED
      BY <3>1, <3>2 DEF Reads
  <2>3. QED
    BY <2>1, <2>2 DEF ReadStale, Fresh
<1>6. CASE Tick
  <2>1. mu' = mu
    BY <1>6 DEF Tick
  <2> SUFFICES ASSUME mu # Free PROVE read'.said # {} /\ ~Fresh(read.feed)'
    BY <2>1 DEF ReadStale
  <2>2. read'.feed = read.feed /\ read'.said = read.said /\ read.feed \in Feeds
    BY <1>6, TickTypes, ReadUnderWay DEF Reads
  <2>3. cache'[read.feed] = cache[read.feed] /\ ~Fresh(read.feed)
    BY <1>6, <2>2, TickTypes DEF ReadStale
  <2>4. QED
    BY <2>2, <2>3 DEF ReadStale, Fresh
<1>7. CASE UNCHANGED vars
  BY <1>7 DEF vars, ReadStale, Fresh
<1>8. QED
  BY <1>1, <1>2, <1>3, <1>4, <1>5, <1>6, <1>7 DEF Next

(* The store is the cache FeedCache specifies: a source is read only when   *)
(* what is held of it has expired, by one reader at a time, and what is     *)
(* held was said during the read (Get).                                     *)
THEOREM ImplementsFeedCache == Spec => IsFeedCache
<1>1. Init => Cache!Init
  BY DEF Init, Cache!Init
<1>2. Init => ReadStale
  BY DEF Init, ReadStale
<1>3. QED
  BY <1>1, <1>2, InitTypes, TypesInductive, StaleInductive, StepRefines, PTL
     DEF Spec, IsFeedCache, Cache!Spec

-----------------------------------------------------------------------------
(* The parts of the items' invariant for one stream and one item. *)
NothingOwedOf(c, i) ==
  pc[c] = "idle" \/ failed \/ i \notin source[on[c]] => unsent[c][i] = 0
NewInRead(c, i) ==
  pc[c] # "idle" /\ mu # Free /\ read.feed = on[c] =>
    \A v \in read.said : i \notin v => unsent[c][i] <= read.took
NewInHeld(c, i) ==
  pc[c] # "idle" /\ Fresh(on[c]) /\ i \notin cache[on[c]].content =>
    unsent[c][i] <= cache[on[c]].age + ReadTimeout
OwedOf(c, i) ==
  /\ pc[c] = "watch" =>
       /\ ticker[c].next > 0 /\ unsent[c][i] <= AskBound
       /\ ticker[c].ready \/ unsent[c][i] + ticker[c].next <= AskBound
  /\ pc[c] \in {"lock", "read"} => unsent[c][i] <= AskBound + waited[c]
ItemInv(c, i) ==
  NothingOwedOf(c, i) /\ NewInRead(c, i) /\ NewInHeld(c, i) /\ OwedOf(c, i)

LEMMA ItemByItem == AInv <=> \A c \in Streams, i \in Ids : ItemInv(c, i)
BY DEF AInv, ItemInv, NothingOwed, NothingOwedOf, MissingIsNew, NewInRead, NewInHeld,
       OwedUntilTick, OwedOf

(* What a stream and an item are made of. *)
LEMMA ItemTypes ==
  ASSUME TInv, NEW c \in Streams, NEW i \in Ids
  PROVE  /\ c \in Readers /\ unsent[c][i] \in Nat /\ waited[c] \in Nat
         /\ ticker[c].next \in 0 .. Period /\ ticker[c].ready \in BOOLEAN
         /\ pc[c] \in {"idle", "lock", "read", "watch"}
         /\ pc[c] # "idle" => on[c] \in Feeds
         /\ pc[c] # "idle" /\ Fresh(on[c]) =>
              /\ cache[on[c]] \in Held
              /\ cache[on[c]].age \in Nat /\ cache[on[c]].age < TTL
         /\ AskBound \in Nat /\ Period <= AskBound
<1>1. c \in Readers
  BY DEF Readers
<1>2. ticker[c] \in [next : 0 .. Period, ready : BOOLEAN]
  BY DEF TInv, TypeOK
<1>3. pc[c] # "idle" => on[c] \in Feeds
  BY <1>1 DEF TInv, Configured
<1>4. pc[c] # "idle" /\ Fresh(on[c]) =>
        /\ cache[on[c]] \in Held
        /\ cache[on[c]].age \in Nat /\ cache[on[c]].age < TTL
  BY <1>3, NotesAssumption DEF Fresh, Held, TInv, TypeOK
<1>5. AskBound \in Nat /\ Period <= AskBound
  BY NotesAssumption DEF AskBound
<1>6. QED
  BY <1>1, <1>2, <1>3, <1>4, <1>5 DEF TInv, TypeOK

(* Steps that leave a stream's handler where it is, or of no concern to it. *)
LEMMA OtherStreamKeeps ==
  ASSUME TInv, TInv', AInv, NEW c \in Streams, NEW i \in Ids,
         pc'[c] = pc[c], on'[c] = on[c], ticker'[c] = ticker[c],
         waited'[c] = waited[c], unsent'[c][i] = unsent[c][i],
         UNCHANGED <<source, cache, failed>>,
         \/ UNCHANGED <<mu, read>>
         \/ mu' = Free
  PROVE  ItemInv(c, i)'
<1>1. ItemInv(c, i)
  BY ItemByItem
<1>2. QED
  BY <1>1 DEF ItemInv, NothingOwedOf, NewInRead, NewInHeld, OwedOf, Fresh

LEMMA AskItems ==
  ASSUME TInv, TInv', AInv, NEW c \in Readers, NEW f \in Feeds, HandleChannel(c, f),
         NEW d \in Streams, NEW i \in Ids
  PROVE  ItemInv(d, i)'
<1>1. CASE d = c
  <2>1. /\ unsent'[d][i] = 0 /\ pc'[d] = "lock"
        /\ waited'[d] \in Nat /\ AskBound \in Nat
    BY <1>1, ItemByItem, ItemTypes DEF HandleChannel, ItemInv, NothingOwedOf, TInv, TypeOK
  <2>2. mu' # Free => read'.took \in Nat
    BY NotesAssumption DEF TInv, TypeOK, Reads
  <2>3. Fresh(on[d])' /\ on'[d] \in Feeds => (cache[on[d]].age)' + ReadTimeout \in Nat
    BY NotesAssumption DEF Fresh, Held, TInv, TypeOK
  <2>4. on'[d] \in Feeds
    BY <1>1, <2>1 DEF TInv, Configured
  <2>5. QED
    BY <2>1, <2>2, <2>3, <2>4 DEF ItemInv, NothingOwedOf, NewInRead, NewInHeld, OwedOf
<1>2. CASE d # c
  BY <1>2, ItemTypes, OtherStreamKeeps DEF HandleChannel, TInv, TypeOK
<1>3. QED
  BY <1>1, <1>2

LEMMA StreamTickItems ==
  ASSUME TInv, TInv', AInv, WInv, NEW c \in Streams, StreamTick(c),
         NEW d \in Streams, NEW i \in Ids
  PROVE  ItemInv(d, i)'
<1>1. CASE d = c
  <2>0. ItemInv(c, i) /\ c \in Readers /\ waited[c] = 0
    BY ItemByItem, ItemTypes DEF StreamTick, WInv, WaitExplained
  <2>1. /\ pc[c] = "watch" /\ pc'[c] = "lock"
        /\ UNCHANGED <<source, cache, mu, read, on, failed, waited, unsent>>
    BY <2>0 DEF StreamTick, TInv, TypeOK
  <2>2. unsent[c][i] <= AskBound /\ AskBound + 0 = AskBound
    BY <2>0, <2>1, ItemTypes DEF ItemInv, OwedOf
  <2>3. QED
    BY <1>1, <2>0, <2>1, <2>2 DEF ItemInv, NothingOwedOf, NewInRead, NewInHeld, OwedOf, Fresh
<1>2. CASE d # c
  BY <1>2, ItemTypes, OtherStreamKeeps DEF StreamTick, TInv, TypeOK
<1>3. QED
  BY <1>1, <1>2

LEMMA StreamEndsItems ==
  ASSUME TInv, TInv', AInv, NEW c \in Streams, StreamEnds(c),
         NEW d \in Streams, NEW i \in Ids
  PROVE  ItemInv(d, i)'
<1>1. CASE d = c
  <2>1. pc'[d] = "idle" /\ unsent'[d][i] = 0
    BY <1>1, ItemTypes DEF StreamEnds, TInv, TypeOK
  <2>2. QED
    BY <2>1 DEF ItemInv, NothingOwedOf, NewInRead, NewInHeld, OwedOf
<1>2. CASE d # c
  BY <1>2, ItemTypes, OtherStreamKeeps DEF StreamEnds, TInv, TypeOK
<1>3. QED
  BY <1>1, <1>2

(* A stream returns from Get and has sent the items of what is then held,   *)
(* so an item it still owes is missing there.                               *)
ReturnsHeld(c, i) ==
  /\ pc[c] \in {"lock", "read"} /\ NothingOwedOf(c, i) /\ Return(c)
  /\ mu' = Free /\ UNCHANGED <<source, failed>>
  /\ unsent'[c][i] \in {0, unsent[c][i]}
  /\ (i \notin cache[on[c]].content)' => unsent'[c][i] <= (cache[on[c]].age)' + ReadTimeout
  /\ unsent'[c][i] = 0 \/ (Fresh(on[c])' /\ (i \notin cache[on[c]].content)')

LEMMA ReturnedItem ==
  ASSUME TInv, TInv', NEW c \in Streams, NEW i \in Ids, ReturnsHeld(c, i)
  PROVE  ItemInv(c, i)'
<1> USE DEF ReturnsHeld
<1>0. /\ c \in Readers /\ pc'[c] = "watch" /\ on'[c] = on[c]
      /\ ticker'[c].next > 0
  <2>1. c \in Readers /\ c \notin Getters
    BY ItemTypes, NotesAssumption
  <2>2. pc'[c] = "watch"
    BY <2>1 DEF Return, TInv, TypeOK
  <2>3. QED
    BY <2>1, <2>2, ReturnMoves
<1>1. /\ ticker'[c] \in [next : 0 .. Period, ready : BOOLEAN]
      /\ unsent'[c][i] \in Nat
  BY DEF TInv, TypeOK
<1>2. unsent'[c][i] <= ReadTimeout + TTL
  <2>1. CASE unsent'[c][i] = 0
    BY <2>1, NotesAssumption
  <2>2. CASE unsent'[c][i] # 0
    <3>1. on'[c] \in Feeds
      BY <1>0 DEF TInv, Configured
    <3>2. (cache[on[c]].age)' \in Nat /\ (cache[on[c]].age)' < TTL
      BY <2>2, <3>1, NotesAssumption DEF Fresh, Held, TInv, TypeOK
    <3>3. QED
      BY <2>2, <3>2, <1>1, NotesAssumption
  <2>3. QED
    BY <2>1, <2>2
<1>3. unsent'[c][i] + ticker'[c].next <= AskBound /\ unsent'[c][i] <= AskBound
  BY <1>1, <1>2, NotesAssumption DEF AskBound
<1>4. OwedOf(c, i)'
  BY <1>0, <1>3 DEF OwedOf
<1>5. NothingOwedOf(c, i)' /\ NewInRead(c, i)' /\ NewInHeld(c, i)'
  BY <1>0 DEF NothingOwedOf, NewInRead, NewInHeld
<1>6. QED
  BY <1>4, <1>5 DEF ItemInv

LEMMA GetCachedItems ==
  ASSUME TInv, TInv', AInv, NEW c \in Readers, GetCached(c),
         NEW d \in Streams, NEW i \in Ids
  PROVE  ItemInv(d, i)'
<1>0. /\ pc[c] = "lock" /\ mu = Free /\ Fresh(on[c]) /\ Return(c)
      /\ cache[on[c]].content \in Contents /\ Served(c, cache[on[c]].content)
      /\ UNCHANGED <<source, cache, mu, read, failed>>
  BY GetCachedTypes DEF GetCached, Served, Held
<1>1. CASE d = c
  <2>0. ItemInv(c, i)
    BY <1>1, ItemByItem
  <2>1. unsent'[c][i] = IF i \in cache[on[c]].content THEN 0 ELSE unsent[c][i]
    BY <1>0, <1>1, ServedMoves
  <2>2. on'[c] = on[c]
    BY <1>0, <1>1, NotesAssumption DEF Return
  <2>3. /\ Fresh(on[c])'
        /\ (i \notin cache[on[c]].content)' =>
             unsent'[c][i] <= (cache[on[c]].age)' + ReadTimeout
    BY <1>0, <2>0, <2>1, <2>2 DEF ItemInv, NewInHeld, Fresh
  <2>4. unsent'[c][i] = 0 \/ (i \notin cache[on[c]].content)'
    BY <1>0, <2>1, <2>2
  <2>5. ReturnsHeld(c, i)
    BY <1>0, <2>0, <2>1, <2>3, <2>4 DEF ItemInv, ReturnsHeld
  <2>6. QED
    BY <1>1, <2>5, ReturnedItem
<1>2. CASE d # c
  <2>1. d \in Readers \ {c}
    BY <1>2, ItemTypes
  <2>2. /\ pc'[d] = pc[d] /\ on'[d] = on[d] /\ ticker'[d] = ticker[d]
        /\ waited'[d] = waited[d] /\ unsent'[d][i] = unsent[d][i]
    BY <1>0, <1>2, <2>1, ReturnMoves, ServedMoves
  <2>3. QED
    BY <1>0, <2>2, OtherStreamKeeps
<1>3. QED
  BY <1>1, <1>2

LEMMA GetReadItems ==
  ASSUME TInv, TInv', AInv, NEW c \in Readers, GetRead(c),
         NEW d \in Streams, NEW i \in Ids
  PROVE  ItemInv(d, i)'
<1>0. /\ ItemInv(d, i) /\ d \in Readers
      /\ UNCHANGED <<source, cache, on, ticker, failed, waited, unsent>>
      /\ read' = [feed |-> on[c], took |-> 0, said |-> {source[on[c]]}]
  BY ItemByItem, ItemTypes DEF GetRead
<1>1. \/ pc'[d] = pc[d]
      \/ pc[d] = "lock" /\ pc'[d] = "read"
  BY <1>0 DEF GetRead, TInv, TypeOK
<1>2. NewInRead(d, i)'
  BY <1>0, <1>1 DEF ItemInv, NothingOwedOf, NewInRead
<1>3. NothingOwedOf(d, i)' /\ NewInHeld(d, i)' /\ OwedOf(d, i)'
  BY <1>0, <1>1 DEF ItemInv, NothingOwedOf, NewInHeld, OwedOf, Fresh
<1>4. QED
  BY <1>2, <1>3 DEF ItemInv

LEMMA ReadOKItems ==
  ASSUME TInv, TInv', AInv, NEW c \in Readers, NEW content \in Contents, ReadOK(c, content),
         NEW d \in Streams, NEW i \in Ids
  PROVE  ItemInv(d, i)'
<1>0. /\ pc[c] = "read" /\ Return(c) /\ Served(c, content) /\ mu = c /\ mu # Free
      /\ mu' = Free /\ UNCHANGED <<source, failed>> /\ content \in read.said
      /\ cache' = [cache EXCEPT ![on[c]] = [content |-> content, age |-> 0]]
  BY NotesAssumption DEF ReadOK, Served, TInv, TypeOK
<1>1. /\ on[c] \in Feeds /\ read.feed = on[c] /\ read.took \in 0 .. ReadTimeout
      /\ ItemInv(d, i)
  BY <1>0, ReadUnderWay, ItemByItem DEF Reads
<1>2. /\ cache'[on[c]] = [content |-> content, age |-> 0]
      /\ \A f \in Feeds \ {on[c]} : cache'[f] = cache[f]
  BY <1>0, <1>1 DEF TInv, TypeOK
<1>3. ASSUME pc[d] # "idle", on[d] = on[c], i \notin content
      PROVE  unsent[d][i] <= 0 + ReadTimeout
  <2>1. unsent[d][i] <= read.took
    BY <1>0, <1>1, <1>3 DEF ItemInv, NewInRead
  <2>2. QED
    BY <2>1, <1>1, ItemTypes, NotesAssumption
<1>4. CASE d = c
  <2>1. unsent'[c][i] = IF i \in content THEN 0 ELSE unsent[c][i]
    BY <1>0, <1>4, ServedMoves
  <2>2. on'[c] = on[c]
    BY <1>0, <1>4, NotesAssumption DEF Return
  <2>3. (cache[on[c]].content)' = content /\ (cache[on[c]].age)' = 0
    BY <1>2, <2>2
  <2>4. (i \notin cache[on[c]].content)' =>
          unsent'[c][i] <= (cache[on[c]].age)' + ReadTimeout
    BY <1>0, <1>3, <1>4, <2>1, <2>3
  <2>5. Fresh(on[c])'
    <3>1. [content |-> content, age |-> 0] \in Held
      BY NotesAssumption DEF Held
    <3>2. QED
      BY <3>1, <1>2, <2>2, <2>3, NotesAssumption DEF Fresh
  <2>6. unsent'[c][i] = 0 \/ (i \notin cache[on[c]].content)'
    BY <2>1, <2>3
  <2>7. ReturnsHeld(c, i)
    BY <1>0, <1>1, <1>4, <2>1, <2>4, <2>5, <2>6 DEF ItemInv, ReturnsHeld
  <2>8. QED
    BY <1>4, <2>7, ReturnedItem
<1>5. CASE d # c
  <2>1. d \in Readers \ {c}
    BY <1>5, ItemTypes
  <2>2. /\ pc'[d] = pc[d] /\ on'[d] = on[d] /\ ticker'[d] = ticker[d]
        /\ waited'[d] = waited[d] /\ unsent'[d][i] = unsent[d][i]
    BY <1>0, <1>5, <2>1, ReturnMoves, ServedMoves
  <2>3. NewInHeld(d, i)'
    <3>1. CASE on[d] = on[c]
      BY <1>2, <1>3, <2>2, <3>1 DEF NewInHeld
    <3>2. CASE on[d] # on[c] /\ pc[d] # "idle"
      <4>1. cache'[on[d]] = cache[on[d]]
        BY <1>2, <3>2, ItemTypes
      <4>2. QED
        BY <1>1, <2>2, <4>1 DEF ItemInv, NewInHeld, Fresh
    <3>3. CASE pc[d] = "idle"
      BY <2>2, <3>3 DEF NewInHeld
    <3>4. QED
      BY <3>1, <3>2, <3>3
  <2>4. NothingOwedOf(d, i)' /\ NewInRead(d, i)' /\ OwedOf(d, i)'
    BY <1>0, <1>1, <2>2 DEF ItemInv, NothingOwedOf, NewInRead, OwedOf
  <2>5. QED
    BY <2>3, <2>4 DEF ItemInv
<1>6. QED
  BY <1>4, <1>5

(* A stream that is owed nothing. *)
LEMMA NothingOwedKeeps ==
  ASSUME TInv', NEW d \in Streams, NEW i \in Ids, unsent'[d][i] = 0,
         pc'[d] = "watch" => ticker'[d].next > 0
  PROVE  ItemInv(d, i)'
<1>1. /\ mu' # Free => read'.took \in Nat
      /\ waited'[d] \in Nat
  BY NotesAssumption DEF TInv, TypeOK, Reads, Readers
<1>2. on'[d] \in Feeds /\ Fresh(on[d])' => (cache[on[d]].age)' + ReadTimeout \in Nat
  BY NotesAssumption DEF Fresh, Held, TInv, TypeOK
<1>3. ticker'[d] \in [next : 0 .. Period, ready : BOOLEAN]
  BY DEF TInv, TypeOK
<1>4. AskBound \in Nat /\ ticker'[d].next \in Nat /\ ticker'[d].next <= AskBound
  BY <1>3, NotesAssumption DEF AskBound
<1>5. pc'[d] # "idle" => on'[d] \in Feeds
  BY DEF TInv, Configured, Readers
<1>6. NothingOwedOf(d, i)' /\ NewInRead(d, i)' /\ NewInHeld(d, i)'
  BY <1>1, <1>2, <1>5 DEF NothingOwedOf, NewInRead, NewInHeld
<1>7. OwedOf(d, i)'
  BY <1>1, <1>4 DEF OwedOf
<1>8. QED
  BY <1>6, <1>7 DEF ItemInv

LEMMA ReadErrorItems ==
  ASSUME TInv, TInv', AInv, NEW c \in Readers, ReadError(c),
         NEW d \in Streams, NEW i \in Ids
  PROVE  ItemInv(d, i)'
<1>1. unsent'[d][i] = 0 /\ d \in Readers
  BY ItemTypes DEF ReadError
<1>2. pc'[d] = "watch" => ticker'[d].next > 0
  BY <1>1, ReturnMoves, ItemByItem DEF ReadError, ItemInv, OwedOf
<1>3. QED
  BY <1>1, <1>2, NothingOwedKeeps

LEMMA FeedChangesItems ==
  ASSUME TInv, TInv', AInv, NEW f \in Feeds, NEW content \in Contents, FeedChanges(f, content),
         NEW d \in Streams, NEW i \in Ids
  PROVE  ItemInv(d, i)'
<1>0. /\ ItemInv(d, i) /\ UNCHANGED <<cache, mu, pc, on, ticker, failed, waited>>
      /\ source' = [source EXCEPT ![f] = content]
      /\ unsent'[d][i] = IF on[d] = f /\ i \notin content THEN 0 ELSE unsent[d][i]
  BY ItemByItem, FeedChangesTypes DEF FeedChanges
<1>1. CASE unsent'[d][i] = 0
  BY <1>0, <1>1, NothingOwedKeeps DEF ItemInv, OwedOf
<1>2. CASE unsent'[d][i] # 0
  <2>1. unsent'[d][i] = unsent[d][i] /\ ~(on[d] = f /\ i \notin content)
    BY <1>0, <1>2
  <2>2. pc[d] # "idle" /\ ~failed /\ i \in source[on[d]] /\ on[d] \in Feeds
    BY <1>0, <1>2, <2>1, ItemTypes DEF ItemInv, NothingOwedOf
  <2>3. NothingOwedOf(d, i)'
    BY <1>0, <2>1, <2>2 DEF NothingOwedOf, TInv, TypeOK
  <2>4. NewInRead(d, i)'
    <3> SUFFICES ASSUME mu # Free, read'.feed = on[d], NEW v \in read'.said, i \notin v
                 PROVE  unsent[d][i] <= read'.took
      BY <1>0, <2>1 DEF NewInRead
    <3>1. read \in Reads
      BY ReadUnderWay
    <3>2. read' = IF read.feed = f THEN [read EXCEPT !.said = @ \cup {content}] ELSE read
      BY FeedChangesTypes
    <3>3. /\ read'.feed = read.feed /\ read'.took = read.took
          /\ v \in read.said \/ (read.feed = f /\ v = content)
      <4>1. CASE read.feed = f
        <5>1. read'.said = read.said \cup {content}
          BY <3>1, <3>2, <4>1 DEF Reads
        <5>2. QED
          BY <3>1, <3>2, <4>1, <5>1 DEF Reads
      <4>2. CASE read.feed # f
        BY <3>2, <4>2
      <4>3. QED
        BY <4>1, <4>2
    <3>4. QED
      BY <1>0, <2>1, <2>2, <3>3 DEF ItemInv, NewInRead
  <2>5. NewInHeld(d, i)' /\ OwedOf(d, i)'
    BY <1>0, <2>1 DEF ItemInv, NewInHeld, OwedOf, Fresh
  <2>6. QED
    BY <2>3, <2>4, <2>5 DEF ItemInv
<1>3. QED
  BY <1>1, <1>2

LEMMA TickItems ==
  ASSUME TInv, TInv', AInv, Tick, NEW d \in Streams, NEW i \in Ids
  PROVE  ItemInv(d, i)'
<1>0. /\ ItemInv(d, i) /\ d \in Readers /\ UNCHANGED <<source, mu, pc, on, failed>>
      /\ unsent'[d][i] = IF ~failed /\ pc[d] # "idle" /\ i \in source[on[d]] \ seen[d]
                         THEN unsent[d][i] + 1 ELSE 0
  BY ItemByItem, TickTypes, ItemTypes DEF Tick
<1>1. ticker'[d] = CASE ticker[d].next = 0 -> ticker[d]
                     [] ticker[d].next = 1 -> [next |-> Period, ready |-> TRUE]
                     [] OTHER -> [ticker[d] EXCEPT !.next = @ - 1]
  BY DEF Tick
<1>2. /\ ticker[d] \in [next : 0 .. Period, ready : BOOLEAN] /\ Period \in Nat \ {0}
  BY NotesAssumption DEF TInv, TypeOK
<1>3. /\ ticker[d].next = 1 => ticker'[d].next = Period /\ ticker'[d].ready
      /\ ticker[d].next > 1 => ticker'[d].next = ticker[d].next - 1
  <2>1. ticker[d].next = 1 => ticker'[d] = [next |-> Period, ready |-> TRUE]
    BY <1>1
  <2>2. ticker[d].next > 1 => ticker'[d] = [ticker[d] EXCEPT !.next = @ - 1]
    BY <1>1, <1>2
  <2>3. QED
    BY <1>2, <2>1, <2>2
<1>4. pc'[d] = "watch" => ticker'[d].next > 0 /\ ~ticker[d].ready /\ ticker[d].next > 0
  BY <1>0, <1>2, <1>3 DEF Tick, ItemInv, OwedOf
<1>5. CASE unsent'[d][i] = 0
  BY <1>4, <1>5, NothingOwedKeeps
<1>6. CASE unsent'[d][i] # 0
  <2>1. /\ unsent'[d][i] = unsent[d][i] + 1 /\ unsent[d][i] \in Nat
        /\ ~failed /\ pc[d] # "idle" /\ i \in source[on[d]] /\ on[d] \in Feeds
    BY <1>0, <1>6, ItemTypes
  <2>2. NothingOwedOf(d, i)'
    BY <1>0, <2>1 DEF NothingOwedOf
  <2>3. NewInRead(d, i)'
    <3> SUFFICES ASSUME mu # Free, read'.feed = on[d], NEW v \in read'.said, i \notin v
                 PROVE  unsent[d][i] + 1 <= read'.took
      BY <1>0, <2>1 DEF NewInRead
    <3>1. read \in Reads /\ read' = [read EXCEPT !.took = @ + 1]
      BY ReadUnderWay, TickTypes
    <3>2. /\ read'.feed = read.feed /\ read'.said = read.said
          /\ read'.took = read.took + 1 /\ read.took \in Nat
      BY <3>1, NotesAssumption DEF Reads
    <3>3. unsent[d][i] <= read.took
      BY <1>0, <2>1, <3>2 DEF ItemInv, NewInRead
    <3>4. QED
      BY <2>1, <3>2, <3>3
  <2>4. NewInHeld(d, i)'
    <3> SUFFICES ASSUME Fresh(on[d])', i \notin (cache[on[d]].content)'
                 PROVE  unsent[d][i] + 1 <= (cache[on[d]].age)' + ReadTimeout
      BY <2>1 DEF NewInHeld
    <3>1. cache'[on[d]] = IF Fresh(on[d]) THEN [cache[on[d]] EXCEPT !.age = @ + 1]
                          ELSE cache[on[d]]
      BY <2>1, TickTypes
    <3>2. Fresh(on[d]) /\ cache[on[d]] \in Held /\ cache[on[d]].age \in Nat
      BY <1>0, <2>1, <3>1, ItemTypes DEF Fresh
    <3>3. /\ (cache[on[d]].age)' = cache[on[d]].age + 1
          /\ (cache[on[d]].content)' = cache[on[d]].content
      BY <1>0, <3>1, <3>2 DEF Held
    <3>4. unsent[d][i] <= cache[on[d]].age + ReadTimeout
      BY <1>0, <2>1, <3>2, <3>3 DEF ItemInv, NewInHeld
    <3>5. QED
      BY <2>1, <3>2, <3>3, <3>4, NotesAssumption
  <2>5. OwedOf(d, i)'
    <3>1. CASE pc[d] = "watch"
      <4>1. unsent[d][i] + ticker[d].next <= AskBound /\ AskBound \in Nat
        BY <1>0, <1>4, <3>1, ItemTypes DEF ItemInv, OwedOf
      <4>2. CASE ticker[d].next = 1
        BY <1>0, <1>3, <1>4, <2>1, <3>1, <4>1, <4>2 DEF OwedOf
      <4>3. CASE ticker[d].next > 1
        <5>1. unsent'[d][i] + ticker'[d].next <= AskBound /\ unsent'[d][i] <= AskBound
          BY <1>2, <1>3, <2>1, <4>1, <4>3
        <5>2. QED
          BY <1>0, <1>4, <3>1, <5>1 DEF OwedOf
      <4>4. QED
        BY <1>0, <1>2, <1>4, <3>1, <4>2, <4>3
    <3>2. CASE pc[d] \in {"lock", "read"}
      <4>1. waited'[d] = waited[d] + 1 /\ waited[d] \in Nat /\ AskBound \in Nat
        BY <1>0, <2>1, <3>2, TickTypes, ItemTypes
      <4>2. unsent[d][i] <= AskBound + waited[d]
        BY <1>0, <3>2 DEF ItemInv, OwedOf
      <4>3. unsent'[d][i] <= AskBound + waited'[d]
        BY <2>1, <4>1, <4>2
      <4>4. QED
        BY <1>0, <3>2, <4>3 DEF OwedOf
    <3>3. QED
      BY <1>0, <2>1, <3>1, <3>2, ItemTypes
  <2>6. QED
    BY <2>2, <2>3, <2>4, <2>5 DEF ItemInv
<1>7. QED
  BY <1>5, <1>6

LEMMA ItemsInductive == TInv /\ TInv' /\ WInv /\ AInv /\ [Next]_vars => AInv'
<1> SUFFICES ASSUME TInv, TInv', WInv, AInv, [Next]_vars, NEW d \in Streams, NEW i \in Ids
             PROVE  ItemInv(d, i)'
  <2>1. (\A c \in Streams, i \in Ids : ItemInv(c, i))' => AInv'
    BY DEF AInv, ItemInv, NothingOwed, NothingOwedOf, MissingIsNew, NewInRead, NewInHeld,
           OwedUntilTick, OwedOf
  <2>2. QED
    BY <2>1
<1>1. ASSUME NEW c \in Streams, HangUp(c) PROVE ItemInv(d, i)'
  BY <1>1, OtherStreamKeeps DEF HangUp
<1>2. CASE UNCHANGED vars
  BY <1>2, OtherStreamKeeps DEF vars
<1>3. QED
  BY <1>1, <1>2, AskItems, StreamTickItems, StreamEndsItems, GetCachedItems, GetReadItems,
     ReadOKItems, ReadErrorItems, FeedChangesItems, TickItems DEF Next

LEMMA InitItems == Init => AInv
BY DEF Init, AInv, NothingOwed, MissingIsNew, OwedUntilTick, Readers

(* While no read has failed, an item that stays in a feed of such a store   *)
(* is announced on every stream of the feed within a read, a ttl, a period  *)
(* and a wait, however the ttl and the tickers are out of step              *)
(* (handleNotesSSE, Get).                                                   *)
THEOREM ItemsAnnounced == ASSUME ReadableWithinTTL PROVE Spec => []Announced
<1>1. TInv /\ WInv /\ AInv => Announced
  <2> SUFFICES ASSUME TInv, WInv, AInv, NEW c \in Streams, NEW i \in Ids
               PROVE  unsent[c][i] <= AnnounceBound
    BY DEF Announced
  <2>1. /\ waited[c] <= WaitBound /\ waited[c] \in Nat /\ c \in Readers
        /\ unsent[c][i] \in Nat /\ AskBound \in Nat
    BY ItemTypes DEF WInv, WaitBounded
  <2>2. unsent[c][i] <= AskBound + waited[c]
    BY <2>1, ItemByItem, ItemTypes DEF ItemInv, NothingOwedOf, OwedOf
  <2>3. WaitBound \in Nat /\ AnnounceBound = AskBound + WaitBound
    BY ReadsOf, NotesAssumption DEF WaitBound, AnnounceBound, AskBound
  <2>4. QED
    BY <2>1, <2>2, <2>3
<1>2. TInv /\ TInv' /\ WInv /\ [Next]_vars => WInv'
  BY WaitsInductive
<1>3. QED
  BY <1>1, <1>2, InitTypes, TypesInductive, InitWaits, InitItems, ItemsInductive, PTL DEF Spec
=============================================================================
