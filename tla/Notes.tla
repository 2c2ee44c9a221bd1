------------------------------- MODULE Notes -------------------------------
(***************************************************************************)
(* Notes channels: notes.Store and the two handlers of internal/server     *)
(* that read it, the snapshot request and the SSE stream.                  *)
(*                                                                         *)
(* Store.mu covers every feed and is held across a read, so a reader waits *)
(* for the reads of other channels too.  A read takes no context: it goes  *)
(* on after its client has left, and ends by its own timeout.  Times are   *)
(* ages and countdowns, so time is not bounded.                            *)
(***************************************************************************)
EXTENDS Naturals, FiniteSets

CONSTANTS
  Feeds,         \* the configured channels, by name
  Getters,       \* requests for a channel's items
  Streams,       \* SSE clients
  Ids,           \* item ids a feed can hold
  NoID,          \* an item whose id is empty
  Contents,      \* the sets of items a feed can hold
  TTL,           \* the store's ttl, 30s
  Period,        \* a stream's ticker, 20s
  ReadTimeout,   \* the timeout of one Read, 5s
  None, Free

Readers == Getters \cup Streams

(* What is held for a feed, and a read under way. *)
Held == [content : Contents, age : 0 .. TTL]
Reads == [feed : Feeds, took : 0 .. ReadTimeout, said : SUBSET Contents]

ASSUME NotesAssumption ==
  /\ IsFiniteSet(Feeds)
  /\ TTL \in Nat \ {0} /\ Period \in Nat \ {0} /\ ReadTimeout \in Nat \ {0}
  /\ Contents \subseteq SUBSET (Ids \cup {NoID}) /\ NoID \notin Ids
  /\ Free \notin Readers /\ Getters \cap Streams = {}
  /\ None \notin Held \cup Reads

(* Every feed can be read within one ttl: at 5s and 30s, up to six feeds.   *)
(* The code sets no limit; the bounds below are stated for such a store.    *)
ReadableWithinTTL == Cardinality(Feeds) * ReadTimeout <= TTL

(* The longest a reader waits: one read of every feed. *)
WaitBound == Cardinality(Feeds) * ReadTimeout

(* The longest an item goes unannounced: a content read just before it      *)
(* appeared lives for TTL after the read ended, the tick after that asks.   *)
AnnounceBound == ReadTimeout + TTL + Period + WaitBound

VARIABLES
  source,   \* external: the items each feed holds now
  cache,    \* Store.cache: the content held for each feed and its age
  mu,       \* who holds Store.mu across a read, or Free
  read,     \* the read under way: its feed, its duration, what the feed said since
  pc,       \* where each handler is
  on,       \* the feed a handler serves
  seen,     \* seen: the ids a stream has sent
  ticker,   \* a stream's ticker: time to the next tick, and whether C holds one
  gone,     \* streams whose client has left
  failed,   \* history: some read has failed
  waited,   \* history, until then: how long a reader has been in Get
  unsent    \* history, until then: how long a stream has not been sent an item
            \* its feed holds

vars == <<source, cache, mu, read, pc, on, seen, ticker, gone, failed, waited, unsent>>

NoTicker == [next |-> 0, ready |-> FALSE]

Init ==
  /\ source \in [Feeds -> Contents]
  /\ cache  = [f \in Feeds |-> None]
  /\ mu = Free /\ read = None
  /\ pc     = [c \in Readers |-> "idle"]
  /\ on     = [c \in Readers |-> None]
  /\ seen   = [c \in Streams |-> {}]
  /\ ticker = [c \in Streams |-> NoTicker]
  /\ gone   = {}
  /\ failed = FALSE
  /\ waited = [c \in Readers |-> 0]
  /\ unsent = [c \in Streams |-> [i \in Ids |-> 0]]

-----------------------------------------------------------------------------
(* A handler calls Get: a request arrives, a client connects, a tick fires. *)
HandleChannel(c, f) ==
  /\ pc[c] = "idle"
  /\ pc' = [pc EXCEPT ![c] = "lock"]
  /\ on' = [on EXCEPT ![c] = f]
  /\ UNCHANGED <<source, cache, mu, read, seen, ticker, gone, failed, waited, unsent>>

StreamTick(c) ==
  /\ pc[c] = "watch"
  /\ ticker[c].ready
  /\ pc'     = [pc EXCEPT ![c] = "lock"]
  /\ ticker' = [ticker EXCEPT ![c].ready = FALSE]
  /\ UNCHANGED <<source, cache, mu, read, on, seen, gone, failed, waited, unsent>>

(* emit sends the items of the content that have an id the stream has not   *)
(* sent.                                                                    *)
emit(c, content) ==
  /\ seen'   = [seen EXCEPT ![c] = @ \cup (content \ {NoID})]
  /\ unsent' = [unsent EXCEPT ![c] = [i \in Ids |-> IF i \in content THEN 0 ELSE @[i]]]

(* Get returns.  A getter answers with the items or the error.  A stream    *)
(* watches, and starts its ticker after its first Get.                      *)
Return(c) ==
  \/ /\ c \in Getters
     /\ pc' = [pc EXCEPT ![c] = "idle"]
     /\ on' = [on EXCEPT ![c] = None]
     /\ UNCHANGED ticker
  \/ /\ c \in Streams
     /\ pc' = [pc EXCEPT ![c] = "watch"]
     /\ ticker' = IF ticker[c].next # 0 THEN ticker
                  ELSE [ticker EXCEPT ![c].next = Period]
     /\ UNCHANGED on

Served(c, content) ==
  /\ Return(c)
  /\ waited' = [waited EXCEPT ![c] = 0]
  /\ IF c \in Streams THEN emit(c, content) ELSE UNCHANGED <<seen, unsent>>

(* The held content is younger than the ttl. *)
Fresh(f) == cache[f] # None /\ cache[f].age < TTL

(* MUTANT of GetCached: a tick served from the cache is taken to hold       *)
(* nothing new.                                                             *)
GetCachedSilent(c) ==
  /\ pc[c] = "lock"
  /\ mu = Free
  /\ Fresh(on[c])
  /\ Return(c)
  /\ waited' = [waited EXCEPT ![c] = 0]
  /\ UNCHANGED <<source, cache, mu, read, seen, gone, failed, unsent>>

GetCached(c) ==
  /\ pc[c] = "lock"
  /\ mu = Free
  /\ Fresh(on[c])
  /\ Served(c, cache[on[c]].content)
  /\ UNCHANGED <<source, cache, mu, read, gone, failed>>

GetRead(c) ==
  /\ pc[c] = "lock"
  /\ mu = Free
  /\ ~Fresh(on[c])
  /\ mu'   = c
  /\ read' = [feed |-> on[c], took |-> 0, said |-> {source[on[c]]}]
  /\ pc'   = [pc EXCEPT ![c] = "read"]
  /\ UNCHANGED <<source, cache, on, seen, ticker, gone, failed, waited, unsent>>

(* MUTANT of ReadOK: the content is served and not held. *)
ReadOKNotHeld(c, content) ==
  /\ pc[c] = "read"
  /\ content \in read.said
  /\ mu' = Free /\ read' = None
  /\ Served(c, content)
  /\ UNCHANGED <<source, cache, gone, failed>>

(* Read succeeds with what the feed held at some moment of it: the content  *)
(* is held from now on, and Store.mu released.                              *)
ReadOK(c, content) ==
  /\ pc[c] = "read"
  /\ content \in read.said
  /\ cache' = [cache EXCEPT ![on[c]] = [content |-> content, age |-> 0]]
  /\ mu' = Free /\ read' = None
  /\ Served(c, content)
  /\ UNCHANGED <<source, gone, failed>>

(* MUTANT of ReadError: what was held is served for another ttl.            *)
ReadErrorRenews(c) ==
  /\ pc[c] = "read"
  /\ mu' = Free /\ read' = None
  /\ cache' = IF cache[on[c]] = None THEN cache
              ELSE [cache EXCEPT ![on[c]].age = 0]
  /\ Return(c)
  /\ failed' = TRUE
  /\ waited' = [d \in Readers |-> 0]
  /\ unsent' = [d \in Streams |-> [i \in Ids |-> 0]]
  /\ UNCHANGED <<source, seen, gone>>

(* MUTANT of ReadError: the error path returns with Store.mu locked.        *)
ReadErrorKeepsLock(c) ==
  /\ pc[c] = "read"
  /\ read' = None
  /\ Return(c)
  /\ failed' = TRUE
  /\ waited' = [d \in Readers |-> 0]
  /\ unsent' = [d \in Streams |-> [i \in Ids |-> 0]]
  /\ UNCHANGED <<source, cache, mu, seen, gone>>

(* Read fails: the source cannot be loaded in time or parsed.  What is held *)
(* stays.  A stream says so if it was its first Get, and nothing later.     *)
ReadError(c) ==
  /\ pc[c] = "read"
  /\ mu' = Free /\ read' = None
  /\ Return(c)
  /\ failed' = TRUE
  /\ waited' = [d \in Readers |-> 0]
  /\ unsent' = [d \in Streams |-> [i \in Ids |-> 0]]
  /\ UNCHANGED <<source, cache, seen, gone>>

HangUp(c) ==
  /\ pc[c] # "idle"
  /\ c \notin gone
  /\ gone' = gone \cup {c}
  /\ UNCHANGED <<source, cache, mu, read, pc, on, seen, ticker, failed, waited, unsent>>

StreamEnds(c) ==
  /\ pc[c] = "watch"
  /\ c \in gone
  /\ pc'     = [pc EXCEPT ![c] = "idle"]
  /\ on'     = [on EXCEPT ![c] = None]
  /\ seen'   = [seen EXCEPT ![c] = {}]
  /\ ticker' = [ticker EXCEPT ![c] = NoTicker]
  /\ gone'   = gone \ {c}
  /\ unsent' = [unsent EXCEPT ![c] = [i \in Ids |-> 0]]
  /\ UNCHANGED <<source, cache, mu, read, failed, waited>>

(* External: a feed changes. *)
FeedChanges(f, content) ==
  /\ source' = [source EXCEPT ![f] = content]
  /\ read'   = IF mu # Free /\ read.feed = f
               THEN [read EXCEPT !.said = @ \cup {content}] ELSE read
  /\ unsent' = [c \in Streams |-> [i \in Ids |->
                  IF on[c] = f /\ i \notin content THEN 0 ELSE unsent[c][i]]]
  /\ UNCHANGED <<cache, mu, pc, on, seen, ticker, gone, failed, waited>>

(* The histories, one time unit later. *)
Age ==
  /\ waited' = [c \in Readers |-> IF ~failed /\ pc[c] \in {"lock", "read"}
                                  THEN waited[c] + 1 ELSE 0]
  /\ unsent' = [c \in Streams |-> [i \in Ids |->
                  IF ~failed /\ pc[c] # "idle" /\ i \in source[on[c]] \ seen[c]
                  THEN unsent[c][i] + 1 ELSE 0]]

(* Time passes: a free lock and a ready tick are taken first, a read ends   *)
(* by its timeout, and a ticker drops a tick when its channel is full.      *)
Tick ==
  /\ mu # Free => read.took < ReadTimeout
  /\ \A c \in Readers : pc[c] = "lock" => mu # Free
  /\ \A c \in Streams : ~(pc[c] = "watch" /\ ticker[c].ready)
  /\ read'   = IF mu = Free THEN read ELSE [read EXCEPT !.took = @ + 1]
  /\ cache'  = [f \in Feeds |-> IF Fresh(f) THEN [cache[f] EXCEPT !.age = @ + 1]
                                ELSE cache[f]]
  /\ ticker' = [c \in Streams |->
                  CASE ticker[c].next = 0 -> ticker[c]
                    [] ticker[c].next = 1 -> [next |-> Period, ready |-> TRUE]
                    [] OTHER -> [ticker[c] EXCEPT !.next = @ - 1]]
  /\ Age
  /\ UNCHANGED <<source, mu, pc, on, seen, gone, failed>>

Next ==
  \/ \E c \in Readers : \/ \E f \in Feeds : HandleChannel(c, f)
                        \/ GetCached(c) \/ GetRead(c) \/ ReadError(c)
                        \/ \E content \in Contents : ReadOK(c, content)
  \/ \E c \in Streams : StreamTick(c) \/ HangUp(c) \/ StreamEnds(c)
  \/ \E f \in Feeds, content \in Contents : FeedChanges(f, content)
  \/ Tick

Spec == Init /\ [][Next]_vars

-----------------------------------------------------------------------------
(* The type invariant: Store.mu is held exactly by the reader that reads.   *)
TypeOK ==
  /\ source \in [Feeds -> Contents]
  /\ cache \in [Feeds -> Held \cup {None}]
  /\ mu \in Readers \cup {Free}
  /\ read \in Reads \cup {None}
  /\ pc \in [Readers -> {"idle", "lock", "read", "watch"}]
  /\ on \in [Readers -> Feeds \cup {None}]
  /\ seen \in [Streams -> SUBSET Ids]
  /\ ticker \in [Streams -> [next : 0 .. Period, ready : BOOLEAN]]
  /\ gone \subseteq Streams /\ failed \in BOOLEAN
  /\ waited \in [Readers -> Nat]
  /\ unsent \in [Streams -> [Ids -> Nat]]
  /\ \A c \in Readers : pc[c] = "read" <=> mu = c
  /\ mu # Free => read # None /\ read.feed = on[mu]

(* While no read has failed, a reader of a store that ReadableWithinTTL     *)
(* describes waits for one read of every feed at most: Store.mu is held     *)
(* across reads of other channels, and a feed read while it waits is not    *)
(* read again before it gets its turn (Get).                                *)
WaitBounded == \A c \in Readers : waited[c] <= WaitBound

(* While no read has failed, an item with an id that stays in a feed of     *)
(* such a store is announced on every stream of the feed within             *)
(* AnnounceBound: the store's ttl and the streams' tickers run out of step, *)
(* and a tick served from the cache only delays the item to a later tick    *)
(* (handleNotesSSE, Get).                                                   *)
Announced == \A c \in Streams : \A i \in Ids : unsent[c][i] <= AnnounceBound

Cache == INSTANCE FeedCache WITH
           Keys <- Feeds, Lifetime <- TTL, said <- source, held <- cache,
           fill <- [f \in Feeds |-> IF mu # Free /\ read.feed = f THEN read.said ELSE {}]

(* "Store caches one feed per channel so a watching client cannot hammer the *)
(* source" (notes.go): whatever waits, fails or expires, the store is the    *)
(* cache FeedCache specifies, for every feed (Get).                          *)
IsFeedCache == Cache!Spec
=============================================================================
