--------------------------- MODULE CustomChannel ---------------------------
(***************************************************************************)
(* One custom channel, internal/custom, with the handlers of               *)
(* internal/server that read it and push to it.                            *)
(*                                                                         *)
(* channel.mu is held across a fetch, so concurrent readers of a pull      *)
(* channel (command, http, sse) wait for the one that fetchAt and then     *)
(* find its result.  Set.mu only covers a map lookup and is left out, as   *)
(* are the other channels: channels share nothing.  Getters are requests   *)
(* for the current snapshot, Streams are SSE clients, Pushers post to a    *)
(* webhook channel.                                                        *)
(***************************************************************************)
EXTENDS Naturals, FiniteSets

CONSTANTS
  Getters, Streams, Pushers,   \* request handlers, by what they serve
  HasToken,       \* auth.token is set
  Values,         \* what a source can say
  Refresh,        \* Info.Refresh
  FetchTimeout,   \* fetchTimeout
  MaxTime,        \* bound of the clock
  None,           \* no snapshot
  Free            \* channel.mu is not held

Readers == Getters \cup Streams
Snapshot == [val : Values, fetched : 0 .. MaxTime]
Held == [content : Values, age : 0 .. Refresh]   \* a snapshot as FeedCache sees it

ASSUME CustomAssumption ==
  /\ Refresh \in Nat \ {0} /\ FetchTimeout \in Nat \ {0} /\ MaxTime \in Nat
  /\ HasToken \in BOOLEAN
  /\ None \notin Snapshot \cup Held /\ Free \notin Readers
  /\ Getters \cap Streams = {} /\ Readers \cap Pushers = {}

VARIABLES
  kind,     \* the channel's type: "webhook", "pull" (command, http, sse), or
            \* "orphan", a command that leaves a child holding its output open
  clock,
  source,   \* external: what the pulled source says now
  snap,     \* channel.snap
  at,       \* channel.at
  mu,       \* who holds channel.mu across a fetch, or Free
  pc,       \* where each handler is
  began,    \* when a reader called Snapshot, 0 when it is not in it
  pushed,   \* the snapshot a pusher has parsed and not stored
  last,     \* the last payload a stream has sent
  ticker,   \* a stream's ticker: when it fires next, and whether C holds a tick
  gone,     \* readers whose client has hung up
  fetchAt,  \* when the fetch under way began, or None
  said,     \* what the source has said since then, {} without a fetch
  failed    \* history: some fetch has failed

vars == <<kind, clock, source, snap, at, mu, pc, began, pushed, last, ticker,
          gone, fetchAt, said, failed>>

NoTicker == [next |-> 0, ready |-> FALSE]

Init ==
  /\ kind \in {"webhook", "pull", "orphan"}
  /\ clock = 0
  /\ source \in Values
  /\ snap = None /\ at = 0 /\ mu = Free
  /\ pc      = [c \in Readers \cup Pushers |-> "idle"]
  /\ began   = [c \in Readers |-> 0]
  /\ pushed  = [c \in Pushers |-> None]
  /\ last    = [c \in Streams |-> None]
  /\ ticker  = [c \in Streams |-> NoTicker]
  /\ gone    = {}
  /\ fetchAt = None /\ said = {} /\ failed = FALSE

-----------------------------------------------------------------------------
(* A reader calls Set.Snapshot: a request arrives, an SSE client connects   *)
(* or a stream's ticker fires.                                              *)
Ask(c) ==
  /\ pc' = [pc EXCEPT ![c] = "lock"]
  /\ began' = [began EXCEPT ![c] = clock]

handleCustomSnapshot(c) ==
  /\ pc[c] = "idle"
  /\ Ask(c)
  /\ UNCHANGED <<kind, clock, source, snap, at, mu, pushed, last, ticker, gone,
                 fetchAt, said, failed>>

handleCustomSSE(c) ==
  /\ pc[c] = "idle"
  /\ Ask(c)
  /\ UNCHANGED <<kind, clock, source, snap, at, mu, pushed, last, ticker, gone,
                 fetchAt, said, failed>>

StreamTick(c) ==
  /\ pc[c] = "watch"
  /\ ticker[c].ready
  /\ Ask(c)
  /\ ticker' = [ticker EXCEPT ![c].ready = FALSE]
  /\ UNCHANGED <<kind, clock, source, snap, at, mu, pushed, last, gone, fetchAt, said, failed>>

(* MUTANT of Return: a payload with the date of the last one is not sent. *)
ReturnComparesDate(c, result) ==
  /\ began' = [began EXCEPT ![c] = 0]
  /\ \/ /\ c \in Getters
        /\ pc'   = [pc EXCEPT ![c] = "idle"]
        /\ gone' = gone \ {c}
        /\ UNCHANGED <<last, ticker>>
     \/ /\ c \in Streams
        /\ pc'     = [pc EXCEPT ![c] = "watch"]
        /\ last'   = IF result = None THEN last
                     ELSE IF last[c] # None /\ last[c].fetched = result.fetched THEN last
                     ELSE [last EXCEPT ![c] = result]
        /\ ticker' = IF ticker[c].next # 0 THEN ticker
                     ELSE [ticker EXCEPT ![c].next = clock + Refresh]
        /\ UNCHANGED gone

(* The reader has its result: a getter answers with it; a stream sends it   *)
(* unless it is the payload it sent last, and starts its ticker after the   *)
(* first one.  An error is a 502, "waiting" or a warning event.             *)
Return(c, result) ==
  /\ began' = [began EXCEPT ![c] = 0]
  /\ \/ /\ c \in Getters
        /\ pc'   = [pc EXCEPT ![c] = "idle"]
        /\ gone' = gone \ {c}
        /\ UNCHANGED <<last, ticker>>
     \/ /\ c \in Streams
        /\ pc'     = [pc EXCEPT ![c] = "watch"]
        /\ last'   = IF result = None THEN last ELSE [last EXCEPT ![c] = result]
        /\ ticker' = IF ticker[c].next # 0 THEN ticker
                     ELSE [ticker EXCEPT ![c].next = clock + Refresh]
        /\ UNCHANGED gone

(* MUTANT of Cached: the age is compared with twice the refresh. *)
CachedTooLong == snap # None /\ clock - at < 2 * Refresh

Webhook == kind = "webhook"

(* The cached snapshot is young enough to serve. *)
Cached == snap # None /\ clock - at < Refresh

(* snapshot takes channel.mu and answers from what is there: the value      *)
(* pushed last, if any, or a cached fetch.                                  *)
SnapshotCached(c) ==
  /\ pc[c] = "lock"
  /\ mu = Free
  /\ Webhook \/ Cached
  /\ Return(c, snap)
  /\ UNCHANGED <<kind, clock, source, snap, at, mu, pushed, fetchAt, said, failed>>

(* MUTANT of SnapshotFetch: the cache is looked at before channel.mu is     *)
(* taken, so a reader that waited fetches again.                            *)
SnapshotFetchAfterWait(c) ==
  /\ pc[c] = "lock"
  /\ mu = Free
  /\ ~Webhook /\ (~Cached \/ began[c] < at)
  /\ mu' = c
  /\ pc' = [pc EXCEPT ![c] = "fetch"]
  /\ fetchAt' = clock /\ said' = {source}
  /\ UNCHANGED <<kind, clock, source, snap, at, began, pushed, last, ticker, gone, failed>>

(* snapshot takes channel.mu and starts a fetch. *)
SnapshotFetch(c) ==
  /\ pc[c] = "lock"
  /\ mu = Free
  /\ ~Webhook /\ ~Cached
  /\ mu' = c
  /\ pc' = [pc EXCEPT ![c] = "fetch"]
  /\ fetchAt' = clock /\ said' = {source}
  /\ UNCHANGED <<kind, clock, source, snap, at, began, pushed, last, ticker, gone, failed>>

(* fetchCommand or fetchHTTP answers with what the source said at some      *)
(* moment of the fetch: the value is stored and channel.mu released.  A     *)
(* shell that exits in time and leaves an orphan is waited for and succeeds *)
(* when the orphan ends, after the timeout and the client's leaving too.    *)
FetchOK(c, v) ==
  /\ pc[c] = "fetch"
  /\ kind = "orphan" \/ (c \notin gone /\ clock <= fetchAt + FetchTimeout)
  /\ v \in said
  /\ snap' = [val |-> v, fetched |-> clock]
  /\ at'   = clock
  /\ mu'   = Free
  /\ fetchAt' = None /\ said' = {}
  /\ Return(c, snap')
  /\ UNCHANGED <<kind, clock, source, pushed, failed>>

(* MUTANT of FetchError: the error path does not unlock channel.mu. *)
FetchErrorKeepsLock(c) ==
  /\ pc[c] = "fetch"
  /\ failed' = TRUE
  /\ Return(c, None)
  /\ UNCHANGED <<kind, clock, source, snap, at, mu, pushed, fetchAt, said>>

(* MUTANT of FetchError: a failed fetch is tried again under channel.mu. *)
FetchErrorRetries(c) ==
  /\ pc[c] = "fetch"
  /\ failed' = TRUE
  /\ fetchAt' = clock /\ said' = {source}
  /\ UNCHANGED <<kind, clock, source, snap, at, mu, pc, began, pushed, last, ticker, gone>>

(* The fetch fails, times out or is canceled with its request: nothing is   *)
(* stored.  A command whose child holds its output open does not return     *)
(* before the child ends, killed or not (exec.Cmd waits for the pipes).     *)
FetchError(c) ==
  /\ pc[c] = "fetch"
  /\ failed' = TRUE
  /\ mu' = Free
  /\ fetchAt' = None /\ said' = {}
  /\ Return(c, None)
  /\ UNCHANGED <<kind, clock, source, snap, at, pushed>>

(* handleCustomIngest and Ingest up to channel.mu: the guards on the type,  *)
(* the token and the peer, then parse, which dates the snapshot.  An empty  *)
(* or oversized push is refused and changes nothing.                        *)
handleCustomIngest(c, v, token, loopback) ==
  /\ pc[c] = "idle"
  /\ Webhook
  /\ IF HasToken THEN token ELSE loopback
  /\ pc'     = [pc EXCEPT ![c] = "store"]
  /\ pushed' = [pushed EXCEPT ![c] = [val |-> v, fetched |-> clock]]
  /\ UNCHANGED <<kind, clock, source, snap, at, mu, began, last, ticker, gone,
                 fetchAt, said, failed>>

(* Ingest stores the snapshot under channel.mu. *)
Ingest(c) ==
  /\ pc[c] = "store"
  /\ mu = Free
  /\ snap'   = pushed[c]
  /\ at'     = clock
  /\ pc'     = [pc EXCEPT ![c] = "idle"]
  /\ pushed' = [pushed EXCEPT ![c] = None]
  /\ UNCHANGED <<kind, clock, source, mu, began, last, ticker, gone,
                 fetchAt, said, failed>>

(* A client hangs up: a watching stream ends; a reader in Snapshot goes on  *)
(* with a canceled context.                                                 *)
HangUp(c) ==
  /\ c \notin gone
  /\ pc[c] # "idle"
  /\ gone' = gone \cup {c}
  /\ UNCHANGED <<kind, clock, source, snap, at, mu, pc, began, pushed, last, ticker,
                 fetchAt, said, failed>>

StreamEnds(c) ==
  /\ pc[c] = "watch"
  /\ c \in gone
  /\ pc'     = [pc EXCEPT ![c] = "idle"]
  /\ gone'   = gone \ {c}
  /\ last'   = [last EXCEPT ![c] = None]
  /\ ticker' = [ticker EXCEPT ![c] = NoTicker]
  /\ UNCHANGED <<kind, clock, source, snap, at, mu, began, pushed, fetchAt, said, failed>>

(* External: the source changes what it says. *)
SourceChanges(v) ==
  /\ ~Webhook
  /\ v # source
  /\ source' = v
  /\ said' = IF said = {} THEN {} ELSE said \cup {v}
  /\ UNCHANGED <<kind, clock, snap, at, mu, pc, began, pushed, last, ticker, gone,
                 fetchAt, failed>>

(* Time passes: a fetch ends by its timeout unless it waits for an orphan,  *)
(* a free lock and a ready tick are taken, and a ticker drops a tick when   *)
(* its channel is full.                                                     *)
Tick ==
  /\ clock < MaxTime
  /\ mu # Free /\ kind # "orphan" => clock < fetchAt + FetchTimeout
  /\ \A c \in Readers : pc[c] = "lock" => mu # Free
  /\ \A c \in Streams : ~(pc[c] = "watch" /\ ticker[c].ready)
  /\ clock'  = clock + 1
  /\ ticker' = [c \in Streams |->
                  IF ticker[c].next = clock + 1
                  THEN [next |-> clock + 1 + Refresh, ready |-> TRUE] ELSE ticker[c]]
  /\ UNCHANGED <<kind, source, snap, at, mu, pc, began, pushed, last, gone, fetchAt, said, failed>>

Next ==
  \/ \E c \in Getters : handleCustomSnapshot(c)
  \/ \E c \in Streams : handleCustomSSE(c) \/ StreamTick(c) \/ StreamEnds(c)
  \/ \E c \in Readers : \/ SnapshotCached(c) \/ SnapshotFetch(c)
                        \/ FetchError(c) \/ HangUp(c)
                        \/ \E v \in Values : FetchOK(c, v)
  \/ \E c \in Pushers : \/ \E v \in Values, token, loopback \in BOOLEAN :
                             handleCustomIngest(c, v, token, loopback)
                        \/ Ingest(c)
  \/ \E v \in Values : SourceChanges(v)
  \/ Tick

Spec == Init /\ [][Next]_vars

(* A waiting reader gets channel.mu in its turn (a sync.Mutex hands itself  *)
(* to its longest waiter) and a fetch ends, by its timeout if need be;      *)
(* nothing ends an orphan.                                                  *)
Fairness == \A c \in Readers :
  /\ SF_vars(SnapshotCached(c) \/ SnapshotFetch(c))
  /\ WF_vars(kind # "orphan" /\ (FetchError(c) \/ \E v \in Values : FetchOK(c, v)))

FairSpec == Spec /\ Fairness

-----------------------------------------------------------------------------
(* The type invariant: a snapshot is never dated in the future, and         *)
(* channel.mu is held exactly by the reader that fetches.                   *)
TypeOK ==
  /\ kind \in {"webhook", "pull", "orphan"} /\ failed \in BOOLEAN
  /\ clock \in 0 .. MaxTime /\ at \in 0 .. clock
  /\ source \in Values
  /\ snap \in Snapshot \cup {None}
  /\ snap # None => snap.fetched <= at
  /\ mu \in Readers \cup {Free}
  /\ pc \in [Readers \cup Pushers -> {"idle", "lock", "fetch", "watch", "store"}]
  /\ began \in [Readers -> 0 .. clock]
  /\ pushed \in [Pushers -> Snapshot \cup {None}]
  /\ last \in [Streams -> Snapshot \cup {None}]
  /\ ticker \in [Streams -> [next : 0 .. MaxTime + Refresh, ready : BOOLEAN]]
  /\ gone \subseteq Readers
  /\ fetchAt \in (0 .. clock) \cup {None}
  /\ said \subseteq Values /\ (said = {} <=> mu = Free)
  /\ \A c \in Readers : pc[c] = "fetch" <=> mu = c

Cache == INSTANCE FeedCache WITH
           Keys <- {"it"}, Contents <- Values, Lifetime <- Refresh,
           said <- [k \in {"it"} |-> source],
           held <- [k \in {"it"} |->
                      IF Webhook \/ snap = None THEN None
                      ELSE [content |-> snap.val,
                            age |-> IF Cached THEN clock - at ELSE Refresh]],
           fill <- [k \in {"it"} |-> said]

(* "The snapshot is cached for the channel's `refresh`" (README.md): a      *)
(* pulled channel is the cache FeedCache specifies, however many readers    *)
(* wait, fail or hang up, and a webhook channel never reads (snapshot).     *)
IsFeedCache == Cache!Spec

(* While no fetch has failed or waits for an orphan, a reader waits for one *)
(* fetch at most, its own or the one under way, never for a queue of them   *)
(* (snapshot holds channel.mu across the fetch and looks at the cache under *)
(* it).                                                                     *)
WaitBounded ==
  \A c \in Readers :
    ~failed /\ kind # "orphan" /\ pc[c] \in {"lock", "fetch"} => clock <= began[c] + FetchTimeout

(* While no fetch has failed, what a watching client was sent last is less   *)
(* than two refreshes old, a fetch under way aside: a tick may still be     *)
(* served from the cache, the one after it cannot (handleCustomSSE's ticker *)
(* and snapshot's cache are not synchronised).                              *)
StreamFresh ==
  \A c \in Streams :
    kind = "pull" /\ ~failed /\ pc[c] # "idle" /\ last[c] # None =>
      clock < last[c].fetched + 2 * Refresh + FetchTimeout

(* A stored snapshot reaches every stream within one refresh, pushed or     *)
(* fetched for somebody else: a stream that has nothing left to do has sent *)
(* it (handleCustomSSE, Ingest, snapshot).                                  *)
StreamFollows ==
  \A c \in Streams :
    /\ Webhook \/ ~failed
    /\ pc[c] = "watch" /\ ~ticker[c].ready
    /\ snap # None /\ clock >= at + Refresh
    => last[c] = snap

(* Every reader is answered, whatever the source and the other readers do,  *)
(* unless a command leaves an orphan, whose channel may answer nobody.      *)
ReadersAnswered ==
  \A c \in Readers :
    kind # "orphan" /\ pc[c] = "lock" ~> pc[c] \in {"idle", "watch"}
=============================================================================
