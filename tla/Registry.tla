------------------------------ MODULE Registry ------------------------------
(***************************************************************************)
(* The registry of live channel sources, internal/channelsource.           *)
(*                                                                         *)
(* Goroutines (Callers) call Observe, Retire, Subscribe and the            *)
(* unsubscribe function concurrently.  Registry.mu is only ever held for a *)
(* few assignments, so each of its critical sections is one step here.     *)
(* Registry.notifyMu is held across callbacks and is a variable.  What the *)
(* model keeps apart, and the code leaves unprotected, is the gap between  *)
(* changing the state under mu and announcing the change under notifyMu.   *)
(*                                                                         *)
(* Instance names are naturals, ordered as the names sort; 0 is the empty  *)
(* name.  An identity stands for the (role, trust rung) pair of the TXT    *)
(* record.  Source.LastSeen is carried by the code, never compared, and    *)
(* left out.                                                               *)
(***************************************************************************)
EXTENDS Naturals, FiniteSets

CONSTANTS
  Callers,      \* goroutines that use the registry
  Instances,    \* non-empty instance names, as their sort ranks
  Endpoints,    \* host:port addresses
  Identities,   \* (role, trust rung) pairs
  Times,        \* discovery times; 0 is Go's zero time
  MaxSubs,      \* bound: how many subscriptions are ever made
  None,         \* no entry / no source
  Free          \* notifyMu is not held

SmokeAlarm == "_smoke-alarm._tcp"
ServiceTypes == {SmokeAlarm, "other"}

Service == [type : ServiceTypes, inst : Instances \cup {0}, ep : Endpoints,
            id : Identities, disc : Times \cup {0}]
Source  == [inst : Instances, ep : Endpoints, id : Identities, disc : Times]
Entry   == [src : Source, recordSeen : Times]
Event   == [kind : {"Added", "Updated", "Retired"}, src : Source]
SubIds  == 1 .. MaxSubs

ASSUME InstancesAssumption == Instances \subseteq Nat \ {0}
ASSUME TimesAssumption     == Times \subseteq Nat \ {0}
ASSUME MaxSubsAssumption   == MaxSubs \in Nat
ASSUME NoneAssumption      == None \notin Source /\ None \notin Entry
                              /\ None \notin Event
ASSUME FreeAssumption      == Free \notin Callers

VARIABLES
  sources,   \* Registry.sources: the entry of each instance, or None
  subs,      \* DOMAIN Registry.subs
  nextSub,   \* Registry.nextSub
  notifyMu,  \* the goroutine holding Registry.notifyMu, or Free
  pc,        \* where each goroutine is
  event,     \* the event a goroutine is publishing
  todo,      \* publish: the copied subscribers not yet called
  newSub,    \* Subscribe: the id being registered
  snapshot,  \* Subscribe: the sources copied and not yet replayed
  mirror,    \* what each subscriber believes from its callbacks alone
  overlap    \* history: instances last changed while an earlier change of
             \* the same instance was still being announced

vars == <<sources, subs, nextSub, notifyMu, pc, event, todo, newSub,
          snapshot, mirror, overlap>>

Init ==
  /\ sources  = [i \in Instances |-> None]
  /\ subs     = {}
  /\ nextSub  = 0
  /\ notifyMu = Free
  /\ pc       = [c \in Callers |-> "idle"]
  /\ event    = [c \in Callers |-> None]
  /\ todo     = [c \in Callers |-> {}]
  /\ newSub   = [c \in Callers |-> 0]
  /\ snapshot = [c \in Callers |-> [i \in Instances |-> None]]
  /\ mirror   = [s \in SubIds |-> [i \in Instances |-> None]]
  /\ overlap  = {}

-----------------------------------------------------------------------------
(* Get: the registered source of an instance, or None. *)
Get(i) == IF sources[i] = None THEN None ELSE sources[i].src

(* The sources List returns, one per live instance. *)
List == {Get(i) : i \in {j \in Instances : sources[j] # None}}

(* A goroutine has changed instance i and not finished announcing it. *)
Announcing(c, i) == pc[c] \in {"publish", "deliver"} /\ event[c].src.inst = i
PendingOn(i)     == {c \in Callers : Announcing(c, i)}

sourceFrom(svc, at) == [inst |-> svc.inst, ep |-> svc.ep, id |-> svc.id,
                        disc |-> at]

(* The ordering mark of a record: its discovery time, or time.Now() for a   *)
(* record without one.  The clock is read before mu is taken, so by the     *)
(* time the entry is stored it may be any time so far.                      *)
RecordSeen(svc) == IF svc.disc = 0 THEN Times ELSE {svc.disc}

(* MUTANT of Merge: the zero discovery time is stored as it came. *)
MergeKeepsZeroTime(svc, at, existing) ==
  [src |-> sourceFrom(svc, svc.disc), recordSeen |-> at]

(* The entry Observe stores over the existing one. *)
Merge(svc, at, existing) ==
  [src |-> IF existing = None THEN sourceFrom(svc, at)
           ELSE sourceFrom(svc, existing.src.disc),
   recordSeen |-> at]

(* Whether replacing one source by the next is worth an event. *)
Changed(existing, next) ==
  \/ existing = None
  \/ next.src.ep # existing.src.ep
  \/ next.src.id # existing.src.id

Stale(at, existing) == existing # None /\ at < existing.recordSeen

(* A change of instance i is about to be announced by goroutine c. *)
Announce(c, i, e) ==
  /\ pc'      = [pc EXCEPT ![c] = "publish"]
  /\ event'   = [event EXCEPT ![c] = e]
  /\ overlap' = IF PendingOn(i) = {} THEN overlap \ {i} ELSE overlap \cup {i}

(***************************************************************************)
(* Registry.Observe up to the release of mu.  A record that is not a       *)
(* smoke-alarm's, or has no name, and a record older than the registered   *)
(* one leave everything as it is.                                          *)
(***************************************************************************)
Observe(c, svc) ==
  /\ pc[c] = "idle"
  /\ svc.type = SmokeAlarm
  /\ svc.inst \in Instances
  /\ \E at \in RecordSeen(svc) :
       LET i        == svc.inst
           existing == sources[i]
           next     == Merge(svc, at, existing)
       IN /\ ~Stale(at, existing)
          /\ sources' = [sources EXCEPT ![i] = next]
          /\ IF Changed(existing, next)
             THEN Announce(c, i,
                    [kind |-> IF existing = None THEN "Added" ELSE "Updated",
                     src  |-> next.src])
             ELSE UNCHANGED <<pc, event, overlap>>
  /\ UNCHANGED <<subs, nextSub, notifyMu, todo, newSub, snapshot, mirror>>

(* MUTANT of Retire: the departure is announced and the entry kept. *)
RetireKeepsEntry(c, svc) ==
  /\ pc[c] = "idle"
  /\ svc.inst \in Instances
  /\ sources[svc.inst] # None
  /\ sources[svc.inst].src.ep = svc.ep
  /\ Announce(c, svc.inst, [kind |-> "Retired", src |-> sources[svc.inst].src])
  /\ UNCHANGED <<sources, subs, nextSub, notifyMu, todo, newSub, snapshot, mirror>>

(* MUTANT of Retire: any address of the instance retires it. *)
RetireAnyEndpoint(c, svc) ==
  /\ pc[c] = "idle"
  /\ svc.type = SmokeAlarm
  /\ svc.inst \in Instances
  /\ sources[svc.inst] # None
  /\ sources' = [sources EXCEPT ![svc.inst] = None]
  /\ Announce(c, svc.inst, [kind |-> "Retired", src |-> sources[svc.inst].src])
  /\ UNCHANGED <<subs, nextSub, notifyMu, todo, newSub, snapshot, mirror>>

(* Registry.Retire up to the release of mu: only the registered endpoint   *)
(* can be retired.                                                         *)
Retire(c, svc) ==
  /\ pc[c] = "idle"
  /\ svc.type = SmokeAlarm
  /\ svc.inst \in Instances
  /\ sources[svc.inst] # None
  /\ sources[svc.inst].src.ep = svc.ep
  /\ sources' = [sources EXCEPT ![svc.inst] = None]
  /\ Announce(c, svc.inst, [kind |-> "Retired", src |-> sources[svc.inst].src])
  /\ UNCHANGED <<subs, nextSub, notifyMu, todo, newSub, snapshot, mirror>>

(* MUTANT of PublishLock: callbacks run without notifyMu. *)
PublishUnlocked(c) ==
  /\ pc[c] = "publish"
  /\ pc'   = [pc EXCEPT ![c] = "deliver"]
  /\ todo' = [todo EXCEPT ![c] = subs]
  /\ UNCHANGED <<sources, subs, nextSub, notifyMu, event, newSub, snapshot, mirror, overlap>>

(* publish: take notifyMu and copy the subscribers.  Taking a lock commutes *)
(* with the steps of the others, so the two are one step.                   *)
PublishLock(c) ==
  /\ pc[c] = "publish"
  /\ notifyMu = Free
  /\ notifyMu' = c
  /\ pc'   = [pc EXCEPT ![c] = "deliver"]
  /\ todo' = [todo EXCEPT ![c] = subs]
  /\ UNCHANGED <<sources, subs, nextSub, event, newSub, snapshot, mirror, overlap>>

(* What an event tells a subscriber about its instance. *)
Told(e) == IF e.kind = "Retired" THEN None ELSE e.src

(* MUTANT of Deliver: the walk over the subscribers does not advance. *)
DeliverAgain(c, s) ==
  /\ pc[c] = "deliver"
  /\ s \in todo[c]
  /\ mirror' = [mirror EXCEPT ![s][event[c].src.inst] = Told(event[c])]
  /\ UNCHANGED <<sources, subs, nextSub, notifyMu, pc, event, todo, newSub, snapshot, overlap>>

(* publish: one callback.  The copy is in map order, that is any order.     *)
Deliver(c, s) ==
  /\ pc[c] = "deliver"
  /\ s \in todo[c]
  /\ todo'   = [todo EXCEPT ![c] = @ \ {s}]
  /\ mirror' = [mirror EXCEPT ![s][event[c].src.inst] = Told(event[c])]
  /\ UNCHANGED <<sources, subs, nextSub, notifyMu, pc, event, newSub, snapshot, overlap>>

(* publish: every copied subscriber has been called; notifyMu is released. *)
PublishDone(c) ==
  /\ pc[c] = "deliver"
  /\ todo[c] = {}
  /\ notifyMu' = Free
  /\ pc'    = [pc EXCEPT ![c] = "idle"]
  /\ event' = [event EXCEPT ![c] = None]
  /\ UNCHANGED <<sources, subs, nextSub, todo, newSub, snapshot, mirror, overlap>>

(* Subscribe is called, and waits for notifyMu.  The bound on subscriptions *)
(* is met here, so a caller that waits is never kept out by it.             *)
SubscribeCall(c) ==
  /\ pc[c] = "idle"
  /\ nextSub + Cardinality({d \in Callers : pc[d] = "subscribe"}) < MaxSubs
  /\ pc' = [pc EXCEPT ![c] = "subscribe"]
  /\ UNCHANGED <<sources, subs, nextSub, notifyMu, event, todo, newSub, snapshot, mirror, overlap>>

(* MUTANT of SubscribeStart: the replay runs without notifyMu. *)
SubscribeUnlocked(c) ==
  /\ pc[c] = "subscribe"
  /\ nextSub < MaxSubs
  /\ pc'       = [pc EXCEPT ![c] = "replay"]
  /\ nextSub'  = nextSub + 1
  /\ subs'     = subs \cup {nextSub + 1}
  /\ newSub'   = [newSub EXCEPT ![c] = nextSub + 1]
  /\ snapshot' = [snapshot EXCEPT ![c] = [i \in Instances |-> Get(i)]]
  /\ UNCHANGED <<sources, notifyMu, event, todo, mirror, overlap>>

(* Subscribe: take notifyMu, then register and copy the sources under mu.   *)
SubscribeStart(c) ==
  /\ pc[c] = "subscribe"
  /\ nextSub < MaxSubs
  /\ notifyMu = Free
  /\ notifyMu' = c
  /\ pc'       = [pc EXCEPT ![c] = "replay"]
  /\ nextSub'  = nextSub + 1
  /\ subs'     = subs \cup {nextSub + 1}
  /\ newSub'   = [newSub EXCEPT ![c] = nextSub + 1]
  /\ snapshot' = [snapshot EXCEPT ![c] = [i \in Instances |-> Get(i)]]
  /\ UNCHANGED <<sources, event, todo, mirror, overlap>>

(* Subscribe: replay the first copied source, in name order, as Added.      *)
Replay(c, i) ==
  /\ pc[c] = "replay"
  /\ snapshot[c][i] # None
  /\ \A j \in Instances : snapshot[c][j] # None => i <= j
  /\ snapshot' = [snapshot EXCEPT ![c][i] = None]
  /\ mirror'   = [mirror EXCEPT ![newSub[c]][i] = snapshot[c][i]]
  /\ UNCHANGED <<sources, subs, nextSub, notifyMu, pc, event, todo, newSub, overlap>>

(* Subscribe: the replay is over; notifyMu is released. *)
SubscribeDone(c) ==
  /\ pc[c] = "replay"
  /\ \A i \in Instances : snapshot[c][i] = None
  /\ notifyMu' = Free
  /\ pc'     = [pc EXCEPT ![c] = "idle"]
  /\ newSub' = [newSub EXCEPT ![c] = 0]
  /\ UNCHANGED <<sources, subs, nextSub, event, todo, snapshot, mirror, overlap>>

(* The function Subscribe returned: it takes mu only, so a publish under    *)
(* way still calls the subscriber it has copied.                            *)
Unsubscribe(c, s) ==
  /\ pc[c] = "idle"
  /\ s \in subs
  /\ \A d \in Callers : newSub[d] # s    \* Subscribe has returned
  /\ subs' = subs \ {s}
  /\ UNCHANGED <<sources, nextSub, notifyMu, pc, event, todo, newSub, snapshot, mirror, overlap>>

-----------------------------------------------------------------------------
(* What a goroutine inside the registry does next. *)
Step(c) ==
  \/ PublishLock(c)
  \/ \E s \in SubIds : Deliver(c, s)
  \/ PublishDone(c)
  \/ SubscribeStart(c)
  \/ \E i \in Instances : Replay(c, i)
  \/ SubscribeDone(c)

(* The calls made on it. *)
Call(c) ==
  \/ \E svc \in Service : Observe(c, svc) \/ Retire(c, svc)
  \/ SubscribeCall(c)
  \/ \E s \in SubIds : Unsubscribe(c, s)

Next == \E c \in Callers : Call(c) \/ Step(c)

Spec == Init /\ [][Next]_vars

(* Goroutines are scheduled, callbacks return, and a sync.Mutex hands       *)
(* itself to its longest waiter (starvation mode), so waiting for notifyMu  *)
(* ends even while others keep taking it.  Nobody has to make calls.        *)
Fairness == \A c \in Callers :
              /\ SF_vars(PublishLock(c))
              /\ SF_vars(SubscribeStart(c))
              /\ WF_vars(Step(c))

FairSpec == Spec /\ Fairness

-----------------------------------------------------------------------------
(* The type invariant: every entry is dated (a zero discovery time never    *)
(* gets past Observe), subscription ids are fresh, and a goroutine carries  *)
(* an event or a snapshot exactly where the code has one.                   *)
TypeOK ==
  /\ sources \in [Instances -> Entry \cup {None}]
  /\ nextSub \in 0 .. MaxSubs
  /\ subs \subseteq 1 .. nextSub
  /\ notifyMu \in Callers \cup {Free}
  /\ pc \in [Callers -> {"idle", "publish", "deliver", "subscribe", "replay"}]
  /\ event \in [Callers -> Event \cup {None}]
  /\ todo \in [Callers -> SUBSET (1 .. nextSub)]
  /\ newSub \in [Callers -> 0 .. nextSub]
  /\ snapshot \in [Callers -> [Instances -> Source \cup {None}]]
  /\ mirror \in [SubIds -> [Instances -> Source \cup {None}]]
  /\ overlap \subseteq Instances
  /\ \A c \in Callers : pc[c] \in {"publish", "deliver"} => event[c] \in Event
  /\ \A i \in Instances : sources[i] # None => sources[i].src.inst = i

(* "fn is called with delivery serialized": no two goroutines are inside    *)
(* callbacks at once, a replay included (Subscribe, publish: notifyMu).     *)
DeliverySerialized ==
  \A c, d \in Callers :
    pc[c] \in {"deliver", "replay"} /\ pc[d] \in {"deliver", "replay"} => c = d

(* A callback, or a goroutine about to make one, finds the registry in the  *)
(* state its event describes, unless another change of the same instance    *)
(* overlapped it (Registry's doc comment, restricted to what publish can    *)
(* keep after mu has been released).                                        *)
EventIsCurrentUnlessOverlap ==
  \A c \in Callers : \A i \in Instances \ overlap :
    Announcing(c, i) => Get(i) = Told(event[c])

(* The subscriber s can still be told about instance i by a call under way. *)
ToldLater(s, i) ==
  \/ \E c \in PendingOn(i) : pc[c] = "publish" \/ s \in todo[c]
  \/ \E c \in Callers : newSub[c] = s /\ snapshot[c][i] # None

(* A subscriber that only listens ends up knowing exactly the registered    *)
(* sources: once nothing more will be told to it about an instance, what it *)
(* was told last is what is registered, unless the last two changes of the  *)
(* instance overlapped.  One later change made alone repairs the mirror.    *)
MirrorsConverge ==
  \A s \in subs : \A i \in Instances \ overlap :
    mirror[s][i] = Get(i) \/ ToldLater(s, i)

(* Every call returns, the wait for notifyMu included, and so every event   *)
(* is delivered to everyone copied, however often the others announce and   *)
(* subscribe (publish, Subscribe).                                          *)
CallsReturn == \A c \in Callers : pc[c] # "idle" ~> pc[c] = "idle"
=============================================================================
