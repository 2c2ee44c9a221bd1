--------------------------- MODULE RegistryProofs ---------------------------
(***************************************************************************)
(* Theorems about Registry for every set of goroutines, instances,         *)
(* endpoints, identities and times and every number of subscriptions.      *)
(***************************************************************************)
EXTENDS Registry, TLAPS

USE InstancesAssumption, TimesAssumption, MaxSubsAssumption,
    NoneAssumption, FreeAssumption

(* What an announcement leaves behind is well typed. *)
LEMMA AnnounceType ==
  ASSUME TypeOK, NEW c \in Callers, NEW i \in Instances, NEW e \in Event,
         Announce(c, i, e)
  PROVE  /\ pc' \in [Callers -> {"idle", "publish", "deliver", "subscribe", "replay"}]
         /\ event' \in [Callers -> Event \cup {None}]
         /\ overlap' \subseteq Instances
         /\ \A d \in Callers : pc'[d] \in {"publish", "deliver"} => event'[d] \in Event
BY DEF TypeOK, Announce

(* The entry Observe stores is a dated entry of the observed instance. *)
LEMMA MergeType ==
  ASSUME TypeOK, NEW svc \in Service, svc.inst \in Instances,
         NEW at \in RecordSeen(svc)
  PROVE  /\ Merge(svc, at, sources[svc.inst]) \in Entry
         /\ Merge(svc, at, sources[svc.inst]).src.inst = svc.inst
BY DEF TypeOK, Merge, RecordSeen, Service, Entry, Source, sourceFrom

(* Every reachable state is well typed; in particular no undated entry is   *)
(* ever stored and no subscription id is used twice (Registry's fields).    *)
THEOREM TypeCorrect == Spec => []TypeOK
<1>1. Init => TypeOK
  BY DEF Init, TypeOK, SubIds
<1>2. TypeOK /\ [Next]_vars => TypeOK'
  <2> SUFFICES ASSUME TypeOK, [Next]_vars PROVE TypeOK'
    OBVIOUS
  <2>1. ASSUME NEW c \in Callers, NEW svc \in Service, Observe(c, svc)
        PROVE  TypeOK'
    <3>1. PICK at \in RecordSeen(svc) : Observe(c, svc)!4!(at)
      BY <2>1 DEF Observe
    <3> DEFINE next == Merge(svc, at, sources[svc.inst])
    <3>2. svc.inst \in Instances
      BY <2>1 DEF Observe
    <3>3. next \in Entry /\ next.src.inst = svc.inst
      BY <3>2, MergeType
    <3> HIDE DEF next
    <3>4. sources' = [sources EXCEPT ![svc.inst] = next]
      BY <3>1 DEF next
    <3>5. /\ sources' \in [Instances -> Entry \cup {None}]
          /\ \A i \in Instances : sources'[i] # None => sources'[i].src.inst = i
      BY <3>2, <3>3, <3>4 DEF TypeOK
    <3>6. /\ pc' \in [Callers -> {"idle", "publish", "deliver", "subscribe", "replay"}]
          /\ event' \in [Callers -> Event \cup {None}]
          /\ overlap' \subseteq Instances
          /\ \A d \in Callers : pc'[d] \in {"publish", "deliver"} => event'[d] \in Event
      <4>1. CASE UNCHANGED <<pc, event, overlap>>
        BY <4>1 DEF TypeOK
      <4>2. CASE \E k \in {"Added", "Updated"} :
                   Announce(c, svc.inst, [kind |-> k, src |-> next.src])
        <5>1. PICK k \in {"Added", "Updated"} :
                Announce(c, svc.inst, [kind |-> k, src |-> next.src])
          BY <4>2
        <5>2. [kind |-> k, src |-> next.src] \in Event
          BY <3>3 DEF Event, Entry
        <5>3. QED
          BY <5>1, <5>2, <3>2, AnnounceType
      <4>3. QED
        BY <3>1, <4>1, <4>2 DEF next
    <3>7. QED
      BY <2>1, <3>5, <3>6 DEF TypeOK, Observe
  <2>2. ASSUME NEW c \in Callers, NEW svc \in Service, Retire(c, svc)
        PROVE  TypeOK'
    <3>1. [kind |-> "Retired", src |-> sources[svc.inst].src] \in Event
      BY <2>2 DEF Retire, TypeOK, Event, Entry
    <3>2. /\ pc' \in [Callers -> {"idle", "publish", "deliver", "subscribe", "replay"}]
          /\ event' \in [Callers -> Event \cup {None}]
          /\ overlap' \subseteq Instances
          /\ \A d \in Callers : pc'[d] \in {"publish", "deliver"} => event'[d] \in Event
      BY <2>2, <3>1, AnnounceType DEF Retire
    <3>3. QED
      BY <2>2, <3>2 DEF TypeOK, Retire
  <2>3. ASSUME NEW c \in Callers, PublishLock(c) PROVE TypeOK'
    BY <2>3 DEF TypeOK, PublishLock
  <2>4. ASSUME NEW c \in Callers, NEW s \in SubIds, Deliver(c, s) PROVE TypeOK'
    <3>1. event[c] \in Event
      BY <2>4 DEF TypeOK, Deliver
    <3>2. event[c].src.inst \in Instances /\ Told(event[c]) \in Source \cup {None}
      BY <3>1 DEF Told, Event, Source
    <3>3. QED
      BY <2>4, <3>1, <3>2 DEF TypeOK, Deliver
  <2>5. ASSUME NEW c \in Callers, PublishDone(c) PROVE TypeOK'
    BY <2>5 DEF TypeOK, PublishDone
  <2>6. ASSUME NEW c \in Callers, SubscribeStart(c) PROVE TypeOK'
    <3>1. [i \in Instances |-> Get(i)] \in [Instances -> Source \cup {None}]
      BY DEF TypeOK, Get, Entry
    <3>2. nextSub \in Nat /\ nextSub + 1 \in 0 .. MaxSubs
          /\ 1 .. nextSub \subseteq 1 .. (nextSub + 1)
          /\ 0 .. nextSub \subseteq 0 .. (nextSub + 1)
          /\ nextSub + 1 \in 1 .. (nextSub + 1)
      BY <2>6 DEF TypeOK, SubscribeStart
    <3>3. /\ subs' \subseteq 1 .. nextSub'
          /\ todo' \in [Callers -> SUBSET (1 .. nextSub')]
          /\ newSub' \in [Callers -> 0 .. nextSub']
      BY <2>6, <3>2 DEF TypeOK, SubscribeStart
    <3>4. snapshot' \in [Callers -> [Instances -> Source \cup {None}]]
      BY <2>6, <3>1 DEF TypeOK, SubscribeStart
    <3>5. QED
      BY <2>6, <3>2, <3>3, <3>4 DEF TypeOK, SubscribeStart
  <2>7. ASSUME NEW c \in Callers, NEW i \in Instances, Replay(c, i) PROVE TypeOK'
    <3>1. snapshot[c] \in [Instances -> Source \cup {None}]
      BY DEF TypeOK
    <3>2. snapshot' \in [Callers -> [Instances -> Source \cup {None}]]
      <4>1. [snapshot[c] EXCEPT ![i] = None] \in [Instances -> Source \cup {None}]
        BY <3>1
      <4>2. QED
        BY <2>7, <4>1 DEF TypeOK, Replay
    <3>3. mirror' \in [SubIds -> [Instances -> Source \cup {None}]]
      <4>1. \A s \in SubIds :
              [mirror[s] EXCEPT ![i] = snapshot[c][i]] \in [Instances -> Source \cup {None}]
        BY <3>1 DEF TypeOK
      <4>2. QED
        BY <2>7, <4>1 DEF TypeOK, Replay
    <3>4. QED
      BY <2>7, <3>2, <3>3 DEF TypeOK, Replay
  <2>8. ASSUME NEW c \in Callers, SubscribeDone(c) PROVE TypeOK'
    <3>1. newSub' \in [Callers -> 0 .. nextSub']
      BY <2>8 DEF TypeOK, SubscribeDone
    <3>2. QED
      BY <2>8, <3>1 DEF TypeOK, SubscribeDone
  <2>9. ASSUME NEW c \in Callers, NEW s \in SubIds, Unsubscribe(c, s) PROVE TypeOK'
    BY <2>9 DEF TypeOK, Unsubscribe
  <2>10. ASSUME NEW c \in Callers, SubscribeCall(c) PROVE TypeOK'
    BY <2>10 DEF TypeOK, SubscribeCall
  <2>11. CASE UNCHANGED vars
    BY <2>11 DEF vars, TypeOK
  <2>12. QED
    BY <2>1, <2>2, <2>3, <2>4, <2>5, <2>6, <2>7, <2>8, <2>9, <2>10, <2>11
    DEF Next, Call, Step
<1>3. QED
  BY <1>1, <1>2, PTL DEF Spec

-----------------------------------------------------------------------------
(* notifyMu is held by the goroutine that runs callbacks, and the local      *)
(* variables of Subscribe and publish are in use only inside them.           *)
LockInv ==
  \A c \in Callers :
    /\ pc[c] \in {"deliver", "replay"} => notifyMu = c
    /\ pc[c] # "replay" => /\ newSub[c] = 0
                          /\ \A i \in Instances : snapshot[c][i] = None
    /\ pc[c] = "replay" => newSub[c] \in 1 .. nextSub

(* notifyMu is held by whoever runs callbacks. *)
LEMMA LockCorrect == Spec => []LockInv
<1>1. Init => LockInv
  BY DEF Init, LockInv
<1>2. TypeOK /\ LockInv /\ [Next]_vars => LockInv'
  <2> SUFFICES ASSUME TypeOK, LockInv, [Next]_vars PROVE LockInv'
    OBVIOUS
  <2>1. ASSUME NEW c \in Callers, NEW svc \in Service, Observe(c, svc)
        PROVE  LockInv'
    <3>1. pc' = pc \/ pc' = [pc EXCEPT ![c] = "publish"]
      BY <2>1 DEF Observe, Announce
    <3>2. QED
      BY <2>1, <3>1 DEF LockInv, Observe, TypeOK
  <2>2. ASSUME NEW c \in Callers, NEW svc \in Service, Retire(c, svc)
        PROVE  LockInv'
    BY <2>2 DEF LockInv, Retire, Announce, TypeOK
  <2>3. ASSUME NEW c \in Callers, PublishLock(c) PROVE LockInv'
    BY <2>3 DEF LockInv, PublishLock, TypeOK
  <2>4. ASSUME NEW c \in Callers, NEW s \in SubIds, Deliver(c, s) PROVE LockInv'
    BY <2>4 DEF LockInv, Deliver, TypeOK
  <2>5. ASSUME NEW c \in Callers, PublishDone(c) PROVE LockInv'
    BY <2>5 DEF LockInv, PublishDone, TypeOK
  <2>6. ASSUME NEW c \in Callers, SubscribeStart(c) PROVE LockInv'
    <3>1. \A d \in Callers : pc[d] \notin {"deliver", "replay"}
      BY <2>6 DEF LockInv, SubscribeStart
    <3>2. QED
      BY <2>6, <3>1 DEF LockInv, SubscribeStart, TypeOK
  <2>7. ASSUME NEW c \in Callers, NEW i \in Instances, Replay(c, i) PROVE LockInv'
    BY <2>7 DEF LockInv, Replay, TypeOK
  <2>8. ASSUME NEW c \in Callers, SubscribeDone(c) PROVE LockInv'
    BY <2>8 DEF LockInv, SubscribeDone, TypeOK
  <2>9. ASSUME NEW c \in Callers, NEW s \in SubIds, Unsubscribe(c, s) PROVE LockInv'
    BY <2>9 DEF LockInv, Unsubscribe, TypeOK
  <2>10. ASSUME NEW c \in Callers, SubscribeCall(c) PROVE LockInv'
    BY <2>10 DEF LockInv, SubscribeCall, TypeOK
  <2>11. CASE UNCHANGED vars
    BY <2>11 DEF LockInv, vars
  <2>12. QED
    BY <2>1, <2>2, <2>3, <2>4, <2>5, <2>6, <2>7, <2>8, <2>9, <2>10, <2>11
    DEF Next, Call, Step
<1>3. QED
  BY <1>1, <1>2, TypeCorrect, PTL DEF Spec

(* Callbacks never run concurrently, whatever number of goroutines announce *)
(* changes and subscribe at once (Registry.notifyMu).                       *)
THEOREM Serialized == Spec => []DeliverySerialized
<1>1. LockInv => DeliverySerialized
  BY DEF LockInv, DeliverySerialized
<1>2. QED
  BY <1>1, LockCorrect, PTL

-----------------------------------------------------------------------------
(* An instance whose last change overlapped no other is being announced by  *)
(* one goroutine at most.                                                   *)
OneAnnouncer ==
  \A i \in Instances \ overlap : \A c, d \in Callers :
    Announcing(c, i) /\ Announcing(d, i) => c = d

(* A subscription yet to be made has been told nothing. *)
NewMirrorsEmpty ==
  \A s \in SubIds : s > nextSub => \A i \in Instances : mirror[s][i] = None

(* A source still to be replayed is the registered one, or the change that  *)
(* made it old is waiting for notifyMu and will be told after it.           *)
ReplayCurrent ==
  \A c \in Callers : \A i \in Instances \ overlap :
    snapshot[c][i] # None =>
      \/ snapshot[c][i] = Get(i)
      \/ \E d \in Callers : Announcing(d, i) /\ pc[d] = "publish"

(* The inductive invariant behind MirrorsConverge, next to LockInv. *)
MirrorInv ==
  /\ OneAnnouncer
  /\ EventIsCurrentUnlessOverlap
  /\ NewMirrorsEmpty
  /\ ReplayCurrent
  /\ MirrorsConverge

(* A change of one instance, announced by the goroutine that made it,       *)
(* preserves the invariant.                                                 *)
LEMMA ChangePreserves ==
  ASSUME TypeOK, LockInv, MirrorInv,
         NEW c \in Callers, NEW i \in Instances, NEW e \in Event,
         NEW n \in Entry \cup {None},
         pc[c] = "idle", e.src.inst = i,
         Told(e) = (IF n = None THEN None ELSE n.src),
         sources' = [sources EXCEPT ![i] = n],
         Announce(c, i, e),
         UNCHANGED <<subs, nextSub, notifyMu, todo, newSub, snapshot, mirror>>
  PROVE  MirrorInv'
<1>1. /\ pc' = [pc EXCEPT ![c] = "publish"]
      /\ event' = [event EXCEPT ![c] = e]
      /\ overlap' = IF PendingOn(i) = {} THEN overlap \ {i} ELSE overlap \cup {i}
  BY DEF Announce
<1>2. \A d \in Callers : \A j \in Instances :
        Announcing(d, j)' <=> IF d = c THEN j = i ELSE Announcing(d, j)
  BY <1>1 DEF TypeOK, Announcing
<1>3. \A j \in Instances : j # i => Get(j)' = Get(j) /\ (j \in overlap' <=> j \in overlap)
  BY <1>1 DEF TypeOK, Get
<1>4. Get(i)' = Told(e)
  BY DEF TypeOK, Get
<1>5. \A j \in Instances : ~Announcing(c, j)
  BY DEF Announcing
<1>6. i \notin overlap' => \A d \in Callers : ~Announcing(d, i)
  BY <1>1 DEF PendingOn
<1>7. \A d \in Callers : pc[d] = "publish" => pc'[d] = "publish"
  BY <1>1 DEF TypeOK
<1>8. OneAnnouncer'
  BY <1>2, <1>3, <1>5, <1>6 DEF MirrorInv, OneAnnouncer
<1>9. EventIsCurrentUnlessOverlap'
  <2> SUFFICES ASSUME NEW d \in Callers, NEW j \in Instances, j \notin overlap',
                      Announcing(d, j)'
               PROVE  Get(j)' = Told(event'[d])
    BY DEF EventIsCurrentUnlessOverlap, Told
  <2>1. CASE d = c
    BY <2>1, <1>1, <1>2, <1>4 DEF TypeOK
  <2>2. CASE d # c
    <3>1. j # i /\ Announcing(d, j) /\ event'[d] = event[d]
      BY <2>2, <1>1, <1>2, <1>6 DEF TypeOK
    <3>2. QED
      BY <3>1, <1>3 DEF MirrorInv, EventIsCurrentUnlessOverlap
  <2>3. QED
    BY <2>1, <2>2
<1>10. NewMirrorsEmpty'
  BY DEF MirrorInv, NewMirrorsEmpty
<1>11. Announcing(c, i)' /\ pc'[c] = "publish"
  BY <1>1, <1>2 DEF TypeOK
<1>12. ReplayCurrent'
  <2> SUFFICES ASSUME NEW d \in Callers, NEW j \in Instances, j \notin overlap',
                      snapshot[d][j] # None, j # i
               PROVE  \/ snapshot[d][j] = Get(j)'
                      \/ \E b \in Callers : Announcing(b, j)' /\ pc'[b] = "publish"
    BY <1>11 DEF ReplayCurrent
  <2>1. \/ snapshot[d][j] = Get(j)
        \/ \E b \in Callers : Announcing(b, j) /\ pc[b] = "publish"
    BY <1>3 DEF MirrorInv, ReplayCurrent
  <2>2. QED
    BY <2>1, <1>2, <1>3, <1>5, <1>7
<1>13. MirrorsConverge'
  <2> SUFFICES ASSUME NEW s \in subs, NEW j \in Instances, j \notin overlap',
                      mirror[s][j] # Get(j)'
               PROVE  ToldLater(s, j)'
    BY DEF MirrorsConverge
  <2>1. CASE j = i
    BY <2>1, <1>11 DEF ToldLater, PendingOn
  <2>2. CASE j # i
    <3>1. ToldLater(s, j)
      BY <2>2, <1>3 DEF MirrorInv, MirrorsConverge
    <3>2. CASE \E d \in Callers : Announcing(d, j) /\ (pc[d] = "publish" \/ s \in todo[d])
      <4>1. PICK d \in Callers : Announcing(d, j) /\ (pc[d] = "publish" \/ s \in todo[d])
        BY <3>2
      <4>2. Announcing(d, j)' /\ (pc'[d] = "publish" \/ s \in todo'[d])
        BY <4>1, <1>2, <1>5, <1>7
      <4>3. QED
        BY <4>2 DEF ToldLater, PendingOn
    <3>3. CASE \E d \in Callers : newSub[d] = s /\ snapshot[d][j] # None
      BY <3>3 DEF ToldLater
    <3>4. QED
      BY <3>1, <3>2, <3>3 DEF ToldLater, PendingOn
  <2>3. QED
    BY <2>1, <2>2
<1>14. QED
  BY <1>8, <1>9, <1>10, <1>12, <1>13 DEF MirrorInv

(* The invariant holds for every behaviour of the registry. *)
LEMMA MirrorCorrect == Spec => []MirrorInv
<1>1. Init => MirrorInv
  BY DEF Init, MirrorInv, OneAnnouncer, EventIsCurrentUnlessOverlap, Announcing,
         NewMirrorsEmpty, ReplayCurrent, MirrorsConverge
<1>2. TypeOK /\ LockInv /\ MirrorInv /\ TypeOK' /\ [Next]_vars => MirrorInv'
  <2> SUFFICES ASSUME TypeOK, LockInv, MirrorInv, TypeOK', [Next]_vars
               PROVE  MirrorInv'
    OBVIOUS
  <2>1. ASSUME NEW c \in Callers, NEW svc \in Service, Observe(c, svc)
        PROVE  MirrorInv'
    <3>1. PICK at \in RecordSeen(svc) : Observe(c, svc)!4!(at)
      BY <2>1 DEF Observe
    <3> DEFINE i == svc.inst
               next == Merge(svc, at, sources[i])
    <3>2. i \in Instances
      BY <2>1 DEF Observe
    <3>3. next \in Entry /\ next.src \in Source /\ next.src.inst = i
      BY <3>2, MergeType DEF Entry
    <3>4. CASE Changed(sources[i], next)
      <4> DEFINE e == [kind |-> IF sources[i] = None THEN "Added" ELSE "Updated",
                       src  |-> next.src]
      <4>1. e \in Event /\ e.src.inst = i /\ Told(e) = next.src
        BY <3>3 DEF Event, Told
      <4>2. Announce(c, i, e) /\ sources' = [sources EXCEPT ![i] = next]
        BY <3>1, <3>4
      <4>3. pc[c] = "idle" /\ next # None
            /\ UNCHANGED <<subs, nextSub, notifyMu, todo, newSub, snapshot, mirror>>
        BY <2>1, <3>3 DEF Observe
      <4> HIDE DEF e, next, i
      <4>4. QED
        BY <3>2, <3>3, <4>1, <4>2, <4>3, ChangePreserves
    <3>5. CASE ~Changed(sources[i], next)
      <4>1. sources' = [sources EXCEPT ![i] = next] /\ UNCHANGED <<pc, event, overlap>>
        BY <3>1, <3>5
      <4>2. sources[i] # None /\ next.src.ep = sources[i].src.ep
            /\ next.src.id = sources[i].src.id
        BY <3>5 DEF Changed
      <4>3. next.src.disc = sources[i].src.disc /\ sources[i].src.inst = i
            /\ sources[i].src \in Source
        BY <3>2, <4>2 DEF TypeOK, Merge, sourceFrom, Entry
      <4>4. next.src = sources[i].src
        BY <3>3, <4>2, <4>3 DEF Source
      <4>5. \A j \in Instances : Get(j)' = Get(j)
        BY <3>2, <3>3, <4>1, <4>2, <4>4 DEF Get, TypeOK
      <4>6. QED
        BY <2>1, <4>1, <4>5
        DEF Observe, MirrorInv, OneAnnouncer, EventIsCurrentUnlessOverlap, Announcing, Told,
            NewMirrorsEmpty, ReplayCurrent, MirrorsConverge, ToldLater, PendingOn
    <3>6. QED
      BY <3>4, <3>5
  <2>2. ASSUME NEW c \in Callers, NEW svc \in Service, Retire(c, svc)
        PROVE  MirrorInv'
    <3> DEFINE i == svc.inst
               e == [kind |-> "Retired", src |-> sources[i].src]
    <3>1. /\ i \in Instances
          /\ pc[c] = "idle"
          /\ sources' = [sources EXCEPT ![i] = None]
          /\ Announce(c, i, e)
          /\ UNCHANGED <<subs, nextSub, notifyMu, todo, newSub, snapshot, mirror>>
      BY <2>2 DEF Retire
    <3>2. e \in Event /\ e.src.inst = i /\ Told(e) = None
      <4>1. sources[i] \in Entry /\ sources[i].src.inst = i
        <5>1. i \in Instances /\ sources[i] # None
          BY <2>2 DEF Retire
        <5> HIDE DEF i
        <5>2. QED
          BY <5>1 DEF TypeOK
      <4>2. sources[i].src \in Source
        BY <4>1 DEF Entry
      <4>3. QED
        BY <4>1, <4>2 DEF Event, Told
    <3> HIDE DEF e, i
    <3>3. QED
      BY <3>1, <3>2, ChangePreserves
  <2>3. ASSUME NEW c \in Callers, PublishLock(c) PROVE MirrorInv'
    <3>1. \A d \in Callers : pc[d] # "replay"
      BY <2>3 DEF PublishLock, LockInv
    <3>2. \A d \in Callers : \A i \in Instances :
            /\ snapshot[d][i] = None
            /\ Announcing(d, i)' <=> Announcing(d, i)
            /\ Get(i)' = Get(i)
      BY <2>3, <3>1 DEF PublishLock, LockInv, TypeOK, Announcing, Get
    <3>3. MirrorsConverge'
      <4> SUFFICES ASSUME NEW s \in subs, NEW j \in Instances, j \notin overlap,
                          mirror[s][j] # Get(j)
                   PROVE  ToldLater(s, j)'
        BY <2>3, <3>2 DEF PublishLock, MirrorsConverge
      <4> ToldLater(s, j)
        BY DEF MirrorInv, MirrorsConverge
      <4>1. PICK d \in Callers : Announcing(d, j) /\ (pc[d] = "publish" \/ s \in todo[d])
        BY <3>2 DEF ToldLater, PendingOn
      <4>2. Announcing(d, j)' /\ (pc'[d] = "publish" \/ s \in todo'[d])
        BY <2>3, <3>2, <4>1 DEF PublishLock, TypeOK
      <4>3. QED
        BY <4>2 DEF ToldLater, PendingOn
    <3>4. QED
      BY <2>3, <3>2, <3>3
      DEF PublishLock, MirrorInv, OneAnnouncer, EventIsCurrentUnlessOverlap, Told,
          NewMirrorsEmpty, ReplayCurrent
  <2>4. ASSUME NEW c \in Callers, NEW s \in SubIds, Deliver(c, s) PROVE MirrorInv'
    <3>1. \A d \in Callers : \A j \in Instances :
            /\ Announcing(d, j)' <=> Announcing(d, j)
            /\ Get(j)' = Get(j)
      BY <2>4 DEF Deliver, Announcing, Get
    <3> DEFINE i == event[c].src.inst
    <3>2. i \in Instances /\ Announcing(c, i) /\ s <= nextSub /\ s \in Nat
      BY <2>4 DEF Deliver, TypeOK, Event, Source, Announcing, SubIds
    <3> HIDE DEF i
    <3>3. \A u \in SubIds : \A j \in Instances :
            mirror'[u][j] = IF u = s /\ j = i THEN Told(event[c]) ELSE mirror[u][j]
      BY <2>4, <3>2 DEF Deliver, TypeOK, i
    <3>4. MirrorsConverge'
      <4> SUFFICES ASSUME NEW u \in subs, NEW j \in Instances, j \notin overlap,
                          mirror'[u][j] # Get(j)
                   PROVE  ToldLater(u, j)'
        BY <2>4, <3>1 DEF Deliver, MirrorsConverge
      <4>1. u \in SubIds
        BY DEF TypeOK, SubIds
      <4>2. ~(u = s /\ j = i)
        BY <3>1, <3>2, <3>3, <4>1 DEF MirrorInv, EventIsCurrentUnlessOverlap
      <4>3. mirror[u][j] # Get(j)
        BY <3>3, <4>1, <4>2
      <4>4. ToldLater(u, j)
        BY <4>3 DEF MirrorInv, MirrorsConverge
      <4>5. CASE \E d \in Callers : Announcing(d, j) /\ (pc[d] = "publish" \/ u \in todo[d])
        <5>1. PICK d \in Callers : Announcing(d, j) /\ (pc[d] = "publish" \/ u \in todo[d])
          BY <4>5
        <5>2. d = c => j = i
          BY <5>1 DEF Announcing, i
        <5>3. pc'[d] = "publish" \/ u \in todo'[d]
          BY <2>4, <5>1, <5>2, <4>2 DEF Deliver, TypeOK
        <5>4. QED
          BY <5>1, <5>3, <3>1 DEF ToldLater, PendingOn
      <4>6. CASE \E d \in Callers : newSub[d] = u /\ snapshot[d][j] # None
        BY <2>4, <4>6 DEF ToldLater, Deliver
      <4>7. QED
        BY <4>4, <4>5, <4>6 DEF ToldLater, PendingOn
    <3>5. NewMirrorsEmpty'
      <4> SUFFICES ASSUME NEW u \in SubIds, u > nextSub, NEW j \in Instances
                   PROVE  mirror'[u][j] = None
        BY <2>4 DEF Deliver, NewMirrorsEmpty
      <4>1. u # s
        BY <3>2 DEF TypeOK
      <4>2. QED
        BY <3>3, <4>1 DEF MirrorInv, NewMirrorsEmpty
    <3>6. QED
      BY <2>4, <3>1, <3>4, <3>5
      DEF Deliver, MirrorInv, OneAnnouncer, EventIsCurrentUnlessOverlap, Told, ReplayCurrent
  <2>5. ASSUME NEW c \in Callers, PublishDone(c) PROVE MirrorInv'
    <3>1. \A d \in Callers : \A j \in Instances :
            /\ Announcing(d, j)' <=> (d # c /\ Announcing(d, j))
            /\ Get(j)' = Get(j)
            /\ d # c => pc'[d] = pc[d] /\ event'[d] = event[d]
            /\ snapshot[d][j] = None
      BY <2>5 DEF PublishDone, Announcing, Get, TypeOK, LockInv
    <3>2. MirrorsConverge'
      <4> SUFFICES ASSUME NEW s \in subs, NEW j \in Instances, j \notin overlap,
                          mirror[s][j] # Get(j)
                   PROVE  ToldLater(s, j)'
        BY <2>5, <3>1 DEF PublishDone, MirrorsConverge
      <4> ToldLater(s, j)
        BY DEF MirrorInv, MirrorsConverge
      <4>1. PICK d \in Callers : Announcing(d, j) /\ (pc[d] = "publish" \/ s \in todo[d])
        BY <3>1 DEF ToldLater, PendingOn
      <4>2. d # c
        BY <2>5, <4>1 DEF PublishDone
      <4>3. QED
        BY <2>5, <3>1, <4>1, <4>2 DEF ToldLater, PendingOn, PublishDone
    <3>3. QED
      BY <2>5, <3>1, <3>2
      DEF PublishDone, MirrorInv, OneAnnouncer, EventIsCurrentUnlessOverlap, Told,
          NewMirrorsEmpty, ReplayCurrent
  <2>6. ASSUME NEW c \in Callers, SubscribeStart(c) PROVE MirrorInv'
    <3>1. \A d \in Callers : \A j \in Instances :
            /\ Announcing(d, j)' <=> Announcing(d, j)
            /\ Get(j)' = Get(j)
            /\ snapshot[d][j] = None
            /\ snapshot'[d][j] # None => d = c /\ snapshot'[d][j] = Get(j)
            /\ snapshot'[c][j] = Get(j)
            /\ pc[d] = "publish" => pc'[d] = "publish"
      BY <2>6 DEF SubscribeStart, Announcing, Get, TypeOK, LockInv
    <3>2. MirrorsConverge'
      <4> SUFFICES ASSUME NEW s \in subs', NEW j \in Instances, j \notin overlap,
                          mirror[s][j] # Get(j)
                   PROVE  ToldLater(s, j)'
        BY <2>6, <3>1 DEF SubscribeStart, MirrorsConverge
      <4>1. CASE s \in subs
        <5> ToldLater(s, j)
          BY <4>1 DEF MirrorInv, MirrorsConverge
        <5>1. PICK d \in Callers : Announcing(d, j) /\ (pc[d] = "publish" \/ s \in todo[d])
          BY <3>1 DEF ToldLater, PendingOn
        <5>2. QED
          BY <2>6, <3>1, <5>1 DEF ToldLater, PendingOn, SubscribeStart
      <4>2. CASE s = nextSub + 1
        <5>1. s \in SubIds /\ s > nextSub
          BY <2>6, <4>2 DEF SubscribeStart, TypeOK, SubIds
        <5>2. Get(j) # None
          BY <5>1 DEF MirrorInv, NewMirrorsEmpty
        <5>3. newSub'[c] = s /\ snapshot'[c][j] # None
          BY <2>6, <3>1, <4>2, <5>2 DEF SubscribeStart, TypeOK
        <5>4. QED
          BY <5>3 DEF ToldLater
      <4>3. QED
        BY <2>6, <4>1, <4>2 DEF SubscribeStart
    <3>3. NewMirrorsEmpty'
      <4> SUFFICES ASSUME NEW u \in SubIds, u > nextSub', NEW j \in Instances
                   PROVE  mirror[u][j] = None
        BY <2>6 DEF SubscribeStart, NewMirrorsEmpty
      <4>1. u > nextSub
        BY <2>6 DEF SubscribeStart, TypeOK, SubIds
      <4>2. QED
        BY <4>1 DEF MirrorInv, NewMirrorsEmpty
    <3>4. ReplayCurrent'
      BY <3>1 DEF ReplayCurrent
    <3>5. OneAnnouncer'
      BY <2>6, <3>1 DEF SubscribeStart, MirrorInv, OneAnnouncer
    <3>6. EventIsCurrentUnlessOverlap'
      BY <2>6, <3>1 DEF SubscribeStart, MirrorInv, EventIsCurrentUnlessOverlap, Told
    <3>7. QED
      BY <3>2, <3>3, <3>4, <3>5, <3>6 DEF MirrorInv
  <2>7. ASSUME NEW c \in Callers, NEW i \in Instances, Replay(c, i) PROVE MirrorInv'
    <3> DEFINE s == newSub[c]
    <3>1. \A d \in Callers : \A j \in Instances :
            /\ Announcing(d, j)' <=> Announcing(d, j)
            /\ Get(j)' = Get(j)
            /\ snapshot'[d][j] = IF d = c /\ j = i THEN None ELSE snapshot[d][j]
      BY <2>7 DEF Replay, Announcing, Get, TypeOK
    <3>2. s \in SubIds /\ s <= nextSub
      BY <2>7 DEF Replay, TypeOK, LockInv, SubIds
    <3> HIDE DEF s
    <3>3. \A u \in SubIds : \A j \in Instances :
            mirror'[u][j] = IF u = s /\ j = i THEN snapshot[c][i] ELSE mirror[u][j]
      BY <2>7, <3>2 DEF Replay, TypeOK, s
    <3>4. MirrorsConverge'
      <4> SUFFICES ASSUME NEW u \in subs, NEW j \in Instances, j \notin overlap,
                          mirror'[u][j] # Get(j)
                   PROVE  ToldLater(u, j)'
        BY <2>7, <3>1 DEF Replay, MirrorsConverge
      <4>1. u \in SubIds
        BY DEF TypeOK, SubIds
      <4>2. CASE u = s /\ j = i
        <5>1. \E d \in Callers : Announcing(d, j) /\ pc[d] = "publish"
          BY <2>7, <4>1, <4>2, <3>3 DEF Replay, MirrorInv, ReplayCurrent
        <5>2. QED
          BY <2>7, <3>1, <5>1 DEF Replay, ToldLater, PendingOn
      <4>3. CASE ~(u = s /\ j = i)
        <5>1. ToldLater(u, j)
          BY <3>3, <4>1, <4>3 DEF MirrorInv, MirrorsConverge
        <5>2. CASE \E d \in PendingOn(j) : pc[d] = "publish" \/ u \in todo[d]
          BY <2>7, <3>1, <5>2 DEF Replay, ToldLater, PendingOn
        <5>3. CASE \E d \in Callers : newSub[d] = u /\ snapshot[d][j] # None
          BY <2>7, <3>1, <4>3, <5>3 DEF Replay, ToldLater, s
        <5>4. QED
          BY <5>1, <5>2, <5>3 DEF ToldLater
      <4>4. QED
        BY <4>2, <4>3
    <3>5. NewMirrorsEmpty'
      <4> SUFFICES ASSUME NEW u \in SubIds, u > nextSub, NEW j \in Instances
                   PROVE  mirror'[u][j] = None
        BY <2>7 DEF Replay, NewMirrorsEmpty
      <4>1. u # s
        BY <3>2 DEF TypeOK, SubIds
      <4>2. QED
        BY <3>3, <4>1 DEF MirrorInv, NewMirrorsEmpty
    <3>6. ReplayCurrent'
      BY <2>7, <3>1 DEF Replay, MirrorInv, ReplayCurrent
    <3>7. QED
      BY <2>7, <3>1, <3>4, <3>5, <3>6
      DEF Replay, MirrorInv, OneAnnouncer, EventIsCurrentUnlessOverlap, Told
  <2>8. ASSUME NEW c \in Callers, SubscribeDone(c) PROVE MirrorInv'
    <3>1. \A d \in Callers : \A j \in Instances :
            /\ Announcing(d, j)' <=> Announcing(d, j)
            /\ Get(j)' = Get(j)
            /\ pc[d] = "publish" => pc'[d] = "publish"
            /\ d # c => newSub'[d] = newSub[d]
            /\ snapshot[c][j] = None
      BY <2>8 DEF SubscribeDone, Announcing, Get, TypeOK
    <3>2. MirrorsConverge'
      <4> SUFFICES ASSUME NEW u \in subs, NEW j \in Instances, j \notin overlap,
                          mirror[u][j] # Get(j)
                   PROVE  ToldLater(u, j)'
        BY <2>8, <3>1 DEF SubscribeDone, MirrorsConverge
      <4>1. ToldLater(u, j)
        BY DEF MirrorInv, MirrorsConverge
      <4>2. QED
        BY <2>8, <3>1, <4>1 DEF SubscribeDone, ToldLater, PendingOn
    <3>3. QED
      BY <2>8, <3>1, <3>2
      DEF SubscribeDone, MirrorInv, OneAnnouncer, EventIsCurrentUnlessOverlap, Told,
          NewMirrorsEmpty, ReplayCurrent
  <2>9. ASSUME NEW c \in Callers, NEW s \in SubIds, Unsubscribe(c, s) PROVE MirrorInv'
    <3>1. \A d \in Callers : \A j \in Instances :
            /\ Announcing(d, j)' <=> Announcing(d, j)
            /\ Get(j)' = Get(j)
      BY <2>9 DEF Unsubscribe, Announcing, Get
    <3>2. MirrorsConverge'
      <4> SUFFICES ASSUME NEW u \in subs, NEW j \in Instances, j \notin overlap,
                          mirror[u][j] # Get(j)
                   PROVE  ToldLater(u, j)'
        BY <2>9, <3>1 DEF Unsubscribe, MirrorsConverge
      <4>1. ToldLater(u, j)
        BY DEF MirrorInv, MirrorsConverge
      <4>2. QED
        BY <2>9, <3>1, <4>1 DEF Unsubscribe, ToldLater, PendingOn
    <3>3. EventIsCurrentUnlessOverlap'
      BY <2>9, <3>1 DEF Unsubscribe, MirrorInv, EventIsCurrentUnlessOverlap, Told
    <3>4. ReplayCurrent'
      BY <2>9, <3>1 DEF Unsubscribe, MirrorInv, ReplayCurrent
    <3>5. OneAnnouncer' /\ NewMirrorsEmpty'
      BY <2>9, <3>1 DEF Unsubscribe, MirrorInv, OneAnnouncer, NewMirrorsEmpty
    <3>6. QED
      BY <3>2, <3>3, <3>4, <3>5 DEF MirrorInv
  <2>10. ASSUME NEW c \in Callers, SubscribeCall(c) PROVE MirrorInv'
    <3>1. \A d \in Callers : \A j \in Instances :
            /\ Announcing(d, j)' <=> Announcing(d, j)
            /\ Get(j)' = Get(j)
            /\ pc[d] = "publish" <=> pc'[d] = "publish"
      BY <2>10 DEF SubscribeCall, Announcing, Get, TypeOK
    <3>2. MirrorsConverge'
      <4> SUFFICES ASSUME NEW u \in subs, NEW j \in Instances, j \notin overlap,
                          mirror[u][j] # Get(j)
                   PROVE  ToldLater(u, j)'
        BY <2>10, <3>1 DEF SubscribeCall, MirrorsConverge
      <4>1. ToldLater(u, j)
        BY DEF MirrorInv, MirrorsConverge
      <4>2. QED
        BY <2>10, <3>1, <4>1 DEF SubscribeCall, ToldLater, PendingOn
    <3>3. OneAnnouncer' /\ NewMirrorsEmpty'
      BY <2>10, <3>1 DEF SubscribeCall, MirrorInv, OneAnnouncer, NewMirrorsEmpty
    <3>4. EventIsCurrentUnlessOverlap'
      BY <2>10, <3>1 DEF SubscribeCall, MirrorInv, EventIsCurrentUnlessOverlap, Told
    <3>5. ReplayCurrent'
      BY <2>10, <3>1 DEF SubscribeCall, MirrorInv, ReplayCurrent
    <3>6. QED
      BY <3>2, <3>3, <3>4, <3>5 DEF MirrorInv
  <2>11. CASE UNCHANGED vars
    <3>1. \A j \in Instances :
            /\ \A d \in Callers : Announcing(d, j)' <=> Announcing(d, j)
            /\ Get(j)' = Get(j)
      BY <2>11 DEF vars, Announcing, Get
    <3>2. OneAnnouncer' /\ NewMirrorsEmpty'
      BY <2>11, <3>1 DEF vars, MirrorInv, OneAnnouncer, NewMirrorsEmpty
    <3>3. EventIsCurrentUnlessOverlap'
      BY <2>11, <3>1 DEF vars, MirrorInv, EventIsCurrentUnlessOverlap, Told
    <3>4. ReplayCurrent'
      BY <2>11, <3>1 DEF vars, MirrorInv, ReplayCurrent
    <3>5. MirrorsConverge'
      <4> SUFFICES ASSUME NEW u \in subs, NEW j \in Instances, j \notin overlap,
                          mirror[u][j] # Get(j)
                   PROVE  ToldLater(u, j)'
        BY <2>11, <3>1 DEF vars, MirrorsConverge
      <4>1. ToldLater(u, j)
        BY DEF MirrorInv, MirrorsConverge
      <4>2. QED
        BY <2>11, <3>1, <4>1 DEF vars, ToldLater, PendingOn
    <3>6. QED
      BY <3>2, <3>3, <3>4, <3>5 DEF MirrorInv
  <2>12. QED
    BY <2>1, <2>2, <2>3, <2>4, <2>5, <2>6, <2>7, <2>8, <2>9, <2>10, <2>11
    DEF Next, Call, Step
<1>3. QED
  BY <1>1, <1>2, TypeCorrect, LockCorrect, PTL DEF Spec

(* A callback finds the registry as its event says unless another change of *)
(* that instance overlapped: what is left of the doc comment of Registry.   *)
THEOREM CallbackSeesChangeWithoutOverlap == Spec => []EventIsCurrentUnlessOverlap
<1>1. MirrorInv => EventIsCurrentUnlessOverlap
  BY DEF MirrorInv
<1>2. QED
  BY <1>1, MirrorCorrect, PTL

(* A subscriber's picture, built from events alone, ends up equal to the    *)
(* registry for every instance whose last change overlapped no other        *)
(* (Observe, Retire, publish, Subscribe).                                   *)
THEOREM Convergence == Spec => []MirrorsConverge
<1>1. MirrorInv => MirrorsConverge
  BY DEF MirrorInv
<1>2. QED
  BY <1>1, MirrorCorrect, PTL
=============================================================================
