--------------------------- MODULE DiscoveryProofs ---------------------------
(***************************************************************************)
(* Theorems about Discovery, the browser and the registry as cmdServe      *)
(* wires them, for every set of instances, addresses and TXT records,      *)
(* every choice of the seeded ones and all timing constants that let a     *)
(* callback return before the record it reports can expire; about CableDir *)
(* by itself; and about Television, which joins them, where what was       *)
(* proved of each part carries from the network to the screen.             *)
(***************************************************************************)
EXTENDS Television, TLAPS

(* The parts of the state the argument is about. *)
Types ==
  /\ clock \in Nat /\ clock <= MaxTime /\ expiryC \in Nat /\ expiryC <= clock
  /\ net \in [B!Records -> Identities \cup {Nothing}]
  /\ services \in [B!Records -> B!Service \cup {Nothing}]
  /\ \A k \in B!Records : services[k] # Nothing =>
       /\ services[k].inst = k.inst /\ services[k].ep = k.ep
       /\ services[k].seen <= clock
  /\ adding \in [B!Adders -> B!Service \cup {Nothing}]
  /\ departed \subseteq B!Service
  /\ loop = "expire" <=> departed # {}
  /\ "loop" \in calling => loop = "expire"
  /\ sources = [i \in Instances |-> sources[i]]

(* A record stays held while it is being reported. *)
ReportedIsHeld ==
  \A t \in B!Adders, k \in B!Records :
    adding[t] # Nothing /\ adding[t].inst = k.inst /\ adding[t].ep = k.ep =>
      /\ services[k] # Nothing
      /\ adding[t].seen <= services[k].seen
      /\ clock <= adding[t].seen + MaxLag

(* The inductive invariant. *)
IInv == Types /\ ReportedIsHeld /\ SourcesAreBacked

-----------------------------------------------------------------------------
(* The constants of the browser. *)
LEMMA ExpiryIsLonger == B!defaultExpiry \in Nat /\ MaxLag < B!defaultExpiry /\ MaxLag \in Nat
<1>1. 2 * Interval \in Nat /\ MinExpiry \in Nat
  BY DiscoveryAssumption
<1>2. \A a, b \in Nat : B!Max({a, b}) \in {a, b}
  <2> SUFFICES ASSUME NEW a \in Nat, NEW b \in Nat PROVE B!Max({a, b}) \in {a, b}
    OBVIOUS
  <2>1. CASE a >= b
    BY <2>1 DEF B!Max
  <2>2. CASE b >= a
    BY <2>2 DEF B!Max
  <2>3. QED
    BY <2>1, <2>2
<1>3. QED
  BY <1>1, <1>2, DiscoveryAssumption DEF B!defaultExpiry

LEMMA ServiceTypes ==
  \A svc \in B!Service : /\ svc # Nothing /\ svc.inst \in Instances /\ svc.ep \in Endpoints
                         /\ svc.inst \in Nat /\ svc.ep \in Nat /\ svc.seen \in Nat
                         /\ B!recordKey(svc) \in B!Records
                         /\ B!recordKey(svc).inst = svc.inst /\ B!recordKey(svc).ep = svc.ep
BY DiscoveryAssumption DEF B!Service, B!Records, B!recordKey

(* Two records neither of which is after the other have one key. *)
LEMMA KeyOrder ==
  \A a, b \in B!Service : B!KeyBefore(a, b) /\ B!KeyBefore(b, a) => a.inst = b.inst /\ a.ep = b.ep
BY ServiceTypes DEF B!KeyBefore

(* The source of instance i is backed by a held record, or by one that is   *)
(* still to be retired.                                                     *)
Holds(i)   == \E k \in B!Records : /\ services[k] # Nothing
                                   /\ k.inst = i /\ k.ep = sources[i].src.ep
Retiring(i) == \E svc \in departed : /\ svc.inst = i /\ svc.ep = sources[i].src.ep
                                     /\ "loop" \in calling =>
                                          \E other \in departed : ~B!KeyBefore(svc, other)

LEMMA BackingSplit ==
  ASSUME Types, NEW i \in Instances
  PROVE  Backing(i) # {} <=> Holds(i) \/ Retiring(i)
<1>1. ASSUME Backing(i) # {} PROVE Holds(i) \/ Retiring(i)
  BY <1>1 DEF Backing, RetirePending, Holds, Retiring, Types
<1>2. ASSUME Holds(i) PROVE Backing(i) # {}
  BY <1>2 DEF Backing, Holds, Types
<1>3. ASSUME Retiring(i) PROVE Backing(i) # {}
  BY <1>3 DEF Backing, RetirePending, Retiring
<1>4. QED
  BY <1>1, <1>2, <1>3

LEMMA BackedNext ==
  ASSUME Types', \A i \in Instances : sources'[i] # Nothing => Holds(i)' \/ Retiring(i)'
  PROVE  SourcesAreBacked'
<1> SUFFICES ASSUME NEW i \in Instances, sources'[i] # Nothing PROVE Backing(i)' # {}
  BY DEF SourcesAreBacked
<1>1. CASE Holds(i)'
  BY <1>1 DEF Backing, Holds, Types
<1>2. CASE Retiring(i)'
  BY <1>2 DEF Backing, RetirePending, Retiring
<1>3. QED
  BY <1>1, <1>2

LEMMA BackedNow ==
  ASSUME IInv, NEW i \in Instances, sources[i] # Nothing
  PROVE  Holds(i) \/ Retiring(i)
BY BackingSplit DEF IInv, SourcesAreBacked

(* A step of the registry, the network or the loop that changes none of it. *)
LEMMA Quiet ==
  ASSUME IInv, UNCHANGED <<services, adding, departed, sources, calling, clock>>,
         loop' = "expire" <=> loop = "expire", expiryC' \in {0, expiryC},
         net' \in [B!Records -> Identities \cup {Nothing}]
  PROVE  IInv'
<1>1. Types'
  BY DEF IInv, Types
<1>2. ReportedIsHeld'
  BY DEF IInv, ReportedIsHeld
<1>3. \A i \in Instances : (Holds(i)' <=> Holds(i)) /\ (Retiring(i)' <=> Retiring(i))
  BY DEF Holds, Retiring
<1>4. SourcesAreBacked'
  BY <1>1, <1>3, BackedNow, BackedNext
<1>5. QED
  BY <1>1, <1>2, <1>4 DEF IInv

(* A goroutine sights record k. *)
LEMMA AddServiceBacks ==
  ASSUME IInv, NEW t \in B!Adders, NEW k \in B!Records, NEW id \in Identities,
         adding[t] = Nothing, B!addService(t, k, id),
         UNCHANGED <<departed, sources, calling, clock, loop, expiryC, net>>
  PROVE  IInv'
<1> DEFINE svc == [inst |-> k.inst, ep |-> k.ep, id |-> id, seen |-> clock,
                   disc |-> IF services[k] # Nothing THEN services[k].disc ELSE clock]
<1>0. /\ services' = [services EXCEPT ![k] = svc]
      /\ adding' = [adding EXCEPT ![t] = IF services[k] # Nothing THEN Nothing ELSE svc]
  BY DEF B!addService
<1>1. svc \in B!Service /\ svc.inst = k.inst /\ svc.ep = k.ep /\ svc.seen = clock
  <2>1. k.inst \in Instances /\ k.ep \in Endpoints
    BY DEF B!Records
  <2>2. services[k] # Nothing => services[k].disc \in 0 .. MaxTime
    BY DEF IInv, Types, B!Service
  <2>3. clock \in 0 .. MaxTime
    BY DiscoveryAssumption DEF IInv, Types
  <2>4. QED
    BY <2>1, <2>2, <2>3 DEF B!Service
<1> HIDE DEF svc
<1>2. /\ services' \in [B!Records -> B!Service \cup {Nothing}]
      /\ \A r \in B!Records : services'[r] = IF r = k THEN svc ELSE services[r]
  BY <1>0, <1>1 DEF IInv, Types
<1>3. /\ adding' \in [B!Adders -> B!Service \cup {Nothing}]
      /\ \A u \in B!Adders :
           adding'[u] = IF u = t /\ services[k] = Nothing THEN svc ELSE adding[u]
  BY <1>0, <1>1 DEF IInv, Types
<1>4. svc # Nothing /\ clock \in Nat /\ clock <= clock /\ clock <= clock + MaxLag
  BY <1>1, ServiceTypes, ExpiryIsLonger DEF IInv, Types
<1>5. Types'
  BY <1>1, <1>2, <1>3, <1>4 DEF IInv, Types
<1>6. ASSUME NEW u \in B!Adders, NEW r \in B!Records, adding'[u] # Nothing,
             adding'[u].inst = r.inst, adding'[u].ep = r.ep
      PROVE  /\ services'[r] # Nothing /\ adding'[u].seen <= services'[r].seen
             /\ clock <= adding'[u].seen + MaxLag
  <2>1. CASE u = t /\ services[k] = Nothing
    <3>1. r = k
      BY <1>1, <1>3, <1>6, <2>1 DEF B!Records
    <3>2. QED
      BY <1>1, <1>2, <1>3, <1>4, <2>1, <3>1
  <2>2. CASE ~(u = t /\ services[k] = Nothing)
    <3>1. /\ services[r] # Nothing /\ adding[u].seen <= services[r].seen
          /\ clock <= adding[u].seen + MaxLag /\ adding'[u] = adding[u]
      BY <1>3, <1>6, <2>2 DEF IInv, ReportedIsHeld
    <3>2. adding[u].seen <= clock
      BY <1>3, <1>6, <3>1, ServiceTypes DEF IInv, Types
    <3>3. QED
      BY <1>1, <1>2, <1>4, <3>1, <3>2
  <2>3. QED
    BY <2>1, <2>2
<1>7. ReportedIsHeld'
  BY <1>6 DEF ReportedIsHeld
<1>8. ASSUME NEW i \in Instances, sources[i] # Nothing PROVE Holds(i)' \/ Retiring(i)'
  <2>1. CASE Holds(i)
    BY <1>2, <1>4, <2>1 DEF Holds
  <2>2. CASE Retiring(i)
    BY <2>2 DEF Retiring
  <2>3. QED
    BY <1>8, <2>1, <2>2, BackedNow
<1>9. SourcesAreBacked'
  BY <1>5, <1>8, BackedNext
<1>10. QED
  BY <1>5, <1>7, <1>9 DEF IInv

LEMMA SightBacks ==
  ASSUME IInv, NEW k \in B!Records, Sight(k)
  PROVE  IInv'
<1>0. UNCHANGED <<sources, calling>>
  BY DEF Sight, registryVars
<1>1. CASE B!BrowseEntry(k)
  <2>1. "browse" \in B!Adders /\ net[k] \in Identities
    BY <1>1 DEF B!BrowseEntry, B!Adders, IInv, Types
  <2>2. UNCHANGED <<departed, clock, loop, expiryC, net>>
    BY <1>1 DEF B!BrowseEntry, B!loopVars, B!tickers
  <2>3. QED
    BY <1>0, <1>1, <2>1, <2>2, AddServiceBacks DEF B!BrowseEntry
<1>2. CASE B!RefreshEntry(k)
  <2>1. "refresh" \in B!Adders /\ net[k] \in Identities
    BY <1>2 DEF B!RefreshEntry, B!Adders, IInv, Types
  <2>2. UNCHANGED <<departed, clock, loop, expiryC, net>>
    BY <1>2 DEF B!RefreshEntry, B!tickers
  <2>3. QED
    BY <1>0, <1>2, <2>1, <2>2, AddServiceBacks DEF B!RefreshEntry
<1>3. ASSUME NEW id \in Identities, B!Add(k, id) PROVE IInv'
  <2>1. "main" \in B!Adders
    BY DEF B!Adders
  <2>2. UNCHANGED <<departed, clock, loop, expiryC, net>>
    BY <1>3 DEF B!Add, B!loopVars, B!tickers
  <2>3. QED
    BY <1>0, <1>3, <2>1, <2>2, AddServiceBacks DEF B!Add
<1>4. QED
  BY <1>1, <1>2, <1>3 DEF Sight

(* Observe stores the address of a record that is held. *)
LEMMA CallObserveBacks ==
  ASSUME IInv, NEW t \in B!Adders, CallObserve(t)
  PROVE  IInv'
<1> DEFINE svc == AsService(adding[t])
<1>0. /\ adding[t] # Nothing /\ calling' = calling \cup {t} /\ t # "loop"
      /\ R!Observe(t, svc) \/ UNCHANGED registryVars
      /\ UNCHANGED <<services, adding, departed, clock, loop, expiryC, net>>
  BY DEF CallObserve, browserVars, B!Adders
<1>1. Types' /\ ReportedIsHeld' <=> sources' = [i \in Instances |-> sources'[i]]
  BY <1>0 DEF IInv, Types, ReportedIsHeld
<1>2. CASE UNCHANGED registryVars
  <2>1. UNCHANGED sources
    BY <1>2 DEF registryVars
  <2>2. \A i \in Instances : Holds(i)' <=> Holds(i)
    BY <1>0, <2>1 DEF Holds
  <2>3. \A i \in Instances : Retiring(i) => Retiring(i)'
    BY <1>0, <2>1 DEF Retiring
  <2>4. Types' /\ ReportedIsHeld'
    BY <1>1, <2>1 DEF IInv, Types
  <2>5. QED
    BY <2>1, <2>2, <2>3, <2>4, BackedNow, BackedNext DEF IInv
<1>3. CASE R!Observe(t, svc)
  <2>1. svc.inst = adding[t].inst /\ svc.ep = adding[t].ep
    BY DEF AsService
  <2>2. PICK key \in B!Records : key.inst = adding[t].inst /\ key.ep = adding[t].ep
    BY <1>0, ServiceTypes DEF IInv, Types
  <2>3. services[key] # Nothing
    BY <1>0, <2>2 DEF IInv, ReportedIsHeld
  <2>4. PICK next : next.src.ep = svc.ep /\ sources' = [sources EXCEPT ![svc.inst] = next]
    BY <1>3 DEF R!Observe, R!Merge, R!sourceFrom
  <2>5. \A i \in Instances : sources'[i] = IF i = svc.inst THEN next ELSE sources[i]
    BY <2>4 DEF IInv, Types
  <2>6. Types' /\ ReportedIsHeld'
    BY <1>1, <2>4 DEF IInv, Types
  <2>7. ASSUME NEW i \in Instances, sources'[i] # Nothing PROVE Holds(i)' \/ Retiring(i)'
    <3>1. CASE i = svc.inst
      BY <1>0, <2>1, <2>2, <2>3, <2>4, <2>5, <3>1 DEF Holds
    <3>2. CASE i # svc.inst
      <4>1. sources'[i] = sources[i]
        BY <2>5, <3>2
      <4>2. (Holds(i) => Holds(i)') /\ (Retiring(i) => Retiring(i)')
        BY <1>0, <4>1 DEF Holds, Retiring
      <4>3. QED
        BY <2>7, <4>1, <4>2, BackedNow
    <3>3. QED
      BY <3>1, <3>2
  <2>8. QED
    BY <2>6, <2>7, BackedNext DEF IInv
<1>4. QED
  BY <1>0, <1>2, <1>3

LEMMA ObserveReturnsBacks ==
  ASSUME IInv, NEW t \in B!Adders, ObserveReturns(t)
  PROVE  IInv'
<1>0. /\ calling' = calling \ {t} /\ t # "loop" /\ adding' = [adding EXCEPT ![t] = Nothing]
      /\ UNCHANGED <<services, departed, sources, clock, loop, expiryC, net>>
  BY DEF ObserveReturns, B!OnChange, B!Adders, B!loopVars, B!tickers, registryVars
<1>1. /\ adding' \in [B!Adders -> B!Service \cup {Nothing}]
      /\ \A u \in B!Adders : adding'[u] = IF u = t THEN Nothing ELSE adding[u]
  BY <1>0 DEF IInv, Types
<1>2. Types'
  BY <1>0, <1>1 DEF IInv, Types
<1>3. ReportedIsHeld'
  BY <1>0, <1>1 DEF IInv, ReportedIsHeld
<1>4. \A i \in Instances : (Holds(i) => Holds(i)') /\ (Retiring(i) => Retiring(i)')
  BY <1>0 DEF Holds, Retiring
<1>5. QED
  BY <1>0, <1>2, <1>3, <1>4, BackedNow, BackedNext DEF IInv

(* Retire takes the source of the first departed record away, if it is the  *)
(* one registered; every other departed record is still to be retired.      *)
LEMMA CallRetireBacks ==
  ASSUME IInv, NEW svc \in departed, CallRetire(svc)
  PROVE  IInv'
<1>0. /\ loop = "expire" /\ \A other \in departed : B!KeyBefore(svc, other)
      /\ calling' = calling \cup {"loop"} /\ "loop" \notin calling
      /\ UNCHANGED <<services, adding, departed, clock, loop, expiryC, net>>
  BY DEF CallRetire, browserVars
<1>1. svc \in B!Service /\ svc.inst \in Instances
  BY ServiceTypes DEF IInv, Types
<1>2. /\ sources' = [i \in Instances |-> sources'[i]]
      /\ \A i \in Instances : sources'[i] # Nothing =>
           /\ sources'[i] = sources[i]
           /\ ~(svc.inst = i /\ svc.ep = sources[i].src.ep)
  <2>1. CASE R!Retire("loop", AsService(svc))
    <3>1. sources' = [sources EXCEPT ![svc.inst] = Nothing]
      BY <2>1 DEF R!Retire, AsService
    <3>2. QED
      BY <1>1, <3>1 DEF IInv, Types
  <2>2. CASE /\ sources[svc.inst] # Nothing => sources[svc.inst].src.ep # svc.ep
             /\ UNCHANGED registryVars
    BY <1>1, <2>2 DEF registryVars, IInv, Types
  <2>3. QED
    BY <2>1, <2>2 DEF CallRetire
<1>3. Types' /\ ReportedIsHeld'
  BY <1>0, <1>2 DEF IInv, Types, ReportedIsHeld
<1>4. ASSUME NEW i \in Instances, sources'[i] # Nothing PROVE Holds(i)' \/ Retiring(i)'
  <2>1. sources'[i] = sources[i] /\ sources[i] # Nothing
    BY <1>2, <1>4
  <2>2. CASE Holds(i)
    BY <1>0, <2>1, <2>2 DEF Holds
  <2>3. CASE Retiring(i)
    <3>1. PICK dep \in departed : dep.inst = i /\ dep.ep = sources[i].src.ep
      BY <2>3 DEF Retiring
    <3>2. ~B!KeyBefore(dep, svc)
      BY <1>0, <1>1, <1>2, <1>4, <3>1, KeyOrder DEF IInv, Types
    <3>3. QED
      BY <1>0, <2>1, <3>1, <3>2 DEF Retiring
  <2>4. QED
    BY <2>1, <2>2, <2>3, BackedNow
<1>5. QED
  BY <1>3, <1>4, BackedNext DEF IInv

LEMMA RetireReturnsBacks ==
  ASSUME IInv, NEW svc \in departed, RetireReturns(svc)
  PROVE  IInv'
<1>0. /\ "loop" \in calling /\ calling' = calling \ {"loop"}
      /\ \A other \in departed : B!KeyBefore(svc, other)
      /\ departed' = departed \ {svc}
      /\ loop' = IF departed = {svc} THEN "select" ELSE "expire"
      /\ UNCHANGED <<services, adding, sources, clock, expiryC, net>>
  BY DEF RetireReturns, B!OnRemove, B!tickers, registryVars
<1>1. Types' /\ ReportedIsHeld'
  BY <1>0 DEF IInv, Types, ReportedIsHeld
<1>2. \A i \in Instances : Holds(i) => Holds(i)'
  BY <1>0 DEF Holds
<1>3. ASSUME NEW i \in Instances, Retiring(i) PROVE Retiring(i)'
  <2>1. PICK dep \in departed : /\ dep.inst = i /\ dep.ep = sources[i].src.ep
                                /\ \E other \in departed : ~B!KeyBefore(dep, other)
    BY <1>0, <1>3 DEF Retiring
  <2>2. dep # svc
    BY <1>0, <2>1
  <2>3. QED
    BY <1>0, <2>1, <2>2 DEF Retiring
<1>4. QED
  BY <1>0, <1>1, <1>2, <1>3, BackedNow, BackedNext DEF IInv

(* What expires is still to be retired, and nothing expires that is being   *)
(* reported.                                                                *)
LEMMA TakeExpiryBacks ==
  ASSUME IInv, B!TakeExpiry, UNCHANGED <<sources, calling>>
  PROVE  IInv'
<1> DEFINE old == B!Expired(expiryC)
<1>0. /\ loop = "select" /\ expiryC' = 0 /\ departed' = {services[k] : k \in old}
      /\ services' = [k \in B!Records |-> IF k \in old THEN Nothing ELSE services[k]]
      /\ loop' = IF old = {} THEN "select" ELSE "expire"
      /\ UNCHANGED <<clock, adding, net>>
  BY DEF B!TakeExpiry
<1>1. /\ old \subseteq B!Records /\ "loop" \notin calling /\ departed = {}
      /\ \A k \in old : /\ services[k] \in B!Service /\ services[k] # Nothing
                        /\ services[k].inst = k.inst /\ services[k].ep = k.ep
                        /\ expiryC >= services[k].seen + B!defaultExpiry
  BY <1>0 DEF B!Expired, IInv, Types
<1> HIDE DEF old
<1>2. ASSUME NEW t \in B!Adders, NEW k \in old, adding[t] # Nothing,
             adding[t].inst = k.inst, adding[t].ep = k.ep
      PROVE  FALSE
  <2>1. /\ adding[t].seen <= services[k].seen /\ clock <= adding[t].seen + MaxLag
        /\ adding[t].seen \in Nat /\ services[k].seen \in Nat
    BY <1>1, <1>2, ServiceTypes DEF IInv, Types, ReportedIsHeld
  <2>2. clock \in Nat /\ expiryC \in Nat /\ expiryC <= clock
    BY DEF IInv, Types
  <2>3. QED
    BY <1>1, <1>2, <2>1, <2>2, ExpiryIsLonger
<1>3. ReportedIsHeld'
  BY <1>0, <1>2 DEF IInv, Types, ReportedIsHeld
<1>4. Types'
  <2>1. /\ services' \in [B!Records -> B!Service \cup {Nothing}] /\ departed' \subseteq B!Service
        /\ loop' = "expire" <=> departed' # {}
    BY <1>0, <1>1 DEF IInv, Types
  <2>2. \A k \in B!Records : services'[k] # Nothing => services'[k] = services[k]
    BY <1>0
  <2>3. QED
    BY <1>0, <1>1, <2>1, <2>2 DEF IInv, Types
<1>5. ASSUME NEW i \in Instances, sources[i] # Nothing PROVE Holds(i)' \/ Retiring(i)'
  <2>1. PICK k \in B!Records : /\ services[k] # Nothing
                               /\ k.inst = i /\ k.ep = sources[i].src.ep
    BY <1>1, <1>5, BackedNow DEF Holds, Retiring
  <2>2. CASE k \in old
    BY <1>0, <1>1, <2>1, <2>2 DEF Retiring
  <2>3. CASE k \notin old
    BY <1>0, <2>1, <2>3 DEF Holds
  <2>4. QED
    BY <2>2, <2>3
<1>6. QED
  BY <1>3, <1>4, <1>5, BackedNext DEF IInv

LEMMA TickBacks ==
  ASSUME IInv, B!Tick, UNCHANGED <<sources, calling>>
  PROVE  IInv'
<1>0. /\ clock < MaxTime /\ clock' = clock + 1 /\ expiryC' \in {expiryC, clock + 1}
      /\ \A t \in B!Adders : adding[t] # Nothing => clock < adding[t].seen + MaxLag
      /\ UNCHANGED <<services, adding, departed, loop, net>>
  BY DEF B!Tick, B!loopVars
<1>1. clock' \in Nat /\ clock' <= MaxTime /\ expiryC' \in Nat /\ expiryC' <= clock'
  BY <1>0, DiscoveryAssumption DEF IInv, Types
<1>2. \A k \in B!Records : services[k] # Nothing => services[k].seen <= clock'
  <2>1. \A k \in B!Records : services[k] # Nothing =>
          services[k].seen \in Nat /\ services[k].seen <= clock
    BY ServiceTypes DEF IInv, Types
  <2>2. clock \in Nat
    BY DEF IInv, Types
  <2>3. QED
    BY <1>0, <2>1, <2>2
<1>3. Types'
  BY <1>0, <1>1, <1>2 DEF IInv, Types
<1>4. \A t \in B!Adders : adding[t] # Nothing => clock' <= adding[t].seen + MaxLag
  <2>1. \A t \in B!Adders : adding[t] # Nothing => adding[t].seen \in Nat
    BY ServiceTypes DEF IInv, Types
  <2>2. clock \in Nat
    BY DEF IInv, Types
  <2>3. QED
    BY <1>0, <2>1, <2>2, ExpiryIsLonger
<1>5. ReportedIsHeld'
  BY <1>0, <1>4 DEF IInv, ReportedIsHeld
<1>6. \A i \in Instances : (Holds(i) => Holds(i)') /\ (Retiring(i) => Retiring(i)')
  BY <1>0 DEF Holds, Retiring
<1>7. QED
  BY <1>3, <1>5, <1>6, BackedNow, BackedNext DEF IInv

(* The other steps of the browser's loop and of its environment. *)
LEMMA BrowserStepBacks ==
  ASSUME IInv, BrowserStep
  PROVE  IInv'
<1>0. UNCHANGED <<sources, calling>>
  BY DEF BrowserStep, registryVars
<1>1. ASSUME NEW k \in B!Records,
             B!Withdraw(k) \/ \E id \in Identities : B!Advertise(k, id)
      PROVE  IInv'
  <2>1. /\ net' \in [B!Records -> Identities \cup {Nothing}]
        /\ UNCHANGED <<services, adding, departed, clock, loop, expiryC>>
    BY <1>1 DEF B!Withdraw, B!Advertise, B!loopVars, B!tickers, IInv, Types
  <2>2. QED
    BY <1>0, <2>1, Quiet
<1>2. CASE B!TakeRefresh \/ B!RefreshDone \/ B!Cancel \/ B!Stop \/ B!Exited
  <2>1. /\ UNCHANGED <<services, adding, departed, clock, expiryC, net>>
        /\ loop' = "expire" <=> loop = "expire"
    BY <1>2 DEF B!TakeRefresh, B!RefreshDone, B!Cancel, B!Stop, B!Exited, B!vars, B!loopVars,
                B!tickers
  <2>2. QED
    BY <1>0, <2>1, Quiet DEF IInv, Types
<1>3. QED
  BY <1>0, <1>1, <1>2, TakeExpiryBacks, TickBacks DEF BrowserStep

LEMMA Inductive == IInv /\ [Next]_vars => IInv'
<1> SUFFICES ASSUME IInv, [Next]_vars PROVE IInv'
  OBVIOUS
<1>1. ASSUME UNCHANGED <<browserVars, sources, calling>> PROVE IInv'
  <2>1. UNCHANGED <<services, adding, departed, clock, expiryC, net, loop>>
    BY <1>1 DEF browserVars
  <2>2. QED
    BY <1>1, <2>1, Quiet DEF IInv, Types
<1>2. CASE Watch
  BY <1>1, <1>2 DEF Watch, R!SubscribeCall
<1>3. ASSUME NEW t \in Goroutines, RegistryStep(t) PROVE IInv'
  BY <1>1, <1>3 DEF RegistryStep, R!Step, R!PublishLock, R!Deliver, R!PublishDone, R!Replay,
                    R!SubscribeStart, R!SubscribeDone
<1>4. CASE UNCHANGED vars
  BY <1>1, <1>4 DEF vars, registryVars
<1>5. QED
  BY <1>2, <1>3, <1>4, SightBacks, CallObserveBacks, ObserveReturnsBacks, CallRetireBacks,
     RetireReturnsBacks, BrowserStepBacks DEF Next

LEMMA InitInv == Init => IInv
<1> SUFFICES ASSUME Init PROVE IInv
  OBVIOUS
<1>1. Types
  BY DiscoveryAssumption DEF Init, B!Init, R!Init, Types
<1>2. ReportedIsHeld /\ SourcesAreBacked
  BY DEF Init, B!Init, R!Init, ReportedIsHeld, SourcesAreBacked
<1>3. QED
  BY <1>1, <1>2 DEF IInv

(* The inductive invariant holds of every behaviour. *)
THEOREM Invariance == Spec => []IInv
BY InitInv, Inductive, PTL DEF Spec

(* No channel outlives its alarm: every registered source is backed by a    *)
(* record of its address that the browser holds, or whose retirement is     *)
(* about to be applied (addService, expire, Observe, Retire).               *)
THEOREM ChannelsAreBacked == Spec => []SourcesAreBacked
<1>1. IInv => SourcesAreBacked
  BY DEF IInv
<1>2. QED
  BY <1>1, Invariance, PTL

-----------------------------------------------------------------------------
(***************************************************************************)
(* Why a held record has a channel.  Each held record k of an instance     *)
(* that is not shadowed is still to be registered, or is the one           *)
(* registered, or was last seen no later than the registered one; so it    *)
(* expires no later, and is gone when the source is retired.               *)
(***************************************************************************)

(* Goroutine t is to call Observe for record k. *)
Open(t, k) == /\ adding[t] # Nothing /\ t \notin calling
              /\ adding[t].inst = k.inst /\ adding[t].ep = k.ep

Held(k)       == services[k] # Nothing
Source(k)     == sources[k.inst] # Nothing
Registered(k) == Source(k) /\ sources[k.inst].src.ep = k.ep

(* Record k was last seen no later than the registered one, which may have  *)
(* departed already.                                                        *)
Older(k) ==
  /\ Source(k)
  /\ \A r \in B!Records : r.inst = k.inst /\ Registered(r) /\ Held(r) =>
       services[k].seen <= services[r].seen
  /\ \A svc \in departed : svc.inst = k.inst /\ svc.ep = sources[k.inst].src.ep =>
       services[k].seen <= svc.seen

(* A report is dated when its record was sighted, and no two are of one     *)
(* record.                                                                  *)
ReportsDated ==
  /\ \A t \in B!Adders : /\ t \in calling => adding[t] # Nothing
                         /\ adding[t] # Nothing => /\ adding[t].disc = adding[t].seen
                                                  /\ adding[t].disc \in Nat \ {0}
  /\ \A t, u \in B!Adders :
       /\ adding[t] # Nothing /\ adding[u] # Nothing
       /\ adding[t].inst = adding[u].inst
       /\ adding[t].ep = adding[u].ep
       => t = u
  /\ \A i \in Instances : sources[i] # Nothing => sources[i] \in R!Entry
  /\ \A svc \in departed : svc.seen + B!defaultExpiry <= clock

(* A record still to be registered is not the one registered, and has not   *)
(* been sighted since it was, or only before the source's mark.             *)
OpenFresh(t, k) ==
  Open(t, k) =>
    /\ ~Registered(k)
    /\ Source(k) => \/ services[k].seen = adding[t].disc
                    \/ services[k].seen <= sources[k.inst].recordSeen

Covered(k) == Held(k) => Registered(k) \/ Older(k) \/ \E t \in B!Adders : Open(t, k)

(* Registering record m will not leave a later record k behind. *)
InOrder(t, m, k) ==
  Open(t, m) /\ Held(k) /\ k.inst = m.inst /\ k # m =>
    \/ services[k].seen <= adding[t].disc
    \/ \E u \in B!Adders : Open(u, k) /\ services[k].seen = adding[u].disc
    \/ Source(k) /\ services[k].seen <= sources[k.inst].recordSeen

(* The mark of the source is no later than its record was seen. *)
MarkSeen(k) ==
  Registered(k) =>
    /\ Held(k) => sources[k.inst].recordSeen <= services[k].seen
    /\ \A svc \in departed : svc.inst = k.inst /\ svc.ep = k.ep =>
         sources[k.inst].recordSeen <= svc.seen

(* What is held was seen after everything that is departing. *)
DepartedFirst(k) ==
  Held(k) => \A svc \in departed : svc.inst = k.inst =>
               svc.ep # k.ep /\ svc.seen < services[k].seen

SInv ==
  /\ ReportsDated
  /\ \A k \in B!Records : k.inst \notin shadowed =>
       /\ Covered(k) /\ MarkSeen(k) /\ DepartedFirst(k)
       /\ \A t \in B!Adders : OpenFresh(t, k)
       /\ \A t \in B!Adders, m \in B!Records : InOrder(t, m, k)

LEMMA MarksAreTimes ==
  ASSUME SInv
  PROVE  \A k \in B!Records : Source(k) => sources[k.inst].recordSeen \in Nat
<1> SUFFICES ASSUME NEW k \in B!Records, Source(k)
             PROVE  sources[k.inst].recordSeen \in Nat
  OBVIOUS
<1>1. sources[k.inst] \in R!Entry
  BY DEF SInv, ReportsDated, Source, B!Records
<1>2. \A e \in R!Entry : e.recordSeen \in 1 .. MaxTime
  BY DEF R!Entry
<1>3. QED
  BY <1>1, <1>2, DiscoveryAssumption

(* What a goroutine is to register is the same, and departed only shrinks. *)
LEMMA Calm ==
  ASSUME SInv, ReportsDated', UNCHANGED <<services, sources, shadowed>>,
         departed' \subseteq departed,
         \A u \in B!Adders, k \in B!Records :
           /\ Open(u, k)' <=> Open(u, k)
           /\ Open(u, k) => adding'[u] = adding[u]
  PROVE  SInv'
<1>1. \A k \in B!Records : /\ Held(k)' <=> Held(k)
                           /\ Source(k)' <=> Source(k)
                           /\ Registered(k)' <=> Registered(k)
  BY DEF Held, Source, Registered
<1> SUFFICES ASSUME NEW k \in B!Records, k.inst \notin shadowed
             PROVE  /\ Covered(k)' /\ MarkSeen(k)' /\ DepartedFirst(k)'
                    /\ \A t \in B!Adders : OpenFresh(t, k)'
                    /\ \A t \in B!Adders, m \in B!Records : InOrder(t, m, k)'
  BY DEF SInv
<1>2. /\ Covered(k) /\ MarkSeen(k) /\ DepartedFirst(k)
      /\ \A t \in B!Adders : OpenFresh(t, k)
      /\ \A t \in B!Adders, m \in B!Records : InOrder(t, m, k)
  BY DEF SInv
<1>3. Older(k) => Older(k)'
  BY <1>1 DEF Older
<1>4. Covered(k)'
  BY <1>1, <1>2, <1>3 DEF Covered
<1>5. MarkSeen(k)' /\ DepartedFirst(k)'
  BY <1>1, <1>2 DEF MarkSeen, DepartedFirst
<1>6. \A t \in B!Adders : OpenFresh(t, k)'
  BY <1>1, <1>2 DEF OpenFresh
<1>7. \A t \in B!Adders, m \in B!Records : InOrder(t, m, k)'
  BY <1>1, <1>2 DEF InOrder
<1>8. QED
  BY <1>4, <1>5, <1>6, <1>7

LEMMA StillCovers ==
  ASSUME SInv, UNCHANGED <<services, adding, departed, sources, calling, shadowed>>,
         clock' \in {clock, clock + 1}, IInv
  PROVE  SInv'
<1>1. \A svc \in departed : svc.seen \in Nat /\ B!defaultExpiry \in Nat /\ clock \in Nat
  BY ServiceTypes, ExpiryIsLonger DEF IInv, Types
<1>2. \A svc \in departed : svc.seen + B!defaultExpiry <= clock'
  BY <1>1 DEF SInv, ReportsDated
<1>3. ReportsDated'
  BY <1>2 DEF SInv, ReportsDated
<1>4. \A u \in B!Adders, k \in B!Records : Open(u, k)' <=> Open(u, k)
  BY DEF Open
<1>5. QED
  BY <1>3, <1>4, Calm

LEMMA ObserveReturnsCovers ==
  ASSUME IInv, SInv, NEW t \in B!Adders, ObserveReturns(t)
  PROVE  SInv'
<1>0. /\ t \in calling /\ calling' = calling \ {t} /\ adding' = [adding EXCEPT ![t] = Nothing]
      /\ UNCHANGED <<services, departed, sources, clock, shadowed>>
  BY DEF ObserveReturns, B!OnChange, B!loopVars, B!tickers, registryVars
<1>1. \A u \in B!Adders : adding'[u] = IF u = t THEN Nothing ELSE adding[u]
  BY <1>0 DEF IInv, Types
<1>2. ReportsDated'
  BY <1>0, <1>1 DEF SInv, ReportsDated
<1>3. \A u \in B!Adders, k \in B!Records :
        (Open(u, k)' <=> Open(u, k)) /\ (Open(u, k) => adding'[u] = adding[u])
  BY <1>0, <1>1 DEF Open
<1>4. QED
  BY <1>0, <1>2, <1>3, Calm

LEMMA RetireReturnsCovers ==
  ASSUME IInv, SInv, NEW svc \in departed, RetireReturns(svc)
  PROVE  SInv'
<1>0. /\ calling' = calling \ {"loop"} /\ departed' = departed \ {svc}
      /\ UNCHANGED <<services, adding, sources, clock, shadowed>>
  BY DEF RetireReturns, B!OnRemove, B!tickers, registryVars
<1>1. "loop" \notin B!Adders
  BY DEF B!Adders
<1>2. ReportsDated'
  BY <1>0 DEF SInv, ReportsDated
<1>3. \A u \in B!Adders, k \in B!Records : Open(u, k)' <=> Open(u, k)
  BY <1>0, <1>1 DEF Open
<1>4. QED
  BY <1>0, <1>2, <1>3, Calm

(* What stays held is younger than what departs. *)
LEMMA TakeExpiryCovers ==
  ASSUME IInv, SInv, B!TakeExpiry, UNCHANGED <<sources, calling, shadowed>>
  PROVE  SInv'
<1> DEFINE old == B!Expired(expiryC)
<1>0. /\ loop = "select" /\ departed' = {services[k] : k \in old}
      /\ services' = [k \in B!Records |-> IF k \in old THEN Nothing ELSE services[k]]
      /\ UNCHANGED <<clock, adding>>
  BY DEF B!TakeExpiry
<1>1. /\ old \subseteq B!Records /\ departed = {}
      /\ \A k \in B!Records : services[k] # Nothing =>
           /\ services[k] \in B!Service
           /\ services[k].inst = k.inst /\ services[k].ep = k.ep
           /\ services[k].seen \in Nat /\ services[k].seen <= clock
      /\ \A k \in old : services[k] # Nothing
      /\ \A k \in B!Records : services[k] # Nothing =>
           (k \in old <=> expiryC >= services[k].seen + B!defaultExpiry)
  BY <1>0, ServiceTypes DEF B!Expired, IInv, Types
<1>2. /\ expiryC \in Nat /\ clock \in Nat /\ expiryC <= clock /\ B!defaultExpiry \in Nat
  BY ExpiryIsLonger DEF IInv, Types
<1> HIDE DEF old
<1>3. \A svc \in departed' : \E k \in old : svc = services[k]
  BY <1>0
<1>4. \A svc \in departed' : svc.seen + B!defaultExpiry <= clock
  <2>1. \A k \in old : services[k].seen + B!defaultExpiry <= clock
    BY <1>1, <1>2
  <2>2. QED
    BY <1>3, <2>1
<1>5. ReportsDated'
  BY <1>0, <1>4 DEF SInv, ReportsDated
<1>6. \A k \in B!Records : /\ Held(k)' => Held(k) /\ k \notin old /\ services'[k] = services[k]
                           /\ Source(k)' <=> Source(k)
                           /\ Registered(k)' <=> Registered(k)
  BY <1>0 DEF Held, Source, Registered
<1>7. \A u \in B!Adders, k \in B!Records : Open(u, k)' <=> Open(u, k)
  BY <1>0 DEF Open
<1>8. \A u \in B!Adders, k \in B!Records : Open(u, k) => services'[k] = services[k] /\ Held(k)
  <2> SUFFICES ASSUME NEW u \in B!Adders, NEW k \in B!Records, Open(u, k)
               PROVE  services'[k] = services[k] /\ Held(k)
    OBVIOUS
  <2>1. /\ services[k] # Nothing /\ adding[u].seen <= services[k].seen
        /\ clock <= adding[u].seen + MaxLag /\ adding[u].seen \in Nat
    BY ServiceTypes DEF Open, IInv, Types, ReportedIsHeld
  <2>2. k \notin old
    BY <1>1, <1>2, <2>1, ExpiryIsLonger
  <2>3. QED
    BY <1>0, <2>1, <2>2 DEF Held
<1> SUFFICES ASSUME NEW k \in B!Records, k.inst \notin shadowed
             PROVE  /\ Covered(k)' /\ MarkSeen(k)' /\ DepartedFirst(k)'
                    /\ \A t \in B!Adders : OpenFresh(t, k)'
                    /\ \A t \in B!Adders, m \in B!Records : InOrder(t, m, k)'
  BY <1>5 DEF SInv
<1>9. /\ Covered(k) /\ MarkSeen(k) /\ DepartedFirst(k)
      /\ \A t \in B!Adders : OpenFresh(t, k)
      /\ \A t \in B!Adders, m \in B!Records : InOrder(t, m, k)
  BY DEF SInv
<1>10. ASSUME Older(k), services'[k] = services[k] PROVE Older(k)'
  <2>1. \A r \in B!Records : r.inst = k.inst /\ Registered(r) /\ Held(r) =>
          services[k].seen <= services[r].seen
    BY <1>10 DEF Older
  <2>2. \A svc \in departed' : svc.inst = k.inst /\ svc.ep = sources[k.inst].src.ep =>
          services[k].seen <= svc.seen
    <3> SUFFICES ASSUME NEW svc \in departed', svc.inst = k.inst,
                        svc.ep = sources[k.inst].src.ep
                 PROVE  services[k].seen <= svc.seen
      OBVIOUS
    <3>1. PICK r \in old : svc = services[r]
      BY <1>3
    <3>2. r \in B!Records /\ r.inst = k.inst /\ Registered(r) /\ Held(r)
      BY <1>1, <1>10, <3>1 DEF Registered, Held, Older, Source
    <3>3. QED
      BY <2>1, <3>1, <3>2
  <2>3. \A r \in B!Records : r.inst = k.inst /\ Registered(r)' /\ Held(r)' =>
          services'[k].seen <= services'[r].seen
    BY <1>6, <1>10, <2>1
  <2>4. QED
    BY <1>6, <1>10, <2>2, <2>3 DEF Older
<1>11. Covered(k)'
  BY <1>6, <1>7, <1>9, <1>10 DEF Covered
<1>12. MarkSeen(k)'
  <2>1. ASSUME NEW svc \in departed', svc.inst = k.inst, svc.ep = k.ep, Registered(k)
        PROVE  sources[k.inst].recordSeen <= svc.seen
    <3>1. PICK r \in old : svc = services[r]
      BY <1>3
    <3>2. r = k
      BY <1>1, <2>1, <3>1 DEF B!Records
    <3>3. QED
      BY <1>1, <1>9, <2>1, <3>1, <3>2 DEF MarkSeen, Held
  <2>2. QED
    BY <1>6, <1>9, <2>1 DEF MarkSeen
<1>13. DepartedFirst(k)'
  <2> SUFFICES ASSUME Held(k)', NEW svc \in departed', svc.inst = k.inst
               PROVE  svc.ep # k.ep /\ svc.seen < services'[k].seen
    BY DEF DepartedFirst
  <2>1. PICK r \in old : svc = services[r]
    BY <1>3
  <2>2. services[k] # Nothing /\ k \notin old /\ services'[k] = services[k]
    BY <1>6 DEF Held
  <2>3. services[r].seen < services[k].seen
    BY <1>1, <1>2, <2>1, <2>2
  <2>4. svc.ep # k.ep
    BY <1>1, <2>1, <2>2 DEF B!Records
  <2>5. QED
    BY <2>1, <2>2, <2>3, <2>4
<1>14. \A t \in B!Adders : OpenFresh(t, k)'
  BY <1>0, <1>6, <1>7, <1>8, <1>9 DEF OpenFresh
<1>15. \A t \in B!Adders, m \in B!Records : InOrder(t, m, k)'
  BY <1>0, <1>6, <1>7, <1>9 DEF InOrder
<1>16. QED
  BY <1>11, <1>12, <1>13, <1>14, <1>15

(* With the source of the departed record goes every record that was not    *)
(* seen later; what is held beside it is still to be registered.            *)
LEMMA CallRetireCovers ==
  ASSUME IInv, SInv, NEW svc \in departed, CallRetire(svc)
  PROVE  SInv'
<1>0. /\ calling' = calling \cup {"loop"} /\ "loop" \notin B!Adders
      /\ UNCHANGED <<services, adding, departed, clock, shadowed>>
  BY DEF CallRetire, browserVars, B!Adders
<1>1. svc \in B!Service /\ svc.inst \in Instances /\ svc.seen \in Nat
  BY ServiceTypes DEF IInv, Types
<1>2. \A u \in B!Adders, k \in B!Records : Open(u, k)' <=> Open(u, k)
  BY <1>0 DEF Open
<1>3. CASE UNCHANGED registryVars
  <2>1. UNCHANGED sources
    BY <1>3 DEF registryVars
  <2>2. ReportsDated'
    BY <1>0, <2>1 DEF SInv, ReportsDated
  <2>3. QED
    BY <1>0, <1>2, <2>1, <2>2, Calm
<1>4. CASE R!Retire("loop", AsService(svc))
  <2>1. /\ sources' = [sources EXCEPT ![svc.inst] = Nothing]
        /\ sources[svc.inst] # Nothing /\ sources[svc.inst].src.ep = svc.ep
    BY <1>4 DEF R!Retire, AsService
  <2>2. \A i \in Instances : sources'[i] = IF i = svc.inst THEN Nothing ELSE sources[i]
    BY <1>1, <2>1 DEF IInv, Types
  <2>3. ReportsDated'
    BY <1>0, <2>2 DEF SInv, ReportsDated
  <2>4. \A k \in B!Records : k.inst \in Instances /\ (Held(k)' <=> Held(k))
    BY <1>0 DEF B!Records, Held
  <2>5. \A k \in B!Records : k.inst = svc.inst => ~Source(k)' /\ ~Registered(k)'
    BY <2>2, <2>4 DEF Source, Registered
  <2>6. \A k \in B!Records : k.inst # svc.inst =>
          /\ sources'[k.inst] = sources[k.inst]
          /\ Source(k)' <=> Source(k)
          /\ Registered(k)' <=> Registered(k)
    BY <2>2, <2>4 DEF Source, Registered
  <2> SUFFICES ASSUME NEW k \in B!Records, k.inst \notin shadowed
               PROVE  /\ Covered(k)' /\ MarkSeen(k)' /\ DepartedFirst(k)'
                      /\ \A t \in B!Adders : OpenFresh(t, k)'
                      /\ \A t \in B!Adders, m \in B!Records : InOrder(t, m, k)'
    BY <1>0, <2>3 DEF SInv
  <2>7. /\ Covered(k) /\ MarkSeen(k) /\ DepartedFirst(k)
        /\ \A t \in B!Adders : OpenFresh(t, k)
        /\ \A t \in B!Adders, m \in B!Records : InOrder(t, m, k)
    BY DEF SInv
  <2>8. DepartedFirst(k)'
    BY <1>0, <2>4, <2>7 DEF DepartedFirst
  <2>9. CASE k.inst # svc.inst
    <3>1. Older(k) => Older(k)'
      BY <1>0, <2>4, <2>6, <2>9 DEF Older
    <3>2. Covered(k)' /\ MarkSeen(k)'
      BY <1>0, <1>2, <2>4, <2>6, <2>7, <2>9, <3>1 DEF Covered, MarkSeen
    <3>3. QED
      BY <1>0, <1>2, <2>4, <2>6, <2>7, <2>8, <2>9, <3>2 DEF OpenFresh, InOrder
  <2>10. CASE k.inst = svc.inst
    <3>1. Held(k) => svc.ep # k.ep /\ svc.seen < services[k].seen /\ services[k].seen \in Nat
      BY <2>7, <2>10, ServiceTypes DEF DepartedFirst, Held, IInv, Types
    <3>2. Held(k) => ~Registered(k) /\ ~Older(k)
      BY <1>1, <2>1, <2>10, <3>1 DEF Registered, Older
    <3>3. Covered(k)' /\ MarkSeen(k)'
      BY <1>2, <2>4, <2>5, <2>7, <2>10, <3>2 DEF Covered, MarkSeen
    <3>4. \A t \in B!Adders : OpenFresh(t, k)'
      BY <2>5, <2>10 DEF OpenFresh
    <3>5. PICK r \in B!Records : r.inst = svc.inst /\ r.ep = svc.ep
      BY <1>1, ServiceTypes
    <3>6. sources[k.inst].recordSeen <= svc.seen /\ sources[k.inst].recordSeen \in Nat
      BY <1>1, <2>1, <2>10, <3>5, MarksAreTimes DEF SInv, MarkSeen, Registered, Source
    <3>7. Held(k) => ~(services[k].seen <= sources[k.inst].recordSeen)
      BY <1>1, <3>1, <3>6
    <3>8. \A t \in B!Adders, m \in B!Records : InOrder(t, m, k)'
      BY <1>0, <1>2, <2>4, <2>7, <3>7 DEF InOrder
    <3>9. QED
      BY <2>8, <3>3, <3>4, <3>8
  <2>11. QED
    BY <2>9, <2>10
<1>5. QED
  BY <1>3, <1>4 DEF CallRetire

(* What Observe does with the report of record m, which it ignores when the *)
(* source's mark is later.                                                  *)
LEMMA ObserveEffect ==
  ASSUME IInv, SInv, NEW t \in B!Adders, CallObserve(t),
         NEW m \in B!Records, m.inst = adding[t].inst, m.ep = adding[t].ep
  PROVE  \/ /\ Source(m) /\ adding[t].disc < sources[m.inst].recordSeen
            /\ UNCHANGED sources
         \/ /\ Source(m) => sources[m.inst].recordSeen <= adding[t].disc
            /\ sources'[m.inst] # Nothing /\ sources'[m.inst] \in R!Entry
            /\ sources'[m.inst].src.ep = m.ep
            /\ sources'[m.inst].recordSeen = adding[t].disc
            /\ \A i \in Instances \ {m.inst} : sources'[i] = sources[i]
<1> DEFINE svc == AsService(adding[t])
<1>0. /\ adding[t] # Nothing
      /\ \/ R!Observe(t, svc)
         \/ R!Stale(svc.disc, sources[svc.inst]) /\ UNCHANGED registryVars
  BY DEF CallObserve
<1>1. svc.inst = m.inst /\ svc.ep = m.ep /\ svc.disc = adding[t].disc /\ m.inst \in Instances
  BY DEF AsService, B!Records
<1>2. adding[t].disc \in Nat \ {0}
  BY <1>0 DEF SInv, ReportsDated
<1>3. CASE R!Stale(svc.disc, sources[svc.inst]) /\ UNCHANGED registryVars
  BY <1>1, <1>3 DEF R!Stale, registryVars, Source
<1>4. CASE R!Observe(t, svc)
  <2> DEFINE next == R!Merge(svc, svc.disc, sources[svc.inst])
  <2>1. /\ ~R!Stale(svc.disc, sources[svc.inst])
        /\ sources' = [sources EXCEPT ![svc.inst] = next]
    BY <1>1, <1>2, <1>4 DEF R!Observe, R!RecordSeen
  <2>2. next.src.ep = svc.ep /\ next.recordSeen = svc.disc /\ next # Nothing /\ next \in R!Entry
    <3>1. next.src.ep = svc.ep /\ next.recordSeen = svc.disc
      BY DEF R!Merge, R!sourceFrom
    <3>2. adding[t].id \in Identities /\ adding[t].ep \in Endpoints /\ svc.id = adding[t].id
      BY <1>0 DEF IInv, Types, B!Service, AsService
    <3>3. svc.disc \in 1 .. MaxTime
      BY <1>0, <1>1, <1>2, DiscoveryAssumption DEF IInv, Types, B!Service
    <3>4. sources[svc.inst] # Nothing => sources[svc.inst].src.disc \in 1 .. MaxTime
      BY <1>1 DEF SInv, ReportsDated, R!Entry, R!Source
    <3>5. next \in R!Entry
      BY <1>1, <3>2, <3>3, <3>4 DEF R!Merge, R!sourceFrom, R!Entry, R!Source
    <3>6. QED
      BY <3>1, <3>5, DiscoveryAssumption
  <2> HIDE DEF next
  <2>3. \A i \in Instances : sources'[i] = IF i = m.inst THEN next ELSE sources[i]
    BY <1>1, <2>1 DEF IInv, Types
  <2>4. Source(m) => sources[m.inst].recordSeen <= adding[t].disc
    BY <1>1, <1>2, <2>1, MarksAreTimes DEF R!Stale, Source
  <2>5. QED
    BY <1>1, <2>2, <2>3, <2>4
<1>5. QED
  BY <1>0, <1>3, <1>4

LEMMA CallObserveCovers ==
  ASSUME IInv, SInv, NEW t \in B!Adders, CallObserve(t)
  PROVE  SInv'
<1>0. /\ adding[t] # Nothing /\ t \notin calling /\ calling' = calling \cup {t}
      /\ UNCHANGED <<services, adding, departed, clock, shadowed>>
  BY DEF CallObserve, browserVars
<1>1. PICK m \in B!Records : m.inst = adding[t].inst /\ m.ep = adding[t].ep
  BY <1>0, ServiceTypes DEF IInv, Types
<1>2. Open(t, m) /\ Held(m) /\ adding[t].disc \in Nat /\ m.inst \in Instances
  BY <1>0, <1>1 DEF Open, Held, IInv, ReportedIsHeld, SInv, ReportsDated, B!Records
<1>3. \A u \in B!Adders, k \in B!Records :
        /\ Open(u, k)' <=> Open(u, k) /\ u # t
        /\ Open(u, k) /\ u = t <=> k = m /\ u = t
  BY <1>0, <1>1, <1>2 DEF Open, B!Records
<1>4. \A k \in B!Records : Held(k)' <=> Held(k)
  BY <1>0 DEF Held
<1>5. \A k \in B!Records : Held(k) => services[k].seen \in Nat
  BY ServiceTypes DEF Held, IInv, Types
<1>6. ASSUME Source(m), adding[t].disc < sources[m.inst].recordSeen, UNCHANGED sources
      PROVE  SInv'
  <2>1. \A k \in B!Records : (Source(k)' <=> Source(k)) /\ (Registered(k)' <=> Registered(k))
    BY <1>6 DEF Source, Registered
  <2>2. ReportsDated'
    BY <1>0, <1>6 DEF SInv, ReportsDated
  <2> SUFFICES ASSUME NEW k \in B!Records, k.inst \notin shadowed
               PROVE  /\ Covered(k)' /\ MarkSeen(k)' /\ DepartedFirst(k)'
                      /\ \A u \in B!Adders : OpenFresh(u, k)'
                      /\ \A u \in B!Adders, n \in B!Records : InOrder(u, n, k)'
    BY <1>0, <2>2 DEF SInv
  <2>3. /\ Covered(k) /\ MarkSeen(k) /\ DepartedFirst(k)
        /\ \A u \in B!Adders : OpenFresh(u, k)
        /\ \A u \in B!Adders, n \in B!Records : InOrder(u, n, k)
    BY DEF SInv
  <2>4. MarkSeen(k)' /\ DepartedFirst(k)' /\ (Older(k) => Older(k)')
    BY <1>0, <1>4, <1>6, <2>1, <2>3 DEF MarkSeen, DepartedFirst, Older
  <2>5. ASSUME k = m PROVE services[k].seen <= sources[k.inst].recordSeen
    <3>1. \/ services[k].seen = adding[t].disc
          \/ services[k].seen <= sources[k.inst].recordSeen
      BY <1>2, <1>6, <2>3, <2>5 DEF OpenFresh
    <3>2. QED
      BY <1>2, <1>5, <1>6, <2>5, <3>1, MarksAreTimes
  <2>6. ASSUME k = m PROVE Older(k)
    <3>1. sources[k.inst].recordSeen \in Nat /\ services[k].seen \in Nat
      BY <1>2, <1>5, <1>6, <2>6, MarksAreTimes
    <3>2. ASSUME NEW r \in B!Records, r.inst = k.inst, Registered(r), Held(r)
          PROVE  services[k].seen <= services[r].seen
      <4>1. sources[k.inst].recordSeen <= services[r].seen
        BY <3>2 DEF SInv, MarkSeen
      <4>2. QED
        BY <1>5, <2>5, <2>6, <3>1, <3>2, <4>1
    <3>3. ASSUME NEW svc \in departed, svc.inst = k.inst, svc.ep = sources[k.inst].src.ep
          PROVE  services[k].seen <= svc.seen
      <4>1. PICK r \in B!Records : r.inst = svc.inst /\ r.ep = svc.ep
        BY ServiceTypes DEF IInv, Types
      <4>2. sources[k.inst].recordSeen <= svc.seen
        BY <1>6, <2>6, <3>3, <4>1 DEF SInv, MarkSeen, Registered, Source
      <4>3. svc.seen \in Nat
        BY ServiceTypes DEF IInv, Types
      <4>4. QED
        BY <2>5, <2>6, <3>1, <4>2, <4>3
    <3>4. QED
      BY <1>6, <2>6, <3>2, <3>3 DEF Older
  <2>7. Covered(k)'
    BY <1>3, <1>4, <2>1, <2>3, <2>4, <2>6 DEF Covered
  <2>8. \A u \in B!Adders : OpenFresh(u, k)'
    BY <1>0, <1>3, <1>6, <2>1, <2>3 DEF OpenFresh
  <2>9. \A u \in B!Adders, n \in B!Records : InOrder(u, n, k)'
    <3> SUFFICES ASSUME NEW u \in B!Adders, NEW n \in B!Records, Open(u, n), Held(k),
                        k.inst = n.inst, k # n
                 PROVE  \/ services[k].seen <= adding[u].disc
                        \/ \E w \in B!Adders : Open(w, k)' /\ services[k].seen = adding[w].disc
                        \/ Source(k) /\ services[k].seen <= sources[k.inst].recordSeen
      BY <1>0, <1>3, <1>4, <1>6, <2>1 DEF InOrder
    <3>1. \/ services[k].seen <= adding[u].disc
          \/ \E w \in B!Adders : Open(w, k) /\ services[k].seen = adding[w].disc
          \/ Source(k) /\ services[k].seen <= sources[k.inst].recordSeen
      BY <2>3 DEF InOrder
    <3>2. QED
      BY <1>3, <1>6, <2>5, <3>1
  <2>10. QED
    BY <2>4, <2>7, <2>8, <2>9
<1>7. ASSUME Source(m) => sources[m.inst].recordSeen <= adding[t].disc,
             sources'[m.inst] # Nothing, sources'[m.inst] \in R!Entry,
             sources'[m.inst].src.ep = m.ep, sources'[m.inst].recordSeen = adding[t].disc,
             \A i \in Instances \ {m.inst} : sources'[i] = sources[i]
      PROVE  SInv'
  <2>1. ReportsDated'
    <3>1. \A i \in Instances : sources'[i] # Nothing => sources'[i] \in R!Entry
      BY <1>7 DEF SInv, ReportsDated
    <3>2. QED
      BY <1>0, <3>1 DEF SInv, ReportsDated
  <2>2. \A k \in B!Records :
          /\ k.inst = m.inst => Source(k)' /\ (Registered(k)' <=> k = m)
          /\ k.inst # m.inst => /\ sources'[k.inst] = sources[k.inst]
                                /\ Source(k)' <=> Source(k)
                                /\ Registered(k)' <=> Registered(k)
    BY <1>7 DEF Source, Registered, B!Records
  <2> SUFFICES ASSUME NEW k \in B!Records, k.inst \notin shadowed
               PROVE  /\ Covered(k)' /\ MarkSeen(k)' /\ DepartedFirst(k)'
                      /\ \A u \in B!Adders : OpenFresh(u, k)'
                      /\ \A u \in B!Adders, n \in B!Records : InOrder(u, n, k)'
    BY <1>0, <2>1 DEF SInv
  <2>3. /\ Covered(k) /\ MarkSeen(k) /\ DepartedFirst(k)
        /\ \A u \in B!Adders : OpenFresh(u, k)
        /\ \A u \in B!Adders, n \in B!Records : InOrder(u, n, k)
    BY DEF SInv
  <2>4. DepartedFirst(k)'
    BY <1>0, <1>4, <2>3 DEF DepartedFirst
  <2>5. CASE k.inst # m.inst
    <3>1. Older(k) => Older(k)'
      BY <1>0, <1>4, <2>2, <2>5 DEF Older
    <3>2. Covered(k)' /\ MarkSeen(k)'
      BY <1>0, <1>3, <1>4, <2>2, <2>3, <2>5, <3>1 DEF Covered, MarkSeen
    <3>3. \A u \in B!Adders : OpenFresh(u, k)'
      BY <1>0, <1>3, <1>4, <2>2, <2>3, <2>5 DEF OpenFresh
    <3>4. \A u \in B!Adders, n \in B!Records : InOrder(u, n, k)'
      BY <1>0, <1>3, <1>4, <2>2, <2>3, <2>5 DEF InOrder
    <3>5. QED
      BY <2>4, <3>2, <3>3, <3>4
  <2>6. CASE k.inst = m.inst
    <3>1. adding[t].disc <= services[m].seen /\ services[m].seen \in Nat
      BY <1>0, <1>1, <1>2, <1>5 DEF IInv, ReportedIsHeld, SInv, ReportsDated
    <3>2. \A svc \in departed : svc.inst = m.inst => svc.ep # m.ep
      BY <1>2, <2>6 DEF SInv, DepartedFirst
    <3>3. MarkSeen(k)'
      BY <1>0, <1>4, <1>7, <2>2, <2>6, <3>1, <3>2 DEF MarkSeen
    <3>4. ASSUME Held(k), k # m, \A u \in B!Adders : Open(u, k) => services[k].seen # adding[u].disc
          PROVE  services[k].seen <= adding[t].disc
      <4>1. \/ services[k].seen <= adding[t].disc
            \/ Source(k) /\ services[k].seen <= sources[k.inst].recordSeen
        BY <1>2, <2>3, <2>6, <3>4 DEF InOrder
      <4>2. QED
        BY <1>2, <1>5, <1>7, <2>6, <3>4, <4>1, MarksAreTimes DEF Source
    <3>5. Covered(k)'
      <4> SUFFICES ASSUME Held(k), k # m, \A u \in B!Adders : ~Open(u, k)
                   PROVE  Older(k)'
        BY <1>3, <1>4, <2>2, <2>6 DEF Covered
      <4>1. services[k].seen <= services[m].seen
        BY <1>2, <1>5, <3>1, <3>4
      <4>2. QED
        BY <1>0, <1>7, <2>2, <2>6, <3>2, <4>1 DEF Older
    <3>6. \A u \in B!Adders : OpenFresh(u, k)'
      <4> SUFFICES ASSUME NEW u \in B!Adders, Open(u, k), u # t
                   PROVE  /\ k # m
                          /\ \/ services[k].seen = adding[u].disc
                             \/ services[k].seen <= adding[t].disc
        BY <1>0, <1>3, <1>7, <2>2, <2>6 DEF OpenFresh
      <4>1. k # m
        BY <1>0, <1>1 DEF Open, SInv, ReportsDated
      <4>2. Held(k)
        BY DEF Open, Held, IInv, ReportedIsHeld
      <4>3. \A w \in B!Adders : Open(w, k) => w = u
        BY DEF Open, SInv, ReportsDated
      <4>4. QED
        BY <3>4, <4>1, <4>2, <4>3
    <3>7. \A u \in B!Adders, n \in B!Records : InOrder(u, n, k)'
      <4> SUFFICES ASSUME NEW u \in B!Adders, NEW n \in B!Records, Open(u, n), u # t, Held(k),
                          k.inst = n.inst, k # n
                   PROVE  \/ services[k].seen <= adding[u].disc
                          \/ \E w \in B!Adders : Open(w, k)' /\ services[k].seen = adding[w].disc
                          \/ services[k].seen <= adding[t].disc
        BY <1>0, <1>3, <1>4, <1>7, <2>2, <2>6 DEF InOrder
      <4>1. \/ services[k].seen <= adding[u].disc
            \/ \E w \in B!Adders : Open(w, k) /\ services[k].seen = adding[w].disc
            \/ Source(k) /\ services[k].seen <= sources[k.inst].recordSeen
        BY <2>3 DEF InOrder
      <4>2. CASE k = m
        <5>1. \A w \in B!Adders : Open(w, k) => w = t
          BY <1>2, <4>2 DEF Open, SInv, ReportsDated
        <5>2. services[k].seen = adding[t].disc => services[k].seen <= adding[t].disc
          BY <1>2
        <5>3. Source(k) /\ services[k].seen <= sources[k.inst].recordSeen =>
                services[k].seen <= adding[t].disc
          BY <1>2, <1>5, <1>7, <4>2, MarksAreTimes
        <5>4. QED
          BY <4>1, <5>1, <5>2, <5>3
      <4>3. CASE k # m
        <5>1. CASE \E w \in B!Adders : Open(w, k) /\ services[k].seen = adding[w].disc
          BY <1>3, <4>3, <5>1
        <5>2. CASE \A w \in B!Adders : Open(w, k) => services[k].seen # adding[w].disc
          BY <3>4, <4>3, <5>2
        <5>3. QED
          BY <5>1, <5>2
      <4>4. QED
        BY <4>2, <4>3
    <3>8. QED
      BY <2>4, <3>3, <3>5, <3>6, <3>7
  <2>7. QED
    BY <2>5, <2>6
<1>8. QED
  BY <1>1, <1>6, <1>7, ObserveEffect

(* A sighting of record k that does not shadow its instance. *)
LEMMA AddServiceCovers ==
  ASSUME IInv, SInv, NEW t \in B!Adders, NEW k \in B!Records, NEW id \in Identities,
         B!Between, adding[t] = Nothing, B!addService(t, k, id),
         shadowed' = IF Shadows(k) THEN shadowed \cup {k.inst} ELSE shadowed,
         UNCHANGED <<departed, sources, calling, clock>>
  PROVE  SInv'
<1> DEFINE svc == [inst |-> k.inst, ep |-> k.ep, id |-> id, seen |-> clock,
                   disc |-> IF services[k] # Nothing THEN services[k].disc ELSE clock]
<1>0. /\ services' = [services EXCEPT ![k] = svc]
      /\ adding' = [adding EXCEPT ![t] = IF services[k] # Nothing THEN Nothing ELSE svc]
  BY DEF B!addService
<1>1. /\ svc.inst = k.inst /\ svc.ep = k.ep /\ svc.seen = clock
      /\ services[k] = Nothing => svc.disc = clock
      /\ svc \in B!Service /\ svc # Nothing
  <2>1. k.inst \in Instances /\ k.ep \in Endpoints
    BY DEF B!Records
  <2>2. services[k] # Nothing => services[k].disc \in 0 .. MaxTime
    BY DEF IInv, Types, B!Service
  <2>3. clock \in 0 .. MaxTime
    BY DiscoveryAssumption DEF IInv, Types
  <2>4. svc \in B!Service
    BY <2>1, <2>2, <2>3 DEF B!Service
  <2>5. QED
    BY <2>4, ServiceTypes
<1> HIDE DEF svc
<1>2. \A r \in B!Records : services'[r] = IF r = k THEN svc ELSE services[r]
  BY <1>0 DEF IInv, Types
<1>3. \A u \in B!Adders : adding'[u] = IF u = t /\ services[k] = Nothing THEN svc ELSE adding[u]
  BY <1>0 DEF IInv, Types
<1>4. /\ clock \in Nat \ {0}
      /\ \A r \in B!Records : Held(r) => services[r].seen \in Nat /\ services[r].seen <= clock
      /\ \A d \in departed : d.seen \in Nat /\ d.seen < clock
  <2>1. clock \in Nat /\ clock # 0
    <3>1. Interval \in Nat \ {0} /\ clock \in Nat
      BY DiscoveryAssumption DEF IInv, Types
    <3>2. 0 % Interval = 0
      BY <3>1
    <3>3. QED
      BY <3>1, <3>2 DEF B!Between
  <2>2. \A r \in B!Records : Held(r) => services[r].seen \in Nat /\ services[r].seen <= clock
    BY ServiceTypes DEF Held, IInv, Types
  <2>3. \A d \in departed : d.seen \in Nat /\ d.seen + B!defaultExpiry <= clock
    BY ServiceTypes DEF IInv, Types, SInv, ReportsDated
  <2>4. QED
    BY <2>1, <2>2, <2>3, ExpiryIsLonger
<1>5. t \notin calling
  BY DEF SInv, ReportsDated
<1>6. services[k] = Nothing => \A u \in B!Adders : ~Open(u, k)
  BY DEF Open, IInv, ReportedIsHeld
<1>7. ReportsDated'
  <2>1. ASSUME services[k] = Nothing, NEW u \in B!Adders, adding[u] # Nothing
        PROVE  ~(adding[u].inst = k.inst /\ adding[u].ep = k.ep)
    BY <2>1 DEF IInv, ReportedIsHeld
  <2>2. \A u, w \in B!Adders :
          /\ adding'[u] # Nothing /\ adding'[w] # Nothing
          /\ adding'[u].inst = adding'[w].inst
          /\ adding'[u].ep = adding'[w].ep
          => u = w
    BY <1>1, <1>3, <2>1 DEF SInv, ReportsDated
  <2>3. \A u \in B!Adders : /\ u \in calling => adding'[u] # Nothing
                            /\ adding'[u] # Nothing => /\ adding'[u].disc = adding'[u].seen
                                                      /\ adding'[u].disc \in Nat \ {0}
    BY <1>1, <1>3, <1>4, <1>5 DEF SInv, ReportsDated
  <2>4. QED
    BY <2>2, <2>3 DEF SInv, ReportsDated
<1>8. \A r \in B!Records : /\ Held(r)' <=> Held(r) \/ r = k
                           /\ Source(r)' <=> Source(r)
                           /\ Registered(r)' <=> Registered(r)
  BY <1>1, <1>2 DEF Held, Source, Registered
<1>9. \A u \in B!Adders, r \in B!Records :
        Open(u, r)' <=> Open(u, r) \/ (u = t /\ r = k /\ services[k] = Nothing)
  BY <1>1, <1>3, <1>5 DEF Open, B!Records
<1>10. \A u \in B!Adders, r \in B!Records : Open(u, r) => adding'[u] = adding[u]
  BY <1>3 DEF Open
<1> SUFFICES ASSUME NEW r \in B!Records, r.inst \notin shadowed'
             PROVE  /\ Covered(r)' /\ MarkSeen(r)' /\ DepartedFirst(r)'
                    /\ \A u \in B!Adders : OpenFresh(u, r)'
                    /\ \A u \in B!Adders, m \in B!Records : InOrder(u, m, r)'
  BY <1>7 DEF SInv
<1>11. /\ Covered(r) /\ MarkSeen(r) /\ DepartedFirst(r)
       /\ \A u \in B!Adders : OpenFresh(u, r)
       /\ \A u \in B!Adders, m \in B!Records : InOrder(u, m, r)
  BY DEF SInv
<1>12. ASSUME r.inst = k.inst
       PROVE  /\ Held(k) /\ Source(k) => Registered(k)
              /\ Held(k) => \A u \in B!Adders : adding[u] # Nothing /\ adding[u].inst = k.inst =>
                              adding[u].ep = k.ep
              /\ \A d \in departed : ~(d.inst = k.inst /\ d.ep = k.ep)
  <2>1. ~Shadows(k)
    BY <1>12
  <2>2. QED
    BY <2>1 DEF Shadows, Held, Source, Registered, B!recordKey, B!Records
<1>13. r.inst = k.inst /\ ~Held(k) => ~Registered(k)
  <2> SUFFICES ASSUME r.inst = k.inst, services[k] = Nothing, Registered(k) PROVE FALSE
    BY DEF Held
  <2>1. Holds(k.inst) \/ Retiring(k.inst)
    BY BackedNow DEF Registered, Source, B!Records
  <2>2. ~Holds(k.inst)
    BY DEF Holds, Registered, B!Records
  <2>3. ~Retiring(k.inst)
    BY <1>12 DEF Retiring, Registered
  <2>4. QED
    BY <2>1, <2>2, <2>3
<1>14. Held(r) /\ Older(r) /\ r # k => Older(r)'
  <2> SUFFICES ASSUME Held(r), Older(r), r # k,
                      NEW n \in B!Records, n.inst = r.inst, Registered(n)', Held(n)'
               PROVE  services'[r].seen <= services'[n].seen
    BY <1>2, <1>8 DEF Older
  <2>1. CASE n = k
    <3>1. Held(k)
      BY <1>8, <1>13, <2>1
    <3>2. services[r].seen <= services[k].seen
      BY <1>8, <2>1, <3>1 DEF Older
    <3>3. QED
      BY <1>1, <1>2, <1>4, <2>1, <3>1, <3>2
  <2>2. CASE n # k
    BY <1>2, <1>8, <2>2 DEF Older
  <2>3. QED
    BY <2>1, <2>2
<1>15. Covered(r)'
  <2>1. CASE r # k
    BY <1>8, <1>9, <1>11, <1>14, <2>1 DEF Covered
  <2>2. CASE r = k /\ services[k] = Nothing
    BY <1>9, <2>2 DEF Covered
  <2>3. CASE r = k /\ services[k] # Nothing
    <3>1. Registered(k) \/ \E u \in B!Adders : Open(u, k)
      BY <1>11, <1>12, <2>3 DEF Covered, Held, Older
    <3>2. QED
      BY <1>8, <1>9, <2>3, <3>1 DEF Covered
  <2>4. QED
    BY <2>1, <2>2, <2>3
<1>16. MarkSeen(r)'
  <2>1. CASE r # k
    BY <1>2, <1>8, <1>11, <2>1 DEF MarkSeen
  <2>2. CASE r = k
    <3>1. Registered(k) => Held(k) /\ sources[k.inst].recordSeen <= services[k].seen
      BY <1>11, <1>13, <2>2 DEF MarkSeen
    <3>2. Registered(k) => sources[k.inst].recordSeen \in Nat
      BY MarksAreTimes DEF Registered
    <3>3. Registered(k) => sources[k.inst].recordSeen <= clock
      BY <1>4, <3>1, <3>2
    <3>4. QED
      BY <1>1, <1>2, <1>8, <1>12, <2>2, <3>3 DEF MarkSeen
  <2>3. QED
    BY <2>1, <2>2
<1>17. DepartedFirst(r)'
  <2>1. CASE r # k
    BY <1>2, <1>8, <1>11, <2>1 DEF DepartedFirst
  <2>2. CASE r = k
    BY <1>1, <1>2, <1>4, <1>12, <2>2 DEF DepartedFirst
  <2>3. QED
    BY <2>1, <2>2
<1>18. \A u \in B!Adders : OpenFresh(u, r)'
  <2>1. CASE r # k
    BY <1>2, <1>8, <1>9, <1>10, <1>11, <2>1 DEF OpenFresh
  <2>2. CASE r = k /\ services[k] = Nothing
    BY <1>1, <1>2, <1>3, <1>6, <1>8, <1>9, <1>13, <2>2 DEF OpenFresh, Held
  <2>3. CASE r = k /\ services[k] # Nothing
    <3>1. \A u \in B!Adders : Open(u, k) => ~Source(k)
      BY <1>11, <1>12, <2>3 DEF OpenFresh, Held
    <3>2. QED
      BY <1>8, <1>9, <2>3, <3>1 DEF OpenFresh, Registered
  <2>4. QED
    BY <2>1, <2>2, <2>3
<1>19. \A u \in B!Adders, m \in B!Records : InOrder(u, m, r)'
  <2> SUFFICES ASSUME NEW u \in B!Adders, NEW m \in B!Records, Open(u, m)', Held(r)',
                      r.inst = m.inst, r # m
               PROVE  \/ services'[r].seen <= adding'[u].disc
                      \/ \E w \in B!Adders : Open(w, r)' /\ services'[r].seen = adding'[w].disc
                      \/ Source(r) /\ services'[r].seen <= sources[r.inst].recordSeen
    BY <1>8 DEF InOrder
  <2>1. CASE r = k /\ services[k] = Nothing
    BY <1>1, <1>2, <1>3, <1>9, <2>1
  <2>2. CASE r = k /\ services[k] # Nothing
    <3>1. Open(u, m)
      BY <1>9, <2>2
    <3>2. m.ep = k.ep
      BY <1>12, <2>2, <3>1 DEF Open, Held
    <3>3. QED
      BY <2>2, <3>2 DEF B!Records
  <2>3. CASE r # k /\ Open(u, m)
    <3>1. \/ services[r].seen <= adding[u].disc
          \/ \E w \in B!Adders : Open(w, r) /\ services[r].seen = adding[w].disc
          \/ Source(r) /\ services[r].seen <= sources[r.inst].recordSeen
      BY <1>8, <1>11, <2>3 DEF InOrder
    <3>2. QED
      BY <1>2, <1>9, <1>10, <2>3, <3>1
  <2>4. CASE r # k /\ u = t /\ m = k /\ services[k] = Nothing
    BY <1>1, <1>2, <1>3, <1>4, <1>8, <2>4
  <2>5. QED
    BY <1>9, <2>1, <2>2, <2>3, <2>4
<1>20. QED
  BY <1>15, <1>16, <1>17, <1>18, <1>19

LEMMA SightCovers ==
  ASSUME IInv, SInv, NEW k \in B!Records, Sight(k)
  PROVE  SInv'
<1>0. /\ UNCHANGED <<sources, calling>>
      /\ shadowed' = IF Shadows(k) THEN shadowed \cup {k.inst} ELSE shadowed
  BY DEF Sight, registryVars
<1>1. CASE B!BrowseEntry(k)
  <2>1. "browse" \in B!Adders /\ net[k] \in Identities
    BY <1>1 DEF B!BrowseEntry, B!Adders, IInv, Types
  <2>2. UNCHANGED <<departed, clock>> /\ B!Between
    BY <1>1 DEF B!BrowseEntry, B!loopVars
  <2>3. QED
    BY <1>0, <1>1, <2>1, <2>2, AddServiceCovers DEF B!BrowseEntry
<1>2. CASE B!RefreshEntry(k)
  <2>1. "refresh" \in B!Adders /\ net[k] \in Identities
    BY <1>2 DEF B!RefreshEntry, B!Adders, IInv, Types
  <2>2. UNCHANGED <<departed, clock>> /\ B!Between
    BY <1>2 DEF B!RefreshEntry
  <2>3. QED
    BY <1>0, <1>2, <2>1, <2>2, AddServiceCovers DEF B!RefreshEntry
<1>3. ASSUME NEW id \in Identities, B!Add(k, id) PROVE SInv'
  <2>1. "main" \in B!Adders
    BY DEF B!Adders
  <2>2. UNCHANGED <<departed, clock>> /\ B!Between
    BY <1>3 DEF B!Add, B!loopVars
  <2>3. QED
    BY <1>0, <1>3, <2>1, <2>2, AddServiceCovers DEF B!Add
<1>4. QED
  BY <1>1, <1>2, <1>3 DEF Sight

LEMMA BrowserStepCovers ==
  ASSUME IInv, SInv, BrowserStep
  PROVE  SInv'
<1>0. UNCHANGED <<sources, calling, shadowed>>
  BY DEF BrowserStep, registryVars
<1>1. ASSUME NEW k \in B!Records,
             B!Withdraw(k) \/ \E id \in Identities : B!Advertise(k, id)
      PROVE  SInv'
  <2>1. UNCHANGED <<services, adding, departed, clock>>
    BY <1>1 DEF B!Withdraw, B!Advertise, B!loopVars
  <2>2. QED
    BY <1>0, <2>1, StillCovers
<1>2. CASE B!TakeRefresh \/ B!RefreshDone \/ B!Cancel \/ B!Stop \/ B!Exited
  <2>1. UNCHANGED <<services, adding, departed, clock>>
    BY <1>2 DEF B!TakeRefresh, B!RefreshDone, B!Cancel, B!Stop, B!Exited, B!vars, B!loopVars
  <2>2. QED
    BY <1>0, <2>1, StillCovers
<1>3. CASE B!Tick
  <2>1. UNCHANGED <<services, adding, departed>> /\ clock' = clock + 1
    BY <1>3 DEF B!Tick, B!loopVars
  <2>2. QED
    BY <1>0, <2>1, StillCovers
<1>4. QED
  BY <1>0, <1>1, <1>2, <1>3, TakeExpiryCovers DEF BrowserStep

LEMMA CoverInductive == IInv /\ SInv /\ [Next]_vars => SInv'
<1> SUFFICES ASSUME IInv, SInv, [Next]_vars PROVE SInv'
  OBVIOUS
<1>1. ASSUME UNCHANGED <<browserVars, sources, calling, shadowed>> PROVE SInv'
  <2>1. UNCHANGED <<services, adding, departed, clock>>
    BY <1>1 DEF browserVars
  <2>2. QED
    BY <1>1, <2>1, StillCovers
<1>2. CASE Watch
  BY <1>1, <1>2 DEF Watch, R!SubscribeCall
<1>3. ASSUME NEW t \in Goroutines, RegistryStep(t) PROVE SInv'
  BY <1>1, <1>3 DEF RegistryStep, R!Step, R!PublishLock, R!Deliver, R!PublishDone, R!Replay,
                    R!SubscribeStart, R!SubscribeDone
<1>4. CASE UNCHANGED vars
  BY <1>1, <1>4 DEF vars, registryVars
<1>5. QED
  BY <1>2, <1>3, <1>4, SightCovers, CallObserveCovers, ObserveReturnsCovers, CallRetireCovers,
     RetireReturnsCovers, BrowserStepCovers DEF Next

LEMMA CoverInit == Init => SInv
<1> SUFFICES ASSUME Init PROVE SInv
  OBVIOUS
<1>1. /\ \A k \in B!Records : ~Held(k) /\ ~Source(k) /\ ~Registered(k)
      /\ \A t \in B!Adders : adding[t] = Nothing
      /\ \A t \in B!Adders, k \in B!Records : ~Open(t, k)
      /\ departed = {} /\ calling = {} /\ \A i \in Instances : sources[i] = Nothing
  BY DEF Init, B!Init, R!Init, Held, Source, Registered, Open, B!Records
<1>2. ReportsDated
  BY <1>1 DEF ReportsDated
<1>3. QED
  BY <1>1, <1>2 DEF SInv, Covered, MarkSeen, DepartedFirst, OpenFresh, InOrder

(* "Every `_smoke-alarm._tcp` record becomes a live channel source": once   *)
(* nothing is under way, an instance with a held record has a channel,      *)
(* unless a sighting was shadowed (addService, expire, Observe, Retire).    *)
THEOREM HeldRecordsHaveSources == Spec => []HeldRecordHasSourceUnlessShadowed
<1>1. SInv => HeldRecordHasSourceUnlessShadowed
  <2> SUFFICES ASSUME SInv, NEW i \in Instances \ shadowed, Settled(i),
                      NEW k \in B!Records, k.inst = i, services[k] # Nothing
               PROVE  sources[i] # Nothing
    BY DEF HeldRecordHasSourceUnlessShadowed, HeldRecords
  <2>1. \A t \in B!Adders : ~Open(t, k)
    BY DEF Settled, Open
  <2>2. QED
    BY <2>1 DEF SInv, Covered, Held, Registered, Older, Source
<1>2. QED
  BY <1>1, Invariance, CoverInit, CoverInductive, PTL DEF Spec

-----------------------------------------------------------------------------
(* In cmdServe the browser behaves as Browser says: waiting for the         *)
(* registry inside a callback only makes the callback last.                 *)
THEOREM ImplementsBrowser == Spec => B!Spec
<1>1. Init => B!Init
  BY DEF Init
<1>2. [Next]_vars => [B!Next]_(B!vars)
  <2> SUFFICES ASSUME [Next]_vars PROVE B!Next \/ UNCHANGED B!vars
    BY DEF B!Next, B!vars
  <2>1. ASSUME UNCHANGED browserVars PROVE UNCHANGED B!vars
    BY <2>1 DEF browserVars, B!vars
  <2>2. CASE Watch
    BY <2>1, <2>2 DEF Watch
  <2>3. ASSUME NEW k \in B!Records, Sight(k) PROVE B!Next
    BY <2>3 DEF Sight, B!Next
  <2>4. ASSUME NEW t \in B!Adders, CallObserve(t) \/ ObserveReturns(t)
        PROVE  B!Next \/ UNCHANGED B!vars
    BY <2>1, <2>4 DEF CallObserve, ObserveReturns, B!Next
  <2>5. ASSUME NEW svc \in departed, CallRetire(svc) \/ RetireReturns(svc)
        PROVE  B!Next \/ UNCHANGED B!vars
    BY <2>1, <2>5 DEF CallRetire, RetireReturns, B!Next
  <2>6. ASSUME NEW t \in Goroutines, RegistryStep(t) PROVE UNCHANGED B!vars
    BY <2>1, <2>6 DEF RegistryStep
  <2>7. CASE BrowserStep
    BY <2>7 DEF BrowserStep, B!Next
  <2>8. CASE UNCHANGED vars
    BY <2>1, <2>8 DEF vars
  <2>9. QED
    BY <2>2, <2>3, <2>4, <2>5, <2>6, <2>7, <2>8 DEF Next
<1>3. QED
  BY <1>1, <1>2, PTL DEF Spec, B!Spec

(* In cmdServe the registry is called as Registry allows: what the browser  *)
(* reports are services of known instances, observed and retired by         *)
(* goroutines that are not inside the registry already.                     *)
THEOREM ImplementsRegistry == Spec => R!Spec
<1>1. Init => R!Init
  BY DEF Init
<1>2. IInv /\ [Next]_vars => [R!Next]_(R!vars)
  <2> SUFFICES ASSUME IInv, [Next]_vars PROVE R!Next \/ UNCHANGED R!vars
    BY DEF R!Next, R!vars
  <2>1. ASSUME UNCHANGED registryVars PROVE UNCHANGED R!vars
    BY <2>1 DEF registryVars, R!vars
  <2>2. B!Adders \subseteq Goroutines /\ "loop" \in Goroutines /\ "main" \in Goroutines
    BY DEF B!Adders, Goroutines
  <2>3. \A svc \in B!Service : AsService(svc) \in R!Service
    BY DiscoveryAssumption DEF B!Service, R!Service, R!ServiceTypes, AsService
  <2>4. CASE Watch
    BY <2>2, <2>4 DEF Watch, R!Next, R!Call
  <2>5. ASSUME NEW k \in B!Records, Sight(k) PROVE UNCHANGED R!vars
    BY <2>1, <2>5 DEF Sight
  <2>6. ASSUME NEW t \in B!Adders, CallObserve(t) \/ ObserveReturns(t)
        PROVE  R!Next \/ UNCHANGED R!vars
    <3>1. CASE ObserveReturns(t)
      BY <2>1, <3>1 DEF ObserveReturns
    <3>2. CASE CallObserve(t)
      <4>1. AsService(adding[t]) \in R!Service
        BY <2>3, <3>2 DEF CallObserve, IInv, Types
      <4>2. QED
        BY <2>1, <2>2, <3>2, <4>1 DEF CallObserve, R!Next, R!Call
    <3>3. QED
      BY <2>6, <3>1, <3>2
  <2>7. ASSUME NEW svc \in departed, CallRetire(svc) \/ RetireReturns(svc)
        PROVE  R!Next \/ UNCHANGED R!vars
    <3>1. AsService(svc) \in R!Service
      BY <2>3 DEF IInv, Types
    <3>2. QED
      BY <2>1, <2>2, <2>7, <3>1 DEF CallRetire, RetireReturns, R!Next, R!Call
  <2>8. ASSUME NEW t \in Goroutines, RegistryStep(t) PROVE R!Next
    BY <2>8 DEF RegistryStep, R!Next
  <2>9. CASE BrowserStep
    BY <2>1, <2>9 DEF BrowserStep
  <2>10. CASE UNCHANGED vars
    BY <2>1, <2>10 DEF vars
  <2>11. QED
    BY <2>4, <2>5, <2>6, <2>7, <2>8, <2>9, <2>10 DEF Next
<1>3. QED
  BY <1>1, <1>2, Invariance, PTL DEF Spec, R!Spec

(* The theorems about the two parts by themselves. *)
BP == INSTANCE BrowserProofs
RP == INSTANCE RegistryProofs WITH Callers <- Goroutines, Times <- 1 .. MaxTime,
                                   MaxSubs <- TV, None <- Nothing

(* The theorems stated of one instance of Browser or Registry hold of the   *)
(* other, whose definitions are the same.                                   *)
LEMMA SameBrowser == B!Spec => BP!Spec
<1>1. B!Init => BP!Init
  BY DEF B!Init, BP!Init, B!Records, BP!Records, B!Adders, BP!Adders
<1>2. [B!Next]_(B!vars) => [BP!Next]_(BP!vars)
  BY DEF B!Next, BP!Next, B!vars, BP!vars, B!Records, BP!Records, B!Adders, BP!Adders,
         B!Advertise, BP!Advertise, B!Withdraw, BP!Withdraw, B!BrowseEntry, BP!BrowseEntry,
         B!RefreshEntry, BP!RefreshEntry, B!Add, BP!Add, B!OnChange, BP!OnChange,
         B!TakeRefresh, BP!TakeRefresh, B!RefreshDone, BP!RefreshDone, B!TakeExpiry,
         BP!TakeExpiry, B!OnRemove, BP!OnRemove, B!Cancel, BP!Cancel, B!Stop, BP!Stop,
         B!Exited, BP!Exited, B!Tick, BP!Tick, B!addService, BP!addService, B!Expired,
         BP!Expired, B!recordKey, BP!recordKey, B!KeyBefore, BP!KeyBefore, B!Between,
         BP!Between, B!defaultExpiry, BP!defaultExpiry, B!expiryAgeCheck, BP!expiryAgeCheck,
         B!Max, BP!Max, B!loopVars, BP!loopVars, B!tickers, BP!tickers, B!history, BP!history
<1>3. QED
  BY <1>1, <1>2, PTL DEF B!Spec, BP!Spec

LEMMA SameCardinality == \A S : B!Cardinality(S) = BP!Cardinality(S)
BY Zenon DEF B!Cardinality, BP!Cardinality

LEMMA BrowserApplies == B!Spec => []B!ReportedOnce
<1>1. BP!Spec => []BP!ReportedOnce
  BY DiscoveryAssumption, BP!CallbacksBalance
     DEF B!Records, BP!Records, B!Service, BP!Service
<1>2. BP!ReportedOnce => B!ReportedOnce
  BY SameCardinality DEF BP!ReportedOnce, B!ReportedOnce, B!Records, BP!Records, B!Adders,
         BP!Adders, B!recordKey, BP!recordKey
<1>3. QED
  BY <1>1, <1>2, SameBrowser, PTL

(* The bounds on time, when the loop of the browser keeps up. *)
LEMMA BrowserAppliesInTime ==
  ASSUME B!KeepsUp
  PROVE  /\ B!Spec => []B!DetectionBounded /\ []B!DepartureBounded
         /\ B!LongestUnseen \in Nat
<1>1. BP!KeepsUp
  BY SameCardinality DEF B!KeepsUp, BP!KeepsUp, B!Records, BP!Records, B!IsFiniteSet,
         BP!IsFiniteSet
<1>2. BP!Spec => []BP!DetectionBounded
  BY <1>1, DiscoveryAssumption, BP!DetectionInTime
     DEF B!Records, BP!Records, B!Service, BP!Service
<1>3. BP!Spec => []BP!DepartureBounded
  BY <1>1, DiscoveryAssumption, BP!DepartureInTime
     DEF B!Records, BP!Records, B!Service, BP!Service
<1>4. B!LongestUnseen = BP!LongestUnseen
  BY SameCardinality DEF B!LongestUnseen, BP!LongestUnseen, B!Records, BP!Records,
         B!defaultExpiry, BP!defaultExpiry, B!expiryAgeCheck, BP!expiryAgeCheck, B!Max, BP!Max
<1>5. BP!DetectionBounded => B!DetectionBounded
  BY <1>4 DEF BP!DetectionBounded, B!DetectionBounded, B!Records, BP!Records
<1>6. BP!DepartureBounded => B!DepartureBounded
  BY <1>4 DEF BP!DepartureBounded, B!DepartureBounded
<1>7. B!Spec => []B!DetectionBounded /\ []B!DepartureBounded
  BY <1>2, <1>3, <1>5, <1>6, SameBrowser, PTL
<1>8. BP!LongestUnseen \in Nat
  <2>1. /\ BP!defaultExpiry \in Nat /\ BP!expiryAgeCheck \in Nat /\ Window \in Nat
        /\ BP!ExpireTime \in Nat
    BY <1>1, DiscoveryAssumption, BP!Costs, BP!Periods
       DEF B!Records, BP!Records, B!Service, BP!Service
  <2>2. BP!LongestUnseen = BP!defaultExpiry + BP!expiryAgeCheck + Window + BP!ExpireTime
    BY DEF BP!LongestUnseen, BP!ExpireTime
  <2>3. QED
    BY <2>1, <2>2
<1>9. QED
  BY <1>4, <1>7, <1>8

LEMMA SameRegistry == R!Spec => RP!Spec
<1>1. R!Init => RP!Init
  BY DEF R!Init, RP!Init, R!SubIds, RP!SubIds
<1>2. \A c : R!SubscribeCall(c) <=> RP!SubscribeCall(c)
  BY Zenon DEF R!SubscribeCall, RP!SubscribeCall, R!Cardinality, RP!Cardinality
<1>3. \A c : R!Step(c) <=> RP!Step(c)
  BY DEF R!Step, RP!Step, R!PublishLock, RP!PublishLock, R!Deliver, RP!Deliver,
         R!PublishDone, RP!PublishDone, R!SubscribeStart, RP!SubscribeStart, R!Replay,
         RP!Replay, R!SubscribeDone, RP!SubscribeDone, R!Told, RP!Told, R!Get, RP!Get,
         R!SubIds, RP!SubIds
<1>4. \A c : R!Call(c) <=> RP!Call(c)
  BY <1>2
  DEF R!Call, RP!Call, R!Observe, RP!Observe, R!Retire, RP!Retire, R!Unsubscribe,
      RP!Unsubscribe, R!Announce, RP!Announce, R!PendingOn, RP!PendingOn, R!Announcing,
      RP!Announcing, R!Merge, RP!Merge, R!sourceFrom, RP!sourceFrom, R!Changed,
      RP!Changed, R!Stale, RP!Stale, R!RecordSeen, RP!RecordSeen, R!Service, RP!Service,
      R!ServiceTypes, RP!ServiceTypes, R!SmokeAlarm, RP!SmokeAlarm, R!SubIds, RP!SubIds
<1>5. [R!Next]_(R!vars) => [RP!Next]_(RP!vars)
  BY <1>3, <1>4 DEF R!Next, RP!Next, R!vars, RP!vars
<1>6. QED
  BY <1>1, <1>5, PTL DEF R!Spec, RP!Spec

LEMMA RegistryApplies == R!Spec => []R!DeliverySerialized /\ []R!MirrorsConverge
<1>1. /\ Instances \subseteq Nat \ {0} /\ 1 .. MaxTime \subseteq Nat \ {0} /\ TV \in Nat
      /\ Nothing \notin RP!Source /\ Nothing \notin RP!Entry /\ Nothing \notin RP!Event
      /\ Free \notin Goroutines
  BY DiscoveryAssumption
     DEF TV, RP!Source, RP!Entry, RP!Event, R!Source, R!Entry, R!Event
<1>2. RP!Spec => []RP!DeliverySerialized
  BY <1>1, RP!Serialized
<1>3. RP!Spec => []RP!MirrorsConverge
  BY <1>1, RP!Convergence
<1>4. RP!DeliverySerialized => R!DeliverySerialized
  BY DEF RP!DeliverySerialized, R!DeliverySerialized
<1>5. RP!MirrorsConverge => R!MirrorsConverge
  BY DEF RP!MirrorsConverge, R!MirrorsConverge, RP!ToldLater, R!ToldLater, RP!PendingOn,
         R!PendingOn, RP!Announcing, R!Announcing, RP!Get, R!Get, RP!SubIds, R!SubIds
<1>6. QED
  BY <1>2, <1>3, <1>4, <1>5, SameRegistry, PTL

(* In cmdServe as a whole the browser's callbacks pair up, the TV writer is *)
(* never called twice at once, and once it has been told everything about   *)
(* an instance it knows the registered source, unless changes overlapped.   *)
THEOREM PartsHold == Spec => []B!ReportedOnce /\ []R!DeliverySerialized /\ []R!MirrorsConverge
BY ImplementsBrowser, ImplementsRegistry, BrowserApplies, RegistryApplies, PTL

(* "Every `_smoke-alarm._tcp` record becomes a live channel source" lasts   *)
(* no longer than the record: in cmdServe as a whole, from the last answer  *)
(* of an alarm to the end of its channel no more time passes than the       *)
(* expiry, one check period, a refresh and the callbacks of one expiry take *)
(* (Start, expire, Retire), as long as the loop keeps up with its tickers.  *)
THEOREM ChannelsEndInTime == ASSUME B!KeepsUp PROVE Spec => []ChannelsDieInTime
<1>1. B!Spec => []B!DetectionBounded /\ []B!DepartureBounded
  BY BrowserAppliesInTime
<1>2. IInv /\ B!DetectionBounded /\ B!DepartureBounded => ChannelsDieInTime
  <2> SUFFICES ASSUME IInv, B!DetectionBounded, B!DepartureBounded, ~ctxDone,
                      NEW i \in Instances, sources[i] # Nothing
               PROVE  \E svc \in Backing(i) : clock <= svc.seen + B!LongestUnseen + MaxLag
    BY DEF ChannelsDieInTime
  <2>1. PICK svc \in Backing(i) : TRUE
    BY DEF IInv, SourcesAreBacked
  <2>2. CASE svc \in departed
    BY <2>1, <2>2 DEF B!DepartureBounded
  <2>3. CASE svc \notin departed
    <3>1. PICK k \in B!Records : svc = services[k] /\ services[k] # Nothing
      BY <2>1, <2>3 DEF Backing
    <3>2. clock <= svc.seen + B!LongestUnseen
      BY <3>1 DEF B!DetectionBounded
    <3>3. svc.seen \in Nat /\ clock \in Nat /\ B!LongestUnseen \in Nat /\ MaxLag \in Nat
      BY <3>1, DiscoveryAssumption, BrowserAppliesInTime DEF IInv, Types, B!Service
    <3>4. QED
      BY <2>1, <3>2, <3>3
  <2>4. QED
    BY <2>2, <2>3
<1>3. QED
  BY <1>1, <1>2, Invariance, ImplementsBrowser, PTL

-----------------------------------------------------------------------------
(***************************************************************************)
(* The cable directory by itself, for every set of names, presets and      *)
(* addresses.  Nothing is assumed of ChannelFile: which names share a file *)
(* is part of the statements (OwnsFile).                                   *)
(***************************************************************************)

(* A write or removal under one name touches the file of that name only. *)
LEMMA FileNames == \A n \in Names \cup Presets : ChannelFile(n) \in Files
BY DEF Files

(* Every file is one this package wrote, and only an instance with an event *)
(* in this process can have a failed operation (WriteChannel, Retired).     *)
THEOREM CableTypeCorrect == CableSpec => []TypeOK
<1>1. CableInit => TypeOK
  BY DEF CableInit, TypeOK, Contents
<1>2. TypeOK /\ [CableNext]_cableVars => TypeOK'
  <2> SUFFICES ASSUME TypeOK, [CableNext]_cableVars PROVE TypeOK'
    OBVIOUS
  <2>1. ASSUME NEW n \in Names, NEW e \in Addresses, Announced(n, e) PROVE TypeOK'
    <3>1. DiscoveredTOML(n, e) \in Contents /\ Truncated \in Contents
      BY DEF Contents
    <3>2. files[ChannelFile(n)] \in Contents
      BY FileNames DEF TypeOK
    <3>3. files' \in [Files -> Contents]
      BY <2>1, <3>1, <3>2 DEF Announced, WriteChannel, WriteFails, TypeOK
    <3>4. live' \in [Names -> Addresses \cup {None}]
      BY <2>1 DEF Announced, TypeOK
    <3>5. known' \subseteq Names /\ failed' \subseteq known'
      BY <2>1 DEF Announced, TypeOK
    <3>6. QED
      BY <3>3, <3>4, <3>5 DEF TypeOK
  <2>2. ASSUME NEW n \in Names, Retired(n) PROVE TypeOK'
    <3>1. None \in Contents
      BY DEF Contents
    <3>2. files' \in [Files -> Contents]
      BY <2>2, <3>1 DEF Retired, RemoveChannel, TypeOK
    <3>3. QED
      BY <2>2, <3>2 DEF Retired, TypeOK
  <2>3. ASSUME NEW p \in Presets, WritePreset(p) PROVE TypeOK'
    <3>1. PresetTOML(p) \in Contents
      BY DEF Contents
    <3>2. QED
      BY <2>3, <3>1 DEF WritePreset, WriteChannel, TypeOK
  <2>4. CASE Restart
    BY <2>4 DEF Restart, TypeOK
  <2>5. CASE UNCHANGED cableVars
    BY <2>5 DEF cableVars, TypeOK
  <2>6. QED
    BY <2>1, <2>2, <2>3, <2>4, <2>5 DEF CableNext
<1>3. QED
  BY <1>1, <1>2, PTL DEF CableSpec

(* The file of an instance with a file of its own is there exactly while    *)
(* its source is, and points where the source is (WatchDiscovered).         *)
THEOREM FilesFollowSources == CableSpec => []FileFollowsSource
<1>1. CableInit => FileFollowsSource
  BY DEF CableInit, FileFollowsSource
<1>2. TypeOK /\ FileFollowsSource /\ [CableNext]_cableVars => FileFollowsSource'
  <2> SUFFICES ASSUME TypeOK, FileFollowsSource, [CableNext]_cableVars,
                      NEW n \in known', n \notin failed', n \notin Presets, OwnsFile(n)
               PROVE  files'[ChannelFile(n)] = IF live'[n] = None THEN None
                                               ELSE DiscoveredTOML(n, live'[n])
    BY DEF FileFollowsSource, OwnsFile
  <2>1. ASSUME NEW m \in Names, NEW e \in Addresses, Announced(m, e)
        PROVE  files'[ChannelFile(n)] = IF live'[n] = None THEN None
                                        ELSE DiscoveredTOML(n, live'[n])
    <3>0. n \in Names
      BY <2>1 DEF Announced, TypeOK
    <3>1. CASE m = n
      <4>1. files' = [files EXCEPT ![ChannelFile(n)] = DiscoveredTOML(n, e)]
        BY <2>1, <3>1 DEF Announced, WriteChannel
      <4>2. live'[n] = e /\ e # None
        BY <2>1, <3>0, <3>1, NoneNotAddress DEF Announced, TypeOK
      <4>3. QED
        BY <4>1, <4>2, <3>0, FileNames DEF TypeOK
    <3>2. CASE m # n
      <4>1. ChannelFile(m) # ChannelFile(n)
        BY <3>2 DEF OwnsFile
      <4>2. files'[ChannelFile(n)] = files[ChannelFile(n)]
        BY <2>1, <4>1, <3>0, FileNames DEF Announced, WriteChannel, WriteFails, TypeOK
      <4>3. n \in known /\ n \notin failed /\ live'[n] = live[n]
        BY <2>1, <3>0, <3>2 DEF Announced, TypeOK
      <4>4. QED
        BY <4>2, <4>3 DEF FileFollowsSource
    <3>3. QED
      BY <3>1, <3>2
  <2>2. ASSUME NEW m \in Names, Retired(m)
        PROVE  files'[ChannelFile(n)] = IF live'[n] = None THEN None
                                        ELSE DiscoveredTOML(n, live'[n])
    <3>0. n \in Names
      BY <2>2 DEF Retired, TypeOK
    <3>1. CASE m = n
      <4>1. files' = [files EXCEPT ![ChannelFile(n)] = None] /\ live'[n] = None
        BY <2>2, <3>0, <3>1 DEF Retired, RemoveChannel, TypeOK
      <4>2. QED
        BY <4>1, <3>0, FileNames DEF TypeOK
    <3>2. CASE m # n
      <4>1. ChannelFile(m) # ChannelFile(n)
        BY <3>2 DEF OwnsFile
      <4>2. files'[ChannelFile(n)] = files[ChannelFile(n)]
        BY <2>2, <4>1, <3>0, FileNames DEF Retired, RemoveChannel, TypeOK
      <4>3. n \in known /\ n \notin failed /\ live'[n] = live[n]
        BY <2>2, <3>0, <3>2 DEF Retired, TypeOK
      <4>4. QED
        BY <4>2, <4>3 DEF FileFollowsSource
    <3>3. QED
      BY <3>1, <3>2
  <2>3. ASSUME NEW p \in Presets, WritePreset(p)
        PROVE  files'[ChannelFile(n)] = IF live'[n] = None THEN None
                                        ELSE DiscoveredTOML(n, live'[n])
    <3>1. n \in Names /\ n \in known /\ n \notin failed /\ live' = live
      BY <2>3 DEF WritePreset, TypeOK
    <3>2. ChannelFile(p) # ChannelFile(n)
      BY DEF OwnsFile
    <3>3. files'[ChannelFile(n)] = files[ChannelFile(n)]
      BY <2>3, <3>1, <3>2, FileNames DEF WritePreset, WriteChannel, TypeOK
    <3>4. QED
      BY <3>1, <3>3 DEF FileFollowsSource
  <2>4. CASE Restart
    BY <2>4 DEF Restart
  <2>5. CASE UNCHANGED cableVars
    BY <2>5 DEF cableVars, FileFollowsSource
  <2>6. QED
    BY <2>1, <2>2, <2>3, <2>4, <2>5 DEF CableNext
<1>3. QED
  BY <1>1, <1>2, CableTypeCorrect, PTL DEF CableSpec

(* What GenerateTOML writes tells channels and kinds of channel apart. *)
LEMMA TOMLsDiffer ==
  ASSUME NEW n \in Names, NEW e \in Addresses
  PROVE  /\ \A m \in Names, d \in Addresses :
              DiscoveredTOML(m, d) = DiscoveredTOML(n, e) => m = n /\ d = e
         /\ \A p \in Presets : PresetTOML(p) # DiscoveredTOML(n, e)
         /\ Truncated # DiscoveredTOML(n, e)
         /\ None # DiscoveredTOML(n, e)
<1>1. ASSUME NEW m \in Names, NEW d \in Addresses, DiscoveredTOML(m, d) = DiscoveredTOML(n, e)
      PROVE  m = n /\ d = e
  <2>1. DiscoveredTOML(m, d).name = m /\ DiscoveredTOML(n, e).name = n
    BY DEF DiscoveredTOML
  <2>2. DiscoveredTOML(m, d).ep = d /\ DiscoveredTOML(n, e).ep = e
    BY DEF DiscoveredTOML
  <2>3. QED
    BY <1>1, <2>1, <2>2
<1>2. DiscoveredTOML(n, e).kind = "discovered" /\ Truncated.kind = "truncated"
  BY DEF DiscoveredTOML, Truncated
<1>3. \A p \in Presets : PresetTOML(p).kind = "preset"
  BY DEF PresetTOML
<1>4. QED
  BY <1>1, <1>2, <1>3, NoneNotTOML

(* No file points to a source that this process knows to have left or       *)
(* moved, however many names share it (ChannelFile, WatchDiscovered).       *)
THEOREM FilesNeverOutliveSources == CableSpec => []NoFileOutlivesSource
<1> DEFINE Inv == \A f \in Files, n \in Names, e \in Addresses :
                    files[f] = DiscoveredTOML(n, e) =>
                      /\ f = ChannelFile(n) /\ n \notin Presets
                      /\ n \in known \ failed => live[n] = e
<1>1. CableInit => Inv
  BY TOMLsDiffer DEF CableInit
<1>2. TypeOK /\ Inv /\ [CableNext]_cableVars => Inv'
  <2> SUFFICES ASSUME TypeOK, Inv, [CableNext]_cableVars,
                      NEW f \in Files, NEW n \in Names, NEW e \in Addresses,
                      files'[f] = DiscoveredTOML(n, e)
               PROVE  /\ f = ChannelFile(n) /\ n \notin Presets
                      /\ n \in known' \ failed' => live'[n] = e
    OBVIOUS
  <2>0. files[f] = DiscoveredTOML(n, e) =>
          /\ f = ChannelFile(n) /\ n \notin Presets
          /\ n \in known \ failed => live[n] = e
    OBVIOUS
  <2>1. ASSUME NEW m \in Names, NEW d \in Addresses, Announced(m, d)
        PROVE  /\ f = ChannelFile(n) /\ n \notin Presets
               /\ n \in known' \ failed' => live'[n] = e
    <3>1. CASE files'[f] = files[f] /\ m # n
      <4>1. live'[n] = live[n] /\ (n \in known' \ failed' => n \in known \ failed)
        BY <2>1, <3>1 DEF Announced, TypeOK
      <4>2. QED
        BY <2>0, <3>1, <4>1
    <3>2. CASE files'[f] = files[f] /\ m = n
      <4>1. f = ChannelFile(n) /\ n \notin Presets
        BY <2>0, <3>2
      <4>2. CASE n \in failed'
        BY <4>1, <4>2
      <4>3. CASE n \notin failed'
        <5>1. files' = [files EXCEPT ![ChannelFile(n)] = DiscoveredTOML(n, d)]
          BY <2>1, <3>2, <4>1, <4>3 DEF Announced, WriteChannel
        <5>2. d = e
          BY <4>1, <5>1, TOMLsDiffer DEF TypeOK
        <5>3. QED
          BY <2>1, <3>2, <4>1, <5>2 DEF Announced, TypeOK
      <4>4. QED
        BY <4>1, <4>2, <4>3
    <3>3. CASE files'[f] # files[f]
      <4>1. f = ChannelFile(m) /\ m \notin Presets /\ files'[f] = DiscoveredTOML(m, d)
        BY <2>1, <3>3, TOMLsDiffer, FileNames DEF Announced, WriteChannel, WriteFails, TypeOK
      <4>2. m = n /\ d = e
        BY <4>1, TOMLsDiffer
      <4>3. QED
        BY <2>1, <4>1, <4>2 DEF Announced, TypeOK
    <3>4. QED
      BY <3>1, <3>2, <3>3
  <2>2. ASSUME NEW m \in Names, Retired(m)
        PROVE  /\ f = ChannelFile(n) /\ n \notin Presets
               /\ n \in known' \ failed' => live'[n] = e
    <3>1. files'[f] = files[f]
      BY <2>2, TOMLsDiffer DEF Retired, RemoveChannel, TypeOK
    <3>2. f = ChannelFile(n) /\ n \notin Presets
      BY <2>0, <3>1
    <3>3. CASE m = n
      <4>1. files' # [files EXCEPT ![ChannelFile(n)] = None]
        BY <3>2, TOMLsDiffer DEF TypeOK
      <4>2. QED
        BY <2>2, <3>2, <3>3, <4>1 DEF Retired, RemoveChannel
    <3>4. CASE m # n
      BY <2>0, <2>2, <3>1, <3>4 DEF Retired, TypeOK
    <3>5. QED
      BY <3>3, <3>4
  <2>3. ASSUME NEW p \in Presets, WritePreset(p)
        PROVE  /\ f = ChannelFile(n) /\ n \notin Presets
               /\ n \in known' \ failed' => live'[n] = e
    <3>1. files'[f] = files[f]
      BY <2>3, TOMLsDiffer DEF WritePreset, WriteChannel, TypeOK
    <3>2. QED
      BY <2>0, <2>3, <3>1 DEF WritePreset
  <2>4. CASE Restart
    BY <2>0, <2>4 DEF Restart
  <2>5. CASE UNCHANGED cableVars
    BY <2>0, <2>5 DEF cableVars
  <2>6. QED
    BY <2>1, <2>2, <2>3, <2>4, <2>5 DEF CableNext
<1>3. TypeOK /\ Inv => NoFileOutlivesSource
  BY DEF TypeOK, NoFileOutlivesSource
<1>4. QED
  BY <1>1, <1>2, <1>3, CableTypeCorrect, PTL DEF CableSpec

-----------------------------------------------------------------------------
(***************************************************************************)
(* From the network to the screen.                                         *)
(***************************************************************************)

LEMMA RegistryTyped == Spec => []R!TypeOK
<1>1. /\ Instances \subseteq Nat \ {0} /\ 1 .. MaxTime \subseteq Nat \ {0} /\ TV \in Nat
      /\ Nothing \notin RP!Source /\ Nothing \notin RP!Entry /\ Nothing \notin RP!Event
      /\ Free \notin Goroutines
  BY DiscoveryAssumption
     DEF TV, RP!Source, RP!Entry, RP!Event, R!Source, R!Entry, R!Event
<1>2. RP!Spec => []RP!TypeOK
  BY <1>1, RP!TypeCorrect
<1>3. RP!TypeOK => R!TypeOK
  BY DEF RP!TypeOK, R!TypeOK, RP!Entry, R!Entry, RP!Source, R!Source, RP!Event, R!Event,
         RP!SubIds, R!SubIds
<1>4. QED
  BY <1>2, <1>3, ImplementsRegistry, SameRegistry, PTL

(* Until the TV writer has subscribed the registry is empty, so nothing is  *)
(* ever copied for a replay.                                                *)
WatchedFirst ==
  /\ nextSub = 0 =>
       /\ subs = {}
       /\ \A i \in Instances : sources[i] = Nothing
       /\ \A t \in B!Adders : adding[t] = Nothing
       /\ departed = {}
       /\ \A t \in Goroutines : pc[t] \in {"idle", "subscribe"}
  /\ \A t \in Goroutines, i \in Instances : snapshot[t][i] = Nothing

LEMMA WatchedFirstStep == R!TypeOK /\ WatchedFirst /\ [Next]_vars => WatchedFirst'
<1> SUFFICES ASSUME R!TypeOK, WatchedFirst, [Next]_vars PROVE WatchedFirst'
  OBVIOUS
<1>0. nextSub \in 0 .. TV
  BY DEF R!TypeOK
<1>1. CASE Watch
  <2>1. pc' = [pc EXCEPT !["main"] = "subscribe"]
    BY <1>1 DEF Watch, R!SubscribeCall
  <2>2. \A t \in Goroutines : pc[t] \in {"idle", "subscribe"} => pc'[t] \in {"idle", "subscribe"}
    BY <2>1 DEF R!TypeOK
  <2>3. QED
    BY <1>1, <2>2 DEF Watch, R!SubscribeCall, WatchedFirst, browserVars
<1>2. CASE nextSub = 0 /\ ~Watch /\ ~UNCHANGED vars
  <2>1. ~Started
    BY <1>2 DEF WatchedFirst, Started
  <2>2. \A t \in B!Adders : ~CallObserve(t) /\ ~ObserveReturns(t)
    BY <1>2 DEF WatchedFirst, CallObserve, ObserveReturns, B!OnChange
  <2>3. departed = {}
    BY <1>2 DEF WatchedFirst
  <2>4. PICK t \in Goroutines : RegistryStep(t)
    BY <1>2, <2>1, <2>2, <2>3 DEF Next, Sight, BrowserStep
  <2>5. R!SubscribeStart(t)
    BY <1>2, <2>4 DEF WatchedFirst, RegistryStep, R!Step, R!PublishLock, R!Deliver, R!PublishDone,
                      R!Replay, R!SubscribeDone
  <2>6. nextSub' # 0 /\ snapshot' = [snapshot EXCEPT ![t] = [i \in Instances |-> R!Get(i)]]
    BY <1>2, <2>5 DEF R!SubscribeStart
  <2>7. \A i \in Instances : R!Get(i) = Nothing
    BY <1>2 DEF WatchedFirst, R!Get
  <2>8. \A g \in Goroutines, i \in Instances : snapshot'[g][i] = Nothing
    BY <2>6, <2>7 DEF WatchedFirst, R!TypeOK
  <2>9. QED
    BY <2>6, <2>8 DEF WatchedFirst
<1>3. CASE nextSub # 0 /\ ~Watch
  <2>1. snapshot' = snapshot /\ nextSub' = nextSub
    <3>1. ASSUME NEW k \in B!Records, Sight(k) PROVE snapshot' = snapshot /\ nextSub' = nextSub
      BY <3>1 DEF Sight, registryVars
    <3>2. ASSUME NEW t \in B!Adders, CallObserve(t) \/ ObserveReturns(t)
          PROVE  snapshot' = snapshot /\ nextSub' = nextSub
      BY <3>2 DEF CallObserve, ObserveReturns, R!Observe, registryVars
    <3>3. ASSUME NEW svc \in departed, CallRetire(svc) \/ RetireReturns(svc)
          PROVE  snapshot' = snapshot /\ nextSub' = nextSub
      BY <3>3 DEF CallRetire, RetireReturns, R!Retire, registryVars
    <3>4. ASSUME NEW t \in Goroutines, RegistryStep(t)
          PROVE  snapshot' = snapshot /\ nextSub' = nextSub
      <4>1. \A i \in Instances : ~R!Replay(t, i)
        BY DEF R!Replay, WatchedFirst
      <4>2. ~R!SubscribeStart(t)
        BY <1>0, <1>3 DEF R!SubscribeStart, TV
      <4>3. QED
        BY <3>4, <4>1, <4>2 DEF RegistryStep, R!Step, R!PublishLock, R!Deliver, R!PublishDone,
                                R!SubscribeDone
    <3>5. CASE BrowserStep \/ UNCHANGED vars
      BY <3>5 DEF BrowserStep, vars, registryVars
    <3>6. QED
      BY <1>3, <3>1, <3>2, <3>3, <3>4, <3>5 DEF Next
  <2>2. QED
    BY <1>3, <2>1 DEF WatchedFirst
<1>4. CASE UNCHANGED vars
  BY <1>4 DEF vars, browserVars, registryVars, WatchedFirst
<1>5. QED
  BY <1>1, <1>2, <1>3, <1>4

LEMMA WatchedFirstAlways == Spec => []WatchedFirst
<1>1. Init => WatchedFirst
  BY DEF Init, B!Init, R!Init, WatchedFirst, R!Source
<1>2. QED
  BY <1>1, WatchedFirstStep, RegistryTyped, PTL DEF Spec

(* Television is discovery with the files beside it. *)
THEOREM TelevisionImplementsDiscovery == TVSpec => Spec
<1>1. TVInit => Init
  BY DEF TVInit
<1>2. [TVNext]_tvVars => [Next]_vars
  <2>1. ASSUME NEW t \in Goroutines, Delivered(t) PROVE Next
    <3>1. TV \in R!SubIds
      BY DEF R!SubIds, TV
    <3>2. RegistryStep(t)
      BY <2>1, <3>1 DEF Delivered, RegistryStep, R!Step
    <3>3. QED
      BY <3>2 DEF Next
  <2>2. ASSUME NEW p \in Presets, SyncPreset(p) PROVE UNCHANGED vars
    BY <2>2 DEF SyncPreset
  <2>3. CASE UNCHANGED tvVars
    BY <2>3 DEF tvVars
  <2>4. QED
    BY <2>1, <2>2, <2>3 DEF TVNext, Undelivered
<1>3. QED
  BY <1>1, <1>2, PTL DEF TVSpec, Spec

(* The event that a callback is called with. *)
LEMMA EventTyped ==
  ASSUME R!TypeOK, NEW t \in Goroutines, Delivered(t)
  PROVE  /\ event[t].src.inst \in Instances /\ event[t].src.ep \in Addresses
         /\ event[t].src # Nothing
         /\ NameOf[event[t].src.inst] \in Names
<1>1. event[t] \in R!Event
  BY DEF Delivered, R!Deliver, R!TypeOK
<1>2. QED
  BY <1>1, DiscoveryAssumption, TelevisionAssumption DEF R!Event, R!Source

(* To the cable directory it is the network that announces and retires.     *)
THEOREM TelevisionImplementsCableDir == TVSpec => CableSpec
<1>1. TVInit => CableInit
  BY DEF TVInit
<1>2. R!TypeOK /\ [TVNext]_tvVars => [CableNext]_cableVars
  <2> SUFFICES ASSUME R!TypeOK, [TVNext]_tvVars PROVE CableNext \/ UNCHANGED cableVars
    OBVIOUS
  <2>1. ASSUME NEW t \in Goroutines, Delivered(t) PROVE CableNext
    BY <2>1, EventTyped DEF Delivered, Callback, CableNext
  <2>2. ASSUME NEW p \in Presets, SyncPreset(p) PROVE CableNext
    BY <2>2 DEF SyncPreset, CableNext
  <2>3. CASE Undelivered \/ UNCHANGED tvVars
    BY <2>3 DEF Undelivered, tvVars, cableVars
  <2>4. QED
    BY <2>1, <2>2, <2>3 DEF TVNext
<1>3. QED
  BY <1>1, <1>2, TelevisionImplementsDiscovery, RegistryTyped, PTL DEF TVSpec, CableSpec

(* Where the cable directory has been told that an instance is, is what the *)
(* TV writer knows from the registry.                                       *)
Where(src) == IF src = Nothing THEN None ELSE src.ep
LiveIsMirror == \A i \in Instances : live[NameOf[i]] = Where(mirror[TV][i])

LEMMA LiveIsMirrorStep ==
  R!TypeOK /\ TypeOK /\ WatchedFirst /\ LiveIsMirror /\ [TVNext]_tvVars => LiveIsMirror'
<1> SUFFICES ASSUME R!TypeOK, TypeOK, WatchedFirst, LiveIsMirror, [TVNext]_tvVars
             PROVE  LiveIsMirror'
  OBVIOUS
<1>0. TV \in R!SubIds /\ mirror \in [R!SubIds -> [Instances -> R!Source \cup {Nothing}]]
  BY DEF R!TypeOK, R!SubIds, TV
<1>1. ASSUME NEW t \in Goroutines, Delivered(t) PROVE LiveIsMirror'
  <2> DEFINE e == event[t]
             i == e.src.inst
  <2>1. /\ i \in Instances /\ e.src # Nothing /\ NameOf[i] \in Names
        /\ mirror' = [mirror EXCEPT ![TV][i] = R!Told(e)]
    BY <1>1, EventTyped DEF Delivered, R!Deliver
  <2>2. live' = [live EXCEPT ![NameOf[i]] = Where(R!Told(e))]
    <3>1. CASE e.kind = "Retired"
      BY <1>1, <3>1 DEF Delivered, Callback, Retired, Where, R!Told
    <3>2. CASE e.kind # "Retired"
      BY <1>1, <2>1, <3>2 DEF Delivered, Callback, Announced, Where, R!Told
    <3>3. QED
      BY <3>1, <3>2
  <2> HIDE DEF e, i
  <2>3. ASSUME NEW j \in Instances PROVE live'[NameOf[j]] = Where(mirror'[TV][j])
    <3>1. NameOf[j] \in Names /\ live \in [Names -> Addresses \cup {None}]
      BY TelevisionAssumption DEF TypeOK
    <3>2. CASE j = i
      <4>1. live'[NameOf[j]] = Where(R!Told(e))
        BY <2>2, <3>1, <3>2
      <4>2. mirror'[TV][j] = R!Told(e)
        BY <1>0, <2>1, <3>2
      <4>3. QED
        BY <4>1, <4>2
    <3>3. CASE j # i
      <4>1. NameOf[j] # NameOf[i]
        BY <2>1, <3>3, TelevisionAssumption
      <4>2. live'[NameOf[j]] = live[NameOf[j]]
        BY <2>2, <3>1, <4>1
      <4>3. mirror'[TV][j] = mirror[TV][j]
        BY <1>0, <2>1, <3>3
      <4>4. QED
        BY <4>2, <4>3 DEF LiveIsMirror
    <3>4. QED
      BY <3>2, <3>3
  <2>4. QED
    BY <2>3 DEF LiveIsMirror
<1>2. CASE Undelivered
  <2>1. mirror' = mirror
    <3>1. CASE Watch
      BY <3>1 DEF Watch, R!SubscribeCall
    <3>2. ASSUME NEW k \in B!Records, Sight(k) PROVE mirror' = mirror
      BY <3>2 DEF Sight, registryVars
    <3>3. ASSUME NEW t \in B!Adders, CallObserve(t) \/ ObserveReturns(t)
          PROVE  mirror' = mirror
      BY <3>3 DEF CallObserve, ObserveReturns, R!Observe, registryVars
    <3>4. ASSUME NEW svc \in departed, CallRetire(svc) \/ RetireReturns(svc)
          PROVE  mirror' = mirror
      BY <3>4 DEF CallRetire, RetireReturns, R!Retire, registryVars
    <3>5. ASSUME NEW t \in Goroutines, RegistryStep(t) PROVE mirror' = mirror
      <4>1. \A i \in Instances : ~R!Replay(t, i)
        BY DEF R!Replay, WatchedFirst
      <4>2. \A s \in R!SubIds : ~R!Deliver(t, s)
        <5> SUFFICES ASSUME NEW s \in R!SubIds, R!Deliver(t, s) PROVE FALSE
          OBVIOUS
        <5>1. s = TV
          BY DEF R!SubIds, TV
        <5>2. TV \in todo[t] /\ todo' = [todo EXCEPT ![t] = todo[t] \ {TV}]
          BY <5>1 DEF R!Deliver
        <5>3. TV \notin todo'[t]
          BY <5>2 DEF R!TypeOK
        <5>4. QED
          BY <1>2, <5>2, <5>3 DEF Undelivered
      <4>3. QED
        BY <3>5, <4>1, <4>2 DEF RegistryStep, R!Step, R!PublishLock, R!PublishDone,
                                R!SubscribeStart, R!SubscribeDone
    <3>6. CASE BrowserStep
      BY <3>6 DEF BrowserStep, registryVars
    <3>7. QED
      BY <1>2, <3>1, <3>2, <3>3, <3>4, <3>5, <3>6 DEF Undelivered, Next
  <2>2. live' = live
    BY <1>2 DEF Undelivered, cableVars
  <2>3. QED
    BY <2>1, <2>2 DEF LiveIsMirror
<1>3. ASSUME NEW p \in Presets, SyncPreset(p) PROVE LiveIsMirror'
  BY <1>3 DEF SyncPreset, WritePreset, vars, registryVars, LiveIsMirror
<1>4. CASE UNCHANGED tvVars
  BY <1>4 DEF tvVars, cableVars, vars, registryVars, LiveIsMirror
<1>5. QED
  BY <1>1, <1>2, <1>3, <1>4 DEF TVNext

LEMMA LiveIsMirrorAlways == TVSpec => []LiveIsMirror
<1>1. TVInit => LiveIsMirror
  BY TelevisionAssumption DEF TVInit, Init, R!Init, CableInit, LiveIsMirror, Where, R!SubIds, TV
<1>2. TVSpec => [](R!TypeOK /\ TypeOK /\ WatchedFirst)
  BY TelevisionImplementsDiscovery, TelevisionImplementsCableDir, RegistryTyped,
     CableTypeCorrect, WatchedFirstAlways, PTL
<1>3. QED
  BY <1>1, <1>2, LiveIsMirrorStep, PTL DEF TVSpec

(* From the registry to the disk: a file that is up to date is there        *)
(* exactly while its source is registered, and points to it, whatever the   *)
(* goroutines of the browser report and whoever writes presets meanwhile    *)
(* (publish, WatchDiscovered).                                              *)
THEOREM ScreenFollows == TVSpec => []ScreenFollowsRegistry
<1>1. LiveIsMirror /\ R!MirrorsConverge /\ FileFollowsSource /\ R!TypeOK
        => ScreenFollowsRegistry
  <2> SUFFICES ASSUME LiveIsMirror, R!MirrorsConverge, FileFollowsSource, R!TypeOK,
                      NEW i \in Instances, UpToDate(i)
               PROVE  FileOf(i) = IF sources[i] = Nothing THEN None
                                  ELSE DiscoveredTOML(NameOf[i], sources[i].src.ep)
    BY DEF ScreenFollowsRegistry
  <2>1. mirror[TV][i] = R!Get(i)
    BY DEF UpToDate, R!MirrorsConverge
  <2>2. live[NameOf[i]] = Where(R!Get(i))
    BY <2>1 DEF LiveIsMirror
  <2>3. FileOf(i) = IF live[NameOf[i]] = None THEN None
                    ELSE DiscoveredTOML(NameOf[i], live[NameOf[i]])
    BY DEF UpToDate, FileFollowsSource, FileOf
  <2>4. sources[i] # Nothing => sources[i].src # Nothing /\ sources[i].src.ep # None
    BY DiscoveryAssumption, TelevisionAssumption, NoneNotAddress DEF R!TypeOK, R!Entry, R!Source
  <2>5. QED
    BY <2>2, <2>3, <2>4 DEF Where, R!Get
<1>2. QED
  BY <1>1, LiveIsMirrorAlways, TelevisionImplementsDiscovery, TelevisionImplementsCableDir,
     PartsHold, FilesFollowSources, RegistryTyped, PTL

(* From the network to the screen: a file that is up to date points to an   *)
(* address at which its instance answered no longer ago than the expiry,    *)
(* one check period, a refresh and the callbacks of one expiry take, as     *)
(* long as the loop of the browser keeps up with its tickers (Start,        *)
(* expire, Retire, WatchDiscovered).                                        *)
THEOREM ScreenEndsInTime == ASSUME B!KeepsUp PROVE TVSpec => []ScreenDiesInTime
<1>1. ScreenFollowsRegistry /\ ChannelsDieInTime => ScreenDiesInTime
  <2> SUFFICES ASSUME ScreenFollowsRegistry, ChannelsDieInTime, ~ctxDone,
                      NEW i \in Instances, NEW e \in Endpoints, UpToDate(i),
                      FileOf(i) = DiscoveredTOML(NameOf[i], e)
               PROVE  /\ sources[i] # Nothing
                      /\ \E svc \in Backing(i) :
                           svc.ep = e /\ clock <= svc.seen + B!LongestUnseen + MaxLag
    BY DEF ScreenDiesInTime
  <2>1. NameOf[i] \in Names
    BY TelevisionAssumption
  <2>2. sources[i] # Nothing
    BY <2>1, TelevisionAssumption, NoneNotTOML DEF ScreenFollowsRegistry
  <2>3. DiscoveredTOML(NameOf[i], sources[i].src.ep) = DiscoveredTOML(NameOf[i], e)
    BY <2>2 DEF ScreenFollowsRegistry
  <2>4. sources[i].src.ep = e
    <3>1. \A a : DiscoveredTOML(NameOf[i], a).ep = a
      BY DEF DiscoveredTOML
    <3>2. QED
      BY <2>3, <3>1
  <2>5. \A svc \in Backing(i) : svc.ep = e
    BY <2>4 DEF Backing
  <2>6. QED
    BY <2>2, <2>5 DEF ChannelsDieInTime
<1>2. Spec => []ChannelsDieInTime
  BY ChannelsEndInTime
<1>3. QED
  BY <1>1, <1>2, ScreenFollows, TelevisionImplementsDiscovery, PTL
=============================================================================
