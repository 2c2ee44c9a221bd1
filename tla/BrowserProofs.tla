---------------------------- MODULE BrowserProofs ----------------------------
(***************************************************************************)
(* Theorems about Browser for every set of instances, addresses and TXT    *)
(* records, every choice of the seeded ones and of the timing constants.   *)
(***************************************************************************)
EXTENDS Browser, FiniteSetTheorems, TLAPS

(* expire reports what it has removed before the loop goes on, and removes  *)
(* one service per record.                                                  *)
InExpire ==
  /\ loop = "expire" <=> departed # {}
  /\ \A a, b \in departed : recordKey(a) = recordKey(b) => a = b

(* The callbacks still to come for record k. *)
Coming(k)  == {t \in Adders : adding[t] # Nothing /\ recordKey(adding[t]) = k}
Leaving(k) == {svc \in departed : recordKey(svc) = k}

(* The inductive invariant. *)
IInv == TypeOK /\ InExpire /\ ReportedOnce

-----------------------------------------------------------------------------
LEMMA KeyIsRecord == \A svc \in Service : recordKey(svc) \in Records
BY DEF Service, Records, recordKey

LEMMA AddersFinite == IsFiniteSet(Adders)
<1>1. IsFiniteSet({}) /\ Adders = (({} \cup {"browse"}) \cup {"refresh"}) \cup {"main"}
  BY FS_EmptySet DEF Adders
<1>2. QED
  BY <1>1, FS_AddElement

LEMMA ComingCount ==
  ASSUME NEW k PROVE IsFiniteSet(Coming(k)) /\ Cardinality(Coming(k)) \in Nat
<1>1. Coming(k) \subseteq Adders
  BY DEF Coming
<1>2. QED
  BY <1>1, AddersFinite, FS_Subset, FS_CardinalityType

(* Of a record at most one service departs at a time. *)
LEMMA LeavingCount ==
  ASSUME IInv, NEW k
  PROVE  /\ Cardinality(Leaving(k)) \in {0, 1}
         /\ \A svc \in departed : recordKey(svc) = k => Leaving(k) = {svc}
<1>1. \A svc \in departed : recordKey(svc) = k => Leaving(k) = {svc}
  BY DEF IInv, InExpire, Leaving
<1>2. CASE Leaving(k) = {}
  BY <1>1, <1>2, FS_EmptySet
<1>3. CASE Leaving(k) # {}
  <2>1. PICK svc \in departed : recordKey(svc) = k
    BY <1>3 DEF Leaving
  <2>2. QED
    BY <1>1, <2>1, FS_Singleton
<1>4. QED
  BY <1>2, <1>3

(* What ReportedOnce says of one record. *)
LEMMA Balance ==
  ASSUME IInv, NEW k \in Records
  PROVE  reports[k] \in Int
         /\ reports[k] + Cardinality(Coming(k)) - Cardinality(Leaving(k))
              = IF services[k] = Nothing THEN 0 ELSE 1
BY DEF IInv, TypeOK, ReportedOnce, Coming, Leaving

(* A step that leaves alone what ReportedOnce is about, or changes it only  *)
(* for a record whose balance it keeps.                                     *)
LEMMA BalanceKept ==
  ASSUME \A k \in Records :
           reports'[k] + Cardinality(Coming(k)') - Cardinality(Leaving(k)')
             = IF services'[k] = Nothing THEN 0 ELSE 1
  PROVE  ReportedOnce'
BY DEF ReportedOnce, Coming, Leaving

LEMMA QuietBalance ==
  ASSUME IInv, UNCHANGED <<services, adding, departed, reports>>
  PROVE  ReportedOnce'
BY DEF IInv, ReportedOnce

-----------------------------------------------------------------------------
(* addService by a goroutine that reports nothing else. *)
LEMMA AddServiceKeeps ==
  ASSUME IInv, NEW t \in Adders, NEW k \in Records, NEW id \in Identities,
         adding[t] = Nothing, addService(t, k, id),
         UNCHANGED <<clock, net, loop, departed, since, tickers, ctxDone, reports>>,
         heard' \subseteq Records, answered' \subseteq Records, toSeed' \subseteq Seeds
  PROVE  IInv'
<1> DEFINE svc == [inst |-> k.inst, ep |-> k.ep, id |-> id, seen |-> clock,
                   disc |-> IF services[k] # Nothing THEN services[k].disc ELSE clock]
<1>0. /\ services' = [services EXCEPT ![k] = svc]
      /\ adding' = [adding EXCEPT ![t] = IF services[k] # Nothing THEN Nothing ELSE svc]
      /\ missed' = [missed EXCEPT ![k] = 0]
  BY DEF addService
<1>1. svc \in Service /\ recordKey(svc) = k /\ svc.disc <= svc.seen /\ svc.seen <= clock
  <2>1. k.inst \in Instances /\ k.ep \in Endpoints /\ k = [inst |-> k.inst, ep |-> k.ep]
    BY DEF Records
  <2>2. clock \in 0 .. MaxTime /\ clock <= clock
    BY TimingAssumption DEF IInv, TypeOK
  <2>3. services[k] # Nothing => services[k].disc \in 0 .. MaxTime /\ services[k].disc <= clock
    BY TimingAssumption DEF IInv, TypeOK, Service
  <2>4. QED
    BY <2>1, <2>2, <2>3 DEF Service, recordKey
<1> HIDE DEF svc
<1>2. /\ services' \in [Records -> Service \cup {Nothing}]
      /\ \A r \in Records : services'[r] = IF r = k THEN svc ELSE services[r]
  BY <1>0, <1>1 DEF IInv, TypeOK
<1>3. /\ adding' \in [Adders -> Service \cup {Nothing}]
      /\ \A u \in Adders : adding'[u] = IF u = t /\ services[k] = Nothing THEN svc ELSE adding[u]
  BY <1>0, <1>1 DEF IInv, TypeOK
<1>4. missed' \in [Records -> Nat]
  BY <1>0 DEF IInv, TypeOK
<1>5. TypeOK'
  BY <1>1, <1>2, <1>3, <1>4 DEF IInv, TypeOK, tickers
<1>6. InExpire'
  BY DEF IInv, InExpire
<1>7. ASSUME NEW r \in Records
      PROVE  reports'[r] + Cardinality(Coming(r)') - Cardinality(Leaving(r)')
               = IF services'[r] = Nothing THEN 0 ELSE 1
  <2>1. Leaving(r)' = Leaving(r)
    BY DEF Leaving
  <2>2. CASE services[k] # Nothing \/ r # k
    <3>1. Coming(r)' = Coming(r)
      BY <1>1, <1>3, <2>2 DEF Coming
    <3>2. services'[r] = Nothing <=> services[r] = Nothing
      BY <1>1, <1>2, <2>2, NothingAssumption
    <3>3. QED
      BY <2>1, <3>1, <3>2, Balance
  <2>3. CASE services[k] = Nothing /\ r = k
    <3>1. Coming(r)' = Coming(r) \cup {t} /\ t \notin Coming(r)
      BY <1>1, <1>3, <2>3, NothingAssumption DEF Coming
    <3>2. Cardinality(Coming(r)') = Cardinality(Coming(r)) + 1
      BY <3>1, ComingCount, FS_AddElement
    <3>3. services'[r] # Nothing
      BY <1>1, <1>2, <2>3, NothingAssumption
    <3>4. QED
      BY <2>1, <2>3, <3>2, <3>3, Balance, ComingCount, LeavingCount
  <2>4. QED
    BY <2>2, <2>3
<1>8. QED
  BY <1>5, <1>6, <1>7, BalanceKept DEF IInv

LEMMA OnChangeKeeps ==
  ASSUME IInv, NEW t \in Adders, OnChange(t)
  PROVE  IInv'
<1> DEFINE key == recordKey(adding[t])
<1>0. /\ adding[t] # Nothing /\ adding' = [adding EXCEPT ![t] = Nothing]
      /\ reports' = [reports EXCEPT ![key] = reports[key] + 1]
      /\ UNCHANGED <<clock, net, heard, services, loopVars, tickers, toSeed, ctxDone, missed>>
  BY DEF OnChange
<1>1. key \in Records
  BY <1>0, KeyIsRecord DEF IInv, TypeOK
<1>2. TypeOK'
  <2>1. adding' \in [Adders -> Service \cup {Nothing}] /\ reports' \in [Records -> Int]
    BY <1>0, <1>1 DEF IInv, TypeOK
  <2>2. QED
    BY <1>0, <2>1 DEF IInv, TypeOK, loopVars, tickers
<1>3. InExpire'
  BY <1>0 DEF IInv, InExpire, loopVars
<1>4. ASSUME NEW r \in Records
      PROVE  reports'[r] + Cardinality(Coming(r)') - Cardinality(Leaving(r)')
               = IF services'[r] = Nothing THEN 0 ELSE 1
  <2>1. Leaving(r)' = Leaving(r)
    BY <1>0 DEF Leaving, loopVars
  <2>2. \A u \in Adders : adding'[u] = IF u = t THEN Nothing ELSE adding[u]
    BY <1>0 DEF IInv, TypeOK
  <2>3. CASE r # key
    <3>1. Coming(r)' = Coming(r) /\ reports'[r] = reports[r]
      BY <1>0, <1>1, <2>2, <2>3 DEF Coming, IInv, TypeOK
    <3>2. QED
      BY <1>0, <2>1, <3>1, Balance
  <2>4. CASE r = key
    <3>1. Coming(r)' = Coming(r) \ {t} /\ t \in Coming(r)
      BY <1>0, <2>2, <2>4 DEF Coming
    <3>2. Cardinality(Coming(r)') = Cardinality(Coming(r)) - 1
      BY <3>1, ComingCount, FS_RemoveElement
    <3>3. reports'[r] = reports[r] + 1
      BY <1>0, <1>1, <2>4 DEF IInv, TypeOK
    <3>4. QED
      BY <1>0, <2>1, <3>2, <3>3, Balance, ComingCount, LeavingCount
  <2>5. QED
    BY <2>3, <2>4
<1>5. QED
  BY <1>2, <1>3, <1>4, BalanceKept DEF IInv

LEMMA TakeExpiryKeeps ==
  ASSUME IInv, TakeExpiry
  PROVE  IInv'
<1> DEFINE gone == Expired(expiryC)
<1>0. /\ loop = "select" /\ expiryC' = 0 /\ since' = clock
      /\ departed' = {services[k] : k \in gone}
      /\ services' = [k \in Records |-> IF k \in gone THEN Nothing ELSE services[k]]
      /\ loop' = IF gone = {} THEN "select" ELSE "expire"
      /\ UNCHANGED <<clock, net, heard, adding, refreshC, answered, toSeed, ctxDone, history>>
  BY DEF TakeExpiry
<1>1. /\ gone \subseteq Records
      /\ \A k \in gone : /\ services[k] # Nothing /\ services[k] \in Service
                         /\ recordKey(services[k]) = k
  BY DEF Expired, IInv, TypeOK
<1> HIDE DEF gone
<1>2. TypeOK'
  <2>1. /\ services' \in [Records -> Service \cup {Nothing}] /\ departed' \subseteq Service
        /\ expiryC' \in 0 .. MaxTime /\ since' \in 0 .. MaxTime
    BY <1>0, <1>1, TimingAssumption DEF IInv, TypeOK
  <2>2. QED
    BY <1>0, <2>1 DEF IInv, TypeOK, history
<1>3. InExpire'
  BY <1>0, <1>1 DEF InExpire
<1>4. ASSUME NEW r \in Records
      PROVE  reports'[r] + Cardinality(Coming(r)') - Cardinality(Leaving(r)')
               = IF services'[r] = Nothing THEN 0 ELSE 1
  <2>1. Coming(r)' = Coming(r) /\ reports' = reports
    BY <1>0 DEF Coming, history
  <2>2. Leaving(r) = {} /\ Cardinality(Leaving(r)) = 0
    BY <1>0, FS_EmptySet DEF IInv, InExpire, Leaving
  <2>3. CASE r \notin gone
    <3>1. Leaving(r)' = {}
      BY <1>0, <1>1, <2>3 DEF Leaving
    <3>2. QED
      BY <1>0, <2>1, <2>2, <2>3, <3>1, Balance
  <2>4. CASE r \in gone
    <3>1. Leaving(r)' = {services[r]}
      BY <1>0, <1>1, <2>4 DEF Leaving
    <3>2. Cardinality(Leaving(r)') = 1
      BY <3>1, FS_Singleton
    <3>3. services[r] # Nothing /\ services'[r] = Nothing
      BY <1>0, <1>1, <2>4
    <3>4. /\ reports[r] \in Int /\ Cardinality(Coming(r)) \in Nat
          /\ reports[r] + Cardinality(Coming(r)) - 0 = 1
      BY <2>2, <3>3, Balance, ComingCount
    <3>5. QED
      BY <2>1, <3>2, <3>3, <3>4
  <2>5. QED
    BY <2>3, <2>4
<1>5. QED
  BY <1>2, <1>3, <1>4, BalanceKept DEF IInv

LEMMA OnRemoveKeeps ==
  ASSUME IInv, NEW svc \in departed, OnRemove(svc)
  PROVE  IInv'
<1> DEFINE key == recordKey(svc)
<1>0. /\ departed' = departed \ {svc} /\ loop' = IF departed = {svc} THEN "select" ELSE "expire"
      /\ since' = clock /\ reports' = [reports EXCEPT ![key] = reports[key] - 1]
      /\ UNCHANGED <<clock, net, heard, services, adding, answered, tickers, toSeed, ctxDone,
                     missed>>
  BY DEF OnRemove
<1>1. key \in Records
  BY KeyIsRecord DEF IInv, TypeOK
<1>2. TypeOK'
  <2>1. reports' \in [Records -> Int] /\ departed' \subseteq Service /\ since' \in 0 .. MaxTime
    BY <1>0, <1>1 DEF IInv, TypeOK
  <2>2. QED
    BY <1>0, <2>1 DEF IInv, TypeOK, tickers
<1>3. InExpire'
  BY <1>0 DEF IInv, InExpire
<1>4. ASSUME NEW r \in Records
      PROVE  reports'[r] + Cardinality(Coming(r)') - Cardinality(Leaving(r)')
               = IF services'[r] = Nothing THEN 0 ELSE 1
  <2>1. Coming(r)' = Coming(r)
    BY <1>0 DEF Coming
  <2>2. CASE r # key
    <3>1. Leaving(r)' = Leaving(r) /\ reports'[r] = reports[r]
      BY <1>0, <1>1, <2>2 DEF Leaving, IInv, TypeOK
    <3>2. QED
      BY <1>0, <2>1, <3>1, Balance
  <2>3. CASE r = key
    <3>1. Leaving(r) = {svc} /\ Cardinality(Leaving(r)) = 1
      BY <2>3, LeavingCount, FS_Singleton
    <3>2. Leaving(r)' = {} /\ Cardinality(Leaving(r)') = 0
      <4>1. Leaving(r)' = Leaving(r) \ {svc}
        BY <1>0 DEF Leaving
      <4>2. QED
        BY <3>1, <4>1, FS_EmptySet
    <3>3. reports'[r] = reports[r] - 1
      BY <1>0, <1>1, <2>3 DEF IInv, TypeOK
    <3>4. /\ reports[r] \in Int /\ Cardinality(Coming(r)) \in Nat
          /\ reports[r] + Cardinality(Coming(r)) - 1 = IF services[r] = Nothing THEN 0 ELSE 1
      BY <3>1, Balance, ComingCount
    <3>5. QED
      BY <1>0, <2>1, <3>2, <3>3, <3>4
  <2>4. QED
    BY <2>2, <2>3
<1>5. QED
  BY <1>2, <1>3, <1>4, BalanceKept DEF IInv

(* The steps that touch no service and no callback. *)
LEMMA OtherSteps ==
  ASSUME IInv,
         \/ \E k \in Records, id \in Identities : Advertise(k, id)
         \/ \E k \in Records : Withdraw(k)
         \/ TakeRefresh \/ RefreshDone \/ Cancel \/ Stop \/ Exited \/ Tick
         \/ UNCHANGED vars
  PROVE  IInv'
<1>0. UNCHANGED <<services, adding, departed, reports>>
  BY DEF Advertise, Withdraw, TakeRefresh, RefreshDone, Cancel, Stop, Exited, Tick, vars,
         loopVars, history
<1>1. ReportedOnce'
  BY <1>0, QuietBalance
<1>2. ASSUME NEW k \in Records, NEW id \in Identities, Advertise(k, id)
      PROVE  IInv'
  <2>1. /\ net' \in [Records -> Identities \cup {Nothing}] /\ heard' \subseteq Records
        /\ UNCHANGED <<clock, services, adding, loopVars, tickers, toSeed, ctxDone, history>>
    BY <1>2 DEF Advertise, IInv, TypeOK
  <2>2. QED
    BY <1>1, <2>1 DEF IInv, TypeOK, InExpire, loopVars, tickers, history
<1>3. ASSUME NEW k \in Records, Withdraw(k)
      PROVE  IInv'
  <2>1. /\ net' \in [Records -> Identities \cup {Nothing}] /\ heard' \subseteq Records
        /\ UNCHANGED <<clock, services, adding, loopVars, tickers, toSeed, ctxDone, history>>
    BY <1>3 DEF Withdraw, IInv, TypeOK
  <2>2. QED
    BY <1>1, <2>1 DEF IInv, TypeOK, InExpire, loopVars, tickers, history
<1>4. CASE TakeRefresh
  BY <1>1, <1>4 DEF TakeRefresh, IInv, TypeOK, InExpire, history
<1>5. CASE RefreshDone
  <2>1. missed' \in [Records -> Nat]
    BY <1>5 DEF RefreshDone, IInv, TypeOK
  <2>2. QED
    BY <1>1, <1>5, <2>1 DEF RefreshDone, IInv, TypeOK, InExpire, tickers
<1>6. CASE Cancel \/ Stop \/ Exited \/ UNCHANGED vars
  BY <1>1, <1>6 DEF Cancel, Stop, Exited, vars, IInv, TypeOK, InExpire, loopVars, tickers, history
<1>7. CASE Tick
  <2>0. /\ clock < MaxTime /\ clock' = clock + 1
        /\ refreshC' \in BOOLEAN /\ expiryC' \in {expiryC, clock + 1}
        /\ UNCHANGED <<net, heard, services, adding, loopVars, toSeed, ctxDone, history>>
    BY <1>7 DEF Tick
  <2>1. clock' \in 0 .. MaxTime /\ expiryC' \in 0 .. MaxTime
    BY <2>0, TimingAssumption DEF IInv, TypeOK
  <2>2. \A k \in Records : services[k] # Nothing =>
          services[k].seen \in 0 .. MaxTime /\ services[k].seen <= clock'
    BY <2>0, TimingAssumption DEF IInv, TypeOK, Service
  <2>3. TypeOK'
    BY <2>0, <2>1, <2>2 DEF IInv, TypeOK, loopVars, history
  <2>4. QED
    BY <1>1, <2>0, <2>3 DEF IInv, InExpire, loopVars
<1>8. QED
  BY <1>2, <1>3, <1>4, <1>5, <1>6, <1>7

LEMMA Inductive == IInv /\ [Next]_vars => IInv'
<1> SUFFICES ASSUME IInv, [Next]_vars PROVE IInv'
  OBVIOUS
<1>1. \A k \in Records : net[k] # Nothing => net[k] \in Identities
  BY DEF IInv, TypeOK
<1>2. ASSUME NEW k \in Records, BrowseEntry(k) PROVE IInv'
  <2>1. heard' \subseteq Records /\ "browse" \in Adders
    BY <1>2 DEF BrowseEntry, IInv, TypeOK, Adders
  <2>2. UNCHANGED <<answered, toSeed, loop, departed, since>>
    BY <1>2 DEF BrowseEntry, loopVars
  <2>3. QED
    BY <1>1, <1>2, <2>1, <2>2, AddServiceKeeps DEF BrowseEntry, IInv, TypeOK
<1>3. ASSUME NEW k \in Records, RefreshEntry(k) PROVE IInv'
  <2>1. answered' \subseteq Records /\ "refresh" \in Adders
    BY <1>3 DEF RefreshEntry, IInv, TypeOK, Adders
  <2>2. QED
    BY <1>1, <1>3, <2>1, AddServiceKeeps DEF RefreshEntry, IInv, TypeOK
<1>4. ASSUME NEW k \in Records, NEW id \in Identities, Add(k, id) PROVE IInv'
  <2>1. toSeed' \subseteq Seeds /\ "main" \in Adders
    BY <1>4 DEF Add, IInv, TypeOK, Adders
  <2>2. UNCHANGED <<answered, heard, loop, departed, since>>
    BY <1>4 DEF Add, loopVars
  <2>3. QED
    BY <1>4, <2>1, <2>2, AddServiceKeeps DEF Add, IInv, TypeOK
<1>5. QED
  BY <1>2, <1>3, <1>4, OnChangeKeeps, TakeExpiryKeeps, OnRemoveKeeps, OtherSteps DEF Next

LEMMA InitInv == Init => IInv
<1> SUFFICES ASSUME Init PROVE IInv
  OBVIOUS
<1>0. 0 \in 0 .. MaxTime /\ 0 \in Int /\ 0 \in Nat
  BY TimingAssumption
<1>1. TypeOK /\ InExpire
  BY <1>0 DEF Init, TypeOK, InExpire
<1>2. ASSUME NEW k \in Records
      PROVE  Coming(k) = {} /\ Leaving(k) = {} /\ reports[k] = 0 /\ services[k] = Nothing
  BY <1>2 DEF Init, Coming, Leaving
<1>3. ReportedOnce
  BY <1>2, FS_EmptySet DEF ReportedOnce, Coming, Leaving
<1>4. QED
  BY <1>1, <1>3 DEF IInv

(* The inductive invariant holds of every behaviour. *)
THEOREM Invariance == Spec => []IInv
BY InitInv, Inductive, PTL DEF Spec

(* A held record was discovered no later than it was last seen, and is      *)
(* stored under its own key (addService).                                   *)
THEOREM TypeCorrect == Spec => []TypeOK
<1>1. IInv => TypeOK
  BY DEF IInv
<1>2. QED
  BY <1>1, Invariance, PTL

(* "once per new record", "once per departed record": however sightings,    *)
(* refreshes and expiries interleave, the callbacks made and still to come  *)
(* balance for every record (addService, expire).                           *)
THEOREM CallbacksBalance == Spec => []ReportedOnce
<1>1. IInv => ReportedOnce
  BY DEF IInv
<1>2. QED
  BY <1>1, Invariance, PTL

-----------------------------------------------------------------------------
(***************************************************************************)
(* Time.  While the loop keeps up with its tickers (KeepsUp) a busy period *)
(* of the loop, from an instant b at which it was idle, serves at most one *)
(* tick of each ticker, because it ends within a refresh interval.  A tick *)
(* is therefore never dropped, and served before the next one fires.       *)
(***************************************************************************)

(* The last multiple of p no later than t: when a ticker of period p fired  *)
(* last.                                                                    *)
LastTick(t, p) == t - (t % p)

RefreshTime == Window + MaxLag
ExpireTime  == Cardinality(Records) * MaxLag

Refreshing == refreshC \/ loop = "refresh"
Expiring   == expiryC # 0 \/ loop = "expire"

(* When the loop is through with what it is doing, at the latest. *)
FreeAt == IF loop = "refresh" THEN since + RefreshTime
          ELSE IF loop = "expire" THEN since + Cardinality(departed) * MaxLag ELSE clock

(* What the loop has to serve at most if b is when it was idle last.        *)
Due(b) == (IF LastTick(clock, Interval) >= b THEN RefreshTime ELSE 0)
            + (IF LastTick(clock, expiryAgeCheck) >= b THEN ExpireTime ELSE 0)

(* What it still has to serve after FreeAt. *)
Pending == (IF refreshC THEN RefreshTime ELSE 0) + (IF expiryC # 0 THEN ExpireTime ELSE 0)

(* The loop has been busy since b. *)
Busy(b) ==
  /\ Refreshing => LastTick(clock, Interval) >= b
  /\ Expiring => LastTick(clock, expiryAgeCheck) >= b
  /\ FreeAt + Pending <= b + Due(b)

(* The loop is done in time with what it is doing, and has at most one tick *)
(* of each ticker in hand, the last one.                                    *)
InHand ==
  /\ IsFiniteSet(departed) /\ loop # "stopped"
  /\ since <= clock /\ clock <= FreeAt
  /\ loop = "refresh" => ~refreshC /\ since >= LastTick(clock, Interval)
  /\ adding["refresh"] # Nothing => loop = "refresh" /\ adding["refresh"].seen <= since + Window
  /\ loop = "expire" => expiryC = 0 /\ clock <= since + MaxLag
  /\ expiryC # 0 => expiryC = LastTick(clock, expiryAgeCheck)

Scheduled == ~ctxDone => InHand /\ \E b \in 0 .. clock : Busy(b)

LEMMA Periods ==
  /\ Interval \in Nat \ {0} /\ defaultExpiry \in Nat /\ defaultExpiry >= 2 * Interval
  /\ expiryAgeCheck \in Nat \ {0} /\ expiryAgeCheck >= Interval
<1>1. ASSUME NEW a \in Nat, NEW b \in Nat
      PROVE  Max({a, b}) \in {a, b} /\ Max({a, b}) >= a /\ Max({a, b}) >= b
  <2>1. \E x \in {a, b} : \A y \in {a, b} : x >= y
    OBVIOUS
  <2>2. QED
    BY <2>1 DEF Max
<1>2. Interval \in Nat \ {0} /\ MinExpiry \in Nat /\ 2 * Interval \in Nat
  BY TimingAssumption
<1>3. defaultExpiry \in Nat /\ defaultExpiry >= 2 * Interval
  BY <1>1, <1>2 DEF defaultExpiry
<1>4. defaultExpiry \div 2 \in Nat /\ defaultExpiry \div 2 >= Interval /\ 1 \in Nat
  BY <1>2, <1>3
<1>5. expiryAgeCheck \in {defaultExpiry \div 2, 1} /\ expiryAgeCheck >= defaultExpiry \div 2
  BY <1>1, <1>4 DEF expiryAgeCheck
<1>6. QED
  BY <1>2, <1>3, <1>4, <1>5

(* A ticker between two of its ticks, and when the next one comes. *)
LEMMA TickerBounds ==
  ASSUME NEW t \in Nat, NEW p \in Nat \ {0}
  PROVE  LastTick(t, p) \in Nat /\ LastTick(t, p) <= t /\ t < LastTick(t, p) + p
<1>1. t % p \in 0 .. p - 1 /\ t = p * (t \div p) + (t % p) /\ p * (t \div p) \in Nat
  OBVIOUS
<1>2. QED
  BY <1>1 DEF LastTick

LEMMA TickerStep ==
  ASSUME NEW t \in Nat, NEW p \in Nat \ {0}
  PROVE  /\ LastTick(t + 1, p) = IF (t + 1) % p = 0 THEN t + 1 ELSE LastTick(t, p)
         /\ (t + 1) % p = 0 <=> t + 1 = LastTick(t, p) + p
<1> DEFINE r == t % p  q == t \div p
<1>1. r \in 0 .. p - 1 /\ q \in Nat /\ t = p * q + r
  OBVIOUS
<1>2. ASSUME NEW a \in Nat, NEW n \in Nat, NEW s \in 0 .. p - 1, a = p * n + s PROVE a % p = s
  BY <1>2
<1> HIDE DEF r, q
<1>3. CASE r + 1 = p
  <2>1. t + 1 = p * (q + 1) + 0 /\ q + 1 \in Nat /\ 0 \in 0 .. p - 1 /\ t + 1 \in Nat
    BY <1>1, <1>3
  <2>2. (t + 1) % p = 0
    BY <1>2, <2>1
  <2>3. QED
    BY <1>1, <1>3, <2>2 DEF LastTick, r
<1>4. CASE r + 1 # p
  <2>1. t + 1 = p * q + (r + 1) /\ r + 1 \in 0 .. p - 1 /\ t + 1 \in Nat
    BY <1>1, <1>4
  <2>2. (t + 1) % p = r + 1
    BY <1>1, <1>2, <2>1
  <2>3. QED
    BY <1>1, <1>4, <2>2 DEF LastTick, r
<1>5. QED
  BY <1>3, <1>4

(* Of two instants a period lies between whose last ticks, the later has    *)
(* seen the tick after the last of the earlier.                             *)
LEMMA TickerOrder ==
  ASSUME NEW s \in Nat, NEW t \in Nat, NEW p \in Nat \ {0}, NEW n \in Nat,
         LastTick(s, p) + n * p <= t
  PROVE  LastTick(s, p) + n * p <= LastTick(t, p)
<1> DEFINE u == t % p  v == s % p  x == t \div p  y == s \div p
<1>1. /\ u \in 0 .. p - 1 /\ x \in Nat /\ t = p * x + u
      /\ v \in 0 .. p - 1 /\ y \in Nat /\ s = p * y + v
  OBVIOUS
<1>2. LastTick(s, p) = p * y /\ LastTick(t, p) = p * x
  BY <1>1 DEF LastTick
<1> HIDE DEF u, v, x, y
<1>3. p * y + n * p = p * (y + n) /\ y + n \in Nat
  BY <1>1
<1>4. p * (y + n) < p * (x + 1)
  <2>1. p * (x + 1) = p * x + p
    BY <1>1
  <2>2. p * (y + n) <= t
    BY <1>2, <1>3
  <2>3. QED
    BY <1>1, <1>3, <2>1, <2>2
<1>5. y + n <= x
  <2>1. \A a, b \in Nat : a >= b => p * a >= p * b
    OBVIOUS
  <2>2. y + n >= x + 1 => p * (y + n) >= p * (x + 1)
    BY <1>1, <1>3, <2>1
  <2>3. QED
    BY <1>1, <1>3, <1>4, <2>2
<1>6. p * (y + n) <= p * x
  <2>1. \A a, b \in Nat : a <= b => p * a <= p * b
    OBVIOUS
  <2>2. QED
    BY <1>1, <1>3, <1>5, <2>1
<1>7. QED
  BY <1>2, <1>3, <1>6

(* The hypothesis in numbers. *)
LEMMA Costs ==
  ASSUME KeepsUp
  PROVE  /\ MaxLag \in Nat /\ Window \in Nat /\ MaxTime \in Nat
         /\ Cardinality(Records) \in Nat
         /\ RefreshTime \in Nat /\ RefreshTime = Window + MaxLag
         /\ ExpireTime \in Nat
         /\ RefreshTime + ExpireTime < Interval
         /\ \A n \in Nat : n <= Cardinality(Records) => n * MaxLag <= ExpireTime
<1>1. MaxLag \in Nat /\ Window \in Nat /\ MaxTime \in Nat /\ Interval \in Nat
  BY TimingAssumption
<1>2. Cardinality(Records) \in Nat
  BY FS_CardinalityType DEF KeepsUp
<1>3. \A m, n \in Nat : m * MaxLag \in Nat /\ (n <= m => n * MaxLag <= m * MaxLag)
  BY <1>1
<1>4. Cardinality(Records) * MaxLag + Window + MaxLag < Interval
  BY DEF KeepsUp
<1> DEFINE N == Cardinality(Records)
<1> HIDE DEF N
<1>5. N \in Nat /\ N * MaxLag \in Nat /\ N * MaxLag + Window + MaxLag < Interval
  BY <1>2, <1>3, <1>4 DEF N
<1>6. ExpireTime = N * MaxLag /\ RefreshTime = Window + MaxLag
  BY DEF ExpireTime, RefreshTime, N
<1>7. QED
  BY <1>1, <1>2, <1>3, <1>5, <1>6 DEF N

(* The variables Scheduled is about as numbers. *)
LEMMA Clocks ==
  ASSUME IInv
  PROVE  clock \in Nat /\ since \in Nat /\ expiryC \in Nat
BY TimingAssumption DEF IInv, TypeOK

LEMMA ScheduledInit ==
  ASSUME Init, KeepsUp PROVE Scheduled
<1>1. /\ clock = 0 /\ loop = "select" /\ departed = {} /\ refreshC = FALSE /\ expiryC = 0
      /\ since = 0
  BY DEF Init
<1>2. InHand
  BY <1>1, FS_EmptySet DEF InHand, FreeAt, Init, Adders
<1>3. Busy(0) /\ 0 \in 0 .. clock
  <2>1. FreeAt = 0 /\ Pending = 0 /\ ~Refreshing /\ ~Expiring
    BY <1>1 DEF FreeAt, Pending, Refreshing, Expiring
  <2>2. Due(0) \in Nat
    BY Costs DEF Due
  <2>3. QED
    BY <1>1, <2>1, <2>2 DEF Busy
<1>4. QED
  BY <1>2, <1>3 DEF Scheduled

(* A step that leaves the loop and the clock alone. *)
LEMMA ScheduledSame ==
  ASSUME Scheduled,
         UNCHANGED <<clock, loop, departed, since, refreshC, expiryC, ctxDone>>,
         \/ adding'["refresh"] \in {Nothing, adding["refresh"]}
         \/ loop = "refresh" /\ adding'["refresh"].seen <= since + Window
  PROVE  Scheduled'
<1>1. ASSUME NEW b PROVE Busy(b)' <=> Busy(b)
  BY DEF Busy, Due, Pending, FreeAt, Refreshing, Expiring
<1>2. InHand => InHand'
  BY DEF InHand, FreeAt
<1>3. QED
  BY <1>1, <1>2 DEF Scheduled

LEMMA ScheduledTakeRefresh ==
  ASSUME IInv, Scheduled, KeepsUp, TakeRefresh PROVE Scheduled'
<1> SUFFICES ASSUME ~ctxDone PROVE InHand' /\ \E b \in 0 .. clock : Busy(b)'
  BY DEF TakeRefresh, Scheduled
<1>1. /\ loop = "select" /\ refreshC /\ refreshC' = FALSE /\ loop' = "refresh" /\ since' = clock
      /\ UNCHANGED <<clock, departed, expiryC, ctxDone, adding>>
  BY DEF TakeRefresh
<1>2. PICK b \in 0 .. clock : Busy(b)
  BY DEF Scheduled
<1>3. InHand /\ clock \in Nat /\ RefreshTime \in Nat /\ LastTick(clock, Interval) <= clock
  BY Clocks, Costs, Periods, TickerBounds DEF Scheduled
<1>4. InHand'
  <2>1. FreeAt' = clock + RefreshTime
    BY <1>1 DEF FreeAt
  <2>2. adding["refresh"] # Nothing => adding["refresh"].seen <= clock + Window
    BY <1>1, <1>3 DEF InHand
  <2>3. QED
    BY <1>1, <1>3, <2>1, <2>2 DEF InHand
<1>5. Busy(b)'
  <2>1. Due(b)' = Due(b)
    BY <1>1 DEF Due
  <2>2. Pending = Pending' + RefreshTime /\ Pending' \in Nat
    BY <1>1, Costs DEF Pending
  <2>3. FreeAt = clock /\ FreeAt' = clock + RefreshTime
    BY <1>1 DEF FreeAt
  <2>4. FreeAt' + Pending' = FreeAt + Pending
    BY <1>3, <2>2, <2>3
  <2>5. QED
    BY <1>1, <1>2, <2>1, <2>4 DEF Busy, Refreshing, Expiring
<1>6. QED
  BY <1>4, <1>5

LEMMA ScheduledRefreshDone ==
  ASSUME IInv, Scheduled, KeepsUp, RefreshDone PROVE Scheduled'
<1> SUFFICES ASSUME ~ctxDone PROVE InHand' /\ \E b \in 0 .. clock : Busy(b)'
  BY DEF RefreshDone, Scheduled
<1>1. /\ loop = "refresh" /\ loop' = "select" /\ since' = clock /\ adding["refresh"] = Nothing
      /\ UNCHANGED <<clock, departed, refreshC, expiryC, ctxDone, adding>>
  BY DEF RefreshDone, tickers
<1>2. PICK b \in 0 .. clock : Busy(b)
  BY DEF Scheduled
<1>3. InHand /\ clock \in Nat
  BY Clocks DEF Scheduled
<1>4. InHand'
  <2>1. FreeAt' = clock
    BY <1>1 DEF FreeAt
  <2>2. QED
    BY <1>1, <1>3, <2>1 DEF InHand
<1>5. Busy(b)'
  <2>1. Due(b)' = Due(b) /\ Pending' = Pending
    BY <1>1 DEF Due, Pending
  <2>2. FreeAt' = clock /\ clock <= FreeAt /\ FreeAt = since + RefreshTime
    BY <1>1, <1>3 DEF FreeAt, InHand
  <2>3. Pending \in Nat /\ Due(b) \in Nat /\ RefreshTime \in Nat /\ since \in Nat /\ b \in Nat
    BY <1>3, Clocks, Costs DEF Pending, Due
  <2>4. FreeAt' + Pending' <= b + Due(b)'
    <3>1. FreeAt + Pending <= b + Due(b)
      BY <1>2 DEF Busy
    <3>2. QED
      BY <1>3, <2>1, <2>2, <2>3, <3>1
  <2>5. QED
    BY <1>1, <1>2, <2>4 DEF Busy, Refreshing, Expiring
<1>6. QED
  BY <1>4, <1>5

(* expire reports no more services than there are records. *)
LEMMA DepartedCount ==
  ASSUME IInv, KeepsUp, TakeExpiry
  PROVE  /\ IsFiniteSet(departed')
         /\ Cardinality(departed') \in Nat /\ Cardinality(departed') <= Cardinality(Records)
<1> DEFINE gone == Expired(expiryC)
           f == [k \in gone |-> services[k]]
<1>1. gone \in SUBSET Records /\ departed' = {services[k] : k \in gone}
  BY DEF TakeExpiry, Expired
<1>2. IsFiniteSet(gone) /\ Cardinality(gone) <= Cardinality(Records)
  BY <1>1, FS_Subset DEF KeepsUp
<1> HIDE DEF gone
<1>3. f \in Surjection(gone, departed')
  BY <1>1 DEF Surjection
<1>4. IsFiniteSet(departed') /\ Cardinality(departed') <= Cardinality(gone)
  BY <1>2, <1>3, FS_Surjection
<1>5. Cardinality(departed') \in Nat /\ Cardinality(gone) \in Nat /\ Cardinality(Records) \in Nat
  BY <1>2, <1>4, FS_CardinalityType DEF KeepsUp
<1>6. QED
  BY <1>2, <1>4, <1>5

LEMMA ScheduledTakeExpiry ==
  ASSUME IInv, Scheduled, KeepsUp, TakeExpiry PROVE Scheduled'
<1> SUFFICES ASSUME ~ctxDone PROVE InHand' /\ \E b \in 0 .. clock : Busy(b)'
  BY DEF TakeExpiry, Scheduled
<1>1. /\ loop = "select" /\ loop' \in {"select", "expire"} /\ since' = clock
      /\ expiryC # 0 /\ expiryC' = 0
      /\ UNCHANGED <<clock, refreshC, ctxDone, adding>>
  BY DEF TakeExpiry
<1>2. PICK b \in 0 .. clock : Busy(b)
  BY DEF Scheduled
<1>3. InHand /\ clock \in Nat /\ MaxLag \in Nat
  BY Clocks, Costs DEF Scheduled
<1> DEFINE n == Cardinality(departed')
<1>4. /\ IsFiniteSet(departed') /\ n * MaxLag \in Nat /\ n * MaxLag <= ExpireTime
      /\ ExpireTime \in Nat
  <2>1. n \in Nat /\ n <= Cardinality(Records) /\ IsFiniteSet(departed')
    BY DepartedCount
  <2>2. \A m \in Nat : m * MaxLag \in Nat
    BY <1>3
  <2>3. QED
    BY <2>1, <2>2, Costs
<1>5. FreeAt' \in {clock, clock + n * MaxLag}
  BY <1>1 DEF FreeAt
<1> HIDE DEF n
<1>6. InHand'
  <2>1. clock <= FreeAt'
    BY <1>3, <1>4, <1>5
  <2>2. QED
    BY <1>1, <1>3, <1>4, <2>1 DEF InHand
<1>7. Busy(b)'
  <2>1. Due(b)' = Due(b) /\ FreeAt = clock
    BY <1>1 DEF Due, FreeAt
  <2>2. Pending = Pending' + ExpireTime /\ Pending' \in Nat
    BY <1>1, Costs DEF Pending
  <2>3. Due(b) \in Nat /\ b \in Nat
    BY <1>3, Costs DEF Due
  <2>4. FreeAt' + Pending' <= b + Due(b)'
    <3>1. FreeAt + Pending <= b + Due(b)
      BY <1>2 DEF Busy
    <3>2. QED
      BY <1>3, <1>4, <1>5, <2>1, <2>2, <2>3, <3>1
  <2>5. QED
    BY <1>1, <1>2, <2>4 DEF Busy, Refreshing, Expiring
<1>8. QED
  BY <1>6, <1>7

LEMMA ScheduledOnRemove ==
  ASSUME IInv, Scheduled, KeepsUp, NEW svc \in departed, OnRemove(svc) PROVE Scheduled'
<1> SUFFICES ASSUME ~ctxDone PROVE InHand' /\ \E b \in 0 .. clock : Busy(b)'
  BY DEF OnRemove, Scheduled
<1>1. /\ loop = "expire" /\ loop' = IF departed = {svc} THEN "select" ELSE "expire"
      /\ since' = clock /\ departed' = departed \ {svc}
      /\ UNCHANGED <<clock, refreshC, expiryC, ctxDone, adding>>
  BY DEF OnRemove, tickers
<1>2. PICK b \in 0 .. clock : Busy(b)
  BY DEF Scheduled
<1>3. /\ InHand /\ clock \in Nat /\ MaxLag \in Nat /\ since \in Nat
      /\ since <= clock /\ clock <= since + MaxLag
  BY <1>1, Clocks, Costs DEF Scheduled, InHand
<1> DEFINE n == Cardinality(departed)
<1>4. /\ IsFiniteSet(departed') /\ Cardinality(departed') = n - 1 /\ n \in Nat \ {0}
  BY <1>1, <1>3, FS_RemoveElement, FS_CardinalityType, FS_EmptySet DEF InHand
<1>5. FreeAt = since + n * MaxLag
  BY <1>1 DEF FreeAt
<1>6. FreeAt' \in {clock, clock + (n - 1) * MaxLag}
  BY <1>1, <1>4 DEF FreeAt
<1> HIDE DEF n
<1>7. n * MaxLag = (n - 1) * MaxLag + MaxLag /\ (n - 1) * MaxLag \in Nat
  BY <1>3, <1>4
<1> DEFINE rest == (n - 1) * MaxLag
<1>8. /\ rest \in Nat /\ FreeAt = since + (rest + MaxLag) /\ FreeAt' \in {clock, clock + rest}
  BY <1>5, <1>6, <1>7
<1> HIDE DEF rest
<1>9. clock <= FreeAt' /\ FreeAt' <= FreeAt /\ FreeAt' \in Nat /\ FreeAt \in Nat
  BY <1>3, <1>8
<1>10. InHand'
  BY <1>1, <1>3, <1>4, <1>9 DEF InHand
<1>11. Busy(b)'
  <2>1. Due(b)' = Due(b) /\ Pending' = Pending
    BY <1>1 DEF Due, Pending
  <2>2. Due(b) \in Nat /\ b \in Nat /\ Pending \in Nat
    BY <1>3, Costs DEF Due, Pending
  <2>3. FreeAt' + Pending' <= b + Due(b)'
    <3>1. FreeAt + Pending <= b + Due(b)
      BY <1>2 DEF Busy
    <3>2. QED
      BY <1>9, <2>1, <2>2, <3>1
  <2>4. QED
    BY <1>1, <1>2, <2>3 DEF Busy, Refreshing, Expiring
<1>12. QED
  BY <1>10, <1>11

(* What is in hand of a ticker is done with before it fires again.          *)
LEMMA BeforeNextTick ==
  ASSUME IInv, KeepsUp, InHand, ~ctxDone, NEW b \in 0 .. clock, Busy(b), Tick, loop # "select"
  PROVE  /\ loop \in {"refresh", "expire"} /\ FreeAt \in Nat /\ clock + 1 <= FreeAt
         /\ FreeAt <= b + RefreshTime + ExpireTime
         /\ Refreshing => clock + 1 < LastTick(clock, Interval) + Interval
         /\ Expiring => clock + 1 < LastTick(clock, expiryAgeCheck) + expiryAgeCheck
         /\ b < LastTick(clock, Interval) + Interval
<1>1. loop \in {"refresh", "expire"}
  BY DEF IInv, TypeOK, InHand
<1>2. /\ clock \in Nat /\ since \in Nat /\ MaxLag \in Nat /\ Window \in Nat
      /\ RefreshTime \in Nat /\ RefreshTime = Window + MaxLag /\ ExpireTime \in Nat /\ b \in Nat
      /\ RefreshTime + ExpireTime < Interval /\ Interval \in Nat
      /\ expiryAgeCheck \in Nat /\ Interval <= expiryAgeCheck
  BY Clocks, Costs, Periods
<1>3. FreeAt \in Nat /\ clock + 1 <= FreeAt
  <2>1. CASE loop = "refresh"
    <3>1. FreeAt = since + RefreshTime
      BY <2>1 DEF FreeAt
    <3>2. CASE clock < since + Window
      BY <1>2, <3>1, <3>2
    <3>3. CASE adding["refresh"] # Nothing
      <4>1. adding["refresh"].seen <= since + Window /\ clock < adding["refresh"].seen + MaxLag
        BY <3>3 DEF InHand, Tick, Adders
      <4>2. adding["refresh"].seen \in Nat
        BY <3>3, TimingAssumption DEF IInv, TypeOK, Adders, Service
      <4>3. QED
        BY <1>2, <3>1, <4>1, <4>2
    <3>4. QED
      BY <2>1, <3>2, <3>3 DEF Tick
  <2>2. CASE loop = "expire"
    <3> DEFINE n == Cardinality(departed)
    <3>1. FreeAt = since + n * MaxLag
      BY <2>2 DEF FreeAt
    <3>2. n \in Nat \ {0}
      BY <2>2, FS_CardinalityType, FS_EmptySet DEF InHand, IInv, InExpire
    <3> HIDE DEF n
    <3>3. n * MaxLag \in Nat /\ n * MaxLag >= MaxLag
      BY <1>2, <3>2
    <3>4. clock < since + MaxLag
      BY <2>2 DEF Tick
    <3>5. QED
      BY <1>2, <3>1, <3>3, <3>4
  <2>3. QED
    BY <1>1, <2>1, <2>2
<1>4. Pending \in Nat /\ Due(b) \in Nat /\ Due(b) <= RefreshTime + ExpireTime
  BY <1>2 DEF Pending, Due
<1>5. FreeAt <= b + RefreshTime + ExpireTime
  <2>1. FreeAt + Pending <= b + Due(b)
    BY DEF Busy
  <2>2. QED
    BY <1>2, <1>3, <1>4, <2>1
<1>6. /\ LastTick(clock, Interval) \in Nat /\ clock < LastTick(clock, Interval) + Interval
      /\ LastTick(clock, expiryAgeCheck) \in Nat
  BY <1>2, Periods, TickerBounds
<1>7. Refreshing => clock + 1 < LastTick(clock, Interval) + Interval
  <2>1. Refreshing => LastTick(clock, Interval) >= b
    BY DEF Busy
  <2>2. QED
    BY <1>2, <1>3, <1>5, <1>6, <2>1
<1>8. Expiring => clock + 1 < LastTick(clock, expiryAgeCheck) + expiryAgeCheck
  <2>1. Expiring => LastTick(clock, expiryAgeCheck) >= b
    BY DEF Busy
  <2>2. QED
    BY <1>2, <1>3, <1>5, <1>6, <2>1
<1>9. QED
  BY <1>1, <1>2, <1>3, <1>5, <1>6, <1>7, <1>8

LEMMA ScheduledTick ==
  ASSUME IInv, Scheduled, KeepsUp, Tick PROVE Scheduled'
<1>0. ~ctxDone /\ InHand
  BY DEF Tick, Scheduled
<1> SUFFICES InHand' /\ \E b \in 0 .. clock' : Busy(b)'
  BY DEF Scheduled
<1> DEFINE lr == LastTick(clock, Interval)
           le == LastTick(clock, expiryAgeCheck)
<1>1. /\ clock' = clock + 1 /\ clock \in Nat /\ since \in Nat /\ since <= clock
      /\ refreshC' = (refreshC \/ (clock + 1) % Interval = 0)
      /\ expiryC' = IF expiryC = 0 /\ (clock + 1) % expiryAgeCheck = 0
                    THEN clock + 1 ELSE expiryC
      /\ UNCHANGED <<loop, departed, since, adding>>
  BY <1>0, Clocks DEF Tick, loopVars, InHand
<1>2. /\ lr \in Nat /\ lr <= clock /\ clock < lr + Interval
      /\ LastTick(clock', Interval) = IF (clock + 1) % Interval = 0 THEN clock + 1 ELSE lr
      /\ (clock + 1) % Interval = 0 <=> clock + 1 = lr + Interval
  BY <1>1, Periods, TickerBounds, TickerStep
<1>3. /\ le \in Nat /\ le <= clock /\ clock < le + expiryAgeCheck
      /\ LastTick(clock', expiryAgeCheck)
            = IF (clock + 1) % expiryAgeCheck = 0 THEN clock + 1 ELSE le
      /\ (clock + 1) % expiryAgeCheck = 0 <=> clock + 1 = le + expiryAgeCheck
  BY <1>1, Periods, TickerBounds, TickerStep
<1>4. /\ RefreshTime \in Nat /\ ExpireTime \in Nat /\ RefreshTime + ExpireTime < Interval
      /\ Interval \in Nat /\ expiryAgeCheck \in Nat /\ expiryAgeCheck >= Interval
  BY Costs, Periods
<1> DEFINE fr == (clock + 1) % Interval = 0
           fe == (clock + 1) % expiryAgeCheck = 0
<1> HIDE DEF lr, le, fr, fe
<1>5. CASE loop = "select"
  <2>1. refreshC = FALSE /\ expiryC = 0 /\ adding["refresh"] = Nothing
    BY <1>0, <1>5 DEF Tick, InHand, IInv, TypeOK
  <2>2. FreeAt' = clock + 1
    BY <1>1, <1>5 DEF FreeAt
  <2>3. refreshC' = fr /\ expiryC' = IF fe THEN clock + 1 ELSE 0
    BY <1>1, <2>1 DEF fr, fe
  <2>4. LastTick(clock', Interval) = IF fr THEN clock + 1 ELSE lr
    BY <1>2 DEF fr
  <2>5. LastTick(clock', expiryAgeCheck) = IF fe THEN clock + 1 ELSE le
    BY <1>3 DEF fe
  <2>6. InHand'
    BY <1>0, <1>1, <1>5, <2>1, <2>2, <2>3, <2>5 DEF InHand
  <2>7. PICK now \in Nat : now = clock + 1
    BY <1>1
  <2>8. Busy(now)'
    <3>1. Due(now)' = (IF fr THEN RefreshTime ELSE 0) + (IF fe THEN ExpireTime ELSE 0)
      BY <1>1, <1>2, <1>3, <2>4, <2>5, <2>7 DEF Due
    <3>2. Pending' = (IF fr THEN RefreshTime ELSE 0) + (IF fe THEN ExpireTime ELSE 0)
      BY <1>1, <2>3 DEF Pending
    <3>3. /\ Refreshing' => LastTick(clock', Interval) >= now
          /\ Expiring' => LastTick(clock', expiryAgeCheck) >= now
      BY <1>1, <1>5, <2>3, <2>4, <2>5, <2>7 DEF Refreshing, Expiring
    <3>4. FreeAt' + Pending' <= now + Due(now)'
      BY <1>1, <1>4, <2>2, <2>7, <3>1, <3>2
    <3>5. QED
      BY <3>3, <3>4 DEF Busy
  <2>9. QED
    BY <1>1, <2>6, <2>7, <2>8
<1>6. CASE loop # "select"
  <2>1. PICK b \in 0 .. clock : Busy(b)
    BY <1>0 DEF Scheduled
  <2>2. /\ loop \in {"refresh", "expire"} /\ FreeAt \in Nat /\ clock + 1 <= FreeAt
        /\ FreeAt <= b + RefreshTime + ExpireTime
        /\ Refreshing => ~fr
        /\ Expiring => ~fe
        /\ b \in Nat
    <3>1. /\ loop \in {"refresh", "expire"} /\ FreeAt \in Nat /\ clock + 1 <= FreeAt
          /\ FreeAt <= b + RefreshTime + ExpireTime
          /\ Refreshing => clock + 1 < lr + Interval
          /\ Expiring => clock + 1 < le + expiryAgeCheck
      BY <1>0, <1>6, <2>1, BeforeNextTick DEF lr, le
    <3>2. QED
      BY <1>1, <1>2, <1>3, <1>4, <3>1 DEF fr, fe
  <2>3. FreeAt' = FreeAt
    BY <1>1, <2>2 DEF FreeAt
  <2>4. /\ LastTick(clock', Interval) = IF fr THEN clock + 1 ELSE lr
        /\ LastTick(clock', expiryAgeCheck) = IF fe THEN clock + 1 ELSE le
        /\ refreshC' = (refreshC \/ fr)
        /\ expiryC' = IF fe THEN clock + 1 ELSE expiryC
    BY <1>1, <1>2, <1>3, <2>2 DEF fr, fe, Expiring
  <2>5. InHand'
    <3>1. loop = "expire" => clock + 1 <= since + MaxLag
      BY <1>0, <1>1, Costs DEF Tick
    <3>2. loop = "refresh" => ~refreshC' /\ since >= LastTick(clock', Interval)
      BY <1>0, <2>2, <2>4 DEF InHand, Refreshing, IInv, TypeOK, lr
    <3>3. loop = "expire" => expiryC' = 0
      BY <1>0, <2>2, <2>4 DEF InHand, Expiring
    <3>4. expiryC' # 0 => expiryC' = LastTick(clock', expiryAgeCheck)
      BY <1>0, <2>4, <2>2 DEF InHand, le, Expiring
    <3>5. since <= clock + 1 /\ clock + 1 <= FreeAt'
      BY <1>1, <2>2, <2>3
    <3>6. QED
      BY <1>0, <1>1, <3>1, <3>2, <3>3, <3>4, <3>5 DEF InHand
  <2>6. Busy(b)'
    <3>1. clock + 1 >= b /\ (fr => lr < b) /\ (fe => le < b)
      <4>1. fr => clock + 1 = lr + Interval
        BY <1>2 DEF fr
      <4>2. fe => clock + 1 = le + expiryAgeCheck
        BY <1>3 DEF fe
      <4>3. QED
        BY <1>1, <1>2, <1>3, <1>4, <2>2, <4>1, <4>2
    <3>2. Due(b) = (IF lr >= b THEN RefreshTime ELSE 0) + (IF le >= b THEN ExpireTime ELSE 0)
      BY DEF Due, lr, le
    <3>3. Due(b)' = (IF fr \/ lr >= b THEN RefreshTime ELSE 0)
                      + (IF fe \/ le >= b THEN ExpireTime ELSE 0)
      BY <2>4, <3>1 DEF Due
    <3>4. Due(b)' = Due(b) + (IF fr THEN RefreshTime ELSE 0) + (IF fe THEN ExpireTime ELSE 0)
      BY <1>2, <1>3, <1>4, <2>2, <3>1, <3>2, <3>3
    <3>5. Pending' = Pending + (IF fr THEN RefreshTime ELSE 0) + (IF fe THEN ExpireTime ELSE 0)
      <4>1. /\ (fr => ~refreshC) /\ (fe => expiryC = 0)
        BY <2>2 DEF Refreshing, Expiring
      <4>2. (IF refreshC' THEN RefreshTime ELSE 0)
              = (IF refreshC THEN RefreshTime ELSE 0) + (IF fr THEN RefreshTime ELSE 0)
        <5>1. (fr => refreshC' /\ ~refreshC) /\ (~fr => (refreshC' <=> refreshC))
          BY <2>4, <4>1, Zenon
        <5>2. CASE fr
          BY <1>4, <5>1, <5>2
        <5>3. CASE ~fr
          BY <1>4, <5>1, <5>3
        <5>4. QED
          BY <5>2, <5>3
      <4>3. (IF expiryC' # 0 THEN ExpireTime ELSE 0)
              = (IF expiryC # 0 THEN ExpireTime ELSE 0) + (IF fe THEN ExpireTime ELSE 0)
        BY <1>1, <1>4, <2>4, <4>1
      <4>4. QED
        BY <1>4, <4>2, <4>3 DEF Pending
    <3>6. Pending \in Nat /\ Due(b) \in Nat /\ FreeAt + Pending <= b + Due(b)
      BY <1>4, <2>1 DEF Busy, Pending, Due
    <3>7. FreeAt' + Pending' <= b + Due(b)'
      BY <1>4, <2>2, <2>3, <3>4, <3>5, <3>6
    <3>8. Refreshing' => LastTick(clock', Interval) >= b
      BY <1>1, <2>1, <2>4, <3>1 DEF Busy, Refreshing, lr
    <3>9. Expiring' => LastTick(clock', expiryAgeCheck) >= b
      BY <1>1, <2>1, <2>4, <3>1 DEF Busy, Expiring, le
    <3>10. QED
      BY <3>7, <3>8, <3>9 DEF Busy
  <2>7. QED
    BY <1>1, <2>5, <2>6
<1>7. QED
  BY <1>5, <1>6

(* What a sighting does to the services and to the loop. *)
LEMMA Sighting ==
  ASSUME IInv, NEW k \in Records, NEW id \in Identities,
         BrowseEntry(k) \/ RefreshEntry(k) \/ Add(k, id)
  PROVE  /\ services'[k] # Nothing /\ services'[k].seen = clock /\ clock % Interval # 0
         /\ \A r \in Records \ {k} : services'[r] = services[r] /\ missed'[r] = missed[r]
         /\ UNCHANGED <<clock, loop, departed, since, refreshC, expiryC, ctxDone>>
         /\ \/ adding'["refresh"] \in {Nothing, adding["refresh"]}
            \/ loop = "refresh" /\ adding'["refresh"].seen <= since + Window
<1>1. /\ UNCHANGED <<clock, loop, departed, since, refreshC, expiryC, ctxDone>>
      /\ clock % Interval # 0
  BY DEF BrowseEntry, RefreshEntry, Add, Between, loopVars, tickers
<1>2. PICK t \in Adders, i \in Identities :
        /\ addService(t, k, i)
        /\ t = "refresh" => loop = "refresh" /\ clock <= since + Window
  <2>1. CASE BrowseEntry(k)
    BY <2>1 DEF BrowseEntry, Adders, IInv, TypeOK
  <2>2. CASE RefreshEntry(k)
    BY <2>2 DEF RefreshEntry, Adders, IInv, TypeOK
  <2>3. CASE Add(k, id)
    BY <2>3 DEF Add, Adders
  <2>4. QED
    BY <2>1, <2>2, <2>3
<1> DEFINE svc == [inst |-> k.inst, ep |-> k.ep, id |-> i, seen |-> clock,
                   disc |-> IF services[k] # Nothing THEN services[k].disc ELSE clock]
<1>3. /\ services' = [services EXCEPT ![k] = svc]
      /\ adding' = [adding EXCEPT ![t] = IF services[k] # Nothing THEN Nothing ELSE svc]
      /\ missed' = [missed EXCEPT ![k] = 0]
  BY <1>2 DEF addService
<1>4. svc \in Service /\ svc.seen = clock
  <2>1. k.inst \in Instances /\ k.ep \in Endpoints /\ clock \in 0 .. MaxTime
    BY DEF Records, IInv, TypeOK
  <2>2. services[k] # Nothing => services[k].disc \in 0 .. MaxTime
    BY DEF IInv, TypeOK, Service
  <2>3. QED
    BY <2>1, <2>2 DEF Service
<1> HIDE DEF svc
<1>5. services'[k] = svc /\ svc # Nothing
  BY <1>3, <1>4, NothingAssumption DEF IInv, TypeOK
<1>6. \A r \in Records \ {k} : services'[r] = services[r] /\ missed'[r] = missed[r]
  BY <1>3 DEF IInv, TypeOK
<1>7. adding'["refresh"] \in {Nothing, adding["refresh"]} \/ (t = "refresh" /\ adding'["refresh"] = svc)
  BY <1>3 DEF IInv, TypeOK, Adders
<1>8. QED
  BY <1>1, <1>2, <1>4, <1>5, <1>6, <1>7

LEMMA ScheduledNext ==
  ASSUME IInv, Scheduled, KeepsUp, [Next]_vars PROVE Scheduled'
<1>1. ASSUME NEW k \in Records, NEW id \in Identities,
             BrowseEntry(k) \/ RefreshEntry(k) \/ Add(k, id)
      PROVE  Scheduled'
  BY <1>1, Sighting, ScheduledSame
<1>2. ASSUME NEW k \in Records, NEW id \in Identities, Advertise(k, id) PROVE Scheduled'
  BY <1>2, ScheduledSame DEF Advertise, loopVars, tickers
<1>3. ASSUME NEW t \in Adders, OnChange(t) PROVE Scheduled'
  <2>1. adding'["refresh"] \in {Nothing, adding["refresh"]}
    BY <1>3 DEF OnChange, IInv, TypeOK, Adders
  <2>2. QED
    BY <1>3, <2>1, ScheduledSame DEF OnChange, loopVars, tickers
<1>4. CASE Cancel \/ Stop
  BY <1>4 DEF Cancel, Stop, Scheduled
<1>5. CASE Exited \/ UNCHANGED vars
  BY <1>5, ScheduledSame DEF Exited, vars
<1>6. ASSUME NEW k \in Records, Withdraw(k) PROVE Scheduled'
  BY <1>6, ScheduledSame DEF Withdraw, loopVars, tickers
<1>7. ASSUME NEW k \in Records, BrowseEntry(k) \/ RefreshEntry(k) PROVE Scheduled'
  <2>1. net[k] \in Identities
    BY <1>7 DEF BrowseEntry, RefreshEntry, IInv, TypeOK
  <2>2. QED
    BY <1>1, <1>7, <2>1
<1>8. QED
  BY <1>1, <1>2, <1>3, <1>4, <1>5, <1>6, <1>7, ScheduledTakeRefresh, ScheduledRefreshDone,
     ScheduledTakeExpiry, ScheduledOnRemove, ScheduledTick DEF Next

-----------------------------------------------------------------------------
(* The last refresh tick whose refresh is over. *)
Through == LastTick(clock, Interval) - (IF Refreshing THEN Interval ELSE 0)

(* The first refresh tick after the last sighting of record k. *)
NextRefresh(k) == LastTick(services[k].seen, Interval) + Interval

(* A refresh under way that record k has not answered yet. *)
Unanswered(k) == IF loop = "refresh" /\ services[k].seen <= since THEN 1 ELSE 0

(* The refreshes that are over since record k was last seen are counted,    *)
(* and if the tick in hand is going to expire it, two of them are.          *)
Counted(k) ==
  services[k] # Nothing =>
    /\ services[k].seen % Interval # 0
    /\ ~ctxDone => /\ Through >= NextRefresh(k) => missed[k] >= 1
                   /\ Through >= NextRefresh(k) + Interval => missed[k] >= 2
    /\ expiryC # 0 /\ expiryC >= services[k].seen + defaultExpiry
         => missed[k] + Unanswered(k) >= 2

MissesCounted == expiryC <= clock /\ \A k \in Records : Counted(k)

LEMMA Seen ==
  ASSUME IInv, NEW k \in Records, services[k] # Nothing
  PROVE  /\ services[k].seen \in Nat /\ services[k].seen <= clock
         /\ missed[k] \in Nat
         /\ LastTick(services[k].seen, Interval) \in Nat
         /\ services[k].seen < LastTick(services[k].seen, Interval) + Interval
         /\ LastTick(services[k].seen, Interval) <= services[k].seen
<1>1. services[k].seen \in Nat /\ services[k].seen <= clock /\ missed[k] \in Nat
  BY TimingAssumption DEF IInv, TypeOK, Service
<1>2. QED
  BY <1>1, Periods, TickerBounds

(* A step that touches neither the record nor the loop. *)
LEMMA CountedSame ==
  ASSUME NEW k \in Records, Counted(k), ctxDone => ctxDone',
         UNCHANGED <<clock, loop, since, refreshC, expiryC>>,
         services'[k] = services[k], missed'[k] = missed[k]
  PROVE  Counted(k)'
BY DEF Counted, Through, NextRefresh, Unanswered, Refreshing

LEMMA CountedSighting ==
  ASSUME IInv, MissesCounted, NEW k \in Records,
         services'[k] # Nothing, services'[k].seen = clock, clock % Interval # 0,
         UNCHANGED <<clock, loop, since, refreshC, expiryC>>
  PROVE  Counted(k)'
<1>1. clock \in Nat /\ expiryC \in Nat /\ expiryC <= clock
  BY Clocks DEF MissesCounted
<1>2. Interval \in Nat \ {0} /\ defaultExpiry \in Nat /\ defaultExpiry >= 2 * Interval
  BY Periods
<1>3. LastTick(clock, Interval) \in Nat
  BY <1>1, <1>2, TickerBounds
<1>4. NextRefresh(k)' = LastTick(clock, Interval) + Interval
  BY DEF NextRefresh
<1>5. Through' \in {LastTick(clock, Interval), LastTick(clock, Interval) - Interval}
  <2>1. Through' = LastTick(clock, Interval) - (IF Refreshing' THEN Interval ELSE 0)
    BY DEF Through
  <2>2. QED
    BY <1>2, <1>3, <2>1
<1>6. ~(Through' >= NextRefresh(k)') /\ ~(Through' >= NextRefresh(k)' + Interval)
  BY <1>2, <1>3, <1>4, <1>5
<1>7. ~(expiryC' >= services'[k].seen + defaultExpiry)
  BY <1>1, <1>2
<1>8. QED
  BY <1>6, <1>7 DEF Counted

LEMMA CountedRefreshDone ==
  ASSUME IInv, Scheduled, RefreshDone, NEW k \in Records, Counted(k)
  PROVE  Counted(k)'
<1> SUFFICES ASSUME services[k] # Nothing PROVE Counted(k)'
  BY DEF RefreshDone, Counted
<1>1. /\ loop = "refresh" /\ loop' = "select"
      /\ UNCHANGED <<clock, services, refreshC, expiryC, ctxDone>>
      /\ missed'[k] = IF services[k].seen <= since THEN missed[k] + 1 ELSE missed[k]
  BY DEF RefreshDone, tickers
<1>2. /\ services[k].seen \in Nat /\ missed[k] \in Nat /\ since \in Nat
      /\ LastTick(services[k].seen, Interval) \in Nat
      /\ services[k].seen < NextRefresh(k)
      /\ NextRefresh(k) = LastTick(services[k].seen, Interval) + Interval
      /\ Interval \in Nat
      /\ LastTick(clock, Interval) \in Nat
  BY Seen, Clocks, Periods, TickerBounds DEF NextRefresh
<1>3. missed'[k] + Unanswered(k)' = missed[k] + Unanswered(k)
  BY <1>1, <1>2 DEF Unanswered
<1>4. ASSUME ~ctxDone
      PROVE  /\ Through' >= NextRefresh(k)' => missed'[k] >= 1
             /\ Through' >= NextRefresh(k)' + Interval => missed'[k] >= 2
  <2>1. ~refreshC /\ since >= LastTick(clock, Interval)
    BY <1>1, <1>4 DEF Scheduled, InHand
  <2>2. /\ Through' = LastTick(clock, Interval) - 0
        /\ Through = LastTick(clock, Interval) - Interval
        /\ NextRefresh(k)' = NextRefresh(k)
    BY <1>1, <2>1 DEF Through, Refreshing, NextRefresh
  <2>3. Through >= NextRefresh(k) => missed[k] >= 1
    BY <1>4 DEF Counted
  <2>4. QED
    BY <1>1, <1>2, <2>1, <2>2, <2>3
<1>5. QED
  BY <1>1, <1>3, <1>4 DEF Counted

LEMMA CountedTakeRefresh ==
  ASSUME IInv, TakeRefresh, NEW k \in Records, Counted(k)
  PROVE  Counted(k)'
<1> SUFFICES ASSUME services[k] # Nothing PROVE Counted(k)'
  BY DEF TakeRefresh, Counted
<1>1. /\ loop = "select" /\ refreshC /\ (~ctxDone => loop' = "refresh")
      /\ UNCHANGED <<clock, services, expiryC, ctxDone, missed>>
  BY DEF TakeRefresh, history
<1>2. Unanswered(k) = 0 /\ Unanswered(k)' \in {0, 1} /\ missed[k] \in Nat
  BY <1>1, Seen DEF Unanswered
<1>3. ~ctxDone => Through' = Through /\ NextRefresh(k)' = NextRefresh(k)
  BY <1>1 DEF Through, Refreshing, NextRefresh
<1>4. missed[k] + Unanswered(k) >= 2 => missed'[k] + Unanswered(k)' >= 2
  BY <1>1, <1>2
<1>5. QED
  BY <1>1, <1>3, <1>4 DEF Counted

(* Steps of expire, and the end of the loop. *)
LEMMA CountedExpire ==
  ASSUME IInv, NEW k \in Records, Counted(k),
         TakeExpiry \/ Stop \/ \E svc \in departed : OnRemove(svc)
  PROVE  Counted(k)'
<1>1. /\ loop \in {"select", "expire"} /\ loop' \in {"select", "expire", "stopped"}
      /\ UNCHANGED <<clock, refreshC, ctxDone, missed>> /\ expiryC' \in {0, expiryC}
      /\ services'[k] \in {services[k], Nothing}
  BY DEF TakeExpiry, Stop, OnRemove, tickers, history, IInv, TypeOK
<1> SUFFICES ASSUME services'[k] = services[k] PROVE Counted(k)'
  BY <1>1 DEF Counted
<1>2. Unanswered(k)' = 0 /\ Unanswered(k) = 0
  BY <1>1 DEF Unanswered
<1>3. Through' = Through /\ NextRefresh(k)' = NextRefresh(k)
  BY <1>1 DEF Through, Refreshing, NextRefresh
<1>4. QED
  BY <1>1, <1>2, <1>3 DEF Counted

(* A ticker fires only when nothing of it is in hand. *)
LEMMA NothingInHand ==
  ASSUME IInv, Scheduled, KeepsUp, Tick
  PROVE  /\ (clock + 1) % Interval = 0 => ~Refreshing
         /\ (clock + 1) % expiryAgeCheck = 0 => ~Expiring
<1>1. CASE loop = "select"
  BY <1>1 DEF Tick, Refreshing, Expiring
<1>2. CASE loop # "select"
  <2>1. PICK b \in 0 .. clock : Busy(b)
    BY DEF Tick, Scheduled
  <2>2. /\ Refreshing => clock + 1 < LastTick(clock, Interval) + Interval
        /\ Expiring => clock + 1 < LastTick(clock, expiryAgeCheck) + expiryAgeCheck
    BY <1>2, <2>1, BeforeNextTick DEF Tick, Scheduled
  <2>3. /\ (clock + 1) % Interval = 0 => clock + 1 = LastTick(clock, Interval) + Interval
        /\ (clock + 1) % expiryAgeCheck = 0
             => clock + 1 = LastTick(clock, expiryAgeCheck) + expiryAgeCheck
    BY Clocks, Periods, TickerStep
  <2>4. clock + 1 \in Nat
    BY Clocks
  <2>5. QED
    BY <2>2, <2>3, <2>4
<1>3. QED
  BY <1>1, <1>2

LEMMA CountedTick ==
  ASSUME IInv, Scheduled, KeepsUp, Tick, NEW k \in Records, Counted(k)
  PROVE  Counted(k)'
<1> SUFFICES ASSUME services[k] # Nothing PROVE Counted(k)'
  BY DEF Tick, Counted
<1> DEFINE lr == LastTick(clock, Interval)
           seen == services[k].seen
           ls == LastTick(seen, Interval)
<1>1. /\ ~ctxDone /\ InHand /\ clock' = clock + 1
      /\ refreshC' = (refreshC \/ (clock + 1) % Interval = 0)
      /\ expiryC' = IF expiryC = 0 /\ (clock + 1) % expiryAgeCheck = 0
                    THEN clock + 1 ELSE expiryC
      /\ loop = "select" => ~refreshC
      /\ UNCHANGED <<services, missed, loop, since, ctxDone>>
  BY DEF Tick, Scheduled, loopVars, history
<1>2. /\ clock \in Nat /\ since \in Nat /\ Interval \in Nat \ {0}
      /\ defaultExpiry \in Nat /\ defaultExpiry >= 2 * Interval
  BY Clocks, Periods
<1>3. /\ seen \in Nat /\ missed[k] \in Nat /\ ls \in Nat /\ seen < ls + Interval
      /\ ls <= seen /\ NextRefresh(k) = ls + Interval
  BY Seen DEF NextRefresh
<1>4. /\ lr \in Nat
      /\ LastTick(clock', Interval) = IF (clock + 1) % Interval = 0 THEN clock + 1 ELSE lr
      /\ (clock + 1) % Interval = 0 <=> clock + 1 = lr + Interval
  BY <1>1, <1>2, TickerBounds, TickerStep
<1>5. Through' = Through
  <2>1. Refreshing' <=> Refreshing \/ (clock + 1) % Interval = 0
    BY <1>1 DEF Refreshing, IInv, TypeOK
  <2>2. CASE (clock + 1) % Interval = 0
    <3>1. ~Refreshing /\ Refreshing'
      BY <2>1, <2>2, NothingInHand
    <3>2. Through = lr - 0 /\ Through' = LastTick(clock', Interval) - Interval
      BY <3>1 DEF Through
    <3>3. QED
      BY <1>2, <1>4, <2>2, <3>2
  <2>3. CASE ~((clock + 1) % Interval = 0)
    <3>1. Refreshing' <=> Refreshing
      BY <2>1, <2>3
    <3>2. QED
      BY <1>4, <2>3, <3>1 DEF Through
  <2>4. QED
    BY <2>2, <2>3
<1>6. Unanswered(k)' = Unanswered(k) /\ NextRefresh(k)' = NextRefresh(k)
  BY <1>1 DEF Unanswered, NextRefresh
<1>7. CASE expiryC' = expiryC
  BY <1>1, <1>5, <1>6, <1>7 DEF Counted
<1>8. CASE expiryC' # expiryC
  <2>1. expiryC' = clock + 1 /\ ~Expiring
    BY <1>1, <1>8, NothingInHand
  <2> SUFFICES ASSUME clock + 1 >= seen + defaultExpiry PROVE missed[k] + Unanswered(k) >= 2
    BY <1>1, <1>5, <1>6, <2>1 DEF Counted
  <2>2. ls < seen
    <3>1. seen % Interval # 0 /\ seen % Interval \in Nat
      BY <1>2, <1>3 DEF Counted
    <3>2. QED
      BY <1>3, <3>1 DEF LastTick
  <2>3. ls + 2 * Interval <= lr
    <3>1. ls + 2 * Interval <= clock
      BY <1>2, <1>3, <2>2
    <3>2. QED
      BY <1>2, <1>3, <3>1, TickerOrder
  <2>4. /\ Through >= NextRefresh(k) => missed[k] >= 1
        /\ Through >= NextRefresh(k) + Interval => missed[k] >= 2
    BY <1>1 DEF Counted
  <2>5. CASE loop = "select"
    <3>1. Through = lr - 0 /\ Unanswered(k) = 0
      BY <1>1, <2>5 DEF Through, Refreshing, Unanswered
    <3>2. QED
      BY <1>2, <1>3, <1>4, <2>3, <2>4, <3>1
  <2>6. CASE loop = "refresh"
    <3>1. Through = lr - Interval /\ since >= lr
      BY <1>1, <2>6 DEF Through, Refreshing, InHand
    <3>2. Unanswered(k) = 1
      BY <1>2, <1>3, <1>4, <2>3, <2>6, <3>1 DEF Unanswered
    <3>3. QED
      BY <1>2, <1>3, <1>4, <2>3, <2>4, <3>1, <3>2
  <2>7. QED
    BY <1>1, <2>1, <2>5, <2>6 DEF Expiring, InHand, IInv, TypeOK
<1>9. QED
  BY <1>7, <1>8

LEMMA CountedNext ==
  ASSUME IInv, Scheduled, KeepsUp, MissesCounted, [Next]_vars PROVE MissesCounted'
<1>1. expiryC' <= clock'
  <2>1. expiryC \in Nat /\ clock \in Nat /\ expiryC <= clock
    BY Clocks DEF MissesCounted
  <2>2. \/ clock' = clock /\ expiryC' \in {0, expiryC}
        \/ clock' = clock + 1 /\ expiryC' \in {clock + 1, expiryC}
    BY DEF Next, Advertise, Withdraw, BrowseEntry, RefreshEntry, Add, OnChange, TakeRefresh,
           RefreshDone, TakeExpiry, OnRemove, Cancel, Stop, Exited, Tick, vars, tickers
  <2>3. QED
    BY <2>1, <2>2
<1>2. ASSUME NEW k \in Records PROVE Counted(k)'
  <2>0. Counted(k)
    BY DEF MissesCounted
  <2>1. ASSUME NEW r \in Records, NEW id \in Identities,
               BrowseEntry(r) \/ RefreshEntry(r) \/ Add(r, id)
        PROVE  Counted(k)'
    <3>1. CASE r = k
      BY <2>1, <3>1, Sighting, CountedSighting
    <3>2. CASE r # k
      BY <2>0, <2>1, <3>2, Sighting, CountedSame
    <3>3. QED
      BY <3>1, <3>2
  <2>2. ASSUME NEW r \in Records, BrowseEntry(r) \/ RefreshEntry(r) PROVE Counted(k)'
    <3>1. net[r] \in Identities
      BY <2>2 DEF BrowseEntry, RefreshEntry, IInv, TypeOK
    <3>2. QED
      BY <2>1, <2>2, <3>1
  <2>3. CASE \/ \E r \in Records, id \in Identities : Advertise(r, id)
             \/ \E r \in Records : Withdraw(r)
             \/ \E t \in Adders : OnChange(t)
             \/ Cancel \/ Exited \/ UNCHANGED vars
    <3>1. /\ ctxDone => ctxDone'
          /\ UNCHANGED <<clock, loop, since, refreshC, expiryC, services, missed>>
      BY <2>3 DEF Advertise, Withdraw, OnChange, Cancel, Exited, vars, loopVars, tickers, history
    <3>2. QED
      BY <2>0, <3>1, CountedSame
  <2>4. CASE TakeExpiry \/ Stop \/ \E svc \in departed : OnRemove(svc)
    BY <2>0, <2>4, CountedExpire
  <2>5. CASE TakeRefresh
    BY <2>0, <2>5, CountedTakeRefresh
  <2>6. CASE RefreshDone
    BY <2>0, <2>6, CountedRefreshDone
  <2>7. CASE Tick
    BY <2>0, <2>7, CountedTick
  <2>8. QED
    BY <2>1, <2>2, <2>3, <2>4, <2>5, <2>6, <2>7 DEF Next
<1>3. QED
  BY <1>1, <1>2 DEF MissesCounted

-----------------------------------------------------------------------------
(* A record that was old enough at the last expiry tick and is still held   *)
(* is going to be dropped by that tick, the first it was old enough at.     *)
Detected ==
  \A k \in Records :
    /\ services[k] # Nothing /\ ~ctxDone
    /\ LastTick(clock, expiryAgeCheck) >= services[k].seen + defaultExpiry
    => /\ expiryC # 0
       /\ LastTick(clock, expiryAgeCheck) < services[k].seen + defaultExpiry + expiryAgeCheck

LEMMA DetectedNext ==
  ASSUME IInv, Scheduled, KeepsUp, Detected, [Next]_vars PROVE Detected'
<1> SUFFICES ASSUME NEW k \in Records, services'[k] # Nothing, ~ctxDone',
                    LastTick(clock', expiryAgeCheck) >= services'[k].seen + defaultExpiry
             PROVE  /\ expiryC' # 0
                    /\ LastTick(clock', expiryAgeCheck)
                         < services'[k].seen + defaultExpiry + expiryAgeCheck
  BY DEF Detected
<1> DEFINE le == LastTick(clock, expiryAgeCheck)
<1>0. /\ clock \in Nat /\ expiryAgeCheck \in Nat \ {0} /\ defaultExpiry \in Nat \ {0}
      /\ le \in Nat /\ le <= clock /\ clock < le + expiryAgeCheck
  BY Clocks, Periods, TickerBounds
<1>1. ASSUME NEW r \in Records, NEW id \in Identities,
             BrowseEntry(r) \/ RefreshEntry(r) \/ Add(r, id)
      PROVE  expiryC' # 0 /\ LastTick(clock', expiryAgeCheck)
                               < services'[k].seen + defaultExpiry + expiryAgeCheck
  <2>1. /\ UNCHANGED <<clock, expiryC, ctxDone>>
        /\ services'[k] = services[k] \/ services'[k].seen = clock
    BY <1>1, Sighting
  <2>2. services'[k] = services[k]
    BY <1>0, <2>1
  <2>3. QED
    BY <2>1, <2>2 DEF Detected
<1>2. ASSUME NEW r \in Records, BrowseEntry(r) \/ RefreshEntry(r)
      PROVE  expiryC' # 0 /\ LastTick(clock', expiryAgeCheck)
                               < services'[k].seen + defaultExpiry + expiryAgeCheck
  <2>1. net[r] \in Identities
    BY <1>2 DEF BrowseEntry, RefreshEntry, IInv, TypeOK
  <2>2. QED
    BY <1>1, <1>2, <2>1
<1>3. CASE TakeExpiry
  <2>1. /\ UNCHANGED <<clock, ctxDone>> /\ k \notin Expired(expiryC)
        /\ services'[k] = services[k] /\ expiryC # 0
    BY <1>3 DEF TakeExpiry
  <2>2. expiryC = le
    BY <2>1 DEF Scheduled, InHand
  <2>3. ~(le >= services[k].seen + defaultExpiry)
    BY <2>1, <2>2 DEF Expired
  <2>4. QED
    BY <2>1, <2>3
<1>4. CASE Tick
  <2>1. /\ clock' = clock + 1 /\ UNCHANGED <<services, ctxDone>>
        /\ expiryC' = IF expiryC = 0 /\ (clock + 1) % expiryAgeCheck = 0
                      THEN clock + 1 ELSE expiryC
    BY <1>4 DEF Tick
  <2>2. /\ LastTick(clock', expiryAgeCheck)
              = IF (clock + 1) % expiryAgeCheck = 0 THEN clock + 1 ELSE le
        /\ (clock + 1) % expiryAgeCheck = 0 <=> clock + 1 = le + expiryAgeCheck
    BY <1>0, <2>1, TickerStep
  <2>3. CASE (clock + 1) % expiryAgeCheck = 0
    <3>1. expiryC = 0
      BY <1>4, <2>3, NothingInHand DEF Expiring
    <3>2. le < services[k].seen + defaultExpiry
      <4>1. services[k].seen \in Nat
        BY <2>1, Seen
      <4>2. QED
        BY <1>0, <2>1, <3>1, <4>1 DEF Detected
    <3>3. services[k].seen \in Nat
      BY <2>1, Seen
    <3>4. QED
      BY <1>0, <2>1, <2>2, <2>3, <3>1, <3>2, <3>3
  <2>4. CASE ~((clock + 1) % expiryAgeCheck = 0)
    BY <2>1, <2>2, <2>4 DEF Detected
  <2>5. QED
    BY <2>3, <2>4
<1>5. CASE \/ \E r \in Records, id \in Identities : Advertise(r, id)
           \/ \E r \in Records : Withdraw(r)
           \/ \E t \in Adders : OnChange(t)
           \/ TakeRefresh \/ RefreshDone \/ \E svc \in departed : OnRemove(svc)
           \/ Cancel \/ Stop \/ Exited \/ UNCHANGED vars
  <2>1. UNCHANGED <<clock, services, expiryC>> /\ ~ctxDone
    BY <1>5 DEF Advertise, Withdraw, OnChange, TakeRefresh, RefreshDone, OnRemove, Cancel, Stop,
                Exited, vars, loopVars, tickers, history
  <2>2. QED
    BY <2>1 DEF Detected
<1>6. QED
  BY <1>1, <1>2, <1>3, <1>4, <1>5 DEF Next

(* The tick that drops an old record waits for one refresh at most. *)
LEMMA WaitsForOneRefresh ==
  ASSUME IInv, Scheduled, KeepsUp, Detected,
         NEW k \in Records, services[k] # Nothing, ~ctxDone
  PROVE  /\ services[k].seen \in Nat
         /\ clock <= services[k].seen + defaultExpiry + expiryAgeCheck + RefreshTime
<1> DEFINE le == LastTick(clock, expiryAgeCheck)
           seen == services[k].seen
<1>1. /\ clock \in Nat /\ expiryAgeCheck \in Nat \ {0} /\ defaultExpiry \in Nat
      /\ le \in Nat /\ clock < le + expiryAgeCheck /\ seen \in Nat
      /\ RefreshTime \in Nat /\ ExpireTime \in Nat /\ since \in Nat
  BY Clocks, Costs, Periods, TickerBounds, Seen
<1>2. CASE le < seen + defaultExpiry
  BY <1>1, <1>2
<1>3. CASE ~(le < seen + defaultExpiry)
  <2>1. expiryC # 0 /\ le < seen + defaultExpiry + expiryAgeCheck
    BY <1>1, <1>3 DEF Detected
  <2>2. PICK b \in 0 .. clock : Busy(b)
    BY DEF Scheduled
  <2>3. le >= b /\ FreeAt + Pending <= b + Due(b) /\ clock <= FreeAt
    BY <2>1, <2>2 DEF Busy, Expiring, Scheduled, InHand
  <2>4. /\ Due(b) \in Nat /\ Due(b) <= RefreshTime + ExpireTime
        /\ Pending \in Nat /\ Pending >= ExpireTime /\ b \in Nat
    BY <1>1, <2>1 DEF Due, Pending
  <2>5. FreeAt \in Nat
    <3>1. loop \in {"select", "refresh"}
      BY <2>1 DEF Scheduled, InHand, IInv, TypeOK
    <3>2. QED
      BY <1>1, <3>1 DEF FreeAt
  <2>6. clock <= le + RefreshTime
    BY <1>1, <2>3, <2>4, <2>5
  <2>7. QED
    BY <1>1, <2>1, <2>6
<1>4. QED
  BY <1>2, <1>3

LEMMA DetectedInTime ==
  ASSUME IInv, Scheduled, KeepsUp, Detected PROVE DetectionBounded
<1> SUFFICES ASSUME NEW k \in Records, services[k] # Nothing, ~ctxDone
             PROVE  clock <= services[k].seen + LongestUnseen
  BY DEF DetectionBounded
<1>1. /\ clock \in Nat /\ expiryAgeCheck \in Nat /\ defaultExpiry \in Nat
      /\ ExpireTime \in Nat /\ RefreshTime = Window + MaxLag
      /\ Window \in Nat /\ MaxLag \in Nat
  BY Clocks, Costs, Periods
<1>2. ExpireTime >= MaxLag
  <2>1. Cardinality(Records) \in Nat \ {0}
    BY FS_CardinalityType, FS_EmptySet DEF KeepsUp
  <2>2. 1 * MaxLag <= ExpireTime
    BY <2>1, Costs
  <2>3. QED
    BY <1>1, <2>2
<1>3. LongestUnseen = defaultExpiry + expiryAgeCheck + Window + ExpireTime
  BY DEF LongestUnseen, ExpireTime
<1>4. QED
  BY <1>1, <1>2, <1>3, WaitsForOneRefresh

(* A record that is being reported departed is not much older. *)
DepartedInTime ==
  \A svc \in departed : ~ctxDone => FreeAt <= svc.seen + LongestUnseen + MaxLag

LEMMA DepartedInTimeNext ==
  ASSUME IInv, Scheduled, KeepsUp, Detected, DepartedInTime, [Next]_vars PROVE DepartedInTime'
<1> SUFFICES ASSUME NEW svc \in departed', ~ctxDone'
             PROVE  FreeAt' <= svc.seen + LongestUnseen + MaxLag
  BY DEF DepartedInTime
<1>1. CASE TakeExpiry
  <2>1. PICK k \in Records : services[k] # Nothing /\ svc = services[k]
    BY <1>1 DEF TakeExpiry, Expired
  <2>2. /\ svc.seen \in Nat
        /\ clock <= svc.seen + defaultExpiry + expiryAgeCheck + RefreshTime
    BY <1>1, <2>1, WaitsForOneRefresh DEF TakeExpiry
  <2> DEFINE n == Cardinality(departed')
  <2>3. n * MaxLag <= ExpireTime /\ n * MaxLag \in Nat
    <3>1. n \in Nat /\ n <= Cardinality(Records)
      BY <1>1, DepartedCount
    <3>2. \A m \in Nat : m * MaxLag \in Nat
      BY Costs
    <3>3. QED
      BY <3>1, <3>2, Costs
  <2>4. FreeAt' \in {clock, clock + n * MaxLag}
    BY <1>1 DEF FreeAt, TakeExpiry
  <2> HIDE DEF n
  <2>5. LongestUnseen = defaultExpiry + expiryAgeCheck + Window + ExpireTime
    BY DEF LongestUnseen, ExpireTime
  <2>6. /\ clock \in Nat /\ expiryAgeCheck \in Nat /\ defaultExpiry \in Nat
        /\ ExpireTime \in Nat /\ RefreshTime = Window + MaxLag
        /\ Window \in Nat /\ MaxLag \in Nat
    BY Clocks, Costs, Periods
  <2>7. QED
    BY <2>2, <2>3, <2>4, <2>5, <2>6
<1>2. ASSUME NEW gone \in departed, OnRemove(gone)
      PROVE  FreeAt' <= svc.seen + LongestUnseen + MaxLag
  <2>1. /\ loop = "expire" /\ loop' \in {"select", "expire"} /\ since' = clock
        /\ clock' = clock /\ departed' = departed \ {gone} /\ ~ctxDone
    BY <1>2 DEF OnRemove
  <2>2. /\ InHand /\ clock \in Nat /\ MaxLag \in Nat /\ since \in Nat
        /\ clock <= since + MaxLag
    BY <2>1, Clocks, Costs DEF Scheduled, InHand
  <2> DEFINE n == Cardinality(departed)
  <2>3. Cardinality(departed') = n - 1 /\ n \in Nat \ {0}
    BY <2>1, <2>2, FS_RemoveElement, FS_CardinalityType, FS_EmptySet DEF InHand
  <2>4. /\ FreeAt = since + n * MaxLag
        /\ FreeAt' \in {clock, clock + (n - 1) * MaxLag}
    BY <2>1, <2>3 DEF FreeAt
  <2> HIDE DEF n
  <2>5. n * MaxLag = (n - 1) * MaxLag + MaxLag /\ (n - 1) * MaxLag \in Nat
    BY <2>2, <2>3
  <2>6. FreeAt' <= FreeAt /\ FreeAt' \in Nat /\ FreeAt \in Nat
    BY <2>2, <2>4, <2>5
  <2>7. FreeAt <= svc.seen + LongestUnseen + MaxLag
    BY <2>1 DEF DepartedInTime
  <2>8. svc.seen \in Nat /\ LongestUnseen \in Nat
    <3>1. LongestUnseen = defaultExpiry + expiryAgeCheck + Window + ExpireTime
      BY DEF LongestUnseen, ExpireTime
    <3>2. QED
      BY <2>1, <3>1, Costs, Periods, TimingAssumption DEF IInv, TypeOK, Service
  <2>9. QED
    BY <2>2, <2>6, <2>7, <2>8
<1>3. ASSUME ~TakeExpiry, \A gone \in departed : ~OnRemove(gone)
      PROVE  FreeAt' <= svc.seen + LongestUnseen + MaxLag
  <2>1. departed' = departed /\ ~ctxDone
    BY <1>3 DEF Next, Advertise, Withdraw, BrowseEntry, RefreshEntry, Add, OnChange, TakeRefresh,
           RefreshDone, Cancel, Stop, Exited, Tick, vars, loopVars
  <2>2. loop = "expire" /\ loop # "stopped"
    BY <2>1 DEF IInv, InExpire
  <2>3. loop' = loop /\ since' = since
    BY <1>3, <2>1, <2>2 DEF Next, Advertise, Withdraw, BrowseEntry, RefreshEntry, Add, OnChange,
           TakeRefresh, RefreshDone, Cancel, Stop, Exited, Tick, vars, loopVars
  <2>4. FreeAt' = FreeAt
    BY <2>1, <2>2, <2>3 DEF FreeAt
  <2>5. QED
    BY <2>1, <2>4 DEF DepartedInTime
<1>4. QED
  BY <1>1, <1>2, <1>3

(* A record is dropped by expire alone. *)
LEMMA DroppedLate ==
  ASSUME IInv, MissesCounted, [Next]_vars, NEW k \in Records,
         services[k] # Nothing, services'[k] = Nothing
  PROVE  missed[k] >= 2
<1>1. ASSUME NEW r \in Records, NEW id \in Identities,
             BrowseEntry(r) \/ RefreshEntry(r) \/ Add(r, id)
      PROVE  FALSE
  BY <1>1, Sighting
<1>2. ASSUME NEW r \in Records, BrowseEntry(r) \/ RefreshEntry(r) PROVE FALSE
  <2>1. net[r] \in Identities
    BY <1>2 DEF BrowseEntry, RefreshEntry, IInv, TypeOK
  <2>2. QED
    BY <1>1, <1>2, <2>1
<1>3. CASE TakeExpiry
  <2>1. k \in Expired(expiryC) /\ loop = "select" /\ expiryC # 0
    BY <1>3 DEF TakeExpiry
  <2>2. missed[k] + Unanswered(k) >= 2 /\ Unanswered(k) = 0 /\ missed[k] \in Nat
    BY <2>1, Seen DEF MissesCounted, Counted, Expired, Unanswered
  <2>3. QED
    BY <2>2
<1>4. QED
  BY <1>1, <1>2, <1>3 DEF Next, Advertise, Withdraw, OnChange, TakeRefresh, RefreshDone,
     OnRemove, Cancel, Stop, Exited, Tick, vars, history

(* The inductive invariant about time. *)
TimedInv == IInv /\ Scheduled /\ MissesCounted /\ Detected /\ DepartedInTime

(* It holds of every behaviour of a browser that keeps up with its tickers. *)
THEOREM TimedInvariance == ASSUME KeepsUp PROVE Spec => []TimedInv
<1>1. Init => TimedInv
  <2> SUFFICES ASSUME Init PROVE TimedInv
    OBVIOUS
  <2>1. IInv /\ Scheduled
    BY InitInv, ScheduledInit
  <2>2. MissesCounted /\ Detected /\ DepartedInTime
    BY DEF Init, MissesCounted, Counted, Detected, DepartedInTime
  <2>3. QED
    BY <2>1, <2>2 DEF TimedInv
<1>2. TimedInv /\ [Next]_vars => TimedInv'
  BY Inductive, ScheduledNext, CountedNext, DetectedNext, DepartedInTimeNext DEF TimedInv
<1>3. QED
  BY <1>1, <1>2, PTL DEF Spec

(* "half of it bounds the detection delay" (expiryAgeCheck): however        *)
(* refreshes, expiries and callbacks interleave in the loop of Start, a     *)
(* departed record is held no longer than the expiry, one check period and  *)
(* what the loop may be busy with.                                          *)
THEOREM DetectionInTime == ASSUME KeepsUp PROVE Spec => []DetectionBounded
<1>1. TimedInv => DetectionBounded
  BY DetectedInTime DEF TimedInv
<1>2. QED
  BY <1>1, TimedInvariance, PTL

(* "Two refresh intervals gives one missed refresh of slack"                *)
(* (defaultExpiry): no record is dropped before two refreshes in a row were *)
(* over without an answer of it, whichever ready tick select serves first.  *)
THEOREM SlackOfOneRefresh == ASSUME KeepsUp PROVE Spec => OneMissTolerated
<1> DEFINE Slack == \A k \in Records :
                      services[k] # Nothing /\ services'[k] = Nothing => missed[k] >= 2
<1>1. TimedInv /\ [Next]_vars => [Slack]_vars
  BY DroppedLate DEF TimedInv
<1>2. QED
  BY <1>1, TimedInvariance, PTL DEF Spec, OneMissTolerated

(* "reports each one through OnRemove" (expire): a dropped record waits for *)
(* its callback no longer than the callbacks of one expiry take.            *)
THEOREM DepartureInTime == ASSUME KeepsUp PROVE Spec => []DepartureBounded
<1>1. TimedInv => DepartureBounded
  <2> SUFFICES ASSUME TimedInv, NEW svc \in departed, ~ctxDone
               PROVE  clock <= svc.seen + LongestUnseen + MaxLag
    BY DEF DepartureBounded
  <2>1. loop = "expire" /\ clock <= FreeAt /\ FreeAt <= svc.seen + LongestUnseen + MaxLag
    BY DEF TimedInv, Scheduled, InHand, DepartedInTime, IInv, InExpire
  <2>2. clock \in Nat /\ svc.seen \in Nat /\ LongestUnseen \in Nat /\ MaxLag \in Nat
    <3>1. LongestUnseen = defaultExpiry + expiryAgeCheck + Window + ExpireTime
      BY DEF LongestUnseen, ExpireTime
    <3>2. QED
      BY <3>1, Clocks, Costs, Periods, TimingAssumption DEF TimedInv, IInv, TypeOK, Service
  <2>3. FreeAt \in Nat
    <3>1. FreeAt = since + Cardinality(departed) * MaxLag
      BY <2>1 DEF FreeAt
    <3>2. Cardinality(departed) \in Nat /\ since \in Nat
      BY FS_CardinalityType, Clocks DEF TimedInv, Scheduled, InHand
    <3>3. QED
      BY <2>2, <3>1, <3>2
  <2>4. QED
    BY <2>1, <2>2, <2>3
<1>2. QED
  BY <1>1, TimedInvariance, PTL
=============================================================================
