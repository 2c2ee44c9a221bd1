------------------------------- MODULE Browser -------------------------------
(***************************************************************************)
(* The continuous mDNS browser, internal/mdns/browser.go.                  *)
(*                                                                         *)
(* One service type is modelled: the types are browsed by goroutines of    *)
(* their own and meet only in the loop of Start.  The goroutines that add  *)
(* records are the continuous browse ("browse"), the goroutine of the      *)
(* current refresh ("refresh") and the main goroutine, which seeds records *)
(* found by other means through Add ("main").  The loop of Start ("loop")  *)
(* runs the refreshes and the expiries, one at a time.  Browser.mu only    *)
(* covers map accesses, so its critical sections are single steps; the     *)
(* callbacks onChange and onRemove run after it is released and are steps  *)
(* of their own.                                                           *)
(*                                                                         *)
(* Time is counted in units.  A record is never sighted in the very unit   *)
(* in which a ticker fires: real timestamps do not coincide.               *)
(***************************************************************************)
EXTENDS Integers, FiniteSets, FiniteSetsExt

CONSTANTS
  Instances,   \* names of records (Service.Name), as their sort ranks
  Endpoints,   \* host:port addresses, as their sort ranks
  Identities,  \* TXT records
  Seeds,       \* records the seeding goroutine adds
  Interval,    \* BrowserOptions.Interval
  MinExpiry,   \* minExpiry
  Window,      \* livenessWindow: how long a refresh listens
  MaxLag,      \* timing assumption: a callback returns within so many units
  MaxTime,     \* bound of the clock
  Nothing      \* no record / no callback under way

Records == [inst : Instances, ep : Endpoints]
Adders  == {"browse", "refresh", "main"}

defaultExpiry  == Max({2 * Interval, MinExpiry})
expiryAgeCheck == Max({defaultExpiry \div 2, 1})

Service == [inst : Instances, ep : Endpoints, id : Identities,
            disc : 0 .. MaxTime, seen : 0 .. MaxTime]

ASSUME TimingAssumption ==
  /\ Interval \in Nat \ {0} /\ MinExpiry \in Nat /\ Window \in Nat \ {0}
  /\ MaxLag \in Nat /\ MaxTime \in Nat
ASSUME RecordsAssumption ==
  Instances \subseteq Nat \ {0} /\ Endpoints \subseteq Nat /\ Seeds \subseteq Records
ASSUME NothingAssumption == Nothing \notin Service /\ Nothing \notin Identities

VARIABLES
  clock,
  net,          \* external: what each record's host advertises, or Nothing
  heard,        \* external: what the open resolver has already delivered
  services,     \* Browser.services, keyed by recordKey
  adding,       \* the service each adder is reporting through onChange
  loop,         \* where the loop of Start is
  departed,     \* expire: services still to be reported through onRemove
  refreshC,     \* refresh.C holds a tick
  expiryC,      \* the time of the tick in expiry.C, or 0
  since,        \* when the loop began what it is doing
  answered,     \* records the current refresh has resolved
  toSeed,       \* records still to be seeded
  ctxDone,      \* the context of Start is canceled
  reports,      \* history: onChange calls minus onRemove calls per record
  missed        \* history: refreshes in a row a held record did not answer

envVars    == <<net, heard>>
tickers    == <<refreshC, expiryC>>
loopVars   == <<loop, departed, since, answered>>
history    == <<reports, missed>>
vars == <<clock, net, heard, services, adding, loop, departed, refreshC,
          expiryC, since, answered, toSeed, ctxDone, reports, missed>>

Init ==
  /\ clock    = 0
  /\ net      = [k \in Records |-> Nothing]
  /\ heard    = {}
  /\ services = [k \in Records |-> Nothing]
  /\ adding   = [t \in Adders |-> Nothing]
  /\ loop     = "select"
  /\ departed = {}
  /\ refreshC = FALSE
  /\ expiryC  = 0
  /\ since    = 0
  /\ answered = {}
  /\ toSeed   = Seeds
  /\ ctxDone  = FALSE
  /\ reports  = [k \in Records |-> 0]
  /\ missed   = [k \in Records |-> 0]

-----------------------------------------------------------------------------
(* A record is its name with its address.  The name of an mDNS record is its *)
(* full DNS-SD name, that of a seed is as the seed gave it: the two are     *)
(* different members of Instances, whatever instance label they stand for.  *)
recordKey(svc) == [inst |-> svc.inst, ep |-> svc.ep]

(* expire reports departed services in the order of their names.            *)
KeyBefore(a, b) == a.inst < b.inst \/ (a.inst = b.inst /\ a.ep <= b.ep)

(* No ticker fires in this unit, so a sighting may. *)
Between == clock % Interval # 0 /\ clock % expiryAgeCheck # 0

(* MUTANT of addService: LastSeen is not stamped. *)
addServiceUnstamped(t, k, id) ==
  LET found == services[k] # Nothing
      svc   == [inst |-> k.inst, ep |-> k.ep, id |-> id, seen |-> 0,
                disc |-> IF found THEN services[k].disc ELSE clock]
  IN /\ services' = [services EXCEPT ![k] = svc]
     /\ adding'   = [adding EXCEPT ![t] = IF found THEN Nothing ELSE svc]
     /\ missed'   = [missed EXCEPT ![k] = 0]

(* MUTANT of addService: every sighting is reported as a new record. *)
addServiceReportsAll(t, k, id) ==
  LET svc == [inst |-> k.inst, ep |-> k.ep, id |-> id, seen |-> clock, disc |-> clock]
  IN /\ services' = [services EXCEPT ![k] = svc]
     /\ adding'   = [adding EXCEPT ![t] = svc]
     /\ missed'   = [missed EXCEPT ![k] = 0]

(* addService by goroutine t: the record is stored with its LastSeen; only  *)
(* a record that was not held goes on to onChange.                          *)
addService(t, k, id) ==
  LET found == services[k] # Nothing
      svc   == [inst |-> k.inst, ep |-> k.ep, id |-> id, seen |-> clock,
                disc |-> IF found THEN services[k].disc ELSE clock]
  IN /\ services' = [services EXCEPT ![k] = svc]
     /\ adding'   = [adding EXCEPT ![t] = IF found THEN Nothing ELSE svc]
     /\ missed'   = [missed EXCEPT ![k] = 0]

(* External: a host starts to advertise a record, or changes its TXT.       *)
Advertise(k, id) ==
  /\ ~ctxDone
  /\ net[k] # id
  /\ net'   = [net EXCEPT ![k] = id]
  /\ heard' = heard \ {k}
  /\ UNCHANGED <<clock, services, adding, loopVars, tickers, toSeed, ctxDone, history>>

(* External: a host withdraws its record.                                   *)
Withdraw(k) ==
  /\ ~ctxDone
  /\ net[k] # Nothing
  /\ net'   = [net EXCEPT ![k] = Nothing]
  /\ heard' = heard \ {k}
  /\ UNCHANGED <<clock, services, adding, loopVars, tickers, toSeed, ctxDone, history>>

(* The browse opened by Start (zeroconfBrowse) receives a record.  The      *)
(* resolver delivers a record once until its host announces it anew.        *)
BrowseEntry(k) ==
  /\ ~ctxDone
  /\ Between
  /\ adding["browse"] = Nothing
  /\ net[k] # Nothing /\ k \notin heard
  /\ heard' = heard \cup {k}
  /\ addService("browse", k, net[k])
  /\ UNCHANGED <<clock, net, loopVars, tickers, toSeed, ctxDone, reports>>

(* The bounded browse of a refresh receives a record.  It need not: the     *)
(* answer can be lost, or come after the window.                            *)
RefreshEntry(k) ==
  /\ loop = "refresh"
  /\ ~ctxDone
  /\ Between
  /\ clock <= since + Window
  /\ adding["refresh"] = Nothing
  /\ net[k] # Nothing /\ k \notin answered
  /\ answered' = answered \cup {k}
  /\ addService("refresh", k, net[k])
  /\ UNCHANGED <<clock, net, heard, loop, departed, since, tickers, toSeed, ctxDone, reports>>

(* Add: the seeding goroutine inserts a record found by other means.        *)
Add(k, id) ==
  /\ Between
  /\ adding["main"] = Nothing
  /\ k \in toSeed
  /\ toSeed' = toSeed \ {k}
  /\ addService("main", k, id)
  /\ UNCHANGED <<clock, net, heard, loopVars, tickers, ctxDone, reports>>

(* onChange returns. *)
OnChange(t) ==
  /\ adding[t] # Nothing
  /\ adding'  = [adding EXCEPT ![t] = Nothing]
  /\ reports' = [reports EXCEPT ![recordKey(adding[t])] = @ + 1]
  /\ UNCHANGED <<clock, net, heard, services, loopVars, tickers, toSeed, ctxDone, missed>>

-----------------------------------------------------------------------------
(* Start takes a refresh tick: refresh begins, or returns at once when the  *)
(* context is canceled.                                                     *)
TakeRefresh ==
  /\ loop = "select"
  /\ refreshC
  /\ refreshC' = FALSE
  /\ loop'     = IF ctxDone THEN "select" ELSE "refresh"
  /\ since'    = clock
  /\ answered' = {}
  /\ UNCHANGED <<clock, net, heard, services, adding, departed, expiryC, toSeed, ctxDone, history>>

(* refresh returns when its window has closed and its goroutine is done.    *)
RefreshDone ==
  /\ loop = "refresh"
  /\ ctxDone \/ clock >= since + Window
  /\ adding["refresh"] = Nothing
  /\ loop'   = "select"
  /\ since'  = clock
  /\ missed' = [k \in Records |->
                  IF services[k] # Nothing /\ services[k].seen <= since
                  THEN missed[k] + 1 ELSE missed[k]]
  /\ UNCHANGED <<clock, net, heard, services, adding, departed, answered, tickers, toSeed,
                 ctxDone, reports>>

(* MUTANT of Expired: expire stops at the first old record it meets. *)
ExpiredFirstOnly(now) ==
  LET old == {k \in Records : /\ services[k] # Nothing
                              /\ now >= services[k].seen + defaultExpiry}
  IN IF old = {} THEN {} ELSE {CHOOSE k \in old : TRUE}

(* MUTANT of Expired: one refresh interval makes a record old. *)
ExpiredAfterInterval(now) == {k \in Records : /\ services[k] # Nothing
                                              /\ now >= services[k].seen + Interval}

(* MUTANT of Expired: the slack of two intervals is counted twice. *)
ExpiredLate(now) == {k \in Records : /\ services[k] # Nothing
                                     /\ now >= services[k].seen + 2 * defaultExpiry}

(* The records expire drops when the tick it serves is dated now.  A record *)
(* sighted after the tick has a negative age.                               *)
Expired(now) == {k \in Records : /\ services[k] # Nothing
                                 /\ now >= services[k].seen + defaultExpiry}

(* MUTANT of TakeExpiry: of several departed records one is reported. *)
TakeExpiryReportsOne ==
  /\ loop = "select"
  /\ expiryC # 0
  /\ expiryC'  = 0
  /\ departed' = IF Expired(expiryC) = {} THEN {}
                 ELSE {services[CHOOSE k \in Expired(expiryC) : TRUE]}
  /\ services' = [k \in Records |-> IF k \in Expired(expiryC) THEN Nothing
                                    ELSE services[k]]
  /\ loop'     = IF Expired(expiryC) = {} THEN "select" ELSE "expire"
  /\ since'    = clock
  /\ UNCHANGED <<clock, net, heard, adding, refreshC, answered, toSeed, ctxDone, history>>

(* Start takes an expiry tick: expire removes what is too old, under mu.    *)
TakeExpiry ==
  /\ loop = "select"
  /\ expiryC # 0
  /\ expiryC'  = 0
  /\ departed' = {services[k] : k \in Expired(expiryC)}
  /\ services' = [k \in Records |-> IF k \in Expired(expiryC) THEN Nothing
                                    ELSE services[k]]
  /\ loop'     = IF Expired(expiryC) = {} THEN "select" ELSE "expire"
  /\ since'    = clock
  /\ UNCHANGED <<clock, net, heard, adding, refreshC, answered, toSeed, ctxDone, history>>

(* expire: onRemove returns for the first departed record, in key order.    *)
OnRemove(svc) ==
  /\ loop = "expire"
  /\ svc \in departed
  /\ \A other \in departed : KeyBefore(svc, other)
  /\ departed' = departed \ {svc}
  /\ loop'     = IF departed = {svc} THEN "select" ELSE "expire"
  /\ since'    = clock
  /\ reports'  = [reports EXCEPT ![recordKey(svc)] = @ - 1]
  /\ UNCHANGED <<clock, net, heard, services, adding, answered, tickers, toSeed, ctxDone, missed>>

(* The process is told to stop. *)
Cancel ==
  /\ ~ctxDone
  /\ ctxDone' = TRUE
  /\ UNCHANGED <<clock, net, heard, services, adding, loopVars, tickers, toSeed, history>>

(* Start returns once the browse goroutine is done.  select picks any ready *)
(* case, so a tick may still be served first.                               *)
Stop ==
  /\ loop = "select"
  /\ ctxDone
  /\ adding["browse"] = Nothing
  /\ loop' = "stopped"
  /\ UNCHANGED <<clock, net, heard, services, adding, departed, since, answered, tickers,
                 toSeed, ctxDone, history>>

(* Shutdown is complete: nothing is left to run. *)
Exited ==
  /\ loop = "stopped"
  /\ \A t \in Adders : adding[t] = Nothing
  /\ UNCHANGED vars

(* Time passes.  A ticker drops a tick nobody has taken the last one of.    *)
(* Timing assumptions: the loop takes a ready tick before time moves on, a  *)
(* refresh ends with its window, and a callback returns within MaxLag.      *)
Tick ==
  /\ clock < MaxTime
  /\ ~ctxDone
  /\ loop = "select"  => ~refreshC /\ expiryC = 0
  /\ loop = "refresh" => \/ clock < since + Window
                         \/ adding["refresh"] # Nothing
  /\ loop = "expire"  => clock < since + MaxLag
  /\ \A t \in Adders : adding[t] # Nothing => clock < adding[t].seen + MaxLag
  /\ clock'    = clock + 1
  /\ refreshC' = (refreshC \/ (clock + 1) % Interval = 0)
  /\ expiryC'  = IF expiryC = 0 /\ (clock + 1) % expiryAgeCheck = 0
                 THEN clock + 1 ELSE expiryC
  /\ UNCHANGED <<net, heard, services, adding, loopVars, toSeed, ctxDone, history>>

(* The network and the clock stand still once the process is told to stop:  *)
(* what is left is to finish, and the browser that cannot is a deadlock.    *)
Next ==
  \/ \E k \in Records : \/ \E id \in Identities : Advertise(k, id) \/ Add(k, id)
                        \/ Withdraw(k)
                        \/ BrowseEntry(k)
                        \/ RefreshEntry(k)
  \/ \E t \in Adders : OnChange(t)
  \/ TakeRefresh \/ RefreshDone \/ TakeExpiry
  \/ \E svc \in departed : OnRemove(svc)
  \/ Cancel \/ Stop \/ Exited \/ Tick

Spec == Init /\ [][Next]_vars

-----------------------------------------------------------------------------
(* The type invariant: a held record was discovered no later than it was    *)
(* last seen, and neither is in the future.                                 *)
TypeOK ==
  /\ clock \in 0 .. MaxTime
  /\ net \in [Records -> Identities \cup {Nothing}]
  /\ heard \subseteq Records /\ answered \subseteq Records /\ toSeed \subseteq Seeds
  /\ services \in [Records -> Service \cup {Nothing}]
  /\ adding \in [Adders -> Service \cup {Nothing}]
  /\ loop \in {"select", "refresh", "expire", "stopped"}
  /\ departed \subseteq Service
  /\ refreshC \in BOOLEAN /\ ctxDone \in BOOLEAN
  /\ expiryC \in 0 .. MaxTime /\ since \in 0 .. MaxTime
  /\ reports \in [Records -> Int] /\ missed \in [Records -> Nat]
  /\ \A k \in Records : services[k] # Nothing =>
       /\ recordKey(services[k]) = k
       /\ services[k].disc <= services[k].seen /\ services[k].seen <= clock

(* "once per new record", "once per departed record" (Browser's callback    *)
(* fields): counting the callbacks still to come, every record the browser  *)
(* holds has been reported exactly once more than it was reported departed, *)
(* and every other record equally often.                                    *)
ReportedOnce ==
  \A k \in Records :
    reports[k] + Cardinality({t \in Adders : adding[t] # Nothing /\ recordKey(adding[t]) = k})
               - Cardinality({svc \in departed : recordKey(svc) = k})
      = IF services[k] = Nothing THEN 0 ELSE 1

(* "Two refresh intervals gives one missed refresh of slack"                *)
(* (defaultExpiry): no record departs that answered one of the last two     *)
(* refreshes, whichever ready ticker select serves first.                   *)
OneMissTolerated ==
  [][\A k \in Records :
       services[k] # Nothing /\ services'[k] = Nothing => missed[k] >= 2]_vars

LongestUnseen ==
  defaultExpiry + expiryAgeCheck + Window + Cardinality(Records) * MaxLag

(* The loop keeps up with its tickers: one refresh and the callbacks of one *)
(* expiry end within a refresh interval.                                    *)
KeepsUp ==
  /\ IsFiniteSet(Records)
  /\ Cardinality(Records) * MaxLag + Window + MaxLag < Interval

(* "half of it bounds the detection delay" (expiryAgeCheck): while the loop *)
(* runs, no record outlives its last sighting by more than the expiry and   *)
(* the check period, plus the time one refresh and the callbacks of one     *)
(* expiry can hold the loop.                                                *)
DetectionBounded ==
  \A k \in Records :
    services[k] # Nothing /\ ~ctxDone =>
      clock <= services[k].seen + LongestUnseen

(* "reports each one through OnRemove" (expire): nor is a record that has   *)
(* been dropped left unreported for longer than its callback takes.         *)
DepartureBounded ==
  \A svc \in departed : ~ctxDone => clock <= svc.seen + LongestUnseen + MaxLag
=============================================================================
