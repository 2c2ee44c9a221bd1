------------------------------ MODULE Discovery ------------------------------
(***************************************************************************)
(* Discovery as cmdServe wires it: the browser's callbacks write into the  *)
(* registry, and the TV writer subscribes to the registry.                 *)
(*                                                                         *)
(* OnChange is Registry.Observe and OnRemove is Registry.Retire, each run  *)
(* by the browser goroutine that made the sighting or serves the expiry,   *)
(* from the call to the return of the last subscriber's callback.  The     *)
(* main goroutine attaches the TV writer (tv.WatchDiscovered) before the   *)
(* browser starts; the subscriber that only logs is left out.              *)
(*                                                                         *)
(* A name of a record is taken for the label under which the registry      *)
(* knows it (Service.Instance): two names of one label, a seed's and a full *)
(* DNS-SD name that begins with it, are not modelled.                      *)
(***************************************************************************)
EXTENDS Integers, FiniteSets

CONSTANTS
  Instances, Endpoints, Identities, Seeds, Interval, MinExpiry, Window,
  MaxLag, MaxTime, Nothing, Free

VARIABLES
  clock, net, heard, services, adding, loop, departed, refreshC, expiryC,
  since, answered, toSeed, ctxDone, reports, missed,
  sources, subs, nextSub, notifyMu, pc, event, todo, newSub, snapshot, mirror,
  overlap,
  calling,    \* browser goroutines inside Observe or Retire
  shadowed    \* history: instances with a sighting the registry never saw

Goroutines == {"browse", "refresh", "main", "loop"}
TV == 1       \* the TV writer's subscription

B == INSTANCE Browser
R == INSTANCE Registry WITH Callers <- Goroutines, Times <- 1 .. MaxTime,
                            MaxSubs <- TV, None <- Nothing

(* The bounds are as in Browser, and a callback returns before the record   *)
(* it reports can expire: it writes a small file, and an expiry is a minute *)
(* at least.                                                                *)
ASSUME DiscoveryAssumption ==
  /\ Interval \in Nat \ {0} /\ MinExpiry \in Nat /\ Window \in Nat \ {0}
  /\ MaxLag \in Nat /\ MaxTime \in Nat
  /\ Instances \subseteq Nat \ {0} /\ Endpoints \subseteq Nat /\ Seeds \subseteq B!Records
  /\ Nothing \notin B!Service /\ Nothing \notin Identities
  /\ Nothing \notin R!Entry /\ Nothing \notin R!Source /\ Nothing \notin R!Event
  /\ Free \notin Goroutines
  /\ MaxLag < B!defaultExpiry

browserVars == <<clock, net, heard, services, adding, loop, departed, refreshC,
                 expiryC, since, answered, toSeed, ctxDone, reports, missed>>
registryVars == <<sources, subs, nextSub, notifyMu, pc, event, todo, newSub,
                  snapshot, mirror, overlap>>
vars == <<browserVars, registryVars, calling, shadowed>>

Init ==
  /\ B!Init
  /\ R!Init
  /\ calling  = {}
  /\ shadowed = {}

-----------------------------------------------------------------------------
(* cmdServe before the browser starts: tv.WatchDiscovered subscribes.       *)
Watch ==
  /\ R!SubscribeCall("main")
  /\ UNCHANGED <<browserVars, calling, shadowed>>

Started == subs = {TV} /\ pc["main"] # "replay"

(* The service as the registry sees it. *)
AsService(svc) == [type |-> R!SmokeAlarm, inst |-> svc.inst, ep |-> svc.ep,
                   id |-> svc.id, disc |-> svc.disc]

(* A sighting of record k that the registry will not hear of, or will       *)
(* forget: the record is held already while the instance is registered at   *)
(* another address, or is about to be, since another address of it is being *)
(* reported; or the departure of the record has been decided and not yet    *)
(* applied.                                                                 *)
Shadows(k) ==
  \/ /\ services[k] # Nothing
     /\ sources[k.inst] # Nothing
     /\ sources[k.inst].src.ep # k.ep
  \/ /\ services[k] # Nothing
     /\ \E t \in B!Adders : /\ adding[t] # Nothing
                            /\ adding[t].inst = k.inst
                            /\ adding[t].ep # k.ep
  \/ \E svc \in departed : B!recordKey(svc) = k

(* A goroutine of the browser sights a record. *)
Sight(k) ==
  /\ Started
  /\ \/ B!BrowseEntry(k)
     \/ B!RefreshEntry(k)
     \/ \E id \in Identities : B!Add(k, id)
  /\ shadowed' = IF Shadows(k) THEN shadowed \cup {k.inst} ELSE shadowed
  /\ UNCHANGED <<registryVars, calling>>

(* OnChange calls Observe; a stale record changes nothing. *)
CallObserve(t) ==
  /\ adding[t] # Nothing
  /\ t \notin calling
  /\ calling' = calling \cup {t}
  /\ LET svc == AsService(adding[t])
     IN \/ R!Observe(t, svc)
        \/ /\ R!Stale(svc.disc, sources[svc.inst])
           /\ UNCHANGED registryVars
  /\ UNCHANGED <<browserVars, shadowed>>

(* OnChange returns. *)
ObserveReturns(t) ==
  /\ t \in calling
  /\ pc[t] = "idle"
  /\ calling' = calling \ {t}
  /\ B!OnChange(t)
  /\ UNCHANGED <<registryVars, shadowed>>

(* OnRemove calls Retire for the first departed record; a record at another *)
(* address than the registered one changes nothing.                         *)
CallRetire(svc) ==
  /\ loop = "expire"
  /\ \A other \in departed : B!KeyBefore(svc, other)
  /\ "loop" \notin calling
  /\ calling' = calling \cup {"loop"}
  /\ \/ R!Retire("loop", AsService(svc))
     \/ /\ sources[svc.inst] # Nothing => sources[svc.inst].src.ep # svc.ep
        /\ UNCHANGED registryVars
  /\ UNCHANGED <<browserVars, shadowed>>

(* OnRemove returns. *)
RetireReturns(svc) ==
  /\ "loop" \in calling
  /\ pc["loop"] = "idle"
  /\ calling' = calling \ {"loop"}
  /\ B!OnRemove(svc)
  /\ UNCHANGED <<registryVars, shadowed>>

(* A goroutine goes on inside the registry. *)
RegistryStep(t) ==
  /\ R!Step(t)
  /\ UNCHANGED <<browserVars, calling, shadowed>>

(* The network, the clock, the signal to stop and the loop of Start. *)
BrowserStep ==
  /\ Started
  /\ \/ \E k \in B!Records : \/ \E id \in Identities : B!Advertise(k, id)
                             \/ B!Withdraw(k)
     \/ B!TakeRefresh \/ B!RefreshDone \/ B!TakeExpiry
     \/ B!Cancel \/ B!Stop \/ B!Exited \/ B!Tick
  /\ UNCHANGED <<registryVars, calling, shadowed>>

Next ==
  \/ Watch
  \/ \E k \in B!Records : Sight(k)
  \/ \E t \in B!Adders : CallObserve(t) \/ ObserveReturns(t)
  \/ \E svc \in departed : CallRetire(svc) \/ RetireReturns(svc)
  \/ \E t \in Goroutines : RegistryStep(t)
  \/ BrowserStep

Spec == Init /\ [][Next]_vars

-----------------------------------------------------------------------------
(* A retirement of svc is on its way and not applied yet. *)
RetirePending(svc) ==
  /\ svc \in departed
  /\ "loop" \in calling => \E other \in departed : ~B!KeyBefore(svc, other)

(* The sightings that back the source of instance i: the record held for    *)
(* its endpoint, or one whose retirement is still to be applied.            *)
Backing(i) ==
  {svc \in {services[k] : k \in B!Records} \ {Nothing} :
     svc.inst = i /\ svc.ep = sources[i].src.ep}
  \cup {svc \in departed :
          svc.inst = i /\ svc.ep = sources[i].src.ep /\ RetirePending(svc)}

(* No channel outlives its alarm: while the process runs, every registered  *)
(* source is backed by a record of the same address that the browser still  *)
(* holds, or whose retirement is about to be applied (addService, expire,   *)
(* Observe, Retire).  Browser!DetectionBounded bounds the record's age.     *)
SourcesAreBacked ==
  \A i \in Instances : sources[i] # Nothing => Backing(i) # {}

(* A channel dies with its alarm: no source is registered any longer than   *)
(* an unseen record may be held and its departure takes to be reported.     *)
ChannelsDieInTime ==
  ~ctxDone => \A i \in Instances : sources[i] # Nothing =>
    \E svc \in Backing(i) : clock <= svc.seen + B!LongestUnseen + MaxLag

(* Nothing about instance i is under way. *)
Settled(i) ==
  /\ \A t \in B!Adders : adding[t] = Nothing \/ adding[t].inst # i
  /\ \A svc \in departed : svc.inst # i

HeldRecords(i) == {k \in B!Records : k.inst = i /\ services[k] # Nothing}

(* A held record has a channel, except after a sighting the registry did    *)
(* not hear of (addService reports only records it does not hold).          *)
HeldRecordHasSourceUnlessShadowed ==
  \A i \in Instances \ shadowed :
    Settled(i) /\ HeldRecords(i) # {} => sources[i] # Nothing

(* "Every `_smoke-alarm._tcp` record becomes a live channel source"         *)
(* (README.md): once nothing is under way, a held record has a channel.     *)
HeldRecordHasSource ==
  \A i \in Instances :
    Settled(i) /\ HeldRecords(i) # {} => sources[i] # Nothing
=============================================================================
