------------------------------ MODULE Television ------------------------------
(***************************************************************************)
(* From the network to the screen: Discovery with the cable directory that *)
(* its subscriber keeps.  The callback of WatchDiscovered is run by the    *)
(* goroutine that publishes the event, under notifyMu, so its file work is *)
(* one step.  Presets are written by other processes meanwhile.            *)
(*                                                                         *)
(* The TV writer subscribes to a registry that is still empty, so nothing  *)
(* is replayed to it.                                                      *)
(***************************************************************************)
EXTENDS Discovery, CableDir

CONSTANT NameOf  \* the name of each instance

ASSUME TelevisionAssumption ==
  /\ NameOf \in [Instances -> Names]
  /\ \A i, j \in Instances : NameOf[i] = NameOf[j] => i = j
  /\ Endpoints \subseteq Addresses

tvVars == <<vars, cableVars>>

TVInit == Init /\ CableInit

-----------------------------------------------------------------------------
(* MUTANT of Callback: only an arrival and a departure are looked at. *)
CallbackUnlessUpdated(e) ==
  IF e.kind = "Updated" THEN UNCHANGED cableVars
  ELSE IF e.kind = "Retired" THEN Retired(NameOf[e.src.inst])
  ELSE Announced(NameOf[e.src.inst], e.src.ep)

(* What WatchDiscovered does about an event. *)
Callback(e) ==
  IF e.kind = "Retired" THEN Retired(NameOf[e.src.inst])
  ELSE Announced(NameOf[e.src.inst], e.src.ep)

(* publish calls the TV writer. *)
Delivered(t) ==
  /\ R!Deliver(t, TV)
  /\ Callback(event[t])
  /\ UNCHANGED <<browserVars, calling, shadowed>>

(* Any other step of discovery: nobody calls the TV writer. *)
Undelivered ==
  /\ Next
  /\ \A t \in Goroutines : TV \in todo[t] => TV \in todo'[t]
  /\ UNCHANGED cableVars

(* `tuner tv sync` or `tuner channel` is run meanwhile. *)
SyncPreset(p) ==
  /\ WritePreset(p)
  /\ UNCHANGED vars

TVNext ==
  \/ \E t \in Goroutines : Delivered(t)
  \/ Undelivered
  \/ \E p \in Presets : SyncPreset(p)

TVSpec == TVInit /\ [][TVNext]_tvVars

-----------------------------------------------------------------------------
(* The file of an instance. *)
FileOf(i) == files[ChannelFile(NameOf[i])]

(* The file of instance i shows what its last event said: the TV writer has *)
(* been told of all that happened, in order, could write, and shares the    *)
(* file with nobody.                                                        *)
UpToDate(i) ==
  /\ i \notin overlap /\ TV \in subs /\ ~R!ToldLater(TV, i)
  /\ NameOf[i] \in known \ (failed \cup Presets)
  /\ OwnsFile(NameOf[i])

(* "a new instance adds one file and never rewrites the others; a departing *)
(* one takes its file with it" (README.md), from the registry to the disk:  *)
(* whatever the goroutines of the browser report, a file that is up to date *)
(* is there exactly while its source is registered and points to it.        *)
ScreenFollowsRegistry ==
  \A i \in Instances : UpToDate(i) =>
    FileOf(i) = IF sources[i] = Nothing THEN None
                ELSE DiscoveredTOML(NameOf[i], sources[i].src.ep)

(* No channel is left on the screen longer than an unseen record may be     *)
(* held and its departure takes to be reported: a file that is up to date   *)
(* points to an address at which its instance answered that recently.       *)
ScreenDiesInTime ==
  ~ctxDone => \A i \in Instances, e \in Endpoints :
    UpToDate(i) /\ FileOf(i) = DiscoveredTOML(NameOf[i], e) =>
      /\ sources[i] # Nothing
      /\ \E svc \in Backing(i) : svc.ep = e /\ clock <= svc.seen + B!LongestUnseen + MaxLag
=============================================================================
