----------------------------- MODULE FeatureView -----------------------------
(***************************************************************************)
(* The feature browser's cached view, internal/featurebrowser: View, the   *)
(* fetch behind it and Verify, called by concurrent request handlers.      *)
(*                                                                         *)
(* Browser.mu covers the cache only, not the fetch: handlers that find the *)
(* cache too old fetch side by side and store what they found in whatever  *)
(* order they end.  A fetch asks every source at once, and each source in  *)
(* several calls, while the sources come, go and change the tools they     *)
(* serve and the rung they assign to tuner.  An answer is abstracted to    *)
(* the rung it evidences; what the merged view says of the entries is      *)
(* FeatureMerge.                                                           *)
(***************************************************************************)
EXTENDS Naturals, FiniteSets, FiniteSetsExt

CONSTANTS
  Handlers,       \* requests that call View
  Verifiers,      \* those that do so in Verify
  Adhds,          \* adhd instances, as the ranks of their names
  contractTools,  \* the read tools
  Offers,         \* the sets of tools each instance may serve
  Rungs,          \* the rungs in use, of 0 to 3
  TrustRung,      \* the rung an instance advertises for itself (TXT)
  Refresh,        \* Options.Refresh
  MaxFetch,       \* timing assumption: the calls of one fetch end within
  Faulty,         \* calls may fail: an instance is down, slow or broken
  Cancels,        \* clients may hang up
  MaxTime,        \* bound of the clock
  MaxChanges,     \* bound on the changes of the instances
  None            \* no view / no result / no probe

VerifyTool == "adhd.features.verify"
Tools == contractTools \cup {VerifyTool}
States == {"pending", "served", "declared-absent", "unreachable"}

(* sourceResult: when the source was asked, how it answered, the rung       *)
(* evidenced so far (fetchSource's local), Source.Rung, the tools listed    *)
(* and how many contract calls are still to be made: which tool is called   *)
(* next makes no difference to the rung its answer evidences.               *)
Result == [fetched : 0 .. MaxTime, state : States, evidence : Rungs, rung : Rungs,
           toolsServed : SUBSET Tools, calls : 0 .. Cardinality(contractTools)]
View == [fetched : 0 .. MaxTime, sources : [Adhds -> Result \cup {None}]]

ASSUME FeatureAssumption ==
  /\ Verifiers \subseteq Handlers /\ IsFiniteSet(contractTools)
  /\ Adhds \subseteq Nat /\ Offers \in [Adhds -> SUBSET SUBSET Tools]
  /\ Rungs \subseteq 0 .. 3 /\ 0 \in Rungs /\ TrustRung \in Rungs
  /\ Refresh \in Nat \ {0} /\ MaxFetch \in Nat /\ MaxTime \in Nat \ {0} /\ MaxChanges \in Nat
  /\ Faulty \in BOOLEAN /\ Cancels \in BOOLEAN
  /\ None \notin View /\ None \notin Result /\ None \notin Adhds

VARIABLES
  clock,
  present,   \* external: the sources Options.Sources returns
  serves,    \* external: the tools each instance serves
  assigned,  \* external: the rung each instance assigns to tuner
  changes,   \* the changes so far of the three above
  lastRung,  \* history: when each instance last assigned a rung at least r
  lastWith,  \* history: when each instance last served VerifyTool,
  lastSans,  \*   and when it last did not; 0 stands for never
  cached,    \* Browser.cached
  pc,        \* where each handler is
  now,       \* fetch: when it began, 0 outside
  results,   \* fetch: one result per source asked
  probe,     \* Verify: the instance being called
  gone       \* handlers whose client has hung up

history == <<lastRung, lastWith, lastSans>>
world   == <<present, serves, assigned, changes, history>>
vars    == <<clock, world, cached, pc, now, results, probe, gone>>

NoResults == [s \in Adhds |-> None]

(* The histories at time t, given what the instances then do and what was   *)
(* recorded before.                                                         *)
Recorded(t) ==
  /\ lastRung' = [s \in Adhds |-> [r \in Rungs |->
                    IF r <= assigned'[s] THEN t ELSE lastRung[s][r]]]
  /\ lastWith' = [s \in Adhds |-> IF VerifyTool \in serves'[s] THEN t ELSE lastWith[s]]
  /\ lastSans' = [s \in Adhds |-> IF VerifyTool \notin serves'[s] THEN t ELSE lastSans[s]]

Init ==
  /\ clock = 1
  /\ present \in SUBSET Adhds
  /\ serves \in {f \in [Adhds -> SUBSET Tools] : \A s \in Adhds : f[s] \in Offers[s]}
  /\ assigned \in [Adhds -> Rungs] /\ changes = 0
  /\ lastRung = [s \in Adhds |-> [r \in Rungs |-> IF r <= assigned[s] THEN 1 ELSE 0]]
  /\ lastWith = [s \in Adhds |-> IF VerifyTool \in serves[s] THEN 1 ELSE 0]
  /\ lastSans = [s \in Adhds |-> IF VerifyTool \notin serves[s] THEN 1 ELSE 0]
  /\ cached    = None
  /\ pc        = [h \in Handlers |-> "idle"]
  /\ now       = [h \in Handlers |-> 0]
  /\ results   = [h \in Handlers |-> NoResults]
  /\ probe     = [h \in Handlers |-> None]
  /\ gone      = {}

-----------------------------------------------------------------------------
Listed(view)   == {s \in Adhds : view.sources[s] # None}
ViewRung(view) == Max({view.sources[s].rung : s \in Listed(view)} \cup {0})

(* merge, the roll-up of the source states; no-sources is fetch's own. *)
Status(view) ==
  LET states == {view.sources[s].state : s \in Listed(view)}
  IN IF states = {} THEN "no-sources" ELSE IF "served" \in states THEN "served"
     ELSE IF "declared-absent" \in states THEN "declared-absent" ELSE "unreachable"

(* Verify: the first of the sources serving the tool with the highest rung. *)
Best(view) ==
  LET able == {s \in Listed(view) : VerifyTool \in view.sources[s].toolsServed}
      top  == {s \in able : \A t \in able : view.sources[t].rung <= view.sources[s].rung}
  IN IF able = {} THEN None ELSE Min(top)

(* View returns: Verify goes on to call the best source if the view's rung  *)
(* allows it, and every other call is over.                                 *)
Return(h, view) ==
  LET probing == /\ h \in Verifiers
                 /\ Status(view) # "no-sources"
                 /\ Best(view) # None
                 /\ ViewRung(view) >= 3
  IN /\ pc'    = [pc EXCEPT ![h] = IF probing THEN "probe" ELSE "idle"]
     /\ probe' = [probe EXCEPT ![h] = IF probing THEN Best(view) ELSE None]
     /\ gone' = gone \ {h}

(* A handler calls View, or Verify, which calls View first. *)
Call(h) ==
  /\ pc[h] = "idle"
  /\ pc'   = [pc EXCEPT ![h] = "call"]
  /\ UNCHANGED <<clock, world, cached, now, results, probe, gone>>

(* MUTANT of Usable: off by one. *)
UsableTooLong == cached # None /\ clock - cached.fetched <= Refresh

(* The cached view is young enough. *)
Usable == cached # None /\ clock - cached.fetched < Refresh

(* View finds a cached view under mu. *)
ViewCached(h) ==
  /\ pc[h] = "call"
  /\ Usable
  /\ Return(h, cached)
  /\ UNCHANGED <<clock, world, cached, now, results>>

Asked == [fetched |-> clock, state |-> "pending", evidence |-> 0, rung |-> 0,
          toolsServed |-> {}, calls |-> Cardinality(contractTools)]

(* MUTANT of Fetch: the instance's advertised rung is taken for tuner's.    *)
FetchTrusting(h) ==
  /\ pc[h] = "call"
  /\ ~Usable
  /\ pc'      = [pc EXCEPT ![h] = "fetch"]
  /\ now'     = [now EXCEPT ![h] = clock]
  /\ results' = [results EXCEPT ![h] =
                   [s \in Adhds |-> IF s \in present
                                    THEN [Asked EXCEPT !.evidence = TrustRung] ELSE None]]
  /\ UNCHANGED <<clock, world, cached, probe, gone>>

(* fetch: every source known now is asked, each by a goroutine of its own.  *)
Fetch(h) ==
  /\ pc[h] = "call"
  /\ ~Usable
  /\ pc'      = [pc EXCEPT ![h] = "fetch"]
  /\ now'     = [now EXCEPT ![h] = clock]
  /\ results' = [results EXCEPT ![h] =
                   [s \in Adhds |-> IF s \in present THEN Asked ELSE None]]
  /\ UNCHANGED <<clock, world, cached, probe, gone>>

(* A call of handler h can be answered, and can fail. *)
Answers(h) == h \notin gone
Fails(h)   == h \in gone \/ Faulty

Waiting(h, s) == pc[h] = "fetch" /\ results[h][s] # None /\ results[h][s].state = "pending"
Calling(h, s) == /\ pc[h] = "fetch"
                 /\ results[h][s] # None
                 /\ results[h][s].state = "served"
                 /\ results[h][s].calls # 0

(* fetchSource: the handshake and tools/list. *)
HandshakeOK(h, s) ==
  /\ Waiting(h, s)
  /\ Answers(h)
  /\ results' = [results EXCEPT
       ![h][s].toolsServed = serves[s],
       ![h][s].state = IF serves[s] = {} THEN "declared-absent" ELSE "served",
       ![h][s].calls = Cardinality(contractTools \cap serves[s])]
  /\ UNCHANGED <<clock, world, cached, pc, now, probe, gone>>

HandshakeFails(h, s) ==
  /\ Waiting(h, s)
  /\ Fails(h)
  /\ results' = [results EXCEPT ![h][s].state = "unreachable", ![h][s].calls = 0]
  /\ UNCHANGED <<clock, world, cached, pc, now, probe, gone>>

(* The result after one more contract call.  The last one sets Source.Rung  *)
(* to the evidence of the answers.                                          *)
After(result) ==
  IF result.calls = 1
  THEN [result EXCEPT !.calls = 0, !.rung = result.evidence]
  ELSE [result EXCEPT !.calls = result.calls - 1]

(* An answer raises the evidence, a refusal raises Source.Rung. *)
Evidenced(result, r) == [result EXCEPT !.evidence = Max({result.evidence, r})]
Refused(result, r)   == [result EXCEPT !.rung = Max({result.rung, r})]

(* Some listed contract tool is still served, and some no longer is. *)
StillServed(h, s) == contractTools \cap results[h][s].toolsServed \cap serves[s] # {}
Withdrawn(h, s)   == (contractTools \cap results[h][s].toolsServed) \ serves[s] # {}

(* A contract call is answered; the answer evidences at most the rung that  *)
(* the instance assigns: it names it, or releases fields up to it.          *)
CallAnswered(h, s) ==
  /\ Calling(h, s)
  /\ Answers(h) /\ StillServed(h, s)
  /\ \E e \in {r \in Rungs : r <= assigned[s]} :
       results' = [results EXCEPT ![h][s] = After(Evidenced(@, e))]
  /\ UNCHANGED <<clock, world, cached, pc, now, probe, gone>>

(* recordCallFailure: a refusal that names the assigned rung raises         *)
(* Source.Rung, which the end of fetchSource overwrites (After).            *)
CallRefused(h, s) ==
  /\ Calling(h, s)
  /\ Answers(h) /\ StillServed(h, s)
  /\ results' = [results EXCEPT ![h][s] = After(Refused(@, assigned[s]))]
  /\ UNCHANGED <<clock, world, cached, pc, now, probe, gone>>

(* recordCallFailure: any other failure, a tool that is no longer there     *)
(* among them, changes only the error text.                                 *)
CallFails(h, s) ==
  /\ Calling(h, s)
  /\ Fails(h) \/ Withdrawn(h, s)
  /\ results' = [results EXCEPT ![h][s] = After(@)]
  /\ UNCHANGED <<clock, world, cached, pc, now, probe, gone>>

(* MUTANT of Answered: the first goroutine to finish ends the wait. *)
AnsweredByOne(h) ==
  \E s \in Adhds : /\ results[h][s] # None
                   /\ results[h][s].state # "pending" /\ results[h][s].calls = 0

(* Every goroutine of the fetch is done. *)
Answered(h) ==
  \A s \in Adhds : results[h][s] # None =>
    results[h][s].state # "pending" /\ results[h][s].calls = 0

(* MUTANT of Merged: the view is dated when it is merged. *)
MergedLate(h) == [fetched |-> clock, sources |-> results[h]]

(* merge: the view is dated when the fetch began. *)
Merged(h) == [fetched |-> now[h], sources |-> results[h]]

(* wg.Wait returns and View stores the merged view, whatever is cached.     *)
ViewStored(h) ==
  /\ pc[h] = "fetch"
  /\ Answered(h)
  /\ cached'  = Merged(h)
  /\ results' = [results EXCEPT ![h] = NoResults]
  /\ now'     = [now EXCEPT ![h] = 0]
  /\ Return(h, Merged(h))
  /\ UNCHANGED <<clock, world>>

(* Verify: adhd answers or refuses the call; tuner keeps nothing of it. *)
VerifyDone(h) ==
  /\ pc[h] = "probe"
  /\ pc'    = [pc EXCEPT ![h] = "idle"]
  /\ probe' = [probe EXCEPT ![h] = None]
  /\ UNCHANGED <<clock, world, cached, now, results, gone>>

(* The request's context is canceled and with it every call of its fetch.   *)
HangUp(h) ==
  /\ Cancels
  /\ pc[h] \in {"call", "fetch"}
  /\ h \notin gone
  /\ gone' = gone \cup {h}
  /\ UNCHANGED <<clock, world, cached, pc, now, results, probe>>

-----------------------------------------------------------------------------
(* External: sources come and go, reassign tuner's rung and change the      *)
(* tools they serve.                                                        *)
Changes == changes < MaxChanges /\ changes' = changes + 1

SourcesChange(s) ==
  /\ Changes
  /\ present' = IF s \in present THEN present \ {s} ELSE present \cup {s}
  /\ UNCHANGED <<clock, serves, assigned, history, cached, pc, now, results, probe, gone>>

Reassigns(s, r) ==
  /\ Changes
  /\ assigned[s] # r
  /\ assigned' = [assigned EXCEPT ![s] = r]
  /\ UNCHANGED <<clock, present, serves, cached, pc, now, results, probe, gone>>
  /\ Recorded(clock)

Reoffers(s, tools) ==
  /\ Changes
  /\ serves[s] # tools
  /\ serves' = [serves EXCEPT ![s] = tools]
  /\ UNCHANGED <<clock, present, assigned, cached, pc, now, results, probe, gone>>
  /\ Recorded(clock)

(* Time passes: a fetch ends within MaxFetch, and a call on the cache takes *)
(* no time.                                                                 *)
Tick ==
  /\ clock < MaxTime
  /\ \A h \in Handlers : /\ pc[h] # "call"
                         /\ pc[h] = "fetch" => clock < now[h] + MaxFetch
  /\ clock' = clock + 1
  /\ UNCHANGED <<present, serves, assigned, changes, cached, pc, now, results, probe, gone>>
  /\ Recorded(clock + 1)

Step(h) ==
  \/ ViewCached(h) \/ Fetch(h) \/ ViewStored(h) \/ VerifyDone(h)
  \/ \E s \in Adhds : \/ HandshakeOK(h, s) \/ HandshakeFails(h, s)
                      \/ CallAnswered(h, s) \/ CallRefused(h, s) \/ CallFails(h, s)

Next ==
  \/ \E h \in Handlers : Call(h) \/ Step(h) \/ HangUp(h)
  \/ \E s \in Adhds : \/ SourcesChange(s)
                      \/ \E r \in Rungs : Reassigns(s, r)
                      \/ \E tools \in Offers[s] : Reoffers(s, tools)
  \/ Tick

Spec == Init /\ [][Next]_vars

-----------------------------------------------------------------------------
(* The type invariant: a cached view is complete, never one of a fetch      *)
(* still under way.                                                         *)
TypeOK ==
  /\ clock \in 1 .. MaxTime
  /\ present \subseteq Adhds /\ serves \in [Adhds -> SUBSET Tools]
  /\ assigned \in [Adhds -> Rungs] /\ changes \in 0 .. MaxChanges
  /\ lastRung \in [Adhds -> [Rungs -> 0 .. MaxTime]]
  /\ lastWith \in [Adhds -> 0 .. MaxTime] /\ lastSans \in [Adhds -> 0 .. MaxTime]
  /\ cached \in View \cup {None}
  /\ pc \in [Handlers -> {"idle", "call", "fetch", "probe"}]
  /\ gone \subseteq Handlers
  /\ now \in [Handlers -> 0 .. MaxTime]
  /\ results \in [Handlers -> [Adhds -> Result \cup {None}]]
  /\ probe \in [Handlers -> Adhds \cup {None}]
  /\ \A h \in Handlers : pc[h] = "probe" <=> probe[h] # None
  /\ cached # None => \A s \in Listed(cached) : cached.sources[s].state # "pending"

(* "It is adhd's assignment read back from its answers - tuner never        *)
(* declares it" (View.Rung): a source shows no rung that its instance has   *)
(* not assigned since the view's fetch began, whatever it advertises for    *)
(* itself, and a source that did not answer shows none.                     *)
RungIsAdhds ==
  cached # None =>
    \A s \in Listed(cached) :
      /\ lastRung[s][cached.sources[s].rung] >= cached.fetched
      /\ cached.sources[s].state # "served" => cached.sources[s].rung = 0

(* View returns to h in this step; what it returns is then what is cached.  *)
Handed(h) == pc[h] \in {"call", "fetch"} /\ pc'[h] \in {"idle", "probe"}

(* How old the answers of a view just returned can be. *)
OldestAnswer == Max({Refresh - 1, MaxFetch})

(* Something last true at time t, if ever, was so within that time. *)
Recent(t) == t # 0 /\ clock <= t + OldestAnswer
RungThree(s) == \E r \in Rungs : r >= 3 /\ Recent(lastRung[s][r])

(* "The action exists only at rung 3: below it, tuner does not call"        *)
(* (Verify), although Verify decides on a view that may be cached while the *)
(* instances withdraw tools and reassign rungs: the instance it calls has   *)
(* served the tool of late, and has of late assigned tuner rung 3, unless   *)
(* one that assigned it did not serve the tool (the gate then opens on that *)
(* one's rung).                                                             *)
ProbeBacked ==
  [][\A h \in Handlers : Handed(h) /\ pc'[h] = "probe" =>
       /\ Recent(lastWith[probe'[h]])
       /\ \E s \in Adhds : RungThree(s) /\ (s = probe'[h] \/ Recent(lastSans[s]))]_vars

(* No view is handed out whose answers are older than the cache lifetime,   *)
(* or than one fetch when that takes longer, although handlers fetch side   *)
(* by side and an older view can replace a newer one (View, fetch).         *)
AnswersFresh ==
  [][\A h \in Handlers : Handed(h) =>
       \A s \in Listed(cached') : clock <= cached'.sources[s].fetched + OldestAnswer]_vars

(* "Unreachable means the endpoint did not answer the handshake at all"     *)
(* (SourceState): an instance that never stopped answering is never shown   *)
(* as unreachable to a handler whose client is still there.                 *)
UnreachableMeansNoAnswer ==
  [][\A h \in Handlers \ gone : ~Faulty /\ Handed(h) =>
       \A s \in Listed(cached') : cached'.sources[s].state # "unreachable"]_vars
==============================================================================
