-------------------------- MODULE FeatureViewProofs --------------------------
(***************************************************************************)
(* Theorems about FeatureView for every set of request handlers, adhd      *)
(* instances and contract tools, every refresh interval and fetch time,    *)
(* and whether calls fail and clients hang up or not.                      *)
(***************************************************************************)
EXTENDS FeatureView, FiniteSetTheorems, WellFoundedInduction, TLAPS

(* What a result of source s, asked at the given time, may say. *)
Sound(result, s, asked) ==
  result # None =>
    /\ result.fetched = asked
    /\ asked <= lastRung[s][result.evidence] /\ asked <= lastRung[s][result.rung]
    /\ result.state # "served" => result.rung = 0
    /\ VerifyTool \in result.toolsServed => asked <= lastWith[s]
    /\ result.state = "served" /\ VerifyTool \notin result.toolsServed => asked <= lastSans[s]

(* A fetch is not older than MaxFetch, and nothing is dated in the future.  *)
OnTime ==
  /\ \A h \in Handlers : /\ now[h] <= clock
                         /\ pc[h] = "fetch" => 1 <= now[h] /\ clock <= now[h] + MaxFetch
  /\ cached # None => 1 <= cached.fetched /\ cached.fetched <= clock

(* The histories are up to date. *)
Current ==
  \A s \in Adhds :
    /\ \A r \in Rungs : /\ lastRung[s][r] <= clock
                        /\ r <= assigned[s] => lastRung[s][r] = clock
    /\ lastWith[s] <= clock /\ (VerifyTool \in serves[s] => lastWith[s] = clock)
    /\ lastSans[s] <= clock /\ (VerifyTool \notin serves[s] => lastSans[s] = clock)

(* Every result, of a fetch under way or cached, is one its source backs.   *)
Backed ==
  /\ \A h \in Handlers, s \in Adhds : Sound(results[h][s], s, now[h])
  /\ cached # None => \A s \in Adhds : Sound(cached.sources[s], s, cached.fetched)

(* The inductive invariant. *)
IInv == TypeOK /\ OnTime /\ Current /\ Backed

-----------------------------------------------------------------------------
(* The operators. *)
LEMMA MaxOfTwo ==
  ASSUME NEW a \in Nat, NEW b \in Nat
  PROVE  Max({a, b}) \in {a, b} /\ a <= Max({a, b}) /\ b <= Max({a, b})
<1>1. \E x \in {a, b} : \A y \in {a, b} : x >= y
  <2>1. CASE a >= b
    BY <2>1
  <2>2. CASE b >= a
    BY <2>2
  <2>3. QED
    BY <2>1, <2>2
<1>2. QED
  BY <1>1 DEF Max

LEMMA MaxOfRungs ==
  ASSUME NEW S, S \subseteq 0 .. 3, S # {}
  PROVE  Max(S) \in S /\ \A y \in S : y <= Max(S)
<1>1. \E x \in S : \A y \in S : x >= y
  <2>1. CASE 3 \in S
    BY <2>1
  <2>2. CASE 3 \notin S /\ 2 \in S
    BY <2>2
  <2>3. CASE 3 \notin S /\ 2 \notin S /\ 1 \in S
    BY <2>3
  <2>4. CASE 3 \notin S /\ 2 \notin S /\ 1 \notin S
    <3>1. \A y \in S : y = 0
      BY <2>4
    <3>2. PICK z \in S : TRUE
      OBVIOUS
    <3>3. \A y \in S : z >= y
      BY <3>1
    <3>4. QED
      BY <3>3
  <2>5. QED
    BY <2>1, <2>2, <2>3, <2>4
<1>2. PICK x \in S : \A y \in S : x >= y
  BY <1>1
<1>3. Max(S) \in S /\ \A y \in S : Max(S) >= y
  BY <1>2 DEF Max
<1>4. QED
  BY <1>3

LEMMA MinOfRanks ==
  ASSUME NEW S, S \subseteq Nat, S # {}
  PROVE  Min(S) \in S
<1>1. PICK x \in S : \A y \in S : ~(<<y, x>> \in OpToRel(<, Nat))
  BY NatLessThanWellFounded, WFMin
<1>2. \A y \in S : x =< y
  <2> SUFFICES ASSUME NEW y \in S, ~(x =< y) PROVE FALSE
    OBVIOUS
  <2>1. <<y, x>> \in Nat \X Nat /\ y < x
    OBVIOUS
  <2>2. <<y, x>> \in OpToRel(<, Nat)
    BY <2>1 DEF OpToRel
  <2>3. QED
    BY <1>1, <2>2
<1>3. QED
  BY <1>2 DEF Min

LEMMA Constants ==
  /\ Adhds \subseteq Nat /\ Refresh \in Nat /\ Refresh > 0 /\ MaxFetch \in Nat /\ MaxTime \in Nat
  /\ MaxTime > 0 /\ MaxChanges \in Nat /\ \A s \in Adhds : Offers[s] \subseteq SUBSET Tools
  /\ None \notin Result /\ None \notin View /\ None \notin Adhds
  /\ Verifiers \subseteq Handlers
  /\ \A r \in Rungs : r \in 0 .. 3 /\ r \in Nat
  /\ 0 \in Rungs /\ Cardinality(contractTools) \in Nat
<1>1. Cardinality(contractTools) \in Nat
  BY FeatureAssumption, FS_CardinalityType
<1>2. QED
  BY <1>1, FeatureAssumption

(* What Best and ViewRung say of a view. *)
LEMMA BestServes ==
  ASSUME NEW view \in View, Best(view) # None
  PROVE  /\ Best(view) \in Adhds /\ view.sources[Best(view)] # None
         /\ VerifyTool \in view.sources[Best(view)].toolsServed
         /\ \A s \in Listed(view) : VerifyTool \in view.sources[s].toolsServed =>
              view.sources[s].rung <= view.sources[Best(view)].rung
<1> DEFINE able == {s \in Listed(view) : VerifyTool \in view.sources[s].toolsServed}
           rung(s) == view.sources[s].rung
           top == {s \in able : \A t \in able : rung(t) <= rung(s)}
<1>1. Best(view) = IF able = {} THEN None ELSE Min(top)
  BY DEF Best
<1>2. able # {} /\ able \subseteq Adhds
  BY <1>1 DEF Listed
<1>3. \A s \in able : rung(s) \in 0 .. 3
  BY Constants DEF View, Result, Listed
<1> DEFINE S == {rung(s) : s \in able}
<1>4. Max(S) \in S /\ \A y \in S : y <= Max(S)
  <2>1. S \subseteq 0 .. 3 /\ S # {}
    BY <1>2, <1>3
  <2> HIDE DEF S
  <2>2. QED
    BY <2>1, MaxOfRungs
<1>5. top # {}
  BY <1>4
<1>6. top \subseteq Nat
  BY <1>2, Constants
<1>7. Min(top) \in top
  <2> HIDE DEF top
  <2>1. QED
    BY <1>5, <1>6, MinOfRanks
<1>8. Best(view) \in top
  BY <1>1, <1>2, <1>7
<1>9. QED
  BY <1>8 DEF Listed

LEMMA ViewRungShown ==
  ASSUME NEW view \in View, ViewRung(view) >= 3
  PROVE  \E s \in Listed(view) : view.sources[s].rung >= 3
<1> DEFINE S == {view.sources[s].rung : s \in Listed(view)} \cup {0}
<1>1. S \subseteq 0 .. 3 /\ S # {}
  BY Constants DEF View, Result, Listed
<1>2. Max(S) \in S
  <2> HIDE DEF S
  <2>1. QED
    BY <1>1, MaxOfRungs
<1>3. ViewRung(view) = Max(S)
  BY DEF ViewRung
<1>4. Max(S) # 0
  BY <1>3
<1>5. QED
  BY <1>2, <1>3, <1>4

-----------------------------------------------------------------------------
(* One result of one fetch moves on. *)
Moved(h, s, new) ==
  /\ results' \in [Handlers -> [Adhds -> Result \cup {None}]]
  /\ \A g \in Handlers, t \in Adhds :
       results'[g][t] = IF g = h /\ t = s THEN new ELSE results[g][t]

LEMMA ResultMoves ==
  ASSUME TypeOK, NEW h \in Handlers, NEW s \in Adhds, NEW new \in Result,
         results' = [results EXCEPT ![h][s] = new]
  PROVE  Moved(h, s, new)
BY DEF TypeOK, Moved

(* A result that moves on stays backed when the new one is. *)
LEMMA MovedKeeps ==
  ASSUME IInv, NEW h \in Handlers, NEW s \in Adhds, NEW new \in Result, Moved(h, s, new),
         Sound(new, s, now[h]),
         UNCHANGED <<clock, world, cached, pc, now, probe, gone>>
  PROVE  IInv'
<1>0. UNCHANGED <<clock, present, serves, assigned, changes, lastRung, lastWith, lastSans,
                  cached, pc, now, probe, gone>>
  BY DEF world, history
<1>1. TypeOK'
  BY <1>0 DEF IInv, TypeOK, Moved, Listed
<1>2. OnTime' /\ Current'
  BY <1>0 DEF IInv, OnTime, Current
<1>3. \A g \in Handlers, t \in Adhds : Sound(results[g][t], t, now[g])'
  BY <1>0 DEF IInv, Backed, Sound, Moved
<1>4. Backed'
  BY <1>0, <1>3 DEF IInv, Backed, Sound
<1>5. QED
  BY <1>1, <1>2, <1>4 DEF IInv

(* The types of one result under way. *)
LEMMA ResultTypes ==
  ASSUME IInv, NEW h \in Handlers, NEW s \in Adhds, results[h][s] # None
  PROVE  /\ results[h][s] \in Result /\ Sound(results[h][s], s, now[h])
         /\ results[h][s].evidence \in Rungs /\ results[h][s].rung \in Rungs
         /\ results[h][s].calls \in 0 .. Cardinality(contractTools)
         /\ serves[s] \subseteq Tools /\ assigned[s] \in Rungs
         /\ now[h] \in Nat /\ clock \in Nat /\ now[h] <= clock
BY Constants DEF IInv, TypeOK, OnTime, Backed, Result

LEMMA HandshakeKeeps ==
  ASSUME IInv, NEW h \in Handlers, NEW s \in Adhds, HandshakeOK(h, s) \/ HandshakeFails(h, s)
  PROVE  IInv'
<1>0. /\ results[h][s] # None /\ results[h][s].state = "pending"
      /\ UNCHANGED <<clock, world, cached, pc, now, probe, gone>>
  BY DEF HandshakeOK, HandshakeFails, Waiting
<1>1. CASE HandshakeOK(h, s)
  <2> DEFINE new == [results[h][s] EXCEPT
                       !.toolsServed = serves[s],
                       !.state = IF serves[s] = {} THEN "declared-absent" ELSE "served",
                       !.calls = Cardinality(contractTools \cap serves[s])]
  <2>1. Cardinality(contractTools \cap serves[s]) \in 0 .. Cardinality(contractTools)
    BY FeatureAssumption, FS_Subset, FS_CardinalityType, Constants
  <2>2. new \in Result
    <3>1. PICK old \in Result : old = results[h][s]
      BY <1>0, ResultTypes
    <3>2. [old EXCEPT !.toolsServed = serves[s],
                      !.state = IF serves[s] = {} THEN "declared-absent" ELSE "served",
                      !.calls = Cardinality(contractTools \cap serves[s])] \in Result
      BY <1>0, <2>1, ResultTypes DEF Result, States
    <3>3. QED
      BY <3>1, <3>2
  <2>3. results' = [results EXCEPT ![h][s] = new]
    BY <1>1 DEF HandshakeOK, IInv, TypeOK
  <2>4. /\ new.fetched = results[h][s].fetched /\ new.evidence = results[h][s].evidence
        /\ new.rung = results[h][s].rung /\ new.toolsServed = serves[s]
    BY <1>0, ResultTypes DEF Result
  <2> HIDE DEF new
  <2>5. Sound(new, s, now[h])
    BY <1>0, <2>4, ResultTypes DEF Sound, IInv, Current
  <2>6. QED
    BY <1>0, <2>2, <2>3, <2>5, ResultMoves, MovedKeeps DEF IInv
<1>2. CASE HandshakeFails(h, s)
  <2> DEFINE new == [results[h][s] EXCEPT !.state = "unreachable", !.calls = 0]
  <2>1. new \in Result
    <3>1. PICK old \in Result : old = results[h][s]
      BY <1>0, ResultTypes
    <3>2. [old EXCEPT !.state = "unreachable", !.calls = 0] \in Result
      <4>1. 0 \in 0 .. Cardinality(contractTools) /\ "unreachable" \in States
        BY Constants DEF States
      <4>2. QED
        BY <4>1 DEF Result
    <3>3. QED
      BY <3>1, <3>2
  <2>2. results' = [results EXCEPT ![h][s] = new]
    BY <1>2 DEF HandshakeFails, IInv, TypeOK
  <2>3. /\ new.fetched = results[h][s].fetched /\ new.evidence = results[h][s].evidence
        /\ new.rung = results[h][s].rung /\ new.toolsServed = results[h][s].toolsServed
        /\ new.state = "unreachable"
    BY <1>0, ResultTypes DEF Result
  <2> HIDE DEF new
  <2>4. Sound(new, s, now[h])
    BY <1>0, <2>3, ResultTypes DEF Sound
  <2>5. QED
    BY <1>0, <2>1, <2>2, <2>4, ResultMoves, MovedKeeps DEF IInv
<1>3. QED
  BY <1>1, <1>2

(* After takes the rung of a result from its evidence, or leaves it. *)
LEMMA AfterTypes ==
  ASSUME NEW result \in Result, result.calls # 0
  PROVE  /\ After(result) \in Result
         /\ After(result).fetched = result.fetched /\ After(result).state = result.state
         /\ After(result).evidence = result.evidence
         /\ After(result).toolsServed = result.toolsServed
         /\ After(result).rung \in {result.evidence, result.rung}
<1>1. result.calls - 1 \in 0 .. Cardinality(contractTools) /\ 0 \in 0 .. Cardinality(contractTools)
  BY Constants DEF Result
<1>2. QED
  BY <1>1 DEF After, Result

(* An answer and a refusal raise a rung to the one given, or leave it. *)
LEMMA RaisedTypes ==
  ASSUME NEW result \in Result, NEW r \in Rungs
  PROVE  /\ Evidenced(result, r) \in Result /\ Refused(result, r) \in Result
         /\ Evidenced(result, r).evidence \in {result.evidence, r}
         /\ Refused(result, r).rung \in {result.rung, r}
         /\ Evidenced(result, r).rung = result.rung
         /\ Refused(result, r).evidence = result.evidence
         /\ \A new \in {Evidenced(result, r), Refused(result, r)} :
              /\ new.fetched = result.fetched /\ new.state = result.state
              /\ new.toolsServed = result.toolsServed /\ new.calls = result.calls
<1>1. result.evidence \in Rungs /\ result.rung \in Rungs
  BY DEF Result
<1>2. PICK a \in Rungs : a = Max({result.evidence, r}) /\ a \in {result.evidence, r}
  BY <1>1, MaxOfTwo, Constants
<1>3. PICK b \in Rungs : b = Max({result.rung, r}) /\ b \in {result.rung, r}
  BY <1>1, MaxOfTwo, Constants
<1>4. QED
  BY <1>2, <1>3 DEF Evidenced, Refused, Result

(* A contract call ends with more evidence, with a higher rung, or neither. *)
LEMMA CallKeeps ==
  ASSUME IInv, NEW h \in Handlers, NEW s \in Adhds,
         CallAnswered(h, s) \/ CallRefused(h, s) \/ CallFails(h, s)
  PROVE  IInv'
<1>0. /\ results[h][s] # None /\ results[h][s].state = "served" /\ results[h][s].calls # 0
      /\ UNCHANGED <<clock, world, cached, pc, now, probe, gone>>
  BY DEF CallAnswered, CallRefused, CallFails, Calling
<1>1. ASSUME NEW before \in Result, Sound(before, s, now[h]), before # None,
             before.state = "served", before.calls # 0,
             results' = [results EXCEPT ![h][s] = After(before)]
      PROVE  IInv'
  <2> DEFINE new == After(before)
  <2>1. /\ new \in Result /\ new.fetched = before.fetched /\ new.state = "served"
        /\ new.evidence = before.evidence /\ new.rung \in {before.evidence, before.rung}
        /\ new.toolsServed = before.toolsServed
    BY <1>1, AfterTypes
  <2>2. results' = [results EXCEPT ![h][s] = new]
    BY <1>1
  <2> HIDE DEF new
  <2>3. Sound(new, s, now[h])
    BY <1>1, <2>1 DEF Sound
  <2>4. QED
    BY <1>0, <2>1, <2>2, <2>3, ResultMoves, MovedKeeps DEF IInv
<1>2. CASE CallAnswered(h, s)
  <2>1. PICK e \in Rungs :
          /\ e <= assigned[s]
          /\ results' = [results EXCEPT ![h][s] = After(Evidenced(results[h][s], e))]
    BY <1>2 DEF CallAnswered, IInv, TypeOK
  <2> DEFINE before == Evidenced(results[h][s], e)
  <2>2. /\ before \in Result /\ before.fetched = results[h][s].fetched
        /\ before.state = "served" /\ before.calls # 0
        /\ before.evidence \in {results[h][s].evidence, e}
        /\ before.rung = results[h][s].rung /\ before.toolsServed = results[h][s].toolsServed
    BY <1>0, ResultTypes, RaisedTypes
  <2>3. results' = [results EXCEPT ![h][s] = After(before)]
    BY <2>1
  <2> HIDE DEF before
  <2>4. lastRung[s][e] = clock
    BY <2>1 DEF IInv, Current
  <2>5. Sound(before, s, now[h])
    BY <1>0, <2>2, <2>4, ResultTypes DEF Sound
  <2>6. QED
    BY <1>1, <2>2, <2>3, <2>5, Constants
<1>3. CASE CallRefused(h, s)
  <2> DEFINE before == Refused(results[h][s], assigned[s])
  <2>1. /\ before \in Result /\ before.fetched = results[h][s].fetched
        /\ before.state = "served" /\ before.calls # 0
        /\ before.rung \in {results[h][s].rung, assigned[s]}
        /\ before.evidence = results[h][s].evidence
        /\ before.toolsServed = results[h][s].toolsServed
    BY <1>0, ResultTypes, RaisedTypes
  <2>2. results' = [results EXCEPT ![h][s] = After(before)]
    BY <1>3 DEF CallRefused, IInv, TypeOK
  <2> HIDE DEF before
  <2>3. lastRung[s][assigned[s]] = clock
    <3>1. assigned[s] \in Rungs /\ assigned[s] <= assigned[s]
      BY Constants DEF IInv, TypeOK
    <3>2. QED
      BY <3>1 DEF IInv, Current
  <2>4. Sound(before, s, now[h])
    BY <1>0, <2>1, <2>3, ResultTypes DEF Sound
  <2>5. QED
    BY <1>1, <2>1, <2>2, <2>4, Constants
<1>4. CASE CallFails(h, s)
  <2>1. results' = [results EXCEPT ![h][s] = After(results[h][s])]
    BY <1>4 DEF CallFails, IInv, TypeOK
  <2>2. QED
    BY <1>0, <1>1, <2>1, ResultTypes
<1>5. QED
  BY <1>2, <1>3, <1>4

-----------------------------------------------------------------------------
(* View returns: Verify goes on only to the best source of a view of rung 3. *)
LEMMA ReturnTypes ==
  ASSUME IInv, NEW h \in Handlers, NEW view \in View, Return(h, view)
  PROVE  /\ pc' \in [Handlers -> {"idle", "call", "fetch", "probe"}]
         /\ probe' \in [Handlers -> Adhds \cup {None}]
         /\ gone' \subseteq Handlers
         /\ \A g \in Handlers : pc'[g] = "probe" <=> probe'[g] # None
         /\ \A g \in Handlers : pc'[g] = IF g = h THEN pc'[h] ELSE pc[g]
         /\ pc'[h] \in {"idle", "probe"}
         /\ pc'[h] = "probe" => /\ probe'[h] = Best(view) /\ Best(view) # None
                               /\ ViewRung(view) >= 3
<1> DEFINE probing == /\ h \in Verifiers /\ Status(view) # "no-sources"
                      /\ Best(view) # None /\ ViewRung(view) >= 3
<1>1. /\ pc' = [pc EXCEPT ![h] = IF probing THEN "probe" ELSE "idle"]
      /\ probe' = [probe EXCEPT ![h] = IF probing THEN Best(view) ELSE None]
      /\ gone' = gone \ {h}
  BY DEF Return
<1>2. probing => Best(view) \in Adhds /\ Best(view) # None /\ ViewRung(view) >= 3
  BY BestServes
<1> HIDE DEF probing
<1>3. /\ pc' \in [Handlers -> {"idle", "call", "fetch", "probe"}]
      /\ \A g \in Handlers : pc'[g] = IF g = h THEN (IF probing THEN "probe" ELSE "idle") ELSE pc[g]
  BY <1>1 DEF IInv, TypeOK
<1>4. /\ probe' \in [Handlers -> Adhds \cup {None}]
      /\ \A g \in Handlers : probe'[g] = IF g = h THEN (IF probing THEN Best(view) ELSE None)
                                         ELSE probe[g]
  BY <1>1, <1>2 DEF IInv, TypeOK
<1>5. \A g \in Handlers : pc'[g] = "probe" <=> probe'[g] # None
  BY <1>2, <1>3, <1>4 DEF IInv, TypeOK
<1>6. QED
  BY <1>1, <1>2, <1>3, <1>4, <1>5 DEF IInv, TypeOK

LEMMA ViewCachedKeeps ==
  ASSUME IInv, NEW h \in Handlers, ViewCached(h)
  PROVE  IInv'
<1>0. /\ cached # None /\ Return(h, cached)
      /\ UNCHANGED <<clock, present, serves, assigned, changes, lastRung, lastWith, lastSans,
                    cached, now, results>>
  BY DEF ViewCached, Usable, world, history
<1>1. cached \in View
  BY <1>0 DEF IInv, TypeOK
<1>2. TypeOK'
  BY <1>0, <1>1, ReturnTypes DEF IInv, TypeOK, Listed
<1>3. OnTime'
  <2>1. \A g \in Handlers : pc'[g] = "fetch" => pc[g] = "fetch"
    BY <1>0, <1>1, ReturnTypes
  <2>2. QED
    BY <1>0, <2>1 DEF IInv, OnTime
<1>4. Backed' /\ Current'
  BY <1>0 DEF IInv, Backed, Sound, Current
<1>5. QED
  BY <1>2, <1>3, <1>4 DEF IInv

LEMMA ViewStoredKeeps ==
  ASSUME IInv, NEW h \in Handlers, ViewStored(h)
  PROVE  IInv'
<1>0. /\ Answered(h) /\ cached' = Merged(h) /\ Return(h, Merged(h))
      /\ results' = [results EXCEPT ![h] = NoResults] /\ now' = [now EXCEPT ![h] = 0]
      /\ UNCHANGED <<clock, present, serves, assigned, changes, lastRung, lastWith, lastSans>>
  BY DEF ViewStored, world, history
<1>1. PICK view \in View : view = Merged(h)
  BY DEF Merged, View, IInv, TypeOK
<1>2. view.fetched = now[h] /\ view.sources = results[h]
  BY <1>1 DEF Merged
<1>3. Return(h, view) /\ \A s \in Adhds : Sound(view.sources[s], s, view.fetched)
  BY <1>0, <1>1, <1>2 DEF IInv, Backed
<1>4. \A s \in Adhds : view.sources[s] # None => view.sources[s].state # "pending"
  BY <1>0, <1>2 DEF Answered
<1>5. /\ results' \in [Handlers -> [Adhds -> Result \cup {None}]]
      /\ \A g \in Handlers, s \in Adhds :
           results'[g][s] = IF g = h THEN None ELSE results[g][s]
  BY <1>0 DEF IInv, TypeOK, NoResults
<1>6. /\ now' \in [Handlers -> 0 .. MaxTime]
      /\ \A g \in Handlers : now'[g] = IF g = h THEN 0 ELSE now[g]
  BY <1>0, Constants DEF IInv, TypeOK
<1>7. TypeOK'
  <2>1. cached' = view /\ \A s \in Listed(cached') : cached'.sources[s].state # "pending"
    BY <1>0, <1>1, <1>4 DEF Listed
  <2>2. QED
    BY <1>0, <1>3, <1>5, <1>6, <2>1, ReturnTypes DEF IInv, TypeOK, Listed
<1>8. OnTime'
  <2>1. \A g \in Handlers : pc'[g] = "fetch" => g # h /\ pc[g] = "fetch"
    BY <1>0, <1>3, ReturnTypes
  <2>2. 1 <= cached'.fetched /\ cached'.fetched <= clock
    BY <1>0, <1>1, <1>2 DEF IInv, OnTime, ViewStored
  <2>3. 0 <= clock
    BY Constants DEF IInv, TypeOK
  <2>4. QED
    BY <1>0, <1>6, <2>1, <2>2, <2>3 DEF IInv, OnTime
<1>9. Backed'
  <2>1. \A g \in Handlers, s \in Adhds : Sound(results[g][s], s, now[g])'
    BY <1>0, <1>5, <1>6 DEF IInv, Backed, Sound
  <2>2. cached' = view
    BY <1>0, <1>1
  <2>3. \A s \in Adhds : Sound(cached.sources[s], s, cached.fetched)'
    BY <1>0, <1>3, <2>2 DEF Sound
  <2>4. QED
    BY <1>0, <2>1, <2>3 DEF IInv, Backed
<1>10. Current'
  BY <1>0 DEF IInv, Current
<1>11. QED
  BY <1>7, <1>8, <1>9, <1>10 DEF IInv

LEMMA FetchKeeps ==
  ASSUME IInv, NEW h \in Handlers, Fetch(h)
  PROVE  IInv'
<1>0. /\ pc[h] = "call" /\ pc' = [pc EXCEPT ![h] = "fetch"] /\ now' = [now EXCEPT ![h] = clock]
      /\ results' = [results EXCEPT ![h] = [s \in Adhds |-> IF s \in present THEN Asked ELSE None]]
      /\ UNCHANGED <<clock, present, serves, assigned, changes, lastRung, lastWith, lastSans,
                    cached, probe, gone>>
  BY DEF Fetch, world, history
<1>1. PICK asked \in Result :
        /\ asked = Asked /\ asked.fetched = clock /\ asked.evidence = 0 /\ asked.rung = 0
        /\ asked.toolsServed = {} /\ asked.state = "pending"
  <2>1. /\ clock \in 0 .. MaxTime /\ 0 \in Rungs /\ "pending" \in States
        /\ Cardinality(contractTools) \in 0 .. Cardinality(contractTools)
    BY Constants DEF IInv, TypeOK, States
  <2>2. Asked \in Result
    BY <2>1 DEF Asked, Result
  <2>3. QED
    BY <2>2 DEF Asked
<1>2. /\ results' \in [Handlers -> [Adhds -> Result \cup {None}]]
      /\ \A g \in Handlers, s \in Adhds :
           results'[g][s] = IF g = h THEN (IF s \in present THEN asked ELSE None)
                            ELSE results[g][s]
  BY <1>0, <1>1 DEF IInv, TypeOK
<1>3. /\ now' \in [Handlers -> 0 .. MaxTime]
      /\ \A g \in Handlers : now'[g] = IF g = h THEN clock ELSE now[g]
  BY <1>0 DEF IInv, TypeOK
<1>4. /\ pc' \in [Handlers -> {"idle", "call", "fetch", "probe"}]
      /\ \A g \in Handlers : pc'[g] = IF g = h THEN "fetch" ELSE pc[g]
  BY <1>0 DEF IInv, TypeOK
<1>5. TypeOK'
  BY <1>0, <1>2, <1>3, <1>4 DEF IInv, TypeOK, Listed
<1>6. OnTime'
  <2>1. clock \in Nat /\ 1 <= clock /\ clock <= clock + MaxFetch
    BY Constants DEF IInv, TypeOK
  <2>2. QED
    BY <1>0, <1>3, <1>4, <2>1 DEF IInv, OnTime
<1>7. \A s \in Adhds : clock <= lastRung[s][0]
  BY Constants DEF IInv, TypeOK, Current
<1>8. \A g \in Handlers, s \in Adhds : Sound(results[g][s], s, now[g])'
  BY <1>0, <1>1, <1>2, <1>3, <1>7 DEF IInv, Backed, Sound
<1>9. Backed'
  BY <1>0, <1>8 DEF IInv, Backed, Sound
<1>10. Current'
  BY <1>0 DEF IInv, Current
<1>11. QED
  BY <1>5, <1>6, <1>9, <1>10 DEF IInv

(* Call, VerifyDone and HangUp. *)
LEMMA HandlerKeeps ==
  ASSUME IInv, NEW h \in Handlers, Call(h) \/ VerifyDone(h) \/ HangUp(h)
  PROVE  IInv'
<1>0. UNCHANGED <<clock, present, serves, assigned, changes, lastRung, lastWith, lastSans,
                    cached, now, results>>
  BY DEF Call, VerifyDone, HangUp, world, history
<1>1. Backed' /\ Current'
  BY <1>0 DEF IInv, Backed, Sound, Current
<1>2. CASE Call(h)
  <2>1. /\ pc' \in [Handlers -> {"idle", "call", "fetch", "probe"}] /\ UNCHANGED <<probe, gone>>
        /\ pc[h] = "idle" /\ \A g \in Handlers : pc'[g] = IF g = h THEN "call" ELSE pc[g]
    BY <1>2 DEF Call, IInv, TypeOK
  <2>2. TypeOK' /\ OnTime'
    BY <1>0, <2>1 DEF IInv, TypeOK, OnTime, Listed
  <2>3. QED
    BY <1>1, <2>2 DEF IInv
<1>3. CASE VerifyDone(h)
  <2>1. /\ pc' \in [Handlers -> {"idle", "call", "fetch", "probe"}] /\ UNCHANGED gone
        /\ probe' \in [Handlers -> Adhds \cup {None}]
        /\ \A g \in Handlers : pc'[g] = IF g = h THEN "idle" ELSE pc[g]
        /\ \A g \in Handlers : probe'[g] = IF g = h THEN None ELSE probe[g]
    BY <1>3 DEF VerifyDone, IInv, TypeOK
  <2>2. TypeOK' /\ OnTime'
    BY <1>0, <2>1 DEF IInv, TypeOK, OnTime, Listed
  <2>3. QED
    BY <1>1, <2>2 DEF IInv
<1>4. CASE HangUp(h)
  <2>1. UNCHANGED <<pc, probe>> /\ gone' \subseteq Handlers
    BY <1>4 DEF HangUp, IInv, TypeOK
  <2>2. TypeOK' /\ OnTime'
    BY <1>0, <2>1 DEF IInv, TypeOK, OnTime, Listed
  <2>3. QED
    BY <1>1, <2>2 DEF IInv
<1>5. QED
  BY <1>2, <1>3, <1>4

(* The histories are recorded: they only grow, and are then up to date. *)
Grown(t) ==
  \A s \in Adhds :
    /\ \A r \in Rungs : lastRung[s][r] <= lastRung'[s][r] /\ lastRung'[s][r] <= t
    /\ lastWith[s] <= lastWith'[s] /\ lastWith'[s] <= t
    /\ lastSans[s] <= lastSans'[s] /\ lastSans'[s] <= t

Noted(t) ==
  \A s \in Adhds :
    /\ \A r \in Rungs : r <= assigned'[s] => lastRung'[s][r] = t
    /\ VerifyTool \in serves'[s] => lastWith'[s] = t
    /\ VerifyTool \notin serves'[s] => lastSans'[s] = t

LEMMA RecordedGrows ==
  ASSUME IInv, NEW t \in 1 .. MaxTime, clock <= t, Recorded(t)
  PROVE  /\ lastRung' \in [Adhds -> [Rungs -> 0 .. MaxTime]]
         /\ lastWith' \in [Adhds -> 0 .. MaxTime] /\ lastSans' \in [Adhds -> 0 .. MaxTime]
         /\ Grown(t) /\ Noted(t)
<1>0. clock \in Nat /\ t \in Nat /\ t \in 0 .. MaxTime
  BY Constants DEF IInv, TypeOK
<1>1. /\ lastRung' \in [Adhds -> [Rungs -> 0 .. MaxTime]]
      /\ \A s \in Adhds, r \in Rungs :
           lastRung'[s][r] = IF r <= assigned'[s] THEN t ELSE lastRung[s][r]
  BY <1>0 DEF Recorded, IInv, TypeOK
<1>2. /\ lastWith' \in [Adhds -> 0 .. MaxTime] /\ lastSans' \in [Adhds -> 0 .. MaxTime]
      /\ \A s \in Adhds :
           /\ lastWith'[s] = IF VerifyTool \in serves'[s] THEN t ELSE lastWith[s]
           /\ lastSans'[s] = IF VerifyTool \notin serves'[s] THEN t ELSE lastSans[s]
  BY <1>0 DEF Recorded, IInv, TypeOK
<1>3. /\ \A s \in Adhds, r \in Rungs : lastRung[s][r] \in Nat /\ lastRung[s][r] <= clock
      /\ \A s \in Adhds : /\ lastWith[s] \in Nat /\ lastWith[s] <= clock
                          /\ lastSans[s] \in Nat /\ lastSans[s] <= clock
  BY Constants DEF IInv, TypeOK, Current
<1>4. Grown(t)
  BY <1>0, <1>1, <1>2, <1>3 DEF Grown
<1>5. Noted(t)
  BY <1>1, <1>2 DEF Noted
<1>6. QED
  BY <1>1, <1>2, <1>4, <1>5

(* A result stays backed while the histories grow. *)
LEMMA SoundStays ==
  ASSUME IInv, NEW t \in 1 .. MaxTime, clock <= t, Recorded(t),
         NEW result \in Result \cup {None}, NEW s \in Adhds, NEW asked \in Nat,
         Sound(result, s, asked)
  PROVE  Sound(result, s, asked)'
<1> SUFFICES ASSUME result # None PROVE Sound(result, s, asked)'
  BY DEF Sound
<1>1. result.evidence \in Rungs /\ result.rung \in Rungs
  BY DEF Result
<1>2. /\ \A r \in Rungs : /\ lastRung[s][r] \in Nat /\ lastRung'[s][r] \in Nat
                          /\ lastRung[s][r] <= lastRung'[s][r]
      /\ lastWith[s] \in Nat /\ lastWith'[s] \in Nat /\ lastWith[s] <= lastWith'[s]
      /\ lastSans[s] \in Nat /\ lastSans'[s] \in Nat /\ lastSans[s] <= lastSans'[s]
  BY RecordedGrows, Constants DEF IInv, TypeOK, Grown
<1>3. /\ asked <= lastRung'[s][result.evidence] /\ asked <= lastRung'[s][result.rung]
      /\ VerifyTool \in result.toolsServed => asked <= lastWith'[s]
      /\ result.state = "served" /\ VerifyTool \notin result.toolsServed => asked <= lastSans'[s]
  BY <1>1, <1>2 DEF Sound
<1>4. QED
  BY <1>3 DEF Sound

(* The instances change, or time passes. *)
LEMMA WorldKeeps ==
  ASSUME IInv, NEW t \in 1 .. MaxTime, clock <= t, clock' = t, Recorded(t),
         present' \subseteq Adhds, serves' \in [Adhds -> SUBSET Tools],
         assigned' \in [Adhds -> Rungs], changes' \in 0 .. MaxChanges, OnTime',
         UNCHANGED <<cached, pc, now, results, probe, gone>>
  PROVE  IInv'
<1>1. TypeOK'
  BY RecordedGrows DEF IInv, TypeOK, Listed
<1>2. Current'
  BY RecordedGrows DEF Current, Grown, Noted
<1>3. ASSUME NEW g \in Handlers, NEW s \in Adhds PROVE Sound(results[g][s], s, now[g])'
  <2>1. PICK result \in Result \cup {None} : result = results[g][s]
    BY DEF IInv, TypeOK
  <2>2. PICK asked \in Nat : asked = now[g]
    BY Constants DEF IInv, TypeOK
  <2>3. Sound(result, s, asked)
    BY <2>1, <2>2 DEF IInv, Backed
  <2>4. Sound(result, s, asked)'
    BY <2>3, SoundStays
  <2>5. QED
    BY <2>1, <2>2, <2>4 DEF Sound
<1>4. ASSUME cached # None, NEW s \in Adhds PROVE Sound(cached.sources[s], s, cached.fetched)'
  <2>1. PICK result \in Result \cup {None} : result = cached.sources[s]
    BY <1>4 DEF IInv, TypeOK, View
  <2>2. PICK asked \in Nat : asked = cached.fetched
    BY <1>4, Constants DEF IInv, TypeOK, View
  <2>3. Sound(result, s, asked)
    BY <1>4, <2>1, <2>2 DEF IInv, Backed
  <2>4. Sound(result, s, asked)'
    BY <2>3, SoundStays
  <2>5. QED
    BY <2>1, <2>2, <2>4 DEF Sound
<1>5. Backed'
  BY <1>3, <1>4 DEF Backed
<1>6. QED
  BY <1>1, <1>2, <1>5 DEF IInv

LEMMA ChangesKeep ==
  ASSUME IInv, NEW s \in Adhds,
         \/ \E r \in Rungs : Reassigns(s, r)
         \/ \E tools \in Offers[s] : Reoffers(s, tools)
  PROVE  IInv'
<1>1. clock \in 1 .. MaxTime /\ clock <= clock
  BY Constants DEF IInv, TypeOK
<1>2. /\ UNCHANGED <<clock, present, cached, pc, now, results, probe, gone>>
      /\ Recorded(clock) /\ changes' \in 0 .. MaxChanges
  BY Constants DEF Reassigns, Reoffers, Changes, IInv, TypeOK
<1>3. serves' \in [Adhds -> SUBSET Tools] /\ assigned' \in [Adhds -> Rungs]
  <2>1. ASSUME NEW r \in Rungs, Reassigns(s, r)
        PROVE  serves' \in [Adhds -> SUBSET Tools] /\ assigned' \in [Adhds -> Rungs]
    BY <2>1 DEF Reassigns, IInv, TypeOK
  <2>2. ASSUME NEW tools \in Offers[s], Reoffers(s, tools)
        PROVE  serves' \in [Adhds -> SUBSET Tools] /\ assigned' \in [Adhds -> Rungs]
    <3>1. tools \in SUBSET Tools
      BY Constants
    <3>2. QED
      BY <2>2, <3>1 DEF Reoffers, IInv, TypeOK
  <2>3. QED
    BY <2>1, <2>2
<1>4. OnTime' /\ present' \subseteq Adhds
  BY <1>2 DEF IInv, TypeOK, OnTime
<1>5. QED
  BY <1>1, <1>2, <1>3, <1>4, WorldKeeps

LEMMA TickKeeps ==
  ASSUME IInv, Tick
  PROVE  IInv'
<1>0. /\ clock < MaxTime /\ clock' = clock + 1 /\ Recorded(clock + 1)
      /\ \A h \in Handlers : pc[h] = "fetch" => clock < now[h] + MaxFetch
      /\ UNCHANGED <<present, serves, assigned, changes, cached, pc, now, results, probe, gone>>
  BY DEF Tick
<1>1. /\ clock \in Nat /\ clock + 1 \in 1 .. MaxTime /\ clock <= clock + 1
      /\ \A h \in Handlers : now[h] \in Nat
  BY <1>0, Constants DEF IInv, TypeOK
<1>2. OnTime'
  <2>1. cached # None => cached.fetched \in Nat
    BY Constants DEF IInv, TypeOK, View
  <2>2. QED
    BY <1>0, <1>1, <2>1, Constants DEF IInv, OnTime
<1>3. /\ present' \subseteq Adhds /\ serves' \in [Adhds -> SUBSET Tools]
      /\ assigned' \in [Adhds -> Rungs] /\ changes' \in 0 .. MaxChanges
  BY <1>0 DEF IInv, TypeOK
<1>4. PICK t \in 1 .. MaxTime : t = clock + 1
  BY <1>1
<1>5. clock <= t /\ clock' = t /\ Recorded(t)
  BY <1>0, <1>1, <1>4
<1>6. QED
  BY <1>0, <1>2, <1>3, <1>5, WorldKeeps

LEMMA Inductive == IInv /\ [Next]_vars => IInv'
<1> SUFFICES ASSUME IInv, [Next]_vars PROVE IInv'
  OBVIOUS
<1>1. ASSUME NEW s \in Adhds, SourcesChange(s) PROVE IInv'
  <2>1. /\ present' \subseteq Adhds /\ changes' \in 0 .. MaxChanges
        /\ UNCHANGED <<clock, serves, assigned, lastRung, lastWith, lastSans, cached, pc, now,
                      results, probe, gone>>
    BY <1>1, Constants DEF SourcesChange, Changes, history, IInv, TypeOK
  <2>2. TypeOK' /\ OnTime'
    BY <2>1 DEF IInv, TypeOK, OnTime, Listed
  <2>3. Backed' /\ Current'
    BY <2>1 DEF IInv, Backed, Sound, Current
  <2>4. QED
    BY <2>2, <2>3 DEF IInv
<1>2. CASE UNCHANGED vars
  <2>1. TypeOK' /\ OnTime'
    BY <1>2 DEF vars, world, history, IInv, TypeOK, OnTime, Listed
  <2>2. Backed' /\ Current'
    BY <1>2 DEF vars, world, history, IInv, Backed, Sound, Current
  <2>3. QED
    BY <2>1, <2>2 DEF IInv
<1>3. ASSUME NEW h \in Handlers, Step(h) PROVE IInv'
  BY <1>3, ViewCachedKeeps, FetchKeeps, ViewStoredKeeps, HandlerKeeps, HandshakeKeeps, CallKeeps
     DEF Step
<1>4. QED
  BY <1>1, <1>2, <1>3, HandlerKeeps, ChangesKeep, TickKeeps DEF Next

LEMMA InitInv == Init => IInv
<1> SUFFICES ASSUME Init PROVE IInv
  OBVIOUS
<1>1. /\ clock = 1 /\ cached = None /\ assigned \in [Adhds -> Rungs]
      /\ \A h \in Handlers : pc[h] = "idle" /\ now[h] = 0 /\ probe[h] = None
      /\ \A h \in Handlers, s \in Adhds : results[h][s] = None
  BY DEF Init, NoResults
<1>2. results \in [Handlers -> [Adhds -> Result \cup {None}]]
  BY DEF Init, NoResults
<1>3. 1 \in 0 .. MaxTime /\ 0 \in 0 .. MaxTime /\ 0 \in 0 .. MaxChanges /\ 1 \in 1 .. MaxTime
  BY Constants
<1>4. /\ lastRung \in [Adhds -> [Rungs -> 0 .. MaxTime]]
      /\ lastWith \in [Adhds -> 0 .. MaxTime] /\ lastSans \in [Adhds -> 0 .. MaxTime]
  BY <1>3 DEF Init
<1>5. TypeOK
  BY <1>1, <1>2, <1>3, <1>4 DEF Init, TypeOK
<1>6. OnTime
  BY <1>1, Constants DEF OnTime
<1>7. Current
  BY <1>1 DEF Init, Current
<1>8. Backed
  BY <1>1 DEF Backed, Sound
<1>9. QED
  BY <1>5, <1>6, <1>7, <1>8 DEF IInv

(* The inductive invariant holds of every behaviour. *)
THEOREM Invariance == Spec => []IInv
BY InitInv, Inductive, PTL DEF Spec

(* A cached view is complete, never one of a fetch under way (View, fetch). *)
THEOREM TypeCorrect == Spec => []TypeOK
<1>1. IInv => TypeOK
  BY DEF IInv
<1>2. QED
  BY <1>1, Invariance, PTL

(* "It is adhd's assignment read back from its answers - tuner never        *)
(* declares it" (View.Rung): no cached source shows a rung that its         *)
(* instance has not assigned since the fetch began, and one that did not    *)
(* answer shows none.                                                       *)
THEOREM RungsAreAssigned == Spec => []RungIsAdhds
<1>1. IInv => RungIsAdhds
  <2> SUFFICES ASSUME IInv, cached # None, NEW s \in Listed(cached)
               PROVE  /\ lastRung[s][cached.sources[s].rung] >= cached.fetched
                      /\ cached.sources[s].state # "served" => cached.sources[s].rung = 0
    BY DEF RungIsAdhds
  <2>1. /\ s \in Adhds /\ cached.sources[s] # None
        /\ Sound(cached.sources[s], s, cached.fetched)
    BY DEF IInv, Backed, Listed
  <2>2. cached.sources[s].rung \in Rungs /\ cached.fetched \in Nat
    BY <2>1, Constants DEF IInv, TypeOK, View, Result
  <2>3. lastRung[s][cached.sources[s].rung] \in Nat
    BY <2>1, <2>2, Constants DEF IInv, TypeOK
  <2>4. QED
    BY <2>1, <2>2, <2>3 DEF Sound
<1>2. QED
  BY <1>1, Invariance, PTL

-----------------------------------------------------------------------------
(* Only View hands a view out: from the cache, or the one it stores. *)
LEMMA HandedBy ==
  ASSUME IInv, Next, NEW h \in Handlers, Handed(h)
  PROVE  ViewCached(h) \/ ViewStored(h)
<1>1. ASSUME NEW g \in Handlers, g # h, Call(g) \/ Step(g) \/ HangUp(g) PROVE pc'[h] = pc[h]
  BY <1>1 DEF Call, Step, HangUp, ViewCached, Fetch, ViewStored, VerifyDone, HandshakeOK,
              HandshakeFails, CallAnswered, CallRefused, CallFails, Return, IInv, TypeOK
<1>2. ASSUME Call(h) \/ HangUp(h) \/ Fetch(h) \/ VerifyDone(h) PROVE FALSE
  BY <1>2 DEF Call, HangUp, Fetch, VerifyDone, Handed, IInv, TypeOK
<1>3. ASSUME NEW s \in Adhds,
             \/ HandshakeOK(h, s) \/ HandshakeFails(h, s)
             \/ CallAnswered(h, s) \/ CallRefused(h, s) \/ CallFails(h, s)
      PROVE  FALSE
  BY <1>3 DEF HandshakeOK, HandshakeFails, CallAnswered, CallRefused, CallFails, Handed
<1>4. ASSUME Tick \/ \E s \in Adhds : 
               \/ SourcesChange(s)
               \/ \E r \in Rungs : Reassigns(s, r)
               \/ \E tools \in Offers[s] : Reoffers(s, tools)
      PROVE  FALSE
  BY <1>4 DEF Tick, SourcesChange, Reassigns, Reoffers, Handed
<1>5. QED
  BY <1>1, <1>2, <1>3, <1>4 DEF Next, Step, Handed

(* The view handed out is sound and its fetch began within OldestAnswer.    *)
LEMMA HandedView ==
  ASSUME IInv, Next, NEW h \in Handlers, Handed(h)
  PROVE  /\ cached' \in View /\ Return(h, cached') /\ UNCHANGED <<lastRung, lastWith, lastSans>>
         /\ \A s \in Adhds : Sound(cached'.sources[s], s, cached'.fetched)
         /\ cached'.fetched \in Nat /\ 1 <= cached'.fetched
         /\ OldestAnswer \in Nat /\ clock \in Nat /\ clock <= cached'.fetched + OldestAnswer
<1>1. /\ OldestAnswer \in Nat /\ Refresh - 1 <= OldestAnswer /\ MaxFetch <= OldestAnswer
      /\ clock \in Nat
  BY Constants, MaxOfTwo DEF OldestAnswer, IInv, TypeOK
<1>2. CASE ViewCached(h)
  <2>1. /\ cached' = cached /\ cached # None /\ clock - cached.fetched < Refresh
        /\ Return(h, cached) /\ UNCHANGED <<lastRung, lastWith, lastSans>>
    BY <1>2 DEF ViewCached, Usable, world, history
  <2>2. /\ cached \in View /\ cached.fetched \in Nat /\ 1 <= cached.fetched
        /\ \A s \in Adhds : Sound(cached.sources[s], s, cached.fetched)
    BY <2>1, Constants DEF IInv, TypeOK, OnTime, Backed, View
  <2>3. QED
    BY <1>1, <2>1, <2>2, Constants
<1>3. CASE ViewStored(h)
  <2>1. /\ cached' = Merged(h) /\ pc[h] = "fetch" /\ Return(h, Merged(h))
        /\ UNCHANGED <<lastRung, lastWith, lastSans>>
    BY <1>3 DEF ViewStored, world, history
  <2>2. /\ cached' \in View /\ cached'.fetched = now[h] /\ cached'.sources = results[h]
    BY <2>1 DEF Merged, View, IInv, TypeOK
  <2>3. now[h] \in Nat /\ 1 <= now[h] /\ clock <= now[h] + MaxFetch
    BY <2>1, Constants DEF IInv, TypeOK, OnTime
  <2>4. \A s \in Adhds : Sound(cached'.sources[s], s, cached'.fetched)
    BY <2>2 DEF IInv, Backed
  <2>5. QED
    BY <1>1, <2>1, <2>2, <2>3, <2>4, Constants
<1>4. QED
  BY <1>2, <1>3, HandedBy

(* No view is handed out whose answers are older than the cache lifetime or *)
(* than one fetch, although handlers fetch side by side and an older view   *)
(* can replace a newer one (View, fetch).                                   *)
THEOREM AnswersAreFresh == Spec => AnswersFresh
<1>1. ASSUME IInv, Next, NEW h \in Handlers, Handed(h), NEW s \in Listed(cached')
      PROVE  clock <= cached'.sources[s].fetched + OldestAnswer
  <2>1. s \in Adhds /\ cached'.sources[s] # None
    BY DEF Listed
  <2>2. cached'.sources[s].fetched = cached'.fetched
    BY <1>1, <2>1, HandedView DEF Sound
  <2>3. QED
    BY <1>1, <2>2, HandedView
<1>2. IInv /\ [Next]_vars =>
        [\A h \in Handlers : Handed(h) =>
           \A s \in Listed(cached') : clock <= cached'.sources[s].fetched + OldestAnswer]_vars
  BY <1>1
<1>3. QED
  BY <1>2, Invariance, PTL DEF Spec, AnswersFresh

(* What was so since the fetch of a view began was so of late. *)
LEMMA SinceIsRecent ==
  ASSUME NEW t \in Nat, NEW fetched \in Nat, fetched <= t, 1 <= fetched,
         OldestAnswer \in Nat, clock \in Nat, clock <= fetched + OldestAnswer
  PROVE  Recent(t)
BY DEF Recent

(* "The action exists only at rung 3: below it, tuner does not call"        *)
(* (Verify): although the view may be a cached one and the instances change *)
(* their tools and rungs meanwhile, the instance called has of late served  *)
(* the tool and assigned rung 3, unless one that assigned it did not serve  *)
(* the tool.                                                                *)
THEOREM ProbesAreBacked == Spec => ProbeBacked
<1> DEFINE Calls(h) == /\ Recent(lastWith[probe'[h]])
                       /\ \E s \in Adhds : RungThree(s) /\ (s = probe'[h] \/ Recent(lastSans[s]))
<1>1. ASSUME IInv, Next, NEW h \in Handlers, Handed(h), pc'[h] = "probe"
      PROVE  Calls(h)
  <2>0. cached' \in View /\ Return(h, cached')
    BY <1>1, HandedView
  <2>1. PICK view \in View : view = cached'
    BY <2>0
  <2>2. /\ Return(h, view) /\ UNCHANGED <<lastRung, lastWith, lastSans>>
        /\ \A s \in Adhds : Sound(view.sources[s], s, view.fetched)
        /\ view.fetched \in Nat /\ 1 <= view.fetched /\ OldestAnswer \in Nat
        /\ clock \in Nat /\ clock <= view.fetched + OldestAnswer
    BY <1>1, <2>1, HandedView
  <2>3. probe'[h] = Best(view) /\ Best(view) # None /\ ViewRung(view) >= 3
    BY <1>1, <2>2, ReturnTypes
  <2>4. PICK b \in Adhds :
          /\ b = probe'[h] /\ view.sources[b] # None
          /\ VerifyTool \in view.sources[b].toolsServed
          /\ \A s \in Listed(view) : VerifyTool \in view.sources[s].toolsServed =>
               view.sources[s].rung <= view.sources[b].rung
    BY <2>3, BestServes
  <2>5. Recent(lastWith[b])
    <3>1. view.fetched <= lastWith[b] /\ lastWith[b] \in Nat
      BY <1>1, <2>2, <2>4, Constants DEF Sound, IInv, TypeOK
    <3>2. QED
      BY <2>2, <3>1, SinceIsRecent
  <2>6. ASSUME NEW s \in Listed(view), view.sources[s].rung >= 3 PROVE RungThree(s)
    <3>1. /\ s \in Adhds /\ view.sources[s] # None /\ view.sources[s].rung \in Rungs
      BY DEF Listed, View, Result
    <3>2. PICK r \in Rungs : r = view.sources[s].rung
      BY <3>1
    <3>3. view.fetched <= lastRung[s][r] /\ lastRung[s][r] \in Nat
      BY <1>1, <2>2, <3>1, <3>2, Constants DEF Sound, IInv, TypeOK
    <3>4. Recent(lastRung[s][r])
      BY <2>2, <3>3, SinceIsRecent
    <3>5. QED
      BY <2>6, <3>2, <3>4 DEF RungThree
  <2>7. PICK s \in Listed(view) : view.sources[s].rung >= 3
    BY <2>3, ViewRungShown
  <2>8. /\ s \in Adhds /\ view.sources[s] # None /\ b \in Listed(view)
        /\ view.sources[s].rung \in Nat /\ view.sources[b].rung \in Nat
    BY <2>4, Constants DEF Listed, View, Result
  <2>9. CASE VerifyTool \in view.sources[s].toolsServed
    <3>1. view.sources[b].rung >= 3
      BY <2>4, <2>7, <2>8, <2>9
    <3>2. RungThree(b)
      BY <2>6, <2>8, <3>1
    <3>3. QED
      BY <2>4, <2>5, <3>2
  <2>10. CASE VerifyTool \notin view.sources[s].toolsServed
    <3>1. view.sources[s].state = "served"
      BY <2>2, <2>7, <2>8 DEF Sound
    <3>2. view.fetched <= lastSans[s] /\ lastSans[s] \in Nat
      BY <1>1, <2>2, <2>8, <2>10, <3>1, Constants DEF Sound, IInv, TypeOK
    <3>3. Recent(lastSans[s])
      BY <2>2, <3>2, SinceIsRecent
    <3>4. RungThree(s)
      BY <2>6, <2>7
    <3>5. QED
      BY <2>4, <2>5, <2>8, <3>3, <3>4
  <2>11. QED
    BY <2>9, <2>10
<1>2. IInv /\ [Next]_vars => [\A h \in Handlers : Handed(h) /\ pc'[h] = "probe" => Calls(h)]_vars
  BY <1>1
<1>3. QED
  BY <1>2, Invariance, PTL DEF Spec, ProbeBacked
=============================================================================
