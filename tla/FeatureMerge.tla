---------------------------- MODULE FeatureMerge ----------------------------
(***************************************************************************)
(* What the feature browser's view says, internal/featurebrowser: which    *)
(* sources are asked (SourceSet), what a source's answers evidence         *)
(* (fetchSource), and merge, which folds them entry by entry into one      *)
(* view.  FeatureView models when this runs and what becomes of the view.  *)
(*                                                                         *)
(* Names are their ranks: a host stands for an address, a key for a        *)
(* feature file and scenario, a skill or a member.  Gated values are told  *)
(* apart as far as they can be mixed up.  Notes and errors are left out.   *)
(***************************************************************************)
EXTENDS Naturals, Sequences, SequencesExt, FiniteSetsExt

CONSTANTS
  Found,       \* the sets of isotope endpoints the mDNS browser may know
  Configured,  \* the feature_browser.endpoints there may be
  Answers,     \* sets of what a source may answer, one set per behaviour
  None         \* a field or a name that is not there, a view not yet merged

Optional(S) == S \cup {None}

(* An entry of each tool, named by a member of Keys.  Its sources are       *)
(* filled in by merge.                                                      *)
Feature(Keys) ==
  [key : Keys, certified : BOOLEAN, stale : BOOLEAN,
   isotope : Optional(STRING), member : Optional(STRING), sources : Seq(Nat)]
Skill(Keys) ==
  [key : Keys, rung : Nat, distance : Optional(Nat), failures : Optional(Nat),
   binding : Optional(STRING), sources : Seq(Nat)]
Member(Keys) ==
  [key : Keys, mode : Optional({"demo", "real"}), trust : Optional(Nat),
   count : Optional(Nat), sources : Seq(Nat)]

SourceStates == {"served", "declared-absent", "unreachable"}

(* What a source answered to all calls together: rung is the highest an     *)
(* envelope stated, plaintext that one evidences a demo cluster.            *)
Answer ==
  [state : SourceStates, rung : Nat, unverified : Nat, plaintext : BOOLEAN,
   features : Seq(Feature(Optional(Nat))), skills : Seq(Skill(Optional(Nat))),
   members : Seq(Member(Optional(Nat)))]

ASSUME MergeAssumption ==
  /\ None \notin Nat /\ None # "demo"
  /\ \A found \in Found : /\ IsFiniteSet(found)
                          /\ found \subseteq [host : Nat, label : Optional(Nat)]
                          /\ \A e, f \in found : e.host = f.host => e = f
  /\ Configured \subseteq
       Seq([url : Optional([host : Nat, path : Optional(STRING)]), name : Optional(Nat)])
  /\ \A set \in Answers : set \subseteq Answer

VARIABLES
  answers,    \* the answers of this behaviour
  configured, \* cfg.FeatureBrowser.Endpoints
  sources,    \* fetch: the sources, in order
  results,    \* the sourceResults merge has come to, in the order of the sources
  at,         \* how many entries of the last of them are merged, by tool
  features, skills, members,  \* merge: the maps, by key
  byReal, byDemo,             \* merge: certifiedByReal, certifiedByDemo
  view        \* what merge returned

vars == <<answers, configured, sources, results, at, features, skills, members, byReal,
          byDemo, view>>

Tools == {"features", "skills", "members"}

Empty == [k \in {} |-> None]

Init ==
  /\ answers \in Answers /\ configured \in Configured
  /\ sources = <<>> /\ results = <<>>
  /\ at = [t \in Tools |-> 0]
  /\ features = Empty /\ skills = Empty /\ members = Empty
  /\ byReal = {} /\ byDemo = {}
  /\ view = None

-----------------------------------------------------------------------------
(* The sources.                                                             *)

(* The elements of s at the positions in I, in their order in s. *)
Subsequence(s, I) ==
  LET n == Cardinality(I)
      e == CHOOSE e \in [1 .. n -> I] : \A i, j \in 1 .. n : i < j => e[i] < e[j]
  IN [i \in 1 .. n |-> s[e[i]]]

(* A bare origin gets the MCP route. *)
NormalizeEndpoint(url) == [url EXCEPT !.path = IF @ \in {None, "/"} THEN "/mcp" ELSE @]

(* Empty URLs are left out, and an endpoint without a name is named after   *)
(* its address.                                                             *)
ConfigSources(eps) ==
  LET given == Subsequence(eps, {i \in DOMAIN eps : eps[i].url # None})
  IN [i \in DOMAIN given |->
        [instance |-> IF given[i].name = None THEN given[i].url.host ELSE given[i].name,
         endpoint |-> NormalizeEndpoint(given[i].url)]]

(* One source per endpoint, sorted by name in one of the orders that a sort *)
(* that is not stable leaves open.                                          *)
DiscoveredSources(eps) ==
  LET found == {[instance |-> IF ep.label = None THEN ep.host ELSE ep.label,
                 endpoint |-> NormalizeEndpoint([host |-> ep.host, path |-> None])] :
                  ep \in eps}
  IN {s \in SetToSeqs(found) : \A i, j \in DOMAIN s : i < j => s[i].instance <= s[j].instance}

(* The first source of each endpoint is kept. *)
dedupeByEndpoint(list) ==
  Subsequence(list, {i \in DOMAIN list :
                       \A j \in DOMAIN list : j < i => list[j].endpoint # list[i].endpoint})

(* The discovered instances, or else the configured endpoints. *)
SourceSet(discovered, config) ==
  dedupeByEndpoint(IF discovered # <<>> THEN discovered ELSE config)

-----------------------------------------------------------------------------
(* One source.                                                              *)

Has(entries, P(_)) == \E i \in DOMAIN entries : P(entries[i])

(* decodeFeatures, decodeSkills, decodeMembers: an entry without a name is  *)
(* dropped.                                                                 *)
Decode(entries) == Subsequence(entries, {i \in DOMAIN entries : entries[i].key # None})

(* The rung the fields that adhd released evidence. *)
FieldEvidence(a) ==
  IF \/ Has(a.features, LAMBDA f : f.member # None)
     \/ Has(a.skills, LAMBDA s : s.binding # None)
  THEN 3
  ELSE IF \/ Has(a.features, LAMBDA f : f.isotope # None)
          \/ Has(a.skills, LAMBDA s : s.distance # None)
          \/ Has(a.members, LAMBDA m : m.trust # None \/ m.count # None)
  THEN 2 ELSE 0

(* The rung an answer evidences: what adhd says, or what it released. *)
RungEvidence(a) == IF a.rung > FieldEvidence(a) THEN a.rung ELSE FieldEvidence(a)

(* MUTANT of DemoEvidence: only the envelopes are looked at. *)
EnvelopeDemo(a) == a.plaintext

(* Any of the answers shows that the instance is a demo cluster: an         *)
(* envelope, a member in demo mode, a stale demo certificate.               *)
DemoEvidence(a) ==
  \/ a.plaintext
  \/ Has(a.members, LAMBDA m : m.mode = "demo")
  \/ Has(a.features, LAMBDA f : f.stale)

(* fetchSource: the sourceResult of source s.  Source.Demo and Source.Rung are known    *)
(* when every call has been answered or has failed.                         *)
SourceResult(s, a) ==
  LET d == [a EXCEPT !.features = Decode(@), !.skills = Decode(@), !.members = Decode(@)]
  IN [instance |-> s.instance, state |-> d.state, unverified |-> d.unverified,
      rung |-> RungEvidence(d), demo |-> DemoEvidence(d),
      features |-> d.features, skills |-> d.skills, members |-> d.members]

-----------------------------------------------------------------------------
(* merge, one source.                                                       *)

Put(map, k, e) == [x \in DOMAIN map \cup {k} |-> IF x = k THEN e ELSE map[x]]
appendUnique(list, s) == IF Contains(list, s) THEN list ELSE Append(list, s)

(* The larger of two optional numbers. *)
Larger(a, b) == IF b # None /\ (a = None \/ b > a) THEN b ELSE a

(* How much adhd released in an entry. *)
featureTier(f) ==
  IF f.member # None THEN 3 ELSE IF f.isotope # None THEN 2
  ELSE IF f.certified THEN 1 ELSE 0

(* MUTANT of MergeFeature: each gated field is filled in where it is        *)
(* missing.                                                                 *)
MergeFeatureFilling(map, instance, f) ==
  LET old == map[f.key]
  IN IF f.key \notin DOMAIN map THEN Put(map, f.key, [f EXCEPT !.sources = <<instance>>])
     ELSE Put(map, f.key,
            [old EXCEPT !.certified = @ \/ f.certified, !.stale = @ \/ f.stale,
                        !.sources = appendUnique(@, instance),
                        !.isotope = IF @ = None THEN f.isotope ELSE @,
                        !.member  = IF @ = None THEN f.member ELSE @])

(* The first entry is taken over; a later one adds its certification and,   *)
(* if more was released in it, replaces the gated fields together.          *)
MergeFeature(map, instance, f) ==
  LET old == map[f.key]
      new == [old EXCEPT !.certified = @ \/ f.certified, !.stale = @ \/ f.stale,
                         !.sources = appendUnique(@, instance)]
  IN IF f.key \notin DOMAIN map THEN Put(map, f.key, [f EXCEPT !.sources = <<instance>>])
     ELSE Put(map, f.key,
            IF featureTier(f) > featureTier(new)
            THEN [new EXCEPT !.isotope = f.isotope, !.member = f.member] ELSE new)

(* The entry of the highest rung is kept whole, with every source.  Its     *)
(* failures replace the worst count before it.                              *)
MergeSkill(map, instance, s) ==
  LET old == map[s.key]
      trail == appendUnique(old.sources, instance)
  IN IF s.key \notin DOMAIN map THEN Put(map, s.key, [s EXCEPT !.sources = <<instance>>])
     ELSE Put(map, s.key,
            IF s.rung > old.rung THEN [s EXCEPT !.sources = trail]
            ELSE [old EXCEPT !.sources = trail, !.failures = Larger(@, s.failures)])

(* MUTANT of MergeMember: the first mode reported is kept. *)
MergeMemberFirst(map, instance, m) ==
  IF m.key \notin DOMAIN map THEN Put(map, m.key, [m EXCEPT !.sources = <<instance>>])
  ELSE Put(map, m.key,
         [map[m.key] EXCEPT !.sources = appendUnique(@, instance),
                            !.mode  = IF @ = None THEN m.mode ELSE @,
                            !.trust = Larger(@, m.trust), !.count = Larger(@, m.count)])

(* Demo wins. *)
MergeMember(map, instance, m) ==
  IF m.key \notin DOMAIN map THEN Put(map, m.key, [m EXCEPT !.sources = <<instance>>])
  ELSE Put(map, m.key,
         [map[m.key] EXCEPT !.sources = appendUnique(@, instance),
                            !.mode  = IF m.mode = "demo" \/ @ = None THEN m.mode ELSE @,
                            !.trust = Larger(@, m.trust), !.count = Larger(@, m.count)])

Certifies(r, k) == Has(r.features, LAMBDA f : f.key = k /\ f.certified)

(* The source that merge has come to, and whether it is done with it. *)
Current == results[Len(results)]
CurrentDone == results # <<>> => \A t \in Tools : at[t] = Len(Current[t])

(* The loop of merge: the next source. *)
MergeSource ==
  /\ view = None
  /\ CurrentDone /\ Len(results) < Len(sources)
  /\ \E a \in answers :
       results' = Append(results, SourceResult(sources[Len(results) + 1], a))
  /\ at' = [t \in Tools |-> 0]
  /\ UNCHANGED <<answers, configured, sources, features, skills, members, byReal, byDemo,
                 view>>

(* The next entry of tool t, which comes after those of the tools before. *)
NextEntry(t, before) ==
  /\ view = None /\ results # <<>>
  /\ \A b \in before : at[b] = Len(Current[b])
  /\ at[t] < Len(Current[t])
  /\ at' = [at EXCEPT ![t] = @ + 1]
  /\ UNCHANGED <<answers, configured, sources, results, view>>

(* The loop over a source's features. *)
FeatureEntry ==
  /\ NextEntry("features", {})
  /\ LET f == Current.features[at.features + 1]
     IN /\ features' = MergeFeature(features, Current.instance, f)
        /\ byDemo' = IF f.certified /\ Current.demo THEN byDemo \cup {f.key} ELSE byDemo
        /\ byReal' = IF f.certified /\ ~Current.demo THEN byReal \cup {f.key} ELSE byReal
  /\ UNCHANGED <<skills, members>>

(* The loop over its skills. *)
SkillEntry ==
  /\ NextEntry("skills", {"features"})
  /\ skills' = MergeSkill(skills, Current.instance, Current.skills[at.skills + 1])
  /\ UNCHANGED <<features, members, byReal, byDemo>>

(* The loop over its members. *)
MemberEntry ==
  /\ NextEntry("members", {"features", "skills"})
  /\ members' = MergeMember(members, Current.instance, Current.members[at.members + 1])
  /\ UNCHANGED <<features, skills, byReal, byDemo>>

-----------------------------------------------------------------------------
(* merge, after the loop.                                                   *)

(* The instances that certify feature k and are in its trail, in the order  *)
(* of the results.                                                          *)
CertifyingFirst(trail, k) ==
  LET certifying == Subsequence(results, {i \in DOMAIN results :
                                            /\ Certifies(results[i], k)
                                            /\ Contains(trail, results[i].instance)})
  IN [i \in DOMAIN certifying |-> certifying[i].instance]

Others(trail, first) == Subsequence(trail, {i \in DOMAIN trail : ~Contains(first, trail[i])})

(* MUTANT of orderSources: the sources that do not certify come first. *)
orderSourcesLast(trail, k) ==
  Others(trail, CertifyingFirst(trail, k)) \o CertifyingFirst(trail, k)

(* The federation trail of a certified feature. *)
orderSources(trail, k) ==
  CertifyingFirst(trail, k) \o Others(trail, CertifyingFirst(trail, k))

(* A feature as the view shows it. *)
ShownFeature(k) ==
  LET f == features[k]
  IN [key |-> k, certified |-> f.certified, isotope |-> f.isotope, member |-> f.member,
      demo |-> f.certified /\ k \in byDemo /\ k \notin byReal,
      sources |-> IF f.certified THEN orderSources(f.sources, k) ELSE f.sources]

(* The orders of the three lists. *)
FeatureBefore(a, b) == IF a.certified # b.certified THEN a.certified ELSE a.key < b.key
SkillBefore(a, b) == IF a.rung # b.rung THEN a.rung > b.rung ELSE a.key < b.key
MemberBefore(a, b) ==
  IF a.count # b.count THEN Larger(a.count, b.count) = a.count ELSE a.key < b.key

(* The elements of a set, sorted. *)
Sorted(S, Before(_, _)) == {s \in SetToSeqs(S) : IsSorted(s, Before)}

(* MUTANT of Rung: that of the last source. *)
RungOfLast(rs) == IF rs = <<>> THEN 0 ELSE rs[Len(rs)].rung

(* View.Rung: the highest any source evidenced. *)
Rung(rs) == Max({r.rung : r \in Range(rs)} \cup {0})

(* The roll-up of the source states. *)
Status(rs) ==
  LET states == {r.state : r \in Range(rs)}
  IN IF "served" \in states THEN "served"
     ELSE IF "declared-absent" \in states THEN "declared-absent" ELSE "unreachable"

(* The worst 42i distance of the skills, if any reported one. *)
Distance(ss) ==
  LET known == {s.distance : s \in Range(ss)} \ {None}
  IN IF known = {} THEN None ELSE Max(known)

(* merge returns the view. *)
Merge ==
  /\ view = None
  /\ CurrentDone /\ sources # <<>> /\ Len(results) = Len(sources)
  /\ \E fs \in Sorted({ShownFeature(k) : k \in DOMAIN features}, FeatureBefore),
        ss \in Sorted(Range(skills), SkillBefore),
        ms \in Sorted(Range(members), MemberBefore) :
       view' = [status |-> Status(results),
                rung   |-> Rung(results),
                demo   |-> Has(results, LAMBDA r : r.demo),
                unverified |-> Max({r.unverified : r \in Range(results)}),
                features |-> fs, skills |-> ss, members |-> ms,
                certified     |-> Cardinality({i \in DOMAIN fs : fs[i].certified}),
                deterministic |-> Cardinality({i \in DOMAIN ss : ss[i].rung >= 2}),
                distance      |-> Distance(ss)]
  /\ UNCHANGED <<answers, configured, sources, results, at, features, skills, members,
                 byReal, byDemo>>

(* fetch: the sources known now are asked; without any the view is empty.   *)
Fetch ==
  /\ view # None \/ sources = <<>>
  /\ \E found \in Found : \E discovered \in DiscoveredSources(found) :
       sources' = SourceSet(discovered, ConfigSources(configured))
  /\ results' = <<>> /\ at' = [t \in Tools |-> 0]
  /\ features' = Empty /\ skills' = Empty /\ members' = Empty
  /\ byReal' = {} /\ byDemo' = {}
  /\ view' = IF sources' # <<>> THEN None
             ELSE [status |-> "no-sources", rung |-> 0, demo |-> FALSE, unverified |-> 0,
                   features |-> <<>>, skills |-> <<>>, members |-> <<>>,
                   certified |-> 0, deterministic |-> 0, distance |-> None]
  /\ UNCHANGED <<answers, configured>>

Next == Fetch \/ MergeSource \/ FeatureEntry \/ SkillEntry \/ MemberEntry \/ Merge

Spec == Init /\ [][Next]_vars

-----------------------------------------------------------------------------
SourceResults ==
  [instance : Nat, state : SourceStates, unverified : Nat, rung : Nat, demo : BOOLEAN,
   features : Seq(Feature(Nat)), skills : Seq(Skill(Nat)), members : Seq(Member(Nat))]

(* The type invariant: the maps hold the names reported so far, each under  *)
(* its own key, and every certificate is counted, as real or demo.          *)
TypeOK ==
  /\ results \in Seq(SourceResults)
  /\ \A map \in {features, skills, members} : \A k \in DOMAIN map : map[k].key = k
  /\ byReal \cup byDemo = {k \in DOMAIN features : features[k].certified}

(* What the sources said about a name, by any of them. *)
Said(field, k) == {e \in UNION {Range(r[field]) : r \in Range(results)} : e.key = k}

Certifiers(k) == {i \in DOMAIN results : Certifies(results[i], k)}

(* "a feature certified by either instance is certified", "a real           *)
(* certification is not laundered into demo, and a demo-only one is never   *)
(* presented as production evidence" (merge): a feature is shown certified  *)
(* if and only if some source certifies it, and as demo if and only if      *)
(* every source that certifies it evidenced a demo cluster, in whichever    *)
(* of its answers it did.                                                   *)
NotLaundered ==
  view # None => \A f \in Range(view.features) :
    /\ f.certified <=> Certifiers(f.key) # {}
    /\ f.demo <=> /\ Certifiers(f.key) # {}
                  /\ \A i \in Certifiers(f.key) :
                       \/ results[i].demo
                       \/ Has(results[i].members, LAMBDA m : m.mode = "demo")
                       \/ Has(results[i].features, LAMBDA e : e.stale)

(* "Keep the most adhd released" (merge), and "the renderer shows them, and *)
(* never invents them" (Feature): the gated fields shown together were      *)
(* released together by one source, and no source released more.            *)
ReleasedTogether ==
  view # None => \A f \in Range(view.features) :
    \E e \in Said("features", f.key) :
      /\ e.isotope = f.isotope /\ e.member = f.member
      /\ \A x \in Said("features", f.key) :
           x.isotope # None \/ x.member # None => featureTier(x) <= featureTier(e)

(* A gated field is shown under a rung that covers it: rung 2 for an        *)
(* isotope or a 42i distance, rung 3 for a member or a binding (View.Rung,  *)
(* featureRungEvidence, skillRungEvidence).                                 *)
RungCoversReleased ==
  view # None =>
    /\ \A f \in Range(view.features) : /\ f.isotope # None => view.rung >= 2
                                       /\ f.member # None => view.rung >= 3
    /\ \A s \in Range(view.skills) : /\ s.distance # None => view.rung >= 2
                                     /\ s.binding # None => view.rung >= 3

(* "every instance that reported the entry, certifying sources first"       *)
(* (Feature.Sources): the trail names exactly the instances that reported   *)
(* the feature, one that certifies before one that does not, and each once  *)
(* unless sources share a name.                                             *)
TrailCertifyingFirst ==
  view # None => \A f \in Range(view.features) :
    LET reporters == {r \in Range(results) : Has(r.features, LAMBDA e : e.key = f.key)}
        certifying == {results[i].instance : i \in Certifiers(f.key)}
    IN /\ Range(f.sources) = {r.instance : r \in reporters}
       /\ \A i, j \in DOMAIN f.sources :
            i < j /\ f.sources[j] \in certifying => f.sources[i] \in certifying
       /\ IsInjective([i \in DOMAIN results |-> results[i].instance])
            => IsInjective(f.sources)

(* "A demo report is not laundered into a real one: demo wins" (merge), and *)
(* the best certificate of a skill stands: whichever source comes first, a  *)
(* member is shown in demo mode if and only if some source said so, with    *)
(* the highest trust rung reported, and a skill as one source of the        *)
(* highest rung reported it, with no fewer variation failures than any of   *)
(* that rung did.                                                           *)
DemoAndBestWin ==
  view # None =>
    /\ \A m \in Range(view.members) :
         LET said == Said("members", m.key)
         IN /\ m.mode = "demo" <=> \E e \in said : e.mode = "demo"
            /\ \A e \in said : Larger(m.trust, e.trust) = m.trust
    /\ \A s \in Range(view.skills) :
         LET said == Said("skills", s.key)
             top  == {e \in said : \A x \in said : x.rung <= e.rung}
         IN /\ \E e \in top : /\ s.rung = e.rung /\ s.distance = e.distance
                              /\ s.binding = e.binding
            /\ \A e \in top : Larger(s.failures, e.failures) = s.failures
=============================================================================
