------------------------- MODULE FeatureMergeProofs -------------------------
(***************************************************************************)
(* Theorems about FeatureMerge for any sources, answers and entries: what  *)
(* the view says is what the answers said, in whichever order they are     *)
(* merged.                                                                 *)
(***************************************************************************)
EXTENDS FeatureMerge, FiniteSetTheorems, WellFoundedInduction, TLAPS

-----------------------------------------------------------------------------
(* Finite sets of numbers, by a smallest counterexample. *)

LEMMA Smaller ==
  ASSUME NEW J \in FiniteSubsetsOf(Nat), NEW x \in J
  PROVE  /\ J \ {x} \in FiniteSubsetsOf(Nat)
         /\ <<J \ {x}, J>> \in StrictSubsetOrdering(Nat)
<1>1. IsFiniteSet(J \ {x})
  BY FS_RemoveElement DEF FiniteSubsetsOf
<1>2. J \in SUBSET Nat /\ J \ {x} \in SUBSET Nat /\ J \ {x} \subseteq J /\ J \ {x} # J
  BY DEF FiniteSubsetsOf
<1>3. QED
  BY <1>1, <1>2 DEF FiniteSubsetsOf, StrictSubsetOrdering

LEMMA HasMaximum ==
  ASSUME NEW S \in SUBSET Nat, IsFiniteSet(S), S # {}
  PROVE  \E x \in S : \A y \in S : x >= y
<1> DEFINE Bad == {J \in FiniteSubsetsOf(Nat) : J # {} /\ \A x \in J : \E y \in J : ~(x >= y)}
<1> SUFFICES Bad = {}
  BY DEF FiniteSubsetsOf
<1> SUFFICES ASSUME Bad # {} PROVE FALSE
  OBVIOUS
<1>1. IsWellFoundedOn(StrictSubsetOrdering(Nat), FiniteSubsetsOf(Nat))
  BY FS_StrictSubsetOrderingWellFounded
<1>2. Bad \subseteq FiniteSubsetsOf(Nat)
  OBVIOUS
<1>3. PICK J \in Bad : \A K \in Bad : ~(<<K, J>> \in StrictSubsetOrdering(Nat))
  <2> HIDE DEF Bad
  <2> QED
    BY <1>1, <1>2, WFMin
<1>4. PICK x \in J : TRUE
  BY <1>3
<1>5. J \ {x} \in FiniteSubsetsOf(Nat) /\ J \ {x} \notin Bad
  BY <1>3, <1>4, Smaller
<1>6. J \subseteq Nat
  BY <1>3 DEF FiniteSubsetsOf
<1>7. CASE J \ {x} = {}
  <2>1. \A y \in J : x >= y
    BY <1>4, <1>6, <1>7
  <2>2. QED
    BY <1>3, <1>4, <2>1
<1>8. CASE J \ {x} # {}
  <2>1. PICK m \in J \ {x} : \A y \in J \ {x} : m >= y
    BY <1>5, <1>8
  <2>2. CASE m >= x
    BY <1>3, <2>1, <2>2
  <2>3. CASE ~(m >= x)
    <3>1. \A y \in J : x >= y
      BY <1>4, <1>6, <2>1, <2>3
    <3>2. QED
      BY <1>3, <1>4, <3>1
  <2>4. QED
    BY <2>2, <2>3
<1>9. QED
  BY <1>7, <1>8

LEMMA MaxIsMaximum ==
  ASSUME NEW S \in SUBSET Nat, IsFiniteSet(S), S # {}
  PROVE  Max(S) \in S /\ \A y \in S : y <= Max(S)
<1>1. PICK x \in S : \A y \in S : x >= y
  BY HasMaximum
<1>2. Max(S) \in S /\ \A y \in S : Max(S) >= y
  BY <1>1 DEF Max
<1>3. QED
  BY <1>2

(* An enumeration of a set in increasing order. *)
Increasing(e, n) == \A i, j \in 1 .. n : i < j => e[i] < e[j]

LEMMA HasEnumeration ==
  ASSUME NEW S \in SUBSET Nat, IsFiniteSet(S)
  PROVE  \E e \in [1 .. Cardinality(S) -> S] : Increasing(e, Cardinality(S))
<1> DEFINE Bad == {J \in FiniteSubsetsOf(Nat) :
                     \A e \in [1 .. Cardinality(J) -> J] : ~Increasing(e, Cardinality(J))}
<1> SUFFICES Bad = {}
  BY DEF FiniteSubsetsOf
<1> SUFFICES ASSUME Bad # {} PROVE FALSE
  OBVIOUS
<1>1. IsWellFoundedOn(StrictSubsetOrdering(Nat), FiniteSubsetsOf(Nat))
  BY FS_StrictSubsetOrderingWellFounded
<1>2. Bad \subseteq FiniteSubsetsOf(Nat)
  OBVIOUS
<1>3. PICK J \in Bad : \A K \in Bad : ~(<<K, J>> \in StrictSubsetOrdering(Nat))
  <2> HIDE DEF Bad
  <2> QED
    BY <1>1, <1>2, WFMin
<1>4. J \subseteq Nat /\ IsFiniteSet(J)
  BY <1>3 DEF FiniteSubsetsOf
<1>5. J # {}
  <2> SUFFICES ASSUME J = {} PROVE FALSE
    OBVIOUS
  <2>1. Cardinality(J) = 0
    BY FS_EmptySet
  <2>2. [i \in 1 .. 0 |-> 0] \in [1 .. 0 -> J]
    OBVIOUS
  <2>3. Increasing([i \in 1 .. 0 |-> 0], 0)
    BY DEF Increasing
  <2>4. QED
    BY <1>3, <2>1, <2>2, <2>3
<1>6. PICK m \in J : \A y \in J : m >= y
  BY <1>4, <1>5, HasMaximum
<1> DEFINE K == J \ {m}
           n == Cardinality(J)
<1>7. K \in FiniteSubsetsOf(Nat) /\ K \notin Bad
  BY <1>3, <1>6, Smaller
<1>8. n \in Nat /\ n > 0 /\ Cardinality(K) = n - 1
  <2>1. n \in Nat
    BY <1>4, FS_CardinalityType
  <2>2. n # 0
    BY <1>4, <1>5, FS_EmptySet
  <2>3. Cardinality(K) = n - 1
    BY <1>4, <1>6, FS_RemoveElement
  <2>4. QED
    BY <2>1, <2>2, <2>3
<1>9. PICK e \in [1 .. n - 1 -> K] : Increasing(e, n - 1)
  BY <1>7, <1>8
<1> DEFINE g == [i \in 1 .. n |-> IF i = n THEN m ELSE e[i]]
<1>10. \A i \in 1 .. n : i # n => i \in 1 .. n - 1 /\ e[i] \in K /\ e[i] \in J /\ e[i] # m
  BY <1>8, <1>9
<1>11. g \in [1 .. n -> J]
  BY <1>6, <1>10
<1>12. Increasing(g, n)
  <2> SUFFICES ASSUME NEW i \in 1 .. n, NEW j \in 1 .. n, i < j PROVE g[i] < g[j]
    BY DEF Increasing
  <2>1. i # n /\ g[i] = e[i] /\ i \in 1 .. n - 1 /\ e[i] \in J /\ e[i] # m
    BY <1>8, <1>10
  <2>2. CASE j = n
    <3>1. g[j] = m /\ m >= e[i] /\ m \in Nat /\ e[i] \in Nat
      BY <1>4, <1>6, <2>1, <2>2
    <3>2. QED
      BY <2>1, <3>1
  <2>3. CASE j # n
    <3>1. g[j] = e[j] /\ j \in 1 .. n - 1
      BY <1>10, <2>3
    <3>2. QED
      BY <1>9, <2>1, <3>1 DEF Increasing
  <2>4. QED
    BY <2>2, <2>3
<1>13. QED
  BY <1>3, <1>11, <1>12

(* What Subsequence returns: the elements at the positions chosen, in the   *)
(* order of s.                                                              *)
LEMMA SubsequenceIs ==
  ASSUME NEW T, NEW s \in Seq(T), NEW I \in SUBSET DOMAIN s
  PROVE  \E n \in Nat : \E e \in [1 .. n -> I] :
           /\ Increasing(e, n)
           /\ \A x \in I : \E i \in 1 .. n : e[i] = x
           /\ Subsequence(s, I) = [i \in 1 .. n |-> s[e[i]]]
<1> DEFINE n == Cardinality(I)
           e == CHOOSE e \in [1 .. n -> I] : \A i, j \in 1 .. n : i < j => e[i] < e[j]
<1>1. I \in SUBSET Nat /\ IsFiniteSet(I)
  <2>1. DOMAIN s = 1 .. Len(s) /\ Len(s) \in Nat
    OBVIOUS
  <2>2. IsFiniteSet(DOMAIN s)
    BY <2>1, FS_Interval
  <2>3. QED
    BY <2>1, <2>2, FS_Subset
<1>2. n \in Nat
  BY <1>1, FS_CardinalityType
<1>3. \E f \in [1 .. n -> I] : \A i, j \in 1 .. n : i < j => f[i] < f[j]
  BY <1>1, HasEnumeration DEF Increasing
<1>4. e \in [1 .. n -> I] /\ Increasing(e, n)
  BY <1>3 DEF Increasing
<1>5. Subsequence(s, I) = [i \in 1 .. n |-> s[e[i]]]
  BY DEF Subsequence
<1> HIDE DEF e
<1>6. \A i, j \in 1 .. n : e[i] = e[j] => i = j
  <2> SUFFICES ASSUME NEW i \in 1 .. n, NEW j \in 1 .. n, e[i] = e[j], i # j PROVE FALSE
    OBVIOUS
  <2>1. e[i] \in Nat /\ e[j] \in Nat
    BY <1>1, <1>4
  <2>2. i < j \/ j < i
    BY <1>2
  <2>3. QED
    BY <1>4, <2>1, <2>2 DEF Increasing
<1>7. e \in Injection(1 .. n, I)
  BY <1>4, <1>6 DEF Injection, IsInjective
<1>8. IsFiniteSet(1 .. n) /\ Cardinality(1 .. n) = n
  BY <1>2, FS_Interval
<1>9. e \in Surjection(1 .. n, I)
  BY <1>1, <1>7, <1>8, FS_Injection
<1>10. \A x \in I : \E i \in 1 .. n : e[i] = x
  BY <1>9 DEF Surjection
<1>11. QED
  BY <1>2, <1>4, <1>5, <1>10

(* Its type and its elements. *)
LEMMA SubsequenceType ==
  ASSUME NEW T, NEW s \in Seq(T), NEW I \in SUBSET DOMAIN s
  PROVE  /\ Subsequence(s, I) \in Seq(T)
         /\ Subsequence(s, I) \in Seq({s[i] : i \in I})
         /\ Range(Subsequence(s, I)) = {s[i] : i \in I}
<1>0. PICK n \in Nat : \E e \in [1 .. n -> I] :
        /\ Increasing(e, n)
        /\ \A x \in I : \E i \in 1 .. n : e[i] = x
        /\ Subsequence(s, I) = [i \in 1 .. n |-> s[e[i]]]
  BY SubsequenceIs
<1>1. PICK e \in [1 .. n -> I] :
        /\ \A x \in I : \E i \in 1 .. n : e[i] = x
        /\ Subsequence(s, I) = [i \in 1 .. n |-> s[e[i]]]
  BY <1>0
<1>2. \A i \in 1 .. n : s[e[i]] \in {s[x] : x \in I} /\ s[e[i]] \in T
  OBVIOUS
<1>3. /\ [i \in 1 .. n |-> s[e[i]]] \in Seq(T)
      /\ [i \in 1 .. n |-> s[e[i]]] \in Seq({s[x] : x \in I})
  BY <1>2
<1>4. Range([i \in 1 .. n |-> s[e[i]]]) = {s[x] : x \in I}
  BY <1>1, <1>2 DEF Range
<1>5. QED
  BY <1>1, <1>3, <1>4

-----------------------------------------------------------------------------
(* What the maps say of a set S of reports, pairs of a source's result and  *)
(* an entry in it.                                                          *)

(* How much of the gated fields an entry holds. *)
Gated(f) == IF f.member # None THEN 3 ELSE IF f.isotope # None THEN 2 ELSE 0

(* A trail names the reporters of k, each once. *)
TrailOf(trail, S, k) ==
  /\ IsInjective(trail)
  /\ \A p \in S : p[2].key = k => p[1].instance \in Range(trail)
  /\ \A n \in Range(trail) : \E p \in S : p[2].key = k /\ p[1].instance = n

FeatureOf(f, S, k) ==
  /\ f \in Feature(Nat) /\ f.key = k
  /\ f.certified <=> \E p \in S : p[2].key = k /\ p[2].certified
  /\ \E p \in S : p[2].key = k /\ p[2].isotope = f.isotope /\ p[2].member = f.member
  /\ \A p \in S : p[2].key = k => Gated(p[2]) <= Gated(f)
  /\ TrailOf(f.sources, S, k)

SkillOf(s, S, k) ==
  /\ s \in Skill(Nat) /\ s.key = k
  /\ \E p \in S : /\ p[2].key = k /\ p[2].rung = s.rung
                  /\ p[2].distance = s.distance /\ p[2].binding = s.binding
  /\ \A p \in S : p[2].key = k => p[2].rung <= s.rung
  /\ \A p \in S : p[2].key = k /\ p[2].rung = s.rung =>
                    Larger(s.failures, p[2].failures) = s.failures

MemberOf(m, S, k) ==
  /\ m \in Member(Nat) /\ m.key = k
  /\ m.mode = "demo" <=> \E p \in S : p[2].key = k /\ p[2].mode = "demo"
  /\ \A p \in S : p[2].key = k => Larger(m.trust, p[2].trust) = m.trust

Keys(S) == {p[2].key : p \in S}

FeaturesOf(map, S) == DOMAIN map = Keys(S) /\ \A k \in Keys(S) : FeatureOf(map[k], S, k)
SkillsOf(map, S)   == DOMAIN map = Keys(S) /\ \A k \in Keys(S) : SkillOf(map[k], S, k)
MembersOf(map, S)  == DOMAIN map = Keys(S) /\ \A k \in Keys(S) : MemberOf(map[k], S, k)

LEMMA LargerIs ==
  ASSUME NEW a \in Optional(Nat), NEW b \in Optional(Nat)
  PROVE  /\ Larger(a, b) \in Optional(Nat)
         /\ Larger(a, a) = a
         /\ Larger(Larger(a, b), b) = Larger(a, b)
         /\ \A c \in Optional(Nat) : Larger(a, c) = a => Larger(Larger(a, b), c) = Larger(a, b)
BY MergeAssumption DEF Larger, Optional

(* A trail with one more reporter. *)
LEMMA AppendUniqueIs ==
  ASSUME NEW trail \in Seq(Nat), NEW n \in Nat, IsInjective(trail)
  PROVE  /\ appendUnique(trail, n) \in Seq(Nat)
         /\ IsInjective(appendUnique(trail, n))
         /\ Range(appendUnique(trail, n)) = Range(trail) \cup {n}
<1>1. CASE Contains(trail, n)
  <2>1. appendUnique(trail, n) = trail
    BY <1>1 DEF appendUnique
  <2>2. n \in Range(trail)
    BY <1>1 DEF Contains, Range
  <2>3. QED
    BY <2>1, <2>2
<1>2. CASE ~Contains(trail, n)
  <2> DEFINE t == Append(trail, n)
  <2>1. appendUnique(trail, n) = t
    BY <1>2 DEF appendUnique
  <2>2. /\ t \in Seq(Nat) /\ DOMAIN t = 1 .. Len(trail) + 1 /\ DOMAIN trail = 1 .. Len(trail)
        /\ t[Len(trail) + 1] = n /\ Len(trail) \in Nat
        /\ \A i \in 1 .. Len(trail) : t[i] = trail[i]
    OBVIOUS
  <2>3. \A i \in 1 .. Len(trail) : trail[i] # n
    BY <1>2 DEF Contains
  <2> HIDE DEF t
  <2>4. \A i \in 1 .. Len(trail) + 1 : i \in 1 .. Len(trail) \/ i = Len(trail) + 1
    BY <2>2
  <2>5. IsInjective(t)
    BY <2>2, <2>3, <2>4 DEF IsInjective
  <2>6. Range(t) = Range(trail) \cup {n}
    <3>1. \A x \in Range(t) : x \in Range(trail) \cup {n}
      BY <2>2, <2>4 DEF Range
    <3>2. \A x \in Range(trail) : x \in Range(t)
      BY <2>2 DEF Range
    <3>3. n \in Range(t)
      BY <2>2 DEF Range
    <3>4. QED
      BY <3>1, <3>2, <3>3
  <2>7. QED
    BY <2>1, <2>2, <2>5, <2>6
<1>3. QED
  BY <1>1, <1>2

LEMMA TrailGrows ==
  ASSUME NEW trail \in Seq(Nat), NEW S, NEW r, NEW e, r.instance \in Nat,
         TrailOf(trail, S, e.key)
  PROVE  TrailOf(appendUnique(trail, r.instance), S \cup {<<r, e>>}, e.key)
<1> DEFINE n == r.instance
<1>1. /\ IsInjective(appendUnique(trail, n))
      /\ Range(appendUnique(trail, n)) = Range(trail) \cup {n}
  BY AppendUniqueIs DEF TrailOf
<1> DEFINE R == S \cup {<<r, e>>}
           t == appendUnique(trail, n)
<1>2. \A p \in R : p \in S \/ (p[1] = r /\ p[2] = e)
  OBVIOUS
<1>3. \A p \in R : p[2].key = e.key => p[1].instance \in Range(t)
  BY <1>1, <1>2 DEF TrailOf
<1>4. <<r, e>> \in R /\ <<r, e>>[1].instance = n /\ <<r, e>>[2].key = e.key
  OBVIOUS
<1>5. \A x \in Range(t) : \E p \in R : p[2].key = e.key /\ p[1].instance = x
  <2> SUFFICES ASSUME NEW x \in Range(t)
               PROVE  \E p \in R : p[2].key = e.key /\ p[1].instance = x
    OBVIOUS
  <2>1. CASE x = n
    BY <1>4, <2>1
  <2>2. CASE x \in Range(trail)
    BY <2>2 DEF TrailOf
  <2>3. QED
    BY <1>1, <2>1, <2>2
<1>6. QED
  BY <1>1, <1>3, <1>5 DEF TrailOf

LEMMA TrailStarts ==
  ASSUME NEW S, NEW r, NEW e, r.instance \in Nat, e.key \notin Keys(S)
  PROVE  TrailOf(<<r.instance>>, S \cup {<<r, e>>}, e.key) /\ <<r.instance>> \in Seq(Nat)
<1>1. \A p \in S : p[2].key # e.key
  BY DEF Keys
<1>2. IsInjective(<<r.instance>>) /\ Range(<<r.instance>>) = {r.instance}
  BY DEF IsInjective, Range
<1> DEFINE R == S \cup {<<r, e>>}
<1>3. \A p \in R : p \in S \/ (p[1] = r /\ p[2] = e)
  OBVIOUS
<1>4. \A p \in R : p[2].key = e.key => p[1].instance \in {r.instance}
  BY <1>1, <1>3
<1>5. <<r, e>> \in R /\ <<r, e>>[1].instance = r.instance /\ <<r, e>>[2].key = e.key
  OBVIOUS
<1>6. \A n \in {r.instance} : \E p \in R : p[2].key = e.key /\ p[1].instance = n
  BY <1>5
<1>7. QED
  BY <1>2, <1>4, <1>6 DEF TrailOf

(* A report of another name changes nothing for k. *)
LEMMA OtherNames ==
  ASSUME NEW S, NEW r, NEW e, NEW k, e.key # k, NEW x
  PROVE  /\ FeatureOf(x, S, k) => FeatureOf(x, S \cup {<<r, e>>}, k)
         /\ SkillOf(x, S, k) => SkillOf(x, S \cup {<<r, e>>}, k)
         /\ MemberOf(x, S, k) => MemberOf(x, S \cup {<<r, e>>}, k)
<1>2. \A p \in S \cup {<<r, e>>} : p[2].key = k => p \in S
  OBVIOUS
<1>3. \A trail : TrailOf(trail, S \cup {<<r, e>>}, k) <=> TrailOf(trail, S, k)
  BY <1>2 DEF TrailOf
<1>4. FeatureOf(x, S, k) => FeatureOf(x, S \cup {<<r, e>>}, k)
  BY <1>2, <1>3 DEF FeatureOf
<1>5. SkillOf(x, S, k) => SkillOf(x, S \cup {<<r, e>>}, k)
  BY <1>2 DEF SkillOf
<1>6. MemberOf(x, S, k) => MemberOf(x, S \cup {<<r, e>>}, k)
  BY <1>2 DEF MemberOf
<1>7. QED
  BY <1>4, <1>5, <1>6

(* An entry for the name of the report is all that is needed. *)
LEMMA PutKeeps ==
  ASSUME NEW map, NEW S, NEW r, NEW e, NEW x, NEW R, R = S \cup {<<r, e>>}
  PROVE  /\ FeaturesOf(map, S) /\ FeatureOf(x, R, e.key) => FeaturesOf(Put(map, e.key, x), R)
         /\ SkillsOf(map, S) /\ SkillOf(x, R, e.key) => SkillsOf(Put(map, e.key, x), R)
         /\ MembersOf(map, S) /\ MemberOf(x, R, e.key) => MembersOf(Put(map, e.key, x), R)
<1>1. Keys(R) = Keys(S) \cup {e.key}
  <2>1. \A p \in R : p \in S \/ p[2] = e
    OBVIOUS
  <2>2. <<r, e>> \in R /\ <<r, e>>[2] = e
    OBVIOUS
  <2>3. QED
    BY <2>1, <2>2 DEF Keys
<1>2. /\ DOMAIN Put(map, e.key, x) = DOMAIN map \cup {e.key} /\ Put(map, e.key, x)[e.key] = x
      /\ \A k \in DOMAIN map : k # e.key => Put(map, e.key, x)[k] = map[k]
  BY DEF Put
<1>3. \A k : e.key # k => /\ FeatureOf(map[k], S, k) => FeatureOf(map[k], R, k)
                          /\ SkillOf(map[k], S, k) => SkillOf(map[k], R, k)
                          /\ MemberOf(map[k], S, k) => MemberOf(map[k], R, k)
  BY OtherNames
<1>4. FeaturesOf(map, S) /\ FeatureOf(x, R, e.key) => FeaturesOf(Put(map, e.key, x), R)
  BY <1>1, <1>2, <1>3 DEF FeaturesOf
<1>5. SkillsOf(map, S) /\ SkillOf(x, R, e.key) => SkillsOf(Put(map, e.key, x), R)
  BY <1>1, <1>2, <1>3 DEF SkillsOf
<1>6. MembersOf(map, S) /\ MemberOf(x, R, e.key) => MembersOf(Put(map, e.key, x), R)
  BY <1>1, <1>2, <1>3 DEF MembersOf
<1>7. QED
  BY <1>4, <1>5, <1>6

(* merge keeps the maps in agreement with what is reported, entry by entry. *)
LEMMA FeatureMerged ==
  ASSUME NEW map, NEW S, NEW r, NEW f \in Feature(Nat), r.instance \in Nat,
         \A p \in S : p[2] \in Feature(Nat), FeaturesOf(map, S)
  PROVE  FeaturesOf(MergeFeature(map, r.instance, f), S \cup {<<r, f>>})
<1> DEFINE k == f.key
           R == S \cup {<<r, f>>}
           n == r.instance
<1>1. /\ \A p \in R : p \in S \/ (p[1] = r /\ p[2] = f)
      /\ \E p \in R : p[1] = r /\ p[2] = f
      /\ S \subseteq R
  <2>1. \A p \in R : p \in S \/ (p[1] = r /\ p[2] = f)
    OBVIOUS
  <2>2. <<r, f>> \in R /\ <<r, f>>[1] = r /\ <<r, f>>[2] = f
    OBVIOUS
  <2>3. QED
    BY <2>1, <2>2
<1>2. CASE k \notin Keys(S)
  <2> DEFINE e == [f EXCEPT !.sources = <<n>>]
  <2>1. MergeFeature(map, n, f) = Put(map, k, e)
    BY <1>2 DEF MergeFeature, FeaturesOf
  <2>2. TrailOf(<<n>>, R, k) /\ <<n>> \in Seq(Nat)
    BY <1>2, TrailStarts
  <2>3. /\ e \in Feature(Nat) /\ e.key = k /\ e.certified = f.certified
        /\ e.isotope = f.isotope /\ e.member = f.member /\ e.sources = <<n>>
    BY <2>2 DEF Feature
  <2>4. \A p \in R : p[2].key = k => p[2] = f
    BY <1>1, <1>2 DEF Keys
  <2>5. Gated(e) = Gated(f) /\ Gated(f) <= Gated(f)
    BY <2>3 DEF Gated
  <2> HIDE DEF e, R
  <2>6. FeatureOf(e, R, k)
    BY <1>1, <2>2, <2>3, <2>4, <2>5 DEF FeatureOf
  <2>7. QED
    BY <2>1, <2>6, PutKeeps DEF R
<1>3. CASE k \in Keys(S)
  <2> DEFINE old == map[k]
             new == [old EXCEPT !.certified = @ \/ f.certified, !.stale = @ \/ f.stale,
                                !.sources = appendUnique(@, n)]
             e == IF featureTier(f) > featureTier(new)
                  THEN [new EXCEPT !.isotope = f.isotope, !.member = f.member] ELSE new
  <2>1. MergeFeature(map, n, f) = Put(map, k, e)
    BY <1>3 DEF MergeFeature, FeaturesOf
  <2>2. FeatureOf(old, S, k) /\ old \in Feature(Nat)
    BY <1>3 DEF FeaturesOf, FeatureOf
  <2>3. old.sources \in Seq(Nat) /\ TrailOf(old.sources, S, k)
    BY <2>2 DEF FeatureOf, Feature
  <2>4. TrailOf(appendUnique(old.sources, n), R, k) /\ appendUnique(old.sources, n) \in Seq(Nat)
    <3>1. IsInjective(old.sources)
      BY <2>3 DEF TrailOf
    <3>2. QED
      BY <2>3, <3>1, TrailGrows, AppendUniqueIs
  <2>5. /\ new \in Feature(Nat) /\ new.key = k
        /\ new.certified <=> old.certified \/ f.certified
        /\ new.isotope = old.isotope /\ new.member = old.member
        /\ new.sources = appendUnique(old.sources, n)
    BY <2>2, <2>4 DEF Feature, FeatureOf
  <2> HIDE DEF new
  <2>6. /\ e \in Feature(Nat) /\ e.key = k /\ e.certified = new.certified
        /\ e.sources = new.sources
    BY <2>5 DEF Feature
  <2>7. Gated(old) <= Gated(e) /\ Gated(f) <= Gated(e)
    <3>1. CASE featureTier(f) > featureTier(new)
      <4>1. e.isotope = f.isotope /\ e.member = f.member
        BY <2>5, <3>1 DEF Feature
      <4>2. QED
        BY <2>5, <3>1, <4>1 DEF Gated, featureTier
    <3>2. CASE ~(featureTier(f) > featureTier(new))
      <4>1. e = new
        BY <3>2
      <4>2. QED
        BY <2>5, <3>2, <4>1 DEF Gated, featureTier
    <3>3. QED
      BY <3>1, <3>2
  <2>8. \/ e.isotope = old.isotope /\ e.member = old.member
        \/ e.isotope = f.isotope /\ e.member = f.member
    BY <2>5 DEF Feature
  <2> HIDE DEF e, R, old
  <2>9. \E p \in R : p[2].key = k /\ p[2].isotope = e.isotope /\ p[2].member = e.member
    BY <1>1, <2>2, <2>8 DEF FeatureOf
  <2>10. \A p \in R : p[2].key = k => Gated(p[2]) <= Gated(e)
    <3>1. \A x : Gated(x) \in Nat
      BY DEF Gated
    <3>2. QED
      BY <1>1, <2>2, <2>7, <3>1 DEF FeatureOf
  <2>11. e.certified <=> \E p \in R : p[2].key = k /\ p[2].certified
    BY <1>1, <2>2, <2>5, <2>6 DEF FeatureOf
  <2>12. FeatureOf(e, R, k)
    BY <2>4, <2>5, <2>6, <2>9, <2>10, <2>11 DEF FeatureOf
  <2>13. QED
    BY <2>1, <2>12, PutKeeps DEF R
<1>4. QED
  BY <1>2, <1>3

LEMMA SkillMerged ==
  ASSUME NEW map, NEW S, NEW r, NEW s \in Skill(Nat), r.instance \in Nat,
         \A p \in S : p[2] \in Skill(Nat), SkillsOf(map, S)
  PROVE  SkillsOf(MergeSkill(map, r.instance, s), S \cup {<<r, s>>})
<1> DEFINE k == s.key
           R == S \cup {<<r, s>>}
           n == r.instance
<1>1. /\ \A p \in R : p \in S \/ (p[1] = r /\ p[2] = s)
      /\ \E p \in R : p[1] = r /\ p[2] = s
      /\ S \subseteq R
  <2>1. \A p \in R : p \in S \/ (p[1] = r /\ p[2] = s)
    OBVIOUS
  <2>2. <<r, s>> \in R /\ <<r, s>>[1] = r /\ <<r, s>>[2] = s
    OBVIOUS
  <2>3. QED
    BY <2>1, <2>2
<1>2. s.failures \in Optional(Nat) /\ s.rung \in Nat /\ Larger(s.failures, s.failures) = s.failures
  BY LargerIs DEF Skill
<1>3. CASE k \notin Keys(S)
  <2> DEFINE e == [s EXCEPT !.sources = <<n>>]
  <2>1. MergeSkill(map, n, s) = Put(map, k, e)
    BY <1>3 DEF MergeSkill, SkillsOf
  <2>2. /\ e \in Skill(Nat) /\ e.key = k /\ e.rung = s.rung /\ e.distance = s.distance
        /\ e.binding = s.binding /\ e.failures = s.failures
    BY DEF Skill
  <2>3. \A p \in R : p[2].key = k => p[2] = s
    BY <1>1, <1>3 DEF Keys
  <2> HIDE DEF e, R
  <2>4. SkillOf(e, R, k)
    BY <1>1, <1>2, <2>2, <2>3 DEF SkillOf
  <2>5. QED
    BY <2>1, <2>4, PutKeeps DEF R
<1>4. CASE k \in Keys(S)
  <2> DEFINE old == map[k]
             trail == appendUnique(old.sources, n)
             e == IF s.rung > old.rung THEN [s EXCEPT !.sources = trail]
                  ELSE [old EXCEPT !.sources = trail, !.failures = Larger(@, s.failures)]
  <2>1. MergeSkill(map, n, s) = Put(map, k, e)
    BY <1>4 DEF MergeSkill, SkillsOf
  <2>2. SkillOf(old, S, k) /\ old \in Skill(Nat)
    BY <1>4 DEF SkillsOf, SkillOf
  <2>3. /\ old.failures \in Optional(Nat) /\ old.rung \in Nat /\ old.key = k
        /\ Larger(old.failures, s.failures) \in Optional(Nat)
    BY <1>2, <2>2, LargerIs DEF Skill, SkillOf
  <2>4. trail \in Seq(Nat)
    BY <2>2 DEF Skill, appendUnique
  <2>5. \A p \in S : p[2].rung \in Nat /\ p[2].failures \in Optional(Nat)
    BY DEF Skill
  <2>6. CASE s.rung > old.rung
    <3>1. /\ e \in Skill(Nat) /\ e.key = k /\ e.rung = s.rung /\ e.distance = s.distance
          /\ e.binding = s.binding /\ e.failures = s.failures
      BY <2>4, <2>6 DEF Skill
    <3> HIDE DEF e, R, old
    <3>2. \A p \in R : p[2].key = k => p[2] = s \/ (p[2].rung <= old.rung /\ p[2].rung \in Nat)
      BY <1>1, <2>2, <2>5 DEF SkillOf
    <3>3. \A p \in R : p[2].key = k => p[2].rung <= e.rung
      BY <1>2, <2>3, <2>6, <3>1, <3>2
    <3>4. \A p \in R : p[2].key = k /\ p[2].rung = e.rung => p[2] = s
      BY <1>2, <2>3, <2>6, <3>1, <3>2
    <3>5. QED
      <4>1. SkillOf(e, R, k)
        BY <1>1, <1>2, <3>1, <3>3, <3>4 DEF SkillOf
      <4>2. QED
        BY <2>1, <4>1, PutKeeps DEF R
  <2>7. CASE ~(s.rung > old.rung)
    <3>1. /\ e \in Skill(Nat) /\ e.key = k /\ e.rung = old.rung /\ e.distance = old.distance
          /\ e.binding = old.binding /\ e.failures = Larger(old.failures, s.failures)
      BY <2>2, <2>3, <2>4, <2>7 DEF Skill
    <3> HIDE DEF e, R, old
    <3>2. \A p \in R : p[2].key = k => p[2].rung <= e.rung
      BY <1>1, <1>2, <2>2, <2>3, <2>7, <3>1 DEF SkillOf
    <3>3. ASSUME NEW p \in R, p[2].key = k, p[2].rung = e.rung
          PROVE  Larger(e.failures, p[2].failures) = e.failures
      <4>1. CASE p[2] = s
        BY <1>2, <2>3, <3>1, <4>1, LargerIs
      <4>2. CASE p \in S
        <5>1. Larger(old.failures, p[2].failures) = old.failures /\ p[2].failures \in Optional(Nat)
          BY <2>2, <2>5, <3>1, <3>3, <4>2 DEF SkillOf
        <5>2. QED
          BY <1>2, <2>3, <3>1, <5>1, LargerIs
      <4>3. QED
        BY <1>1, <3>3, <4>1, <4>2
    <3>4. \E p \in R : /\ p[2].key = k /\ p[2].rung = e.rung
                       /\ p[2].distance = e.distance /\ p[2].binding = e.binding
      BY <1>1, <2>2, <3>1 DEF SkillOf
    <3>5. SkillOf(e, R, k)
      BY <3>1, <3>2, <3>3, <3>4 DEF SkillOf
    <3>6. QED
      BY <2>1, <3>5, PutKeeps DEF R
  <2>8. QED
    BY <2>6, <2>7
<1>5. QED
  BY <1>3, <1>4

LEMMA MemberMerged ==
  ASSUME NEW map, NEW S, NEW r, NEW m \in Member(Nat), r.instance \in Nat,
         \A p \in S : p[2] \in Member(Nat), MembersOf(map, S)
  PROVE  MembersOf(MergeMember(map, r.instance, m), S \cup {<<r, m>>})
<1> DEFINE k == m.key
           R == S \cup {<<r, m>>}
           n == r.instance
<1>1. /\ \A p \in R : p \in S \/ (p[1] = r /\ p[2] = m)
      /\ \E p \in R : p[1] = r /\ p[2] = m
      /\ S \subseteq R
  <2>1. \A p \in R : p \in S \/ (p[1] = r /\ p[2] = m)
    OBVIOUS
  <2>2. <<r, m>> \in R /\ <<r, m>>[1] = r /\ <<r, m>>[2] = m
    OBVIOUS
  <2>3. QED
    BY <2>1, <2>2
<1>2. /\ m.trust \in Optional(Nat) /\ m.count \in Optional(Nat)
      /\ Larger(m.trust, m.trust) = m.trust
  BY LargerIs DEF Member
<1>3. CASE k \notin Keys(S)
  <2> DEFINE e == [m EXCEPT !.sources = <<n>>]
  <2>1. MergeMember(map, n, m) = Put(map, k, e)
    BY <1>3 DEF MergeMember, MembersOf
  <2>2. e \in Member(Nat) /\ e.key = k /\ e.mode = m.mode /\ e.trust = m.trust
    <3>1. <<n>> \in Seq(Nat)
      OBVIOUS
    <3>2. QED
      BY <3>1 DEF Member
  <2>3. \A p \in R : p[2].key = k => p[2] = m
    BY <1>1, <1>3 DEF Keys
  <2> HIDE DEF e, R
  <2>4. MemberOf(e, R, k)
    BY <1>1, <1>2, <2>2, <2>3 DEF MemberOf
  <2>5. QED
    BY <2>1, <2>4, PutKeeps DEF R
<1>4. CASE k \in Keys(S)
  <2> DEFINE old == map[k]
             e == [old EXCEPT !.sources = appendUnique(@, n),
                              !.mode  = IF m.mode = "demo" \/ @ = None THEN m.mode ELSE @,
                              !.trust = Larger(@, m.trust), !.count = Larger(@, m.count)]
  <2>1. MergeMember(map, n, m) = Put(map, k, e)
    BY <1>4 DEF MergeMember, MembersOf
  <2>2. MemberOf(old, S, k) /\ old \in Member(Nat) /\ old.key = k
    BY <1>4 DEF MembersOf, MemberOf
  <2>3. /\ old.trust \in Optional(Nat) /\ old.count \in Optional(Nat)
        /\ Larger(old.trust, m.trust) \in Optional(Nat)
        /\ Larger(old.count, m.count) \in Optional(Nat)
    BY <1>2, <2>2, LargerIs DEF Member
  <2>4. appendUnique(old.sources, n) \in Seq(Nat)
    BY <2>2 DEF Member, appendUnique
  <2>5. /\ e \in Member(Nat) /\ e.key = k
        /\ e.mode = IF m.mode = "demo" \/ old.mode = None THEN m.mode ELSE old.mode
        /\ e.trust = Larger(old.trust, m.trust)
    BY <2>2, <2>3, <2>4 DEF Member
  <2>6. None # "demo"
    BY MergeAssumption
  <2> HIDE DEF e, R, old
  <2>7. e.mode = "demo" <=> \E p \in R : p[2].key = k /\ p[2].mode = "demo"
    BY <1>1, <2>2, <2>5, <2>6 DEF MemberOf
  <2>8. ASSUME NEW p \in R, p[2].key = k PROVE Larger(e.trust, p[2].trust) = e.trust
    <3>1. CASE p[2] = m
      BY <1>2, <2>3, <2>5, <3>1, LargerIs
    <3>2. CASE p \in S
      <4>1. Larger(old.trust, p[2].trust) = old.trust /\ p[2].trust \in Optional(Nat)
        BY <2>2, <2>8, <3>2 DEF MemberOf, Member
      <4>2. QED
        BY <1>2, <2>3, <2>5, <4>1, LargerIs
    <3>3. QED
      BY <1>1, <3>1, <3>2
  <2>9. MemberOf(e, R, k)
    BY <2>5, <2>7, <2>8 DEF MemberOf
  <2>10. QED
    BY <2>1, <2>9, PutKeeps DEF R
<1>5. QED
  BY <1>3, <1>4

-----------------------------------------------------------------------------
(* The invariant. *)

(* The reports of tool t merged so far. *)
Seen(t) ==
  UNION {{<<results[i], results[i][t][j]>> :
            j \in {j \in DOMAIN results[i][t] : i < Len(results) \/ j <= at[t]}} :
         i \in DOMAIN results}

(* The votes of the demo clusters, or of the real ones. *)
VotesOf(votes, S, demo) ==
  /\ \A k \in votes : \E p \in S : p[2].key = k /\ p[2].certified /\ p[1].demo = demo
  /\ \A p \in S : p[2].certified /\ p[1].demo = demo => p[2].key \in votes

(* A source is known to be a demo cluster if any entry says so, and its     *)
(* rung covers what it released.                                            *)
EvidenceOf(r) ==
  /\ Has(r.members, LAMBDA m : m.mode = "demo") \/ Has(r.features, LAMBDA f : f.stale) => r.demo
  /\ \A j \in DOMAIN r.features : /\ r.features[j].isotope # None => r.rung >= 2
                                  /\ r.features[j].member # None => r.rung >= 3
  /\ \A j \in DOMAIN r.skills : /\ r.skills[j].distance # None => r.rung >= 2
                                /\ r.skills[j].binding # None => r.rung >= 3

SourceType ==
  [instance : Nat, endpoint : [host : Nat, path : Optional(STRING \cup {"/mcp"})]]

Typed ==
  /\ answers \in Answers /\ configured \in Configured
  /\ sources \in Seq(SourceType)
  /\ results \in Seq(SourceResults)
  /\ at \in [Tools -> Nat]

InStep ==
  /\ results # <<>> => \A t \in Tools : at[t] <= Len(Current[t])
  /\ view # None => CurrentDone

Evidenced == \A i \in DOMAIN results : EvidenceOf(results[i])

MapsAgree ==
  /\ FeaturesOf(features, Seen("features"))
  /\ SkillsOf(skills, Seen("skills"))
  /\ MembersOf(members, Seen("members"))
  /\ VotesOf(byDemo, Seen("features"), TRUE)
  /\ VotesOf(byReal, Seen("features"), FALSE)

Inv == Typed /\ InStep /\ Evidenced /\ MapsAgree

-----------------------------------------------------------------------------
(* The sources and what they answer. *)

LEMMA SeqElement ==
  ASSUME NEW A, NEW s \in Seq(A), NEW i \in DOMAIN s
  PROVE  s[i] \in A
OBVIOUS

LEMMA NormalizedType ==
  ASSUME NEW url \in [host : Nat, path : Optional(STRING)]
  PROVE  NormalizeEndpoint(url) \in [host : Nat, path : Optional(STRING \cup {"/mcp"})]
BY DEF NormalizeEndpoint, Optional

LEMMA ConfigSourcesType ==
  ASSUME NEW eps \in Configured
  PROVE  ConfigSources(eps) \in Seq(SourceType)
<1> DEFINE Ep == [url : Optional([host : Nat, path : Optional(STRING)]), name : Optional(Nat)]
           I == {i \in DOMAIN eps : eps[i].url # None}
           given == Subsequence(eps, I)
<1>1. eps \in Seq(Ep)
  BY MergeAssumption
<1>2. given \in Seq({eps[i] : i \in I})
  BY <1>1, SubsequenceType
<1>3. DOMAIN given = 1 .. Len(given) /\ Len(given) \in Nat
  BY <1>2
<1>4. ASSUME NEW i \in 1 .. Len(given)
      PROVE  [instance |-> IF given[i].name = None THEN given[i].url.host ELSE given[i].name,
              endpoint |-> NormalizeEndpoint(given[i].url)] \in SourceType
  <2>0. given[i] \in {eps[x] : x \in I}
    BY <1>2, <1>3, <1>4, SeqElement
  <2>1. PICK x \in DOMAIN eps : given[i] = eps[x] /\ eps[x].url # None
    BY <2>0
  <2>2. eps[x] \in Ep /\ eps[x].url # None
    BY <1>1, <2>1, SeqElement
  <2>3. given[i].url \in [host : Nat, path : Optional(STRING)] /\ given[i].name \in Optional(Nat)
    BY <2>1, <2>2 DEF Optional
  <2>4. NormalizeEndpoint(given[i].url) \in [host : Nat, path : Optional(STRING \cup {"/mcp"})]
    BY <2>3, NormalizedType
  <2>5. (IF given[i].name = None THEN given[i].url.host ELSE given[i].name) \in Nat
    BY <2>3 DEF Optional
  <2>6. QED
    BY <2>4, <2>5 DEF SourceType
<1>5. ConfigSources(eps) =
        [i \in 1 .. Len(given) |->
           [instance |-> IF given[i].name = None THEN given[i].url.host ELSE given[i].name,
            endpoint |-> NormalizeEndpoint(given[i].url)]]
  BY <1>3 DEF ConfigSources
<1> HIDE DEF given
<1>6. QED
  BY <1>3, <1>4, <1>5

LEMMA DiscoveredSourcesType ==
  ASSUME NEW eps \in Found, NEW list \in DiscoveredSources(eps)
  PROVE  list \in Seq(SourceType)
<1> DEFINE src(ep) == [instance |-> IF ep.label = None THEN ep.host ELSE ep.label,
                       endpoint |-> NormalizeEndpoint([host |-> ep.host, path |-> None])]
           found == {src(ep) : ep \in eps}
           g == [ep \in eps |-> src(ep)]
<1>1. IsFiniteSet(eps) /\ eps \subseteq [host : Nat, label : Optional(Nat)]
  BY MergeAssumption
<1>2. g \in Surjection(eps, found)
  BY DEF Surjection
<1>3. IsFiniteSet(found)
  BY <1>1, <1>2, FS_Surjection
<1>4. Cardinality(found) \in Nat
  BY <1>3, FS_CardinalityType
<1>5. ASSUME NEW ep \in eps PROVE src(ep) \in SourceType
  <2>1. ep \in [host : Nat, label : Optional(Nat)]
    BY <1>1
  <2>2. [host |-> ep.host, path |-> None] \in [host : Nat, path : Optional(STRING)]
    BY <2>1 DEF Optional
  <2>3. NormalizeEndpoint([host |-> ep.host, path |-> None])
          \in [host : Nat, path : Optional(STRING \cup {"/mcp"})]
    BY <2>2, NormalizedType
  <2>4. (IF ep.label = None THEN ep.host ELSE ep.label) \in Nat
    BY <2>1 DEF Optional
  <2>5. QED
    BY <2>3, <2>4 DEF SourceType
<1>6. found \subseteq SourceType
  BY <1>5
<1>7. list \in [1 .. Cardinality(found) -> found]
  BY DEF DiscoveredSources, SetToSeqs
<1> HIDE DEF found
<1>8. QED
  BY <1>4, <1>6, <1>7

LEMMA SourceSetType ==
  ASSUME NEW a \in Seq(SourceType), NEW b \in Seq(SourceType)
  PROVE  SourceSet(a, b) \in Seq(SourceType)
<1>1. ASSUME NEW list \in Seq(SourceType) PROVE dedupeByEndpoint(list) \in Seq(SourceType)
  BY SubsequenceType DEF dedupeByEndpoint
<1>2. QED
  BY <1>1 DEF SourceSet

LEMMA SeqOfSubset ==
  ASSUME NEW A, NEW B, A \subseteq B, NEW s \in Seq(A)
  PROVE  s \in Seq(B)
OBVIOUS

(* An entry that has a name has the type with a name. *)
LEMMA NamedType ==
  /\ \A f \in Feature(Optional(Nat)) : f.key # None => f \in Feature(Nat)
  /\ \A s \in Skill(Optional(Nat)) : s.key # None => s \in Skill(Nat)
  /\ \A m \in Member(Optional(Nat)) : m.key # None => m \in Member(Nat)
<1>1. ASSUME NEW f \in Feature(Optional(Nat)), f.key # None PROVE f \in Feature(Nat)
  <2>1. f.key \in Nat
    BY <1>1 DEF Feature, Optional
  <2>2. QED
    BY <2>1 DEF Feature
<1>2. ASSUME NEW s \in Skill(Optional(Nat)), s.key # None PROVE s \in Skill(Nat)
  <2>1. s.key \in Nat
    BY <1>2 DEF Skill, Optional
  <2>2. QED
    BY <2>1 DEF Skill
<1>3. ASSUME NEW m \in Member(Optional(Nat)), m.key # None PROVE m \in Member(Nat)
  <2>1. m.key \in Nat
    BY <1>3 DEF Member, Optional
  <2>2. QED
    BY <2>1 DEF Member
<1>4. QED
  BY <1>1, <1>2, <1>3

LEMMA DecodeIs ==
  ASSUME NEW T, NEW s \in Seq(T), NEW U, \A e \in T : e.key # None => e \in U
  PROVE  Decode(s) \in Seq(U)
<1> DEFINE I == {i \in DOMAIN s : s[i].key # None}
<1>1. Subsequence(s, I) \in Seq({s[i] : i \in I})
  BY SubsequenceType
<1>2. \A i \in I : s[i] \in U
  OBVIOUS
<1>3. {s[i] : i \in I} \subseteq U
  BY <1>2
<1>4. QED
  BY <1>1, <1>3, SeqOfSubset DEF Decode

LEMMA DecodeType ==
  /\ \A s \in Seq(Feature(Optional(Nat))) : Decode(s) \in Seq(Feature(Nat))
  /\ \A s \in Seq(Skill(Optional(Nat))) : Decode(s) \in Seq(Skill(Nat))
  /\ \A s \in Seq(Member(Optional(Nat))) : Decode(s) \in Seq(Member(Nat))
BY NamedType, DecodeIs

LEMMA SourceResultIs ==
  ASSUME NEW s \in SourceType, NEW a \in Answer
  PROVE  SourceResult(s, a) \in SourceResults /\ EvidenceOf(SourceResult(s, a))
<1> DEFINE d == [a EXCEPT !.features = Decode(@), !.skills = Decode(@), !.members = Decode(@)]
           r == SourceResult(s, a)
<1>1. /\ d.features \in Seq(Feature(Nat)) /\ d.skills \in Seq(Skill(Nat))
      /\ d.members \in Seq(Member(Nat))
      /\ d.state = a.state /\ d.unverified = a.unverified /\ d.rung = a.rung
      /\ d.plaintext = a.plaintext
  BY DecodeType DEF Answer
<1>2. r = [instance |-> s.instance, state |-> d.state, unverified |-> d.unverified,
           rung |-> RungEvidence(d), demo |-> DemoEvidence(d),
           features |-> d.features, skills |-> d.skills, members |-> d.members]
  BY DEF SourceResult
<1>3. a.state \in SourceStates /\ a.unverified \in Nat /\ a.rung \in Nat /\ s.instance \in Nat
  BY DEF Answer, SourceType
<1> HIDE DEF d
<1>4. RungEvidence(d) \in Nat /\ RungEvidence(d) >= FieldEvidence(d)
  BY <1>1, <1>3 DEF RungEvidence, FieldEvidence
<1>5. DemoEvidence(d) \in BOOLEAN
  BY <1>1 DEF DemoEvidence, Answer
<1>6. r \in SourceResults
  BY <1>1, <1>2, <1>3, <1>4, <1>5 DEF SourceResults
<1>7. Has(d.members, LAMBDA m : m.mode = "demo") \/ Has(d.features, LAMBDA f : f.stale)
        => DemoEvidence(d)
  BY DEF DemoEvidence
<1>8. /\ \A j \in DOMAIN d.features :
           /\ d.features[j].isotope # None => RungEvidence(d) >= 2
           /\ d.features[j].member # None => RungEvidence(d) >= 3
      /\ \A j \in DOMAIN d.skills :
           /\ d.skills[j].distance # None => RungEvidence(d) >= 2
           /\ d.skills[j].binding # None => RungEvidence(d) >= 3
  BY <1>3, <1>1 DEF RungEvidence, FieldEvidence, Has
<1>9. QED
  BY <1>2, <1>6, <1>7, <1>8 DEF EvidenceOf

-----------------------------------------------------------------------------
(* The steps of merge. *)

LEMMA SeenIs ==
  ASSUME Typed, NEW t \in Tools, NEW p
  PROVE  p \in Seen(t) <=>
           \E i \in DOMAIN results : \E j \in DOMAIN results[i][t] :
             /\ i < Len(results) \/ j <= at[t]
             /\ p = <<results[i], results[i][t][j]>>
BY DEF Seen

LEMMA ResultTypes ==
  ASSUME Typed, NEW i \in DOMAIN results
  PROVE  /\ results[i] \in SourceResults /\ results[i].instance \in Nat
         /\ results[i].demo \in BOOLEAN /\ results[i].rung \in Nat
         /\ results[i].features \in Seq(Feature(Nat))
         /\ results[i].skills \in Seq(Skill(Nat))
         /\ results[i].members \in Seq(Member(Nat))
         /\ \A t \in Tools : DOMAIN results[i][t] = 1 .. Len(results[i][t])
                             /\ Len(results[i][t]) \in Nat
<1>1. results[i] \in SourceResults
  BY DEF Typed
<1>2. /\ results[i].instance \in Nat
      /\ results[i].demo \in BOOLEAN /\ results[i].rung \in Nat
      /\ results[i].features \in Seq(Feature(Nat))
      /\ results[i].skills \in Seq(Skill(Nat))
      /\ results[i].members \in Seq(Member(Nat))
  BY <1>1 DEF SourceResults
<1>3. \A t \in Tools : DOMAIN results[i][t] = 1 .. Len(results[i][t])
                       /\ Len(results[i][t]) \in Nat
  BY <1>2 DEF Tools
<1>4. QED
  BY <1>1, <1>2, <1>3

LEMMA SeenTypes ==
  ASSUME Typed
  PROVE  /\ \A p \in Seen("features") : p[1] \in SourceResults /\ p[2] \in Feature(Nat)
         /\ \A p \in Seen("skills") : p[1] \in SourceResults /\ p[2] \in Skill(Nat)
         /\ \A p \in Seen("members") : p[1] \in SourceResults /\ p[2] \in Member(Nat)
<1>1. ASSUME NEW t \in Tools, NEW p \in Seen(t)
      PROVE  \E i \in DOMAIN results : \E j \in DOMAIN results[i][t] :
               p[1] = results[i] /\ p[2] = results[i][t][j]
  BY <1>1, SeenIs
<1>2. ASSUME NEW p \in Seen("features")
      PROVE  p[1] \in SourceResults /\ p[2] \in Feature(Nat)
  <2>1. PICK i \in DOMAIN results : \E j \in DOMAIN results[i].features :
          p[1] = results[i] /\ p[2] = results[i].features[j]
    BY <1>1, <1>2 DEF Tools
  <2>2. QED
    BY <2>1, ResultTypes, SeqElement
<1>3. ASSUME NEW p \in Seen("skills")
      PROVE  p[1] \in SourceResults /\ p[2] \in Skill(Nat)
  <2>1. PICK i \in DOMAIN results : \E j \in DOMAIN results[i].skills :
          p[1] = results[i] /\ p[2] = results[i].skills[j]
    BY <1>1, <1>3 DEF Tools
  <2>2. QED
    BY <2>1, ResultTypes, SeqElement
<1>4. ASSUME NEW p \in Seen("members")
      PROVE  p[1] \in SourceResults /\ p[2] \in Member(Nat)
  <2>1. PICK i \in DOMAIN results : \E j \in DOMAIN results[i].members :
          p[1] = results[i] /\ p[2] = results[i].members[j]
    BY <1>1, <1>4 DEF Tools
  <2>2. QED
    BY <2>1, ResultTypes, SeqElement
<1>5. QED
  BY <1>2, <1>3, <1>4

(* When the source that merge has come to is done with, all that the        *)
(* results hold is seen.                                                    *)
LEMMA AllSeen ==
  ASSUME Inv, CurrentDone, NEW t \in Tools, NEW i \in DOMAIN results,
         NEW j \in DOMAIN results[i][t]
  PROVE  i < Len(results) \/ j <= at[t]
<1>1. i \in 1 .. Len(results) /\ Len(results) \in Nat /\ results # <<>>
  BY DEF Inv, Typed
<1>2. CASE i = Len(results)
  <2>1. at[t] = Len(results[i][t])
    BY <1>1, <1>2 DEF CurrentDone, Current
  <2>2. j \in 1 .. Len(results[i][t])
    BY ResultTypes DEF Inv
  <2>3. QED
    BY <2>1, <2>2
<1>3. QED
  BY <1>1, <1>2

LEMMA SeenAfterSource ==
  ASSUME Inv, Typed', MergeSource, NEW t \in Tools
  PROVE  Seen(t)' = Seen(t)
<1>1. PICK r : results' = Append(results, r)
  BY DEF MergeSource
<1>2. /\ at' = [u \in Tools |-> 0] /\ CurrentDone
  BY DEF MergeSource
<1>3. /\ Len(results) \in Nat /\ DOMAIN results = 1 .. Len(results)
      /\ Len(results') = Len(results) + 1 /\ DOMAIN results' = 1 .. Len(results) + 1
      /\ \A i \in DOMAIN results : results'[i] = results[i]
  BY <1>1 DEF Inv, Typed
<1>4. ASSUME NEW p \in Seen(t) PROVE p \in Seen(t)'
  <2>1. PICK i \in DOMAIN results : \E j \in DOMAIN results[i][t] :
          p = <<results[i], results[i][t][j]>>
    BY <1>4, SeenIs DEF Inv
  <2>2. i \in DOMAIN results' /\ results'[i] = results[i] /\ i < Len(results')
    BY <1>3
  <2>3. QED
    BY <2>1, <2>2 DEF Seen
<1>5. ASSUME NEW p \in Seen(t)' PROVE p \in Seen(t)
  <2>1. PICK i \in DOMAIN results' : \E j \in DOMAIN results'[i][t] :
          /\ i < Len(results') \/ j <= at'[t]
          /\ p = <<results'[i], results'[i][t][j]>>
    BY <1>5 DEF Seen
  <2>2. PICK j \in DOMAIN results'[i][t] :
          /\ i < Len(results') \/ j <= at'[t]
          /\ p = <<results'[i], results'[i][t][j]>>
    BY <2>1
  <2>3. j \in 1 .. Len(results'[i][t])
    <3>1. results'[i] \in SourceResults
      BY DEF Typed
    <3>2. QED
      BY <3>1, <2>2 DEF SourceResults, Tools
  <2>4. i \in DOMAIN results /\ results'[i] = results[i]
    BY <1>2, <1>3, <2>2, <2>3
  <2>5. i < Len(results) \/ j <= at[t]
    BY <1>2, <2>2, <2>4, AllSeen
  <2>6. QED
    BY <2>2, <2>4, <2>5 DEF Seen
<1>6. QED
  BY <1>4, <1>5

(* The entry that comes next. *)
LEMMA NextEntryIs ==
  ASSUME Inv, NEW t \in Tools, NEW before, NextEntry(t, before)
  PROVE  /\ Len(results) \in DOMAIN results /\ Current = results[Len(results)]
         /\ at[t] + 1 \in DOMAIN Current[t] /\ at[t] \in Nat
         /\ at' = [at EXCEPT ![t] = at[t] + 1] /\ at'[t] = at[t] + 1
         /\ \A u \in Tools : u # t => at'[u] = at[u]
         /\ results' = results /\ view = None /\ view' = None
<1>1. /\ results # <<>> /\ at[t] < Len(Current[t]) /\ at' = [at EXCEPT ![t] = @ + 1]
      /\ results' = results /\ view = None /\ view' = view
  BY DEF NextEntry
<1>2. Len(results) \in DOMAIN results /\ Current = results[Len(results)]
  BY <1>1 DEF Inv, Typed, Current
<1>3. DOMAIN Current[t] = 1 .. Len(Current[t]) /\ Len(Current[t]) \in Nat /\ at[t] \in Nat
  BY <1>2, ResultTypes DEF Inv, Typed
<1>4. at \in [Tools -> Nat]
  BY DEF Inv, Typed
<1>5. QED
  BY <1>1, <1>2, <1>3, <1>4

LEMMA SeenAfterEntry ==
  ASSUME Inv, NEW t \in Tools, NEW before, NextEntry(t, before)
  PROVE  /\ Seen(t)' = Seen(t) \cup {<<Current, Current[t][at[t] + 1]>>}
         /\ \A u \in Tools : u # t => Seen(u)' = Seen(u)
<1> DEFINE n == Len(results)
           x == at[t] + 1
<1>1. /\ n \in DOMAIN results /\ Current = results[n] /\ n \in Nat
      /\ x \in DOMAIN Current[t] /\ at[t] \in Nat /\ at'[t] = x
      /\ \A u \in Tools : u # t => at'[u] = at[u]
      /\ results' = results
  BY NextEntryIs DEF Inv, Typed
<1>2. ASSUME NEW u \in Tools, u # t PROVE Seen(u)' = Seen(u)
  BY <1>1, <1>2 DEF Seen
<1>3. \A i \in DOMAIN results : \A j \in DOMAIN results[i][t] : i \in 1 .. n /\ j \in Nat
  BY ResultTypes DEF Inv, Typed
<1>4. \A i \in DOMAIN results : \A j \in DOMAIN results[i][t] :
        (i < n \/ j <= at'[t]) <=> (i < n \/ j <= at[t]) \/ (i = n /\ j = x)
  BY <1>1, <1>3
<1>5. ASSUME NEW p \in Seen(t)' PROVE p \in Seen(t) \cup {<<Current, Current[t][x]>>}
  <2>1. PICK i \in DOMAIN results : \E j \in DOMAIN results[i][t] :
          /\ i < n \/ j <= at'[t]
          /\ p = <<results[i], results[i][t][j]>>
    BY <1>1, <1>5 DEF Seen
  <2>2. PICK j \in DOMAIN results[i][t] : /\ i < n \/ j <= at'[t]
                                          /\ p = <<results[i], results[i][t][j]>>
    BY <2>1
  <2>3. CASE i < n \/ j <= at[t]
    BY <2>2, <2>3 DEF Seen
  <2>4. CASE i = n /\ j = x
    BY <1>1, <2>2, <2>4
  <2>5. QED
    BY <1>4, <2>2, <2>3, <2>4
<1>6. ASSUME NEW p \in Seen(t) PROVE p \in Seen(t)'
  <2>1. PICK i \in DOMAIN results : \E j \in DOMAIN results[i][t] :
          /\ i < n \/ j <= at[t]
          /\ p = <<results[i], results[i][t][j]>>
    BY <1>6 DEF Seen
  <2>2. PICK j \in DOMAIN results[i][t] : /\ i < n \/ j <= at[t]
                                          /\ p = <<results[i], results[i][t][j]>>
    BY <2>1
  <2>3. i < n \/ j <= at'[t]
    BY <1>4, <2>2
  <2>4. QED
    BY <1>1, <2>2, <2>3 DEF Seen
<1>7. <<Current, Current[t][x]>> \in Seen(t)'
  <2>1. x <= at'[t]
    BY <1>1
  <2>2. QED
    BY <1>1, <2>1 DEF Seen
<1>8. QED
  BY <1>2, <1>5, <1>6, <1>7

-----------------------------------------------------------------------------
(* The invariant is kept. *)

LEMMA NothingSeen ==
  ASSUME results = <<>>
  PROVE  \A t : Seen(t) = {}
BY DEF Seen

LEMMA NothingMerged ==
  ASSUME NEW S, S = {}
  PROVE  FeaturesOf(Empty, S) /\ SkillsOf(Empty, S) /\ MembersOf(Empty, S)
         /\ VotesOf({}, S, TRUE) /\ VotesOf({}, S, FALSE)
<1>1. Keys(S) = {} /\ DOMAIN Empty = {}
  BY DEF Keys, Empty
<1>2. QED
  BY <1>1 DEF FeaturesOf, SkillsOf, MembersOf, VotesOf

LEMMA InvInit == Init => Inv
<1> SUFFICES ASSUME Init PROVE Inv
  OBVIOUS
<1>1. Typed
  BY DEF Init, Typed
<1>2. InStep /\ Evidenced
  BY DEF Init, InStep, CurrentDone, Evidenced
<1>3. MapsAgree
  BY NothingSeen, NothingMerged DEF Init, MapsAgree
<1>4. QED
  BY <1>1, <1>2, <1>3 DEF Inv

LEMMA FetchKeeps ==
  ASSUME Inv, Fetch PROVE Inv'
<1>1. PICK found \in Found : \E discovered \in DiscoveredSources(found) :
        sources' = SourceSet(discovered, ConfigSources(configured))
  BY DEF Fetch
<1>2. PICK discovered \in DiscoveredSources(found) :
        sources' = SourceSet(discovered, ConfigSources(configured))
  BY <1>1
<1>3. discovered \in Seq(SourceType) /\ ConfigSources(configured) \in Seq(SourceType)
  BY DiscoveredSourcesType, ConfigSourcesType DEF Inv, Typed
<1>4. sources' \in Seq(SourceType)
  BY <1>2, <1>3, SourceSetType
<1>5. /\ results' = <<>> /\ at' = [t \in Tools |-> 0]
      /\ features' = Empty /\ skills' = Empty /\ members' = Empty /\ byReal' = {} /\ byDemo' = {}
      /\ answers' = answers /\ configured' = configured
  BY DEF Fetch
<1>6. Typed'
  BY <1>4, <1>5 DEF Inv, Typed
<1>7. InStep' /\ Evidenced'
  BY <1>5 DEF InStep, CurrentDone, Evidenced
<1>8. \A t \in Tools : Seen(t)' = {}
  BY <1>5 DEF Seen
<1>9. MapsAgree'
  BY <1>5, <1>8, NothingMerged DEF MapsAgree, Tools
<1>10. QED
  BY <1>6, <1>7, <1>9 DEF Inv

LEMMA MergeSourceKeeps ==
  ASSUME Inv, MergeSource PROVE Inv'
<1>1. PICK a \in answers : results' = Append(results, SourceResult(sources[Len(results) + 1], a))
  BY DEF MergeSource
<1> DEFINE r == SourceResult(sources[Len(results) + 1], a)
<1>2. /\ view = None /\ Len(results) < Len(sources) /\ at' = [t \in Tools |-> 0]
      /\ UNCHANGED <<answers, configured, sources, features, skills, members, byReal, byDemo,
                     view>>
  BY DEF MergeSource
<1>3. sources[Len(results) + 1] \in SourceType /\ a \in Answer
  <2>1. Len(results) + 1 \in DOMAIN sources
    BY <1>2 DEF Inv, Typed
  <2>2. QED
    BY <2>1, SeqElement, MergeAssumption DEF Inv, Typed
<1>4. r \in SourceResults /\ EvidenceOf(r)
  BY <1>3, SourceResultIs
<1> HIDE DEF r
<1>5. /\ results' = Append(results, r) /\ results' \in Seq(SourceResults) /\ Len(results) \in Nat
      /\ DOMAIN results' = 1 .. Len(results) + 1 /\ DOMAIN results = 1 .. Len(results)
      /\ Len(results') = Len(results) + 1 /\ results'[Len(results) + 1] = r
      /\ \A i \in DOMAIN results : results'[i] = results[i]
  BY <1>1, <1>4 DEF Inv, Typed, r
<1>6. Typed'
  BY <1>2, <1>5 DEF Inv, Typed
<1>7. InStep'
  <2>1. Current' = r
    BY <1>5 DEF Current
  <2>2. \A t \in Tools : Len(r[t]) \in Nat
    BY <1>4 DEF SourceResults, Tools
  <2>3. QED
    BY <1>2, <2>1, <2>2 DEF InStep
<1>8. Evidenced'
  BY <1>4, <1>5 DEF Inv, Evidenced
<1>9. \A t \in Tools : Seen(t)' = Seen(t)
  BY <1>6, SeenAfterSource
<1>10. MapsAgree'
  BY <1>2, <1>9 DEF Inv, MapsAgree, Tools
<1>11. QED
  BY <1>6, <1>7, <1>8, <1>10 DEF Inv

(* What the three loops over entries have in common. *)
LEMMA EntryKeeps ==
  ASSUME Inv, NEW t \in Tools, NEW before, NextEntry(t, before)
  PROVE  Typed' /\ InStep' /\ Evidenced'
<1>1. /\ Len(results) \in DOMAIN results /\ Current = results[Len(results)]
      /\ at[t] + 1 \in DOMAIN Current[t] /\ at[t] \in Nat
      /\ at' = [at EXCEPT ![t] = at[t] + 1] /\ at'[t] = at[t] + 1
      /\ \A u \in Tools : u # t => at'[u] = at[u]
      /\ results' = results /\ view = None /\ view' = None
  BY NextEntryIs
<1>2. UNCHANGED <<answers, configured, sources>>
  BY DEF NextEntry
<1>3. Typed'
  BY <1>1, <1>2 DEF Inv, Typed
<1>4. Current' = Current
  BY <1>1 DEF Current
<1>5. at[t] + 1 <= Len(Current[t])
  BY <1>1, ResultTypes DEF Inv
<1>6. InStep'
  BY <1>1, <1>4, <1>5 DEF Inv, InStep
<1>7. Evidenced'
  BY <1>1 DEF Inv, Evidenced
<1>8. QED
  BY <1>3, <1>6, <1>7

LEMMA FeatureEntryKeeps ==
  ASSUME Inv, FeatureEntry PROVE Inv'
<1> DEFINE f == Current.features[at.features + 1]
           S == Seen("features")
           R == S \cup {<<Current, f>>}
<1>0. "features" \in Tools /\ "skills" \in Tools /\ "members" \in Tools
  BY DEF Tools
<1>1. /\ NextEntry("features", {})
      /\ features' = MergeFeature(features, Current.instance, f)
      /\ byDemo' = IF f.certified /\ Current.demo THEN byDemo \cup {f.key} ELSE byDemo
      /\ byReal' = IF f.certified /\ ~Current.demo THEN byReal \cup {f.key} ELSE byReal
      /\ skills' = skills /\ members' = members
  BY DEF FeatureEntry
<1>2. Typed' /\ InStep' /\ Evidenced'
  BY <1>0, <1>1, EntryKeeps
<1>3. /\ Seen("features")' = R
      /\ Seen("skills")' = Seen("skills") /\ Seen("members")' = Seen("members")
  BY <1>0, <1>1, SeenAfterEntry
<1>4. /\ Current \in SourceResults /\ Current.instance \in Nat /\ Current.demo \in BOOLEAN
      /\ f \in Feature(Nat)
  <2>1. /\ Len(results) \in DOMAIN results /\ Current = results[Len(results)]
        /\ at.features + 1 \in DOMAIN Current.features
    BY <1>0, <1>1, NextEntryIs
  <2>2. QED
    BY <2>1, ResultTypes, SeqElement DEF Inv
<1>5. \A p \in S : p[1] \in SourceResults /\ p[2] \in Feature(Nat)
  BY SeenTypes DEF Inv
<1>6. FeaturesOf(features, S) /\ VotesOf(byDemo, S, TRUE) /\ VotesOf(byReal, S, FALSE)
  BY DEF Inv, MapsAgree
<1> HIDE DEF f, S
<1>7. FeaturesOf(features', R)
  BY <1>1, <1>4, <1>5, <1>6, FeatureMerged
<1>8. /\ \A p \in R : p \in S \/ (p[1] = Current /\ p[2] = f)
      /\ \E p \in R : p[1] = Current /\ p[2] = f
      /\ S \subseteq R
  <2>1. <<Current, f>>[1] = Current /\ <<Current, f>>[2] = f
    OBVIOUS
  <2>2. QED
    BY <2>1
<1> HIDE DEF R
<1>9. VotesOf(byDemo', R, TRUE)
  <2>1. CASE f.certified /\ Current.demo
    BY <1>1, <1>4, <1>6, <1>8, <2>1 DEF VotesOf
  <2>2. CASE ~(f.certified /\ Current.demo)
    BY <1>1, <1>4, <1>6, <1>8, <2>2 DEF VotesOf
  <2>3. QED
    BY <2>1, <2>2
<1>10. VotesOf(byReal', R, FALSE)
  <2>1. CASE f.certified /\ ~Current.demo
    BY <1>1, <1>4, <1>6, <1>8, <2>1 DEF VotesOf
  <2>2. CASE ~(f.certified /\ ~Current.demo)
    BY <1>1, <1>4, <1>6, <1>8, <2>2 DEF VotesOf
  <2>3. QED
    BY <2>1, <2>2
<1>11. MapsAgree'
  BY <1>1, <1>3, <1>7, <1>9, <1>10 DEF Inv, MapsAgree
<1>12. QED
  BY <1>2, <1>11 DEF Inv

LEMMA SkillEntryKeeps ==
  ASSUME Inv, SkillEntry PROVE Inv'
<1> DEFINE s == Current.skills[at.skills + 1]
           S == Seen("skills")
<1>0. "features" \in Tools /\ "skills" \in Tools /\ "members" \in Tools
  BY DEF Tools
<1>1. /\ NextEntry("skills", {"features"})
      /\ skills' = MergeSkill(skills, Current.instance, s)
      /\ UNCHANGED <<features, members, byReal, byDemo>>
  BY DEF SkillEntry
<1>2. Typed' /\ InStep' /\ Evidenced'
  BY <1>0, <1>1, EntryKeeps
<1>3. /\ Seen("skills")' = S \cup {<<Current, s>>}
      /\ Seen("features")' = Seen("features") /\ Seen("members")' = Seen("members")
  BY <1>0, <1>1, SeenAfterEntry
<1>4. Current.instance \in Nat /\ s \in Skill(Nat)
  <2>1. /\ Len(results) \in DOMAIN results /\ Current = results[Len(results)]
        /\ at.skills + 1 \in DOMAIN Current.skills
    BY <1>0, <1>1, NextEntryIs
  <2>2. QED
    BY <2>1, ResultTypes, SeqElement DEF Inv
<1>5. \A p \in S : p[2] \in Skill(Nat)
  BY SeenTypes DEF Inv
<1>6. SkillsOf(skills, S)
  BY DEF Inv, MapsAgree
<1> HIDE DEF s, S
<1>7. SkillsOf(skills', S \cup {<<Current, s>>})
  BY <1>1, <1>4, <1>5, <1>6, SkillMerged
<1>8. MapsAgree'
  BY <1>1, <1>3, <1>7 DEF Inv, MapsAgree
<1>9. QED
  BY <1>2, <1>8 DEF Inv

LEMMA MemberEntryKeeps ==
  ASSUME Inv, MemberEntry PROVE Inv'
<1> DEFINE m == Current.members[at.members + 1]
           S == Seen("members")
<1>0. "features" \in Tools /\ "skills" \in Tools /\ "members" \in Tools
  BY DEF Tools
<1>1. /\ NextEntry("members", {"features", "skills"})
      /\ members' = MergeMember(members, Current.instance, m)
      /\ UNCHANGED <<features, skills, byReal, byDemo>>
  BY DEF MemberEntry
<1>2. Typed' /\ InStep' /\ Evidenced'
  BY <1>0, <1>1, EntryKeeps
<1>3. /\ Seen("members")' = S \cup {<<Current, m>>}
      /\ Seen("features")' = Seen("features") /\ Seen("skills")' = Seen("skills")
  BY <1>0, <1>1, SeenAfterEntry
<1>4. Current.instance \in Nat /\ m \in Member(Nat)
  <2>1. /\ Len(results) \in DOMAIN results /\ Current = results[Len(results)]
        /\ at.members + 1 \in DOMAIN Current.members
    BY <1>0, <1>1, NextEntryIs
  <2>2. QED
    BY <2>1, ResultTypes, SeqElement DEF Inv
<1>5. \A p \in S : p[2] \in Member(Nat)
  BY SeenTypes DEF Inv
<1>6. MembersOf(members, S)
  BY DEF Inv, MapsAgree
<1> HIDE DEF m, S
<1>7. MembersOf(members', S \cup {<<Current, m>>})
  BY <1>1, <1>4, <1>5, <1>6, MemberMerged
<1>8. MapsAgree'
  BY <1>1, <1>3, <1>7 DEF Inv, MapsAgree
<1>9. QED
  BY <1>2, <1>8 DEF Inv

LEMMA MergeKeeps ==
  ASSUME Inv, Merge PROVE Inv'
<1>1. /\ CurrentDone
      /\ UNCHANGED <<answers, configured, sources, results, at, features, skills, members,
                     byReal, byDemo>>
  BY DEF Merge
<1>2. CurrentDone' /\ Current' = Current
  BY <1>1 DEF CurrentDone, Current
<1>3. Typed' /\ InStep' /\ Evidenced'
  BY <1>1, <1>2 DEF Inv, Typed, InStep, Evidenced
<1>4. \A t : Seen(t)' = Seen(t)
  BY <1>1 DEF Seen
<1>5. MapsAgree'
  BY <1>1, <1>4 DEF Inv, MapsAgree
<1>6. QED
  BY <1>3, <1>5 DEF Inv

LEMMA StutterKeeps ==
  ASSUME Inv, UNCHANGED vars PROVE Inv'
<1>1. Typed' /\ InStep' /\ Evidenced'
  BY DEF Inv, Typed, InStep, Evidenced, CurrentDone, Current, vars
<1>2. \A t : Seen(t)' = Seen(t)
  BY DEF Seen, vars
<1>3. MapsAgree'
  BY <1>2 DEF Inv, MapsAgree, vars
<1>4. QED
  BY <1>1, <1>3 DEF Inv

LEMMA InvNext == Inv /\ [Next]_vars => Inv'
BY FetchKeeps, MergeSourceKeeps, FeatureEntryKeeps, SkillEntryKeeps, MemberEntryKeeps,
   MergeKeeps, StutterKeeps DEF Next

-----------------------------------------------------------------------------
(* The view. *)

(* A view comes from merge, or is empty. *)
LEMMA ViewSteps ==
  ASSUME Inv, [Next]_vars, view' # None
  PROVE  \/ view' = view /\ results' = results
         \/ Merge
         \/ view'.features = <<>> /\ view'.skills = <<>> /\ view'.members = <<>>
<1>1. CASE Fetch
  <2>1. view' = [status |-> "no-sources", rung |-> 0, demo |-> FALSE, unverified |-> 0,
                 features |-> <<>>, skills |-> <<>>, members |-> <<>>,
                 certified |-> 0, deterministic |-> 0, distance |-> None]
    BY <1>1 DEF Fetch
  <2>2. QED
    BY <2>1
<1>2. CASE MergeSource
  BY <1>2 DEF MergeSource
<1>3. CASE FeatureEntry \/ SkillEntry \/ MemberEntry
  BY <1>3 DEF FeatureEntry, SkillEntry, MemberEntry, NextEntry
<1>4. CASE UNCHANGED vars
  BY <1>4 DEF vars
<1>5. QED
  BY <1>1, <1>2, <1>3, <1>4 DEF Next

LEMMA MergedView ==
  ASSUME Inv, Merge
  PROVE  /\ results' = results /\ CurrentDone /\ view'.rung = Rung(results)
         /\ \A f \in Range(view'.features) : \E k \in DOMAIN features : f = ShownFeature(k)
         /\ \A s \in Range(view'.skills) : \E k \in DOMAIN skills : s = skills[k]
         /\ \A m \in Range(view'.members) : \E k \in DOMAIN members : m = members[k]
<1>1. ASSUME NEW S, NEW x \in SetToSeqs(S) PROVE \A e \in Range(x) : e \in S
  BY <1>1 DEF SetToSeqs, Range
<1>2. PICK fs \in Sorted({ShownFeature(k) : k \in DOMAIN features}, FeatureBefore),
           ss \in Sorted(Range(skills), SkillBefore),
           ms \in Sorted(Range(members), MemberBefore) :
        view' = [status |-> Status(results),
                 rung   |-> Rung(results),
                 demo   |-> Has(results, LAMBDA r : r.demo),
                 unverified |-> Max({r.unverified : r \in Range(results)}),
                 features |-> fs, skills |-> ss, members |-> ms,
                 certified     |-> Cardinality({i \in DOMAIN fs : fs[i].certified}),
                 deterministic |-> Cardinality({i \in DOMAIN ss : ss[i].rung >= 2}),
                 distance      |-> Distance(ss)]
  BY DEF Merge
<1>3. /\ view'.rung = Rung(results)
      /\ view'.features = fs /\ view'.skills = ss /\ view'.members = ms
  BY <1>2
<1>4. /\ fs \in SetToSeqs({ShownFeature(k) : k \in DOMAIN features})
      /\ ss \in SetToSeqs(Range(skills)) /\ ms \in SetToSeqs(Range(members))
  BY <1>2 DEF Sorted
<1>5. /\ \A f \in Range(fs) : f \in {ShownFeature(k) : k \in DOMAIN features}
      /\ \A x \in Range(ss) : x \in Range(skills)
      /\ \A m \in Range(ms) : m \in Range(members)
  BY <1>1, <1>4
<1>6. \A x \in Range(ss) : \E k \in DOMAIN skills : x = skills[k]
  BY <1>5 DEF Range
<1>7. \A m \in Range(ms) : \E k \in DOMAIN members : m = members[k]
  BY <1>5 DEF Range
<1>8. results' = results /\ CurrentDone
  BY DEF Merge
<1>9. QED
  BY <1>3, <1>5, <1>6, <1>7, <1>8

(* What is seen in the end is what was said. *)
LEMMA SeenInTheEnd ==
  ASSUME Inv, CurrentDone, NEW t \in Tools
  PROVE  /\ \A p \in Seen(t) : \E i \in DOMAIN results : \E j \in DOMAIN results[i][t] :
                                 p[1] = results[i] /\ p[2] = results[i][t][j]
         /\ \A i \in DOMAIN results : \A j \in DOMAIN results[i][t] :
              \E p \in Seen(t) : p[1] = results[i] /\ p[2] = results[i][t][j]
<1>1. ASSUME NEW p \in Seen(t)
      PROVE  \E i \in DOMAIN results : \E j \in DOMAIN results[i][t] :
               p[1] = results[i] /\ p[2] = results[i][t][j]
  BY <1>1, SeenIs DEF Inv
<1>2. ASSUME NEW i \in DOMAIN results, NEW j \in DOMAIN results[i][t]
      PROVE  \E p \in Seen(t) : p[1] = results[i] /\ p[2] = results[i][t][j]
  <2>1. i < Len(results) \/ j <= at[t]
    BY AllSeen
  <2>2. <<results[i], results[i][t][j]>> \in Seen(t)
    BY <2>1 DEF Seen
  <2>3. QED
    BY <2>2
<1>3. QED
  BY <1>1, <1>2

LEMMA CertifiersSeen ==
  ASSUME Inv, CurrentDone, NEW k
  PROVE  /\ \A i \in Certifiers(k) : \E p \in Seen("features") :
              p[1] = results[i] /\ p[2].key = k /\ p[2].certified
         /\ \A p \in Seen("features") : p[2].key = k /\ p[2].certified =>
              \E i \in Certifiers(k) : p[1] = results[i]
<1>0. "features" \in Tools
  BY DEF Tools
<1>1. ASSUME NEW i \in Certifiers(k)
      PROVE  \E p \in Seen("features") : p[1] = results[i] /\ p[2].key = k /\ p[2].certified
  <2>1. i \in DOMAIN results
    BY <1>1 DEF Certifiers
  <2>2. PICK j \in DOMAIN results[i].features :
          results[i].features[j].key = k /\ results[i].features[j].certified
    BY <1>1 DEF Certifiers, Certifies, Has
  <2>3. QED
    BY <1>0, <2>1, <2>2, SeenInTheEnd
<1>2. ASSUME NEW p \in Seen("features"), p[2].key = k, p[2].certified
      PROVE  \E i \in Certifiers(k) : p[1] = results[i]
  <2>1. PICK i \in DOMAIN results : \E j \in DOMAIN results[i].features :
          p[1] = results[i] /\ p[2] = results[i].features[j]
    BY <1>0, <1>2, SeenInTheEnd
  <2>2. i \in Certifiers(k)
    BY <1>2, <2>1 DEF Certifiers, Certifies, Has
  <2>3. QED
    BY <2>1, <2>2
<1>3. QED
  BY <1>1, <1>2

LEMMA SaidSeen ==
  ASSUME Inv, CurrentDone, NEW t \in Tools, NEW k
  PROVE  /\ \A e \in Said(t, k) : e.key = k /\ \E p \in Seen(t) : p[2] = e
         /\ \A p \in Seen(t) : p[2].key = k => p[2] \in Said(t, k)
<1>1. ASSUME NEW e \in Said(t, k) PROVE e.key = k /\ \E p \in Seen(t) : p[2] = e
  <2>1. PICK i \in DOMAIN results : e \in Range(results[i][t]) /\ e.key = k
    BY <1>1 DEF Said, Range
  <2>2. PICK j \in DOMAIN results[i][t] : e = results[i][t][j]
    BY <2>1 DEF Range
  <2>3. QED
    BY <2>1, <2>2, SeenInTheEnd
<1>2. ASSUME NEW p \in Seen(t), p[2].key = k PROVE p[2] \in Said(t, k)
  <2>1. PICK i \in DOMAIN results : \E j \in DOMAIN results[i][t] :
          p[1] = results[i] /\ p[2] = results[i][t][j]
    BY <1>2, SeenInTheEnd
  <2>2. results[i] \in Range(results) /\ p[2] \in Range(results[i][t])
    BY <2>1 DEF Range
  <2>3. QED
    BY <1>2, <2>2 DEF Said
<1>3. QED
  BY <1>1, <1>2

(* The feature map at the end of the loop. *)
LEMMA FeatureInTheEnd ==
  ASSUME Inv, NEW k \in DOMAIN features
  PROVE  /\ FeatureOf(features[k], Seen("features"), k)
         /\ ShownFeature(k).key = k
         /\ ShownFeature(k).certified = features[k].certified
         /\ ShownFeature(k).isotope = features[k].isotope
         /\ ShownFeature(k).member = features[k].member
         /\ ShownFeature(k).demo <=> features[k].certified /\ k \in byDemo /\ k \notin byReal
         /\ ShownFeature(k).sources = IF features[k].certified
                                      THEN orderSources(features[k].sources, k)
                                      ELSE features[k].sources
<1>1. FeatureOf(features[k], Seen("features"), k)
  BY DEF Inv, MapsAgree, FeaturesOf
<1>2. QED
  BY <1>1 DEF ShownFeature

(* The properties speak of the results, which merge's last step leaves. *)
LEMMA SaidStays ==
  ASSUME results' = results
  PROVE  /\ \A t, k : Said(t, k)' = Said(t, k)
         /\ \A k : Certifiers(k)' = Certifiers(k)
<1>1. \A t, k : Said(t, k)' = Said(t, k)
  BY DEF Said
<1>2. \A k : Certifiers(k)' = Certifiers(k)
  BY DEF Certifiers
<1>3. QED
  BY <1>1, <1>2

-----------------------------------------------------------------------------
(* The theorems. *)

(* The maps hold the names reported so far, each under its own key, and     *)
(* every certificate is counted, as real or demo (merge).                   *)
THEOREM TypeCorrect == Spec => []TypeOK
<1>1. Inv => TypeOK
  <2> SUFFICES ASSUME Inv PROVE TypeOK
    OBVIOUS
  <2>1. results \in Seq(SourceResults)
    BY DEF Inv, Typed
  <2>2. /\ \A k \in DOMAIN features : features[k].key = k
        /\ \A k \in DOMAIN skills : skills[k].key = k
        /\ \A k \in DOMAIN members : members[k].key = k
    BY DEF Inv, MapsAgree, FeaturesOf, SkillsOf, MembersOf, FeatureOf, SkillOf, MemberOf
  <2>3. ASSUME NEW k \in byReal \cup byDemo
        PROVE  k \in DOMAIN features /\ features[k].certified
    <3>1. PICK p \in Seen("features") : p[2].key = k /\ p[2].certified
      BY <2>3 DEF Inv, MapsAgree, VotesOf
    <3>2. k \in Keys(Seen("features"))
      BY <3>1 DEF Keys
    <3>3. QED
      BY <3>1, <3>2 DEF Inv, MapsAgree, FeaturesOf, FeatureOf
  <2>4. ASSUME NEW k \in DOMAIN features, features[k].certified
        PROVE  k \in byReal \cup byDemo
    <3>1. PICK p \in Seen("features") : p[2].key = k /\ p[2].certified
      BY <2>4 DEF Inv, MapsAgree, FeaturesOf, FeatureOf
    <3>2. p[1].demo \in BOOLEAN
      BY <3>1, SeenTypes DEF Inv, SourceResults
    <3>3. QED
      BY <3>1, <3>2 DEF Inv, MapsAgree, VotesOf
  <2>5. QED
    BY <2>1, <2>2, <2>3, <2>4 DEF TypeOK
<1>2. QED
  BY <1>1, InvInit, InvNext, PTL DEF Spec

LEMMA MergedNotLaundered ==
  ASSUME Inv, CurrentDone, NEW k \in DOMAIN features
  PROVE  /\ ShownFeature(k).certified <=> Certifiers(k) # {}
         /\ ShownFeature(k).demo <=>
              /\ Certifiers(k) # {}
              /\ \A i \in Certifiers(k) :
                   \/ results[i].demo
                   \/ Has(results[i].members, LAMBDA m : m.mode = "demo")
                   \/ Has(results[i].features, LAMBDA e : e.stale)
<1>1. ShownFeature(k).certified <=> Certifiers(k) # {}
  BY FeatureInTheEnd, CertifiersSeen DEF FeatureOf
<1>2. \A i \in Certifiers(k) :
        /\ i \in DOMAIN results /\ results[i].demo \in BOOLEAN
        /\ \/ Has(results[i].members, LAMBDA m : m.mode = "demo")
           \/ Has(results[i].features, LAMBDA e : e.stale)
           => results[i].demo
  BY ResultTypes DEF Certifiers, Inv, Evidenced, EvidenceOf
<1>3. k \in byReal <=> \E i \in Certifiers(k) : results[i].demo = FALSE
  <2>1. VotesOf(byReal, Seen("features"), FALSE)
    BY DEF Inv, MapsAgree
  <2>2. ASSUME k \in byReal PROVE \E i \in Certifiers(k) : results[i].demo = FALSE
    <3>1. PICK p \in Seen("features") : p[2].key = k /\ p[2].certified /\ p[1].demo = FALSE
      BY <2>1, <2>2 DEF VotesOf
    <3>2. QED
      BY <3>1, CertifiersSeen
  <2>3. ASSUME NEW i \in Certifiers(k), results[i].demo = FALSE PROVE k \in byReal
    <3>1. PICK p \in Seen("features") :
            p[1] = results[i] /\ p[2].key = k /\ p[2].certified
      BY CertifiersSeen
    <3>2. QED
      BY <2>1, <2>3, <3>1 DEF VotesOf
  <2>4. QED
    BY <2>2, <2>3
<1>4. k \in byDemo <=> \E i \in Certifiers(k) : results[i].demo = TRUE
  <2>1. VotesOf(byDemo, Seen("features"), TRUE)
    BY DEF Inv, MapsAgree
  <2>2. ASSUME k \in byDemo PROVE \E i \in Certifiers(k) : results[i].demo = TRUE
    <3>1. PICK p \in Seen("features") : p[2].key = k /\ p[2].certified /\ p[1].demo = TRUE
      BY <2>1, <2>2 DEF VotesOf
    <3>2. QED
      BY <3>1, CertifiersSeen
  <2>3. ASSUME NEW i \in Certifiers(k), results[i].demo = TRUE PROVE k \in byDemo
    <3>1. PICK p \in Seen("features") :
            p[1] = results[i] /\ p[2].key = k /\ p[2].certified
      BY CertifiersSeen
    <3>2. QED
      BY <2>1, <2>3, <3>1 DEF VotesOf
  <2>4. QED
    BY <2>2, <2>3
<1>5. ShownFeature(k).demo <=> ShownFeature(k).certified /\ k \in byDemo /\ k \notin byReal
  BY FeatureInTheEnd
<1>6. ShownFeature(k).demo <=> Certifiers(k) # {} /\ \A i \in Certifiers(k) : results[i].demo
  BY <1>1, <1>2, <1>3, <1>4, <1>5
<1>7. QED
  BY <1>1, <1>2, <1>6

(* A feature is shown certified exactly if some source certifies it, and as *)
(* demo exactly if every source that does evidenced a demo cluster, in      *)
(* whichever of its answers (merge, demoEvidence).                          *)
THEOREM NothingLaundered == Spec => []NotLaundered
<1>1. Init => NotLaundered
  BY DEF Init, NotLaundered
<1>2. Inv /\ NotLaundered /\ [Next]_vars => NotLaundered'
  <2> SUFFICES ASSUME Inv, NotLaundered, [Next]_vars, view' # None PROVE NotLaundered'
    BY DEF NotLaundered
  <2>1. CASE view' = view /\ results' = results
    BY <2>1, SaidStays DEF NotLaundered, Has
  <2>2. CASE Merge
    <3> SUFFICES ASSUME NEW f \in Range(view'.features)
                 PROVE  /\ f.certified <=> Certifiers(f.key)' # {}
                        /\ f.demo <=> /\ Certifiers(f.key)' # {}
                                      /\ \A i \in Certifiers(f.key)' :
                                           \/ results'[i].demo
                                           \/ Has(results'[i].members, LAMBDA m : m.mode = "demo")
                                           \/ Has(results'[i].features, LAMBDA e : e.stale)
      BY DEF NotLaundered, Has
    <3>1. PICK k \in DOMAIN features : f = ShownFeature(k)
      BY <2>2, MergedView
    <3>2. results' = results /\ CurrentDone /\ f.key = k
      BY <2>2, <3>1, MergedView, FeatureInTheEnd
    <3>3. QED
      BY <3>1, <3>2, MergedNotLaundered, SaidStays
  <2>3. CASE view'.features = <<>>
    BY <2>3 DEF NotLaundered, Range
  <2>4. QED
    BY <2>1, <2>2, <2>3, ViewSteps
<1>3. QED
  BY <1>1, <1>2, InvInit, InvNext, PTL DEF Spec

LEMMA MergedReleasedTogether ==
  ASSUME Inv, CurrentDone, NEW k \in DOMAIN features
  PROVE  \E e \in Said("features", k) :
           /\ e.isotope = ShownFeature(k).isotope /\ e.member = ShownFeature(k).member
           /\ \A x \in Said("features", k) :
                x.isotope # None \/ x.member # None => featureTier(x) <= featureTier(e)
<1>0. "features" \in Tools
  BY DEF Tools
<1>1. PICK p \in Seen("features") :
        /\ p[2].key = k
        /\ p[2].isotope = features[k].isotope /\ p[2].member = features[k].member
  BY FeatureInTheEnd DEF FeatureOf
<1>2. p[2] \in Said("features", k)
  BY <1>0, <1>1, SaidSeen
<1>3. p[2].isotope = ShownFeature(k).isotope /\ p[2].member = ShownFeature(k).member
  BY <1>1, FeatureInTheEnd
<1>4. ASSUME NEW x \in Said("features", k), x.isotope # None \/ x.member # None
      PROVE  featureTier(x) <= featureTier(p[2])
  <2>1. PICK q \in Seen("features") : q[2] = x /\ x.key = k
    BY <1>0, <1>4, SaidSeen
  <2>2. Gated(x) <= Gated(features[k])
    BY <2>1, FeatureInTheEnd DEF FeatureOf
  <2>3. Gated(features[k]) = Gated(p[2])
    BY <1>1 DEF Gated
  <2>4. featureTier(x) = Gated(x)
    BY <1>4 DEF featureTier, Gated
  <2>5. Gated(p[2]) <= featureTier(p[2])
    BY DEF featureTier, Gated
  <2>6. Gated(x) \in Nat /\ Gated(p[2]) \in Nat /\ featureTier(p[2]) \in Nat
    BY DEF featureTier, Gated
  <2>7. QED
    BY <2>2, <2>3, <2>4, <2>5, <2>6
<1>5. QED
  BY <1>2, <1>3, <1>4

(* The gated fields a feature is shown with were released together by one   *)
(* source, and no source released more: what merge promises when it keeps   *)
(* "the most adhd released", without inventing a combination.               *)
THEOREM GatedFieldsReleasedTogether == Spec => []ReleasedTogether
<1>1. Init => ReleasedTogether
  BY DEF Init, ReleasedTogether
<1>2. Inv /\ ReleasedTogether /\ [Next]_vars => ReleasedTogether'
  <2> SUFFICES ASSUME Inv, ReleasedTogether, [Next]_vars, view' # None
               PROVE  ReleasedTogether'
    BY DEF ReleasedTogether
  <2>1. CASE view' = view /\ results' = results
    BY <2>1, SaidStays DEF ReleasedTogether
  <2>2. CASE Merge
    <3> SUFFICES ASSUME NEW f \in Range(view'.features)
                 PROVE  \E e \in Said("features", f.key)' :
                          /\ e.isotope = f.isotope /\ e.member = f.member
                          /\ \A x \in Said("features", f.key)' :
                               x.isotope # None \/ x.member # None
                                 => featureTier(x) <= featureTier(e)
      BY DEF ReleasedTogether
    <3>1. PICK k \in DOMAIN features : f = ShownFeature(k)
      BY <2>2, MergedView
    <3>2. results' = results /\ CurrentDone /\ f.key = k
      BY <2>2, <3>1, MergedView, FeatureInTheEnd
    <3>3. QED
      BY <3>1, <3>2, MergedReleasedTogether, SaidStays
  <2>3. CASE view'.features = <<>>
    BY <2>3 DEF ReleasedTogether, Range
  <2>4. QED
    BY <2>1, <2>2, <2>3, ViewSteps
<1>3. QED
  BY <1>1, <1>2, InvInit, InvNext, PTL DEF Spec

(* View.Rung is no lower than that of any source. *)
LEMMA RungIsHighest ==
  ASSUME Inv, NEW i \in DOMAIN results
  PROVE  Rung(results) \in Nat /\ Rung(results) >= results[i].rung
<1> DEFINE Of == [j \in DOMAIN results |-> results[j].rung]
           rungs == {r.rung : r \in Range(results)}
<1>1. IsFiniteSet(DOMAIN results)
  BY FS_Interval DEF Inv, Typed
<1>2. Of \in Surjection(DOMAIN results, rungs)
  BY DEF Surjection, Range
<1>3. IsFiniteSet(rungs)
  BY <1>1, <1>2, FS_Surjection
<1>4. rungs \in SUBSET Nat
  BY ResultTypes DEF Inv, Range
<1>5. results[i].rung \in rungs
  BY DEF Range
<1> HIDE DEF rungs
<1> DEFINE all == rungs \cup {0}
<1>6. IsFiniteSet(all)
  BY <1>3, FS_AddElement
<1>7. all \in SUBSET Nat /\ all # {} /\ results[i].rung \in all
  BY <1>4, <1>5
<1>8. Rung(results) = Max(all)
  BY DEF Rung, rungs
<1> HIDE DEF all
<1>9. Max(all) \in all /\ \A y \in all : y <= Max(all)
  BY <1>6, <1>7, MaxIsMaximum
<1>10. Max(all) \in Nat /\ results[i].rung \in Nat /\ results[i].rung <= Max(all)
  BY <1>7, <1>9
<1>11. QED
  BY <1>8, <1>10

LEMMA MergedRungCovers ==
  ASSUME Inv, CurrentDone
  PROVE  /\ \A k \in DOMAIN features : /\ ShownFeature(k).isotope # None => Rung(results) >= 2
                                       /\ ShownFeature(k).member # None => Rung(results) >= 3
         /\ \A k \in DOMAIN skills : /\ skills[k].distance # None => Rung(results) >= 2
                                     /\ skills[k].binding # None => Rung(results) >= 3
<1>0. "features" \in Tools /\ "skills" \in Tools
  BY DEF Tools
<1>1. \A i \in DOMAIN results : /\ Rung(results) \in Nat /\ results[i].rung \in Nat
                                /\ Rung(results) >= results[i].rung
  BY RungIsHighest, ResultTypes DEF Inv
<1>2. ASSUME NEW k \in DOMAIN features
      PROVE  /\ ShownFeature(k).isotope # None => Rung(results) >= 2
             /\ ShownFeature(k).member # None => Rung(results) >= 3
  <2>1. PICK p \in Seen("features") : p[2].isotope = features[k].isotope
                                      /\ p[2].member = features[k].member
    BY FeatureInTheEnd DEF FeatureOf
  <2>2. PICK i \in DOMAIN results : \E j \in DOMAIN results[i].features :
          p[2] = results[i].features[j]
    BY <1>0, SeenInTheEnd
  <2>3. /\ p[2].isotope # None => results[i].rung >= 2
        /\ p[2].member # None => results[i].rung >= 3
    BY <2>2 DEF Inv, Evidenced, EvidenceOf
  <2>4. QED
    BY <1>1, <2>1, <2>3, FeatureInTheEnd
<1>3. ASSUME NEW k \in DOMAIN skills
      PROVE  /\ skills[k].distance # None => Rung(results) >= 2
             /\ skills[k].binding # None => Rung(results) >= 3
  <2>1. PICK p \in Seen("skills") : p[2].distance = skills[k].distance
                                    /\ p[2].binding = skills[k].binding
    BY DEF Inv, MapsAgree, SkillsOf, SkillOf
  <2>2. PICK i \in DOMAIN results : \E j \in DOMAIN results[i].skills :
          p[2] = results[i].skills[j]
    BY <1>0, SeenInTheEnd
  <2>3. /\ p[2].distance # None => results[i].rung >= 2
        /\ p[2].binding # None => results[i].rung >= 3
    BY <2>2 DEF Inv, Evidenced, EvidenceOf
  <2>4. QED
    BY <1>1, <2>1, <2>3
<1>4. QED
  BY <1>2, <1>3

(* A gated field is shown under a rung of the view that covers it, whatever *)
(* the source it comes from and its place (merge, featureRungEvidence,      *)
(* skillRungEvidence).                                                      *)
THEOREM RungCovers == Spec => []RungCoversReleased
<1>1. Init => RungCoversReleased
  BY DEF Init, RungCoversReleased
<1>2. Inv /\ RungCoversReleased /\ [Next]_vars => RungCoversReleased'
  <2> SUFFICES ASSUME Inv, RungCoversReleased, [Next]_vars, view' # None
               PROVE  RungCoversReleased'
    BY DEF RungCoversReleased
  <2>1. CASE view' = view
    BY <2>1 DEF RungCoversReleased
  <2>2. CASE Merge
    <3>1. /\ CurrentDone /\ view'.rung = Rung(results)
          /\ \A f \in Range(view'.features) : \E k \in DOMAIN features : f = ShownFeature(k)
          /\ \A s \in Range(view'.skills) : \E k \in DOMAIN skills : s = skills[k]
      BY <2>2, MergedView
    <3>2. \A f \in Range(view'.features) : /\ f.isotope # None => view'.rung >= 2
                                           /\ f.member # None => view'.rung >= 3
      BY <3>1, MergedRungCovers
    <3>3. \A s \in Range(view'.skills) : /\ s.distance # None => view'.rung >= 2
                                         /\ s.binding # None => view'.rung >= 3
      BY <3>1, MergedRungCovers
    <3>4. QED
      BY <3>2, <3>3 DEF RungCoversReleased
  <2>3. CASE view'.features = <<>> /\ view'.skills = <<>>
    BY <2>3 DEF RungCoversReleased, Range
  <2>4. QED
    BY <2>1, <2>2, <2>3, ViewSteps
<1>3. QED
  BY <1>1, <1>2, InvInit, InvNext, PTL DEF Spec

LEMMA MergedDemoWins ==
  ASSUME Inv, CurrentDone, NEW k \in DOMAIN members
  PROVE  /\ members[k].key = k
         /\ members[k].mode = "demo" <=> \E e \in Said("members", k) : e.mode = "demo"
         /\ \A e \in Said("members", k) : Larger(members[k].trust, e.trust) = members[k].trust
<1>0. "members" \in Tools
  BY DEF Tools
<1>1. MemberOf(members[k], Seen("members"), k)
  BY DEF Inv, MapsAgree, MembersOf
<1>2. ASSUME NEW e \in Said("members", k)
      PROVE  \E p \in Seen("members") : p[2] = e /\ e.key = k
  BY <1>0, <1>2, SaidSeen
<1>3. ASSUME NEW p \in Seen("members"), p[2].key = k PROVE p[2] \in Said("members", k)
  BY <1>0, <1>3, SaidSeen
<1>4. QED
  BY <1>1, <1>2, <1>3 DEF MemberOf

LEMMA MergedBestWins ==
  ASSUME Inv, CurrentDone, NEW k \in DOMAIN skills
  PROVE  LET said == Said("skills", k)
             top  == {e \in said : \A x \in said : x.rung <= e.rung}
         IN /\ skills[k].key = k
            /\ \E e \in top : /\ skills[k].rung = e.rung /\ skills[k].distance = e.distance
                              /\ skills[k].binding = e.binding
            /\ \A e \in top : Larger(skills[k].failures, e.failures) = skills[k].failures
<1> DEFINE said == Said("skills", k)
           top  == {e \in said : \A x \in said : x.rung <= e.rung}
<1>0. "skills" \in Tools
  BY DEF Tools
<1>1. SkillOf(skills[k], Seen("skills"), k)
  BY DEF Inv, MapsAgree, SkillsOf
<1>2. ASSUME NEW e \in said
      PROVE  e.rung \in Nat /\ \E p \in Seen("skills") : p[2] = e /\ e.key = k
  <2>1. PICK p \in Seen("skills") : p[2] = e /\ e.key = k
    BY <1>0, <1>2, SaidSeen
  <2>2. e \in Skill(Nat)
    BY <2>1, SeenTypes DEF Inv
  <2>3. QED
    BY <2>1, <2>2 DEF Skill
<1>3. ASSUME NEW p \in Seen("skills"), p[2].key = k PROVE p[2] \in said
  BY <1>0, <1>3, SaidSeen
<1>4. PICK p \in Seen("skills") : /\ p[2].key = k /\ p[2].rung = skills[k].rung
                                  /\ p[2].distance = skills[k].distance
                                  /\ p[2].binding = skills[k].binding
  BY <1>1 DEF SkillOf
<1>5. \A x \in said : x.rung <= skills[k].rung
  BY <1>1, <1>2 DEF SkillOf
<1>6. p[2] \in said /\ p[2] \in top
  BY <1>3, <1>4, <1>5
<1>7. ASSUME NEW e \in top PROVE Larger(skills[k].failures, e.failures) = skills[k].failures
  <2>1. e.rung = skills[k].rung
    BY <1>2, <1>4, <1>5, <1>6
  <2>2. QED
    BY <1>1, <1>2, <2>1 DEF SkillOf
<1>8. skills[k].key = k
  BY <1>1 DEF SkillOf
<1>9. QED
  BY <1>4, <1>6, <1>7, <1>8

(* Whichever source comes first, a member is shown in demo mode exactly if  *)
(* some source said so and with the highest trust rung reported, and a      *)
(* skill as one source of the highest rung reported it, with no fewer       *)
(* variation failures than any of that rung (merge).                        *)
THEOREM DemoAndBestAlwaysWin == Spec => []DemoAndBestWin
<1>1. Init => DemoAndBestWin
  BY DEF Init, DemoAndBestWin
<1>2. Inv /\ DemoAndBestWin /\ [Next]_vars => DemoAndBestWin'
  <2> SUFFICES ASSUME Inv, DemoAndBestWin, [Next]_vars, view' # None PROVE DemoAndBestWin'
    BY DEF DemoAndBestWin
  <2>1. CASE view' = view /\ results' = results
    BY <2>1, SaidStays DEF DemoAndBestWin
  <2>2. CASE Merge
    <3>1. results' = results /\ CurrentDone
      BY <2>2, MergedView
    <3>2. \A t, k : Said(t, k)' = Said(t, k)
      BY <3>1, SaidStays
    <3>3. ASSUME NEW m \in Range(view'.members)
          PROVE  /\ m.mode = "demo" <=> \E e \in Said("members", m.key) : e.mode = "demo"
                 /\ \A e \in Said("members", m.key) : Larger(m.trust, e.trust) = m.trust
      <4>1. PICK k \in DOMAIN members : m = members[k]
        BY <2>2, <3>3, MergedView
      <4>2. QED
        BY <3>1, <4>1, MergedDemoWins
    <3>4. ASSUME NEW s \in Range(view'.skills)
          PROVE  LET said == Said("skills", s.key)
                     top  == {e \in said : \A x \in said : x.rung <= e.rung}
                 IN /\ \E e \in top : /\ s.rung = e.rung /\ s.distance = e.distance
                                      /\ s.binding = e.binding
                    /\ \A e \in top : Larger(s.failures, e.failures) = s.failures
      <4>1. PICK k \in DOMAIN skills : s = skills[k]
        BY <2>2, <3>4, MergedView
      <4>2. QED
        BY <3>1, <4>1, MergedBestWins
    <3>5. QED
      BY <3>2, <3>3, <3>4 DEF DemoAndBestWin
  <2>3. CASE view'.skills = <<>> /\ view'.members = <<>>
    BY <2>3 DEF DemoAndBestWin, Range
  <2>4. QED
    BY <2>1, <2>2, <2>3, ViewSteps
<1>3. QED
  BY <1>1, <1>2, InvInit, InvNext, PTL DEF Spec

(* The positions of a subsequence, each once. *)
Enumerates(s, I) ==
  \E n \in Nat : \E e \in [1 .. n -> I] :
    /\ \A x \in I : \E i \in 1 .. n : e[i] = x
    /\ \A i, j \in 1 .. n : e[i] = e[j] => i = j
    /\ Subsequence(s, I) = [i \in 1 .. n |-> s[e[i]]]

LEMMA SubsequenceEnumerates ==
  ASSUME NEW T, NEW s \in Seq(T), NEW I \in SUBSET DOMAIN s
  PROVE  Enumerates(s, I)
<1>1. PICK n \in Nat : \E e \in [1 .. n -> I] :
        /\ Increasing(e, n)
        /\ \A x \in I : \E i \in 1 .. n : e[i] = x
        /\ Subsequence(s, I) = [i \in 1 .. n |-> s[e[i]]]
  BY SubsequenceIs
<1>2. PICK e \in [1 .. n -> I] : /\ Increasing(e, n)
                                 /\ \A x \in I : \E i \in 1 .. n : e[i] = x
                                 /\ Subsequence(s, I) = [i \in 1 .. n |-> s[e[i]]]
  BY <1>1
<1>3. \A i \in 1 .. n : e[i] \in Nat
  BY <1>2
<1>4. ASSUME NEW i \in 1 .. n, NEW j \in 1 .. n, e[i] = e[j] PROVE i = j
  <2>1. ~(i < j) /\ ~(j < i)
    BY <1>2, <1>3, <1>4 DEF Increasing
  <2>2. QED
    BY <2>1
<1>5. QED
  BY <1>2, <1>4 DEF Enumerates

(* One sequence before another that shares no element with it. *)
LEMMA TwoParts ==
  ASSUME NEW a \in Seq(Nat), NEW b \in Seq(Nat), Range(b) \cap Range(a) = {}
  PROVE  /\ Range(a \o b) = Range(a) \cup Range(b)
         /\ \A i, j \in DOMAIN (a \o b) :
              i < j /\ (a \o b)[j] \in Range(a) => (a \o b)[i] \in Range(a)
         /\ IsInjective(a) /\ IsInjective(b) => IsInjective(a \o b)
<1> DEFINE c == a \o b
<1>1. /\ Len(a) \in Nat /\ Len(b) \in Nat
      /\ DOMAIN a = 1 .. Len(a) /\ DOMAIN b = 1 .. Len(b)
      /\ DOMAIN c = 1 .. (Len(a) + Len(b))
  OBVIOUS
<1>2. \A i \in DOMAIN a : i \in DOMAIN c /\ c[i] = a[i]
  BY <1>1
<1>3. \A i \in DOMAIN b : Len(a) + i \in DOMAIN c /\ c[Len(a) + i] = b[i]
  BY <1>1
<1>4. \A i \in DOMAIN c : \/ i \in DOMAIN a
                          \/ i - Len(a) \in DOMAIN b /\ i = Len(a) + (i - Len(a))
  BY <1>1
<1>5. \A i \in DOMAIN c : \/ i \in DOMAIN a /\ c[i] = a[i]
                          \/ /\ i - Len(a) \in DOMAIN b /\ c[i] = b[i - Len(a)]
                             /\ i > Len(a)
  BY <1>1, <1>2, <1>3, <1>4
<1> HIDE DEF c
<1>6. \A i \in DOMAIN c : \/ i \in DOMAIN a /\ c[i] = a[i] /\ c[i] \in Range(a)
                          \/ /\ i - Len(a) \in DOMAIN b /\ c[i] = b[i - Len(a)]
                             /\ c[i] \in Range(b) /\ i > Len(a)
  BY <1>5 DEF Range
<1>7. Range(c) = Range(a) \cup Range(b)
  <2>1. \A x \in Range(c) : x \in Range(a) \cup Range(b)
    BY <1>6 DEF Range
  <2>2. \A x \in Range(a) : x \in Range(c)
    BY <1>2 DEF Range
  <2>3. \A x \in Range(b) : x \in Range(c)
    BY <1>3 DEF Range
  <2>4. QED
    BY <2>1, <2>2, <2>3
<1>8. ASSUME NEW i \in DOMAIN c, NEW j \in DOMAIN c, i < j, c[j] \in Range(a)
      PROVE  c[i] \in Range(a)
  <2>1. j \in DOMAIN a
    BY <1>6, <1>8
  <2>2. i \in DOMAIN a
    BY <1>1, <1>8, <2>1
  <2>3. QED
    BY <1>2, <2>2 DEF Range
<1>9. ASSUME IsInjective(a), IsInjective(b) PROVE IsInjective(c)
  <2> SUFFICES ASSUME NEW i \in DOMAIN c, NEW j \in DOMAIN c, c[i] = c[j] PROVE i = j
    BY DEF IsInjective
  <2>1. CASE c[i] \in Range(a)
    <3>1. i \in DOMAIN a /\ c[i] = a[i] /\ j \in DOMAIN a /\ c[j] = a[j]
      BY <1>6, <2>1
    <3>2. QED
      BY <1>9, <3>1 DEF IsInjective
  <2>2. CASE c[i] \notin Range(a)
    <3>1. /\ i - Len(a) \in DOMAIN b /\ c[i] = b[i - Len(a)]
          /\ j - Len(a) \in DOMAIN b /\ c[j] = b[j - Len(a)]
      BY <1>6, <2>2
    <3>2. i - Len(a) = j - Len(a)
      BY <1>9, <3>1 DEF IsInjective
    <3>3. QED
      BY <1>1, <3>2
  <2>3. QED
    BY <2>1, <2>2
<1>10. QED
  BY <1>7, <1>8, <1>9 DEF c

LEMMA InContains ==
  ASSUME NEW T, NEW s \in Seq(T), NEW x
  PROVE  Contains(s, x) <=> x \in Range(s)
BY DEF Contains, Range

(* The sources that certify a feature are named first in its trail. *)
LEMMA CertifyingFirstIs ==
  ASSUME Inv, CurrentDone, NEW k \in DOMAIN features
  PROVE  LET first == CertifyingFirst(features[k].sources, k)
         IN /\ first \in Seq(Nat)
            /\ Range(first) = {results[i].instance : i \in Certifiers(k)}
            /\ IsInjective([i \in DOMAIN results |-> results[i].instance])
                 => IsInjective(first)
<1> DEFINE trail == features[k].sources
           I == {i \in DOMAIN results : /\ Certifies(results[i], k)
                                        /\ Contains(trail, results[i].instance)}
           first == CertifyingFirst(trail, k)
<1>1. TrailOf(trail, Seen("features"), k) /\ trail \in Seq(Nat)
  BY FeatureInTheEnd DEF FeatureOf, Feature
<1>2. \A i \in Certifiers(k) : i \in DOMAIN results /\ results[i].instance \in Range(trail)
  BY <1>1, CertifiersSeen DEF TrailOf, Certifiers
<1>3. I = Certifiers(k)
  BY <1>1, <1>2, InContains DEF Certifiers
<1>4. results \in Seq(SourceResults) /\ I \in SUBSET DOMAIN results
  BY DEF Inv, Typed
<1> HIDE DEF I
<1>0. Enumerates(results, I)
  BY <1>4, SubsequenceEnumerates
<1>5. PICK n \in Nat : \E e \in [1 .. n -> I] :
        /\ \A x \in I : \E i \in 1 .. n : e[i] = x
        /\ \A i, j \in 1 .. n : e[i] = e[j] => i = j
        /\ Subsequence(results, I) = [i \in 1 .. n |-> results[e[i]]]
  BY <1>0 DEF Enumerates
<1>6. PICK e \in [1 .. n -> I] :
        /\ \A x \in I : \E i \in 1 .. n : e[i] = x
        /\ \A i, j \in 1 .. n : e[i] = e[j] => i = j
        /\ Subsequence(results, I) = [i \in 1 .. n |-> results[e[i]]]
  BY <1>5
<1>7. first = [i \in 1 .. n |-> results[e[i]].instance]
  <2>1. first = [i \in DOMAIN Subsequence(results, I) |-> Subsequence(results, I)[i].instance]
    BY DEF CertifyingFirst, I
  <2>2. QED
    BY <1>6, <2>1
<1>8. \A i \in 1 .. n : e[i] \in DOMAIN results /\ results[e[i]].instance \in Nat
  BY <1>4, <1>6, ResultTypes DEF Inv
<1> HIDE DEF first
<1>9. first \in Seq(Nat)
  BY <1>7, <1>8
<1>10. Range(first) = {results[i].instance : i \in Certifiers(k)}
  <2>1. \A x \in Range(first) : x \in {results[i].instance : i \in I}
    BY <1>6, <1>7 DEF Range
  <2>2. \A x \in {results[i].instance : i \in I} : x \in Range(first)
    BY <1>6, <1>7 DEF Range
  <2>3. QED
    BY <1>3, <2>1, <2>2
<1>11. ASSUME IsInjective([i \in DOMAIN results |-> results[i].instance])
       PROVE  IsInjective(first)
  <2> SUFFICES ASSUME NEW i \in 1 .. n, NEW j \in 1 .. n, first[i] = first[j] PROVE i = j
    BY <1>7 DEF IsInjective
  <2>1. e[i] = e[j]
    BY <1>4, <1>7, <1>8, <1>11 DEF IsInjective
  <2>2. QED
    BY <1>6, <2>1
<1>12. QED
  BY <1>9, <1>10, <1>11 DEF first

(* The others after them. *)
LEMMA OthersIs ==
  ASSUME NEW trail \in Seq(Nat), IsInjective(trail), NEW first \in Seq(Nat)
  PROVE  /\ Others(trail, first) \in Seq(Nat)
         /\ Range(Others(trail, first)) = Range(trail) \ Range(first)
         /\ IsInjective(Others(trail, first))
<1> DEFINE I == {i \in DOMAIN trail : ~Contains(first, trail[i])}
<1>1. I \in SUBSET DOMAIN trail
  OBVIOUS
<1>2. Others(trail, first) = Subsequence(trail, I)
  BY DEF Others
<1>3. \A i \in DOMAIN trail : i \in I <=> trail[i] \notin Range(first)
  BY InContains
<1> HIDE DEF I
<1>4. /\ Subsequence(trail, I) \in Seq(Nat)
      /\ Range(Subsequence(trail, I)) = {trail[i] : i \in I}
  BY <1>1, SubsequenceType
<1>5. {trail[i] : i \in I} = Range(trail) \ Range(first)
  BY <1>1, <1>3 DEF Range
<1>0. Enumerates(trail, I)
  BY <1>1, SubsequenceEnumerates
<1>6. PICK n \in Nat : \E e \in [1 .. n -> I] :
        /\ \A x \in I : \E i \in 1 .. n : e[i] = x
        /\ \A i, j \in 1 .. n : e[i] = e[j] => i = j
        /\ Subsequence(trail, I) = [i \in 1 .. n |-> trail[e[i]]]
  BY <1>0 DEF Enumerates
<1>7. PICK e \in [1 .. n -> I] :
        /\ \A i, j \in 1 .. n : e[i] = e[j] => i = j
        /\ Subsequence(trail, I) = [i \in 1 .. n |-> trail[e[i]]]
  BY <1>6
<1>8. IsInjective(Subsequence(trail, I))
  BY <1>1, <1>7 DEF IsInjective
<1>9. QED
  BY <1>2, <1>4, <1>5, <1>8

(* The instances that reported feature k. *)
Reporters(k) ==
  {r.instance : r \in {r \in Range(results) : Has(r.features, LAMBDA e : e.key = k)}}

LEMMA TrailNamesReporters ==
  ASSUME Inv, CurrentDone, NEW k \in DOMAIN features
  PROVE  Range(features[k].sources) = Reporters(k)
<1>0. "features" \in Tools
  BY DEF Tools
<1>1. TrailOf(features[k].sources, Seen("features"), k)
  BY FeatureInTheEnd DEF FeatureOf
<1>2. ASSUME NEW x \in Range(features[k].sources) PROVE x \in Reporters(k)
  <2>1. PICK p \in Seen("features") : p[2].key = k /\ p[1].instance = x
    BY <1>1, <1>2 DEF TrailOf
  <2>2. PICK i \in DOMAIN results : \E j \in DOMAIN results[i].features :
          p[1] = results[i] /\ p[2] = results[i].features[j]
    BY <1>0, SeenInTheEnd
  <2>3. results[i] \in Range(results) /\ Has(results[i].features, LAMBDA e : e.key = k)
    BY <2>1, <2>2 DEF Range, Has
  <2>4. QED
    BY <2>1, <2>2, <2>3 DEF Reporters
<1>3. ASSUME NEW x \in Reporters(k) PROVE x \in Range(features[k].sources)
  <2>1. PICK r \in Range(results) : x = r.instance /\ Has(r.features, LAMBDA e : e.key = k)
    BY <1>3 DEF Reporters
  <2>2. PICK i \in DOMAIN results : r = results[i]
    BY DEF Range
  <2>3. PICK j \in DOMAIN results[i].features : results[i].features[j].key = k
    BY <2>1, <2>2 DEF Has
  <2>4. PICK p \in Seen("features") : p[1] = results[i] /\ p[2] = results[i].features[j]
    BY <1>0, SeenInTheEnd
  <2>5. QED
    BY <1>1, <2>1, <2>2, <2>3, <2>4 DEF TrailOf
<1>4. QED
  BY <1>2, <1>3

LEMMA MergedTrail ==
  ASSUME Inv, CurrentDone, NEW k \in DOMAIN features
  PROVE  LET trail == ShownFeature(k).sources
             certifying == {results[i].instance : i \in Certifiers(k)}
         IN /\ Range(trail) = Reporters(k)
            /\ \A i, j \in DOMAIN trail :
                 i < j /\ trail[j] \in certifying => trail[i] \in certifying
            /\ IsInjective([i \in DOMAIN results |-> results[i].instance])
                 => IsInjective(trail)
<1> DEFINE trail == features[k].sources
           certifying == {results[i].instance : i \in Certifiers(k)}
           first == CertifyingFirst(trail, k)
           others == Others(trail, first)
<1>1. trail \in Seq(Nat) /\ IsInjective(trail) /\ Range(trail) = Reporters(k)
  BY FeatureInTheEnd, TrailNamesReporters DEF FeatureOf, Feature, TrailOf
<1>2. /\ first \in Seq(Nat) /\ Range(first) = certifying
      /\ IsInjective([i \in DOMAIN results |-> results[i].instance]) => IsInjective(first)
  BY CertifyingFirstIs
<1>3. \A x \in certifying : x \in Range(trail)
  <2>1. TrailOf(trail, Seen("features"), k)
    BY FeatureInTheEnd DEF FeatureOf
  <2>2. QED
    BY <2>1, CertifiersSeen DEF TrailOf
<1> HIDE DEF first, certifying, trail
<1>4. /\ others \in Seq(Nat) /\ Range(others) = Range(trail) \ certifying
      /\ IsInjective(others)
  BY <1>1, <1>2, OthersIs
<1> HIDE DEF others
<1>5. CASE features[k].certified
  <2>1. ShownFeature(k).sources = first \o others
    BY <1>5, FeatureInTheEnd DEF orderSources, first, others, trail
  <2>2. Range(others) \cap Range(first) = {}
    BY <1>2, <1>4
  <2>3. /\ Range(first \o others) = Range(first) \cup Range(others)
        /\ \A i, j \in DOMAIN (first \o others) :
             i < j /\ (first \o others)[j] \in Range(first)
               => (first \o others)[i] \in Range(first)
        /\ IsInjective(first) /\ IsInjective(others) => IsInjective(first \o others)
    BY <1>2, <1>4, <2>2, TwoParts
  <2>4. Range(first \o others) = Reporters(k)
    BY <1>1, <1>2, <1>3, <1>4, <2>3
  <2>5. QED
    BY <1>2, <1>4, <2>1, <2>3, <2>4 DEF certifying
<1>6. CASE ~features[k].certified
  <2>1. ShownFeature(k).sources = trail
    BY <1>6, FeatureInTheEnd DEF trail
  <2>2. Certifiers(k) = {}
    BY <1>6, FeatureInTheEnd, MergedNotLaundered
  <2>3. QED
    BY <1>1, <2>1, <2>2
<1>7. QED
  BY <1>5, <1>6

(* The trail of a feature names exactly the instances that reported it, one *)
(* that certifies it before one that does not, and each once unless sources *)
(* share a name (merge, orderSources).                                      *)
THEOREM TrailsCertifyingFirst == Spec => []TrailCertifyingFirst
<1>1. Init => TrailCertifyingFirst
  BY DEF Init, TrailCertifyingFirst
<1>2. Inv /\ TrailCertifyingFirst /\ [Next]_vars => TrailCertifyingFirst'
  <2> SUFFICES ASSUME Inv, TrailCertifyingFirst, [Next]_vars, view' # None
               PROVE  TrailCertifyingFirst'
    BY DEF TrailCertifyingFirst
  <2>1. CASE view' = view /\ results' = results
    BY <2>1, SaidStays DEF TrailCertifyingFirst, Has
  <2>2. CASE Merge
    <3>1. results' = results /\ CurrentDone
      BY <2>2, MergedView
    <3>2. \A k : Certifiers(k)' = Certifiers(k)
      BY <3>1, SaidStays
    <3>3. ASSUME NEW f \in Range(view'.features)
          PROVE  LET reporters == {r \in Range(results) :
                                     Has(r.features, LAMBDA e : e.key = f.key)}
                     certifying == {results[i].instance : i \in Certifiers(f.key)}
                 IN /\ Range(f.sources) = {r.instance : r \in reporters}
                    /\ \A i, j \in DOMAIN f.sources :
                         i < j /\ f.sources[j] \in certifying => f.sources[i] \in certifying
                    /\ IsInjective([i \in DOMAIN results |-> results[i].instance])
                         => IsInjective(f.sources)
      <4>1. PICK k \in DOMAIN features : f = ShownFeature(k)
        BY <2>2, <3>3, MergedView
      <4>2. f.key = k
        BY <4>1, FeatureInTheEnd
      <4>3. QED
        BY <3>1, <4>1, <4>2, MergedTrail DEF Reporters
    <3>4. QED
      BY <3>1, <3>2, <3>3 DEF TrailCertifyingFirst, Has
  <2>3. CASE view'.features = <<>>
    BY <2>3 DEF TrailCertifyingFirst, Range
  <2>4. QED
    BY <2>1, <2>2, <2>3, ViewSteps
<1>3. QED
  BY <1>1, <1>2, InvInit, InvNext, PTL DEF Spec
=============================================================================
