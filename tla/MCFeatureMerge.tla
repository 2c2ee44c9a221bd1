--------------------------- MODULE MCFeatureMerge ---------------------------
(* FeatureMerge for TLC: sources that differ in the features, the skills or *)
(* the members they report.                                                 *)
EXTENDS FeatureMerge

(* Two hosts that share a label; one without a label. *)
MCFound ==
  {{}, {[host |-> 1, label |-> 5], [host |-> 2, label |-> 5], [host |-> 3, label |-> None]}}

(* One endpoint written in two ways, one empty, one with a path. *)
MCConfigured ==
  {<<>>, <<[url |-> [host |-> 1, path |-> None], name |-> 6],
           [url |-> None, name |-> 7],
           [url |-> [host |-> 1, path |-> "/"], name |-> None],
           [url |-> [host |-> 2, path |-> "/x"], name |-> None]>>}

Served(fs, ss, ms) ==
  [state |-> "served", rung |-> 0, unverified |-> 0, plaintext |-> FALSE,
   features |-> fs, skills |-> ss, members |-> ms]

(* An instance without the tools, and one that does not answer. *)
Silent == {[Served(<<>>, <<>>, <<>>) EXCEPT !.state = s] :
             s \in {"declared-absent", "unreachable"}}

F(k, certified, stale, isotope, member) ==
  [key |-> k, certified |-> certified, stale |-> stale, isotope |-> isotope,
   member |-> member, sources |-> <<>>]

(* One feature in every form; two of which one was certified in the past, a *)
(* feature reported twice, and one without a name.                          *)
FeatureLists ==
  {<<F(1, c, FALSE, i, m)>> : c \in BOOLEAN, i \in {None, "i"}, m \in {None, "m"}}
    \cup {<<F(2, TRUE, FALSE, None, None), F(1, FALSE, TRUE, None, None)>>,
          <<F(1, FALSE, FALSE, "j", None), F(1, TRUE, FALSE, None, "n")>>,
          <<F(None, TRUE, FALSE, None, None)>>}

FeatureAnswers ==
  Silent \cup {[Served(fs, <<>>, <<>>) EXCEPT !.plaintext = p] :
                 fs \in FeatureLists, p \in BOOLEAN}

(* One skill in every form, and a second one beside it. *)
SkillAnswers ==
  Silent \cup
  {[Served(<<>>, ss, <<>>) EXCEPT !.unverified = 1] :
     ss \in {<<[key |-> 1, rung |-> r, distance |-> d, failures |-> v, binding |-> b,
                 sources |-> <<>>]>> :
               r \in 1 .. 3, d \in {None, 1}, v \in {None, 1, 2}, b \in {None, "b"}}
            \cup {<<[key |-> 2, rung |-> 2, distance |-> 1, failures |-> None,
                     binding |-> None, sources |-> <<>>]>>}}

(* One member in every form, certifying a feature it does not call demo.    *)
MemberAnswers ==
  Silent \cup
  {[Served(<<F(1, TRUE, FALSE, None, None)>>, <<>>, ms) EXCEPT !.rung = r] :
     r \in {0, 1},
     ms \in {<<[key |-> 1, mode |-> m, trust |-> t, count |-> c, sources |-> <<>>]>> :
               m \in {None, "demo", "real"}, t \in {None, 1}, c \in {None, 1}}
            \cup {<<[key |-> 2, mode |-> "real", trust |-> 2, count |-> 2,
                     sources |-> <<>>]>>, <<>>}}

MCAnswers == {FeatureAnswers, SkillAnswers, MemberAnswers}
=============================================================================
