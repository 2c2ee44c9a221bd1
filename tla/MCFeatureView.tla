---------------------------- MODULE MCFeatureView ----------------------------
(* FeatureView for TLC. *)
EXTENDS FeatureView, TLC

HandlerSymmetry == Permutations(Handlers)

Certified == "adhd.features.certified"
OneTool   == {Certified}

(* One instance with every tool; two of which the second can verify, while  *)
(* it serves any tools.                                                     *)
Single == <<{{Certified, VerifyTool}}>>
Varied == <<{{Certified}}, {{Certified, VerifyTool}, {}}>>
=============================================================================
