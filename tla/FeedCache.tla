----------------------------- MODULE FeedCache -----------------------------
(***************************************************************************)
(* What a cache in front of named sources promises: "caches one feed per   *)
(* channel so a watching client cannot hammer the source" (notes.go), "the *)
(* snapshot is cached for the channel's `refresh`" (README.md).  A source  *)
(* is read only when nothing younger than Lifetime is held for it, never   *)
(* by two readers at once, and what is held is something the source said   *)
(* while it was being read.  Notes and CustomChannel implement it.         *)
(***************************************************************************)
EXTENDS Naturals

CONSTANTS
  Keys,       \* the sources, by the name of their channel
  Contents,   \* what a source can say
  Lifetime,   \* how long a content is served
  None        \* nothing is held

VARIABLES
  said,   \* what each source says now
  held,   \* what is held for it, and its age up to Lifetime
  fill    \* what it has said since the read under way began, {} without one

fcVars == <<said, held, fill>>

Init ==
  /\ said \in [Keys -> Contents]
  /\ held = [k \in Keys |-> None]
  /\ fill = [k \in Keys |-> {}]

Expired(k) == held[k] = None \/ held[k].age = Lifetime

Begin(k) ==
  /\ fill[k] = {}
  /\ Expired(k)
  /\ fill' = [fill EXCEPT ![k] = {said[k]}]
  /\ UNCHANGED <<said, held>>

Store(k, v) ==
  /\ v \in fill[k]
  /\ held' = [held EXCEPT ![k] = [content |-> v, age |-> 0]]
  /\ fill' = [fill EXCEPT ![k] = {}]
  /\ UNCHANGED said

Abandon(k) ==
  /\ fill[k] # {}
  /\ fill' = [fill EXCEPT ![k] = {}]
  /\ UNCHANGED <<said, held>>

Change(k, v) ==
  /\ said' = [said EXCEPT ![k] = v]
  /\ fill' = IF fill[k] = {} THEN fill ELSE [fill EXCEPT ![k] = @ \cup {v}]
  /\ UNCHANGED held

Elapse ==
  /\ held' = [k \in Keys |->
                IF Expired(k) THEN held[k] ELSE [held[k] EXCEPT !.age = @ + 1]]
  /\ UNCHANGED <<said, fill>>

Next ==
  \/ \E k \in Keys : \/ Begin(k) \/ Abandon(k)
                     \/ \E v \in Contents : Store(k, v) \/ Change(k, v)
  \/ Elapse

Spec == Init /\ [][Next]_fcVars
=============================================================================
