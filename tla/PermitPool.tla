----------------------------- MODULE PermitPool -----------------------------
(***************************************************************************)
(* What the gateway promises its clients about load: at most Permits jobs  *)
(* are admitted at a time, and a request is refused only while that many   *)
(* are.                                                                    *)
(***************************************************************************)
EXTENDS Integers, FiniteSets

CONSTANTS Requests, Permits

VARIABLES
  admitted,  \* requests that occupy a permit
  refused    \* requests turned away

vars == <<admitted, refused>>

Init == admitted = {} /\ refused = {}

Admit(r) ==
  /\ r \notin admitted \cup refused
  /\ Cardinality(admitted) < Permits
  /\ admitted' = admitted \cup {r}
  /\ UNCHANGED refused

Refuse(r) ==
  /\ r \notin admitted \cup refused
  /\ Cardinality(admitted) = Permits
  /\ refused' = refused \cup {r}
  /\ UNCHANGED admitted

Release(r) ==
  /\ r \in admitted
  /\ admitted' = admitted \ {r}
  /\ UNCHANGED refused

Next == \E r \in Requests : Admit(r) \/ Refuse(r) \/ Release(r)

Spec == Init /\ [][Next]_vars
=============================================================================
