----------------------------- MODULE ReplayTree -----------------------------
(***************************************************************************)
(* What indicator_stream promises its callers: it keeps nothing, and every *)
(* snapshot it ever answers stands for a log - that of a snapshot it was   *)
(* given before, or the empty one, followed by strictly later bars.  A     *)
(* call adds its answer in one step or leaves no trace.                    *)
(***************************************************************************)
EXTENDS Integers, Sequences

CONSTANT Event  \* what is logged; each has a bar with its two times

VARIABLE known  \* the logs callers hold snapshots of

Chronological(l) ==
  \A i \in 1 .. Len(l) - 1 :
    /\ l[i].bar.closed < l[i + 1].bar.closed
    /\ l[i].bar.available <= l[i + 1].bar.available

Extends(l, base) ==
  /\ Len(base) <= Len(l)
  /\ base = SubSeq(l, 1, Len(base))

Init == known = {}

Answer(base, l) ==
  /\ l \in Seq(Event)
  /\ Extends(l, base)
  /\ Chronological(l)
  /\ known' = known \cup {l}

Next == \E base \in known \cup {<<>>} : \E l \in known' : Answer(base, l)

Spec == Init /\ [][Next]_known
=============================================================================
