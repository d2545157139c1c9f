----------------------------- MODULE SeriesLog -----------------------------
(***************************************************************************)
(* What an engine stream promises its owner, without saying how: an        *)
(* append-only log of strictly later bars.  The owner may save the log it  *)
(* has, lose the stream, clear it, and go on later from any log it saved.  *)
(* What the stream reports describes the whole log, nothing less and       *)
(* nothing more.                                                           *)
(***************************************************************************)
EXTENDS Integers, Sequences

CONSTANT Event  \* what is logged; each has a bar with its two times

VARIABLES
  open,    \* whether there is a live stream
  log,     \* the bars it holds
  report,  \* what it last said of them
  saved    \* the logs the owner can come back to

vars == <<open, log, report, saved>>

Describe(l) ==
  IF l = <<>> THEN <<0, 0, 0>>
  ELSE <<Len(l), l[Len(l)].bar.closed, l[Len(l)].bar.available>>

After(e, l) ==
  l # <<>> => /\ e.bar.closed > l[Len(l)].bar.closed
              /\ e.bar.available >= l[Len(l)].bar.available

Init == open = FALSE /\ log = <<>> /\ report = Describe(<<>>) /\ saved = {}

Begin(l) ==
  /\ ~open
  /\ l \in saved \cup {<<>>}
  /\ open' = TRUE /\ log' = l /\ report' = Describe(l)
  /\ UNCHANGED saved

Extend(e) ==
  /\ open
  /\ After(e, log)
  /\ log' = Append(log, e) /\ report' = Describe(log')
  /\ UNCHANGED <<open, saved>>

Clear ==
  /\ open
  /\ log' = <<>> /\ report' = Describe(<<>>)
  /\ UNCHANGED <<open, saved>>

Save ==
  /\ open
  /\ saved' = saved \cup {log}
  /\ UNCHANGED <<open, log, report>>

Lose ==
  /\ open
  /\ open' = FALSE /\ log' = <<>> /\ report' = Describe(<<>>)
  /\ UNCHANGED saved

Next ==
  \/ \E l \in saved \cup {<<>>} : Begin(l)
  \/ \E e \in Event : Extend(e)
  \/ Clear
  \/ Save
  \/ Lose

Spec == Init /\ [][Next]_vars
=============================================================================
