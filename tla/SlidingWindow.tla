---------------------------- MODULE SlidingWindow ----------------------------
(***************************************************************************)
(* What a Window promises the methods that use it: the last Len(content)   *)
(* values pushed, oldest first; every read answers from them, and an       *)
(* iterator walks them all, once, in its direction.                        *)
(***************************************************************************)
EXTENDS Integers, Sequences

CONSTANTS
  Value,     \* what a window holds
  Nothing,   \* None
  MaxPeriod  \* the largest position a method can ask for

VARIABLES
  content,  \* the values, oldest first
  walk,     \* the items an iterator has yielded: a direction and a count
  answer    \* the last question - what, and for get, which - and its answer

vars == <<content, walk, answer>>

NoWalk == [way |-> "none", count |-> 0]

(* The n-th newest value, n from 0. *)
FromNewest(n) == content[Len(content) - n]

Init ==
  /\ content \in Seq(Value) /\ content # <<>>
  /\ walk = NoWalk /\ answer = <<"none", 0, Nothing>>

Push(v) ==
  /\ walk = NoWalk
  /\ content' = Append(Tail(content), v)
  /\ answer' = <<"push", 0, Head(content)>>
  /\ UNCHANGED walk

Get(n) ==
  /\ answer' = <<"get", n, IF n < Len(content) THEN FromNewest(n) ELSE Nothing>>
  /\ UNCHANGED <<content, walk>>

Walk(way) ==
  /\ walk = NoWalk
  /\ walk' = [way |-> way, count |-> 0]
  /\ UNCHANGED <<content, answer>>

Yield ==
  /\ walk.way # "none"
  /\ IF walk.count < Len(content)
     THEN /\ walk' = [walk EXCEPT !.count = @ + 1]
          /\ answer' = <<"next", 0, IF walk.way = "newest_first"
                                    THEN FromNewest(walk.count)
                                    ELSE content[walk.count + 1]>>
     ELSE answer' = <<"next", 0, Nothing>> /\ UNCHANGED walk
  /\ UNCHANGED content

EndWalk ==
  /\ walk.way # "none"
  /\ walk' = NoWalk
  /\ UNCHANGED <<content, answer>>

Next ==
  \/ \E v \in Value : Push(v)
  \/ \E n \in 0 .. MaxPeriod : Get(n)
  \/ \E way \in {"newest_first", "oldest_first"} : Walk(way)
  \/ Yield
  \/ EndWalk

Spec == Init /\ [][Next]_vars
=============================================================================
