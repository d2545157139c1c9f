---------------------------- MODULE TemporalSplit ----------------------------
(***************************************************************************)
(* The temporal_split operation (analysis/temporal.rs under analysis/      *)
(* mod.rs calculate_controlled): labelled observations are divided into    *)
(* training, calibration and validation samples of each fold, and the ones *)
(* whose label is not known in time are counted instead.                   *)
(***************************************************************************)
EXTENDS Integers, Sequences, FiniteSets, SequencesExt

CONSTANTS
  Splits,          \* the requests callers make
  MaxLabels,       \* MAX_SAMPLES
  MaxFolds,        \* 32
  MaxSplitWork,    \* MAX_WORK
  MaxSplitValues   \* MAX_OUTPUT_VALUES

Roles   == {"train", "calibration", "validation"}
Reasons == {"outside", "unavailable", "boundary"}

(* Strings are compared by their bytes; here ids are numbers. *)
TimedLabel == [id: Nat, at: Int, features: Int, end: Int, available: Int]
FoldWindow == [start: Int, train: Int, calibration: Int, validation: Int]

ASSUME SplitAssumption ==
  /\ Splits \subseteq [asOf: Int, cutoff: Int, gap: Int, minimum: Int,
                       folds: Seq(FoldWindow), labels: Seq(TimedLabel)]
  /\ MaxLabels \in Nat /\ MaxFolds \in Nat
  /\ MaxSplitWork \in Nat /\ MaxSplitValues \in Nat

VARIABLES
  splitting,  \* the calculation in progress, or NoSplit: its request, the fold at
              \* work, the observations it has not looked at, what it made of the
              \* others, and the results of the folds before it
  plan        \* the answer until the caller has it

splitVars == <<splitting, plan>>

NoSplit      == [pc |-> "idle"]
NoPlan(code) == [code |-> code, req |-> <<>>, folds |-> <<>>]

-----------------------------------------------------------------------------
(* What a request must be                                                  *)

FoldOk(f, gap) ==
  /\ 0 < f.start /\ f.start < f.train
  /\ f.train < f.calibration /\ f.calibration < f.validation
  /\ f.train - f.start > gap
  /\ f.calibration - f.train > gap

(* The start of the training may stay; every other boundary advances. *)
Advances(f, g) ==
  /\ f.start <= g.start /\ f.train < g.train
  /\ f.calibration < g.calibration /\ f.validation < g.validation

LabelOk(o) ==
  /\ o.at > 0 /\ o.features > 0
  /\ o.features <= o.at /\ o.at < o.end /\ o.end <= o.available

Repeats(labels, i) == \E j \in 1 .. i - 1 : labels[j].id = labels[i].id

(* The code of the first check a request fails. *)
Verdict(req) ==
  LET n   == Len(req.labels)
      m   == Len(req.folds)
      bad == {i \in 1 .. n : Repeats(req.labels, i) \/ ~LabelOk(req.labels[i])}
  IN  IF ~(0 < req.cutoff /\ req.cutoff <= req.asOf) THEN "InvalidTime"
      ELSE IF req.gap < 0 \/ req.minimum \notin 1 .. MaxLabels THEN "InvalidParameter"
      ELSE IF m \notin 1 .. MaxFolds \/ n \notin 1 .. MaxLabels THEN "LimitExceeded"
      ELSE IF \/ \E k \in 1 .. m : ~FoldOk(req.folds[k], req.gap)
              \/ \E k \in 1 .. m - 1 : ~Advances(req.folds[k], req.folds[k + 1])
      THEN "InvalidTime"
      ELSE IF \E i \in bad : Repeats(req.labels, i) /\ \A j \in bad : i <= j
      THEN "DuplicateSample"
      ELSE IF bad # {} THEN "InvalidTime"
      ELSE IF n * m * 8 > MaxSplitWork \/ m * (n + 64) > MaxSplitValues THEN "LimitExceeded"
      ELSE "Ok"

-----------------------------------------------------------------------------
(* What becomes of an observation                                          *)

RoleOf(o, f) ==
  IF o.at < f.train THEN "train"
  ELSE IF o.at < f.calibration THEN "calibration" ELSE "validation"

(* Mutant: the gap is kept before the validation and not before the calibration. *)
KnownBefore_GapLater(role, f, gap) ==
  CASE role = "train"       -> f.train
    [] role = "calibration" -> f.calibration - gap
    [] role = "validation"  -> f.validation - gap

(* The time before which the label of a selected observation is known. *)
KnownBefore(role, f, gap) ==
  CASE role = "train"       -> f.train - gap
    [] role = "calibration" -> f.calibration - gap
    [] role = "validation"  -> f.validation

(* Mutant: a label that becomes known at the cutoff is not known. *)
Exclusion_AtCutoff(o, f, req) ==
  LET before == KnownBefore(RoleOf(o, f), f, req.gap)
  IN  IF o.at < f.start \/ o.at >= f.validation THEN "outside"
      ELSE IF o.available >= req.cutoff THEN "unavailable"
      ELSE IF o.end > before \/ o.available >= before THEN "boundary"
      ELSE "selected"

(* The first reason to leave an observation out of a fold, if there is one. *)
Exclusion(o, f, req) ==
  LET before == KnownBefore(RoleOf(o, f), f, req.gap)
  IN  IF o.at < f.start \/ o.at >= f.validation THEN "outside"
      ELSE IF o.available > req.cutoff THEN "unavailable"
      ELSE IF o.end > before \/ o.available >= before THEN "boundary"
      ELSE "selected"

(* The order the observations are looked at in. *)
Sooner(o, q) == o.at < q.at \/ (o.at = q.at /\ o.id < q.id)

-----------------------------------------------------------------------------
(* The calculation                                                         *)

(* The locals of the loop over the observations, at its start. *)
NewFold(req, k, done) ==
  [pc |-> "fold", req |-> req, fold |-> k, rest |-> ToSet(req.labels),
   rows |-> [r \in Roles |-> <<>>], excluded |-> [r \in Reasons |-> 0], done |-> done]

NothingToSplit == splitting = NoSplit /\ plan = NoPlan("none")

SplitBegin(req) ==
  /\ NothingToSplit
  /\ IF Verdict(req) = "Ok"
     THEN splitting' = NewFold(req, 1, <<>>) /\ UNCHANGED plan
     ELSE plan' = NoPlan(Verdict(req)) /\ UNCHANGED splitting

CurrentFold == splitting.req.folds[splitting.fold]

(* One round of the loop over the sorted observations. *)
Observe ==
  /\ splitting.pc = "fold"
  /\ \E o \in splitting.rest :
       /\ \A q \in splitting.rest \ {o} : Sooner(o, q)
       /\ LET why == Exclusion(o, CurrentFold, splitting.req)
          IN  splitting' =
                IF why = "selected"
                THEN [splitting EXCEPT !.rest = @ \ {o},
                        !.rows[RoleOf(o, CurrentFold)] = Append(@, o)]
                ELSE [splitting EXCEPT !.rest = @ \ {o}, !.excluded[why] = @ + 1]
  /\ UNCHANGED plan

(* The results of a fold; it is kept when its samples are too few. *)
FoldResult ==
  [window |-> CurrentFold, rows |-> splitting.rows, excluded |-> splitting.excluded,
   usable |-> \A r \in Roles : Len(splitting.rows[r]) >= splitting.req.minimum]

FoldEnds ==
  /\ splitting.pc = "fold" /\ splitting.rest = {}
  /\ LET done == Append(splitting.done, FoldResult)
     IN  IF splitting.fold < Len(splitting.req.folds)
         THEN /\ splitting' = NewFold(splitting.req, splitting.fold + 1, done)
              /\ UNCHANGED plan
         ELSE /\ splitting' = NoSplit
              /\ plan' = [code |-> "Ok", req |-> splitting.req, folds |-> done]

(* Each round of either loop begins with a checkpoint. *)
SplitStop ==
  /\ splitting.pc = "fold"
  /\ \E code \in {"Cancelled", "TimedOut"} : plan' = NoPlan(code)
  /\ splitting' = NoSplit

SplitReturn ==
  /\ plan # NoPlan("none")
  /\ plan' = NoPlan("none")
  /\ UNCHANGED splitting

SplitInit == NothingToSplit

SplitNext ==
  \/ NothingToSplit /\ \E req \in Splits : SplitBegin(req)
  \/ Observe
  \/ FoldEnds
  \/ SplitStop
  \/ SplitReturn

SplitSpec == SplitInit /\ [][SplitNext]_splitVars

-----------------------------------------------------------------------------
(* Properties                                                              *)

(* "Strict availability boundary prevents same-timestamp fitting/prediction *)
(* ambiguity": within a fold the label of a sample is known, by more than   *)
(* the purge gap, before anything of a later role is predicted, and every   *)
(* label by the cutoff of the request.                                      *)
Precedes(rows, others, gap) ==
  \A o \in ToSet(rows), q \in ToSet(others) : o.available + gap < q.at

NoLeakage ==
  \A k \in DOMAIN plan.folds :
    LET rows == plan.folds[k].rows
        gap  == plan.req.gap
    IN  /\ Precedes(rows["train"], rows["calibration"], gap)
        /\ Precedes(rows["train"], rows["validation"], gap)
        /\ Precedes(rows["calibration"], rows["validation"], gap)
        /\ \A r \in Roles : \A o \in ToSet(rows[r]) : o.available <= plan.req.cutoff

(* The samples a role of a fold must have, by the windows and the times the *)
(* contract tabulates, whatever order the loop goes in.                     *)
Declared(req, f, role) ==
  LET from == CASE role = "train" -> f.start [] role = "calibration" -> f.train
                [] role = "validation" -> f.calibration
      to   == CASE role = "train" -> f.train [] role = "calibration" -> f.calibration
                [] role = "validation" -> f.validation
      gap  == IF role = "validation" THEN 0 ELSE req.gap
  IN  {o \in ToSet(req.labels) : /\ from <= o.at /\ o.at < to
                                 /\ o.available <= req.cutoff
                                 /\ o.available < to - gap}

Sorted(rows) == \A i, j \in DOMAIN rows : i < j => Sooner(rows[i], rows[j])

Tally(rows, out) ==
  Len(rows["train"]) + Len(rows["calibration"]) + Len(rows["validation"])
  + out["outside"] + out["unavailable"] + out["boundary"]

(* Every observation is in one place of each fold: the samples of a role are *)
(* the declared ones, each once and by time, and with the exclusions they    *)
(* are as many as the request had.                                           *)
EveryLabelOnce ==
  \A k \in DOMAIN plan.folds :
    LET rows == plan.folds[k].rows
    IN  /\ \A r \in Roles : /\ ToSet(rows[r]) = Declared(plan.req, plan.folds[k].window, r)
                            /\ Sorted(rows[r])
        /\ Tally(rows, plan.folds[k].excluded) = Len(plan.req.labels)

-----------------------------------------------------------------------------
(* The invariant behind them                                               *)

Rows     == [Roles -> Seq(TimedLabel)]
Excluded == [Reasons -> Nat]
Result   == [window: FoldWindow, rows: Rows, excluded: Excluded, usable: BOOLEAN]

(* What is sorted of a fold while the observations in rest are not. *)
Partial(req, f, rows, out, rest) ==
  /\ \A r \in Roles : /\ ToSet(rows[r]) = Declared(req, f, r) \ rest
                      /\ Sorted(rows[r])
                      /\ \A o \in ToSet(rows[r]), q \in rest : Sooner(o, q)
  /\ Tally(rows, out) + Cardinality(rest) = Len(req.labels)

(* The results of some first folds are whole. *)
Whole(req, results) ==
  /\ Len(results) <= Len(req.folds)
  /\ \A k \in DOMAIN results :
       /\ results[k].window = req.folds[k]
       /\ Partial(req, req.folds[k], results[k].rows, results[k].excluded, {})

SplittingOK ==
  /\ splitting \in [pc: {"fold"}, req: Splits, fold: Nat, rest: SUBSET TimedLabel,
                    rows: Rows, excluded: Excluded, done: Seq(Result)]
  /\ Verdict(splitting.req) = "Ok"
  /\ splitting.fold \in DOMAIN splitting.req.folds
  /\ splitting.rest \subseteq ToSet(splitting.req.labels)
  /\ Partial(splitting.req, CurrentFold, splitting.rows, splitting.excluded, splitting.rest)
  /\ Whole(splitting.req, splitting.done)
  /\ Len(splitting.done) = splitting.fold - 1

PlanOK ==
  /\ plan.req \in Splits /\ plan.folds \in Seq(Result)
  /\ Verdict(plan.req) = "Ok"
  /\ Whole(plan.req, plan.folds)

(* What holds between any two rounds of the loops. *)
SplitInv ==
  /\ splitting = NoSplit \/ SplittingOK
  /\ plan.folds = <<>> \/ PlanOK
=============================================================================
