----------------------------- MODULE EngineBatch -----------------------------
(***************************************************************************)
(* The batch calculation of the engine (engine/mod.rs calculate_controlled *)
(* under the tool indicator_batch_v2): one request of shared bars and      *)
(* several profiles.  All bars are validated, then one new stream per      *)
(* profile is fed all of them, a checkpoint before each bar of each loop.  *)
(***************************************************************************)
EXTENDS StreamState

CONSTANTS
  Offers,       \* the sequences of bars callers submit
  Lists,        \* the sequences of profiles they ask for
  MaxBars,      \* catalog::MAX_BARS
  MaxProfiles,  \* catalog::MAX_PROFILES
  MaxRows       \* MAX_RESULT_ROWS

ASSUME BatchAssumption ==
  /\ Offers \subseteq Seq(Bar) /\ Lists \subseteq Seq(Profiles)
  /\ MaxBars \in Nat /\ MaxProfiles \in Nat /\ MaxRows \in Nat

VARIABLES
  job,    \* the calculation in progress, or Idle: its request, the place in the
          \* loop, the locals of the preflight, the stream and rows of the profile
          \* at work and the series of those before it
  answer  \* its result until the caller has it: the series it made, or an error

vars == <<job, answer>>

Idle    == [pc |-> "idle"]
Working == job # Idle

(* The schema version, identity and snapshot name are valid ones. *)
Request == [id: Identities, asOf: Time, bars: Offers, profiles: Lists,
            output: {"latest", "series"}, strict: BOOLEAN]

Refused(code) == [code |-> code, req |-> <<>>, series |-> <<>>]

-----------------------------------------------------------------------------

RowsOf(req) == IF req.output = "latest" THEN 1 ELSE Len(req.bars)

TooLarge(req) ==
  \/ Len(req.bars) \notin 1 .. MaxBars
  \/ Len(req.profiles) \notin 1 .. MaxProfiles
  \/ RowsOf(req) * Len(req.profiles) > MaxRows

Fail(code) == job' = Idle /\ answer' = Refused(code)

Begin(req) ==
  /\ ~Working /\ answer = Refused("none")
  /\ IF TooLarge(req)
     THEN Fail("LimitExceeded")
     ELSE /\ job' = [pc |-> "preflight", req |-> req, next |-> 1, closed |-> 0,
                     available |-> 0, s |-> NewStream(req.id, req.profiles[1]),
                     rows |-> <<>>, series |-> <<>>]
          /\ UNCHANGED answer

HasDuplicates(list) == Cardinality(ToSet(list)) < Len(list)

(* Mutant: every bar is validated against none. *)
Preflight_EachAlone ==
  LET bar  == job.req.bars[job.next]
      none == [job.s EXCEPT !.closed = 0, !.available = 0]
  IN  /\ Working /\ job.pc = "preflight"
      /\ IF ~(TimeOk(bar, job.req.asOf) /\ InOrder(bar, none) /\ ValidCandle(bar.candle))
         THEN Fail(Refusal(bar, job.req.asOf, none))
         ELSE IF job.next = Len(job.req.bars) /\ HasDuplicates(job.req.profiles)
         THEN Fail("DuplicateProfile")
         ELSE /\ job' = IF job.next < Len(job.req.bars) THEN [job EXCEPT !.next = @ + 1]
                        ELSE [job EXCEPT !.pc = "update", !.next = 1]
              /\ UNCHANGED answer

(* One round of the validation loop; after the last one the profiles are *)
(* looked at and their streams made.                                     *)
Preflight ==
  LET bar  == job.req.bars[job.next]
      last == [job.s EXCEPT !.closed = job.closed, !.available = job.available]
      seen == [job EXCEPT !.closed = bar.closed, !.available = bar.available]
  IN  /\ Working /\ job.pc = "preflight"
      /\ IF ~(TimeOk(bar, job.req.asOf) /\ InOrder(bar, last) /\ ValidCandle(bar.candle))
         THEN Fail(Refusal(bar, job.req.asOf, last))
         ELSE IF job.next = Len(job.req.bars) /\ HasDuplicates(job.req.profiles)
         THEN Fail("DuplicateProfile")
         ELSE /\ job' = IF job.next < Len(job.req.bars) THEN [seen EXCEPT !.next = @ + 1]
                        ELSE [seen EXCEPT !.pc = "update", !.next = 1]
              /\ UNCHANGED answer

(* Mutant: the latest row is added in either mode. *)
Finished_LatestToo(s, rows, output) == [profile |-> s.profile, rows |-> Append(rows, s.latest)]

(* The series of one profile, once its stream has consumed all bars. *)
Finished(s, rows, output) ==
  [profile |-> s.profile, rows |-> IF output = "latest" THEN <<s.latest>> ELSE rows]

(* require_all_ready: a row that is warming up, or undefined, is too weak. *)
TooWeak(series) == \E i \in DOMAIN series.rows : series.rows[i].status # "Ready"

(* The next profile's stream is a new one. *)
NextJob(done, series) ==
  [done EXCEPT !.next = 1, !.rows = <<>>, !.series = Append(@, series),
               !.s = NewStream(done.req.id, done.req.profiles[Len(done.series) + 2])]

(* After the last bar the series of the profile at work is finished, and   *)
(* after the last profile the answer is made.                              *)
Consumed(done) ==
  LET req    == job.req
      series == Finished(done.s, done.rows, req.output)
  IN  CASE job.next < Len(req.bars) ->
             job' = [done EXCEPT !.next = @ + 1] /\ UNCHANGED answer
        [] job.next = Len(req.bars) /\ req.strict /\ TooWeak(series) ->
             Fail("NotReady")
        [] OTHER ->
             IF Len(job.series) + 1 < Len(req.profiles)
             THEN job' = NextJob(done, series) /\ UNCHANGED answer
             ELSE /\ job' = Idle
                  /\ answer' = [code |-> "Ok", req |-> req,
                                series |-> Append(job.series, series)]

(* One bar into the stream of the profile at work. *)
Update ==
  LET bar == job.req.bars[job.next]
  IN  /\ Working /\ job.pc = "update"
      /\ \/ /\ ~Acceptable(bar, job.req.asOf, job.s)
            /\ Fail(Refusal(bar, job.req.asOf, job.s))
         \/ /\ Acceptable(bar, job.req.asOf, job.s)
            /\ \E s \in {Consume(job.s, bar)} :
                 Consumed([job EXCEPT !.s = s, !.rows = IF job.req.output = "series"
                                                        THEN Append(@, s.latest) ELSE @])

(* The kernel panics or reports an error. *)
UpdateFails ==
  /\ Working /\ job.pc = "update"
  /\ Fail("UpstreamFailure")

(* Each round of a loop begins with a checkpoint. *)
Stop ==
  /\ Working
  /\ \E code \in {"Cancelled", "TimedOut"} : Fail(code)

(* The caller has the answer; nothing of the calculation is left. *)
Return ==
  /\ answer # Refused("none")
  /\ answer' = Refused("none")
  /\ UNCHANGED job

Init == job = Idle /\ answer = Refused("none")

Next ==
  \/ ~Working /\ answer = Refused("none") /\ \E req \in Request : Begin(req)
  \/ Preflight
  \/ Update
  \/ UpdateFails
  \/ Stop
  \/ Return

Spec == Init /\ [][Next]_vars

-----------------------------------------------------------------------------
(* Properties                                                              *)

(* The stream of a profile that alone consumed the first n bars. *)
Alone(req, p, n) == Fed(req.id, p, req.bars)[n]

(* The series of a profile that alone consumed the bars. *)
SeriesOf(req, p) ==
  [profile |-> p,
   rows    |-> IF req.output = "latest" THEN <<Alone(req, p, Len(req.bars)).latest>>
               ELSE [n \in DOMAIN req.bars |-> Alone(req, p, n).latest]]

(* The batch is what its profiles' streams would have said: one series for   *)
(* each profile, in the request's order, with a row for every bar, or the    *)
(* last one, that a live stream of that profile alone had answered.          *)
BatchIsStreams ==
  answer.code = "Ok" =>
    /\ Len(answer.series) = Len(answer.req.profiles)
    /\ \A i \in DOMAIN answer.req.profiles :
         answer.series[i] = SeriesOf(answer.req, answer.req.profiles[i])

(* "All shared input is validated before calculation": no stream refuses a *)
(* bar the loop before it has let through.                                 *)
PreflightSuffices ==
  Working /\ job.pc = "update"
    => Acceptable(job.req.bars[job.next], job.req.asOf, job.s)

-----------------------------------------------------------------------------
(* The inductive invariant behind them.                                    *)

(* The first n bars pass the validation. *)
Checked(req, n) ==
  \A i \in 1 .. n :
    /\ TimeOk(req.bars[i], req.asOf) /\ ValidCandle(req.bars[i].candle)
    /\ i > 1 => /\ req.bars[i - 1].closed < req.bars[i].closed
                /\ req.bars[i - 1].available <= req.bars[i].available

ClosedAt(req, n)    == IF n = 0 THEN 0 ELSE req.bars[n].closed
AvailableAt(req, n) == IF n = 0 THEN 0 ELSE req.bars[n].available

(* The stream s of profile p consumed the first n bars, alone. *)
Streamed(s, req, p, n) ==
  /\ s = Alone(req, p, n)
  /\ s.profile = p /\ s.samples = n /\ ValidFor(s.kernel, p, n)
  /\ s.closed = ClosedAt(req, n) /\ s.available = AvailableAt(req, n)
  /\ n <= s.closed

Validating(j) ==
  /\ j.pc = "preflight"
  /\ Checked(j.req, j.next - 1)
  /\ j.closed = ClosedAt(j.req, j.next - 1)
  /\ j.available = AvailableAt(j.req, j.next - 1)
  /\ j.series = <<>> /\ j.rows = <<>>
  /\ j.s = NewStream(j.req.id, j.req.profiles[1])

Updating(j) ==
  LET p == j.req.profiles[Len(j.series) + 1]
  IN  /\ j.pc = "update"
      /\ Checked(j.req, Len(j.req.bars))
      /\ Len(j.series) < Len(j.req.profiles)
      /\ \A i \in DOMAIN j.series : j.series[i] = SeriesOf(j.req, j.req.profiles[i])
      /\ Streamed(j.s, j.req, p, j.next - 1)
      /\ j.rows = IF j.req.output = "latest" THEN <<>>
                  ELSE [n \in 1 .. j.next - 1 |-> Alone(j.req, p, n).latest]

Series == [profile: Profiles, rows: Seq(Row)]
Job    == [pc: {"preflight", "update"}, req: Request, next: Nat \ {0}, closed: Nat,
           available: Nat, s: State, rows: Seq(Row), series: Seq(Series)]

JobInv(j) ==
  /\ j \in Job
  /\ ~TooLarge(j.req) /\ j.next <= Len(j.req.bars)
  /\ Validating(j) \/ Updating(j)

BatchInv ==
  /\ Working => JobInv(job) /\ answer = Refused("none")
  /\ BatchIsStreams
=============================================================================
