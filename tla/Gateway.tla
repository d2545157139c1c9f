------------------------------- MODULE Gateway -------------------------------
(***************************************************************************)
(* The MCP gateway (roze-ta-mcp/src/main.rs and the run function of        *)
(* reference.rs): tool calls arriving over one stdio connection compete    *)
(* for the permits of a semaphore.  A call that gets one moves the permit  *)
(* into a blocking worker and waits for it; a call that gets none is       *)
(* refused at once.  The worker looks at its token and its deadline only   *)
(* at checkpoints, so it can outlive a cancelled call, an expired deadline *)
(* or a dropped handler, and it keeps its permit until it ends.            *)
(***************************************************************************)
EXTENDS Integers, FiniteSets

CONSTANTS
  Requests,  \* tool calls of one connection
  V1,        \* those calling indicator_batch_calculate, encoded by the handler
  Permits    \* permits of the semaphore

ASSUME GatewayAssumption ==
  /\ IsFiniteSet(Requests) /\ V1 \subseteq Requests
  /\ Permits \in Nat \ {0}

VARIABLES
  permits,    \* free permits of the semaphore
  handler,    \* request -> where its async handler is
  worker,     \* request -> where its blocking closure is
  cancelled,  \* requests whose token is cancelled
  expired,    \* requests whose deadline has passed
  result,     \* request -> what the closure returned
  replies,    \* request -> what the client was sent
  serving     \* whether the connection is open

gatewayVars == <<permits, handler, worker, cancelled, expired, result, replies, serving>>

Handler == {"unsent", "awaiting", "encoding", "answered", "dropped"}
Worker  == {"none", "queued", "running", "encoding", "ended"}
Outcome == {"none", "Ok", "Failed", "Cancelled", "TimedOut", "Panicked"}
Reply   == (Outcome \ {"Panicked"}) \cup {"LimitExceeded", "UpstreamFailure"}

GatewayInit ==
  /\ permits = Permits
  /\ handler = [r \in Requests |-> "unsent"]
  /\ worker = [r \in Requests |-> "none"]
  /\ cancelled = {} /\ expired = {}
  /\ result = [r \in Requests |-> "none"]
  /\ replies = [r \in Requests |-> "none"]
  /\ serving = TRUE

(* A closure, once made, owns its permit until it is dropped. *)
Holds(r) == worker[r] \in {"queued", "running", "encoding"}

-----------------------------------------------------------------------------
(* The handler                                                             *)

(* try_acquire_owned succeeds; a token, a deadline and a worker are made. *)
Admit(r) ==
  /\ serving /\ handler[r] = "unsent"
  /\ permits > 0
  /\ permits' = permits - 1
  /\ handler' = [handler EXCEPT ![r] = "awaiting"]
  /\ worker' = [worker EXCEPT ![r] = "queued"]
  /\ UNCHANGED <<cancelled, expired, result, replies, serving>>

(* Mutant: one permit is kept back. *)
Refuse_KeepOneFree(r) ==
  /\ serving /\ handler[r] = "unsent"
  /\ permits <= 1
  /\ handler' = [handler EXCEPT ![r] = "answered"]
  /\ replies' = [replies EXCEPT ![r] = "LimitExceeded"]
  /\ UNCHANGED <<permits, worker, cancelled, expired, result, serving>>

Refuse(r) ==
  /\ serving /\ handler[r] = "unsent"
  /\ permits = 0
  /\ handler' = [handler EXCEPT ![r] = "answered"]
  /\ replies' = [replies EXCEPT ![r] = "LimitExceeded"]
  /\ UNCHANGED <<permits, worker, cancelled, expired, result, serving>>

(* What the awaiting handler makes of the joined closure. *)
ReplyFor(outcome) == IF outcome = "Panicked" THEN "UpstreamFailure" ELSE outcome

(* Mutant: the handler stops waiting at the deadline, its worker goes on. *)
Answer_AtDeadline(r) ==
  /\ serving
  /\ handler[r] = "awaiting"
  /\ worker[r] = "ended" \/ r \in expired
  /\ ~(r \in V1 /\ result[r] = "Ok")
  /\ handler' = [handler EXCEPT ![r] = "answered"]
  /\ replies' = [replies EXCEPT ![r] = IF worker[r] = "ended" THEN ReplyFor(result[r])
                                                          ELSE "TimedOut"]
  /\ cancelled' = cancelled \cup {r}
  /\ UNCHANGED <<permits, worker, expired, result, serving>>

(* The closure's value was encoded by the worker, or is an error.  The drop  *)
(* guard cancels the token of a handler that ends, answered or not.          *)
Answer(r) ==
  /\ serving
  /\ handler[r] = "awaiting" /\ worker[r] = "ended"
  /\ ~(r \in V1 /\ result[r] = "Ok")
  /\ handler' = [handler EXCEPT ![r] = "answered"]
  /\ replies' = [replies EXCEPT ![r] = ReplyFor(result[r])]
  /\ cancelled' = cancelled \cup {r}
  /\ UNCHANGED <<permits, worker, expired, result, serving>>

(* V1 encodes its result after the worker has gone. *)
EncodeV1(r) ==
  /\ serving
  /\ handler[r] = "awaiting" /\ worker[r] = "ended"
  /\ r \in V1 /\ result[r] = "Ok"
  /\ handler' = [handler EXCEPT ![r] = "encoding"]
  /\ UNCHANGED <<permits, worker, cancelled, expired, result, replies, serving>>

(* tool_result: the encoded value is sent unless it exceeds 8 MiB. *)
AnswerV1(r) ==
  /\ serving
  /\ handler[r] = "encoding"
  /\ handler' = [handler EXCEPT ![r] = "answered"]
  /\ \E outcome \in {"Ok", "Failed"} : replies' = [replies EXCEPT ![r] = outcome]
  /\ cancelled' = cancelled \cup {r}
  /\ UNCHANGED <<permits, worker, expired, result, serving>>

-----------------------------------------------------------------------------
(* The worker                                                              *)

(* Mutant: the closure acquires a permit of its own. *)
Start_SecondPermit(r) ==
  /\ worker[r] = "queued"
  /\ permits > 0
  /\ permits' = permits - 1
  /\ worker' = [worker EXCEPT ![r] = "running"]
  /\ UNCHANGED <<handler, cancelled, expired, result, replies, serving>>

Start(r) ==
  /\ worker[r] = "queued"
  /\ worker' = [worker EXCEPT ![r] = "running"]
  /\ UNCHANGED <<permits, handler, cancelled, expired, result, replies, serving>>

(* The checkpoint closure: the token first, then the deadline. *)
Verdict(r) ==
  IF r \in cancelled THEN "Cancelled"
  ELSE IF r \in expired THEN "TimedOut" ELSE "none"

(* A job that passes a checkpoint changes nothing here. *)
StopAtCheckpoint(r) ==
  /\ worker[r] = "running"
  /\ Verdict(r) # "none"
  /\ worker' = [worker EXCEPT ![r] = "encoding"]
  /\ result' = [result EXCEPT ![r] = Verdict(r)]
  /\ UNCHANGED <<permits, handler, cancelled, expired, replies, serving>>

(* The calculation ends by itself, with a value or with an error of its own; *)
(* it may end so after a cancellation, past its last checkpoint.             *)
Compute(r) ==
  /\ worker[r] = "running"
  /\ \E outcome \in {"Ok", "Failed"} : result' = [result EXCEPT ![r] = outcome]
  /\ worker' = [worker EXCEPT ![r] = "encoding"]
  /\ UNCHANGED <<permits, handler, cancelled, expired, replies, serving>>

(* Mutant: the permit is returned by the last statement, not by a drop. *)
Panic_LosesPermit(r) ==
  /\ worker[r] = "running"
  /\ worker' = [worker EXCEPT ![r] = "ended"]
  /\ result' = [result EXCEPT ![r] = "Panicked"]
  /\ UNCHANGED <<permits, handler, cancelled, expired, replies, serving>>

(* A panic outside the engine's own catch_unwind unwinds the closure. *)
Panic(r) ==
  /\ worker[r] = "running"
  /\ worker' = [worker EXCEPT ![r] = "ended"]
  /\ result' = [result EXCEPT ![r] = "Panicked"]
  /\ permits' = permits + 1
  /\ UNCHANGED <<handler, cancelled, expired, replies, serving>>

(* The value leaves the closure - encoded, and refused when larger than 8 MiB, *)
(* unless it is V1's - and _permit, a local of the closure, is dropped: only   *)
(* after that does the join handle complete.                                   *)
End(r) ==
  /\ worker[r] = "encoding"
  /\ worker' = [worker EXCEPT ![r] = "ended"]
  /\ permits' = permits + 1
  /\ \E outcome \in (IF result[r] = "Ok" /\ r \notin V1 THEN {"Ok", "Failed"}
                                                         ELSE {result[r]}) :
       result' = [result EXCEPT ![r] = outcome]
  /\ UNCHANGED <<handler, cancelled, expired, replies, serving>>

-----------------------------------------------------------------------------
(* The clock, the client and the connection                                *)

Expire(r) ==
  /\ handler[r] # "unsent" /\ Holds(r) /\ r \notin expired
  /\ expired' = expired \cup {r}
  /\ UNCHANGED <<permits, handler, worker, cancelled, result, replies, serving>>

(* External: a cancel notification reaches the request's token; the handler *)
(* goes on waiting for its worker.                                          *)
CancelNotification(r) ==
  /\ serving /\ handler[r] = "awaiting" /\ r \notin cancelled
  /\ cancelled' = cancelled \cup {r}
  /\ UNCHANGED <<permits, handler, worker, expired, result, replies, serving>>

(* End of input or an oversized frame ends the service: serve returns. *)
Disconnect ==
  /\ serving
  /\ serving' = FALSE
  /\ UNCHANGED <<permits, handler, worker, cancelled, expired, result, replies>>

(* Mutant: the permit belongs to the handler. *)
DropHandler_ReleasesPermit(r) ==
  /\ ~serving /\ handler[r] \in {"awaiting", "encoding"}
  /\ handler' = [handler EXCEPT ![r] = "dropped"]
  /\ cancelled' = cancelled \cup {r}
  /\ permits' = permits + 1
  /\ UNCHANGED <<worker, expired, result, replies, serving>>

(* The runtime that shuts down drops the handlers; the drop guard of each *)
(* cancels its token.                                                     *)
DropHandler(r) ==
  /\ ~serving /\ handler[r] \in {"awaiting", "encoding"}
  /\ handler' = [handler EXCEPT ![r] = "dropped"]
  /\ cancelled' = cancelled \cup {r}
  /\ UNCHANGED <<permits, worker, expired, result, replies, serving>>

(* External: it drops the closures no thread has begun, and waits for those *)
(* that run.                                                                *)
DropQueued(r) ==
  /\ ~serving /\ worker[r] = "queued"
  /\ worker' = [worker EXCEPT ![r] = "ended"]
  /\ permits' = permits + 1
  /\ UNCHANGED <<handler, cancelled, expired, result, replies, serving>>

(* Nothing is left to do. *)
Quiet ==
  /\ ~serving
  /\ \A r \in Requests : handler[r] \notin {"awaiting", "encoding"}
                         /\ ~Holds(r)
  /\ UNCHANGED gatewayVars

HandlerStep(r) == Answer(r) \/ EncodeV1(r) \/ AnswerV1(r) \/ DropHandler(r)
WorkerStep(r)  == \/ Start(r) \/ StopAtCheckpoint(r) \/ Compute(r)
                  \/ Panic(r) \/ End(r)

GatewayNext ==
  \/ \E r \in Requests : \/ Admit(r) \/ Refuse(r) \/ Answer(r) \/ EncodeV1(r) \/ AnswerV1(r)
                         \/ DropHandler(r)
                         \/ Start(r) \/ StopAtCheckpoint(r)
                         \/ Compute(r) \/ Panic(r) \/ End(r) \/ DropQueued(r)
                         \/ Expire(r) \/ CancelNotification(r)
  \/ Disconnect
  \/ Quiet

(* The blocking pool runs every closure it was given, a calculation comes to *)
(* an end, and a handler is polled when its worker has ended.                *)
(* Clients, the clock and the connection owe nothing.                        *)
Fairness ==
  \A r \in Requests : WF_gatewayVars(WorkerStep(r)) /\ WF_gatewayVars(HandlerStep(r))

GatewaySpec == GatewayInit /\ [][GatewayNext]_gatewayVars
FairSpec    == GatewaySpec /\ Fairness

-----------------------------------------------------------------------------
(* What must hold                                                          *)

(* Every variable has its shape: the semaphore never holds more permits than *)
(* it was made with, and a panic never reaches the client as such (main.rs). *)
TypeOK ==
  /\ permits \in 0 .. Permits
  /\ handler \in [Requests -> Handler]
  /\ worker \in [Requests -> Worker]
  /\ cancelled \subseteq Requests /\ expired \subseteq Requests
  /\ result \in [Requests -> Outcome]
  /\ replies \in [Requests -> Reply]
  /\ serving \in BOOLEAN

Holders == {r \in Requests : Holds(r)}

(* Every permit is free or owned by exactly one closure that has not ended,  *)
(* whatever happened to the handler that waits for it: the at most Permits   *)
(* parallel calculations of engine-v2.md.                                    *)
PermitsConserved == permits + Cardinality(Holders) = Permits

(* A worker lives only for a handler that still waits for it, as long as the *)
(* connection does; a handler that has answered has no worker left.          *)
WorkersAwaited ==
  \A r \in Requests :
    /\ handler[r] = "unsent" => worker[r] = "none"
    /\ Holds(r) => handler[r] = "awaiting" \/ (handler[r] = "dropped" /\ ~serving)
    /\ serving => handler[r] # "dropped"

(* A refused call is over: no worker was made for it, or ever will be. *)
RefusedNeverRuns ==
  \A r \in Requests :
    replies[r] = "LimitExceeded" => handler[r] = "answered" /\ worker[r] = "none"

Inv == TypeOK /\ PermitsConserved /\ WorkersAwaited /\ RefusedNeverRuns

(* The request that is refused finds as many other requests unanswered as    *)
(* there are permits: a client that has had an answer, an error included,    *)
(* can count on its permit being free.                                       *)
Unanswered == {q \in Requests : handler[q] = "awaiting"}

RefusedOnlyWhenFull ==
  [][\A r \in Requests : Refuse(r) => Cardinality(Unanswered) >= Permits]_gatewayVars

(* Every call that was admitted is answered or its connection is gone: no    *)
(* cancellation, deadline or panic leaves a handler waiting for ever.        *)
EveryCallEnds ==
  \A r \in Requests : handler[r] = "awaiting" ~> handler[r] \in {"answered", "dropped"}

(* Once the connection is gone all permits come back: no worker runs on.     *)
PermitsReturn == ~serving ~> permits = Permits

(* The gateway is a pool of permits. *)
Pool == INSTANCE PermitPool WITH
  admitted <- Holders,
  refused  <- {r \in Requests : replies[r] = "LimitExceeded"}

ImplementsPermitPool == Pool!Spec
=============================================================================
