----------------------------- MODULE GatewayMC -----------------------------
(***************************************************************************)
(* A small instance of Gateway: as many calls as the semaphore has permits *)
(* and more, one of them to the V1 tool.                                   *)
(***************************************************************************)
EXTENDS Gateway

(* A deadline is looked at by a running worker only: two states that differ *)
(* in the deadlines of ended ones have the same future.                     *)
LiveDeadlines ==
  <<permits, handler, worker, cancelled, expired \cap Holders, result, replies, serving>>
============================================================================
