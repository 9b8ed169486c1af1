------------------------------ MODULE Requests ------------------------------
(***************************************************************************)
(* Requests under way in the gateway or in the tails server: what each     *)
(* asks, which of its calls comes next, and its answer. Tails,             *)
(* CredentialDefinitions and Revocation give the handlers, and             *)
(* RevocableCredentials runs them side by side. Handlers run in several    *)
(* processes, so that between two calls of one request any other may act.  *)
(***************************************************************************)
EXTENDS Integers

CONSTANTS
  N,         \* bound: requests in one behaviour
  Calls,     \* the calls a request may carry
  None,
  MaxFaults  \* bound: failing calls in one behaviour

ASSUME RequestBounds == N \in Nat /\ MaxFaults \in Nat

Request == 1 .. N

\* The answers, named for what they say: 409, 404, 400, 403, 501, 504 and 500.
Status == {"ok", "conflict", "missing", "bad", "refused", "unsupported", "timeout", "error"}

ASSUME RequestNone == None \notin Status

VARIABLES call, pc, status, faults

requests == <<call, pc, status, faults>>

\* Requests are numbered in the order in which they arrive.
Arrive(r, c, step) ==
  /\ pc[r] = "idle"
  /\ \A q \in Request : q < r => pc[q] # "idle"
  /\ call' = [call EXCEPT ![r] = c]
  /\ pc' = [pc EXCEPT ![r] = step]
  /\ UNCHANGED <<status, faults>>

Goto(r, step) ==
  /\ pc' = [pc EXCEPT ![r] = step]
  /\ UNCHANGED <<call, status, faults>>

Answer(r, s) ==
  /\ pc' = [pc EXCEPT ![r] = "done"]
  /\ status' = [status EXCEPT ![r] = s]
  /\ UNCHANGED <<call, faults>>

Fault == faults < MaxFaults /\ faults' = faults + 1

\* A call fails, or its answer is lost: the handler gives up with an error.
GiveUp(r) ==
  /\ Fault
  /\ pc' = [pc EXCEPT ![r] = "done"]
  /\ status' = [status EXCEPT ![r] = "error"]
  /\ UNCHANGED call

Answered(r, op, s) == call[r] # None /\ call[r].op = op /\ status[r] = s
=============================================================================
