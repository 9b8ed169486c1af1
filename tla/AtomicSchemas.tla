---------------------------- MODULE AtomicSchemas ----------------------------
(***************************************************************************)
(* What the schema table promises its callers: a set of registered ids, in *)
(* which each request takes effect at most once and at one instant. A      *)
(* success means that it did, a 4xx that it did not and never will, and a  *)
(* 500 leaves the caller in doubt. A schema that is given a new id never   *)
(* has two, and never takes the place of another one.                      *)
(***************************************************************************)
EXTENDS Integers

CONSTANTS Request, SchemaId, None, Calls

VARIABLES registered, call, status, effect

avars == <<registered, call, status, effect>>

Init ==
  /\ registered = {}
  /\ call   = [r \in Request |-> None]
  /\ status = [r \in Request |-> None]
  /\ effect = [r \in Request |-> FALSE]

Refusals == {"badRequest", "invalid", "notFound", "notAllowed", "conflict", "error"}

Arrive(r, c) ==
  /\ call[r] = None
  /\ call' = [call EXCEPT ![r] = c]
  /\ \E s \in {None} \cup Refusals : status' = [status EXCEPT ![r] = s]
  /\ UNCHANGED <<registered, effect>>

Pending(r) == call[r] # None /\ status[r] = None

TakeEffect(r) ==
  LET c == call[r] IN
  /\ Pending(r) /\ ~effect[r]
  /\ \/ /\ c.op = "register" /\ c.id \notin registered
        /\ registered' = registered \cup {c.id}
     \/ /\ c.op = "update" /\ c.id \in registered /\ c.newId \notin registered
        /\ registered' = (registered \ {c.id}) \cup {c.newId}
     \/ /\ c.op = "remove"
        /\ registered' = registered \ {c.id}
  /\ effect' = [effect EXCEPT ![r] = TRUE]
  /\ \E s \in {None, "ok", "error"} : status' = [status EXCEPT ![r] = s]
  /\ UNCHANGED call

Confirm(r) ==
  /\ Pending(r) /\ effect[r]
  /\ \E s \in {"ok", "error"} : status' = [status EXCEPT ![r] = s]
  /\ UNCHANGED <<registered, call, effect>>

Refuse(r) ==
  /\ Pending(r) /\ ~effect[r]
  /\ \E s \in Refusals : status' = [status EXCEPT ![r] = s]
  /\ UNCHANGED <<registered, call, effect>>

\* A getter finds a schema only if it is registered at that instant.
Report(r) ==
  /\ Pending(r)
  /\ call[r].op = "getAll" \/ (call[r].op = "get" /\ call[r].id \in registered)
  /\ status' = [status EXCEPT ![r] = "ok"]
  /\ UNCHANGED <<registered, call, effect>>

Next ==
  \E r \in Request :
    \/ \E c \in Calls : Arrive(r, c)
    \/ TakeEffect(r) \/ Confirm(r) \/ Refuse(r) \/ Report(r)

Spec == Init /\ [][Next]_avars
=============================================================================
