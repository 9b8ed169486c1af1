--------------------------- MODULE AtomicRegistry ---------------------------
(***************************************************************************)
(* What the actor table promises its callers, without sessions, statements *)
(* or retries.  Each request takes effect at most once and at one instant; *)
(* a success means that it did take effect, a 4xx that it did not and never *)
(* will, and only a 500 leaves the caller in doubt.  The keys are unique at *)
(* every instant, because an effect that would break them cannot happen.    *)
(***************************************************************************)
EXTENDS Integers

CONSTANTS Request, Id, Name, Did, Invitation, Image, None, Calls

VARIABLES actors, call, status, effect

avars == <<actors, call, status, effect>>

SameKey(a, b) ==
  \/ a.name = b.name
  \/ a.did = b.did
  \/ a.invitation = b.invitation /\ a.invitation # None

Fits(i, row) == \A j \in Id \ {i} : actors[j] # None => ~SameKey(row, actors[j])

Init ==
  /\ actors = [i \in Id |-> None]
  /\ call   = [r \in Request |-> None]
  /\ status = [r \in Request |-> None]
  /\ effect = [r \in Request |-> FALSE]

Arrive(r, c) ==
  /\ call[r] = None
  /\ call' = [call EXCEPT ![r] = c]
  /\ \E s \in {None, "badRequest"} : status' = [status EXCEPT ![r] = s]
  /\ UNCHANGED <<actors, effect>>

Pending(r) == call[r] # None /\ status[r] = None

TakeEffect(r) ==
  LET c == call[r] IN
  /\ Pending(r) /\ ~effect[r]
  /\ \/ /\ c.op = "create" /\ actors[c.id] = None /\ Fits(c.id, c.body)
        /\ actors' = [actors EXCEPT ![c.id] = c.body]
     \/ /\ c.op = "update" /\ actors[c.id] # None
        /\ \E img \in Image \cup {None} :
             /\ c.body.image # None => img = c.body.image
             /\ Fits(c.id, [c.body EXCEPT !.image = img])
             /\ actors' = [actors EXCEPT ![c.id] = [c.body EXCEPT !.image = img]]
     \/ /\ c.op = "delete"
        /\ actors' = [actors EXCEPT ![c.id] = None]
  /\ effect' = [effect EXCEPT ![r] = TRUE]
  /\ \E s \in {None, "ok", "error"} : status' = [status EXCEPT ![r] = s]
  /\ UNCHANGED call

Confirm(r) ==
  /\ Pending(r) /\ effect[r]
  /\ \E s \in {"ok", "error"} : status' = [status EXCEPT ![r] = s]
  /\ UNCHANGED <<actors, call, effect>>

Refuse(r) ==
  /\ Pending(r) /\ ~effect[r]
  /\ \E s \in {"notFound", "conflict", "error"} :
       status' = [status EXCEPT ![r] = s]
  /\ UNCHANGED <<actors, call, effect>>

Report(r) ==
  /\ Pending(r) /\ call[r].op \notin {"create", "update", "delete"}
  /\ status' = [status EXCEPT ![r] = "ok"]
  /\ UNCHANGED <<actors, call, effect>>

Next ==
  \E r \in Request :
    \/ \E c \in Calls : Arrive(r, c)
    \/ TakeEffect(r) \/ Confirm(r) \/ Refuse(r) \/ Report(r)

Spec == Init /\ [][Next]_avars
=============================================================================
