--------------------------- MODULE ActorRegistry ---------------------------
(***************************************************************************)
(* The actor table of the trust registry: the handlers of                  *)
(* trustregistry/registry/registry_actors.py with the statements of        *)
(* trustregistry/crud.py they run.  Every request has a database session   *)
(* of its own, and PostgreSQL runs each statement under READ COMMITTED:    *)
(* between two statements of one request the statements of any other       *)
(* request may commit.  A statement that writes, and the commit right      *)
(* after it, are one step, because the row lock hides the gap.             *)
(***************************************************************************)
EXTENDS Integers, FiniteSets

CONSTANTS
  Request,     \* the HTTP requests that arrive
  Id,          \* actor ids (the wallet id of the tenant)
  Name, Did, Invitation, Image,
  None,        \* SQL NULL, "no row", "not answered yet"
  Calls        \* the calls a request may carry

Role == {"issuer", "verifier"}

Row == [name : Name, roles : SUBSET Role, did : Did,
        invitation : Invitation \cup {None}, image : Image \cup {None}]

ReadOp  == {"getAll", "getById", "getByName", "getByDid"}
WriteOp == {"create", "update", "delete"}

(* bodyId is the id inside the body of a PUT; the URL carries id.          *)
Call == [op : ReadOp \cup WriteOp, id : Id, bodyId : Id \cup {None}, body : Row]

Status == {"ok", "badRequest", "notFound", "conflict", "error"}

ASSUME CallsAssumption == Calls \subseteq Call

ASSUME NoneAssumption == None \notin Row \cup Call \cup Status
                                      \cup Image \cup Invitation \cup Id

VARIABLES
  actors,   \* the table: the row of each id, or None
  call,     \* what each request asks, None before it arrives
  pc,       \* the next statement of each request's handler
  seen,     \* the row an update read before it writes
  status,   \* the answer of each request, None while it runs
  effect    \* history: has the write of this request been committed?

vars == <<actors, call, pc, seen, status, effect>>

TypeOK ==
  /\ actors \in [Id -> Row \cup {None}]
  /\ call   \in [Request -> Calls \cup {None}]
  /\ pc     \in [Request -> {"idle", "first", "write", "refresh", "done"}]
  /\ seen   \in [Request -> Row \cup {None}]
  /\ status \in [Request -> Status \cup {None}]
  /\ effect \in [Request -> BOOLEAN]

Init ==
  /\ actors = [i \in Id |-> None]
  /\ call   = [r \in Request |-> None]
  /\ pc     = [r \in Request |-> "idle"]
  /\ seen   = [r \in Request |-> None]
  /\ status = [r \in Request |-> None]
  /\ effect = [r \in Request |-> FALSE]

-----------------------------------------------------------------------------
(* The column types and the unique indexes.                                *)

\* StringList stores the roles joined by commas and splits them when it
\* reads, so that no roles at all come back as one empty role.
ReadRoles(roles) == IF roles = {} THEN {""} ELSE roles

\* The response model accepts a row only if every role is a known one.
Readable(row) == ReadRoles(row.roles) \subseteq Role

SameKey(a, b) ==
  \/ a.name = b.name
  \/ a.did = b.did
  \/ a.invitation = b.invitation /\ a.invitation # None

\* Faulty variant: nobody declared the index on the invitation.
ClashesButInvitation(id, row) ==
  \E j \in Id \ {id} : /\ actors[j] # None
                      /\ (row.name = actors[j].name \/ row.did = actors[j].did)

\* A unique index of the table would be violated by this row at this id.
Clashes(id, row) == \E j \in Id \ {id} : actors[j] # None /\ SameKey(row, actors[j])

-----------------------------------------------------------------------------
(* Steps of a handler.                                                     *)

Answer(r, s) ==
  /\ status' = [status EXCEPT ![r] = s]
  /\ pc' = [pc EXCEPT ![r] = "done"]

\* A request arrives. A PUT whose body names another id stops here.
Receive(r, c) ==
  /\ pc[r] = "idle"
  /\ call' = [call EXCEPT ![r] = c]
  /\ IF c.op = "update" /\ c.bodyId \notin {None, c.id}
       THEN Answer(r, "badRequest")
       ELSE pc' = [pc EXCEPT ![r] = "first"] /\ UNCHANGED status
  /\ UNCHANGED <<actors, seen, effect>>

\* The rows one of the getters selects.
Selected(c) ==
  {i \in Id : /\ actors[i] # None
              /\ \/ c.op = "getAll"
                 \/ c.op = "getById"   /\ i = c.id
                 \/ c.op = "getByName" /\ actors[i].name = c.body.name
                 \/ c.op = "getByDid"  /\ actors[i].did = c.body.did}

Read(r) ==
  /\ pc[r] = "first"
  /\ call[r].op \in ReadOp
  /\ Answer(r, IF Selected(call[r]) = {} /\ call[r].op # "getAll" THEN "notFound"
               ELSE IF \A i \in Selected(call[r]) : Readable(actors[i]) THEN "ok"
               ELSE "error")
  /\ UNCHANGED <<actors, call, seen, effect>>

\* INSERT and COMMIT, or the IntegrityError of a unique index.
CreateInsert(r) ==
  LET c == call[r] IN
  /\ pc[r] = "first"
  /\ c.op = "create"
  /\ IF actors[c.id] # None \/ Clashes(c.id, c.body)
       THEN Answer(r, "conflict") /\ UNCHANGED <<actors, effect>>
       ELSE /\ actors' = [actors EXCEPT ![c.id] = c.body]
            /\ effect' = [effect EXCEPT ![r] = TRUE]
            /\ pc' = [pc EXCEPT ![r] = "refresh"]
            /\ UNCHANGED status
  /\ UNCHANGED <<call, seen>>

\* db_session.refresh reads the row again, in a new transaction. The row may
\* have gone, or may not be readable; then the committed create answers 500.
CreateRefresh(r) ==
  LET row == actors[call[r].id] IN
  /\ pc[r] = "refresh"
  /\ Answer(r, IF row # None /\ Readable(row) THEN "ok" ELSE "error")
  /\ UNCHANGED <<actors, call, seen, effect>>

\* The SELECT that asserts that the id exists, of an update or a delete.
SelectRow(r) ==
  LET c == call[r] IN
  /\ pc[r] = "first"
  /\ c.op \in {"update", "delete"}
  /\ IF actors[c.id] = None
       THEN Answer(r, "notFound") /\ UNCHANGED seen
       ELSE /\ seen' = [seen EXCEPT ![r] = actors[c.id]]
            /\ pc' = [pc EXCEPT ![r] = "write"]
            /\ UNCHANGED status
  /\ UNCHANGED <<actors, call, effect>>

\* Faulty variant: the image falls back to the whole row that was read.
NewRowOfRow(r) ==
  LET b == call[r].body IN
  IF b.image # None THEN b ELSE [b EXCEPT !.image = seen[r]]

\* Faulty variant: the invitation falls back to the row that was read, as the
\* image does.
NewRowMerged(r) ==
  LET b == call[r].body IN
  [b EXCEPT !.image = IF @ # None THEN @ ELSE seen[r].image,
            !.invitation = IF @ # None THEN @ ELSE seen[r].invitation]

\* The row an update writes. A PUT without an image keeps the image of the
\* row the SELECT returned, not of the row that is in the table by now.
NewRow(r) ==
  LET b == call[r].body IN
  IF b.image # None THEN b ELSE [b EXCEPT !.image = seen[r].image]

\* Faulty variant: an UPDATE that matched no row counts as a success.
UpdateWriteUnchecked(r) ==
  LET c == call[r] IN
  /\ pc[r] = "write"
  /\ c.op = "update"
  /\ \/ /\ actors[c.id] = None
        /\ Answer(r, "ok")
        /\ UNCHANGED <<actors, effect>>
     \/ /\ actors[c.id] # None
        /\ ~Clashes(c.id, NewRow(r))
        /\ actors' = [actors EXCEPT ![c.id] = NewRow(r)]
        /\ effect' = [effect EXCEPT ![r] = TRUE]
        /\ Answer(r, "ok")
  /\ UNCHANGED <<call, seen>>

\* Faulty variant: an UPDATE that matched no row is tried again.
UpdateWriteRetrying(r) ==
  LET c == call[r] IN
  /\ pc[r] = "write"
  /\ c.op = "update"
  /\ actors[c.id] # None
  /\ IF Clashes(c.id, NewRow(r))
       THEN Answer(r, "error") /\ UNCHANGED <<actors, effect>>
       ELSE /\ actors' = [actors EXCEPT ![c.id] = NewRow(r)]
            /\ effect' = [effect EXCEPT ![r] = TRUE]
            /\ Answer(r, "ok")
  /\ UNCHANGED <<call, seen>>

\* UPDATE ... RETURNING and COMMIT. No row matches when a delete came between;
\* a violated unique index is not caught here and becomes a 500. Whether an
\* empty role list reaches the response model as stored or as sent is up to
\* the session's identity map.
UpdateWrite(r) ==
  LET c == call[r] IN
  /\ pc[r] = "write"
  /\ c.op = "update"
  /\ \/ /\ actors[c.id] = None
        /\ Answer(r, "notFound")
        /\ UNCHANGED <<actors, effect>>
     \/ /\ actors[c.id] # None
        /\ Clashes(c.id, NewRow(r))
        /\ Answer(r, "error")
        /\ UNCHANGED <<actors, effect>>
     \/ /\ actors[c.id] # None
        /\ ~Clashes(c.id, NewRow(r))
        /\ actors' = [actors EXCEPT ![c.id] = NewRow(r)]
        /\ effect' = [effect EXCEPT ![r] = TRUE]
        /\ \/ Answer(r, "ok")
           \/ ~Readable(c.body) /\ Answer(r, "error")
  /\ UNCHANGED <<call, seen>>

\* DELETE and COMMIT: a delete that finds nothing left to remove succeeds too.
DeleteWrite(r) ==
  /\ pc[r] = "write"
  /\ call[r].op = "delete"
  /\ actors' = [actors EXCEPT ![call[r].id] = None]
  /\ effect' = [effect EXCEPT ![r] = TRUE]
  /\ Answer(r, "ok")
  /\ UNCHANGED <<call, seen>>

\* Any other exception of a statement rolls the session back and answers 500.
StatementFails(r) ==
  /\ pc[r] \in {"first", "write", "refresh"}
  /\ Answer(r, "error")
  /\ UNCHANGED <<actors, call, seen, effect>>

\* The connection is lost while COMMIT runs: the write is in, the answer is 500.
CommitUnknown(r) ==
  LET c == call[r] IN
  /\ \/ /\ pc[r] = "first" /\ c.op = "create"
        /\ actors[c.id] = None /\ ~Clashes(c.id, c.body)
        /\ actors' = [actors EXCEPT ![c.id] = c.body]
     \/ /\ pc[r] = "write" /\ c.op = "update"
        /\ actors[c.id] # None /\ ~Clashes(c.id, NewRow(r))
        /\ actors' = [actors EXCEPT ![c.id] = NewRow(r)]
     \/ /\ pc[r] = "write" /\ c.op = "delete"
        /\ actors' = [actors EXCEPT ![c.id] = None]
  /\ effect' = [effect EXCEPT ![r] = TRUE]
  /\ Answer(r, "error")
  /\ UNCHANGED <<call, seen>>

Statement(r) ==
  \/ Read(r) \/ CreateInsert(r) \/ CreateRefresh(r)
  \/ SelectRow(r) \/ UpdateWrite(r) \/ DeleteWrite(r)

Fault(r) == StatementFails(r) \/ CommitUnknown(r)

AllAnswered == /\ \A r \in Request : pc[r] = "done"
               /\ UNCHANGED vars

Next ==
  \/ \E r \in Request :
       \/ \E c \in Calls : Receive(r, c)
       \/ Statement(r)
       \/ Fault(r)
  \/ AllAnswered

Spec == Init /\ [][Next]_vars

\* A handler that has started goes on: the event loop runs each request's task.
FairSpec == Spec /\ \A r \in Request : WF_vars(Statement(r))

-----------------------------------------------------------------------------
(* Correctness.                                                            *)

\* No two actors share a name, a DID or an invitation, whatever the
\* interleaving of creates and updates (the unique indexes of db.Actor).
UniqueKeys ==
  \A i, j \in Id :
    i # j /\ actors[i] # None /\ actors[j] # None => ~SameKey(actors[i], actors[j])

Wrote(r, i) ==
  /\ effect[r]
  /\ call[r].op \in {"create", "update"}
  /\ call[r].id = i

\* Every image in the table, and every image an update holds from its SELECT,
\* was sent by a request that wrote that very actor.
ImageSent(i, img) ==
  img # None => \E q \in Request : Wrote(q, i) /\ call[q].body.image = img

\* A row is never a mixture of two requests: all its columns but the image
\* come from one committed create or update of that actor, however many
\* updates interleave their SELECT and UPDATE; the image comes from a
\* committed request for the same actor.
NoTornRow ==
  \A i \in Id : actors[i] # None =>
    /\ \E r \in Request : Wrote(r, i)
                          /\ [actors[i] EXCEPT !.image = None]
                               = [call[r].body EXCEPT !.image = None]
    /\ ImageSent(i, actors[i].image)

\* The same of the image an update carries over from its SELECT to its UPDATE,
\* without which NoTornRow is not inductive.
SeenImageSent ==
  \A r \in Request : pc[r] = "write" => ImageSent(call[r].id, seen[r].image)

\* Where each handler stands, and what follows from it.
HandlerState ==
  \A r \in Request :
    /\ pc[r] = "idle" <=> call[r] = None
    /\ pc[r] = "done" <=> status[r] # None
    /\ pc[r] \in {"idle", "first", "write"} => ~effect[r]
    /\ pc[r] = "refresh" => effect[r] /\ call[r].op = "create"
    /\ pc[r] = "write" => call[r].op \in {"update", "delete"} /\ seen[r] # None

\* Every request that arrives is answered: no handler is stuck between its
\* two statements, whatever the others have done to the row in between.
EveryRequestAnswered ==
  \A r \in Request : pc[r] # "idle" ~> pc[r] = "done"

-----------------------------------------------------------------------------
(* What the table and the answers promise, see AtomicRegistry.             *)

Promise == INSTANCE AtomicRegistry

Atomic == Promise!Spec
=============================================================================
