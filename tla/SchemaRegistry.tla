---------------------------- MODULE SchemaRegistry ----------------------------
(***************************************************************************)
(* The schema table of the trust registry: the handlers of                 *)
(* trustregistry/registry/registry_schemas.py with the statements of       *)
(* trustregistry/crud.py they run, under the same rules as ActorRegistry.  *)
(*                                                                         *)
(* There are two kinds of schema ids. That of a legacy schema is computed  *)
(* from its DID, name and version, and here it is that record; db.Schema   *)
(* computes it once more whenever a row is updated. That of a did:cheqd    *)
(* schema names a resource of the DID, and contains a slash, which the     *)
(* routes of PUT and DELETE do not match. Ids that are neither are refused *)
(* in two ways: those with too few parts raise an IndexError, those that   *)
(* are not what their DID, name and version make fail the validation.      *)
(***************************************************************************)
EXTENDS Integers, FiniteSets

CONSTANTS
  Request,
  Did, Name, Version,
  Cheqd,       \* did:cheqd ids
  CheqdDid,    \* and the DID in front of the slash of each
  TooShort,    \* ids with fewer than four parts
  Mismatched,  \* ids with another marker than 2, or with more colons
  None,        \* "no row", "not answered yet"
  Calls        \* the calls a request may carry

Columns == [did : Did, name : Name, version : Version]

Legacy == Columns

Malformed == TooShort \cup Mismatched

SchemaId == Legacy \cup Cheqd \cup Malformed

ReadOp == {"get", "getAll"}

\* newId is the id in the body of a PUT.
Call == [op : ReadOp \cup {"register", "update", "remove"},
         id : SchemaId, newId : SchemaId \cup {None}]

Status == {"ok", "badRequest", "invalid", "notFound", "notAllowed", "conflict", "error"}

ASSUME SchemaCalls == Calls \subseteq Call /\ \A c \in Calls : c.op = "update" => c.newId # None
ASSUME CheqdDids == CheqdDid \in [Cheqd -> Did]
ASSUME SchemaKinds ==
  /\ Legacy \cap Cheqd = {}
  /\ Legacy \cap Malformed = {}
  /\ Cheqd \cap Malformed = {}
  /\ TooShort \cap Mismatched = {}
ASSUME SchemaNone == None \notin SchemaId \cup Call \cup Status

VARIABLES
  schemas,   \* the table: the columns of each id, or None
  call,      \* what each request asks
  pc,        \* the next step of each request's handler
  draft,     \* the columns a request is going to write
  status,    \* the answer of each request, None while it runs
  effect     \* history: has the write of this request been committed?

vars == <<schemas, call, pc, draft, status, effect>>

TypeOK ==
  /\ schemas \in [SchemaId -> Columns \cup {None}]
  /\ call    \in [Request -> Calls \cup {None}]
  /\ pc      \in [Request -> {"idle", "resolve", "first", "write", "refresh", "done"}]
  /\ draft   \in [Request -> Columns \cup {None}]
  /\ status  \in [Request -> Status \cup {None}]
  /\ effect  \in [Request -> BOOLEAN]

Init ==
  /\ schemas = [s \in SchemaId |-> None]
  /\ call    = [r \in Request |-> None]
  /\ pc      = [r \in Request |-> "idle"]
  /\ draft   = [r \in Request |-> None]
  /\ status  = [r \in Request |-> None]
  /\ effect  = [r \in Request |-> FALSE]

-----------------------------------------------------------------------------
Answer(r, s) ==
  /\ status' = [status EXCEPT ![r] = s]
  /\ pc' = [pc EXCEPT ![r] = "done"]

Goto(r, step) == pc' = [pc EXCEPT ![r] = step] /\ UNCHANGED status

\* Faulty variant: the ids of PUT and DELETE are declared as paths.
RoutesEveryId(c) == TRUE

\* The routes of PUT and DELETE take one segment of the path.
Routed(c) == c.op \in {"update", "remove"} => c.id \notin Cheqd

\* The id whose parts become the columns: that of the body.
Posted(c) == IF c.op = "update" THEN c.newId ELSE c.id

\* A request arrives; some are refused before the database is asked. A PUT to a
\* did:cheqd id indexes the empty list of its parts.
Receive(r, c) ==
  LET posts == c.op = "register" \/ (c.op = "update" /\ c.newId # c.id) IN
  /\ pc[r] = "idle"
  /\ call' = [call EXCEPT ![r] = c]
  /\ \/ /\ ~Routed(c)
        /\ Answer(r, "notAllowed") /\ UNCHANGED draft
     \/ /\ Routed(c) /\ c.op = "update" /\ c.newId = c.id
        /\ Answer(r, "badRequest") /\ UNCHANGED draft
     \/ /\ Routed(c) /\ posts /\ Posted(c) \in Mismatched
        /\ Answer(r, "invalid") /\ UNCHANGED draft
     \/ /\ Routed(c) /\ posts
        /\ Posted(c) \in TooShort \/ (c.op = "update" /\ c.newId \in Cheqd)
        /\ Answer(r, "error") /\ UNCHANGED draft
     \/ /\ Routed(c) /\ posts /\ Posted(c) \in Legacy
        /\ Goto(r, "first") /\ draft' = [draft EXCEPT ![r] = Posted(c)]
     \/ /\ c.op = "register" /\ c.id \in Cheqd
        /\ Goto(r, "resolve") /\ UNCHANGED draft
     \/ /\ Routed(c) /\ c.op \in {"remove"} \cup ReadOp
        /\ Goto(r, "first") /\ UNCHANGED draft
  /\ UNCHANGED <<schemas, effect>>

\* resolve_cheqd_schema gives the name and the version; the DID is that of the id.
Resolve(r) ==
  /\ pc[r] = "resolve"
  /\ \E columns \in Columns :
       /\ columns.did = CheqdDid[call[r].id]
       /\ draft' = [draft EXCEPT ![r] = columns]
  /\ Goto(r, "first")
  /\ UNCHANGED <<schemas, call, effect>>

Read(r) ==
  /\ pc[r] = "first"
  /\ call[r].op \in ReadOp
  /\ Answer(r, IF call[r].op = "get" /\ schemas[call[r].id] = None THEN "notFound" ELSE "ok")
  /\ UNCHANGED <<schemas, call, draft, effect>>

\* Faulty variant: the id is stored before it is split or resolved.
InsertedRaw(r) == [schemas EXCEPT ![call[r].id] = call[r].id]

\* The table after a committed INSERT of this request.
Inserted(r) == [schemas EXCEPT ![call[r].id] = draft[r]]

\* INSERT and COMMIT, or the IntegrityError of the primary key.
Insert(r) ==
  /\ pc[r] = "first"
  /\ call[r].op = "register"
  /\ \/ /\ schemas[call[r].id] # None
        /\ Answer(r, "conflict")
        /\ UNCHANGED <<schemas, effect>>
     \/ /\ schemas[call[r].id] = None
        /\ schemas' = Inserted(r)
        /\ effect' = [effect EXCEPT ![r] = TRUE]
        /\ Goto(r, "refresh")
  /\ UNCHANGED <<call, draft>>

\* db_session.refresh does not find a row that was removed or renamed meanwhile.
Refresh(r) ==
  /\ pc[r] = "refresh"
  /\ Answer(r, IF schemas[call[r].id] = None THEN "error" ELSE "ok")
  /\ UNCHANGED <<schemas, call, draft, effect>>

\* The SELECT of an update or a removal, which answer a missing row differently.
SelectRow(r) ==
  LET c == call[r] IN
  /\ pc[r] = "first"
  /\ c.op \in {"update", "remove"}
  /\ IF schemas[c.id] # None THEN Goto(r, "write")
     ELSE Answer(r, IF c.op = "update" THEN "notAllowed" ELSE "notFound")
  /\ UNCHANGED <<schemas, call, draft, effect>>

\* Faulty variant: the column of the id has no onupdate.
RenamedInPlace(r) == [schemas EXCEPT ![call[r].id] = draft[r]]

\* The table after a committed UPDATE: onupdate computes the id from the columns.
Renamed(r) == [schemas EXCEPT ![call[r].id] = None, ![call[r].newId] = draft[r]]

\* Faulty variant: the row that UPDATE ... RETURNING returned is not looked at.
UpdateWriteUnchecked(r) ==
  LET c == call[r] IN
  /\ pc[r] = "write"
  /\ c.op = "update"
  /\ \/ schemas[c.id] = None /\ Answer(r, "ok") /\ UNCHANGED <<schemas, effect>>
     \/ /\ schemas[c.id] # None /\ schemas[c.newId] = None
        /\ schemas' = Renamed(r)
        /\ effect' = [effect EXCEPT ![r] = TRUE]
        /\ Answer(r, "ok")
  /\ UNCHANGED <<call, draft>>

\* UPDATE ... RETURNING and COMMIT. No row matches if it was removed or renamed
\* meanwhile; a new id that exists violates the primary key, which nobody catches.
UpdateWrite(r) ==
  LET c == call[r] IN
  /\ pc[r] = "write"
  /\ c.op = "update"
  /\ \/ schemas[c.id] = None /\ Answer(r, "notAllowed") /\ UNCHANGED <<schemas, effect>>
     \/ /\ schemas[c.id] # None /\ schemas[c.newId] # None
        /\ Answer(r, "error")
        /\ UNCHANGED <<schemas, effect>>
     \/ /\ schemas[c.id] # None /\ schemas[c.newId] = None
        /\ schemas' = Renamed(r)
        /\ effect' = [effect EXCEPT ![r] = TRUE]
        /\ Answer(r, "ok")
  /\ UNCHANGED <<call, draft>>

Removed(r) == [schemas EXCEPT ![call[r].id] = None]

\* DELETE and COMMIT, which does not mind that there is nothing left to remove.
DeleteWrite(r) ==
  /\ pc[r] = "write"
  /\ call[r].op = "remove"
  /\ schemas' = Removed(r)
  /\ effect' = [effect EXCEPT ![r] = TRUE]
  /\ Answer(r, "ok")
  /\ UNCHANGED <<call, draft>>

\* The resolver fails, its answer has no name or version, or a statement fails.
StepFails(r) ==
  /\ pc[r] \in {"resolve", "first", "write", "refresh"}
  /\ Answer(r, "error")
  /\ UNCHANGED <<schemas, call, draft, effect>>

\* The connection is lost while COMMIT runs: the write is in, the answer is 500.
CommitUnknown(r) ==
  LET c == call[r] IN
  /\ \/ /\ pc[r] = "first" /\ c.op = "register" /\ schemas[c.id] = None
        /\ schemas' = Inserted(r)
     \/ /\ pc[r] = "write" /\ c.op = "update"
        /\ schemas[c.id] # None /\ schemas[c.newId] = None
        /\ schemas' = Renamed(r)
     \/ /\ pc[r] = "write" /\ c.op = "remove"
        /\ schemas' = Removed(r)
  /\ effect' = [effect EXCEPT ![r] = TRUE]
  /\ Answer(r, "error")
  /\ UNCHANGED <<call, draft>>

Handler(r) ==
  \/ Resolve(r) \/ Read(r) \/ Insert(r) \/ Refresh(r)
  \/ SelectRow(r) \/ UpdateWrite(r) \/ DeleteWrite(r)

AllAnswered == /\ \A r \in Request : pc[r] = "done"
               /\ UNCHANGED vars

Next ==
  \/ \E r \in Request :
       \/ \E c \in Calls : Receive(r, c)
       \/ Handler(r)
       \/ StepFails(r) \/ CommitUnknown(r)
  \/ AllAnswered

Spec == Init /\ [][Next]_vars

-----------------------------------------------------------------------------
(* Correctness.                                                            *)

\* A row is found under the id that its columns make, also after any number of
\* updates that race each other: get_schemas builds a shared.models Schema of
\* every row, and one row that contradicts its id makes every listing fail.
IdMatchesColumns ==
  \A s \in SchemaId : schemas[s] # None =>
    \/ s \in Legacy /\ schemas[s] = s
    \/ s \in Cheqd /\ schemas[s].did = CheqdDid[s]

\* What the handler of each request holds, and what follows from where it stands.
HandlerState ==
  \A r \in Request :
    /\ pc[r] = "idle" <=> call[r] = None
    /\ pc[r] = "done" <=> status[r] # None
    /\ pc[r] \in {"idle", "resolve", "first", "write"} => ~effect[r]
    /\ pc[r] = "resolve" => call[r].op = "register" /\ call[r].id \in Cheqd
    /\ pc[r] = "refresh" => effect[r] /\ call[r].op = "register"
    /\ pc[r] = "write" => call[r].op \in {"update", "remove"}
    /\ pc[r] \in {"first", "write"} /\ call[r].op = "update" =>
         call[r].newId \in Legacy /\ draft[r] = call[r].newId /\ call[r].id # call[r].newId
    /\ pc[r] = "first" /\ call[r].op = "register" =>
         \/ call[r].id \in Legacy /\ draft[r] = call[r].id
         \/ call[r].id \in Cheqd /\ draft[r] \in Columns
                                 /\ draft[r].did = CheqdDid[call[r].id]
    /\ pc[r] \in {"first", "write"} /\ call[r].op \in {"update", "remove"} =>
         call[r].id \notin Cheqd

\* A did:cheqd schema that was registered stays registered: no sequence of calls,
\* and no race of an update with a removal, takes it out of the registry.
CheqdStays ==
  [][\A s \in Cheqd : schemas[s] # None => schemas'[s] = schemas[s]]_schemas

-----------------------------------------------------------------------------
(* What the table and the answers promise, see AtomicSchemas.              *)

Promise == INSTANCE AtomicSchemas
             WITH registered <- {s \in SchemaId : schemas[s] # None}

Atomic == Promise!Spec
=============================================================================
