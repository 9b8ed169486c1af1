----------------------- MODULE SchemaRegistryProofs -----------------------
(***************************************************************************)
(* Proofs about SchemaRegistry, for any number of requests, DIDs, names,   *)
(* versions and did:cheqd schemas.                                         *)
(***************************************************************************)
EXTENDS SchemaRegistry, TLAPS

\* None is told apart from every id, every call and every row.
LEMMA NoneIsNoValue ==
  /\ None \notin SchemaId /\ None \notin Columns
  /\ None \notin Calls
  /\ None \notin Status
BY SchemaNone, SchemaCalls DEF SchemaId, Legacy

\* What the routes let through has an id of the table, and an update a new one.
LEMMA CallFields ==
  ASSUME NEW c \in Calls
  PROVE  /\ c.id \in SchemaId
         /\ c.newId \in SchemaId \cup {None}
         /\ c.op \in {"get", "getAll", "register", "update", "remove"}
BY SchemaCalls DEF Call, ReadOp

\* The kinds of ids do not overlap, and a legacy id is its own columns.
LEMMA KindsOfIds ==
  /\ Legacy = Columns /\ Legacy \subseteq SchemaId /\ Cheqd \subseteq SchemaId
  /\ Legacy \cap Cheqd = {}
  /\ Malformed \cap (Legacy \cup Cheqd) = {}
BY SchemaKinds DEF SchemaId, Legacy

-----------------------------------------------------------------------------
(* Types and handler states.                                               *)

Base == TypeOK /\ HandlerState

\* The initial states satisfy Base.
LEMMA BaseInit == Init => Base
BY NoneIsNoValue DEF Init, Base, TypeOK, HandlerState, Status

\* Every step keeps Base.
LEMMA BaseStep == Base /\ [Next]_vars => Base'
<1> SUFFICES ASSUME Base, [Next]_vars PROVE Base'
  OBVIOUS
<1> USE NoneIsNoValue DEF Base, TypeOK, HandlerState, Answer, Goto
<1>1. ASSUME NEW r \in Request, NEW c \in Calls, Receive(r, c)
      PROVE  Base'
  <2>1. call' = [call EXCEPT ![r] = c] /\ pc[r] = "idle" /\ UNCHANGED <<schemas, effect>>
    BY <1>1 DEF Receive
  <2>2. CASE \E s \in Status : Answer(r, s) /\ UNCHANGED draft
    <3>1. PICK s \in Status : Answer(r, s)
      BY <2>2
    <3> QED
      BY <2>1, <2>2, <3>1
  <2>3. CASE /\ Goto(r, "first") /\ draft' = [draft EXCEPT ![r] = Posted(c)]
             /\ Posted(c) \in Legacy /\ Routed(c)
             /\ c.op = "register" \/ (c.op = "update" /\ c.newId # c.id)
    BY <2>1, <2>3, KindsOfIds DEF Posted, Routed
  <2>4. CASE Goto(r, "resolve") /\ UNCHANGED draft /\ c.op = "register" /\ c.id \in Cheqd
    BY <2>1, <2>4
  <2>5. CASE Goto(r, "first") /\ UNCHANGED draft /\ Routed(c) /\ c.op \in {"remove"} \cup ReadOp
    BY <2>1, <2>5 DEF Routed, ReadOp
  <2> QED
    BY <1>1, <2>2, <2>3, <2>4, <2>5 DEF Receive, Status
<1>2. ASSUME NEW r \in Request, Resolve(r)
      PROVE  Base'
  BY <1>2 DEF Resolve
<1>3. ASSUME NEW r \in Request, NEW s \in Status, Answer(r, s),
             pc[r] \notin {"idle", "done"}, UNCHANGED <<schemas, call, draft, effect>>
      PROVE  Base'
  BY <1>3
<1>4. ASSUME NEW r \in Request, Insert(r)
      PROVE  Base'
  <2>1. pc[r] = "first" /\ call[r].op = "register" /\ call[r] \in Calls
        /\ UNCHANGED <<call, draft>>
    BY <1>4 DEF Insert
  <2>2. CASE Answer(r, "conflict") /\ UNCHANGED <<schemas, effect>>
    BY <2>1, <2>2, <1>3 DEF Status
  <2>3. CASE /\ schemas' = Inserted(r)
             /\ effect' = [effect EXCEPT ![r] = TRUE]
             /\ Goto(r, "refresh")
    <3>1. draft[r] \in Columns
      BY <2>1, KindsOfIds
    <3>2. schemas' \in [SchemaId -> Columns \cup {None}]
      BY <2>3, <3>1 DEF Inserted
    <3>3. effect' = [effect EXCEPT ![r] = TRUE] /\ pc' = [pc EXCEPT ![r] = "refresh"]
          /\ UNCHANGED <<status, call, draft>>
      BY <2>1, <2>3
    <3>4. TypeOK'
      BY <3>2, <3>3
    <3>5. HandlerState'
      BY <2>1, <3>3
    <3> QED
      BY <3>4, <3>5
  <2> QED
    BY <1>4, <2>2, <2>3 DEF Insert
<1>5. ASSUME NEW r \in Request, SelectRow(r)
      PROVE  Base'
  <2>1. CASE Goto(r, "write") /\ call[r].op \in {"update", "remove"} /\ pc[r] = "first"
             /\ UNCHANGED <<schemas, call, draft, effect>>
    BY <2>1
  <2>2. CASE Answer(r, "notAllowed") \/ Answer(r, "notFound")
    BY <1>5, <2>2, <1>3 DEF SelectRow, Status
  <2> QED
    BY <1>5, <2>1, <2>2 DEF SelectRow
<1>6. ASSUME NEW r \in Request, NEW s \in Status, Answer(r, s), pc[r] \in {"first", "write"},
             schemas' \in [SchemaId -> Columns \cup {None}],
             effect' = [effect EXCEPT ![r] = TRUE], UNCHANGED <<call, draft>>
      PROVE  Base'
  BY <1>6
<1>7. ASSUME NEW r \in Request, pc[r] \in {"first", "write"}
      PROVE  /\ Removed(r) \in [SchemaId -> Columns \cup {None}]
             /\ call[r].op = "register" /\ pc[r] = "first" => Inserted(r) \in [SchemaId -> Columns \cup {None}]
             /\ call[r].op = "update" => Renamed(r) \in [SchemaId -> Columns \cup {None}]
  BY <1>7, KindsOfIds DEF Removed, Inserted, Renamed
<1>8. ASSUME NEW r \in Request, UpdateWrite(r)
      PROVE  Base'
  <2>1. pc[r] = "write" /\ call[r].op = "update" /\ UNCHANGED <<call, draft>>
    BY <1>8 DEF UpdateWrite
  <2>2. CASE (Answer(r, "notAllowed") \/ Answer(r, "error")) /\ UNCHANGED <<schemas, effect>>
    BY <2>1, <2>2, <1>3 DEF Status
  <2>3. CASE /\ schemas' = Renamed(r) /\ effect' = [effect EXCEPT ![r] = TRUE]
             /\ Answer(r, "ok")
    BY <2>1, <2>3, <1>6, <1>7 DEF Status
  <2> QED
    BY <1>8, <2>2, <2>3 DEF UpdateWrite
<1>9. ASSUME NEW r \in Request, DeleteWrite(r)
      PROVE  Base'
  BY <1>9, <1>6, <1>7 DEF DeleteWrite, Status
<1>10. ASSUME NEW r \in Request, Read(r) \/ Refresh(r) \/ StepFails(r)
       PROVE  Base'
  <2>1. PICK s \in Status : Answer(r, s)
    BY <1>10 DEF Read, Refresh, StepFails, Status
  <2>2. pc[r] \notin {"idle", "done"} /\ UNCHANGED <<schemas, call, draft, effect>>
    BY <1>10 DEF Read, Refresh, StepFails
  <2> QED
    BY <1>3, <2>1, <2>2
<1>11. ASSUME NEW r \in Request, CommitUnknown(r)
       PROVE  Base'
  <2>1. pc[r] \in {"first", "write"} /\ Answer(r, "error") /\ UNCHANGED <<call, draft>>
        /\ effect' = [effect EXCEPT ![r] = TRUE]
    BY <1>11 DEF CommitUnknown
  <2>2. schemas' \in [SchemaId -> Columns \cup {None}]
    BY <1>11, <2>1, <1>7 DEF CommitUnknown
  <2> QED
    BY <2>1, <2>2, <1>6 DEF Status
<1>12. CASE UNCHANGED vars
  BY <1>12 DEF vars
<1> QED
  BY <1>1, <1>2, <1>4, <1>5, <1>8, <1>9, <1>10, <1>11, <1>12
     DEF Next, Handler, AllAnswered

\* Type correctness of the table, the handlers and the answers.
THEOREM TypeCorrect == Spec => [](TypeOK /\ HandlerState)
<1>1. Init => Base
  BY BaseInit
<1>2. Base /\ [Next]_vars => Base'
  BY BaseStep
<1>3. Base => TypeOK /\ HandlerState
  BY DEF Base
<1> QED
  BY <1>1, <1>2, <1>3, PTL DEF Spec

-----------------------------------------------------------------------------
(* Every step is a write of one request, or leaves the table alone.        *)

\* The one step of request r that changes the table.
Writes(r) ==
  LET c == call[r] IN
  /\ \/ /\ c.op = "register" /\ pc[r] = "first" /\ schemas[c.id] = None
        /\ schemas' = Inserted(r)
     \/ /\ c.op = "update" /\ pc[r] = "write"
        /\ schemas[c.id] # None /\ schemas[c.newId] = None
        /\ schemas' = Renamed(r)
     \/ /\ c.op = "remove" /\ pc[r] = "write"
        /\ schemas' = Removed(r)
  /\ effect' = [effect EXCEPT ![r] = TRUE]
  /\ \/ UNCHANGED status
     \/ \E s \in {"ok", "error"} : status' = [status EXCEPT ![r] = s]
  /\ UNCHANGED <<call, draft>>

\* A step writes the table for one request or leaves it alone.
LEMMA StepKinds ==
  ASSUME Base, Next
  PROVE  UNCHANGED <<schemas, effect>> \/ \E r \in Request : Writes(r)
<1>1. ASSUME NEW r \in Request, Insert(r) \/ UpdateWrite(r)
      PROVE  UNCHANGED <<schemas, effect>> \/ Writes(r)
  BY <1>1 DEF Insert, UpdateWrite, Writes, Answer, Goto
<1>2. ASSUME NEW r \in Request, DeleteWrite(r) \/ CommitUnknown(r)
      PROVE  Writes(r)
  BY <1>2 DEF DeleteWrite, CommitUnknown, Writes, Answer
<1>3. ASSUME NEW r \in Request,
             \/ \E c \in Calls : Receive(r, c)
             \/ Resolve(r) \/ Read(r) \/ Refresh(r) \/ SelectRow(r) \/ StepFails(r)
      PROVE  UNCHANGED <<schemas, effect>>
  BY <1>3 DEF Receive, Resolve, Read, Refresh, SelectRow, StepFails
<1> QED
  BY <1>1, <1>2, <1>3 DEF Next, Handler, AllAnswered, vars

\* What a write does to the rows, id by id.
LEMMA WrittenRows ==
  ASSUME Base, NEW r \in Request, Writes(r)
  PROVE  /\ call[r] \in Calls /\ status[r] = None /\ ~effect[r]
         /\ \/ /\ call[r].op = "register" /\ schemas[call[r].id] = None
               /\ call[r].id \in Legacy \cup Cheqd
               /\ draft[r] \in Columns
               /\ call[r].id \in Legacy => draft[r] = call[r].id
               /\ call[r].id \in Cheqd => draft[r].did = CheqdDid[call[r].id]
               /\ \A s \in SchemaId :
                    schemas'[s] = IF s = call[r].id THEN draft[r] ELSE schemas[s]
            \/ /\ call[r].op = "update" /\ schemas[call[r].id] # None
               /\ call[r].newId \in Legacy /\ schemas[call[r].newId] = None
               /\ call[r].id \notin Cheqd /\ call[r].newId # call[r].id
               /\ \A s \in SchemaId :
                    schemas'[s] = IF s = call[r].newId THEN s
                                  ELSE IF s = call[r].id THEN None ELSE schemas[s]
            \/ /\ call[r].op = "remove" /\ call[r].id \notin Cheqd
               /\ \A s \in SchemaId :
                    schemas'[s] = IF s = call[r].id THEN None ELSE schemas[s]
<1> USE NoneIsNoValue, KindsOfIds DEF Base, TypeOK, HandlerState, Writes
<1>1. call[r] \in Calls /\ status[r] = None /\ ~effect[r]
  OBVIOUS
<1>2. CASE call[r].op = "register"
  BY <1>1, <1>2, CallFields DEF Inserted
<1>3. CASE call[r].op = "update"
  BY <1>1, <1>3, CallFields DEF Renamed
<1>4. CASE call[r].op = "remove"
  BY <1>1, <1>4, CallFields DEF Removed
<1> QED
  BY <1>1, <1>2, <1>3, <1>4

-----------------------------------------------------------------------------
(* The rows and their ids.                                                 *)

\* No write separates the id of a row from its columns.
LEMMA IdStep ==
  ASSUME Base, IdMatchesColumns, [Next]_vars
  PROVE  IdMatchesColumns'
<1>1. CASE UNCHANGED schemas
  BY <1>1 DEF IdMatchesColumns
<1>2. ASSUME NEW r \in Request, Writes(r)
      PROVE  IdMatchesColumns'
  BY <1>2, WrittenRows, KindsOfIds, NoneIsNoValue DEF IdMatchesColumns
<1> QED
  BY <1>1, <1>2, StepKinds DEF vars

\* No sequence of registrations and racing updates leaves a row under an id that
\* its columns do not make.
THEOREM IdsMatchColumns == Spec => []IdMatchesColumns
<1>1. Init => Base /\ IdMatchesColumns
  BY BaseInit DEF Init, IdMatchesColumns
<1>2. Base /\ IdMatchesColumns /\ [Next]_vars => (Base /\ IdMatchesColumns)'
  BY BaseStep, IdStep
<1> QED
  BY <1>1, <1>2, PTL DEF Spec

\* A registered did:cheqd schema can neither be removed nor renamed.
THEOREM CheqdSchemasStay == Spec => CheqdStays
<1> DEFINE Stays == \A s \in Cheqd : schemas[s] # None => schemas'[s] = schemas[s]
<1>1. Init => Base
  BY BaseInit
<1>2. Base /\ [Next]_vars => Base'
  BY BaseStep
<1>3. Base /\ [Next]_vars => [Stays]_schemas
  <2> SUFFICES ASSUME Base, [Next]_vars
               PROVE  [Stays]_schemas
    OBVIOUS
  <2>1. ASSUME NEW r \in Request, Writes(r)
        PROVE  Stays
    BY <2>1, WrittenRows, KindsOfIds
  <2> QED
    BY <2>1, StepKinds DEF vars
<1> QED
  BY <1>1, <1>2, <1>3, PTL DEF Spec, CheqdStays

-----------------------------------------------------------------------------
(* The table keeps the promise of AtomicSchemas.                           *)

Registered == {s \in SchemaId : schemas[s] # None}

\* The commit of a request is the instant at which the promise takes effect.
LEMMA PromiseWrite ==
  ASSUME Base, NEW r \in Request, Writes(r)
  PROVE  Promise!TakeEffect(r)
<1>1. call[r] \in Calls /\ Promise!Pending(r) /\ ~effect[r]
  BY WrittenRows, NoneIsNoValue DEF Promise!Pending
<1>2. /\ effect' = [effect EXCEPT ![r] = TRUE] /\ UNCHANGED call
      /\ \E s \in {None, "ok", "error"} : status' = [status EXCEPT ![r] = s]
  <2>1. status = [status EXCEPT ![r] = None]
    BY WrittenRows DEF Base, TypeOK
  <2> QED
    BY <2>1 DEF Writes
<1>3. CASE call[r].op = "register"
  <2>1. call[r].id \in SchemaId \ Registered /\ Registered' = Registered \cup {call[r].id}
    BY <1>1, <1>3, WrittenRows, CallFields, NoneIsNoValue DEF Registered
  <2> QED
    BY <1>1, <1>2, <1>3, <2>1 DEF Promise!TakeEffect, Registered
<1>4. CASE call[r].op = "update"
  <2>1. /\ call[r].id \in Registered /\ call[r].newId \notin Registered
        /\ Registered' = (Registered \ {call[r].id}) \cup {call[r].newId}
    BY <1>1, <1>4, WrittenRows, CallFields, KindsOfIds, NoneIsNoValue DEF Registered
  <2> QED
    BY <1>1, <1>2, <1>4, <2>1 DEF Promise!TakeEffect, Registered
<1>5. CASE call[r].op = "remove"
  <2>1. Registered' = Registered \ {call[r].id}
    BY <1>1, <1>5, WrittenRows, CallFields, NoneIsNoValue DEF Registered
  <2> QED
    BY <1>1, <1>2, <1>5, <2>1 DEF Promise!TakeEffect, Registered
<1> QED
  BY <1>3, <1>4, <1>5 DEF Writes

\* A call that is received is a call that arrives.
LEMMA PromiseReceive ==
  ASSUME Base, NEW r \in Request, NEW c \in Calls, Receive(r, c)
  PROVE  Promise!Arrive(r, c)
<1>1. call[r] = None /\ status = [status EXCEPT ![r] = None]
  BY DEF Receive, Base, TypeOK, HandlerState
<1>2. UNCHANGED schemas => UNCHANGED Registered
  BY DEF Registered
<1> QED
  BY <1>1, <1>2
     DEF Receive, Answer, Goto, Promise!Arrive, Promise!Refusals, Registered

\* A handler that refuses without a write: nothing has happened, and it says so.
LEMMA PromiseRefuse ==
  ASSUME Base, NEW r \in Request, pc[r] \in {"resolve", "first", "write"},
         NEW s \in {"notFound", "notAllowed", "conflict", "error"}, Answer(r, s),
         UNCHANGED <<schemas, call, effect>>
  PROVE  Promise!Refuse(r)
BY NoneIsNoValue DEF Base, TypeOK, HandlerState, Answer,
   Promise!Refuse, Promise!Pending, Promise!Refusals

\* Every step is a step of the promise, or a stutter.
LEMMA PromiseStep ==
  ASSUME Base, Next
  PROVE  [Promise!Next]_(Promise!avars)
<1> USE DEF Base, TypeOK, HandlerState
<1>1. ASSUME NEW r \in Request, NEW c \in Calls, Receive(r, c)
      PROVE  Promise!Next
  BY <1>1, PromiseReceive DEF Promise!Next
<1>2. ASSUME NEW r \in Request, Read(r)
      PROVE  Promise!Next
  <2>1. /\ pc[r] = "first" /\ call[r] \in Calls /\ call[r].op \in {"get", "getAll"}
        /\ UNCHANGED <<schemas, call, effect>>
    BY <1>2 DEF Read, ReadOp
  <2>2. CASE Answer(r, "notFound")
    BY <2>1, <2>2, PromiseRefuse DEF Promise!Next
  <2>3. CASE /\ Answer(r, "ok")
             /\ ~(call[r].op = "get" /\ schemas[call[r].id] = None)
    <3>1. call[r].op = "getAll" \/ (call[r].op = "get" /\ call[r].id \in Registered)
      BY <2>1, <2>3, CallFields DEF Registered
    <3>2. Promise!Pending(r)
      BY <2>1, NoneIsNoValue DEF Promise!Pending
    <3> QED
      BY <2>1, <2>3, <3>1, <3>2 DEF Answer, Promise!Report, Promise!Next, Registered
  <2> QED
    BY <1>2, <2>2, <2>3 DEF Read
<1>3. ASSUME NEW r \in Request, Writes(r)
      PROVE  Promise!Next
  BY <1>3, PromiseWrite DEF Promise!Next
<1>4. ASSUME NEW r \in Request, Insert(r) \/ UpdateWrite(r)
      PROVE  Promise!Next
  <2>1. CASE /\ Answer(r, "conflict") \/ Answer(r, "notAllowed") \/ Answer(r, "error")
             /\ UNCHANGED <<schemas, effect>>
    <3>1. pc[r] \in {"first", "write"} /\ UNCHANGED call
      BY <1>4 DEF Insert, UpdateWrite
    <3> QED
      BY <2>1, <3>1, PromiseRefuse DEF Promise!Next
  <2>2. CASE Writes(r)
    BY <2>2, <1>3
  <2> QED
    BY <1>4, <2>1, <2>2 DEF Insert, UpdateWrite, Writes, Answer, Goto
<1>5. ASSUME NEW r \in Request, DeleteWrite(r) \/ CommitUnknown(r)
      PROVE  Promise!Next
  <2>1. Writes(r)
    BY <1>5 DEF DeleteWrite, CommitUnknown, Writes, Answer
  <2> QED
    BY <2>1, <1>3
<1>6. ASSUME NEW r \in Request, pc[r] = "refresh", Answer(r, "ok") \/ Answer(r, "error"),
             UNCHANGED <<schemas, call, effect>>
      PROVE  Promise!Next
  BY <1>6, NoneIsNoValue
     DEF Answer, Promise!Confirm, Promise!Pending, Promise!Next, Registered
<1>7. ASSUME NEW r \in Request, Refresh(r) \/ StepFails(r)
      PROVE  Promise!Next
  <2>1. CASE pc[r] = "refresh"
    BY <1>7, <2>1, <1>6 DEF Refresh, StepFails
  <2>2. CASE pc[r] # "refresh"
    BY <1>7, <2>2, PromiseRefuse DEF Refresh, StepFails, Promise!Next
  <2> QED
    BY <2>1, <2>2
<1>8. ASSUME NEW r \in Request, SelectRow(r)
      PROVE  [Promise!Next]_(Promise!avars)
  <2>1. CASE Answer(r, "notAllowed") \/ Answer(r, "notFound")
    BY <1>8, <2>1, PromiseRefuse DEF SelectRow, Promise!Next
  <2>2. CASE UNCHANGED status
    BY <1>8, <2>2 DEF SelectRow, Promise!avars, Registered
  <2> QED
    BY <1>8, <2>1, <2>2 DEF SelectRow, Goto
<1>9. ASSUME NEW r \in Request, Resolve(r)
      PROVE  UNCHANGED Promise!avars
  BY <1>9 DEF Resolve, Goto, Promise!avars
<1> QED
  BY <1>1, <1>2, <1>4, <1>5, <1>7, <1>8, <1>9
     DEF Next, Handler, AllAnswered, vars, Promise!avars

\* The handlers implement the set of registered ids: one effect at most per
\* request, a success only after it, a 4xx only without it, and a schema that is
\* renamed is never lost and never replaces another one.
THEOREM KeepsPromise == Spec => Atomic
<1>1. Init => Promise!Init
  BY DEF Init, Promise!Init
<1>2. Base /\ [Next]_vars => [Promise!Next]_(Promise!avars)
  BY PromiseStep DEF vars, Promise!avars
<1>3. Init => Base
  BY BaseInit
<1>4. Base /\ [Next]_vars => Base'
  BY BaseStep
<1> QED
  BY <1>1, <1>2, <1>3, <1>4, PTL DEF Spec, Atomic, Promise!Spec
=============================================================================
