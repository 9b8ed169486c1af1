--------------------- MODULE RevocableCredentialsProofs ---------------------
(***************************************************************************)
(* Proofs about RevocableCredentials, for any number of requests,          *)
(* registries, credentials, files and failures.                            *)
(***************************************************************************)
EXTENDS RevocableCredentials, TLAPS

-----------------------------------------------------------------------------
(* Calls and steps.                                                        *)

Ops == {"put", "get", "define", "revoke", "publish", "clear", "pending", "record", "fix"}

\* The steps of each kind of request.
Belongs(step, op) ==
  \/ op = "put" /\ step \in {"putHead", "read", "upload"}
  \/ op = "get" /\ step \in {"getHead", "body"}
  \/ op = "define" /\ step \in {"gate", "define", "wait", "readBack"}
  \/ op = "revoke" /\ step \in {"revoke", "look"}
  \/ op = "publish" /\ step \in {"validate", "publish"}
  \/ op = "clear" /\ step = "clear"
  \/ op = "pending" /\ step = "readPending"
  \/ op = "record" /\ step = "readRecord"
  \/ op = "fix" /\ step = "fix"

\* The parameters of a call are what its kind says.
Fields(c) ==
  /\ c.op \in Ops
  /\ c.op = "put" => c.key \in File /\ c.body \in File
  /\ c.op = "get" => c.key \in File
  /\ c.op = "define" => c.revocable \in BOOLEAN
  /\ c.op \in {"revoke", "record"} => c.cred \in Cred
  /\ c.op = "revoke" => c.now \in BOOLEAN
  /\ c.op \in {"publish", "clear"} =>
       /\ DOMAIN c.map \subseteq Registry \cup {Unknown}
       /\ \A g \in DOMAIN c.map : c.map[g] \subseteq Cred

\* What a revocation map is made of.
LEMMA MapFields ==
  ASSUME NEW map \in RevocationMap
  PROVE  /\ DOMAIN map \subseteq Registry \cup {Unknown}
         /\ \A g \in DOMAIN map : map[g] \subseteq Cred
<1>1. PICK R \in SUBSET (Registry \cup {Unknown}) : map \in [R -> SUBSET Cred]
  BY DEF RevocationMap
<1> QED
  BY <1>1

\* What a call is made of.
LEMMA CallFields ==
  ASSUME NEW c \in Calls
  PROVE  Fields(c) /\ c # None
<1>1. CASE c \in TailsCall
  BY <1>1, CallTypes DEF TailsCall, Fields, Ops
<1>2. CASE c \in DefineCall
  BY <1>2, CallTypes DEF DefineCall, Fields, Ops
<1>3. CASE c \in RevocationCall
  <2>1. CASE c \in [op : {"publish", "clear"}, map : RevocationMap]
    <3>1. c.op \in {"publish", "clear"} /\ c.map \in RevocationMap
      BY <2>1
    <3> QED
      BY <3>1, MapFields, CallTypes DEF Fields, Ops
  <2> QED
    BY <1>3, <2>1, CallTypes DEF RevocationCall, Fields, Ops
<1> QED
  BY <1>1, <1>2, <1>3, CallTypes

\* An operation starts with a step of its own.
LEMMA FirstStepBelongs ==
  ASSUME NEW c \in Calls
  PROVE  FirstStep(c) \in Step /\ Belongs(FirstStep(c), c.op)
BY CallFields DEF Fields, Ops, FirstStep, Step, Belongs

\* A request at a step is neither idle nor done.
LEMMA StepsAreNotEnds == "idle" \notin Step /\ "done" \notin Step
BY DEF Step

-----------------------------------------------------------------------------
(* Types and handler states.                                               *)

RequestsOK ==
  /\ call \in [Request -> Calls \cup {None}]
  /\ pc \in [Request -> Step \cup {"idle", "done"}]
  /\ status \in [Request -> Status \cup {None}]
  /\ faults \in 0 .. MaxFaults
  /\ \A r \in Request :
       /\ pc[r] = "idle" <=> call[r] = None
       /\ status[r] # None <=> pc[r] = "done"
       /\ pc[r] \in Step => Belongs(pc[r], call[r].op)

Base == RequestsOK /\ TailsTypeOK /\ DefinitionsTypeOK /\ RevocationTypeOK

\* What a handler does to the requests: its own goes on or is answered.
Moved(r) ==
  /\ pc[r] \in Step
  /\ call' = call
  /\ faults' \in 0 .. MaxFaults
  /\ \/ \E p \in Step : /\ pc' = [pc EXCEPT ![r] = p] /\ Belongs(p, call[r].op)
                        /\ status' = status
     \/ \E s \in Status : /\ pc' = [pc EXCEPT ![r] = "done"]
                          /\ status' = [status EXCEPT ![r] = s]

\* What the agent does to them.
Untouched == call' = call /\ pc' = pc /\ status' = status /\ faults' \in 0 .. MaxFaults

\* Going on to a step of the same operation is a move.
LEMMA GotoMoves ==
  ASSUME RequestsOK, NEW r \in Request, pc[r] \in Step, NEW p \in Step,
         Belongs(p, call[r].op), Goto(r, p)
  PROVE  Moved(r)
BY DEF RequestsOK, Goto, Moved

\* So is answering,
LEMMA AnswerMoves ==
  ASSUME RequestsOK, NEW r \in Request, pc[r] \in Step, NEW s \in Status, Answer(r, s)
  PROVE  Moved(r)
BY DEF RequestsOK, Answer, Moved

\* giving up,
LEMMA GiveUpMoves ==
  ASSUME RequestsOK, NEW r \in Request, pc[r] \in Step, GiveUp(r)
  PROVE  Moved(r)
BY RequestBounds DEF RequestsOK, GiveUp, Fault, Moved, Status

\* and staying.
LEMMA StayMoves ==
  ASSUME RequestsOK, NEW r \in Request, pc[r] \in Step, UNCHANGED requests
  PROVE  Moved(r)
BY DEF RequestsOK, requests, Moved

\* The handlers of the tails server move one request.
LEMMA TailsMoves ==
  ASSUME RequestsOK, NEW r \in Request, TailsHandler(r) \/ TailsFault(r)
  PROVE  Moved(r)
<1> USE DEF Step, Belongs, Status
<1>1. pc[r] \in Step /\ Belongs(pc[r], call[r].op)
  BY DEF RequestsOK, TailsHandler, TailsFault, HeadOfPut, ReadUpload, Upload, HeadOfGet,
         GetObject, UploadAnswerLost, TailsFails
<1>2. CASE HeadOfPut(r)
  BY <1>1, <1>2, GotoMoves, AnswerMoves DEF HeadOfPut
<1>3. CASE ReadUpload(r)
  BY <1>1, <1>3, GotoMoves, AnswerMoves DEF ReadUpload
<1>4. CASE Upload(r)
  BY <1>1, <1>4, AnswerMoves DEF Upload
<1>5. CASE HeadOfGet(r)
  BY <1>1, <1>5, GotoMoves, AnswerMoves DEF HeadOfGet
<1>6. CASE GetObject(r)
  BY <1>1, <1>6, AnswerMoves DEF GetObject
<1>7. CASE TailsFault(r)
  BY <1>1, <1>7, GiveUpMoves DEF TailsFault, UploadAnswerLost, TailsFails
<1> QED
  BY <1>2, <1>3, <1>4, <1>5, <1>6, <1>7 DEF TailsHandler

\* So do those of a credential definition,
LEMMA DefinitionMoves ==
  ASSUME RequestsOK, NEW r \in Request, DefinitionHandler(r) \/ DefinitionFault(r)
  PROVE  Moved(r)
<1> USE DEF Step, Belongs, Status
<1>1. pc[r] \in Step /\ Belongs(pc[r], call[r].op)
  BY DEF RequestsOK, DefinitionHandler, DefinitionFault, Gate, Define, PollRegistries,
         WaitExpires, ReadBack, DefineAnswerLost, DefinitionFails
<1>2. CASE Gate(r)
  BY <1>1, <1>2, GotoMoves, AnswerMoves DEF Gate
<1>3. CASE Define(r)
  BY <1>1, <1>3, GotoMoves, AnswerMoves DEF Define
<1>4. CASE PollRegistries(r)
  BY <1>1, <1>4, GotoMoves DEF PollRegistries
<1>5. CASE WaitExpires(r)
  BY <1>1, <1>5, AnswerMoves DEF WaitExpires
<1>6. CASE ReadBack(r)
  BY <1>1, <1>6, AnswerMoves, StayMoves DEF ReadBack, requests
<1>7. CASE DefinitionFault(r)
  BY <1>1, <1>7, GiveUpMoves DEF DefinitionFault, DefineAnswerLost, DefinitionFails
<1> QED
  BY <1>2, <1>3, <1>4, <1>5, <1>6, <1>7 DEF DefinitionHandler

\* and those of a revocation.
LEMMA RevocationMoves ==
  ASSUME RequestsOK, NEW r \in Request, RevocationHandler(r) \/ RevocationFault(r)
  PROVE  Moved(r)
<1> USE DEF Step, Belongs, Status
<1>1. pc[r] \in Step /\ Belongs(pc[r], call[r].op)
  BY DEF RequestsOK, RevocationHandler, RevocationFault, Revoke, Look, Validate, Publish,
         AnswerPublish, Clear, ReadPending, ReadRecord, Fix, RevokeAnswerLost, LookFails,
         RevocationFails
<1>2. CASE Revoke(r)
  BY <1>1, <1>2, GotoMoves, AnswerMoves DEF Revoke
<1>3. CASE Look(r)
  BY <1>1, <1>3, AnswerMoves, StayMoves DEF Look
<1>4. CASE Validate(r)
  BY <1>1, <1>4, GotoMoves, AnswerMoves, StayMoves DEF Validate
<1>5. CASE Publish(r)
  BY <1>1, <1>5, StayMoves DEF Publish, requests
<1>6. CASE AnswerPublish(r)
  BY <1>1, <1>6, AnswerMoves DEF AnswerPublish
<1>7. CASE Clear(r)
  BY <1>1, <1>7, AnswerMoves DEF Clear
<1>8. CASE ReadPending(r) \/ ReadRecord(r) \/ Fix(r)
  BY <1>1, <1>8, AnswerMoves DEF ReadPending, ReadRecord, Fix
<1>9. CASE RevokeAnswerLost(r) \/ RevocationFails(r)
  BY <1>1, <1>9, GiveUpMoves DEF RevokeAnswerLost, RevocationFails
<1>10. CASE LookFails(r)
  BY <1>1, <1>10, AnswerMoves, StayMoves DEF LookFails
<1> QED
  BY <1>2, <1>3, <1>4, <1>5, <1>6, <1>7, <1>8, <1>9, <1>10
  DEF RevocationHandler, RevocationFault

\* Every handler and every fault moves one request.
LEMMA HandlerMoves ==
  ASSUME RequestsOK, NEW r \in Request, Handler(r) \/ Fails(r)
  PROVE  Moved(r)
BY TailsMoves, DefinitionMoves, RevocationMoves DEF Handler, Fails

\* What the agent does by itself moves no request.
LEMMA AgentMovesNone ==
  ASSUME RequestsOK, Agent
  PROVE  Untouched
BY RequestBounds DEF RequestsOK, Agent, Untouched, Finish, Written, Issue, Fault, requests

\* A call takes an idle request to its first step.
LEMMA ComeMoves ==
  ASSUME RequestsOK, NEW r \in Request, NEW c \in Calls, Come(r, c)
  PROVE  /\ pc[r] = "idle" /\ call[r] = None
         /\ call' = [call EXCEPT ![r] = c]
         /\ pc' = [pc EXCEPT ![r] = FirstStep(c)]
         /\ UNCHANGED <<status, faults>>
BY DEF RequestsOK, Come, Arrive

\* The requests keep their types and stay within their operations.
LEMMA RequestsStep == RequestsOK /\ [Next]_vars => RequestsOK'
<1> SUFFICES ASSUME RequestsOK, [Next]_vars PROVE RequestsOK'
  OBVIOUS
<1>1. ASSUME NEW r \in Request, NEW c \in Calls, Come(r, c)
      PROVE  RequestsOK'
  BY <1>1, ComeMoves, CallFields, FirstStepBelongs, StepsAreNotEnds DEF RequestsOK
<1>2. ASSUME NEW r \in Request, Moved(r)
      PROVE  RequestsOK'
  <2>1. CASE \E p \in Step : /\ pc' = [pc EXCEPT ![r] = p] /\ Belongs(p, call[r].op)
                             /\ status' = status
    BY <1>2, <2>1, StepsAreNotEnds DEF RequestsOK, Moved
  <2>2. CASE \E s \in Status : /\ pc' = [pc EXCEPT ![r] = "done"]
                               /\ status' = [status EXCEPT ![r] = s]
    BY <1>2, <2>2, RequestNone, StepsAreNotEnds DEF RequestsOK, Moved
  <2> QED
    BY <1>2, <2>1, <2>2 DEF Moved
<1>3. CASE Untouched
  BY <1>3 DEF RequestsOK, Untouched
<1>4. CASE UNCHANGED vars
  BY <1>4 DEF RequestsOK, vars, requests
<1> QED
  BY <1>1, <1>2, <1>3, <1>4, HandlerMoves, AgentMovesNone DEF Next, AllAnswered

\* Every credential is of a registry.
LEMMA RegistryOfCred == \A c \in Cred : RegistryOf[c] \in Registry
BY RevocationNames

\* The tails server keeps its types.
LEMMA TailsTypeStep == Base /\ [Next]_vars => TailsTypeOK'
<1> SUFFICES ASSUME Base, [Next]_vars PROVE TailsTypeOK'
  OBVIOUS
<1> USE DEF Base, TailsTypeOK
<1>1. ASSUME NEW r \in Request, TailsHandler(r) \/ TailsFault(r)
      PROVE  TailsTypeOK'
  <2>1. Belongs(pc[r], call[r].op) /\ call[r] \in Calls
    BY <1>1, TailsMoves, StepsAreNotEnds DEF RequestsOK, Moved
  <2>2. Fields(call[r])
    BY <2>1, CallFields
  <2>3. CASE Upload(r) \/ UploadAnswerLost(r)
    BY <2>1, <2>2, <2>3 DEF Upload, UploadAnswerLost, Stored, Belongs, Fields
  <2>4. CASE GetObject(r)
    BY <2>1, <2>2, <2>4 DEF GetObject, Belongs, Fields
  <2>5. CASE UNCHANGED tails
    BY <2>5 DEF tails
  <2> QED
    BY <1>1, <2>3, <2>4, <2>5
    DEF TailsHandler, TailsFault, HeadOfPut, ReadUpload, HeadOfGet, TailsFails
<1>2. CASE UNCHANGED tails
  BY <1>2 DEF tails
<1> QED
  BY <1>1, <1>2 DEF Next, Come, Handler, Fails, Agent, AllAnswered, vars

\* The definitions and the registries keep their types.
LEMMA DefinitionsTypeStep == Base /\ [Next]_vars => DefinitionsTypeOK'
<1> SUFFICES ASSUME Base, [Next]_vars PROVE DefinitionsTypeOK'
  OBVIOUS
<1> USE ReadBounds DEF Base, DefinitionsTypeOK
<1>1. ASSUME NEW r \in Request, DefinitionHandler(r) \/ DefinitionFault(r)
      PROVE  DefinitionsTypeOK'
  <2>1. CASE Created(r)
    BY <2>1 DEF Created
  <2>2. CASE ReadBack(r)
    BY <2>2 DEF ReadBack, definitions
  <2>3. CASE UNCHANGED definitions
    BY <2>3 DEF definitions
  <2> QED
    BY <1>1, <2>1, <2>2, <2>3
    DEF DefinitionHandler, DefinitionFault, Gate, Define, PollRegistries, WaitExpires,
        DefineAnswerLost, DefinitionFails
<1>2. ASSUME NEW g \in Registry, Finish(g, TailsFile[g])
      PROVE  DefinitionsTypeOK'
  BY <1>2 DEF Finish
<1>3. CASE UNCHANGED definitions
  BY <1>3 DEF definitions
<1> QED
  BY <1>1, <1>2, <1>3 DEF Next, Come, Handler, Fails, Agent, AllAnswered, vars

\* The revocations keep their types.
LEMMA RevocationTypeStep == Base /\ [Next]_vars => RevocationTypeOK'
<1> SUFFICES ASSUME Base, [Next]_vars PROVE RevocationTypeOK'
  OBVIOUS
<1> USE RevocationBounds DEF Base, RevocationTypeOK
<1>1. ASSUME NEW r \in Request, NEW c \in Calls, Come(r, c)
      PROVE  RevocationTypeOK'
  <2>1. Covered(c) \subseteq Cred
    BY DEF Covered
  <2>2. c.op = "publish" => DOMAIN c.map \subseteq Registry \cup {Unknown}
    BY CallFields DEF Fields
  <2> QED
    BY <1>1, <2>1, <2>2 DEF Come
<1>2. ASSUME NEW r \in Request, RevocationHandler(r) \/ RevocationFault(r)
      PROVE  RevocationTypeOK'
  <2>1. Belongs(pc[r], call[r].op) /\ call[r] \in Calls
    BY <1>2, RevocationMoves, StepsAreNotEnds DEF RequestsOK, Moved
  <2>2. Fields(call[r])
    BY <2>1, CallFields
  <2>3. CASE Revoke(r) \/ RevokeAnswerLost(r)
    BY <2>1, <2>2, <2>3 DEF Revoke, RevokeAnswerLost, Belongs, Fields, CredState
  <2>4. CASE Look(r)
    BY <2>1, <2>2, <2>4 DEF Look, Belongs, Fields
  <2>5. CASE LookFails(r)
    BY <2>5 DEF LookFails
  <2>6. CASE Validate(r)
    BY <2>6 DEF Validate, Targets
  <2>7. CASE Publish(r)
    <3>1. \A g : Selected(call[r].map, g) \subseteq Cred
      BY DEF Selected, PendingOf
    <3> QED
      BY <2>7, <3>1 DEF Publish, CredState
  <2>8. CASE AnswerPublish(r)
    <3>1. Extracted([rrid2crid |-> published[r], txn |-> {}]) = {}
      BY DEF Extracted
    <3> QED
      BY <2>8, <3>1 DEF AnswerPublish
  <2>9. CASE ReadPending(r)
    BY <2>9 DEF ReadPending, PendingOf
  <2>10. CASE ReadRecord(r)
    BY <2>1, <2>2, <2>10 DEF ReadRecord, Belongs, Fields
  <2>11. CASE Fix(r)
    BY <2>11 DEF Fix, CredState
  <2>12. CASE UNCHANGED revocation
    BY <2>12 DEF revocation
  <2> QED
    BY <1>2, <2>3, <2>4, <2>5, <2>6, <2>7, <2>8, <2>9, <2>10, <2>11, <2>12
    DEF RevocationHandler, RevocationFault, Clear, RevocationFails
<1>3. ASSUME NEW c \in Cred, Written(c) \/ Issue(c)
      PROVE  RevocationTypeOK'
  BY <1>3 DEF Written, Issue, CredState
<1>4. CASE UNCHANGED revocation
  BY <1>4 DEF revocation
<1> QED
  BY <1>1, <1>2, <1>3, <1>4 DEF Next, Handler, Fails, Agent, AllAnswered, vars

\* The initial states satisfy Base.
LEMMA BaseInit == Init => Base
<1> SUFFICES ASSUME Init PROVE Base
  OBVIOUS
<1> USE RequestBounds, RequestNone, WellFormedFiles, ReadBounds, RevocationBounds, TailsFiles
<1>1. RequestsOK
  BY CallFields, StepsAreNotEnds DEF Init, Fresh, Issued, RequestsOK, Status
<1>2. TailsTypeOK
  BY DEF Init, Fresh, Issued, TailsTypeOK
<1>3. DefinitionsTypeOK
  BY DEF Init, Fresh, Issued, DefinitionsTypeOK
<1>4. RevocationTypeOK
  BY DEF Init, Fresh, Issued, RevocationTypeOK, CredState
<1> QED
  BY <1>1, <1>2, <1>3, <1>4 DEF Base

\* Every step keeps Base.
LEMMA BaseStep == Base /\ [Next]_vars => Base'
BY RequestsStep, TailsTypeStep, DefinitionsTypeStep, RevocationTypeStep DEF Base

\* The types of the requests, of the bucket, of the definition with its registries and
\* of the revocations.
THEOREM TypeCorrect == Spec => []TypeOK
<1>1. Base => TypeOK
  BY DEF Base, RequestsOK, TypeOK
<1> QED
  BY BaseInit, BaseStep, <1>1, PTL DEF Spec

-----------------------------------------------------------------------------
(* The tails server: what a request has found out, and what it has said.   *)

TailsOps == {"put", "get"}
RevocationOps == Ops \ (TailsOps \cup {"define"})

\* A handler runs for the operations it is part of.
LEMMA OpOfHandler ==
  ASSUME RequestsOK, NEW r \in Request
  PROVE  /\ TailsHandler(r) \/ TailsFault(r) => call[r].op \in TailsOps
         /\ DefinitionHandler(r) \/ DefinitionFault(r) => call[r].op = "define"
         /\ RevocationHandler(r) \/ RevocationFault(r) => call[r].op \in RevocationOps
<1> USE DEF RequestsOK, Step, Belongs, TailsOps, RevocationOps, Ops
<1>1. TailsHandler(r) \/ TailsFault(r) => call[r].op \in TailsOps
  BY DEF TailsHandler, TailsFault, HeadOfPut, ReadUpload, Upload, HeadOfGet, GetObject,
         UploadAnswerLost, TailsFails
<1>2. DefinitionHandler(r) \/ DefinitionFault(r) => call[r].op = "define"
  BY DEF DefinitionHandler, DefinitionFault, Gate, Define, PollRegistries, WaitExpires,
         ReadBack, DefineAnswerLost, DefinitionFails
<1>3. RevocationHandler(r) \/ RevocationFault(r) => call[r].op \in RevocationOps
  BY DEF RevocationHandler, RevocationFault, Revoke, Look, Validate, Publish, AnswerPublish,
         Clear, ReadPending, ReadRecord, Fix, RevokeAnswerLost, LookFails, RevocationFails
<1> QED
  BY <1>1, <1>2, <1>3

\* An upload is stored only once it has been found acceptable, and the answers are true.
TailsPart(r) ==
  /\ pc[r] = "upload" => Acceptable(call[r])
  /\ Answered(r, "put", "ok") => bucket[call[r].key] # None /\ call[r].body = call[r].key
  /\ Answered(r, "put", "conflict") => bucket[call[r].key] # None
  /\ pc[r] = "body" => bucket[call[r].key] # None
  /\ Answered(r, "get", "ok") => served[r] = call[r].key

KeysAreHashes == \A f \in File : bucket[f] # None => bucket[f] = f /\ f \in WellFormed

TailsInv == KeysAreHashes /\ \A r \in Request : TailsPart(r)

\* What another request has found out stays true.
LEMMA TailsPartStays ==
  ASSUME Base, NEW q \in Request, TailsPart(q),
         call'[q] = call[q], pc'[q] = pc[q], status'[q] = status[q], served'[q] = served[q],
         \A f \in File : bucket[f] # None => bucket'[f] # None
  PROVE  TailsPart(q)'
<1>1. call[q] # None => Fields(call[q])
  BY CallFields DEF Base, RequestsOK
<1>2. pc[q] = "body" => call[q] # None /\ call[q].op = "get"
  BY DEF Base, RequestsOK, Belongs, Step
<1> QED
  BY <1>1, <1>2 DEF TailsPart, Answered, Acceptable, Fields

\* A request that is none of the tails server's says nothing about it.
LEMMA TailsPartElsewhere ==
  ASSUME RequestsOK, NEW r \in Request, Moved(r), call[r].op \notin TailsOps
  PROVE  TailsPart(r)'
BY DEF RequestsOK, Moved, TailsPart, TailsOps, Answered, Belongs, Step

\* Uploads and downloads keep TailsInv.
LEMMA BucketStep ==
  ASSUME Base, TailsInv, NEW r \in Request, TailsHandler(r) \/ TailsFault(r)
  PROVE  TailsInv'
<1> USE DEF Base
<1>0. /\ Moved(r) /\ call[r] \in Calls /\ Belongs(pc[r], call[r].op)
      /\ \A q \in Request : q # r => pc'[q] = pc[q] /\ status'[q] = status[q]
  BY TailsMoves, StepsAreNotEnds DEF RequestsOK, Moved
<1>1. Fields(call[r]) /\ call[r] # None /\ call' = call
  BY <1>0, CallFields DEF Moved
<1>2. CASE Upload(r) \/ UploadAnswerLost(r)
  <2>1. call[r].op = "put" /\ call[r].key \in File /\ call[r].body = call[r].key
        /\ call[r].body \in WellFormed /\ call[r].body # None
    BY <1>0, <1>1, <1>2, WellFormedFiles
    DEF TailsInv, TailsPart, Acceptable, Upload, UploadAnswerLost, Belongs, Fields
  <2>2. bucket' = [bucket EXCEPT ![call[r].key] = call[r].key] /\ served' = served
    BY <1>2, <2>1 DEF Upload, UploadAnswerLost, Stored
  <2>3. KeysAreHashes' /\ \A f \in File : bucket[f] # None => bucket'[f] # None
    BY <2>1, <2>2 DEF TailsInv, KeysAreHashes, TailsTypeOK
  <2>4. TailsPart(r)'
    <3>1. pc'[r] = "done"
      BY <1>2 DEF Upload, UploadAnswerLost, Answer, GiveUp, RequestsOK
    <3> QED
      BY <1>1, <2>1, <2>2, <3>1 DEF TailsPart, Answered, TailsTypeOK
  <2>5. ASSUME NEW q \in Request, q # r PROVE TailsPart(q)'
    BY <1>0, <1>1, <2>2, <2>3, <2>5, TailsPartStays DEF TailsInv
  <2> QED
    BY <2>3, <2>4, <2>5 DEF TailsInv
<1>3. CASE bucket' = bucket /\ (served' = served \/ GetObject(r))
  <2>1. \A q \in Request : q # r => served'[q] = served[q]
    BY <1>3 DEF GetObject, TailsTypeOK
  <2>2. TailsPart(r)'
    <3> USE RequestNone DEF Status
    <3>1. CASE HeadOfPut(r)
      BY <1>1, <1>3, <3>1 DEF HeadOfPut, Answer, Goto, RequestsOK, TailsPart, Answered
    <3>2. CASE ReadUpload(r)
      BY <1>1, <1>3, <3>2
      DEF ReadUpload, Answer, Goto, RequestsOK, TailsPart, Answered, Acceptable
    <3>3. CASE HeadOfGet(r)
      BY <1>1, <1>3, <3>3 DEF HeadOfGet, Answer, Goto, RequestsOK, TailsPart, Answered
    <3>4. CASE GetObject(r)
      <4>1. call[r].op = "get" /\ call[r].key \in File
        BY <1>0, <1>1, <3>4 DEF GetObject, Belongs, Fields
      <4>2. bucket[call[r].key] # None => bucket[call[r].key] = call[r].key
        BY <4>1 DEF TailsInv, KeysAreHashes
      <4> QED
        BY <1>1, <1>3, <3>4, <4>1, <4>2
        DEF GetObject, Answer, RequestsOK, TailsTypeOK, TailsPart, Answered
    <3>5. CASE TailsFails(r)
      BY <1>1, <1>3, <3>5 DEF TailsFails, GiveUp, RequestsOK, TailsPart, Answered
    <3>6. CASE Upload(r) \/ UploadAnswerLost(r)
      BY <1>2, <3>6 DEF TailsInv
    <3> QED
      BY <3>1, <3>2, <3>3, <3>4, <3>5, <3>6 DEF TailsHandler, TailsFault
  <2>3. ASSUME NEW q \in Request, q # r PROVE TailsPart(q)'
    BY <1>0, <1>1, <1>3, <2>1, <2>3, TailsPartStays DEF TailsInv
  <2>4. KeysAreHashes'
    BY <1>3 DEF TailsInv, KeysAreHashes
  <2> QED
    BY <2>2, <2>3, <2>4 DEF TailsInv
<1> QED
  BY <1>2, <1>3
  DEF TailsHandler, TailsFault, HeadOfPut, ReadUpload, HeadOfGet, GetObject, TailsFails, tails

\* Every step keeps TailsInv.
LEMMA TailsStep == Base /\ TailsInv /\ [Next]_vars => TailsInv'
<1> SUFFICES ASSUME Base, TailsInv, [Next]_vars PROVE TailsInv'
  OBVIOUS
<1> USE DEF Base
<1>1. CASE \E r \in Request : TailsHandler(r) \/ TailsFault(r)
  BY <1>1, BucketStep
<1>2. ASSUME NEW r \in Request, UNCHANGED tails, call[r].op \notin TailsOps, Moved(r)
      PROVE  TailsInv'
  <2>1. ASSUME NEW q \in Request, q # r PROVE TailsPart(q)'
    <3>1. call' = call /\ pc'[q] = pc[q] /\ status'[q] = status[q]
      BY <1>2, <2>1 DEF Moved, RequestsOK
    <3> QED
      BY <1>2, <3>1, TailsPartStays DEF TailsInv, tails
  <2> QED
    BY <1>2, <2>1, TailsPartElsewhere DEF TailsInv, KeysAreHashes, tails
<1>3. ASSUME NEW r \in Request, NEW c \in Calls, Come(r, c)
      PROVE  TailsInv'
  <2>1. UNCHANGED tails
    BY <1>3 DEF Come
  <2>2. TailsPart(r)'
    <3>1. pc'[r] = FirstStep(c) /\ status'[r] = None /\ FirstStep(c) \notin {"upload", "body"}
      <4>1. pc'[r] = FirstStep(c) /\ status'[r] = None
        BY <1>3, ComeMoves DEF RequestsOK
      <4> QED
        BY <4>1, CallFields DEF FirstStep, Fields, Ops
    <3> QED
      BY <3>1, RequestNone DEF TailsPart, Answered, Status
  <2>3. ASSUME NEW q \in Request, q # r PROVE TailsPart(q)'
    <3>1. call'[q] = call[q] /\ pc'[q] = pc[q] /\ status'[q] = status[q]
      BY <1>3, <2>3, ComeMoves DEF RequestsOK
    <3> QED
      BY <2>1, <3>1, TailsPartStays DEF TailsInv, tails
  <2> QED
    BY <2>1, <2>2, <2>3 DEF TailsInv, KeysAreHashes, tails
<1>4. CASE UNCHANGED tails /\ Untouched
  BY <1>4, TailsPartStays DEF TailsInv, KeysAreHashes, Untouched, tails
<1>5. CASE UNCHANGED vars
  BY <1>5, TailsPartStays DEF TailsInv, KeysAreHashes, vars, requests, tails
<1>6. CASE Agent
  BY <1>4, <1>6, AgentMovesNone DEF Agent
<1>7. ASSUME NEW r \in Request, Handler(r) \/ Fails(r)
      PROVE  TailsInv'
  <2>1. CASE DefinitionHandler(r) \/ DefinitionFault(r)
    BY <1>1, <1>2, <1>7, <2>1, OpOfHandler, HandlerMoves
    DEF Handler, Fails, TailsOps, RevocationOps
  <2>2. CASE RevocationHandler(r) \/ RevocationFault(r)
    BY <1>1, <1>2, <1>7, <2>2, OpOfHandler, HandlerMoves
    DEF Handler, Fails, TailsOps, RevocationOps
  <2> QED
    BY <1>1, <1>7, <2>1, <2>2 DEF Handler, Fails
<1> QED
  BY <1>3, <1>5, <1>6, <1>7 DEF Next, AllAnswered

\* Nothing is uploaded at first.
LEMMA TailsInit == Init => TailsInv
<1> SUFFICES ASSUME Init PROVE TailsInv
  OBVIOUS
<1>1. KeysAreHashes
  BY TailsFiles DEF Init, Fresh, Issued, KeysAreHashes
<1>2. ASSUME NEW r \in Request PROVE TailsPart(r)
  BY RequestNone, CallFields DEF Init, Fresh, Issued, TailsPart, Answered, Status
<1> QED
  BY <1>1, <1>2 DEF TailsInv

\* No overlapping uploads leave an object that is not the well-formed file of its key,
\* and what a put or a get has answered about an object holds from then on.
THEOREM ObjectsAreWhatTheirKeySays == Spec => []StoredUnderItsHash
<1>1. TailsInv => StoredUnderItsHash
  BY DEF TailsInv, KeysAreHashes, TailsPart, StoredUnderItsHash
<1> QED
  BY BaseInit, BaseStep, TailsInit, TailsStep, <1>1, PTL DEF Spec

-----------------------------------------------------------------------------
(* The definition and its registries.                                      *)

\* Registries belong to a definition; a finished one has its tails file on the server.
RegistriesOfDefined ==
  /\ defined = None => \A g \in Registry : registry[g] = "none"
  /\ \A g \in Registry : registry[g] = "finished" => bucket[TailsFile[g]] # None

\* A request that has waited for two finished registries finds them there for good.
DefinitionPart(r) ==
  /\ /\ call[r] # None /\ call[r].op = "define" /\ call[r].revocable
     /\ pc[r] = "readBack" \/ status[r] = "ok"
     => TwoFinished
  /\ Answered(r, "define", "conflict") => defined # None

DefinitionInv == RegistriesOfDefined /\ \A r \in Request : DefinitionPart(r)

\* No handler removes an object, a definition or a finished registry.
DefinitionStays ==
  /\ \A f \in File : bucket[f] # None => bucket'[f] # None
  /\ defined # None => defined' # None
  /\ \A g \in Registry : registry[g] = "finished" => registry'[g] = "finished"

\* No file leaves the bucket.
LEMMA BucketGrows ==
  ASSUME Base, [Next]_vars
  PROVE  \A f \in File : bucket[f] # None => bucket'[f] # None
<1> USE DEF Base
<1>1. ASSUME NEW r \in Request, Upload(r) \/ UploadAnswerLost(r)
      PROVE  \A f \in File : bucket[f] # None => bucket'[f] # None
  <2>1. Belongs(pc[r], call[r].op) /\ call[r] \in Calls /\ pc[r] = "upload"
    BY <1>1, StepsAreNotEnds DEF RequestsOK, Upload, UploadAnswerLost, Step
  <2>2. call[r].key \in File /\ call[r].body \in File
    BY <2>1, CallFields DEF Belongs, Fields
  <2> QED
    BY <1>1, <2>2, WellFormedFiles DEF Upload, UploadAnswerLost, Stored, TailsTypeOK
<1>2. ASSUME NEW r \in Request, TailsHandler(r) \/ TailsFault(r)
      PROVE  \A f \in File : bucket[f] # None => bucket'[f] # None
  BY <1>1, <1>2 DEF TailsHandler, TailsFault, HeadOfPut, ReadUpload, HeadOfGet, GetObject,
                    TailsFails, tails
<1> QED
  BY <1>2 DEF Next, Come, Handler, Fails, Agent, AllAnswered, vars, tails

\* What a definition rests on stays once it is there.
LEMMA NothingDefinedIsLost ==
  ASSUME Base, DefinitionInv, [Next]_vars
  PROVE  DefinitionStays
<1> SUFFICES /\ defined # None => defined' # None
             /\ \A g \in Registry : registry[g] = "finished" => registry'[g] = "finished"
  BY BucketGrows DEF DefinitionStays
<1> USE DEF Base, DefinitionInv, RegistriesOfDefined
<1>1. CASE \E r \in Request : DefinitionHandler(r) \/ DefinitionFault(r)
  BY <1>1 DEF DefinitionHandler, DefinitionFault, Gate, Define, Created, PollRegistries,
              WaitExpires, ReadBack, DefineAnswerLost, DefinitionFails, definitions
<1>2. CASE \E h \in Registry : Finish(h, TailsFile[h])
  BY <1>2 DEF Finish, DefinitionsTypeOK
<1>3. CASE UNCHANGED definitions
  BY <1>3 DEF definitions
<1> QED
  BY <1>1, <1>2, <1>3 DEF Next, Come, Handler, Fails, Agent, AllAnswered, vars

\* Registries come after the definition, and are finished with their tails files.
LEMMA RegistriesStep ==
  ASSUME Base, TailsInv, DefinitionInv, [Next]_vars
  PROVE  RegistriesOfDefined'
<1> USE DEF Base, DefinitionInv, RegistriesOfDefined
<1>0. DefinitionStays /\ \A g \in Registry : TailsFile[g] \in File
  BY NothingDefinedIsLost, TailsFiles, WellFormedFiles
<1>1. ASSUME NEW r \in Request, DefinitionHandler(r) \/ DefinitionFault(r)
      PROVE  RegistriesOfDefined'
  <2>1. CASE Created(r)
    BY <1>0, <2>1, DefinitionNone DEF Created, DefinitionStays
  <2>2. CASE UNCHANGED <<defined, registry>>
    BY <1>0, <2>2 DEF DefinitionStays
  <2> QED
    BY <1>1, <2>1, <2>2
    DEF DefinitionHandler, DefinitionFault, Gate, Define, PollRegistries, WaitExpires,
        ReadBack, DefineAnswerLost, DefinitionFails, definitions
<1>2. ASSUME NEW h \in Registry, Finish(h, TailsFile[h]), UNCHANGED tails
      PROVE  RegistriesOfDefined'
  <2>1. bucket[TailsFile[h]] # None
    BY <1>2 DEF Finish, TailsInv, TailsPart
  <2> QED
    BY <1>2, <2>1 DEF Finish, DefinitionsTypeOK, tails
<1>3. CASE UNCHANGED definitions
  BY <1>0, <1>3 DEF definitions, DefinitionStays
<1> QED
  BY <1>1, <1>2, <1>3 DEF Next, Come, Handler, Fails, Agent, AllAnswered, vars

\* A request that does not move keeps what it knows of its definition.
LEMMA DefinitionPartStays ==
  ASSUME NEW q \in Request, DefinitionPart(q), DefinitionStays,
         call'[q] = call[q], pc'[q] = pc[q], status'[q] = status[q]
  PROVE  DefinitionPart(q)'
BY DEF DefinitionPart, DefinitionStays, TwoFinished, Answered

\* So does the one that moves.
LEMMA DefinitionPartStep ==
  ASSUME Base, DefinitionInv, [Next]_vars, NEW q \in Request
  PROVE  DefinitionPart(q)'
<1> USE DEF Base, DefinitionInv
<1>0. DefinitionStays
  BY NothingDefinedIsLost
<1>1. ASSUME NEW r \in Request, Moved(r), r # q
      PROVE  DefinitionPart(q)'
  BY <1>0, <1>1, DefinitionPartStays DEF Moved, RequestsOK
<1>2. ASSUME NEW r \in Request, NEW c \in Calls, Come(r, c)
      PROVE  DefinitionPart(q)'
  <2>1. CASE r # q
    BY <1>0, <1>2, <2>1, ComeMoves, DefinitionPartStays DEF RequestsOK
  <2>2. CASE r = q
    <3>1. pc'[q] = FirstStep(c) /\ status'[q] = None
      BY <1>2, <2>2, ComeMoves DEF RequestsOK
    <3>2. FirstStep(c) # "readBack"
      BY CallFields DEF FirstStep, Fields, Ops
    <3> QED
      BY <3>1, <3>2, RequestNone DEF DefinitionPart, Answered, Status
  <2> QED
    BY <2>1, <2>2
<1>3. CASE Moved(q) /\ call[q].op # "define"
  BY <1>3 DEF Moved, DefinitionPart, Answered
<1>4. CASE DefinitionHandler(q) \/ DefinitionFault(q)
  <2> USE RequestNone DEF Status
  <2>1. call[q] \in Calls /\ call[q].op = "define" /\ status[q] = None /\ call' = call
    BY <1>4, DefinitionMoves, OpOfHandler, StepsAreNotEnds DEF Moved, RequestsOK
  <2>2. CASE Gate(q)
    BY <2>1, <2>2 DEF Gate, Goto, Answer, RequestsOK, DefinitionPart, Answered
  <2>3. CASE Define(q)
    BY <2>1, <2>3
    DEF Define, Created, Goto, Answer, RequestsOK, definitions, DefinitionPart, Answered
  <2>4. CASE PollRegistries(q)
    BY <2>1, <2>4, <1>0
    DEF PollRegistries, Goto, RequestsOK, definitions, DefinitionPart, Answered, TwoFinished
  <2>5. CASE WaitExpires(q)
    BY <2>1, <2>5 DEF WaitExpires, Answer, RequestsOK, DefinitionPart, Answered
  <2>6. CASE ReadBack(q)
    <3>1. call[q].revocable => TwoFinished
      BY <2>1, <2>6, CallFields DEF ReadBack, DefinitionPart
    <3>2. TwoFinished => TwoFinished'
      BY <1>0 DEF DefinitionStays, TwoFinished
    <3>3. status'[q] # "conflict"
      BY <2>1, <2>6 DEF ReadBack, Answer, RequestsOK, requests
    <3> QED
      BY <2>1, <3>1, <3>2, <3>3 DEF DefinitionPart, Answered
  <2>7. CASE DefinitionFault(q)
    BY <2>1, <2>7
    DEF DefinitionFault, DefineAnswerLost, DefinitionFails, GiveUp, RequestsOK, DefinitionPart,
        Answered
  <2> QED
    BY <1>4, <2>2, <2>3, <2>4, <2>5, <2>6, <2>7 DEF DefinitionHandler
<1>5. ASSUME NEW r \in Request, Handler(r) \/ Fails(r)
      PROVE  DefinitionPart(q)'
  BY <1>1, <1>3, <1>4, <1>5, HandlerMoves, OpOfHandler
  DEF Handler, Fails, TailsOps, RevocationOps
<1>6. CASE Agent
  BY <1>0, <1>6, AgentMovesNone, DefinitionPartStays DEF Untouched
<1>7. CASE UNCHANGED vars
  BY <1>0, <1>7, DefinitionPartStays DEF vars, requests
<1> QED
  BY <1>2, <1>5, <1>6, <1>7 DEF Next, AllAnswered

\* Nothing is defined at first.
LEMMA DefinitionInit == Init => DefinitionInv
<1> SUFFICES ASSUME Init PROVE DefinitionInv
  OBVIOUS
<1>1. RegistriesOfDefined
  BY TailsFiles, WellFormedFiles, DefinitionNone DEF Init, Fresh, Issued, RegistriesOfDefined
<1>2. ASSUME NEW r \in Request PROVE DefinitionPart(r)
  BY RequestNone DEF Init, Fresh, Issued, DefinitionPart, Answered, Status
<1> QED
  BY <1>1, <1>2 DEF DefinitionInv

\* Whoever makes the definition, and whatever times out or fails meanwhile, a request
\* for a revocable one succeeds only with two finished registries whose tails files can
\* be fetched, and is a conflict only with a definition that exists.
THEOREM DefinitionsCanBeIssuedFrom == Spec => []DefinedIsRevocable
<1>1. Base /\ DefinitionInv => DefinedIsRevocable
  BY DEF DefinitionInv, DefinitionPart, RegistriesOfDefined, TwoFinished, DefinedIsRevocable,
         Answered
<1>2. Base /\ TailsInv /\ DefinitionInv /\ [Next]_vars => DefinitionInv'
  BY RegistriesStep, DefinitionPartStep DEF DefinitionInv
<1> QED
  BY BaseInit, BaseStep, TailsInit, TailsStep, DefinitionInit, <1>1, <1>2, PTL DEF Spec

-----------------------------------------------------------------------------
(* Revocations.                                                            *)

Final == {"publishing", "revoked", "bounced"}
Past == Final \cup {"pending"}

\* What is on its way to the ledger is not taken back.
RevocationStays ==
  \A c \in Cred :
    /\ cred[c] # "none" => cred'[c] # "none"
    /\ cred[c] \in Past => cred'[c] \in Past
    /\ cred[c] \in Final => cred'[c] \in Final

RevokePart(r) ==
  /\ covered[r] \subseteq {call[r].cred}
  /\ cred[call[r].cred] # "none"
  /\ pc[r] = "look" => cred[call[r].cred] \in Final
  /\ status[r] = "ok" =>
       \A c \in covered[r] : cred[c] \in (IF call[r].now THEN Final ELSE Past)

\* While a publication validates, each credential it has to see to has been validated or
\* was pending from the start, or its registry is still to be validated. While it
\* publishes, a credential that is still pending is in a registry to be published.
PublishPart(r) ==
  /\ pc[r] = "validate" =>
       /\ todo[r] \subseteq DOMAIN call[r].map
       /\ \A c \in covered[r] :
            \/ Asks(call[r].map, c) /\ cred[c] \in Past
            \/ \E g \in todo[r] : c \in call[r].map[g]
  /\ pc[r] = "publish" =>
       \A c \in covered[r] :
         /\ Asks(call[r].map, c)
         /\ cred[c] \in Final \/ (cred[c] = "pending" /\ RegistryOf[c] \in todo[r])
  /\ status[r] = "ok" => \A c \in covered[r] : cred[c] \in Final

RevocationPart(r) ==
  call[r] # None =>
    /\ call[r].op = "revoke" => RevokePart(r)
    /\ call[r].op = "publish" => PublishPart(r)

RevocationInv == \A r \in Request : RevocationPart(r)

\* No revocation, and no publication, is undone.
LEMMA NothingIsTakenBack ==
  ASSUME Base, [Next]_vars
  PROVE  RevocationStays
<1> USE DEF Base, RevocationStays, Past, Final, RevocationTypeOK, CredState
<1>1. ASSUME NEW r \in Request, RevocationHandler(r) \/ RevocationFault(r)
      PROVE  RevocationStays
  <2>1. CASE Revoke(r) \/ RevokeAnswerLost(r)
    BY <2>1 DEF Revoke, RevokeAnswerLost
  <2>2. CASE Publish(r)
    BY <2>2 DEF Publish, Selected, PendingOf
  <2>3. CASE Fix(r)
    BY <2>3 DEF Fix
  <2>4. CASE UNCHANGED cred
    BY <2>4
  <2> QED
    BY <1>1, <2>1, <2>2, <2>3, <2>4
    DEF RevocationHandler, RevocationFault, Look, LookFails, Validate, AnswerPublish, Clear,
        ReadPending, ReadRecord, RevocationFails, revocation
<1>2. CASE \E c \in Cred : Written(c) \/ Issue(c)
  BY <1>2 DEF Written, Issue
<1>3. CASE UNCHANGED cred
  BY <1>3
<1> QED
  BY <1>1, <1>2, <1>3
  DEF Next, Come, Handler, Fails, Agent, AllAnswered, vars, revocation

\* A request that does not move keeps what it knows of its revocations.
LEMMA RevocationPartStays ==
  ASSUME Base, NEW q \in Request, RevocationPart(q), RevocationStays,
         call'[q] = call[q], pc'[q] = pc[q], status'[q] = status[q],
         todo'[q] = todo[q], covered'[q] = covered[q]
  PROVE  RevocationPart(q)'
<1>1. covered[q] \subseteq Cred
  BY DEF Base, RevocationTypeOK
<1>2. ASSUME call[q] # None, call[q].op = "revoke"
      PROVE  RevokePart(q)'
  <2>1. call[q].cred \in Cred
    BY <1>2, CallFields DEF Base, RequestsOK, Fields
  <2> QED
    BY <1>1, <1>2, <2>1 DEF RevocationPart, RevokePart, RevocationStays
<1>3. ASSUME call[q] # None, call[q].op = "publish"
      PROVE  PublishPart(q)'
  <2>1. \A c \in covered[q] : cred[c] = "pending" => cred'[c] \in Final \/ cred'[c] = "pending"
    BY <1>1 DEF RevocationStays, Past, Final
  <2>2. \A c : Asks(call[q].map, c)' <=> Asks(call[q].map, c)
    BY DEF Asks
  <2> QED
    BY <1>1, <1>3, <2>1, <2>2 DEF RevocationPart, PublishPart, RevocationStays
<1> QED
  BY <1>2, <1>3 DEF RevocationPart

\* A handler changes what is to be done for its own request only.
LEMMA OwnTodo ==
  ASSUME Base, NEW r \in Request, NEW q \in Request, q # r,
         RevocationHandler(r) \/ RevocationFault(r)
  PROVE  todo'[q] = todo[q] /\ covered'[q] = covered[q]
BY DEF Base, RevocationTypeOK, RevocationHandler, RevocationFault, Revoke, RevokeAnswerLost,
       Look, LookFails, Validate, Publish, AnswerPublish, Clear, ReadPending, ReadRecord, Fix,
       RevocationFails, revocation

\* The revocation that moves keeps it,
LEMMA RevokePartStep ==
  ASSUME Base, RevocationInv, [Next]_vars, NEW r \in Request,
         RevocationHandler(r) \/ RevocationFault(r), call[r].op = "revoke"
  PROVE  RevokePart(r)'
<1> USE RequestNone DEF Base, Status
<1>1. /\ call[r] # None /\ call[r].cred \in Cred /\ call[r].now \in BOOLEAN
      /\ call' = call /\ status[r] = None /\ pc[r] \in {"revoke", "look"}
  BY RevocationMoves, CallFields, StepsAreNotEnds DEF Moved, RequestsOK, Fields, Belongs
<1>2. RevokePart(r) /\ RevocationStays /\ covered' = covered /\ covered[r] \subseteq Cred
  BY <1>1, NothingIsTakenBack
  DEF RevocationInv, RevocationPart, RevocationHandler, RevocationFault, Revoke,
      RevokeAnswerLost, Look, LookFails, Validate, Publish, AnswerPublish, Clear, ReadPending,
      ReadRecord, Fix, RevocationFails, revocation, RevocationTypeOK
<1>3. CASE Revoke(r)
  BY <1>1, <1>2, <1>3
  DEF Revoke, Goto, Answer, RequestsOK, RevocationTypeOK, CredState, RevokePart, Past, Final
<1>4. CASE Look(r)
  BY <1>1, <1>2, <1>4
  DEF Look, Answer, requests, RequestsOK, RevokePart, RevocationStays, Past, Final
<1>5. CASE LookFails(r)
  BY <1>1, <1>2, <1>5
  DEF LookFails, Answer, requests, RequestsOK, RevokePart, RevocationStays
<1>6. CASE RevokeAnswerLost(r) \/ RevocationFails(r)
  BY <1>1, <1>2, <1>6
  DEF RevokeAnswerLost, RevocationFails, GiveUp, RequestsOK, RevokePart, RevocationStays
<1> QED
  BY <1>1, <1>3, <1>4, <1>5, <1>6
  DEF RevocationHandler, RevocationFault, Validate, Publish, AnswerPublish, Clear,
      ReadPending, ReadRecord, Fix

\* and the publication that moves,
LEMMA PublishPartStep ==
  ASSUME Base, RevocationInv, [Next]_vars, NEW r \in Request,
         RevocationHandler(r) \/ RevocationFault(r), call[r].op = "publish"
  PROVE  PublishPart(r)'
<1> USE RequestNone DEF Base, Status
<1> DEFINE map == call[r].map
<1>1. /\ call[r] # None /\ call' = call /\ status[r] = None
      /\ pc[r] \in {"validate", "publish"}
  BY RevocationMoves, StepsAreNotEnds DEF Moved, RequestsOK, Belongs
<1>2. PublishPart(r) /\ RevocationStays /\ covered' = covered /\ covered[r] \subseteq Cred
  BY <1>1, NothingIsTakenBack
  DEF RevocationInv, RevocationPart, RevocationHandler, RevocationFault, Revoke,
      RevokeAnswerLost, Look, LookFails, Validate, Publish, AnswerPublish, Clear, ReadPending,
      ReadRecord, Fix, RevocationFails, revocation, RevocationTypeOK
<1>3. \A c : Asks(map, c)' <=> Asks(map, c)
  BY <1>1 DEF Asks
<1>4. CASE Validate(r)
  <2> USE DEF Validate
  <2>1. CASE todo[r] = {} /\ Goto(r, "publish") /\ todo' = [todo EXCEPT ![r] = Targets(map)]
    <3>1. pc'[r] = "publish" /\ status'[r] = None /\ todo'[r] = Targets(map) /\ cred' = cred
      BY <1>1, <1>4, <2>1 DEF Goto, RequestsOK, RevocationTypeOK
    <3>2. ASSUME NEW c \in covered[r]
          PROVE  Asks(map, c) /\ cred[c] \in Past /\ RegistryOf[c] \in Targets(map)
      <4>1. Asks(map, c) /\ cred[c] \in Past
        BY <1>2, <1>4, <2>1 DEF PublishPart
      <4> QED
        BY <1>2, <4>1, RegistryOfCred DEF Asks, Targets
    <3> QED
      BY <1>1, <1>2, <1>3, <3>1, <3>2 DEF PublishPart, Past
  <2>2. ASSUME NEW g \in todo[r], Valid(map, g), todo' = [todo EXCEPT ![r] = @ \ {g}],
               UNCHANGED requests
        PROVE  PublishPart(r)'
    <3>1. pc'[r] = "validate" /\ status'[r] = None /\ todo'[r] = todo[r] \ {g} /\ cred' = cred
      BY <1>1, <1>4, <2>2 DEF requests, RevocationTypeOK
    <3>2. \A c \in map[g] : Asks(map, c) /\ cred[c] \in Past
      BY <1>2, <1>4, <2>2 DEF PublishPart, Valid, PendingOf, Asks, Past
    <3> QED
      BY <1>1, <1>2, <1>3, <1>4, <3>1, <3>2 DEF PublishPart
  <2>3. CASE Answer(r, "missing")
    BY <1>1, <2>3 DEF Answer, RequestsOK, PublishPart
  <2> QED
    BY <1>4, <2>1, <2>2, <2>3
<1>5. CASE Publish(r)
  <2>1. PICK g \in todo[r] :
          /\ todo' = [todo EXCEPT ![r] = @ \ {g}]
          /\ cred' = [c \in Cred |-> IF c \in Selected(map, g) THEN "publishing" ELSE cred[c]]
    BY <1>5 DEF Publish
  <2>2. pc' = pc /\ status' = status /\ pc[r] = "publish" /\ todo'[r] = todo[r] \ {g}
    BY <1>5, <2>1 DEF Publish, requests, RevocationTypeOK
  <2>3. ASSUME NEW c \in covered[r], cred'[c] \notin Final
        PROVE  cred'[c] = "pending" /\ RegistryOf[c] \in todo[r] \ {g}
    <3>1. Asks(map, c) /\ c \in Cred /\ c \notin Selected(map, g) /\ cred'[c] = cred[c]
      BY <1>2, <2>1, <2>2, <2>3 DEF PublishPart, Final
    <3>2. cred[c] = "pending" /\ RegistryOf[c] \in todo[r]
      BY <1>2, <2>2, <2>3, <3>1 DEF PublishPart
    <3> QED
      BY <3>1, <3>2 DEF Selected, PendingOf
  <2> QED
    BY <1>1, <1>2, <1>3, <2>2, <2>3 DEF PublishPart
<1>6. CASE AnswerPublish(r)
  <2>1. cred' = cred /\ pc[r] = "publish" /\ todo[r] = {} /\ pc'[r] = "done"
    BY <1>6 DEF AnswerPublish, Answer, RequestsOK
  <2> QED
    BY <1>1, <1>2, <2>1 DEF PublishPart
<1>7. CASE RevocationFails(r)
  BY <1>1, <1>7 DEF RevocationFails, GiveUp, RequestsOK, PublishPart
<1> QED
  BY <1>1, <1>4, <1>5, <1>6, <1>7
  DEF RevocationHandler, RevocationFault, Revoke, RevokeAnswerLost, Look, LookFails, Clear,
      ReadPending, ReadRecord, Fix

\* and the one that arrives.
LEMMA ComePart ==
  ASSUME Base, NEW r \in Request, NEW c \in Calls, Come(r, c)
  PROVE  RevocationPart(r)'
<1> USE RequestNone DEF Base, Status
<1>1. /\ call'[r] = c /\ pc'[r] = FirstStep(c) /\ status'[r] = None
      /\ covered'[r] = Covered(c) /\ cred' = cred
      /\ todo'[r] = IF c.op = "publish" THEN DOMAIN c.map ELSE {}
  <2>1. call'[r] = c /\ pc'[r] = FirstStep(c) /\ status'[r] = None
    BY ComeMoves DEF RequestsOK
  <2>2. /\ covered'[r] = Covered(c) /\ cred' = cred
        /\ todo'[r] = IF c.op = "publish" THEN DOMAIN c.map ELSE {}
    BY DEF Come, RevocationTypeOK
  <2> QED
    BY <2>1, <2>2
<1>2. CASE c.op = "revoke"
  <2>1. FirstStep(c) = "revoke" /\ Covered(c) \subseteq {c.cred} /\ cred[c.cred] # "none"
    BY <1>2 DEF FirstStep, Covered, Come, CanCome
  <2> QED
    BY <1>1, <1>2, <2>1 DEF RevocationPart, RevokePart
<1>3. CASE c.op = "publish"
  <2>1. FirstStep(c) = "validate"
    BY <1>3 DEF FirstStep
  <2>2. ASSUME NEW x \in Covered(c)
        PROVE  (Asks(c.map, x) /\ cred[x] \in Past) \/ \E g \in DOMAIN c.map : x \in c.map[g]
    BY <1>3 DEF Covered, Past
  <2>3. \A x : Asks(call[r].map, x)' <=> Asks(c.map, x)
    BY <1>1 DEF Asks
  <2> QED
    BY <1>1, <1>3, <2>1, <2>2, <2>3 DEF RevocationPart, PublishPart
<1> QED
  BY <1>1, <1>2, <1>3 DEF RevocationPart

\* Every step keeps RevocationInv.
LEMMA RevocationStep == Base /\ RevocationInv /\ [Next]_vars => RevocationInv'
<1> SUFFICES ASSUME Base, RevocationInv, [Next]_vars, NEW q \in Request
             PROVE  RevocationPart(q)'
  BY DEF RevocationInv
<1> USE DEF Base
<1>0. RevocationStays /\ RevocationPart(q)
  BY NothingIsTakenBack DEF RevocationInv
<1>1. ASSUME NEW r \in Request, NEW c \in Calls, Come(r, c)
      PROVE  RevocationPart(q)'
  <2>1. CASE r = q
    BY <1>1, <2>1, ComePart
  <2>2. CASE r # q
    <3>1. call'[q] = call[q] /\ pc'[q] = pc[q] /\ status'[q] = status[q]
      BY <1>1, <2>2, ComeMoves DEF RequestsOK
    <3>2. todo'[q] = todo[q] /\ covered'[q] = covered[q]
      BY <1>1, <2>2 DEF RevocationTypeOK, Come
    <3> QED
      BY <1>0, <3>1, <3>2, RevocationPartStays
  <2> QED
    BY <2>1, <2>2
<1>2. ASSUME NEW r \in Request, Moved(r), r # q, todo'[q] = todo[q], covered'[q] = covered[q]
      PROVE  RevocationPart(q)'
  BY <1>0, <1>2, RevocationPartStays DEF Moved, RequestsOK
<1>3. ASSUME NEW r \in Request, RevocationHandler(r) \/ RevocationFault(r)
      PROVE  RevocationPart(q)'
  <2>1. CASE r # q
    BY <1>2, <1>3, <2>1, OwnTodo, RevocationMoves
  <2>2. CASE r = q
    <3>1. call' = call
      BY <1>3, RevocationMoves DEF Moved
    <3> QED
      BY <1>3, <2>2, <3>1, RevokePartStep, PublishPartStep DEF RevocationPart
  <2> QED
    BY <2>1, <2>2
<1>4. ASSUME NEW r \in Request, Moved(r), UNCHANGED revocation,
             call[r].op \in TailsOps \cup {"define"}
      PROVE  RevocationPart(q)'
  <2>1. CASE r # q
    BY <1>2, <1>4, <2>1 DEF revocation
  <2>2. CASE r = q
    BY <1>4, <2>2 DEF Moved, RevocationPart, TailsOps
  <2> QED
    BY <2>1, <2>2
<1>5. ASSUME NEW r \in Request, Handler(r) \/ Fails(r)
      PROVE  RevocationPart(q)'
  BY <1>3, <1>4, <1>5, HandlerMoves, OpOfHandler DEF Handler, Fails
<1>6. CASE Agent
  BY <1>0, <1>6, AgentMovesNone, RevocationPartStays
  DEF Untouched, Agent, Written, Issue, revocation
<1>7. CASE UNCHANGED vars
  BY <1>0, <1>7, RevocationPartStays DEF vars, requests, revocation
<1> QED
  BY <1>1, <1>5, <1>6, <1>7 DEF Next, AllAnswered

\* Nothing is revoked at first.
LEMMA RevocationInit == Init => RevocationInv
BY RequestNone DEF Init, Fresh, Issued, RevocationInv, RevocationPart

\* Other requests, failed calls and a slow agent never take back a revocation that was
\* accepted, and a publication that succeeds leaves none of its credentials pending.
THEOREM AcceptedRevocationsStay == Spec => []SuccessIsKept
<1>1. Base /\ RevocationInv => SuccessIsKept
  <2> SUFFICES ASSUME Base, RevocationInv, NEW r \in Request, status[r] = "ok",
                      call[r].op \in {"revoke", "publish"}, NEW c \in covered[r]
               PROVE  \/ cred[c] \in Final
                      \/ call[r].op = "revoke" /\ ~call[r].now /\ cred[c] = "pending"
    BY DEF SuccessIsKept, Final
  <2>1. call[r] # None /\ RevocationPart(r)
    BY RequestNone DEF Base, RequestsOK, Status, RevocationInv, Step
  <2> QED
    BY <2>1 DEF RevocationPart, RevokePart, PublishPart, Past, Final
<1> QED
  BY BaseInit, BaseStep, RevocationInit, RevocationStep, <1>1, PTL DEF Spec
=============================================================================
