------------------------ MODULE ActorRegistryProofs ------------------------
(***************************************************************************)
(* Proofs about ActorRegistry, for any number of requests, actors, names,  *)
(* DIDs, invitations and images.                                           *)
(***************************************************************************)
EXTENDS ActorRegistry, TLAPS

\* None is told apart from every row and every call.
LEMMA NoneIsNoValue ==
  /\ None \notin Row
  /\ None \notin Calls
  /\ None \notin Status
BY CallsAssumption, NoneAssumption

\* The row an update writes is a row, if the update has read one.
LEMMA NewRowIsRow ==
  ASSUME NEW r, call[r] \in Call, seen[r] \in Row
  PROVE  /\ NewRow(r) \in Row
         /\ [NewRow(r) EXCEPT !.image = None] = [call[r].body EXCEPT !.image = None]
         /\ NewRow(r).image \in {call[r].body.image, seen[r].image}
         /\ NewRow(r) = [call[r].body EXCEPT !.image = NewRow(r).image]
         /\ call[r].body.image # None => NewRow(r).image = call[r].body.image
BY DEF NewRow, Call, Row

\* The parameters of the calls are what the column types say.
LEMMA CallFields ==
  ASSUME NEW c \in Calls
  PROVE  c \in Call /\ c.id \in Id /\ c.body \in Row
BY CallsAssumption DEF Call

-----------------------------------------------------------------------------
(* Types and handler states.                                               *)

Base == TypeOK /\ HandlerState

\* The empty table, with every request idle, satisfies Base.
LEMMA BaseInit == Init => Base
BY NoneIsNoValue DEF Init, Base, TypeOK, HandlerState, Status

\* Every step keeps Base.
LEMMA BaseStep == Base /\ [Next]_vars => Base'
<1> SUFFICES ASSUME Base, [Next]_vars PROVE Base'
  OBVIOUS
<1> USE NoneIsNoValue DEF Base, TypeOK, HandlerState, Answer
<1>1. ASSUME NEW r \in Request, NEW c \in Calls, Receive(r, c)
      PROVE  Base'
  BY <1>1 DEF Receive, Status
<1>2. ASSUME NEW r \in Request, Read(r)
      PROVE  Base'
  <2>1. PICK s \in Status : Answer(r, s)
    BY <1>2 DEF Read, Status
  <2>2. pc[r] = "first" /\ UNCHANGED <<actors, call, seen, effect>>
    BY <1>2 DEF Read
  <2> QED
    BY <2>1, <2>2
<1>3. ASSUME NEW r \in Request, CreateInsert(r)
      PROVE  Base'
  <2>1. call[r] \in Calls
    BY <1>3 DEF CreateInsert
  <2>2. call[r].id \in Id /\ call[r].body \in Row
    BY <2>1, CallFields
  <2>3. pc[r] = "first" /\ call[r].op = "create" /\ UNCHANGED <<call, seen>>
    BY <1>3 DEF CreateInsert
  <2>4. CASE Answer(r, "conflict") /\ UNCHANGED <<actors, effect>>
    BY <2>3, <2>4 DEF Status
  <2>5. CASE /\ actors' = [actors EXCEPT ![call[r].id] = call[r].body]
             /\ effect' = [effect EXCEPT ![r] = TRUE]
             /\ pc' = [pc EXCEPT ![r] = "refresh"]
             /\ UNCHANGED status
    <3>1. TypeOK'
      BY <2>2, <2>3, <2>5
    <3>2. HandlerState'
      BY <2>1, <2>3, <2>5
    <3> QED
      BY <3>1, <3>2
  <2> QED
    BY <1>3, <2>4, <2>5 DEF CreateInsert
<1>4. ASSUME NEW r \in Request, CreateRefresh(r)
      PROVE  Base'
  <2>1. PICK s \in Status : Answer(r, s)
    BY <1>4 DEF CreateRefresh, Status
  <2>2. pc[r] = "refresh" /\ UNCHANGED <<actors, call, seen, effect>>
    BY <1>4 DEF CreateRefresh
  <2> QED
    BY <2>1, <2>2
<1>5. ASSUME NEW r \in Request, SelectRow(r)
      PROVE  Base'
  <2>1. call[r] \in Calls
    BY <1>5 DEF SelectRow
  <2>2. call[r].id \in Id
    BY <2>1, CallFields
  <2> QED
    BY <1>5, <2>1, <2>2 DEF SelectRow, Status
<1>6. ASSUME NEW r \in Request, UpdateWrite(r)
      PROVE  Base'
  <2>1. call[r] \in Calls /\ seen[r] \in Row
    BY <1>6 DEF UpdateWrite
  <2>2. call[r].id \in Id /\ NewRow(r) \in Row
    BY <2>1, CallFields, NewRowIsRow
  <2>3. pc[r] = "write" /\ UNCHANGED <<call, seen>>
    BY <1>6 DEF UpdateWrite
  <2>4. PICK s \in Status : Answer(r, s)
    BY <1>6 DEF UpdateWrite, Status
  <2>5. CASE UNCHANGED <<actors, effect>>
    BY <2>3, <2>4, <2>5
  <2>6. CASE /\ actors' = [actors EXCEPT ![call[r].id] = NewRow(r)]
             /\ effect' = [effect EXCEPT ![r] = TRUE]
    <3>1. TypeOK'
      BY <2>2, <2>3, <2>4, <2>6
    <3>2. HandlerState'
      BY <2>1, <2>3, <2>4, <2>6
    <3> QED
      BY <3>1, <3>2
  <2> QED
    BY <1>6, <2>5, <2>6 DEF UpdateWrite
<1>7. ASSUME NEW r \in Request, DeleteWrite(r)
      PROVE  Base'
  BY <1>7 DEF DeleteWrite, Status
<1>8. ASSUME NEW r \in Request, StatementFails(r)
      PROVE  Base'
  BY <1>8 DEF StatementFails, Status
<1>9. ASSUME NEW r \in Request, CommitUnknown(r)
      PROVE  Base'
  <2>1. call[r] \in Calls
    BY <1>9 DEF CommitUnknown
  <2>2. call[r].id \in Id /\ call[r].body \in Row
    BY <2>1, CallFields
  <2>3. pc[r] = "write" => NewRow(r) \in Row
    BY <2>1, CallFields, NewRowIsRow
  <2>4. pc[r] \in {"first", "write"} /\ Answer(r, "error")
    BY <1>9 DEF CommitUnknown
  <2>5. actors' \in [Id -> Row \cup {None}]
    BY <1>9, <2>2, <2>3 DEF CommitUnknown
  <2>6. effect' = [effect EXCEPT ![r] = TRUE] /\ UNCHANGED <<call, seen>>
    BY <1>9 DEF CommitUnknown
  <2> QED
    BY <2>4, <2>5, <2>6 DEF Status
<1>10. CASE UNCHANGED vars
  BY <1>10 DEF vars
<1> QED
  BY <1>1, <1>2, <1>3, <1>4, <1>5, <1>6, <1>7, <1>8, <1>9, <1>10
     DEF Next, Statement, Fault, AllAnswered

\* Type correctness of the table, the sessions and the answers.
THEOREM TypeCorrect == Spec => [](TypeOK /\ HandlerState)
<1>1. Init => Base
  BY BaseInit
<1>2. Base /\ [Next]_vars => Base'
  BY BaseStep
<1>3. Base => TypeOK /\ HandlerState
  BY DEF Base
<1> QED
  BY <1>1, <1>2, <1>3, PTL DEF Spec

-----------------------------------------------------------------------------
(* Every step is a write of one request, or leaves the table alone.        *)

\* The one step of request r that changes the table.
Writes(r) ==
  LET c == call[r] IN
  /\ pc[r] \in {"first", "write"}
  /\ c \in Calls
  /\ \/ /\ c.op = "create" /\ actors[c.id] = None /\ ~Clashes(c.id, c.body)
        /\ actors' = [actors EXCEPT ![c.id] = c.body]
     \/ /\ c.op = "update" /\ pc[r] = "write" /\ actors[c.id] # None
        /\ ~Clashes(c.id, NewRow(r))
        /\ actors' = [actors EXCEPT ![c.id] = NewRow(r)]
     \/ /\ c.op = "delete"
        /\ actors' = [actors EXCEPT ![c.id] = None]
  /\ effect' = [effect EXCEPT ![r] = TRUE]
  /\ \/ UNCHANGED status
     \/ \E s \in {"ok", "error"} : status' = [status EXCEPT ![r] = s]
  /\ pc'[r] # "write" /\ \A q \in Request \ {r} : pc'[q] = pc[q]
  /\ UNCHANGED <<call, seen>>

\* Request r goes on without changing the table.
Proceeds(r) ==
  /\ UNCHANGED <<actors, effect>>
  /\ \/ \E c \in Calls : Receive(r, c)
     \/ SelectRow(r)
     \/ /\ \E s \in Status : Answer(r, s)
        /\ pc[r] \notin {"idle", "done"}
        /\ UNCHANGED <<call, seen>>

\* A step writes the table for one request or only moves that request on.
LEMMA StepKinds ==
  ASSUME Base, Next
  PROVE  UNCHANGED vars \/ \E r \in Request : Writes(r) \/ Proceeds(r)
<1> USE DEF Base, TypeOK, HandlerState
<1>1. ASSUME NEW r \in Request, NEW c \in Calls, Receive(r, c)
      PROVE  Proceeds(r)
  BY <1>1 DEF Receive, Proceeds
<1>2. ASSUME NEW r \in Request, Read(r)
      PROVE  Proceeds(r)
  <2>1. PICK s \in Status : Answer(r, s)
    BY <1>2 DEF Read, Status
  <2> QED
    BY <1>2, <2>1 DEF Read, Proceeds
<1>3. ASSUME NEW r \in Request, CreateInsert(r)
      PROVE  Writes(r) \/ Proceeds(r)
  <2>1. call[r] \in Calls
    BY <1>3, NoneIsNoValue DEF CreateInsert
  <2>2. CASE actors[call[r].id] # None \/ Clashes(call[r].id, call[r].body)
    BY <1>3, <2>2 DEF CreateInsert, Proceeds, Status
  <2>3. CASE ~(actors[call[r].id] # None \/ Clashes(call[r].id, call[r].body))
    BY <1>3, <2>1, <2>3 DEF CreateInsert, Writes
  <2> QED
    BY <2>2, <2>3
<1>4. ASSUME NEW r \in Request, CreateRefresh(r)
      PROVE  Proceeds(r)
  <2>1. PICK s \in Status : Answer(r, s)
    BY <1>4 DEF CreateRefresh, Status
  <2> QED
    BY <1>4, <2>1 DEF CreateRefresh, Proceeds
<1>5. ASSUME NEW r \in Request, SelectRow(r)
      PROVE  Proceeds(r)
  BY <1>5 DEF SelectRow, Proceeds
<1>6. ASSUME NEW r \in Request, UpdateWrite(r)
      PROVE  Writes(r) \/ Proceeds(r)
  <2>1. call[r] \in Calls
    BY <1>6, NoneIsNoValue DEF UpdateWrite
  <2>2. PICK s \in {"ok", "error", "notFound"} : Answer(r, s)
    BY <1>6 DEF UpdateWrite
  <2>3. CASE UNCHANGED <<actors, effect>>
    BY <1>6, <2>2, <2>3 DEF UpdateWrite, Proceeds, Status
  <2>4. CASE /\ actors[call[r].id] # None
             /\ ~Clashes(call[r].id, NewRow(r))
             /\ actors' = [actors EXCEPT ![call[r].id] = NewRow(r)]
             /\ effect' = [effect EXCEPT ![r] = TRUE]
             /\ \E t \in {"ok", "error"} : Answer(r, t)
    BY <1>6, <2>1, <2>4 DEF UpdateWrite, Writes, Answer
  <2> QED
    BY <1>6, <2>3, <2>4 DEF UpdateWrite
<1>7. ASSUME NEW r \in Request, DeleteWrite(r)
      PROVE  Writes(r)
  BY <1>7, NoneIsNoValue DEF DeleteWrite, Writes, Answer
<1>8. ASSUME NEW r \in Request, StatementFails(r)
      PROVE  Proceeds(r)
  BY <1>8 DEF StatementFails, Proceeds, Status
<1>9. ASSUME NEW r \in Request, CommitUnknown(r)
      PROVE  Writes(r)
  BY <1>9, NoneIsNoValue DEF CommitUnknown, Writes, Answer
<1> QED
  BY <1>1, <1>2, <1>3, <1>4, <1>5, <1>6, <1>7, <1>8, <1>9
     DEF Next, Statement, Fault, AllAnswered

-----------------------------------------------------------------------------
(* The unique keys.                                                        *)

\* No write makes two rows share a name or a DID.
LEMMA UniqueStep ==
  ASSUME Base, UniqueKeys, [Next]_vars
  PROVE  UniqueKeys'
<1>1. CASE UNCHANGED actors
  BY <1>1 DEF UniqueKeys
<1>2. ASSUME NEW r \in Request, Writes(r)
      PROVE  UniqueKeys'
  <2>1. PICK id \in Id, row \in {call[r].body, NewRow(r), None} :
          /\ actors' = [actors EXCEPT ![id] = row]
          /\ row = None \/ ~Clashes(id, row)
    BY <1>2, CallFields DEF Writes
  <2>2. \A j \in Id : actors'[j] = IF j = id THEN row ELSE actors[j]
    BY <2>1 DEF Base, TypeOK
  <2>3. \A j \in Id \ {id} : actors[j] # None /\ row # None
          => ~SameKey(row, actors[j]) /\ ~SameKey(actors[j], row)
    BY <2>1 DEF Clashes, SameKey
  <2> QED
    BY <2>2, <2>3 DEF UniqueKeys, SameKey
<1> QED
  BY <1>1, <1>2, StepKinds DEF vars, Proceeds

\* No two actors ever share a name, a DID or an invitation.
THEOREM KeysAreUnique == Spec => []UniqueKeys
<1>1. Init => Base /\ UniqueKeys
  BY BaseInit DEF Init, UniqueKeys
<1>2. Base /\ UniqueKeys /\ [Next]_vars => (Base /\ UniqueKeys)'
  BY BaseStep, UniqueStep
<1> QED
  BY <1>1, <1>2, PTL DEF Spec

-----------------------------------------------------------------------------
(* No torn rows.                                                           *)

Torn == NoTornRow /\ SeenImageSent

\* Wrote and ImageSent in the next state, of a value of this one.
WroteAfter(q, i) ==
  effect'[q] /\ call'[q].op \in {"create", "update"} /\ call'[q].id = i

SentAfter(i, img) ==
  img # None => \E q \in Request : WroteAfter(q, i) /\ call'[q].body.image = img

\* A request that has written an actor never ceases to be one.
LEMMA WroteStable ==
  ASSUME Base, NEW r \in Request, Writes(r) \/ Proceeds(r)
  PROVE  \A q \in Request, i \in Id :
           Wrote(q, i) => WroteAfter(q, i) /\ call'[q] = call[q]
<1> USE DEF Base, TypeOK, HandlerState, Wrote, WroteAfter
<1>1. CASE Writes(r)
  BY <1>1 DEF Writes
<1>2. CASE UNCHANGED <<call, effect>>
  BY <1>2
<1>3. ASSUME NEW c \in Calls, Receive(r, c), UNCHANGED effect
      PROVE  \A q \in Request, i \in Id :
               Wrote(q, i) => WroteAfter(q, i) /\ call'[q] = call[q]
  BY <1>3 DEF Receive
<1> QED
  BY <1>1, <1>2, <1>3 DEF Proceeds, SelectRow

\* An image that was sent to a row stays sent: calls are not forgotten.
LEMMA ImageSentStable ==
  ASSUME Base, NEW r \in Request, Writes(r) \/ Proceeds(r)
  PROVE  \A i \in Id : \A img : ImageSent(i, img) => SentAfter(i, img)
BY WroteStable DEF ImageSent, SentAfter

\* The row a create or an update commits carries columns and an image sent for
\* that actor.
LEMMA WrittenRow ==
  ASSUME Base, Torn, NEW r \in Request, Writes(r),
         actors'[call[r].id] # None
  PROVE  /\ WroteAfter(r, call[r].id)
         /\ [actors'[call[r].id] EXCEPT !.image = None]
              = [call'[r].body EXCEPT !.image = None]
         /\ SentAfter(call[r].id, actors'[call[r].id].image)
<1> DEFINE id == call[r].id
<1>1. /\ call[r] \in Calls /\ call' = call /\ effect' = [effect EXCEPT ![r] = TRUE]
      /\ call[r].op \in {"create", "update"}
      /\ actors'[id] = IF call[r].op = "create" THEN call[r].body ELSE NewRow(r)
      /\ call[r].op = "update" => pc[r] = "write"
  BY NoneIsNoValue, CallFields DEF Writes, Base, TypeOK
<1>2. id \in Id /\ call[r].body \in Row /\ call[r] \in Call
  BY <1>1, CallFields
<1>3. WroteAfter(r, id)
  BY <1>1 DEF WroteAfter, Base, TypeOK
<1>4. SentAfter(id, call[r].body.image)
  BY <1>1, <1>3 DEF SentAfter
<1>5. CASE call[r].op = "create"
  BY <1>1, <1>3, <1>4, <1>5
<1>6. CASE call[r].op = "update"
  <2>1. seen[r] \in Row
    BY <1>1, <1>6 DEF Base, TypeOK, HandlerState
  <2>2. /\ [NewRow(r) EXCEPT !.image = None] = [call[r].body EXCEPT !.image = None]
        /\ NewRow(r).image \in {call[r].body.image, seen[r].image}
    BY <1>2, <2>1, NewRowIsRow
  <2>3. ImageSent(id, seen[r].image)
    BY <1>1, <1>6 DEF Torn, SeenImageSent
  <2>4. SentAfter(id, seen[r].image)
    BY <1>2, <2>3, ImageSentStable
  <2> QED
    BY <1>1, <1>3, <1>4, <1>6, <2>2, <2>4
<1> QED
  BY <1>1, <1>5, <1>6

\* A row stays within what calls have written to it.
LEMMA TornStep ==
  ASSUME Base, Torn, [Next]_vars
  PROVE  Torn'
<1>1. CASE UNCHANGED vars
  BY <1>1 DEF Torn, NoTornRow, SeenImageSent, ImageSent, Wrote, vars
<1>2. ASSUME /\ \A i \in Id : actors'[i] # None =>
                  /\ \E q \in Request :
                       /\ WroteAfter(q, i)
                       /\ [actors'[i] EXCEPT !.image = None]
                            = [call'[q].body EXCEPT !.image = None]
                  /\ SentAfter(i, actors'[i].image)
             /\ \A q \in Request :
                  pc'[q] = "write" => SentAfter(call'[q].id, seen'[q].image)
      PROVE  Torn'
  BY <1>2 DEF Torn, NoTornRow, SeenImageSent, ImageSent, Wrote, WroteAfter, SentAfter
<1>3. ASSUME NEW r \in Request, Writes(r) \/ Proceeds(r),
             NEW i \in Id, actors'[i] # None
      PROVE  /\ \E q \in Request :
                  /\ WroteAfter(q, i)
                  /\ [actors'[i] EXCEPT !.image = None]
                       = [call'[q].body EXCEPT !.image = None]
             /\ SentAfter(i, actors'[i].image)
  <2>1. CASE Writes(r) /\ i = call[r].id
    BY <1>3, <2>1, WrittenRow
  <2>2. CASE actors'[i] = actors[i]
    <3>1. actors[i] # None
      BY <1>3, <2>2
    <3>2. PICK q \in Request :
            /\ Wrote(q, i)
            /\ [actors[i] EXCEPT !.image = None] = [call[q].body EXCEPT !.image = None]
      BY <3>1 DEF Torn, NoTornRow
    <3>3. WroteAfter(q, i) /\ call'[q] = call[q]
      BY <1>3, <3>2, WroteStable
    <3>4. SentAfter(i, actors[i].image)
      BY <1>3, <3>1, ImageSentStable DEF Torn, NoTornRow
    <3> QED
      BY <2>2, <3>2, <3>3, <3>4
  <2> QED
    BY <1>3, <2>1, <2>2 DEF Writes, Proceeds, Base, TypeOK
<1>4. ASSUME NEW r \in Request, Writes(r) \/ Proceeds(r),
             NEW q \in Request, pc'[q] = "write"
      PROVE  SentAfter(call'[q].id, seen'[q].image)
  <2>1. CASE pc[q] = "write" /\ call'[q] = call[q] /\ seen'[q] = seen[q]
    <3>1. call[q] \in Calls
      BY <2>1, NoneIsNoValue DEF Base, TypeOK, HandlerState
    <3>2. ImageSent(call[q].id, seen[q].image)
      BY <2>1 DEF Torn, SeenImageSent
    <3> QED
      BY <1>4, <2>1, <3>1, <3>2, CallFields, ImageSentStable
  <2>2. CASE SelectRow(r) /\ q = r
    <3>1. /\ pc[r] = "first" /\ call' = call
          /\ actors[call[r].id] # None /\ seen'[r] = actors[call[r].id]
      BY <1>4, <2>2 DEF SelectRow, Answer, Base, TypeOK
    <3>2. call[r] \in Calls
      BY <3>1, NoneIsNoValue DEF Base, TypeOK, HandlerState
    <3>3. ImageSent(call[r].id, actors[call[r].id].image)
      BY <3>1, <3>2, CallFields DEF Torn, NoTornRow
    <3> QED
      BY <1>4, <2>2, <3>1, <3>2, <3>3, CallFields, ImageSentStable
  <2>3. \/ pc[q] = "write" /\ call'[q] = call[q] /\ seen'[q] = seen[q]
        \/ SelectRow(r) /\ q = r
    BY <1>4 DEF Writes, Proceeds, Receive, SelectRow, Answer, Base, TypeOK
  <2> QED
    BY <2>1, <2>2, <2>3
<1> QED
  BY <1>1, <1>2, <1>3, <1>4, StepKinds

\* Whatever the interleaving of the two statements of the updates, a row is
\* never put together from two requests, except for the image it kept.
THEOREM RowsAreNotTorn == Spec => []NoTornRow
<1>1. Init => Base /\ Torn
  BY BaseInit DEF Init, Torn, NoTornRow, SeenImageSent
<1>2. Base /\ Torn /\ [Next]_vars => (Base /\ Torn)'
  BY BaseStep, TornStep
<1>3. Torn => NoTornRow
  BY DEF Torn
<1> QED
  BY <1>1, <1>2, <1>3, PTL DEF Spec

-----------------------------------------------------------------------------
(* The table keeps the promise of AtomicRegistry.                          *)

\* The implementation starts where the promise starts.
LEMMA PromiseInit == Init => Promise!Init
BY DEF Init, Promise!Init

\* The database's unique columns are what the promise asks of a row.
LEMMA FitsIsNoClash ==
  ASSUME NEW id \in Id, NEW row, ~Clashes(id, row)
  PROVE  Promise!Fits(id, row)
BY DEF Clashes, SameKey, Promise!Fits, Promise!SameKey

\* The commit of a request is the instant at which the promise takes effect.
LEMMA PromiseWrite ==
  ASSUME Base, NEW r \in Request, Writes(r)
  PROVE  Promise!TakeEffect(r)
<1> USE DEF Base, TypeOK, HandlerState
<1>1. call[r] \in Calls /\ call[r] \in Call /\ call[r].id \in Id /\ call[r].body \in Row
  BY CallFields DEF Writes
<1>2. Promise!Pending(r) /\ ~effect[r]
  BY <1>1, NoneIsNoValue DEF Writes, Promise!Pending
<1>3. /\ effect' = [effect EXCEPT ![r] = TRUE] /\ UNCHANGED call
      /\ \E s \in {None, "ok", "error"} : status' = [status EXCEPT ![r] = s]
  <2>1. status = [status EXCEPT ![r] = None]
    BY <1>2 DEF Promise!Pending
  <2> QED
    BY <2>1 DEF Writes
<1>4. CASE call[r].op = "create" /\ actors[call[r].id] = None
           /\ ~Clashes(call[r].id, call[r].body)
           /\ actors' = [actors EXCEPT ![call[r].id] = call[r].body]
  BY <1>1, <1>2, <1>3, <1>4, FitsIsNoClash DEF Promise!TakeEffect
<1>5. CASE call[r].op = "update" /\ pc[r] = "write" /\ actors[call[r].id] # None
           /\ ~Clashes(call[r].id, NewRow(r))
           /\ actors' = [actors EXCEPT ![call[r].id] = NewRow(r)]
  <2>1. seen[r] \in Row
    BY <1>5
  <2> DEFINE img == NewRow(r).image
  <2>2. /\ img \in Image \cup {None}
        /\ NewRow(r) = [call[r].body EXCEPT !.image = img]
        /\ call[r].body.image # None => img = call[r].body.image
    BY <1>1, <2>1, NewRowIsRow DEF Row
  <2>3. Promise!Fits(call[r].id, [call[r].body EXCEPT !.image = img])
    BY <1>1, <1>5, <2>2, FitsIsNoClash
  <2>4. actors' = [actors EXCEPT ![call[r].id] = [call[r].body EXCEPT !.image = img]]
    BY <1>5, <2>2
  <2> HIDE DEF img
  <2> QED
    BY <1>2, <1>3, <1>5, <2>2, <2>3, <2>4 DEF Promise!TakeEffect
<1>6. CASE call[r].op = "delete"
           /\ actors' = [actors EXCEPT ![call[r].id] = None]
  BY <1>2, <1>3, <1>6 DEF Promise!TakeEffect
<1> QED
  BY <1>4, <1>5, <1>6 DEF Writes

\* A call that is received is a call that arrives.
LEMMA PromiseReceive ==
  ASSUME Base, NEW r \in Request, NEW c \in Calls, Receive(r, c)
  PROVE  Promise!Arrive(r, c)
<1>1. call[r] = None /\ status[r] = None
  BY DEF Receive, Base, TypeOK, HandlerState
<1>2. status = [status EXCEPT ![r] = None]
  BY <1>1 DEF Base, TypeOK
<1> QED
  BY <1>1, <1>2 DEF Receive, Answer, Promise!Arrive

\* A handler that answers without a write: nothing has happened, and it says so.
LEMMA PromiseRefuse ==
  ASSUME Base, NEW r \in Request, pc[r] \in {"first", "write"},
         NEW s \in {"notFound", "conflict", "error"}, Answer(r, s),
         UNCHANGED <<actors, call, effect>>
  PROVE  Promise!Refuse(r)
BY DEF Base, TypeOK, HandlerState, Answer, Promise!Refuse, Promise!Pending

\* Every step is a step of the promise, or a stutter.
LEMMA PromiseStep ==
  ASSUME Base, Next
  PROVE  [Promise!Next]_(Promise!avars)
<1> USE DEF Base, TypeOK, HandlerState
<1>1. ASSUME NEW r \in Request, NEW c \in Calls, Receive(r, c)
      PROVE  Promise!Next
  BY <1>1, PromiseReceive DEF Promise!Next
<1>2. ASSUME NEW r \in Request, Read(r)
      PROVE  Promise!Next
  <2>1. Promise!Pending(r)
    BY <1>2 DEF Read, Promise!Pending
  <2>2. CASE Answer(r, "ok")
    BY <1>2, <2>1, <2>2 DEF Read, ReadOp, Answer, Promise!Report, Promise!Next
  <2>3. CASE Answer(r, "notFound") \/ Answer(r, "error")
    <3>1. pc[r] = "first" /\ UNCHANGED <<actors, call, effect>>
      BY <1>2 DEF Read
    <3> QED
      BY <2>3, <3>1, PromiseRefuse DEF Promise!Next
  <2> QED
    BY <1>2, <2>2, <2>3 DEF Read
<1>3. ASSUME NEW r \in Request, CreateInsert(r)
      PROVE  Promise!Next
  <2>1. CASE Answer(r, "conflict") /\ UNCHANGED <<actors, effect>>
    <3>1. pc[r] = "first" /\ UNCHANGED call
      BY <1>3 DEF CreateInsert
    <3> QED
      BY <2>1, <3>1, PromiseRefuse DEF Promise!Next
  <2>2. CASE ~(actors[call[r].id] # None \/ Clashes(call[r].id, call[r].body))
    <3>1. Writes(r)
      BY <1>3, <2>2, NoneIsNoValue DEF CreateInsert, Writes
    <3> QED
      BY <3>1, PromiseWrite DEF Promise!Next
  <2> QED
    BY <1>3, <2>1, <2>2 DEF CreateInsert
<1>4. ASSUME NEW r \in Request, CreateRefresh(r)
      PROVE  Promise!Next
  BY <1>4, NoneIsNoValue
     DEF CreateRefresh, Answer, Promise!Confirm, Promise!Pending, Promise!Next
<1>5. ASSUME NEW r \in Request, SelectRow(r)
      PROVE  [Promise!Next]_(Promise!avars)
  <2>1. CASE Answer(r, "notFound")
    BY <1>5, <2>1, PromiseRefuse DEF SelectRow, Promise!Next
  <2>2. CASE UNCHANGED status
    BY <1>5, <2>2 DEF SelectRow, Promise!avars
  <2> QED
    BY <1>5, <2>1, <2>2 DEF SelectRow
<1>6. ASSUME NEW r \in Request, UpdateWrite(r)
      PROVE  Promise!Next
  <2>1. CASE (Answer(r, "notFound") \/ Answer(r, "error")) /\ UNCHANGED <<actors, effect>>
    <3>1. pc[r] = "write" /\ UNCHANGED call
      BY <1>6 DEF UpdateWrite
    <3> QED
      BY <2>1, <3>1, PromiseRefuse DEF Promise!Next
  <2>2. CASE /\ actors[call[r].id] # None
             /\ ~Clashes(call[r].id, NewRow(r))
             /\ actors' = [actors EXCEPT ![call[r].id] = NewRow(r)]
             /\ effect' = [effect EXCEPT ![r] = TRUE]
             /\ \E t \in {"ok", "error"} : Answer(r, t)
    <3>1. Writes(r)
      BY <1>6, <2>2, NoneIsNoValue DEF UpdateWrite, Writes, Answer
    <3> QED
      BY <3>1, PromiseWrite DEF Promise!Next
  <2> QED
    BY <1>6, <2>1, <2>2 DEF UpdateWrite
<1>7. ASSUME NEW r \in Request, DeleteWrite(r)
      PROVE  Promise!Next
  <2>1. Writes(r)
    BY <1>7, NoneIsNoValue DEF DeleteWrite, Writes, Answer
  <2> QED
    BY <2>1, PromiseWrite DEF Promise!Next
<1>8. ASSUME NEW r \in Request, StatementFails(r)
      PROVE  Promise!Next
  <2>1. CASE pc[r] = "refresh"
    BY <1>8, <2>1, NoneIsNoValue
       DEF StatementFails, Answer, Promise!Confirm, Promise!Pending, Promise!Next
  <2>2. CASE pc[r] # "refresh"
    BY <1>8, <2>2, PromiseRefuse DEF StatementFails, Promise!Next
  <2> QED
    BY <2>1, <2>2
<1>9. ASSUME NEW r \in Request, CommitUnknown(r)
      PROVE  Promise!Next
  <2>1. Writes(r)
    BY <1>9, NoneIsNoValue DEF CommitUnknown, Writes, Answer
  <2> QED
    BY <2>1, PromiseWrite DEF Promise!Next
<1> QED
  BY <1>1, <1>2, <1>3, <1>4, <1>5, <1>6, <1>7, <1>8, <1>9
     DEF Next, Statement, Fault, AllAnswered, vars, Promise!avars

\* The handlers, with their separate SELECT, write, refresh and lost commits,
\* implement the atomic table: one effect at most per request, a success only
\* after it, a 4xx only without it.
THEOREM KeepsPromise == Spec => Atomic
<1>1. Init => Promise!Init
  BY PromiseInit
<1>2. Base /\ [Next]_vars => [Promise!Next]_(Promise!avars)
  BY PromiseStep DEF vars, Promise!avars
<1>3. Init => Base
  BY BaseInit
<1>4. Base /\ [Next]_vars => Base'
  BY BaseStep
<1> QED
  BY <1>1, <1>2, <1>3, <1>4, PTL DEF Spec, Atomic, Promise!Spec
=============================================================================
