----------------------- MODULE SchemaPublicationProofs -----------------------
(***************************************************************************)
(* Proofs about SchemaPublication, for any number of requests, schemas,    *)
(* polls, attempts and failures.                                           *)
(***************************************************************************)
EXTENDS SchemaPublication, TLAPS

\* The schema that a request has published is the one it was asked for.
OnLedger(r) ==
  /\ sid[r] \in SchemaId /\ ledger[sid[r]] # None
  /\ ledger[sid[r]].name = call[r].name /\ ledger[sid[r]].attrs = call[r].attrs

\* Where a request stands and what follows from it.
HandlerState(r) ==
  /\ pc[r] # "idle" => call[r] \in Call
  /\ pc[r] # "done" => answer[r] = None
  /\ pc[r] \in {"idle", "create"} => polls[r] = 0
  /\ pc[r] \in {"idle", "create", "await"} => posts[r] = 0
  /\ pc[r] = "await" => OnLedger(r) /\ polls[r] < MaxPolls
  /\ pc[r] = "register" =>
       OnLedger(r) /\ ledger[sid[r]].state = "finished" /\ posts[r] < MaxPosts
  /\ answer[r] = "ok" =>
       /\ found[r] \in SchemaId /\ call[r] \in Call
       /\ ledger[found[r]] =
            [name |-> call[r].name, attrs |-> call[r].attrs, state |-> "finished"]

Inv == TypeOK /\ RegisteredIsFinished /\ \A r \in Request : HandlerState(r)

\* The ledger forgets nothing and finishes for good.
LedgerStays ==
  \A s \in SchemaId : ledger[s] # None =>
    /\ ledger'[s] # None
    /\ ledger'[s].name = ledger[s].name /\ ledger'[s].attrs = ledger[s].attrs
    /\ ledger[s].state = "finished" => ledger'[s] = ledger[s]

LedgerOK == ledger \in [SchemaId -> Published \cup {None}]

\* A new schema takes a free id: the others stay on the ledger.
LEMMA NewSchemaStays ==
  ASSUME LedgerOK, NEW r \in Request, call[r] \in Call, NEW s \in SchemaId,
         NEW state \in {"wait", "finished"}, NewSchema(r, s, state)
  PROVE  /\ LedgerOK' /\ LedgerStays
         /\ ledger'[s] # None /\ ledger'[s].name = call[r].name
         /\ ledger'[s].attrs = call[r].attrs /\ ledger'[s].state = state
<1> DEFINE new == [name |-> call[r].name, attrs |-> call[r].attrs, state |-> state]
<1>1. new \in Published /\ new # None
  BY PublicationNone DEF Call, Published
<1>2. ledger' = [ledger EXCEPT ![s] = new] /\ ledger[s] = None
  BY DEF NewSchema
<1>3. /\ new.name = call[r].name /\ new.attrs = call[r].attrs /\ new.state = state
  OBVIOUS
<1> HIDE DEF new
<1> QED
  BY <1>1, <1>2, <1>3 DEF LedgerOK, LedgerStays

\* The endorser finishes a schema and leaves the others alone.
LEMMA EndorseStays ==
  ASSUME LedgerOK, NEW s \in SchemaId, Endorse(s)
  PROVE  LedgerOK' /\ LedgerStays
<1> DEFINE new == [ledger[s] EXCEPT !.state = "finished"]
<1>1. ledger[s] \in Published /\ ledger[s].state = "wait" /\ ledger' = [ledger EXCEPT ![s] = new]
  BY DEF Endorse, LedgerOK
<1>2. /\ new \in Published /\ new # None
      /\ new.name = ledger[s].name /\ new.attrs = ledger[s].attrs
  BY <1>1, PublicationNone DEF Published
<1> HIDE DEF new
<1> QED
  BY <1>1, <1>2 DEF LedgerOK, LedgerStays

\* No step takes a schema off the ledger or changes it.
LEMMA LedgerStep ==
  ASSUME Inv, [Next]_vars
  PROVE  LedgerOK' /\ LedgerStays
<1>0. LedgerOK /\ (UNCHANGED ledger => LedgerStays)
  BY DEF Inv, TypeOK, LedgerOK, LedgerStays
<1>1. ASSUME NEW r \in Request, NEW s \in SchemaId, NEW state \in {"wait", "finished"},
             NewSchema(r, s, state), pc[r] = "create"
      PROVE  LedgerOK' /\ LedgerStays
  BY <1>0, <1>1, NewSchemaStays DEF Inv, HandlerState
<1>2. ASSUME NEW s \in SchemaId, Endorse(s)
      PROVE  LedgerOK' /\ LedgerStays
  BY <1>0, <1>2, EndorseStays
<1>3. CASE UNCHANGED ledger
  BY <1>0, <1>3 DEF LedgerOK
<1>4. ASSUME NEW r \in Request, Create(r) \/ AgentFails(r)
      PROVE  LedgerOK' /\ LedgerStays
  BY <1>1, <1>3, <1>4 DEF Create, AgentFails
<1> QED
  BY <1>2, <1>3, <1>4
  DEF Next, Start, Handler, Failure, Finished, CreateRefused, Poll, Lookup, Register,
      RegisterBadGateway, RegisterConnectTimeout, RegisterFails, Crash, world, vars

\* What another request has got from the ledger stays there.
LEMMA StateStays ==
  ASSUME Inv, LedgerStays, NEW q \in Request,
         pc'[q] = pc[q], call'[q] = call[q], sid'[q] = sid[q], polls'[q] = polls[q],
         posts'[q] = posts[q], answer'[q] = answer[q], found'[q] = found[q]
  PROVE  HandlerState(q)'
<1>1. HandlerState(q)
  BY DEF Inv
<1>2. OnLedger(q) => OnLedger(q)'
  BY DEF OnLedger, LedgerStays
<1>3. answer[q] = "ok" => ledger'[found[q]] = ledger[found[q]]
  <2>1. ASSUME answer[q] = "ok"
        PROVE  /\ found[q] \in SchemaId /\ ledger[found[q]] \in Published
               /\ ledger[found[q]].state = "finished"
    BY <1>1, <2>1 DEF HandlerState, Call, Published
  <2> QED
    BY <2>1, PublicationNone DEF LedgerStays
<1>4. pc[q] = "register" => ledger'[sid[q]].state = "finished"
  BY <1>1 DEF HandlerState, OnLedger, LedgerStays
<1> QED
  BY <1>1, <1>2, <1>3, <1>4 DEF HandlerState

\* What one request does leaves what the others know true.
LEMMA OthersStay ==
  ASSUME Inv, [Next]_vars, NEW r \in Request, NEW q \in Request, q # r,
         (\E c \in Call : Start(r, c)) \/ Handler(r) \/ Failure(r)
  PROVE  HandlerState(q)'
<1>1. /\ pc'[q] = pc[q] /\ call'[q] = call[q] /\ sid'[q] = sid[q] /\ polls'[q] = polls[q]
      /\ posts'[q] = posts[q] /\ answer'[q] = answer[q] /\ found'[q] = found[q]
  BY DEF Inv, TypeOK, Start, Handler, Failure, Create, CreateRefused, Poll, Lookup, Register,
         RegisterBadGateway, RegisterConnectTimeout, RegisterFails, AgentFails, Crash,
         Goto, Succeed, Refuse, Blame, world, mine, reply, blame
<1> QED
  BY <1>1, LedgerStep, StateStays

\* A schema that a request has published and seen finished is what it was asked for.
LEMMA FinishedIsWhole ==
  ASSUME Inv, NEW r \in Request, call[r] \in Call, OnLedger(r), ledger[sid[r]].state = "finished"
  PROVE  ledger[sid[r]] = [name |-> call[r].name, attrs |-> call[r].attrs, state |-> "finished"]
<1>1. ledger[sid[r]] \in Published
  BY DEF Inv, TypeOK, OnLedger
<1> QED
  BY <1>1 DEF OnLedger, Published

\* What it does itself is what it knows afterwards.
LEMMA OwnStep ==
  ASSUME Inv, [Next]_vars, NEW r \in Request,
         (\E c \in Call : Start(r, c)) \/ Handler(r) \/ Failure(r)
  PROVE  HandlerState(r)'
<1> USE PublicationBounds, PublicationNone DEF Inv, TypeOK, HandlerState, Answers
<1> USE DEF Goto, Succeed, Refuse, world, mine, reply, blame
<1>1. CASE \E c \in Call : Start(r, c)
  <2>1. PICK c \in Call : Start(r, c)
    BY <1>1
  <2>2. pc[r] = "idle" /\ pc'[r] = "create" /\ call'[r] = c
    BY <2>1 DEF Start
  <2>3. UNCHANGED <<answer, polls, posts, ledger, sid, found>>
    BY <2>1 DEF Start
  <2> QED
    BY <2>2, <2>3
<1>2. CASE Create(r)
  <2>1. PICK s \in SchemaId, state \in {"wait", "finished"} :
          /\ NewSchema(r, s, state)
          /\ sid' = [sid EXCEPT ![r] = s]
          /\ Goto(r, IF state = "wait" THEN "await" ELSE "register")
    BY <1>2, Zenon DEF Create
  <2>2. /\ pc[r] = "create" /\ call[r] \in Call /\ answer'[r] = None /\ call' = call
        /\ polls'[r] = 0 /\ posts'[r] = 0
    BY <1>2 DEF Create
  <2>3. /\ ledger'[s] # None /\ ledger'[s].name = call[r].name
        /\ ledger'[s].attrs = call[r].attrs /\ ledger'[s].state = state
    BY <2>1, <2>2, NewSchemaStays DEF LedgerOK
  <2>4. sid'[r] = s /\ pc'[r] = IF state = "wait" THEN "await" ELSE "register"
    BY <2>1
  <2> QED
    BY <2>2, <2>3, <2>4 DEF OnLedger
<1>3. CASE CreateRefused(r)
  BY <1>3 DEF CreateRefused
<1>4. CASE Poll(r)
  BY <1>4 DEF Poll, OnLedger
<1>5. CASE Lookup(r)
  <2>1. ASSUME NEW s \in SchemaId, Named(call[r].name, {"finished"}) = {s},
               ledger[s].attrs = call[r].attrs
        PROVE  ledger[s] = [name |-> call[r].name, attrs |-> call[r].attrs, state |-> "finished"]
    <3>1. s \in Named(call[r].name, {"finished"})
      BY <2>1
    <3>2. ledger[s] \in Published /\ ledger[s].name = call[r].name /\ ledger[s].state = "finished"
      BY <3>1 DEF Named
    <3> QED
      BY <2>1, <3>2 DEF Published
  <2>0. pc[r] = "lookup" /\ call[r] \in Call /\ answer[r] = None
    BY <1>5 DEF Lookup
  <2>2. ledger' = ledger /\ call' = call /\ pc[r] = "lookup" /\ call[r] \in Call
        /\ answer[r] = None /\ pc'[r] = "done"
    BY <1>5, <2>0 DEF Lookup
  <2>3. answer'[r] = "ok" =>
          /\ found'[r] \in SchemaId
          /\ ledger[found'[r]] = [name |-> call[r].name, attrs |-> call[r].attrs,
                                  state |-> "finished"]
    BY <1>5, <2>1, <2>2 DEF Lookup
  <2> QED
    BY <2>2, <2>3
<1>6. CASE Register(r) \/ RegisterConnectTimeout(r)
  <2>1. OnLedger(r) /\ ledger[sid[r]].state = "finished" /\ call[r] \in Call
        /\ ledger' = ledger /\ call' = call /\ sid' = sid
    BY <1>6 DEF Register, RegisterConnectTimeout
  <2>2. ledger[sid[r]] = [name |-> call[r].name, attrs |-> call[r].attrs, state |-> "finished"]
    BY <2>1, FinishedIsWhole
  <2> QED
    BY <1>6, <2>1, <2>2 DEF Register, RegisterConnectTimeout, PostAgain, OnLedger
<1>7. CASE RegisterBadGateway(r) \/ RegisterFails(r)
  BY <1>7 DEF RegisterBadGateway, RegisterFails, PostAgain, OnLedger
<1>8. CASE AgentFails(r) \/ Crash(r)
  BY <1>8 DEF AgentFails, Crash
<1> QED
  BY <1>1, <1>2, <1>3, <1>4, <1>5, <1>6, <1>7, <1>8 DEF Handler, Failure

\* Both together: every request keeps HandlerState.
LEMMA HandlerStateStep ==
  ASSUME Inv, [Next]_vars, NEW q \in Request
  PROVE  HandlerState(q)'
<1>1. CASE \E r \in Request : (\E c \in Call : Start(r, c)) \/ Handler(r) \/ Failure(r)
  BY <1>1, OwnStep, OthersStay
<1>2. CASE UNCHANGED <<pc, mine, polls, posts, reply>>
  BY <1>2, LedgerStep, StateStays DEF mine, reply
<1> QED
  BY <1>1, <1>2 DEF Next, Endorse, Finished, vars, mine, reply

\* Only finished schemas are registered.
LEMMA RegisteredStep ==
  ASSUME Inv, [Next]_vars
  PROVE  RegisteredIsFinished' /\ registry' \subseteq SchemaId
<1>1. registry' \subseteq registry \cup
                {s \in SchemaId : ledger[s] # None /\ ledger[s].state = "finished"}
  <2>1. ASSUME NEW r \in Request,
               Register(r) \/ RegisterBadGateway(r) \/ RegisterFails(r)
        PROVE  /\ sid[r] \in SchemaId /\ ledger[sid[r]] # None
               /\ ledger[sid[r]].state = "finished"
               /\ registry' \subseteq registry \cup {sid[r]}
    BY <2>1 DEF Inv, HandlerState, OnLedger, Register, RegisterBadGateway, RegisterFails, Maybe
  <2>2. CASE UNCHANGED registry
    BY <2>2
  <2> QED
    BY <2>1, <2>2
    DEF Next, Start, Handler, Failure, Finished, Endorse, Create, CreateRefused, Poll, Lookup,
        RegisterConnectTimeout, AgentFails, Crash, world, vars
<1> QED
  BY <1>1, LedgerStep DEF Inv, TypeOK, RegisteredIsFinished, LedgerStays

\* The types of what a handler writes when it goes on or ends.
ReplyOK ==
  /\ pc     \in [Request -> {"idle", "create", "await", "lookup", "register", "done"}]
  /\ answer \in [Request -> Answers \cup {None}]
  /\ found  \in [Request -> SchemaId \cup {None}]

\* The ways of going on and of answering keep the types of the requests.
LEMMA ReplyTypes ==
  ASSUME TypeOK, NEW r \in Request
  PROVE  /\ \A p \in {"create", "await", "lookup", "register"} : Goto(r, p) => ReplyOK'
         /\ \A s \in SchemaId : Succeed(r, s) => ReplyOK'
         /\ \A a \in Answers : Refuse(r, a) => ReplyOK'
<1> USE DEF TypeOK, ReplyOK, Answers, reply
<1>1. ASSUME NEW p \in {"create", "await", "lookup", "register"}, Goto(r, p)
      PROVE  ReplyOK'
  BY <1>1 DEF Goto
<1>2. ASSUME NEW s \in SchemaId, Succeed(r, s) PROVE ReplyOK'
  BY <1>2 DEF Succeed
<1>3. ASSUME NEW a \in Answers, Refuse(r, a) PROVE ReplyOK'
  BY <1>3 DEF Refuse
<1> QED
  BY <1>1, <1>2, <1>3

\* A fault is counted and blamed.
LEMMA FaultTypes ==
  ASSUME TypeOK, NEW kind \in {"agent", "registry", "connect", "crash"}, Blame(kind)
  PROVE  /\ faults' \in 0 .. MaxFaults
         /\ faulted' \in SUBSET {"agent", "registry", "connect", "crash"}
BY PublicationBounds DEF TypeOK, Blame

\* Every step keeps the types.
LEMMA TypeStep ==
  ASSUME Inv, [Next]_vars
  PROVE  TypeOK'
<1>0. TypeOK /\ LedgerOK' /\ registry' \subseteq SchemaId
  BY LedgerStep, RegisteredStep DEF Inv
<1>1. ASSUME NEW r \in Request, pc[r] = "await" PROVE polls[r] + 1 \in 0 .. MaxPolls
  <2>1. polls[r] \in 0 .. MaxPolls
    BY DEF Inv, TypeOK
  <2>2. polls[r] < MaxPolls
    BY <1>1 DEF Inv, HandlerState
  <2> QED
    BY <2>1, <2>2, PublicationBounds
<1>2. ASSUME NEW r \in Request, pc[r] = "register"
      PROVE  posts[r] + 1 \in 0 .. MaxPosts /\ sid[r] \in SchemaId
  <2>1. posts[r] \in 0 .. MaxPosts
    BY DEF Inv, TypeOK
  <2>2. posts[r] < MaxPosts /\ sid[r] \in SchemaId
    BY <1>2 DEF Inv, HandlerState, OnLedger
  <2> QED
    BY <2>1, <2>2, PublicationBounds
<1>3. ASSUME NEW r \in Request, (\E c \in Call : Start(r, c)) \/ Handler(r) \/ Failure(r)
      PROVE  ReplyOK'
  <2> USE <1>0, <1>3, ReplyTypes DEF Answers
  <2>1. CASE \E c \in Call : Start(r, c)
    BY <2>1 DEF Start
  <2>2. CASE Create(r)
    BY <2>2 DEF Create
  <2>3. CASE CreateRefused(r)
    BY <2>3 DEF CreateRefused
  <2>4. CASE Poll(r)
    BY <2>4 DEF Poll
  <2>5. CASE Lookup(r)
    BY <2>5 DEF Lookup
  <2>6. CASE Register(r) \/ RegisterConnectTimeout(r)
    BY <1>2, <2>6 DEF Register, RegisterConnectTimeout
  <2>7. CASE RegisterBadGateway(r) \/ RegisterFails(r) \/ AgentFails(r)
    BY <2>7 DEF RegisterBadGateway, RegisterFails, AgentFails
  <2>8. CASE Crash(r)
    BY <2>8 DEF Crash, ReplyOK, TypeOK, reply
  <2> QED
    BY <2>1, <2>2, <2>3, <2>4, <2>5, <2>6, <2>7, <2>8 DEF Handler, Failure
<1>4. ASSUME NEW r \in Request, (\E c \in Call : Start(r, c)) \/ Handler(r)
      PROVE  TypeOK'
  <2>1. call' \in [Request -> Call \cup {None}] /\ sid' \in [Request -> SchemaId \cup {None}]
    BY <1>0, <1>4
    DEF TypeOK, Start, Handler, Create, CreateRefused, Poll, Lookup, Register, mine
  <2>2. polls' \in [Request -> 0 .. MaxPolls]
    BY <1>0, <1>1, <1>4
    DEF TypeOK, Start, Handler, Create, CreateRefused, Poll, Lookup, Register
  <2>3. posts' \in [Request -> 0 .. MaxPosts]
    BY <1>0, <1>2, <1>4
    DEF TypeOK, Start, Handler, Create, CreateRefused, Poll, Lookup, Register
  <2>4. UNCHANGED blame
    BY <1>4 DEF Start, Handler, Create, CreateRefused, Poll, Lookup, Register
  <2> QED
    BY <1>0, <1>3, <1>4, <2>1, <2>2, <2>3, <2>4 DEF TypeOK, LedgerOK, ReplyOK, blame
<1>5. ASSUME NEW r \in Request, Failure(r)
      PROVE  TypeOK'
  <2>1. /\ faults' \in 0 .. MaxFaults
        /\ faulted' \in SUBSET {"agent", "registry", "connect", "crash"}
    BY <1>0, <1>5, FaultTypes
    DEF Failure, RegisterBadGateway, RegisterConnectTimeout, RegisterFails, AgentFails, Crash
  <2>2. polls' = polls /\ UNCHANGED mine /\ posts' \in [Request -> 0 .. MaxPosts]
    BY <1>0, <1>2, <1>5
    DEF TypeOK, Failure, RegisterBadGateway, RegisterConnectTimeout, RegisterFails, AgentFails,
        Crash
  <2> QED
    BY <1>0, <1>3, <1>5, <2>1, <2>2 DEF TypeOK, LedgerOK, ReplyOK, mine
<1>6. CASE \E s \in SchemaId : Endorse(s)
  BY <1>0, <1>6 DEF TypeOK, LedgerOK, Endorse, mine, reply, blame
<1>7. CASE UNCHANGED vars
  BY <1>0, <1>7 DEF TypeOK, vars
<1> QED
  BY <1>4, <1>5, <1>6, <1>7 DEF Next, Finished

\* The initial states satisfy Inv.
LEMMA InvInit == Init => Inv
BY PublicationBounds, PublicationNone
DEF Init, Inv, TypeOK, RegisteredIsFinished, HandlerState, Answers

\* Every step keeps Inv.
LEMMA InvStep == Inv /\ [Next]_vars => Inv'
BY TypeStep, RegisteredStep, HandlerStateStep DEF Inv

\* The types of the ledger, of the registry and of every request's state.
THEOREM TypeCorrect == Spec => []TypeOK
<1>1. Inv => TypeOK
  BY DEF Inv
<1> QED
  BY InvInit, InvStep, <1>1, PTL DEF Spec

\* However often a registration is retried, crashes or loses its answer, and however
\* late the endorser is, no schema is registered that the ledger does not have.
THEOREM RegisteredAreFinished == Spec => []RegisteredIsFinished
<1>1. Inv => RegisteredIsFinished
  BY DEF Inv
<1> QED
  BY InvInit, InvStep, <1>1, PTL DEF Spec

\* A success names a finished schema with the name and the attributes asked for, for
\* the requests that published it and for those that found it there.
THEOREM SuccessesArePublished == Spec => []SuccessIsPublished
<1>1. Inv => SuccessIsPublished
  BY DEF Inv, HandlerState, SuccessIsPublished
<1> QED
  BY InvInit, InvStep, <1>1, PTL DEF Spec

-----------------------------------------------------------------------------
(* Where a schema that is not registered comes from.                       *)

\* Each schema of the ledger was published by a request, or the agent has lost one.
Owned ==
  \A s \in SchemaId :
    ledger[s] # None => "agent" \in faulted \/ \E q \in Request : sid[q] = s

\* A request that has published a schema succeeds by registering it, if it reached the
\* registry at all.
Registers(r) ==
  /\ pc[r] \in {"idle", "create", "lookup"} => sid[r] = None
  /\ sid[r] # None /\ answer[r] = "ok" => sid[r] \in registry \/ "connect" \in faulted

OwnerInv == Owned /\ \A r \in Request : Registers(r)

\* The registry and the blame only grow.
LEMMA NothingForgotten ==
  ASSUME TypeOK, [Next]_vars
  PROVE  registry \subseteq registry' /\ faulted \subseteq faulted'
<1> USE DEF world, blame, vars, Blame, Maybe
<1>1. registry \subseteq registry'
  BY DEF Next, Start, Handler, Failure, Finished, Endorse, Create, CreateRefused, Poll, Lookup,
         Register, RegisterBadGateway, RegisterConnectTimeout, RegisterFails, AgentFails, Crash
<1>2. faulted \subseteq faulted'
  BY DEF Next, Start, Handler, Failure, Finished, Endorse, Create, CreateRefused, Poll, Lookup,
         Register, RegisterBadGateway, RegisterConnectTimeout, RegisterFails, AgentFails, Crash
<1> QED
  BY <1>1, <1>2

\* Every schema on the ledger is some request's, unless the agent has failed.
LEMMA OwnedStep ==
  ASSUME Inv, OwnerInv, [Next]_vars
  PROVE  Owned'
<1> USE DEF Inv, TypeOK, OwnerInv, Owned
<1>0. faulted \subseteq faulted'
  BY NothingForgotten
<1>1. ASSUME NEW r \in Request, Create(r) PROVE Owned'
  <2>1. PICK s \in SchemaId, state \in {"wait", "finished"} :
          NewSchema(r, s, state) /\ sid' = [sid EXCEPT ![r] = s]
    BY <1>1, Zenon DEF Create
  <2>2. sid[r] = None /\ sid'[r] = s /\ \A q \in Request : q # r => sid'[q] = sid[q]
    BY <1>1, <2>1 DEF Create, Registers
  <2>3. \A x \in SchemaId : x # s => ledger'[x] = ledger[x]
    BY <2>1 DEF NewSchema
  <2> QED
    BY <1>0, <2>2, <2>3, PublicationNone
<1>2. ASSUME NEW r \in Request, AgentFails(r) PROVE Owned'
  BY <1>2 DEF AgentFails, Blame
<1>3. ASSUME NEW s \in SchemaId, Endorse(s) PROVE Owned'
  <2>1. \A x \in SchemaId : ledger'[x] # None => ledger[x] # None
    BY <1>3 DEF Endorse
  <2> QED
    BY <1>0, <1>3, <2>1 DEF Endorse, mine
<1>4. CASE UNCHANGED <<ledger, sid>>
  BY <1>0, <1>4
<1> QED
  BY <1>1, <1>2, <1>3, <1>4
  DEF Next, Start, Handler, Failure, Finished, CreateRefused, Poll, Lookup, Register,
      RegisterBadGateway, RegisterConnectTimeout, RegisterFails, Crash, world, mine, vars

\* A request that has published goes on to register, unless a fault stops it.
LEMMA RegistersStep ==
  ASSUME Inv, OwnerInv, [Next]_vars, NEW q \in Request
  PROVE  Registers(q)'
<1> USE PublicationNone DEF Inv, TypeOK, OwnerInv, Registers, HandlerState, Answers
<1> USE DEF Goto, Succeed, Refuse, Blame, world, mine, reply
<1>0. registry \subseteq registry' /\ faulted \subseteq faulted'
  BY NothingForgotten
<1>1. CASE pc'[q] = pc[q] /\ sid'[q] = sid[q] /\ answer'[q] = answer[q]
  BY <1>0, <1>1
<1>2. ASSUME NEW r \in Request, r # q,
             (\E c \in Call : Start(r, c)) \/ Handler(r) \/ Failure(r)
      PROVE  Registers(q)'
  <2>1. pc'[q] = pc[q] /\ sid'[q] = sid[q] /\ answer'[q] = answer[q]
    BY <1>2
    DEF Start, Handler, Failure, Create, CreateRefused, Poll, Lookup, Register,
        RegisterBadGateway, RegisterConnectTimeout, RegisterFails, AgentFails, Crash
  <2> QED
    BY <1>1, <2>1
<1>3. CASE (\E c \in Call : Start(q, c)) \/ CreateRefused(q) \/ Poll(q) \/ Lookup(q)
  BY <1>0, <1>3 DEF Start, CreateRefused, Poll, Lookup
<1>4. CASE Create(q)
  <2>1. PICK state \in {"wait", "finished"} :
          Goto(q, IF state = "wait" THEN "await" ELSE "register")
    BY <1>4, Zenon DEF Create
  <2>2. answer[q] = None /\ answer' = answer
    BY <1>4, <2>1 DEF Create
  <2>3. pc'[q] \in {"await", "register"} /\ answer'[q] # "ok"
    BY <2>1, <2>2
  <2> QED
    BY <2>3
<1>5. CASE Register(q)
  BY <1>5 DEF Register
<1>6. CASE RegisterConnectTimeout(q)
  BY <1>6 DEF RegisterConnectTimeout
<1>7. CASE RegisterBadGateway(q) \/ RegisterFails(q) \/ AgentFails(q) \/ Crash(q)
  <2>1. CASE RegisterBadGateway(q)
    <3>1. pc'[q] \in {"register", "done"} /\ answer'[q] # "ok"
      <4>1. pc[q] = "register" /\ answer[q] = None
        BY <2>1 DEF RegisterBadGateway
      <4>2. CASE Goto(q, "register")
        BY <4>1, <4>2
      <4>3. CASE Refuse(q, "error")
        BY <4>3
      <4> QED
        BY <2>1, <4>2, <4>3, Zenon DEF RegisterBadGateway
    <3> QED
      BY <3>1
  <2>2. CASE RegisterFails(q) \/ AgentFails(q)
    <3>1. pc'[q] = "done" /\ answer'[q] = "error"
      BY <2>2 DEF RegisterFails, AgentFails
    <3> QED
      BY <3>1
  <2>3. CASE Crash(q)
    <3>1. pc'[q] = "done" /\ answer'[q] = None
      BY <2>3 DEF Crash
    <3> QED
      BY <3>1
  <2> QED
    BY <1>7, <2>1, <2>2, <2>3
<1>8. CASE UNCHANGED <<pc, sid, answer>>
  BY <1>1, <1>8
<1> HIDE DEF Inv, TypeOK, OwnerInv, Registers, HandlerState, Answers, Goto, Succeed, Refuse,
             Blame, world
<1>9. CASE (\E c \in Call : Start(q, c)) \/ Handler(q) \/ Failure(q)
  BY <1>3, <1>4, <1>5, <1>6, <1>7, <1>9 DEF Handler, Failure
<1>10. CASE (\E s \in SchemaId : Endorse(s)) \/ UNCHANGED vars
  BY <1>8, <1>10 DEF Endorse, vars, mine, reply
<1> QED
  BY <1>2, <1>9, <1>10, Zenon DEF Next, Finished

\* A success leaves a schema out of the registry only if the agent lost a schema, the
\* registry could not be reached, or the request that published it has not succeeded.
THEOREM UnregisteredAreKnown == Spec => []UnregisteredIsKnown
<1>1. Init => OwnerInv
  BY PublicationNone DEF Init, OwnerInv, Owned, Registers
<1>2. Inv /\ OwnerInv /\ [Next]_vars => OwnerInv'
  BY OwnedStep, RegistersStep DEF OwnerInv
<1>3. Inv /\ OwnerInv => UnregisteredIsKnown
  <2> SUFFICES ASSUME Inv, OwnerInv, NEW r \in Request, answer[r] = "ok",
                      found[r] \notin registry, faulted \cap {"agent", "connect"} = {}
               PROVE  \E q \in Request : sid[q] = found[r] /\ answer[q] # "ok"
    BY DEF UnregisteredIsKnown
  <2>1. found[r] \in SchemaId /\ ledger[found[r]] # None
    <3>1. found[r] \in SchemaId /\ call[r] \in Call
          /\ ledger[found[r]] =
               [name |-> call[r].name, attrs |-> call[r].attrs, state |-> "finished"]
      BY DEF Inv, HandlerState
    <3>2. [name |-> call[r].name, attrs |-> call[r].attrs, state |-> "finished"] \in Published
      BY <3>1 DEF Call, Published
    <3> QED
      BY <3>1, <3>2, PublicationNone
  <2>2. PICK q \in Request : sid[q] = found[r]
    BY <2>1 DEF OwnerInv, Owned
  <2>3. answer[q] # "ok"
    BY <2>1, <2>2, PublicationNone DEF OwnerInv, Registers
  <2> QED
    BY <2>2, <2>3
<1> QED
  BY InvInit, InvStep, <1>1, <1>2, <1>3, PTL DEF Spec
=============================================================================
