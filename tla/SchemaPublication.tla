------------------------- MODULE SchemaPublication -------------------------
(***************************************************************************)
(* The governance agent creates a schema: the gateway asks the agent to    *)
(* publish it on the ledger (app/services/definitions/schema_publisher.py), *)
(* polls until the transaction is endorsed, and registers the id in the    *)
(* trust registry through the retrying client of                           *)
(* shared/util/rich_async_client.py.  Several requests run side by side,   *)
(* any call may fail, and nothing undoes the ledger.                       *)
(*                                                                         *)
(* Name stands for the name and the version of a schema, Attrs for its set *)
(* of attribute names.  The agent, the ledger and the endorser are         *)
(* external.                                                               *)
(***************************************************************************)
EXTENDS Integers, FiniteSets

CONSTANTS
  Request, SchemaId, Name, Attrs, None,
  MaxPolls,    \* max_retries of the wait for the endorsement
  MaxPosts,    \* retries of the client that registers
  MaxFaults    \* bound: failing calls and crashes in one behaviour

Call == [name : Name, attrs : Attrs]

Published == [name : Name, attrs : Attrs, state : {"wait", "finished"}]

Answers == {"ok", "conflict", "timeout", "error"}

ASSUME PublicationBounds ==
  /\ MaxPolls \in Nat \ {0}
  /\ MaxPosts \in Nat \ {0}
  /\ MaxFaults \in Nat
ASSUME PublicationNone == None \notin Call \cup Published \cup SchemaId \cup Answers

VARIABLES
  ledger,    \* what is published under each id, or None
  registry,  \* the ids in the trust registry
  pc,        \* the next call of each request
  call,      \* what each request wants to publish
  sid,       \* the id the agent gave to each request
  polls,     \* polls made so far
  posts,     \* attempts to register made so far
  answer,    \* the answer of each request
  found,     \* and the id in it, if it is a success
  faults,    \* failures so far
  faulted    \* and of which kind

world == <<ledger, registry>>
mine  == <<call, sid>>
reply == <<answer, found>>
blame == <<faults, faulted>>
vars  == <<ledger, registry, pc, call, sid, polls, posts, answer, found, faults, faulted>>

TypeOK ==
  /\ ledger   \in [SchemaId -> Published \cup {None}]
  /\ registry \in SUBSET SchemaId
  /\ pc       \in [Request -> {"idle", "create", "await", "lookup", "register", "done"}]
  /\ call     \in [Request -> Call \cup {None}]
  /\ sid      \in [Request -> SchemaId \cup {None}]
  /\ polls    \in [Request -> 0 .. MaxPolls]
  /\ posts    \in [Request -> 0 .. MaxPosts]
  /\ answer   \in [Request -> Answers \cup {None}]
  /\ found    \in [Request -> SchemaId \cup {None}]
  /\ faults   \in 0 .. MaxFaults
  /\ faulted  \in SUBSET {"agent", "registry", "connect", "crash"}

Init ==
  /\ ledger   = [s \in SchemaId |-> None]
  /\ registry = {}
  /\ pc       = [r \in Request |-> "idle"]
  /\ call     = [r \in Request |-> None]
  /\ sid      = [r \in Request |-> None]
  /\ polls    = [r \in Request |-> 0]
  /\ posts    = [r \in Request |-> 0]
  /\ answer   = [r \in Request |-> None]
  /\ found    = [r \in Request |-> None]
  /\ faults   = 0
  /\ faulted  = {}

-----------------------------------------------------------------------------
Goto(r, step) == pc' = [pc EXCEPT ![r] = step] /\ UNCHANGED reply

Succeed(r, s) ==
  /\ pc' = [pc EXCEPT ![r] = "done"]
  /\ answer' = [answer EXCEPT ![r] = "ok"]
  /\ found' = [found EXCEPT ![r] = s]

Refuse(r, a) ==
  /\ pc' = [pc EXCEPT ![r] = "done"]
  /\ answer' = [answer EXCEPT ![r] = a]
  /\ UNCHANGED found

Blame(kind) ==
  /\ faults < MaxFaults
  /\ faults' = faults + 1
  /\ faulted' = faulted \cup {kind}

Named(name, states) ==
  {s \in SchemaId : ledger[s] # None /\ ledger[s].name = name /\ ledger[s].state \in states}

Start(r, c) ==
  /\ pc[r] = "idle"
  /\ call' = [call EXCEPT ![r] = c]
  /\ Goto(r, "create")
  /\ UNCHANGED <<world, sid, polls, posts, blame>>

\* The agent publishes under a new id, finished or waiting for the endorser. It
\* knows of another schema of that name for sure once that one is finished.
NewSchema(r, s, state) ==
  /\ ledger[s] = None
  /\ Named(call[r].name, {"finished"}) = {}
  /\ ledger' = [ledger EXCEPT ![s] =
                  [name |-> call[r].name, attrs |-> call[r].attrs, state |-> state]]

\* Faulty variant: the transaction is not waited for.
CreateWithoutWait(r) ==
  /\ pc[r] = "create"
  /\ \E s \in SchemaId, state \in {"wait", "finished"} :
       /\ NewSchema(r, s, state)
       /\ sid' = [sid EXCEPT ![r] = s]
       /\ Goto(r, "register")
  /\ UNCHANGED <<registry, call, polls, posts, blame>>

Create(r) ==
  /\ pc[r] = "create"
  /\ \E s \in SchemaId, state \in {"wait", "finished"} :
       /\ NewSchema(r, s, state)
       /\ sid' = [sid EXCEPT ![r] = s]
       /\ Goto(r, IF state = "wait" THEN "await" ELSE "register")
  /\ UNCHANGED <<registry, call, polls, posts, blame>>

\* 400 "already exists"
CreateRefused(r) ==
  /\ pc[r] = "create"
  /\ Named(call[r].name, {"wait", "finished"}) # {}
  /\ Goto(r, "lookup")
  /\ UNCHANGED <<world, mine, polls, posts, blame>>

\* The endorser signs, in its own time or never.
Endorse(s) ==
  /\ ledger[s] # None /\ ledger[s].state = "wait"
  /\ ledger' = [ledger EXCEPT ![s].state = "finished"]
  /\ UNCHANGED <<registry, pc, mine, polls, posts, reply, blame>>

\* Faulty variant: an endorsed schema is answered without being registered.
PollAndReturn(r) ==
  /\ pc[r] = "await"
  /\ polls' = [polls EXCEPT ![r] = @ + 1]
  /\ \/ /\ ledger[sid[r]].state = "finished"
        /\ Succeed(r, sid[r])
     \/ IF polls'[r] = MaxPolls THEN Refuse(r, "timeout") ELSE Goto(r, "await")
  /\ UNCHANGED <<world, mine, posts, blame>>

\* Faulty variant: a poll that failed does not count as an attempt.
PollForever(r) ==
  /\ pc[r] = "await"
  /\ \/ /\ ledger[sid[r]].state = "finished"
        /\ Goto(r, "register")
     \/ Goto(r, "await")
  /\ UNCHANGED <<world, mine, polls, posts, blame>>

\* coroutine_with_retry_until_value: a poll that fails counts like one that finds
\* the transaction not acknowledged yet.
Poll(r) ==
  /\ pc[r] = "await"
  /\ polls' = [polls EXCEPT ![r] = @ + 1]
  /\ \/ /\ ledger[sid[r]].state = "finished"
        /\ Goto(r, "register")
     \/ IF polls'[r] = MaxPolls THEN Refuse(r, "timeout") ELSE Goto(r, "await")
  /\ UNCHANGED <<world, mine, posts, blame>>

\* Faulty variant: the attribute names are not compared.
LookupByName(r) ==
  LET same == Named(call[r].name, {"finished"}) IN
  /\ pc[r] = "lookup"
  /\ \/ same = {} /\ Refuse(r, "error")
     \/ Cardinality(same) > 1 /\ Refuse(r, "conflict")
     \/ \E s \in SchemaId : same = {s} /\ Succeed(r, s)
  /\ UNCHANGED <<world, mine, polls, posts, blame>>

\* _handle_existing_anoncreds_schema: the schema is returned as it is on the
\* ledger. The registry is neither asked nor told.
Lookup(r) ==
  LET same == Named(call[r].name, {"finished"}) IN
  /\ pc[r] = "lookup"
  /\ \/ same = {} /\ Refuse(r, "error")
     \/ Cardinality(same) > 1 /\ Refuse(r, "conflict")
     \/ \E s \in SchemaId :
          /\ same = {s}
          /\ IF ledger[s].attrs = call[r].attrs THEN Succeed(r, s) ELSE Refuse(r, "conflict")
  /\ UNCHANGED <<world, mine, polls, posts, blame>>

-----------------------------------------------------------------------------
(* register_schema, with the retries of RichAsyncClient.                   *)

\* A schema that is registered already is a conflict, also if it was an attempt
\* of this very request that registered it.
Register(r) ==
  /\ pc[r] = "register"
  /\ posts' = [posts EXCEPT ![r] = @ + 1]
  /\ IF sid[r] \in registry
       THEN Refuse(r, "error") /\ UNCHANGED registry
       ELSE Succeed(r, sid[r]) /\ registry' = registry \cup {sid[r]}
  /\ UNCHANGED <<ledger, mine, polls, blame>>

\* What the registry may have done by the time its answer is lost.
Maybe(r) == registry' \in {registry, registry \cup {sid[r]}}

\* Faulty variant: one attempt too many.
PostAgainOnceMore(r) == posts[r] <= MaxPosts

\* Is this not the last attempt?
PostAgain(r) == posts[r] + 1 < MaxPosts

\* 502 or 503 from the gateway in front of the registry: tried again.
RegisterBadGateway(r) ==
  /\ pc[r] = "register"
  /\ posts' = [posts EXCEPT ![r] = @ + 1]
  /\ Maybe(r)
  /\ IF PostAgain(r) THEN Goto(r, "register") ELSE Refuse(r, "error")
  /\ Blame("registry")
  /\ UNCHANGED <<ledger, mine, polls>>

\* No connection: tried again, and after the last attempt the client returns
\* no response and raises nothing, which register_schema does not notice.
RegisterConnectTimeout(r) ==
  /\ pc[r] = "register"
  /\ posts' = [posts EXCEPT ![r] = @ + 1]
  /\ IF PostAgain(r) THEN Goto(r, "register") ELSE Succeed(r, sid[r])
  /\ Blame("connect")
  /\ UNCHANGED <<world, mine, polls>>

\* Any other failure is raised at once.
RegisterFails(r) ==
  /\ pc[r] = "register"
  /\ posts' = [posts EXCEPT ![r] = @ + 1]
  /\ Maybe(r)
  /\ Refuse(r, "error")
  /\ Blame("registry")
  /\ UNCHANGED <<ledger, mine, polls>>

\* The agent fails, before or after it has published.
AgentFails(r) ==
  /\ pc[r] \in {"create", "lookup"}
  /\ \/ UNCHANGED ledger
     \/ pc[r] = "create" /\ \E s \in SchemaId : NewSchema(r, s, "wait")
  /\ Refuse(r, "error")
  /\ Blame("agent")
  /\ UNCHANGED <<registry, mine, polls, posts>>

Crash(r) ==
  /\ pc[r] \notin {"idle", "done"}
  /\ pc' = [pc EXCEPT ![r] = "done"]
  /\ Blame("crash")
  /\ UNCHANGED <<world, mine, polls, posts, reply>>

-----------------------------------------------------------------------------
Handler(r) ==
  Create(r) \/ CreateRefused(r) \/ Poll(r) \/ Lookup(r) \/ Register(r)

Failure(r) ==
  \/ RegisterBadGateway(r) \/ RegisterConnectTimeout(r) \/ RegisterFails(r)
  \/ AgentFails(r) \/ Crash(r)

Finished == (\A r \in Request : pc[r] = "done") /\ UNCHANGED vars

Next ==
  \/ \E r \in Request :
       \/ \E c \in Call : Start(r, c)
       \/ Handler(r)
       \/ Failure(r)
  \/ \E s \in SchemaId : Endorse(s)
  \/ Finished

Spec == Init /\ [][Next]_vars

\* The event loop runs every request; the endorser promises nothing.
FairSpec == Spec /\ \A r \in Request : WF_vars(Handler(r))

-----------------------------------------------------------------------------
(* Correctness.                                                            *)

\* Nobody finds a schema in the trust registry that is not on the ledger yet,
\* however late the endorser is and however often the registration is retried.
RegisteredIsFinished ==
  \A s \in registry : ledger[s] # None /\ ledger[s].state = "finished"

\* A success names a schema that is on the ledger for good, with the name and
\* the attributes that were asked for, also if a rival request published it.
SuccessIsPublished ==
  \A r \in Request :
    answer[r] = "ok" =>
      ledger[found[r]] = [name |-> call[r].name, attrs |-> call[r].attrs, state |-> "finished"]

\* A success for a schema that is not in the registry comes about only while the
\* request that published it is on its way, or after that one did not succeed;
\* unless the agent lost a schema, or the registry could not be reached at all.
UnregisteredIsKnown ==
  \A r \in Request :
    answer[r] = "ok" /\ found[r] \notin registry =>
      \/ faulted \cap {"agent", "connect"} # {}
      \/ \E q \in Request : sid[q] = found[r] /\ answer[q] # "ok"

\* Every request that starts ends, even if the endorser never signs: there comes a time
\* after which none is under way.
EveryRequestEnds == <>[](\A r \in Request : pc[r] \in {"idle", "done"})

\* The documentation of the endpoint: when a schema is created, it is published to
\* the ledger and written to the trust registry; at the latest once no request is
\* under way any more.
PublishedIsRegistered ==
  (\A q \in Request : pc[q] \in {"idle", "done"}) =>
    \A r \in Request : answer[r] = "ok" => found[r] \in registry
=============================================================================
