------------------------ MODULE RevocableCredentials ------------------------
(***************************************************************************)
(* Revocable credentials from end to end: a credential definition is made, *)
(* the agent puts the tails files of its registries on the tails server,   *)
(* credentials are issued against a finished registry, revoked and         *)
(* published. Tails, CredentialDefinitions and Revocation run side by      *)
(* side, with the agent between them.                                      *)
(***************************************************************************)
EXTENDS Tails, Revocation

CONSTANT TailsFile  \* the tails file of each registry

ASSUME TailsFiles == TailsFile \in [Registry -> WellFormed]
ASSUME CallTypes ==
  /\ \A c \in Calls : c \in TailsCall \cup DefineCall \/ c \in RevocationCall
  /\ None \notin Calls

vars == <<requests, tails, definitions, revocation>>

FirstStep(c) ==
  CASE c.op = "put"     -> "putHead"
    [] c.op = "get"     -> "getHead"
    [] c.op = "define"  -> "gate"
    [] c.op = "revoke"  -> "revoke"
    [] c.op = "publish" -> "validate"
    [] c.op = "clear"   -> "clear"
    [] c.op = "pending" -> "readPending"
    [] c.op = "record"  -> "readRecord"
    [] c.op = "fix"     -> "fix"

Step == {"putHead", "read", "upload", "getHead", "body", "gate", "define", "wait",
         "readBack", "revoke", "look", "validate", "publish", "clear", "readPending",
         "readRecord", "fix"}

TypeOK ==
  /\ call \in [Request -> Calls \cup {None}]
  /\ pc \in [Request -> Step \cup {"idle", "done"}]
  /\ status \in [Request -> Status \cup {None}]
  /\ faults \in 0 .. MaxFaults
  /\ TailsTypeOK /\ DefinitionsTypeOK /\ RevocationTypeOK

\* Nothing is there yet.
Fresh ==
  /\ call = [r \in Request |-> None] /\ pc = [r \in Request |-> "idle"]
  /\ status = [r \in Request |-> None]
  /\ bucket = [f \in File |-> None]
  /\ defined = None /\ registry = [g \in Registry |-> "none"]
  /\ cred = [c \in Cred |-> "none"]

\* The definition is there with its registries: it was the first request that made it.
\* Credentials have been issued, and some are to be revoked.
Issued ==
  /\ \E c \in Calls :
       /\ c.op = "define" /\ c.revocable
       /\ call = [r \in Request |-> IF r = 1 THEN c ELSE None]
  /\ pc = [r \in Request |-> IF r = 1 THEN "done" ELSE "idle"]
  /\ status = [r \in Request |-> IF r = 1 THEN "ok" ELSE None]
  /\ bucket = [f \in File |-> IF \E g \in Registry : TailsFile[g] = f THEN f ELSE None]
  /\ defined = "revocable" /\ registry = [g \in Registry |-> "finished"]
  /\ cred \in [Cred -> {"issued", "pending"}]

Init ==
  /\ Fresh \/ (Issued /\ TwoFinished)
  /\ faults = 0
  /\ served = [r \in Request |-> None]
  /\ reads = [r \in Request |-> 0]
  /\ todo = [r \in Request |-> {}]
  /\ polls = [r \in Request |-> 0] /\ attempts = [r \in Request |-> 0]
  /\ published = [r \in Request |-> {}] /\ reported = [r \in Request |-> {}]
  /\ covered = [r \in Request |-> {}]

\* The registries a call names.
Named(c) ==
  CASE c.op \in {"publish", "clear"} -> DOMAIN c.map
    [] c.op \in {"pending", "fix"}   -> {c.of}
    [] OTHER                        -> {}

\* A tails file has random contents, and a registry an id of its own: nobody has them
\* before the registry is opened. And only credentials that have been issued have an
\* exchange to be revoked by.
CanCome(c) ==
  /\ c.op = "put" => \A g \in Registry : TailsFile[g] = c.body => registry[g] # "none"
  /\ \A g \in Named(c) \ {Unknown} : registry[g] # "none"
  /\ c.op \in {"revoke", "record"} => cred[c.cred] # "none"

Come(r, c) ==
  /\ CanCome(c)
  /\ Arrive(r, c, FirstStep(c))
  /\ todo' = [todo EXCEPT ![r] = IF c.op = "publish" THEN DOMAIN c.map ELSE {}]
  /\ covered' = [covered EXCEPT ![r] = Covered(c)]
  /\ UNCHANGED <<tails, definitions, cred, polls, attempts, published, reported>>

Handler(r) ==
  \/ TailsHandler(r) /\ UNCHANGED <<definitions, revocation>>
  \/ DefinitionHandler(r) /\ UNCHANGED <<tails, revocation>>
  \/ RevocationHandler(r) /\ UNCHANGED <<tails, definitions>>

Fails(r) ==
  \/ TailsFault(r) /\ UNCHANGED <<definitions, revocation>>
  \/ DefinitionFault(r) /\ UNCHANGED <<tails, revocation>>
  \/ RevocationFault(r) /\ UNCHANGED <<tails, definitions>>

\* What the agent and the ledger do on their own.
Agent ==
  \/ \E g \in Registry :
       Finish(g, TailsFile[g]) /\ UNCHANGED <<requests, tails, revocation>>
  \/ \E c \in Cred : (Written(c) \/ Issue(c)) /\ UNCHANGED <<tails, definitions>>

AllAnswered == (\A r \in Request : pc[r] = "done") /\ UNCHANGED vars

Next ==
  \/ \E r \in Request :
       (\E c \in Calls : Come(r, c)) \/ Handler(r) \/ Fails(r)
  \/ Agent
  \/ AllAnswered

Spec == Init /\ [][Next]_vars

FairSpec == Spec /\ \A r \in Request : WF_vars(Handler(r))

-----------------------------------------------------------------------------
(* Correctness.                                                            *)

\* An object of the bucket is the well-formed file that its key is the hash of, whatever
\* uploads of it overlap. A put that says so, or that says the object was there already,
\* can be followed by a get, and a get serves the file it was asked for.
StoredUnderItsHash ==
  /\ \A f \in File : bucket[f] # None => bucket[f] = f /\ f \in WellFormed
  /\ \A r \in Request :
       /\ Answered(r, "put", "ok") => bucket[call[r].key] # None /\ call[r].body = call[r].key
       /\ Answered(r, "put", "conflict") => bucket[call[r].key] # None
       /\ Answered(r, "get", "ok") => served[r] = call[r].key

\* A request for a revocable definition that succeeds has two finished registries to
\* issue from, whose tails files the holders can fetch, whoever has made them and
\* whatever happened meanwhile; a conflict is one with a definition that is there.
DefinedIsRevocable ==
  \A r \in Request :
    /\ Answered(r, "define", "ok") /\ call[r].revocable =>
         \E g, h \in Registry :
           /\ g # h
           /\ \A x \in {g, h} : registry[x] = "finished" /\ bucket[TailsFile[x]] # None
    /\ Answered(r, "define", "conflict") => defined # None

\* What a request was promised stays so: a revocation that was accepted is never taken
\* back by other requests, and a publication that succeeds has seen to every
\* credential it named, and to every one that was pending when it came if it named
\* none, even if rivals have published them in between. Only the ledger may refuse.
SuccessIsKept ==
  \A r \in Request : status[r] = "ok" /\ call[r].op \in {"revoke", "publish"} =>
    \A c \in covered[r] :
      \/ cred[c] \in {"publishing", "revoked", "bounced"}
      \/ call[r].op = "revoke" /\ ~call[r].now /\ cred[c] = "pending"

\* Every request ends, even if no registry is ever finished and no revocation recorded.
EveryRequestEnds == \A r \in Request : pc[r] # "idle" ~> pc[r] = "done"

\* A publication that has published something reports it.
PublishedIsReported ==
  \A r \in Request : Answered(r, "publish", "ok") /\ published[r] # {} => reported[r] # {}
=============================================================================
