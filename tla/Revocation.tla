----------------------------- MODULE Revocation -----------------------------
(***************************************************************************)
(* Revoking credentials (routes/revocation.py,                             *)
(* services/revocation_registry.py): a credential is marked as pending, or *)
(* revoked at once with a polling for the effect; a publication validates  *)
(* the credentials it names against the pending ones of each registry and  *)
(* publishes them by a later call. Other requests revoke and publish       *)
(* meanwhile, and the ledger, which may refuse, follows behind.            *)
(*                                                                         *)
(* The agent is external: its pending sets, its records, which may say     *)
(* "revoked" before the ledger does, and the ledger are modelled from how  *)
(* the services use them.                                                  *)
(***************************************************************************)
EXTENDS CredentialDefinitions

CONSTANTS
  Cred,
  RegistryOf,     \* the registry of each credential
  Unknown,        \* the id of no registry
  RecordPolls,    \* bound: looks at the record, 5 in the code
  RecordAttempts  \* bound: attempts of each look, 5 in the code

ASSUME RevocationNames ==
  /\ RegistryOf \in [Cred -> Registry]
  /\ Unknown \notin Registry /\ Unknown # None
ASSUME RevocationBounds == RecordPolls \in Nat \ {0} /\ RecordAttempts \in Nat \ {0}

\* The map of a publication gives the credentials to publish of some registries: none
\* for all that are pending there, and no registry at all for every registry.
RevocationMap == UNION {[R -> SUBSET Cred] : R \in SUBSET (Registry \cup {Unknown})}

RevocationCall ==
  [op : {"revoke"}, cred : Cred, now : BOOLEAN]
    \cup [op : {"publish", "clear"}, map : RevocationMap]
    \cup [op : {"pending"}, of : Registry \cup {Unknown}]
    \cup [op : {"record"}, cred : Cred]
    \cup [op : {"fix"}, of : Registry \cup {Unknown}, apply : BOOLEAN]

VARIABLES
  cred,       \* each credential: "none" before it is issued, "publishing" until the
              \* ledger takes the revocation ("revoked") or refuses it ("bounced")
  todo,       \* the registries a request has yet to validate or publish
  polls, attempts,  \* looks at the record, and failed attempts of the present one
  published,  \* the credentials that the agent has published for the request
  reported,   \* the credentials its response names
  covered     \* history: what the request asked for when it came

revocation == <<cred, todo, polls, attempts, published, reported, covered>>

CredState == {"none", "issued", "pending", "publishing", "revoked", "bounced"}

RevocationTypeOK ==
  /\ cred \in [Cred -> CredState]
  /\ todo \in [Request -> SUBSET (Registry \cup {Unknown})]
  /\ polls \in [Request -> 0 .. RecordPolls - 1]
  /\ attempts \in [Request -> 0 .. RecordAttempts - 1]
  /\ published \in [Request -> SUBSET Cred]
  /\ reported \in [Request -> SUBSET Cred]
  /\ covered \in [Request -> SUBSET Cred]

PendingOf(g) == {c \in Cred : RegistryOf[c] = g /\ cred[c] = "pending"}

\* A map asks for a credential by its name, or for all that are pending.
Asks(map, c) ==
  \/ DOMAIN map = {}
  \/ /\ RegistryOf[c] \in DOMAIN map
     /\ map[RegistryOf[c]] = {} \/ c \in map[RegistryOf[c]]

Selected(map, g) == {c \in PendingOf(g) : Asks(map, c)}

Targets(map) == IF DOMAIN map = {} THEN Registry ELSE DOMAIN map \cap Registry

Covered(q) ==
  {c \in Cred :
     \/ q.op = "revoke" /\ c = q.cred
     \/ /\ q.op = "publish"
        /\ \/ \E g \in DOMAIN q.map : c \in q.map[g]
           \/ cred[c] = "pending" /\ Asks(q.map, c)}

-----------------------------------------------------------------------------
(* Revoking one credential.                                                *)

\* The agent marks the credential, or publishes its revocation. One that is past
\* that it may also refuse to revoke again.
Revoke(r) ==
  LET c == call[r].cred IN
  /\ pc[r] = "revoke"
  /\ \/ /\ cred' = [cred EXCEPT ![c] =
                      IF @ \in {"issued", "pending"}
                        THEN IF call[r].now THEN "publishing" ELSE "pending"
                        ELSE @]
        /\ IF call[r].now THEN Goto(r, "look") ELSE Answer(r, "ok")
     \/ /\ cred[c] \notin {"issued", "pending"}
        /\ Answer(r, "error")
        /\ UNCHANGED cred
  /\ UNCHANGED <<todo, polls, attempts, published, reported, covered>>

RevokeAnswerLost(r) ==
  LET c == call[r].cred IN
  /\ pc[r] = "revoke" /\ cred[c] \in {"issued", "pending"}
  /\ cred' = [cred EXCEPT ![c] = IF call[r].now THEN "publishing" ELSE "pending"]
  /\ GiveUp(r)
  /\ UNCHANGED <<todo, polls, attempts, published, reported, covered>>

\* The states in which the agent's record of a credential may read "revoked", and those
\* in which it may read something else.
RecordedRevoked == {"publishing", "revoked", "bounced"}
RecordedOther == CredState \ {"revoked"}

\* Faulty variant: the count is compared before it is raised.
LookOnceMore(r) ==
  /\ pc[r] = "look"
  /\ \/ /\ cred[call[r].cred] \in RecordedRevoked
        /\ Answer(r, "ok")
        /\ reported' = [reported EXCEPT ![r] = {call[r].cred}]
        /\ UNCHANGED <<polls, attempts>>
     \/ /\ cred[call[r].cred] \in RecordedOther
        /\ IF polls[r] < RecordPolls
             THEN /\ polls' = [polls EXCEPT ![r] = @ + 1]
                  /\ attempts' = [attempts EXCEPT ![r] = 0]
                  /\ UNCHANGED requests
             ELSE Answer(r, "error") /\ UNCHANGED <<polls, attempts>>
        /\ UNCHANGED reported
  /\ UNCHANGED <<cred, todo, published, covered>>

\* One round of the loop that looks for the state "revoked" in the record.
Look(r) ==
  /\ pc[r] = "look"
  /\ \/ /\ cred[call[r].cred] \in RecordedRevoked
        /\ Answer(r, "ok")
        /\ reported' = [reported EXCEPT ![r] = {call[r].cred}]
        /\ UNCHANGED <<polls, attempts>>
     \/ /\ cred[call[r].cred] \in RecordedOther
        /\ IF polls[r] + 1 < RecordPolls
             THEN /\ polls' = [polls EXCEPT ![r] = @ + 1]
                  /\ attempts' = [attempts EXCEPT ![r] = 0]
                  /\ UNCHANGED requests
             ELSE Answer(r, "error") /\ UNCHANGED <<polls, attempts>>
        /\ UNCHANGED reported
  /\ UNCHANGED <<cred, todo, published, covered>>

\* coroutine_with_retry repeats a look that fails, and raises what the last one has raised.
LookFails(r) ==
  /\ pc[r] = "look"
  /\ IF attempts[r] + 1 < RecordAttempts
       THEN attempts' = [attempts EXCEPT ![r] = @ + 1] /\ UNCHANGED requests
       ELSE Answer(r, "error") /\ UNCHANGED attempts
  /\ UNCHANGED <<cred, todo, polls, published, reported, covered>>

-----------------------------------------------------------------------------
(* Publishing what is pending.                                             *)

\* validate_rev_reg_ids, for one registry of the map
Valid(map, g) == g \in Registry /\ map[g] \subseteq PendingOf(g)

\* One call for each registry of the map, and a 404 for the first that is not valid. A
\* registry where nothing is pending may have no list at all.
Validate(r) ==
  LET map == call[r].map IN
  /\ pc[r] = "validate"
  /\ \/ /\ todo[r] = {}
        /\ Goto(r, "publish")
        /\ todo' = [todo EXCEPT ![r] = Targets(map)]
     \/ \E g \in todo[r] :
          \/ /\ Valid(map, g)
             /\ todo' = [todo EXCEPT ![r] = @ \ {g}]
             /\ UNCHANGED requests
          \/ /\ ~Valid(map, g) \/ PendingOf(g) = {}
             /\ Answer(r, "missing")
             /\ UNCHANGED todo
  /\ UNCHANGED <<cred, polls, attempts, published, reported, covered>>

\* The agent goes from registry to registry and publishes what is pending by then.
Publish(r) ==
  /\ pc[r] = "publish"
  /\ \E g \in todo[r] :
       LET now == Selected(call[r].map, g) IN
       /\ todo' = [todo EXCEPT ![r] = @ \ {g}]
       /\ cred' = [c \in Cred |-> IF c \in now THEN "publishing" ELSE cred[c]]
       /\ published' = [published EXCEPT ![r] = @ \cup now]
  /\ UNCHANGED <<requests, polls, attempts, reported, covered>>

\* extract_revoked_info of the response: a dump with a field txn, empty or not, reports
\* what the transactions revoke.
Extracted(dump) == IF "txn" \in DOMAIN dump THEN UNION dump.txn ELSE dump.rrid2crid

\* publish_pending_revocations gives no transactions. An agent that has published
\* nothing may also answer with something else, and the response is empty then.
AnswerPublish(r) ==
  /\ pc[r] = "publish" /\ todo[r] = {}
  /\ reported' = [reported EXCEPT ![r] =
                    Extracted([rrid2crid |-> published[r], txn |-> {}])]
  /\ Answer(r, "ok")
  /\ UNCHANGED <<cred, todo, polls, attempts, published, covered>>

\* Faulty variant: the route calls its service, which validates and clears.
ClearByService(r) ==
  /\ pc[r] = "clear"
  /\ LET gone == UNION {Selected(call[r].map, g) : g \in Registry} IN
       cred' = [c \in Cred |-> IF c \in gone THEN "issued" ELSE cred[c]]
  /\ Answer(r, "ok")
  /\ UNCHANGED <<todo, polls, attempts, published, reported, covered>>

\* The route raises before it calls its service.
Clear(r) ==
  /\ pc[r] = "clear"
  /\ Answer(r, "unsupported")
  /\ UNCHANGED revocation

-----------------------------------------------------------------------------
(* The other routes.                                                       *)

\* get_pending_revocations
ReadPending(r) ==
  /\ pc[r] = "readPending"
  /\ IF call[r].of \in Registry
       THEN reported' = [reported EXCEPT ![r] = PendingOf(call[r].of)] /\ Answer(r, "ok")
       ELSE UNCHANGED reported /\ Answer(r, "missing")
  /\ UNCHANGED <<cred, todo, polls, attempts, published, covered>>

\* get_credential_revocation_record, which reports the credential if it is revoked
ReadRecord(r) ==
  LET c == call[r].cred IN
  /\ pc[r] = "readRecord"
  /\ \/ /\ cred[c] \in RecordedRevoked
        /\ reported' = [reported EXCEPT ![r] = {c}]
        /\ Answer(r, "ok")
     \/ /\ cred[c] \in RecordedOther
        /\ Answer(r, IF cred[c] = "none" THEN "missing" ELSE "ok")
        /\ UNCHANGED reported
  /\ UNCHANGED <<cred, todo, polls, attempts, published, covered>>

\* fix_revocation_registry_entry_state: the ledger is brought in line with the agent's
\* records if the caller says so.
Fix(r) ==
  /\ pc[r] = "fix"
  /\ IF call[r].of \in Registry THEN Answer(r, "ok") ELSE Answer(r, "missing")
  /\ cred' = [c \in Cred |-> IF /\ call[r].apply /\ RegistryOf[c] = call[r].of
                                /\ cred[c] = "bounced"
                               THEN "revoked" ELSE cred[c]]
  /\ UNCHANGED <<todo, polls, attempts, published, reported, covered>>

RevocationFails(r) ==
  /\ pc[r] \in {"revoke", "validate", "publish", "readPending", "readRecord", "fix"}
  /\ GiveUp(r)
  /\ UNCHANGED revocation

\* The ledger takes a revocation, or does not.
Written(c) ==
  /\ cred[c] = "publishing"
  /\ \/ cred' = [cred EXCEPT ![c] = "revoked"] /\ UNCHANGED requests
     \/ cred' = [cred EXCEPT ![c] = "bounced"] /\ Fault /\ UNCHANGED <<call, pc, status>>
  /\ UNCHANGED <<todo, polls, attempts, published, reported, covered>>

\* A credential is issued against a registry that is finished.
Issue(c) ==
  /\ cred[c] = "none" /\ registry[RegistryOf[c]] = "finished"
  /\ cred' = [cred EXCEPT ![c] = "issued"]
  /\ UNCHANGED <<requests, todo, polls, attempts, published, reported, covered>>

RevocationHandler(r) ==
  \/ Revoke(r) \/ Look(r) \/ Validate(r) \/ Publish(r) \/ AnswerPublish(r) \/ Clear(r)
  \/ ReadPending(r) \/ ReadRecord(r) \/ Fix(r)

RevocationFault(r) == RevokeAnswerLost(r) \/ LookFails(r) \/ RevocationFails(r)
=============================================================================
