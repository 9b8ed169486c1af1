----------------------- MODULE CredentialDefinitions -----------------------
(***************************************************************************)
(* A request for a credential definition: the gate of the trust registry,  *)
(* the publication, the wait for two finished revocation registries under  *)
(* a timeout, and the reading back of the definition, which the ledger may *)
(* not have yet (services/definitions/credential_definitions.py,           *)
(* credential_definition_publisher.py, routes/definitions.py). All the     *)
(* requests are for one schema and tag, and so for one definition.         *)
(*                                                                         *)
(* The gate is TrustGates: here it lets the request pass or turns it away. *)
(* The agent opens the registries of a revocable definition on its own,    *)
(* puts the tails file of each on the tails server and lists a registry as *)
(* finished after that.                                                    *)
(***************************************************************************)
EXTENDS Requests

CONSTANTS
  Registry,     \* the registries that the agent opens for the definition
  ReadAttempts  \* bound: readings of the new definition, 3 in the code

ASSUME ReadBounds == ReadAttempts \in Nat \ {0} /\ None \notin Registry
ASSUME DefinitionNone == None \notin {"plain", "revocable"}

DefineCall == [op : {"define"}, revocable : BOOLEAN]

VARIABLES
  defined,   \* the definition on the ledger: None, "plain" or "revocable"
  registry,  \* of each registry
  reads      \* failed readings of each request

definitions == <<defined, registry, reads>>

DefinitionsTypeOK ==
  /\ defined \in {None, "plain", "revocable"}
  /\ registry \in [Registry -> {"none", "open", "finished"}]
  /\ reads \in [Request -> 0 .. ReadAttempts - 1]

\* assert_public_did and assert_valid_issuer
Gate(r) ==
  /\ pc[r] = "gate"
  /\ Goto(r, "define") \/ Answer(r, "refused")
  /\ UNCHANGED definitions

Created(r) ==
  /\ defined = None
  /\ defined' = IF call[r].revocable THEN "revocable" ELSE "plain"
  /\ registry' = IF call[r].revocable THEN [g \in Registry |-> "open"] ELSE registry
  /\ UNCHANGED reads

\* create_credential_definition of the agent: a definition that "already exists" is a 409.
Define(r) ==
  /\ pc[r] = "define"
  /\ \/ Created(r) /\ Goto(r, IF call[r].revocable THEN "wait" ELSE "readBack")
     \/ /\ defined # None
        /\ Answer(r, "conflict")
        /\ UNCHANGED definitions

DefineAnswerLost(r) ==
  /\ pc[r] = "define"
  /\ Created(r) /\ GiveUp(r)

TwoFinished == \E g, h \in Registry : g # h /\ registry[g] = "finished" /\ registry[h] = "finished"

\* Faulty variant: one finished registry is enough.
PollAnyRegistry(r) ==
  /\ pc[r] = "wait"
  /\ \E g \in Registry : registry[g] = "finished"
  /\ Goto(r, "readBack")
  /\ UNCHANGED definitions

\* wait_for_active_registry. A poll that finds fewer than two changes nothing.
PollRegistries(r) ==
  /\ pc[r] = "wait"
  /\ TwoFinished
  /\ Goto(r, "readBack")
  /\ UNCHANGED definitions

\* Faulty variant: the polling is not given a timeout.
NeverExpires(r) == pc[r] = "wait" /\ UNCHANGED <<requests, definitions>>

\* asyncio.wait_for cancels the polling after REGISTRY_CREATION_TIMEOUT.
WaitExpires(r) ==
  /\ pc[r] = "wait"
  /\ Answer(r, "timeout")
  /\ UNCHANGED definitions

\* coroutine_with_retry of get_credential_definition_by_id: whatever it raises, and so
\* the 404 of a definition that is not there yet, is an attempt.
ReadBack(r) ==
  /\ pc[r] = "readBack"
  /\ \/ Answer(r, "ok") /\ UNCHANGED definitions
     \/ /\ reads[r] + 1 < ReadAttempts
        /\ reads' = [reads EXCEPT ![r] = @ + 1]
        /\ UNCHANGED <<requests, defined, registry>>
     \/ /\ reads[r] + 1 = ReadAttempts
        /\ \E s \in {"missing", "error"} : Answer(r, s)
        /\ UNCHANGED definitions

\* A poll that fails ends the wait at once.
DefinitionFails(r) ==
  /\ pc[r] \in {"gate", "define", "wait"}
  /\ GiveUp(r)
  /\ UNCHANGED definitions

\* The agent lists a registry as finished once its tails file has been taken.
Finish(g, file) ==
  /\ registry[g] = "open"
  /\ \E r \in Request : Answered(r, "put", "ok") /\ call[r].key = file
  /\ registry' = [registry EXCEPT ![g] = "finished"]
  /\ UNCHANGED <<defined, reads>>

DefinitionHandler(r) ==
  Gate(r) \/ Define(r) \/ PollRegistries(r) \/ WaitExpires(r) \/ ReadBack(r)

DefinitionFault(r) == DefineAnswerLost(r) \/ DefinitionFails(r)
=============================================================================
