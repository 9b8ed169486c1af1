----------------------------- MODULE TrustGates -----------------------------
(***************************************************************************)
(* The gates of the gateway: before a tenant creates a credential          *)
(* definition, offers a credential, accepts an offer, asks for a proof or  *)
(* gives one, the trust registry is asked whether the issuer, the verifier *)
(* and the schema are registered (app/services/trust_registry/util,        *)
(* app/util/acapy_verifier_utils.py). Each question is a remote call, and  *)
(* the act itself is the last one. In between tenants are registered,      *)
(* renamed, promoted and removed, and schemas come and go.                 *)
(*                                                                         *)
(* A registry call is one step, as AtomicRegistry and AtomicSchemas allow. *)
(* A DID is <<t, "public">>, the public DID of tenant t, or <<t, "key">>,  *)
(* the did:key of the invitation that the registry has of t; <<t, "other">>*)
(* is the key of some other invitation of t.                               *)
(***************************************************************************)
EXTENDS Integers, FiniteSets

CONSTANTS
  Request, Tenant, Label, None,
  Legacy,      \* schemas that can be removed from the registry
  Cheqd,       \* did:cheqd schemas, which cannot (SchemaRegistry, CheqdStays)
  Hidden,      \* an AnonCreds presentation that reveals no credential
  Calls,       \* the calls a request may carry
  MaxChanges,  \* bound: changes of tenants and schemas in one behaviour
  MaxFaults    \* bound: failing calls in one behaviour

Schema == Legacy \cup Cheqd

Role == {"issuer", "verifier"}

Did == Tenant \X {"public", "key", "other"}

Actor == [roles : SUBSET Role, did : Did, name : Label]

IssuerOp == {"credDef", "offer", "request"}

VerifierOp == {"prove", "accept"}

\* tenant is the issuer or the verifier of the exchange, schema None for a
\* credential or a proof that is not AnonCreds. For a proof via tells which DID of the
\* verifier the connection was made with (None: it has no key; to a prover, who need not
\* have one, there is no connection), and their is the label it gives the verifier. For a
\* request via tells which DID of the issuer the offer names, the public one in AnonCreds
\* and any in an LD proof.
Call == [op : IssuerOp \cup VerifierOp, tenant : Tenant,
         schema : Schema \cup {Hidden, None},
         via : {"public", "key", "other", None}, their : Label]

ASSUME GateCalls ==
  /\ Calls \subseteq Call
  /\ \A c \in Calls :
       /\ c.op = "request" => c.via # None
       /\ c.op = "credDef" => c.schema \in Schema
       /\ c.op = "offer" => c.schema # Hidden
ASSUME GateSchemas == Legacy \cap Cheqd = {} /\ Hidden \notin Schema
ASSUME GateBounds == MaxChanges \in Nat /\ MaxFaults \in Nat
ASSUME GateNone ==
  None \notin Schema \cup {Hidden} \cup Actor \cup Call \cup Did \cup Label
              \cup {"ok", "refused", "error"}

VARIABLES
  actors,    \* the registry's actors
  schemas,   \* the registry's schemas
  public,    \* tenants with a public DID
  label,     \* the labels of the wallets
  credDefs,  \* the credential definitions, as <<tenant, schema>>
  offers,    \* the credentials on offer, likewise
  call, pc, key, status,   \* of each request: what it asks, its next call,
             \* the DID or the name it looks up, and its answer
  acted,     \* requests whose act the agent has carried out
  blind,     \* requests that took an unreachable registry for a yes
  unread,    \* requests that took a failing agent for one without a public DID
  changes, faults,
  entitled, listed, lapsed \* history, see Observe

registry == <<actors, schemas, public, label, changes>>
agent    == <<credDefs, offers>>
seen     == <<entitled, listed, lapsed>>
vars     == <<actors, schemas, public, label, credDefs, offers, call, pc, key, status,
              acted, blind, unread, changes, faults, entitled, listed, lapsed>>

TypeOK ==
  /\ actors \in [Tenant -> Actor \cup {None}]
  /\ schemas \subseteq Schema
  /\ public \subseteq Tenant
  /\ label \in [Tenant -> Label]
  /\ credDefs \subseteq Tenant \X Schema
  /\ offers \subseteq Tenant \X (Schema \cup {None})
  /\ call \in [Request -> Calls \cup {None}]
  /\ pc \in [Request -> {"idle", "agent", "connection", "actor", "label", "name",
                         "schema", "act", "done"}]
  /\ key \in [Request -> Did \cup Label \cup {None}]
  /\ status \in [Request -> {"ok", "refused", "error", None}]
  /\ acted \subseteq Request /\ blind \subseteq Request /\ unread \subseteq Request
  /\ changes \in 0 .. MaxChanges /\ faults \in 0 .. MaxFaults
  /\ entitled \subseteq Request /\ listed \subseteq Request /\ lapsed \subseteq Request

-----------------------------------------------------------------------------
(* Tenants and schemas, which other requests change meanwhile.             *)

\* What onboarding gives an actor as its DID: an issuer has a public one.
OnboardedDid(t) == <<t, IF t \in public THEN "public" ELSE "key">>

NameFree(t, name) == \A u \in Tenant \ {t} : actors[u] # None => actors[u].name # name

\* Some tenants and schemas are there already, and either nothing has been issued or
\* every issuer has definitions of all schemas and has offered them.
Init ==
  /\ label \in [Tenant -> Label]
  /\ \E enrolled \in [Tenant -> SUBSET Role] :
       /\ public = {t \in Tenant : "issuer" \in enrolled[t]}
       /\ actors = [t \in Tenant |-> IF enrolled[t] = {} THEN None
                      ELSE [roles |-> enrolled[t], did |-> OnboardedDid(t), name |-> label[t]]]
  /\ \A t, u \in Tenant : t # u /\ actors[t] # None /\ actors[u] # None => label[t] # label[u]
  /\ schemas \in SUBSET Schema
  /\ credDefs \in {{}, public \X schemas}
  /\ offers = IF credDefs = {} THEN {} ELSE public \X (schemas \cup {None})
  /\ call = [r \in Request |-> None] /\ pc = [r \in Request |-> "idle"]
  /\ key = [r \in Request |-> None] /\ status = [r \in Request |-> None]
  /\ acted = {} /\ blind = {} /\ unread = {}
  /\ changes = 0 /\ faults = 0
  /\ entitled = {} /\ listed = {} /\ lapsed = {}

\* create_tenant registers a new tenant last, under the label that it was asked to give
\* the wallet, which may have another one by then. (Here a tenant may be registered again
\* after its removal, which no route does.)
Register(t) ==
  /\ actors[t] = None
  /\ \E name \in Label, roles \in SUBSET Role \ {{}} :
       /\ NameFree(t, name)
       /\ "issuer" \in roles => t \in public
       /\ actors' = [actors EXCEPT ![t] =
                       [roles |-> roles, did |-> OnboardedDid(t), name |-> name]]
  /\ UNCHANGED <<schemas, public, label>>

\* handle_tenant_update writes a whole row, made of the copy that it has read. When two of
\* them race, the DID, the name and the roles may also go back to what they were, but for
\* a role that the tenant was created with (InitialRolesKept of Tenants).
Update(t) ==
  /\ actors[t] # None
  /\ \E name \in Label, roles \in SUBSET Role, did \in {<<t, "key">>, OnboardedDid(t)} :
       /\ NameFree(t, name)
       /\ roles \cap actors[t].roles # {}
       /\ "issuer" \in roles => did = <<t, "public">>
       /\ actors' = [actors EXCEPT ![t] = [roles |-> roles, did |-> did, name |-> name]]
  /\ UNCHANGED <<schemas, public, label>>

\* It labels the wallet afterwards, without another look at the actor, which a rival
\* may have renamed meanwhile.
Relabel(t) ==
  /\ \E l \in Label : label' = [label EXCEPT ![t] = l]
  /\ UNCHANGED <<actors, schemas, public>>

\* remove_actor_by_id
Withdraw(t) ==
  /\ actors[t] # None
  /\ actors' = [actors EXCEPT ![t] = None]
  /\ UNCHANGED <<schemas, public, label>>

\* create_did of an onboarding
MakePublic(t) ==
  /\ public' = public \cup {t}
  /\ UNCHANGED <<actors, schemas, label>>

\* Faulty variant: any schema can be removed.
DelistAny(s) ==
  /\ schemas' = schemas \ {s}
  /\ UNCHANGED <<actors, public, label>>

Delist(s) ==
  /\ s \in Legacy
  /\ schemas' = schemas \ {s}
  /\ UNCHANGED <<actors, public, label>>

List(s) ==
  /\ schemas' = schemas \cup {s}
  /\ UNCHANGED <<actors, public, label>>

Change ==
  /\ changes < MaxChanges
  /\ changes' = changes + 1
  /\ \/ \E t \in Tenant : Register(t) \/ Update(t) \/ Relabel(t) \/ Withdraw(t) \/ MakePublic(t)
     \/ \E s \in Schema : Delist(s) \/ List(s)
  /\ UNCHANGED <<agent, call, pc, key, status, acted, blind, unread, faults>>

-----------------------------------------------------------------------------
Answer(r, s) ==
  /\ status' = [status EXCEPT ![r] = s]
  /\ pc' = [pc EXCEPT ![r] = "done"]
  /\ UNCHANGED key

Goto(r, step) == pc' = [pc EXCEPT ![r] = step] /\ UNCHANGED <<key, status>>

LookUp(r, step, k) ==
  /\ pc' = [pc EXCEPT ![r] = step]
  /\ key' = [key EXCEPT ![r] = k]
  /\ UNCHANGED status

Arrive(r, c) ==
  /\ pc[r] = "idle"
  /\ c.via = "public" => c.tenant \in public
  /\ call' = [call EXCEPT ![r] = c]
  /\ Goto(r, "agent")
  /\ UNCHANGED <<registry, agent, acted, blind, unread, faults>>

\* The DID of the issuer that its gate, or the holder's, looks up.
IssuerDid(c) == <<c.tenant, IF c.op = "request" THEN c.via ELSE "public">>

\* assert_public_did of an issuer; of a verifier, who may do without.
ReadOwnDid(r) ==
  LET t == call[r].tenant IN
  /\ pc[r] = "agent" /\ call[r].op \in {"credDef", "offer", "prove"}
  /\ \/ t \in public /\ LookUp(r, "actor", IssuerDid(call[r]))
     \/ t \notin public /\ call[r].op = "prove" /\ Goto(r, "connection")
     \/ t \notin public /\ call[r].op # "prove" /\ Answer(r, "refused")
  /\ UNCHANGED <<registry, agent, call, acted, blind, unread, faults>>

\* The holder's record of the exchange has the DID of the issuer.
ReadOffer(r) ==
  LET c == call[r] IN
  /\ pc[r] = "agent" /\ c.op = "request"
  /\ IF <<c.tenant, c.schema>> \in offers THEN LookUp(r, "actor", IssuerDid(c))
     ELSE Answer(r, "refused")
  /\ UNCHANGED <<registry, agent, call, acted, blind, unread, faults>>

\* The prover's records of the proof and its connection, which do not change. A
\* proof without a connection is not looked at further.
ReadProof(r) ==
  LET c == call[r] IN
  /\ pc[r] = "agent" /\ c.op = "accept"
  /\ IF c.via = None THEN Goto(r, "act") ELSE LookUp(r, "actor", <<c.tenant, c.via>>)
  /\ UNCHANGED <<registry, agent, call, acted, blind, unread, faults>>

\* A verifier without a public DID is looked up by the key of its invitation.
ReadConnection(r) ==
  LET c == call[r] IN
  /\ pc[r] = "connection"
  /\ IF c.via = None THEN Answer(r, "refused") ELSE LookUp(r, "actor", <<c.tenant, c.via>>)
  /\ UNCHANGED <<registry, agent, call, acted, blind, unread, faults>>

\* Which schema the gate asks for: none is known of a did:cheqd definition on offer.
SchemaAsked(c) ==
  IF c.op = "prove" \/ (c.op = "offer" /\ c.schema \in Cheqd) THEN None ELSE c.schema

\* Faulty variant: the roles of the actor are not looked at.
AdmitAnyone(r, a) == Goto(r, IF SchemaAsked(call[r]) = None THEN "act" ELSE "schema")

\* The actor was found: it must have the role, and then the schema is next.
Admit(r, a) ==
  IF (IF call[r].op \in IssuerOp THEN "issuer" ELSE "verifier") \in a.roles
    THEN Goto(r, IF SchemaAsked(call[r]) = None THEN "act" ELSE "schema")
    ELSE Answer(r, "refused")

\* Faulty variant: a verifier whose DID is unknown is turned away.
FetchActorOnly(r) ==
  /\ pc[r] = "actor"
  /\ \/ \E t \in Tenant : /\ actors[t] # None /\ actors[t].did = key[r]
                          /\ Admit(r, actors[t])
     \/ /\ \A t \in Tenant : actors[t] # None => actors[t].did # key[r]
        /\ Answer(r, "refused")
  /\ UNCHANGED <<registry, agent, call, acted, blind, unread, faults>>

\* fetch_actor_by_did. A verifier that is not found goes by its label: the wallet's
\* own when it asks, the one in the prover's connection when it is answered.
FetchActor(r) ==
  LET c == call[r] IN
  /\ pc[r] = "actor"
  /\ \/ \E t \in Tenant : /\ actors[t] # None /\ actors[t].did = key[r]
                          /\ Admit(r, actors[t])
     \/ /\ \A t \in Tenant : actors[t] # None => actors[t].did # key[r]
        /\ \/ c.op \in IssuerOp /\ Answer(r, "refused")
           \/ c.op = "prove" /\ Goto(r, "label")
           \/ c.op = "accept" /\ LookUp(r, "name", c.their)
  /\ UNCHANGED <<registry, agent, call, acted, blind, unread, faults>>

\* Faulty variant: the id of the wallet is looked up instead of its label.
ReadWalletId(r) ==
  /\ pc[r] = "label"
  /\ LookUp(r, "name", call[r].tenant)
  /\ UNCHANGED <<registry, agent, call, acted, blind, unread, faults>>

\* get_wallet_label_from_controller
ReadLabel(r) ==
  /\ pc[r] = "label"
  /\ LookUp(r, "name", label[call[r].tenant])
  /\ UNCHANGED <<registry, agent, call, acted, blind, unread, faults>>

\* fetch_actor_by_name
FetchByName(r) ==
  /\ pc[r] = "name"
  /\ \/ \E t \in Tenant : /\ actors[t] # None /\ actors[t].name = key[r]
                          /\ Admit(r, actors[t])
     \/ /\ \A t \in Tenant : actors[t] # None => actors[t].name # key[r]
        /\ Answer(r, "refused")
  /\ UNCHANGED <<registry, agent, call, acted, blind, unread, faults>>

\* registry_has_schema, or are_valid_schemas, which refuses an empty list.
CheckSchema(r) ==
  /\ pc[r] = "schema"
  /\ IF SchemaAsked(call[r]) \in schemas THEN Goto(r, "act") ELSE Answer(r, "refused")
  /\ UNCHANGED <<registry, agent, call, acted, blind, unread, faults>>

\* The agent offers only what it has a definition of.
Possible(c) ==
  c.op = "offer" /\ c.schema # None => <<c.tenant, c.schema>> \in credDefs

Done(r) ==
  LET c == call[r] IN
  /\ pc[r] = "act" /\ Possible(c)
  /\ credDefs' = IF c.op = "credDef" THEN credDefs \cup {<<c.tenant, c.schema>>} ELSE credDefs
  /\ offers' = IF c.op = "offer" THEN offers \cup {<<c.tenant, c.schema>>} ELSE offers
  /\ acted' = acted \cup {r}

Act(r) ==
  /\ \/ Done(r) /\ Answer(r, "ok")
     \/ /\ pc[r] = "act" /\ ~Possible(call[r])
        /\ Answer(r, "error")
        /\ UNCHANGED <<agent, acted>>
  /\ UNCHANGED <<registry, call, blind, unread, faults>>

Handler(r) ==
  \/ ReadOwnDid(r) \/ ReadOffer(r) \/ ReadProof(r) \/ ReadConnection(r)
  \/ FetchActor(r) \/ ReadLabel(r) \/ FetchByName(r) \/ CheckSchema(r) \/ Act(r)

-----------------------------------------------------------------------------
(* Failing calls.                                                          *)

Fault == faults < MaxFaults /\ faults' = faults + 1

\* The agent fails when it is asked for the public DID, and this counts as "has none": a
\* verifier goes on to its connection (assert_valid_verifier) and an offer is refused
\* (assert_issuer_public_did), whatever the failure. A definition is refused only if the
\* agent itself answers 403.
OwnDidFails(r) ==
  /\ Fault
  /\ pc[r] = "agent"
  /\ \/ call[r].op = "prove" /\ Goto(r, "connection") /\ UNCHANGED unread
     \/ /\ call[r].op \in {"offer", "credDef"}
        /\ Answer(r, "refused")
        /\ unread' = unread \cup {r}
  /\ UNCHANGED <<registry, agent, call, acted, blind>>

\* Any other failing call.
CallFails(r) ==
  /\ Fault
  /\ pc[r] \notin {"idle", "done"}
  /\ pc[r] = "agent" => call[r].op \notin {"offer", "prove"}
  /\ Answer(r, "error")
  /\ UNCHANGED <<registry, agent, call, acted, blind, unread>>

\* Three connect timeouts: the client returns None, which registry_has_schema does
\* not look at. The prover's list of schemas cannot be read from None.
SchemaUnreachable(r) ==
  /\ Fault
  /\ pc[r] = "schema" /\ call[r].op \in IssuerOp
  /\ blind' = blind \cup {r}
  /\ Goto(r, "act")
  /\ UNCHANGED <<registry, agent, call, acted, unread>>

\* The act is carried out and its answer lost.
AnswerLost(r) ==
  /\ Fault
  /\ Done(r) /\ Answer(r, "error")
  /\ UNCHANGED <<registry, call, blind, unread>>

-----------------------------------------------------------------------------
(* What was true at some instant while a request was under way.            *)

\* The counterpart is registered with the role; for a verifier, under its own DID, or
\* someone is under the label it goes by or went by when the request looked.
Entitled(r) ==
  LET c == call[r] IN
  IF c.op \in IssuerOp
    THEN /\ actors[c.tenant] # None /\ "issuer" \in actors[c.tenant].roles
         /\ actors[c.tenant].did = IssuerDid(c)
    ELSE \E t \in Tenant :
           /\ actors[t] # None /\ "verifier" \in actors[t].roles
           /\ \/ actors[t].did \in {<<c.tenant, "public">>, <<c.tenant, c.via>>}
              \/ actors[t].name \in {label[c.tenant], c.their, key[r]}

\* Nothing speaks against the request: a verifier is registered under its label.
Unobjectionable(r) ==
  LET c == call[r] IN
  /\ Entitled(r)
  /\ c.op \in {"credDef", "offer"} => c.tenant \in public
  /\ c.op = "request" => <<c.tenant, c.schema>> \in offers
  /\ c.op \in VerifierOp =>
       LET a == actors[c.tenant] IN
       /\ a # None /\ "verifier" \in a.roles
       /\ a.name = IF c.op = "prove" THEN label[c.tenant] ELSE c.their
       /\ c.op = "prove" => c.via # None
  /\ SchemaAsked(c) # None => SchemaAsked(c) \in schemas

Observe ==
  /\ entitled' = entitled \cup {r \in Request : pc'[r] # "idle" /\ pc[r] # "done" /\ Entitled(r)'}
  /\ listed' = listed \cup {r \in Request : pc'[r] # "idle" /\ pc[r] # "done"
                                            /\ call'[r].schema \in schemas'}
  /\ lapsed' = lapsed \cup {r \in Request : pc'[r] # "idle" /\ pc[r] # "done"
                                            /\ ~Unobjectionable(r)'}

AllAnswered == /\ \A r \in Request : pc[r] = "done"
               /\ UNCHANGED vars

Step ==
  \/ Change
  \/ \E r \in Request :
       \/ \E c \in Calls : Arrive(r, c)
       \/ Handler(r)
       \/ OwnDidFails(r) \/ CallFails(r) \/ SchemaUnreachable(r) \/ AnswerLost(r)

Next == (Step /\ Observe) \/ AllAnswered

Spec == Init /\ [][Next]_vars

-----------------------------------------------------------------------------
(* Correctness.                                                            *)

Gated(c) == ~(c.op = "accept" /\ c.via = None)

\* What a request did, its counterpart was registered for at some instant while it
\* was under way, and so was the schema it asked for, unless the registry could not
\* be reached: no answer of the gates is older than the request. A tenant whose label is
\* looked up need not have it any more when the actor of that name is found.
ActedWithinBounds ==
  \A r \in acted : Gated(call[r]) =>
    /\ r \in entitled
    /\ SchemaAsked(call[r]) = None \/ r \in listed \/ r \in blind

\* A request is turned away only for a cause: at some instant while it was under way
\* something spoke against it. A verifier registered under its label is not turned
\* away whatever connection it uses, nor if its DID cannot be read. An issuer is: a failing
\* agent makes valid_issuer.py:11-18 say that the wallet has no public DID, as
\* assert_public_did.py:18 does for the agent's own 403.
RefusedForCause ==
  \A r \in Request :
    status[r] = "refused" =>
      r \in lapsed \/ (r \in unread /\ call[r].op \in {"offer", "credDef"})

\* The gate does not ask for the schema of a did:cheqd definition on offer, and need
\* not: it was asked for when the definition was made, and stays in the registry.
CheqdSchemasListed ==
  \A t \in Tenant, s \in Cheqd :
    <<t, s>> \in credDefs \cup offers =>
      s \in schemas \/ \E r \in blind : call[r].schema = s

\* "If either step fails, the operation is blocked" (docs/src/Trust Registry.md:74, of the
\* two steps of the issuer's gate): nothing is defined, offered or accepted unless the
\* issuer and the schema were registered at some instant of the request.
UnregisteredIsBlocked ==
  \A r \in acted : call[r].op \in IssuerOp =>
    r \in entitled /\ (SchemaAsked(call[r]) = None \/ r \in listed)
=============================================================================
