# Verification of acapy-cloud

acapy-cloud runs a multi-tenant credential service: a gateway in front of the
ACA-Py agents, a trust registry that says who may issue and verify what, and a
waypoint that streams the agents' events to clients. This directory holds TLA+
models of the parts where several actors, several calls or several failures meet,
the TLC runs that check them, and proofs of every safety property that a passing run checks,
for any number of requests, actors, wallets, schemas, registries, credentials and events.
Liveness is left to TLC.

    tlc -workers 2 -config MCActorRegistry.cfg MCActorRegistry    # one run
    tlapm ActorRegistryProofs.tla                                 # proofs of one module

`PROJECT.json` lists the components, the runs with the properties each checks, a
faulty variant of the code for each property, the source lines of each
definition, the hazards, the disagreements found and the theorems.

## 1. Inventory

| Component | State | Operations | What is hard | What makes it correct |
|---|---|---|---|---|
| **Trust registry, actors** (`trustregistry/`) | table `actors`, unique name, DID and invitation | create, update, delete, four getters; each one to three SQL statements in a session of its own | statements of other sessions commit in between; lost commits; refresh after commit | keys unique, rows whole, answers true |
| **Trust registry, schemas** | table `schemas`, id computed from DID, name, version | create, update, delete, getters | ids regenerated on update; `did:cheqd` ids, with slashes, meet routes made for the other kind | id and columns agree |
| **Tenant administration** (`app/routes/admin/tenants.py`, `app/services/onboarding`) | none of its own: wallets at the agent, actors at the registry | create (with compensation), update (promotion, rename, image), delete | two stores and no transaction; failing calls, lost answers, crashes, rivals | no orphan of either kind, nothing comes back from the dead, issuers can be found |
| **Waypoint** (`waypoint/`) | one JetStream subscription and one stop event per request | subscribe, fetch, filter, acknowledge, resubscribe, close | lost heartbeats, redelivery, clients that leave, suspended generators, time | no event passed over, the subscription closed, an end |
| **Schema publication** (`app/services/definitions`) | none of its own: ledger, registry | create on the ledger, poll for the endorsement, register | the ledger cannot be undone; late endorser; retried registration | what is registered is on the ledger, success tells the truth |
| **Credential definitions** (`app/services/definitions/`) | agent | issuer gate, publish, wait for two registries, read back | wait without a bound inside a timeout; the agent finishes a registry on its own; a definition the ledger does not show yet | gate holds at publication, a definition that was promised can be revoked from, the wait ends |
| **Revocation** (`app/routes/revocation.py`, `app/services/revocation_registry.py`) | pending sets and records at the agent | revoke, revoke at once with polling, publish, clear, read, fix | validated by one call, acted on by the next; the record runs ahead of the ledger | a success stays one, whatever rivals do |
| Issuance and proofs (`app/routes/issuer.py`, `verifier.py`) | exchange records at the agent | send, request, store; send, accept, reject | registry gates that are stale when used | only registered actors and schemas |
| **Tails server** (`tails/`) | objects in a bucket | get, put | head, then validate, then put; repeated uploads | an object has the hash of its key, what is said to be there is |
| Authentication, roles, connections, OOB, messaging, JSON-LD, JWS, SD-JWS, wallet routes | none | one call each | nothing | conversions |
| NATS life cycle, migrations, start-up, deployment | counters for logging | callbacks, migrations | nothing that reaches a request | |

How they interact: the gateway calls the agents (`handle_acapy_call`, no retries) and
the registry (`RichAsyncClient`; the calls that look at status codes themselves turn
its retries off, `register_schema` has them on). Every service is an asyncio process
of which several may run, so that between any two awaits of one request any step of
another may happen. Agents publish events to NATS JetStream; the waypoint reads them.

## 2. Modules

| Module | Models | Role |
|---|---|---|
| `ActorRegistry` | `trustregistry/crud.py`, `registry/registry_actors.py`, `db.py`, `list_type.py` | the handlers, statement by statement |
| `AtomicRegistry` | the promise of that table | abstract specification: one effect per request, at one instant |
| `ActorRegistryProofs` | | the theorems about `ActorRegistry` |
| `SchemaRegistry` | `trustregistry/crud.py`, `registry/registry_schemas.py`, `db.py`, `shared/util/resolve_cheqd_resources.py` | the handlers of the schema table, statement by statement |
| `AtomicSchemas` | the promise of that table | abstract specification: a set of ids |
| `SchemaRegistryProofs` | | the theorems about `SchemaRegistry` |
| `Tenants` | `app/routes/admin/tenants.py`, `app/services/onboarding/`, `app/services/trust_registry/actors.py` | create, update, delete, call by call; uses a registry call as one step, as `AtomicRegistry` allows |
| `TenantsProofs` | | the theorems about `Tenants` |
| `EnrolmentProofs` | | what `TrustGates` takes for granted about the rows that `Tenants` writes |
| `Waypoint` | `waypoint/services/nats_service.py`, `waypoint/routers/sse.py` | one request, its generator, its consumer and its surroundings |
| `WaypointProofs` | | the theorems about `Waypoint` |
| `SchemaPublication` | `app/services/definitions/schema_publisher.py`, `app/util/retry_method.py`, `shared/util/rich_async_client.py` | from the agent to the registry |
| `SchemaPublicationProofs` | | the theorems about `SchemaPublication` |
| `TrustGates` | `app/services/trust_registry/util/`, `app/util/acapy_verifier_utils.py`, the routes of issuance and proofs | the questions a request asks the registry before it acts, while the registry changes |
| `TrustGatesProofs` | | the theorems about `TrustGates` |
| `Requests` | `app/exceptions/handle_acapy_call.py` | what the handlers of the next four modules share: a call, a program counter, an answer, failures |
| `Tails` | `tails/routers/tails.py` | put and get, call by call |
| `CredentialDefinitions` | `app/services/definitions/credential_definition*.py`, `app/routes/definitions.py`, `app/util/retry_method.py` | from the gate to the definition that is read back |
| `Revocation` | `app/routes/revocation.py`, `app/services/revocation_registry.py`, `app/models/issuer.py` | the six routes, call by call |
| `RevocableCredentials` | how these meet | composition of the three, with the agents and the ledger between them |
| `RevocableCredentialsProofs` | | the theorems about `RevocableCredentials` |
| `MCActorRegistry`, `MCSchemaRegistry`, `MCTenants`, `MCTrustGates`, `MCRevocableCredentials` | | the sets of calls for TLC |

### ActorRegistry

`actors` is the table. A request has a program counter `pc`, its `call`, the row an
update has read (`seen`), its `status`, and the history variable `effect`: its write
has been committed. `Receive` is the arrival with the check of the ids; `Read` the
getters; `CreateInsert` and `CreateRefresh` the two transactions of `create_actor`;
`SelectRow` the SELECT of update and delete; `UpdateWrite` and `DeleteWrite` the
statement and the commit. A write and its commit are one step because the row lock
keeps every other writer out in between and READ COMMITTED shows nobody the
uncommitted row. `StatementFails` is any other exception (rollback, 500);
`CommitUnknown` a connection that is lost during COMMIT.

Two conversions are modelled by what they do. `StringList` turns an empty role list
into one empty role when it reads (`ReadRoles`), which the response model refuses
(`Readable`). And a PUT without an image keeps the image of the row it has *read*
(`NewRow`). Ids are never empty; a PUT whose body has no id takes that of the URL, so
that `bodyId` is `None` or an id. The rows' limit of 1000 is left out.

### SchemaRegistry

`schemas` gives the columns of each id. A legacy id *is* its columns here, because
`schema_id_gen` makes it of nothing else: `Renamed` is the UPDATE, which `onupdate`
turns into a move of the row to the id of its new columns. The id of a `did:cheqd`
schema is opaque, and `CheqdDid` is the DID in front of its slash. `Routed` says that
the paths of PUT and DELETE take one segment, so that these ids get a 405 there (from
the route of GET, which takes them); a PUT that *posts* one fails on an empty list.
Malformed ids come in two kinds because the answers differ: `TooShort` ones raise an
`IndexError` (500), `Mismatched` ones fail the validation (422).

`draft` holds the columns a request is going to write; `Resolve` fills it from the
resolver, for any name and version it may give. `Insert` and `Refresh` are the two
transactions of `create_schema`, `SelectRow`, `UpdateWrite` and `DeleteWrite` those of
update and removal, with `StepFails` and `CommitUnknown` as in `ActorRegistry`.
`did:cheqd` ids without a slash are left out: the resolver has no schema for them. The
rows' limit of 1000 is left out.

### Tenants

`wallets` is the agent's store, `actors` the registry's, `born` the wallet ids handed
out; `target` and `draft` are the wallet and the actor a request has in its hands.
Each remote call is one step, named after what it does: `CheckName`, `CreateWallet`
(or `RefuseWallet`), then for an actor the onboarding `ReadPublicDid`, `CreateDid`,
`Invite`, then `Register`, with `Undo` the compensation of lines 207-232; `GetWallet`,
`FetchActor`, `RemoveActor`, `DeleteWallet` for a delete; `GetWallet`, `FetchActor`,
`GetToken`, the onboarding, `PutActor` and `UpdateWallet` for an update. DIDs are
numbered per wallet, 0 is the key of an invitation. Which of its DIDs a wallet has as
its public one after a second `create_did` is the agent's choice. `CallFails`,
`AgentAnswerLost`, `RegistryAnswerLost`, `MissPublicDid` (a failure of
`get_public_did` counts as "has none") and `Crash` are the failures, `faults` counts
them, `faulted` says which service they hit, and `early` remembers the deletes that
found the wallet of a create still under way. `FailedCall` says which failures are
compensated: those after `create_wallet` has returned.

Registry calls are atomic here. That is what `ActorRegistry` is proved to offer
(`KeepsPromise`), and all that `Tenants` uses of it.

### Waypoint

One request, because requests share nothing but the connection. `stream` says of each
event whether it has the wanted field; `cursor` and `lost` are the consumer that
JetStream keeps for the subscription; `batch` what has been fetched and not yet
acknowledged; `open` and `live` count subscriptions and say whether the generator's
variable refers to an open one, since a failed resubscription leaves it with a closed
one. `Loop`, `Fetch`, `FetchTimesOut`, `HeartbeatMissed`, `Resubscribe`, `Fails` are
the branches of the generator's loop; `Consume`, `Acknowledge`, `Answered` the
consumer, which runs while the generator is suspended in its `yield`; `Cancel` and
`CheckDisconnect` what a leaving client sets off; `Collect` the event loop closing a
generator that the consumer has left suspended. `clock` counts seconds. A round of
the loop takes less than one (0.5 s at most, by `NATS_TIMEOUT`), so that `Tick` lets no
more than one pass between two looks at the clock; only a subscription that NATS does
not accept (`_subscribe` retries for ever) and a client that does not take its event
take any time.

### SchemaPublication

`ledger` and `registry` are the two stores; the registry is a set of ids into which
one step registers an id, which is what `SchemaRegistry` is proved to offer. `Create` and `CreateRefused` are the agent's
answers: it may publish, at once or waiting for the endorser, or say that the schema
exists. `Endorse` is the endorser, `Poll` the loop of
`coroutine_with_retry_until_value`, in which a failed poll counts as an attempt;
`Lookup` is `_handle_existing_anoncreds_schema`. `Register`, `RegisterBadGateway`,
`RegisterConnectTimeout` and `RegisterFails` are the outcomes of one attempt of the
retrying client. After the last connect timeout that client returns `None`, which
`register_schema` does not look at: this is a success in the code and in the model.

### TrustGates

A request creates a credential definition, offers a credential, accepts an offer
(`request`), asks for a proof or gives one (`accept`). `pc` says which call is next and
`key` what it looks up: `ReadOwnDid`, `ReadOffer`, `ReadProof` and `ReadConnection` read
the agent, `FetchActor` is `fetch_actor_by_did` with the decision about its answer,
`ReadLabel` and `FetchByName` the fallback of a verifier to its label, `CheckSchema`
`registry_has_schema` or `are_valid_schemas`, and `Act` the call that cannot be taken
back. `Register`, `Update`, `Relabel`, `Withdraw`, `MakePublic`, `Delist` and `List` are
the steps of other requests, as far as `Tenants` allows them: a public DID comes before
the role that needs it, and a wallet is labelled apart from its actor. Two updates that
race may undo one another (`tenants_revoked`), so that `Update` writes any row which
shares a role with the one it replaces (`InitialRolesKept`), and a label need not agree
with the name of the actor, not even in the end (`Relabel`) and not when it is
registered (`Register` takes the name that the create was asked for). `EnrolmentProofs`
proves of `Tenants` that it writes no row in any other way. An issuer has the public DID
of its wallet, which `IssuerIsFound` says of `Tenants`; the cases it excepts are left
out here. That a `did:cheqd` schema is never delisted is what `SchemaRegistry` is proved
to keep. `OwnDidFails` is a failing `get_public_did`, which counts as "has none":
`assert_valid_verifier` goes on with the connection, `assert_issuer_public_did` answers
an offer with a 403, and `assert_public_did` of a definition does so if the agent's own
answer is a 403; `unread` remembers who was refused for it. `CallFails` is any other failing
call, `AnswerLost` an act whose answer is lost, and `SchemaUnreachable` the three connect
timeouts after which `RichAsyncClient` returns `None`: `registry_has_schema` takes that for
a yes, and `blind` remembers it (`trust_gates_unreachable` shows what comes of it).
`Observe` keeps what was true at some instant while a request was under way: `entitled`,
`listed`, `lapsed`.

Proofs without a connection pass the prover's gate unasked, as the route says, and are
excepted in `Gated`. A proof request that is sent has a connection always (it is required in
`SendProofRequest`), so that no connection there means one without an invitation key; the
route that makes a request without a connection has no gate. Rejecting, storing and
deleting are single calls and left out.

### Tails, CredentialDefinitions, Revocation and RevocableCredentials

`RevocableCredentials` follows a revocable credential from its definition to its
revocation. The three components extend `Requests`, and each gives a `Handler` and a
`Fault` action that leave the variables of the others alone; `Come` is the arrival of a
request, `Agent` what the agents and the ledger do on their own.

*Tails.* A file stands for its own hash, so that `bucket[f] = f` says that the object is
under the right key. `HeadOfPut` is the look whether the object is there, `ReadUpload` the
reading with its validation (prefix, hash and size are all 400), `Upload` the put into the
bucket, which overwrites; `UploadAnswerLost` stores and answers 500. `HeadOfGet` and
`GetObject` are the two calls of a download. Content types are left out. Nothing removes an
object, so that `GetObject` always finds one; if it did not, the code would answer 500. A
download that breaks off after its 200 is left out.

*CredentialDefinitions.* One definition, for which requests compete. `Gate` is what
`TrustGates` models in full. `Created` is the agent's publication, which also opens the
registries; `PollRegistries` the end of `wait_for_active_registry` (a poll that finds fewer
than two changes nothing and is a stutter), `WaitExpires` the timeout of
`asyncio.wait_for`, which may come at any time since the model has no clock here; `ReadBack`
the attempts of `coroutine_with_retry`, where a 404 counts like any other failure. `Finish`
is external: the agent lists a registry as finished once a put of its tails file was
answered with success.

*Revocation.* `cred` is the agent's view of each credential; `publishing` lies between the
agent's record and the ledger, which may refuse (`bounced`). A record may read "revoked"
before the ledger has it, as the comment in `revocation_registry.py:92` warns:
`RecordedRevoked` and `RecordedOther` overlap in those states. `Look` and `LookFails` are
the two nested loops of `revoke_credential`, tries and attempts. `Validate` is one call of
`validate_rev_reg_ids`; it takes the registries in any order because the map is the
caller's. `Publish` is the agent at work on one registry, with what is pending by then:
`Selected` and `Targets` say what empty lists and an empty map stand for, as the route
documents it. `Extracted` is the validator of the response. `Clear` is the 501 of the route;
the service behind it cannot be reached, and the `ClearByService` mutant shows what it
would break. The 400 of the record route depends on its parameters only and is left out.

A tails file has random contents and a registry an id of its own, so that `CanCome` keeps
requests from naming them before they exist. The initial states are two: nothing is there
yet, or a definition with finished registries and issued credentials is, some of which
are pending.

## 3. Runs

| Run | States | What it shows |
|---|---|---|
| `actor_registry` | 80 000 | `UniqueKeys`, `NoTornRow`, `EveryRequestAnswered`, and that the handlers implement `AtomicRegistry` (`Atomic`) |
| `schema_registry` | 126 000 | `IdMatchesColumns`, `CheqdStays`, and that the handlers implement `AtomicSchemas` (`Atomic`) |
| `tenants` | 233 000 | `InitialRolesKept`, `NoStrayWallet`, `CreatedIsRegistered`, `DeletedIsGone`, `NoOrphanActor`, `IssuerIsFound` |
| `waypoint` | 117 000 | `NothingPassedOver`, `OneSubscription`, `NoFetchAfterEnd`, `EndsAndReleases` |
| `schema_publication` | 756 000 | `RegisteredIsFinished`, `SuccessIsPublished`, `UnregisteredIsKnown`, `EveryRequestEnds` |
| `trust_gates` | 1 077 000 | `ActedWithinBounds`, `RefusedForCause`, `CheqdSchemasListed` |
| `revocable_credentials` | 240 000 | `StoredUnderItsHash`, `DefinedIsRevocable`, `SuccessIsKept`, `EveryRequestEnds` |

and five runs in which a statement of the repository about itself fails:

| Run | Statement | What the code does |
|---|---|---|
| `tenants_revoked` | `tenants.py:363`, "does not support revoking roles" | two updates, the second writes back the roles it read before the first |
| `waypoint_duration` | `constants.py:49`, "maximum duration of an SSE connection" | the resubscription is retried without an end and without a look at the time |
| `schema_publication_doc` | `definitions.py:49`, a created schema is "written to our public trust registry" | the first request times out before the endorser signs, the second finds the schema on the ledger and returns it; neither registers it |
| `trust_gates_unreachable` | `docs/src/Trust Registry.md:74`, "if either step fails, the operation is blocked" | a registry that does not accept the connection counts as a yes for the schema |
| `revocation_report` | `revocation.py:183`, the response "will be empty if there were no revocations to publish" | it is empty always, because the validator finds a field for transactions |

`schema_publication_doc` needs no failing call (`MaxFaults` 0), only an endorser that is
slower than the polling. `trust_gates_unreachable` needs one, and no rival. A sentence that
no run is spent on: `tenants.py:84` says that an issuer may not use a label "already in use
by another tenant", while `create_tenant` compares it with the names in the registry only
(line 130), so that the label of a holder is free to use.

The comment "should never happen" at `crud.py:200` is not true either (an actor may be
deleted between the SELECT and the UPDATE of a PUT), but harmless: the code handles the
case, and `Atomic` shows that its answer is right.

`trust_gates` shows how much a gate is worth: each of its answers was true at some instant
of the request, and no instant need have had all of them true. In particular a verifier
is let through on a label that it no longer has when another actor has taken it over;
an `ActedWithinBounds` that asked for the tenant's label and the actor's name at one
instant would be violated by two changes between the two calls.

Its `RefusedForCause` makes one exception, which is the code's: the two helpers for the
public DID of an issuer differ in what they make of a failing agent. Offers use
`valid_issuer.py`, which tells an issuer who has a public DID that it has none, and
definitions `assert_public_did.py`, which does so only if the agent's own answer is a 403
and reports any other failure as one. That request is refused for no fault of the issuer,
and `unread` marks it.

What the passing properties of `tenants` leave room for is as informative as what they
say: a wallet without an actor can be left behind only by a failing agent or a crash,
an actor without a wallet only by a lost answer of the registry or by a delete that
overtakes the create of the same tenant, and an issuer can be lost to the issuance gate
only by a failing agent or two promotions at once.

### Bounds

Every bound is a constant of its module.

- **Requests, 3.** The hazards need two rivals on one object; the third makes the
  object (or is the second rival of an update).
- **Actors and wallets, 2; names and DIDs, 2 (3 DIDs cannot clash more than 2 do);
  invitations and images, 1 and `NULL`.** A clash needs two rows. The calls for TLC are
  chosen in the MC modules: each pair of columns that may clash does, an update with and
  one without an image, a body that names another id, a row that cannot be read back.
- **Schemas: 2 legacy ids, 1 `did:cheqd` id, 1 id of each malformed kind.** A rename needs
  an id to go to and a rival that is there already; the calls contain renames in both
  directions and a `did:cheqd` id in every place a call has.
- **`MaxFaults` 2.** One failure to open a gap and one to hit the compensation.
- **Waypoint: 3 events, batches of 2, 3 timeouts (`NATS_MAX_TIMEOUT_ERRORS`), 2 of 4
  seconds.** A batch that is not full, one that is, one more event to pass over; one
  resubscription and the start of a second; time left after the end.
- **SchemaPublication: `MaxPolls` 2, `MaxPosts` 2, 2 ids, 1 name and version, 2 sets of
  attributes.** The first and the last attempt differ, so that each loop goes round; the
  number in between does not matter to any property. Two ids let the agent accept rivals.
- **RevocableCredentials: 3 requests, of which the first has made the definition in the
  initial states that have one; 2 registries, 3 credentials, two of them in one registry;
  3 files; `MaxFaults` 1; `ReadAttempts`, `RecordPolls` and `RecordAttempts` 2.** A definition
  and the uploads of both files take three requests, and so do a definition and two
  uploads of one file that overlap. Two requests are what it takes to have a rival between
  a validation and its publication. Registries and credentials in the maps: one, several,
  all, none, and an id of no registry. First and last attempts differ.
- **TrustGates: one request, `MaxChanges` 2, `MaxFaults` 1.** Requests meet only in the
  registry and in what they have left at the agent, which the initial states and the
  changes cover. Two changes are what it takes to move a label from one tenant to another
  between its reading and its look-up. Two tenants, two labels, one schema of each kind.

Requests are symmetric in `tenants` (and only there, because symmetry is not sound for
liveness). Deadlock is checked everywhere; requests that have all ended stutter.

### Fairness

- A handler that has started goes on (`WF(Statement(r))`, `WF(Handler(r))`): the event
  loop runs each request's task, and every remote call or statement returns or fails by
  its timeouts. Failures are never fair, and no property needs them to happen.
- `revocable_credentials`: the handlers only. Neither the agent nor the ledger is fair, so
  that a registry may stay open for ever and a revocation unwritten. The timeout of the
  wait is one of the handler's steps, and the clock makes it happen.
- The endorser is not fair. `EveryRequestEnds` holds without it.
- `Waypoint`: time passes, the generator's coroutines run and abandoned generators are
  collected (`WF(Generator)`), which the event loop's hook for asynchronous generators
  does; NATS accepts or refuses a subscription some day, without which a request
  lasts for ever and `waypoint_duration` would be a hang; a client takes its event
  or leaves.

## 4. Proofs

`ActorRegistryProofs` proves, for every number of requests, ids, names, DIDs,
invitations, images and every set of calls:

| Theorem | States |
|---|---|
| `TypeCorrect` | `TypeOK` and `HandlerState` are invariants |
| `KeysAreUnique` | `UniqueKeys` is an invariant |
| `RowsAreNotTorn` | `NoTornRow` is an invariant |
| `KeepsPromise` | `ActorRegistry` implements `AtomicRegistry` |

The assumptions are those of the module: the calls have the types of the columns
(`CallsAssumption`), and `None` is none of the values it is compared with
(`NoneAssumption`).

The argument. `Base` is `TypeOK` with `HandlerState`: where each handler stands and what
follows from it, above all that a request which has not yet written has no effect
(`pc` is idle, first or write), and that one which holds a row is an update or a delete.
`TypeOK` is not inductive without it: an update writes `seen[r].image`, and only
`HandlerState` says that `seen[r]` is a row by then. `StepKinds` then reduces the eleven
actions to two kinds: one request writes one row, and the row it writes clashes with
none; or the table stays as it is. From the two kinds follow `UniqueStep` (with the
symmetry of `SameKey`) and `TornStep`. `NoTornRow` is not inductive alone: the image an update
carries over from its SELECT was in the table then and may no longer be. The
strengthening `SeenImageSent` says that it was sent by a request that wrote that very
actor, and that lasts because `effect` and `call` never change back (`WroteStable`). For
`KeepsPromise` the refinement mapping is the identity on `actors`, `call`, `status` and
`effect`; `PromiseStep` takes each action to a step of `AtomicRegistry` or a stutter.

`SchemaRegistryProofs` proves of `SchemaRegistry`, for every number of requests, DIDs,
names, versions and `did:cheqd` schemas and every set of calls:

| Theorem | States |
|---|---|
| `TypeCorrect` | `TypeOK` and `HandlerState` are invariants |
| `IdsMatchColumns` | `IdMatchesColumns` is an invariant |
| `CheqdSchemasStay` | `CheqdStays` holds of every step |
| `KeepsPromise` | `SchemaRegistry` implements `AtomicSchemas` |

Its assumptions are that the kinds of ids do not overlap (`SchemaKinds`), that each
`did:cheqd` id has one DID (`CheqdDids`), and the types of the calls and of `None`.
`WrittenRows` says of the three writes what they do to each row, and it is where
`HandlerState` is needed: that a request holds the columns of the very id it writes, which
`Receive` and `Resolve` see to some steps earlier, and that an update or a removal which has come
to its write does not concern a `did:cheqd` id. All three theorems follow from it and
from `StepKinds`. The refinement maps the table to the set of the ids it has a row for.

`RevocableCredentialsProofs` proves of `RevocableCredentials`, for every number of
requests, files, registries, credentials, failures and attempts and every set of calls:

| Theorem | States |
|---|---|
| `TypeCorrect` | `TypeOK` is an invariant |
| `ObjectsAreWhatTheirKeySays` | `StoredUnderItsHash` is an invariant |
| `DefinitionsCanBeIssuedFrom` | `DefinedIsRevocable` is an invariant |
| `AcceptedRevocationsStay` | `SuccessIsKept` is an invariant |

Its assumptions are the types of the calls (`CallTypes`) and of the constants
(`RevocationNames`, `TailsFiles`, `WellFormedFiles`), positive numbers of attempts
(`ReadBounds`, `RevocationBounds`), and that `None` is no answer, no file and no kind of
definition. `Base` adds to the types what each request can be at: the calls to come
belong to its operation (`Belongs`), and there is an answer once it is done and not
before. `HandlerMoves` says of every handler and every failure that it moves its own
request and no other, so that each invariant is a conjunction with one part for each
request: the parts of the others last because what they speak of only grows.

- `TailsInv`: an upload that is about to be stored is acceptable (`TailsPart`).
  `StoredUnderItsHash` is not inductive without it, because the bucket is written two
  steps after the hash was compared.
- `DefinitionInv`: a finished registry has its file on the server, which needs `TailsInv`,
  and registries belong to a definition (`RegistriesOfDefined`); without the latter a
  second definition might open registries again that a request has seen finished. What
  holds when the wait ends holds through every reading of the definition.
- `RevocationInv`: while a publication validates, each credential it has to see to is past
  its validation or was pending from the start, or belongs to a registry still to come;
  while it publishes, one that is still pending is in a registry still to come
  (`PublishPart`). `NothingIsTakenBack` is the other half: no step of any request moves a
  credential back from pending or from publishing. It is where the 501 of the clearing
  route matters.

`SchemaPublicationProofs` proves of `SchemaPublication`, for every number of requests,
schemas, polls, attempts and failures:

| Theorem | States |
|---|---|
| `TypeCorrect` | `TypeOK` is an invariant |
| `RegisteredAreFinished` | `RegisteredIsFinished` is an invariant |
| `SuccessesArePublished` | `SuccessIsPublished` is an invariant |
| `UnregisteredAreKnown` | `UnregisteredIsKnown` is an invariant |

Its assumptions are `PublicationBounds` (at least one poll and one attempt) and
`PublicationNone`. `HandlerState` is the strengthening: a request that polls has the
schema of its call on the ledger, one that registers has it finished there. Without it a
registration could be of a schema that the ledger does not have, and a success of
another request's. What a request knows lasts because the ledger forgets nothing and
finishes for good (`LedgerStays`). `UnregisteredIsKnown` needs an owner for each schema:
`Owned` says that a request published it unless the agent lost one, and `Registers` that
an owner which succeeds has registered it.

`TenantsProofs` proves of `Tenants`, for every number of requests, wallets, labels and
failures and every set of calls:

| Theorem | States |
|---|---|
| `TypesAreKept` | `TypeOK` is an invariant |
| `InitialRolesAreKept` | `InitialRolesKept` is an invariant |
| `NoWalletStrays` | `NoStrayWallet` is an invariant |
| `CreatedStaysRegistered` | `CreatedIsRegistered` is an invariant |
| `DeletedStaysGone` | `DeletedIsGone` is an invariant |
| `OrphansExplained` | `NoOrphanActor` is an invariant |
| `IssuersAreFound` | `IssuerIsFound` is an invariant |

Its assumptions are those of the module: the calls have their types (`TenantCalls`), the
failures are counted in numbers (`TenantFaults`), `None` is no value (`TenantNone`). Some
twenty actions meet seven properties, and a case for each pair would bury the
argument. So the proof goes by *moves*: what a step of one request may do to the wallets
(`WalletMove`), to the actors (`ActorMove`), to its own wallet id, draft and control
(`TargetMove`, `DraftMove`, `ControlMove`, `RouteMove`), and that it leaves the other
requests alone (`OthersStay`). Each action is shown once to make these moves; the invariants
follow from the moves. None of the seven is inductive alone:

- `Shapes` says which request may stand at which call, with what in its hands, and `Stores`
  that a wallet id is handed out once.
- `InitialRolesKept` needs `DraftsKeepRoles`: a PUT writes a row read long ago, so that
  not only the rows but every copy in flight must have the roles.
- `DeletedIsGone` needs `Settled`. A delete that has seen no create under way is past all
  writers that insert (a PUT updates only), from its look at the wallet on and not only from
  its success.
- `CreatedIsRegistered` and `NoOrphanActor` need `Progress`: a create at work has its wallet
  unless a delete saw it there (`early`), and no actor unless an answer was lost.
- `IssuerIsFound` needs `IssuersKnown`, which says the same of the drafts: a stale
  draft carries a DID back into the registry.

`EnrolmentProofs` extends it by what links `Tenants` to `TrustGates`, where other requests
are reduced to `Register`, `Update` and `Withdraw`:

| Theorem | States |
|---|---|
| `RowsAreHandedOn` | every step keeps, removes or writes a row; a written row has a role, shares one with the row it replaces, and has a name that no other actor has |
| `NamesAreApart` | no two actors have the same name |

`Enrolled` says that whoever is onboarded, held in a draft or listed was created with roles.
With `InitialRolesKept` for the row and `DraftsKeepRoles` for the copy that is written over
it, both have the roles of the create, so that they share one. That an issuer has
the public DID of its wallet is `IssuersAreFound`. No run checks these two
theorems; they are consequences of the invariants that `tenants` checks.

`WaypointProofs` proves of `Waypoint`, for every batch size, number of heartbeats, duration
and stream (`WaypointBounds`):

| Theorem | States |
|---|---|
| `TypesAreKept` | `TypeOK` is an invariant |
| `OneSubscriptionHolds` | `OneSubscription` is an invariant |
| `NoFetchAfterEndHolds` | `NoFetchAfterEnd` is an invariant |
| `NothingPassedOverHolds` | `NothingPassedOver` is an invariant |

`Attached` ties the count of subscriptions to where the generator stands, and to whether its
variable refers to an open one: `open <= 1` alone says nothing of a generator that subscribes
while it still holds one. `Stage` says when events are in hand and that an event which is
about to be acknowledged does not match, `OnTime` that a fetch lies within a second of the look
at the clock. `NothingPassedOver` is inductive with these: a fetch moves events from the
stream and from those to be sent again into the batch (`BatchFetched`), an
acknowledgement removes one that does not match (`BatchTail`), a resubscription has
everything unacknowledged sent once more.

`TrustGatesProofs` proves of `TrustGates`, for every number of requests, tenants, labels,
schemas, changes and failures and every set of calls:

| Theorem | States |
|---|---|
| `TypesAreKept` | `TypeOK` is an invariant |
| `ActedWithinBoundsHolds` | `ActedWithinBounds` is an invariant |
| `RefusedForCauseHolds` | `RefusedForCause` is an invariant |
| `CheqdSchemasAreListed` | `CheqdSchemasListed` is an invariant |

Its assumptions: calls have their types, an offer that a holder accepts names a DID, a
definition names a schema, and no offer is of an empty presentation (`GateCalls`); no
schema is of both kinds (`GateSchemas`); bounds are numbers and `None` is no value. The run
covers one request at a time; the proof covers any number of them, which meet in the
registry, in the definitions and in the offers. `Watched` carries it: what holds
of the registry while a request runs is in the request's history already, so that an answer
of the registry need only be true at the instant when it is given. `Asked` says that what is
looked up is the DID or the name of the tenant that the request is about. For a name
this is not stable, because a wallet may be relabelled between the reading of its label
and the look-up; but no step both labels a wallet and writes its actor (`ChangeMoves`), so
that the label differs from the name of the actor before the change or after it, and that
has been seen to speak against the request (`lapsed`). `RefusedForCause` needs just that,
and that names and DIDs are unique (`Registered`), which `ActorRegistry` is proved to keep;
the refusals of `OwnDidFails` are its exception, and the proof treats that step apart.
No order of the two writes of an update is assumed. `Passed` remembers the gates behind
each request, and `CheqdStays` that a `did:cheqd` schema once seen listed still is;
`CheqdSchemasListed` is the two together.

Only model-checked: liveness (`EveryRequestAnswered`, `EndsAndReleases`, `EveryRequestEnds`),
which is out of the prover's reach.

## 5. Not modelled

The read-only routes of the gateway, authentication and roles, the conversions of
credentials and presentations, connections, messaging, JSON-LD, JWS and SD-JWS keep no
state and make one call each. The invitations are left out of `Tenants` (they are in
`ActorRegistry`), as are groups and extra settings. NATS life cycle callbacks choose log
levels. Migrations run before any request. `PROJECT.json` gives the reason for each
component that has no module.

## 6. Plan

Every safety property that a passing run checks is proved. What would come next, the most
important first:

1. The wider limits of the registry: the 1000 rows of `get_actors` and `get_schemas`.
2. Groups and extra settings of tenants, which the trust registry does not know.
3. The connections between issuer and holder, from which the gates of `TrustGates` take the
   labels and keys that they look up.
