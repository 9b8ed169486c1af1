------------------------------ MODULE Tenants ------------------------------
(***************************************************************************)
(* The tenant administration of the API gateway: create, update and delete *)
(* of a tenant (app/routes/admin/tenants.py) with the onboarding they run  *)
(* (app/services/onboarding).  Each is a chain of calls to two services    *)
(* that share nothing: the ACA-Py multitenant agent, which keeps the       *)
(* wallets, and the trust registry, which keeps the actors.  Between two   *)
(* calls of one request any other request may run; a call may fail, before *)
(* or after it took effect, and the gateway may crash between two calls.   *)
(*                                                                         *)
(* A trust registry call is one atomic step: that is what AtomicRegistry   *)
(* promises and ActorRegistry is proved to keep.  DIDs and invitations are *)
(* made fresh by the agent, so that only names can clash.  The DIDs a      *)
(* wallet creates are numbered; 0 stands for the key of an invitation, and *)
(* for a wallet that has no public DID.                                    *)
(***************************************************************************)
EXTENDS Integers, FiniteSets

CONSTANTS
  Request,    \* admin requests
  Wallet,     \* the wallet ids the agent hands out; also the actor ids
  Label,      \* wallet labels; the label of an actor is its name
  None,
  Calls,      \* what a request may ask
  MaxFaults   \* bound: failing calls and crashes in one behaviour

Role == {"issuer", "verifier"}

Actor == [name : Label, roles : SUBSET Role, did : Nat]

\* did is the public DID of the wallet, made counts the DIDs it has created.
WalletRecord == [label : Label, did : Nat, made : Nat]

Call ==
  [op : {"create"}, label : Label, roles : SUBSET Role]
  \cup [op : {"delete"}, wallet : Wallet]
  \cup [op : {"update"}, wallet : Wallet, label : Label \cup {None},
        roles : SUBSET Role, image : BOOLEAN]

ASSUME TenantCalls == Calls \subseteq Call
ASSUME TenantFaults == MaxFaults \in Nat
ASSUME TenantNone ==
  None \notin Wallet \cup Label \cup Actor \cup WalletRecord \cup Call
              \cup {"ok", "refused", "error"}

VARIABLES
  wallets,   \* the agent's wallets
  actors,    \* the registry's actors
  born,      \* ids the agent has handed out
  pc,        \* the next call of each request
  call,      \* what each request asks
  target,    \* the wallet each request works on
  draft,     \* the actor each request has read or is building
  status,    \* the answer of each request
  faults,    \* failing calls and crashes so far
  faulted,   \* and which service or part they hit
  early      \* history: deletes that found a wallet whose create was still running

store == <<wallets, actors, born>>
local == <<pc, call, target, draft, status>>
blame == <<faults, faulted>>
vars  == <<wallets, actors, born, pc, call, target, draft, status, faults, faulted, early>>

Steps == {"idle", "checkName", "createWallet", "readPublicDid", "createDid", "invite",
          "register", "undo", "getWallet", "fetchActor", "removeActor", "deleteWallet",
          "getToken", "putActor", "updateWallet", "done"}

TypeOK ==
  /\ wallets \in [Wallet -> WalletRecord \cup {None}]
  /\ actors  \in [Wallet -> Actor \cup {None}]
  /\ born    \in SUBSET Wallet
  /\ pc      \in [Request -> Steps]
  /\ call    \in [Request -> Calls \cup {None}]
  /\ target  \in [Request -> Wallet \cup {None}]
  /\ draft   \in [Request -> Actor \cup {None}]
  /\ status  \in [Request -> {"ok", "refused", "error", None}]
  /\ faults  \in 0 .. MaxFaults
  /\ faulted \in SUBSET {"agent", "registry", "crash"}
  /\ early   \in SUBSET Request

Init ==
  /\ wallets = [w \in Wallet |-> None]
  /\ actors  = [w \in Wallet |-> None]
  /\ born    = {}
  /\ pc      = [r \in Request |-> "idle"]
  /\ call    = [r \in Request |-> None]
  /\ target  = [r \in Request |-> None]
  /\ draft   = [r \in Request |-> None]
  /\ status  = [r \in Request |-> None]
  /\ faults  = 0
  /\ faulted = {}
  /\ early   = {}

-----------------------------------------------------------------------------
Goto(r, step) == pc' = [pc EXCEPT ![r] = step] /\ UNCHANGED status

Answer(r, s) == pc' = [pc EXCEPT ![r] = "done"] /\ status' = [status EXCEPT ![r] = s]

\* One more failure, of that service; the other variables are up to the action.
Blame(part) ==
  /\ faults < MaxFaults
  /\ faults' = faults + 1
  /\ faulted' = faulted \cup {part}

\* The unique index on the names, seen from outside the registry.
NameTaken(name, w) == \E v \in Wallet \ {w} : actors[v] # None /\ actors[v].name = name

BeingCreated(w) ==
  \E q \in Request : /\ pc[q] \notin {"idle", "done"}
                    /\ call[q].op = "create"
                    /\ target[q] = w

Start(r, c) ==
  /\ pc[r] = "idle"
  /\ call' = [call EXCEPT ![r] = c]
  /\ target' = [target EXCEPT ![r] = IF c.op = "create" THEN None ELSE c.wallet]
  /\ Goto(r, IF c.op = "create" THEN "checkName" ELSE "getWallet")
  /\ UNCHANGED <<store, draft, blame, early>>

-----------------------------------------------------------------------------
(* create_tenant                                                           *)

\* assert_actor_name: the label may not be the name of an actor.
CheckName(r) ==
  /\ pc[r] = "checkName"
  /\ IF \E w \in Wallet : actors[w] # None /\ actors[w].name = call[r].label
       THEN Answer(r, "refused")
       ELSE Goto(r, "createWallet")
  /\ UNCHANGED <<store, call, target, draft, blame, early>>

NewWallet(w, label) ==
  /\ w \notin born
  /\ born' = born \cup {w}
  /\ wallets' = [wallets EXCEPT ![w] = [label |-> label, did |-> 0, made |-> 0]]

\* The agent makes a wallet under an id of its own. A holder is done with that.
CreateWallet(r) ==
  /\ pc[r] = "createWallet"
  /\ \E w \in Wallet : /\ NewWallet(w, call[r].label)
                       /\ target' = [target EXCEPT ![r] = w]
  /\ IF call[r].roles = {} THEN Answer(r, "ok") ELSE Goto(r, "readPublicDid")
  /\ UNCHANGED <<actors, call, draft, blame, early>>

\* The agent refuses the wallet, for a wallet name that exists already.
RefuseWallet(r) ==
  /\ pc[r] = "createWallet"
  /\ Answer(r, "refused")
  /\ UNCHANGED <<store, call, target, draft, blame, early>>

-----------------------------------------------------------------------------
(* onboard_tenant, for a create and for an update that adds roles: look up *)
(* the public DID; create one if an issuer has none; create an invitation, *)
(* unless it is for a verifier that has a public DID.  The issuer branch   *)
(* comes first.                                                            *)

Added(c, actor) == c.roles \ actor.roles

RolesToOnboard(r) ==
  IF call[r].op = "create" THEN call[r].roles ELSE Added(call[r], draft[r])

\* Faulty variant: the verifier branch comes first.
OnboardsVerifierFirst(r) == "verifier" \notin RolesToOnboard(r)

OnboardsIssuer(r) == "issuer" \in RolesToOnboard(r)

\* Faulty variant: the name is set whether or not there is a new label.
RenamedAlways(c, actor) == [actor EXCEPT !.name = c.label]

Renamed(c, actor) == IF c.label = None THEN actor ELSE [actor EXCEPT !.name = c.label]

\* Faulty variant: the requested roles replace those the actor has.
PromotedOnly(c, actor, did) ==
  [Renamed(c, actor) EXCEPT !.roles = c.roles \ @, !.did = did]

\* The actor an update writes back: the copy that was read some calls ago, with
\* the new name, the union of the roles, and the DID of the onboarding.
Promoted(c, actor, did) ==
  [Renamed(c, actor) EXCEPT !.roles = c.roles \cup @, !.did = did]

\* The actor a create registers.
Created(c, did) == [name |-> c.label, roles |-> c.roles, did |-> did]

\* The onboarding has found this DID and goes on with this call.
Onboarded(r, did, step) ==
  /\ draft' = [draft EXCEPT ![r] = IF call[r].op = "create" THEN Created(call[r], did)
                                   ELSE Promoted(call[r], draft[r], did)]
  /\ Goto(r, step)

\* The step after the onboarding.
WriteActor(r) == IF call[r].op = "create" THEN "register" ELSE "putActor"

\* A create that fails once it has a wallet deletes the wallet; an update just fails.
GiveUp(r) == IF call[r].op = "create" THEN Goto(r, "undo") ELSE Answer(r, "error")

NoPublicDid(r) ==
  IF OnboardsIssuer(r) THEN Goto(r, "createDid") /\ UNCHANGED draft
  ELSE Onboarded(r, 0, "invite")

\* get_public_did; of a wallet that has gone it fails, which counts as "has none".
ReadPublicDid(r) ==
  LET w == target[r] IN
  /\ pc[r] = "readPublicDid"
  /\ IF wallets[w] = None \/ wallets[w].did = 0 THEN NoPublicDid(r)
     ELSE Onboarded(r, wallets[w].did,
                    IF OnboardsIssuer(r) THEN "invite" ELSE WriteActor(r))
  /\ UNCHANGED <<store, call, target, blame, early>>

\* Any other failure of get_public_did counts as "has none", too.
MissPublicDid(r) ==
  /\ pc[r] = "readPublicDid"
  /\ NoPublicDid(r)
  /\ Blame("agent")
  /\ UNCHANGED <<store, call, target, early>>

\* The agent creates a DID. Which one is public afterwards, if there was one by
\* then, is the agent's choice.
NewDid(w) ==
  LET n == wallets[w].made + 1 IN
  \E did \in {n, wallets[w].did} \ {0} :
    wallets' = [wallets EXCEPT ![w].made = n, ![w].did = did]

CreateDid(r) ==
  LET w == target[r] IN
  /\ pc[r] = "createDid"
  /\ IF wallets[w] = None
       THEN GiveUp(r) /\ UNCHANGED <<wallets, draft>>
       ELSE NewDid(w) /\ Onboarded(r, wallets[w].made + 1, "invite")
  /\ UNCHANGED <<actors, born, call, target, blame, early>>

\* create_invitation, whose key is the DID of a verifier without a public one.
Invite(r) ==
  /\ pc[r] = "invite"
  /\ IF wallets[target[r]] = None THEN GiveUp(r) ELSE Goto(r, WriteActor(r))
  /\ UNCHANGED <<store, call, target, draft, blame, early>>

-----------------------------------------------------------------------------
(* create_tenant, after the onboarding                                     *)

\* Faulty variant: a conflict is raised without deleting the stray wallet.
RegisterOrLeave(r) ==
  LET w == target[r] IN
  /\ pc[r] = "register"
  /\ IF actors[w] # None \/ NameTaken(draft[r].name, w)
       THEN Answer(r, "error") /\ UNCHANGED actors
       ELSE /\ actors' = [actors EXCEPT ![w] = draft[r]]
            /\ Answer(r, "ok")
  /\ UNCHANGED <<wallets, born, call, target, draft, blame, early>>

\* Faulty variant: a conflict is only logged, and the create succeeds.
RegisterOrIgnore(r) ==
  LET w == target[r] IN
  /\ pc[r] = "register"
  /\ actors' = IF actors[w] # None \/ NameTaken(draft[r].name, w) THEN actors
               ELSE [actors EXCEPT ![w] = draft[r]]
  /\ Answer(r, "ok")
  /\ UNCHANGED <<wallets, born, call, target, draft, blame, early>>

\* register_actor: a name that was taken since CheckName is a conflict.
Register(r) ==
  LET w == target[r] IN
  /\ pc[r] = "register"
  /\ IF actors[w] # None \/ NameTaken(draft[r].name, w)
       THEN Goto(r, "undo") /\ UNCHANGED actors
       ELSE /\ actors' = [actors EXCEPT ![w] = draft[r]]
            /\ Answer(r, "ok")
  /\ UNCHANGED <<wallets, born, call, target, draft, blame, early>>

\* The compensation: delete the stray wallet and raise the error.
Undo(r) ==
  /\ pc[r] = "undo"
  /\ wallets' = [wallets EXCEPT ![target[r]] = None]
  /\ Answer(r, "error")
  /\ UNCHANGED <<actors, born, call, target, draft, blame, early>>

-----------------------------------------------------------------------------
(* delete_tenant_by_id and update_tenant                                   *)

\* get_wallet_and_assert_valid_group
GetWallet(r) ==
  /\ pc[r] = "getWallet"
  /\ IF wallets[target[r]] = None THEN Answer(r, "refused") ELSE Goto(r, "fetchActor")
  /\ early' = IF call[r].op = "delete" /\ wallets[target[r]] # None /\ BeingCreated(target[r])
                THEN early \cup {r} ELSE early
  /\ UNCHANGED <<store, call, target, draft, blame>>

\* fetch_actor_by_id, and what either handler decides on it.
FetchActor(r) ==
  LET actor == actors[target[r]]
      c == call[r]
  IN
  /\ pc[r] = "fetchActor"
  /\ IF c.op = "delete"
       THEN /\ Goto(r, IF actor = None THEN "deleteWallet" ELSE "removeActor")
            /\ UNCHANGED draft
       ELSE IF actor = None
       THEN /\ IF c.roles # {} THEN Answer(r, "refused") ELSE Goto(r, "updateWallet")
            /\ UNCHANGED draft
       ELSE IF Added(c, actor) # {}
       THEN /\ draft' = [draft EXCEPT ![r] = actor]
            /\ Goto(r, "getToken")
       ELSE /\ draft' = [draft EXCEPT ![r] = Renamed(c, actor)]
            /\ Goto(r, IF c.label # None \/ c.image THEN "putActor" ELSE "updateWallet")
  /\ UNCHANGED <<store, call, target, blame, early>>

\* get_auth_token: the update poses as the tenant to onboard it.
GetToken(r) ==
  /\ pc[r] = "getToken"
  /\ IF wallets[target[r]] = None THEN Answer(r, "refused") ELSE Goto(r, "readPublicDid")
  /\ UNCHANGED <<store, call, target, draft, blame, early>>

\* Faulty variant: the registry is not asked to remove the actor at all.
RemoveNothing(r) ==
  /\ pc[r] = "removeActor"
  /\ Goto(r, "deleteWallet")
  /\ UNCHANGED <<store, call, target, draft, blame, early>>

\* remove_actor_by_id: an actor that is gone already is fine.
RemoveActor(r) ==
  /\ pc[r] = "removeActor"
  /\ actors' = [actors EXCEPT ![target[r]] = None]
  /\ Goto(r, "deleteWallet")
  /\ UNCHANGED <<wallets, born, call, target, draft, blame, early>>

DeleteWallet(r) ==
  /\ pc[r] = "deleteWallet"
  /\ wallets' = [wallets EXCEPT ![target[r]] = None]
  /\ Answer(r, IF wallets[target[r]] = None THEN "refused" ELSE "ok")
  /\ UNCHANGED <<actors, born, call, target, draft, blame, early>>

\* Faulty variant: the PUT creates the row when it is not there.
PutActorUpsert(r) ==
  LET w == target[r] IN
  /\ pc[r] = "putActor"
  /\ IF NameTaken(draft[r].name, w)
       THEN Answer(r, "error") /\ UNCHANGED actors
       ELSE /\ actors' = [actors EXCEPT ![w] = draft[r]]
            /\ Goto(r, "updateWallet")
  /\ UNCHANGED <<wallets, born, call, target, draft, blame, early>>

\* update_actor: the PUT replaces the whole row, if there still is one.
PutActor(r) ==
  LET w == target[r] IN
  /\ pc[r] = "putActor"
  /\ IF actors[w] = None \/ NameTaken(draft[r].name, w)
       THEN Answer(r, "error") /\ UNCHANGED actors
       ELSE /\ actors' = [actors EXCEPT ![w] = draft[r]]
            /\ Goto(r, "updateWallet")
  /\ UNCHANGED <<wallets, born, call, target, draft, blame, early>>

UpdateWallet(r) ==
  LET w == target[r] IN
  /\ pc[r] = "updateWallet"
  /\ IF wallets[w] = None
       THEN Answer(r, "refused") /\ UNCHANGED wallets
       ELSE /\ wallets' = [wallets EXCEPT ![w].label =
                             IF call[r].label = None THEN @ ELSE call[r].label]
            /\ Answer(r, "ok")
  /\ UNCHANGED <<actors, born, call, target, draft, blame, early>>

-----------------------------------------------------------------------------
(* Failures                                                                *)

AgentSteps    == {"createWallet", "createDid", "invite", "undo", "getWallet",
                  "getToken", "deleteWallet", "updateWallet"}
RegistrySteps == {"checkName", "register", "fetchActor", "removeActor", "putActor"}

\* A failed call makes a create that has a wallet compensate, and ends the rest.
FailedCall(r) ==
  IF pc[r] \in {"createDid", "invite", "register"} THEN GiveUp(r) ELSE Answer(r, "error")

\* The call fails and has done nothing.
CallFails(r) ==
  /\ pc[r] \in AgentSteps \cup RegistrySteps
  /\ FailedCall(r)
  /\ Blame(IF pc[r] \in AgentSteps THEN "agent" ELSE "registry")
  /\ UNCHANGED <<store, call, target, draft, early>>

\* The call takes effect, but its answer is an error or never comes.
AgentAnswerLost(r) ==
  LET w == target[r] IN
  /\ \/ /\ pc[r] = "createWallet"
        /\ \E v \in Wallet : NewWallet(v, call[r].label)
     \/ /\ pc[r] = "createDid" /\ wallets[w] # None /\ UNCHANGED born
        /\ NewDid(w)
     \/ /\ pc[r] \in {"undo", "deleteWallet"} /\ UNCHANGED born
        /\ wallets' = [wallets EXCEPT ![w] = None]
     \/ /\ pc[r] = "updateWallet" /\ wallets[w] # None /\ UNCHANGED born
        /\ wallets' = [wallets EXCEPT ![w].label =
                         IF call[r].label = None THEN @ ELSE call[r].label]
  /\ FailedCall(r)
  /\ Blame("agent")
  /\ UNCHANGED <<actors, call, target, draft, early>>

RegistryAnswerLost(r) ==
  LET w == target[r] IN
  /\ \/ /\ pc[r] = "register" /\ actors[w] = None /\ ~NameTaken(draft[r].name, w)
        /\ actors' = [actors EXCEPT ![w] = draft[r]]
     \/ /\ pc[r] = "removeActor"
        /\ actors' = [actors EXCEPT ![w] = None]
     \/ /\ pc[r] = "putActor" /\ actors[w] # None /\ ~NameTaken(draft[r].name, w)
        /\ actors' = [actors EXCEPT ![w] = draft[r]]
  /\ FailedCall(r)
  /\ Blame("registry")
  /\ UNCHANGED <<wallets, born, call, target, draft, early>>

\* The process that serves the request goes down: it is never continued and never
\* answered. The gateway runs as several processes; the others go on.
Crash(r) ==
  /\ pc[r] \notin {"idle", "done"}
  /\ pc' = [pc EXCEPT ![r] = "done"]
  /\ Blame("crash")
  /\ UNCHANGED <<store, call, target, draft, status, early>>

-----------------------------------------------------------------------------
Handler(r) ==
  \/ CheckName(r) \/ CreateWallet(r) \/ RefuseWallet(r) \/ Register(r) \/ Undo(r)
  \/ ReadPublicDid(r) \/ CreateDid(r) \/ Invite(r)
  \/ GetWallet(r) \/ FetchActor(r) \/ RemoveActor(r) \/ DeleteWallet(r)
  \/ GetToken(r) \/ PutActor(r) \/ UpdateWallet(r)

Failure(r) ==
  \/ MissPublicDid(r) \/ CallFails(r) \/ AgentAnswerLost(r)
  \/ RegistryAnswerLost(r) \/ Crash(r)

Finished == (\A r \in Request : pc[r] = "done") /\ UNCHANGED vars

Next ==
  \/ \E r \in Request :
       \/ \E c \in Calls : Start(r, c)
       \/ Handler(r)
       \/ Failure(r)
  \/ Finished

Spec == Init /\ [][Next]_vars

FairSpec == Spec /\ \A r \in Request : WF_vars(Handler(r))

-----------------------------------------------------------------------------
(* Correctness.                                                            *)

\* The roles a tenant was created with are never taken from it, not even by
\* two updates that write back stale copies of the actor.
InitialRolesKept ==
  \A r \in Request :
    pc[r] # "idle" /\ call[r].op = "create" =>
      \A w \in Wallet \cap {target[r]} :
        actors[w] # None => call[r].roles \subseteq actors[w].roles

\* A create that did not succeed has left no wallet behind, unless the agent
\* itself failed or the gateway crashed: a failing or lost registration, or a
\* label taken by a rival create in the meantime, is always compensated.
NoStrayWallet ==
  \A r \in Request :
    pc[r] = "done" /\ call[r].op = "create" /\ status[r] # "ok" =>
      \A w \in Wallet \cap {target[r]} :
        wallets[w] = None \/ faulted \cap {"agent", "crash"} # {}

\* A create with roles that succeeded has its actor in the registry and its
\* wallet at the agent, until somebody asks to delete the tenant.
CreatedIsRegistered ==
  \A r \in Request :
    status[r] = "ok" /\ call[r].op = "create" /\ call[r].roles # {} =>
      \/ actors[target[r]] # None /\ wallets[target[r]] # None
      \/ \E q \in Request : pc[q] # "idle" /\ call[q].op = "delete"
                            /\ target[q] = target[r]

\* A delete that succeeded, of a tenant whose create had ended when it found the
\* wallet, leaves no actor in the registry then or ever after: no update in
\* flight, with the actor in its hands, brings the row back.
DeletedIsGone ==
  \A r \in Request \ early :
    status[r] = "ok" /\ call[r].op = "delete" => actors[target[r]] = None

\* An actor without a wallet can only come from a registration whose answer was
\* lost, or from a delete that found the wallet while its create was running.
NoOrphanActor ==
  \A w \in Wallet :
    actors[w] # None /\ wallets[w] = None =>
      "registry" \in faulted \/ \E r \in early : target[r] = w

\* The issuance gate looks the issuer up by the public DID of its wallet. It finds
\* the actor of every issuer in the registry, whatever promotions, renames and
\* deletes interleave, as long as the agent does not fail and no two promotions
\* have both found the wallet without a public DID and created one.
IssuerIsFound ==
  \A w \in Wallet :
    /\ "agent" \notin faulted
    /\ wallets[w] # None /\ wallets[w].made <= 1
    /\ actors[w] # None /\ "issuer" \in actors[w].roles
    => actors[w].did = wallets[w].did /\ actors[w].did # 0

\* The documentation of update_tenant: it does not support revoking roles.
RolesNeverRevoked ==
  [][\A w \in Wallet : actors[w] # None /\ actors'[w] # None
                         => actors[w].roles \subseteq actors'[w].roles]_vars
=============================================================================
