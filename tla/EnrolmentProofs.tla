--------------------------- MODULE EnrolmentProofs ---------------------------
(***************************************************************************)
(* What Tenants hands on to the gates of TrustGates, for every instance.   *)
(* TrustGates knows nothing of wallets and onboarding: other requests      *)
(* register an actor, replace its row or withdraw it, and a replaced row   *)
(* shares a role with its predecessor.  That this is all the tenant        *)
(* administration ever does to a row, however its requests race and fail,  *)
(* is proved here.                                                         *)
(***************************************************************************)
EXTENDS TenantsProofs

\* A create with roles works on the wallet, or has worked on it.
Enrols(q, w) == Creates(q) /\ target[q] = w /\ call[q].roles # {}

\* Only a tenant that was created with roles is onboarded, held by a request or listed.
Enrolled ==
  /\ \A r \in Request : Pending(r) => call[r].roles # {}
  /\ \A r \in Request : HasDraft(r) => \E q \in Request : Enrols(q, target[r])
  /\ \A w \in Wallet : actors[w] # None => \E q \in Request : Enrols(q, w)

\* A row stays, goes, or is written; a written one is alone in the step, has a name
\* that no other actor has, and a role that the row before it had.
HandedOn(w) ==
  \/ actors'[w] = actors[w]
  \/ actors'[w] = None
  \/ /\ actors'[w].roles # {}
     /\ actors[w] # None => actors[w].roles \cap actors'[w].roles # {}
     /\ \A v \in Wallet \ {w} :
          /\ actors'[v] = actors[v]
          /\ actors[v] # None => actors[v].name # actors'[w].name

\* No two actors have the same name.
NamesApart ==
  \A v, w \in Wallet : actors[v] # None /\ actors[w] # None /\ v # w
    => actors[v].name # actors[w].name

-----------------------------------------------------------------------------
(* What the steps do, beyond the moves of TenantsProofs.                   *)

\* Only a create with roles goes on to the onboarding.
LEMMA OnboardsRoles ==
  ASSUME NEW r \in Request, TypeOK, Shape(r), StepOf(r),
         pc[r] = "createWallet", pc'[r] # "done"
  PROVE  call[r].roles # {}
<1>1. pc \in [Request -> Steps]
  BY DEF TypeOK
<1>2. ~FailedCall(r)
  BY <1>1 DEF FailedCall, Answer
<1>3. CreateWallet(r)
  BY <1>1, <1>2 DEF StepOf, Handler, Failure, Start, CheckName, RefuseWallet, Answer, Register,
     Undo, ReadPublicDid, CreateDid, Invite, GetWallet, FetchActor, RemoveActor, DeleteWallet,
     GetToken, PutActor, UpdateWallet, MissPublicDid, CallFails, AgentAnswerLost,
     RegistryAnswerLost, Crash
<1>. QED
  BY <1>1, <1>3 DEF CreateWallet, Answer

\* A row is written by a registration or a PUT: the draft of the request, and no other row.
LEMMA RowWritten ==
  ASSUME NEW r \in Request, NEW w \in Wallet, TypeOK, Shape(r), StepOf(r),
         actors'[w] # actors[w], actors'[w] # None
  PROVE  /\ HasDraft(r) /\ target[r] = w /\ actors'[w] = draft[r]
         /\ ~NameTaken(draft[r].name, w)
         /\ \A v \in Wallet \ {w} : actors'[v] = actors[v]
<1>1. ActorMove(r, w) /\ actors \in [Wallet -> Actor \cup {None}]
  BY ActorMoves DEF TypeOK
<1>2. /\ pc[r] \in {"register", "putActor"} /\ target[r] = w /\ actors'[w] = draft[r]
  BY <1>1 DEF ActorMove
<1>3. Register(r) \/ PutActor(r) \/ RegistryAnswerLost(r)
  BY <1>2 DEF StepOf, Handler, Failure, Start, CheckName, CreateWallet, RefuseWallet, Undo,
     ReadPublicDid, CreateDid, Invite, GetWallet, FetchActor, RemoveActor, DeleteWallet,
     GetToken, UpdateWallet, MissPublicDid, CallFails, AgentAnswerLost, Crash, store
<1>4. ~NameTaken(draft[r].name, w) /\ actors' = [actors EXCEPT ![w] = draft[r]]
  <2>1. CASE Register(r)
    BY <1>2, <2>1 DEF Register
  <2>2. CASE PutActor(r)
    BY <1>2, <2>2 DEF PutActor
  <2>3. CASE RegistryAnswerLost(r)
    BY <1>2, <2>3 DEF RegistryAnswerLost
  <2>. QED
    BY <1>3, <2>1, <2>2, <2>3
<1>. QED
  BY <1>1, <1>2, <1>4 DEF HasDraft

\* A create that enrols a tenant goes on being one.
LEMMA EnrolsKept ==
  ASSUME NEW r \in Request, NEW q \in Request, NEW w \in Wallet, Shapes, Moves(r), Enrols(q, w)
  PROVE  Enrols(q, w)'
<1>1. Creates(q) /\ target[q] = w /\ call[q].roles # {} /\ Started(q) /\ w # None
  BY TenantNone DEF Enrols, Creates
<1>2. Started(q)' /\ call'[q] = call[q]
  BY <1>1, RequestKept
<1>3. target'[q] = target[q]
  BY <1>1, RequestKept DEF Shapes, Shape
<1>. QED
  BY <1>1, <1>2, <1>3 DEF Enrols, Creates

\* Every step keeps Enrolled.
LEMMA EnrolledStep ==
  ASSUME NEW r \in Request, TypeOK, Shapes, Stores, StepOf(r), Enrolled
  PROVE  Enrolled'
<1>1. Moves(r) /\ Shapes' /\ Shape(r) /\ OthersStay(r) /\ TargetMove(r) /\ RouteMove(r)
  BY StepMoves DEF Moves, Shapes
<1>2. ASSUME NEW q \in Request, Pending(q)'
      PROVE  call'[q].roles # {}
  <2>1. CASE q # r
    BY <1>1, <1>2, <2>1 DEF OthersStay, Pending, Creates, Started, Enrolled
  <2>2. CASE q = r /\ pc[r] = "createWallet"
    <3>1. call'[r] = call[r]
      BY <1>1, <2>2 DEF TargetMove
    <3>2. pc'[r] # "done"
      BY <1>2, <2>2 DEF Pending
    <3>. QED
      BY <1>1, <2>2, <3>1, <3>2, OnboardsRoles
  <2>3. CASE q = r /\ pc[r] # "createWallet"
    <3>1. /\ pc[r] \in {"readPublicDid", "createDid", "invite", "getToken"}
          /\ call'[r] = call[r] /\ call[r].op = "create"
      BY <1>1, <1>2, <2>3 DEF Moves, ControlMove, TargetMove, Pending, Creates
    <3>2. Pending(r)
      BY <1>1, <3>1 DEF Shape, Pending, Creates, Started
    <3>. QED
      BY <2>3, <3>1, <3>2 DEF Enrolled
  <2>. QED
    BY <2>1, <2>2, <2>3
<1>3. ASSUME NEW q \in Request, HasDraft(q)'
      PROVE  \E p \in Request : Enrols(p, target[q])'
  <2>1. \E p \in Request : Enrols(p, target'[q])
    <3>1. CASE q # r
      BY <1>1, <1>3, <3>1 DEF OthersStay, HasDraft, Enrolled
    <3>2. CASE q = r
      <4>1. target'[r] = target[r] /\ call'[r] = call[r]
        BY <1>1, <1>3, <3>2 DEF TargetMove, HasDraft, RouteMove, Shape
      <4>2. CASE HasDraft(r)
        BY <3>2, <4>1, <4>2 DEF Enrolled
      <4>3. CASE pc[r] = "fetchActor" /\ actors[target[r]] # None
        <5>1. target[r] \in Wallet
          BY <1>1, <4>3 DEF Shape, Running
        <5>. QED
          BY <3>2, <4>1, <4>3, <5>1 DEF Enrolled
      <4>4. CASE pc[r] \in {"readPublicDid", "createDid"} /\ ~HasDraft(r)
        <5>1. Pending(r)
          BY <1>1, <4>4 DEF Shape, HasDraft, Pending, Creates, Started
        <5>2. Enrols(r, target[r])
          BY <5>1 DEF Enrolled, Enrols, Pending
        <5>. QED
          BY <3>2, <4>1, <5>2
      <4>. QED
        BY <1>1, <1>3, <3>2, <4>2, <4>3, <4>4 DEF Moves, DraftMove
    <3>. QED
      BY <3>1, <3>2
  <2>2. target'[q] \in Wallet
    BY <1>1, <1>3 DEF Shapes, Shape, HasDraft, Running
  <2>3. PICK w \in Wallet : w = target'[q]
    BY <2>2
  <2>4. PICK p \in Request : Enrols(p, w)
    BY <2>1, <2>3
  <2>5. Enrols(p, w)'
    BY <1>1, <2>4, EnrolsKept
  <2>. QED
    BY <2>3, <2>5 DEF Enrols
<1>4. ASSUME NEW w \in Wallet, actors'[w] # None
      PROVE  \E p \in Request : Enrols(p, w)'
  <2>1. \E p \in Request : Enrols(p, w)
    <3>1. CASE actors'[w] = actors[w]
      BY <1>4, <3>1 DEF Enrolled
    <3>2. CASE actors'[w] # actors[w]
      BY <1>1, <1>4, <3>2, RowWritten DEF Enrolled
    <3>. QED
      BY <3>1, <3>2
  <2>. QED
    BY <1>1, <2>1, EnrolsKept
<1>. QED
  BY <1>2, <1>3, <1>4 DEF Enrolled

\* Every step hands the rows on: what is written has the roles of the create.
LEMMA HandsOn ==
  ASSUME NEW r \in Request, NEW w \in Wallet, Inv, Enrolled, StepOf(r)
  PROVE  HandedOn(w)
<1>1. SUFFICES ASSUME actors'[w] # actors[w], actors'[w] # None
               PROVE  HandedOn(w)
  BY DEF HandedOn
<1>2. /\ HasDraft(r) /\ target[r] = w /\ actors'[w] = draft[r]
      /\ ~NameTaken(draft[r].name, w)
      /\ \A v \in Wallet \ {w} : actors'[v] = actors[v]
  BY <1>1, RowWritten DEF Inv, Shapes
<1>3. PICK q \in Request : Enrols(q, w)
  BY <1>2 DEF Enrolled
<1>4. Creates(q) /\ target[q] = w /\ call[q].roles # {}
  BY <1>3 DEF Enrols
<1>5. call[q].roles \subseteq draft[r].roles
  BY <1>2, <1>4 DEF Inv, DraftsKeepRoles
<1>6. actors[w] # None => call[q].roles \subseteq actors[w].roles
  BY <1>4 DEF Inv, InitialRolesKept, Creates, Started
<1>7. \A v \in Wallet \ {w} : actors[v] # None => actors[v].name # actors'[w].name
  BY <1>2 DEF NameTaken
<1>. QED
  BY <1>2, <1>4, <1>5, <1>6, <1>7 DEF HandedOn

-----------------------------------------------------------------------------
(* The theorems.                                                           *)

\* Enrolled holds in every state of every behaviour.
LEMMA EnrolledHolds == Spec => []Enrolled
<1>1. Init => Enrolled
  BY DEF Init, Enrolled, Pending, Creates, Started, HasDraft
<1>2. Inv /\ Enrolled /\ [Next]_vars => Enrolled'
  <2>1. ASSUME Enrolled, UNCHANGED vars
        PROVE  Enrolled'
    BY <2>1 DEF Enrolled, Pending, Creates, Started, HasDraft, Enrols, vars
  <2>2. ASSUME Inv, Enrolled, NEW r \in Request, StepOf(r)
        PROVE  Enrolled'
    BY <2>2, EnrolledStep DEF Inv
  <2>. QED
    BY <2>1, <2>2 DEF Next, Finished, StepOf
<1>. QED
  BY <1>1, <1>2, InvHolds, PTL DEF Spec

\* However creates, updates and deletes of one tenant race and fail (create_tenant,
\* handle_tenant_update, delete_tenant_by_id), a row of the registry is written with at
\* least one role that its predecessor had, never without a role, and under a name that
\* no other actor has: what TrustGates takes the steps of other requests to be.
THEOREM RowsAreHandedOn == Spec => [][\A w \in Wallet : HandedOn(w)]_vars
<1>1. Inv /\ Enrolled /\ [Next]_vars => [\A w \in Wallet : HandedOn(w)]_vars
  <2>1. ASSUME Inv, Enrolled, NEW r \in Request, StepOf(r)
        PROVE  \A w \in Wallet : HandedOn(w)
    BY <2>1, HandsOn
  <2>. QED
    BY <2>1 DEF Next, Finished, StepOf
<1>. QED
  BY <1>1, InvHolds, EnrolledHolds, PTL DEF Spec

\* The name of a tenant is taken once: CheckName looks long before Register or PutActor
\* writes, yet no two actors ever have the same name.
THEOREM NamesAreApart == Spec => []NamesApart
<1>1. Init => NamesApart
  BY DEF Init, NamesApart
<1>2. NamesApart /\ [\A w \in Wallet : HandedOn(w)]_vars => NamesApart'
  <2>1. ASSUME NamesApart, UNCHANGED vars
        PROVE  NamesApart'
    BY <2>1 DEF NamesApart, vars
  <2>2. ASSUME NamesApart, \A w \in Wallet : HandedOn(w),
               NEW v \in Wallet, NEW w \in Wallet, actors'[v] # None, actors'[w] # None, v # w
        PROVE  actors'[v].name # actors'[w].name
    <3>1. HandedOn(v) /\ HandedOn(w)
      BY <2>2
    <3>2. CASE actors'[v] = actors[v] /\ actors'[w] = actors[w]
      BY <2>2, <3>2 DEF NamesApart
    <3>3. CASE actors'[v] # actors[v]
      BY <2>2, <3>1, <3>3 DEF HandedOn
    <3>4. CASE actors'[w] # actors[w]
      BY <2>2, <3>1, <3>4 DEF HandedOn
    <3>. QED
      BY <3>2, <3>3, <3>4
  <2>. QED
    BY <2>1, <2>2 DEF NamesApart
<1>. QED
  BY <1>1, <1>2, RowsAreHandedOn, PTL DEF Spec
=============================================================================
