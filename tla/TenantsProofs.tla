---------------------------- MODULE TenantsProofs ----------------------------
(***************************************************************************)
(* Proofs about Tenants: for every set of requests, wallets, labels and    *)
(* calls, and every number of failures, the wallets of the agent and the   *)
(* actors of the registry keep the relations that the invariants state.    *)
(*                                                                         *)
(* A step of a request is first reduced to its moves: what it may do to    *)
(* the wallets, to the actors and to the draft of the request.  Everything *)
(* else follows from the moves, whatever action made them.                 *)
(***************************************************************************)
EXTENDS Tenants, TLAPS

StepOf(r) == (\E c \in Calls : Start(r, c)) \/ Handler(r) \/ Failure(r)

Started(r) == pc[r] # "idle"
Running(r) == pc[r] \notin {"idle", "done"}
Creates(r) == Started(r) /\ call[r].op = "create"
Deletes(r) == Started(r) /\ call[r].op = "delete"

\* Has the request an actor in its hands, read or built?
HasDraft(r) ==
  \/ pc[r] \in {"invite", "register", "putActor"}
  \/ pc[r] \in {"getToken", "readPublicDid", "createDid"} /\ call[r].op = "update"

\* Each handler makes its own calls, on a wallet that it was asked for or has made.
Shape(r) ==
  /\ pc[r] = "idle" => call[r] = None /\ target[r] = None
  /\ Started(r) => call[r] \in Calls
  /\ pc[r] \in {"checkName", "createWallet", "register", "undo"} => call[r].op = "create"
  /\ pc[r] \in {"removeActor", "deleteWallet"} => call[r].op = "delete"
  /\ pc[r] \in {"getToken", "putActor", "updateWallet"} => call[r].op = "update"
  /\ pc[r] \in {"getWallet", "fetchActor"} => call[r].op \in {"delete", "update"}
  /\ pc[r] \in {"readPublicDid", "createDid", "invite"} => call[r].op \in {"create", "update"}
  /\ pc[r] \in {"checkName", "createWallet"} => target[r] = None
  /\ Running(r) /\ pc[r] \notin {"checkName", "createWallet"} => target[r] \in Wallet
  /\ Started(r) /\ call[r].op # "create" => target[r] = call[r].wallet
  /\ Creates(r) /\ target[r] # None => target[r] \in born
  /\ HasDraft(r) => draft[r] \in Actor /\ target[r] \in born
  /\ pc[r] # "done" => status[r] = None
  /\ Creates(r) /\ status[r] = "ok" => target[r] \in Wallet
  /\ r \in early => Deletes(r)

Shapes == \A r \in Request : Shape(r)

\* Whatever there is of a wallet, the agent has handed out its id; a wallet id is
\* handed out to one create; and the DID of a wallet is one it has created.
Stores ==
  /\ \A w \in Wallet \ born : wallets[w] = None /\ actors[w] = None
  /\ \A w \in Wallet : wallets[w] # None =>
       IF wallets[w].made = 0 THEN wallets[w].did = 0
       ELSE wallets[w].did \in 1 .. wallets[w].made
  /\ \A q, r \in Request : Creates(q) /\ Creates(r) /\ target[q] = target[r] /\ target[q] # None
       => q = r

\* No draft lacks a role that its tenant was created with.
DraftsKeepRoles ==
  \A q, r \in Request :
    Creates(r) /\ HasDraft(q) /\ target[q] = target[r]
      => call[r].roles \subseteq draft[q].roles

\* A delete that found its wallet, with the create of it at an end, works on a
\* wallet that no create will work on any more.
Past(r) == \/ pc[r] \in {"fetchActor", "removeActor", "deleteWallet"}
           \/ status[r] = "ok"

Settled ==
  \A r \in Request \ early :
    Deletes(r) /\ Past(r) =>
      /\ target[r] \in born /\ ~BeingCreated(target[r])
      /\ pc[r] = "deleteWallet" \/ status[r] = "ok" => actors[target[r]] = None

\* A create that has a wallet still has it, unless somebody asked to delete it, and
\* then that delete has seen the create. It has no actor yet, unless an answer was lost.
Pending(r) == Creates(r) /\ pc[r] \in {"readPublicDid", "createDid", "invite", "register"}

Progress ==
  \A r \in Request :
    /\ Pending(r) /\ wallets[target[r]] = None => \E q \in early : target[q] = target[r]
    /\ Creates(r) /\ Running(r) /\ target[r] # None =>
         actors[target[r]] = None \/ "registry" \in faulted

\* If the actor a is an issuer, it has the public DID of the wallet w. (Two
\* promotions at once may create two DIDs, and the agent may fail.)
Known(a, w) ==
  "issuer" \in a.roles /\ "agent" \notin faulted /\ wallets[w] # None /\ wallets[w].made <= 1
    => a.did = 1 /\ wallets[w].made = 1

IssuersKnown ==
  /\ \A w \in Wallet : actors[w] # None => Known(actors[w], w)
  /\ \A r \in Request : HasDraft(r) => Known(draft[r], target[r])

Inv ==
  /\ TypeOK /\ Shapes /\ Stores
  /\ DraftsKeepRoles /\ InitialRolesKept
  /\ Settled /\ NoStrayWallet
  /\ Progress /\ CreatedIsRegistered /\ NoOrphanActor
  /\ IssuersKnown

-----------------------------------------------------------------------------
(* The moves of a step of request r.                                       *)

\* A step of r leaves the other requests alone, and forgets no failure.
OthersStay(r) ==
  /\ \A q \in Request \ {r} :
       /\ pc'[q] = pc[q] /\ call'[q] = call[q] /\ target'[q] = target[q]
       /\ draft'[q] = draft[q] /\ status'[q] = status[q]
  /\ faulted \subseteq faulted' /\ born \subseteq born'
  /\ \/ early' = early
     \/ pc[r] = "getWallet" /\ call[r].op = "delete" /\ early' = early \cup {r}
  /\ pc[r] # "done" /\ pc'[r] # "idle"

ActorMove(r, w) ==
  \/ actors'[w] = actors[w]
  \/ /\ pc[r] = "removeActor" /\ target[r] = w
     /\ actors'[w] = None
  \/ /\ pc[r] = "register" /\ target[r] = w
     /\ actors[w] = None /\ actors'[w] = draft[r]
     /\ status'[r] = "ok" \/ "registry" \in faulted'
  \/ /\ pc[r] = "putActor" /\ target[r] = w
     /\ actors[w] # None /\ actors'[w] = draft[r]

WalletMove(r, w) ==
  \/ wallets'[w] = wallets[w]
  \/ /\ pc[r] = "createWallet" /\ w \in born' \ born
     /\ wallets'[w] \in WalletRecord /\ wallets'[w].made = 0 /\ wallets'[w].did = 0
  \/ /\ pc[r] \in {"undo", "deleteWallet"} /\ target[r] = w
     /\ wallets'[w] = None
  \/ /\ pc[r] = "createDid" /\ target[r] = w /\ wallets[w] # None
     /\ wallets'[w] \in WalletRecord /\ wallets'[w].made = wallets[w].made + 1
     /\ wallets'[w].did \in {wallets[w].made + 1, wallets[w].did} \ {0}
  \/ /\ pc[r] = "updateWallet" /\ target[r] = w /\ wallets[w] # None
     /\ wallets'[w] \in WalletRecord
     /\ wallets'[w].made = wallets[w].made /\ wallets'[w].did = wallets[w].did

TargetMove(r) ==
  \/ /\ pc[r] = "idle" /\ call'[r] \in Calls
     /\ target'[r] = IF call'[r].op = "create" THEN None ELSE call'[r].wallet
     /\ pc'[r] = IF call'[r].op = "create" THEN "checkName" ELSE "getWallet"
  \/ /\ pc[r] = "createWallet" /\ call'[r] = call[r]
     /\ target'[r] \in Wallet \ born /\ target'[r] \in born'
     /\ wallets'[target'[r]] \in WalletRecord
     /\ \/ pc'[r] = "readPublicDid"
        \/ pc'[r] = "done" /\ status'[r] = "ok" /\ call[r].roles = {}
  \/ /\ pc[r] # "idle" /\ call'[r] = call[r] /\ target'[r] = target[r]

\* Where the actor comes from that the request has in its hands after the step.
DraftMove(r) ==
  LET w == target[r] IN
  HasDraft(r)' =>
    /\ draft'[r] \in Actor
    /\ \/ HasDraft(r) /\ draft'[r] = draft[r]
       \/ /\ pc[r] = "fetchActor" /\ actors[w] # None
          /\ draft'[r].roles = actors[w].roles /\ draft'[r].did = actors[w].did
       \/ /\ pc[r] \in {"readPublicDid", "createDid"}
          /\ draft'[r].roles = IF call[r].op = "create" THEN call[r].roles
                               ELSE call[r].roles \cup draft[r].roles
          /\ \/ /\ pc[r] = "createDid" /\ wallets[w] # None
                /\ draft'[r].did # 0
                /\ wallets'[w] # None /\ wallets'[w].made = draft'[r].did
             \/ pc[r] = "readPublicDid" /\ wallets[w] # None /\ draft'[r].did = wallets[w].did
                /\ wallets[w].did # 0
             \/ /\ pc[r] = "readPublicDid"
                /\ "issuer" \notin RolesToOnboard(r)
                /\ wallets[w] = None \/ wallets[w].did = 0 \/ "agent" \in faulted'

\* How the request comes to the places that the invariants speak of.
ControlMove(r) ==
  LET w == target[r] IN
  /\ pc'[r] = "fetchActor" =>
       /\ pc[r] = "getWallet" /\ wallets[w] # None
       /\ call[r].op = "delete" /\ BeingCreated(w) => r \in early'
  /\ pc'[r] = "removeActor" => pc[r] = "fetchActor"
  /\ pc'[r] = "deleteWallet" =>
       \/ pc[r] = "fetchActor" /\ actors[w] = None
       \/ pc[r] = "removeActor" /\ actors'[w] = None
  /\ status'[r] = "ok" =>
       \/ pc[r] \in {"deleteWallet", "updateWallet"}
       \/ pc[r] = "createWallet" /\ call[r].roles = {} /\ target'[r] \in Wallet
       \/ pc[r] = "register" /\ actors'[w] = draft[r]
  /\ pc'[r] \in {"readPublicDid", "createDid", "invite", "register"} =>
       \/ pc[r] \in {"readPublicDid", "createDid", "invite"}
       \/ pc[r] = "createWallet" /\ target'[r] \in Wallet
       \/ pc[r] = "getToken"
  /\ pc'[r] = "undo" => pc[r] \in {"createDid", "invite", "register"}
  /\ pc'[r] = "done" /\ status'[r] # "ok" =>
       \/ pc[r] \in {"checkName", "createWallet"} /\ target'[r] = target[r]
       \/ pc[r] = "undo" /\ wallets'[w] = None
       \/ faulted' \cap {"agent", "crash"} # {}
       \/ call[r].op # "create"

\* The order of the calls in the handlers.
RouteMove(r) ==
  \/ pc[r] # "idle" /\ pc'[r] = "done"
  \/ /\ status'[r] = None
     /\ \/ pc[r] = "idle"
        \/ pc[r] = "checkName" /\ pc'[r] = "createWallet"
        \/ pc[r] = "createWallet" /\ pc'[r] = "readPublicDid"
        \/ pc[r] = "readPublicDid" /\ pc'[r] \in {"createDid", "invite", WriteActor(r)}
        \/ pc[r] = "createDid" /\ pc'[r] = "invite"
        \/ pc[r] = "invite" /\ pc'[r] = WriteActor(r)
        \/ /\ pc[r] \in {"createDid", "invite", "register"} /\ pc'[r] = "undo"
           /\ call[r].op = "create"
        \/ pc[r] = "getWallet" /\ pc'[r] = "fetchActor"
        \/ /\ pc[r] = "fetchActor" /\ pc'[r] \in {"removeActor", "deleteWallet"}
           /\ call[r].op = "delete"
        \/ /\ pc[r] = "fetchActor" /\ pc'[r] \in {"getToken", "putActor", "updateWallet"}
           /\ call[r].op = "update"
        \/ pc[r] = "removeActor" /\ pc'[r] = "deleteWallet"
        \/ pc[r] = "getToken" /\ pc'[r] = "readPublicDid"
        \/ pc[r] = "putActor" /\ pc'[r] = "updateWallet"

-----------------------------------------------------------------------------
(* Every step makes these moves.                                           *)

\* What the calls are made of.
LEMMA CallTypes ==
  ASSUME NEW c \in Calls
  PROVE  /\ c.op \in {"create", "delete", "update"}
         /\ c.op = "create" => c.label \in Label /\ c.roles \in SUBSET Role
         /\ c.op = "delete" => c.wallet \in Wallet
         /\ c.op = "update" => /\ c.wallet \in Wallet /\ c.label \in Label \cup {None}
                               /\ c.roles \in SUBSET Role
BY TenantCalls DEF Call

\* A wallet that the agent makes.
LEMMA NewWalletMoves ==
  ASSUME NEW v \in Wallet, NEW label \in Label, TypeOK, NewWallet(v, label)
  PROVE  /\ v \notin born /\ born' = born \cup {v}
         /\ wallets'[v] \in WalletRecord /\ wallets'[v].made = 0 /\ wallets'[v].did = 0
         /\ \A w \in Wallet \ {v} : wallets'[w] = wallets[w]
<1> DEFINE new == [label |-> label, did |-> 0, made |-> 0]
<1>1. new \in WalletRecord /\ new.made = 0 /\ new.did = 0
  BY DEF WalletRecord
<1>2. wallets' = [wallets EXCEPT ![v] = new] /\ v \notin born /\ born' = born \cup {v}
  BY DEF NewWallet
<1> HIDE DEF new
<1>. QED
  BY <1>1, <1>2 DEF TypeOK

\* A DID that a wallet creates.
LEMMA NewDidMoves ==
  ASSUME NEW v \in Wallet, wallets[v] # None, TypeOK, NewDid(v)
  PROVE  /\ wallets'[v] \in WalletRecord /\ wallets'[v].made = wallets[v].made + 1
         /\ wallets'[v].did \in {wallets[v].made + 1, wallets[v].did} \ {0}
         /\ \A w \in Wallet \ {v} : wallets'[w] = wallets[w]
<1>1. wallets[v] \in WalletRecord
  BY DEF TypeOK
<1>2. PICK did \in {wallets[v].made + 1, wallets[v].did} \ {0} :
             wallets' = [wallets EXCEPT ![v].made = wallets[v].made + 1, ![v].did = did]
  BY DEF NewDid
<1>3. did \in Nat /\ wallets[v].made + 1 \in Nat
  BY <1>1 DEF WalletRecord
<1> DEFINE new == [wallets[v] EXCEPT !.made = wallets[v].made + 1, !.did = did]
<1>4. new \in WalletRecord /\ new.made = wallets[v].made + 1 /\ new.did = did
  BY <1>1, <1>3 DEF WalletRecord
<1>5. wallets'[v] = new /\ \A w \in Wallet \ {v} : wallets'[w] = wallets[w]
  BY <1>2 DEF TypeOK
<1> HIDE DEF new
<1>. QED
  BY <1>4, <1>5

\* A wallet that gets another label, or its own.
LEMMA LabelMoves ==
  ASSUME NEW v \in Wallet, NEW c \in Calls, c.op = "update", wallets[v] # None, TypeOK,
         wallets' = [wallets EXCEPT ![v].label = IF c.label = None THEN @ ELSE c.label]
  PROVE  /\ wallets'[v] \in WalletRecord /\ wallets'[v].made = wallets[v].made
         /\ wallets'[v].did = wallets[v].did
         /\ \A w \in Wallet \ {v} : wallets'[w] = wallets[w]
<1>1. wallets[v] \in WalletRecord
  BY DEF TypeOK
<1> DEFINE label == IF c.label = None THEN wallets[v].label ELSE c.label
           new == [wallets[v] EXCEPT !.label = label]
<1>2. label \in Label
  BY <1>1, CallTypes DEF WalletRecord
<1>3. wallets'[v] = new /\ \A w \in Wallet \ {v} : wallets'[w] = wallets[w]
  BY DEF TypeOK
<1> HIDE DEF label
<1>4. new \in WalletRecord /\ new.made = wallets[v].made /\ new.did = wallets[v].did
  BY <1>1, <1>2 DEF WalletRecord
<1> HIDE DEF new
<1>. QED
  BY <1>3, <1>4

\* Whatever r does, the other requests and what they have are untouched.
LEMMA OthersStayPut ==
  ASSUME NEW r \in Request, TypeOK, Shape(r), StepOf(r)
  PROVE  OthersStay(r)
<1> USE DEF TypeOK, OthersStay, store, blame, Goto, Answer, GiveUp, FailedCall, Blame,
        Onboarded, NoPublicDid, NewWallet
<1>1. CASE \E c \in Calls : Start(r, c)
  BY <1>1 DEF Start
<1>2. CASE CheckName(r)
  BY <1>2 DEF CheckName
<1>3. CASE CreateWallet(r)
  BY <1>3 DEF CreateWallet
<1>4. CASE RefuseWallet(r)
  BY <1>4 DEF RefuseWallet
<1>5. CASE Register(r)
  BY <1>5 DEF Register
<1>6. CASE Undo(r)
  BY <1>6 DEF Undo
<1>7. CASE ReadPublicDid(r)
  <2>1. \E step \in {"createDid", "invite", "register", "putActor"} :
          pc' = [pc EXCEPT ![r] = step]
    BY <1>7 DEF ReadPublicDid, NoPublicDid, Onboarded, WriteActor
  <2>2. \E actor : draft' = draft \/ draft' = [draft EXCEPT ![r] = actor]
    BY <1>7 DEF ReadPublicDid, NoPublicDid, Onboarded
  <2>3. status' = status
    BY <1>7 DEF ReadPublicDid, NoPublicDid, Onboarded
  <2>. QED
    BY <1>7, <2>1, <2>2, <2>3 DEF ReadPublicDid
<1>8. CASE CreateDid(r)
  BY <1>8 DEF CreateDid
<1>9. CASE Invite(r)
  <2>1. \E step \in {"undo", "done", "register", "putActor"} : pc' = [pc EXCEPT ![r] = step]
    BY <1>9 DEF Invite, GiveUp, WriteActor
  <2>2. status' = status \/ status' = [status EXCEPT ![r] = "error"]
    BY <1>9 DEF Invite, GiveUp
  <2>. QED
    BY <1>9, <2>1, <2>2 DEF Invite
<1>10. CASE GetWallet(r)
  BY <1>10 DEF GetWallet
<1>11. CASE FetchActor(r)
  BY <1>11 DEF FetchActor
<1>12. CASE RemoveActor(r)
  BY <1>12 DEF RemoveActor
<1>13. CASE DeleteWallet(r)
  BY <1>13 DEF DeleteWallet
<1>14. CASE GetToken(r)
  BY <1>14 DEF GetToken
<1>15. CASE PutActor(r)
  BY <1>15 DEF PutActor
<1>16. CASE UpdateWallet(r)
  BY <1>16 DEF UpdateWallet
<1>17. CASE MissPublicDid(r)
  BY <1>17 DEF MissPublicDid
<1>18. CASE CallFails(r)
  <2>1. pc' = [pc EXCEPT ![r] = "undo"] \/ pc' = [pc EXCEPT ![r] = "done"]
    BY <1>18 DEF CallFails, FailedCall, GiveUp
  <2>2. status' = status \/ status' = [status EXCEPT ![r] = "error"]
    BY <1>18 DEF CallFails, FailedCall, GiveUp
  <2>3. pc[r] # "done"
    BY <1>18 DEF CallFails, AgentSteps, RegistrySteps
  <2>. QED
    BY <1>18, <2>1, <2>2, <2>3 DEF CallFails, Blame
<1>19. CASE AgentAnswerLost(r)
  BY <1>19 DEF AgentAnswerLost
<1>20. CASE RegistryAnswerLost(r)
  BY <1>20 DEF RegistryAnswerLost
<1>21. CASE Crash(r)
  BY <1>21 DEF Crash
<1>. QED
  BY <1>1, <1>2, <1>3, <1>4, <1>5, <1>6, <1>7, <1>8, <1>9, <1>10, <1>11, <1>12, <1>13,
     <1>14, <1>15, <1>16, <1>17, <1>18, <1>19, <1>20, <1>21 DEF StepOf, Handler, Failure

\* The registry changes in three places only: register, remove, and put.
LEMMA ActorMoves ==
  ASSUME NEW w \in Wallet, NEW r \in Request, TypeOK, Shape(r), StepOf(r)
  PROVE  ActorMove(r, w)
<1> USE DEF TypeOK, ActorMove, store, Goto, Answer, Blame, FailedCall, GiveUp
<1>1. CASE \E c \in Calls : Start(r, c)
  BY <1>1 DEF Start
<1>2. CASE CheckName(r)
  BY <1>2 DEF CheckName
<1>3. CASE CreateWallet(r)
  BY <1>3 DEF CreateWallet
<1>4. CASE RefuseWallet(r)
  BY <1>4 DEF RefuseWallet
<1>5. CASE Register(r)
  BY <1>5 DEF Register
<1>6. CASE Undo(r)
  BY <1>6 DEF Undo
<1>7. CASE ReadPublicDid(r)
  BY <1>7 DEF ReadPublicDid
<1>8. CASE CreateDid(r)
  BY <1>8 DEF CreateDid
<1>9. CASE Invite(r)
  BY <1>9 DEF Invite
<1>10. CASE GetWallet(r)
  BY <1>10 DEF GetWallet
<1>11. CASE FetchActor(r)
  BY <1>11 DEF FetchActor
<1>12. CASE RemoveActor(r)
  BY <1>12 DEF RemoveActor
<1>13. CASE DeleteWallet(r)
  BY <1>13 DEF DeleteWallet
<1>14. CASE GetToken(r)
  BY <1>14 DEF GetToken
<1>15. CASE PutActor(r)
  BY <1>15 DEF PutActor
<1>16. CASE UpdateWallet(r)
  BY <1>16 DEF UpdateWallet
<1>17. CASE MissPublicDid(r)
  BY <1>17 DEF MissPublicDid
<1>18. CASE CallFails(r)
  BY <1>18 DEF CallFails
<1>19. CASE AgentAnswerLost(r)
  BY <1>19 DEF AgentAnswerLost
<1>20. CASE RegistryAnswerLost(r)
  BY <1>20 DEF RegistryAnswerLost
<1>21. CASE Crash(r)
  BY <1>21 DEF Crash
<1>. QED
  BY <1>1, <1>2, <1>3, <1>4, <1>5, <1>6, <1>7, <1>8, <1>9, <1>10, <1>11, <1>12, <1>13,
     <1>14, <1>15, <1>16, <1>17, <1>18, <1>19, <1>20, <1>21 DEF StepOf, Handler, Failure

\* The agent makes a wallet, deletes it, gives it a DID, or a label.
LEMMA WalletMoves ==
  ASSUME NEW w \in Wallet, NEW r \in Request, TypeOK, Shape(r), StepOf(r)
  PROVE  WalletMove(r, w)
<1>1. CASE \E c \in Calls : Start(r, c)
  BY <1>1 DEF Start, WalletMove, store
<1>2. CASE CheckName(r)
  BY <1>2 DEF CheckName, WalletMove, store
<1>3. CASE CreateWallet(r)
  <2>1. call[r].label \in Label
    BY <1>3, CallTypes DEF CreateWallet, Shape, Started
  <2>2. PICK v \in Wallet : NewWallet(v, call[r].label)
    BY <1>3 DEF CreateWallet
  <2>. QED
    BY <1>3, <2>1, <2>2, NewWalletMoves DEF CreateWallet, WalletMove
<1>4. CASE RefuseWallet(r)
  BY <1>4 DEF RefuseWallet, WalletMove, store
<1>5. CASE Register(r)
  BY <1>5 DEF Register, WalletMove, store
<1>6. CASE Undo(r)
  BY <1>6 DEF Undo, WalletMove, TypeOK
<1>7. CASE ReadPublicDid(r)
  BY <1>7 DEF ReadPublicDid, WalletMove, store
<1>8. CASE CreateDid(r)
  <2>1. target[r] \in Wallet /\ pc[r] = "createDid"
    BY <1>8 DEF CreateDid, Shape, Running
  <2>2. wallets' = wallets \/ (wallets[target[r]] # None /\ NewDid(target[r]))
    BY <1>8 DEF CreateDid
  <2>. QED
    BY <2>1, <2>2, NewDidMoves DEF WalletMove
<1>9. CASE Invite(r)
  BY <1>9 DEF Invite, WalletMove, store
<1>10. CASE GetWallet(r)
  BY <1>10 DEF GetWallet, WalletMove, store
<1>11. CASE FetchActor(r)
  BY <1>11 DEF FetchActor, WalletMove, store
<1>12. CASE RemoveActor(r)
  BY <1>12 DEF RemoveActor, WalletMove, store
<1>13. CASE DeleteWallet(r)
  BY <1>13 DEF DeleteWallet, WalletMove, TypeOK
<1>14. CASE GetToken(r)
  BY <1>14 DEF GetToken, WalletMove, store
<1>15. CASE PutActor(r)
  BY <1>15 DEF PutActor, WalletMove, store
<1>16. CASE UpdateWallet(r)
  <2>1. /\ target[r] \in Wallet /\ pc[r] = "updateWallet"
        /\ call[r] \in Calls /\ call[r].op = "update"
    BY <1>16 DEF UpdateWallet, Shape, Running, Started
  <2>2. CASE wallets[target[r]] = None
    BY <1>16, <2>2 DEF UpdateWallet, WalletMove
  <2>3. CASE wallets[target[r]] # None
    <3>1. wallets' = [wallets EXCEPT ![target[r]].label =
                        IF call[r].label = None THEN @ ELSE call[r].label]
      BY <1>16, <2>3 DEF UpdateWallet
    <3>. QED
      BY <2>1, <2>3, <3>1, LabelMoves DEF WalletMove
  <2>. QED
    BY <2>2, <2>3
<1>17. CASE MissPublicDid(r)
  BY <1>17 DEF MissPublicDid, WalletMove, store
<1>18. CASE CallFails(r)
  BY <1>18 DEF CallFails, WalletMove, store
<1>19. CASE AgentAnswerLost(r)
  <2>1. CASE pc[r] = "createWallet"
    <3>1. call[r].label \in Label
      BY <2>1, CallTypes DEF Shape, Started
    <3>2. PICK v \in Wallet : NewWallet(v, call[r].label)
      BY <1>19, <2>1 DEF AgentAnswerLost
    <3>. QED
      BY <2>1, <3>1, <3>2, NewWalletMoves DEF WalletMove
  <2>2. CASE pc[r] = "createDid"
    <3>1. target[r] \in Wallet /\ wallets[target[r]] # None /\ NewDid(target[r])
      BY <1>19, <2>2 DEF AgentAnswerLost, Shape, Running
    <3>. QED
      BY <2>2, <3>1, NewDidMoves DEF WalletMove
  <2>3. CASE pc[r] \in {"undo", "deleteWallet"}
    BY <1>19, <2>3 DEF AgentAnswerLost, WalletMove, TypeOK
  <2>4. CASE pc[r] = "updateWallet"
    <3>1. target[r] \in Wallet /\ call[r] \in Calls /\ call[r].op = "update"
      BY <2>4 DEF Shape, Running, Started
    <3>2. /\ wallets[target[r]] # None
          /\ wallets' = [wallets EXCEPT ![target[r]].label =
                          IF call[r].label = None THEN @ ELSE call[r].label]
      BY <1>19, <2>4 DEF AgentAnswerLost
    <3>. QED
      BY <2>4, <3>1, <3>2, LabelMoves DEF WalletMove
  <2>. QED
    BY <1>19, <2>1, <2>2, <2>3, <2>4 DEF AgentAnswerLost
<1>20. CASE RegistryAnswerLost(r)
  BY <1>20 DEF RegistryAnswerLost, WalletMove, store
<1>21. CASE Crash(r)
  BY <1>21 DEF Crash, WalletMove, store
<1>. QED
  BY <1>1, <1>2, <1>3, <1>4, <1>5, <1>6, <1>7, <1>8, <1>9, <1>10, <1>11, <1>12, <1>13,
     <1>14, <1>15, <1>16, <1>17, <1>18, <1>19, <1>20, <1>21 DEF StepOf, Handler, Failure

\* The wallet a request works on is set when it starts and when a create makes one.
LEMMA TargetMoves ==
  ASSUME NEW r \in Request, TypeOK, Shape(r), StepOf(r)
  PROVE  TargetMove(r)
<1> USE DEF TypeOK, TargetMove, Goto, Answer
<1>1. CASE \E c \in Calls : Start(r, c)
  BY <1>1 DEF Start
<1>2. CASE CheckName(r)
  BY <1>2 DEF CheckName
<1>3. CASE CreateWallet(r)
  <2>1. call[r].label \in Label /\ call[r].roles \in SUBSET Role
    BY <1>3, CallTypes DEF CreateWallet, Shape, Started
  <2>2. PICK v \in Wallet : NewWallet(v, call[r].label) /\ target' = [target EXCEPT ![r] = v]
    BY <1>3 DEF CreateWallet
  <2>3. v \in Wallet \ born /\ v \in born' /\ wallets'[v] \in WalletRecord /\ target'[r] = v
    BY <2>1, <2>2, NewWalletMoves
  <2>4. \/ pc'[r] = "readPublicDid"
        \/ pc'[r] = "done" /\ status'[r] = "ok" /\ call[r].roles = {}
    BY <1>3 DEF CreateWallet, Goto, Answer
  <2>. QED
    BY <1>3, <2>3, <2>4 DEF CreateWallet
<1>4. CASE RefuseWallet(r)
  BY <1>4 DEF RefuseWallet
<1>5. CASE Register(r)
  BY <1>5 DEF Register
<1>6. CASE Undo(r)
  BY <1>6 DEF Undo
<1>7. CASE ReadPublicDid(r)
  BY <1>7 DEF ReadPublicDid
<1>8. CASE CreateDid(r)
  BY <1>8 DEF CreateDid
<1>9. CASE Invite(r)
  BY <1>9 DEF Invite
<1>10. CASE GetWallet(r)
  BY <1>10 DEF GetWallet
<1>11. CASE FetchActor(r)
  BY <1>11 DEF FetchActor
<1>12. CASE RemoveActor(r)
  BY <1>12 DEF RemoveActor
<1>13. CASE DeleteWallet(r)
  BY <1>13 DEF DeleteWallet
<1>14. CASE GetToken(r)
  BY <1>14 DEF GetToken
<1>15. CASE PutActor(r)
  BY <1>15 DEF PutActor
<1>16. CASE UpdateWallet(r)
  BY <1>16 DEF UpdateWallet
<1>17. CASE MissPublicDid(r)
  BY <1>17 DEF MissPublicDid
<1>18. CASE CallFails(r)
  BY <1>18 DEF CallFails, AgentSteps, RegistrySteps
<1>19. CASE AgentAnswerLost(r)
  BY <1>19 DEF AgentAnswerLost
<1>20. CASE RegistryAnswerLost(r)
  BY <1>20 DEF RegistryAnswerLost
<1>21. CASE Crash(r)
  BY <1>21 DEF Crash
<1>. QED
  BY <1>1, <1>2, <1>3, <1>4, <1>5, <1>6, <1>7, <1>8, <1>9, <1>10, <1>11, <1>12, <1>13,
     <1>14, <1>15, <1>16, <1>17, <1>18, <1>19, <1>20, <1>21 DEF StepOf, Handler, Failure

\* How each action comes to the places that the invariants speak of.
LEMMA ControlMoves ==
  ASSUME NEW r \in Request, TypeOK, Shape(r), StepOf(r)
  PROVE  ControlMove(r)
<1>t. /\ pc \in [Request -> Steps] /\ status \in [Request -> {"ok", "refused", "error", None}]
      /\ target \in [Request -> Wallet \cup {None}] /\ None \notin {"ok", "refused", "error"}
      /\ actors \in [Wallet -> Actor \cup {None}]
      /\ wallets \in [Wallet -> WalletRecord \cup {None}]
  BY TenantNone DEF TypeOK
<1>n. None # "ok"
  BY TenantNone
<1>1. CASE \E c \in Calls : Start(r, c)
  <2>1. pc[r] = "idle" /\ status[r] = None
    BY <1>1 DEF Start, Shape
  <2>2. pc'[r] \in {"checkName", "getWallet"} /\ status'[r] = None
    BY <1>1, <2>1, <1>t DEF Start, Goto
  <2>. QED
    BY <1>n, <2>2 DEF ControlMove
<1>2. CASE CheckName(r)
  <2>1. pc[r] = "checkName" /\ status[r] = None
    BY <1>2 DEF CheckName, Shape
  <2>2. \/ pc'[r] = "done" /\ status'[r] = "refused"
        \/ pc'[r] = "createWallet" /\ status'[r] = None
    BY <1>2, <2>1, <1>t DEF CheckName, Goto, Answer
  <2>3. target'[r] = target[r]
    BY <1>2 DEF CheckName
  <2>. QED
    BY <1>n, <2>1, <2>2, <2>3 DEF ControlMove
<1>3. CASE CreateWallet(r)
  <2>1. pc[r] = "createWallet" /\ status[r] = None
    BY <1>3 DEF CreateWallet, Shape
  <2>2. \/ pc'[r] = "done" /\ status'[r] = "ok" /\ call[r].roles = {}
        \/ pc'[r] = "readPublicDid" /\ status'[r] = None
    BY <1>3, <2>1, <1>t DEF CreateWallet, Goto, Answer
  <2>3. target'[r] \in Wallet
    BY <1>3, <1>t DEF CreateWallet
  <2>. QED
    BY <1>n, <2>1, <2>2, <2>3 DEF ControlMove
<1>4. CASE RefuseWallet(r)
  <2>1. pc[r] = "createWallet" /\ status[r] = None
    BY <1>4 DEF RefuseWallet, Shape
  <2>2. \/ pc'[r] = "done" /\ status'[r] = "refused"
    BY <1>4, <2>1, <1>t DEF RefuseWallet, Goto, Answer
  <2>3. target'[r] = target[r]
    BY <1>4 DEF RefuseWallet
  <2>. QED
    BY <1>n, <2>1, <2>2, <2>3 DEF ControlMove
<1>5. CASE Register(r)
  <2>1. pc[r] = "register" /\ status[r] = None
    BY <1>5 DEF Register, Shape
  <2>2. \/ pc'[r] = "undo" /\ status'[r] = None
        \/ /\ pc'[r] = "done" /\ status'[r] = "ok"
           /\ actors' = [actors EXCEPT ![target[r]] = draft[r]]
    BY <1>5, <2>1, <1>t DEF Register, Goto, Answer
  <2>3. target[r] \in Wallet
    BY <2>1 DEF Shape, Running
  <2>. QED
    BY <1>n, <2>1, <2>2, <2>3, <1>t DEF ControlMove
<1>6. CASE Undo(r)
  <2>1. pc[r] = "undo" /\ status[r] = None
    BY <1>6 DEF Undo, Shape
  <2>2. \/ pc'[r] = "done" /\ status'[r] = "error"
    BY <1>6, <2>1, <1>t DEF Undo, Goto, Answer
  <2>3. target[r] \in Wallet
    BY <2>1 DEF Shape, Running
  <2>4. wallets'[target[r]] = None
    BY <1>6, <2>3, <1>t DEF Undo
  <2>. QED
    BY <1>n, <2>1, <2>2, <2>4 DEF ControlMove
<1>7. CASE ReadPublicDid(r)
  <2>1. pc[r] = "readPublicDid" /\ status[r] = None
    BY <1>7 DEF ReadPublicDid, Shape
  <2>2. \/ pc'[r] \in {"createDid", "invite", "register", "putActor"} /\ status'[r] = None
    BY <1>7, <2>1, <1>t DEF ReadPublicDid, Goto, Answer, NoPublicDid, Onboarded, WriteActor
  <2>. QED
    BY <1>n, <2>1, <2>2 DEF ControlMove
<1>8. CASE CreateDid(r)
  <2>1. pc[r] = "createDid" /\ status[r] = None
    BY <1>8 DEF CreateDid, Shape
  <2>2. \/ pc'[r] \in {"undo", "invite"} /\ status'[r] = None
        \/ pc'[r] = "done" /\ status'[r] = "error" /\ call[r].op # "create"
    BY <1>8, <2>1, <1>t DEF CreateDid, Goto, Answer, GiveUp, Onboarded
  <2>. QED
    BY <1>n, <2>1, <2>2 DEF ControlMove
<1>9. CASE Invite(r)
  <2>1. pc[r] = "invite" /\ status[r] = None /\ call[r].op \in {"create", "update"}
    BY <1>9 DEF Invite, Shape
  <2>2. CASE wallets[target[r]] = None
    <3>1. GiveUp(r)
      BY <1>9, <2>2 DEF Invite
    <3>2. \/ pc'[r] = "undo" /\ status'[r] = None
          \/ pc'[r] = "done" /\ status'[r] = "error" /\ call[r].op # "create"
      BY <2>1, <3>1, <1>t DEF GiveUp, Goto, Answer
    <3>. QED
      BY <1>n, <2>1, <3>2 DEF ControlMove
  <2>3. CASE wallets[target[r]] # None
    <3>1. Goto(r, WriteActor(r))
      BY <1>9, <2>3 DEF Invite
    <3>2. pc'[r] \in {"register", "putActor"} /\ status'[r] = None
      BY <2>1, <3>1, <1>t DEF WriteActor, Goto
    <3>. QED
      BY <1>n, <2>1, <3>2 DEF ControlMove
  <2>. QED
    BY <2>2, <2>3
<1>10. CASE GetWallet(r)
  <2>1. pc[r] = "getWallet" /\ status[r] = None /\ call[r].op \in {"delete", "update"}
    BY <1>10 DEF GetWallet, Shape
  <2>2. CASE wallets[target[r]] = None
    <3>1. pc'[r] = "done" /\ status'[r] = "refused"
      BY <1>10, <2>2, <1>t DEF GetWallet, Answer
    <3>. QED
      BY <1>n, <2>1, <3>1 DEF ControlMove
  <2>3. CASE wallets[target[r]] # None
    <3>1. pc'[r] = "fetchActor" /\ status'[r] = None
      BY <1>10, <2>1, <2>3, <1>t DEF GetWallet, Goto
    <3>2. call[r].op = "delete" /\ BeingCreated(target[r]) => r \in early'
      BY <1>10, <2>3 DEF GetWallet
    <3>. QED
      BY <1>n, <2>1, <2>3, <3>1, <3>2 DEF ControlMove
  <2>. QED
    BY <2>2, <2>3
<1>11. CASE FetchActor(r)
  <2>1. pc[r] = "fetchActor" /\ status[r] = None /\ call[r].op \in {"delete", "update"}
    BY <1>11 DEF FetchActor, Shape
  <2>2. CASE call[r].op = "delete"
    <3>1. Goto(r, IF actors[target[r]] = None THEN "deleteWallet" ELSE "removeActor")
      BY <1>11, <2>2 DEF FetchActor
    <3>2. /\ pc'[r] = IF actors[target[r]] = None THEN "deleteWallet" ELSE "removeActor"
          /\ status'[r] = None
      BY <2>1, <3>1, <1>t DEF Goto
    <3>. QED
      BY <1>n, <2>1, <3>2 DEF ControlMove
  <2>3. CASE call[r].op # "delete"
    <3>1. \/ pc'[r] = "done" /\ status'[r] = "refused"
          \/ pc'[r] \in {"updateWallet", "getToken", "putActor"} /\ status'[r] = None
      BY <1>11, <2>1, <2>3, <1>t DEF FetchActor, Goto, Answer
    <3>. QED
      BY <1>n, <2>1, <3>1 DEF ControlMove
  <2>. QED
    BY <2>2, <2>3
<1>12. CASE RemoveActor(r)
  <2>1. pc[r] = "removeActor" /\ status[r] = None
    BY <1>12 DEF RemoveActor, Shape
  <2>2. \/ pc'[r] = "deleteWallet" /\ status'[r] = None
    BY <1>12, <2>1, <1>t DEF RemoveActor, Goto, Answer
  <2>3. target[r] \in Wallet
    BY <2>1 DEF Shape, Running
  <2>4. actors'[target[r]] = None
    BY <1>12, <2>3, <1>t DEF RemoveActor
  <2>. QED
    BY <1>n, <2>1, <2>2, <2>4 DEF ControlMove
<1>13. CASE DeleteWallet(r)
  <2>1. pc[r] = "deleteWallet" /\ status[r] = None
    BY <1>13 DEF DeleteWallet, Shape
  <2>2. \/ pc'[r] = "done"
    BY <1>13, <2>1, <1>t DEF DeleteWallet, Goto, Answer
  <2>3. call[r].op = "delete"
    BY <2>1 DEF Shape
  <2>. QED
    BY <1>n, <2>1, <2>2, <2>3 DEF ControlMove
<1>14. CASE GetToken(r)
  <2>1. pc[r] = "getToken" /\ status[r] = None
    BY <1>14 DEF GetToken, Shape
  <2>2. \/ pc'[r] = "done" /\ status'[r] = "refused"
        \/ pc'[r] = "readPublicDid" /\ status'[r] = None
    BY <1>14, <2>1, <1>t DEF GetToken, Goto, Answer
  <2>3. call[r].op = "update"
    BY <2>1 DEF Shape
  <2>. QED
    BY <1>n, <2>1, <2>2, <2>3 DEF ControlMove
<1>15. CASE PutActor(r)
  <2>1. pc[r] = "putActor" /\ status[r] = None
    BY <1>15 DEF PutActor, Shape
  <2>2. \/ pc'[r] = "done" /\ status'[r] = "error"
        \/ pc'[r] = "updateWallet" /\ status'[r] = None
    BY <1>15, <2>1, <1>t DEF PutActor, Goto, Answer
  <2>3. call[r].op = "update"
    BY <2>1 DEF Shape
  <2>. QED
    BY <1>n, <2>1, <2>2, <2>3 DEF ControlMove
<1>16. CASE UpdateWallet(r)
  <2>1. pc[r] = "updateWallet" /\ status[r] = None
    BY <1>16 DEF UpdateWallet, Shape
  <2>2. \/ pc'[r] = "done"
    BY <1>16, <2>1, <1>t DEF UpdateWallet, Goto, Answer
  <2>3. call[r].op = "update"
    BY <2>1 DEF Shape
  <2>. QED
    BY <1>n, <2>1, <2>2, <2>3 DEF ControlMove
<1>17. CASE MissPublicDid(r)
  <2>1. pc[r] = "readPublicDid" /\ status[r] = None
    BY <1>17 DEF MissPublicDid, Shape
  <2>2. \/ pc'[r] \in {"createDid", "invite", "register", "putActor"} /\ status'[r] = None
    BY <1>17, <2>1, <1>t DEF MissPublicDid, Goto, Answer, NoPublicDid, Onboarded, WriteActor
  <2>. QED
    BY <1>n, <2>1, <2>2 DEF ControlMove
<1>18. CASE CallFails(r)
  <2>1. pc[r] \in AgentSteps \cup RegistrySteps /\ status[r] = None
    BY <1>18 DEF CallFails, Shape, AgentSteps, RegistrySteps
  <2>2. target'[r] = target[r] /\ ("agent" \in faulted' \/ pc[r] \notin AgentSteps)
    BY <1>18 DEF CallFails, Blame
  <2>3. FailedCall(r)
    BY <1>18 DEF CallFails
  <2>4. \/ /\ pc[r] \in {"createDid", "invite", "register"}
           /\ pc'[r] = "undo" /\ status'[r] = None
        \/ /\ pc'[r] = "done" /\ status'[r] = "error"
           /\ pc[r] \in {"createDid", "invite", "register"} => call[r].op # "create"
    BY <2>1, <2>3, <1>t DEF FailedCall, GiveUp, Goto, Answer
  <2>5. pc[r] \in RegistrySteps \ {"checkName", "register"} => call[r].op # "create"
    BY DEF Shape, RegistrySteps
  <2>. QED
    BY <1>n, <2>1, <2>2, <2>4, <2>5 DEF ControlMove, AgentSteps, RegistrySteps
<1>19. CASE AgentAnswerLost(r)
  <2>1. status[r] = None
    BY <1>19 DEF AgentAnswerLost, Shape
  <2>2. "agent" \in faulted' /\ FailedCall(r)
    BY <1>19 DEF AgentAnswerLost, Blame
  <2>3. \/ /\ pc[r] \in {"createDid", "invite", "register"}
           /\ pc'[r] = "undo" /\ status'[r] = None
        \/ pc'[r] = "done" /\ status'[r] = "error"
    BY <2>1, <2>2, <1>t DEF FailedCall, GiveUp, Goto, Answer
  <2>. QED
    BY <1>n, <2>2, <2>3 DEF ControlMove
<1>20. CASE RegistryAnswerLost(r)
  <2>1. pc[r] \in {"register", "removeActor", "putActor"} /\ status[r] = None
    BY <1>20 DEF RegistryAnswerLost, Shape
  <2>2. FailedCall(r)
    BY <1>20 DEF RegistryAnswerLost
  <2>3. pc[r] = "register" <=> call[r].op = "create"
    BY <2>1 DEF Shape
  <2>4. \/ pc[r] = "register" /\ pc'[r] = "undo" /\ status'[r] = None
        \/ pc'[r] = "done" /\ status'[r] = "error" /\ call[r].op # "create"
    BY <2>1, <2>2, <2>3, <1>t DEF FailedCall, GiveUp, Goto, Answer
  <2>. QED
    BY <1>n, <2>4 DEF ControlMove
<1>21. CASE Crash(r)
  <2>1. pc'[r] = "done" /\ status'[r] = None /\ "crash" \in faulted'
    BY <1>21, <1>t DEF Crash, Blame, Shape
  <2>. QED
    BY <1>n, <2>1 DEF ControlMove
<1>. QED
  BY <1>1, <1>2, <1>3, <1>4, <1>5, <1>6, <1>7, <1>8, <1>9, <1>10, <1>11, <1>12, <1>13,
     <1>14, <1>15, <1>16, <1>17, <1>18, <1>19, <1>20, <1>21 DEF StepOf, Handler, Failure


-----------------------------------------------------------------------------
(* The drafts.                                                             *)

\* What create_tenant registers is an actor with the roles it was asked for.
LEMMA CreatedActor ==
  ASSUME NEW c \in Calls, c.op = "create", NEW did \in Nat
  PROVE  /\ Created(c, did) \in Actor
         /\ Created(c, did).roles = c.roles /\ Created(c, did).did = did
BY CallTypes DEF Created, Actor

\* A new name changes nothing else.
LEMMA RenamedActor ==
  ASSUME NEW c \in Calls, c.op = "update", NEW a \in Actor
  PROVE  /\ Renamed(c, a) \in Actor
         /\ Renamed(c, a).roles = a.roles /\ Renamed(c, a).did = a.did
<1>1. CASE c.label = None
  BY <1>1 DEF Renamed
<1>2. CASE c.label # None
  <2>1. c.label \in Label
    BY <1>2, CallTypes
  <2>. QED
    BY <1>2, <2>1 DEF Renamed, Actor
<1>. QED
  BY <1>1, <1>2

\* An actor that is promoted keeps the roles that it has.
LEMMA PromotedActor ==
  ASSUME NEW c \in Calls, c.op = "update", NEW a \in Actor, NEW did \in Nat
  PROVE  /\ Promoted(c, a, did) \in Actor
         /\ Promoted(c, a, did).roles = c.roles \cup a.roles
         /\ Promoted(c, a, did).did = did
<1> DEFINE b == Renamed(c, a)
<1>1. b \in Actor /\ b.roles = a.roles
  BY RenamedActor
<1>2. Promoted(c, a, did) = [b EXCEPT !.roles = c.roles \cup @, !.did = did]
  BY DEF Promoted
<1>3. c.roles \in SUBSET Role
  BY CallTypes
<1> HIDE DEF b
<1>4. Promoted(c, a, did) = [b EXCEPT !.roles = c.roles \cup b.roles, !.did = did]
  BY <1>1, <1>2 DEF Actor
<1>5. c.roles \cup b.roles \in SUBSET Role
  BY <1>1, <1>3 DEF Actor
<1>. QED
  BY <1>1, <1>4, <1>5 DEF Actor

\* What the onboarding makes of the draft.
LEMMA OnboardedDraft ==
  ASSUME NEW r \in Request, NEW did \in Nat, NEW step \in Steps, TypeOK, Shape(r),
         pc[r] \in {"readPublicDid", "createDid"}, Onboarded(r, did, step)
  PROVE  /\ draft'[r] \in Actor /\ draft'[r].did = did
         /\ draft'[r].roles = IF call[r].op = "create" THEN call[r].roles
                              ELSE call[r].roles \cup draft[r].roles
<1>1. call[r] \in Calls /\ call[r].op \in {"create", "update"}
  BY DEF Shape, Started
<1>2. CASE call[r].op = "create"
  <2>1. draft'[r] = Created(call[r], did)
    BY <1>2 DEF Onboarded, TypeOK
  <2>. QED
    BY <1>1, <1>2, <2>1, CreatedActor
<1>3. CASE call[r].op = "update"
  <2>1. draft'[r] = Promoted(call[r], draft[r], did)
    BY <1>3 DEF Onboarded, TypeOK
  <2>2. draft[r] \in Actor
    BY <1>3 DEF Shape, HasDraft
  <2>. QED
    BY <1>1, <1>3, <2>1, <2>2, PromotedActor
<1>. QED
  BY <1>1, <1>2, <1>3

\* Where the draft of each action comes from.
LEMMA DraftMoves ==
  ASSUME NEW r \in Request, TypeOK, Shape(r), StepOf(r)
  PROVE  DraftMove(r)
<1>t. /\ pc \in [Request -> Steps] /\ status \in [Request -> {"ok", "refused", "error", None}]
      /\ target \in [Request -> Wallet \cup {None}] /\ None \notin {"ok", "refused", "error"}
      /\ draft \in [Request -> Actor \cup {None}]
      /\ actors \in [Wallet -> Actor \cup {None}]
      /\ wallets \in [Wallet -> WalletRecord \cup {None}]
  BY TenantNone DEF TypeOK
<1>1. CASE \E c \in Calls : Start(r, c)
  <2>1. ~HasDraft(r)'
    BY <1>1, <1>t DEF Start, Goto, HasDraft
  <2>. QED
    BY <2>1 DEF DraftMove
<1>2. CASE CheckName(r)
  <2>1. ~HasDraft(r)'
    BY <1>2, <1>t DEF CheckName, Goto, Answer, HasDraft, GiveUp, FailedCall
  <2>. QED
    BY <2>1 DEF DraftMove
<1>3. CASE CreateWallet(r)
  <2>1. ~HasDraft(r)'
    BY <1>3, <1>t DEF CreateWallet, Goto, Answer, HasDraft, Shape
  <2>. QED
    BY <2>1 DEF DraftMove
<1>4. CASE RefuseWallet(r)
  <2>1. ~HasDraft(r)'
    BY <1>4, <1>t DEF RefuseWallet, Goto, Answer, HasDraft, GiveUp, FailedCall
  <2>. QED
    BY <2>1 DEF DraftMove
<1>5. CASE Register(r)
  <2>1. ~HasDraft(r)'
    BY <1>5, <1>t DEF Register, Goto, Answer, HasDraft, GiveUp, FailedCall
  <2>. QED
    BY <2>1 DEF DraftMove
<1>6. CASE Undo(r)
  <2>1. ~HasDraft(r)'
    BY <1>6, <1>t DEF Undo, Goto, Answer, HasDraft, GiveUp, FailedCall
  <2>. QED
    BY <2>1 DEF DraftMove
<1>7. CASE ReadPublicDid(r)
  <2>1. pc[r] = "readPublicDid" /\ target[r] \in Wallet
    BY <1>7 DEF ReadPublicDid, Shape, Running
  <2>2. CASE NoPublicDid(r) /\ (wallets[target[r]] = None \/ wallets[target[r]].did = 0
                                \/ "agent" \in faulted')
    <3>1. CASE OnboardsIssuer(r)
      <4>1. draft' = draft /\ pc'[r] = "createDid" /\ call' = call
        BY <1>7, <2>2, <3>1, <1>t DEF ReadPublicDid, NoPublicDid, Goto
      <4>. QED
        BY <2>1, <4>1 DEF DraftMove, HasDraft, Shape
    <3>2. CASE ~OnboardsIssuer(r)
      <4>1. Onboarded(r, 0, "invite")
        BY <2>2, <3>2 DEF NoPublicDid
      <4>2. /\ draft'[r] \in Actor
            /\ draft'[r].roles = IF call[r].op = "create" THEN call[r].roles
                                 ELSE call[r].roles \cup draft[r].roles
        BY <2>1, <4>1, OnboardedDraft DEF Steps
      <4>. QED
        BY <2>1, <2>2, <3>2, <4>2 DEF DraftMove, OnboardsIssuer
    <3>. QED
      BY <3>1, <3>2
  <2>3. ASSUME wallets[target[r]] # None, wallets[target[r]].did # 0
        PROVE  DraftMove(r)
    <3>1. wallets[target[r]].did \in Nat
      BY <2>1, <2>3, <1>t DEF WalletRecord
    <3>2. PICK step \in {"invite", "register", "putActor"} :
                 Onboarded(r, wallets[target[r]].did, step)
      BY <1>7, <2>3 DEF ReadPublicDid, WriteActor
    <3>3. step \in Steps
      BY DEF Steps
    <3>4. /\ draft'[r] \in Actor /\ draft'[r].did = wallets[target[r]].did
          /\ draft'[r].roles = IF call[r].op = "create" THEN call[r].roles
                               ELSE call[r].roles \cup draft[r].roles
      BY <2>1, <3>1, <3>2, <3>3, OnboardedDraft
    <3>. QED
      BY <2>1, <2>3, <3>4 DEF DraftMove
  <2>. QED
    BY <1>7, <2>2, <2>3 DEF ReadPublicDid
<1>8. CASE CreateDid(r)
  <2>1. pc[r] = "createDid" /\ target[r] \in Wallet /\ call[r].op \in {"create", "update"}
    BY <1>8 DEF CreateDid, Shape, Running
  <2>2. CASE wallets[target[r]] = None
    <3>1. pc'[r] \in {"undo", "done"}
      BY <1>8, <2>1, <2>2, <1>t DEF CreateDid, GiveUp, Goto, Answer
    <3>. QED
      BY <3>1 DEF DraftMove, HasDraft
  <2>3. CASE wallets[target[r]] # None
    <3>1. NewDid(target[r]) /\ Onboarded(r, wallets[target[r]].made + 1, "invite")
      BY <1>8, <2>3 DEF CreateDid
    <3>2. wallets[target[r]].made + 1 \in Nat \ {0}
      BY <2>1, <2>3, <1>t DEF WalletRecord
    <3>3. /\ wallets'[target[r]] \in WalletRecord
          /\ wallets'[target[r]].made = wallets[target[r]].made + 1
      BY <2>1, <2>3, <3>1, NewDidMoves
    <3>4. wallets'[target[r]] # None
      BY <3>3, TenantNone
    <3>5. /\ draft'[r] \in Actor /\ draft'[r].did = wallets[target[r]].made + 1
          /\ draft'[r].roles = IF call[r].op = "create" THEN call[r].roles
                               ELSE call[r].roles \cup draft[r].roles
      BY <2>1, <3>1, <3>2, OnboardedDraft DEF Steps
    <3>. QED
      BY <2>1, <2>3, <3>2, <3>3, <3>4, <3>5 DEF DraftMove
  <2>. QED
    BY <2>2, <2>3
<1>9. CASE Invite(r)
  <2>1. HasDraft(r) /\ draft' = draft
    BY <1>9 DEF Invite, HasDraft, Shape
  <2>. QED
    BY <2>1 DEF DraftMove, Shape
<1>10. CASE GetWallet(r)
  <2>1. ~HasDraft(r)'
    BY <1>10, <1>t DEF GetWallet, Goto, Answer, HasDraft, GiveUp, FailedCall
  <2>. QED
    BY <2>1 DEF DraftMove
<1>11. CASE FetchActor(r)
  <2> DEFINE a == actors[target[r]]
  <2>1. pc[r] = "fetchActor" /\ target[r] \in Wallet /\ call[r] \in Calls
    BY <1>11 DEF FetchActor, Shape, Running, Started
  <2>2. CASE call[r].op = "delete" \/ a = None
    <3>1. pc'[r] \in {"deleteWallet", "removeActor", "updateWallet", "done"}
      BY <1>11, <2>1, <2>2, <1>t DEF FetchActor, Goto, Answer
    <3>. QED
      BY <3>1 DEF DraftMove, HasDraft
  <2>3. CASE call[r].op = "update" /\ a # None
    <3>1. a \in Actor
      BY <2>1, <2>3, <1>t
    <3>2. draft' = [draft EXCEPT ![r] = a] \/ draft' = [draft EXCEPT ![r] = Renamed(call[r], a)]
      BY <1>11, <2>3 DEF FetchActor
    <3>3. draft'[r] = a \/ draft'[r] = Renamed(call[r], a)
      BY <3>2, <1>t
    <3>4. draft'[r] \in Actor /\ draft'[r].roles = a.roles /\ draft'[r].did = a.did
      BY <2>1, <2>3, <3>1, <3>3, RenamedActor
    <3>. QED
      BY <2>1, <2>3, <3>4 DEF DraftMove
  <2>. QED
    BY <2>1, <2>2, <2>3, CallTypes, <1>11 DEF FetchActor, Shape
<1>12. CASE RemoveActor(r)
  <2>1. ~HasDraft(r)'
    BY <1>12, <1>t DEF RemoveActor, Goto, Answer, HasDraft, GiveUp, FailedCall
  <2>. QED
    BY <2>1 DEF DraftMove
<1>13. CASE DeleteWallet(r)
  <2>1. ~HasDraft(r)'
    BY <1>13, <1>t DEF DeleteWallet, Goto, Answer, HasDraft, GiveUp, FailedCall
  <2>. QED
    BY <2>1 DEF DraftMove
<1>14. CASE GetToken(r)
  <2>1. HasDraft(r) /\ draft' = draft
    BY <1>14 DEF GetToken, HasDraft, Shape
  <2>. QED
    BY <2>1 DEF DraftMove, Shape
<1>15. CASE PutActor(r)
  <2>1. ~HasDraft(r)'
    BY <1>15, <1>t DEF PutActor, Goto, Answer, HasDraft, GiveUp, FailedCall
  <2>. QED
    BY <2>1 DEF DraftMove
<1>16. CASE UpdateWallet(r)
  <2>1. ~HasDraft(r)'
    BY <1>16, <1>t DEF UpdateWallet, Goto, Answer, HasDraft, GiveUp, FailedCall
  <2>. QED
    BY <2>1 DEF DraftMove
<1>17. CASE MissPublicDid(r)
  <2>1. pc[r] = "readPublicDid" /\ target[r] \in Wallet
    BY <1>17 DEF MissPublicDid, Shape, Running
  <2>2. CASE NoPublicDid(r) /\ (wallets[target[r]] = None \/ wallets[target[r]].did = 0
                                \/ "agent" \in faulted')
    <3>1. CASE OnboardsIssuer(r)
      <4>1. draft' = draft /\ pc'[r] = "createDid" /\ call' = call
        BY <1>17, <2>2, <3>1, <1>t DEF MissPublicDid, NoPublicDid, Goto
      <4>. QED
        BY <2>1, <4>1 DEF DraftMove, HasDraft, Shape
    <3>2. CASE ~OnboardsIssuer(r)
      <4>1. Onboarded(r, 0, "invite")
        BY <2>2, <3>2 DEF NoPublicDid
      <4>2. /\ draft'[r] \in Actor
            /\ draft'[r].roles = IF call[r].op = "create" THEN call[r].roles
                                 ELSE call[r].roles \cup draft[r].roles
        BY <2>1, <4>1, OnboardedDraft DEF Steps
      <4>. QED
        BY <2>1, <2>2, <3>2, <4>2 DEF DraftMove, OnboardsIssuer
    <3>. QED
      BY <3>1, <3>2
  <2>. QED
    BY <1>17, <2>2 DEF MissPublicDid, Blame
<1>18. CASE CallFails(r)
  <2>1. ~HasDraft(r)'
    BY <1>18, <1>t DEF CallFails, Goto, Answer, HasDraft, GiveUp, FailedCall
  <2>. QED
    BY <2>1 DEF DraftMove
<1>19. CASE AgentAnswerLost(r)
  <2>1. ~HasDraft(r)'
    BY <1>19, <1>t DEF AgentAnswerLost, Goto, Answer, HasDraft, GiveUp, FailedCall
  <2>. QED
    BY <2>1 DEF DraftMove
<1>20. CASE RegistryAnswerLost(r)
  <2>1. ~HasDraft(r)'
    BY <1>20, <1>t DEF RegistryAnswerLost, Goto, Answer, HasDraft, GiveUp, FailedCall
  <2>. QED
    BY <2>1 DEF DraftMove
<1>21. CASE Crash(r)
  <2>1. ~HasDraft(r)'
    BY <1>21, <1>t DEF Crash, Goto, Answer, HasDraft, GiveUp, FailedCall
  <2>. QED
    BY <2>1 DEF DraftMove
<1>. QED
  BY <1>1, <1>2, <1>3, <1>4, <1>5, <1>6, <1>7, <1>8, <1>9, <1>10, <1>11, <1>12, <1>13,
     <1>14, <1>15, <1>16, <1>17, <1>18, <1>19, <1>20, <1>21 DEF StepOf, Handler, Failure

-----------------------------------------------------------------------------
(* Every step keeps the shape of the requests.                             *)

\* Each handler makes its calls in order, and a failure ends it or undoes the create.
LEMMA RouteMoves ==
  ASSUME NEW r \in Request, TypeOK, Shape(r), StepOf(r)
  PROVE  RouteMove(r)
<1>t. /\ pc \in [Request -> Steps] /\ status \in [Request -> {"ok", "refused", "error", None}]
      /\ target \in [Request -> Wallet \cup {None}] /\ None \notin {"ok", "refused", "error"}
      /\ draft \in [Request -> Actor \cup {None}]
      /\ actors \in [Wallet -> Actor \cup {None}]
      /\ wallets \in [Wallet -> WalletRecord \cup {None}]
  BY TenantNone DEF TypeOK
<1>1. CASE \E c \in Calls : Start(r, c)
  <2>1. pc[r] = "idle" /\ status'[r] = None
    BY <1>1, <1>t DEF Start, Goto, Shape
  <2>. QED
    BY <2>1 DEF RouteMove
<1>2. CASE CheckName(r)
  <2>1. pc[r] = "checkName" /\ status[r] = None /\ call[r].op \in {"create"}
    BY <1>2 DEF CheckName, Shape
  <2>2. \/ pc'[r] = "done"
        \/ pc'[r] = "createWallet" /\ status'[r] = None
    BY <1>2, <2>1, <1>t DEF CheckName, Goto, Answer
  <2>. QED
    BY <2>1, <2>2 DEF RouteMove
<1>3. CASE CreateWallet(r)
  <2>1. pc[r] = "createWallet" /\ status[r] = None /\ call[r].op \in {"create"}
    BY <1>3 DEF CreateWallet, Shape
  <2>2. \/ pc'[r] = "done"
        \/ pc'[r] = "readPublicDid" /\ status'[r] = None
    BY <1>3, <2>1, <1>t DEF CreateWallet, Goto, Answer
  <2>. QED
    BY <2>1, <2>2 DEF RouteMove
<1>4. CASE RefuseWallet(r)
  <2>1. pc[r] = "createWallet" /\ status[r] = None /\ call[r].op \in {"create"}
    BY <1>4 DEF RefuseWallet, Shape
  <2>2. \/ pc'[r] = "done"
    BY <1>4, <2>1, <1>t DEF RefuseWallet, Goto, Answer
  <2>. QED
    BY <2>1, <2>2 DEF RouteMove
<1>5. CASE Register(r)
  <2>1. pc[r] = "register" /\ status[r] = None /\ call[r].op \in {"create"}
    BY <1>5 DEF Register, Shape
  <2>2. \/ pc'[r] = "done"
        \/ pc'[r] = "undo" /\ status'[r] = None
    BY <1>5, <2>1, <1>t DEF Register, Goto, Answer
  <2>. QED
    BY <2>1, <2>2 DEF RouteMove
<1>6. CASE Undo(r)
  <2>1. pc[r] = "undo" /\ status[r] = None /\ call[r].op \in {"create"}
    BY <1>6 DEF Undo, Shape
  <2>2. \/ pc'[r] = "done"
    BY <1>6, <2>1, <1>t DEF Undo, Goto, Answer
  <2>. QED
    BY <2>1, <2>2 DEF RouteMove
<1>7. CASE ReadPublicDid(r)
  <2>1. pc[r] = "readPublicDid" /\ status[r] = None /\ call[r].op \in {"create", "update"}
    BY <1>7 DEF ReadPublicDid, Shape
  <2>2. \/ pc'[r] \in {"createDid", "invite", WriteActor(r)} /\ status'[r] = None
    BY <1>7, <2>1, <1>t DEF ReadPublicDid, Goto, Answer, NoPublicDid, Onboarded
  <2>. QED
    BY <2>1, <2>2 DEF RouteMove
<1>8. CASE CreateDid(r)
  <2>1. pc[r] = "createDid" /\ status[r] = None /\ call[r].op \in {"create", "update"}
    BY <1>8 DEF CreateDid, Shape
  <2>2. \/ pc'[r] = "done"
        \/ pc'[r] = "invite" /\ status'[r] = None
        \/ pc'[r] = "undo" /\ status'[r] = None /\ call[r].op = "create"
    BY <1>8, <2>1, <1>t DEF CreateDid, Goto, Answer, GiveUp, Onboarded
  <2>. QED
    BY <2>1, <2>2 DEF RouteMove
<1>9. CASE Invite(r)
  <2>1. pc[r] = "invite" /\ status[r] = None /\ call[r].op \in {"create", "update"}
    BY <1>9 DEF Invite, Shape
  <2>2. \/ pc'[r] = "done"
        \/ pc'[r] = WriteActor(r) /\ status'[r] = None
        \/ pc'[r] = "undo" /\ status'[r] = None /\ call[r].op = "create"
    BY <1>9, <2>1, <1>t DEF Invite, Goto, Answer, GiveUp
  <2>. QED
    BY <2>1, <2>2 DEF RouteMove
<1>10. CASE GetWallet(r)
  <2>1. pc[r] = "getWallet" /\ status[r] = None /\ call[r].op \in {"delete", "update"}
    BY <1>10 DEF GetWallet, Shape
  <2>2. \/ pc'[r] = "done"
        \/ pc'[r] = "fetchActor" /\ status'[r] = None
    BY <1>10, <2>1, <1>t DEF GetWallet, Goto, Answer
  <2>. QED
    BY <2>1, <2>2 DEF RouteMove
<1>11. CASE FetchActor(r)
  <2>1. pc[r] = "fetchActor" /\ status[r] = None /\ call[r].op \in {"delete", "update"}
    BY <1>11 DEF FetchActor, Shape
  <2>2. \/ pc'[r] = "done"
        \/ pc'[r] \in {"removeActor", "deleteWallet"} /\ status'[r] = None
              /\ call[r].op = "delete"
        \/ pc'[r] \in {"getToken", "putActor", "updateWallet"} /\ status'[r] = None
              /\ call[r].op = "update"
    BY <1>11, <2>1, <1>t DEF FetchActor, Goto, Answer
  <2>. QED
    BY <2>1, <2>2 DEF RouteMove
<1>12. CASE RemoveActor(r)
  <2>1. pc[r] = "removeActor" /\ status[r] = None /\ call[r].op \in {"delete"}
    BY <1>12 DEF RemoveActor, Shape
  <2>2. \/ pc'[r] = "deleteWallet" /\ status'[r] = None
    BY <1>12, <2>1, <1>t DEF RemoveActor, Goto, Answer
  <2>. QED
    BY <2>1, <2>2 DEF RouteMove
<1>13. CASE DeleteWallet(r)
  <2>1. pc[r] = "deleteWallet" /\ status[r] = None /\ call[r].op \in {"delete"}
    BY <1>13 DEF DeleteWallet, Shape
  <2>2. \/ pc'[r] = "done"
    BY <1>13, <2>1, <1>t DEF DeleteWallet, Goto, Answer
  <2>. QED
    BY <2>1, <2>2 DEF RouteMove
<1>14. CASE GetToken(r)
  <2>1. pc[r] = "getToken" /\ status[r] = None /\ call[r].op \in {"update"}
    BY <1>14 DEF GetToken, Shape
  <2>2. \/ pc'[r] = "done"
        \/ pc'[r] = "readPublicDid" /\ status'[r] = None
    BY <1>14, <2>1, <1>t DEF GetToken, Goto, Answer
  <2>. QED
    BY <2>1, <2>2 DEF RouteMove
<1>15. CASE PutActor(r)
  <2>1. pc[r] = "putActor" /\ status[r] = None /\ call[r].op \in {"update"}
    BY <1>15 DEF PutActor, Shape
  <2>2. \/ pc'[r] = "done"
        \/ pc'[r] = "updateWallet" /\ status'[r] = None
    BY <1>15, <2>1, <1>t DEF PutActor, Goto, Answer
  <2>. QED
    BY <2>1, <2>2 DEF RouteMove
<1>16. CASE UpdateWallet(r)
  <2>1. pc[r] = "updateWallet" /\ status[r] = None /\ call[r].op \in {"update"}
    BY <1>16 DEF UpdateWallet, Shape
  <2>2. \/ pc'[r] = "done"
    BY <1>16, <2>1, <1>t DEF UpdateWallet, Goto, Answer
  <2>. QED
    BY <2>1, <2>2 DEF RouteMove
<1>17. CASE MissPublicDid(r)
  <2>1. pc[r] = "readPublicDid" /\ status[r] = None /\ call[r].op \in {"create", "update"}
    BY <1>17 DEF MissPublicDid, Shape
  <2>2. \/ pc'[r] \in {"createDid", "invite", WriteActor(r)} /\ status'[r] = None
    BY <1>17, <2>1, <1>t DEF MissPublicDid, Goto, Answer, NoPublicDid, Onboarded
  <2>. QED
    BY <2>1, <2>2 DEF RouteMove
<1>18. CASE CallFails(r)
  <2>1. pc[r] # "idle" /\ pc[r] # "done" /\ status[r] = None /\ FailedCall(r)
    BY <1>18 DEF CallFails, Shape, AgentSteps, RegistrySteps
  <2>2. CASE pc[r] \in {"createDid", "invite", "register"} /\ call[r].op = "create"
    <3>1. pc'[r] = "undo" /\ status'[r] = None
      BY <2>1, <2>2, <1>t DEF FailedCall, GiveUp, Goto
    <3>. QED
      BY <2>2, <3>1 DEF RouteMove
  <2>3. CASE ~(pc[r] \in {"createDid", "invite", "register"} /\ call[r].op = "create")
    <3>1. pc'[r] = "done"
      BY <2>1, <2>3, <1>t DEF FailedCall, GiveUp, Answer
    <3>. QED
      BY <2>1, <3>1 DEF RouteMove
  <2>. QED
    BY <2>2, <2>3
<1>19. CASE AgentAnswerLost(r)
  <2>1. pc[r] # "idle" /\ pc[r] # "done" /\ status[r] = None /\ FailedCall(r)
    BY <1>19 DEF AgentAnswerLost, Shape, AgentSteps, RegistrySteps
  <2>2. CASE pc[r] \in {"createDid", "invite", "register"} /\ call[r].op = "create"
    <3>1. pc'[r] = "undo" /\ status'[r] = None
      BY <2>1, <2>2, <1>t DEF FailedCall, GiveUp, Goto
    <3>. QED
      BY <2>2, <3>1 DEF RouteMove
  <2>3. CASE ~(pc[r] \in {"createDid", "invite", "register"} /\ call[r].op = "create")
    <3>1. pc'[r] = "done"
      BY <2>1, <2>3, <1>t DEF FailedCall, GiveUp, Answer
    <3>. QED
      BY <2>1, <3>1 DEF RouteMove
  <2>. QED
    BY <2>2, <2>3
<1>20. CASE RegistryAnswerLost(r)
  <2>1. pc[r] # "idle" /\ pc[r] # "done" /\ status[r] = None /\ FailedCall(r)
    BY <1>20 DEF RegistryAnswerLost, Shape, AgentSteps, RegistrySteps
  <2>2. CASE pc[r] \in {"createDid", "invite", "register"} /\ call[r].op = "create"
    <3>1. pc'[r] = "undo" /\ status'[r] = None
      BY <2>1, <2>2, <1>t DEF FailedCall, GiveUp, Goto
    <3>. QED
      BY <2>2, <3>1 DEF RouteMove
  <2>3. CASE ~(pc[r] \in {"createDid", "invite", "register"} /\ call[r].op = "create")
    <3>1. pc'[r] = "done"
      BY <2>1, <2>3, <1>t DEF FailedCall, GiveUp, Answer
    <3>. QED
      BY <2>1, <3>1 DEF RouteMove
  <2>. QED
    BY <2>2, <2>3
<1>21. CASE Crash(r)
  BY <1>21, <1>t DEF Crash, RouteMove
<1>. QED
  BY <1>1, <1>2, <1>3, <1>4, <1>5, <1>6, <1>7, <1>8, <1>9, <1>10, <1>11, <1>12, <1>13,
     <1>14, <1>15, <1>16, <1>17, <1>18, <1>19, <1>20, <1>21 DEF StepOf, Handler, Failure

\* The request that takes the step.
LEMMA OwnShape ==
  ASSUME NEW r \in Request, TypeOK, Shape(r), Stores, StepOf(r)
  PROVE  Shape(r)'
<1>1. /\ OthersStay(r) /\ TargetMove(r) /\ DraftMove(r) /\ RouteMove(r) /\ ControlMove(r)
  BY OthersStayPut, TargetMoves, DraftMoves, RouteMoves, ControlMoves
<1>2. /\ pc[r] \in Steps /\ target[r] \in Wallet \cup {None}
      /\ None \notin Wallet /\ None \notin Calls
      /\ pc'[r] # "idle"
  BY <1>1, TenantNone, TenantCalls DEF TypeOK, OthersStay
<1>3. WriteActor(r) = IF call[r].op = "create" THEN "register" ELSE "putActor"
  BY DEF WriteActor
<1>4. CASE pc[r] = "idle"
  <2>1. /\ call'[r] \in Calls
        /\ target'[r] = IF call'[r].op = "create" THEN None ELSE call'[r].wallet
        /\ pc'[r] = IF call'[r].op = "create" THEN "checkName" ELSE "getWallet"
    BY <1>1, <1>4 DEF TargetMove
  <2>2. status'[r] = None /\ r \notin early'
    BY <1>1, <1>4, <2>1 DEF RouteMove, OthersStay, Shape, Deletes, Started
  <2>3. /\ call'[r].op \in {"create", "delete", "update"}
        /\ call'[r].op # "create" => call'[r].wallet \in Wallet
    BY <2>1, CallTypes
  <2>. QED
    BY <1>2, <2>1, <2>2, <2>3, TenantNone DEF Shape, Started, Running, Creates, HasDraft
<1>5. CASE pc[r] = "createWallet"
  <2>1. call'[r] = call[r] /\ call[r].op = "create" /\ call[r] \in Calls
    BY <1>1, <1>5 DEF TargetMove, Shape, Started
  <2>2. \/ target'[r] = None /\ pc'[r] = "done"
        \/ target'[r] \in Wallet /\ target'[r] \in born' /\ pc'[r] \in {"readPublicDid", "done"}
    BY <1>1, <1>2, <1>5 DEF TargetMove, RouteMove, ControlMove, Shape
  <2>3. (pc'[r] # "done" => status'[r] = None) /\ r \notin early'
    BY <1>1, <1>5, <2>1 DEF RouteMove, OthersStay, Shape, Deletes, Started
  <2>4. status'[r] = "ok" => target'[r] \in Wallet
    BY <1>1, <1>5 DEF ControlMove
  <2>. QED
    BY <1>2, <2>1, <2>2, <2>3, <2>4 DEF Shape, Started, Running, Creates, HasDraft
<1>6. CASE pc[r] \notin {"idle", "createWallet"}
  <2>1. call'[r] = call[r] /\ call[r] \in Calls /\ target'[r] = target[r]
    BY <1>1, <1>6 DEF TargetMove, Shape, Started
  <2>2. /\ pc'[r] # "done" => status'[r] = None
        /\ r \in early' => call[r].op = "delete"
    BY <1>1, <1>6 DEF RouteMove, OthersStay, Shape, Deletes
  <2>3. HasDraft(r)' => draft'[r] \in Actor
    BY <1>1 DEF DraftMove
  <2>4. HasDraft(r)' => target[r] \in born'
    <3>1. CASE HasDraft(r)
      BY <1>1, <3>1 DEF Shape, OthersStay
    <3>2. CASE call[r].op = "create" /\ target[r] # None
      BY <1>1, <1>6, <3>2 DEF Shape, OthersStay, Creates, Started
    <3>3. CASE pc[r] = "fetchActor" /\ actors[target[r]] # None
      BY <1>1, <3>3 DEF Shape, Running, Stores, OthersStay
    <3>. QED
      BY <1>1, <1>2, <1>6, <3>1, <3>2, <3>3 DEF DraftMove, HasDraft, Shape, Running,
         RouteMove
  <2>5. /\ pc'[r] \in {"checkName", "createWallet", "register", "undo"} => call[r].op = "create"
        /\ pc'[r] \in {"removeActor", "deleteWallet"} => call[r].op = "delete"
        /\ pc'[r] \in {"getToken", "putActor", "updateWallet"} => call[r].op = "update"
        /\ pc'[r] \in {"getWallet", "fetchActor"} => call[r].op \in {"delete", "update"}
        /\ pc'[r] \in {"readPublicDid", "createDid", "invite"}
             => call[r].op \in {"create", "update"}
    BY <1>1, <1>3, <1>6 DEF RouteMove, Shape
  <2>6. /\ pc'[r] \in {"checkName", "createWallet"} => target[r] = None
        /\ pc'[r] \notin {"done", "checkName", "createWallet"} => target[r] \in Wallet
    BY <1>1, <1>3, <1>6 DEF RouteMove, Shape, Running
  <2>7. /\ call[r].op # "create" => target[r] = call[r].wallet
        /\ call[r].op = "create" /\ target[r] # None => target[r] \in born'
    BY <1>1, <1>6 DEF Shape, Started, Creates, OthersStay
  <2>8. status'[r] = "ok" /\ call[r].op = "create" => target[r] \in Wallet
    BY <1>1, <1>6 DEF ControlMove, Shape, Running
  <2>. QED
    BY <1>2, <2>1, <2>2, <2>3, <2>4, <2>5, <2>6, <2>7, <2>8
    DEF Shape, Started, Running, Creates, Deletes
<1>. QED
  BY <1>4, <1>5, <1>6

\* Every step leaves every request in the shape that its next call expects.
LEMMA ShapeStep ==
  ASSUME NEW r \in Request, TypeOK, Shapes, Stores, StepOf(r)
  PROVE  Shapes'
<1>1. Shape(r)'
  BY OwnShape DEF Shapes
<1>2. ASSUME NEW q \in Request \ {r}
      PROVE  Shape(q)'
  <2>1. OthersStay(r) /\ Shape(q)
    BY OthersStayPut DEF Shapes
  <2>2. /\ pc'[q] = pc[q] /\ call'[q] = call[q] /\ target'[q] = target[q]
        /\ draft'[q] = draft[q] /\ status'[q] = status[q]
        /\ born \subseteq born' /\ (q \in early' => q \in early)
    BY <2>1 DEF OthersStay
  <2>. QED
    BY <2>1, <2>2 DEF Shape, Started, Running, Creates, Deletes, HasDraft
<1>. QED
  BY <1>1, <1>2 DEF Shapes

-----------------------------------------------------------------------------
(* Every step keeps the types.                                             *)

\* All that is said of the types of the requests' own variables.
OwnTypes(r) ==
  /\ pc'[r] \in Steps /\ status'[r] \in {"ok", "refused", "error", None}
  /\ faults' \in 0 .. MaxFaults /\ faulted' \in SUBSET {"agent", "registry", "crash"}
  /\ born' \in SUBSET Wallet

\* The variables that are functions stay functions.
Functions ==
  /\ wallets' = [w \in Wallet |-> wallets'[w]] /\ actors' = [w \in Wallet |-> actors'[w]]
  /\ pc' = [q \in Request |-> pc'[q]] /\ call' = [q \in Request |-> call'[q]]
  /\ target' = [q \in Request |-> target'[q]] /\ draft' = [q \in Request |-> draft'[q]]
  /\ status' = [q \in Request |-> status'[q]]

\* No action changes the domain of a variable.
LEMMA FunctionsStay ==
  ASSUME NEW r \in Request, TypeOK, Shape(r), StepOf(r)
  PROVE  Functions
<1> USE DEF TypeOK, Functions, store, Goto, Answer, GiveUp, FailedCall, Onboarded,
        NoPublicDid, NewWallet, NewDid
<1>1. CASE \E c \in Calls : Start(r, c)
  <2>1. PICK c \in Calls : Start(r, c)
    BY <1>1
  <2>2. call' = [call EXCEPT ![r] = c] /\ UNCHANGED <<wallets, actors, draft, status>>
    BY <2>1 DEF Start
  <2>3. \E x : target' = [target EXCEPT ![r] = x]
    BY <2>1 DEF Start
  <2>4. \E x : pc' = [pc EXCEPT ![r] = x]
    BY <2>1 DEF Start
  <2>. QED
    BY <2>2, <2>3, <2>4
<1>2. CASE CheckName(r)
  BY <1>2 DEF CheckName
<1>3. CASE CreateWallet(r)
  BY <1>3 DEF CreateWallet
<1>4. CASE RefuseWallet(r)
  BY <1>4 DEF RefuseWallet
<1>5. CASE Register(r)
  BY <1>5 DEF Register
<1>6. CASE Undo(r)
  BY <1>6 DEF Undo
<1>7. CASE ReadPublicDid(r)
  BY <1>7 DEF ReadPublicDid
<1>8. CASE CreateDid(r)
  BY <1>8 DEF CreateDid
<1>9. CASE Invite(r)
  BY <1>9 DEF Invite
<1>10. CASE GetWallet(r)
  BY <1>10 DEF GetWallet
<1>11. CASE FetchActor(r)
  BY <1>11 DEF FetchActor
<1>12. CASE RemoveActor(r)
  BY <1>12 DEF RemoveActor
<1>13. CASE DeleteWallet(r)
  BY <1>13 DEF DeleteWallet
<1>14. CASE GetToken(r)
  BY <1>14 DEF GetToken
<1>15. CASE PutActor(r)
  BY <1>15 DEF PutActor
<1>16. CASE UpdateWallet(r)
  BY <1>16 DEF UpdateWallet
<1>17. CASE MissPublicDid(r)
  BY <1>17 DEF MissPublicDid
<1>18. CASE CallFails(r)
  BY <1>18 DEF CallFails
<1>19. CASE AgentAnswerLost(r)
  BY <1>19 DEF AgentAnswerLost
<1>20. CASE RegistryAnswerLost(r)
  BY <1>20 DEF RegistryAnswerLost
<1>21. CASE Crash(r)
  BY <1>21 DEF Crash
<1>. QED
  BY <1>1, <1>2, <1>3, <1>4, <1>5, <1>6, <1>7, <1>8, <1>9, <1>10, <1>11, <1>12, <1>13,
     <1>14, <1>15, <1>16, <1>17, <1>18, <1>19, <1>20, <1>21 DEF StepOf, Handler, Failure

\* The counters, the sets and the control stay within their bounds.
LEMMA OwnTypesStay ==
  ASSUME NEW r \in Request, TypeOK, Shape(r), StepOf(r)
  PROVE  OwnTypes(r)
<1> USE TenantFaults DEF TypeOK, OwnTypes, store, blame, Goto, Answer, Steps, GiveUp,
        FailedCall, Blame, Onboarded, NoPublicDid, NewWallet, WriteActor
<1>1. CASE \E c \in Calls : Start(r, c)
  BY <1>1 DEF Start
<1>2. CASE CheckName(r)
  BY <1>2 DEF CheckName
<1>3. CASE CreateWallet(r)
  BY <1>3 DEF CreateWallet
<1>4. CASE RefuseWallet(r)
  BY <1>4 DEF RefuseWallet
<1>5. CASE Register(r)
  BY <1>5 DEF Register
<1>6. CASE Undo(r)
  BY <1>6 DEF Undo
<1>7. CASE ReadPublicDid(r)
  BY <1>7 DEF ReadPublicDid
<1>8. CASE CreateDid(r)
  BY <1>8 DEF CreateDid
<1>9. CASE Invite(r)
  BY <1>9 DEF Invite
<1>10. CASE GetWallet(r)
  BY <1>10 DEF GetWallet
<1>11. CASE FetchActor(r)
  BY <1>11 DEF FetchActor
<1>12. CASE RemoveActor(r)
  BY <1>12 DEF RemoveActor
<1>13. CASE DeleteWallet(r)
  BY <1>13 DEF DeleteWallet
<1>14. CASE GetToken(r)
  BY <1>14 DEF GetToken
<1>15. CASE PutActor(r)
  BY <1>15 DEF PutActor
<1>16. CASE UpdateWallet(r)
  BY <1>16 DEF UpdateWallet
<1>17. CASE MissPublicDid(r)
  BY <1>17 DEF MissPublicDid
<1>18. CASE CallFails(r)
  BY <1>18 DEF CallFails
<1>19. CASE AgentAnswerLost(r)
  BY <1>19 DEF AgentAnswerLost
<1>20. CASE RegistryAnswerLost(r)
  BY <1>20 DEF RegistryAnswerLost
<1>21. CASE Crash(r)
  BY <1>21 DEF Crash
<1>. QED
  BY <1>1, <1>2, <1>3, <1>4, <1>5, <1>6, <1>7, <1>8, <1>9, <1>10, <1>11, <1>12, <1>13,
     <1>14, <1>15, <1>16, <1>17, <1>18, <1>19, <1>20, <1>21 DEF StepOf, Handler, Failure

\* A draft is an actor, also the one of an update that has nothing to write.
LEMMA DraftTypes ==
  ASSUME NEW r \in Request, TypeOK, Shape(r), StepOf(r)
  PROVE  draft'[r] \in Actor \cup {None}
<1>t. /\ pc \in [Request -> Steps] /\ status \in [Request -> {"ok", "refused", "error", None}]
      /\ target \in [Request -> Wallet \cup {None}] /\ None \notin {"ok", "refused", "error"}
      /\ draft \in [Request -> Actor \cup {None}]
      /\ actors \in [Wallet -> Actor \cup {None}]
      /\ wallets \in [Wallet -> WalletRecord \cup {None}]
  BY TenantNone DEF TypeOK
<1>h. HasDraft(r)' => draft'[r] \in Actor
  BY DraftMoves DEF DraftMove
<1>1. CASE \E c \in Calls : Start(r, c)
  BY <1>1, <1>t DEF Start
<1>2. CASE CheckName(r)
  BY <1>2, <1>t DEF CheckName
<1>3. CASE CreateWallet(r)
  BY <1>3, <1>t DEF CreateWallet
<1>4. CASE RefuseWallet(r)
  BY <1>4, <1>t DEF RefuseWallet
<1>5. CASE Register(r)
  BY <1>5, <1>t DEF Register
<1>6. CASE Undo(r)
  BY <1>6, <1>t DEF Undo
<1>7. CASE ReadPublicDid(r)
  <2>1. draft' = draft \/ pc'[r] \in {"invite", "register", "putActor"}
    BY <1>7, <1>t DEF ReadPublicDid, NoPublicDid, Onboarded, Goto, WriteActor
  <2>. QED
    BY <2>1, <1>t, <1>h DEF HasDraft
<1>8. CASE CreateDid(r)
  <2>1. draft' = draft \/ pc'[r] = "invite"
    BY <1>8, <1>t DEF CreateDid, Onboarded, Goto
  <2>. QED
    BY <2>1, <1>t, <1>h DEF HasDraft
<1>9. CASE Invite(r)
  BY <1>9, <1>t DEF Invite
<1>10. CASE GetWallet(r)
  BY <1>10, <1>t DEF GetWallet
<1>11. CASE FetchActor(r)
  <2> DEFINE a == actors[target[r]]
  <2>1. target[r] \in Wallet /\ call[r] \in Calls /\ call[r].op \in {"delete", "update"}
    BY <1>11 DEF FetchActor, Shape, Running, Started
  <2>2. CASE call[r].op = "delete" \/ a = None
    BY <1>11, <1>t, <2>2 DEF FetchActor
  <2>3. CASE call[r].op = "update" /\ a # None
    <3>1. a \in Actor
      BY <2>1, <2>3, <1>t
    <3>2. draft' = [draft EXCEPT ![r] = a] \/ draft' = [draft EXCEPT ![r] = Renamed(call[r], a)]
      BY <1>11, <2>3 DEF FetchActor
    <3>3. draft'[r] = a \/ draft'[r] = Renamed(call[r], a)
      BY <3>2, <1>t
    <3>. QED
      BY <2>1, <2>3, <3>1, <3>3, RenamedActor
  <2>. QED
    BY <2>1, <2>2, <2>3
<1>12. CASE RemoveActor(r)
  BY <1>12, <1>t DEF RemoveActor
<1>13. CASE DeleteWallet(r)
  BY <1>13, <1>t DEF DeleteWallet
<1>14. CASE GetToken(r)
  BY <1>14, <1>t DEF GetToken
<1>15. CASE PutActor(r)
  BY <1>15, <1>t DEF PutActor
<1>16. CASE UpdateWallet(r)
  BY <1>16, <1>t DEF UpdateWallet
<1>17. CASE MissPublicDid(r)
  <2>1. draft' = draft \/ pc'[r] \in {"invite", "register", "putActor"}
    BY <1>17, <1>t DEF MissPublicDid, NoPublicDid, Onboarded, Goto, WriteActor
  <2>. QED
    BY <2>1, <1>t, <1>h DEF HasDraft
<1>18. CASE CallFails(r)
  BY <1>18, <1>t DEF CallFails
<1>19. CASE AgentAnswerLost(r)
  BY <1>19, <1>t DEF AgentAnswerLost
<1>20. CASE RegistryAnswerLost(r)
  BY <1>20, <1>t DEF RegistryAnswerLost
<1>21. CASE Crash(r)
  BY <1>21, <1>t DEF Crash
<1>. QED
  BY <1>1, <1>2, <1>3, <1>4, <1>5, <1>6, <1>7, <1>8, <1>9, <1>10, <1>11, <1>12, <1>13,
     <1>14, <1>15, <1>16, <1>17, <1>18, <1>19, <1>20, <1>21 DEF StepOf, Handler, Failure

\* Every step keeps the types.
LEMMA TypeStep ==
  ASSUME NEW r \in Request, TypeOK, Shape(r), StepOf(r)
  PROVE  TypeOK'
<1>1. OthersStay(r) /\ TargetMove(r) /\ OwnTypes(r) /\ Functions
  BY OthersStayPut, TargetMoves, OwnTypesStay, FunctionsStay
<1>2. \A w \in Wallet : ActorMove(r, w) /\ WalletMove(r, w)
  BY ActorMoves, WalletMoves
<1>3. \A w \in Wallet : wallets'[w] \in WalletRecord \cup {None}
  BY <1>2 DEF WalletMove, TypeOK
<1>4. \A w \in Wallet : actors'[w] \in Actor \cup {None}
  BY <1>2 DEF ActorMove, TypeOK
<1>5. \A q \in Request : pc'[q] \in Steps /\ status'[q] \in {"ok", "refused", "error", None}
  BY <1>1 DEF OthersStay, OwnTypes, TypeOK
<1>6. \A q \in Request : call'[q] \in Calls \cup {None} /\ target'[q] \in Wallet \cup {None}
  <2>1. \A q \in Request \ {r} :
          call'[q] \in Calls \cup {None} /\ target'[q] \in Wallet \cup {None}
    BY <1>1 DEF OthersStay, TypeOK
  <2>2. call'[r] \in Calls \cup {None} /\ target'[r] \in Wallet \cup {None}
    BY <1>1, CallTypes DEF TargetMove, TypeOK
  <2>. QED
    BY <2>1, <2>2
<1>7. \A q \in Request : draft'[q] \in Actor \cup {None}
  <2>1. \A q \in Request \ {r} : draft'[q] \in Actor \cup {None}
    BY <1>1 DEF OthersStay, TypeOK
  <2>2. draft'[r] \in Actor \cup {None}
    BY DraftTypes
  <2>. QED
    BY <2>1, <2>2
<1>8. early' \in SUBSET Request
  BY <1>1 DEF OthersStay, TypeOK
<1>9. /\ wallets' \in [Wallet -> WalletRecord \cup {None}]
      /\ actors' \in [Wallet -> Actor \cup {None}]
  BY <1>1, <1>3, <1>4 DEF Functions
<1>10. /\ pc' \in [Request -> Steps] /\ call' \in [Request -> Calls \cup {None}]
       /\ target' \in [Request -> Wallet \cup {None}] /\ draft' \in [Request -> Actor \cup {None}]
       /\ status' \in [Request -> {"ok", "refused", "error", None}]
  BY <1>1, <1>5, <1>6, <1>7 DEF Functions
<1>. QED
  BY <1>1, <1>8, <1>9, <1>10 DEF OwnTypes, TypeOK

-----------------------------------------------------------------------------
(* What the moves mean for the invariants.                                 *)

Moves(r) ==
  /\ OthersStay(r) /\ TargetMove(r) /\ DraftMove(r) /\ RouteMove(r) /\ ControlMove(r)
  /\ \A w \in Wallet : ActorMove(r, w) /\ WalletMove(r, w)

\* Every step makes the moves, and keeps types and shapes.
LEMMA StepMoves ==
  ASSUME NEW r \in Request, TypeOK, Shapes, Stores, StepOf(r)
  PROVE  Moves(r) /\ TypeOK' /\ Shapes'
<1>1. Shape(r)
  BY DEF Shapes
<1>2. OthersStay(r) /\ TargetMove(r) /\ DraftMove(r) /\ RouteMove(r) /\ ControlMove(r)
  BY <1>1, OthersStayPut, TargetMoves, DraftMoves, RouteMoves, ControlMoves
<1>3. \A w \in Wallet : ActorMove(r, w) /\ WalletMove(r, w)
  BY <1>1, ActorMoves, WalletMoves
<1>. QED
  BY <1>1, <1>2, <1>3, TypeStep, ShapeStep DEF Moves

\* What a request asks for never changes, and its wallet only when it makes one.
LEMMA RequestKept ==
  ASSUME NEW r \in Request, NEW q \in Request, Moves(r), Started(q)
  PROVE  /\ Started(q)' /\ call'[q] = call[q]
         /\ target'[q] = target[q] \/ (q = r /\ pc[r] = "createWallet")
BY DEF Moves, OthersStay, TargetMove, Started

\* A request that was not at work before the step and is a create has no wallet yet.
LEMMA TargetOrigin ==
  ASSUME NEW r \in Request, NEW q \in Request, TypeOK, Shapes, Moves(r),
         Creates(q)', target'[q] # None
  PROVE  \/ Creates(q) /\ target[q] = target'[q] /\ call'[q] = call[q]
         \/ /\ q = r /\ pc[r] = "createWallet" /\ Creates(r) /\ call'[r] = call[r]
            /\ target'[r] \in Wallet \ born /\ target'[r] \in born'
            /\ wallets'[target'[r]] # None
<1>1. CASE q # r
  BY <1>1 DEF Moves, OthersStay, Creates, Started
<1>2. CASE q = r
  <2>1. TargetMove(r) /\ Shape(r)
    BY DEF Moves, Shapes
  <2>2. CASE pc[r] = "idle"
    BY <1>2, <2>1, <2>2 DEF TargetMove, Creates, Started
  <2>3. CASE pc[r] # "idle" /\ target'[r] = target[r]
    BY <1>2, <2>1, <2>3 DEF TargetMove, Creates, Started
  <2>4. CASE pc[r] # "idle" /\ target'[r] # target[r]
    <3>1. /\ pc[r] = "createWallet" /\ call'[r] = call[r]
          /\ target'[r] \in Wallet \ born /\ target'[r] \in born'
          /\ wallets'[target'[r]] \in WalletRecord
      BY <2>1, <2>4 DEF TargetMove
    <3>. QED
      BY <1>2, <2>1, <3>1, TenantNone DEF Shape, Creates, Started
  <2>. QED
    BY <2>2, <2>3, <2>4
<1>. QED
  BY <1>1, <1>2

\* A wallet id is handed out to one create, and every DID of a wallet is counted.
LEMMA StoresStep ==
  ASSUME NEW r \in Request, TypeOK, Shapes, Stores, Moves(r)
  PROVE  Stores'
<1>1. ASSUME NEW w \in Wallet \ born'
      PROVE  wallets'[w] = None /\ actors'[w] = None
  <2>1. w \notin born /\ wallets[w] = None /\ actors[w] = None
    BY <1>1 DEF Stores, Moves, OthersStay
  <2>2. WalletMove(r, w) /\ ActorMove(r, w) /\ Shape(r)
    BY <1>1 DEF Moves, Shapes
  <2>3. pc[r] = "register" => target[r] # w
    BY <2>1, <2>2 DEF Shape, HasDraft
  <2>. QED
    BY <1>1, <2>1, <2>2, <2>3 DEF WalletMove, ActorMove
<1>2. ASSUME NEW w \in Wallet, wallets'[w] # None
      PROVE  IF wallets'[w].made = 0 THEN wallets'[w].did = 0
             ELSE wallets'[w].did \in 1 .. wallets'[w].made
  <2>1. WalletMove(r, w)
    BY DEF Moves
  <2>2. wallets[w] # None =>
          /\ wallets[w].made \in Nat /\ wallets[w].did \in Nat
          /\ IF wallets[w].made = 0 THEN wallets[w].did = 0
             ELSE wallets[w].did \in 1 .. wallets[w].made
    BY DEF Stores, TypeOK, WalletRecord
  <2>. QED
    BY <1>2, <2>1, <2>2 DEF WalletMove
<1>3. ASSUME NEW p \in Request, NEW q \in Request, Creates(p)', Creates(q)',
             target'[p] = target'[q], target'[p] # None
      PROVE  p = q
  <2>1. \A s \in Request : Creates(s) /\ target[s] # None => target[s] \in born
    BY DEF Shapes, Shape
  <2>2. \/ Creates(p) /\ target[p] = target'[p]
        \/ p = r /\ target'[p] \notin born
    BY <1>3, TargetOrigin
  <2>3. \/ Creates(q) /\ target[q] = target'[q]
        \/ q = r /\ target'[q] \notin born
    BY <1>3, TargetOrigin
  <2>. QED
    BY <1>3, <2>1, <2>2, <2>3 DEF Stores
<1>. QED
  BY <1>1, <1>2, <1>3 DEF Stores

-----------------------------------------------------------------------------
(* No role of a create is lost.                                            *)

\* A role that an actor had at first is not dropped, nor by a draft of it.
LEMMA RolesStep ==
  ASSUME NEW r \in Request, TypeOK, Shapes, Stores, Moves(r), Shapes',
         DraftsKeepRoles, InitialRolesKept
  PROVE  DraftsKeepRoles' /\ InitialRolesKept'
<1>1. ASSUME NEW p \in Request, Creates(p)',
             NEW q \in Request, HasDraft(q)', target'[q] = target'[p]
      PROVE  call'[p].roles \subseteq draft'[q].roles
  <2>1. target'[p] # None /\ target'[q] \in Wallet
    BY <1>1, TenantNone DEF Shapes, Shape, HasDraft, Running
  <2>2. CASE Creates(p) /\ target[p] = target'[p] /\ call'[p] = call[p]
    <3>1. target[p] \in Wallet /\ call[p].roles \subseteq call[p].roles
      BY <1>1, <2>1, <2>2
    <3>2. CASE q # r
      <4>1. HasDraft(q) /\ target[q] = target[p] /\ draft'[q] = draft[q]
        BY <1>1, <2>2, <3>2 DEF Moves, OthersStay, HasDraft
      <4>. QED
        BY <2>2, <4>1 DEF DraftsKeepRoles
    <3>3. CASE q = r
      <4>1. DraftMove(r) /\ Shape(r) /\ pc[r] # "idle"
        BY <1>1, <3>3 DEF Moves, Shapes, TargetMove, HasDraft
      <4>2. pc[r] # "createWallet"
        BY <1>1, <3>3 DEF Moves, RouteMove, HasDraft, TargetMove, Shapes, Shape
      <4>3. target[r] = target[p] /\ call'[r] = call[r]
        BY <1>1, <2>2, <3>3, <4>1, <4>2 DEF Moves, TargetMove
      <4>4. CASE HasDraft(r) /\ draft'[r] = draft[r]
        BY <2>2, <3>3, <4>3, <4>4 DEF DraftsKeepRoles
      <4>5. CASE pc[r] = "fetchActor" /\ actors[target[r]] # None
                 /\ draft'[r].roles = actors[target[r]].roles
        BY <2>2, <3>1, <3>3, <4>3, <4>5 DEF InitialRolesKept, Creates, Started
      <4>6. CASE /\ pc[r] \in {"readPublicDid", "createDid"}
                 /\ draft'[r].roles = IF call[r].op = "create" THEN call[r].roles
                                      ELSE call[r].roles \cup draft[r].roles
        <5>1. CASE call[r].op = "create"
          <6>1. Creates(r) /\ p = r
            BY <2>1, <2>2, <4>1, <4>3, <5>1 DEF Creates, Started, Stores
          <6>. QED
            BY <2>2, <3>3, <4>6, <5>1, <6>1
        <5>2. CASE call[r].op # "create"
          <6>1. HasDraft(r)
            BY <4>1, <4>6, <5>2 DEF HasDraft, Shape
          <6>2. call[p].roles \subseteq draft[r].roles
            BY <2>2, <4>3, <6>1 DEF DraftsKeepRoles
          <6>. QED
            BY <2>2, <3>3, <4>6, <5>2, <6>2
        <5>. QED
          BY <5>1, <5>2
      <4>. QED
        BY <1>1, <3>3, <4>1, <4>4, <4>5, <4>6 DEF DraftMove
    <3>. QED
      BY <3>2, <3>3
  <2>3. CASE p = r /\ pc[r] = "createWallet" /\ target'[r] \notin born
    <3>1. q # r
      BY <1>1, <2>3 DEF Moves, RouteMove, HasDraft, Creates, TargetMove
    <3>2. HasDraft(q) /\ target[q] = target'[q]
      BY <1>1, <3>1 DEF Moves, OthersStay, HasDraft
    <3>. QED
      BY <1>1, <2>3, <3>2 DEF Shapes, Shape
  <2>. QED
    BY <1>1, <2>1, <2>2, <2>3, TargetOrigin
<1>2. ASSUME NEW p \in Request, Creates(p)', target'[p] \in Wallet, actors'[target'[p]] # None
      PROVE  call'[p].roles \subseteq actors'[target'[p]].roles
  <2>1. target'[p] # None
    BY <1>2, TenantNone
  <2>2. CASE Creates(p) /\ target[p] = target'[p] /\ call'[p] = call[p]
    <3>1. ActorMove(r, target[p])
      BY <1>2, <2>2 DEF Moves
    <3>2. CASE actors'[target[p]] = actors[target[p]]
      BY <1>2, <2>2, <3>2 DEF InitialRolesKept, Creates, Started
    <3>3. CASE pc[r] \in {"register", "putActor"} /\ target[r] = target[p]
               /\ actors'[target[p]] = draft[r]
      BY <2>2, <3>3 DEF DraftsKeepRoles, HasDraft
    <3>. QED
      BY <1>2, <2>2, <3>1, <3>2, <3>3 DEF ActorMove
  <2>3. CASE p = r /\ pc[r] = "createWallet" /\ target'[r] \notin born
    <3>1. actors[target'[r]] = None
      BY <1>2, <2>3 DEF Stores
    <3>2. ActorMove(r, target'[r])
      BY <1>2, <2>3 DEF Moves
    <3>. QED
      BY <1>2, <2>3, <3>1, <3>2 DEF ActorMove
  <2>. QED
    BY <1>2, <2>1, <2>2, <2>3, TargetOrigin
<1>. QED
  BY <1>1, <1>2 DEF DraftsKeepRoles, InitialRolesKept, Creates, Started

-----------------------------------------------------------------------------
(* What is deleted stays deleted.                                          *)

\* A create that works on a wallet with an id did so before the step.
LEMMA CreatedBefore ==
  ASSUME NEW r \in Request, NEW w \in Wallet, w \in born, TypeOK, Shapes, Moves(r),
         ~BeingCreated(w)
  PROVE  ~BeingCreated(w)'
<1>1. SUFFICES ASSUME NEW q \in Request, pc'[q] \notin {"idle", "done"},
                      call'[q].op = "create", target'[q] = w
               PROVE  FALSE
  BY DEF BeingCreated
<1>2. Creates(q) /\ target[q] = w /\ call'[q] = call[q]
  BY <1>1, TargetOrigin, TenantNone DEF Creates, Started
<1>3. pc[q] \notin {"idle", "done"}
  BY <1>1, <1>2 DEF Moves, OthersStay, Creates, Started
<1>. QED
  BY <1>1, <1>2, <1>3 DEF BeingCreated, Creates

\* What a delete finds settled stays so: nobody registers the tenant again.
LEMMA SettledStep ==
  ASSUME NEW r \in Request, TypeOK, Shapes, Stores, Settled, Moves(r), Shapes'
  PROVE  Settled'
<1>0. \A q \in Request : Deletes(q)' => target'[q] \in Wallet
  BY CallTypes DEF Shapes, Shape, Deletes, Started
<1>1. SUFFICES ASSUME NEW q \in Request, NEW w \in Wallet, target'[q] = w,
                      q \notin early', Deletes(q)', Past(q)'
               PROVE  /\ w \in born' /\ ~BeingCreated(w)'
                      /\ pc'[q] = "deleteWallet" \/ status'[q] = "ok" => actors'[w] = None
  BY <1>0 DEF Settled
<1>2. /\ call[q] = call'[q] /\ target[q] = target'[q] /\ Deletes(q) /\ q \notin early
      /\ target[q] = w
  <2>1. pc[q] # "idle"
    BY <1>1, TenantNone DEF Moves, OthersStay, TargetMove, Past, Deletes, Started, Shapes,
       Shape
  <2>2. call[q] = call'[q] /\ call[q].op = "delete" /\ call[q] \in Calls
    BY <1>1, <2>1, RequestKept DEF Started, Deletes, Shapes, Shape
  <2>3. ~(q = r /\ pc[r] = "createWallet")
    BY <2>2 DEF Shapes, Shape
  <2>. QED
    BY <1>1, <2>1, <2>2, <2>3, RequestKept, CallTypes
    DEF Started, Deletes, Moves, OthersStay, Shapes, Shape
<1>3. w \in born /\ ~BeingCreated(w)
  <2>1. CASE Past(q)
    BY <1>2, <2>1 DEF Settled
  <2>2. CASE ~Past(q)
    <3>1. q = r
      BY <1>1, <2>2 DEF Moves, OthersStay, Past
    <3>2. pc'[r] \in {"fetchActor", "removeActor", "deleteWallet"} \/ status'[r] = "ok"
      BY <1>1, <3>1 DEF Past
    <3>3. ControlMove(r)
      BY DEF Moves
    <3>4. call[r].op = "delete" /\ Shape(r)
      BY <1>2, <3>1 DEF Deletes, Shapes
    <3>5. pc'[r] = "fetchActor"
      BY <2>2, <3>1, <3>2, <3>3, <3>4 DEF ControlMove, Past, Shape
    <3>6. wallets[target[r]] # None /\ ~BeingCreated(target[r])
      BY <1>1, <3>1, <3>3, <3>4, <3>5 DEF ControlMove
    <3>. QED
      BY <1>2, <3>1, <3>6 DEF Stores
  <2>. QED
    BY <2>1, <2>2
<1>4. w \in born' /\ ~BeingCreated(w)'
  BY <1>2, <1>3, CreatedBefore DEF Moves, OthersStay
<1>5. ASSUME pc'[q] = "deleteWallet" \/ status'[q] = "ok"
      PROVE  actors'[w] = None
  <2>1. ActorMove(r, w) /\ Shape(r)
    BY <1>2 DEF Moves, Shapes
  <2>2. ~(pc[r] = "register" /\ target[r] = w)
    BY <1>2, <1>3, <2>1 DEF Shape, BeingCreated
  <2>3. CASE pc[q] = "deleteWallet" \/ status[q] = "ok"
    <3>1. actors[w] = None
      BY <1>2, <2>3 DEF Settled, Past
    <3>. QED
      BY <2>1, <2>2, <3>1 DEF ActorMove
  <2>4. CASE ~(pc[q] = "deleteWallet" \/ status[q] = "ok")
    <3>1. q = r /\ ControlMove(r)
      BY <1>5, <2>4 DEF Moves, OthersStay
    <3>2. call[r].op = "delete"
      BY <1>2, <3>1 DEF Deletes
    <3>3. \/ pc[r] = "fetchActor" /\ actors[target[r]] = None
          \/ pc[r] = "removeActor" /\ actors'[target[r]] = None
      BY <1>5, <2>1, <2>4, <3>1, <3>2 DEF ControlMove, Shape
    <3>. QED
      BY <1>2, <2>1, <3>1, <3>3 DEF ActorMove
  <2>. QED
    BY <2>3, <2>4
<1>. QED
  BY <1>2, <1>4, <1>5

-----------------------------------------------------------------------------
(* What a failed create has made is deleted.                               *)

\* A wallet that is gone does not come back.
LEMMA GoneForGood ==
  ASSUME NEW r \in Request, NEW w \in Wallet, w \in born, wallets[w] = None, Moves(r)
  PROVE  wallets'[w] = None
<1>1. WalletMove(r, w)
  BY DEF Moves
<1>. QED
  BY <1>1 DEF WalletMove

\* A create that fails leaves no wallet, unless the agent fails.
LEMMA NoStrayStep ==
  ASSUME NEW r \in Request, TypeOK, Shapes, Stores, NoStrayWallet, Moves(r), Shapes'
  PROVE  NoStrayWallet'
<1>1. SUFFICES ASSUME NEW q \in Request, pc'[q] = "done", call'[q].op = "create",
                      status'[q] # "ok", target'[q] \in Wallet
               PROVE  wallets'[target'[q]] = None \/ faulted' \cap {"agent", "crash"} # {}
  BY DEF NoStrayWallet
<1>2. target'[q] # None
  BY <1>1, TenantNone
<1>3. CASE q # r
  <2>1. /\ pc[q] = "done" /\ call[q].op = "create" /\ status[q] # "ok"
        /\ target[q] = target'[q] /\ faulted \subseteq faulted'
    BY <1>1, <1>3 DEF Moves, OthersStay
  <2>2. target[q] \in born
    BY <1>2, <2>1 DEF Shapes, Shape, Creates, Started
  <2>3. wallets[target[q]] = None \/ faulted \cap {"agent", "crash"} # {}
    BY <1>1, <2>1 DEF NoStrayWallet
  <2>. QED
    BY <1>1, <2>1, <2>2, <2>3, GoneForGood
<1>4. CASE q = r
  <2>1. Shape(r) /\ ControlMove(r) /\ TargetMove(r)
    BY DEF Shapes, Moves
  <2>2. pc[r] # "idle" /\ call'[r] = call[r]
    BY <1>1, <1>4, <2>1 DEF TargetMove
  <2>3. pc[r] = "createWallet" => target'[r] = target[r]
    BY <1>1, <1>4, <2>1 DEF TargetMove
  <2>4. pc[r] \notin {"checkName", "createWallet"}
    BY <1>1, <1>2, <1>4, <2>1, <2>2, <2>3 DEF TargetMove, Shape
  <2>5. target'[r] = target[r]
    BY <2>1, <2>2, <2>4 DEF TargetMove
  <2>. QED
    BY <1>1, <1>4, <2>1, <2>2, <2>4, <2>5 DEF ControlMove
<1>. QED
  BY <1>3, <1>4

-----------------------------------------------------------------------------
(* A create that goes on, or has succeeded, has its wallet and its actor.  *)

\* A delete that has seen a running create keeps its wallet.
LEMMA EarlyKept ==
  ASSUME NEW r \in Request, NEW q \in early, TypeOK, Shapes, Moves(r)
  PROVE  q \in Request /\ q \in early' /\ Deletes(q) /\ Deletes(q)' /\ target'[q] = target[q]
<1>1. q \in Request /\ Deletes(q) /\ pc[q] # "createWallet"
  BY DEF TypeOK, Shapes, Shape, Deletes
<1>2. q \in early'
  BY DEF Moves, OthersStay
<1>. QED
  BY <1>1, <1>2, RequestKept DEF Deletes

\* Who takes a wallet from a create that needs it: a delete that has seen the create.
LEMMA WalletTaken ==
  ASSUME NEW r \in Request, NEW q \in Request, NEW w \in Wallet, TypeOK, Shapes, Stores, Settled,
         Moves(r), Pending(q), target[q] = w, wallets[w] # None, wallets'[w] = None
  PROVE  q = r \/ (r \in early /\ target[r] = w)
<1>1. WalletMove(r, w) /\ Shape(r)
  BY DEF Moves, Shapes
<1>2. pc[r] \in {"undo", "deleteWallet"} /\ target[r] = w
  BY <1>1, TenantNone DEF WalletMove
<1>3. CASE pc[r] = "undo"
  BY <1>1, <1>2, <1>3, TenantNone DEF Shape, Stores, Pending, Creates, Started
<1>4. CASE pc[r] = "deleteWallet" /\ r \notin early
  <2>1. ~BeingCreated(w)
    BY <1>1, <1>2, <1>4 DEF Settled, Past, Deletes, Started, Shape
  <2>. QED
    BY <2>1 DEF BeingCreated, Pending, Creates
<1>. QED
  BY <1>2, <1>3, <1>4

\* A create under way has its wallet, and no actor yet.
LEMMA ProgressStep ==
  ASSUME NEW r \in Request, TypeOK, Shapes, Stores, Settled, Progress, Moves(r), Shapes'
  PROVE  Progress'
<1>1. ASSUME NEW q \in Request, NEW w \in Wallet, target'[q] = w, Pending(q)', wallets'[w] = None
      PROVE  \E p \in early' : target'[p] = w
  <2>1. /\ Creates(q) /\ target[q] = w /\ call'[q] = call[q]
    BY <1>1, TargetOrigin, TenantNone DEF Pending
  <2>2. Pending(q)
    BY <1>1, <2>1, TenantNone DEF Pending, Moves, OthersStay, ControlMove, Shapes, Shape,
       Creates,
       TargetMove
  <2>3. CASE wallets[w] = None
    BY <2>1, <2>2, <2>3, EarlyKept DEF Progress
  <2>4. CASE wallets[w] # None
    <3>1. q # r
      BY <1>1, <2>1, <2>2, <2>4, TenantNone DEF Moves, WalletMove, Pending
    <3>2. r \in early /\ target[r] = w
      BY <1>1, <2>1, <2>2, <2>4, <3>1, WalletTaken
    <3>. QED
      BY <3>2, EarlyKept
  <2>. QED
    BY <2>3, <2>4
<1>2. ASSUME NEW q \in Request, NEW w \in Wallet, target'[q] = w, Creates(q)', Running(q)'
      PROVE  actors'[w] = None \/ "registry" \in faulted'
  <2>1. ActorMove(r, w) /\ faulted \subseteq faulted' /\ Shape(r)
    BY DEF Moves, OthersStay, Shapes
  <2>2. CASE Creates(q) /\ target[q] = w /\ call'[q] = call[q]
    <3>1. Running(q)
      BY <1>2, <2>2 DEF Running, Moves, OthersStay, Creates, Started
    <3>2. actors[w] = None \/ "registry" \in faulted
      BY <2>2, <3>1, TenantNone DEF Progress
    <3>3. CASE pc[r] = "register" /\ target[r] = w /\ status'[r] = "ok"
      <4>1. q = r
        BY <2>1, <2>2, <3>3, TenantNone DEF Stores, Shape, Creates, Started
      <4>. QED
        BY <1>2, <3>3, <4>1, TenantNone DEF Shapes, Shape, Running
    <3>. QED
      BY <2>1, <3>2, <3>3 DEF ActorMove
  <2>3. CASE w \notin born
    BY <2>1, <2>3 DEF Stores, ActorMove, Shape, HasDraft
  <2>. QED
    BY <1>2, <2>2, <2>3, TargetOrigin, TenantNone
<1>3. ASSUME NEW q \in Request, Creates(q)', target'[q] # None
      PROVE  target'[q] \in Wallet
  <2>1. (Creates(q) /\ target[q] = target'[q]) \/ target'[q] \in Wallet
    BY <1>3, TargetOrigin
  <2>. QED
    BY <1>3, <2>1 DEF TypeOK
<1>4. ASSUME NEW q \in Request, Pending(q)'
      PROVE  target'[q] \in Wallet
  BY <1>4 DEF Shapes, Shape, Pending, Running
<1>. QED
  BY <1>1, <1>2, <1>3, <1>4 DEF Progress, Pending

\* What a create answered for has its actor, unless it was deleted.
LEMMA CreatedStep ==
  ASSUME NEW r \in Request, TypeOK, Shapes, Stores, Settled, Progress, CreatedIsRegistered,
         Moves(r), Shapes'
  PROVE  CreatedIsRegistered'
<1>1. SUFFICES ASSUME NEW q \in Request, status'[q] = "ok", call'[q].op = "create",
                      call'[q].roles # {},
                      \A p \in Request : Deletes(p)' => target'[p] # target'[q]
               PROVE  actors'[target'[q]] # None /\ wallets'[target'[q]] # None
  BY DEF CreatedIsRegistered, Deletes, Started
<1>2. Shape(r) /\ ControlMove(r) /\ TargetMove(r) /\ pc'[q] = "done"
  BY <1>1, TenantNone DEF Shapes, Shape, Moves
<1>3. pc[q] # "idle" /\ call'[q] = call[q]
  BY <1>1, <1>2 DEF TargetMove, Moves, OthersStay
<1>4. pc[q] # "createWallet" /\ target'[q] = target[q]
  BY <1>1, <1>2, <1>3, TenantNone DEF TargetMove, ControlMove, Moves, OthersStay, Shapes,
     Shape
<1>5. \A p \in Request : Deletes(p) => target[p] # target[q]
  <2>1. ASSUME NEW p \in Request, Deletes(p)
        PROVE  target[p] # target[q]
    <3>1. pc[p] # "createWallet"
      BY <2>1 DEF Shapes, Shape, Deletes
    <3>. QED
      BY <1>1, <1>4, <2>1, <3>1, RequestKept DEF Deletes
  <2>. QED
    BY <2>1
<1>6. CASE status[q] = "ok"
  <2>1. actors[target[q]] # None /\ wallets[target[q]] # None
    BY <1>1, <1>3, <1>5, <1>6 DEF CreatedIsRegistered, Deletes, Started
  <2>2. PICK w \in Wallet : target[q] = w
    BY <1>1, <1>3, <1>6 DEF Shapes, Shape, Creates, Started
  <2>3. pc[q] = "done" /\ Creates(q)
    BY <1>1, <1>3, <1>6, TenantNone DEF Shapes, Shape, Creates, Started
  <2>4. WalletMove(r, w) /\ ActorMove(r, w)
    BY DEF Moves
  <2>5. pc[r] \notin {"removeActor", "deleteWallet"} \/ target[r] # w
    BY <1>2, <1>5, <2>2 DEF Shape, Deletes, Started
  <2>6. pc[r] # "undo" \/ target[r] # w
    BY <1>2, <2>2, <2>3, TenantNone DEF Shape, Stores, Creates, Started
  <2>7. wallets'[w] # None
    BY <2>1, <2>2, <2>4, <2>5, <2>6, TenantNone DEF WalletMove
  <2>8. actors'[w] # None
    BY <1>2, <2>1, <2>2, <2>4, <2>5, TenantNone DEF ActorMove, Shape, HasDraft
  <2>. QED
    BY <1>4, <2>2, <2>7, <2>8
<1>7. CASE status[q] # "ok"
  <2>1. q = r
    BY <1>1, <1>7 DEF Moves, OthersStay
  <2>2. pc[r] = "register" /\ actors'[target[r]] = draft[r]
    BY <1>1, <1>2, <1>3, <1>4, <2>1 DEF ControlMove, Shape
  <2>3. actors'[target[r]] # None
    BY <1>2, <2>2, TenantNone DEF Shape, HasDraft
  <2>4. PICK w \in Wallet : target[r] = w
    BY <1>2, <2>2 DEF Shape, Running
  <2>5. wallets[w] # None
    <3>1. SUFFICES ASSUME wallets[w] = None
                   PROVE  FALSE
      OBVIOUS
    <3>2. PICK p \in early : target[p] = w
      BY <1>2, <2>2, <2>4, <3>1 DEF Progress, Pending, Creates, Started, Shape
    <3>. QED
      BY <1>5, <2>1, <2>4, <3>2, EarlyKept
  <2>6. wallets'[w] = wallets[w]
    BY <2>2, <2>4, <2>5 DEF Moves, WalletMove, Stores
  <2>. QED
    BY <1>4, <2>1, <2>3, <2>4, <2>5, <2>6
<1>. QED
  BY <1>6, <1>7

\* An actor without a wallet has its cause.
LEMMA OrphanStep ==
  ASSUME NEW r \in Request, TypeOK, Shapes, Stores, Settled, Progress, NoOrphanActor, Moves(r)
  PROVE  NoOrphanActor'
<1>1. SUFFICES ASSUME NEW w \in Wallet, actors'[w] # None, wallets'[w] = None,
                      "registry" \notin faulted'
               PROVE  \E q \in early' : target'[q] = w
  BY DEF NoOrphanActor
<1>2. ActorMove(r, w) /\ WalletMove(r, w) /\ Shape(r) /\ "registry" \notin faulted
  BY <1>1 DEF Moves, Shapes, OthersStay
<1>3. SUFFICES \E q \in early : target[q] = w
  BY EarlyKept
<1>4. CASE actors[w] # None /\ wallets[w] = None
  BY <1>2, <1>4 DEF NoOrphanActor
<1>5. CASE actors[w] = None
  <2>1. pc[r] = "register" /\ target[r] = w
    BY <1>1, <1>2, <1>5 DEF ActorMove
  <2>2. Pending(r)
    BY <1>2, <2>1 DEF Pending, Creates, Started, Shape
  <2>3. wallets[w] = None
    BY <1>1, <1>2, <2>1 DEF WalletMove
  <2>. QED
    BY <2>1, <2>2, <2>3 DEF Progress
<1>6. CASE actors[w] # None /\ wallets[w] # None
  <2>1. pc[r] \in {"undo", "deleteWallet"} /\ target[r] = w
    BY <1>1, <1>2, <1>6, TenantNone DEF WalletMove
  <2>2. CASE pc[r] = "undo"
    BY <1>2, <1>6, <2>1, <2>2, TenantNone DEF Progress, Shape, Creates, Started, Running
  <2>3. CASE pc[r] = "deleteWallet"
    BY <1>2, <1>6, <2>1, <2>3 DEF Settled, Past, Deletes, Started, Shape
  <2>. QED
    BY <2>1, <2>2, <2>3
<1>. QED
  BY <1>4, <1>5, <1>6

-----------------------------------------------------------------------------
(* An issuer is known by its public DID.                                   *)

\* Nothing that happens to a wallet makes a known actor unknown.
LEMMA KnownKept ==
  ASSUME NEW r \in Request, NEW w \in Wallet, NEW a \in Actor, w \in born,
         TypeOK, Stores, Moves(r), Known(a, w)
  PROVE  Known(a, w)'
<1>1. WalletMove(r, w) /\ faulted \subseteq faulted'
  BY DEF Moves, OthersStay
<1>2. SUFFICES ASSUME "issuer" \in a.roles, "agent" \notin faulted', wallets'[w] # None,
                      wallets'[w].made <= 1
               PROVE  a.did = 1 /\ wallets'[w].made = 1
  BY DEF Known
<1>3. wallets[w] # None
  BY <1>1, <1>2 DEF WalletMove
<1>4. wallets[w].made \in Nat
  BY <1>3 DEF TypeOK, WalletRecord
<1>5. wallets'[w].made \in {wallets[w].made, wallets[w].made + 1}
  BY <1>1, <1>2 DEF WalletMove
<1>6. wallets[w].made <= 1
  BY <1>2, <1>4, <1>5
<1>7. a.did = 1 /\ wallets[w].made = 1
  BY <1>1, <1>2, <1>3, <1>6 DEF Known
<1>. QED
  BY <1>2, <1>5, <1>7

\* What onboarding makes of a draft is known.
LEMMA OnboardedKnown ==
  ASSUME NEW r \in Request, NEW w \in Wallet, w = target[r], TypeOK, Shapes, Stores, IssuersKnown,
         Moves(r), HasDraft(r)', pc[r] \in {"readPublicDid", "createDid"},
         NEW a \in Actor, a = draft'[r], ~(HasDraft(r) /\ draft'[r] = draft[r])
  PROVE  Known(a, w)'
<1>1. WalletMove(r, w) /\ DraftMove(r) /\ Shape(r) /\ faulted \subseteq faulted'
  BY DEF Moves, Shapes, OthersStay
<1>2. SUFFICES ASSUME "issuer" \in a.roles, "agent" \notin faulted', wallets'[w] # None,
                      wallets'[w].made <= 1
               PROVE  a.did = 1 /\ wallets'[w].made = 1
  BY DEF Known
<1>3. CASE pc[r] = "createDid"
  <2>1. a.did # 0 /\ wallets'[w].made = a.did
    BY <1>1, <1>3 DEF DraftMove
  <2>2. a.did \in Nat
    BY DEF Actor
  <2>. QED
    BY <1>2, <2>1, <2>2
<1>4. CASE pc[r] = "readPublicDid"
  <2>1. wallets'[w] = wallets[w]
    BY <1>1, <1>4 DEF WalletMove
  <2>2. wallets[w].made \in Nat /\ (wallets[w].made = 0 => wallets[w].did = 0)
        /\ (wallets[w].made = 1 => wallets[w].did = 1)
    BY <1>2, <2>1 DEF Stores, TypeOK, WalletRecord
  <2>3. CASE a.did = wallets[w].did /\ wallets[w].did # 0
    BY <1>2, <2>1, <2>2, <2>3
  <2>4. CASE /\ "issuer" \notin RolesToOnboard(r)
             /\ wallets[w] = None \/ wallets[w].did = 0 \/ "agent" \in faulted'
    <3>1. wallets[w].made = 0
      BY <1>2, <2>1, <2>2, <2>4
    <3>2. a.roles = IF call[r].op = "create" THEN call[r].roles
                    ELSE call[r].roles \cup draft[r].roles
      BY <1>1, <1>4 DEF DraftMove
    <3>3. call[r].op # "create" /\ "issuer" \in draft[r].roles
      BY <1>2, <2>4, <3>2 DEF RolesToOnboard, Added
    <3>4. HasDraft(r)
      BY <1>1, <1>4, <3>3 DEF HasDraft, Shape
    <3>5. Known(draft[r], w)
      BY <3>4 DEF IssuersKnown
    <3>. QED
      BY <1>1, <1>2, <2>1, <3>1, <3>3, <3>5 DEF Known
  <2>. QED
    BY <1>1, <1>4, <2>3, <2>4 DEF DraftMove
<1>. QED
  BY <1>3, <1>4

\* The DID of an issuer is one that its wallet has.
LEMMA KnownStep ==
  ASSUME NEW r \in Request, TypeOK, TypeOK', Shapes, Stores, IssuersKnown, Moves(r), Shapes'
  PROVE  IssuersKnown'
<1>1. ASSUME NEW w \in Wallet, NEW a \in Actor, actors'[w] = a
      PROVE  Known(a, w)'
  <2>1. ActorMove(r, w) /\ Shape(r) /\ a # None
    BY TenantNone DEF Moves, Shapes
  <2>2. w \in born
    BY <1>1, <2>1 DEF ActorMove, Stores, Shape, HasDraft
  <2>3. Known(a, w)
    <3>1. CASE actors[w] = a
      BY <2>1, <3>1 DEF IssuersKnown
    <3>2. CASE HasDraft(r) /\ target[r] = w /\ draft[r] = a
      BY <3>2 DEF IssuersKnown
    <3>. QED
      BY <1>1, <2>1, <3>1, <3>2 DEF ActorMove, HasDraft
  <2>. QED
    BY <2>2, <2>3, KnownKept
<1>2. ASSUME NEW q \in Request, NEW w \in Wallet, NEW a \in Actor, HasDraft(q)', target'[q] = w,
             draft'[q] = a
      PROVE  Known(a, w)'
  <2>1. CASE HasDraft(q) /\ target[q] = w /\ draft[q] = a
    <3>1. Known(a, w) /\ w \in born
      BY <2>1 DEF IssuersKnown, Shapes, Shape
    <3>. QED
      BY <3>1, KnownKept
  <2>2. CASE ~(HasDraft(q) /\ target[q] = w /\ draft[q] = a)
    <3>1. q = r
      BY <1>2, <2>2 DEF Moves, OthersStay, HasDraft
    <3>2. DraftMove(r) /\ Shape(r)
      BY DEF Moves, Shapes
    <3>3. pc[r] # "idle" /\ pc[r] # "createWallet"
      BY <1>2, <3>1, TenantCalls DEF Moves, TargetMove, RouteMove, HasDraft, Shapes, Shape
    <3>4. target[r] = w
      BY <1>2, <3>1, <3>3 DEF Moves, TargetMove
    <3>5. CASE pc[r] = "fetchActor"
      <4>1. /\ actors[w] # None
            /\ a.roles = actors[w].roles /\ a.did = actors[w].did
        BY <1>2, <2>2, <3>1, <3>2, <3>4, <3>5 DEF DraftMove, HasDraft
      <4>2. Known(a, w) /\ w \in born
        BY <4>1 DEF IssuersKnown, Known, Stores
      <4>. QED
        BY <4>2, KnownKept
    <3>6. CASE pc[r] \in {"readPublicDid", "createDid"}
      BY <1>2, <2>2, <3>1, <3>4, <3>6, OnboardedKnown
    <3>. QED
      BY <1>2, <2>2, <3>1, <3>2, <3>4, <3>5, <3>6 DEF DraftMove
  <2>. QED
    BY <2>1, <2>2
<1>3. \A w \in Wallet : (actors[w] # None => Known(actors[w], w))'
  <2>1. ASSUME NEW w \in Wallet, actors'[w] # None
        PROVE  Known(actors[w], w)'
    <3>1. PICK a \in Actor : actors'[w] = a
      BY <2>1 DEF TypeOK
    <3>2. Known(a, w)'
      BY <1>1, <3>1
    <3>. QED
      BY <3>1, <3>2 DEF Known
  <2>. QED
    BY <2>1
<1>4. \A q \in Request : (HasDraft(q) => Known(draft[q], target[q]))'
  <2>1. ASSUME NEW q \in Request, HasDraft(q)'
        PROVE  Known(draft[q], target[q])'
    <3>1. PICK a \in Actor : draft'[q] = a
      BY <2>1 DEF Shapes, Shape
    <3>2. PICK w \in Wallet : target'[q] = w
      BY <2>1 DEF Shapes, Shape, HasDraft, Running
    <3>3. Known(a, w)'
      BY <1>2, <2>1, <3>1, <3>2
    <3>. QED
      BY <3>1, <3>2, <3>3 DEF Known
  <2>. QED
    BY <2>1
<1>. QED
  BY <1>3, <1>4 DEF IssuersKnown

-----------------------------------------------------------------------------
(* The theorems.                                                           *)

\* The initial states satisfy Inv.
LEMMA InvInit == Init => Inv
<1> SUFFICES ASSUME Init
             PROVE  Inv
  OBVIOUS
<1>1. TypeOK
  BY TenantFaults DEF Init, TypeOK, Steps
<1>2. Shapes
  BY DEF Init, Shapes, Shape, Started, Running, Creates, Deletes, HasDraft
<1>3. Stores /\ DraftsKeepRoles /\ InitialRolesKept
  BY DEF Init, Stores, DraftsKeepRoles, InitialRolesKept, Creates, Started
<1>4. Settled /\ NoStrayWallet /\ CreatedIsRegistered
  BY TenantNone DEF Init, Settled, Deletes, Started, NoStrayWallet, CreatedIsRegistered
<1>5. Progress /\ NoOrphanActor /\ IssuersKnown
  BY DEF Init, Progress, Pending, Creates, Started, NoOrphanActor, IssuersKnown, HasDraft
<1>. QED
  BY <1>1, <1>2, <1>3, <1>4, <1>5 DEF Inv

\* Every step keeps Inv.
LEMMA InvStep == Inv /\ [Next]_vars => Inv'
<1> SUFFICES ASSUME Inv, [Next]_vars
             PROVE  Inv'
  OBVIOUS
<1>1. CASE UNCHANGED vars
  <2>1. TypeOK' /\ Shapes' /\ Stores'
    BY <1>1 DEF Inv, vars, TypeOK, Shapes, Shape, Started, Running, Creates, Deletes,
       HasDraft, Stores
  <2>2. DraftsKeepRoles' /\ InitialRolesKept' /\ NoStrayWallet'
    BY <1>1 DEF Inv, vars, DraftsKeepRoles, Creates, Started, HasDraft, InitialRolesKept,
       NoStrayWallet
  <2>3. Settled'
    BY <1>1 DEF Inv, vars, Settled, Deletes, Started, Past, BeingCreated
  <2>4. Progress' /\ CreatedIsRegistered' /\ NoOrphanActor' /\ IssuersKnown'
    BY <1>1 DEF Inv, vars, Progress, Pending, Creates, Started, Running,
       CreatedIsRegistered,
       NoOrphanActor, IssuersKnown, HasDraft, Known
  <2>. QED
    BY <2>1, <2>2, <2>3, <2>4 DEF Inv
<1>2. ASSUME NEW r \in Request, StepOf(r)
      PROVE  Inv'
  <2>1. Moves(r) /\ TypeOK' /\ Shapes'
    BY <1>2, StepMoves DEF Inv
  <2>2. Stores' /\ DraftsKeepRoles' /\ InitialRolesKept'
    BY <2>1, StoresStep, RolesStep DEF Inv
  <2>3. Settled' /\ NoStrayWallet'
    BY <2>1, SettledStep, NoStrayStep DEF Inv
  <2>4. Progress' /\ CreatedIsRegistered' /\ NoOrphanActor'
    BY <2>1, ProgressStep, CreatedStep, OrphanStep DEF Inv
  <2>5. IssuersKnown'
    BY <2>1, KnownStep DEF Inv
  <2>. QED
    BY <2>1, <2>2, <2>3, <2>4, <2>5 DEF Inv
<1>. QED
  BY <1>1, <1>2 DEF Next, Finished, StepOf

\* The invariant holds in every state of every behaviour.
LEMMA InvHolds == Spec => []Inv
BY InvInit, InvStep, PTL DEF Spec

\* The two services and the requests keep their types in every behaviour.
THEOREM TypesAreKept == Spec => []TypeOK
<1>1. Inv => TypeOK
  BY DEF Inv
<1>. QED
  BY InvHolds, <1>1, PTL

\* handle_tenant_update writes back the union of the roles it wants and of those in
\* the copy it has read; however stale that copy is, it has the roles of the create.
THEOREM InitialRolesAreKept == Spec => []InitialRolesKept
<1>1. Inv => InitialRolesKept
  BY DEF Inv
<1>. QED
  BY InvHolds, <1>1, PTL

\* The except clause of create_tenant deletes the wallet of every create that fails
\* after it has made one, whatever the other requests do to that wallet.
THEOREM NoWalletStrays == Spec => []NoStrayWallet
<1>1. Inv => NoStrayWallet
  BY DEF Inv
<1>. QED
  BY InvHolds, <1>1, PTL

\* A tenant that was created with roles stays in the registry and at the agent until
\* somebody asks to delete it: no other create, and no update, removes either.
THEOREM CreatedStaysRegistered == Spec => []CreatedIsRegistered
<1>1. Inv => CreatedIsRegistered
  BY DEF Inv
<1>. QED
  BY InvHolds, <1>1, PTL

\* After delete_tenant_by_id has succeeded no request in flight, with a copy of the
\* actor in its hands, brings the row back, unless its create was still running.
THEOREM DeletedStaysGone == Spec => []DeletedIsGone
<1>1. Inv => DeletedIsGone
  <2>1. SUFFICES ASSUME Inv, NEW r \in Request \ early, status[r] = "ok", call[r].op = "delete"
                 PROVE  actors[target[r]] = None
    BY DEF DeletedIsGone
  <2>2. Deletes(r)
    BY <2>1, TenantNone DEF Inv, Shapes, Shape, Deletes, Started
  <2>. QED
    BY <2>1, <2>2 DEF Inv, Settled, Past
<1>. QED
  BY InvHolds, <1>1, PTL

\* An actor in the registry that has no wallet any more has come about in one of two
\* ways only: by a lost answer of the registry, or by a delete during the create.
THEOREM OrphansExplained == Spec => []NoOrphanActor
<1>1. Inv => NoOrphanActor
  BY DEF Inv
<1>. QED
  BY InvHolds, <1>1, PTL

\* The DID under which the registry knows an issuer is the public DID of its wallet,
\* whichever onboarding wrote it and however stale the copy was that it wrote.
THEOREM IssuersAreFound == Spec => []IssuerIsFound
<1>1. Inv => IssuerIsFound
  <2>1. SUFFICES ASSUME Inv, NEW w \in Wallet, "agent" \notin faulted, wallets[w] # None,
                        wallets[w].made <= 1, actors[w] # None, "issuer" \in actors[w].roles
                 PROVE  actors[w].did = wallets[w].did /\ actors[w].did # 0
    BY DEF IssuerIsFound
  <2>2. actors[w].did = 1 /\ wallets[w].made = 1
    BY <2>1 DEF Inv, IssuersKnown, Known
  <2>3. wallets[w].did \in 1 .. 1
    BY <2>1, <2>2 DEF Inv, Stores
  <2>. QED
    BY <2>2, <2>3
<1>. QED
  BY InvHolds, <1>1, PTL
=============================================================================
