-------------------------- MODULE TrustGatesProofs --------------------------
(***************************************************************************)
(* Proofs about TrustGates: whatever happens in the registry while a       *)
(* request is under way, what it did it was entitled to at some instant,   *)
(* and if it was refused there was a cause at some instant, or its agent   *)
(* failed.                                                                 *)
(*                                                                         *)
(* The argument rests on Watched: the history variables have seen every    *)
(* state that a request was in, so that whatever holds of the registry now *)
(* has been seen already.                                                  *)
(***************************************************************************)
EXTENDS TrustGates, TLAPS

StepOf(r) ==
  \/ \E c \in Calls : Arrive(r, c)
  \/ Handler(r) \/ OwnDidFails(r) \/ CallFails(r)
  \/ SchemaUnreachable(r) \/ AnswerLost(r)

Started(r) == pc[r] # "idle"
Running(r) == pc[r] \notin {"idle", "done"}

\* The registry knows each actor by a DID of its own and a name of its own.
Registered ==
  /\ \A t \in Tenant : actors[t] # None => actors[t].did \in {<<t, "public">>, <<t, "key">>}
  /\ \A t, u \in Tenant : t # u /\ actors[t] # None /\ actors[u] # None
       => actors[t].name # actors[u].name

\* Each request asks the questions of its own gate.
Form(r) ==
  /\ Started(r) => call[r] \in Calls
  /\ pc[r] # "done" => status[r] = None
  /\ r \in acted => pc[r] = "done"
  /\ r \in blind \cup listed => Started(r)
  /\ pc[r] \in {"connection", "label"} => call[r].op = "prove"
  /\ pc[r] = "name" => call[r].op \in VerifierOp
  /\ pc[r] = "schema" => SchemaAsked(call[r]) # None

\* What a request looks up is the DID, or the name, of the tenant it deals with; a
\* label that the tenant does not have any more has been seen to change.
Asked(r) ==
  LET c == call[r] IN
  /\ pc[r] = "actor" => key[r] \in (IF c.op \in IssuerOp THEN {IssuerDid(c)}
                                    ELSE {<<c.tenant, "public">>, <<c.tenant, c.via>>})
  /\ pc[r] = "name" => key[r] = (IF c.op = "accept" THEN c.their ELSE label[c.tenant])
                       \/ r \in lapsed

\* What holds while a request runs has been seen to hold.
Watched(r) ==
  Running(r) =>
    /\ Entitled(r) => r \in entitled
    /\ call[r].schema \in schemas => r \in listed
    /\ ~Unobjectionable(r) => r \in lapsed

\* The gates that a request has passed.
Passed(r) ==
  Started(r) /\ Gated(call[r]) =>
    /\ pc[r] \in {"schema", "act"} \/ r \in acted => r \in entitled
    /\ pc[r] = "act" \/ r \in acted =>
         SchemaAsked(call[r]) = None \/ r \in listed \/ r \in blind

\* A did:cheqd schema that was listed still is.
CheqdStays ==
  \A r \in listed : call[r].schema \in Cheqd => call[r].schema \in schemas

Requests == \A r \in Request : Form(r) /\ Asked(r) /\ Watched(r) /\ Passed(r)

Inv == TypeOK /\ Registered /\ Requests /\ CheqdStays /\ CheqdSchemasListed /\ RefusedForCause

-----------------------------------------------------------------------------
(* The moves of a step of request r.                                       *)

\* A step of r leaves the registry and the other requests alone.
OthersStay(r) ==
  /\ \A q \in Request \ {r} :
       pc'[q] = pc[q] /\ call'[q] = call[q] /\ key'[q] = key[q] /\ status'[q] = status[q]
  /\ actors' = actors /\ schemas' = schemas /\ public' = public /\ label' = label
  /\ acted \subseteq acted' /\ acted' \subseteq acted \cup {r}
  /\ blind \subseteq blind' /\ blind' \subseteq blind \cup {r}
  /\ unread \subseteq unread' /\ unread' \subseteq unread \cup {r}
  /\ pc[r] # "done" /\ pc'[r] # "idle"
  /\ \/ pc[r] = "idle" /\ pc'[r] = "agent" /\ call'[r] \in Calls /\ blind' = blind
     \/ pc[r] # "idle" /\ call'[r] = call[r]

\* It is refused for what has been seen, or as an issuer whose agent fails.
RefusedMove(r) ==
  status'[r] = "refused" =>
    r \in lapsed \/ (r \in unread' /\ call'[r].op \in {"offer", "credDef"})

\* It comes past the gate of the actor because there is one, and past the gate of the
\* schema because that is listed, or because the registry cannot be reached.
AdmittedMove(r) ==
  Gated(call'[r]) =>
    /\ pc'[r] \in {"schema", "act"} => r \in entitled
    /\ pc'[r] = "act" => SchemaAsked(call'[r]) = None \/ r \in blind' \/ r \in listed
    /\ r \in acted' => r \in acted \/ pc[r] = "act"

\* Form of r after the step, for what the step decides.
NextForm(r) ==
  /\ call'[r] \in Calls
  /\ pc'[r] # "done" => status'[r] = None
  /\ r \in acted' => pc'[r] = "done"
  /\ pc'[r] \in {"connection", "label"} => call'[r].op = "prove"
  /\ pc'[r] = "name" => call'[r].op \in VerifierOp
  /\ pc'[r] = "schema" => SchemaAsked(call'[r]) # None

\* The types of what the step writes.
TypeMove(r) ==
  /\ pc' \in [Request -> {"idle", "agent", "connection", "actor", "label", "name",
                          "schema", "act", "done"}]
  /\ status' \in [Request -> {"ok", "refused", "error", None}]
  /\ call' \in [Request -> Calls \cup {None}]
  /\ key' \in [Request -> Did \cup Label \cup {None}]
  /\ credDefs' \subseteq Tenant \X Schema
  /\ offers' \subseteq Tenant \X (Schema \cup {None})
  /\ faults' \in 0 .. MaxFaults /\ changes' = changes

\* A definition is made, and a credential offered, by the last step of a request; the
\* offer needs the definition.
IssuedMove(r) ==
  /\ \A x \in credDefs' : \/ x \in credDefs
                          \/ /\ pc[r] = "act" /\ call[r].op = "credDef"
                             /\ x = <<call[r].tenant, call[r].schema>>
  /\ \A x \in offers' : x \in offers \/ x[2] = None \/ x \in credDefs

\* Where it looks.
AskedMove(r) ==
  LET c == call[r] IN
  /\ pc'[r] = "actor" => /\ key'[r] \in (IF c.op \in IssuerOp THEN {IssuerDid(c)}
                                         ELSE {<<c.tenant, "public">>, <<c.tenant, c.via>>})
                         /\ pc[r] # "idle"
  /\ pc'[r] = "name" => /\ key'[r] = (IF c.op = "accept" THEN c.their ELSE label[c.tenant])
                        /\ pc[r] # "idle"

-----------------------------------------------------------------------------
(* The gates.                                                              *)

\* What the calls are made of.
LEMMA CallTypes ==
  ASSUME NEW c \in Calls
  PROVE  /\ c.op \in IssuerOp \cup VerifierOp /\ c.tenant \in Tenant /\ c.their \in Label
         /\ c.schema \in Schema \cup {Hidden, None}
         /\ c.via \in {"public", "key", "other", None}
         /\ c.op = "request" => c.via # None
         /\ c.op = "credDef" => c.schema \in Schema
         /\ c.op = "offer" => c.schema \in Schema \cup {None}
BY GateCalls DEF Call

\* The actor of an issuer's DID is that issuer; so is the actor of a verifier's DID.
LEMMA DidOwner ==
  ASSUME NEW r \in Request, NEW t \in Tenant, Registered, actors[t] # None, Asked(r),
         pc[r] = "actor", actors[t].did = key[r]
  PROVE  t = call[r].tenant
<1>1. \E x : key[r] = <<call[r].tenant, x>>
  BY DEF Asked, IssuerDid
<1>2. \E y : actors[t].did = <<t, y>>
  BY DEF Registered
<1>. QED
  BY <1>1, <1>2

\* An actor that is found and has the role entitles the request.
LEMMA FoundEntitles ==
  ASSUME NEW r \in Request, NEW t \in Tenant, TypeOK, Registered, Form(r), Asked(r),
         Started(r), actors[t] # None,
         \/ pc[r] = "actor" /\ actors[t].did = key[r]
         \/ pc[r] = "name" /\ actors[t].name = key[r],
         (IF call[r].op \in IssuerOp THEN "issuer" ELSE "verifier") \in actors[t].roles
  PROVE  Entitled(r)
<1>1. CASE call[r].op \in IssuerOp
  <2>1. pc[r] = "actor" /\ actors[t].did = key[r]
    BY <1>1 DEF Form, VerifierOp, IssuerOp
  <2>2. key[r] = IssuerDid(call[r]) /\ t = call[r].tenant
    BY <1>1, <2>1, DidOwner DEF Asked
  <2>. QED
    BY <1>1, <2>1, <2>2 DEF Entitled
<1>2. CASE call[r].op \notin IssuerOp
  <2>1. CASE pc[r] = "actor" /\ actors[t].did = key[r]
    <3>1. key[r] \in {<<call[r].tenant, "public">>, <<call[r].tenant, call[r].via>>}
      BY <1>2, <2>1 DEF Asked
    <3>. QED
      BY <1>2, <2>1, <3>1 DEF Entitled
  <2>2. CASE pc[r] = "name" /\ actors[t].name = key[r]
    BY <1>2, <2>2 DEF Entitled
  <2>. QED
    BY <2>1, <2>2
<1>. QED
  BY <1>1, <1>2

\* What makes a request unobjectionable, said of the tenant it deals with.
LEMMA Unobjected ==
  ASSUME NEW r \in Request, Started(r), Form(r), Unobjectionable(r)
  PROVE  LET c == call[r] IN
         /\ actors[c.tenant] # None
         /\ c.op \in IssuerOp => /\ "issuer" \in actors[c.tenant].roles
                                 /\ actors[c.tenant].did = IssuerDid(c)
         /\ c.op \notin IssuerOp =>
              /\ "verifier" \in actors[c.tenant].roles
              /\ actors[c.tenant].name = IF c.op = "prove" THEN label[c.tenant] ELSE c.their
<1>1. call[r].op \in IssuerOp \cup VerifierOp
  BY CallTypes DEF Form
<1>2. CASE call[r].op \in IssuerOp
  BY <1>2 DEF Unobjectionable, Entitled
<1>3. CASE call[r].op \notin IssuerOp
  BY <1>1, <1>3 DEF Unobjectionable
<1>. QED
  BY <1>2, <1>3

\* An actor that is found and lacks the role speaks against the request.
LEMMA FoundRefuses ==
  ASSUME NEW r \in Request, NEW t \in Tenant, TypeOK, Registered, Form(r), Asked(r),
         Started(r), actors[t] # None,
         \/ pc[r] = "actor" /\ actors[t].did = key[r]
         \/ pc[r] = "name" /\ actors[t].name = key[r],
         (IF call[r].op \in IssuerOp THEN "issuer" ELSE "verifier") \notin actors[t].roles
  PROVE  r \in lapsed \/ ~Unobjectionable(r)
<1> SUFFICES ASSUME r \notin lapsed, Unobjectionable(r)
             PROVE  FALSE
  OBVIOUS
<1>1. call[r].tenant \in Tenant /\ call[r].op \in IssuerOp \cup VerifierOp
  BY CallTypes DEF Form
<1>2. CASE pc[r] = "actor" /\ actors[t].did = key[r]
  BY <1>2, DidOwner, Unobjected
<1>3. CASE pc[r] = "name" /\ actors[t].name = key[r]
  <2>1. call[r].op \in VerifierOp /\ call[r].op \notin IssuerOp
    BY <1>3 DEF Form, VerifierOp, IssuerOp
  <2>2. key[r] = IF call[r].op = "prove" THEN label[call[r].tenant] ELSE call[r].their
    BY <1>3, <2>1 DEF Asked, VerifierOp
  <2>3. actors[call[r].tenant] # None /\ actors[call[r].tenant].name = key[r]
    BY <2>1, <2>2, Unobjected
  <2>4. t = call[r].tenant
    BY <1>1, <1>3, <2>3 DEF Registered
  <2>. QED
    BY <2>1, <2>4, Unobjected
<1>. QED
  BY <1>2, <1>3

\* That nobody is found speaks against an issuer, and against a name.
LEMMA MissingRefuses ==
  ASSUME NEW r \in Request, TypeOK, Registered, Form(r), Asked(r), Started(r),
         \/ /\ pc[r] = "actor" /\ call[r].op \in IssuerOp
            /\ \A t \in Tenant : actors[t] # None => actors[t].did # key[r]
         \/ /\ pc[r] = "name"
            /\ \A t \in Tenant : actors[t] # None => actors[t].name # key[r]
  PROVE  r \in lapsed \/ ~Unobjectionable(r)
<1> SUFFICES ASSUME r \notin lapsed, Unobjectionable(r)
             PROVE  FALSE
  OBVIOUS
<1>1. call[r].tenant \in Tenant
  BY CallTypes DEF Form
<1>2. CASE pc[r] = "actor" /\ call[r].op \in IssuerOp
  BY <1>1, <1>2, Unobjected DEF Asked
<1>3. CASE pc[r] = "name"
  <2>1. call[r].op \in VerifierOp /\ call[r].op \notin IssuerOp
    BY <1>3 DEF Form, VerifierOp, IssuerOp
  <2>2. key[r] = IF call[r].op = "prove" THEN label[call[r].tenant] ELSE call[r].their
    BY <1>3, <2>1 DEF Asked, VerifierOp
  <2>. QED
    BY <1>1, <1>3, <2>1, <2>2, Unobjected
<1>. QED
  BY <1>2, <1>3

-----------------------------------------------------------------------------
(* Every step of a request makes these moves.                              *)

\* Whatever r does, the registry and the other requests are untouched.
LEMMA OthersStayPut ==
  ASSUME NEW r \in Request, TypeOK, Form(r), StepOf(r)
  PROVE  OthersStay(r)
<1> USE DEF TypeOK, OthersStay, registry, agent, Goto, Answer, LookUp, Done, Admit
<1>1. CASE \E c \in Calls : Arrive(r, c)
  BY <1>1 DEF Arrive
<1>2. CASE ReadOwnDid(r)
  BY <1>2 DEF ReadOwnDid
<1>3. CASE ReadOffer(r)
  BY <1>3 DEF ReadOffer
<1>4. CASE ReadProof(r)
  BY <1>4 DEF ReadProof
<1>5. CASE ReadConnection(r)
  BY <1>5 DEF ReadConnection
<1>6. CASE FetchActor(r)
  BY <1>6 DEF FetchActor
<1>7. CASE ReadLabel(r)
  BY <1>7 DEF ReadLabel
<1>8. CASE FetchByName(r)
  BY <1>8 DEF FetchByName
<1>9. CASE CheckSchema(r)
  BY <1>9 DEF CheckSchema
<1>10. CASE Act(r)
  BY <1>10 DEF Act
<1>11. CASE CallFails(r)
  BY <1>11 DEF CallFails
<1>12. CASE SchemaUnreachable(r)
  BY <1>12 DEF SchemaUnreachable
<1>13. CASE AnswerLost(r)
  BY <1>13 DEF AnswerLost
<1>14. CASE OwnDidFails(r)
  BY <1>14 DEF OwnDidFails
<1>. QED
  BY <1>1, <1>2, <1>3, <1>4, <1>5, <1>6, <1>7, <1>8, <1>9, <1>10, <1>11, <1>12, <1>13,
     <1>14 DEF StepOf, Handler

\* A request that comes by what is there.
LEMMA Seen ==
  ASSUME NEW r \in Request, Running(r), Watched(r)
  PROVE  /\ Entitled(r) => r \in entitled
         /\ call[r].schema \in schemas => r \in listed
         /\ r \in lapsed \/ ~Unobjectionable(r) => r \in lapsed
         /\ Started(r)
BY DEF Running, Watched, Started

\* What refuses a request has been seen to speak against it.
LEMMA RefusedMoves ==
  ASSUME NEW r \in Request, TypeOK, Registered, Form(r), Asked(r), Watched(r), StepOf(r)
  PROVE  RefusedMove(r)
<1>t. pc \in [Request -> {"idle", "agent", "connection", "actor", "label", "name",
                          "schema", "act", "done"}]
      /\ status \in [Request -> {"ok", "refused", "error", None}]
      /\ call \in [Request -> Calls \cup {None}]
  BY DEF TypeOK
<1>n. pc[r] # "done" => status[r] = None /\ None # "refused"
  BY GateNone DEF Form
<1>s. Running(r) => /\ Entitled(r) => r \in entitled
                    /\ call[r].schema \in schemas => r \in listed
                    /\ r \in lapsed \/ ~Unobjectionable(r) => r \in lapsed
                    /\ Started(r)
  BY Seen
<1>1. CASE \E c \in Calls : Arrive(r, c)
  BY <1>1, <1>n DEF Arrive, Goto, RefusedMove
<1>2. CASE ReadOwnDid(r)
  <2>1. Running(r)
    BY <1>2 DEF ReadOwnDid, Done, Running
  <2>. QED
    BY <1>2, <2>1, <1>t, <1>n, <1>s DEF ReadOwnDid, RefusedMove, Unobjectionable, Goto,
       Answer, LookUp, Done
<1>3. CASE ReadOffer(r)
  <2>1. Running(r)
    BY <1>3 DEF ReadOffer, Done, Running
  <2>. QED
    BY <1>3, <2>1, <1>t, <1>n, <1>s DEF ReadOffer, RefusedMove, Unobjectionable, Goto,
       Answer, LookUp, Done
<1>4. CASE ReadProof(r)
  <2>1. Running(r)
    BY <1>4 DEF ReadProof, Done, Running
  <2>. QED
    BY <1>4, <2>1, <1>t, <1>n, <1>s DEF ReadProof, RefusedMove, Unobjectionable, Goto,
       Answer, LookUp, Done
<1>5. CASE ReadConnection(r)
  <2>1. Running(r)
    BY <1>5 DEF ReadConnection, Done, Running
  <2>. QED
    BY <1>5, <2>1, <1>t, <1>n, <1>s DEF ReadConnection, RefusedMove, Unobjectionable, Goto,
       Answer, LookUp, Done, Form, VerifierOp
<1>6. CASE FetchActor(r)
  <2>1. Running(r) /\ Started(r) /\ pc[r] = "actor"
    BY <1>6 DEF FetchActor, Running, Started
  <2>2. ASSUME NEW t \in Tenant, actors[t] # None, actors[t].did = key[r], Admit(r, actors[t])
        PROVE  RefusedMove(r)
    <3>1. CASE (IF call[r].op \in IssuerOp THEN "issuer" ELSE "verifier") \in actors[t].roles
      BY <2>1, <2>2, <3>1, <1>t, <1>n DEF Admit, Goto, RefusedMove
    <3>2. CASE (IF call[r].op \in IssuerOp THEN "issuer" ELSE "verifier") \notin actors[t].roles
      BY <2>1, <2>2, <3>2, <1>s, FoundRefuses DEF RefusedMove
    <3>. QED
      BY <3>1, <3>2
  <2>3. ASSUME call[r].op \in IssuerOp,
               \A t \in Tenant : actors[t] # None => actors[t].did # key[r]
        PROVE  RefusedMove(r)
    BY <2>1, <2>3, <1>s, MissingRefuses DEF RefusedMove
  <2>4. CASE call[r].op \notin IssuerOp
             /\ \A t \in Tenant : actors[t] # None => actors[t].did # key[r]
    <3>1. status' = status
      BY <1>6, <2>4 DEF FetchActor, Goto, LookUp
    <3>. QED
      BY <2>1, <3>1, <1>n DEF Running, RefusedMove
  <2>. QED
    BY <1>6, <2>2, <2>3, <2>4 DEF FetchActor
<1>7. CASE ReadLabel(r)
  <2>1. Running(r)
    BY <1>7 DEF ReadLabel, Done, Running
  <2>. QED
    BY <1>7, <2>1, <1>t, <1>n, <1>s DEF ReadLabel, RefusedMove, Unobjectionable, Goto,
       Answer, LookUp, Done
<1>8. CASE FetchByName(r)
  <2>1. Running(r) /\ Started(r) /\ pc[r] = "name"
    BY <1>8 DEF FetchByName, Running, Started
  <2>2. ASSUME NEW t \in Tenant, actors[t] # None, actors[t].name = key[r], Admit(r, actors[t])
        PROVE  RefusedMove(r)
    <3>1. CASE (IF call[r].op \in IssuerOp THEN "issuer" ELSE "verifier") \in actors[t].roles
      BY <2>1, <2>2, <3>1, <1>t, <1>n DEF Admit, Goto, RefusedMove
    <3>2. CASE (IF call[r].op \in IssuerOp THEN "issuer" ELSE "verifier") \notin actors[t].roles
      BY <2>1, <2>2, <3>2, <1>s, FoundRefuses DEF RefusedMove
    <3>. QED
      BY <3>1, <3>2
  <2>3. ASSUME \A t \in Tenant : actors[t] # None => actors[t].name # key[r]
        PROVE  RefusedMove(r)
    BY <2>1, <2>3, <1>s, MissingRefuses DEF RefusedMove
  <2>. QED
    BY <1>8, <2>2, <2>3 DEF FetchByName
<1>9. CASE CheckSchema(r)
  <2>1. Running(r)
    BY <1>9 DEF CheckSchema, Done, Running
  <2>. QED
    BY <1>9, <2>1, <1>t, <1>n, <1>s DEF CheckSchema, RefusedMove, Unobjectionable, Goto,
       Answer, LookUp, Done, Form
<1>10. CASE Act(r)
  <2>1. Running(r)
    BY <1>10 DEF Act, Done, Running
  <2>. QED
    BY <1>10, <2>1, <1>t, <1>n, <1>s DEF Act, RefusedMove, Unobjectionable, Goto, Answer,
       LookUp, Done
<1>11. CASE CallFails(r)
  BY <1>11, <1>t, <1>n DEF CallFails, Goto, Answer, RefusedMove
<1>12. CASE SchemaUnreachable(r)
  BY <1>12, <1>t, <1>n DEF SchemaUnreachable, Goto, RefusedMove
<1>13. CASE AnswerLost(r)
  BY <1>13, <1>t, <1>n DEF AnswerLost, Answer, RefusedMove
<1>14. CASE OwnDidFails(r)
  BY <1>14, <1>t, <1>n DEF OwnDidFails, Goto, Answer, RefusedMove
<1>. QED
  BY <1>1, <1>2, <1>3, <1>4, <1>5, <1>6, <1>7, <1>8, <1>9, <1>10, <1>11, <1>12, <1>13,
     <1>14 DEF StepOf, Handler

\* What comes past a gate has been seen to be entitled.
LEMMA AdmittedMoves ==
  ASSUME NEW r \in Request, TypeOK, Registered, Form(r), Asked(r),
         Watched(r), Passed(r), StepOf(r)
  PROVE  AdmittedMove(r)
<1>t. pc \in [Request -> {"idle", "agent", "connection", "actor", "label", "name",
                          "schema", "act", "done"}]
      /\ status \in [Request -> {"ok", "refused", "error", None}]
      /\ call \in [Request -> Calls \cup {None}]
  BY DEF TypeOK
<1>n. pc[r] # "done" => status[r] = None /\ None # "refused"
  BY GateNone DEF Form
<1>s. Running(r) => /\ Entitled(r) => r \in entitled
                    /\ call[r].schema \in schemas => r \in listed
                    /\ r \in lapsed \/ ~Unobjectionable(r) => r \in lapsed
                    /\ Started(r)
  BY Seen
<1>1. CASE \E c \in Calls : Arrive(r, c)
  <2>1. pc'[r] = "agent" /\ acted' = acted
    BY <1>1, <1>t DEF Arrive, Goto
  <2>. QED
    BY <2>1 DEF AdmittedMove
<1>2. CASE ReadOwnDid(r)
  <2>1. pc'[r] \notin {"schema", "act"} /\ (acted' = acted \/ pc[r] = "act")
    BY <1>2, <1>t DEF ReadOwnDid, Goto, LookUp, Answer, Done
  <2>. QED
    BY <2>1 DEF AdmittedMove
<1>3. CASE ReadOffer(r)
  <2>1. pc'[r] \notin {"schema", "act"} /\ (acted' = acted \/ pc[r] = "act")
    BY <1>3, <1>t DEF ReadOffer, Goto, LookUp, Answer, Done
  <2>. QED
    BY <2>1 DEF AdmittedMove
<1>4. CASE ReadProof(r)
  BY <1>4, <1>t DEF ReadProof, Goto, LookUp, AdmittedMove, Gated
<1>5. CASE ReadConnection(r)
  <2>1. pc'[r] \notin {"schema", "act"} /\ (acted' = acted \/ pc[r] = "act")
    BY <1>5, <1>t DEF ReadConnection, Goto, LookUp, Answer, Done
  <2>. QED
    BY <2>1 DEF AdmittedMove
<1>6. CASE FetchActor(r)
  <2>1. Running(r) /\ Started(r) /\ pc[r] = "actor" /\ acted' = acted
    BY <1>6 DEF FetchActor, Running, Started
  <2>2. ASSUME NEW t \in Tenant, actors[t] # None, actors[t].did = key[r], Admit(r, actors[t]),
               pc'[r] # "done"
        PROVE  r \in entitled
    <3>1. (IF call[r].op \in IssuerOp THEN "issuer" ELSE "verifier") \in actors[t].roles
      BY <2>2, <1>t DEF Admit, Answer
    <3>. QED
      BY <2>1, <2>2, <3>1, <1>s, FoundEntitles
  <2>3. pc'[r] \in {"schema", "act"} => r \in entitled
    BY <1>6, <2>2, <1>t DEF FetchActor, Answer, Goto, LookUp
  <2>4. pc'[r] = "act" => SchemaAsked(call'[r]) = None
    BY <1>6, <1>t DEF FetchActor, Admit, Answer, Goto, LookUp
  <2>. QED
    BY <2>1, <2>3, <2>4 DEF AdmittedMove
<1>7. CASE ReadLabel(r)
  <2>1. pc'[r] \notin {"schema", "act"} /\ (acted' = acted \/ pc[r] = "act")
    BY <1>7, <1>t DEF ReadLabel, Goto, LookUp, Answer, Done
  <2>. QED
    BY <2>1 DEF AdmittedMove
<1>8. CASE FetchByName(r)
  <2>1. Running(r) /\ Started(r) /\ pc[r] = "name" /\ acted' = acted
    BY <1>8 DEF FetchByName, Running, Started
  <2>2. ASSUME NEW t \in Tenant, actors[t] # None, actors[t].name = key[r], Admit(r, actors[t]),
               pc'[r] # "done"
        PROVE  r \in entitled
    <3>1. (IF call[r].op \in IssuerOp THEN "issuer" ELSE "verifier") \in actors[t].roles
      BY <2>2, <1>t DEF Admit, Answer
    <3>. QED
      BY <2>1, <2>2, <3>1, <1>s, FoundEntitles
  <2>3. pc'[r] \in {"schema", "act"} => r \in entitled
    BY <1>8, <2>2, <1>t DEF FetchByName, Answer, Goto, LookUp
  <2>4. pc'[r] = "act" => SchemaAsked(call'[r]) = None
    BY <1>8, <1>t DEF FetchByName, Admit, Answer, Goto, LookUp
  <2>. QED
    BY <2>1, <2>3, <2>4 DEF AdmittedMove
<1>9. CASE CheckSchema(r)
  <2>1. Running(r) /\ call' = call /\ acted' = acted
    BY <1>9 DEF CheckSchema, Running
  <2>2. Gated(call[r]) => r \in entitled
    BY <1>9, <2>1 DEF CheckSchema, Passed, Running, Started
  <2>3. pc'[r] = "act" => r \in listed
    <3>1. SchemaAsked(call[r]) = None \/ SchemaAsked(call[r]) = call[r].schema
      BY DEF SchemaAsked
    <3>2. SchemaAsked(call[r]) # None
      BY <1>9 DEF CheckSchema, Form
    <3>3. pc'[r] = "act" => SchemaAsked(call[r]) \in schemas
      BY <1>9, <1>t DEF CheckSchema, Goto, Answer
    <3>. QED
      BY <2>1, <3>1, <3>2, <3>3, <1>s
  <2>. QED
    BY <2>1, <2>2, <2>3 DEF AdmittedMove
<1>10. CASE Act(r)
  <2>1. pc'[r] \notin {"schema", "act"} /\ (acted' = acted \/ pc[r] = "act")
    BY <1>10, <1>t DEF Act, Goto, LookUp, Answer, Done
  <2>. QED
    BY <2>1 DEF AdmittedMove
<1>11. CASE CallFails(r)
  <2>1. pc'[r] \notin {"schema", "act"} /\ (acted' = acted \/ pc[r] = "act")
    BY <1>11, <1>t DEF CallFails, Goto, LookUp, Answer, Done
  <2>. QED
    BY <2>1 DEF AdmittedMove
<1>12. CASE SchemaUnreachable(r)
  <2>1. Running(r) /\ call' = call /\ acted' = acted
    BY <1>12 DEF SchemaUnreachable, Running
  <2>2. Gated(call[r]) => r \in entitled
    BY <1>12, <2>1 DEF SchemaUnreachable, Passed, Running, Started
  <2>3. r \in blind'
    BY <1>12 DEF SchemaUnreachable
  <2>. QED
    BY <2>1, <2>2, <2>3 DEF AdmittedMove
<1>13. CASE AnswerLost(r)
  <2>1. pc'[r] \notin {"schema", "act"} /\ (acted' = acted \/ pc[r] = "act")
    BY <1>13, <1>t DEF AnswerLost, Goto, LookUp, Answer, Done
  <2>. QED
    BY <2>1 DEF AdmittedMove
<1>14. CASE OwnDidFails(r)
  <2>1. pc'[r] \notin {"schema", "act"} /\ acted' = acted
    BY <1>14, <1>t DEF OwnDidFails, Goto, Answer
  <2>. QED
    BY <2>1 DEF AdmittedMove
<1>. QED
  BY <1>1, <1>2, <1>3, <1>4, <1>5, <1>6, <1>7, <1>8, <1>9, <1>10, <1>11, <1>12, <1>13,
     <1>14 DEF StepOf, Handler

\* What a request looks up belongs to its tenant.
LEMMA AskedMoves ==
  ASSUME NEW r \in Request, TypeOK, Form(r), StepOf(r)
  PROVE  AskedMove(r)
<1> USE DEF TypeOK, AskedMove, Goto, Answer, LookUp, Admit, IssuerDid, IssuerOp, VerifierOp,
        Form, Done
<1>1. CASE \E c \in Calls : Arrive(r, c)
  BY <1>1 DEF Arrive
<1>2. CASE ReadOwnDid(r)
  BY <1>2 DEF ReadOwnDid
<1>3. CASE ReadOffer(r)
  BY <1>3 DEF ReadOffer
<1>4. CASE ReadProof(r)
  BY <1>4 DEF ReadProof
<1>5. CASE ReadConnection(r)
  BY <1>5 DEF ReadConnection
<1>6. CASE FetchActor(r)
  BY <1>6 DEF FetchActor
<1>7. CASE ReadLabel(r)
  BY <1>7 DEF ReadLabel
<1>8. CASE FetchByName(r)
  BY <1>8 DEF FetchByName
<1>9. CASE CheckSchema(r)
  BY <1>9 DEF CheckSchema
<1>10. CASE Act(r)
  BY <1>10 DEF Act
<1>11. CASE CallFails(r)
  BY <1>11 DEF CallFails
<1>12. CASE SchemaUnreachable(r)
  BY <1>12 DEF SchemaUnreachable
<1>13. CASE AnswerLost(r)
  BY <1>13 DEF AnswerLost
<1>14. CASE OwnDidFails(r)
  BY <1>14 DEF OwnDidFails
<1>. QED
  BY <1>1, <1>2, <1>3, <1>4, <1>5, <1>6, <1>7, <1>8, <1>9, <1>10, <1>11, <1>12, <1>13,
     <1>14 DEF StepOf, Handler

\* A request asks the questions of its own gate.
LEMMA FormMoves ==
  ASSUME NEW r \in Request, TypeOK, Form(r), StepOf(r)
  PROVE  NextForm(r)
<1>t. /\ pc \in [Request -> {"idle", "agent", "connection", "actor", "label", "name",
                          "schema", "act", "done"}]
      /\ status \in [Request -> {"ok", "refused", "error", None}]
      /\ call \in [Request -> Calls \cup {None}]
  BY DEF TypeOK
<1>o. \A c \in Calls : c.op \in IssuerOp \cup VerifierOp
  BY CallTypes
<1> USE <1>t, <1>o DEF NextForm, Goto, Answer, LookUp, Admit, IssuerOp, VerifierOp, Form,
        Done, Started
<1>1. CASE \E c \in Calls : Arrive(r, c)
  BY <1>1 DEF Arrive
<1>2. CASE ReadOwnDid(r)
  BY <1>2 DEF ReadOwnDid
<1>3. CASE ReadOffer(r)
  BY <1>3 DEF ReadOffer
<1>4. CASE ReadProof(r)
  BY <1>4 DEF ReadProof
<1>5. CASE ReadConnection(r)
  BY <1>5 DEF ReadConnection
<1>6. CASE FetchActor(r)
  BY <1>6 DEF FetchActor
<1>7. CASE ReadLabel(r)
  BY <1>7 DEF ReadLabel
<1>8. CASE FetchByName(r)
  BY <1>8 DEF FetchByName
<1>9. CASE CheckSchema(r)
  BY <1>9 DEF CheckSchema
<1>10. CASE Act(r)
  BY <1>10 DEF Act
<1>11. CASE CallFails(r)
  BY <1>11 DEF CallFails
<1>12. CASE SchemaUnreachable(r)
  BY <1>12 DEF SchemaUnreachable
<1>13. CASE AnswerLost(r)
  BY <1>13 DEF AnswerLost
<1>14. CASE OwnDidFails(r)
  BY <1>14 DEF OwnDidFails
<1>. QED
  BY <1>1, <1>2, <1>3, <1>4, <1>5, <1>6, <1>7, <1>8, <1>9, <1>10, <1>11, <1>12, <1>13,
     <1>14 DEF StepOf, Handler

\* Only the act itself makes a definition or an offer.
LEMMA IssuedMoves ==
  ASSUME NEW r \in Request, TypeOK, StepOf(r)
  PROVE  IssuedMove(r)
<1> USE DEF IssuedMove, Done, agent, Possible
<1>1. CASE \E c \in Calls : Arrive(r, c)
  BY <1>1 DEF Arrive
<1>2. CASE ReadOwnDid(r)
  BY <1>2 DEF ReadOwnDid
<1>3. CASE ReadOffer(r)
  BY <1>3 DEF ReadOffer
<1>4. CASE ReadProof(r)
  BY <1>4 DEF ReadProof
<1>5. CASE ReadConnection(r)
  BY <1>5 DEF ReadConnection
<1>6. CASE FetchActor(r)
  BY <1>6 DEF FetchActor
<1>7. CASE ReadLabel(r)
  BY <1>7 DEF ReadLabel
<1>8. CASE FetchByName(r)
  BY <1>8 DEF FetchByName
<1>9. CASE CheckSchema(r)
  BY <1>9 DEF CheckSchema
<1>10. CASE Act(r)
  BY <1>10 DEF Act
<1>11. CASE CallFails(r)
  BY <1>11 DEF CallFails
<1>12. CASE SchemaUnreachable(r)
  BY <1>12 DEF SchemaUnreachable
<1>13. CASE AnswerLost(r)
  BY <1>13 DEF AnswerLost
<1>14. CASE OwnDidFails(r)
  BY <1>14 DEF OwnDidFails
<1>. QED
  BY <1>1, <1>2, <1>3, <1>4, <1>5, <1>6, <1>7, <1>8, <1>9, <1>10, <1>11, <1>12, <1>13,
     <1>14 DEF StepOf, Handler

\* What a step of a request writes has its type.
LEMMA TypeMoves ==
  ASSUME NEW r \in Request, TypeOK, Form(r), StepOf(r)
  PROVE  TypeMove(r)
<1>t. /\ pc \in [Request -> {"idle", "agent", "connection", "actor", "label", "name",
                          "schema", "act", "done"}]
      /\ status \in [Request -> {"ok", "refused", "error", None}]
      /\ call \in [Request -> Calls \cup {None}] /\ label \in [Tenant -> Label]
      /\ key \in [Request -> Did \cup Label \cup {None}]
      /\ credDefs \subseteq Tenant \X Schema /\ offers \subseteq Tenant \X (Schema \cup {None})
      /\ faults \in 0 .. MaxFaults /\ MaxFaults \in Nat
  BY GateBounds DEF TypeOK
<1>c. Started(r) =>
        /\ call[r].tenant \in Tenant /\ call[r].their \in Label
        /\ call[r].via \in {"public", "key", "other", None}
        /\ call[r].op = "request" => call[r].via # None
        /\ call[r].op = "credDef" => call[r].schema \in Schema
        /\ call[r].op = "offer" => call[r].schema \in Schema \cup {None}
  BY CallTypes DEF Form
<1> USE <1>t, <1>c DEF TypeMove, Started, Goto, Answer, LookUp, Admit, IssuerDid, Did, Done,
        Fault, registry, agent
<1>1. CASE \E c \in Calls : Arrive(r, c)
  BY <1>1 DEF Arrive
<1>2. CASE ReadOwnDid(r)
  BY <1>2 DEF ReadOwnDid
<1>3. CASE ReadOffer(r)
  BY <1>3 DEF ReadOffer
<1>4. CASE ReadProof(r)
  BY <1>4 DEF ReadProof
<1>5. CASE ReadConnection(r)
  BY <1>5 DEF ReadConnection
<1>6. CASE FetchActor(r)
  BY <1>6 DEF FetchActor
<1>7. CASE ReadLabel(r)
  BY <1>7 DEF ReadLabel
<1>8. CASE FetchByName(r)
  BY <1>8 DEF FetchByName
<1>9. CASE CheckSchema(r)
  BY <1>9 DEF CheckSchema
<1>10. CASE Act(r)
  BY <1>10 DEF Act
<1>11. CASE CallFails(r)
  BY <1>11 DEF CallFails
<1>12. CASE SchemaUnreachable(r)
  BY <1>12 DEF SchemaUnreachable
<1>13. CASE AnswerLost(r)
  BY <1>13 DEF AnswerLost
<1>14. CASE OwnDidFails(r)
  BY <1>14 DEF OwnDidFails
<1>. QED
  BY <1>1, <1>2, <1>3, <1>4, <1>5, <1>6, <1>7, <1>8, <1>9, <1>10, <1>11, <1>12, <1>13,
     <1>14 DEF StepOf, Handler


-----------------------------------------------------------------------------
(* Every step keeps the invariant.                                         *)

\* Observe sees every request that is under way, and forgets nothing.
LEMMA Observed ==
  ASSUME Observe
  PROVE  /\ entitled \subseteq entitled' /\ listed \subseteq listed' /\ lapsed \subseteq lapsed'
         /\ \A r \in Request : pc'[r] # "idle" /\ pc[r] # "done" =>
              /\ Entitled(r)' => r \in entitled'
              /\ call'[r].schema \in schemas' => r \in listed'
              /\ ~Unobjectionable(r)' => r \in lapsed'
         /\ \A r \in listed' : r \in listed \/ (pc'[r] # "idle" /\ call'[r].schema \in schemas')
         /\ TypeOK => /\ entitled' \subseteq Request /\ listed' \subseteq Request
                      /\ lapsed' \subseteq Request
BY DEF Observe, TypeOK

\* The steps of a request: the questions, the gates and the history.
LEMMA RequestsStep ==
  ASSUME NEW r \in Request, Inv, StepOf(r), Observe
  PROVE  Requests'
<1>1. TypeOK /\ Registered /\ Form(r) /\ Asked(r) /\ Watched(r) /\ Passed(r)
  BY DEF Inv, Requests
<1>2. OthersStay(r)
  BY <1>1, OthersStayPut
<1>3. AdmittedMove(r) /\ AskedMove(r) /\ NextForm(r)
  BY <1>1, AdmittedMoves, AskedMoves, FormMoves
<1>4. ASSUME NEW q \in Request
      PROVE  Form(q)' /\ Asked(q)' /\ Watched(q)' /\ Passed(q)'
  <2>1. Form(q) /\ Asked(q) /\ Watched(q) /\ Passed(q)
    BY DEF Inv, Requests
  <2>2. Watched(q)'
    <3>1. Running(q)' => pc'[q] # "idle" /\ pc[q] # "done"
      BY <1>2 DEF OthersStay, Running
    <3>. QED
      BY <3>1, Observed DEF Watched
  <2>3. CASE q # r
    <3>1. /\ pc'[q] = pc[q] /\ call'[q] = call[q] /\ key'[q] = key[q] /\ status'[q] = status[q]
          /\ label' = label /\ (q \in acted' <=> q \in acted) /\ (q \in blind' <=> q \in blind)
      BY <1>2, <2>3 DEF OthersStay
    <3>2. q \in listed' => Started(q)
      BY <2>1, <3>1, Observed DEF Form, Started
    <3>3. Form(q)'
      BY <2>1, <3>1, <3>2 DEF Form, Started
    <3>4. Asked(q)'
      BY <2>1, <3>1, Observed DEF Asked, IssuerDid
    <3>5. Passed(q)'
      BY <2>1, <3>1, Observed DEF Passed, Started, Gated
    <3>. QED
      BY <2>2, <3>3, <3>4, <3>5
  <2>4. CASE q = r
    <3>1. /\ pc'[r] # "idle" /\ label' = label
          /\ pc[r] # "idle" => call'[r] = call[r]
          /\ pc[r] = "idle" => pc'[r] = "agent"
      BY <1>2 DEF OthersStay
    <3>3. Form(r)'
      BY <1>3, <3>1 DEF NextForm, Form, Started
    <3>4. Asked(r)'
      BY <1>3, <3>1, Observed DEF AskedMove, Asked, IssuerDid
    <3>5. Passed(r)'
      <4>1. CASE pc[r] = "idle"
        BY <1>1, <1>3, <3>1, <4>1 DEF AdmittedMove, Passed, Started, Form
      <4>2. CASE pc[r] # "idle"
        <5>1. SUFFICES ASSUME Gated(call[r])
                       PROVE  Passed(r)'
          BY <3>1, <4>2 DEF Passed
        <5>2. /\ pc[r] \in {"schema", "act"} \/ r \in acted => r \in entitled
              /\ pc[r] = "act" \/ r \in acted =>
                   SchemaAsked(call[r]) = None \/ r \in listed \/ r \in blind
          BY <1>1, <4>2, <5>1 DEF Passed, Started
        <5>3. blind \subseteq blind'
          BY <1>2 DEF OthersStay
        <5>4. /\ pc'[r] \in {"schema", "act"} => r \in entitled
              /\ pc'[r] = "act" => SchemaAsked(call[r]) = None \/ r \in blind' \/ r \in listed
              /\ r \in acted' => r \in acted \/ pc[r] = "act"
          BY <1>3, <3>1, <4>2, <5>1 DEF AdmittedMove
        <5>. QED
          BY <3>1, <4>2, <5>2, <5>3, <5>4, Observed DEF Passed
      <4>. QED
        BY <4>1, <4>2
    <3>. QED
      BY <2>2, <2>4, <3>3, <3>4, <3>5
  <2>. QED
    BY <2>3, <2>4
<1>. QED
  BY <1>4 DEF Requests

\* A step of a request keeps the rest of the invariant.
LEMMA RequestStep ==
  ASSUME NEW r \in Request, Inv, StepOf(r), Observe
  PROVE  Inv'
<1>1. TypeOK /\ Registered /\ Form(r) /\ Asked(r) /\ Watched(r) /\ Passed(r)
  BY DEF Inv, Requests
<1>2. OthersStay(r)
  BY <1>1, OthersStayPut
<1>3. TypeMove(r) /\ IssuedMove(r) /\ RefusedMove(r)
  BY <1>1, TypeMoves, IssuedMoves, RefusedMoves
<1>4. TypeOK'
  BY <1>1, <1>2, <1>3, Observed DEF TypeOK, TypeMove, OthersStay
<1>5. Registered'
  BY <1>1, <1>2 DEF Registered, OthersStay
<1>6. RefusedForCause'
  <2>1. ASSUME NEW q \in Request, status'[q] = "refused"
        PROVE  q \in lapsed' \/ (q \in unread' /\ call'[q].op \in {"offer", "credDef"})
    BY <1>2, <1>3, <2>1, Observed DEF Inv, RefusedForCause, RefusedMove, OthersStay
  <2>. QED
    BY <2>1 DEF RefusedForCause
<1>7. \A q \in Request : Started(q) => call'[q] = call[q]
  BY <1>2 DEF OthersStay, Started
<1>8. CheqdStays'
  <2>1. ASSUME NEW q \in listed', call'[q].schema \in Cheqd
        PROVE  call'[q].schema \in schemas'
    <3>1. CASE q \in listed
      <4>1. q \in Request /\ Started(q)
        BY <3>1 DEF Inv, TypeOK, Requests, Form
      <4>. QED
        BY <1>2, <1>7, <2>1, <3>1, <4>1 DEF Inv, CheqdStays, OthersStay
    <3>. QED
      BY <2>1, <3>1, Observed
  <2>. QED
    BY <2>1 DEF CheqdStays
<1>9. CheqdSchemasListed'
  <2>1. ASSUME NEW t \in Tenant, NEW s \in Cheqd, <<t, s>> \in credDefs \cup offers
        PROVE  s \in schemas' \/ \E q \in blind' : call'[q].schema = s
    <3>1. s \in schemas \/ \E q \in blind : call[q].schema = s
      BY <2>1 DEF Inv, CheqdSchemasListed
    <3>2. \A q \in blind : q \in Request /\ Started(q)
      BY DEF Inv, TypeOK, Requests, Form
    <3>. QED
      BY <1>2, <1>7, <3>1, <3>2 DEF OthersStay
  <2>2. ASSUME NEW t \in Tenant, NEW s \in Cheqd, <<t, s>> \in credDefs' \cup offers',
               <<t, s>> \notin credDefs \cup offers
        PROVE  s \in schemas' \/ \E q \in blind' : call'[q].schema = s
    <3>1. s # None
      BY GateNone DEF Schema
    <3>2. pc[r] = "act" /\ call[r].op = "credDef" /\ s = call[r].schema
      BY <1>3, <2>2, <3>1 DEF IssuedMove
    <3>3. r \in listed \/ r \in blind
      BY <1>1, <3>1, <3>2 DEF Passed, Started, Gated, SchemaAsked
    <3>4. CASE r \in listed
      BY <1>2, <3>2, <3>4 DEF Inv, CheqdStays, OthersStay
    <3>5. CASE r \in blind
      BY <1>2, <3>2, <3>5 DEF OthersStay
    <3>. QED
      BY <3>3, <3>4, <3>5
  <2>. QED
    BY <2>1, <2>2 DEF CheqdSchemasListed
<1>. QED
  BY <1>4, <1>5, <1>6, <1>8, <1>9, RequestsStep DEF Inv

\* What a change makes of the registry: an actor has a DID of its own and a free name,
\* no step both writes an actor and labels a wallet, did:cheqd schemas stay.
LEMMA ChangeMoves ==
  ASSUME TypeOK, Registered, Change
  PROVE  /\ Registered'
         /\ actors' \in [Tenant -> Actor \cup {None}] /\ schemas' \subseteq Schema
         /\ public' \subseteq Tenant /\ label' \in [Tenant -> Label]
         /\ changes' \in 0 .. MaxChanges
         /\ actors' = actors \/ label' = label
         /\ \A s \in Cheqd : s \in schemas => s \in schemas'
<1>1. /\ actors \in [Tenant -> Actor \cup {None}] /\ schemas \subseteq Schema
      /\ public \subseteq Tenant /\ label \in [Tenant -> Label] /\ changes \in 0 .. MaxChanges
      /\ MaxChanges \in Nat
  BY GateBounds DEF TypeOK
<1>2. changes' \in 0 .. MaxChanges
  BY <1>1 DEF Change
<1>3. \A t \in Tenant : /\ OnboardedDid(t) \in {<<t, "public">>, <<t, "key">>}
                       /\ OnboardedDid(t) \in Did
  BY DEF OnboardedDid, Did
<1>4. ASSUME NEW t \in Tenant, NEW a \in Actor, actors' = [actors EXCEPT ![t] = a],
             a.did \in {<<t, "public">>, <<t, "key">>}, NameFree(t, a.name),
             schemas' = schemas, public' = public, label' = label
      PROVE  Registered' /\ actors' \in [Tenant -> Actor \cup {None}]
  <2>1. actors' \in [Tenant -> Actor \cup {None}]
    BY <1>1, <1>4
  <2>2. actors'[t] = a /\ \A u \in Tenant \ {t} : actors'[u] = actors[u]
    BY <1>1, <1>4
  <2>3. \A u \in Tenant : actors'[u] # None => actors'[u].did \in {<<u, "public">>, <<u, "key">>}
    BY <1>4, <2>2 DEF Registered
  <2>4. \A u, v \in Tenant : u # v /\ actors'[u] # None /\ actors'[v] # None
          => actors'[u].name # actors'[v].name
    BY <1>4, <2>2 DEF Registered, NameFree
  <2>. QED
    BY <2>1, <2>3, <2>4 DEF Registered
<1>5. ASSUME NEW t \in Tenant, Register(t)
      PROVE  Registered' /\ actors' \in [Tenant -> Actor \cup {None}]
  <2>1. PICK name \in Label, roles \in SUBSET Role \ {{}} :
          /\ NameFree(t, name)
          /\ actors' = [actors EXCEPT ![t] =
                          [roles |-> roles, did |-> OnboardedDid(t), name |-> name]]
    BY <1>5, Zenon DEF Register
  <2>2. [roles |-> roles, did |-> OnboardedDid(t), name |-> name] \in Actor
    BY <1>1, <1>3 DEF Actor
  <2>. QED
    BY <1>3, <1>4, <1>5, <2>1, <2>2 DEF Register
<1>6. ASSUME NEW t \in Tenant, Update(t)
      PROVE  Registered' /\ actors' \in [Tenant -> Actor \cup {None}]
  <2>1. PICK name \in Label, roles \in SUBSET Role, did \in {<<t, "key">>, OnboardedDid(t)} :
          /\ NameFree(t, name)
          /\ actors' = [actors EXCEPT ![t] = [roles |-> roles, did |-> did, name |-> name]]
    BY <1>6, Zenon DEF Update
  <2>2. did \in {<<t, "public">>, <<t, "key">>} /\ did \in Did
    BY <1>3 DEF Did
  <2>3. [roles |-> roles, did |-> did, name |-> name] \in Actor
    BY <2>2 DEF Actor
  <2>. QED
    BY <1>4, <1>6, <2>1, <2>2, <2>3 DEF Update
<1>7. ASSUME NEW t \in Tenant, Withdraw(t)
      PROVE  Registered' /\ actors' \in [Tenant -> Actor \cup {None}]
  BY <1>1, <1>7 DEF Withdraw, Registered
<1>8. Registered' /\ actors' \in [Tenant -> Actor \cup {None}]
  <2>1. ASSUME actors' = actors
        PROVE  Registered' /\ actors' \in [Tenant -> Actor \cup {None}]
    BY <1>1, <2>1 DEF Registered
  <2>. QED
    BY <1>5, <1>6, <1>7, <2>1 DEF Change, Relabel, MakePublic, Delist, List
<1>9. schemas' \subseteq Schema /\ \A s \in Cheqd : s \in schemas => s \in schemas'
  BY <1>1, GateSchemas DEF Change, Register, Update, Relabel, Withdraw, MakePublic, Delist,
     List
<1>10. public' \subseteq Tenant
  BY <1>1 DEF Change, Register, Update, Relabel, Withdraw, MakePublic, Delist, List
<1>11. label' \in [Tenant -> Label] /\ (actors' = actors \/ label' = label)
  BY <1>1 DEF Change, Register, Update, Relabel, Withdraw, MakePublic, Delist, List
<1>. QED
  BY <1>2, <1>8, <1>9, <1>10, <1>11

\* A change keeps the invariant. What a request has asked for may be gone, and then it
\* has been seen to be there; a label that is looked up may change, and then it is not the name
\* of the actor, before the change or after it, which speaks against the request.
LEMMA ChangeStep ==
  ASSUME Inv, Change, Observe
  PROVE  Inv'
<1>1. /\ credDefs' = credDefs /\ offers' = offers /\ call' = call /\ pc' = pc /\ key' = key
      /\ status' = status /\ acted' = acted /\ blind' = blind
      /\ unread' = unread /\ faults' = faults
  BY DEF Change, agent
<1>2. /\ Registered'
      /\ actors' \in [Tenant -> Actor \cup {None}] /\ schemas' \subseteq Schema
      /\ public' \subseteq Tenant /\ label' \in [Tenant -> Label]
      /\ changes' \in 0 .. MaxChanges
      /\ actors' = actors \/ label' = label
      /\ \A s \in Cheqd : s \in schemas => s \in schemas'
  BY ChangeMoves DEF Inv
<1>3. TypeOK'
  BY <1>1, <1>2, Observed DEF Inv, TypeOK
<1>4. ASSUME NEW q \in Request
      PROVE  Form(q)' /\ Asked(q)' /\ Watched(q)' /\ Passed(q)'
  <2>1. TypeOK /\ Form(q) /\ Asked(q) /\ Watched(q) /\ Passed(q)
    BY DEF Inv, Requests
  <2>2. Watched(q)'
    BY <1>1, Observed DEF Watched, Running
  <2>3. q \in listed' => Started(q)
    BY <1>1, <2>1, Observed DEF Form, Started
  <2>4. Form(q)'
    BY <1>1, <2>1, <2>3 DEF Form, Started
  <2>5. Passed(q)'
    BY <1>1, <2>1, Observed DEF Passed, Started, Gated
  <2>6. Asked(q)'
    <3>1. pc[q] = "actor" => Asked(q)'
      BY <1>1, <2>1 DEF Asked, IssuerDid
    <3>2. CASE pc[q] = "name"
      <4>1. CASE q \in lapsed \/ call[q].op = "accept"
        BY <1>1, <2>1, <3>2, <4>1, Observed DEF Asked
      <4>2. CASE q \notin lapsed /\ call[q].op # "accept"
        <5>1. Running(q) /\ Started(q) /\ call[q].op = "prove" /\ call[q].op \notin IssuerOp
          BY <2>1, <3>2, <4>2 DEF Running, Started, Form, VerifierOp, IssuerOp
        <5>2. Unobjectionable(q)
          BY <2>1, <4>2, <5>1 DEF Watched
        <5>3. /\ actors[call[q].tenant] # None
              /\ actors[call[q].tenant].name = label[call[q].tenant]
          BY <2>1, <5>1, <5>2, Unobjected
        <5>4. CASE label' = label
          BY <1>1, <2>1, <5>4, Observed DEF Asked
        <5>5. CASE actors' = actors /\ label'[call[q].tenant] # label[call[q].tenant]
          <6>1. ~Unobjectionable(q)'
            BY <1>1, <5>1, <5>3, <5>5 DEF Unobjectionable, VerifierOp
          <6>. QED
            BY <1>1, <3>2, <5>1, <6>1, Observed DEF Asked, Started
        <5>6. CASE label'[call[q].tenant] = label[call[q].tenant]
          BY <1>1, <2>1, <3>2, <4>2, <5>6 DEF Asked
        <5>. QED
          BY <1>2, <5>4, <5>5, <5>6
      <4>. QED
        BY <4>1, <4>2
    <3>3. CASE pc[q] \notin {"actor", "name"}
      BY <1>1, <3>3 DEF Asked
    <3>. QED
      BY <3>1, <3>2, <3>3
  <2>. QED
    BY <2>2, <2>4, <2>5, <2>6
<1>5. Requests'
  BY <1>4 DEF Requests
<1>6. CheqdStays'
  <2>1. ASSUME NEW q \in listed', call[q].schema \in Cheqd
        PROVE  call[q].schema \in schemas'
    BY <1>1, <1>2, <2>1, Observed DEF Inv, CheqdStays
  <2>. QED
    BY <1>1, <2>1 DEF CheqdStays
<1>7. CheqdSchemasListed'
  BY <1>1, <1>2 DEF Inv, CheqdSchemasListed
<1>8. RefusedForCause'
  BY <1>1, Observed DEF Inv, RefusedForCause
<1>. QED
  BY <1>2, <1>3, <1>5, <1>6, <1>7, <1>8 DEF Inv

\* Nothing is asked at first, and what is on offer was listed.
LEMMA InvInit == Init => Inv
<1> SUFFICES ASSUME Init
             PROVE  Inv
  OBVIOUS
<1>1. PICK enrolled \in [Tenant -> SUBSET Role] :
        /\ public = {t \in Tenant : "issuer" \in enrolled[t]}
        /\ actors = [t \in Tenant |-> IF enrolled[t] = {} THEN None
                       ELSE [roles |-> enrolled[t], did |-> OnboardedDid(t), name |-> label[t]]]
  BY DEF Init
<1>2. label \in [Tenant -> Label] /\ schemas \subseteq Schema /\ public \subseteq Tenant
  BY <1>1 DEF Init
<1>3. \A t \in Tenant : /\ OnboardedDid(t) \in {<<t, "public">>, <<t, "key">>}
                       /\ OnboardedDid(t) \in Did
  BY DEF OnboardedDid, Did
<1>4. ASSUME NEW t \in Tenant
      PROVE  /\ actors[t] \in Actor \cup {None}
             /\ actors[t] # None => /\ actors[t].did \in {<<t, "public">>, <<t, "key">>}
                                    /\ actors[t].name = label[t]
  <2>1. CASE enrolled[t] = {}
    BY <1>1, <2>1
  <2>2. CASE enrolled[t] # {}
    <3>1. actors[t] = [roles |-> enrolled[t], did |-> OnboardedDid(t), name |-> label[t]]
      BY <1>1, <2>2
    <3>. QED
      BY <1>2, <1>3, <3>1 DEF Actor
  <2>. QED
    BY <2>1, <2>2
<1>5. actors \in [Tenant -> Actor \cup {None}]
  BY <1>1, <1>4
<1>6. credDefs \subseteq public \X schemas /\ offers \subseteq public \X (schemas \cup {None})
  BY DEF Init
<1>7. TypeOK
  <2>1. credDefs \subseteq Tenant \X Schema /\ offers \subseteq Tenant \X (Schema \cup {None})
    BY <1>2, <1>6
  <2>. QED
    BY <1>2, <1>5, <2>1, GateBounds DEF Init, TypeOK
<1>8. Registered
  BY <1>4 DEF Init, Registered
<1>9. Requests
  BY DEF Init, Requests, Form, Asked, Watched, Passed, Started, Running
<1>10. CheqdSchemasListed
  <2>1. None \notin Cheqd
    BY GateNone DEF Schema
  <2>. QED
    BY <1>6, <2>1 DEF CheqdSchemasListed
<1>11. CheqdStays /\ RefusedForCause
  BY GateNone DEF Init, CheqdStays, RefusedForCause
<1>. QED
  BY <1>7, <1>8, <1>9, <1>10, <1>11 DEF Inv

\* Every step keeps the invariant.
LEMMA InvStep == Inv /\ [Next]_vars => Inv'
<1> SUFFICES ASSUME Inv, [Next]_vars
             PROVE  Inv'
  OBVIOUS
<1>1. CASE Change /\ Observe
  BY <1>1, ChangeStep
<1>2. ASSUME NEW r \in Request, StepOf(r), Observe
      PROVE  Inv'
  BY <1>2, RequestStep
<1>3. CASE UNCHANGED vars
  <2>1. TypeOK' /\ Registered'
    BY <1>3 DEF vars, Inv, TypeOK, Registered
  <2>2. CheqdStays' /\ CheqdSchemasListed' /\ RefusedForCause'
    BY <1>3 DEF vars, Inv, CheqdStays, CheqdSchemasListed, RefusedForCause
  <2>3. ASSUME NEW q \in Request
        PROVE  Form(q)' /\ Asked(q)' /\ Watched(q)' /\ Passed(q)'
    <3>1. Form(q) /\ Asked(q) /\ Watched(q) /\ Passed(q)
      BY DEF Inv, Requests
    <3>2. Form(q)' /\ Passed(q)'
      BY <1>3, <3>1 DEF vars, Form, Passed, Started, Gated
    <3>3. Asked(q)'
      BY <1>3, <3>1 DEF vars, Asked, IssuerDid
    <3>4. (Entitled(q)' <=> Entitled(q)) /\ (Unobjectionable(q)' <=> Unobjectionable(q))
      BY <1>3 DEF vars, Entitled, Unobjectionable, IssuerDid
    <3>5. Watched(q)'
      BY <1>3, <3>1, <3>4 DEF vars, Watched, Running
    <3>. QED
      BY <3>2, <3>3, <3>5
  <2>. QED
    BY <2>1, <2>2, <2>3 DEF Inv, Requests
<1>. QED
  BY <1>1, <1>2, <1>3 DEF Next, Step, StepOf, AllAnswered

\* The invariant holds in every state of every behaviour.
LEMMA InvHolds == Spec => []Inv
BY InvInit, InvStep, PTL DEF Spec

-----------------------------------------------------------------------------
(* The results.                                                            *)

\* The registry, the agents and the requests keep their types; in particular, what a gate
\* looks up is a DID or a name, and what is on offer a schema.
THEOREM TypesAreKept == Spec => []TypeOK
<1>1. Inv => TypeOK
  BY DEF Inv
<1>. QED
  BY InvHolds, <1>1, PTL

\* What a request did, its counterpart was registered for, and its schema, at some
\* instant while the request was under way, for any number of requests, tenants, schemas
\* and changes: no gate acts on an answer that is older than the request
\* (app/services/trust_registry/util/{issuer,verifier}.py, app/util/acapy_verifier_utils.py).
THEOREM ActedWithinBoundsHolds == Spec => []ActedWithinBounds
<1>1. Inv => ActedWithinBounds
  <2>1. ASSUME Inv, NEW r \in acted, Gated(call[r])
        PROVE  /\ r \in entitled
               /\ SchemaAsked(call[r]) = None \/ r \in listed \/ r \in blind
    <3>1. r \in Request
      BY <2>1 DEF Inv, TypeOK
    <3>2. Form(r) /\ Passed(r)
      BY <2>1, <3>1 DEF Inv, Requests
    <3>. QED
      BY <2>1, <3>2 DEF Form, Passed, Started
  <2>. QED
    BY <2>1 DEF ActedWithinBounds
<1>. QED
  BY InvHolds, <1>1, PTL

\* A request is refused only for what spoke against it at some instant while it was under
\* way, or because the agent of an issuer failed when it was asked for the public DID
\* (assert_issuer_public_did, assert_public_did). No failure refuses a verifier, a prover or
\* a holder, and the lookups by DID, by invitation key and by label find a registered
\* verifier whichever of them it has (assert_valid_prover, assert_valid_verifier).
THEOREM RefusedForCauseHolds == Spec => []RefusedForCause
<1>1. Inv => RefusedForCause
  BY DEF Inv
<1>. QED
  BY InvHolds, <1>1, PTL

\* A did:cheqd schema that somebody has a definition of, or offers, is in the registry,
\* although the gate of an offer does not ask for it; but for definitions that were made
\* while the registry could not be reached.
THEOREM CheqdSchemasAreListed == Spec => []CheqdSchemasListed
<1>1. Inv => CheqdSchemasListed
  BY DEF Inv
<1>. QED
  BY InvHolds, <1>1, PTL

=============================================================================
