-------------------------- MODULE MCSchemaRegistry --------------------------
(* A small instance of SchemaRegistry: one DID, one name, two versions, one *)
(* did:cheqd schema and an id of each malformed kind.                       *)
EXTENDS SchemaRegistry

CONSTANTS d1, n1, x1, x2, k1, s1, m1

MCId(version) == [did |-> d1, name |-> n1, version |-> version]

MCCall(op, id, newId) == [op |-> op, id |-> id, newId |-> newId]

MCCheqdDid == [s \in Cheqd |-> d1]

\* Rivals for one id, updates in both directions, a did:cheqd id in every place,
\* and calls that are refused at once.
MCCalls ==
  {MCCall("register", MCId(x1), None), MCCall("register", MCId(x2), None),
   MCCall("register", k1, None), MCCall("register", s1, None), MCCall("register", m1, None),
   MCCall("update", MCId(x1), MCId(x2)), MCCall("update", MCId(x2), MCId(x1)),
   MCCall("update", MCId(x1), MCId(x1)), MCCall("update", MCId(x1), k1),
   MCCall("update", k1, MCId(x2)), MCCall("update", MCId(x1), s1), MCCall("update", MCId(x1), m1),
   MCCall("remove", MCId(x1), None), MCCall("remove", k1, None),
   MCCall("get", MCId(x1), None), MCCall("get", k1, None),
   MCCall("getAll", MCId(x1), None)}
=============================================================================
