-------------------------- MODULE MCActorRegistry --------------------------
(* A small instance of ActorRegistry: two actor ids, two names, two DIDs.  *)
EXTENDS ActorRegistry

CONSTANTS i1, i2, n1, n2, d1, d2, v1, m1

MCBody(name, roles, did, invitation, image) ==
  [name |-> name, roles |-> roles, did |-> did,
   invitation |-> invitation, image |-> image]

Acme   == MCBody(n1, {"issuer"}, d1, v1, m1)
Bank   == MCBody(n2, {"verifier"}, d2, None, None)
Rename == MCBody(n2, {"issuer"}, d1, None, None)
NoRole == MCBody(n2, {}, d2, v1, None)

MCCall(op, id, bodyId, body) == [op |-> op, id |-> id, bodyId |-> bodyId, body |-> body]

\* Creates that clash on the invitation, an update that clashes on the name, one
\* that sets and one that omits the image, one whose body names another id, a
\* row that cannot be read back, and reads.
MCCalls ==
  {MCCall("create", i1, i1, Acme), MCCall("create", i2, i2, Bank),
   MCCall("create", i2, i2, NoRole),
   MCCall("update", i1, None, Rename), MCCall("update", i1, i1, Acme),
   MCCall("update", i2, None, NoRole), MCCall("update", i1, i2, Bank),
   MCCall("delete", i1, None, Acme),
   MCCall("getAll", i1, None, Acme), MCCall("getById", i1, None, Acme),
   MCCall("getByName", i1, None, Bank), MCCall("getByDid", i1, None, Bank)}

=============================================================================
