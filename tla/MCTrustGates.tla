---------------------------- MODULE MCTrustGates ----------------------------
(* A small instance of TrustGates: one tenant that acts and one that may     *)
(* have its label, a legacy schema and a did:cheqd one.                      *)
EXTENDS TrustGates

CONSTANTS t1, l1, s1, k1

MCCall(op, schema, via) ==
  [op |-> op, tenant |-> t1, schema |-> schema, via |-> via, their |-> l1]

MCCalls ==
  {MCCall("credDef", s1, None), MCCall("credDef", k1, None),
   MCCall("offer", s1, None), MCCall("offer", k1, None), MCCall("offer", None, None),
   MCCall("request", s1, "public"), MCCall("request", k1, "public"),
   MCCall("request", None, "public"), MCCall("request", None, "other"),
   MCCall("prove", None, "key"), MCCall("prove", None, "other"), MCCall("prove", None, None),
   MCCall("accept", s1, "public"), MCCall("accept", s1, "other"),
   MCCall("accept", None, "key"), MCCall("accept", Hidden, "key"),
   MCCall("accept", s1, None)}
=============================================================================
