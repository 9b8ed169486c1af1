----------------------------- MODULE MCTenants -----------------------------
(* A small instance of Tenants: two wallets, two labels, and calls that     *)
(* contend for both.                                                        *)
EXTENDS Tenants, TLC

CONSTANTS w1, w2, la, lb

MCCreate(label, roles) == [op |-> "create", label |-> label, roles |-> roles]
MCDelete(w) == [op |-> "delete", wallet |-> w]
MCUpdate(w, label, roles, image) ==
  [op |-> "update", wallet |-> w, label |-> label, roles |-> roles, image |-> image]

\* Two creates that want one label, a holder, a delete, a promotion to each
\* role, a rename with and without a promotion, and a new image.
MCCalls ==
  {MCCreate(la, {"verifier"}), MCCreate(la, {"issuer", "verifier"}), MCCreate(la, {}),
   MCDelete(w1),
   MCUpdate(w1, None, {"issuer"}, FALSE), MCUpdate(w1, lb, {}, FALSE),
   MCUpdate(w1, lb, {"verifier"}, FALSE), MCUpdate(w1, None, {}, TRUE)}

\* Requests differ in nothing but what they ask.
Interchangeable == Permutations(Request)
=============================================================================
