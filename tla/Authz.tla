------------------------------- MODULE Authz -------------------------------
(* The policy OPA serves for the gateway: policies/authz.rego.               *)
(*                                                                           *)
(* OPA is started with --watch, so the set of rules it decides with is not   *)
(* fixed: `loaded` is the part of the shipped policy that is loaded at the   *)
(* moment of the decision.  With nothing loaded the document is undefined,   *)
(* which the gateway takes for a deny, exactly like the default rule.        *)

\* The three `allow` rules of authz.rego, named for what they open.
Rule == {"read", "delete", "mint"}

HasRealmRole(claims, role) ==
    \E assigned \in claims.roles : assigned = role

\* The body of each rule but for `input.authenticated`, which all three share.
RuleHolds(rule, input) ==
    \/ /\ rule = "read"
       /\ input.method = "GET"
       /\ input.path = "/route-test"
    \/ /\ rule = "delete"
       /\ input.method = "POST"
       /\ input.path = "/orders/delete"
       /\ HasRealmRole(input.claims, "manager")
    \/ /\ rule = "mint"
       /\ input.method = "GET"
       /\ input.path = "/admin/mint-delete-credential"
       /\ HasRealmRole(input.claims, "manager")

\* Deny by default: the decision is true only if some loaded rule makes it so.
Allow(loaded, input) ==
    /\ input.authenticated
    /\ \E rule \in loaded : RuleHolds(rule, input)
=============================================================================
