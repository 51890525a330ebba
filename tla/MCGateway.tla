----------------------------- MODULE MCGateway ------------------------------
(* Small instances of Gateway for TLC.                                       *)
EXTENDS Gateway, TLC

CONSTANTS r1, r2, r3, c1, c2, o1, o2

Ask(method, path, token, credential, order) ==
    [method |-> method, path |-> path, token |-> token,
     credential |-> credential, order |-> order]

Read(token) == Ask("GET", "/route-test", token, None, NoId)
Mint(token) == Ask("GET", "/admin/mint-delete-credential", token, None, NoId)
Delete(token, credential, order) ==
    Ask("POST", "/orders/delete", token, credential, order)

User(exp) == [roles |-> {"user"}, genuine |-> TRUE, exp |-> exp]
ManagerToken(exp) == [roles |-> {"user", "manager"}, genuine |-> TRUE, exp |-> exp]
Forged == [roles |-> {"manager"}, genuine |-> FALSE, exp |-> 9]

MCToken == {User(9), ManagerToken(9), ManagerToken(1), Forged}

\* The whole policy, and an edit that takes the mint out of it.
MCPolicies == {Rule, {"read", "delete"}}
Shipped == {Rule}

\* Every token at the gates of the privileged routes, no token and a user's at the
\* other; behind them, every way through that the first gate leaves open, with every
\* credential and every kind of body.
GateInput ==
    {Read(t) : t \in {None, User(9)}}
    \cup {Ask("HEAD", "/route-test", User(9), None, NoId)}
    \cup {Mint(t) : t \in MCToken}
    \cup {Delete(t, None, o1) : t \in MCToken \ {User(9)}}
    \cup {Delete(ManagerToken(9), c, o1) : c \in {Garbage, RootToken}}
    \cup {Delete(ManagerToken(9), c1, o) : o \in OrderArg}
    \cup {Delete(User(9), c1, o1)}

\* Managers who mint and spend, each with any token that was handed out.
SpendInput ==
    {Mint(ManagerToken(9))}
    \cup {Delete(ManagerToken(9), c, o) : c \in Cred, o \in OrderId}

SpendSymmetry == Permutations(Req) \cup Permutations(Cred) \cup Permutations(OrderId)
=============================================================================
