------------------------------- MODULE MCACL -------------------------------
(***************************************************************************)
(* Small instances of ACL for TLC.                                         *)
(***************************************************************************)
EXTENDS ACL, TLC

CONSTANTS k1, k2, k3, tcp, home

\* A stored record whose key has no limit and no traffic.
Plain(k) == [key |-> k, limit |-> Nil, usage |-> NoUsage]

TwoKeys == {<<Plain(k1), Plain(k2)>>}
NoFile == {Missing}
OneKeyOrNone == {<<Plain(k1)>>, Missing}
UsedKeyOrNone == {<<[Plain(k1) EXCEPT !.usage.in = 2]>>, Missing}

Home == [network |-> tcp, addr |-> home]
OneTarget == {Home}
NoTargets == {}

Cap(n) == [EmptyLimit EXCEPT !.bytes = n]
OnlyLists(w, b) == [EmptyLimit EXCEPT !.whitelist = w, !.blacklist = b]
HomePattern == [addr |-> home, net |-> AnyNet]

\* A total; a total and the empty limit of "limit --reset"; a limit that fails
\* to parse after its first field, and an empty whitelist.
OneLimit == {Cap(2)}
CapAndReset == {Cap(2), EmptyLimit}
ListLimits == {[Cap(2) EXCEPT !.inBytes = Malformed, !.blacklist = {HomePattern}],
               OnlyLists({}, Nil)}

OneEvent == {<<1, 1>>}
BigEvent == {<<3, 1>>}
NoEvents == {}

\* Handlers are interchangeable.
HandlerSymmetry == Permutations(Admin)
=============================================================================
