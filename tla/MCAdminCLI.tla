----------------------------- MODULE MCAdminCLI -----------------------------
(***************************************************************************)
(* A small instance of AdminCLI for TLC: users of the command work on one  *)
(* key, while another may be created.                                      *)
(***************************************************************************)
EXTENDS AdminCLI, TLC

CONSTANTS k1, k2, tcp, home, work

Item(a) == [addr |-> a, net |-> AnyNet]
Plain(o) ==
  [op |-> o, key |-> k1, list |-> "whitelist", items |-> {}, bytes |-> Unset,
   inBytes |-> Unset, outBytes |-> Unset, admin |-> TRUE]
ListEdit(o, l, a) == [Plain(o) EXCEPT !.list = l, !.items = {Item(a)}]

AllCommands ==
  { Plain("newKey"), Plain("delKey"), Plain("show"), Plain("usage"), Plain("usageReset"),
    Plain("limitReset"), Plain("limit"),
    [Plain("limit") EXCEPT !.bytes = 2],
    [Plain("limit") EXCEPT !.bytes = 1, !.outBytes = Malformed],
    [Plain("limit") EXCEPT !.inBytes = 1, !.admin = FALSE],
    ListEdit("add", "whitelist", work), ListEdit("del", "whitelist", home),
    ListEdit("add", "blacklist", home), ListEdit("reset", "blacklist", work) }

DelCommand == {ListEdit("del", "whitelist", home)}

HomeOnly == [EmptyLimit EXCEPT !.whitelist = {Item(home)}]
Start(l) == [k \in Key |-> IF k = k1 THEN l ELSE Absent]
LimitedOrNot == {Start(HomeOnly), Start(Nil)}
Limited == {Start(HomeOnly)}
Some == [in |-> 1, out |-> 1]

UserSymmetry == Permutations(Cli)
=============================================================================
