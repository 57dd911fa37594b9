---------------------------- MODULE MCKeyBudget ----------------------------
(***************************************************************************)
(* A small instance of KeyBudget for TLC: every combination of the three   *)
(* byte fields and of the two lists, on its own.                           *)
(***************************************************************************)
EXTENDS KeyBudget

CONSTANTS tcp, home

Fields == {Unset, Malformed, 0, 1, 3}
Lists == {Nil, {}, {[addr |-> home, net |-> AnyNet]}}

Specifications ==
  {[bytes |-> b, inBytes |-> i, outBytes |-> o, whitelist |-> Nil, blacklist |-> Nil] :
     b, i, o \in Fields} \cup
  {[bytes |-> b, inBytes |-> Unset, outBytes |-> Unset, whitelist |-> w, blacklist |-> x] :
     b \in {Unset, Malformed}, w, x \in Lists}
=============================================================================
