----------------------------- MODULE KeyBudget -----------------------------
(***************************************************************************)
(* One key of the ACL seen by its own: an administrator patches its limit, *)
(* traffic is counted, its usage is reset, and any stream may be checked   *)
(* against it at any moment.  The shared store around it is module ACL.    *)
(***************************************************************************)
EXTENDS Quota

CONSTANTS Specs,   \* the limits administrators send
          Amount   \* what a traffic event adds to a counter

ASSUME BudgetAssumption == Specs \subseteq Limit /\ Amount \subseteq Word

VARIABLES entry,   \* the numbers and lists the key is checked against
          usage    \* the bytes counted for it

vars == <<entry, usage>>

Init == entry = FreshEntry /\ usage = NoUsage

\* ACL.Limit; a patch that fails to parse is applied in part.
Patch(l) == entry' = applyACLKeyLimit(entry, l) /\ UNCHANGED usage

\* The two additions of ACL.UpdateBytesUsage, which a check may fall between.
CountIn(n) == usage' = [usage EXCEPT !.in = Plus(@, n)] /\ UNCHANGED entry
CountOut(n) == usage' = [usage EXCEPT !.out = Plus(@, n)] /\ UNCHANGED entry

\* ACL.DelUsage.
ResetUsage == usage' = NoUsage /\ UNCHANGED entry

Next ==
  \/ \E l \in Specs : Patch(l)
  \/ \E n \in Amount : CountIn(n) \/ CountOut(n)
  \/ ResetUsage

Spec == Init /\ [][Next]_vars

TypeOK == entry \in KeyEntry /\ usage \in Usage

\* A key CheckKey admits is within its total budget, if the parts of the
\* budget fit into the whole and the counters have not overflowed
\* (acl.go:48-72,146-160).
BudgetHonoured == BudgetHolds(entry, usage)

\* Bytes counted without overflow never lift a refusal: only a patch or a
\* reset does (acl.go:48-72,198-206).
RefusalIsStable ==
  [][UNCHANGED entry /\ usage.in <= usage'.in /\ usage.out <= usage'.out
       => RefusalHolds(entry, usage, usage')]_vars

\* A PATCH sent twice, as after a lost answer, is a PATCH sent once, also when
\* it is applied in part (acl.go:240-256,294-321).
RetryIsHarmless == \A l \in Specs : RetryHolds(entry, l)

\* What a restart makes of a stored limit answers every check as the limit
\* that was sent, but for the empty whitelist (api.go:12, acl.go:123-132).
ReloadKeepsVerdict == \A l \in Specs, t \in Target : ReloadHolds(l, usage, t)
=============================================================================
