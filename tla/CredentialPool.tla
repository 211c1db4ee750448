--------------------------- MODULE CredentialPool ---------------------------
(***************************************************************************)
(* What the make-bindings commands promise about the credentials of a      *)
(* service instance: a new binding becomes the most recent one, and only   *)
(* bindings other than the most recent one are withdrawn.  An instance     *)
(* that has credentials therefore always keeps some, and an application    *)
(* that holds the most recent ones never loses them to a pruning.          *)
(***************************************************************************)
EXTENDS Naturals

CONSTANTS Instance, BindingId

VARIABLES
    live,    \* live[i]: the bindings of instance i whose credentials work
    newest   \* newest[i]: the most recent of them, 0 if there are none

vars == <<live, newest>>

TypeOK == /\ live \in [Instance -> SUBSET BindingId]
          /\ newest \in [Instance -> BindingId \cup {0}]

Init == /\ live \in [Instance -> SUBSET BindingId]
        /\ newest \in [Instance -> BindingId \cup {0}]
        /\ \A i \in Instance : IF live[i] = {} THEN newest[i] = 0
                                               ELSE newest[i] \in live[i]

Add(i, b) == /\ \A j \in Instance : b \notin live[j]
             /\ live' = [live EXCEPT ![i] = @ \cup {b}]
             /\ newest' = [newest EXCEPT ![i] = b]

Withdraw(i, b) == /\ b \in live[i] \ {newest[i]}
                  /\ live' = [live EXCEPT ![i] = @ \ {b}]
                  /\ UNCHANGED newest

Next == \E i \in Instance, b \in BindingId : Add(i, b) \/ Withdraw(i, b)

Spec == Init /\ [][Next]_vars
=============================================================================
