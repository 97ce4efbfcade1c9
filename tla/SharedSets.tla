------------------------------ MODULE SharedSets ------------------------------
(***************************************************************************)
(* What routingDNSGate promises, without its mutex, its channel, its       *)
(* generations and its memo: the address sets are a resource that any      *)
(* number of answers may extend together, one address at a time, and that  *)
(* one apply at a time may shrink, alone.                                  *)
(***************************************************************************)
CONSTANTS
  Users,      \* DNS answers
  Owners,     \* applies
  Elements    \* addresses

VARIABLES
  inside,     \* answers that use the sets
  owner,      \* the apply that has the sets to itself, if any
  elements    \* what the sets hold

sharedVars == <<inside, owner, elements>>

Init == inside = {} /\ owner = {} /\ elements = {}

\* An answer is let in while no apply has the sets.
Enter(u) == owner = {} /\ u \notin inside /\ inside' = inside \cup {u} /\ UNCHANGED <<owner, elements>>
Leave(u) == u \in inside /\ inside' = inside \ {u} /\ UNCHANGED <<owner, elements>>
Extend(u) == u \in inside /\ \E e \in Elements : elements' = elements \cup {e} /\ UNCHANGED <<inside, owner>>

\* An apply takes the sets when nobody is inside.
Own(o) == inside = {} /\ owner = {} /\ owner' = {o} /\ UNCHANGED <<inside, elements>>
Shrink(o) == owner = {o} /\ elements' \subseteq elements /\ UNCHANGED <<inside, owner>>
Disown(o) == owner = {o} /\ owner' = {} /\ UNCHANGED <<inside, elements>>

Next ==
  \/ \E u \in Users : Enter(u) \/ Leave(u) \/ Extend(u)
  \/ \E o \in Owners : Own(o) \/ Shrink(o) \/ Disown(o)

Spec == Init /\ [][Next]_sharedVars
=============================================================================
