------------------------------ MODULE GrabRights ------------------------------
(***************************************************************************)
(* What grabs promise each other, whatever the events: who holds a device,   *)
(* and which grabs keep it frozen.  A grab is named by the device it holds.  *)
(*   A device that is held passes to another client only when its holder      *)
(*   lets go; a device that another client has frozen is not taken; a client  *)
(*   freezes and thaws in the name of its own grabs only; and the end of a     *)
(*   grab ends exactly the freezes made in its name.                          *)
(***************************************************************************)
CONSTANTS Client, Device, Nobody

VARIABLES
    holder,     \* per device: the client whose grab holds it, or Nobody
    frozenBy    \* per device: the grabs that keep it frozen

vars == <<holder, frozenBy>>

Init ==
    /\ holder = [d \in Device |-> Nobody]
    /\ frozenBy = [d \in Device |-> {}]

\* Only the grabs of gs start or stop to freeze.
FreezesOnlyOf(gs) ==
    \A d \in Device : frozenBy'[d] \ gs = frozenBy[d] \ gs

\* A client takes a device that is free or its own, and may freeze any.
Take(c, d) ==
    /\ holder[d] \in {Nobody, c}
    /\ \A g \in frozenBy[d] : holder[g] = c
    /\ holder' = [holder EXCEPT ![d] = c]
    /\ frozenBy' \in [Device -> SUBSET Device]
    /\ FreezesOnlyOf({g \in Device : holder'[g] = c})

\* The holder lets go of a device.
LetGo(d) ==
    /\ holder' = [holder EXCEPT ![d] = Nobody]
    /\ frozenBy' = [x \in Device |-> frozenBy[x] \ {d}]

\* The holder lets go of a device and has the event that froze it replayed,
\* which starts a grab of another client.  Unlike Take this does not wait for
\* the grab of the other device that may keep it frozen.
HandOn(c, d) ==
    /\ holder[d] # Nobody
    /\ holder' = [holder EXCEPT ![d] = c]
    /\ frozenBy' \in [Device -> SUBSET Device]
    /\ FreezesOnlyOf({g \in Device : holder'[g] = c} \cup {d})

\* A client thaws devices, or one of its grabs freezes them again.
Sync(c) ==
    /\ holder' = holder
    /\ frozenBy' \in [Device -> SUBSET Device]
    /\ FreezesOnlyOf({g \in Device : holder[g] = c})

Next ==
    \/ \E c \in Client, d \in Device : Take(c, d) \/ HandOn(c, d)
    \/ \E d \in Device : LetGo(d)
    \/ \E c \in Client : Sync(c)

Spec == Init /\ [][Next]_vars
=============================================================================
