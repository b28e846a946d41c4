----------------------------- MODULE GrabTable -----------------------------
(***************************************************************************)
(* What the protocol says of the passive grabs of one window: a table of     *)
(* combinations of a device, a key or button, and modifiers, each granted    *)
(* to one client or to nobody.  Naming "any" key, button or modifiers is     *)
(* naming each of them; a client's new grab overrides its older ones.        *)
(***************************************************************************)
CONSTANTS Client, Device, Detail, Modifier, Terms, Nobody

VARIABLE holder     \* per combination: the client and its terms, or Nobody

Combination == [device : Device, detail : Detail, modifiers : Modifier]

\* What one request can name: one value or any
Names(Value) == {Value} \cup {{x} : x \in Value}
Block(d, keys, masks) == [device : {d}, detail : keys, modifiers : masks]

HeldBy(x, c) == holder[x] # Nobody /\ holder[x].client = c

Grant(c, terms, block) ==
    /\ \A x \in block : holder[x] = Nobody \/ HeldBy(x, c)
    /\ holder' = [x \in Combination |->
                    IF x \in block THEN [client |-> c, terms |-> terms]
                                   ELSE holder[x]]

Release(c, block) ==
    holder' = [x \in Combination |->
                IF x \in block /\ HeldBy(x, c) THEN Nobody ELSE holder[x]]

Init == holder = [x \in Combination |-> Nobody]

Next ==
    \E c \in Client :
        \/ \E d \in Device, keys \in Names(Detail), masks \in Names(Modifier) :
              \/ \E terms \in Terms : Grant(c, terms, Block(d, keys, masks))
              \/ Release(c, Block(d, keys, masks))
        \/ Release(c, Combination)

Spec == Init /\ [][Next]_holder
=============================================================================
