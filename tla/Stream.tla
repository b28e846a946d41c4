------------------------------- MODULE Stream -------------------------------
(***************************************************************************)
(* What the os layer promises dix about output: each client is sent what is *)
(* written to it, whole and in order, until its connection ends.  Units are *)
(* numbered from the one the client reads next.                             *)
(***************************************************************************)
EXTENDS Naturals, Sequences

CONSTANTS Fds, Sizes        \* connections, and the sizes of a write

VARIABLES up,               \* per connection: both ends are there
          queue             \* per connection: written and not yet read

vars == <<up, queue>>

Numbers(from, n) == [i \in 1..n |-> from + i]

Init == up = [f \in Fds |-> FALSE] /\ queue = [f \in Fds |-> <<>>]

Open(f)  == ~up[f] /\ up'[f] /\ queue'[f] = <<>>
Write(f) == /\ up[f] /\ up'[f]
            /\ \E n \in Sizes : queue'[f] = queue[f] \o Numbers(Len(queue[f]), n)
Read(f)  == /\ up[f] /\ up'[f] /\ queue[f] # <<>>
            /\ queue'[f] = Numbers(0, Len(queue[f]) - 1)
Close(f) == up[f] /\ ~up'[f] /\ queue'[f] = <<>>
Stay(f)  == up'[f] = up[f] /\ queue'[f] = queue[f]

\* Connections know nothing of each other.
Next ==
    /\ up' \in [Fds -> BOOLEAN] /\ DOMAIN queue' = Fds
    /\ \A f \in Fds : Open(f) \/ Write(f) \/ Read(f) \/ Close(f) \/ Stay(f)

Spec == Init /\ [][Next]_vars
=============================================================================
