--------------------------- MODULE DispatchProofs ---------------------------
(***************************************************************************)
(* What holds of module Dispatch for every number of descriptors, clients   *)
(* and requests, with or without signals and failing writes.                *)
(***************************************************************************)
EXTENDS Dispatch, TLAPS, WellFoundedInduction, FiniteSetTheorems

-----------------------------------------------------------------------------
(* The inductive invariant.                                                *)

\* CloseDownClient hands the index back to nextFreeClientID.
IndexInArray == \A s \in Slots : InUse(s) => s < currentMaxClients

\* A descriptor translates to the connected client that holds it, and an
\* open one translates.
TranslationLive ==
    \A f \in Fds :
        /\ ConnectionTranslation[f] # Nobody =>
             /\ Connected(ConnectionTranslation[f])
             /\ clients[ConnectionTranslation[f]].fd = f
        /\ isOpen[f] => ConnectionTranslation[f] # Nobody

\* An entry left in clientReady[] is of the client that holds the descriptor, if
\* it is connected still: nobody gets the index of a closed one in the round.
ReadyLive ==
    /\ \A f \in DOMAIN ready : ready[f] # Nobody =>
          (Connected(ready[f]) => clients[ready[f]].fd = f)
    /\ pc \in {"wait", "select", "killall"} => DOMAIN ready = {}

\* The client whose turn it is has no second turn and, once a request of its
\* was read, is connected.
TurnLive ==
    /\ pc \in {"read", "exec", "close"} =>
        /\ client \in Slots
        /\ Connected(client) => clients[client].fd \notin DOMAIN ready
    /\ pc \in {"exec", "close"} => Connected(client)

\* KillAllClients has closed every index below its loop variable.
KilledSoFar ==
    pc = "killall" =>
        /\ client \in 1..currentMaxClients
        /\ \A s \in Slots : s < client => ~Connected(s)

NewcomerLive ==
    /\ pc = "new" => newClient \in Slots /\ Connected(newClient)
    /\ pc # "new" => newClient = Nobody

Counted == {s \in Slots : Connected(s) /\ s # newClient}

\* nClients is -1 only from the close of the last connection to the end of
\* the round, or while CheckConnections still drops descriptors.
CountExact ==
    pc # "killall" =>
        \/ nClients = Cardinality(Counted)
        \/ /\ nClients = -1 /\ Counted = {}
           /\ \/ pc \in {"serve", "read", "undefined"}
              \/ pc \in {"wait", "select"} /\ BadFds # {}

GrabLive ==
    /\ grabbingClient <=> GrabDone
    /\ grabbingClient => onlyClient \in Slots /\ Connected(onlyClient)

IInv ==
    /\ TypeOK /\ IndexInArray /\ TranslationLive /\ ReadyLive /\ TurnLive
    /\ KilledSoFar /\ NewcomerLive /\ CountExact /\ GrabLive
    /\ GrabExcludesOthers

-----------------------------------------------------------------------------
(* Lemmas.                                                                 *)

\* Least returns the least member of any nonempty set of naturals: the index
\* NextAvailableClient picks and the descriptor accept() returns exist.
LEMMA LeastIsLeast ==
    ASSUME NEW S, S \subseteq Nat, S # {}
    PROVE  Least(S) \in S /\ \A y \in S : Least(S) <= y
<1> DEFINE R == {ss \in Nat \X Nat : ss[1] < ss[2]}
<1>1. IsWellFoundedOn(R, Nat)
    BY NatLessThanWellFounded DEF OpToRel
<1> HIDE DEF R
<1>2. PICK x \in S : \A y \in S : ~ (<<y, x>> \in R)
    BY <1>1, WFMin, Zenon
<1>3. ASSUME NEW y \in S
      PROVE  x <= y
    <2>1. <<y, x>> \notin R
        BY <1>2
    <2>2. <<y, x>> \in Nat \X Nat /\ ~ (y < x)
        BY <2>1 DEF R
    <2> QED BY <2>2
<1> QED BY <1>3 DEF Least

\* Greatest returns the greatest member of a nonempty set of descriptors or
\* indices: the round of Dispatch always has a last entry.
LEMMA GreatestIsGreatest ==
    ASSUME NEW n \in Nat, NEW S, S \subseteq 1..n, S # {}
    PROVE  Greatest(S) \in S
<1> DEFINE T == {n - x : x \in S}
<1>1. T \subseteq Nat /\ T # {}
    <2>1. \A x \in S : x \in Int /\ n - x \in Nat
        OBVIOUS
    <2> QED BY <2>1
<1>2. Least(T) \in T /\ \A y \in T : Least(T) <= y
    BY <1>1, LeastIsLeast
<1>3. PICK x \in S : Least(T) = n - x
    BY <1>2
<1>4. ASSUME NEW y \in S
      PROVE  y <= x
    <2>1. n - y \in T /\ x \in Int /\ y \in Int
        OBVIOUS
    <2>2. n - x <= n - y
        BY <1>2, <1>3, <2>1
    <2> QED BY <2>1, <2>2
<1> QED BY <1>3, <1>4 DEF Greatest

\* What is known of any client in use.
LEMMA ClientType ==
    ASSUME TypeOK, NEW s \in Slots, InUse(s)
    PROVE  /\ clients[s] \in Client /\ clients[s].fd \in Fds
           /\ clients[s].mode \in Modes
           /\ clients[s].gone \in BOOLEAN /\ clients[s].exc \in BOOLEAN
BY DEF TypeOK, InUse, Client

\* What CloseDownClient does to clients[], the count and the server grab.
CloseEffect(s) ==
    /\ \A t \in Slots \ {s} : clients'[t] = clients[t]
    /\ ~Connected(s)' /\ (InUse(s)' => InUse(s))
    /\ IF Connected(s)
       THEN \/ nClients' = nClients - 1
            \/ nClients = 1 /\ nClients' = -1
       ELSE nClients' = nClients
    /\ grabbingClient' <=> GrabDone'
    /\ grabbingClient' => grabbingClient /\ onlyClient # s
    /\ onlyClient' = onlyClient
    /\ currentMaxClients' = currentMaxClients

\* The part of TypeOK CloseDownClient can disturb.
CloseTypes ==
    /\ backlog' \in 0..MaxBacklog
    /\ isOpen' \in [Fds -> BOOLEAN] /\ hungUp' \in [Fds -> BOOLEAN]
    /\ wire' \in [Fds -> 0..MaxWire] /\ buf' \in [Fds -> 0..BufSize]
    /\ AllClients' \subseteq Fds /\ SavedAllClients' \subseteq Fds
    /\ ClientsWithInput' \subseteq Fds /\ SavedClientsWithInput' \subseteq Fds
    /\ GrabDone' \in BOOLEAN /\ grabbingClient' \in BOOLEAN
    /\ onlyClient' \in Slots \cup {Nobody}
    /\ ConnectionTranslation' \in [Fds -> Slots \cup {Nobody}]
    /\ clients' \in [Slots -> Client \cup {NullClient}]
    /\ currentMaxClients' \in 2..MAXCLIENTS
    /\ nextFreeClientID' \in 1..(currentMaxClients' - 1)
    /\ nClients' \in Int

LEMMA CloseDownClientEffect ==
    ASSUME IInv, NEW s \in Slots, InUse(s), CloseDownClient(s)
    PROVE  CloseEffect(s)
<1>1. CASE Connected(s)
    <2>1. clients[s] \in Client /\ clients[s].fd \in Fds
        BY ClientType DEF IInv
    <2>2. ~Retained(s)
        BY <1>1 DEF Connected, Retained
    <2>3. UngrabAndDrop(s, clients[s].fd)
        BY <1>1, <2>2 DEF CloseDownClient
    <2>4. /\ grabbingClient' <=> GrabDone'
          /\ grabbingClient' => grabbingClient /\ onlyClient # s
        BY <2>3 DEF UngrabAndDrop, HoldsGrab, IInv, GrabLive, TypeOK
    <2>5. onlyClient' = onlyClient /\ currentMaxClients' = currentMaxClients
        BY DEF CloseDownClient
    <2>6. CASE clients[s].mode = "DestroyAll"
        <3>1. clients' = [clients EXCEPT ![s] = NullClient] /\ nClients' = OneFewer
            BY <1>1, <2>2, <2>6 DEF CloseDownClient, FreeSlot
        <3>2. clients'[s] = NullClient /\ \A t \in Slots \ {s} : clients'[t] = clients[t]
            BY <3>1 DEF IInv, TypeOK
        <3> QED BY <1>1, <2>4, <2>5, <3>1, <3>2
                DEF CloseEffect, Connected, InUse, OneFewer
    <2>7. CASE clients[s].mode # "DestroyAll"
        <3>1. /\ clients' = [clients EXCEPT ![s].gone = TRUE]
              /\ nClients' = nClients - 1
            BY <1>1, <2>2, <2>7 DEF CloseDownClient
        <3>2. /\ clients'[s].gone = TRUE
              /\ \A t \in Slots \ {s} : clients'[t] = clients[t]
            BY <2>1, <3>1 DEF IInv, TypeOK, Client
        <3> QED BY <1>1, <2>4, <2>5, <3>1, <3>2 DEF CloseEffect, Connected, InUse
    <2> QED BY <2>6, <2>7
<1>2. CASE ~Connected(s)
    <2>1. UngrabFor(s) /\ FreeSlot(s) /\ UNCHANGED <<nClients, onlyClient, currentMaxClients>>
        BY <1>2 DEF CloseDownClient, Connected
    <2>2. /\ grabbingClient' <=> GrabDone'
          /\ grabbingClient' => grabbingClient /\ onlyClient # s
        BY <2>1, <1>2
        DEF UngrabFor, ListenToAllClients, HoldsGrab, IInv, GrabLive, TypeOK, maskVars
    <2>3. clients'[s] = NullClient /\ \A t \in Slots \ {s} : clients'[t] = clients[t]
        BY <2>1 DEF FreeSlot, IInv, TypeOK
    <2> QED BY <1>2, <2>1, <2>2, <2>3 DEF CloseEffect, Connected, InUse
<1> QED BY <1>1, <1>2

LEMMA CloseDownClientTypes ==
    ASSUME IInv, NEW s \in Slots, InUse(s), CloseDownClient(s)
    PROVE  CloseTypes
<1> USE DispatchAssumption
<1>0. s \in 1..(currentMaxClients - 1)
    BY DEF IInv, IndexInArray, TypeOK, Slots
<1>1. clients[s] \in Client /\ clients[s].fd \in Fds
    BY ClientType DEF IInv
<1>2. nClients' \in Int
    BY CloseDownClientEffect DEF CloseEffect, IInv, TypeOK
<1>3. onlyClient' \in Slots \cup {Nobody} /\ currentMaxClients' = currentMaxClients
    BY DEF CloseDownClient, IInv, TypeOK
<1>4. nextFreeClientID' \in 1..(currentMaxClients' - 1)
    BY <1>0, <1>3 DEF CloseDownClient, FreeSlot, IInv, TypeOK
<1>5. clients' \in [Slots -> Client \cup {NullClient}]
    <2>1. [clients[s] EXCEPT !.gone = TRUE] \in Client
        BY <1>1 DEF Client
    <2>2. \/ clients' = [clients EXCEPT ![s] = NullClient]
          \/ clients' = [clients EXCEPT ![s] = [clients[s] EXCEPT !.gone = TRUE]]
        BY DEF CloseDownClient, FreeSlot
    <2> QED BY <2>1, <2>2 DEF IInv, TypeOK
<1>6. CASE Connected(s)
    <2>1. /\ UngrabAndDrop(s, clients[s].fd)
          /\ CloseDownConnection(clients[s].fd)
        BY <1>6 DEF CloseDownClient, Connected, Retained
    <2>2. /\ AllClients' \subseteq Fds /\ SavedAllClients' \subseteq Fds
          /\ ClientsWithInput' \subseteq Fds /\ SavedClientsWithInput' \subseteq Fds
          /\ GrabDone' \in BOOLEAN /\ grabbingClient' \in BOOLEAN
        BY <2>1 DEF UngrabAndDrop, ListenedTo, Buffered, IInv, TypeOK
    <2>3. /\ backlog' \in 0..MaxBacklog
          /\ isOpen' \in [Fds -> BOOLEAN] /\ hungUp' \in [Fds -> BOOLEAN]
          /\ wire' \in [Fds -> 0..MaxWire] /\ buf' \in [Fds -> 0..BufSize]
          /\ ConnectionTranslation' \in [Fds -> Slots \cup {Nobody}]
        BY <2>1, <1>1 DEF CloseDownConnection, CloseDescriptor, IInv, TypeOK
    <2> QED BY <1>2, <1>3, <1>4, <1>5, <2>2, <2>3 DEF CloseTypes, IInv, TypeOK
<1>7. CASE ~Connected(s)
    <2>1. /\ UngrabFor(s)
          /\ UNCHANGED <<kernelVars, buf, ConnectionTranslation>>
        BY <1>7 DEF CloseDownClient, Connected
    <2>2. /\ AllClients' \subseteq Fds /\ SavedAllClients' \subseteq Fds
          /\ ClientsWithInput' \subseteq Fds /\ SavedClientsWithInput' \subseteq Fds
          /\ GrabDone' \in BOOLEAN /\ grabbingClient' \in BOOLEAN
        BY <2>1 DEF UngrabFor, ListenToAllClients, ListenedTo, Buffered, maskVars,
                    IInv, TypeOK
    <2> QED BY <1>2, <1>3, <1>4, <1>5, <2>1, <2>2
            DEF CloseTypes, IInv, TypeOK, kernelVars
<1> QED BY <1>6, <1>7

\* The translation after a close: the client's own descriptor is cleared.
LEMMA CloseDownClientTranslation ==
    ASSUME IInv, NEW s \in Slots, InUse(s), CloseDownClient(s)
    PROVE  TranslationLive'
<1>1. clients[s] \in Client /\ clients[s].fd \in Fds
    BY ClientType DEF IInv
<1>2. CloseEffect(s) /\ CloseTypes
    BY CloseDownClientEffect, CloseDownClientTypes
<1>3. CASE Connected(s)
    <2>1. CloseDownConnection(clients[s].fd)
        BY <1>3 DEF CloseDownClient, Connected, Retained
    <2> DEFINE g == clients[s].fd
    <2>2. /\ ConnectionTranslation' = [ConnectionTranslation EXCEPT ![g] = Nobody]
          /\ isOpen' = [isOpen EXCEPT ![g] = FALSE]
        BY <2>1 DEF CloseDownConnection, CloseDescriptor
    <2>3. ASSUME NEW f \in Fds, ConnectionTranslation'[f] # Nobody
          PROVE  /\ Connected(ConnectionTranslation[f])'
                 /\ clients'[ConnectionTranslation'[f]].fd = f
        <3>1. f # g /\ ConnectionTranslation'[f] = ConnectionTranslation[f]
            BY <2>2, <2>3, <1>1 DEF IInv, TypeOK
        <3>2. /\ Connected(ConnectionTranslation[f])
              /\ clients[ConnectionTranslation[f]].fd = f
              /\ ConnectionTranslation[f] \in Slots
            BY <2>3, <3>1 DEF IInv, TranslationLive, TypeOK
        <3>3. clients'[ConnectionTranslation[f]] = clients[ConnectionTranslation[f]]
            BY <3>1, <3>2, <1>2 DEF CloseEffect
        <3> QED BY <3>1, <3>2, <3>3 DEF Connected, InUse
    <2>4. ASSUME NEW f \in Fds, isOpen'[f]
          PROVE  ConnectionTranslation'[f] # Nobody
        BY <2>2, <2>4, <1>1 DEF IInv, TypeOK, TranslationLive
    <2> QED BY <2>3, <2>4 DEF TranslationLive
<1>4. CASE ~Connected(s)
    <2>1. UNCHANGED <<kernelVars, ConnectionTranslation>>
        BY <1>4 DEF CloseDownClient, Connected
    <2>2. \A t \in Slots : Connected(t) => clients'[t] = clients[t]
        BY <1>2, <1>4 DEF CloseEffect
    <2> QED BY <2>1, <2>2 DEF IInv, TypeOK, TranslationLive, Connected, InUse, kernelVars
<1> QED BY <1>3, <1>4

LEMMA CountedFinite == IsFiniteSet(Counted) /\ IsFiniteSet(Counted)'
<1>1. IsFiniteSet(Slots)
    BY FS_Interval, DispatchAssumption DEF Slots
<1>2. Counted \subseteq Slots /\ Counted' \subseteq Slots
    BY DEF Counted
<1> QED BY <1>1, <1>2, FS_Subset

\* The count of the connections is exact after a close: one less for a
\* connected client, as before for one that had only retained resources.
LEMMA CloseCount ==
    ASSUME IInv, NEW s \in Slots, InUse(s), CloseEffect(s), pc # "killall",
           s # newClient, newClient' = newClient
    PROVE  \/ nClients' = Cardinality(Counted')
           \/ nClients' = -1 /\ Counted' = {}
<1>1. CASE Connected(s)
    <2>1. s \in Counted /\ Counted' = Counted \ {s}
        BY <1>1 DEF Counted, CloseEffect, Connected, InUse
    <2>2. nClients = Cardinality(Counted)
        BY <2>1 DEF IInv, CountExact
    <2>3. Cardinality(Counted') = Cardinality(Counted) - 1
        BY <2>1, CountedFinite, FS_RemoveElement
    <2>4. Cardinality(Counted) \in Nat
        BY CountedFinite, FS_CardinalityType
    <2>5. CASE nClients' = nClients - 1
        BY <2>2, <2>3, <2>5
    <2>6. CASE nClients = 1 /\ nClients' = -1
        <3>1. Cardinality(Counted') = 0
            BY <2>2, <2>3, <2>6
        <3> QED BY <2>6, <3>1, CountedFinite, FS_EmptySet
    <2> QED BY <1>1, <2>5, <2>6 DEF CloseEffect
<1>2. CASE ~Connected(s)
    <2>1. \A t \in Slots : Connected(t)' <=> Connected(t)
        BY <1>2 DEF CloseEffect, Connected, InUse
    <2>2. Counted' = Counted
        BY <2>1 DEF Counted
    <2> QED BY <1>2, <2>2 DEF CloseEffect, IInv, CountExact
<1> QED BY <1>1, <1>2

\* A client is counted once it is welcomed: with nobody counted and no
\* newcomer, no descriptor is open.
LEMMA NobodyOpen ==
    ASSUME TypeOK, TranslationLive, newClient = Nobody, Counted = {}
    PROVE  \A f \in Fds : ~isOpen[f] /\ ConnectionTranslation[f] = Nobody
<1> SUFFICES ASSUME NEW f \in Fds, ConnectionTranslation[f] # Nobody
             PROVE  FALSE
    BY DEF TranslationLive
<1>1. /\ ConnectionTranslation[f] \in Slots
      /\ Connected(ConnectionTranslation[f])
    BY DEF TypeOK, TranslationLive
<1>2. ConnectionTranslation[f] \in Counted
    BY <1>1 DEF Counted, Slots, Nobody
<1> QED BY <1>2

-----------------------------------------------------------------------------
(* Each step preserves the invariant: first the peers and the signals.     *)

\* Steps that leave the server's own tables, masks and position alone.
LEMMA QuietStep ==
    ASSUME IInv, TypeOK',
           UNCHANGED <<isOpen, AllClients, GrabDone, grabVars, tableVars, pc,
                       ready, newClient, client>>
    PROVE  IInv'
<1>1. UNCHANGED <<isOpen, AllClients, GrabDone, grabbingClient, onlyClient,
                  clients, nextFreeClientID, currentMaxClients, nClients,
                  ConnectionTranslation, pc, ready, newClient, client>>
    BY DEF grabVars, tableVars
<1>2. Counted' = Counted /\ BadFds' = BadFds
    BY <1>1 DEF Counted, BadFds, Connected, InUse
<1> QED
    BY <1>1, <1>2
    DEF IInv, IndexInArray, TranslationLive, ReadyLive, TurnLive, KilledSoFar,
        NewcomerLive, CountExact, GrabLive, GrabExcludesOthers, Connected, InUse

LEMMA PeerStep ==
    ASSUME IInv, Connect \/ DoomSignal \/ \E f \in Fds : Send(f) \/ HangUp(f)
    PROVE  IInv'
<1> USE DispatchAssumption DEF IInv, TypeOK
<1> USE DEF ServerOnly, kernelVars, maskVars, grabVars, tableVars, loopVars, turnVars
<1>1. CASE Connect
    BY <1>1, QuietStep DEF Connect
<1>2. CASE DoomSignal
    BY <1>2, QuietStep DEF DoomSignal
<1>3. ASSUME NEW f \in Fds, Send(f)
      PROVE  IInv'
    BY <1>3, QuietStep DEF Send
<1>4. ASSUME NEW f \in Fds, HangUp(f)
      PROVE  IInv'
    BY <1>4, QuietStep DEF HangUp
<1> QED BY <1>1, <1>2, <1>3, <1>4

\* A failed write closes a descriptor and marks its client; no client comes
\* or goes.
LEMMA WriteFailsStep ==
    ASSUME IInv, NEW s \in Slots, WriteFails(s)
    PROVE  IInv'
<1> DEFINE g == clients[s].fd
<1>1. /\ clients[s] \in Client /\ g \in Fds
      /\ pc # "read" /\ Connected(s)
    BY ClientType DEF WriteFails, Connected, IInv
<1>2. /\ clients' = [clients EXCEPT ![s].exc = TRUE]
      /\ isOpen' = [isOpen EXCEPT ![g] = FALSE]
      /\ hungUp' = [hungUp EXCEPT ![g] = FALSE] /\ wire' = [wire EXCEPT ![g] = 0]
      /\ UNCHANGED <<backlog, buf, maskVars, grabVars, nextFreeClientID,
                     currentMaxClients, nClients, ConnectionTranslation, loopVars>>
    BY DEF WriteFails, CloseDescriptor
<1>3. /\ [clients[s] EXCEPT !.exc = TRUE] \in Client
      /\ clients'[s] = [clients[s] EXCEPT !.exc = TRUE]
      /\ \A t \in Slots \ {s} : clients'[t] = clients[t]
    BY <1>1, <1>2 DEF IInv, TypeOK, Client
<1>4. clients' \in [Slots -> Client \cup {NullClient}]
    BY <1>2, <1>3 DEF IInv, TypeOK
<1>5. TypeOK'
    BY <1>1, <1>2, <1>4, DispatchAssumption
    DEF IInv, TypeOK, maskVars, grabVars, loopVars, turnVars
<1>6. /\ \A t \in Slots : (Connected(t)' <=> Connected(t)) /\ (InUse(t)' <=> InUse(t))
      /\ \A t \in Slots : Connected(t) => clients'[t].fd = clients[t].fd
    <2>1. /\ clients'[s].gone = clients[s].gone /\ clients'[s].fd = g
          /\ clients'[s] # NullClient
        BY <1>1, <1>3 DEF Client, NullClient, Nobody, Fds
    <2> QED BY <1>1, <1>3, <2>1 DEF Connected, InUse
<1>7. Counted' = Counted
    BY <1>2, <1>6 DEF Counted, loopVars
<1>8. BadFds # {} => BadFds' # {}
    BY <1>1, <1>2 DEF BadFds, maskVars, IInv, TypeOK
<1>9. IndexInArray' /\ NewcomerLive' /\ GrabLive' /\ GrabExcludesOthers'
    BY <1>2, <1>6 DEF IInv, IndexInArray, NewcomerLive, GrabLive,
       GrabExcludesOthers, maskVars, grabVars, loopVars, turnVars, TypeOK
<1>10. TranslationLive'
    BY <1>1, <1>2, <1>6 DEF IInv, TranslationLive, TypeOK
<1>11. ReadyLive'
    <2>1. ASSUME NEW f \in DOMAIN ready, ready[f] # Nobody, Connected(ready[f])'
          PROVE  clients'[ready[f]].fd = f
        <3>1. ready[f] \in Slots
            <4>1. \A e \in DOMAIN ready : ready[e] \in Slots \cup {Nobody}
                BY DEF IInv, TypeOK
            <4> QED BY <2>1, <4>1
        <3>2. PICK t \in Slots : t = ready[f]
            BY <3>1
        <3>3. ready' = ready
            BY <1>2 DEF loopVars
        <3>4. Connected(t)'
            BY <2>1, <3>2, <3>3 DEF Connected, InUse
        <3>5. Connected(t) /\ clients[t].fd = f
            BY <2>1, <3>2, <3>4, <1>6 DEF IInv, ReadyLive
        <3> QED BY <3>2, <3>5, <1>6
    <2> QED BY <1>2, <2>1 DEF IInv, ReadyLive, Connected, InUse, loopVars
<1>12. TurnLive' /\ KilledSoFar'
    <2>1. UNCHANGED <<pc, client, ready, currentMaxClients>>
        BY <1>2 DEF loopVars, turnVars
    <2>2. KilledSoFar'
        BY <1>6, <2>1 DEF IInv, KilledSoFar
    <2>3. ASSUME pc \in {"read", "exec", "close"}
          PROVE  /\ client \in Slots
                 /\ Connected(client)' => clients'[client].fd \notin DOMAIN ready
                 /\ pc \in {"exec", "close"} => Connected(client)'
        <3>1. PICK c \in Slots : c = client
            BY <2>3 DEF IInv, TurnLive
        <3>2. /\ Connected(c) => clients[c].fd \notin DOMAIN ready
              /\ pc \in {"exec", "close"} => Connected(c)
            BY <2>3, <3>1 DEF IInv, TurnLive
        <3> QED BY <1>6, <2>1, <3>1, <3>2 DEF Connected, InUse
    <2> QED BY <2>1, <2>2, <2>3 DEF TurnLive, Connected, InUse
<1>13. CountExact'
    BY <1>2, <1>7, <1>8 DEF IInv, CountExact, loopVars
<1> QED BY <1>5, <1>9, <1>10, <1>11, <1>12, <1>13 DEF IInv

-----------------------------------------------------------------------------
(* WaitForSomething.                                                       *)

LEMMA WaitBufferedStep ==
    ASSUME IInv, WaitBuffered
    PROVE  IInv'
<1>1. /\ pc = "wait" /\ pc' = "serve"
      /\ ready' = [f \in ClientsWithInput |-> ConnectionTranslation[f]]
      /\ UNCHANGED <<backlog, isOpen, hungUp, wire, buf, maskVars, grabVars,
                     tableVars, newClient, turnVars, clientsDoomed>>
    BY DEF WaitBuffered, Translate, kernelVars
<1>2. ready' \in UNION {[D -> Slots \cup {Nobody}] : D \in SUBSET Fds}
    <2>1. ready' \in [ClientsWithInput -> Slots \cup {Nobody}]
        BY <1>1 DEF IInv, TypeOK
    <2> QED BY <2>1 DEF IInv, TypeOK
<1>3. TypeOK'
    BY <1>1, <1>2 DEF IInv, TypeOK, Steps, maskVars, grabVars, tableVars, turnVars
<1>4. ReadyLive'
    BY <1>1 DEF IInv, TypeOK, TranslationLive, ReadyLive, Connected, InUse, tableVars
<1>5. Counted' = Counted
    BY <1>1 DEF Counted, Connected, InUse, tableVars
<1> QED
    BY <1>1, <1>3, <1>4, <1>5
    DEF IInv, IndexInArray, TranslationLive, TurnLive, KilledSoFar, NewcomerLive,
        CountExact, GrabLive, GrabExcludesOthers, Connected, InUse,
        maskVars, grabVars, tableVars, turnVars

LEMMA WaitDoomedStep ==
    ASSUME IInv, WaitDoomed
    PROVE  IInv'
<1>1. /\ pc \in {"wait", "select"} /\ pc' = "serve"
      /\ UNCHANGED <<backlog, isOpen, hungUp, wire, buf, maskVars, grabVars,
                     tableVars, ready, newClient, turnVars, clientsDoomed>>
    BY DEF WaitDoomed, Selecting, kernelVars
<1>2. TypeOK'
    BY <1>1 DEF IInv, TypeOK, Steps, maskVars, grabVars, tableVars, turnVars
<1>3. Counted' = Counted
    BY <1>1 DEF Counted, Connected, InUse, tableVars
<1> QED
    BY <1>1, <1>2, <1>3
    DEF IInv, IndexInArray, TranslationLive, ReadyLive, TurnLive, KilledSoFar,
        NewcomerLive, CountExact, GrabLive, GrabExcludesOthers, Connected, InUse,
        maskVars, grabVars, tableVars, turnVars

\* What CloseDownClient keeps of the invariant wherever it is called.
LEMMA CloseDownClientKeeps ==
    ASSUME IInv, NEW s \in Slots, InUse(s), CloseDownClient(s)
    PROVE  /\ CloseEffect(s) /\ CloseTypes
           /\ IndexInArray' /\ TranslationLive' /\ GrabLive'
           /\ \A t \in Slots \ {s} : Connected(t)' <=> Connected(t)
<1>1. CloseEffect(s) /\ CloseTypes /\ TranslationLive'
    BY CloseDownClientEffect, CloseDownClientTypes, CloseDownClientTranslation
<1>2. \A t \in Slots \ {s} :
          (Connected(t)' <=> Connected(t)) /\ (InUse(t)' <=> InUse(t))
    BY <1>1 DEF CloseEffect, Connected, InUse
<1>3. IndexInArray'
    BY <1>1, <1>2 DEF CloseEffect, IInv, IndexInArray
<1>4. GrabLive'
    BY <1>1, <1>2 DEF CloseEffect, IInv, GrabLive
<1> QED BY <1>1, <1>2, <1>3, <1>4

LEMMA CheckConnectionsStep ==
    ASSUME IInv, CheckConnections
    PROVE  IInv'
<1> DEFINE f == Least(BadFds)
           bad == ConnectionTranslation[f]
<1>1. /\ pc \in {"wait", "select"} /\ BadFds # {}
      /\ pc' = IF AllClients' = {} THEN "serve" ELSE "select"
      /\ UNCHANGED <<ready, newClient, client, isItTimeToYield,
                     timesThisConnection, clientsDoomed>>
      /\ IF bad # Nobody
         THEN CloseDownClient(bad)
         ELSE /\ AllClients' = AllClients \ {f}
              /\ buf' = [buf EXCEPT ![f] = 0]
              /\ UNCHANGED <<kernelVars, SavedAllClients, ClientsWithInput,
                           SavedClientsWithInput, GrabDone, grabVars,
                           tableVars>>
    BY DEF CheckConnections, Selecting, turnVars
<1>2. f \in BadFds /\ f \in Fds /\ ~isOpen[f]
    <2>1. BadFds \subseteq Nat /\ BadFds \subseteq Fds
        <3>1. BadFds \subseteq Fds
            BY DEF BadFds, IInv, TypeOK
        <3>2. Fds \subseteq Nat
            BY DispatchAssumption DEF Fds
        <3> QED BY <3>1, <3>2
    <2>2. f \in BadFds
        BY <1>1, <2>1, LeastIsLeast
    <2> QED BY <2>1, <2>2 DEF BadFds
<1>3. DOMAIN ready = {} /\ newClient = Nobody
    BY <1>1 DEF IInv, ReadyLive, NewcomerLive
<1>4. pc' \in {"select", "serve"}
    BY <1>1
<1> HIDE DEF f, bad
<1>5. CASE bad # Nobody
    <2>0. PICK b \in Slots : b = bad
        BY <1>2, <1>5 DEF IInv, TypeOK, bad
    <2>1. b \in Slots /\ Connected(b) /\ InUse(b) /\ CloseDownClient(b) /\ b # Nobody
        BY <1>1, <1>2, <1>5, <2>0 DEF IInv, TypeOK, TranslationLive, Connected, bad
    <2>2. /\ CloseEffect(b) /\ CloseTypes
          /\ IndexInArray' /\ TranslationLive' /\ GrabLive'
        BY <2>1, CloseDownClientKeeps
    <2>3. TypeOK'
        BY <1>1, <1>4, <2>2 DEF CloseTypes, TypeOK, Steps, IInv
    <2>4. ReadyLive' /\ TurnLive' /\ KilledSoFar' /\ NewcomerLive' /\ GrabExcludesOthers'
        BY <1>1, <1>3, <1>4
        DEF ReadyLive, TurnLive, KilledSoFar, NewcomerLive, GrabExcludesOthers
    <2>5. CountExact'
        <3>1. b # newClient
            BY <1>3, <2>1
        <3>2. \/ nClients' = Cardinality(Counted')
              \/ nClients' = -1 /\ Counted' = {}
            BY <1>1, <2>1, <2>2, <3>1, CloseCount
        <3>3. ASSUME Counted' = {}, pc' = "select"
              PROVE  BadFds' # {}
            <4>1. AllClients' # {}
                BY <1>1, <3>3
            <4>2. PICK h \in AllClients' : TRUE
                BY <4>1
            <4>3. h \in Fds
                BY <2>3, <4>2 DEF TypeOK
            <4>4. ~isOpen'[h]
                <5>1. SUFFICES ASSUME ConnectionTranslation'[h] # Nobody
                               PROVE  FALSE
                    BY <2>2, <4>3 DEF TranslationLive
                <5>2. ConnectionTranslation'[h] \in Slots
                    BY <2>3, <4>3, <5>1 DEF TypeOK
                <5>3. ConnectionTranslation'[h] \in Counted'
                    BY <1>1, <1>3, <2>2, <4>3, <5>1, <5>2 DEF TranslationLive, Counted
                <5> QED BY <3>3, <5>3
            <4> QED BY <4>2, <4>4 DEF BadFds
        <3> QED BY <1>4, <3>2, <3>3 DEF CountExact
    <2> QED BY <2>2, <2>3, <2>4, <2>5 DEF IInv
<1>6. CASE bad = Nobody
    <2>1. /\ AllClients' = AllClients \ {f}
          /\ buf' = [buf EXCEPT ![f] = 0]
          /\ UNCHANGED <<backlog, isOpen, hungUp, wire, SavedAllClients, ClientsWithInput,
                         SavedClientsWithInput, GrabDone, grabbingClient, onlyClient,
                         clients, nextFreeClientID, currentMaxClients, nClients,
                         ConnectionTranslation>>
        BY <1>1, <1>6 DEF kernelVars, grabVars, tableVars
    <2>2. TypeOK'
        <3>1. buf' \in [Fds -> 0..BufSize] /\ AllClients' \subseteq Fds
            <4>1. buf \in [Fds -> 0..BufSize] /\ 0 \in 0..BufSize
                BY DispatchAssumption DEF TypeOK, IInv
            <4> QED BY <1>2, <2>1, <4>1 DEF TypeOK, IInv
        <3> QED BY <1>1, <1>4, <2>1, <3>1 DEF TypeOK, Steps, IInv
    <2>3. Counted' = Counted
        BY <1>1, <2>1 DEF Counted, Connected, InUse
    <2>4. ASSUME Counted = {}, pc' = "select"
          PROVE  BadFds' # {}
        <3>1. \A h \in Fds : ~isOpen[h]
            BY <2>4, <1>3, NobodyOpen DEF IInv
        <3>2. AllClients' # {} /\ AllClients' \subseteq Fds
            BY <1>1, <2>2, <2>4 DEF TypeOK
        <3> QED BY <2>1, <3>1, <3>2 DEF BadFds
    <2>5. CountExact'
        BY <1>1, <1>4, <2>1, <2>3, <2>4 DEF CountExact, IInv
    <2> QED BY <1>1, <1>3, <1>4, <2>1, <2>2, <2>5
            DEF IInv, IndexInArray, TranslationLive, ReadyLive, TurnLive, KilledSoFar,
                NewcomerLive, GrabLive, GrabExcludesOthers, Connected, InUse
<1> QED BY <1>5, <1>6

\* NextAvailableClient returns an index nobody uses and leaves clients[] large
\* enough for it.
LEMMA NextSlotIsFree ==
    ASSUME TypeOK, IndexInArray, CanHaveSlot
    PROVE  /\ NextSlot \in Slots /\ ~InUse(NextSlot)
           /\ NextSlot < GrownMax
           /\ GrownMax \in currentMaxClients..MAXCLIENTS
<1> USE DispatchAssumption
<1>1. currentMaxClients \in 2..MAXCLIENTS /\ MAXCLIENTS \in Nat
    BY DEF TypeOK
<1>2. CASE FreeSlots = {}
    <2>1. currentMaxClients < MAXCLIENTS
        BY <1>2 DEF CanHaveSlot
    <2>2. NextSlot = currentMaxClients /\ GrownMax = currentMaxClients + 1
        BY <1>2 DEF NextSlot, GrownMax
    <2>3. currentMaxClients \in Slots
        BY <1>1, <2>1 DEF Slots
    <2>4. ~InUse(currentMaxClients)
        BY <1>1, <2>3 DEF IndexInArray
    <2> QED BY <1>1, <2>1, <2>2, <2>3, <2>4
<1>3. CASE FreeSlots # {}
    <2> DEFINE onward == {s \in FreeSlots : nextFreeClientID <= s}
    <2>1. FreeSlots \subseteq Nat /\ onward \subseteq Nat
        BY <1>1 DEF FreeSlots
    <2>2. NextSlot = IF onward # {} THEN Least(onward) ELSE Least(FreeSlots)
        BY <1>3 DEF NextSlot
    <2>3. onward # {} => Least(onward) \in onward
        BY <2>1, LeastIsLeast
    <2>4. Least(FreeSlots) \in FreeSlots
        BY <1>3, <2>1, LeastIsLeast
    <2>5. NextSlot \in FreeSlots
        BY <2>2, <2>3, <2>4
    <2>6. GrownMax = currentMaxClients
        BY <1>3 DEF GrownMax
    <2> QED BY <1>1, <2>5, <2>6 DEF FreeSlots, Slots
<1> QED BY <1>2, <1>3

\* A connection that is turned away, or none at all.
LEMMA SelectNobodyStep ==
    ASSUME IInv, Select, newClient' = Nobody,
           UNCHANGED <<isOpen, clients, nextFreeClientID, currentMaxClients,
                       nClients, ConnectionTranslation>>,
           SavedAllClients' \subseteq Fds, AllClients' \subseteq Fds,
           backlog' \in 0..MaxBacklog,
           UNCHANGED <<ClientsWithInput, SavedClientsWithInput, GrabDone>>
    PROVE  IInv'
<1>1. /\ pc \in {"wait", "select"} /\ BadFds = {} /\ pc' \in {"serve", "select"}
      /\ pc' = IF Readable # {} THEN "serve" ELSE "select"
      /\ ready' = [f \in Readable |-> ConnectionTranslation[f]]
      /\ UNCHANGED <<hungUp, wire, buf, grabbingClient, onlyClient, client,
                     isItTimeToYield, timesThisConnection, clientsDoomed>>
    BY DEF Select, Selecting, grabVars, turnVars
<1>2. DOMAIN ready = {} /\ newClient = Nobody /\ nClients = Cardinality(Counted)
    BY <1>1 DEF IInv, ReadyLive, NewcomerLive, CountExact
<1>3. Readable \subseteq Fds
    BY DEF Readable, IInv, TypeOK
<1>4. ready' \in UNION {[D -> Slots \cup {Nobody}] : D \in SUBSET Fds}
    <2>1. ready' \in [Readable -> Slots \cup {Nobody}]
        BY <1>1, <1>3 DEF IInv, TypeOK
    <2> QED BY <1>3, <2>1
<1>5. TypeOK'
    BY <1>1, <1>4 DEF TypeOK, IInv, Steps
<1>6. Counted' = Counted
    BY <1>2 DEF Counted, Connected, InUse
<1>7. CountExact'
    BY <1>1, <1>2, <1>6 DEF CountExact
<1>8. ReadyLive'
    <2>1. DOMAIN ready' = Readable
        BY <1>1
    <2>2. ASSUME NEW f \in Readable, ready'[f] # Nobody
          PROVE  clients'[ready'[f]].fd = f
        BY <1>1, <1>3, <2>2 DEF IInv, TypeOK, TranslationLive
    <2> QED BY <1>1, <2>1, <2>2 DEF ReadyLive, Connected, InUse
<1> QED BY <1>1, <1>2, <1>5, <1>7, <1>8
        DEF IInv, IndexInArray, TranslationLive, TurnLive, KilledSoFar,
            NewcomerLive, GrabLive, GrabExcludesOthers, Connected, InUse

\* A connection that is given the client index NextSlot.
LEMMA SelectSomebodyStep ==
    ASSUME IInv, Select, ClosedFds # {}, CanHaveSlot,
           backlog' = backlog - 1, backlog > 0,
           NEW f \in Fds, ListenForNew(f),
           isOpen' = [isOpen EXCEPT ![f] = TRUE],
           newClient' = NextSlot,
           ConnectionTranslation' = [ConnectionTranslation EXCEPT ![f] = NextSlot],
           clients' = [clients EXCEPT ![NextSlot] =
                         [fd |-> f, mode |-> "DestroyAll",
                          gone |-> FALSE, exc |-> FALSE]],
           currentMaxClients' = GrownMax,
           nextFreeClientID' = IF NextSlot + 1 = GrownMax THEN 1 ELSE NextSlot + 1,
           UNCHANGED nClients
    PROVE  IInv'
<1> DEFINE rec == [fd |-> f, mode |-> "DestroyAll", gone |-> FALSE, exc |-> FALSE]
<1>0. PICK n \in Slots : n = NextSlot
    BY NextSlotIsFree DEF IInv
<1>1. /\ n \in Slots /\ ~InUse(n) /\ n < GrownMax /\ n # Nobody
      /\ GrownMax \in currentMaxClients..MAXCLIENTS
    <2>1. /\ NextSlot \in Slots /\ ~InUse(NextSlot) /\ NextSlot < GrownMax
          /\ GrownMax \in currentMaxClients..MAXCLIENTS
        BY NextSlotIsFree DEF IInv
    <2> QED BY <1>0, <2>1, DispatchAssumption DEF Slots, Nobody, InUse
<1>2. /\ pc \in {"wait", "select"} /\ BadFds = {} /\ pc' = "new"
      /\ ready' = [g \in Readable |-> ConnectionTranslation'[g]]
      /\ UNCHANGED <<hungUp, wire, buf, grabbingClient, onlyClient, client,
                     isItTimeToYield, timesThisConnection, clientsDoomed>>
    BY <1>0, <1>1 DEF Select, Selecting, grabVars, turnVars
<1>3. DOMAIN ready = {} /\ newClient = Nobody /\ nClients = Cardinality(Counted)
    BY <1>2 DEF IInv, ReadyLive, NewcomerLive, CountExact
<1>4. /\ rec \in Client /\ clients' = [clients EXCEPT ![n] = rec]
      /\ ConnectionTranslation' = [ConnectionTranslation EXCEPT ![f] = n]
      /\ newClient' = n
    BY <1>0 DEF Client, Modes
<1>5. /\ clients'[n] = rec /\ \A t \in Slots \ {n} : clients'[t] = clients[t]
      /\ clients' \in [Slots -> Client \cup {NullClient}]
      /\ ConnectionTranslation' \in [Fds -> Slots \cup {Nobody}]
    BY <1>1, <1>4 DEF IInv, TypeOK
<1> HIDE DEF rec
<1>6. /\ InUse(n)' /\ Connected(n)' /\ clients'[n].fd = f
      /\ \A t \in Slots \ {n} : (Connected(t)' <=> Connected(t)) /\ (InUse(t)' <=> InUse(t))
      /\ \A t \in Slots : Connected(t) => Connected(t)' /\ clients'[t] = clients[t]
    <2>1. clients'[n] # NullClient /\ clients'[n].gone = FALSE /\ clients'[n].fd = f
        BY <1>5 DEF rec, NullClient, Nobody, Fds
    <2>2. InUse(n)' /\ Connected(n)'
        BY <2>1 DEF Connected, InUse
    <2>3. \A t \in Slots \ {n} : (Connected(t)' <=> Connected(t)) /\ (InUse(t)' <=> InUse(t))
        BY <1>5 DEF Connected, InUse
    <2>4. \A t \in Slots : Connected(t) => t # n
        BY <1>1 DEF Connected
    <2> QED BY <1>5, <2>1, <2>2, <2>3, <2>4
<1>7. Readable \subseteq Fds
    BY DEF Readable, IInv, TypeOK
<1>8. ready' \in UNION {[D -> Slots \cup {Nobody}] : D \in SUBSET Fds}
    <2>1. ready' \in [Readable -> Slots \cup {Nobody}]
        BY <1>2, <1>5, <1>7
    <2> QED BY <1>7, <2>1
<1>9. TypeOK'
    <2>1. /\ backlog' \in 0..MaxBacklog
          /\ currentMaxClients' \in 2..MAXCLIENTS
          /\ nextFreeClientID' \in 1..(currentMaxClients' - 1)
        <3>1. n \in Nat \ {0} /\ GrownMax \in Nat /\ currentMaxClients \in 2..MAXCLIENTS
            BY <1>1, DispatchAssumption DEF Slots, TypeOK, IInv
        <3>2. nextFreeClientID' = IF n + 1 = GrownMax THEN 1 ELSE n + 1
            BY <1>0
        <3> QED BY <1>1, <3>1, <3>2, DispatchAssumption DEF TypeOK, IInv
    <2>2. /\ AllClients' \subseteq Fds /\ SavedAllClients' \subseteq Fds
          /\ ClientsWithInput' \subseteq Fds /\ SavedClientsWithInput' \subseteq Fds
          /\ GrabDone' \in BOOLEAN
        BY DEF ListenForNew, IInv, TypeOK
    <2>3. isOpen' \in [Fds -> BOOLEAN]
        BY DEF IInv, TypeOK
    <2>4. newClient' \in Slots \cup {Nobody} /\ pc' \in Steps /\ nClients' \in Int
        BY <1>1, <1>2, <1>4 DEF IInv, TypeOK, Steps
    <2> QED BY <1>2, <1>5, <1>8, <2>1, <2>2, <2>3, <2>4 DEF TypeOK, IInv
<1>10. IndexInArray'
    <2>1. n < currentMaxClients'
        BY <1>1
    <2>2. ASSUME NEW t \in Slots, InUse(t)', t # n
          PROVE  t < currentMaxClients'
        <3>1. t < currentMaxClients
            BY <1>6, <2>2 DEF IInv, IndexInArray
        <3> QED BY <1>1, <3>1, DispatchAssumption DEF Slots, IInv, TypeOK
    <2> QED BY <2>1, <2>2 DEF IndexInArray
<1>11. TranslationLive'
    <2>1. ASSUME NEW g \in Fds, g # f
          PROVE  /\ ConnectionTranslation'[g] # Nobody =>
                      /\ Connected(ConnectionTranslation[g])'
                      /\ clients'[ConnectionTranslation'[g]].fd = g
                 /\ ConnectionTranslation'[g] = ConnectionTranslation[g]
                 /\ isOpen'[g] => ConnectionTranslation'[g] # Nobody
        <3>1. ConnectionTranslation'[g] = ConnectionTranslation[g] /\ isOpen'[g] = isOpen[g]
            BY <1>4, <2>1 DEF IInv, TypeOK
        <3> QED BY <1>6, <3>1, ZenonT(30) DEF IInv, TypeOK, TranslationLive
    <2>2. ConnectionTranslation'[f] = n
        BY <1>4 DEF IInv, TypeOK
    <2>3. /\ Connected(ConnectionTranslation[f])'
          /\ clients'[ConnectionTranslation'[f]].fd = f
        BY <1>6, <2>2 DEF Connected, InUse
    <2> QED BY <1>1, <2>1, <2>2, <2>3 DEF TranslationLive
<1>12. ReadyLive'
    <2>1. \A g \in DOMAIN ready' : g \in Fds /\ ready'[g] = ConnectionTranslation'[g]
        BY <1>2, <1>7
    <2> QED BY <1>2, <1>11, <2>1 DEF ReadyLive, TranslationLive
<1>13. Counted' = Counted
    BY <1>1, <1>3, <1>4, <1>6 DEF Counted, Slots, Nobody, InUse, Connected
<1>14. CountExact' /\ NewcomerLive' /\ TurnLive' /\ KilledSoFar'
    <2>1. CountExact'
        BY <1>2, <1>3, <1>13 DEF CountExact
    <2>2. NewcomerLive'
        BY <1>1, <1>2, <1>4, <1>6 DEF NewcomerLive, Connected, InUse
    <2>3. TurnLive' /\ KilledSoFar'
        BY <1>2 DEF TurnLive, KilledSoFar
    <2> QED BY <2>1, <2>2, <2>3
<1>15. GrabLive' /\ GrabExcludesOthers'
    BY <1>2, <1>6 DEF GrabLive, GrabExcludesOthers, IInv, ListenForNew
<1> QED BY <1>9, <1>10, <1>11, <1>12, <1>14, <1>15 DEF IInv

LEMMA SelectStep ==
    ASSUME IInv, Select
    PROVE  IInv'
<1> USE DispatchAssumption
<1>0. EstablishNewConnections
    BY DEF Select
<1>1. CASE backlog = 0 /\ NotAccepted /\ UNCHANGED <<backlog, maskVars>>
    BY <1>1, SelectNobodyStep DEF NotAccepted, tableVars, maskVars, IInv, TypeOK
<1>2. ASSUME backlog > 0, backlog' = backlog - 1
      PROVE  backlog' \in 0..MaxBacklog
    BY <1>2 DEF IInv, TypeOK
<1>3. CASE backlog > 0 /\ backlog' = backlog - 1 /\ NotAccepted /\ UNCHANGED maskVars
    BY <1>2, <1>3, SelectNobodyStep DEF NotAccepted, tableVars, maskVars, IInv, TypeOK
<1>4. ASSUME ClosedFds # {}
      PROVE  Least(ClosedFds) \in Fds
    <2>1. ClosedFds \subseteq Nat /\ ClosedFds \subseteq Fds
        BY DEF ClosedFds, Fds
    <2> QED BY <1>4, <2>1, LeastIsLeast
<1>5. CASE /\ backlog > 0 /\ backlog' = backlog - 1
           /\ ClosedFds # {} /\ ListenForNew(Least(ClosedFds)) /\ NotAccepted
    <2>1. /\ AllClients' \subseteq Fds /\ SavedAllClients' \subseteq Fds
          /\ UNCHANGED <<ClientsWithInput, SavedClientsWithInput, GrabDone>>
        BY <1>4, <1>5 DEF ListenForNew, IInv, TypeOK
    <2> QED BY <1>2, <1>5, <2>1, SelectNobodyStep DEF NotAccepted, tableVars
<1>6. CASE ~(\/ backlog = 0 /\ NotAccepted /\ UNCHANGED <<backlog, maskVars>>
             \/ backlog > 0 /\ backlog' = backlog - 1 /\ NotAccepted)
    <2> DEFINE g == Least(ClosedFds)
    <2>1. /\ backlog > 0 /\ backlog' = backlog - 1
          /\ ClosedFds # {} /\ CanHaveSlot
          /\ ListenForNew(g)
          /\ isOpen' = [isOpen EXCEPT ![g] = TRUE]
          /\ newClient' = NextSlot
          /\ ConnectionTranslation' = [ConnectionTranslation EXCEPT ![g] = NextSlot]
          /\ clients' = [clients EXCEPT ![NextSlot] =
                           [fd |-> g, mode |-> "DestroyAll",
                            gone |-> FALSE, exc |-> FALSE]]
          /\ currentMaxClients' = GrownMax
          /\ nextFreeClientID' = IF NextSlot + 1 = GrownMax THEN 1 ELSE NextSlot + 1
          /\ UNCHANGED nClients
        BY <1>0, <1>6 DEF EstablishNewConnections
    <2>2. g \in Fds
        BY <1>4, <2>1
    <2> HIDE DEF g
    <2> QED BY <2>1, <2>2, SelectSomebodyStep
<1> QED BY <1>0, <1>1, <1>3, <1>5, <1>6 DEF EstablishNewConnections

-----------------------------------------------------------------------------
(* Dispatch.                                                               *)

\* SendConnectionSetupInfo's nClients++ makes the count include the newcomer.
LEMMA WelcomeNewStep ==
    ASSUME IInv, WelcomeNew
    PROVE  IInv'
<1>1. /\ pc = "new" /\ pc' = "serve"
      /\ nClients' = nClients + 1 /\ newClient' = Nobody
      /\ UNCHANGED <<backlog, isOpen, hungUp, wire, buf, maskVars, grabVars,
                     clients, nextFreeClientID, currentMaxClients,
                     ConnectionTranslation, ready, turnVars, clientsDoomed>>
    BY DEF WelcomeNew, kernelVars
<1>2. TypeOK'
    BY <1>1 DEF IInv, TypeOK, Steps, maskVars, grabVars, turnVars
<1>3. newClient \in Slots /\ Connected(newClient) /\ nClients = Cardinality(Counted)
    BY <1>1 DEF IInv, NewcomerLive, CountExact
<1>4. Counted' = Counted \cup {newClient}
    BY <1>1, <1>3 DEF Counted, Connected, InUse, Slots, Nobody
<1>5. newClient \notin Counted
    BY DEF Counted
<1>6. nClients' = Cardinality(Counted')
    BY <1>1, <1>3, <1>4, <1>5, CountedFinite, FS_AddElement
<1> QED
    BY <1>1, <1>2, <1>6
    DEF IInv, IndexInArray, TranslationLive, ReadyLive, TurnLive, KilledSoFar,
        NewcomerLive, CountExact, GrabLive, GrabExcludesOthers, Connected, InUse,
        maskVars, grabVars, turnVars

\* The turn goes to a client with no other entry in the round, the holder of
\* the server grab if there is one.
LEMMA NextReadyStep ==
    ASSUME IInv, NextReady
    PROVE  IInv'
<1>1. /\ pc = "serve" /\ DOMAIN ready # {}
      /\ UNCHANGED <<backlog, isOpen, hungUp, wire, buf, maskVars, grabVars,
                     tableVars, newClient, timesThisConnection, clientsDoomed>>
    BY DEF NextReady, kernelVars
<1>2. DOMAIN ready \subseteq Fds /\ \A g \in DOMAIN ready : ready[g] \in Slots \cup {Nobody}
    BY DEF IInv, TypeOK
<1>3. PICK f \in DOMAIN ready : f = Greatest(DOMAIN ready)
    BY <1>1, <1>2, GreatestIsGreatest, DispatchAssumption DEF Fds
<1>4. PICK c \in Slots \cup {Nobody} : c = ready[f]
    BY <1>2
<1> DEFINE rest == [g \in DOMAIN ready \ {f} |-> ready[g]]
<1>5. \/ /\ ready' \in {rest, NoneReady}
         /\ UNCHANGED <<pc, client, isItTimeToYield>>
      \/ /\ c # Nobody /\ ~ShutOut(c)
         /\ ready' = rest
         /\ client' = c /\ isItTimeToYield' = FALSE
         /\ pc' = "read"
    BY <1>3, <1>4 DEF NextReady
<1>6. /\ DOMAIN ready' \subseteq DOMAIN ready \ {f}
      /\ \A g \in DOMAIN ready' : ready'[g] = ready[g]
    BY <1>5 DEF NoneReady
<1>7. ready' \in UNION {[D -> Slots \cup {Nobody}] : D \in SUBSET Fds}
    <2>1. rest \in [DOMAIN ready \ {f} -> Slots \cup {Nobody}]
        BY <1>2
    <2>2. NoneReady \in [{} -> Slots \cup {Nobody}]
        BY DEF NoneReady
    <2> QED BY <1>2, <1>5, <2>1, <2>2
<1> HIDE DEF rest
<1>8. Counted' = Counted
    BY <1>1 DEF Counted, Connected, InUse, tableVars
<1>9. client' \in 0..MAXCLIENTS /\ pc' \in {"serve", "read"} /\ isItTimeToYield' \in BOOLEAN
    <2>1. c \in 0..MAXCLIENTS
        BY DispatchAssumption DEF Slots, Nobody
    <2> QED BY <1>1, <1>5, <2>1 DEF IInv, TypeOK
<1>10. TypeOK'
    BY <1>1, <1>7, <1>9 DEF IInv, TypeOK, Steps, maskVars, grabVars, tableVars
<1>11. ReadyLive'
    BY <1>1, <1>6, <1>9 DEF IInv, ReadyLive, Connected, InUse, tableVars
<1>12. TurnLive' /\ GrabExcludesOthers'
    <2>1. CASE pc' = "serve"
        BY <2>1 DEF TurnLive, GrabExcludesOthers
    <2>2. CASE pc' # "serve"
        <3>1. c # Nobody /\ c \in Slots /\ ~ShutOut(c) /\ client' = c
            BY <1>1, <1>5, <2>2
        <3>2. Connected(c) => clients[c].fd = f
            BY <1>4, <3>1 DEF IInv, ReadyLive
        <3>3. pc' = "read"
            BY <1>9, <2>2
        <3> QED BY <1>1, <1>6, <3>1, <3>2, <3>3
                DEF TurnLive, GrabExcludesOthers, ShutOut, Connected, InUse,
                    tableVars, grabVars
    <2> QED BY <2>1, <2>2
<1>13. CountExact'
    BY <1>1, <1>8, <1>9 DEF IInv, CountExact, tableVars
<1> QED
    BY <1>1, <1>8, <1>9, <1>10, <1>11, <1>12, <1>13
    DEF IInv, IndexInArray, TranslationLive, KilledSoFar, NewcomerLive,
        GrabLive, Connected, InUse, maskVars, grabVars, tableVars

LEMMA ReadRequestStep ==
    ASSUME IInv, ReadRequest
    PROVE  IInv'
<1> USE DispatchAssumption
<1>1. /\ pc = "read" /\ Connected(client) /\ client \in Slots
      /\ UNCHANGED <<backlog, isOpen, hungUp, AllClients, SavedAllClients,
                     SavedClientsWithInput, GrabDone, grabbingClient, onlyClient,
                     clients, nextFreeClientID, currentMaxClients, nClients,
                     ConnectionTranslation, ready, newClient, clientsDoomed>>
    BY DEF ReadRequest, grabVars, tableVars, IInv, TurnLive
<1>2. PICK f \in Fds : f = clients[client].fd
    BY <1>1, ClientType DEF IInv, Connected
<1> DEFINE got  == IF buf[f] < 2 THEN Smaller(wire[f], BufSize - buf[f]) ELSE 0
           have == buf[f] + got
           left == IF have < 2 THEN have ELSE have - 2
<1>3. /\ wire' = [wire EXCEPT ![f] = @ - got] /\ buf' = [buf EXCEPT ![f] = left]
    BY <1>2 DEF ReadRequest
<1>4. /\ pc' \in {"close", "serve", "exec"}
      /\ IF pc' = "serve" THEN client' = Nobody ELSE client' = client
    BY <1>2 DEF ReadRequest
<1>5. buf[f] \in 0..BufSize /\ wire[f] \in 0..MaxWire /\ BufSize \in Nat /\ MaxWire \in Nat
    BY DEF IInv, TypeOK
<1>6. got \in 0..wire[f] /\ left \in 0..BufSize
    BY <1>5 DEF Smaller
<1> HIDE DEF got, have, left
<1>7. wire' \in [Fds -> 0..MaxWire] /\ buf' \in [Fds -> 0..BufSize]
    <2>1. wire[f] - got \in 0..MaxWire
        BY <1>5, <1>6
    <2> QED BY <1>3, <1>6, <2>1 DEF IInv, TypeOK
<1>8. /\ ClientsWithInput' \subseteq Fds
      /\ isItTimeToYield' \in BOOLEAN
      /\ timesThisConnection' \in 0..(MAX_TIMES_PER - 1)
    <2>1. \/ YieldNoInput(f)
          \/ /\ ClientsWithInput' = ClientsWithInput \cup {f}
             /\ IF timesThisConnection + 1 = MAX_TIMES_PER
                THEN isItTimeToYield' = TRUE /\ timesThisConnection' = 0
                ELSE /\ timesThisConnection' = timesThisConnection + 1
                     /\ UNCHANGED isItTimeToYield
        BY <1>2 DEF ReadRequest
    <2>2. CASE YieldNoInput(f)
        BY <2>2 DEF YieldNoInput, IInv, TypeOK
    <2>3. CASE ~YieldNoInput(f)
        <3>1. ClientsWithInput' \subseteq Fds
            BY <2>1, <2>3 DEF IInv, TypeOK
        <3>2. timesThisConnection \in 0..(MAX_TIMES_PER - 1) /\ isItTimeToYield \in BOOLEAN
            BY DEF IInv, TypeOK
        <3>3. CASE timesThisConnection + 1 = MAX_TIMES_PER
            <4>1. isItTimeToYield' = TRUE /\ timesThisConnection' = 0
                BY <2>1, <2>3, <3>3
            <4>2. 0 \in 0..(MAX_TIMES_PER - 1)
                OBVIOUS
            <4> QED BY <3>1, <4>1, <4>2
        <3>4. CASE timesThisConnection + 1 # MAX_TIMES_PER
            <4>1. timesThisConnection' = timesThisConnection + 1 /\ UNCHANGED isItTimeToYield
                BY <2>1, <2>3, <3>4
            <4>2. timesThisConnection + 1 \in 0..(MAX_TIMES_PER - 1)
                BY <3>2, <3>4
            <4> QED BY <3>1, <3>2, <4>1, <4>2
        <3> QED BY <3>3, <3>4
    <2> QED BY <2>2, <2>3
<1>9. TypeOK'
    BY <1>1, <1>4, <1>7, <1>8 DEF IInv, TypeOK, Steps, Nobody
<1>10. Counted' = Counted
    BY <1>1 DEF Counted, Connected, InUse
<1>11. TurnLive' /\ GrabExcludesOthers'
    BY <1>1, <1>4 DEF IInv, TurnLive, GrabExcludesOthers, Connected, InUse
<1>12. CountExact'
    <2>1. newClient = Nobody /\ client # Nobody
        BY <1>1 DEF IInv, NewcomerLive, Slots, Nobody
    <2>2. client \in Counted
        BY <1>1, <2>1 DEF Counted
    <2>3. nClients = Cardinality(Counted)
        BY <1>1, <2>2 DEF IInv, CountExact
    <2> QED BY <1>1, <1>10, <2>3 DEF CountExact
<1> QED
    BY <1>1, <1>4, <1>9, <1>11, <1>12
    DEF IInv, IndexInArray, TranslationLive, ReadyLive, KilledSoFar,
        NewcomerLive, GrabLive, Connected, InUse

\* What is undefined says nothing of the tables: they are left as they are.
LEMMA ReadOfFreedStep ==
    ASSUME IInv, ReadOfFreed
    PROVE  IInv'
<1>1. /\ pc \in {"read", "undefined"} /\ pc' = "undefined"
      /\ UNCHANGED <<backlog, isOpen, hungUp, wire, buf, maskVars, grabVars,
                     tableVars, ready, newClient, turnVars, clientsDoomed>>
    BY DEF ReadOfFreed, kernelVars
<1>2. TypeOK'
    BY <1>1 DEF IInv, TypeOK, Steps, maskVars, grabVars, tableVars, turnVars
<1>3. Counted' = Counted
    BY <1>1 DEF Counted, Connected, InUse, tableVars
<1> QED
    BY <1>1, <1>2, <1>3
    DEF IInv, IndexInArray, TranslationLive, ReadyLive, TurnLive, KilledSoFar,
        NewcomerLive, CountExact, GrabLive, GrabExcludesOthers, Connected, InUse,
        maskVars, grabVars, tableVars, turnVars

\* What a request procedure, or the close at the end of a turn, must leave for
\* the rest of the invariant to hold: the entries of the round and, if its turn
\* goes on, the client itself.
LEMMA TurnStep ==
    ASSUME IInv, pc \in {"exec", "close"}, NEW c \in Slots, c = client,
           TypeOK', IndexInArray', TranslationLive', GrabLive', CountExact',
           pc' \in {"read", "serve", "close"},
           pc' # "serve" => client' = c,
           UNCHANGED <<ready, newClient>>,
           pc' # "serve" =>
               Connected(c)' /\ clients'[c].fd = clients[c].fd,
           \A t \in Slots \ {c} : Connected(t)' =>
               Connected(t) /\ clients'[t].fd = clients[t].fd,
           Connected(c)' => clients'[c].fd = clients[c].fd,
           pc' = "read" /\ grabbingClient' => c = onlyClient'
    PROVE  IInv'
<1>1. clients[c].fd \notin DOMAIN ready /\ newClient = Nobody
    BY DEF IInv, TurnLive, NewcomerLive
<1>2. ReadyLive'
    <2>1. ASSUME NEW f \in DOMAIN ready, ready[f] # Nobody, Connected(ready[f])'
          PROVE  clients'[ready'[f]].fd = f
        <3>0. ready[f] \in Slots
            <4>1. \A e \in DOMAIN ready : ready[e] \in Slots \cup {Nobody}
                BY DEF IInv, TypeOK
            <4> QED BY <2>1, <4>1
        <3>1. PICK t \in Slots : t = ready[f]
            BY <3>0
        <3>2. Connected(t)'
            BY <2>1, <3>1 DEF Connected, InUse
        <3>3. Connected(t) /\ clients'[t].fd = clients[t].fd
            <4>1. Connected(c)
                BY DEF IInv, TurnLive
            <4> QED BY <3>2, <4>1
        <3>4. clients[t].fd = f
            BY <2>1, <3>1, <3>3 DEF IInv, ReadyLive
        <3> QED BY <3>1, <3>3, <3>4
    <2> QED BY <2>1 DEF ReadyLive, Connected, InUse
<1>3. TurnLive'
    <2>1. CASE pc' # "serve"
        <3>1. client' = c /\ Connected(c)' /\ clients'[c].fd \notin DOMAIN ready'
            BY <1>1, <2>1
        <3> QED BY <3>1 DEF TurnLive, Connected, InUse
    <2>2. CASE pc' = "serve"
        BY <2>2 DEF TurnLive
    <2> QED BY <2>1, <2>2
<1>4. KilledSoFar' /\ NewcomerLive' /\ GrabExcludesOthers'
    BY <1>1 DEF KilledSoFar, NewcomerLive, GrabExcludesOthers
<1> QED BY <1>2, <1>3, <1>4 DEF IInv

\* The three places a request procedure's return leads to.
Returned ==
    /\ pc' \in {"read", "serve", "close"}
    /\ IF pc' = "serve" THEN client' = Nobody ELSE client' = client
    /\ UNCHANGED <<isItTimeToYield, timesThisConnection>>

LEMMA ReturnReturns ==
    ASSUME Return \/ Fail
    PROVE  Returned
BY DEF Return, Fail, Returned

\* Requests that neither close a client nor change the count.
LEMMA PlainRequestStep ==
    ASSUME IInv, pc = "exec", Returned, TheOS, Untouched, TypeOK',
           UNCHANGED <<currentMaxClients, nClients, ConnectionTranslation>>,
           \A t \in Slots : /\ Connected(t)' <=> Connected(t)
                            /\ InUse(t)' => InUse(t)
                            /\ Connected(t) => clients'[t].fd = clients[t].fd,
           grabbingClient' <=> GrabDone',
           grabbingClient' => onlyClient' = client
    PROVE  IInv'
<1>1. client \in Slots /\ Connected(client) /\ newClient = Nobody
    BY DEF IInv, TurnLive, NewcomerLive
<1>2. PICK c \in Slots : c = client
    BY <1>1
<1>3. Counted' = Counted
    BY DEF Counted, Untouched
<1>4. CountExact'
    BY <1>3 DEF IInv, CountExact, Returned
<1>5. IndexInArray'
    BY DEF IInv, IndexInArray
<1>6. TranslationLive'
    <2>1. ASSUME NEW f \in Fds
          PROVE  /\ ConnectionTranslation'[f] # Nobody =>
                      /\ Connected(ConnectionTranslation[f])'
                      /\ clients'[ConnectionTranslation'[f]].fd = f
                 /\ isOpen'[f] => ConnectionTranslation'[f] # Nobody
        <3>1. ConnectionTranslation'[f] = ConnectionTranslation[f] /\ isOpen'[f] = isOpen[f]
            BY DEF TheOS, kernelVars
        <3>2. CASE ConnectionTranslation[f] # Nobody
            <4>1. PICK t \in Slots : t = ConnectionTranslation[f]
                BY <3>2 DEF IInv, TypeOK
            <4>2. Connected(t) /\ clients[t].fd = f
                BY <3>2, <4>1 DEF IInv, TranslationLive
            <4>3. Connected(t)' /\ clients'[t].fd = f
                BY <4>2
            <4> QED BY <3>1, <3>2, <4>1, <4>3 DEF Connected, InUse
        <3>3. CASE ConnectionTranslation[f] = Nobody
            BY <3>1, <3>3 DEF IInv, TranslationLive
        <3> QED BY <3>2, <3>3
    <2> QED BY <2>1 DEF TranslationLive, Connected, InUse
<1>7. GrabLive'
    <2>1. grabbingClient' => onlyClient' = c /\ Connected(c)'
        BY <1>1, <1>2
    <2> QED BY <2>1 DEF GrabLive, Connected, InUse
<1>8. c = client /\ Connected(c) /\ (pc' # "serve" => client' = c) /\ UNCHANGED <<ready, newClient>>
    BY <1>1, <1>2 DEF Returned, Untouched
<1>9. pc' \in {"read", "serve", "close"} /\ (pc' = "read" /\ grabbingClient' => c = onlyClient')
    BY <1>2 DEF Returned
<1>10. /\ \A t \in Slots \ {c} : Connected(t)' =>
               Connected(t) /\ clients'[t].fd = clients[t].fd
       /\ Connected(c)' => clients'[c].fd = clients[c].fd
    BY <1>8
<1> QED BY <1>4, <1>5, <1>6, <1>7, <1>8, <1>9, <1>10, TurnStep

LEMMA ReturnedTypes ==
    ASSUME TypeOK, Returned, Untouched
    PROVE  /\ pc' \in Steps /\ client' \in 0..MAXCLIENTS
           /\ isItTimeToYield' \in BOOLEAN
           /\ timesThisConnection' \in 0..(MAX_TIMES_PER - 1)
           /\ clientsDoomed' \in BOOLEAN
           /\ ready' \in UNION {[D -> Slots \cup {Nobody}] : D \in SUBSET Fds}
           /\ newClient' \in Slots \cup {Nobody}
BY DispatchAssumption DEF TypeOK, Returned, Untouched, Steps, Nobody

LEMMA ProcOtherStep ==
    ASSUME IInv, ProcOther
    PROVE  IInv'
<1>1. /\ pc = "exec" /\ Returned
      /\ UNCHANGED <<maskVars, grabVars, tableVars>> /\ TheOS /\ Untouched
    BY ReturnReturns DEF ProcOther, Asks
<1>2. TypeOK'
    BY <1>1, ReturnedTypes
    DEF IInv, TypeOK, maskVars, grabVars, tableVars, TheOS, kernelVars
<1>3. grabbingClient => client = onlyClient
    BY <1>1 DEF IInv, GrabExcludesOthers
<1>4. \A t \in Slots : (Connected(t)' <=> Connected(t)) /\ (InUse(t)' => InUse(t))
    BY <1>1 DEF Connected, InUse, tableVars
<1>5. /\ UNCHANGED <<clients, currentMaxClients, nClients, ConnectionTranslation>>
      /\ grabbingClient' <=> GrabDone'
      /\ grabbingClient' => onlyClient' = client
    BY <1>1, <1>3 DEF IInv, GrabLive, maskVars, grabVars, tableVars
<1> QED BY <1>1, <1>2, <1>4, <1>5, PlainRequestStep

LEMMA ProcGrabServerStep ==
    ASSUME IInv, ProcGrabServer
    PROVE  IInv'
<1>1. /\ pc = "exec" /\ Returned /\ client \in Slots /\ Connected(client)
      /\ OnlyListenTo(clients[client].fd)
      /\ grabbingClient' = TRUE /\ onlyClient' = client
      /\ UNCHANGED tableVars /\ TheOS /\ Untouched
    BY ReturnReturns DEF ProcGrabServer, Asks, IInv, TurnLive
<1>2. PICK f \in Fds : f = clients[client].fd
    BY <1>1, ClientType DEF IInv, Connected
<1>3. GrabDone' = TRUE
    BY <1>1, <1>2 DEF OnlyListenTo, maskVars, IInv, TypeOK
<1>4. /\ AllClients' \subseteq Fds /\ SavedAllClients' \subseteq Fds
      /\ ClientsWithInput' \subseteq Fds /\ SavedClientsWithInput' \subseteq Fds
    BY <1>1, <1>2 DEF OnlyListenTo, maskVars, IInv, TypeOK
<1>5. TypeOK'
    BY <1>1, <1>3, <1>4, ReturnedTypes
    DEF IInv, TypeOK, tableVars, TheOS, kernelVars
<1>6. \A t \in Slots : (Connected(t)' <=> Connected(t)) /\ (InUse(t)' => InUse(t))
    BY <1>1 DEF Connected, InUse, tableVars
<1>7. UNCHANGED <<clients, currentMaxClients, nClients, ConnectionTranslation>>
    BY <1>1 DEF tableVars
<1> QED BY <1>1, <1>3, <1>5, <1>6, <1>7, PlainRequestStep

LEMMA ProcUngrabServerStep ==
    ASSUME IInv, ProcUngrabServer
    PROVE  IInv'
<1>1. /\ pc = "exec" /\ Returned
      /\ grabbingClient' = FALSE /\ UNCHANGED onlyClient
      /\ IF GrabDone THEN ListenToAllClients ELSE UNCHANGED maskVars
      /\ UNCHANGED tableVars /\ TheOS /\ Untouched
    BY ReturnReturns DEF ProcUngrabServer, Asks
<1>2. GrabDone' = FALSE
    BY <1>1 DEF ListenToAllClients, maskVars, IInv, TypeOK
<1>3. /\ AllClients' \subseteq Fds /\ SavedAllClients' \subseteq Fds
      /\ ClientsWithInput' \subseteq Fds /\ SavedClientsWithInput' \subseteq Fds
    BY <1>1 DEF ListenToAllClients, ListenedTo, Buffered, maskVars, IInv, TypeOK
<1>4. TypeOK'
    BY <1>1, <1>2, <1>3, ReturnedTypes
    DEF IInv, TypeOK, tableVars, TheOS, kernelVars
<1>5. \A t \in Slots : (Connected(t)' <=> Connected(t)) /\ (InUse(t)' => InUse(t))
    BY <1>1 DEF Connected, InUse, tableVars
<1>6. UNCHANGED <<clients, currentMaxClients, nClients, ConnectionTranslation>>
    BY <1>1 DEF tableVars
<1> QED BY <1>1, <1>2, <1>4, <1>5, <1>6, PlainRequestStep

LEMMA ProcChangeCloseDownModeStep ==
    ASSUME IInv, NEW m \in Modes, ProcChangeCloseDownMode(m)
    PROVE  IInv'
<1>1. /\ pc = "exec" /\ Returned /\ client \in Slots /\ Connected(client)
      /\ clients' = [clients EXCEPT ![client].mode = m]
      /\ UNCHANGED <<maskVars, grabVars, nextFreeClientID, currentMaxClients,
                     nClients, ConnectionTranslation>>
      /\ TheOS /\ Untouched
    BY ReturnReturns DEF ProcChangeCloseDownMode, Asks, IInv, TurnLive
<1>2. PICK c \in Slots : c = client
    BY <1>1
<1>3. /\ [clients[c] EXCEPT !.mode = m] \in Client
      /\ clients'[c] = [clients[c] EXCEPT !.mode = m]
      /\ \A t \in Slots \ {c} : clients'[t] = clients[t]
      /\ clients' \in [Slots -> Client \cup {NullClient}]
    <2>1. clients[c] \in Client
        BY <1>1, <1>2, ClientType DEF IInv, Connected
    <2>2. [clients[c] EXCEPT !.mode = m] \in Client
        BY <2>1 DEF Client
    <2>3. clients' = [clients EXCEPT ![c] = [clients[c] EXCEPT !.mode = m]]
        BY <1>1, <1>2
    <2> QED BY <2>2, <2>3 DEF IInv, TypeOK
<1>4. clients'[c].fd = clients[c].fd /\ clients'[c].gone = clients[c].gone
    <2>1. clients[c] \in Client
        BY <1>1, <1>2, ClientType DEF IInv, Connected
    <2> QED BY <1>3, <2>1 DEF Client
<1>5. clients'[c] # NullClient /\ InUse(c) /\ Connected(c)
    <2>1. clients'[c].fd # Nobody
        BY <1>3 DEF Client, Fds, Nobody
    <2> QED BY <1>1, <1>2, <2>1 DEF NullClient, Connected
<1>6. \A t \in Slots : /\ Connected(t)' <=> Connected(t)
                       /\ InUse(t)' => InUse(t)
                       /\ Connected(t) => clients'[t].fd = clients[t].fd
    BY <1>3, <1>4, <1>5 DEF Connected, InUse
<1>7. TypeOK'
    BY <1>1, <1>3, ReturnedTypes
    DEF IInv, TypeOK, maskVars, grabVars, TheOS, kernelVars
<1>8. /\ UNCHANGED <<currentMaxClients, nClients, ConnectionTranslation>>
      /\ grabbingClient' <=> GrabDone'
      /\ grabbingClient' => onlyClient' = client
    BY <1>1 DEF IInv, GrabLive, GrabExcludesOthers, maskVars, grabVars
<1> QED BY <1>1, <1>6, <1>7, <1>8, PlainRequestStep

\* A request, or the end of a turn, that closes client s: the client whose
\* turn it is, which then ends, or another.
LEMMA ClosingStep ==
    ASSUME IInv, pc \in {"exec", "close"}, NEW s \in Slots, InUse(s),
           CloseDownClient(s), Untouched,
           pc' \in {"read", "serve", "close"},
           IF pc' = "serve" THEN client' = Nobody ELSE client' = client,
           isItTimeToYield' \in BOOLEAN,
           UNCHANGED timesThisConnection,
           s = client => pc' = "serve",
           pc' = "read" => pc = "exec"
    PROVE  IInv'
<1>1. client \in Slots /\ Connected(client) /\ newClient = Nobody /\ s # newClient
    BY DEF IInv, TurnLive, NewcomerLive, Connected, Slots, Nobody
<1>2. PICK c \in Slots : c = client
    BY <1>1
<1>3. /\ CloseEffect(s) /\ CloseTypes
      /\ IndexInArray' /\ TranslationLive' /\ GrabLive'
      /\ \A t \in Slots \ {s} : Connected(t)' <=> Connected(t)
      /\ \A t \in Slots \ {s} : clients'[t] = clients[t]
    BY CloseDownClientKeeps DEF CloseEffect
<1>4. UNCHANGED <<ready, newClient, clientsDoomed>>
    BY DEF Untouched
<1>5. TypeOK'
    <2>1. pc' \in Steps /\ client' \in 0..MAXCLIENTS
        BY <1>1, DispatchAssumption DEF Steps, IInv, TypeOK, Nobody
    <2> QED BY <1>3, <1>4, <2>1 DEF CloseTypes, IInv, TypeOK
<1>6. CountExact'
    <2>1. \/ nClients' = Cardinality(Counted')
          \/ nClients' = -1 /\ Counted' = {}
        BY <1>1, <1>3, <1>4, CloseCount
    <2>2. CASE pc' = "serve"
        BY <2>1, <2>2 DEF CountExact
    <2>3. CASE pc' # "serve"
        <3>1. c # s /\ Connected(c)'
            BY <1>1, <1>2, <1>3, <2>3
        <3>2. c \in Counted'
            BY <1>1, <1>4, <3>1, <1>2 DEF Counted, Slots, Nobody
        <3> QED BY <2>1, <3>2 DEF CountExact
    <2> QED BY <2>2, <2>3
<1>7. /\ pc' # "serve" => client' = c
      /\ pc' # "serve" =>
               Connected(c)' /\ clients'[c].fd = clients[c].fd
    BY <1>1, <1>2, <1>3
<1>8. /\ \A t \in Slots \ {c} : Connected(t)' =>
               Connected(t) /\ clients'[t].fd = clients[t].fd
      /\ Connected(c)' => clients'[c].fd = clients[c].fd
    BY <1>2, <1>3 DEF CloseEffect
<1>9. pc' = "read" /\ grabbingClient' => c = onlyClient'
    BY <1>2, <1>3 DEF CloseEffect, IInv, GrabExcludesOthers
<1> QED BY <1>2, <1>3, <1>4, <1>5, <1>6, <1>7, <1>8, <1>9, TurnStep

LEMMA ProcKillClientSelfStep ==
    ASSUME IInv, ProcKillClientSelf
    PROVE  IInv'
<1>1. pc = "exec" /\ client \in Slots /\ Connected(client) /\ InUse(client)
    BY DEF ProcKillClientSelf, Asks, IInv, TurnLive, Connected
<1>2. PICK c \in Slots : c = client
    BY <1>1
<1>3. /\ CloseDownClient(c) /\ Untouched
      /\ isItTimeToYield' = TRUE /\ UNCHANGED timesThisConnection
      /\ pc' = "serve" /\ client' = Nobody
    BY <1>2 DEF ProcKillClientSelf, ForceYield
<1>4. InUse(c) /\ (IF pc' = "serve" THEN client' = Nobody ELSE client' = client)
    BY <1>1, <1>2, <1>3
<1> QED BY <1>1, <1>2, <1>3, <1>4, ClosingStep

LEMMA ProcKillClientOtherStep ==
    ASSUME IInv, NEW t \in Slots, ProcKillClientOther(t)
    PROVE  IInv'
<1>1. /\ pc = "exec" /\ InUse(t) /\ t # client
      /\ CloseDownClient(t) /\ Returned /\ Untouched
    BY ReturnReturns DEF ProcKillClientOther, Asks, Retained, Connected
<1>3. isItTimeToYield' \in BOOLEAN /\ UNCHANGED timesThisConnection
    BY <1>1 DEF Returned, IInv, TypeOK
<1>4. /\ pc' \in {"read", "serve", "close"}
      /\ IF pc' = "serve" THEN client' = Nobody ELSE client' = client
    BY <1>1 DEF Returned
<1> QED BY <1>1, <1>3, <1>4, ClosingStep

LEMMA CloseTurnStep ==
    ASSUME IInv, CloseTurn
    PROVE  IInv'
<1>1. pc = "close" /\ client \in Slots /\ InUse(client)
    BY DEF CloseTurn, IInv, TurnLive
<1>2. PICK c \in Slots : c = client
    BY <1>1
<1>3. /\ CloseDownClient(c) /\ Untouched
      /\ UNCHANGED <<isItTimeToYield, timesThisConnection>>
      /\ pc' = "serve" /\ client' = Nobody
    BY <1>2 DEF CloseTurn
<1>4. /\ InUse(c) /\ (IF pc' = "serve" THEN client' = Nobody ELSE client' = client)
      /\ isItTimeToYield' \in BOOLEAN
    BY <1>1, <1>2, <1>3 DEF IInv, TypeOK
<1> QED BY <1>1, <1>2, <1>3, <1>4, ClosingStep

LEMMA ProcKillClientTemporaryStep ==
    ASSUME IInv, ProcKillClientTemporary
    PROVE  IInv'
<1>1. /\ pc = "exec" /\ Returned
      /\ clients' = [s \in Slots |->
                       IF s \in Temporaries THEN NullClient ELSE clients[s]]
      /\ nextFreeClientID' = IF Temporaries = {} THEN nextFreeClientID
                             ELSE Greatest(Temporaries)
      /\ UNCHANGED <<maskVars, grabVars, currentMaxClients, nClients,
                     ConnectionTranslation>>
      /\ TheOS /\ Untouched
    BY ReturnReturns DEF ProcKillClientTemporary, Asks
<1>2. Temporaries \subseteq Slots /\ \A s \in Temporaries : InUse(s) /\ ~Connected(s)
    BY DEF Temporaries, Retained, Connected
<1>3. \A t \in Slots : /\ Connected(t)' <=> Connected(t)
                       /\ InUse(t)' => InUse(t)
                       /\ Connected(t) => clients'[t].fd = clients[t].fd
    <2>1. \A t \in Slots : t \in Temporaries => clients'[t] = NullClient
        BY <1>1
    <2>2. \A t \in Slots : t \notin Temporaries => clients'[t] = clients[t]
        BY <1>1
    <2> QED BY <1>2, <2>1, <2>2 DEF Connected, InUse
<1>4. nextFreeClientID' \in 1..(currentMaxClients' - 1)
    <2>1. Temporaries # {} => Greatest(Temporaries) \in Temporaries
        <3>1. MAXCLIENTS - 1 \in Nat
            BY DispatchAssumption
        <3> QED BY <1>2, <3>1, GreatestIsGreatest DEF Slots
    <2>2. \A s \in Temporaries : s \in 1..(currentMaxClients - 1)
        BY <1>2, DispatchAssumption DEF IInv, IndexInArray, TypeOK, Slots
    <2> QED BY <1>1, <2>1, <2>2 DEF IInv, TypeOK
<1>5. clients' \in [Slots -> Client \cup {NullClient}]
    BY <1>1 DEF IInv, TypeOK
<1>6. TypeOK'
    BY <1>1, <1>4, <1>5, ReturnedTypes
    DEF IInv, TypeOK, maskVars, grabVars, TheOS, kernelVars
<1>7. /\ UNCHANGED <<currentMaxClients, nClients, ConnectionTranslation>>
      /\ grabbingClient' <=> GrabDone'
      /\ grabbingClient' => onlyClient' = client
    BY <1>1 DEF IInv, GrabLive, GrabExcludesOthers, maskVars, grabVars
<1> QED BY <1>1, <1>3, <1>6, <1>7, PlainRequestStep

-----------------------------------------------------------------------------
(* The end of a round and of a generation.                                 *)

LEMMA NewGenerationStep ==
    ASSUME IInv, NewGeneration, \A s \in Slots : ~Connected(s),
           DOMAIN ready = {}, newClient = Nobody,
           UNCHANGED <<ready, newClient, isItTimeToYield, timesThisConnection>>
    PROVE  IInv'
<1> USE DispatchAssumption
<1>1. /\ clients' = [s \in Slots |-> NullClient]
      /\ nextFreeClientID' = 1 /\ currentMaxClients' = InitialMaxClients
      /\ nClients' = 0 /\ clientsDoomed' = FALSE
      /\ client' = Nobody /\ pc' = "wait"
      /\ UNCHANGED <<backlog, isOpen, hungUp, wire, buf, maskVars, grabVars,
                     ConnectionTranslation>>
    BY DEF NewGeneration, kernelVars
<1>2. Counted = {}
    BY DEF Counted
<1>3. \A f \in Fds : ~isOpen[f] /\ ConnectionTranslation[f] = Nobody
    BY <1>2, NobodyOpen DEF IInv
<1>4. \A s \in Slots : ~Connected(s)' /\ ~InUse(s)'
    BY <1>1 DEF Connected, InUse
<1>5. Counted' = {}
    BY <1>4 DEF Counted
<1>6. CountExact'
    BY <1>1, <1>5, FS_EmptySet DEF CountExact
<1>7. TypeOK'
    <2>1. /\ currentMaxClients' \in 2..MAXCLIENTS
          /\ nextFreeClientID' \in 1..(currentMaxClients' - 1)
          /\ client' \in 0..MAXCLIENTS
        BY <1>1 DEF Nobody
    <2>2. clients' \in [Slots -> Client \cup {NullClient}]
        BY <1>1
    <2>3. /\ ready' \in UNION {[D -> Slots \cup {Nobody}] : D \in SUBSET Fds}
          /\ newClient' \in Slots \cup {Nobody} /\ isItTimeToYield' \in BOOLEAN
          /\ timesThisConnection' \in 0..(MAX_TIMES_PER - 1)
        BY DEF IInv, TypeOK
    <2>4. pc' \in Steps /\ nClients' \in Int /\ clientsDoomed' \in BOOLEAN
        <3>1. pc' \in Steps /\ nClients' \in Int
            BY <1>1 DEF Steps
        <3>2. clientsDoomed' \in BOOLEAN
            BY <1>1
        <3> QED BY <3>1, <3>2
    <2>5. /\ backlog' \in 0..MaxBacklog
          /\ isOpen' \in [Fds -> BOOLEAN] /\ hungUp' \in [Fds -> BOOLEAN]
          /\ wire' \in [Fds -> 0..MaxWire] /\ buf' \in [Fds -> 0..BufSize]
          /\ ConnectionTranslation' \in [Fds -> Slots \cup {Nobody}]
        BY <1>1 DEF IInv, TypeOK
    <2>6. /\ AllClients' \subseteq Fds /\ SavedAllClients' \subseteq Fds
          /\ ClientsWithInput' \subseteq Fds /\ SavedClientsWithInput' \subseteq Fds
          /\ GrabDone' \in BOOLEAN /\ grabbingClient' \in BOOLEAN
          /\ onlyClient' \in Slots \cup {Nobody}
        BY <1>1 DEF IInv, TypeOK, maskVars, grabVars
    <2> QED BY <2>1, <2>2, <2>3, <2>4, <2>5, <2>6 DEF TypeOK
<1>8. GrabLive'
    BY <1>1 DEF IInv, GrabLive, maskVars, grabVars
<1>9. TranslationLive'
    BY <1>1, <1>3 DEF TranslationLive
<1> QED
    BY <1>1, <1>4, <1>6, <1>7, <1>8, <1>9
    DEF IInv, IndexInArray, ReadyLive, TurnLive, KilledSoFar, NewcomerLive,
        GrabExcludesOthers

LEMMA EndRoundStep ==
    ASSUME IInv, EndRound
    PROVE  IInv'
<1> USE DispatchAssumption
<1>1. /\ pc = "serve" /\ DOMAIN ready = {} /\ newClient = Nobody
      /\ UNCHANGED <<ready, newClient, isItTimeToYield, timesThisConnection>>
    BY DEF EndRound, IInv, NewcomerLive
<1>2. CASE /\ pc' = "killall" /\ client' = 1
           /\ UNCHANGED <<kernelVars, buf, maskVars, grabVars, tableVars,
                          clientsDoomed>>
    <2>1. TypeOK'
        <3>1. client' \in 0..MAXCLIENTS /\ pc' \in Steps
            BY <1>2 DEF Steps
        <3>2. /\ ready' \in UNION {[D -> Slots \cup {Nobody}] : D \in SUBSET Fds}
              /\ newClient' \in Slots \cup {Nobody} /\ isItTimeToYield' \in BOOLEAN
              /\ timesThisConnection' \in 0..(MAX_TIMES_PER - 1)
            BY <1>1 DEF IInv, TypeOK
        <3> QED BY <1>2, <3>1, <3>2
                DEF IInv, TypeOK, kernelVars, maskVars, grabVars, tableVars
    <2>2. KilledSoFar'
        <3>1. 1 \in 1..currentMaxClients
            BY DEF IInv, TypeOK
        <3>2. \A s \in Slots : ~(s < 1)
            BY DEF Slots
        <3> QED BY <1>2, <3>1, <3>2 DEF KilledSoFar, tableVars
    <2> QED
        BY <1>1, <1>2, <2>1, <2>2
        DEF IInv, IndexInArray, TranslationLive, ReadyLive, TurnLive, NewcomerLive,
            CountExact, GrabLive, GrabExcludesOthers, Connected, InUse,
            kernelVars, maskVars, grabVars, tableVars
<1>3. CASE nClients = -1 /\ NewGeneration
    <2>1. Counted = {}
        <3>1. Cardinality(Counted) \in Nat
            BY CountedFinite, FS_CardinalityType
        <3> QED BY <1>1, <1>3, <3>1 DEF IInv, CountExact
    <2>2. \A s \in Slots : ~Connected(s)
        BY <1>1, <2>1 DEF Counted, Slots, Nobody
    <2> QED BY <1>1, <1>3, <2>2, NewGenerationStep
<1>4. CASE /\ nClients # -1 /\ pc' = "wait"
           /\ UNCHANGED <<kernelVars, buf, maskVars, grabVars, tableVars,
                          client, clientsDoomed>>
    <2>1. TypeOK'
        BY <1>1, <1>4 DEF IInv, TypeOK, Steps, kernelVars, maskVars, grabVars, tableVars
    <2>2. Counted' = Counted
        BY <1>1, <1>4 DEF Counted, Connected, InUse, tableVars
    <2> QED
        BY <1>1, <1>4, <2>1, <2>2
        DEF IInv, IndexInArray, TranslationLive, ReadyLive, TurnLive, KilledSoFar,
            NewcomerLive, CountExact, GrabLive, GrabExcludesOthers, Connected, InUse,
            kernelVars, maskVars, grabVars, tableVars
<1> QED BY <1>1, <1>2, <1>3, <1>4 DEF EndRound

LEMMA KillAllClientsStep ==
    ASSUME IInv, KillAllClients
    PROVE  IInv'
<1> USE DispatchAssumption
<1>1. /\ pc = "killall" /\ DOMAIN ready = {} /\ newClient = Nobody
      /\ UNCHANGED <<ready, newClient, isItTimeToYield, timesThisConnection>>
      /\ client \in 1..currentMaxClients /\ currentMaxClients \in 2..MAXCLIENTS
      /\ \A s \in Slots : s < client => ~Connected(s)
    BY DEF KillAllClients, IInv, NewcomerLive, ReadyLive, KilledSoFar, TypeOK
<1>2. CASE client = currentMaxClients /\ NewGeneration
    <2>1. \A s \in Slots : Connected(s) => s < currentMaxClients
        BY DEF IInv, IndexInArray, Connected
    <2>2. \A s \in Slots : ~Connected(s)
        BY <1>1, <1>2, <2>1
    <2> QED BY <1>1, <1>2, <2>2, NewGenerationStep
<1>3. CASE /\ client < currentMaxClients
           /\ IF InUse(client)
              THEN CloseDownClient(client)
              ELSE UNCHANGED <<kernelVars, buf, maskVars, grabVars, tableVars>>
           /\ client' = client + 1
           /\ UNCHANGED <<pc, clientsDoomed>>
    <2>1. PICK c \in Slots : c = client
        BY <1>1, <1>3 DEF Slots
    <2>2. client' \in 0..MAXCLIENTS /\ client' \in 1..currentMaxClients
        BY <1>1, <1>3
    <2>3. /\ pc' \in Steps /\ clientsDoomed' \in BOOLEAN
          /\ ready' \in UNION {[D -> Slots \cup {Nobody}] : D \in SUBSET Fds}
          /\ newClient' \in Slots \cup {Nobody} /\ isItTimeToYield' \in BOOLEAN
          /\ timesThisConnection' \in 0..(MAX_TIMES_PER - 1)
        BY <1>1, <1>3 DEF IInv, TypeOK
    <2>6. \A s \in Slots : s < client' => s < c \/ s = c
        BY <1>3, <2>1 DEF Slots
    <2>4. CASE InUse(c)
        <3>1. CloseDownClient(c)
            BY <1>3, <2>1, <2>4
        <3>2. /\ CloseEffect(c) /\ CloseTypes
              /\ IndexInArray' /\ TranslationLive' /\ GrabLive'
              /\ \A t \in Slots \ {c} : Connected(t)' <=> Connected(t)
              /\ ~Connected(c)' /\ currentMaxClients' = currentMaxClients
            BY <2>4, <3>1, CloseDownClientKeeps DEF CloseEffect
        <3>3. TypeOK'
            BY <2>2, <2>3, <3>2 DEF CloseTypes, TypeOK
        <3>4. \A s \in Slots : s < client' => ~Connected(s)'
            BY <1>1, <2>1, <2>6, <3>2
        <3>5. KilledSoFar'
            BY <1>3, <2>2, <3>2, <3>4 DEF KilledSoFar
        <3> QED BY <1>1, <1>3, <3>2, <3>3, <3>5
                DEF IInv, ReadyLive, TurnLive, NewcomerLive, CountExact, GrabExcludesOthers
    <2>5. CASE ~InUse(c)
        <3>1. UNCHANGED <<kernelVars, buf, maskVars, grabVars, tableVars>>
            BY <1>3, <2>1, <2>5
        <3>2. TypeOK'
            BY <2>2, <2>3, <3>1
            DEF IInv, TypeOK, kernelVars, maskVars, grabVars, tableVars
        <3>3. \A s \in Slots : s < client' => ~Connected(s)
            BY <1>1, <2>1, <2>6, <2>5 DEF Connected
        <3>4. \A s \in Slots : s < client' => ~Connected(s)'
            BY <3>1, <3>3 DEF Connected, InUse, tableVars
        <3>5. KilledSoFar'
            BY <1>3, <2>2, <3>1, <3>4 DEF KilledSoFar, tableVars
        <3> QED BY <1>1, <1>3, <3>1, <3>2, <3>5
                DEF IInv, IndexInArray, TranslationLive, ReadyLive, TurnLive, NewcomerLive,
                    CountExact, GrabLive, GrabExcludesOthers, Connected, InUse,
                    kernelVars, maskVars, grabVars, tableVars
    <2> QED BY <2>4, <2>5
<1> QED BY <1>2, <1>3 DEF KillAllClients

-----------------------------------------------------------------------------
(* Turns.                                                                  *)

\* No entry left in the round is of the client whose request is executed.
LEMMA EntriesOfOthers ==
    ASSUME IInv, pc \in {"exec", "close"}, NEW s \in Slots, Connected(s),
           NEW f \in DOMAIN ready, ready[f] = s
    PROVE  s # client
<1>1. clients[s].fd = f
    BY DEF IInv, ReadyLive, Slots, Nobody
<1> QED BY <1>1 DEF IInv, TurnLive

\* A request procedure gives no client a turn: that of the client goes on, if it
\* is not the one that was closed.
LEMMA TurnsInProc ==
    ASSUME IInv, Proc, NEW s \in Slots,
           Connected(s) \/ ~HasTurn(s), ~Connected(s)', HasTurn(s)'
    PROVE  pc = "exec" /\ client # s /\ Connected(s)
<1>1. /\ pc = "exec" /\ ready' = ready
      /\ pc' = "read" => client' = client
    BY DEF Proc, ProcOther, ProcGrabServer, ProcUngrabServer,
           ProcChangeCloseDownMode, ProcKillClientSelf, ProcKillClientOther,
           ProcKillClientTemporary, Asks, Return, Fail, Untouched, ForceYield
<1>2. PICK c \in Slots : c = client /\ Connected(c) /\ clients[c] \in Client
    BY <1>1, ClientType DEF IInv, TurnLive, Connected
<1>3. ASSUME pc' = "read"
      PROVE  Connected(c)'
    <2>1. CASE ProcOther \/ ProcGrabServer \/ ProcUngrabServer
        BY <1>2, <2>1 DEF ProcOther, ProcGrabServer, ProcUngrabServer, tableVars,
                          Connected, InUse
    <2>2. ASSUME NEW m \in Modes, ProcChangeCloseDownMode(m)
          PROVE  Connected(c)'
        <3>1. clients' = [clients EXCEPT ![c].mode = m]
            BY <1>2, <2>2 DEF ProcChangeCloseDownMode
        <3>2. clients'[c].gone = clients[c].gone /\ clients'[c].fd \in Fds
            BY <1>2, <3>1 DEF IInv, TypeOK, Client
        <3> QED BY <1>2, <3>2 DEF Connected, InUse, NullClient, Nobody, Fds
    <2>3. CASE ProcKillClientSelf
        BY <1>3, <2>3 DEF ProcKillClientSelf, ForceYield
    <2>4. ASSUME NEW t \in Slots, ProcKillClientOther(t)
          PROVE  Connected(c)'
        <3>1. t # c /\ InUse(t) /\ CloseDownClient(t)
            BY <1>2, <2>4 DEF ProcKillClientOther, Retained, Connected
        <3> QED BY <1>2, <3>1, CloseDownClientKeeps
    <2>5. CASE ProcKillClientTemporary
        <3>1. clients'[c] = clients[c]
            BY <1>2, <2>5 DEF ProcKillClientTemporary, Temporaries, Retained, Connected
        <3> QED BY <1>2, <3>1 DEF Connected, InUse
    <2> QED BY <2>1, <2>2, <2>3, <2>4, <2>5 DEF Proc
<1>4. ~(pc' = "read" /\ client' = s)
    BY <1>1, <1>2, <1>3 DEF Connected, InUse
<1>5. PICK f \in DOMAIN ready : ready[f] = s
    BY <1>1, <1>4 DEF HasTurn
<1>6. Connected(s)
    BY <1>5 DEF HasTurn
<1> QED BY <1>1, <1>5, <1>6, EntriesOfOthers

\* A step that leaves clients[] alone gives a turn to nobody but the connected.
LEMMA TurnsKept ==
    ASSUME IInv, NEW s \in Slots, Connected(s) \/ ~HasTurn(s), ~Connected(s)',
           clients' = clients, HasTurn(s)' => HasTurn(s)
    PROVE  ~HasTurn(s)'
BY DEF Connected, InUse

LEMMA TurnsOutsideProc ==
    ASSUME IInv, IInv', Next, ~Proc, NEW s \in Slots,
           Connected(s) \/ ~HasTurn(s), ~Connected(s)', HasTurn(s)'
    PROVE  FALSE
<1>1. CASE Connect \/ DoomSignal \/ \E f \in Fds : Send(f) \/ HangUp(f)
    <2>1. UNCHANGED <<clients, pc, ready, client>>
        BY <1>1 DEF Connect, DoomSignal, Send, HangUp, ServerOnly, tableVars,
                    loopVars, turnVars
    <2> QED BY <2>1, TurnsKept DEF HasTurn
<1>2. ASSUME NEW t \in Slots, WriteFails(t)
      PROVE  FALSE
    <2>1. /\ clients[t] \in Client /\ clients' = [clients EXCEPT ![t].exc = TRUE]
          /\ UNCHANGED <<pc, ready, client>>
        BY <1>2, ClientType DEF WriteFails, Connected, IInv, loopVars, turnVars
    <2>2. Connected(s)
        BY <2>1 DEF HasTurn
    <2>3. /\ clients'[t].gone = clients[t].gone /\ clients'[t].fd \in Fds
          /\ s # t => clients'[s] = clients[s]
        BY <2>1 DEF IInv, TypeOK, Client
    <2>4. Connected(s)'
        BY <2>2, <2>3 DEF Connected, InUse, NullClient, Nobody, Fds
    <2> QED BY <2>4
<1>3. CASE WaitBuffered \/ Select
    <2>1. /\ \A f \in DOMAIN ready' : f \in Fds /\ ready'[f] = ConnectionTranslation'[f]
          /\ pc' # "read"
        BY <1>3 DEF WaitBuffered, Translate, Select, Readable, tableVars, IInv, TypeOK
    <2>2. PICK f \in DOMAIN ready' : ready'[f] = s
        BY <2>1 DEF HasTurn
    <2>3. Connected(ConnectionTranslation[f])' /\ ConnectionTranslation'[f] = s
        BY <2>1, <2>2 DEF IInv, TranslationLive, Slots, Nobody
    <2> QED BY <2>3 DEF Connected, InUse
<1>4. CASE CheckConnections \/ EndRound \/ KillAllClients
    <2>1. DOMAIN ready = {} /\ ready' = ready /\ pc' # "read"
        BY <1>4 DEF CheckConnections, Selecting, EndRound, KillAllClients,
                    NewGeneration, IInv, ReadyLive
    <2> QED BY <2>1 DEF HasTurn
<1>5. CASE WaitDoomed \/ WelcomeNew \/ ReadRequest \/ ReadOfFreed
    <2>1. clients' = clients /\ ready' = ready /\ pc' # "read"
        BY <1>5 DEF WaitDoomed, WelcomeNew, ReadRequest, ReadOfFreed, tableVars
    <2> QED BY <2>1, TurnsKept DEF HasTurn
<1>6. CASE NextReady
    <2>1. clients' = clients /\ pc = "serve"
        BY <1>6 DEF NextReady, tableVars
    <2>2. PICK f \in DOMAIN ready : f = Greatest(DOMAIN ready)
        <3>1. DOMAIN ready # {} /\ DOMAIN ready \subseteq Fds
            BY <1>6 DEF NextReady, IInv, TypeOK
        <3> QED BY <3>1, GreatestIsGreatest, DispatchAssumption DEF Fds
    <2>3. /\ \A g \in DOMAIN ready' : g \in DOMAIN ready /\ ready'[g] = ready[g]
          /\ pc' = "read" => client' = ready[f]
        BY <1>6, <2>1, <2>2 DEF NextReady, NoneReady
    <2>4. HasTurn(s)' => HasTurn(s)
        BY <2>3 DEF HasTurn
    <2> QED BY <2>1, <2>4, TurnsKept
<1>7. CASE CloseTurn
    <2>1. /\ pc = "close" /\ InUse(client) /\ CloseDownClient(client)
          /\ ready' = ready /\ pc' # "read"
        BY <1>7 DEF CloseTurn, Untouched
    <2>2. PICK f \in DOMAIN ready : ready[f] = s
        BY <2>1 DEF HasTurn
    <2>3. Connected(s)
        BY <2>2 DEF HasTurn
    <2>4. s # client /\ client \in Slots
        BY <2>1, <2>2, <2>3, EntriesOfOthers DEF IInv, TurnLive
    <2> QED BY <2>1, <2>3, <2>4, CloseDownClientKeeps
<1> QED BY <1>1, <1>2, <1>3, <1>4, <1>5, <1>6, <1>7 DEF Next, Environment, ServerStep

-----------------------------------------------------------------------------
(* The theorems.                                                           *)

LEMMA InitIInv == Init => IInv
<1> SUFFICES ASSUME Init
             PROVE  IInv
    OBVIOUS
<1> USE DispatchAssumption DEF Init
<1>1. \A s \in Slots : ~InUse(s) /\ ~Connected(s)
    BY DEF InUse, Connected
<1>2. ready \in [{} -> Slots \cup {Nobody}]
    BY DEF NoneReady
<1>3. ready \in UNION {[D -> Slots \cup {Nobody}] : D \in SUBSET Fds}
    BY <1>2
<1>4. TypeOK
    <2>1. client \in 0..MAXCLIENTS /\ newClient \in Slots \cup {Nobody}
        BY DEF Nobody
    <2>2. /\ currentMaxClients \in 2..MAXCLIENTS
          /\ nextFreeClientID \in 1..(currentMaxClients - 1)
        OBVIOUS
    <2>3. /\ backlog \in 0..MaxBacklog
          /\ isOpen \in [Fds -> BOOLEAN] /\ hungUp \in [Fds -> BOOLEAN]
          /\ wire \in [Fds -> 0..MaxWire] /\ buf \in [Fds -> 0..BufSize]
        OBVIOUS
    <2>4. /\ onlyClient \in Slots \cup {Nobody}
          /\ ConnectionTranslation \in [Fds -> Slots \cup {Nobody}]
          /\ clients \in [Slots -> Client \cup {NullClient}]
          /\ nClients \in Int /\ pc \in Steps
          /\ timesThisConnection \in 0..(MAX_TIMES_PER - 1)
        BY DEF Steps
    <2>5. /\ GrabDone \in BOOLEAN /\ grabbingClient \in BOOLEAN
          /\ clientsDoomed \in BOOLEAN /\ isItTimeToYield \in BOOLEAN
        OBVIOUS
    <2>6. /\ AllClients \subseteq Fds /\ SavedAllClients \subseteq Fds
          /\ ClientsWithInput \subseteq Fds /\ SavedClientsWithInput \subseteq Fds
        OBVIOUS
    <2> QED BY <1>3, <2>1, <2>2, <2>3, <2>4, <2>5, <2>6 DEF TypeOK
<1>5. Counted = {}
    BY <1>1 DEF Counted
<1>6. CountExact
    BY <1>5, FS_EmptySet DEF CountExact
<1>7. DOMAIN ready = {}
    BY DEF NoneReady
<1> QED
    BY <1>1, <1>4, <1>6, <1>7
    DEF IInv, IndexInArray, TranslationLive, ReadyLive, TurnLive, KilledSoFar,
        NewcomerLive, GrabLive, GrabExcludesOthers

\* One case per action of Next.
LEMMA NextIInv == IInv /\ [Next]_vars => IInv'
<1> SUFFICES ASSUME IInv, [Next]_vars
             PROVE  IInv'
    OBVIOUS
<1>1. CASE UNCHANGED vars
    <2>1. TypeOK'
        BY <1>1 DEF IInv, TypeOK, vars, kernelVars, maskVars, grabVars, tableVars,
                    loopVars, turnVars
    <2> QED BY <1>1, <2>1, QuietStep
            DEF vars, kernelVars, maskVars, loopVars, turnVars
<1>2. CASE Environment
    BY <1>2, PeerStep, WriteFailsStep DEF Environment
<1>3. CASE WaitBuffered \/ CheckConnections \/ Select \/ WaitDoomed
    BY <1>3, WaitBufferedStep, CheckConnectionsStep, SelectStep, WaitDoomedStep
<1>4. CASE WelcomeNew \/ NextReady \/ ReadRequest \/ ReadOfFreed
    BY <1>4, WelcomeNewStep, NextReadyStep, ReadRequestStep, ReadOfFreedStep
<1>5. CASE Proc
    BY <1>5, ProcOtherStep, ProcGrabServerStep, ProcUngrabServerStep,
       ProcChangeCloseDownModeStep, ProcKillClientSelfStep,
       ProcKillClientOtherStep, ProcKillClientTemporaryStep DEF Proc
<1>6. CASE CloseTurn \/ EndRound \/ KillAllClients
    BY <1>6, CloseTurnStep, EndRoundStep, KillAllClientsStep
<1> QED BY <1>1, <1>2, <1>3, <1>4, <1>5, <1>6 DEF Next, ServerStep

\* The inductive invariant holds in every state of the server.
THEOREM Invariance == Spec => []IInv
<1>1. Init => IInv
    BY InitIInv
<1>2. IInv /\ [Next]_vars => IInv'
    BY NextIInv
<1> QED BY <1>1, <1>2, PTL DEF Spec

\* Every variable keeps its type: in particular no index outruns clients[]
\* and no mask holds what is not a client descriptor.
THEOREM TypeCorrect == Spec => []TypeOK
<1>1. IInv => TypeOK
    BY DEF IInv
<1> QED BY <1>1, Invariance, PTL

\* While the server is grabbed requests are executed for the holder only,
\* whatever the number of clients, requests and signals.
THEOREM GrabIsExclusive == Spec => []GrabExcludesOthers
<1>1. IInv => GrabExcludesOthers
    BY DEF IInv
<1> QED BY <1>1, Invariance, PTL

\* Nobody whose turn is to come, or goes on, is closed by its own request, by a
\* failed read, by CheckConnections or at the end of a generation: whatever the
\* number of clients, only the KillClient of another leaves the round with a
\* client that is gone.
THEOREM TurnsAreLive == Spec => RoundIsLive
<1>1. IInv /\ IInv' /\ [Next]_vars =>
        [\A s \in Slots :
            (Connected(s) \/ ~HasTurn(s)) /\ ~Connected(s)' /\ HasTurn(s)'
                => pc = "exec" /\ client # s /\ Connected(s)]_vars
    BY TurnsInProc, TurnsOutsideProc
<1>2. IInv /\ [Next]_vars => IInv'
    BY NextIInv
<1> QED BY <1>1, <1>2, Invariance, PTL DEF Spec, RoundIsLive

\* nClients is the number of connections at every step, so the generation
\* ends exactly when the last of them is closed.
THEOREM CountIsExact == Spec => []ConnectionsCounted
<1>1. IInv => ConnectionsCounted
    <2> SUFFICES ASSUME IInv, pc # "killall"
                 PROVE  \/ nClients = Cardinality(Counted)
                        \/ /\ nClients = -1 /\ Cardinality(Counted) = 0
                           /\ pc \in {"serve", "read", "undefined"} \/ BadFds # {}
        BY DEF ConnectionsCounted, Counted
    <2> QED BY FS_EmptySet DEF IInv, CountExact
<1> QED BY <1>1, Invariance, PTL

\* A generation ends with every client closed: by the last close or by
\* KillAllClients, never under a client that is still connected.
THEOREM GenerationsEndEmpty == Spec => GenerationEndsEmpty
<1>1. IInv /\ [Next]_vars =>
        [pc = "serve" /\ clients # clients' /\ pc' = "wait"
           => \A s \in Slots : ~Connected(s)]_vars
    <2> SUFFICES ASSUME IInv, Next, pc = "serve", clients # clients', pc' = "wait"
                 PROVE  \A s \in Slots : ~Connected(s)
        BY DEF vars, tableVars
    <2>1. CASE EndRound
        <3>1. nClients = -1
            BY <2>1 DEF EndRound, tableVars
        <3>2. Cardinality(Counted) \in Nat
            BY CountedFinite, FS_CardinalityType
        <3>3. Counted = {} /\ newClient = Nobody
            BY <3>1, <3>2 DEF IInv, CountExact, NewcomerLive
        <3> QED BY <3>3 DEF Counted, Slots, Nobody
    <2>2. CASE ~EndRound
        <3>1. ~ServerStep
            BY <2>2 DEF ServerStep, WaitBuffered, CheckConnections, Select, WaitDoomed,
               WelcomeNew, NextReady, ReadRequest, ReadOfFreed, Proc, ProcOther, ProcGrabServer,
               ProcUngrabServer, ProcChangeCloseDownMode, ProcKillClientSelf,
               ProcKillClientOther, ProcKillClientTemporary, Asks, CloseTurn,
               KillAllClients, tableVars
        <3>2. ~Environment
            BY DEF Environment, Connect, Send, HangUp, DoomSignal, WriteFails, ServerOnly,
                   tableVars, loopVars
        <3> QED BY <3>1, <3>2 DEF Next
    <2> QED BY <2>1, <2>2
<1> QED BY <1>1, Invariance, PTL DEF Spec, GenerationEndsEmpty
=============================================================================
