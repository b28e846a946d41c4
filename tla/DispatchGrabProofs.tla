------------------------- MODULE DispatchGrabProofs -------------------------
(***************************************************************************)
(* What holds of the select masks and the descriptors of module Dispatch.   *)
(* That select() and the server grab lose nobody depends on what io.c does  *)
(* when a write fails: it closes the descriptor and leaves the client, and  *)
(* during a grab CheckConnections does not find it, so accept() may give    *)
(* its descriptor away.  Without failing writes, or without grabs, it       *)
(* cannot.                                                                  *)
(***************************************************************************)
EXTENDS DispatchProofs

NoStrays == WriteErrors = FALSE \/ "grab" \notin Requests

-----------------------------------------------------------------------------
(* The masks and the clients, on top of the invariant of DispatchProofs.    *)

\* No two clients have one descriptor.
Bound == \A s \in Slots : Connected(s) => ConnectionTranslation[clients[s].fd] = s

Confined ==
    grabbingClient => /\ AllClients = {clients[onlyClient].fd}
                      /\ ClientsWithInput \subseteq AllClients

\* Why select() fails for every connected client whose descriptor is closed,
\* before that descriptor is given away.
Sure ==
    \/ WriteErrors = FALSE /\ \A s \in Slots : Connected(s) => isOpen[clients[s].fd]
    \/ "grab" \notin Requests /\ GrabDone = FALSE

Listening == IInv /\ Bound /\ NobodyForgotten /\ Confined /\ Sure

\* Clients and their descriptors stay as they are, and so do the masks but
\* for that of the input.
Stays ==
    /\ \A s \in Slots : Connected(s)' <=> Connected(s)
    /\ \A s \in Slots : Connected(s) => clients'[s].fd = clients[s].fd
    /\ UNCHANGED <<ConnectionTranslation, AllClients, SavedAllClients, GrabDone,
                   grabbingClient, onlyClient>>

LEMMA StaysListening ==
    ASSUME Listening, IInv', Stays, WriteErrors = FALSE => isOpen' = isOpen,
           grabbingClient => ClientsWithInput' \subseteq AllClients
    PROVE  Listening'
<1>1. Bound'
    BY DEF Stays, Listening, Bound
<1>2. NobodyForgotten'
    BY DEF Stays, Listening, NobodyForgotten, ListenedTo
<1>3. Confined'
    BY DEF Stays, Listening, Confined, IInv, GrabLive
<1>4. Sure'
    BY DEF Stays, Listening, Sure
<1> QED BY <1>1, <1>2, <1>3, <1>4 DEF Listening

\* A step that leaves clients, descriptors and masks alone
LEMMA NothingListening ==
    ASSUME Listening, IInv',
           UNCHANGED <<clients, isOpen, ConnectionTranslation, AllClients,
                       SavedAllClients, ClientsWithInput, GrabDone,
                       grabbingClient, onlyClient>>
    PROVE  Listening'
<1>1. Stays
    BY DEF Stays, Connected, InUse
<1> QED BY <1>1, StaysListening DEF Listening, Confined

LEMMA CloseListening ==
    ASSUME Listening, IInv', NEW s \in Slots, InUse(s), CloseDownClient(s)
    PROVE  Listening'
<1> DEFINE g == clients[s].fd
<1>1. /\ g \in Fds
      /\ ~Connected(s)' /\ \A t \in Slots \ {s} : clients'[t] = clients[t]
      /\ \A t \in Slots \ {s} : Connected(t)' <=> Connected(t)
      /\ onlyClient' = onlyClient
      /\ grabbingClient' => grabbingClient /\ onlyClient # s
    BY ClientType, CloseDownClientKeeps DEF Listening, IInv, CloseEffect
<1>2. grabbingClient => onlyClient \in Slots /\ Connected(onlyClient)
    BY DEF Listening, IInv, GrabLive
<1>3. CASE Connected(s)
    <2>1. UngrabAndDrop(s, g) /\ CloseDownConnection(g)
        BY <1>3 DEF CloseDownClient, Connected, Retained
    <2>2. /\ ConnectionTranslation' = [ConnectionTranslation EXCEPT ![g] = Nobody]
          /\ isOpen' = [isOpen EXCEPT ![g] = FALSE]
        BY <2>1 DEF CloseDownConnection, CloseDescriptor
    <2>3. ASSUME NEW t \in Slots \ {s}, Connected(t)
          PROVE  /\ clients[t].fd \in Fds /\ clients[t].fd # g
                 /\ ConnectionTranslation'[clients[t].fd] = t
                 /\ isOpen'[clients[t].fd] = isOpen[clients[t].fd]
        <3>1. clients[t].fd \in Fds
            BY <2>3, ClientType DEF Listening, IInv, Connected
        <3>2. clients[t].fd # g
            BY <1>3, <2>3 DEF Listening, Bound
        <3>3. ConnectionTranslation[clients[t].fd] = t
            BY <2>3 DEF Listening, Bound
        <3> QED BY <2>2, <3>1, <3>2, <3>3 DEF Listening, IInv, TypeOK
    <2>4. Bound'
        BY <1>1, <2>3 DEF Bound
    <2>5. ListenedTo \ {g} \subseteq ListenedTo'
        <3>1. CASE HoldsGrab(s)
            BY <2>1, <3>1 DEF UngrabAndDrop, ListenedTo
        <3>2. CASE ~HoldsGrab(s)
            BY <2>1, <3>2 DEF UngrabAndDrop, ListenedTo
        <3> QED BY <3>1, <3>2
    <2>6. NobodyForgotten'
        BY <1>1, <2>3, <2>5 DEF Listening, NobodyForgotten
    <2>7. Confined'
        <3> SUFFICES ASSUME grabbingClient'
                     PROVE  /\ AllClients' = {clients'[onlyClient'].fd}
                            /\ ClientsWithInput' \subseteq AllClients'
            BY DEF Confined
        <3>1. grabbingClient /\ onlyClient \in Slots \ {s} /\ Connected(onlyClient)
            BY <1>1, <1>2
        <3>2. ~HoldsGrab(s)
            BY <3>1 DEF HoldsGrab
        <3>3. AllClients' = AllClients \ {g} /\ ClientsWithInput' = ClientsWithInput \ {g}
            BY <2>1, <3>2 DEF UngrabAndDrop
        <3>4. clients[onlyClient].fd # g /\ clients'[onlyClient'] = clients[onlyClient]
            BY <1>1, <2>3, <3>1
        <3> QED BY <3>1, <3>3, <3>4 DEF Listening, Confined
    <2>8. GrabDone = FALSE => GrabDone' = FALSE
        BY <2>1 DEF UngrabAndDrop
    <2>9. Sure'
        <3>1. CASE WriteErrors = FALSE /\ \A t \in Slots : Connected(t) => isOpen[clients[t].fd]
            BY <1>1, <2>3, <3>1 DEF Sure
        <3>2. CASE "grab" \notin Requests /\ GrabDone = FALSE
            BY <2>8, <3>2 DEF Sure
        <3> QED BY <3>1, <3>2 DEF Listening, Sure
    <2> QED BY <2>4, <2>6, <2>7, <2>9 DEF Listening
<1>4. CASE ~Connected(s)
    <2>1. UngrabFor(s) /\ UNCHANGED <<kernelVars, ConnectionTranslation, onlyClient>>
        BY <1>4 DEF CloseDownClient, Connected
    <2>2. ~HoldsGrab(s)
        BY <1>2, <1>4 DEF HoldsGrab
    <2>3. UNCHANGED <<grabbingClient, maskVars>>
        BY <2>1, <2>2 DEF UngrabFor
    <2>4. Stays
        BY <1>1, <1>4, <2>1, <2>3 DEF Stays, maskVars
    <2> QED BY <2>1, <2>3, <2>4, StaysListening
            DEF kernelVars, maskVars, Listening, Confined
<1> QED BY <1>3, <1>4

LEMMA CheckConnectionsListening ==
    ASSUME Listening, IInv', CheckConnections
    PROVE  Listening'
<1> DEFINE f == Least(BadFds)
           bad == ConnectionTranslation[f]
<1>1. f \in Fds
    <2>1. BadFds \subseteq Fds /\ BadFds \subseteq Nat /\ BadFds # {}
        <3>1. BadFds \subseteq Fds /\ BadFds # {}
            BY DEF BadFds, CheckConnections, Listening, IInv, TypeOK
        <3> QED BY <3>1 DEF Fds
    <2> QED BY <2>1, LeastIsLeast
<1>2. bad \in Slots \cup {Nobody}
    BY <1>1 DEF Listening, IInv, TypeOK
<1>3. CASE bad # Nobody
    <2>1. CloseDownClient(bad)
        BY <1>3 DEF CheckConnections
    <2>2. bad \in Slots /\ InUse(bad)
        BY <1>1, <1>2, <1>3 DEF Listening, IInv, TranslationLive, Connected
    <2> HIDE DEF bad
    <2> QED BY <2>1, <2>2, CloseListening
<1>4. CASE bad = Nobody
    <2>1. /\ AllClients' = AllClients \ {f}
          /\ UNCHANGED <<kernelVars, SavedAllClients, ClientsWithInput,
                         SavedClientsWithInput, GrabDone, grabVars, tableVars>>
        BY <1>4 DEF CheckConnections
    <2>2. /\ UNCHANGED <<clients, isOpen, ConnectionTranslation, SavedAllClients, GrabDone,
                         grabbingClient, onlyClient, ClientsWithInput>>
          /\ \A s \in Slots : Connected(s)' <=> Connected(s)
        BY <2>1 DEF kernelVars, grabVars, tableVars, Connected, InUse
    <2>3. \A s \in Slots : Connected(s) => clients[s].fd # f
        BY <1>4 DEF Listening, Bound, Slots, Nobody
    <2>4. Bound'
        BY <2>2 DEF Listening, Bound
    <2>5. NobodyForgotten'
        BY <2>1, <2>2, <2>3 DEF Listening, NobodyForgotten, ListenedTo
    <2>6. Confined'
        <3>1. grabbingClient => clients[onlyClient].fd # f
            BY <2>3 DEF Listening, IInv, GrabLive
        <3> QED BY <2>1, <2>2, <3>1 DEF Listening, Confined
    <2>7. Sure'
        BY <2>2 DEF Listening, Sure
    <2> QED BY <2>4, <2>5, <2>6, <2>7 DEF Listening
<1> QED BY <1>3, <1>4

\* accept() gives away no descriptor of a client that is connected.
LEMMA SelectListening ==
    ASSUME Listening, IInv', Select
    PROVE  Listening'
<1>0. /\ EstablishNewConnections /\ BadFds = {} /\ UNCHANGED <<grabbingClient, onlyClient>>
    BY DEF Select, grabVars
<1>1. CASE NotAccepted /\ UNCHANGED maskVars
    <2>1. UNCHANGED <<clients, isOpen, ConnectionTranslation, AllClients, SavedAllClients,
                      ClientsWithInput, GrabDone, grabbingClient, onlyClient>>
        BY <1>0, <1>1 DEF NotAccepted, tableVars, maskVars
    <2> QED BY <2>1, NothingListening
<1>2. ASSUME NEW f \in Fds, ListenForNew(f)
      PROVE  /\ ListenedTo \subseteq ListenedTo' /\ f \in ListenedTo'
             /\ UNCHANGED <<ClientsWithInput, GrabDone>>
             /\ GrabDone => AllClients' = AllClients
    BY <1>2 DEF ListenForNew, ListenedTo
<1>3. ASSUME NEW f \in Fds, ListenForNew(f), NotAccepted PROVE Listening'
    <2>1. UNCHANGED <<clients, isOpen, ConnectionTranslation, grabbingClient, onlyClient>>
        BY <1>0, <1>3 DEF NotAccepted, tableVars
    <2>2. \A s \in Slots : Connected(s)' <=> Connected(s)
        BY <2>1 DEF Connected, InUse
    <2>3. Bound'
        BY <2>1, <2>2 DEF Listening, Bound
    <2>4. NobodyForgotten'
        BY <1>2, <1>3, <2>1, <2>2 DEF Listening, NobodyForgotten
    <2>5. Confined'
        BY <1>2, <1>3, <2>1 DEF Listening, Confined, IInv, GrabLive
    <2>6. Sure'
        BY <1>2, <1>3, <2>1, <2>2 DEF Listening, Sure
    <2> QED BY <2>3, <2>4, <2>5, <2>6 DEF Listening
<1>4. ASSUME NEW f \in Fds, ~isOpen[f], CanHaveSlot, ListenForNew(f),
             isOpen' = [isOpen EXCEPT ![f] = TRUE],
             ConnectionTranslation' = [ConnectionTranslation EXCEPT ![f] = NextSlot],
             clients' = [clients EXCEPT ![NextSlot] =
                           [fd |-> f, mode |-> "DestroyAll",
                            gone |-> FALSE, exc |-> FALSE]]
      PROVE  Listening'
    <2>1. PICK n \in Slots : n = NextSlot /\ ~InUse(n)
        BY <1>4, NextSlotIsFree DEF Listening, IInv
    <2>2. ASSUME NEW t \in Slots, Connected(t) PROVE clients[t].fd \in Fds \ {f}
        <3>1. clients[t].fd \in Fds
            BY <2>2, ClientType DEF Listening, IInv, Connected
        <3>2. isOpen[clients[t].fd]
            <4>1. CASE GrabDone = FALSE
                <5>1. clients[t].fd \in AllClients
                    BY <2>2, <4>1 DEF Listening, NobodyForgotten, ListenedTo
                <5> QED BY <1>0, <3>1, <5>1 DEF BadFds
            <4>2. CASE GrabDone # FALSE
                BY <2>2, <4>2 DEF Listening, Sure
            <4> QED BY <4>1, <4>2
        <3> QED BY <1>4, <3>1, <3>2
    <2>3. /\ clients'[n].fd = f /\ clients'[n].gone = FALSE
          /\ \A t \in Slots \ {n} : clients'[t] = clients[t]
          /\ \A t \in Slots \ {n} : Connected(t)' <=> Connected(t)
          /\ ~Connected(n)
        BY <1>4, <2>1 DEF Listening, IInv, TypeOK, Connected, InUse
    <2>4. /\ ConnectionTranslation'[f] = n /\ isOpen'[f] = TRUE
          /\ \A g \in Fds \ {f} : /\ ConnectionTranslation'[g] = ConnectionTranslation[g]
                                  /\ isOpen'[g] = isOpen[g]
        BY <1>4, <2>1 DEF Listening, IInv, TypeOK
    <2>5. Bound'
        BY <2>2, <2>3, <2>4 DEF Listening, Bound
    <2>6. NobodyForgotten'
        BY <1>2, <1>4, <2>3 DEF Listening, NobodyForgotten
    <2>7. Confined'
        <3>1. grabbingClient => onlyClient \in Slots /\ Connected(onlyClient) /\ GrabDone
            BY DEF Listening, IInv, GrabLive
        <3>2. grabbingClient => clients'[onlyClient] = clients[onlyClient]
            BY <2>3, <3>1
        <3> QED BY <1>0, <1>2, <1>4, <3>1, <3>2 DEF Listening, Confined
    <2>8. Sure'
        <3>1. CASE WriteErrors = FALSE /\ \A t \in Slots : Connected(t) => isOpen[clients[t].fd]
            BY <2>2, <2>3, <2>4, <3>1 DEF Sure
        <3>2. CASE "grab" \notin Requests /\ GrabDone = FALSE
            BY <1>2, <1>4, <3>2 DEF Sure
        <3> QED BY <3>1, <3>2 DEF Listening, Sure
    <2> QED BY <2>5, <2>6, <2>7, <2>8 DEF Listening
<1>5. ClosedFds # {} => Least(ClosedFds) \in Fds /\ ~isOpen[Least(ClosedFds)]
    <2>1. ClosedFds \subseteq Nat
        BY DEF ClosedFds, Fds
    <2>2. ClosedFds # {} => Least(ClosedFds) \in ClosedFds
        BY <2>1, LeastIsLeast
    <2> QED BY <2>2 DEF ClosedFds
<1>6. CASE ClosedFds # {} /\ ListenForNew(Least(ClosedFds)) /\ NotAccepted
    BY <1>3, <1>5, <1>6
<1>7. CASE ~(NotAccepted /\ UNCHANGED maskVars)
           /\ ~(ClosedFds # {} /\ ListenForNew(Least(ClosedFds)) /\ NotAccepted)
    <2> DEFINE g == Least(ClosedFds)
    <2>1. /\ ClosedFds # {} /\ CanHaveSlot
          /\ ListenForNew(g)
          /\ isOpen' = [isOpen EXCEPT ![g] = TRUE]
          /\ ConnectionTranslation' = [ConnectionTranslation EXCEPT ![g] = NextSlot]
          /\ clients' = [clients EXCEPT ![NextSlot] =
                           [fd |-> g, mode |-> "DestroyAll",
                            gone |-> FALSE, exc |-> FALSE]]
        BY <1>0, <1>7 DEF EstablishNewConnections
    <2>2. g \in Fds /\ ~isOpen[g]
        BY <1>5, <2>1
    <2> HIDE DEF g
    <2> QED BY <1>4, <2>1, <2>2
<1> QED BY <1>1, <1>6, <1>7

\* The reading client is the one that grabs, if one does.
LEMMA ReadRequestListening ==
    ASSUME Listening, IInv', ReadRequest
    PROVE  Listening'
<1> DEFINE f == clients[client].fd
<1>1. /\ pc = "read"
      /\ UNCHANGED <<isOpen, AllClients, SavedAllClients, GrabDone, grabVars, tableVars>>
      /\ ClientsWithInput' \subseteq ClientsWithInput \cup {f}
    BY DEF ReadRequest, YieldNoInput
<1>2. grabbingClient => client = onlyClient
    BY <1>1 DEF Listening, IInv, GrabExcludesOthers
<1>3. Stays
    BY <1>1 DEF Stays, Connected, InUse, grabVars, tableVars
<1>4. grabbingClient => ClientsWithInput' \subseteq AllClients
    BY <1>1, <1>2 DEF Listening, Confined
<1> QED BY <1>1, <1>3, <1>4, StaysListening

LEMMA GrabListening ==
    ASSUME Listening, IInv', ProcGrabServer \/ ProcUngrabServer
    PROVE  Listening'
<1> DEFINE f == clients[client].fd
<1>1. /\ pc = "exec" /\ "grab" \in Requests
      /\ UNCHANGED <<clients, isOpen, ConnectionTranslation>>
      /\ \A s \in Slots : Connected(s)' <=> Connected(s)
    BY DEF ProcGrabServer, ProcUngrabServer, Asks, tableVars, TheOS, kernelVars,
           Connected, InUse
<1>2. /\ grabbingClient => client = onlyClient
      /\ grabbingClient <=> GrabDone
    BY <1>1 DEF Listening, IInv, GrabExcludesOthers, GrabLive
<1>3. Bound' /\ Sure'
    BY <1>1 DEF Listening, Bound, Sure
<1>4. CASE ProcGrabServer
    <2>1. OnlyListenTo(f) /\ grabbingClient' = TRUE /\ onlyClient' = client
        BY <1>4 DEF ProcGrabServer
    <2>2. CASE GrabDone
        <3>1. UNCHANGED maskVars
            BY <2>1, <2>2 DEF OnlyListenTo
        <3>2. NobodyForgotten'
            BY <1>1, <3>1 DEF Listening, NobodyForgotten, ListenedTo, maskVars
        <3>3. Confined'
            BY <1>1, <1>2, <2>1, <2>2, <3>1 DEF Listening, Confined, maskVars
        <3> QED BY <1>3, <3>2, <3>3 DEF Listening
    <2>3. CASE ~GrabDone
        <3>1. /\ ClientsWithInput' = ClientsWithInput \cap {f}
              /\ SavedAllClients' = AllClients /\ AllClients' = {f} /\ GrabDone' = TRUE
            BY <2>1, <2>3 DEF OnlyListenTo
        <3>2. NobodyForgotten'
            BY <1>1, <2>3, <3>1 DEF Listening, NobodyForgotten, ListenedTo
        <3>3. Confined'
            BY <1>1, <2>1, <3>1 DEF Confined
        <3> QED BY <1>3, <3>2, <3>3 DEF Listening
    <2> QED BY <2>2, <2>3
<1>5. CASE ProcUngrabServer
    <2>1. /\ grabbingClient' = FALSE
          /\ IF GrabDone THEN ListenToAllClients ELSE UNCHANGED maskVars
        BY <1>5 DEF ProcUngrabServer
    <2>2. ListenedTo' = ListenedTo
        BY <2>1 DEF ListenToAllClients, ListenedTo, maskVars
    <2>3. NobodyForgotten'
        BY <1>1, <2>2 DEF Listening, NobodyForgotten
    <2> QED BY <1>3, <2>1, <2>3 DEF Listening, Confined
<1> QED BY <1>4, <1>5

\* A request that marks the client, or frees what others retained
LEMMA MarkedListening ==
    ASSUME Listening, IInv',
           \/ \E m \in Modes : ProcChangeCloseDownMode(m)
           \/ ProcKillClientTemporary
           \/ \E s \in Slots : WriteFails(s)
    PROVE  Listening'
<1>1. CASE \E m \in Modes : ProcChangeCloseDownMode(m)
    <2>1. PICK m \in Modes : clients' = [clients EXCEPT ![client].mode = m]
        BY <1>1 DEF ProcChangeCloseDownMode
    <2>2. UNCHANGED <<isOpen, ConnectionTranslation, AllClients, SavedAllClients,
                      ClientsWithInput, GrabDone, grabbingClient, onlyClient>>
        BY <1>1 DEF ProcChangeCloseDownMode, maskVars, grabVars, TheOS, kernelVars
    <2>3. PICK c \in Slots : c = client /\ Connected(c)
        BY <1>1 DEF ProcChangeCloseDownMode, Asks, Listening, IInv, TurnLive
    <2>4. clients[c] \in Client
        BY <2>3, ClientType DEF Listening, IInv, Connected
    <2>5. /\ clients'[c] = [clients[c] EXCEPT !.mode = m]
          /\ \A t \in Slots \ {c} : clients'[t] = clients[t]
        BY <2>1, <2>3 DEF Listening, IInv, TypeOK
    <2>6. /\ clients'[c].fd = clients[c].fd /\ clients'[c].gone = clients[c].gone
          /\ clients'[c] # NullClient
        BY <2>4, <2>5 DEF Client, NullClient, Nobody, Fds
    <2>7. Stays
        BY <2>2, <2>3, <2>5, <2>6 DEF Stays, Connected, InUse
    <2> QED BY <2>2, <2>7, StaysListening DEF Listening, Confined
<1>2. CASE ProcKillClientTemporary
    <2>1. /\ clients' = [s \in Slots |->
                           IF s \in Temporaries THEN NullClient ELSE clients[s]]
          /\ UNCHANGED <<isOpen, ConnectionTranslation, AllClients, SavedAllClients,
                         ClientsWithInput, GrabDone, grabbingClient, onlyClient>>
        BY <1>2 DEF ProcKillClientTemporary, maskVars, grabVars, TheOS, kernelVars
    <2>2. Stays
        BY <2>1 DEF Stays, Connected, InUse, Temporaries, Retained
    <2> QED BY <2>1, <2>2, StaysListening DEF Listening, Confined
<1>3. ASSUME NEW s \in Slots, WriteFails(s) PROVE Listening'
    <2>1. /\ WriteErrors /\ Connected(s) /\ clients' = [clients EXCEPT ![s].exc = TRUE]
          /\ UNCHANGED <<ConnectionTranslation, AllClients, SavedAllClients,
                         ClientsWithInput, GrabDone, grabbingClient, onlyClient>>
        BY <1>3 DEF WriteFails, maskVars, grabVars
    <2>2. clients[s] \in Client
        BY <2>1, ClientType DEF Listening, IInv, Connected
    <2>3. /\ clients'[s] = [clients[s] EXCEPT !.exc = TRUE]
          /\ \A t \in Slots \ {s} : clients'[t] = clients[t]
        BY <2>1 DEF Listening, IInv, TypeOK
    <2>4. /\ clients'[s].fd = clients[s].fd /\ clients'[s].gone = clients[s].gone
          /\ clients'[s] # NullClient
        BY <2>2, <2>3 DEF Client, NullClient, Nobody, Fds
    <2>5. Stays
        BY <2>1, <2>3, <2>4 DEF Stays, Connected, InUse
    <2> QED BY <2>1, <2>5, StaysListening DEF Listening, Confined
<1> QED BY <1>1, <1>2, <1>3

\* Nobody is connected when a generation ends.
LEMMA NewGenerationListening ==
    ASSUME Listening, IInv', NewGeneration, \A s \in Slots : ~Connected(s)
    PROVE  Listening'
<1>1. /\ clients' = [s \in Slots |-> NullClient]
      /\ UNCHANGED <<grabbingClient, onlyClient, GrabDone>>
    BY DEF NewGeneration, maskVars, grabVars
<1>2. \A s \in Slots : ~Connected(s)'
    BY <1>1 DEF Connected, InUse
<1>3. grabbingClient = FALSE
    BY DEF Listening, IInv, GrabLive, TypeOK
<1> QED BY <1>1, <1>2, <1>3
        DEF Listening, Bound, NobodyForgotten, Confined, Sure

-----------------------------------------------------------------------------
LEMMA ListeningNext == Listening /\ [Next]_vars => Listening'
<1> SUFFICES ASSUME Listening, [Next]_vars PROVE Listening'
    OBVIOUS
<1>0. IInv'
    BY NextIInv DEF Listening
<1>1. CASE UNCHANGED vars
    BY <1>0, <1>1, NothingListening
       DEF vars, kernelVars, tableVars, maskVars, grabVars
<1>2. CASE Connect \/ DoomSignal \/ \E f \in Fds : Send(f) \/ HangUp(f)
    BY <1>0, <1>2, NothingListening
       DEF Connect, DoomSignal, Send, HangUp, ServerOnly, kernelVars, tableVars,
           maskVars, grabVars
<1>3. CASE WaitBuffered \/ WaitDoomed \/ WelcomeNew \/ NextReady \/ ReadOfFreed
    BY <1>0, <1>3, NothingListening
       DEF WaitBuffered, WaitDoomed, WelcomeNew, NextReady, ReadOfFreed, kernelVars, tableVars,
           maskVars, grabVars
<1>4. CASE ProcOther
    BY <1>0, <1>4, NothingListening
       DEF ProcOther, TheOS, kernelVars, tableVars, maskVars, grabVars
<1>5. CASE CheckConnections \/ Select \/ ReadRequest
    BY <1>0, <1>5, CheckConnectionsListening, SelectListening, ReadRequestListening
<1>6. CASE ProcGrabServer \/ ProcUngrabServer
    BY <1>0, <1>6, GrabListening
<1>7. CASE \/ \E m \in Modes : ProcChangeCloseDownMode(m)
           \/ ProcKillClientTemporary
           \/ \E s \in Slots : WriteFails(s)
    BY <1>0, <1>7, MarkedListening
<1>8. ASSUME pc \in {"exec", "close"} PROVE client \in Slots /\ InUse(client)
    BY <1>8 DEF Listening, IInv, TurnLive, Connected
<1>9. CASE ProcKillClientSelf \/ CloseTurn
    <2>1. PICK c \in Slots : c = client
        BY <1>8, <1>9 DEF ProcKillClientSelf, CloseTurn, Asks
    <2>2. CloseDownClient(c) /\ InUse(c)
        BY <1>8, <1>9, <2>1 DEF ProcKillClientSelf, CloseTurn, Asks
    <2> QED BY <1>0, <2>2, CloseListening
<1>10. ASSUME NEW t \in Slots, ProcKillClientOther(t) PROVE Listening'
    <2>1. CloseDownClient(t) /\ InUse(t)
        BY <1>10 DEF ProcKillClientOther, Retained, Connected
    <2> QED BY <1>0, <2>1, CloseListening
<1>11. CASE EndRound
    <2>1. CASE UNCHANGED <<kernelVars, buf, maskVars, grabVars, tableVars>>
        BY <1>0, <2>1, NothingListening DEF kernelVars, tableVars, maskVars, grabVars
    <2>2. CASE nClients = -1 /\ NewGeneration
        <3>1. newClient = Nobody
            BY <1>11 DEF EndRound, Listening, IInv, NewcomerLive
        <3>2. Cardinality(Counted) \in Nat
            BY CountedFinite, FS_CardinalityType
        <3>3. Counted = {}
            BY <1>11, <2>2, <3>2 DEF EndRound, Listening, IInv, CountExact
        <3>4. \A s \in Slots : ~Connected(s)
            BY <3>1, <3>3 DEF Counted, Slots, Nobody
        <3> QED BY <1>0, <2>2, <3>4, NewGenerationListening
    <2> QED BY <1>11, <2>1, <2>2 DEF EndRound
<1>12. CASE KillAllClients
    <2>1. /\ client \in 1..currentMaxClients /\ currentMaxClients \in 2..MAXCLIENTS
          /\ \A s \in Slots : s < client => ~Connected(s)
          /\ \A s \in Slots : Connected(s) => s < currentMaxClients
        BY <1>12 DEF KillAllClients, Listening, IInv, KilledSoFar, TypeOK, IndexInArray,
                     Connected
    <2>2. CASE client = currentMaxClients /\ NewGeneration
        BY <1>0, <2>1, <2>2, NewGenerationListening
    <2>3. CASE UNCHANGED <<kernelVars, buf, maskVars, grabVars, tableVars>>
        BY <1>0, <2>3, NothingListening DEF kernelVars, tableVars, maskVars, grabVars
    <2>4. CASE client < currentMaxClients /\ InUse(client) /\ CloseDownClient(client)
        <3>1. PICK c \in Slots : c = client
            BY <2>1, <2>4, DispatchAssumption DEF Slots
        <3>2. InUse(c) /\ CloseDownClient(c)
            BY <2>4, <3>1
        <3> QED BY <1>0, <3>2, CloseListening
    <2> QED BY <1>12, <2>2, <2>3, <2>4 DEF KillAllClients
<1>13. CASE Environment
    BY <1>2, <1>7, <1>13 DEF Environment
<1>14. CASE Proc
    BY <1>4, <1>6, <1>7, <1>9, <1>10, <1>14 DEF Proc
<1>15. CASE ServerStep
    BY <1>3, <1>5, <1>9, <1>11, <1>12, <1>14, <1>15 DEF ServerStep
<1> QED BY <1>1, <1>13, <1>15 DEF Next

LEMMA InitListening == NoStrays => (Init => Listening)
<1> SUFFICES ASSUME NoStrays, Init PROVE Listening
    OBVIOUS
<1>1. IInv
    BY InitIInv
<1>2. (\A s \in Slots : ~Connected(s)) /\ grabbingClient = FALSE /\ GrabDone = FALSE
    BY DEF Init, Connected, InUse
<1> QED BY <1>1, <1>2
        DEF NoStrays, Listening, Bound, NobodyForgotten, Confined, Sure

LEMMA ListeningImplies ==
    Listening => GrabConfinesInput /\ NobodyForgotten /\ OneClientPerDescriptor
<1> SUFFICES ASSUME Listening
             PROVE  GrabConfinesInput /\ NobodyForgotten /\ OneClientPerDescriptor
    OBVIOUS
<1>1. GrabConfinesInput
    BY DEF Listening, IInv, GrabLive, Confined, GrabConfinesInput
<1>2. ASSUME NEW f \in Fds, NEW s \in Slots
      PROVE  ConnectionTranslation[f] = s <=> Connected(s) /\ clients[s].fd = f
    <2>1. s # Nobody
        BY DEF Slots, Nobody
    <2> QED BY <2>1 DEF Listening, Bound, IInv, TranslationLive
<1> QED BY <1>1, <1>2 DEF Listening, OneClientPerDescriptor

LEMMA AlwaysListening == NoStrays => (Spec => []Listening)
<1> SUFFICES ASSUME NoStrays PROVE Spec => []Listening
    OBVIOUS
<1>1. Init => Listening
    BY InitListening
<1>2. Listening /\ [Next]_vars => Listening'
    BY ListeningNext
<1> QED BY <1>1, <1>2, PTL DEF Spec

\* Without writes that fail, or without server grabs: dix and the os layer agree
\* on the grab, and OnlyListenToOneClient keeps every other descriptor out of
\* select() and of the round until the grab ends.
THEOREM GrabConfines == ASSUME NoStrays PROVE Spec => []GrabConfinesInput
BY AlwaysListening, ListeningImplies, PTL

\* With the same proviso, the masks and those saved by a grab have every
\* connected client, whoever grabs, ungrabs, connects, is closed or killed.
THEOREM NobodyIsForgotten == ASSUME NoStrays PROVE Spec => []NobodyForgotten
BY AlwaysListening, ListeningImplies, PTL

\* With the same proviso, accept() and ConnectionTranslation never give one
\* descriptor to two clients.
THEOREM OneClientEach == ASSUME NoStrays PROVE Spec => []OneClientPerDescriptor
BY AlwaysListening, ListeningImplies, PTL
=============================================================================
