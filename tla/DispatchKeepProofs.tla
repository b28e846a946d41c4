------------------------- MODULE DispatchKeepProofs -------------------------
(***************************************************************************)
(* What module Dispatch keeps, whatever fails and whenever signals arrive:  *)
(* the requests left in the input buffers, and the resources that outlive   *)
(* their clients.                                                           *)
(***************************************************************************)
EXTENDS DispatchProofs

-----------------------------------------------------------------------------
(* The requests left in the buffers.                                        *)

\* NoStrandedRequest holds at every point of the main loop.
Announced == \A f \in Fds : buf[f] >= 2 => f \in Buffered

\* A buffer that is not refilled, under a mask that keeps its bits but for
\* the descriptors whose buffers are emptied.
LEMMA KeptAnnounced ==
    ASSUME Announced, NEW D \in SUBSET Fds, Buffered \ D \subseteq Buffered',
           \A f \in D : ~(buf'[f] >= 2), \A f \in Fds \ D : buf'[f] = buf[f]
    PROVE  Announced'
BY DEF Announced

LEMMA CloseAnnounced ==
    ASSUME IInv, Announced, NEW s \in Slots, InUse(s), CloseDownClient(s)
    PROVE  Announced'
<1>1. CASE Connected(s)
    <2> DEFINE g == clients[s].fd
    <2>1. g \in Fds /\ UngrabAndDrop(s, g) /\ buf' = [buf EXCEPT ![g] = 0]
        BY <1>1, ClientType
           DEF IInv, Connected, Retained, CloseDownClient, CloseDownConnection
    <2>2. ~(buf'[g] >= 2) /\ \A f \in Fds \ {g} : buf'[f] = buf[f]
        BY <2>1 DEF IInv, TypeOK
    <2>3. Buffered \ {g} \subseteq Buffered'
        <3> HIDE DEF g
        <3>1. CASE HoldsGrab(s)
            BY <2>1, <3>1 DEF UngrabAndDrop, Buffered
        <3>2. CASE ~HoldsGrab(s)
            BY <2>1, <3>2 DEF UngrabAndDrop, Buffered
        <3> QED BY <3>1, <3>2
    <2> HIDE DEF g
    <2>4. {g} \in SUBSET Fds
        BY <2>1
    <2> QED BY <2>2, <2>3, <2>4, KeptAnnounced
<1>2. CASE ~Connected(s)
    <2>1. UngrabFor(s) /\ buf' = buf
        BY <1>2 DEF CloseDownClient
    <2>2. Buffered \subseteq Buffered'
        <3>1. CASE HoldsGrab(s)
            BY <2>1, <3>1 DEF UngrabFor, ListenToAllClients, Buffered
        <3>2. CASE ~HoldsGrab(s)
            BY <2>1, <3>2 DEF UngrabFor, maskVars, Buffered
        <3> QED BY <3>1, <3>2
    <2> QED BY <2>1, <2>2 DEF Announced
<1> QED BY <1>1, <1>2

\* CheckConnections empties the buffer of a descriptor nobody holds, and
\* leaves its bit.
LEMMA CheckConnectionsAnnounced ==
    ASSUME IInv, Announced, CheckConnections
    PROVE  Announced'
<1> DEFINE f == Least(BadFds)
           bad == ConnectionTranslation[f]
<1>1. f \in Fds
    <2>1. BadFds \subseteq Fds /\ BadFds \subseteq Nat /\ BadFds # {}
        <3>1. BadFds \subseteq Fds /\ BadFds # {}
            BY DEF BadFds, CheckConnections, IInv, TypeOK
        <3> QED BY <3>1 DEF Fds
    <2> QED BY <2>1, LeastIsLeast
<1>2. CASE bad # Nobody
    <2>1. CloseDownClient(bad)
        BY <1>2 DEF CheckConnections
    <2>2. bad \in Slots /\ InUse(bad)
        BY <1>1, <1>2 DEF IInv, TypeOK, TranslationLive, Connected
    <2> HIDE DEF bad
    <2> QED BY <2>1, <2>2, CloseAnnounced
<1>3. CASE bad = Nobody
    <2>1. /\ buf' = [buf EXCEPT ![f] = 0]
          /\ UNCHANGED <<ClientsWithInput, SavedClientsWithInput, GrabDone>>
        BY <1>3 DEF CheckConnections
    <2> HIDE DEF f
    <2>2. ~(buf'[f] >= 2) /\ \A g \in Fds \ {f} : buf'[g] = buf[g]
        BY <1>1, <2>1 DEF IInv, TypeOK
    <2>3. {f} \in SUBSET Fds /\ Buffered \ {f} \subseteq Buffered'
        BY <1>1, <2>1 DEF Buffered
    <2> QED BY <2>2, <2>3, KeptAnnounced
<1> QED BY <1>2, <1>3

\* ReadRequestFromClient sets the bit exactly when a full request is left.
LEMMA ReadRequestAnnounced ==
    ASSUME IInv, Announced, ReadRequest
    PROVE  Announced'
<1> DEFINE f    == clients[client].fd
           got  == IF buf[f] < 2 THEN Smaller(wire[f], BufSize - buf[f]) ELSE 0
           have == buf[f] + got
           left == IF have < 2 THEN have ELSE have - 2
<1>1. f \in Fds /\ UNCHANGED <<SavedClientsWithInput, GrabDone>>
    <2>1. client \in Slots /\ InUse(client)
        BY DEF ReadRequest, IInv, TurnLive, Connected
    <2> QED BY <2>1, ClientType DEF ReadRequest, IInv
<1>2. buf' = [buf EXCEPT ![f] = left]
    BY DEF ReadRequest
<1>3. \/ have < 2 /\ ClientsWithInput' = ClientsWithInput \ {f}
      \/ have >= 2 /\ left < 2 /\ ClientsWithInput' = ClientsWithInput \ {f}
      \/ left >= 2 /\ ClientsWithInput' = ClientsWithInput \cup {f}
    BY DEF ReadRequest, YieldNoInput
<1>4. have \in Int
    BY <1>1, DispatchAssumption DEF IInv, TypeOK, Smaller
<1> HIDE DEF f, got
<1>5. buf'[f] = left /\ \A g \in Fds \ {f} : buf'[g] = buf[g]
    BY <1>1, <1>2 DEF IInv, TypeOK
<1>6. \/ ~(left >= 2) /\ ClientsWithInput' = ClientsWithInput \ {f}
      \/ ClientsWithInput' = ClientsWithInput \cup {f}
    BY <1>3, <1>4
<1>7. {f} \in SUBSET Fds
    BY <1>1
<1> HIDE DEF left, have
<1>8. CASE ~(left >= 2) /\ ClientsWithInput' = ClientsWithInput \ {f}
    <2>1. Buffered \ {f} \subseteq Buffered'
        BY <1>1, <1>8 DEF Buffered
    <2> QED BY <1>5, <1>7, <1>8, <2>1, KeptAnnounced
<1>9. CASE ClientsWithInput' = ClientsWithInput \cup {f}
    <2>1. Buffered \cup {f} \subseteq Buffered'
        BY <1>1, <1>9 DEF Buffered
    <2> QED BY <1>5, <2>1 DEF Announced
<1> QED BY <1>6, <1>8, <1>9

\* A step that leaves the buffers alone, and the masks but for a server grab
\* that begins or ends.
LEMMA MasksAnnounced ==
    ASSUME Announced, buf' = buf,
           \/ UNCHANGED maskVars
           \/ UNCHANGED <<ClientsWithInput, SavedClientsWithInput, GrabDone>>
           \/ \E f : OnlyListenTo(f)
           \/ ListenToAllClients
    PROVE  Announced'
<1>1. Buffered \subseteq Buffered'
    <2>1. CASE UNCHANGED <<ClientsWithInput, SavedClientsWithInput, GrabDone>>
        BY <2>1 DEF Buffered
    <2>2. ASSUME NEW f, OnlyListenTo(f) PROVE Buffered \subseteq Buffered'
        <3>1. CASE GrabDone
            BY <2>2, <3>1 DEF OnlyListenTo, maskVars, Buffered
        <3>2. CASE ~GrabDone
            BY <2>2, <3>2 DEF OnlyListenTo, Buffered
        <3> QED BY <3>1, <3>2
    <2>3. CASE ListenToAllClients
        BY <2>3 DEF ListenToAllClients, Buffered
    <2> QED BY <2>1, <2>2, <2>3 DEF maskVars
<1> QED BY <1>1 DEF Announced

LEMMA AnnouncedNext == IInv /\ Announced /\ [Next]_vars => Announced'
<1> SUFFICES ASSUME IInv, Announced, [Next]_vars PROVE Announced'
    OBVIOUS
<1>1. CASE UNCHANGED vars
    BY <1>1, MasksAnnounced DEF vars
<1>2. CASE Environment
    BY <1>2, MasksAnnounced
       DEF Environment, Connect, Send, HangUp, DoomSignal, WriteFails, ServerOnly
<1>3. CASE WaitBuffered \/ WaitDoomed \/ WelcomeNew \/ NextReady \/ ReadOfFreed
    BY <1>3, MasksAnnounced DEF WaitBuffered, WaitDoomed, WelcomeNew, NextReady, ReadOfFreed
<1>4. CASE Select
    <2>1. \/ UNCHANGED maskVars
          \/ UNCHANGED <<ClientsWithInput, SavedClientsWithInput, GrabDone>>
        BY <1>4 DEF Select, EstablishNewConnections, ListenForNew
    <2> QED BY <1>4, <2>1, MasksAnnounced DEF Select
<1>5. CASE CheckConnections \/ ReadRequest
    BY <1>5, CheckConnectionsAnnounced, ReadRequestAnnounced
<1>6. CASE \/ ProcOther \/ ProcGrabServer \/ ProcUngrabServer \/ ProcKillClientTemporary
           \/ \E m \in Modes : ProcChangeCloseDownMode(m)
    BY <1>6, MasksAnnounced
       DEF ProcOther, ProcGrabServer, ProcUngrabServer, ProcKillClientTemporary,
           ProcChangeCloseDownMode, TheOS
<1>7. ASSUME pc \in {"exec", "close"} PROVE client \in Slots /\ InUse(client)
    BY <1>7 DEF IInv, TurnLive, Connected
<1>8. CASE ProcKillClientSelf \/ CloseTurn
    <2>1. client \in Slots /\ InUse(client) /\ CloseDownClient(client)
        BY <1>7, <1>8 DEF ProcKillClientSelf, CloseTurn, Asks
    <2> QED BY <2>1, CloseAnnounced
<1>9. ASSUME NEW t \in Slots, ProcKillClientOther(t) PROVE Announced'
    <2>1. CloseDownClient(t) /\ InUse(t)
        BY <1>9 DEF ProcKillClientOther, Retained, Connected
    <2> QED BY <2>1, CloseAnnounced
<1>10. CASE EndRound
    BY <1>10, MasksAnnounced DEF EndRound, NewGeneration
<1>11. CASE KillAllClients
    <2>1. CASE client < currentMaxClients /\ InUse(client) /\ CloseDownClient(client)
        <3>1. client \in Slots
            BY <1>11, <2>1, DispatchAssumption
               DEF KillAllClients, IInv, KilledSoFar, TypeOK, Slots
        <3> QED BY <2>1, <3>1, CloseAnnounced
    <2>2. CASE UNCHANGED <<buf, maskVars>>
        BY <2>2, MasksAnnounced
    <2> QED BY <1>11, <2>1, <2>2 DEF KillAllClients, NewGeneration
<1>12. CASE Proc
    BY <1>6, <1>8, <1>9, <1>12 DEF Proc
<1> QED BY <1>1, <1>2, <1>3, <1>4, <1>5, <1>8, <1>10, <1>11, <1>12 DEF Next, ServerStep

\* A full request that ReadRequestFromClient leaves in a buffer keeps its bit
\* in ClientsWithInput, or in the mask a grab saves: through grabs that begin
\* and end, closes, kills and the end of a generation, with no proviso.
THEOREM NoRequestStranded == Spec => []NoStrandedRequest
<1>1. Init => Announced
    <2> SUFFICES ASSUME Init PROVE Announced
        OBVIOUS
    <2>1. \A f \in Fds : ~(buf[f] >= 2)
        BY DEF Init
    <2> QED BY <2>1 DEF Announced
<1>2. IInv /\ Announced /\ [Next]_vars => Announced'
    BY AnnouncedNext
<1>3. Announced => NoStrandedRequest
    BY DEF Announced, NoStrandedRequest
<1> QED BY <1>1, <1>2, <1>3, Invariance, PTL DEF Spec

-----------------------------------------------------------------------------
(* What clients retain.                                                     *)

\* What RetainedIsKept lets free the resources retained under index s.
MayFree(s) ==
    \/ /\ pc = "exec"
       /\ \/ clients[s].mode = "RetainTemporary"
          \/ \A t \in Slots \ {s} : clients'[t] = clients[t]
    \/ pc = "killall"
    \/ pc = "serve" /\ (nClients = -1 \/ clientsDoomed)

\* Closing a client frees, of what is retained, what is its own.
LEMMA CloseKeepsRetained ==
    ASSUME IInv, NEW c \in Slots, InUse(c), CloseDownClient(c),
           Connected(c) \/ pc \in {"exec", "killall"},
           NEW s \in Slots, Retained(s), ~Retained(s)'
    PROVE  MayFree(s)
<1>1. \A t \in Slots \ {c} : clients'[t] = clients[t]
    BY CloseDownClientKeeps DEF CloseEffect
<1>2. s = c
    BY <1>1 DEF Retained, InUse
<1>3. ~Connected(c)
    BY <1>2 DEF Retained, Connected
<1> QED BY <1>1, <1>2, <1>3 DEF MayFree

LEMMA RetainedNext ==
    ASSUME IInv, Next, NEW s \in Slots, Retained(s), ~Retained(s)'
    PROVE  MayFree(s)
<1>0. clients'[s] # clients[s]
    BY DEF Retained, InUse
<1>1. CASE UNCHANGED clients
    BY <1>0, <1>1
<1>2. ASSUME NEW c \in Slots, Connected(c), NEW v, clients' = [clients EXCEPT ![c] = v]
      PROVE  FALSE
    <2>1. s # c
        BY <1>2 DEF Retained, Connected
    <2> QED BY <1>0, <1>2, <2>1 DEF IInv, TypeOK
<1>3. CASE Environment
    <2>1. UNCHANGED clients \/ \E c \in Slots : WriteFails(c)
        BY <1>3 DEF Environment, Connect, Send, HangUp, DoomSignal, ServerOnly, tableVars
    <2>2. ASSUME NEW c \in Slots, WriteFails(c) PROVE FALSE
        BY <1>2, <2>2 DEF WriteFails
    <2> QED BY <1>1, <2>1, <2>2
<1>4. CASE Select
    <2>1. CASE UNCHANGED clients
        BY <1>1, <2>1
    <2>2. CASE ~UNCHANGED clients
        <3>1. CanHaveSlot /\ \E v : clients' = [clients EXCEPT ![NextSlot] = v]
            BY <1>4, <2>2 DEF Select, EstablishNewConnections, NotAccepted, tableVars
        <3>2. NextSlot \in Slots /\ ~InUse(NextSlot)
            BY <3>1, NextSlotIsFree DEF IInv
        <3>3. s # NextSlot
            BY <3>2 DEF Retained
        <3> QED BY <1>0, <3>1, <3>3 DEF IInv, TypeOK
    <2> QED BY <2>1, <2>2
<1>5. CASE CheckConnections
    <2> DEFINE f == Least(BadFds)
               bad == ConnectionTranslation[f]
    <2>1. f \in Fds
        <3>1. BadFds \subseteq Fds /\ BadFds # {}
            BY <1>5 DEF BadFds, CheckConnections, IInv, TypeOK
        <3>2. BadFds \subseteq Nat
            BY <3>1 DEF Fds
        <3> QED BY <3>1, <3>2, LeastIsLeast
    <2>2. CASE bad # Nobody
        <3>1. CloseDownClient(bad)
            BY <1>5, <2>2 DEF CheckConnections
        <3>2. bad \in Slots /\ Connected(bad) /\ InUse(bad)
            BY <2>1, <2>2 DEF IInv, TypeOK, TranslationLive, Connected
        <3> HIDE DEF bad
        <3> QED BY <3>1, <3>2, CloseKeepsRetained
    <2>3. CASE bad = Nobody
        BY <1>1, <1>5, <2>3 DEF CheckConnections, tableVars
    <2> QED BY <2>2, <2>3
<1>6. CASE \/ WaitBuffered \/ WaitDoomed \/ WelcomeNew \/ NextReady
           \/ ReadRequest \/ ReadOfFreed \/ ProcOther \/ ProcGrabServer \/ ProcUngrabServer
    BY <1>1, <1>6
       DEF WaitBuffered, WaitDoomed, WelcomeNew, NextReady, ReadRequest,
           ReadOfFreed, ProcOther, ProcGrabServer, ProcUngrabServer, tableVars
<1>7. ASSUME pc \in {"exec", "close"}
      PROVE  client \in Slots /\ InUse(client) /\ Connected(client)
    BY <1>7 DEF IInv, TurnLive, Connected
<1>8. ASSUME NEW m \in Modes, ProcChangeCloseDownMode(m) PROVE FALSE
    <2>1. clients[client] \in Client /\ client \in Slots /\ Connected(client)
        BY <1>7, <1>8, ClientType DEF ProcChangeCloseDownMode, Asks, IInv
    <2>2. s # client
        BY <2>1 DEF Retained, Connected
    <2> QED BY <1>0, <1>8, <2>1, <2>2 DEF ProcChangeCloseDownMode, IInv, TypeOK
<1>9. CASE ProcKillClientSelf \/ CloseTurn
    <2>1. /\ client \in Slots /\ InUse(client) /\ Connected(client)
          /\ CloseDownClient(client)
        BY <1>7, <1>9 DEF ProcKillClientSelf, CloseTurn, Asks
    <2> QED BY <2>1, CloseKeepsRetained
<1>10. ASSUME NEW t \in Slots, ProcKillClientOther(t) PROVE MayFree(s)
    <2>1. CloseDownClient(t) /\ InUse(t) /\ pc = "exec"
        BY <1>10 DEF ProcKillClientOther, Retained, Connected, Asks
    <2> QED BY <2>1, CloseKeepsRetained
<1>11. CASE ProcKillClientTemporary
    <2>1. s \in Temporaries
        BY <1>0, <1>11 DEF ProcKillClientTemporary
    <2> QED BY <1>11, <2>1 DEF ProcKillClientTemporary, Asks, Temporaries, MayFree
<1>12. CASE EndRound
    BY <1>1, <1>12 DEF EndRound, tableVars, MayFree
<1>13. CASE KillAllClients
    BY <1>13 DEF KillAllClients, MayFree
<1>14. CASE Proc
    BY <1>6, <1>8, <1>9, <1>10, <1>11, <1>14 DEF Proc
<1> QED BY <1>3, <1>4, <1>5, <1>6, <1>9, <1>12, <1>13, <1>14 DEF Next, ServerStep

\* What a client retained outlives every step but the end of the generation
\* and the KillClient that asks for it: no close, lost connection, new client
\* or close down mode frees it, and the index it is kept under is not reused.
THEOREM RetainedAreKept == Spec => RetainedIsKept
<1>1. IInv /\ [Next]_vars =>
        [\A s \in Slots : Retained(s) /\ ~Retained(s)' =>
           \/ /\ pc = "exec"
              /\ \/ clients[s].mode = "RetainTemporary"
                 \/ \A t \in Slots \ {s} : clients'[t] = clients[t]
           \/ pc = "killall"
           \/ pc = "serve" /\ (nClients = -1 \/ clientsDoomed)]_vars
    <2> SUFFICES ASSUME IInv, Next, NEW s \in Slots, Retained(s), ~Retained(s)'
                 PROVE  MayFree(s)
        BY DEF MayFree
    <2> QED BY RetainedNext
<1> QED BY <1>1, Invariance, PTL DEF Spec, RetainedIsKept
=============================================================================
