------------------------------ MODULE Dispatch ------------------------------
(***************************************************************************)
(* The server's scheduler: the main loop of dix (Dispatch, dispatch.c), the *)
(* connection table and select masks of the 4.2bsd os layer (WaitFor.c,     *)
(* io.c, connection.c) and what the two share: the server grab, the close   *)
(* down modes of a client, KillClient and the end of a server generation.   *)
(*                                                                          *)
(* The server is one thread.  Its peers are not: between any two steps of   *)
(* the server a client may connect, send part of a request or hang up, and  *)
(* a signal may doom the generation.                                        *)
(*                                                                          *)
(* Abstractions.  A request is two units long (its header and its body), so *)
(* that reads split requests; what a request asks is decided when it is     *)
(* executed.  The mask AllSockets equals AllClients on client descriptors   *)
(* (every statement that changes one changes the other), so one variable    *)
(* stands for both; listening sockets and input devices stay in AllSockets  *)
(* for ever and are left out.  There is one listening socket.  Output       *)
(* appears as its one effect on this machine: a write to a peer that has    *)
(* hung up (WriteFails); module Output has the rest.                        *)
(*                                                                          *)
(* KillClient may free a client that has a turn to come in the round.  What  *)
(* the server does when it then reads the freed record is undefined: the     *)
(* machine goes to "undefined" and nothing is said of it from there on.      *)
(***************************************************************************)
EXTENDS Integers, FiniteSets

CONSTANTS
    LastFd,             \* client descriptors are 1..LastFd (lastfdesc)
    MAXCLIENTS,         \* client indices are 1..MAXCLIENTS-1
    InitialMaxClients,  \* size of clients[] when a generation starts (10)
    MAX_TIMES_PER,      \* requests one client may have served per turn
    BufSize,            \* units that fit an input buffer
    MaxWire,            \* bound: units in flight on a connection
    MaxBacklog,         \* bound: connections waiting to be accepted
    Requests,           \* kinds of request the clients send
    WriteErrors,        \* TRUE: a write to a dead peer can be met
    Signals             \* TRUE: SIGHUP can arrive

RequestKinds == {"work", "bad", "grab", "mode",
                 "killSelf", "killGone", "killOther", "killTemporary"}

ASSUME DispatchAssumption ==
    /\ LastFd \in Nat \ {0}
    /\ MAXCLIENTS \in Nat /\ InitialMaxClients \in 2..MAXCLIENTS
    /\ MAX_TIMES_PER \in Nat \ {0}
    /\ BufSize \in Nat /\ BufSize >= 2
    /\ MaxWire \in Nat \ {0} /\ MaxBacklog \in Nat \ {0}
    /\ Requests \subseteq RequestKinds
    /\ WriteErrors \in BOOLEAN /\ Signals \in BOOLEAN

Fds     == 1..LastFd
Slots   == 1..(MAXCLIENTS - 1)
Nobody  == 0                              \* NullClient
Modes   == {"DestroyAll", "RetainPermanent", "RetainTemporary"}

\* The fields of a ClientRec, and of its OsCommRec, the scheduler looks at.
\* exc is noClientException # Success.
Client  == [fd : Fds, mode : Modes, gone : BOOLEAN, exc : BOOLEAN]
NullClient == [fd |-> Nobody]

VARIABLES
    backlog,    \* connections the kernel holds for accept()
    isOpen,     \* per descriptor: open in the server process
    hungUp,     \* per descriptor: the peer has closed its end
    wire,       \* per descriptor: units sent and not yet read
    buf,        \* per descriptor: units in inputBuffers[fd], unserved
    AllClients, SavedAllClients,
    ClientsWithInput, SavedClientsWithInput,
    GrabDone,
    ConnectionTranslation,                 \* fd -> client index or Nobody
    clients,                               \* client index -> ClientRec
    nextFreeClientID, currentMaxClients, nClients,
    grabbingClient, onlyClient,
    clientsDoomed,
    pc,         \* where Dispatch is
    ready,      \* clientReady[]: the translation of each ready descriptor
    newClient,  \* the connection WaitForSomething made, or Nobody
    client,     \* the client whose turn it is, or Nobody
    isItTimeToYield, timesThisConnection

kernelVars == <<backlog, isOpen, hungUp, wire>>
maskVars   == <<AllClients, SavedAllClients, ClientsWithInput,
                SavedClientsWithInput, GrabDone>>
grabVars   == <<grabbingClient, onlyClient>>
tableVars  == <<clients, nextFreeClientID, currentMaxClients, nClients,
                ConnectionTranslation>>
turnVars   == <<client, isItTimeToYield, timesThisConnection>>
loopVars   == <<pc, ready, newClient, turnVars, clientsDoomed>>
vars       == <<kernelVars, buf, maskVars, grabVars, tableVars, loopVars>>

\* "wait": WaitForSomething is called; "select": it is in its inner loop, which
\* does not look at ClientsWithInput again.
Steps == {"wait", "select", "new", "serve", "read", "exec", "close", "killall",
          "undefined"}

TypeOK ==
    /\ backlog \in 0..MaxBacklog
    /\ isOpen \in [Fds -> BOOLEAN] /\ hungUp \in [Fds -> BOOLEAN]
    /\ wire \in [Fds -> 0..MaxWire] /\ buf \in [Fds -> 0..BufSize]
    /\ AllClients \subseteq Fds /\ SavedAllClients \subseteq Fds
    /\ ClientsWithInput \subseteq Fds /\ SavedClientsWithInput \subseteq Fds
    /\ GrabDone \in BOOLEAN /\ grabbingClient \in BOOLEAN
    /\ onlyClient \in Slots \cup {Nobody}
    /\ ConnectionTranslation \in [Fds -> Slots \cup {Nobody}]
    /\ clients \in [Slots -> Client \cup {NullClient}]
    /\ currentMaxClients \in 2..MAXCLIENTS
    /\ nextFreeClientID \in 1..(currentMaxClients - 1)
    /\ nClients \in Int
    /\ clientsDoomed \in BOOLEAN
    /\ pc \in Steps
    /\ ready \in UNION {[D -> Slots \cup {Nobody}] : D \in SUBSET Fds}
    /\ newClient \in Slots \cup {Nobody}
    /\ client \in 0..MAXCLIENTS
    /\ isItTimeToYield \in BOOLEAN
    /\ timesThisConnection \in 0..(MAX_TIMES_PER - 1)

-----------------------------------------------------------------------------
InUse(s)     == clients[s] # NullClient
Connected(s) == InUse(s) /\ ~clients[s].gone
Retained(s)  == InUse(s) /\ clients[s].gone

Least(S)    == CHOOSE x \in S : \A y \in S : x <= y
Greatest(S) == CHOOSE x \in S : \A y \in S : y <= x

NoneReady == [f \in {} |-> Nobody]

Init ==
    /\ backlog = 0
    /\ isOpen = [f \in Fds |-> FALSE] /\ hungUp = [f \in Fds |-> FALSE]
    /\ wire = [f \in Fds |-> 0] /\ buf = [f \in Fds |-> 0]
    /\ AllClients = {} /\ SavedAllClients = {}
    /\ ClientsWithInput = {} /\ SavedClientsWithInput = {}
    /\ GrabDone = FALSE /\ grabbingClient = FALSE /\ onlyClient = Nobody
    /\ ConnectionTranslation = [f \in Fds |-> Nobody]
    /\ clients = [s \in Slots |-> NullClient]
    /\ nextFreeClientID = 1 /\ currentMaxClients = InitialMaxClients
    /\ nClients = 0
    /\ clientsDoomed = FALSE
    /\ pc = "wait" /\ ready = NoneReady /\ newClient = Nobody
    /\ client = Nobody
    /\ isItTimeToYield = TRUE /\ timesThisConnection = 0

-----------------------------------------------------------------------------
(* The peers and the signals.                                              *)

ServerOnly == UNCHANGED <<buf, maskVars, grabVars, tableVars, loopVars>>

Connect ==
    /\ backlog < MaxBacklog
    /\ backlog' = backlog + 1
    /\ UNCHANGED <<isOpen, hungUp, wire>> /\ ServerOnly

Send(f) ==
    /\ isOpen[f] /\ ~hungUp[f] /\ wire[f] < MaxWire
    /\ wire' = [wire EXCEPT ![f] = @ + 1]
    /\ UNCHANGED <<backlog, isOpen, hungUp>> /\ ServerOnly

HangUp(f) ==
    /\ isOpen[f] /\ ~hungUp[f]
    /\ hungUp' = [hungUp EXCEPT ![f] = TRUE]
    /\ UNCHANGED <<backlog, isOpen, wire>> /\ ServerOnly

\* AutoResetServer, the handler of SIGHUP.  (GiveUp, that of SIGINT and SIGTERM,
\* kills all clients where it finds the server and ends the process.)
DoomSignal ==
    /\ Signals /\ ~clientsDoomed /\ pc # "killall"
    /\ clientsDoomed' = TRUE
    /\ UNCHANGED <<kernelVars, buf, maskVars, grabVars, tableVars, pc, ready,
                   newClient, turnVars>>

-----------------------------------------------------------------------------
(* Server grabs.                                                           *)

OnlyListenToKeepingInput(f) ==   \* mutant: CLEARBITS(ClientsWithInput) lost
    IF GrabDone
    THEN UNCHANGED maskVars
    ELSE /\ SavedClientsWithInput' = ClientsWithInput \ {f}
         /\ SavedAllClients' = AllClients
         /\ AllClients' = {f}
         /\ GrabDone' = TRUE
         /\ UNCHANGED ClientsWithInput
OnlyListenToSavingNothing(f) ==  \* mutant: COPYBITS of ClientsWithInput lost
    IF GrabDone
    THEN UNCHANGED maskVars
    ELSE /\ ClientsWithInput' = ClientsWithInput \cap {f}
         /\ SavedAllClients' = AllClients
         /\ AllClients' = {f}
         /\ GrabDone' = TRUE
         /\ UNCHANGED SavedClientsWithInput

\* OnlyListenToOneClient: does nothing when a grab is already in force.
OnlyListenTo(f) ==
    IF GrabDone
    THEN UNCHANGED maskVars
    ELSE /\ SavedClientsWithInput' = ClientsWithInput \ {f}
         /\ ClientsWithInput' = ClientsWithInput \cap {f}
         /\ SavedAllClients' = AllClients
         /\ AllClients' = {f}
         /\ GrabDone' = TRUE

\* What ListenToAllClients leaves in the two live masks.
ListenedTo == IF GrabDone THEN AllClients \cup SavedAllClients ELSE AllClients
Buffered   == IF GrabDone THEN ClientsWithInput \cup SavedClientsWithInput
                          ELSE ClientsWithInput

ListenToAllClients ==
    /\ AllClients' = ListenedTo /\ ClientsWithInput' = Buffered
    /\ GrabDone' = FALSE
    /\ UNCHANGED <<SavedAllClients, SavedClientsWithInput>>

-----------------------------------------------------------------------------
(* Closing a client.                                                       *)

\* The kernel's close(): what the peer sent is lost.
CloseDescriptor(f) ==
    /\ isOpen' = [isOpen EXCEPT ![f] = FALSE]
    /\ hungUp' = [hungUp EXCEPT ![f] = FALSE]
    /\ wire' = [wire EXCEPT ![f] = 0]

HoldsGrab(s) == grabbingClient /\ onlyClient = s

\* The first statement of CloseDownClient, with nothing to close after it.
UngrabFor(s) ==
    IF HoldsGrab(s)
    THEN grabbingClient' = FALSE /\ ListenToAllClients
    ELSE UNCHANGED <<grabbingClient, maskVars>>

\* The masks CloseDownClient leaves: the server grab is released first, the
\* descriptor then taken out of the live masks by CloseDownFileDescriptor.
UngrabAndDrop(s, f) ==
    /\ GrabDone' = (GrabDone /\ ~HoldsGrab(s))
    /\ grabbingClient' = (grabbingClient /\ ~HoldsGrab(s))
    /\ AllClients' =
         (IF HoldsGrab(s) THEN ListenedTo ELSE AllClients) \ {f}
    /\ ClientsWithInput' =
         (IF HoldsGrab(s) THEN Buffered ELSE ClientsWithInput) \ {f}
    /\ UNCHANGED <<SavedAllClients, SavedClientsWithInput>>

CloseDownConnectionStale(f) ==   \* mutant: ConnectionTranslation not cleared
    /\ CloseDescriptor(f)
    /\ buf' = [buf EXCEPT ![f] = 0]
    /\ UNCHANGED <<backlog, ConnectionTranslation>>

\* CloseDownConnection, with the masks of UngrabAndDrop.
CloseDownConnection(f) ==
    /\ ConnectionTranslation' = [ConnectionTranslation EXCEPT ![f] = Nobody]
    /\ CloseDescriptor(f)
    /\ buf' = [buf EXCEPT ![f] = 0]
    /\ UNCHANGED backlog

FreeSlot(s) ==
    /\ clients' = [clients EXCEPT ![s] = NullClient]
    /\ nextFreeClientID' = s

\* nClients when a client that destroys its resources is closed.
OneFewerTooEarly == IF nClients <= 2 THEN -1 ELSE nClients - 1   \* mutant
OneFewer == IF nClients = 1 THEN -1 ELSE nClients - 1

CloseDownClient(s) ==
    /\ \/ /\ Connected(s)
          /\ UngrabAndDrop(s, clients[s].fd)
          /\ CloseDownConnection(clients[s].fd)
          /\ \/ /\ clients[s].mode = "DestroyAll"
                /\ FreeSlot(s)
                /\ nClients' = OneFewer
             \/ /\ clients[s].mode # "DestroyAll"
                /\ clients' = [clients EXCEPT ![s].gone = TRUE]
                /\ nClients' = nClients - 1
                /\ UNCHANGED nextFreeClientID
       \/ /\ Retained(s)
          /\ UngrabFor(s)
          /\ FreeSlot(s)
          /\ UNCHANGED <<kernelVars, buf, ConnectionTranslation, nClients>>
    /\ UNCHANGED <<onlyClient, currentMaxClients>>

-----------------------------------------------------------------------------
(* New connections.                                                        *)

\* NextAvailableClient: the first free index from nextFreeClientID on, round
\* clients[]; when there is none clients[] grows, up to MAXCLIENTS.
FreeSlotsNotRetained ==          \* mutant: a retained client's index is free
    {s \in 1..(currentMaxClients - 1) : ~Connected(s)}
FreeSlots == {s \in 1..(currentMaxClients - 1) : ~InUse(s)}
CanHaveSlot == FreeSlots # {} \/ currentMaxClients < MAXCLIENTS
NextSlot ==
    LET onward == {s \in FreeSlots : nextFreeClientID <= s} IN
    IF FreeSlots = {} THEN currentMaxClients
    ELSE IF onward # {} THEN Least(onward) ELSE Least(FreeSlots)
GrownMaxAlways == currentMaxClients + 1   \* mutant: clients[] always grows
GrownMax == IF FreeSlots # {} THEN currentMaxClients ELSE currentMaxClients + 1

ListenForNewMisplaced(f) ==      \* mutant: the test of GrabDone inverted
    /\ IF GrabDone
       THEN /\ AllClients' = AllClients \cup {f}
            /\ UNCHANGED SavedAllClients
       ELSE /\ SavedAllClients' = SavedAllClients \cup {f}
            /\ UNCHANGED AllClients
    /\ UNCHANGED <<ClientsWithInput, SavedClientsWithInput, GrabDone>>

\* The masks of a connection just accepted, also when it is then turned away
\* because every client index is taken.
ListenForNew(f) ==
    /\ IF GrabDone
       THEN /\ SavedAllClients' = SavedAllClients \cup {f}
            /\ UNCHANGED AllClients
       ELSE /\ AllClients' = AllClients \cup {f}
            /\ UNCHANGED SavedAllClients
    /\ UNCHANGED <<ClientsWithInput, SavedClientsWithInput, GrabDone>>

NotAccepted ==
    /\ newClient' = Nobody
    /\ UNCHANGED <<isOpen, tableVars>>

\* The kernel gives accept() the lowest free descriptor.
ClosedFds == {f \in Fds : ~isOpen[f]}

EstablishNewConnections ==
    \/ /\ backlog = 0
       /\ NotAccepted /\ UNCHANGED <<backlog, maskVars>>
    \/ /\ backlog > 0 /\ backlog' = backlog - 1
       /\ \/ NotAccepted /\ UNCHANGED maskVars       \* ~ClientAuthorized
          \/ /\ ClosedFds = {}                       \* newconn >= lastfdesc
             /\ NotAccepted /\ UNCHANGED maskVars
          \/ /\ ClosedFds # {} /\ ~CanHaveSlot
             /\ ListenForNew(Least(ClosedFds)) /\ NotAccepted
          \/ /\ ClosedFds # {} /\ CanHaveSlot
             /\ LET f == Least(ClosedFds) IN
                /\ ListenForNew(f)
                /\ isOpen' = [isOpen EXCEPT ![f] = TRUE]
                /\ newClient' = NextSlot
                /\ ConnectionTranslation' =
                     [ConnectionTranslation EXCEPT ![f] = NextSlot]
                /\ clients' = [clients EXCEPT ![NextSlot] =
                     [fd |-> f, mode |-> "DestroyAll",
                      gone |-> FALSE, exc |-> FALSE]]
                /\ currentMaxClients' = GrownMax
                /\ nextFreeClientID' =
                     IF NextSlot + 1 = GrownMax THEN 1 ELSE NextSlot + 1
                /\ UNCHANGED nClients

-----------------------------------------------------------------------------
(* WaitForSomething.                                                       *)

Translate(F) == [f \in F |-> ConnectionTranslation[f]]

\* Buffered requests are served before select() is called again.
WaitBuffered ==
    /\ pc = "wait" /\ ClientsWithInput # {}
    /\ ready' = Translate(ClientsWithInput)
    /\ pc' = "serve"
    /\ UNCHANGED <<kernelVars, buf, maskVars, grabVars, tableVars, newClient,
                   turnVars, clientsDoomed>>

BadFds == {f \in AllClients : ~isOpen[f]}

Selecting == pc = "select" \/ (pc = "wait" /\ ClientsWithInput = {})

\* select() fails with EBADF.  CheckConnections closes every bad descriptor,
\* one of them per step here; WaitForSomething returns if no client is left.
CheckConnections ==
    /\ Selecting /\ BadFds # {}
    /\ LET f == Least(BadFds)
           bad == ConnectionTranslation[f] IN
       IF bad # Nobody
       THEN CloseDownClient(bad)
       ELSE /\ AllClients' = AllClients \ {f}
            /\ buf' = [buf EXCEPT ![f] = 0]
            /\ UNCHANGED <<kernelVars, SavedAllClients, ClientsWithInput,
                           SavedClientsWithInput, GrabDone, grabVars,
                           tableVars>>
    /\ pc' = IF AllClients' = {} THEN "serve" ELSE "select"
    /\ UNCHANGED <<ready, newClient, turnVars, clientsDoomed>>

Readable == {f \in AllClients : wire[f] > 0 \/ hungUp[f]}

Select ==
    /\ Selecting /\ BadFds = {}
    /\ backlog > 0 \/ Readable # {}
    /\ EstablishNewConnections
    /\ ready' = [f \in Readable |-> ConnectionTranslation'[f]]
    /\ pc' = IF newClient' # Nobody THEN "new"
             ELSE IF Readable # {} THEN "serve" ELSE "select"
    /\ UNCHANGED <<hungUp, wire, buf, grabVars, turnVars, clientsDoomed>>

\* The forced timeout of AutoResetServer.
WaitDoomed ==
    /\ Selecting /\ clientsDoomed
    /\ pc' = "serve"
    /\ UNCHANGED <<kernelVars, buf, maskVars, grabVars, tableVars, ready,
                   newClient, turnVars, clientsDoomed>>

-----------------------------------------------------------------------------
(* Dispatch.                                                               *)

\* InitClientResources, SendConnectionSetupInfo, nClients++.
WelcomeNew ==
    /\ pc = "new"
    /\ nClients' = nClients + 1
    /\ newClient' = Nobody /\ pc' = "serve"
    /\ UNCHANGED <<kernelVars, buf, maskVars, grabVars, clients,
                   nextFreeClientID, currentMaxClients, ConnectionTranslation,
                   ready, turnVars, clientsDoomed>>

\* "GrabServer activation can cause this to be true"
ShutOutNobody(c) == FALSE        \* mutant: the test is dropped
ShutOut(c) == grabbingClient /\ c # onlyClient

\* The last of clientReady[]: skipped when NULL; the round is over when it
\* is not the client that holds the server grab.
NextReady ==
    /\ pc = "serve" /\ DOMAIN ready # {}
    /\ LET f == Greatest(DOMAIN ready)
           c == ready[f]
           rest == [g \in DOMAIN ready \ {f} |-> ready[g]] IN
       \/ /\ c = Nobody
          /\ ready' = rest
          /\ UNCHANGED <<pc, client, isItTimeToYield>>
       \/ /\ c # Nobody /\ ShutOut(c)
          /\ ready' = NoneReady
          /\ UNCHANGED <<pc, client, isItTimeToYield>>
       \/ /\ c # Nobody /\ ~ShutOut(c)
          /\ ready' = rest
          /\ client' = c /\ isItTimeToYield' = FALSE
          /\ pc' = "read"
    /\ UNCHANGED <<kernelVars, buf, maskVars, grabVars, tableVars, newClient,
                   timesThisConnection, clientsDoomed>>

Smaller(x, y) == IF x < y THEN x ELSE y

\* YieldControlNoInput
YieldNoInput(f) ==
    /\ isItTimeToYield' = TRUE /\ timesThisConnection' = 0
    /\ ClientsWithInput' = ClientsWithInput \ {f}

\* ReadRequestFromClient: reads when no full request is buffered.  (No request
\* is too long for it: a length of 16 bits stays below MAXBUFSIZE.)
ReadRequest ==
    /\ pc = "read" /\ Connected(client)
    /\ LET f    == clients[client].fd
           got  == IF buf[f] < 2 THEN Smaller(wire[f], BufSize - buf[f]) ELSE 0
           have == buf[f] + got
           left == IF have < 2 THEN have ELSE have - 2 IN
       /\ wire' = [wire EXCEPT ![f] = @ - got]
       /\ buf' = [buf EXCEPT ![f] = left]
       /\ \/ /\ have < 2 /\ (hungUp[f] \/ ~isOpen[f])    \* status < 0
             /\ YieldNoInput(f)
             /\ pc' = "close" /\ UNCHANGED client
          \/ /\ have < 2 /\ isOpen[f] /\ ~hungUp[f]      \* status = 0
             /\ YieldNoInput(f)
             /\ pc' = "serve" /\ client' = Nobody
          \/ /\ have >= 2 /\ left < 2
             /\ YieldNoInput(f)
             /\ pc' = "exec" /\ UNCHANGED client
          \/ /\ have >= 2 /\ left >= 2
             /\ ClientsWithInput' = ClientsWithInput \cup {f}
             /\ IF timesThisConnection + 1 = MAX_TIMES_PER
                THEN isItTimeToYield' = TRUE /\ timesThisConnection' = 0
                ELSE /\ timesThisConnection' = timesThisConnection + 1
                     /\ UNCHANGED isItTimeToYield
             /\ pc' = "exec" /\ UNCHANGED client
    /\ UNCHANGED <<backlog, isOpen, hungUp, AllClients, SavedAllClients,
                   SavedClientsWithInput, GrabDone, grabVars, tableVars,
                   ready, newClient, clientsDoomed>>

\* A request procedure returns noClientException.
Return ==
    /\ pc' = IF clients[client].exc THEN "close"
             ELSE IF isItTimeToYield THEN "serve" ELSE "read"
    /\ client' = IF pc' = "serve" THEN Nobody ELSE client
    /\ UNCHANGED <<isItTimeToYield, timesThisConnection>>

\* A request procedure returns an error code; Oops tells the client.
Fail ==
    /\ pc' = IF clients[client].exc THEN "close" ELSE "serve"
    /\ client' = IF pc' = "serve" THEN Nobody ELSE client
    /\ UNCHANGED <<isItTimeToYield, timesThisConnection>>

Asks(kind) == pc = "exec" /\ kind \in Requests
Untouched  == UNCHANGED <<ready, newClient, clientsDoomed>>
TheOS      == UNCHANGED <<kernelVars, buf>>

\* Any request that changes nothing here, well formed or in error.
ProcOther ==
    /\ \/ Asks("work") /\ Return
       \/ Asks("bad") /\ Fail
    /\ UNCHANGED <<maskVars, grabVars, tableVars>> /\ TheOS /\ Untouched

ProcGrabServer ==
    /\ Asks("grab")
    /\ OnlyListenTo(clients[client].fd)
    /\ grabbingClient' = TRUE /\ onlyClient' = client
    /\ Return
    /\ UNCHANGED tableVars /\ TheOS /\ Untouched

ProcUngrabServer ==
    /\ Asks("grab")
    /\ grabbingClient' = FALSE /\ UNCHANGED onlyClient
    /\ IF GrabDone THEN ListenToAllClients ELSE UNCHANGED maskVars
    /\ Return
    /\ UNCHANGED tableVars /\ TheOS /\ Untouched

ProcChangeCloseDownMode(m) ==
    /\ Asks("mode")
    /\ clients' = [clients EXCEPT ![client].mode = m]
    /\ Return
    /\ UNCHANGED <<maskVars, grabVars, nextFreeClientID, currentMaxClients,
                   nClients, ConnectionTranslation>>
    /\ TheOS /\ Untouched

\* "force yield and return Success, so that Dispatch() doesn't try to touch
\* client"
ForgetToYield == UNCHANGED isItTimeToYield                \* mutant
ForceYield    == isItTimeToYield' = TRUE

\* KillClient of a resource of the requesting client.
ProcKillClientSelf ==
    /\ Asks("killSelf")
    /\ CloseDownClient(client)
    /\ ForceYield
    /\ pc' = IF isItTimeToYield' THEN "serve" ELSE "read"
    /\ client' = IF isItTimeToYield' THEN Nobody ELSE client
    /\ UNCHANGED timesThisConnection /\ Untouched

\* A client other than the requesting one: what an earlier connection
\* retained, or a connection.
ProcKillClientOther(t) ==
    /\ t # client
    /\ \/ Asks("killGone") /\ Retained(t)
       \/ Asks("killOther") /\ Connected(t)
    /\ CloseDownClient(t)
    /\ Return
    /\ Untouched

Temporaries == {s \in Slots : Retained(s) /\ clients[s].mode = "RetainTemporary"}

\* KillClient(AllTemporary): CloseDownRetainedResources
ProcKillClientTemporary ==
    /\ Asks("killTemporary")
    /\ clients' = [s \in Slots |->
                     IF s \in Temporaries THEN NullClient ELSE clients[s]]
    /\ nextFreeClientID' = IF Temporaries = {} THEN nextFreeClientID
                           ELSE Greatest(Temporaries)
    /\ Return
    /\ UNCHANGED <<maskVars, grabVars, currentMaxClients, nClients,
                   ConnectionTranslation>>
    /\ TheOS /\ Untouched

\* ReadRequestFromClient for a client that was closed since the round began
ReadOfFreed ==
    /\ \/ pc = "read" /\ ~Connected(client)
       \/ pc = "undefined"
    /\ pc' = "undefined"
    /\ UNCHANGED <<kernelVars, buf, maskVars, grabVars, tableVars, ready,
                   newClient, turnVars, clientsDoomed>>

\* The read failed or noClientException is set.
CloseTurn ==
    /\ pc = "close" /\ InUse(client)
    /\ CloseDownClient(client)
    /\ pc' = "serve" /\ client' = Nobody
    /\ UNCHANGED <<isItTimeToYield, timesThisConnection>> /\ Untouched

\* A write finds the peer gone: FlushClient closes the descriptor and leaves
\* the rest to CheckConnections or to the client's next request.
WriteFails(s) ==
    /\ WriteErrors /\ pc # "read"
    /\ Connected(s)
    /\ LET f == clients[s].fd IN
       /\ isOpen[f] /\ hungUp[f]
       /\ CloseDescriptor(f)
    /\ clients' = [clients EXCEPT ![s].exc = TRUE]
    /\ UNCHANGED <<backlog, buf, maskVars, grabVars, nextFreeClientID,
                   currentMaxClients, nClients, ConnectionTranslation,
                   loopVars>>

-----------------------------------------------------------------------------
(* The end of a round and of a server generation.                          *)

\* What main and Dispatch set up again; masks and grab are left as they are.
NewGeneration ==
    /\ clients' = [s \in Slots |-> NullClient]
    /\ nextFreeClientID' = 1 /\ currentMaxClients' = InitialMaxClients
    /\ nClients' = 0 /\ clientsDoomed' = FALSE
    /\ client' = Nobody /\ pc' = "wait"
    /\ UNCHANGED <<kernelVars, buf, maskVars, grabVars, ConnectionTranslation>>

EndRound ==
    /\ pc = "serve" /\ DOMAIN ready = {}
    /\ \/ /\ clientsDoomed                       \* on to KillAllClients
          /\ pc' = "killall" /\ client' = 1
          /\ UNCHANGED <<kernelVars, buf, maskVars, grabVars, tableVars,
                         clientsDoomed>>
       \/ /\ ~clientsDoomed /\ nClients = -1
          /\ NewGeneration
       \/ /\ ~clientsDoomed /\ nClients # -1
          /\ pc' = "wait"
          /\ UNCHANGED <<kernelVars, buf, maskVars, grabVars, tableVars,
                         client, clientsDoomed>>
    /\ UNCHANGED <<ready, newClient, isItTimeToYield, timesThisConnection>>

\* One index of KillAllClients; client is its loop variable.
KillAllClients ==
    /\ pc = "killall"
    /\ \/ /\ client < currentMaxClients
          /\ IF InUse(client)
             THEN CloseDownClient(client)
             ELSE UNCHANGED <<kernelVars, buf, maskVars, grabVars, tableVars>>
          /\ client' = client + 1
          /\ UNCHANGED <<pc, clientsDoomed>>
       \/ /\ client = currentMaxClients
          /\ NewGeneration
    /\ UNCHANGED <<ready, newClient, isItTimeToYield, timesThisConnection>>

-----------------------------------------------------------------------------
Proc ==
    \/ ProcOther \/ ProcGrabServer \/ ProcUngrabServer
    \/ \E m \in Modes : ProcChangeCloseDownMode(m)
    \/ ProcKillClientSelf \/ \E t \in Slots : ProcKillClientOther(t)
    \/ ProcKillClientTemporary

ServerStep ==
    \/ WaitBuffered \/ CheckConnections \/ Select \/ WaitDoomed
    \/ WelcomeNew \/ NextReady \/ ReadRequest \/ ReadOfFreed
    \/ Proc \/ CloseTurn \/ EndRound \/ KillAllClients

Environment ==
    \/ Connect \/ DoomSignal
    \/ \E f \in Fds : Send(f) \/ HangUp(f)
    \/ \E s \in Slots : WriteFails(s)

Next == ServerStep \/ Environment

Spec == Init /\ [][Next]_vars

\* The server never stops running; its peers owe it nothing.
FairSpec == Spec /\ WF_vars(ServerStep)

-----------------------------------------------------------------------------
(* Properties.                                                             *)

\* A request is executed for nobody but the holder of the server grab
\* (ProcGrabServer, and the break in Dispatch's round).
GrabExcludesOthers ==
    pc \in {"read", "exec"} /\ grabbingClient => client = onlyClient

\* dix and the os layer agree on the server grab: one is set exactly when
\* the other is, its holder is connected, and select() and the buffered
\* input of a round are confined to the holder's descriptor.
GrabConfinesInput ==
    /\ grabbingClient <=> GrabDone
    /\ grabbingClient =>
         /\ Connected(onlyClient)
         /\ AllClients = {clients[onlyClient].fd}
         /\ ClientsWithInput \subseteq AllClients

\* No connected client is ever lost by select(): its descriptor is in the
\* mask, or in the one saved for the end of the server grab.
NobodyForgotten ==
    \A s \in Slots : Connected(s) => clients[s].fd \in ListenedTo

\* Descriptors and clients are in bijection: an open connection translates
\* to the client that holds it, and that client writes to no other.
OneClientPerDescriptor ==
    \A f \in Fds, s \in Slots :
        ConnectionTranslation[f] = s <=> Connected(s) /\ clients[s].fd = f

\* A full request left in a buffer is always announced in the input mask
\* (or in the one saved): select() would never tell of it.
NoStrandedRequest ==
    pc \in {"wait", "select"} => \A f \in Fds : buf[f] >= 2 => f \in Buffered

\* nClients counts the connections, the one being welcomed apart; -1 says
\* the last one was closed and the generation ends.
ConnectionsCounted ==
    LET n == Cardinality({s \in Slots : Connected(s) /\ s # newClient}) IN
    pc # "killall" =>
        \/ nClients = n
        \/ /\ nClients = -1 /\ n = 0
           /\ pc \in {"serve", "read", "undefined"} \/ BadFds # {}

\* Of the clients that have a turn to come, or go on with theirs, nobody is
\* closed but by the KillClient of another (for which the comment in Dispatch
\* promises a NULL in clientReady[] that no code writes).
HasTurn(s) == (\E f \in DOMAIN ready : ready[f] = s) \/ (pc = "read" /\ client = s)
RoundIsLive ==
    [][\A s \in Slots :
        (Connected(s) \/ ~HasTurn(s)) /\ ~Connected(s)' /\ HasTurn(s)'
            => pc = "exec" /\ client # s /\ Connected(s)]_vars

\* A connection is never dropped by the end of a generation that was not
\* asked for by a signal.
GenerationEndsEmpty ==
    [][pc = "serve" /\ clients # clients' /\ pc' = "wait"
         => \A s \in Slots : ~Connected(s)]_vars

\* What a client retained survives until the end of the generation, or a
\* KillClient that names it or, if it is temporary, all such: closing another
\* client, losing one or connecting one never frees it.
RetainedIsKept ==
    [][\A s \in Slots : Retained(s) /\ ~Retained(s)' =>
         \/ /\ pc = "exec"
            /\ \/ clients[s].mode = "RetainTemporary"
               \/ \A t \in Slots \ {s} : clients'[t] = clients[t]
         \/ pc = "killall"
         \/ pc = "serve" /\ (nClients = -1 \/ clientsDoomed)]_vars

\* When server grabs end, a client whose whole request has arrived has it
\* executed, unless it leaves: nobody is starved by busier clients.
EveryRequestServed ==
    <>[]~grabbingClient =>
        \A s \in Slots :
            Connected(s) /\ wire[clients[s].fd] + buf[clients[s].fd] >= 2
              ~> ~Connected(s) \/ (pc = "exec" /\ client = s)
=============================================================================
