------------------------------- MODULE Output -------------------------------
(***************************************************************************)
(* Output to clients: the buffer of each connection and the masks that say  *)
(* what is still to be written (io.c), the select() that waits for blocked  *)
(* writers (WaitFor.c), and the places of the main loop that flush           *)
(* (dispatch.c).                                                            *)
(*                                                                          *)
(* Abstractions.  Output is counted in units; a unit is numbered from the   *)
(* one its reader takes next, so that a lost, repeated or reordered one     *)
(* shows.  Padding is part of a unit.  A round of requests is any sequence  *)
(* of writes to any client, and of reads that leave the client of the turn  *)
(* with or without a full request (module Dispatch has the requests).  What *)
(* the kernel takes in one writev() loop is what fits when it starts.       *)
(***************************************************************************)
EXTENDS Integers, Sequences, FiniteSetsExt

CONSTANTS
    LastFd,             \* client descriptors are 1..LastFd
    Indices,            \* client indices
    OutputBufferSize,   \* units a fresh output buffer holds
    SockSize,           \* units the kernel holds for a reader
    Sizes,              \* sizes of a write
    MaxUnread,          \* bound: units written to a client and not read
    MaxBacklog,         \* bound: connections waiting to be accepted
    MemoryFails,        \* TRUE: xrealloc may return NULL
    EmptyWriteFails,    \* TRUE: writev() of nothing is EINVAL, not 0
    Grabs               \* TRUE: clients grab the server

ASSUME OutputAssumption ==
    /\ LastFd \in Nat \ {0} /\ Indices \subseteq Nat \ {0} /\ Indices # {}
    /\ OutputBufferSize \in Nat \ {0}        \* "must be > 0", connection.c
    /\ SockSize \in Nat \ {0} /\ Sizes \subseteq Nat \ {0} /\ Sizes # {}
    /\ MaxUnread \in Nat \ {0} /\ MaxBacklog \in Nat \ {0}
    /\ {MemoryFails, EmptyWriteFails, Grabs} \subseteq BOOLEAN

Fds    == 1..LastFd
Nobody == 0

VARIABLES
    backlog,    \* connections the kernel holds for accept()
    isOpen,     \* per descriptor: open in the server process
    hungUp,     \* per descriptor: the peer has closed its end
    sock,       \* per descriptor: units in the kernel
    unread,     \* per descriptor: units written to it and not yet read
    buf,        \* per descriptor: OsCommRec.buf, its first count units
    bufsize,    \* per descriptor: OsCommRec.bufsize
    index,      \* per descriptor: the index of its client, or Nobody
    full,       \* descriptors with a full request in their input buffer
    holder,     \* the descriptor of the client that grabs the server
    OutputPending, NewOutputPending, CriticalOutputPending,
    ClientsWriteBlocked, AnyClientsWriteBlocked,
    pc,         \* where Dispatch is
    ready,      \* the descriptors of clientReady[]
    client      \* the descriptor of the turn, or of the newcomer, or Nobody

connVars  == <<isOpen, hungUp, sock, buf, bufsize,
               ClientsWriteBlocked, AnyClientsWriteBlocked>>
pendVars  == <<OutputPending, NewOutputPending, CriticalOutputPending>>
tableVars == <<backlog, index, full, holder>>
loopVars  == <<pc, ready, client>>
vars      == <<connVars, unread, pendVars, tableVars, loopVars>>

Units == Seq(1..MaxUnread)

TypeOK ==
    /\ backlog \in 0..MaxBacklog
    /\ isOpen \in [Fds -> BOOLEAN] /\ hungUp \in [Fds -> BOOLEAN]
    /\ sock \in [Fds -> Units] /\ buf \in [Fds -> Units]
    /\ unread \in [Fds -> 0..MaxUnread] /\ bufsize \in [Fds -> Nat]
    /\ index \in [Fds -> Indices \cup {Nobody}]
    /\ full \subseteq Fds /\ holder \in Fds \cup {Nobody}
    /\ OutputPending \subseteq Fds /\ ClientsWriteBlocked \subseteq Fds
    /\ {NewOutputPending, CriticalOutputPending, AnyClientsWriteBlocked}
         \subseteq BOOLEAN
    /\ pc \in {"input", "wait", "new", "round", "turn"}
    /\ ready \subseteq Fds /\ client \in Fds \cup {Nobody}

InUse(f) == index[f] # Nobody

\* The masks the server grab confines (module Dispatch).
AllClients == {f \in Fds : IF holder = Nobody THEN InUse(f) ELSE f = holder}
ClientsWithInput == IF holder = Nobody THEN full ELSE full \cap {holder}

Init ==
    /\ backlog = 0
    /\ isOpen = [f \in Fds |-> FALSE] /\ hungUp = [f \in Fds |-> FALSE]
    /\ sock = [f \in Fds |-> <<>>] /\ unread = [f \in Fds |-> 0]
    /\ buf = [f \in Fds |-> <<>>]
    /\ bufsize = [f \in Fds |-> OutputBufferSize]
    /\ index = [f \in Fds |-> Nobody] /\ full = {} /\ holder = Nobody
    /\ OutputPending = {} /\ NewOutputPending = FALSE
    /\ CriticalOutputPending = FALSE
    /\ ClientsWriteBlocked = {} /\ AnyClientsWriteBlocked = FALSE
    /\ pc = "input" /\ ready = {} /\ client = Nobody

Numbers(from, n) == [i \in 1..n |-> from + i]

-----------------------------------------------------------------------------
(* The peers.                                                              *)

PeerConnects ==
    /\ backlog < MaxBacklog /\ backlog' = backlog + 1
    /\ UNCHANGED <<connVars, unread, pendVars, index, full, holder, loopVars>>

\* The peer takes a unit; those that follow move up.
PeerReads(f) ==
    /\ isOpen[f] /\ ~hungUp[f] /\ sock[f] # <<>>
    /\ sock' = [sock EXCEPT ![f] = [i \in 1..(Len(@) - 1) |-> @[i + 1] - 1]]
    /\ buf' = [buf EXCEPT ![f] = [i \in 1..Len(@) |-> @[i] - 1]]
    /\ unread' = [unread EXCEPT ![f] = @ - 1]
    /\ UNCHANGED <<isOpen, hungUp, bufsize, ClientsWriteBlocked,
                   AnyClientsWriteBlocked, pendVars, tableVars, loopVars>>

PeerHangsUp(f) ==
    /\ isOpen[f] /\ ~hungUp[f]
    /\ hungUp' = [hungUp EXCEPT ![f] = TRUE]
    /\ sock' = [sock EXCEPT ![f] = <<>>]
    /\ UNCHANGED <<isOpen, buf, bufsize, ClientsWriteBlocked, unread,
                   AnyClientsWriteBlocked, pendVars, tableVars, loopVars>>

-----------------------------------------------------------------------------
(* Writing.                                                                *)

\* What the kernel takes of data; the rest when the writer is blocked.
TakenN(f, data) == Min({Len(data), SockSize - Len(sock[f])})
Taken(f, data)  == SubSeq(data, 1, TakenN(f, data))
RestFromStart(f, data) ==   \* mutant: what was written is not taken out
    IF TakenN(f, data) < Len(buf[f]) THEN data
    ELSE SubSeq(data, TakenN(f, data) + 1, Len(data))
Rest(f, data) == SubSeq(data, TakenN(f, data) + 1, Len(data))

\* The writev() is refused for good.
Refused(f, data) ==
    \/ ~isOpen[f]
    \/ hungUp[f] /\ data # <<>>
    \/ EmptyWriteFails /\ data = <<>>

Grown(n) == n + OutputBufferSize

\* FlushClient of every client of F; data[f] is its buffer and what the caller
\* adds to it.  One that is refused, or for which memory cannot be had, loses
\* its descriptor and keeps its ClientRec.
FlushClients(F, data) ==
    LET refused == {f \in F : Refused(f, data[f])}
        stuck   == {f \in F \ refused : Rest(f, data[f]) # <<>>}
        grown   == {f \in stuck : Len(Rest(f, data[f])) > bufsize[f]}
        shrunk  == {f \in F \ (refused \cup stuck) :
                      bufsize[f] > OutputBufferSize}
    IN  \E lost \in IF MemoryFails THEN SUBSET (grown \cup shrunk) ELSE {{}} :
        LET closed == refused \cup lost IN
        /\ isOpen' = [f \in Fds |-> isOpen[f] /\ f \notin closed]
        /\ hungUp' = [f \in Fds |-> hungUp[f] /\ f \notin closed]
        /\ sock' = [f \in Fds |-> IF f \in closed THEN <<>>
                                  ELSE IF f \in F
                                       THEN sock[f] \o Taken(f, data[f])
                                       ELSE sock[f]]
        /\ buf' = [f \in Fds |-> IF f \in lost THEN <<>>
                                 ELSE IF f \in F \ refused
                                      THEN Rest(f, data[f]) ELSE buf[f]]
        /\ bufsize' = [f \in Fds |->
                         IF f \in lost THEN 0
                         ELSE IF f \in grown THEN Grown(Len(Rest(f, data[f])))
                         ELSE IF f \in shrunk THEN OutputBufferSize
                         ELSE bufsize[f]]
        /\ ClientsWriteBlocked' = ClientsWriteBlocked \cup stuck
        /\ AnyClientsWriteBlocked' = (AnyClientsWriteBlocked \/ stuck # {})

Overflows(f, n) == Len(buf[f]) + n > bufsize[f]

CriticalDone  == FALSE

\* WriteToClient of n units; critical when SetCriticalOutputPending was called
\* for it.
WriteToClient(f, n, critical) ==
    LET data == buf[f] \o Numbers(unread[f], n) IN
    /\ InUse(f) /\ unread[f] + n <= MaxUnread
    /\ unread' = [unread EXCEPT ![f] = @ + n]
    /\ \/ /\ Len(data) > bufsize[f]
          /\ OutputPending' = OutputPending \ {f}
          /\ CriticalOutputPending' = CriticalDone /\ NewOutputPending' = FALSE
          /\ FlushClients({f}, [g \in {f} |-> data])
       \/ /\ ~Overflows(f, n)
          /\ OutputPending' = OutputPending \cup {f}
          /\ NewOutputPending' = TRUE
          /\ CriticalOutputPending' = (CriticalOutputPending \/ critical)
          /\ buf' = [buf EXCEPT ![f] = data]
          /\ UNCHANGED <<isOpen, hungUp, sock, bufsize, ClientsWriteBlocked,
                         AnyClientsWriteBlocked>>

\* Who FlushAllOutput passes over: the test is of ClientsWithInput, a mask of
\* descriptors, at the index of the client.
HeldBack(f) == index[f] \in ClientsWithInput

StillPendingNone(held) == {}            \* mutant: the bit is not set again
StillPending(held) == held

FlushAll ==
    LET live == {f \in OutputPending : InUse(f)}
        held == {f \in live : HeldBack(f)} IN
    /\ OutputPending' = StillPending(held)
    /\ NewOutputPending' = (held # {})
    /\ CriticalOutputPending' = FALSE
    /\ FlushClients(live \ held, buf)
    /\ UNCHANGED unread

FlushAllOutput ==
    IF NewOutputPending THEN FlushAll ELSE UNCHANGED <<connVars, unread, pendVars>>

FlushIfCriticalOutputPending ==
    IF CriticalOutputPending THEN FlushAllOutput
    ELSE UNCHANGED <<connVars, unread, pendVars>>

-----------------------------------------------------------------------------
(* Closing.                                                                *)

BlockedLessStale(F) == ClientsWriteBlocked      \* mutant: BITCLEAR lost
BlockedLess(F) == ClientsWriteBlocked \ F

\* CloseDownClient of the clients at F, as far as output goes.  OutputPending
\* keeps its bits.
CloseDownClients(F) ==
    /\ isOpen' = [f \in Fds |-> isOpen[f] /\ f \notin F]
    /\ hungUp' = [f \in Fds |-> hungUp[f] /\ f \notin F]
    /\ sock' = [f \in Fds |-> IF f \in F THEN <<>> ELSE sock[f]]
    /\ buf' = [f \in Fds |-> IF f \in F THEN <<>> ELSE buf[f]]
    /\ bufsize' = [f \in Fds |-> IF f \in F THEN OutputBufferSize ELSE bufsize[f]]
    /\ unread' = [f \in Fds |-> IF f \in F THEN 0 ELSE unread[f]]
    /\ index' = [f \in Fds |-> IF f \in F THEN Nobody ELSE index[f]]
    /\ full' = full \ F
    /\ holder' = IF holder \in F THEN Nobody ELSE holder
    /\ ClientsWriteBlocked' = BlockedLess(F)
    /\ AnyClientsWriteBlocked' =
         (AnyClientsWriteBlocked /\ ClientsWriteBlocked' # {})
    /\ UNCHANGED <<backlog, pendVars>>

-----------------------------------------------------------------------------
(* Dispatch.                                                               *)

TheLoop == UNCHANGED loopVars

\* ProcessInputEvents at the top of the loop, and what closing a client that
\* CheckConnections found tells the others.
InputEvent(f, n, critical) ==
    /\ pc = "input"
    /\ WriteToClient(f, n, critical)
    /\ UNCHANGED tableVars /\ TheLoop

InputDone ==
    /\ pc = "input" /\ pc' = "wait"
    /\ FlushIfCriticalOutputPending
    /\ UNCHANGED <<tableVars, ready, client>>

\* SendConnectionSetupInfo
WelcomeNew(n) ==
    /\ pc = "new"
    /\ WriteToClient(client, n, FALSE)
    /\ pc' = "round" /\ client' = Nobody
    /\ UNCHANGED <<tableVars, ready>>

\* No client of a round is closed before its turn here: KillClient is part of
\* module Dispatch only.
NextReady ==
    /\ pc = "round" /\ ready # {}
    /\ LET f == Max(ready) IN
       \/ /\ holder \notin {f, Nobody}
          /\ ready' = {} /\ UNCHANGED <<pc, client>>
       \/ /\ holder \in {f, Nobody}
          /\ ready' = ready \ {f}
          /\ client' = f /\ pc' = "turn"
    /\ UNCHANGED <<connVars, unread, pendVars, tableVars>>

EndRound ==
    /\ pc = "round" /\ ready = {}
    /\ pc' = "input"
    /\ UNCHANGED <<connVars, unread, pendVars, tableVars, ready, client>>

\* ReadRequestFromClient, which leaves full requests in the buffer or not.
ReadRequest ==
    /\ pc = "turn" /\ client # Nobody /\ isOpen[client]
    /\ full' \in {full \cup {client}, full \ {client}}
    /\ UNCHANGED <<connVars, unread, pendVars, backlog, index, holder>> /\ TheLoop

\* A reply, an error, or an event, for this client or another.
RequestWrites(f, n, critical) ==
    /\ pc = "turn"
    /\ WriteToClient(f, n, critical)
    /\ UNCHANGED tableVars /\ TheLoop

\* Input events are dealt with between requests.
InputBetweenRequests ==
    /\ pc = "turn" /\ CriticalOutputPending
    /\ FlushIfCriticalOutputPending
    /\ UNCHANGED tableVars /\ TheLoop

GrabServer ==
    /\ Grabs /\ pc = "turn" /\ client # Nobody
    /\ holder' = IF holder = client THEN Nobody ELSE client
    /\ UNCHANGED <<connVars, unread, pendVars, backlog, index, full>> /\ TheLoop

\* The read failed, or noClientException is set.
CloseTurn ==
    /\ pc = "turn" /\ client # Nobody
    /\ hungUp[client] \/ ~isOpen[client]
    /\ CloseDownClients({client})
    /\ client' = Nobody /\ UNCHANGED <<pc, ready>>

EndTurn ==
    /\ pc = "turn"
    /\ client # Nobody => isOpen[client]
    /\ FlushAllOutput
    /\ pc' = "round" /\ client' = Nobody
    /\ UNCHANGED <<tableVars, ready>>

-----------------------------------------------------------------------------
(* WaitForSomething.                                                       *)

WaitBuffered ==
    /\ pc = "wait" /\ ClientsWithInput # {}
    /\ ready' = ClientsWithInput /\ pc' = "round"
    /\ UNCHANGED <<connVars, unread, pendVars, tableVars, client>>

WaitFlush ==
    /\ pc = "wait" /\ ClientsWithInput = {} /\ NewOutputPending
    /\ FlushAllOutput
    /\ UNCHANGED tableVars /\ TheLoop

Waiting == pc = "wait" /\ ClientsWithInput = {} /\ ~NewOutputPending

\* The descriptors for which select() fails with EBADF.
BadFds == {f \in AllClients \cup
                 (IF AnyClientsWriteBlocked THEN ClientsWriteBlocked ELSE {}) :
              ~isOpen[f]}

\* CheckConnections looks at the clients select() reads from only.
CheckConnections ==
    /\ Waiting /\ BadFds # {}
    /\ CloseDownClients(BadFds \cap AllClients)
    /\ pc' = IF BadFds \cap AllClients = {} THEN "wait" ELSE "input"
    /\ UNCHANGED <<ready, client>>

WritableNone == {}      \* mutant: the mask is not given to select()
Writable == {f \in ClientsWriteBlocked : hungUp[f] \/ Len(sock[f]) < SockSize}

Retried == OutputPending \cup Writable

\* A newcomer gets the lowest free descriptor; it may be turned away, and is
\* when the descriptor still has a client (see Dispatch for that case).
Accept ==
    \/ /\ backlog = 0 /\ client' = Nobody
       /\ UNCHANGED <<backlog, isOpen, index>>
    \/ /\ backlog > 0 /\ backlog' = backlog - 1
       /\ \/ client' = Nobody /\ UNCHANGED <<isOpen, index>>
          \/ /\ \E f \in Fds : ~isOpen[f]
             /\ client' = Min({f \in Fds : ~isOpen[f]})
             /\ ~InUse(client')
             /\ isOpen' = [isOpen EXCEPT ![client'] = TRUE]
             /\ \E i \in Indices \ {index[f] : f \in Fds} :
                  index' = [index EXCEPT ![client'] = i]

\* Arrived are the clients that sent something.
Select(arrived) ==
    LET readable == arrived \cup {f \in AllClients : hungUp[f]}
        writable == IF AnyClientsWriteBlocked THEN Writable ELSE {} IN
    /\ Waiting /\ BadFds = {}
    /\ readable # {} \/ writable # {} \/ backlog > 0
    /\ IF writable # {}
       THEN /\ NewOutputPending' = TRUE /\ OutputPending' = Retried
            /\ ClientsWriteBlocked' = ClientsWriteBlocked \ writable
            /\ AnyClientsWriteBlocked' = (ClientsWriteBlocked' # {})
       ELSE UNCHANGED <<NewOutputPending, OutputPending, ClientsWriteBlocked,
                        AnyClientsWriteBlocked>>
    /\ Accept
    /\ ready' = readable
    /\ pc' = IF client' # Nobody THEN "new"
             ELSE IF readable # {} THEN "round" ELSE "wait"
    /\ UNCHANGED <<hungUp, sock, unread, buf, bufsize, full, holder,
                   CriticalOutputPending>>

-----------------------------------------------------------------------------
ServerStep ==
    \/ \E f \in Fds, n \in Sizes, c \in BOOLEAN :
         InputEvent(f, n, c) \/ RequestWrites(f, n, c)
    \/ \E n \in Sizes : WelcomeNew(n)
    \/ InputDone \/ NextReady \/ EndRound \/ ReadRequest
    \/ InputBetweenRequests \/ GrabServer \/ CloseTurn \/ EndTurn
    \/ WaitBuffered \/ WaitFlush \/ CheckConnections
    \/ \E A \in SUBSET AllClients : Select(A)

Environment ==
    \/ PeerConnects
    \/ \E f \in Fds : PeerReads(f) \/ PeerHangsUp(f)

Next == ServerStep \/ Environment

Spec == Init /\ [][Next]_vars

\* The server never stops running, and clients go on reading.
FairSpec ==
    Spec /\ WF_vars(ServerStep) /\ \A f \in Fds : WF_vars(PeerReads(f))

-----------------------------------------------------------------------------
(* Properties.                                                             *)

Up(f) == isOpen[f] /\ ~hungUp[f]

\* What dix is promised: module Stream.
S == INSTANCE Stream WITH
       up <- [f \in Fds |-> Up(f)],
       queue <- [f \in Fds |-> IF Up(f) THEN sock[f] \o buf[f] ELSE <<>>]
StreamKept == S!Spec

\* Output in a buffer is known to FlushAllOutput or to select().
NothingForgotten ==
    \A f \in Fds : isOpen[f] /\ buf[f] # <<>> =>
        \/ f \in OutputPending
        \/ f \in ClientsWriteBlocked /\ AnyClientsWriteBlocked

Idle == pc = "wait" /\ ClientsWithInput = {}

\* As often as the server has nothing else to do it comes back to a writer that
\* was blocked: that one does not stay blocked while its peer has read all there
\* was.
BlockedAreRetried ==
    []<>Idle =>
        \A f \in Fds : []<>(f \notin ClientsWriteBlocked \/ sock[f] # <<>>)

\* Whoever asks to connect is accepted or turned away, unless some client
\* keeps the server busy for ever.
ConnectionsAnswered == []<>Idle => (backlog > 0 ~> backlog = 0)
=============================================================================
