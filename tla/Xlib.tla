-------------------------------- MODULE Xlib --------------------------------
(***************************************************************************)
(* One connection of Xlib (lib/X): the request buffer and _XFlush, the reads  *)
(* of _XReply, _XReadEvents, _XEventsQueued and _XWaitForWritable, the event   *)
(* queue, and the widening of 16 bit sequence numbers.                       *)
(*                                                                          *)
(* The client is one thread; "call" is where it is inside Xlib.  A socket     *)
(* holds Capacity items each way, a half written request counts as not        *)
(* written, and what has been sent may not have arrived yet: a read that       *)
(* does not block gets any first part of it.                                 *)
(*                                                                          *)
(* The server (external here; dispatch.c counts requests in client->sequence  *)
(* and puts it in all it sends) may wait for its client to read.             *)
(*                                                                          *)
(* Left out: requests that are merged with the last one in the buffer,         *)
(* KeymapNotify, which has no sequence number, requests with several replies, *)
(* extensions, and the end of the connection, which is exit().  Error          *)
(* handlers return, and use no display.                                      *)
(***************************************************************************)
EXTENDS Integers, Sequences, Functions

CONSTANTS
    SeqSize,        \* 2^16: sequence numbers in messages are modulo this
    BufferSize,     \* requests that fit in the buffer
    Capacity,       \* what a socket holds each way
    MaxSilence,     \* what the program promises: so many requests without
                    \* a reply, at most, between two round trips
    MaxRequest,     \* bound: the program makes so many requests
    MaxEvents       \* bound: the server sends so many events

ASSUME XlibAssumption ==
    /\ SeqSize \in Nat \ {0} /\ BufferSize \in Nat \ {0} /\ Capacity \in Nat \ {0}
    /\ MaxSilence \in Nat /\ MaxRequest \in Nat /\ MaxEvents \in Nat

VARIABLES
    request,        \* dpy->request
    lastRead,       \* dpy->last_request_read
    buffer,         \* the requests in dpy->buffer
    queue,          \* dpy->head: the events that were read
    call,           \* where the client is
    unsent,         \* what _XFlush has left to write
    batch,          \* the messages read at once and not looked at yet
    toServer,       \* requests on their way
    toClient,       \* messages on their way
    sequence,       \* the server's client->sequence
    events,         \* how many events the server has sent
    error,          \* history: the last error that the handler was given
    answered        \* history: the last request that was answered

output == <<buffer, unsent>>
input  == <<lastRead, queue, batch, error>>
server == <<sequence, events>>
vars   == <<request, output, input, server, call, toServer, toClient, answered>>

Request == [number : Nat, query : BOOLEAN]

\* A message has the low bits of a number; "of" is the number itself.
Message == [type : {"reply", "error", "event"}, seq : 0..SeqSize - 1, of : Nat]

\* What the program is given: the widened number, and the number itself
Given == [serial : Nat, of : Nat]

\* Outside of _XFlush: in the program; about to put a request in the buffer;
\* in _XReply; in _XEventsQueued; in _XReadEvents, about to read, reading one
\* event without looking, back from _XFlush, at the end of the loop, and
\* returned to XNextEvent or, "any" event being wanted, XIfEvent.
Place ==
    [at : {"user", "poll"}]
        \cup [at : {"put"}, query : BOOLEAN, discard : BOOLEAN]
        \cup [at : {"reply"}, number : Nat, discard : BOOLEAN]
        \cup [at : {"read", "loop"}, flushed : BOOLEAN, any : BOOLEAN]
        \cup [at : {"block", "got"}, any : BOOLEAN]
        \cup [at : {"flushed"}, before : Nat, any : BOOLEAN]
\* In _XFlush and _XWaitForWritable, and where it will return
Call == Place \cup [at : {"flush", "wait"}, next : Place]

User == [at |-> "user"]
Flush(next) == [at |-> "flush", next |-> next]

TypeOK ==
    /\ request \in Nat /\ lastRead \in Nat /\ answered \in Nat
    /\ sequence \in Nat /\ events \in Nat
    /\ buffer \in Seq(Request) /\ unsent \in Seq(Request)
    /\ toServer \in Seq(Request)
    /\ toClient \in Seq(Message) /\ batch \in Seq(Message)
    /\ queue \in Seq(Given) /\ error \in Given
    /\ call \in Call

-----------------------------------------------------------------------------
(* Sequence numbers.                                                        *)

WidenedBackwards(seq) ==            \* mutant
    LET newseq == lastRead - (lastRead % SeqSize) + seq
    IN  IF newseq > lastRead THEN newseq - SeqSize ELSE newseq

\* _SetLastRequestRead: the least number with the message's low bits that is not
\* below lastRead, unless there was no such request ("sequence lost").  As
\* newseq starts in the block of lastRead, the loop is run once at most.
Widened(seq) ==
    LET newseq == lastRead - (lastRead % SeqSize) + seq
    IN  IF newseq < lastRead /\ newseq + SeqSize <= request
        THEN newseq + SeqSize
        ELSE newseq

-----------------------------------------------------------------------------
(* Messages that are no answer.                                             *)

\* One round of the loops over what was read at once: _XError or _XEnq.  A
\* reply would be an event of an unknown type, which _XEnq ignores.
HandleMessage ==
    /\ batch # <<>>
    /\ LET m     == Head(batch)
           given == [serial |-> Widened(m.seq), of |-> m.of]
       IN  /\ lastRead' = IF m.type = "reply" THEN lastRead ELSE given.serial
           /\ queue' = IF m.type = "event" THEN Append(queue, given) ELSE queue
           /\ error' = IF m.type = "error" THEN given ELSE error
    /\ batch' = Tail(batch)
    /\ UNCHANGED <<request, output, server, call, toServer, toClient, answered>>

\* _XRead of the first k messages
Read(k) ==
    /\ batch' = SubSeq(toClient, 1, k)
    /\ toClient' = SubSeq(toClient, k + 1, Len(toClient))

\* The client is at a place, and has looked at all it has read.
At(place) == call.at = place /\ batch = <<>>

-----------------------------------------------------------------------------
(* _XFlush                                                                  *)

StartFlush(next) ==
    /\ unsent' = buffer /\ buffer' = <<>>
    /\ call' = Flush(next)

WriteToServer ==
    /\ At("flush") /\ unsent # <<>> /\ Len(toServer) < Capacity
    /\ toServer' = Append(toServer, Head(unsent))
    /\ unsent' = Tail(unsent)
    /\ UNCHANGED <<request, buffer, input, server, call, toClient, answered>>

\* EWOULDBLOCK
WouldBlock ==
    /\ At("flush") /\ unsent # <<>> /\ Len(toServer) >= Capacity
    /\ call' = [call EXCEPT !.at = "wait"]
    /\ UNCHANGED <<request, output, input, server, toServer, toClient, answered>>

FlushReturns ==
    /\ At("flush") /\ unsent = <<>>
    /\ call' = call.next
    /\ UNCHANGED <<request, output, input, server, toServer, toClient, answered>>

WaitForWritableOnly ==              \* mutant
    /\ At("wait")
    /\ Len(toServer) < Capacity
    /\ call' = Flush(call.next)
    /\ UNCHANGED <<request, output, input, server, toServer, toClient, answered>>

\* _XWaitForWritable: one select(), and what was readable is read whether or
\* not the socket was writable too.
WaitForWritable ==
    /\ At("wait")
    /\ \E k \in 0..Len(toClient) :
        /\ (k > 0 \/ Len(toServer) < Capacity)
        /\ Read(k)
    /\ call' = IF Len(toServer) < Capacity THEN Flush(call.next) ELSE call
    /\ UNCHANGED <<request, output, lastRead, queue, error, server, toServer,
                   answered>>

-----------------------------------------------------------------------------
(* Requests.                                                                *)

\* GetReq, for a request with or without a reply.  XSync is one with a reply
\* after which it may discard the events.
MakeRequest(query, discard) ==
    /\ At("user") /\ request < MaxRequest
    /\ (query \/ request - answered < MaxSilence)
    /\ LET put == [at |-> "put", query |-> query, discard |-> discard]
       IN  IF Len(buffer) >= BufferSize
           THEN StartFlush(put)
           ELSE call' = put /\ UNCHANGED output
    /\ UNCHANGED <<request, input, server, toServer, toClient, answered>>

\* The end of GetReq and, of a request with a reply, the begin of _XReply
PutRequest ==
    /\ At("put")
    /\ request' = request + 1
    /\ LET r == [number |-> request + 1, query |-> call.query]
       IN  IF call.query
           THEN /\ unsent' = Append(buffer, r) /\ buffer' = <<>>
                /\ call' = Flush([at |-> "reply", number |-> request + 1,
                                  discard |-> call.discard])
           ELSE /\ buffer' = Append(buffer, r) /\ unsent' = unsent
                /\ call' = User
    /\ UNCHANGED <<input, server, toServer, toClient, answered>>

ReturnReply ==
    /\ answered' = call.number
    /\ queue' = IF call.discard THEN <<>> ELSE queue
    /\ call' = User

ReplyNotNoted ==                    \* mutant
    /\ At("reply") /\ toClient # <<>> /\ Head(toClient).type = "reply"
    /\ toClient' = Tail(toClient)
    /\ ReturnReply
    /\ UNCHANGED <<request, output, lastRead, batch, error, server, toServer>>

\* _XReply reads a reply,
ReplyRead ==
    /\ At("reply") /\ toClient # <<>> /\ Head(toClient).type = "reply"
    /\ toClient' = Tail(toClient)
    /\ lastRead' = IF Head(toClient).seq = call.number % SeqSize
                   THEN call.number
                   ELSE Widened(Head(toClient).seq)
    /\ ReturnReply
    /\ UNCHANGED <<request, output, batch, error, server, toServer>>

ErrorEndsReply ==                   \* mutant
    /\ At("reply") /\ toClient # <<>> /\ Head(toClient).type = "error"
    /\ toClient' = Tail(toClient)
    /\ LET serial == Widened(Head(toClient).seq)
       IN  /\ lastRead' = serial
           /\ error' = [serial |-> serial, of |-> Head(toClient).of]
    /\ ReturnReply
    /\ UNCHANGED <<request, output, batch, server, toServer>>

\* an error, which is the answer if it has the number of the request, and then
\* may be of a kind that the handler is not told,
ErrorRead ==
    /\ At("reply") /\ toClient # <<>> /\ Head(toClient).type = "error"
    /\ toClient' = Tail(toClient)
    /\ LET serial == Widened(Head(toClient).seq)
           given  == [serial |-> serial, of |-> Head(toClient).of]
       IN  /\ lastRead' = serial
           /\ \/ serial = call.number /\ error' \in {error, given} /\ ReturnReply
              \/ /\ serial # call.number /\ error' = given
                 /\ UNCHANGED <<call, answered, queue>>
    /\ UNCHANGED <<request, output, batch, server, toServer>>

\* or an event.
EventRead ==
    /\ At("reply") /\ toClient # <<>> /\ Head(toClient).type = "event"
    /\ toClient' = Tail(toClient)
    /\ LET serial == Widened(Head(toClient).seq)
       IN  /\ lastRead' = serial
           /\ queue' = Append(queue, [serial |-> serial, of |-> Head(toClient).of])
    /\ UNCHANGED <<request, output, batch, error, server, toServer, call, answered>>

-----------------------------------------------------------------------------
(* Events.                                                                  *)

\* XFlush, and XPending or XEventsQueued(QueuedAfterFlush) of an empty queue
XFlush ==
    /\ At("user")
    /\ StartFlush(User)
    /\ UNCHANGED <<request, input, server, toServer, toClient, answered>>

XPending ==
    /\ At("user") /\ queue = <<>>
    /\ StartFlush([at |-> "poll"])
    /\ UNCHANGED <<request, input, server, toServer, toClient, answered>>

\* _XEventsQueued, from XCheckIfEvent and the like whatever the queue
QueuedAfterReading ==
    /\ At("user")
    /\ call' = [at |-> "poll"]
    /\ UNCHANGED <<request, output, input, server, toServer, toClient, answered>>

EventsQueued ==
    /\ At("poll")
    /\ \E k \in 0..Len(toClient) : Read(k)
    /\ call' = User
    /\ UNCHANGED <<request, output, lastRead, queue, error, server, toServer,
                   answered>>

\* The event at position i leaves the queue.
Take(i) == queue' = SubSeq(queue, 1, i - 1) \o SubSeq(queue, i + 1, Len(queue))

\* XNextEvent, XIfEvent, XCheckIfEvent... find what they want.
TakeQueued ==
    /\ At("user")
    /\ \E i \in DOMAIN queue : Take(i)
    /\ UNCHANGED <<request, output, lastRead, batch, error, server, call,
                   toServer, toClient, answered>>

\* XNextEvent, XIfEvent, XMaskEvent... do not, and call _XReadEvents.
ReadEvents(any) == call' = [at |-> "read", flushed |-> FALSE, any |-> any]

WaitForEvent(any) ==
    /\ At("user") /\ (any \/ queue = <<>>)
    /\ ReadEvents(any)
    /\ UNCHANGED <<request, output, input, server, toServer, toClient, answered>>

ReadArrived ==
    /\ At("read")
    /\ \E k \in 1..Len(toClient) : Read(k)
    /\ call' = [call EXCEPT !.at = "loop"]
    /\ UNCHANGED <<request, output, lastRead, queue, error, server, toServer,
                   answered>>

\* Nothing has arrived: "don't flush until we block the first time".
NothingArrived ==
    /\ At("read")
    /\ IF call.flushed
       THEN call' = [at |-> "block", any |-> call.any] /\ UNCHANGED output
       ELSE StartFlush([at |-> "flushed", before |-> Len(queue), any |-> call.any])
    /\ UNCHANGED <<request, input, server, toServer, toClient, answered>>

BlockAfterFlush ==                  \* mutant
    /\ At("flushed")
    /\ call' = [at |-> "block", any |-> call.any]
    /\ UNCHANGED <<request, output, input, server, toServer, toClient, answered>>

\* _XFlush may have queued events.
AfterFlush ==
    /\ At("flushed")
    /\ call' = [at |-> IF Len(queue) # call.before THEN "got" ELSE "block",
                any |-> call.any]
    /\ UNCHANGED <<request, output, input, server, toServer, toClient, answered>>

ReadOne ==
    /\ At("block") /\ toClient # <<>>
    /\ Read(1)
    /\ call' = [at |-> "loop", flushed |-> TRUE, any |-> call.any]
    /\ UNCHANGED <<request, output, lastRead, queue, error, server, toServer,
                   answered>>

EndOfLoop ==
    /\ At("loop")
    /\ call' = IF queue = <<>> THEN [call EXCEPT !.at = "read"]
                               ELSE [at |-> "got", any |-> call.any]
    /\ UNCHANGED <<request, output, input, server, toServer, toClient, answered>>

\* XNextEvent takes the first event, which it does not doubt is there; XIfEvent
\* goes on with the queue.
GotEvent ==
    /\ At("got")
    /\ \/ ~call.any /\ queue' = Tail(queue) /\ call' = User
       \/ call.any /\ call' = User /\ \E i \in DOMAIN queue : Take(i)
       \/ call.any /\ queue' = queue /\ ReadEvents(TRUE)
    /\ UNCHANGED <<request, output, lastRead, batch, error, server,
                   toServer, toClient, answered>>

-----------------------------------------------------------------------------
(* The server.                                                              *)

Send(type, of) ==
    toClient' = Append(toClient, [type |-> type, seq |-> of % SeqSize, of |-> of])

Serve ==
    /\ toServer # <<>>
    /\ sequence' = sequence + 1
    /\ \/ Head(toServer).query /\ Send("reply", sequence + 1)
       \/ Send("error", sequence + 1)
       \/ ~Head(toServer).query /\ UNCHANGED toClient
    /\ toServer' = Tail(toServer)
    /\ UNCHANGED <<request, output, input, call, answered, events>>

SendEvent ==
    /\ events < MaxEvents
    /\ events' = events + 1
    /\ Send("event", sequence)
    /\ UNCHANGED <<request, output, input, call, answered, sequence, toServer>>

-----------------------------------------------------------------------------
Init ==
    /\ request = 0 /\ lastRead = 0 /\ answered = 0
    /\ sequence = 0 /\ events = 0
    /\ buffer = <<>> /\ unsent = <<>> /\ toServer = <<>>
    /\ toClient = <<>> /\ batch = <<>> /\ queue = <<>>
    /\ error = [serial |-> 0, of |-> 0]
    /\ call = User

\* What goes on inside Xlib once it was called
Inside ==
    \/ HandleMessage
    \/ WriteToServer \/ WouldBlock \/ FlushReturns \/ WaitForWritable
    \/ PutRequest \/ ReplyRead \/ ErrorRead \/ EventRead
    \/ EventsQueued
    \/ ReadArrived \/ NothingArrived \/ AfterFlush \/ ReadOne \/ EndOfLoop
    \/ GotEvent

Program ==
    \/ \E discard \in BOOLEAN : MakeRequest(TRUE, discard)
    \/ MakeRequest(FALSE, FALSE)
    \/ XFlush \/ XPending \/ QueuedAfterReading
    \/ TakeQueued
    \/ \E any \in BOOLEAN : WaitForEvent(any)

Next == Inside \/ Program \/ Serve \/ SendEvent

\* The server is fair to a client that reads.
Spec ==
    /\ Init /\ [][Next]_vars
    /\ WF_vars(Inside) /\ WF_vars(Len(toClient) < Capacity /\ Serve)

-----------------------------------------------------------------------------
(* Properties.                                                              *)

\* The numbers that events and errors are given to the program with are those of
\* the requests they belong to, if there is a round trip at least every 65535
\* requests: not fewer low bits are enough, whatever is on its way.
SerialsAreTrue ==
    MaxSilence <= SeqSize - 2 =>
        /\ \A i \in DOMAIN queue : queue[i].serial = queue[i].of
        /\ error.serial = error.of

\* A reply is read by the call that asked for it: it is on its way only when
\* _XReply waits for that very request, or does as soon as _XFlush returns, so
\* that none of the other reads, which would drop it, gets to see it.
RepliesAreAwaited ==
    LET waiting == IF call.at = "flush" /\ unsent = <<>> THEN call.next ELSE call
    IN  \A m \in Range(batch \o toClient) :
            m.type = "reply" => /\ m \notin Range(batch)
                                /\ waiting.at = "reply"
                                /\ waiting.number = m.of

\* Whenever the client blocks until the server sends something, the server has,
\* or can get, all the client asked for, and XNextEvent has no event to return.
BlocksForAReason ==
    (batch = <<>> /\ call.at \in {"reply", "block"}) =>
        /\ buffer = <<>> /\ unsent = <<>>
        /\ call.at = "block" /\ ~call.any => queue = <<>>

\* A round trip and a flush end, though the server may wait for the client to
\* read while the client waits for the server.
Blocking == {"user", "read", "loop", "block", "flushed", "got"}
CallsEnd ==
    MaxSilence <= SeqSize - 2 =>
        (call.at \notin Blocking ~> call.at \in Blocking)

=============================================================================
