------------------------------ MODULE XlibProofs ------------------------------
(***************************************************************************)
(* Proofs about one connection of Xlib: with buffers, sockets and sequence    *)
(* numbers of any size, and whatever a server may send, the numbers the        *)
(* program is given are true, replies are read by who waits for them, and     *)
(* the client blocks with a reason.                                          *)
(*                                                                          *)
(* The invariant says where each request is (Pipeline), how the messages that  *)
(* come back are ordered (Ordered), which of them may be a reply (Answers),     *)
(* what the client holds at each place (Control, Queueing), and how many       *)
(* requests have been made since the last answer (Round).  A step is one of     *)
(* five kinds (EveryStep), and what a kind does to the messages is one lemma:   *)
(* nothing, the first is taken, or one is sent.                               *)
(***************************************************************************)
EXTENDS Xlib, SequenceTheorems, TLAPS

\* Where the client is, or will be once _XFlush returns
Where == IF call.at \in {"flush", "wait"} THEN call.next ELSE call

\* It is in _XReply.
Asked == Where.at = "reply"

\* The messages the client has not looked at
Coming == batch \o toClient

-----------------------------------------------------------------------------
(* The invariant.                                                           *)

\* Where the client has what: nothing is left to write but in _XFlush, which
\* empties the buffer, and nothing is buffered where the client waits.
Control ==
    /\ call.at \notin {"flush", "wait"} => unsent = <<>>
    /\ call.at = "wait" => unsent # <<>>
    /\ call.at \in {"flush", "wait"} => buffer = <<>>
    /\ Where.at \in {"reply", "flushed", "block"} => buffer = <<>>
    /\ Where.at \in {"read", "loop"} /\ Where.flushed => buffer = <<>>
    /\ call.at \in {"flush", "wait"} =>
            Where.at \in {"user", "put", "reply", "poll", "flushed"}
    /\ batch # <<>> => call.at \in {"user", "loop", "flush", "wait"}

\* XNextEvent starts without events and ends with one.
Queueing ==
    /\ Where.at = "flushed" /\ ~Where.any => Where.before = 0
    /\ call.at \in {"read", "block"} /\ ~call.any => queue = <<>>
    /\ call.at = "got" /\ ~call.any => queue # <<>>

\* Every request is somewhere, and only the last may want a reply, while the
\* client waits for it.
Pipeline ==
    /\ sequence + Len(toServer) + Len(unsent) + Len(buffer) = request
    /\ \A i \in DOMAIN buffer : ~buffer[i].query
    /\ \A i \in DOMAIN unsent : unsent[i].query => Asked /\ i = Len(unsent)
    /\ \A i \in DOMAIN toServer :
            toServer[i].query => Asked /\ i = Len(toServer) /\ unsent = <<>>

\* Messages come in the order of their numbers, answers strictly so, and none
\* is older than what was read.
Ordered ==
    /\ answered <= lastRead /\ lastRead <= sequence
    /\ \A i \in DOMAIN Coming :
        /\ lastRead <= Coming[i].of /\ Coming[i].of <= sequence
        /\ Coming[i].seq = Coming[i].of % SeqSize
    /\ \A i, j \in DOMAIN Coming : i < j =>
        /\ Coming[i].of <= Coming[j].of
        /\ Coming[j].type # "event" => Coming[i].of < Coming[j].of

\* A reply is the answer to the last request, and was not read at once with
\* other messages.
Answers ==
    /\ Asked => Where.number = request
    /\ \A i \in DOMAIN Coming : Coming[i].type = "reply" =>
            Asked /\ Coming[i].of = request /\ i > Len(batch)

\* The program keeps its promise.
Round ==
    /\ request <= answered + MaxSilence + (IF Asked THEN 1 ELSE 0)
    /\ Where.at = "put" /\ ~Where.query => request < answered + MaxSilence

IInv ==
    /\ TypeOK /\ Control /\ Queueing /\ Pipeline /\ Ordered /\ Answers /\ Round
    /\ SerialsAreTrue

-----------------------------------------------------------------------------
(* Numbers.                                                                 *)

\* Different blocks of SeqSize numbers are SeqSize apart.
LEMMA Blocks ==
    ASSUME NEW w \in Nat \ {0}, NEW a \in Int, NEW b \in Int, a < b
    PROVE  w * a + w <= w * b
<1>1. w * (b - a) >= w
    BY b - a >= 1, w >= 1
<1>2. w * (b - a) = w * b - w * a
    OBVIOUS
<1> QED BY <1>1, <1>2

LEMMA Division ==
    ASSUME NEW w \in Nat \ {0}, NEW n \in Nat
    PROVE  /\ n % w \in 0..w - 1
           /\ n \div w \in Nat
           /\ n = w * (n \div w) + (n % w)
<1>1. n % w \in 0..w - 1
    OBVIOUS
<1>2. w \in Int /\ w > 0 /\ n \in Int /\ n >= 0
    OBVIOUS
<1>3. n \div w \in Int
    BY <1>2, Z3
<1>4. n \div w >= 0
    BY <1>2, SMT
<1>5. n = w * (n \div w) + (n % w)
    OBVIOUS
<1> QED BY <1>1, <1>3, <1>4, <1>5

LEMMA WidenedType ==
    ASSUME TypeOK, NEW s \in 0..SeqSize - 1
    PROVE  Widened(s) \in Nat
<1>1. /\ lastRead \in Nat /\ request \in Nat /\ SeqSize \in Nat \ {0}
    BY XlibAssumption DEF TypeOK
<1>2. lastRead - (lastRead % SeqSize) \in Nat
    BY <1>1, Division, lastRead % SeqSize <= lastRead
<1> QED BY <1>1, <1>2 DEF Widened

LEMMA WidenedRight ==
    ASSUME TypeOK, NEW of \in Nat, lastRead <= of, of <= request
    PROVE  /\ Widened(of % SeqSize) \in lastRead..of
           /\ of < lastRead + SeqSize => Widened(of % SeqSize) = of
<1> DEFINE q == lastRead \div SeqSize
           r == lastRead % SeqSize
           p == of \div SeqSize
           s == of % SeqSize
<1>1. /\ lastRead \in Nat /\ request \in Nat /\ SeqSize \in Nat \ {0}
    BY XlibAssumption DEF TypeOK
<1>2. /\ r \in 0..SeqSize - 1 /\ q \in Nat /\ lastRead = SeqSize * q + r
      /\ s \in 0..SeqSize - 1 /\ p \in Nat /\ of = SeqSize * p + s
    BY <1>1, Division
<1>3. Widened(s) = IF SeqSize * q + s < lastRead /\ SeqSize * q + s + SeqSize <= request
                   THEN SeqSize * q + s + SeqSize ELSE SeqSize * q + s
    BY <1>1, <1>2 DEF Widened
<1>4. p >= q
    <2>1. p < q => SeqSize * p + SeqSize <= SeqSize * q
        BY <1>1, <1>2, Blocks
    <2> HIDE DEF p, q, r, s
    <2> QED BY <1>1, <1>2, <2>1
<1>5. p > q => SeqSize * q + SeqSize <= SeqSize * p
    BY <1>1, <1>2, Blocks
<1>6. p > q + 1 => SeqSize * (q + 1) + SeqSize <= SeqSize * p
    BY <1>1, <1>2, Blocks
<1>7. SeqSize * (q + 1) = SeqSize * q + SeqSize
    BY <1>1, <1>2
<1> DEFINE Q == SeqSize * q
           P == SeqSize * p
<1>8. Q \in Int /\ P \in Int
    BY <1>1, <1>2
<1>9. /\ p = q => P = Q
      /\ p = q + 1 => P = Q + SeqSize
      /\ p > q + 1 => Q + SeqSize + SeqSize <= P
    BY <1>6, <1>7
<1>10. /\ lastRead = Q + r /\ of = P + s
       /\ Widened(s) = IF Q + s < lastRead /\ Q + s + SeqSize <= request
                       THEN Q + s + SeqSize ELSE Q + s
    BY <1>2, <1>3
<1>11. /\ r \in Int /\ 0 <= r /\ r < SeqSize
       /\ s \in Int /\ 0 <= s /\ s < SeqSize
       /\ p \in Int /\ q \in Int
    BY <1>1, <1>2
<1> HIDE DEF P, Q, p, q, r, s
<1>12. /\ Widened(s) \in lastRead..of
       /\ of < lastRead + SeqSize => Widened(s) = of
    <2>1. CASE p = q
        BY <2>1, <1>1, <1>8, <1>9, <1>10, <1>11
    <2>2. CASE p = q + 1
        BY <2>2, <1>1, <1>8, <1>9, <1>10, <1>11
    <2>3. CASE p > q + 1
        BY <2>3, <1>1, <1>8, <1>9, <1>10, <1>11
    <2> QED BY <2>1, <2>2, <2>3, <1>4, <1>11
<1> QED BY <1>12 DEF s

-----------------------------------------------------------------------------
(* Places.                                                                  *)

LEMMA InFlush ==
    ASSUME TypeOK, call.at \in {"flush", "wait"}
    PROVE  /\ call \in [at : {"flush", "wait"}, next : Place]
           /\ call.next \in Place /\ call.next.at \notin {"flush", "wait"}
BY DEF TypeOK, Call, Place

LEMMA OutsideFlush ==
    ASSUME TypeOK, call.at \notin {"flush", "wait"}
    PROVE  call \in Place
BY DEF TypeOK, Call, Place

LEMMA AtPlace ==
    ASSUME TypeOK
    PROVE  /\ Where \in Place
           /\ Where.at = "put" => Where.query \in BOOLEAN /\ Where.discard \in BOOLEAN
           /\ Where.at = "reply" => Where.number \in Nat /\ Where.discard \in BOOLEAN
           /\ Where.at \in {"read", "loop"} =>
                    Where.flushed \in BOOLEAN /\ Where.any \in BOOLEAN
           /\ Where.at \in {"block", "got"} => Where.any \in BOOLEAN
           /\ Where.at = "flushed" => Where.before \in Nat /\ Where.any \in BOOLEAN
<1>1. Where \in Place
    BY InFlush, OutsideFlush DEF Where
<1> HIDE DEF Where
<1> QED BY <1>1 DEF Place

-----------------------------------------------------------------------------
(* Types.                                                                   *)

LEMMA Prefix ==
    ASSUME NEW S, NEW s \in Seq(S), NEW k \in 0..Len(s)
    PROVE  /\ SubSeq(s, 1, k) \in Seq(S) /\ Len(SubSeq(s, 1, k)) = k
           /\ \A i \in 1..k : SubSeq(s, 1, k)[i] = s[i]
           /\ SubSeq(s, k + 1, Len(s)) \in Seq(S)
           /\ Len(SubSeq(s, k + 1, Len(s))) = Len(s) - k
           /\ \A i \in 1..Len(s) - k : SubSeq(s, k + 1, Len(s))[i] = s[k + i]
<1>1. \A i \in 1..Len(s) : s[i] \in S
    BY ElementOfSeq
<1>2. Len(s) \in Nat /\ k \in Int /\ k + 1 \in Int
    BY LenProperties
<1>3. /\ SubSeq(s, 1, k) \in Seq(S)
      /\ Len(SubSeq(s, 1, k)) = IF 1 <= k THEN k - 1 + 1 ELSE 0
      /\ \A i \in 1..k - 1 + 1 : SubSeq(s, 1, k)[i] = s[1 + i - 1]
    <2>1. \A i \in 1..k : s[i] \in S
        BY <1>1, <1>2
    <2> QED BY <2>1, <1>2, SubSeqProperties
<1>4. /\ SubSeq(s, k + 1, Len(s)) \in Seq(S)
      /\ Len(SubSeq(s, k + 1, Len(s))) =
            IF k + 1 <= Len(s) THEN Len(s) - (k + 1) + 1 ELSE 0
      /\ \A i \in 1..Len(s) - (k + 1) + 1 :
            SubSeq(s, k + 1, Len(s))[i] = s[k + 1 + i - 1]
    <2>1. \A i \in k + 1..Len(s) : s[i] \in S
        BY <1>1, <1>2
    <2> QED BY <2>1, <1>2, SubSeqProperties
<1>5. Len(SubSeq(s, 1, k)) = k
    BY <1>2, <1>3
<1>6. ASSUME NEW i \in 1..k
      PROVE  SubSeq(s, 1, k)[i] = s[i]
    <2>1. i \in 1..k - 1 + 1 /\ 1 + i - 1 = i
        BY <1>2
    <2> QED BY <1>3, <2>1, Zenon
<1>7. Len(SubSeq(s, k + 1, Len(s))) = Len(s) - k
    BY <1>2, <1>4
<1>8. ASSUME NEW i \in 1..Len(s) - k
      PROVE  SubSeq(s, k + 1, Len(s))[i] = s[k + i]
    <2>1. i \in 1..Len(s) - (k + 1) + 1 /\ k + 1 + i - 1 = k + i
        BY <1>2
    <2> QED BY <1>4, <2>1, Zenon
<1> QED BY <1>3, <1>4, <1>5, <1>6, <1>7, <1>8

\* What one read() of k messages does
LEMMA ReadType ==
    ASSUME TypeOK, NEW k \in 0..Len(toClient), Read(k)
    PROVE  batch' \in Seq(Message) /\ toClient' \in Seq(Message)
BY Prefix DEF TypeOK, Read

LEMMA TakeType ==
    ASSUME TypeOK, NEW i \in DOMAIN queue, Take(i)
    PROVE  queue' \in Seq(Given)
<1>1. queue \in Seq(Given) /\ i \in 1..Len(queue) /\ Len(queue) \in Nat
    BY LenProperties DEF TypeOK
<1>2. SubSeq(queue, 1, i - 1) \in Seq(Given)
    BY <1>1, Prefix, i - 1 \in 0..Len(queue)
<1>3. SubSeq(queue, i + 1, Len(queue)) \in Seq(Given)
    BY <1>1, Prefix
<1> QED BY <1>2, <1>3 DEF Take

LEMMA SentMessage ==
    ASSUME TypeOK, NEW type \in {"reply", "error", "event"}, NEW of \in Nat
    PROVE  [type |-> type, seq |-> of % SeqSize, of |-> of] \in Message
<1>1. of % SeqSize \in 0..SeqSize - 1
    BY XlibAssumption, Division
<1> QED BY <1>1 DEF Message

LEMMA SendType ==
    ASSUME TypeOK, NEW type \in {"reply", "error", "event"}, NEW of \in Nat,
           Send(type, of)
    PROVE  toClient' \in Seq(Message)
BY SentMessage, AppendProperties DEF TypeOK, Send

LEMMA GivenType ==
    ASSUME TypeOK, NEW m \in Message
    PROVE  [serial |-> Widened(m.seq), of |-> m.of] \in Given
<1>1. m.seq \in 0..SeqSize - 1 /\ m.of \in Nat
    BY DEF Message
<1> QED BY <1>1, WidenedType DEF Given

\* What the messages are that are looked at
LEMMA FirstMessage ==
    ASSUME TypeOK
    PROVE  /\ batch # <<>> => Head(batch) \in Message /\ Tail(batch) \in Seq(Message)
           /\ toClient # <<>> =>
                Head(toClient) \in Message /\ Tail(toClient) \in Seq(Message)
BY HeadTailProperties DEF TypeOK

LEMMA FlushCall ==
    ASSUME NEW next \in Place
    PROVE  Flush(next) \in Call
BY DEF Flush, Call

LEMMA SimplePlaces ==
    /\ User \in Place /\ [at |-> "poll"] \in Place
    /\ \A b, c \in BOOLEAN :
        /\ [at |-> "put", query |-> b, discard |-> c] \in Place
        /\ [at |-> "read", flushed |-> b, any |-> c] \in Place
        /\ [at |-> "loop", flushed |-> b, any |-> c] \in Place
        /\ [at |-> "block", any |-> c] \in Place
        /\ [at |-> "got", any |-> c] \in Place
        /\ \A n \in Nat :
            /\ [at |-> "reply", number |-> n, discard |-> c] \in Place
            /\ [at |-> "flushed", before |-> n, any |-> c] \in Place
    /\ Place \subseteq Call
BY DEF Place, Call, User

\* At a place outside of _XFlush, with all looked at
LEMMA AtType ==
    ASSUME TypeOK
    PROVE  /\ call.at = "put" => call.query \in BOOLEAN /\ call.discard \in BOOLEAN
           /\ call.at = "reply" => call.number \in Nat /\ call.discard \in BOOLEAN
           /\ call.at = "read" =>
                /\ call.flushed \in BOOLEAN /\ call.any \in BOOLEAN
                /\ [call EXCEPT !.at = "loop"]
                        = [at |-> "loop", flushed |-> call.flushed, any |-> call.any]
           /\ call.at = "loop" =>
                /\ call.flushed \in BOOLEAN /\ call.any \in BOOLEAN
                /\ [call EXCEPT !.at = "read"]
                        = [at |-> "read", flushed |-> call.flushed, any |-> call.any]
           /\ call.at \in {"block", "got"} => call.any \in BOOLEAN
           /\ call.at = "flushed" => call.before \in Nat /\ call.any \in BOOLEAN
           /\ call.at \in {"flush", "wait"} =>
                /\ [call EXCEPT !.at = "wait"] = [at |-> "wait", next |-> call.next]
                /\ call = [at |-> call.at, next |-> call.next]
<1>1. CASE call.at \in {"flush", "wait"}
    BY <1>1, InFlush
<1>2. CASE call.at \notin {"flush", "wait"}
    <2>1. call \in Place
        BY <1>2, OutsideFlush
    <2> QED BY <2>1, <1>2 DEF Place
<1> QED BY <1>1, <1>2

LEMMA TypeStep ==
    ASSUME TypeOK, Queueing, [Next]_vars
    PROVE  TypeOK'
<1>0. /\ SeqSize \in Nat \ {0}
      /\ request \in Nat /\ lastRead \in Nat /\ answered \in Nat
      /\ sequence \in Nat /\ events \in Nat
      /\ buffer \in Seq(Request) /\ unsent \in Seq(Request)
      /\ toServer \in Seq(Request)
      /\ toClient \in Seq(Message) /\ batch \in Seq(Message)
      /\ queue \in Seq(Given) /\ error \in Given /\ call \in Call
      /\ Len(queue) \in Nat
      /\ <<>> \in Seq(Request) /\ <<>> \in Seq(Given)
    BY XlibAssumption, LenProperties, EmptySeq DEF TypeOK
<1>1. CASE HandleMessage
    <2>1. [serial |-> Widened(Head(batch).seq), of |-> Head(batch).of] \in Given
        BY <1>1, FirstMessage, GivenType DEF HandleMessage
    <2>2. /\ batch' \in Seq(Message)
          /\ lastRead' \in Nat /\ queue' \in Seq(Given) /\ error' \in Given
        BY <1>0, <1>1, <2>1, FirstMessage, AppendProperties DEF HandleMessage, Given
    <2> QED BY <1>0, <1>1, <2>2 DEF HandleMessage, TypeOK, output, server
<1>2. CASE WriteToServer
    <2>1. /\ Head(unsent) \in Request /\ Tail(unsent) \in Seq(Request)
        BY <1>0, <1>2, HeadTailProperties DEF WriteToServer
    <2>2. toServer' \in Seq(Request) /\ unsent' \in Seq(Request)
        BY <1>0, <1>2, <2>1, AppendProperties DEF WriteToServer
    <2> QED BY <1>0, <1>2, <2>2 DEF WriteToServer, TypeOK, input, server
<1>3. CASE WouldBlock
    <2>1. call' \in Call
        BY <1>3, InFlush, AtType DEF WouldBlock, At, Call
    <2> QED BY <1>0, <1>3, <2>1 DEF WouldBlock, TypeOK, output, input, server
<1>4. CASE FlushReturns
    <2>1. call' \in Call
        BY <1>4, InFlush, SimplePlaces DEF FlushReturns, At
    <2> QED BY <1>0, <1>4, <2>1 DEF FlushReturns, TypeOK, output, input, server
<1>5. CASE WaitForWritable
    <2>1. call' \in Call
        BY <1>0, <1>5, InFlush, FlushCall DEF WaitForWritable, At
    <2>2. batch' \in Seq(Message) /\ toClient' \in Seq(Message)
        BY <1>5, ReadType DEF WaitForWritable
    <2> QED BY <1>0, <1>5, <2>1, <2>2 DEF WaitForWritable, TypeOK, output, server
<1>6. CASE PutRequest
    <2>1. call.query \in BOOLEAN /\ call.discard \in BOOLEAN
        BY <1>6, AtType DEF PutRequest, At
    <2>2. [number |-> request + 1, query |-> call.query] \in Request
        BY <1>0, <2>1 DEF Request
    <2>3. Append(buffer, [number |-> request + 1, query |-> call.query]) \in Seq(Request)
        BY <1>0, <2>2, AppendProperties
    <2>4. /\ Flush([at |-> "reply", number |-> request + 1, discard |-> call.discard])
                \in Call
          /\ User \in Call
        BY <1>0, <2>1, SimplePlaces, FlushCall, request + 1 \in Nat
    <2>5. buffer' \in Seq(Request) /\ unsent' \in Seq(Request) /\ call' \in Call
        <3>1. CASE call.query
            BY <3>1, <1>0, <1>6, <2>3, <2>4 DEF PutRequest
        <3>2. CASE ~call.query
            BY <3>2, <1>0, <1>6, <2>3, <2>4 DEF PutRequest
        <3> QED BY <3>1, <3>2
    <2> QED BY <1>0, <1>6, <2>5 DEF PutRequest, TypeOK, input, server
<1>7. CASE ReplyRead
    <2>1. call.number \in Nat
        BY <1>7, AtType DEF ReplyRead, At
    <2>2. Head(toClient) \in Message /\ Tail(toClient) \in Seq(Message)
        BY <1>7, FirstMessage DEF ReplyRead
    <2>3. lastRead' \in Nat
        BY <1>7, <2>1, <2>2, WidenedType DEF ReplyRead, Message
    <2>4. call' \in Call /\ queue' \in Seq(Given) /\ answered' \in Nat
        BY <1>0, <1>7, <2>1, SimplePlaces DEF ReplyRead, ReturnReply
    <2> QED BY <1>0, <1>7, <2>2, <2>3, <2>4 DEF ReplyRead, TypeOK, output, server
<1>8. CASE ErrorRead
    <2>1. call.number \in Nat
        BY <1>8, AtType DEF ErrorRead, At
    <2>2. Head(toClient) \in Message /\ Tail(toClient) \in Seq(Message)
        BY <1>8, FirstMessage DEF ErrorRead
    <2>3. [serial |-> Widened(Head(toClient).seq), of |-> Head(toClient).of] \in Given
        BY <2>2, GivenType
    <2>4. lastRead' \in Nat /\ error' \in Given
        BY <1>0, <1>8, <2>3 DEF ErrorRead, Given
    <2>5. call' \in Call /\ queue' \in Seq(Given) /\ answered' \in Nat
        BY <1>0, <1>8, <2>1, SimplePlaces DEF ErrorRead, ReturnReply
    <2> QED BY <1>0, <1>8, <2>2, <2>4, <2>5 DEF ErrorRead, TypeOK, output, server
<1>9. CASE EventRead
    <2>1. Head(toClient) \in Message /\ Tail(toClient) \in Seq(Message)
        BY <1>9, FirstMessage DEF EventRead
    <2>2. [serial |-> Widened(Head(toClient).seq), of |-> Head(toClient).of] \in Given
        BY <2>1, GivenType
    <2>3. lastRead' \in Nat /\ queue' \in Seq(Given)
        BY <1>0, <1>9, <2>2, AppendProperties DEF EventRead, Given
    <2> QED BY <1>0, <1>9, <2>1, <2>3 DEF EventRead, TypeOK, output, server
<1>10. CASE EventsQueued
    <2>1. batch' \in Seq(Message) /\ toClient' \in Seq(Message)
        BY <1>10, ReadType DEF EventsQueued
    <2>2. call' \in Call
        BY <1>10, SimplePlaces DEF EventsQueued
    <2> QED BY <1>0, <1>10, <2>1, <2>2 DEF EventsQueued, TypeOK, output, server
<1>11. CASE ReadArrived
    <2>1. batch' \in Seq(Message) /\ toClient' \in Seq(Message)
        BY <1>11, ReadType DEF ReadArrived
    <2>2. call' \in Call
        BY <1>11, AtType, SimplePlaces DEF ReadArrived, At
    <2> QED BY <1>0, <1>11, <2>1, <2>2 DEF ReadArrived, TypeOK, output, server
<1>12. CASE NothingArrived
    <2>1. call.any \in BOOLEAN
        BY <1>12, AtType DEF NothingArrived, At
    <2>2. /\ call' \in Call /\ buffer' \in Seq(Request) /\ unsent' \in Seq(Request)
        BY <1>0, <1>12, <2>1, SimplePlaces, FlushCall DEF NothingArrived, StartFlush, output
    <2> QED BY <1>0, <1>12, <2>2 DEF NothingArrived, TypeOK, input, server
<1>13. CASE AfterFlush
    <2>1. call' \in Call
        BY <1>13, AtType, SimplePlaces DEF AfterFlush, At
    <2> QED BY <1>0, <1>13, <2>1 DEF AfterFlush, TypeOK, output, input, server
<1>14. CASE ReadOne
    <2>1. 1 \in 0..Len(toClient)
        BY <1>0, <1>14, EmptySeq DEF ReadOne
    <2>2. batch' \in Seq(Message) /\ toClient' \in Seq(Message)
        BY <1>14, <2>1, ReadType DEF ReadOne
    <2>3. call' \in Call
        BY <1>14, AtType, SimplePlaces DEF ReadOne, At
    <2> QED BY <1>0, <1>14, <2>2, <2>3 DEF ReadOne, TypeOK, output, server
<1>15. CASE EndOfLoop
    <2>1. call' \in Call
        BY <1>15, AtType, SimplePlaces DEF EndOfLoop, At
    <2> QED BY <1>0, <1>15, <2>1 DEF EndOfLoop, TypeOK, output, input, server
<1>16. CASE GotEvent
    <2>1. call' \in Call
        BY <1>16, AtType, SimplePlaces DEF GotEvent, At, ReadEvents
    <2>2. queue' \in Seq(Given)
        <3>1. ~call.any => queue # <<>>
            BY <1>16 DEF GotEvent, At, Queueing
        <3>2. ASSUME ~call.any, queue' = Tail(queue) PROVE queue' \in Seq(Given)
            BY <1>0, <3>1, <3>2, HeadTailProperties
        <3>3. ASSUME NEW i \in DOMAIN queue, Take(i) PROVE queue' \in Seq(Given)
            BY <3>3, TakeType
        <3> QED BY <1>0, <1>16, <3>2, <3>3 DEF GotEvent
    <2> QED BY <1>0, <1>16, <2>1, <2>2 DEF GotEvent, TypeOK, output, server
<1>17. CASE Program
    <2> DEFINE Kept == UNCHANGED <<request, lastRead, error, batch, sequence, events,
                                   toServer, toClient, answered>>
               Typed == /\ call' \in Call /\ queue' \in Seq(Given)
                        /\ buffer' \in Seq(Request) /\ unsent' \in Seq(Request)
    <2>1. ASSUME NEW query \in BOOLEAN, NEW discard \in BOOLEAN,
                 MakeRequest(query, discard)
          PROVE  Kept /\ Typed
        BY <1>0, <2>1, SimplePlaces, FlushCall
        DEF MakeRequest, StartFlush, input, output, server
    <2>2. ASSUME XFlush PROVE Kept /\ Typed
        BY <1>0, <2>2, SimplePlaces, FlushCall DEF XFlush, StartFlush, input, server
    <2>3. ASSUME XPending PROVE Kept /\ Typed
        BY <1>0, <2>3, SimplePlaces, FlushCall DEF XPending, StartFlush, input, server
    <2>4. ASSUME QueuedAfterReading PROVE Kept /\ Typed
        BY <1>0, <2>4, SimplePlaces DEF QueuedAfterReading, input, output, server
    <2>5. ASSUME TakeQueued PROVE Kept /\ Typed
        BY <1>0, <2>5, TakeType DEF TakeQueued, output, server
    <2>6. ASSUME NEW any \in BOOLEAN, WaitForEvent(any)
          PROVE  Kept /\ Typed
        BY <1>0, <2>6, SimplePlaces DEF WaitForEvent, ReadEvents, input, output, server
    <2>7. Kept /\ Typed
        BY <1>17, <2>1, <2>2, <2>3, <2>4, <2>5, <2>6 DEF Program
    <2> QED BY <1>0, <2>7 DEF TypeOK
<1>18. CASE Serve
    <2>1. toServer' \in Seq(Request)
        BY <1>0, <1>18, HeadTailProperties DEF Serve
    <2>2. toClient' \in Seq(Message)
        BY <1>0, <1>18, SendType, sequence + 1 \in Nat DEF Serve
    <2> QED BY <1>0, <1>18, <2>1, <2>2 DEF Serve, TypeOK, output, input
<1>19. CASE SendEvent
    <2>1. toClient' \in Seq(Message)
        BY <1>0, <1>19, SendType DEF SendEvent
    <2> QED BY <1>0, <1>19, <2>1 DEF SendEvent, TypeOK, output, input
<1>20. CASE UNCHANGED vars
    BY <1>0, <1>20 DEF vars, TypeOK, output, input, server
<1> QED BY <1>1, <1>2, <1>3, <1>4, <1>5, <1>6, <1>7, <1>8, <1>9, <1>10, <1>11, <1>12,
           <1>13, <1>14, <1>15, <1>16, <1>17, <1>18, <1>19, <1>20 DEF Next, Inside

-----------------------------------------------------------------------------
(* Where the client has what.                                               *)

LEMMA ControlStep ==
    ASSUME TypeOK, Control, Queueing, [Next]_vars
    PROVE  Control' /\ Queueing'
<1>0. Len(queue) \in Nat /\ (Len(queue) = 0 <=> queue = <<>>)
    BY EmptySeq, LenProperties DEF TypeOK
<1>1. CASE HandleMessage
    BY <1>0, <1>1, InFlush, AtType
    DEF HandleMessage, output, server, At, Where, Control, Queueing
<1>2. CASE WriteToServer
    BY <1>0, <1>2, InFlush, AtType
    DEF WriteToServer, input, server, At, Where, Control, Queueing
<1>3. CASE WouldBlock
    BY <1>0, <1>3, InFlush, AtType
    DEF WouldBlock, output, input, server, At, Where, Control, Queueing
<1>4. CASE FlushReturns
    BY <1>0, <1>4, InFlush, AtType
    DEF FlushReturns, output, input, server, At, Where, Control, Queueing
<1>5. CASE WaitForWritable
    BY <1>0, <1>5, InFlush, AtType
    DEF WaitForWritable, Flush, Read, output, server, At, Where, Control, Queueing
<1>6. CASE PutRequest
    BY <1>0, <1>6, InFlush, AtType
    DEF PutRequest, Flush, User, input, server, At, Where, Control, Queueing
<1>7. CASE ReplyRead
    BY <1>0, <1>7, InFlush, AtType
    DEF ReplyRead, ReturnReply, User, output, server, At, Where, Control, Queueing
<1>8. CASE ErrorRead
    BY <1>0, <1>8, InFlush, AtType
    DEF ErrorRead, ReturnReply, User, output, server, At, Where, Control, Queueing
<1>9. CASE EventRead
    BY <1>0, <1>9, InFlush, AtType
    DEF EventRead, output, server, At, Where, Control, Queueing
<1>10. CASE EventsQueued
    BY <1>0, <1>10, InFlush, AtType
    DEF EventsQueued, User, Read, output, server, At, Where, Control, Queueing
<1>11. CASE ReadArrived
    BY <1>0, <1>11, InFlush, AtType
    DEF ReadArrived, Read, output, server, At, Where, Control, Queueing
<1>12. CASE NothingArrived
    BY <1>0, <1>12, InFlush, AtType
    DEF NothingArrived, StartFlush, Flush, output, input, server, At, Where, Control, Queueing
<1>13. CASE AfterFlush
    BY <1>0, <1>13, InFlush, AtType
    DEF AfterFlush, output, input, server, At, Where, Control, Queueing
<1>14. CASE ReadOne
    BY <1>0, <1>14, InFlush, AtType
    DEF ReadOne, Read, output, server, At, Where, Control, Queueing
<1>15. CASE EndOfLoop
    BY <1>0, <1>15, InFlush, AtType
    DEF EndOfLoop, output, input, server, At, Where, Control, Queueing
<1>16. CASE GotEvent
    BY <1>0, <1>16, InFlush, AtType
    DEF GotEvent, User, ReadEvents, output, server, At, Where, Control, Queueing
<1>17. CASE Serve
    BY <1>0, <1>17, InFlush, AtType
    DEF Serve, output, input, At, Where, Control, Queueing
<1>18. CASE SendEvent
    BY <1>0, <1>18, InFlush, AtType
    DEF SendEvent, output, input, At, Where, Control, Queueing
<1>19. CASE Program
    <2>1. ASSUME NEW query \in BOOLEAN, NEW discard \in BOOLEAN,
                 MakeRequest(query, discard)
          PROVE  Control' /\ Queueing'
        BY <2>1 DEF MakeRequest, StartFlush, Flush, input, output, server, At, Where,
                    Control, Queueing
    <2>2. ASSUME XFlush PROVE Control' /\ Queueing'
        BY <2>2 DEF XFlush, StartFlush, Flush, User, input, server, At, Where, Control,
                    Queueing
    <2>3. ASSUME XPending PROVE Control' /\ Queueing'
        BY <2>3 DEF XPending, StartFlush, Flush, input, server, At, Where, Control,
                    Queueing
    <2>4. ASSUME QueuedAfterReading PROVE Control' /\ Queueing'
        BY <2>4 DEF QueuedAfterReading, input, output, server, At, Where, Control,
                    Queueing
    <2>5. ASSUME TakeQueued PROVE Control' /\ Queueing'
        BY <2>5 DEF TakeQueued, output, server, At, Where, Control, Queueing
    <2>6. ASSUME NEW any \in BOOLEAN, WaitForEvent(any)
          PROVE  Control' /\ Queueing'
        BY <2>6 DEF WaitForEvent, ReadEvents, input, output, server, At, Where, Control,
                    Queueing
    <2> QED BY <1>19, <2>1, <2>2, <2>3, <2>4, <2>5, <2>6 DEF Program
<1>20. CASE UNCHANGED vars
    BY <1>20 DEF vars, output, input, server, Where, Control, Queueing
<1> QED BY <1>1, <1>2, <1>3, <1>4, <1>5, <1>6, <1>7, <1>8, <1>9, <1>10, <1>11, <1>12,
           <1>13, <1>14, <1>15, <1>16, <1>17, <1>18, <1>19, <1>20 DEF Next, Inside

-----------------------------------------------------------------------------
(* The messages the client has not looked at.                               *)

ComingIsBoth ==
    /\ Coming \in Seq(Message) /\ DOMAIN Coming = 1..Len(Coming)
    /\ Len(Coming) = Len(batch) + Len(toClient)
    /\ Len(batch) \in Nat /\ Len(toClient) \in Nat
    /\ \A i \in 1..Len(Coming) :
        /\ Coming[i] \in Message
        /\ Coming[i] = IF i <= Len(batch) THEN batch[i]
                       ELSE toClient[i - Len(batch)]

LEMMA ComingType == TypeOK => ComingIsBoth
<1> SUFFICES ASSUME TypeOK PROVE ComingIsBoth
    OBVIOUS
<1>1. batch \in Seq(Message) /\ toClient \in Seq(Message)
    BY DEF TypeOK
<1>2. Coming \in Seq(Message)
    BY <1>1, ConcatProperties DEF Coming
<1>3. \A i \in 1..Len(Coming) : Coming[i] \in Message
    BY <1>2, ElementOfSeq
<1>4. /\ Len(batch) \in Nat /\ Len(toClient) \in Nat
      /\ Len(Coming) = Len(batch) + Len(toClient)
      /\ \A i \in 1..Len(batch) + Len(toClient) :
            Coming[i] = IF i <= Len(batch) THEN batch[i] ELSE toClient[i - Len(batch)]
    BY <1>1, ConcatProperties, LenProperties DEF Coming
<1>5. DOMAIN Coming = 1..Len(Coming)
    BY <1>2, LenProperties
<1> QED BY <1>2, <1>3, <1>4, <1>5 DEF ComingIsBoth

\* A read() moves messages from one to the other.
LEMMA ReadKeepsComing ==
    ASSUME TypeOK, batch = <<>>, NEW k \in 0..Len(toClient), Read(k)
    PROVE  Coming' = Coming /\ Len(batch') = k
<1>1. toClient \in Seq(Message) /\ Len(toClient) \in Nat
    BY LenProperties DEF TypeOK
<1>2. SubSeq(toClient, 1, k) \o SubSeq(toClient, k + 1, Len(toClient))
        = SubSeq(toClient, 1, Len(toClient))
    BY <1>1, ConcatAdjacentSubSeq, 1 \in 1..Len(toClient) + 1,
       k \in 1 - 1..Len(toClient), Len(toClient) \in k..Len(toClient)
<1>3. SubSeq(toClient, 1, Len(toClient)) = toClient
    BY <1>1, SubSeqFull
<1>4. Coming = toClient
    BY <1>1, ConcatEmptySeq DEF Coming
<1>5. Len(batch') = k
    BY <1>1, Prefix DEF Read
<1> QED BY <1>2, <1>3, <1>4, <1>5, ZenonT(30) DEF Coming, Read

\* The first message is taken.
FirstTaken ==
    /\ Len(Coming') = Len(Coming) - 1 /\ Len(Coming) > 0
    /\ DOMAIN Coming' = 1..Len(Coming) - 1
    /\ \A i \in 1..Len(Coming) - 1 : Coming'[i] = Coming[i + 1]

LEMMA HeadOfBatch ==
    ASSUME TypeOK, TypeOK', batch # <<>>, batch' = Tail(batch), toClient' = toClient
    PROVE  /\ FirstTaken
           /\ Head(batch) = Coming[1] /\ Len(batch') = Len(batch) - 1 /\ Len(batch) > 0
<1>1. batch \in Seq(Message) /\ Len(batch) \in Nat \ {0}
    BY EmptySeq DEF TypeOK
<1>2. /\ Len(Tail(batch)) = Len(batch) - 1
      /\ \A i \in 1..Len(Tail(batch)) : Tail(batch)[i] = batch[i + 1]
    BY <1>1, HeadTailProperties
<1>3. Head(batch) = batch[1]
    BY <1>1
<1>4. /\ Coming' \in Seq(Message) /\ DOMAIN Coming' = 1..Len(Coming')
      /\ Len(Coming') = Len(batch') + Len(toClient')
      /\ \A i \in 1..Len(Coming') :
            Coming'[i] = IF i <= Len(batch') THEN batch'[i]
                         ELSE toClient'[i - Len(batch')]
    <2>1. ComingIsBoth'
        BY ComingType, PTL
    <2> QED BY <2>1, ZenonT(30) DEF ComingIsBoth
<1>5. /\ Len(toClient) \in Nat /\ Len(Coming) = Len(batch) + Len(toClient)
      /\ \A i \in 1..Len(Coming) :
            Coming[i] = IF i <= Len(batch) THEN batch[i] ELSE toClient[i - Len(batch)]
    BY ComingType, ZenonT(30) DEF ComingIsBoth
<1>6. ASSUME NEW i \in 1..Len(Coming) - 1
      PROVE  Coming'[i] = Coming[i + 1]
    <2>1. CASE i <= Len(batch) - 1
        <3>1. Coming'[i] = Tail(batch)[i]
            BY <1>1, <1>2, <1>4, <1>5, <2>1
        <3>2. Tail(batch)[i] = batch[i + 1]
            BY <1>1, <1>2, <2>1
        <3> QED BY <1>1, <1>5, <2>1, <3>1, <3>2
    <2>2. CASE i > Len(batch) - 1
        <3>1. Coming'[i] = toClient[i - (Len(batch) - 1)]
            BY <1>1, <1>2, <1>4, <1>5, <2>2
        <3>2. Coming[i + 1] = toClient[i + 1 - Len(batch)]
            BY <1>1, <1>5, <2>2
        <3> QED BY <1>1, <3>1, <3>2, i - (Len(batch) - 1) = i + 1 - Len(batch)
    <2> QED BY <1>1, <2>1, <2>2
<1> QED BY <1>1, <1>2, <1>3, <1>4, <1>5, <1>6 DEF FirstTaken

LEMMA HeadOfSocket ==
    ASSUME TypeOK, TypeOK', batch = <<>>, toClient # <<>>, batch' = batch,
           toClient' = Tail(toClient)
    PROVE  FirstTaken /\ Head(toClient) = Coming[1]
<1>1. toClient \in Seq(Message) /\ Len(toClient) \in Nat \ {0} /\ Tail(toClient) \in Seq(Message)
    BY EmptySeq, HeadTailProperties DEF TypeOK
<1>2. Coming = toClient /\ Coming' = Tail(toClient)
    BY <1>1, ConcatEmptySeq DEF Coming
<1>3. /\ Len(Tail(toClient)) = Len(toClient) - 1
      /\ DOMAIN Tail(toClient) = 1..Len(toClient) - 1
      /\ \A i \in 1..Len(Tail(toClient)) : Tail(toClient)[i] = toClient[i + 1]
    BY <1>1, HeadTailProperties, LenProperties
<1>4. Head(toClient) = toClient[1]
    BY <1>1
<1> QED BY <1>1, <1>2, <1>3, <1>4 DEF FirstTaken

\* Message m is sent.
Sent(m) ==
    /\ Len(Coming') = Len(Coming) + 1
    /\ DOMAIN Coming' = 1..Len(Coming) + 1
    /\ \A i \in 1..Len(Coming) : Coming'[i] = Coming[i]
    /\ Coming'[Len(Coming) + 1] = m

LEMMA SendComing ==
    ASSUME TypeOK, TypeOK', batch' = batch,
           NEW type \in {"reply", "error", "event"}, NEW of \in Nat, Send(type, of)
    PROVE  Sent([type |-> type, seq |-> of % SeqSize, of |-> of])
<1> DEFINE m == [type |-> type, seq |-> of % SeqSize, of |-> of]
<1>1. m \in Message
    BY SentMessage
<1>2. toClient' = Append(toClient, m)
    BY DEF Send
<1> HIDE DEF m
<1>3. toClient \in Seq(Message) /\ Len(toClient) \in Nat /\ Len(batch) \in Nat
    BY LenProperties DEF TypeOK
<1>4. /\ Len(toClient') = Len(toClient) + 1
      /\ \A i \in 1..Len(toClient) : toClient'[i] = toClient[i]
      /\ toClient'[Len(toClient) + 1] = m
    BY <1>1, <1>2, <1>3, AppendProperties
<1>5. /\ DOMAIN Coming' = 1..Len(Coming')
      /\ Len(Coming') = Len(batch) + Len(toClient')
      /\ \A i \in 1..Len(Coming') :
            Coming'[i] = IF i <= Len(batch) THEN batch[i]
                         ELSE toClient'[i - Len(batch)]
    <2>1. ComingIsBoth'
        BY ComingType, PTL
    <2> QED BY <2>1, ZenonT(30) DEF ComingIsBoth
<1>6. /\ Len(Coming) = Len(batch) + Len(toClient)
      /\ \A i \in 1..Len(Coming) :
            Coming[i] = IF i <= Len(batch) THEN batch[i] ELSE toClient[i - Len(batch)]
    BY ComingType, ZenonT(30) DEF ComingIsBoth
<1>7. ASSUME NEW i \in 1..Len(Coming)
      PROVE  Coming'[i] = Coming[i]
    <2>1. CASE i <= Len(batch)
        BY <1>3, <1>4, <1>5, <1>6, <2>1, SMTT(30)
    <2>2. CASE i > Len(batch)
        <3>1. i - Len(batch) \in 1..Len(toClient)
            BY <1>3, <1>6, <2>2
        <3>2. Coming'[i] = toClient'[i - Len(batch)]
            <4>1. i \in 1..Len(Coming') /\ ~(i <= Len(batch))
                BY <1>3, <1>4, <1>5, <1>6, <2>2
            <4> QED BY <4>1, <1>5
        <3>3. Coming[i] = toClient[i - Len(batch)]
            BY <1>3, <1>6, <2>2
        <3> QED BY <1>4, <3>1, <3>2, <3>3
    <2> QED BY <1>3, <1>6, <2>1, <2>2
<1>8. Coming'[Len(Coming) + 1] = m
    BY <1>3, <1>4, <1>5, <1>6
<1> QED BY <1>3, <1>4, <1>5, <1>6, <1>7, <1>8 DEF Sent, m

-----------------------------------------------------------------------------
(* How the client gets from place to place.                                 *)

\* It stays where it is.
Staying ==
    \/ HandleMessage \/ WriteToServer \/ WouldBlock \/ FlushReturns \/ WaitForWritable
    \/ EventRead \/ Serve \/ SendEvent \/ UNCHANGED vars

LEMMA Stays ==
    ASSUME TypeOK, Staying
    PROVE  Where' = Where /\ UNCHANGED <<request, answered>>
BY InFlush, AtType
DEF Staying, HandleMessage, WriteToServer, WouldBlock, FlushReturns, WaitForWritable,
    EventRead, Serve, SendEvent, vars, output, input, server, At, Where, Flush

\* It goes on without a reply.
Moving ==
    \/ EventsQueued \/ ReadArrived \/ NothingArrived \/ AfterFlush \/ ReadOne
    \/ EndOfLoop \/ GotEvent \/ Program

Moved ==
    /\ ~Asked /\ ~Asked'
    /\ Where'.at = "put" /\ ~Where'.query => request < answered + MaxSilence
    /\ UNCHANGED <<request, lastRead, answered, sequence, toServer>>
    /\ Coming' = Coming
    /\ \/ UNCHANGED <<buffer, unsent>>
       \/ unsent = <<>> /\ unsent' = buffer /\ buffer' = <<>>

LEMMA Moves ==
    ASSUME TypeOK, Control, Moving
    PROVE  Moved
<1>1. ASSUME EventsQueued \/ ReadArrived \/ ReadOne PROVE Moved
    <2>1. PICK k \in 0..Len(toClient) : Read(k)
        <3>1. Len(toClient) \in Nat /\ (toClient # <<>> => Len(toClient) > 0)
            BY EmptySeq, LenProperties DEF TypeOK
        <3>2. ASSUME EventsQueued \/ ReadArrived
              PROVE  \E k \in 0..Len(toClient) : Read(k)
            BY <3>1, <3>2 DEF EventsQueued, ReadArrived
        <3>3. ASSUME ReadOne PROVE 1 \in 0..Len(toClient) /\ Read(1)
            BY <3>1, <3>3 DEF ReadOne
        <3> QED BY <1>1, <3>2, <3>3
    <2>2. batch = <<>>
        BY <1>1 DEF EventsQueued, ReadArrived, ReadOne, At
    <2>3. Coming' = Coming
        BY <2>1, <2>2, ReadKeepsComing
    <2> QED BY <1>1, <2>3, AtType
        DEF EventsQueued, ReadArrived, ReadOne, At, Moved, Asked, Where, User, output,
            server
<1>2. ASSUME NothingArrived PROVE Moved
    BY <1>2 DEF NothingArrived, StartFlush, Flush, At, Control, Moved, Asked, Where,
                Coming, output, input, server
<1>3. ASSUME AfterFlush \/ EndOfLoop \/ GotEvent PROVE Moved
    BY <1>3, AtType
    DEF AfterFlush, EndOfLoop, GotEvent, User, ReadEvents, At, Moved, Asked, Where,
        Coming, output, input, server
<1>4. ASSUME NEW query \in BOOLEAN, NEW discard \in BOOLEAN, MakeRequest(query, discard)
      PROVE  Moved
    <2>1. ~query => request < answered + MaxSilence
        BY <1>4, XlibAssumption DEF MakeRequest, TypeOK
    <2> QED BY <1>4, <2>1
        DEF MakeRequest, StartFlush, Flush, At, Control, Moved, Asked, Where, Coming,
            output, input, server
<1>5. ASSUME XFlush \/ XPending \/ QueuedAfterReading \/ TakeQueued PROVE Moved
    BY <1>5
    DEF XFlush, XPending, QueuedAfterReading, TakeQueued, StartFlush, Flush, User, At,
        Control, Moved, Asked, Where, Coming, output, input, server
<1>6. ASSUME NEW any \in BOOLEAN, WaitForEvent(any) PROVE Moved
    BY <1>6 DEF WaitForEvent, ReadEvents, At, Moved, Asked, Where, Coming, output, input,
                server
<1> QED BY <1>1, <1>2, <1>3, <1>4, <1>5, <1>6 DEF Moving, Program

\* It makes a request.
LEMMA Puts ==
    ASSUME TypeOK, Control, PutRequest
    PROVE  /\ ~Asked /\ unsent = <<>> /\ Where = call
           /\ Where' = IF call.query
                       THEN [at |-> "reply", number |-> request + 1,
                             discard |-> call.discard]
                       ELSE User
           /\ Asked' <=> call.query
           /\ request' = request + 1 /\ Coming' = Coming
           /\ UNCHANGED <<lastRead, answered, sequence, toServer>>
<1>1. call.query \in BOOLEAN
    BY AtType DEF PutRequest, At
<1> QED BY <1>1 DEF PutRequest, Flush, User, At, Control, Asked, Where, Coming, input, server

\* It has the answer.
Returning == (ReplyRead \/ ErrorRead) /\ call' = User

LEMMA Returns ==
    ASSUME TypeOK, Returning
    PROVE  /\ Asked /\ ~Asked' /\ Where = call /\ Where'.at = "user"
           /\ answered' = call.number
           /\ UNCHANGED <<request, sequence, buffer, unsent, toServer, batch>>
BY DEF Returning, ReplyRead, ErrorRead, ReturnReply, User, At, Asked, Where, output, server

\* Or another error came.
OtherError == ErrorRead /\ call' # User

LEMMA WaitsOn ==
    ASSUME TypeOK, OtherError
    PROVE  /\ Where' = Where /\ Where = call
           /\ UNCHANGED <<request, answered, sequence, buffer, unsent, toServer, batch>>
BY DEF OtherError, ErrorRead, ReturnReply, User, At, Where, output, server

LEMMA EveryStep ==
    ASSUME [Next]_vars
    PROVE  Staying \/ Moving \/ PutRequest \/ Returning \/ OtherError
BY DEF Next, Inside, Staying, Moving, Returning, OtherError, ReplyRead, ReturnReply

-----------------------------------------------------------------------------
(* Requests on their way.                                                   *)

\* After the answer to the last request there is nothing more to answer.
LEMMA NothingAfterTheLast ==
    ASSUME TypeOK, Pipeline, Ordered, NEW i \in DOMAIN Coming, Coming[i].of = request
    PROVE  /\ sequence = request
           /\ toServer = <<>> /\ unsent = <<>> /\ buffer = <<>>
           /\ \A j \in DOMAIN Coming : j > i => Coming[j].type = "event"
<1>1. /\ request \in Nat /\ sequence \in Nat
      /\ Len(toServer) \in Nat /\ Len(unsent) \in Nat /\ Len(buffer) \in Nat
      /\ Len(toServer) = 0 => toServer = <<>>
      /\ Len(unsent) = 0 => unsent = <<>>
      /\ Len(buffer) = 0 => buffer = <<>>
    BY EmptySeq, LenProperties DEF TypeOK
<1>2. sequence >= request
    BY DEF Ordered
<1>3. sequence = request /\ toServer = <<>> /\ unsent = <<>> /\ buffer = <<>>
    BY <1>1, <1>2 DEF Pipeline
<1>4. ASSUME NEW j \in DOMAIN Coming, j > i, Coming[j].type # "event"
      PROVE  FALSE
    <2>1. Coming[i].of < Coming[j].of /\ Coming[j].of <= sequence
        BY <1>4, ComingType DEF Ordered, ComingIsBoth
    <2>2. Coming[j].of \in Nat
        BY <1>4, ComingType DEF ComingIsBoth, Message
    <2> QED BY <1>1, <1>3, <2>1, <2>2
<1> QED BY <1>3, <1>4

\* While the client waits to write, no reply is on its way.
LEMMA NoReplyBeforeTheQuery ==
    ASSUME TypeOK, Pipeline, Ordered, Answers, unsent # <<>>,
           NEW i \in DOMAIN Coming
    PROVE  Coming[i].type # "reply"
BY NothingAfterTheLast DEF Answers

\* What returns from _XReply is the answer to the last request.
LEMMA TheAnswer ==
    ASSUME TypeOK, TypeOK', Pipeline, Ordered, Answers, Returning
    PROVE  /\ FirstTaken /\ Coming[1].of = request /\ call.number = request
           /\ lastRead' = request /\ 1 \in DOMAIN Coming
<1>1. /\ batch = <<>> /\ toClient # <<>> /\ batch' = batch /\ toClient' = Tail(toClient)
    BY DEF Returning, ReplyRead, ErrorRead, At
<1>2. FirstTaken /\ Head(toClient) = Coming[1]
    BY <1>1, HeadOfSocket
<1>3. 1 \in DOMAIN Coming /\ Coming[1] \in Message /\ request \in Nat /\ lastRead \in Nat
    <2>1. Len(Coming) \in Nat /\ DOMAIN Coming = 1..Len(Coming)
        BY ComingType DEF ComingIsBoth
    <2>2. 1 \in DOMAIN Coming
        BY <1>2, <2>1 DEF FirstTaken
    <2> QED BY <2>1, <2>2, ComingType DEF ComingIsBoth, TypeOK
<1>4. call.number = request
    BY Returns DEF Answers
<1>5. CASE ReplyRead
    <2>1. Coming[1].type = "reply"
        BY <1>2, <1>5 DEF ReplyRead
    <2>2. Coming[1].of = request
        BY <1>3, <2>1 DEF Answers
    <2>3. Coming[1].seq = request % SeqSize
        BY <1>3, <2>2 DEF Ordered
    <2> QED BY <1>2, <1>3, <1>4, <1>5, <2>2, <2>3 DEF ReplyRead
<1>6. CASE ErrorRead
    <2>1. Widened(Coming[1].seq) = request /\ lastRead' = request
        BY <1>2, <1>4, <1>6 DEF Returning, ErrorRead, User, At
    <2>2. /\ lastRead <= Coming[1].of /\ Coming[1].of <= sequence
          /\ Coming[1].seq = Coming[1].of % SeqSize
        BY <1>3 DEF Ordered
    <2>3. sequence <= request /\ sequence \in Nat
        BY LenProperties DEF TypeOK, Pipeline
    <2>4. Coming[1].of \in Nat /\ Coming[1].of <= request
        BY <1>3, <2>2, <2>3 DEF Message
    <2>5. Widened(Coming[1].of % SeqSize) \in lastRead..Coming[1].of
        BY <2>2, <2>4, WidenedRight
    <2>6. Coming[1].of = request
        BY <1>3, <2>1, <2>2, <2>4, <2>5
    <2> QED BY <1>2, <1>3, <1>4, <2>1, <2>6
<1> QED BY <1>5, <1>6 DEF Returning

LEMMA PipelineStep ==
    ASSUME TypeOK, TypeOK', Control, Pipeline, Ordered, Answers, [Next]_vars
    PROVE  Pipeline'
<1>0. /\ request \in Nat /\ sequence \in Nat
      /\ buffer \in Seq(Request) /\ unsent \in Seq(Request) /\ toServer \in Seq(Request)
      /\ Len(toServer) \in Nat /\ Len(unsent) \in Nat /\ Len(buffer) \in Nat
      /\ DOMAIN toServer = 1..Len(toServer) /\ DOMAIN unsent = 1..Len(unsent)
      /\ DOMAIN buffer = 1..Len(buffer)
      /\ Len(<<>>) = 0 /\ DOMAIN <<>> = {}
    BY LenProperties, EmptySeq DEF TypeOK
<1>1. CASE Staying
    <2>0. Asked' <=> Asked
        BY <1>1, Stays DEF Asked
    <2>1. CASE WriteToServer
        <3>1. /\ Head(unsent) = unsent[1] /\ Len(unsent) > 0 /\ Head(unsent) \in Request
              /\ Len(Tail(unsent)) = Len(unsent) - 1
              /\ DOMAIN Tail(unsent) = 1..Len(unsent) - 1
              /\ \A i \in 1..Len(unsent) - 1 : Tail(unsent)[i] = unsent[i + 1]
            BY <1>0, <2>1, EmptySeq, HeadTailProperties, LenProperties DEF WriteToServer
        <3>2. /\ Len(toServer') = Len(toServer) + 1
              /\ DOMAIN toServer' = 1..Len(toServer) + 1
              /\ \A i \in 1..Len(toServer) : toServer'[i] = toServer[i]
              /\ toServer'[Len(toServer) + 1] = unsent[1]
            BY <1>0, <2>1, <3>1, AppendProperties, LenProperties DEF WriteToServer
        <3>3. \A i \in 1..Len(toServer) : ~toServer[i].query
            BY <1>0, <2>1 DEF WriteToServer, Pipeline
        <3>4. ASSUME NEW i \in DOMAIN unsent', unsent'[i].query
              PROVE  Asked' /\ i = Len(unsent')
            BY <1>0, <2>0, <2>1, <3>1, <3>4 DEF WriteToServer, Pipeline
        <3>5. ASSUME NEW i \in DOMAIN toServer', toServer'[i].query
              PROVE  Asked' /\ i = Len(toServer') /\ unsent' = <<>>
            <4>1. i = Len(toServer) + 1
                BY <1>0, <3>2, <3>3, <3>5
            <4>2. unsent[1].query /\ 1 \in DOMAIN unsent
                BY <1>0, <3>1, <3>2, <3>5, <4>1
            <4>3. Asked /\ Len(unsent) = 1
                BY <4>2 DEF Pipeline
            <4>4. unsent' = <<>>
                BY <1>0, <2>1, <3>1, <4>3, EmptySeq, HeadTailProperties DEF WriteToServer
            <4> QED BY <2>0, <3>2, <4>1, <4>3, <4>4
        <3>6. /\ sequence' + Len(toServer') + Len(unsent') + Len(buffer') = request'
              /\ \A i \in DOMAIN buffer' : ~buffer'[i].query
            BY <1>0, <2>1, <3>1, <3>2 DEF WriteToServer, Pipeline, server
        <3> QED BY <3>4, <3>5, <3>6 DEF Pipeline
    <2>2. CASE Serve
        <3>1. /\ Len(toServer) > 0 /\ Len(Tail(toServer)) = Len(toServer) - 1
              /\ DOMAIN Tail(toServer) = 1..Len(toServer) - 1
              /\ \A i \in 1..Len(toServer) - 1 : Tail(toServer)[i] = toServer[i + 1]
            BY <1>0, <2>2, EmptySeq, HeadTailProperties, LenProperties DEF Serve
        <3>2. /\ toServer' = Tail(toServer) /\ sequence' = sequence + 1
              /\ UNCHANGED <<request, buffer, unsent>>
            BY <2>2, Stays, <1>1 DEF Serve, output
        <3>3. sequence' + Len(toServer') + Len(unsent') + Len(buffer') = request'
            <4>1. sequence + Len(toServer) + Len(unsent) + Len(buffer) = request
                BY DEF Pipeline
            <4>2. /\ Len(toServer') = Len(toServer) - 1 /\ sequence' = sequence + 1
                  /\ Len(unsent') = Len(unsent) /\ Len(buffer') = Len(buffer)
                  /\ request' = request
                BY <3>1, <3>2
            <4> QED BY <1>0, <4>1, <4>2
        <3>4. ASSUME NEW i \in DOMAIN toServer', toServer'[i].query
              PROVE  Asked' /\ i = Len(toServer') /\ unsent' = <<>>
            <4>1. i \in 1..Len(toServer) - 1 /\ toServer[i + 1].query
                BY <3>1, <3>2, <3>4
            <4>2. Asked /\ i + 1 = Len(toServer) /\ unsent = <<>>
                BY <1>0, <4>1 DEF Pipeline
            <4> QED BY <1>0, <2>0, <3>1, <3>2, <4>1, <4>2
        <3> QED BY <2>0, <3>2, <3>3, <3>4 DEF Pipeline
    <2>3. CASE ~WriteToServer /\ ~Serve
        <3>1. UNCHANGED <<request, sequence, buffer, unsent, toServer>>
            BY <1>1, <2>3
            DEF Staying, HandleMessage, WouldBlock, FlushReturns, WaitForWritable,
                EventRead, SendEvent, vars, output, input, server
        <3> QED BY <2>0, <3>1 DEF Pipeline
    <2> QED BY <2>1, <2>2, <2>3
<1>2. CASE Moving
    <2>1. Moved
        BY <1>2, Moves
    <2>2. \A i \in DOMAIN toServer' : ~toServer'[i].query
        BY <2>1 DEF Moved, Pipeline
    <2>3. CASE UNCHANGED <<buffer, unsent>>
        BY <2>1, <2>2, <2>3 DEF Moved, Pipeline
    <2>4. CASE unsent = <<>> /\ unsent' = buffer /\ buffer' = <<>>
        <3>1. sequence' + Len(toServer') + Len(unsent') + Len(buffer') = request'
            BY <1>0, <2>1, <2>4 DEF Moved, Pipeline
        <3> QED BY <1>0, <2>2, <2>4, <3>1 DEF Pipeline
    <2> QED BY <2>1, <2>3, <2>4 DEF Moved
<1>3. CASE PutRequest
    <2> DEFINE r == [number |-> request + 1, query |-> call.query]
    <2>1. /\ ~Asked /\ unsent = <<>> /\ (Asked' <=> call.query) /\ call.query \in BOOLEAN
          /\ request' = request + 1 /\ UNCHANGED <<sequence, toServer>>
        BY <1>3, Puts, AtType DEF PutRequest, At
    <2>2. r \in Request /\ r.query = call.query
        BY <1>0, <2>1 DEF Request
    <2>3. CASE call.query
        <3>1. unsent' = Append(buffer, r) /\ buffer' = <<>>
            BY <1>3, <2>3 DEF PutRequest
        <3> HIDE DEF r
        <3>2. /\ Len(unsent') = Len(buffer) + 1 /\ DOMAIN unsent' = 1..Len(buffer) + 1
              /\ \A i \in 1..Len(buffer) : unsent'[i] = buffer[i]
            BY <1>0, <2>2, <3>1, AppendProperties, LenProperties
        <3>3. \A i \in DOMAIN toServer' : ~toServer'[i].query
            BY <2>1 DEF Pipeline
        <3>4. sequence' + Len(toServer') + Len(unsent') + Len(buffer') = request'
            <4>1. sequence + Len(toServer) + Len(unsent) + Len(buffer) = request
                BY DEF Pipeline
            <4>2. /\ Len(toServer') = Len(toServer) /\ sequence' = sequence
                  /\ Len(unsent') = Len(buffer) + 1 /\ Len(unsent) = 0
                  /\ Len(buffer') = 0 /\ request' = request + 1
                BY <1>0, <2>1, <3>1, <3>2
            <4> QED BY <1>0, <4>1, <4>2
        <3>5. ASSUME NEW i \in DOMAIN unsent', unsent'[i].query
              PROVE  Asked' /\ i = Len(unsent')
            BY <1>0, <2>1, <2>3, <3>2, <3>5 DEF Pipeline
        <3> QED BY <1>0, <3>1, <3>3, <3>4, <3>5 DEF Pipeline
    <2>4. CASE ~call.query
        <3>1. buffer' = Append(buffer, r) /\ unsent' = unsent
            BY <1>3, <2>4 DEF PutRequest
        <3> HIDE DEF r
        <3>2. /\ Len(buffer') = Len(buffer) + 1 /\ DOMAIN buffer' = 1..Len(buffer) + 1
              /\ \A i \in 1..Len(buffer) : buffer'[i] = buffer[i]
              /\ buffer'[Len(buffer) + 1] = r
            BY <1>0, <2>2, <3>1, AppendProperties, LenProperties
        <3>3. \A i \in DOMAIN buffer' : ~buffer'[i].query
            BY <1>0, <2>2, <2>4, <3>2 DEF Pipeline
        <3>4. \A i \in DOMAIN toServer' : ~toServer'[i].query
            BY <2>1 DEF Pipeline
        <3>5. sequence' + Len(toServer') + Len(unsent') + Len(buffer') = request'
            <4>1. sequence + Len(toServer) + Len(unsent) + Len(buffer) = request
                BY DEF Pipeline
            <4>2. /\ Len(toServer') = Len(toServer) /\ sequence' = sequence
                  /\ Len(buffer') = Len(buffer) + 1 /\ Len(unsent') = Len(unsent)
                  /\ request' = request + 1
                BY <1>0, <2>1, <3>1, <3>2
            <4> QED BY <1>0, <4>1, <4>2
        <3> QED BY <1>0, <2>1, <3>1, <3>3, <3>4, <3>5 DEF Pipeline
    <2> QED BY <2>3, <2>4
<1>4. CASE Returning
    <2>1. toServer = <<>> /\ unsent = <<>> /\ buffer = <<>>
        BY <1>4, TheAnswer, NothingAfterTheLast
    <2> QED BY <1>0, <1>4, <2>1, Returns DEF Pipeline
<1>5. CASE OtherError
    BY <1>5, WaitsOn DEF Pipeline, Asked
<1> QED BY <1>1, <1>2, <1>3, <1>4, <1>5, EveryStep

-----------------------------------------------------------------------------
(* The order of messages.                                                   *)

LEMMA SequenceBound ==
    ASSUME TypeOK, Pipeline
    PROVE  sequence <= request
<1>1. /\ request \in Nat /\ sequence \in Nat
      /\ Len(toServer) \in Nat /\ Len(unsent) \in Nat /\ Len(buffer) \in Nat
    BY LenProperties DEF TypeOK
<1> QED BY <1>1 DEF Pipeline

\* The number that the first message is given
LEMMA FirstWidened ==
    ASSUME TypeOK, Pipeline, Ordered, 1 \in DOMAIN Coming
    PROVE  /\ Coming[1] \in Message /\ Coming[1].of \in Nat
           /\ lastRead \in Nat /\ Coming[1].of <= request
           /\ Widened(Coming[1].seq) \in lastRead..Coming[1].of
           /\ Coming[1].of < lastRead + SeqSize => Widened(Coming[1].seq) = Coming[1].of
<1>1. Coming[1] \in Message
    BY ComingType DEF ComingIsBoth
<1>2. Coming[1].of \in Nat /\ lastRead \in Nat /\ sequence \in Nat /\ request \in Nat
    BY <1>1 DEF Message, TypeOK
<1>3. /\ lastRead <= Coming[1].of /\ Coming[1].of <= sequence
      /\ Coming[1].seq = Coming[1].of % SeqSize
    BY DEF Ordered
<1>4. Coming[1].of <= request
    BY <1>2, <1>3, SequenceBound
<1> QED BY <1>1, <1>2, <1>3, <1>4, WidenedRight

LEMMA OrderedTaken ==
    ASSUME TypeOK, TypeOK', Ordered, FirstTaken, sequence' = sequence,
           lastRead' <= Coming[1].of, answered' <= lastRead'
    PROVE  Ordered'
<1>1. /\ Len(Coming) \in Nat /\ DOMAIN Coming = 1..Len(Coming)
      /\ \A i \in DOMAIN Coming : Coming[i].of \in Nat
    BY ComingType DEF ComingIsBoth, Message
<1>2. 1 \in DOMAIN Coming /\ lastRead' \in Nat /\ sequence \in Nat
    BY <1>1 DEF FirstTaken, TypeOK
<1>3. ASSUME NEW i \in DOMAIN Coming'
      PROVE  /\ i \in 1..Len(Coming) - 1 /\ i + 1 \in DOMAIN Coming
             /\ Coming'[i] = Coming[i + 1]
    BY <1>1, <1>3 DEF FirstTaken
<1>4. ASSUME NEW i \in DOMAIN Coming'
      PROVE  /\ lastRead' <= Coming'[i].of /\ Coming'[i].of <= sequence'
             /\ Coming'[i].seq = Coming'[i].of % SeqSize
    <2>1. Coming'[i] = Coming[i + 1] /\ i + 1 \in DOMAIN Coming /\ 1 < i + 1
        BY <1>1, <1>3
    <2>2. Coming[1].of <= Coming[i + 1].of
        BY <1>2, <2>1 DEF Ordered
    <2>3. Coming[i + 1].of <= sequence /\ Coming[i + 1].seq = Coming[i + 1].of % SeqSize
        BY <2>1 DEF Ordered
    <2>4. Coming[1].of \in Nat /\ Coming[i + 1].of \in Nat
        BY <1>1, <1>2, <2>1
    <2> QED BY <1>2, <2>1, <2>2, <2>3, <2>4
<1>5. ASSUME NEW i \in DOMAIN Coming', NEW j \in DOMAIN Coming', i < j
      PROVE  /\ Coming'[i].of <= Coming'[j].of
             /\ Coming'[j].type # "event" => Coming'[i].of < Coming'[j].of
    <2>1. /\ Coming'[i] = Coming[i + 1] /\ i + 1 \in DOMAIN Coming
          /\ Coming'[j] = Coming[j + 1] /\ j + 1 \in DOMAIN Coming /\ i + 1 < j + 1
        BY <1>1, <1>3, <1>5
    <2> QED BY <2>1 DEF Ordered
<1>6. lastRead' <= sequence'
    <2>1. Coming[1].of <= sequence /\ Coming[1].of \in Nat
        BY <1>1, <1>2 DEF Ordered
    <2> QED BY <1>2, <2>1
<1> QED BY <1>4, <1>5, <1>6 DEF Ordered

LEMMA OrderedSent ==
    ASSUME TypeOK, TypeOK', Ordered, UNCHANGED <<answered, lastRead>>,
           NEW type \in {"reply", "error", "event"}, NEW of \in Nat,
           Sent([type |-> type, seq |-> of % SeqSize, of |-> of]),
           sequence <= of, of <= sequence',
           type # "event" => sequence < of
    PROVE  Ordered'
<1> DEFINE m == [type |-> type, seq |-> of % SeqSize, of |-> of]
           n == Len(Coming) + 1
<1>0. m.type = type /\ m.of = of /\ m.seq = of % SeqSize
    OBVIOUS
<1> HIDE DEF m
<1>1. /\ Len(Coming) \in Nat /\ DOMAIN Coming = 1..Len(Coming)
      /\ \A i \in DOMAIN Coming : Coming[i].of \in Nat
    BY ComingType DEF ComingIsBoth, Message
<1>2. /\ lastRead \in Nat /\ sequence \in Nat /\ sequence' \in Nat
    BY DEF TypeOK
<1>3. /\ DOMAIN Coming' = 1..n /\ Coming'[n] = m
      /\ \A i \in DOMAIN Coming : Coming'[i] = Coming[i]
    BY <1>1 DEF Sent, m
<1>4. \A i \in DOMAIN Coming : Coming[i].of <= sequence /\ lastRead <= Coming[i].of
    BY DEF Ordered
<1>5. lastRead <= sequence
    BY DEF Ordered
<1>6. ASSUME NEW i \in DOMAIN Coming'
      PROVE  /\ lastRead' <= Coming'[i].of /\ Coming'[i].of <= sequence'
             /\ Coming'[i].seq = Coming'[i].of % SeqSize
    <2>1. CASE i = n
        BY <1>0, <1>2, <1>3, <1>5, <2>1
    <2>2. CASE i \in DOMAIN Coming
        <3>1. Coming[i].seq = Coming[i].of % SeqSize
            BY <2>2 DEF Ordered
        <3> QED BY <1>1, <1>2, <1>3, <1>4, <2>2, <3>1
    <2> QED BY <1>1, <1>3, <2>1, <2>2
<1>7. ASSUME NEW i \in DOMAIN Coming', NEW j \in DOMAIN Coming', i < j
      PROVE  /\ Coming'[i].of <= Coming'[j].of
             /\ Coming'[j].type # "event" => Coming'[i].of < Coming'[j].of
    <2>0. i \in DOMAIN Coming /\ (j = n \/ j \in DOMAIN Coming)
        BY <1>1, <1>3, <1>7
    <2>1. CASE j = n
        <3>1. Coming'[j].of = of /\ Coming'[j].type = type /\ Coming'[i] = Coming[i]
            BY <1>0, <1>3, <2>0, <2>1
        <3>2. Coming[i].of <= sequence /\ Coming[i].of \in Nat
            BY <1>1, <1>4, <2>0
        <3> QED BY <1>2, <3>1, <3>2
    <2>2. CASE j \in DOMAIN Coming
        BY <1>3, <1>7, <2>0, <2>2 DEF Ordered
    <2> QED BY <2>0, <2>1, <2>2
<1>8. answered' <= lastRead' /\ lastRead' <= sequence'
    BY <1>2, <1>5 DEF Ordered
<1> QED BY <1>6, <1>7, <1>8 DEF Ordered

\* What a step at one place does to the messages: nothing,
Unmoved ==
    /\ Coming' = Coming /\ lastRead' = lastRead
    /\ sequence' = sequence \/ sequence' = sequence + 1
    /\ batch' = batch \/ call.at = "wait"

\* it looks at the first,
Taken ==
    /\ FirstTaken
    /\ lastRead' = lastRead \/ lastRead' = Widened(Coming[1].seq)
    /\ sequence' = sequence
    /\ Len(batch') = Len(batch) - 1 \/ Len(batch') = 0

\* or the server sends one.
SentOne(type, of) ==
    /\ Sent([type |-> type, seq |-> of % SeqSize, of |-> of])
    /\ UNCHANGED <<lastRead, batch>>
    /\ sequence <= of /\ of <= sequence'
    /\ type # "event" => sequence < of
    /\ type = "reply" => toServer # <<>> /\ Head(toServer).query /\ of = sequence + 1

Sending == \E type \in {"reply", "error", "event"}, of \in Nat : SentOne(type, of)

LEMMA Messages ==
    ASSUME TypeOK, TypeOK', Staying \/ OtherError
    PROVE  Unmoved \/ Taken \/ Sending
<1>0. sequence \in Nat /\ sequence + 1 \in Nat /\ Len(<<>>) = 0
    BY DEF TypeOK
<1>1. CASE HandleMessage
    <2>1. /\ FirstTaken /\ Head(batch) = Coming[1] /\ Len(batch') = Len(batch) - 1
        BY <1>1, HeadOfBatch DEF HandleMessage
    <2> QED BY <1>1, <2>1 DEF HandleMessage, Taken, server
<1>2. CASE EventRead \/ OtherError
    <2>1. /\ batch = <<>> /\ toClient # <<>> /\ batch' = batch /\ toClient' = Tail(toClient)
        BY <1>2 DEF EventRead, OtherError, ErrorRead, At
    <2>2. FirstTaken /\ Head(toClient) = Coming[1]
        BY <2>1, HeadOfSocket
    <2>3. lastRead' = Widened(Coming[1].seq) /\ sequence' = sequence
        BY <1>2, <2>2 DEF EventRead, OtherError, ErrorRead, server
    <2> QED BY <1>0, <2>1, <2>2, <2>3 DEF Taken
<1>3. CASE WaitForWritable
    <2>1. PICK k \in 0..Len(toClient) : Read(k)
        BY <1>3 DEF WaitForWritable
    <2>2. Coming' = Coming
        BY <1>3, <2>1, ReadKeepsComing DEF WaitForWritable, At
    <2> QED BY <1>3, <2>2 DEF WaitForWritable, At, Unmoved, server
<1>4. CASE Serve
    <2>0. batch' = batch /\ lastRead' = lastRead /\ sequence' = sequence + 1
        BY <1>4 DEF Serve, input
    <2>1. ASSUME NEW type \in {"reply", "error"}, Send(type, sequence + 1),
                 type = "reply" => Head(toServer).query
          PROVE  Sending
        <3>1. Sent([type |-> type, seq |-> (sequence + 1) % SeqSize, of |-> sequence + 1])
            BY <1>0, <2>0, <2>1, SendComing
        <3>2. SentOne(type, sequence + 1)
            BY <1>0, <1>4, <2>0, <2>1, <3>1 DEF SentOne, Serve
        <3> QED BY <1>0, <3>2 DEF Sending
    <2>2. CASE UNCHANGED toClient
        BY <2>0, <2>2 DEF Coming, Unmoved
    <2> QED BY <1>4, <2>1, <2>2 DEF Serve
<1>5. CASE SendEvent
    <2>0. batch' = batch /\ lastRead' = lastRead /\ sequence' = sequence
        BY <1>5 DEF SendEvent, input
    <2>1. Sent([type |-> "event", seq |-> sequence % SeqSize, of |-> sequence])
        BY <1>0, <1>5, <2>0, SendComing DEF SendEvent
    <2>2. SentOne("event", sequence)
        BY <1>0, <2>0, <2>1 DEF SentOne
    <2> QED BY <1>0, <2>2 DEF Sending
<1>6. CASE WriteToServer \/ WouldBlock \/ FlushReturns \/ UNCHANGED vars
    BY <1>6 DEF WriteToServer, WouldBlock, FlushReturns, vars, input, server, Coming, Unmoved
<1> QED BY <1>1, <1>2, <1>3, <1>4, <1>5, <1>6 DEF Staying

LEMMA OrderedStep ==
    ASSUME TypeOK, TypeOK', Control, Pipeline, Ordered, Answers, [Next]_vars
    PROVE  Ordered'
<1>0. /\ answered <= lastRead /\ lastRead <= sequence
      /\ answered \in Nat /\ lastRead \in Nat /\ sequence \in Nat
    BY DEF Ordered, TypeOK
<1>1. CASE Staying \/ OtherError
    <2>0. answered' = answered
        BY <1>1, Stays, WaitsOn
    <2>1. CASE Unmoved
        <3>1. /\ sequence <= sequence'
              /\ \A i \in DOMAIN Coming : Coming[i].of \in Nat
            BY <1>0, <2>1, ComingType DEF Unmoved, ComingIsBoth, Message
        <3>2. Coming' = Coming /\ lastRead' = lastRead /\ sequence' \in Nat
            BY <2>1 DEF Unmoved, TypeOK
        <3>3. \A i \in DOMAIN Coming : Coming[i].of <= sequence'
            BY <1>0, <3>1, <3>2 DEF Ordered
        <3> QED BY <1>0, <2>0, <3>1, <3>2, <3>3 DEF Ordered
    <2>2. CASE Taken
        <3>1. 1 \in DOMAIN Coming
            BY <2>2, ComingType DEF Taken, FirstTaken, ComingIsBoth
        <3>2. lastRead' <= Coming[1].of /\ lastRead <= lastRead'
            BY <1>0, <2>2, <3>1, FirstWidened DEF Taken, Ordered
        <3>3. lastRead' \in Nat
            BY DEF TypeOK
        <3> QED BY <1>0, <2>0, <2>2, <3>2, <3>3, OrderedTaken DEF Taken
    <2>3. CASE Sending
        <3>1. PICK type \in {"reply", "error", "event"}, of \in Nat : SentOne(type, of)
            BY <2>3 DEF Sending
        <3> QED BY <2>0, <3>1, OrderedSent DEF SentOne
    <2> QED BY <1>1, <2>1, <2>2, <2>3, Messages
<1>2. CASE Moving
    BY <1>2, Moves DEF Moved, Ordered
<1>3. CASE PutRequest
    BY <1>3, Puts DEF Ordered
<1>4. CASE Returning
    <2>1. /\ FirstTaken /\ Coming[1].of = request /\ lastRead' = request
          /\ answered' = request /\ sequence' = sequence
        BY <1>4, TheAnswer, Returns
    <2>2. request \in Nat
        BY DEF TypeOK
    <2> QED BY <2>1, <2>2, OrderedTaken
<1> QED BY <1>1, <1>2, <1>3, <1>4, EveryStep

-----------------------------------------------------------------------------
(* Replies.                                                                 *)

LEMMA AnswersStep ==
    ASSUME TypeOK, TypeOK', Control, Pipeline, Ordered, Answers, [Next]_vars
    PROVE  Answers'
<1>0. DOMAIN Coming = 1..Len(Coming) /\ Len(Coming) \in Nat /\ Len(batch) \in Nat
    BY ComingType DEF ComingIsBoth
<1>1. CASE Staying \/ OtherError
    <2>0. Where' = Where /\ request' = request /\ (Asked' <=> Asked)
        BY <1>1, Stays, WaitsOn DEF Asked
    <2>1. CASE Unmoved
        <3>1. CASE batch' = batch
            BY <2>0, <2>1, <3>1 DEF Unmoved, Answers
        <3>2. CASE call.at = "wait"
            <4>1. \A i \in DOMAIN Coming : Coming[i].type # "reply"
                BY <3>2, NoReplyBeforeTheQuery DEF Control
            <4> QED BY <2>0, <2>1, <4>1 DEF Unmoved, Answers
        <3> QED BY <2>1, <3>1, <3>2 DEF Unmoved
    <2>2. CASE Taken
        <3>1. ASSUME NEW i \in DOMAIN Coming', Coming'[i].type = "reply"
              PROVE  Asked /\ Coming'[i].of = request /\ i > Len(batch')
            <4>1. /\ i \in 1..Len(Coming) - 1 /\ i + 1 \in DOMAIN Coming
                  /\ Coming'[i] = Coming[i + 1]
                BY <1>0, <2>2, <3>1 DEF Taken, FirstTaken
            <4>2. Asked /\ Coming'[i].of = request /\ i + 1 > Len(batch)
                BY <3>1, <4>1 DEF Answers
            <4>3. i > Len(batch')
                BY <1>0, <2>2, <4>1, <4>2 DEF Taken
            <4> QED BY <4>2, <4>3
        <3> QED BY <2>0, <3>1 DEF Answers
    <2>3. CASE Sending
        <3>1. PICK type \in {"reply", "error", "event"}, of \in Nat : SentOne(type, of)
            BY <2>3 DEF Sending
        <3>2. batch' = batch
            BY <3>1 DEF SentOne
        <3>3. DOMAIN Coming' = 1..Len(Coming) + 1
            BY <3>1 DEF SentOne, Sent
        <3>4. ASSUME NEW i \in DOMAIN Coming', Coming'[i].type = "reply"
              PROVE  Asked /\ Coming'[i].of = request /\ i > Len(batch')
            <4>1. CASE i \in 1..Len(Coming)
                <5>1. Coming'[i] = Coming[i]
                    BY <3>1, <4>1 DEF SentOne, Sent
                <5> QED BY <1>0, <3>2, <3>4, <4>1, <5>1 DEF Answers
            <4>2. CASE i = Len(Coming) + 1
                <5>1. Coming'[i] = [type |-> type, seq |-> of % SeqSize, of |-> of]
                    BY <3>1, <4>2 DEF SentOne, Sent
                <5>2. /\ toServer # <<>> /\ Head(toServer).query /\ of = sequence + 1
                      /\ Coming'[i].of = of
                    BY <3>1, <3>4, <5>1 DEF SentOne
                <5>3. /\ toServer \in Seq(Request) /\ Len(toServer) \in Nat \ {0}
                      /\ DOMAIN toServer = 1..Len(toServer)
                    BY <5>2, EmptySeq, LenProperties DEF TypeOK
                <5>4. Head(toServer) = toServer[1] /\ 1 \in DOMAIN toServer
                    BY <5>3
                <5>5. Asked /\ Len(toServer) = 1 /\ unsent = <<>>
                    BY <5>2, <5>4 DEF Pipeline
                <5>6. buffer = <<>> /\ Len(<<>>) = 0
                    BY <5>5 DEF Control, Asked
                <5>7. sequence + 1 = request
                    BY <5>5, <5>6 DEF Pipeline, TypeOK
                <5>8. i > Len(batch')
                    BY <1>0, <3>2, <4>2, ComingType DEF ComingIsBoth
                <5> QED BY <5>2, <5>5, <5>7, <5>8
            <4> QED BY <1>0, <3>3, <4>1, <4>2
        <3> QED BY <2>0, <3>4 DEF Answers
    <2> QED BY <1>1, <2>1, <2>2, <2>3, Messages
<1>2. CASE Moving
    BY <1>2, Moves DEF Moved, Answers
<1>3. CASE PutRequest
    <2>1. \A i \in DOMAIN Coming' : Coming'[i].type # "reply"
        BY <1>3, Puts DEF Answers
    <2>2. Asked' => Where'.number = request'
        BY <1>3, Puts
    <2> QED BY <2>1, <2>2 DEF Answers
<1>4. CASE Returning
    <2>1. \A i \in DOMAIN Coming : i > 1 => Coming[i].type = "event"
        BY <1>4, TheAnswer, NothingAfterTheLast
    <2>2. \A i \in DOMAIN Coming' : Coming'[i].type # "reply"
        <3>1. FirstTaken
            BY <1>4, TheAnswer
        <3>2. ASSUME NEW i \in DOMAIN Coming'
              PROVE  Coming'[i].type = "event"
            <4>1. i \in 1..Len(Coming) - 1 /\ Coming'[i] = Coming[i + 1]
                BY <3>1, <3>2 DEF FirstTaken
            <4>2. i + 1 \in DOMAIN Coming /\ i + 1 > 1
                BY <1>0, <4>1
            <4> QED BY <2>1, <4>1, <4>2
        <3> QED BY <3>2
    <2> QED BY <1>4, <2>2, Returns DEF Answers
<1> QED BY <1>1, <1>2, <1>3, <1>4, EveryStep

-----------------------------------------------------------------------------
(* The promise of the program, and the numbers it is given.                 *)

LEMMA RoundStep ==
    ASSUME TypeOK, TypeOK', Control, Pipeline, Ordered, Answers, Round, [Next]_vars
    PROVE  Round'
<1>0. request \in Nat /\ answered \in Nat /\ MaxSilence \in Nat
    BY XlibAssumption DEF TypeOK
<1>1. CASE Staying \/ OtherError
    <2>1. Where' = Where /\ request' = request /\ answered' = answered
        BY <1>1, Stays, WaitsOn
    <2> QED BY <2>1 DEF Round, Asked
<1>2. CASE Moving
    <2>1. Moved
        BY <1>2, Moves
    <2>2. request <= answered + MaxSilence
        BY <1>0, <2>1 DEF Moved, Round
    <2>3. request' = request /\ answered' = answered /\ ~Asked'
        BY <2>1 DEF Moved
    <2>4. request' <= answered' + MaxSilence + (IF Asked' THEN 1 ELSE 0)
        BY <1>0, <2>2, <2>3
    <2>5. Where'.at = "put" /\ ~Where'.query => request' < answered' + MaxSilence
        BY <2>1, <2>3 DEF Moved
    <2> QED BY <2>4, <2>5 DEF Round
<1>3. CASE PutRequest
    <2>1. /\ ~Asked /\ Where = call /\ (Asked' <=> call.query)
          /\ request' = request + 1 /\ answered' = answered
          /\ call.at = "put" /\ call.query \in BOOLEAN
        BY <1>3, Puts, AtType DEF PutRequest, At
    <2>2. Where'.at # "put"
        BY <1>3, Puts DEF User
    <2>3. request <= answered + MaxSilence
        BY <1>0, <2>1 DEF Round
    <2>4. ~call.query => request < answered + MaxSilence
        BY <2>1 DEF Round
    <2>5. request' <= answered' + MaxSilence + (IF Asked' THEN 1 ELSE 0)
        <3>1. CASE call.query
            BY <1>0, <2>1, <2>3, <3>1
        <3>2. CASE ~call.query
            BY <1>0, <2>1, <2>4, <3>2
        <3> QED BY <3>1, <3>2
    <2> QED BY <2>2, <2>5 DEF Round
<1>4. CASE Returning
    <2>1. answered' = request /\ request' = request /\ ~Asked' /\ Where'.at = "user"
        BY <1>4, TheAnswer, Returns
    <2> QED BY <1>0, <2>1 DEF Round
<1> QED BY <1>1, <1>2, <1>3, <1>4, EveryStep

\* If the promise is short enough the first message is given its own number.
LEMMA FirstSerial ==
    ASSUME TypeOK, Pipeline, Ordered, Round, MaxSilence <= SeqSize - 2,
           1 \in DOMAIN Coming
    PROVE  Widened(Coming[1].seq) = Coming[1].of
<1>1. /\ request \in Nat /\ answered \in Nat /\ lastRead \in Nat
      /\ MaxSilence \in Nat /\ SeqSize \in Nat \ {0}
    BY XlibAssumption DEF TypeOK
<1>2. Coming[1].of \in Nat /\ Coming[1].of <= request
    BY FirstWidened
<1>3. answered <= lastRead
    BY DEF Ordered
<1>4. request <= answered + MaxSilence + 1
    BY <1>1 DEF Round
<1>5. Coming[1].of < lastRead + SeqSize
    BY <1>1, <1>2, <1>3, <1>4
<1> QED BY <1>5, FirstWidened

AllTrue(q) == \A i \in DOMAIN q : q[i].serial = q[i].of

LEMMA AppendTrue ==
    ASSUME TypeOK, AllTrue(queue), NEW given \in Given, given.serial = given.of
    PROVE  AllTrue(Append(queue, given))
<1>1. queue \in Seq(Given) /\ Len(queue) \in Nat /\ DOMAIN queue = 1..Len(queue)
    BY LenProperties DEF TypeOK
<1>2. /\ DOMAIN Append(queue, given) = 1..Len(queue) + 1
      /\ \A i \in 1..Len(queue) : Append(queue, given)[i] = queue[i]
      /\ Append(queue, given)[Len(queue) + 1] = given
    BY <1>1, AppendProperties, LenProperties
<1> QED BY <1>1, <1>2 DEF AllTrue

LEMMA TakeTrue ==
    ASSUME TypeOK, AllTrue(queue), NEW i \in DOMAIN queue, Take(i)
    PROVE  AllTrue(queue')
<1>1. queue \in Seq(Given) /\ i \in 1..Len(queue) /\ Len(queue) \in Nat
    BY LenProperties DEF TypeOK
<1> DEFINE p == SubSeq(queue, 1, i - 1)
           s == SubSeq(queue, i + 1, Len(queue))
<1>2. /\ p \in Seq(Given) /\ Len(p) = i - 1
      /\ \A j \in 1..i - 1 : p[j] = queue[j]
    BY <1>1, Prefix, i - 1 \in 0..Len(queue)
<1>3. /\ s \in Seq(Given) /\ Len(s) = Len(queue) - i
      /\ \A j \in 1..Len(queue) - i : s[j] = queue[i + j]
    BY <1>1, Prefix, SMTT(30)
<1>4. queue' = p \o s
    BY DEF Take
<1> HIDE DEF p, s
<1>5. /\ DOMAIN queue' = 1..Len(queue) - 1
      /\ \A j \in 1..Len(queue) - 1 :
            queue'[j] = IF j <= i - 1 THEN p[j] ELSE s[j - (i - 1)]
    <2>1. /\ p \o s \in Seq(Given) /\ Len(p \o s) = Len(p) + Len(s)
          /\ \A j \in 1..Len(p) + Len(s) :
                (p \o s)[j] = IF j <= Len(p) THEN p[j] ELSE s[j - Len(p)]
        BY <1>2, <1>3, ConcatProperties
    <2>2. DOMAIN (p \o s) = 1..Len(p \o s)
        BY <2>1, LenProperties
    <2>3. Len(p) + Len(s) = Len(queue) - 1
        BY <1>1, <1>2, <1>3
    <2> QED BY <1>2, <1>4, <2>1, <2>2, <2>3
<1>6. ASSUME NEW j \in DOMAIN queue'
      PROVE  \E k \in DOMAIN queue : queue'[j] = queue[k]
    <2>1. CASE j <= i - 1
        BY <1>1, <1>2, <1>5, <1>6, <2>1, j \in 1..i - 1, j \in DOMAIN queue
    <2>2. CASE ~(j <= i - 1)
        <3>1. j - (i - 1) \in 1..Len(queue) - i /\ queue'[j] = s[j - (i - 1)]
            BY <1>1, <1>5, <1>6, <2>2
        <3>2. queue'[j] = queue[i + (j - (i - 1))]
            BY <1>3, <3>1
        <3> QED BY <1>1, <3>1, <3>2, i + (j - (i - 1)) \in 1..Len(queue)
    <2> QED BY <2>1, <2>2
<1>7. ASSUME NEW j \in DOMAIN queue'
      PROVE  queue'[j].serial = queue'[j].of
    <2>1. PICK k \in DOMAIN queue : queue'[j] = queue[k]
        BY <1>6
    <2> QED BY <2>1 DEF AllTrue
<1> QED BY <1>7 DEF AllTrue

LEMMA TailTrue ==
    ASSUME TypeOK, AllTrue(queue), queue # <<>>
    PROVE  AllTrue(Tail(queue))
<1>1. queue \in Seq(Given) /\ Len(queue) \in Nat \ {0} /\ DOMAIN queue = 1..Len(queue)
    BY EmptySeq, LenProperties DEF TypeOK
<1>2. /\ DOMAIN Tail(queue) = 1..Len(queue) - 1
      /\ \A i \in 1..Len(queue) - 1 : Tail(queue)[i] = queue[i + 1]
    BY <1>1, HeadTailProperties, LenProperties
<1>3. \A i \in 1..Len(queue) - 1 : i + 1 \in DOMAIN queue
    BY <1>1
<1> QED BY <1>2, <1>3 DEF AllTrue

LEMMA SerialsStep ==
    ASSUME TypeOK, TypeOK', Control, Queueing, Pipeline, Ordered, Answers, Round,
           SerialsAreTrue, [Next]_vars
    PROVE  SerialsAreTrue'
<1> SUFFICES ASSUME MaxSilence <= SeqSize - 2
             PROVE  AllTrue(queue') /\ error'.serial = error'.of
    BY DEF SerialsAreTrue, AllTrue
<1>0. AllTrue(queue) /\ error.serial = error.of
    BY DEF SerialsAreTrue, AllTrue
<1>1. AllTrue(<<>>)
    BY DEF AllTrue
<1>2. ASSUME NEW m, m = Coming[1], 1 \in DOMAIN Coming
      PROVE  LET given == [serial |-> Widened(m.seq), of |-> m.of]
             IN  given \in Given /\ given.serial = given.of
    BY <1>2, FirstSerial, FirstWidened, GivenType
<1>3. CASE HandleMessage
    <2>1. Head(batch) = Coming[1] /\ 1 \in DOMAIN Coming
        <3>1. FirstTaken /\ Head(batch) = Coming[1]
            BY <1>3, HeadOfBatch DEF HandleMessage
        <3> QED BY <3>1, ComingType DEF FirstTaken, ComingIsBoth
    <2> DEFINE given == [serial |-> Widened(Head(batch).seq), of |-> Head(batch).of]
    <2>2. given \in Given /\ given.serial = given.of
        BY <1>2, <2>1
    <2>3. /\ queue' = queue \/ queue' = Append(queue, given)
          /\ error' = error \/ error' = given
        BY <1>3 DEF HandleMessage
    <2> HIDE DEF given
    <2> QED BY <1>0, <2>2, <2>3, AppendTrue
<1>4. CASE ReplyRead \/ ErrorRead \/ EventRead
    <2>1. Head(toClient) = Coming[1] /\ 1 \in DOMAIN Coming
        <3>1. FirstTaken /\ Head(toClient) = Coming[1]
            BY <1>4, HeadOfSocket DEF ReplyRead, ErrorRead, EventRead, At
        <3> QED BY <3>1, ComingType DEF FirstTaken, ComingIsBoth
    <2> DEFINE given == [serial |-> Widened(Head(toClient).seq), of |-> Head(toClient).of]
    <2>2. given \in Given /\ given.serial = given.of
        BY <1>2, <2>1
    <2>3. /\ queue' \in {queue, <<>>} \/ queue' = Append(queue, given)
          /\ error' = error \/ error' = given
        BY <1>4 DEF ReplyRead, ErrorRead, EventRead, ReturnReply
    <2> HIDE DEF given
    <2> QED BY <1>0, <1>1, <2>2, <2>3, AppendTrue
<1>5. CASE TakeQueued
    BY <1>0, <1>5, TakeTrue DEF TakeQueued
<1>6. CASE GotEvent
    BY <1>0, <1>6, TakeTrue, TailTrue DEF GotEvent, At, Queueing
<1>7. CASE \/ WriteToServer \/ WouldBlock \/ FlushReturns \/ WaitForWritable \/ PutRequest
           \/ EventsQueued \/ ReadArrived \/ NothingArrived \/ AfterFlush \/ ReadOne
           \/ EndOfLoop \/ Serve \/ SendEvent \/ XFlush \/ XPending \/ QueuedAfterReading
           \/ (\E discard \in BOOLEAN : MakeRequest(TRUE, discard))
           \/ MakeRequest(FALSE, FALSE)
           \/ (\E any \in BOOLEAN : WaitForEvent(any))
           \/ UNCHANGED vars
    <2>1. queue' = queue /\ error' = error
        BY <1>7
        DEF WriteToServer, WouldBlock, FlushReturns, WaitForWritable, PutRequest,
            EventsQueued, ReadArrived, NothingArrived, AfterFlush, ReadOne, EndOfLoop,
            Serve, SendEvent, XFlush, XPending, QueuedAfterReading, MakeRequest,
            WaitForEvent, vars, input
    <2> QED BY <1>0, <2>1
<1> QED BY <1>3, <1>4, <1>5, <1>6, <1>7 DEF Next, Inside, Program

-----------------------------------------------------------------------------
(* Theorems.                                                                *)

LEMMA InitLemma == Init => IInv
<1> SUFFICES ASSUME Init PROVE IInv
    OBVIOUS
<1>1. Coming = <<>> /\ Where = User /\ DOMAIN Coming = {} /\ Len(<<>>) = 0 /\ DOMAIN <<>> = {}
    BY ConcatEmptySeq, EmptySeq DEF Init, Coming, Where, User
<1>2. TypeOK
    BY EmptySeq, SimplePlaces DEF Init, TypeOK, Given
<1>3. Control /\ Queueing
    BY <1>1 DEF Init, Control, Queueing, User
<1>4. Pipeline
    BY <1>1 DEF Init, Pipeline
<1>5. Ordered /\ Answers
    BY <1>1 DEF Init, Ordered, Answers, Asked, User
<1>6. Round
    BY <1>1, XlibAssumption DEF Init, Round, Asked, User
<1>7. SerialsAreTrue
    BY <1>1 DEF Init, SerialsAreTrue
<1> QED BY <1>2, <1>3, <1>4, <1>5, <1>6, <1>7 DEF IInv

\* IInv holds in every state of every connection: whatever the sizes of the
\* buffer and of the sockets and whatever the server does, what the client has
\* read, has not read and has asked for fit together.
THEOREM Invariance == Spec => []IInv
<1>1. IInv /\ [Next]_vars => IInv'
    <2> SUFFICES ASSUME IInv, [Next]_vars PROVE IInv'
        OBVIOUS
    <2>1. TypeOK'
        BY TypeStep DEF IInv
    <2>2. Control' /\ Queueing'
        BY ControlStep DEF IInv
    <2>3. Pipeline' /\ Ordered' /\ Answers' /\ Round'
        BY <2>1, PipelineStep, OrderedStep, AnswersStep, RoundStep DEF IInv
    <2>4. SerialsAreTrue'
        BY <2>1, SerialsStep DEF IInv
    <2> QED BY <2>1, <2>2, <2>3, <2>4 DEF IInv
<1> QED BY <1>1, InitLemma, PTL DEF Spec

\* The variables of the model keep their types.
THEOREM TypeCorrect == Spec => []TypeOK
<1>1. IInv => TypeOK
    BY DEF IInv
<1> QED BY <1>1, Invariance, PTL

\* _SetLastRequestRead finds the number of the request that an event or an error
\* belongs to, with sequence numbers of any width, if between two round trips
\* the program makes two requests fewer than there are such numbers.
THEOREM SerialsTrue == Spec => []SerialsAreTrue
<1>1. IInv => SerialsAreTrue
    BY DEF IInv
<1> QED BY <1>1, Invariance, PTL

\* _XReadEvents, _XEventsQueued and _XWaitForWritable never read a reply, which
\* they would drop: it is there only when _XReply waits for it.
THEOREM RepliesAwaited == Spec => []RepliesAreAwaited
<1>1. IInv => RepliesAreAwaited
    <2> SUFFICES ASSUME IInv, NEW m \in Range(Coming), m.type = "reply"
                 PROVE  /\ m \notin Range(batch)
                        /\ LET waiting == IF call.at = "flush" /\ unsent = <<>>
                                          THEN call.next ELSE call
                           IN  waiting.at = "reply" /\ waiting.number = m.of
        BY DEF RepliesAreAwaited, Coming
    <2>0. TypeOK /\ Control /\ Pipeline /\ Ordered /\ Answers
        BY DEF IInv
    <2>1. PICK i \in DOMAIN Coming : Coming[i] = m
        BY DEF Range
    <2>2. Asked /\ m.of = request /\ Where.number = request
        BY <2>0, <2>1 DEF Answers
    <2>3. unsent = <<>>
        BY <2>0, <2>1, <2>2, NothingAfterTheLast, ZenonT(30)
    <2>4. /\ DOMAIN Coming = 1..Len(Coming) /\ DOMAIN batch = 1..Len(batch)
          /\ Len(batch) \in Nat /\ Len(toClient) \in Nat
          /\ Len(Coming) = Len(batch) + Len(toClient)
          /\ \A j \in 1..Len(Coming) : j <= Len(batch) => Coming[j] = batch[j]
        <3>1. ComingIsBoth
            BY <2>0, ComingType
        <3>2. batch \in Seq(Message)
            BY <2>0 DEF TypeOK
        <3>3. DOMAIN batch = 1..Len(batch)
            BY <3>2, LenProperties
        <3> QED BY <3>1, <3>3, ZenonT(30) DEF ComingIsBoth
    <2>5. ASSUME NEW j \in DOMAIN batch PROVE batch[j] # m
        <3>1. j \in DOMAIN Coming /\ Coming[j] = batch[j] /\ j <= Len(batch)
            BY <2>4
        <3>2. Coming[j].type = "reply" => j > Len(batch)
            BY <2>0, <3>1 DEF Answers
        <3> QED BY <2>4, <3>1, <3>2
    <2>6. m \notin Range(batch)
        BY <2>5 DEF Range
    <2>7. call.at # "wait"
        BY <2>0, <2>3 DEF Control
    <2> QED BY <2>2, <2>3, <2>6, <2>7 DEF Asked, Where
<1> QED BY <1>1, Invariance, PTL

\* When _XReply or _XReadEvents blocks, all requests have been written, and
\* XNextEvent has looked at the queue.
THEOREM BlocksWithReason == Spec => []BlocksForAReason
<1>1. IInv => BlocksForAReason
    BY DEF IInv, Control, Queueing, Where, BlocksForAReason
<1> QED BY <1>1, Invariance, PTL

=============================================================================
