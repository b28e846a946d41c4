----------------------------- MODULE OutputProofs -----------------------------
(***************************************************************************)
(* What holds of module Output for every number of connections, size of a   *)
(* buffer, of the kernel's, and of a write: what a client is sent is what   *)
(* was written to it, whole and in order, and none of it is left behind.    *)
(* The argument is made for one connection at a time: a step does one of a  *)
(* few things to each (Changes), and each of those keeps it in order.       *)
(***************************************************************************)
EXTENDS Output, SequenceTheorems, WellFoundedInduction, TLAPS

-----------------------------------------------------------------------------
(* The inductive invariant, connection by connection.                       *)

Typed(f) ==
    /\ isOpen[f] \in BOOLEAN /\ hungUp[f] \in BOOLEAN
    /\ sock[f] \in Units /\ buf[f] \in Units
    /\ unread[f] \in 0..MaxUnread /\ bufsize[f] \in Nat
    /\ index[f] \in Indices \cup {Nobody}

\* A connection that is not up has nothing in the kernel, a descriptor without
\* a client nothing at all, and what a peer that is there was written to and
\* has not read is in the kernel and in the buffer, in order.
Sound(f) ==
    /\ hungUp[f] => isOpen[f]
    /\ ~Up(f) => sock[f] = <<>>
    /\ ~InUse(f) => ~isOpen[f] /\ buf[f] = <<>> /\ unread[f] = 0
    /\ Len(sock[f]) <= SockSize
    /\ Up(f) => sock[f] \o buf[f] = Numbers(0, unread[f])

\* What is in the buffer will be flushed, or the kernel asked about.
Known(f) ==
    isOpen[f] /\ buf[f] # <<>> => f \in OutputPending \cup ClientsWriteBlocked

Conn(f) == Typed(f) /\ Sound(f) /\ Known(f)

\* The variables with a value for each connection
Mapped ==
    /\ isOpen = [f \in Fds |-> isOpen[f]] /\ hungUp = [f \in Fds |-> hungUp[f]]
    /\ sock = [f \in Fds |-> sock[f]] /\ buf = [f \in Fds |-> buf[f]]
    /\ unread = [f \in Fds |-> unread[f]] /\ bufsize = [f \in Fds |-> bufsize[f]]
    /\ index = [f \in Fds |-> index[f]]

\* The masks
Pending ==
    /\ OutputPending \subseteq Fds /\ ClientsWriteBlocked \subseteq Fds
    /\ {NewOutputPending, CriticalOutputPending, AnyClientsWriteBlocked}
         \subseteq BOOLEAN
    /\ AnyClientsWriteBlocked <=> ClientsWriteBlocked # {}

\* and the rest
Table ==
    /\ backlog \in 0..MaxBacklog
    /\ full \subseteq Fds /\ holder \in Fds \cup {Nobody}
    /\ pc \in {"input", "wait", "new", "round", "turn"}
    /\ ready \subseteq Fds /\ client \in Fds \cup {Nobody}
    /\ pc = "new" => client \in Fds

IInv == Mapped /\ Pending /\ Table /\ \A f \in Fds : Conn(f)

\* The invariant implies the type invariant, and that nothing is forgotten.
LEMMA InvImplies == IInv => TypeOK /\ NothingForgotten
<1> SUFFICES ASSUME IInv PROVE TypeOK /\ NothingForgotten
    OBVIOUS
<1>1. \A f \in Fds : Typed(f)
    BY DEF IInv, Conn
<1>2. /\ isOpen \in [Fds -> BOOLEAN] /\ hungUp \in [Fds -> BOOLEAN]
      /\ sock \in [Fds -> Units] /\ buf \in [Fds -> Units]
      /\ unread \in [Fds -> 0..MaxUnread] /\ bufsize \in [Fds -> Nat]
      /\ index \in [Fds -> Indices \cup {Nobody}]
    <2> HIDE DEF Units
    <2> QED BY <1>1 DEF IInv, Mapped, Typed
<1>3. TypeOK
    BY <1>2 DEF IInv, Pending, Table, TypeOK
<1>4. NothingForgotten
    BY DEF IInv, Pending, Conn, Known, NothingForgotten
<1> QED BY <1>3, <1>4

-----------------------------------------------------------------------------
(* Units.                                                                   *)

\* What Numbers returns, and that two runs of numbers make one.
LEMMA NumbersAre ==
    ASSUME NEW a \in Nat, NEW n \in Nat
    PROVE  /\ Numbers(a, n) \in Seq(Nat \ {0})
           /\ Len(Numbers(a, n)) = n
           /\ \A i \in 1..n : Numbers(a, n)[i] = a + i
           /\ a + n <= MaxUnread => Numbers(a, n) \in Units
<1>1. Numbers(a, n) \in [1..n -> Nat \ {0}]
    BY DEF Numbers
<1>2. Numbers(a, n) \in Seq(Nat \ {0})
    BY <1>1, SeqDef
<1>3. \A i \in 1..n : Numbers(a, n)[i] = a + i
    BY DEF Numbers
<1>4. Len(Numbers(a, n)) = n
    <2>1. DOMAIN Numbers(a, n) = 1..n
        BY DEF Numbers
    <2>2. Len(Numbers(a, n)) \in Nat /\ DOMAIN Numbers(a, n) = 1..Len(Numbers(a, n))
        BY <1>2, LenProperties
    <2> QED BY <2>1, <2>2
<1>5. ASSUME a + n <= MaxUnread PROVE Numbers(a, n) \in Units
    <2>1. Numbers(a, n) \in [1..n -> 1..MaxUnread]
        BY <1>5, OutputAssumption DEF Numbers
    <2> QED BY <2>1, SeqDef DEF Units
<1> QED BY <1>2, <1>3, <1>4, <1>5

LEMMA NumbersJoin ==
    ASSUME NEW a \in Nat, NEW m \in Nat, NEW n \in Nat
    PROVE  Numbers(a, m) \o Numbers(a + m, n) = Numbers(a, m + n)
<1> DEFINE s == Numbers(a, m)
           t == Numbers(a + m, n)
           u == Numbers(a, m + n)
<1>1. /\ s \in Seq(Nat \ {0}) /\ Len(s) = m /\ \A i \in 1..m : s[i] = a + i
      /\ t \in Seq(Nat \ {0}) /\ Len(t) = n /\ \A i \in 1..n : t[i] = a + m + i
      /\ u \in Seq(Nat \ {0}) /\ Len(u) = m + n
      /\ \A i \in 1..m + n : u[i] = a + i
    BY NumbersAre, a + m \in Nat, m + n \in Nat
<1> HIDE DEF s, t, u
<1>2. /\ s \o t \in Seq(Nat \ {0}) /\ Len(s \o t) = m + n
      /\ \A i \in 1..m + n : (s \o t)[i] = IF i <= m THEN s[i] ELSE t[i - m]
    <2>1. /\ s \o t \in Seq(Nat \ {0}) /\ Len(s \o t) = Len(s) + Len(t)
          /\ \A i \in 1..Len(s) + Len(t) :
               (s \o t)[i] = IF i <= Len(s) THEN s[i] ELSE t[i - Len(s)]
        BY <1>1, ConcatProperties
    <2>2. Len(s) = m /\ Len(t) = n
        BY <1>1
    <2> QED BY <2>1, <2>2, Zenon
<1>3. ASSUME NEW i \in 1..m + n PROVE (s \o t)[i] = u[i]
    <2>1. CASE i <= m
        BY <1>1, <1>2, <2>1, i \in 1..m
    <2>2. CASE ~(i <= m)
        <3>1. i - m \in 1..n /\ a + m + (i - m) = a + i
            BY <2>2
        <3> QED BY <1>1, <1>2, <2>2, <3>1, ZenonT(30)
    <2> QED BY <2>1, <2>2
<1> QED BY <1>1, <1>2, <1>3, SeqEqual DEF s, t, u

-----------------------------------------------------------------------------
(* Writing.                                                                 *)

LEMMA LeastOfTwo ==
    ASSUME NEW a \in Int, NEW b \in Int
    PROVE  Min({a, b}) \in {a, b} /\ Min({a, b}) <= a /\ Min({a, b}) <= b
<1>1. \E x \in {a, b} : \A y \in {a, b} : x <= y
    BY a <= b \/ b <= a
<1> QED BY <1>1 DEF Min

\* The kernel takes the first part of data, and what fits.
LEMMA TakenIs ==
    ASSUME NEW f \in Fds, sock[f] \in Units, Len(sock[f]) <= SockSize,
           NEW data \in Units
    PROVE  /\ Taken(f, data) \in Units /\ Rest(f, data) \in Units
           /\ Taken(f, data) \o Rest(f, data) = data
           /\ Len(Taken(f, data)) <= SockSize - Len(sock[f])
<1> DEFINE k == TakenN(f, data)
<1>1. Len(data) \in Nat /\ Len(sock[f]) \in Nat /\ SockSize \in Nat
    BY LenProperties, OutputAssumption DEF Units
<1>2. k \in 0..Len(data) /\ k <= SockSize - Len(sock[f])
    <2> DEFINE a == Len(data)
               b == SockSize - Len(sock[f])
    <2>1. k = Min({a, b})
        BY DEF TakenN
    <2>2. a \in Int /\ b \in Int /\ a >= 0 /\ b >= 0
        BY <1>1
    <2> HIDE DEF a, b, k
    <2>3. k \in {a, b} /\ k <= a /\ k <= b
        BY <2>1, <2>2, LeastOfTwo
    <2>4. k \in 0..a /\ k <= b
        BY <2>2, <2>3
    <2> QED BY <2>4 DEF a, b
<1> HIDE DEF k
<1>3. \A i \in 1..Len(data) : data[i] \in 1..MaxUnread
    BY ElementOfSeq DEF Units
<1>4. SubSeq(data, 1, k) \in Units /\ Len(SubSeq(data, 1, k)) = k
    <2>1. \A i \in 1..k : data[i] \in 1..MaxUnread
        BY <1>1, <1>2, <1>3
    <2>2. /\ SubSeq(data, 1, k) \in Seq(1..MaxUnread)
          /\ Len(SubSeq(data, 1, k)) = IF 1 <= k THEN k - 1 + 1 ELSE 0
        BY <1>2, <2>1, SubSeqProperties
    <2> QED BY <1>2, <2>2 DEF Units
<1>5. SubSeq(data, k + 1, Len(data)) \in Units
    <2>1. \A i \in k + 1..Len(data) : data[i] \in 1..MaxUnread
        BY <1>1, <1>2, <1>3
    <2>2. /\ k + 1 \in Nat \ {0} /\ Len(data) \in Nat
        BY <1>1, <1>2
    <2>3. SubSeq(data, k + 1, Len(data)) \in Seq(1..MaxUnread)
        BY <2>1, <2>2, SubSeqProperties
    <2> QED BY <2>3 DEF Units
<1>6. SubSeq(data, 1, k) \o SubSeq(data, k + 1, Len(data)) = data
    <2>1. SubSeq(data, 1, Len(data)) = data
        BY SubSeqFull DEF Units
    <2>2. /\ 1 \in 1..Len(data) + 1 /\ k \in 1 - 1..Len(data)
          /\ Len(data) \in k..Len(data)
        BY <1>1, <1>2
    <2>3. data \in Seq(1..MaxUnread)
        BY DEF Units
    <2>4. SubSeq(data, 1, k) \o SubSeq(data, k + 1, Len(data))
            = SubSeq(data, 1, Len(data))
        BY <2>2, <2>3, ConcatAdjacentSubSeq
    <2> QED BY <2>1, <2>4
<1> QED BY <1>2, <1>4, <1>5, <1>6 DEF Taken, Rest, k

-----------------------------------------------------------------------------
(* What a step does to one connection: nothing but perhaps ask for its output  *)
(* to be flushed,                                                            *)

Same(f) ==
    /\ isOpen'[f] = isOpen[f] /\ hungUp'[f] = hungUp[f] /\ sock'[f] = sock[f]
    /\ buf'[f] = buf[f] /\ unread'[f] = unread[f] /\ bufsize'[f] = bufsize[f]
    /\ index'[f] = index[f]
    /\ InUse(f) /\ f \in OutputPending \cup ClientsWriteBlocked
            => f \in OutputPending' \cup ClientsWriteBlocked'

\* the peer reads or hangs up,
Reads(f) ==
    /\ isOpen[f] /\ ~hungUp[f] /\ sock[f] # <<>>
    /\ sock'[f] = [i \in 1..(Len(sock[f]) - 1) |-> sock[f][i + 1] - 1]
    /\ buf'[f] = [i \in 1..Len(buf[f]) |-> buf[f][i] - 1]
    /\ unread'[f] = unread[f] - 1
    /\ isOpen'[f] = isOpen[f] /\ hungUp'[f] = hungUp[f]
    /\ bufsize'[f] = bufsize[f] /\ index'[f] = index[f]
    /\ UNCHANGED <<OutputPending, ClientsWriteBlocked>>

HangsUp(f) ==
    /\ isOpen[f] /\ isOpen'[f] = isOpen[f]
    /\ hungUp'[f] = TRUE /\ sock'[f] = <<>>
    /\ buf'[f] = buf[f] /\ unread'[f] = unread[f] /\ bufsize'[f] = bufsize[f]
    /\ index'[f] = index[f]
    /\ UNCHANGED <<OutputPending, ClientsWriteBlocked>>

\* n units are put in the buffer,
Buffers(f, n) ==
    /\ InUse(f) /\ unread[f] + n <= MaxUnread
    /\ buf'[f] = buf[f] \o Numbers(unread[f], n)
    /\ unread'[f] = unread[f] + n
    /\ isOpen'[f] = isOpen[f] /\ hungUp'[f] = hungUp[f] /\ sock'[f] = sock[f]
    /\ bufsize'[f] = bufsize[f] /\ index'[f] = index[f]
    /\ f \in OutputPending'

\* data is written, as far as it can be,
Flushed(f, data) ==
    /\ bufsize'[f] \in Nat
    /\ \/ /\ isOpen'[f] = FALSE /\ hungUp'[f] = FALSE /\ sock'[f] = <<>>
          /\ buf'[f] \in {buf[f], <<>>}
       \/ /\ isOpen[f] /\ (hungUp[f] => data = <<>>)
          /\ isOpen'[f] = isOpen[f] /\ hungUp'[f] = hungUp[f]
          /\ sock'[f] = sock[f] \o Taken(f, data) /\ buf'[f] = Rest(f, data)
          /\ buf'[f] # <<>> => f \in ClientsWriteBlocked'

Flushes(f, n) ==
    /\ InUse(f) /\ unread[f] + n <= MaxUnread
    /\ unread'[f] = unread[f] + n /\ index'[f] = index[f]
    /\ Flushed(f, buf[f] \o Numbers(unread[f], n))

\* it is closed, or opened.
Closes(f) ==
    /\ isOpen[f] => hungUp[f]
    /\ isOpen'[f] = FALSE /\ hungUp'[f] = FALSE /\ sock'[f] = <<>> /\ buf'[f] = <<>>
    /\ unread'[f] = 0 /\ bufsize'[f] = OutputBufferSize /\ index'[f] = Nobody

Opens(f) ==
    /\ ~isOpen[f] /\ ~InUse(f)
    /\ isOpen'[f] = TRUE /\ index'[f] \in Indices
    /\ hungUp'[f] = hungUp[f] /\ sock'[f] = sock[f] /\ buf'[f] = buf[f]
    /\ unread'[f] = unread[f] /\ bufsize'[f] = bufsize[f]

\* What the client is shown of it: module Stream
Shown(f) == IF Up(f) THEN sock[f] \o buf[f] ELSE <<>>

Streams(f) ==
    \/ ~Up(f) /\ Up(f)' /\ Shown(f)' = <<>>
    \/ /\ Up(f) /\ Up(f)'
       /\ \E n \in Sizes : Shown(f)' = Shown(f) \o Numbers(Len(Shown(f)), n)
    \/ Up(f) /\ Up(f)' /\ Shown(f) # <<>> /\ Shown(f)' = Numbers(0, Len(Shown(f)) - 1)
    \/ Up(f) /\ ~Up(f)' /\ Shown(f)' = <<>>
    \/ Up(f)' = Up(f) /\ Shown(f)' = Shown(f)

LEMMA Constants ==
    /\ SockSize \in Nat /\ OutputBufferSize \in Nat /\ MaxUnread \in Nat
    /\ Sizes \subseteq Nat \ {0} /\ Nobody \notin Indices
    /\ <<>> \in Units /\ Len(<<>>) = 0
BY OutputAssumption, EmptySeq DEF Nobody, Units

LEMMA SameKept ==
    ASSUME NEW f \in Fds, Conn(f), Same(f)
    PROVE  Conn(f)' /\ Streams(f)
<1>1. Up(f)' = Up(f) /\ InUse(f)' = InUse(f) /\ Shown(f)' = Shown(f)
    BY DEF Same, Up, InUse, Shown
<1>2. Typed(f)'
    BY DEF Same, Typed, Conn
<1>3. Sound(f)'
    BY <1>1 DEF Same, Sound, Conn
<1>4. Known(f)'
    BY DEF Same, Known, Sound, Conn
<1> QED BY <1>1, <1>2, <1>3, <1>4 DEF Conn, Streams

LEMMA HangsUpKept ==
    ASSUME NEW f \in Fds, Conn(f), HangsUp(f)
    PROVE  Conn(f)' /\ Streams(f)
<1>1. ~Up(f)' /\ InUse(f)' = InUse(f) /\ Shown(f)' = <<>>
    BY DEF HangsUp, Up, InUse, Shown
<1>2. Typed(f)'
    BY Constants DEF HangsUp, Typed, Conn
<1>3. Sound(f)'
    BY <1>1, Constants DEF HangsUp, Sound, Conn
<1>4. Known(f)'
    BY DEF HangsUp, Known, Conn
<1>5. ~Up(f) => Shown(f) = <<>>
    BY DEF Shown
<1>6. Up(f) \in BOOLEAN /\ Up(f)' \in BOOLEAN
    BY DEF Up
<1> QED BY <1>1, <1>2, <1>3, <1>4, <1>5, <1>6 DEF Conn, Streams

LEMMA ClosesKept ==
    ASSUME NEW f \in Fds, Conn(f), Closes(f)
    PROVE  Conn(f)' /\ Streams(f)
<1>1. ~Up(f)' /\ ~InUse(f)' /\ Shown(f)' = <<>>
    BY DEF Closes, Up, InUse, Shown
<1>2. Typed(f)'
    <2>1. 0 \in 0..MaxUnread /\ Nobody \in Indices \cup {Nobody}
        BY Constants
    <2> QED BY <2>1, Constants DEF Closes, Typed
<1>3. Sound(f)'
    BY <1>1, Constants DEF Closes, Sound
<1>4. Known(f)'
    BY DEF Closes, Known
<1>5. ~Up(f) => Shown(f) = <<>>
    BY DEF Shown
<1>6. Up(f) \in BOOLEAN /\ Up(f)' \in BOOLEAN
    BY DEF Up
<1> QED BY <1>1, <1>2, <1>3, <1>4, <1>5, <1>6 DEF Conn, Streams

LEMMA OpensKept ==
    ASSUME NEW f \in Fds, Conn(f), Opens(f)
    PROVE  Conn(f)' /\ Streams(f)
<1>1. /\ sock[f] = <<>> /\ buf[f] = <<>> /\ unread[f] = 0 /\ ~hungUp[f] /\ ~Up(f)
    BY DEF Conn, Sound, Opens, Up
<1>2. Up(f)' /\ InUse(f)'
    BY <1>1, Constants DEF Opens, Up, InUse
<1>3. Numbers(0, 0) = <<>> /\ <<>> \o <<>> = <<>>
    <2>1. Numbers(0, 0) \in Seq(Nat \ {0}) /\ Len(Numbers(0, 0)) = 0
        BY NumbersAre
    <2> QED BY <2>1, EmptySeq, ConcatEmptySeq
<1>4. sock'[f] = <<>> /\ buf'[f] = <<>> /\ unread'[f] = 0
    BY <1>1 DEF Opens
<1>5. Typed(f)'
    BY <1>1, Constants DEF Opens, Typed, Conn
<1>6. Sound(f)'
    BY <1>2, <1>3, <1>4, Constants DEF Opens, Sound
<1>7. Known(f)'
    BY <1>4 DEF Known
<1>8. Shown(f)' = <<>>
    BY <1>3, <1>4 DEF Shown
<1> QED BY <1>1, <1>2, <1>5, <1>6, <1>7, <1>8 DEF Conn, Streams

LEMMA WrittenIs ==
    ASSUME NEW f \in Fds, Conn(f), NEW n \in Nat, unread[f] + n <= MaxUnread
    PROVE  /\ unread[f] \in Nat /\ unread[f] + n \in 0..MaxUnread
           /\ Numbers(unread[f], n) \in Units
           /\ buf[f] \o Numbers(unread[f], n) \in Units
           /\ Up(f) => /\ Len(Shown(f)) = unread[f]
                       /\ sock[f] \o (buf[f] \o Numbers(unread[f], n))
                            = Numbers(0, unread[f] + n)
                       /\ Shown(f) \o Numbers(unread[f], n) = Numbers(0, unread[f] + n)
<1>1. unread[f] \in Nat /\ unread[f] + n \in 0..MaxUnread
    BY Constants DEF Conn, Typed
<1>2. sock[f] \in Units /\ buf[f] \in Units
    BY DEF Conn, Typed
<1>3. Numbers(unread[f], n) \in Units
    BY <1>1, NumbersAre
<1>4. buf[f] \o Numbers(unread[f], n) \in Units
    BY <1>2, <1>3, ConcatProperties DEF Units
<1>5. ASSUME Up(f)
      PROVE  /\ Len(Shown(f)) = unread[f]
             /\ Shown(f) \o Numbers(unread[f], n) = Numbers(0, unread[f] + n)
             /\ sock[f] \o (buf[f] \o Numbers(unread[f], n)) = Numbers(0, unread[f] + n)
    <2>1. Shown(f) = Numbers(0, unread[f]) /\ Shown(f) = sock[f] \o buf[f]
        BY <1>5 DEF Conn, Sound, Shown
    <2>2. Len(Shown(f)) = unread[f]
        BY <1>1, <2>1, NumbersAre
    <2>3. Shown(f) \o Numbers(unread[f], n) = Numbers(0, unread[f] + n)
        <3>1. 0 + unread[f] = unread[f]
            BY <1>1
        <3>2. Numbers(0, unread[f]) \o Numbers(0 + unread[f], n) = Numbers(0, unread[f] + n)
            BY <1>1, NumbersJoin, 0 \in Nat
        <3> QED BY <2>1, <3>1, <3>2, Zenon
    <2>4. (sock[f] \o buf[f]) \o Numbers(unread[f], n)
            = sock[f] \o (buf[f] \o Numbers(unread[f], n))
        <3>1. /\ sock[f] \in Seq(1..MaxUnread) /\ buf[f] \in Seq(1..MaxUnread)
              /\ Numbers(unread[f], n) \in Seq(1..MaxUnread)
            BY <1>2, <1>3 DEF Units
        <3> DEFINE r == sock[f]
                   s == buf[f]
                   t == Numbers(unread[f], n)
        <3> HIDE DEF r, s, t
        <3>2. r \in Seq(1..MaxUnread) /\ s \in Seq(1..MaxUnread) /\ t \in Seq(1..MaxUnread)
            BY <3>1 DEF r, s, t
        <3>3. (r \o s) \o t = r \o (s \o t)
            BY <3>2, ConcatAssociative
        <3> QED BY <3>3 DEF r, s, t
    <2> QED BY <2>1, <2>2, <2>3, <2>4
<1> QED BY <1>1, <1>3, <1>4, <1>5

LEMMA BuffersKept ==
    ASSUME NEW f \in Fds, Conn(f), NEW n \in Sizes, Buffers(f, n)
    PROVE  Conn(f)' /\ Streams(f)
<1>0. n \in Nat /\ unread[f] + n <= MaxUnread
    BY Constants DEF Buffers
<1>1. Up(f)' = Up(f) /\ InUse(f)' /\ InUse(f)
    BY DEF Buffers, Up, InUse
<1>2. Typed(f)'
    BY <1>0, WrittenIs DEF Buffers, Typed, Conn
<1>3. Up(f) => sock'[f] \o buf'[f] = Numbers(0, unread'[f])
    BY <1>0, WrittenIs DEF Buffers
<1>4. Sound(f)'
    BY <1>1, <1>3 DEF Buffers, Sound, Conn
<1>5. Known(f)'
    BY DEF Buffers, Known
<1>6. Up(f) => Shown(f)' = Shown(f) \o Numbers(Len(Shown(f)), n)
    BY <1>0, <1>1, <1>3, WrittenIs DEF Shown, Buffers
<1>7. ~Up(f) => Shown(f)' = Shown(f)
    BY <1>1 DEF Shown
<1> QED BY <1>1, <1>2, <1>4, <1>5, <1>6, <1>7 DEF Conn, Streams

\* What the reader leaves moves up.
LEMMA ReadsKept ==
    ASSUME NEW f \in Fds, Conn(f), Reads(f)
    PROVE  Conn(f)' /\ Streams(f)
<1> DEFINE r == sock[f]
           t == buf[f]
           u == unread[f]
           k == Len(r)
           b == Len(t)
<1>1. /\ r \in Seq(1..MaxUnread) /\ t \in Seq(1..MaxUnread)
      /\ u \in Nat /\ u <= MaxUnread /\ k <= SockSize
      /\ r \o t = Numbers(0, u) /\ Up(f) /\ InUse(f)
    <2>1. r \in Seq(1..MaxUnread) /\ t \in Seq(1..MaxUnread)
        BY DEF Conn, Typed, Units
    <2>2. u \in Nat /\ u <= MaxUnread
        BY Constants DEF Conn, Typed
    <2>3. Up(f) /\ InUse(f)
        BY DEF Conn, Sound, Reads, Up
    <2>4. k <= SockSize /\ r \o t = Numbers(0, u)
        BY <2>3 DEF Conn, Sound
    <2> QED BY <2>1, <2>2, <2>3, <2>4
<1>a. /\ r # <<>> /\ unread'[f] = u - 1
      /\ sock'[f] = [i \in 1..(k - 1) |-> r[i + 1] - 1]
      /\ buf'[f] = [i \in 1..b |-> t[i] - 1]
    BY DEF Reads
<1> HIDE DEF r, t, u
<1>2. k \in Nat \ {0} /\ b \in Nat /\ k <= SockSize /\ SockSize \in Nat /\ MaxUnread \in Nat
    BY <1>1, <1>a, EmptySeq, LenProperties, Constants
<1>b. /\ Len(r \o t) = k + b
      /\ \A i \in 1..k + b : (r \o t)[i] = IF i <= k THEN r[i] ELSE t[i - k]
    BY <1>1, ConcatProperties
<1>c. k = Len(r) /\ b = Len(t)
    OBVIOUS
<1> HIDE DEF k, b
<1>3. k + b = u
    <2>1. Len(Numbers(0, u)) = u
        BY <1>1, NumbersAre, 0 \in Nat
    <2>2. Len(Numbers(0, u)) = k + b
        BY <1>1, <1>b
    <2> QED BY <2>1, <2>2
<1>4. /\ \A i \in 1..k : r[i] = i
      /\ \A i \in 1..b : t[i] = k + i
    <2>1. \A i \in 1..k + b : Numbers(0, u)[i] = i
        <3>1. \A i \in 1..u : Numbers(0, u)[i] = 0 + i
            BY <1>1, NumbersAre, 0 \in Nat
        <3> QED BY <1>3, <3>1
    <2>2. ASSUME NEW i \in 1..k PROVE r[i] = i
        <3>1. i \in 1..k + b /\ i <= k
            BY <1>2
        <3> QED BY <1>1, <1>b, <2>1, <3>1
    <2>3. ASSUME NEW i \in 1..b PROVE t[i] = k + i
        <3> DEFINE j == k + i
        <3>1. j \in 1..k + b /\ ~(j <= k) /\ j - k = i
            BY <1>2
        <3> HIDE DEF j
        <3>2. (r \o t)[j] = t[j - k]
            BY <1>b, <3>1
        <3>3. (r \o t)[j] = j
            BY <1>1, <2>1, <3>1
        <3> QED BY <3>1, <3>2, <3>3 DEF j
    <2> QED BY <2>2, <2>3
<1>5. sock'[f] = Numbers(0, k - 1)
    <2>1. \A i \in 1..(k - 1) : r[i + 1] - 1 = 0 + i
        BY <1>2, <1>4
    <2> QED BY <1>a, <2>1 DEF Numbers
<1>6. buf'[f] = Numbers(k - 1, b)
    <2>1. \A i \in 1..b : t[i] - 1 = k - 1 + i
        BY <1>2, <1>4
    <2> QED BY <1>a, <2>1 DEF Numbers
<1>7. unread'[f] = (k - 1) + b /\ k - 1 \in Nat /\ unread'[f] \in 0..MaxUnread
    BY <1>1, <1>2, <1>3, <1>a
<1>8. sock'[f] \o buf'[f] = Numbers(0, unread'[f])
    <2>1. Numbers(0, k - 1) \o Numbers(0 + (k - 1), b) = Numbers(0, (k - 1) + b)
        BY <1>2, <1>7, NumbersJoin, 0 \in Nat, ZenonT(30)
    <2>2. 0 + (k - 1) = k - 1
        BY <1>7
    <2> QED BY <1>5, <1>6, <1>7, <2>1, <2>2
<1>9. sock'[f] \in Units /\ buf'[f] \in Units /\ Len(sock'[f]) = k - 1
    <2>1. 0 + (k - 1) <= MaxUnread /\ (k - 1) + b <= MaxUnread
        BY <1>1, <1>2, <1>3
    <2>2. Numbers(0, k - 1) \in Units /\ Len(Numbers(0, k - 1)) = k - 1
        BY <1>7, <2>1, NumbersAre, 0 \in Nat
    <2>3. Numbers(k - 1, b) \in Units
        BY <1>2, <1>7, <2>1, NumbersAre
    <2> QED BY <1>5, <1>6, <2>2, <2>3
<1>10. Up(f)' /\ InUse(f)'
    BY <1>1 DEF Reads, Up, InUse, Conn, Sound
<1>11. Typed(f)'
    BY <1>7, <1>9 DEF Reads, Typed, Conn
<1>12. Sound(f)'
    <2>1. Len(sock'[f]) <= SockSize
        BY <1>2, <1>9
    <2> QED BY <1>8, <1>10, <2>1 DEF Reads, Sound, Conn
<1>13. Known(f)'
    <2>1. CASE t = <<>>
        <3>1. b = 0
            BY <1>c, <2>1, Constants
        <3>2. Len(buf'[f]) = 0 /\ buf'[f] \in Units
            BY <1>6, <1>7, <1>9, <3>1, NumbersAre
        <3>3. buf'[f] = <<>>
            BY <3>2, EmptySeq DEF Units
        <3> QED BY <3>3 DEF Known
    <2>2. CASE t # <<>>
        BY <2>2 DEF Known, Reads, Conn, t
    <2> QED BY <2>1, <2>2
<1>14. /\ Shown(f)' = Numbers(0, Len(Shown(f)) - 1) /\ Shown(f) # <<>>
    <2>1. Shown(f) = Numbers(0, u) /\ Shown(f)' = Numbers(0, unread'[f])
        BY <1>1, <1>8, <1>10 DEF Shown, r, t
    <2>2. Len(Shown(f)) = u
        BY <1>1, <2>1, NumbersAre, 0 \in Nat
    <2>3. u # 0 /\ unread'[f] = u - 1
        BY <1>2, <1>3, <1>a
    <2> QED BY <2>1, <2>2, <2>3, Constants
<1> QED BY <1>1, <1>10, <1>11, <1>12, <1>13, <1>14 DEF Conn, Streams

LEMMA FlushesKept ==
    ASSUME NEW f \in Fds, Conn(f), NEW n \in Sizes \cup {0}, Flushes(f, n)
    PROVE  Conn(f)' /\ Streams(f)
<1> DEFINE data == buf[f] \o Numbers(unread[f], n)
<1>0. n \in Nat /\ unread[f] + n <= MaxUnread
    <2>1. n \in Nat
        BY Constants
    <2> QED BY <2>1 DEF Flushes
<1>1. /\ unread[f] \in Nat /\ unread'[f] = unread[f] + n /\ unread'[f] \in 0..MaxUnread
      /\ data \in Units
      /\ Up(f) => sock[f] \o data = Numbers(0, unread'[f])
    BY <1>0, WrittenIs DEF Flushes
<1>2. /\ InUse(f) /\ InUse(f)' /\ index'[f] = index[f] /\ bufsize'[f] \in Nat
      /\ Flushed(f, data)
    BY DEF Flushes, Flushed, InUse
<1> HIDE DEF data
<1>3. /\ sock[f] \in Units /\ buf[f] \in Units /\ Len(sock[f]) <= SockSize
      /\ isOpen[f] \in BOOLEAN /\ hungUp[f] \in BOOLEAN
      /\ index[f] \in Indices \cup {Nobody}
      /\ hungUp[f] => isOpen[f]
      /\ ~Up(f) => sock[f] = <<>> /\ Shown(f) = <<>>
    BY DEF Conn, Typed, Sound, Shown
<1>4. CASE /\ isOpen'[f] = FALSE /\ hungUp'[f] = FALSE /\ sock'[f] = <<>>
           /\ buf'[f] \in {buf[f], <<>>}
    <2>1. ~Up(f)' /\ Shown(f)' = <<>>
        BY <1>4 DEF Up, Shown
    <2>2. Typed(f)' /\ Sound(f)' /\ Known(f)'
        <3>1. buf'[f] \in Units
            BY <1>3, <1>4, Constants
        <3>2. Typed(f)'
            BY <1>1, <1>2, <1>3, <1>4, <3>1, Constants DEF Typed
        <3>3. Sound(f)'
            BY <1>2, <1>4, <2>1, Constants DEF Sound
        <3>4. Known(f)'
            BY <1>4 DEF Known
        <3> QED BY <3>2, <3>3, <3>4
    <2> QED BY <1>3, <2>1, <2>2 DEF Conn, Streams, Up
<1>5. CASE /\ isOpen[f] /\ (hungUp[f] => data = <<>>)
           /\ isOpen'[f] = isOpen[f] /\ hungUp'[f] = hungUp[f]
           /\ sock'[f] = sock[f] \o Taken(f, data) /\ buf'[f] = Rest(f, data)
           /\ buf'[f] # <<>> => f \in ClientsWriteBlocked'
    <2>1. /\ Taken(f, data) \in Units /\ Rest(f, data) \in Units
          /\ Taken(f, data) \o Rest(f, data) = data
          /\ Len(Taken(f, data)) <= SockSize - Len(sock[f])
        BY <1>1, <1>3, TakenIs
    <2>2. Up(f)' = Up(f)
        BY <1>5 DEF Up
    <2>3. sock'[f] \in Units /\ buf'[f] \in Units /\ Len(sock'[f]) <= SockSize
        <3>1. sock[f] \in Seq(1..MaxUnread) /\ Taken(f, data) \in Seq(1..MaxUnread)
            BY <1>3, <2>1 DEF Units
        <3>2. /\ sock'[f] \in Seq(1..MaxUnread)
              /\ Len(sock'[f]) = Len(sock[f]) + Len(Taken(f, data))
              /\ Len(sock[f]) \in Nat /\ Len(Taken(f, data)) \in Nat
            BY <1>5, <3>1, ConcatProperties, LenProperties
        <3> QED BY <1>5, <2>1, <3>2, Constants DEF Units
    <2>4. sock'[f] \o buf'[f] = sock[f] \o data
        <3> DEFINE r == sock[f]
                   s == Taken(f, data)
                   t == Rest(f, data)
        <3>1. r \in Seq(1..MaxUnread) /\ s \in Seq(1..MaxUnread) /\ t \in Seq(1..MaxUnread)
            BY <1>3, <2>1 DEF Units
        <3> HIDE DEF r, s, t
        <3>2. (r \o s) \o t = r \o (s \o t)
            BY <3>1, ConcatAssociative
        <3> QED BY <1>5, <2>1, <3>2 DEF r, s, t
    <2>5. ~Up(f) => sock'[f] = <<>>
        <3> SUFFICES ASSUME ~Up(f) PROVE sock'[f] = <<>>
            OBVIOUS
        <3>1. data = <<>>
            BY <1>5 DEF Up
        <3>2. Taken(f, data) = <<>>
            BY <2>1, <3>1, ConcatSimplifications DEF Units
        <3> QED BY <1>3, <1>5, <3>2, EmptySeq, ConcatEmptySeq DEF Units
    <2>6. Typed(f)'
        BY <1>1, <1>2, <1>3, <1>5, <2>3 DEF Typed
    <2>7. Sound(f)'
        <3>1. Up(f)' => sock'[f] \o buf'[f] = Numbers(0, unread'[f])
            BY <1>1, <2>2, <2>4
        <3> QED BY <1>2, <1>3, <1>5, <2>2, <2>3, <2>5, <3>1 DEF Sound
    <2>8. Known(f)'
        BY <1>5 DEF Known
    <2>9. Streams(f)
        <3>1. CASE Up(f)
            <4>1. Shown(f)' = Numbers(0, unread[f] + n)
                BY <1>1, <2>2, <2>4, <3>1 DEF Shown
            <4>2. Shown(f)' = Shown(f) \o Numbers(Len(Shown(f)), n)
                BY <1>0, <3>1, <4>1, WrittenIs
            <4>3. n = 0 => Shown(f)' = Shown(f)
                <5>1. Shown(f) = Numbers(0, unread[f])
                    BY <3>1 DEF Conn, Sound, Shown
                <5>2. n = 0 => unread[f] + n = unread[f]
                    BY <1>1
                <5> QED BY <4>1, <5>1, <5>2
            <4> QED BY <2>2, <3>1, <4>2, <4>3 DEF Streams
        <3>2. CASE ~Up(f)
            BY <1>3, <2>2, <3>2 DEF Streams, Shown
        <3> QED BY <3>1, <3>2
    <2> QED BY <2>6, <2>7, <2>8, <2>9 DEF Conn
<1> QED BY <1>2, <1>4, <1>5 DEF Flushed

-----------------------------------------------------------------------------
(* What the operations do to all connections.                               *)

LEMMA FlushClientsDoes ==
    ASSUME IInv, NEW F \in SUBSET Fds, NEW data, \A f \in F : data[f] \in Units,
           FlushClients(F, data)
    PROVE  /\ isOpen' = [f \in Fds |-> isOpen'[f]] /\ hungUp' = [f \in Fds |-> hungUp'[f]]
           /\ sock' = [f \in Fds |-> sock'[f]] /\ buf' = [f \in Fds |-> buf'[f]]
           /\ bufsize' = [f \in Fds |-> bufsize'[f]]
           /\ ClientsWriteBlocked \subseteq ClientsWriteBlocked'
           /\ ClientsWriteBlocked' \subseteq Fds
           /\ AnyClientsWriteBlocked' \in BOOLEAN
           /\ AnyClientsWriteBlocked' <=> ClientsWriteBlocked' # {}
           /\ \A f \in Fds \ F :
                /\ isOpen'[f] = isOpen[f] /\ hungUp'[f] = hungUp[f]
                /\ sock'[f] = sock[f] /\ buf'[f] = buf[f] /\ bufsize'[f] = bufsize[f]
           /\ \A f \in F : Flushed(f, data[f])
<1> DEFINE refused == {f \in F : Refused(f, data[f])}
           stuck   == {f \in F \ refused : Rest(f, data[f]) # <<>>}
           grown   == {f \in stuck : Len(Rest(f, data[f])) > bufsize[f]}
           shrunk  == {f \in F \ (refused \cup stuck) :
                         bufsize[f] > OutputBufferSize}
<1>1. PICK lost \in SUBSET (grown \cup shrunk) :
        (lost = {} \/ MemoryFails) /\ LET closed == refused \cup lost IN
        /\ isOpen' = [f \in Fds |-> isOpen[f] /\ f \notin closed]
        /\ hungUp' = [f \in Fds |-> hungUp[f] /\ f \notin closed]
        /\ sock' = [f \in Fds |-> IF f \in closed THEN <<>>
                                  ELSE IF f \in F
                                       THEN sock[f] \o Taken(f, data[f])
                                       ELSE sock[f]]
        /\ buf' = [f \in Fds |-> IF f \in lost THEN <<>>
                                 ELSE IF f \in F \ refused
                                      THEN Rest(f, data[f]) ELSE buf[f]]
        /\ bufsize' = [f \in Fds |->
                         IF f \in lost THEN 0
                         ELSE IF f \in grown THEN Grown(Len(Rest(f, data[f])))
                         ELSE IF f \in shrunk THEN OutputBufferSize
                         ELSE bufsize[f]]
    <2>1. \A l : l \in (IF MemoryFails THEN SUBSET (grown \cup shrunk) ELSE {{}})
                    => l \in SUBSET (grown \cup shrunk) /\ (l = {} \/ MemoryFails)
        OBVIOUS
    <2> QED BY <2>1, ZenonT(30) DEF FlushClients
<1>2. /\ ClientsWriteBlocked' = ClientsWriteBlocked \cup stuck
      /\ AnyClientsWriteBlocked' = (AnyClientsWriteBlocked \/ stuck # {})
    BY DEF FlushClients
<1>3. \A f \in Fds : Typed(f) /\ Sound(f)
    BY DEF IInv, Conn
<1>4. refused \subseteq F /\ stuck \subseteq F /\ lost \subseteq F /\ stuck \cap refused = {}
    OBVIOUS
<1>5. /\ ClientsWriteBlocked \subseteq ClientsWriteBlocked'
      /\ ClientsWriteBlocked' \subseteq Fds
      /\ AnyClientsWriteBlocked' \in BOOLEAN
      /\ AnyClientsWriteBlocked' <=> ClientsWriteBlocked' # {}
    <2> HIDE DEF stuck, refused, grown, shrunk
    <2> QED BY <1>2, <1>4 DEF IInv, Pending
<1>6. ASSUME NEW f \in F PROVE Grown(Len(Rest(f, data[f]))) \in Nat
    <2>1. sock[f] \in Units /\ Len(sock[f]) <= SockSize
        BY <1>3 DEF Typed, Sound
    <2>2. Rest(f, data[f]) \in Units
        BY <2>1, TakenIs
    <2>3. Len(Rest(f, data[f])) \in Nat
        BY <2>2, LenProperties DEF Units
    <2> QED BY <2>3, Constants DEF Grown
<1>7. \A f \in refused : ~isOpen[f] \/ (hungUp[f] /\ data[f] # <<>>) \/ data[f] = <<>>
    BY DEF Refused
<1>8. \A f \in F \ refused : isOpen[f] /\ (hungUp[f] => data[f] = <<>>)
    BY DEF Refused
<1>9. \A f \in F \ refused : Rest(f, data[f]) # <<>> => f \in ClientsWriteBlocked'
    BY <1>2
<1>10. \A f \in grown : f \in F
    OBVIOUS
<1>11. \A f \in shrunk : f \in F
    OBVIOUS
<1> HIDE DEF refused, stuck, grown, shrunk
<1>12. ASSUME NEW f \in Fds \ F
       PROVE  /\ isOpen'[f] = isOpen[f] /\ hungUp'[f] = hungUp[f]
              /\ sock'[f] = sock[f] /\ buf'[f] = buf[f] /\ bufsize'[f] = bufsize[f]
    <2>1. f \notin refused /\ f \notin lost /\ f \notin grown /\ f \notin shrunk
        BY <1>4, <1>10, <1>11
    <2>2. isOpen[f] \in BOOLEAN /\ hungUp[f] \in BOOLEAN
        BY <1>3 DEF Typed
    <2> QED BY <1>1, <2>1, <2>2
<1>13. ASSUME NEW f \in F PROVE Flushed(f, data[f])
    <2>1. isOpen[f] \in BOOLEAN /\ hungUp[f] \in BOOLEAN /\ bufsize[f] \in Nat
        BY <1>3 DEF Typed
    <2>2. bufsize'[f] \in Nat
        BY <1>1, <1>6, <2>1, Constants
    <2>3. CASE f \in refused \cup lost
        <3>1. isOpen'[f] = FALSE /\ hungUp'[f] = FALSE /\ sock'[f] = <<>>
            BY <1>1, <2>3
        <3>2. buf'[f] \in {buf[f], <<>>}
            BY <1>1, <2>3
        <3> QED BY <2>2, <3>1, <3>2 DEF Flushed
    <2>4. CASE f \notin refused \cup lost
        <3>1. isOpen'[f] = isOpen[f] /\ hungUp'[f] = hungUp[f]
            BY <1>1, <2>1, <2>4
        <3>2. sock'[f] = sock[f] \o Taken(f, data[f]) /\ buf'[f] = Rest(f, data[f])
            BY <1>1, <2>4
        <3> QED BY <1>8, <1>9, <2>2, <2>4, <3>1, <3>2 DEF Flushed
    <2> QED BY <2>3, <2>4
<1>14. /\ isOpen' = [f \in Fds |-> isOpen'[f]] /\ hungUp' = [f \in Fds |-> hungUp'[f]]
       /\ sock' = [f \in Fds |-> sock'[f]] /\ buf' = [f \in Fds |-> buf'[f]]
       /\ bufsize' = [f \in Fds |-> bufsize'[f]]
    BY <1>1
<1> QED BY <1>5, <1>12, <1>13, <1>14

\* A step does one of these things to each connection,
Changes(f) ==
    \/ Same(f) \/ Reads(f) \/ HangsUp(f) \/ Closes(f) \/ Opens(f)
    \/ \E n \in Sizes : Buffers(f, n)
    \/ \E n \in Sizes \cup {0} : Flushes(f, n)

\* and keeps the masks.
Orderly == Mapped' /\ Pending' /\ \A f \in Fds : Changes(f)

LEMMA ChangesKept ==
    ASSUME NEW f \in Fds, Conn(f), Changes(f)
    PROVE  Conn(f)' /\ Streams(f)
BY SameKept, ReadsKept, HangsUpKept, ClosesKept, OpensKept, BuffersKept,
   FlushesKept DEF Changes

LEMMA NothingWritten ==
    ASSUME NEW f \in Fds, Conn(f)
    PROVE  /\ buf[f] \o Numbers(unread[f], 0) = buf[f] /\ buf[f] \in Units
           /\ unread[f] + 0 = unread[f] /\ unread[f] <= MaxUnread
<1>1. buf[f] \in Units /\ unread[f] \in Nat /\ unread[f] <= MaxUnread
    BY Constants DEF Conn, Typed
<1> DEFINE t == Numbers(unread[f], 0)
<1>2. t = <<>>
    <2>1. t \in Seq(Nat \ {0}) /\ Len(t) = 0
        BY <1>1, NumbersAre
    <2>2. \A q \in Seq(Nat \ {0}) : q # <<>> => Len(q) \in Nat \ {0}
        BY EmptySeq
    <2> HIDE DEF t
    <2> QED BY <2>1, <2>2
<1>3. buf[f] \o <<>> = buf[f]
    <2>1. \A q \in Seq(1..MaxUnread) : q \o <<>> = q
        BY ConcatEmptySeq
    <2> QED BY <1>1, <2>1 DEF Units
<1>4. unread[f] + 0 = unread[f]
    BY <1>1
<1>5. buf[f] \o t = buf[f]
    BY <1>2, <1>3
<1> QED BY <1>1, <1>4, <1>5

LEMMA UnchangedOrderly ==
    ASSUME IInv, UNCHANGED <<connVars, unread, pendVars, index>>
    PROVE  Orderly
<1>1. Mapped' /\ Pending'
    BY DEF IInv, Mapped, Pending, connVars, pendVars
<1>2. \A f \in Fds : Same(f)
    BY DEF Same, connVars, pendVars
<1> QED BY <1>1, <1>2 DEF Orderly, Changes

LEMMA WriteOrderly ==
    ASSUME IInv, NEW f \in Fds, NEW n \in Sizes, NEW critical \in BOOLEAN,
           WriteToClient(f, n, critical), index' = index
    PROVE  Orderly
<1> DEFINE data == buf[f] \o Numbers(unread[f], n)
           d    == [g \in {f} |-> data]
<1>1. /\ InUse(f) /\ unread[f] + n <= MaxUnread
      /\ unread' = [unread EXCEPT ![f] = @ + n]
    BY DEF WriteToClient
<1>2. /\ Mapped /\ Pending /\ \A g \in Fds : Conn(g)
    BY DEF IInv
<1>3. /\ unread'[f] = unread[f] + n
      /\ \A g \in Fds \ {f} : unread'[g] = unread[g]
      /\ unread' = [g \in Fds |-> unread'[g]]
      /\ index' = [g \in Fds |-> index'[g]]
    BY <1>1, <1>2 DEF Mapped
<1>4. CASE /\ OutputPending' = OutputPending \ {f}
           /\ CriticalOutputPending' = CriticalDone /\ NewOutputPending' = FALSE
           /\ FlushClients({f}, d)
    <2>1. data \in Units /\ d[f] = data
        BY <1>1, <1>2, Constants, WrittenIs
    <2> HIDE DEF data
    <2>2. {f} \in SUBSET Fds /\ \A g \in {f} : d[g] \in Units
        BY <2>1
    <2> HIDE DEF d
    <2>3. /\ isOpen' = [g \in Fds |-> isOpen'[g]] /\ hungUp' = [g \in Fds |-> hungUp'[g]]
          /\ sock' = [g \in Fds |-> sock'[g]] /\ buf' = [g \in Fds |-> buf'[g]]
          /\ bufsize' = [g \in Fds |-> bufsize'[g]]
          /\ ClientsWriteBlocked \subseteq ClientsWriteBlocked'
          /\ ClientsWriteBlocked' \subseteq Fds
          /\ AnyClientsWriteBlocked' \in BOOLEAN
          /\ AnyClientsWriteBlocked' <=> ClientsWriteBlocked' # {}
          /\ \A g \in Fds \ {f} :
               /\ isOpen'[g] = isOpen[g] /\ hungUp'[g] = hungUp[g]
               /\ sock'[g] = sock[g] /\ buf'[g] = buf[g] /\ bufsize'[g] = bufsize[g]
          /\ \A g \in {f} : Flushed(g, d[g])
        BY <1>4, <2>2, FlushClientsDoes
    <2>4. Mapped'
        BY <1>3, <2>3 DEF Mapped
    <2>5. Pending'
        BY <1>2, <1>4, <2>3 DEF Pending, CriticalDone
    <2>6. Flushes(f, n)
        BY <1>1, <1>3, <2>1, <2>3 DEF Flushes, data
    <2>7. ASSUME NEW g \in Fds \ {f} PROVE Same(g)
        BY <1>3, <1>4, <2>3 DEF Same
    <2> QED BY <2>4, <2>5, <2>6, <2>7 DEF Orderly, Changes
<1>5. CASE /\ OutputPending' = OutputPending \cup {f} /\ NewOutputPending' = TRUE
           /\ CriticalOutputPending' = (CriticalOutputPending \/ critical)
           /\ buf' = [buf EXCEPT ![f] = data]
           /\ UNCHANGED <<isOpen, hungUp, sock, bufsize, ClientsWriteBlocked,
                          AnyClientsWriteBlocked>>
    <2> HIDE DEF data
    <2>1. /\ buf'[f] = data /\ \A g \in Fds \ {f} : buf'[g] = buf[g]
          /\ buf' = [g \in Fds |-> buf'[g]]
        BY <1>2, <1>5 DEF Mapped
    <2>2. Mapped'
        BY <1>2, <1>3, <1>5, <2>1 DEF Mapped
    <2>3. Pending'
        BY <1>2, <1>5 DEF Pending
    <2>4. Buffers(f, n)
        BY <1>1, <1>3, <1>5, <2>1 DEF Buffers, data
    <2>5. ASSUME NEW g \in Fds \ {f} PROVE Same(g)
        BY <1>3, <1>5, <2>1 DEF Same
    <2> QED BY <2>2, <2>3, <2>4, <2>5 DEF Orderly, Changes
<1> QED BY <1>4, <1>5 DEF WriteToClient

LEMMA FlushAllOutputOrderly ==
    ASSUME IInv, FlushAllOutput, index' = index
    PROVE  Orderly
<1>1. CASE ~NewOutputPending
    BY <1>1, UnchangedOrderly DEF FlushAllOutput
<1>2. CASE NewOutputPending
    <2> DEFINE live == {f \in OutputPending : InUse(f)}
               held == {f \in live : HeldBack(f)}
               F    == live \ held
    <2>1. /\ OutputPending' = held /\ NewOutputPending' = (held # {})
          /\ CriticalOutputPending' = FALSE
          /\ FlushClients(F, buf) /\ unread' = unread
        BY <1>2 DEF FlushAllOutput, FlushAll, StillPending
    <2>2. /\ Mapped /\ Pending /\ \A g \in Fds : Conn(g)
        BY DEF IInv
    <2>3. /\ F \in SUBSET Fds /\ held \subseteq Fds /\ \A f \in F : InUse(f)
          /\ \A f \in Fds \ F : InUse(f) /\ f \in OutputPending => f \in held
        BY <2>2 DEF Pending
    <2> HIDE DEF F, held, live
    <2>4. \A f \in F : buf[f] \in Units
        BY <2>2, <2>3, NothingWritten
    <2>5. /\ isOpen' = [g \in Fds |-> isOpen'[g]] /\ hungUp' = [g \in Fds |-> hungUp'[g]]
          /\ sock' = [g \in Fds |-> sock'[g]] /\ buf' = [g \in Fds |-> buf'[g]]
          /\ bufsize' = [g \in Fds |-> bufsize'[g]]
          /\ ClientsWriteBlocked \subseteq ClientsWriteBlocked'
          /\ ClientsWriteBlocked' \subseteq Fds
          /\ AnyClientsWriteBlocked' \in BOOLEAN
          /\ AnyClientsWriteBlocked' <=> ClientsWriteBlocked' # {}
          /\ \A g \in Fds \ F :
               /\ isOpen'[g] = isOpen[g] /\ hungUp'[g] = hungUp[g]
               /\ sock'[g] = sock[g] /\ buf'[g] = buf[g] /\ bufsize'[g] = bufsize[g]
          /\ \A g \in F : Flushed(g, buf[g])
        BY <2>1, <2>3, <2>4, FlushClientsDoes
    <2>6. Mapped'
        BY <2>1, <2>2, <2>5 DEF Mapped
    <2>7. Pending'
        BY <2>1, <2>3, <2>5 DEF Pending
    <2>8. ASSUME NEW f \in F PROVE Flushes(f, 0)
        BY <2>1, <2>2, <2>3, <2>5, NothingWritten DEF Flushes
    <2>9. ASSUME NEW f \in Fds \ F PROVE Same(f)
        BY <2>1, <2>3, <2>5 DEF Same
    <2> QED BY <2>6, <2>7, <2>8, <2>9 DEF Orderly, Changes
<1> QED BY <1>1, <1>2

LEMMA CriticalOrderly ==
    ASSUME IInv, FlushIfCriticalOutputPending, index' = index
    PROVE  Orderly
BY FlushAllOutputOrderly, UnchangedOrderly DEF FlushIfCriticalOutputPending

LEMMA CloseOrderly ==
    ASSUME IInv, NEW F \in SUBSET Fds, \A f \in F : isOpen[f] => hungUp[f],
           CloseDownClients(F)
    PROVE  /\ Orderly
           /\ full' \subseteq Fds /\ holder' \in Fds \cup {Nobody} /\ backlog' = backlog
<1>1. /\ Mapped /\ Pending /\ Table /\ \A g \in Fds : Conn(g)
    BY DEF IInv
<1>2. Mapped'
    BY DEF CloseDownClients, Mapped
<1>3. Pending'
    BY <1>1 DEF CloseDownClients, BlockedLess, Pending, pendVars
<1>4. ASSUME NEW f \in F PROVE Closes(f)
    BY <1>4 DEF CloseDownClients, Closes
<1>5. ASSUME NEW f \in Fds \ F PROVE Same(f)
    <2>1. isOpen[f] \in BOOLEAN /\ hungUp[f] \in BOOLEAN
        BY <1>1 DEF Conn, Typed
    <2> QED BY <2>1 DEF CloseDownClients, BlockedLess, Same, pendVars
<1>6. full' \subseteq Fds /\ holder' \in Fds \cup {Nobody} /\ backlog' = backlog
    BY <1>1 DEF CloseDownClients, Table
<1> QED BY <1>2, <1>3, <1>4, <1>5, <1>6 DEF Orderly, Changes

-----------------------------------------------------------------------------
(* The least and the greatest descriptor of a set are descriptors.           *)

LEMMA LeastExists ==
    ASSUME NEW T, T \subseteq Nat, T # {}
    PROVE  \E x \in T : \A y \in T : x <= y
<1> DEFINE R == {ss \in Nat \X Nat : ss[1] < ss[2]}
<1>1. IsWellFoundedOn(R, Nat)
    BY NatLessThanWellFounded DEF OpToRel
<1> HIDE DEF R
<1>2. PICK x \in T : \A y \in T : ~(<<y, x>> \in R)
    BY <1>1, WFMin, Zenon
<1>3. ASSUME NEW y \in T PROVE x <= y
    <2>1. <<y, x>> \notin R
        BY <1>2
    <2>2. <<y, x>> \in Nat \X Nat /\ ~(y < x)
        BY <2>1 DEF R
    <2> QED BY <2>2
<1> QED BY <1>3

LEMMA MinIn ==
    ASSUME NEW F \in SUBSET Fds, F # {}
    PROVE  Min(F) \in F
<1>1. F \subseteq Nat
    BY DEF Fds
<1> QED BY <1>1, LeastExists DEF Min

LEMMA MaxIn ==
    ASSUME NEW F \in SUBSET Fds, F # {}
    PROVE  Max(F) \in F
<1> DEFINE T == {LastFd - f : f \in F}
<1>1. LastFd \in Nat /\ \A f \in F : f \in Nat /\ LastFd - f \in Nat
    BY OutputAssumption DEF Fds
<1>2. T \subseteq Nat /\ T # {}
    BY <1>1
<1>3. PICK x \in T : \A y \in T : x <= y
    BY <1>2, LeastExists
<1>4. PICK g \in F : x = LastFd - g
    OBVIOUS
<1>5. ASSUME NEW h \in F PROVE g >= h
    <2>1. LastFd - g <= LastFd - h
        BY <1>3, <1>4
    <2> QED BY <1>1, <2>1
<1> QED BY <1>5 DEF Max

-----------------------------------------------------------------------------
(* The steps.                                                               *)

LEMMA PeerReadsOrderly ==
    ASSUME IInv, NEW f \in Fds, PeerReads(f)
    PROVE  Orderly
<1>1. Mapped /\ Pending
    BY DEF IInv
<1>2. /\ isOpen[f] /\ ~hungUp[f] /\ sock[f] # <<>>
      /\ sock' = [sock EXCEPT ![f] = [i \in 1..(Len(@) - 1) |-> @[i + 1] - 1]]
      /\ buf' = [buf EXCEPT ![f] = [i \in 1..Len(@) |-> @[i] - 1]]
      /\ unread' = [unread EXCEPT ![f] = @ - 1]
      /\ UNCHANGED <<isOpen, hungUp, bufsize, ClientsWriteBlocked,
                     AnyClientsWriteBlocked, pendVars, index>>
    BY DEF PeerReads, tableVars
<1>3. /\ sock'[f] = [i \in 1..(Len(sock[f]) - 1) |-> sock[f][i + 1] - 1]
      /\ buf'[f] = [i \in 1..Len(buf[f]) |-> buf[f][i] - 1]
      /\ unread'[f] = unread[f] - 1
    BY <1>1, <1>2 DEF Mapped
<1>4. ASSUME NEW g \in Fds \ {f} PROVE Same(g)
    BY <1>1, <1>2 DEF Mapped, Same, pendVars
<1>5. Reads(f)
    BY <1>2, <1>3 DEF Reads, pendVars
<1>6. Mapped'
    BY <1>1, <1>2 DEF Mapped
<1>7. Pending'
    BY <1>1, <1>2 DEF Pending, pendVars
<1> QED BY <1>4, <1>5, <1>6, <1>7 DEF Orderly, Changes

LEMMA PeerHangsUpOrderly ==
    ASSUME IInv, NEW f \in Fds, PeerHangsUp(f)
    PROVE  Orderly
<1>1. Mapped /\ Pending
    BY DEF IInv
<1>2. /\ isOpen[f] /\ hungUp' = [hungUp EXCEPT ![f] = TRUE]
      /\ sock' = [sock EXCEPT ![f] = <<>>]
      /\ UNCHANGED <<isOpen, buf, bufsize, ClientsWriteBlocked, unread,
                     AnyClientsWriteBlocked, pendVars, index>>
    BY DEF PeerHangsUp, tableVars
<1>3. ASSUME NEW g \in Fds \ {f} PROVE Same(g)
    BY <1>1, <1>2 DEF Mapped, Same, pendVars
<1>4. HangsUp(f)
    BY <1>1, <1>2 DEF Mapped, HangsUp, pendVars
<1>5. Mapped'
    BY <1>1, <1>2 DEF Mapped
<1>6. Pending'
    BY <1>1, <1>2 DEF Pending, pendVars
<1> QED BY <1>3, <1>4, <1>5, <1>6 DEF Orderly, Changes

\* Whom Accept takes on
LEMMA AcceptDoes ==
    ASSUME IInv, Accept
    PROVE  /\ backlog' \in 0..MaxBacklog /\ client' \in Fds \cup {Nobody}
           /\ \/ UNCHANGED <<isOpen, index>>
              \/ /\ client' \in Fds /\ ~isOpen[client'] /\ ~InUse(client')
                 /\ isOpen' = [isOpen EXCEPT ![client'] = TRUE]
                 /\ \E i \in Indices : index' = [index EXCEPT ![client'] = i]
<1>1. backlog \in 0..MaxBacklog /\ MaxBacklog \in Nat
    BY OutputAssumption DEF IInv, Table
<1>2. CASE backlog = 0 /\ client' = Nobody /\ UNCHANGED <<backlog, isOpen, index>>
    BY <1>1, <1>2
<1>3. CASE /\ backlog > 0 /\ backlog' = backlog - 1
           /\ client' = Nobody /\ UNCHANGED <<isOpen, index>>
    BY <1>1, <1>3
<1>4. CASE /\ backlog > 0 /\ backlog' = backlog - 1
           /\ \E f \in Fds : ~isOpen[f]
           /\ client' = Min({f \in Fds : ~isOpen[f]})
           /\ ~InUse(client')
           /\ isOpen' = [isOpen EXCEPT ![client'] = TRUE]
           /\ \E i \in Indices \ {index[f] : f \in Fds} :
                index' = [index EXCEPT ![client'] = i]
    <2> DEFINE F == {f \in Fds : ~isOpen[f]}
    <2>1. F \in SUBSET Fds /\ F # {}
        BY <1>4
    <2>2. client' \in F
        BY <1>4, <2>1, MinIn
    <2>3. backlog' \in 0..MaxBacklog
        BY <1>1, <1>4
    <2>4. \E i \in Indices : index' = [index EXCEPT ![client'] = i]
        BY <1>4
    <2> QED BY <1>4, <2>2, <2>3, <2>4
<1> QED BY <1>2, <1>3, <1>4 DEF Accept

LEMMA SelectOrderly ==
    ASSUME IInv, NEW A \in SUBSET AllClients, Select(A)
    PROVE  Orderly /\ Table'
<1> DEFINE readable == A \cup {f \in AllClients : hungUp[f]}
           writable == IF AnyClientsWriteBlocked THEN Writable ELSE {}
<1>1. Mapped /\ Pending /\ Table
    BY DEF IInv
<1>2. /\ Accept /\ ready' = readable
      /\ pc' = IF client' # Nobody THEN "new"
               ELSE IF readable # {} THEN "round" ELSE "wait"
      /\ UNCHANGED <<hungUp, sock, unread, buf, bufsize, full, holder,
                     CriticalOutputPending>>
    BY DEF Select
<1>3. readable \subseteq Fds
    BY DEF AllClients
<1>4. /\ ClientsWriteBlocked' \subseteq ClientsWriteBlocked
      /\ OutputPending \subseteq OutputPending' /\ OutputPending' \subseteq Fds
      /\ ClientsWriteBlocked \subseteq OutputPending' \cup ClientsWriteBlocked'
      /\ NewOutputPending' \in BOOLEAN /\ AnyClientsWriteBlocked' \in BOOLEAN
      /\ AnyClientsWriteBlocked' <=> ClientsWriteBlocked' # {}
    <2>1. writable \subseteq Writable /\ Writable \subseteq ClientsWriteBlocked
        BY DEF Writable
    <2>2. \/ /\ NewOutputPending' = TRUE /\ OutputPending' = OutputPending \cup Writable
             /\ ClientsWriteBlocked' = ClientsWriteBlocked \ writable
             /\ AnyClientsWriteBlocked' = (ClientsWriteBlocked' # {})
          \/ UNCHANGED <<NewOutputPending, OutputPending, ClientsWriteBlocked,
                         AnyClientsWriteBlocked>>
        BY DEF Select, Retried
    <2>3. /\ OutputPending \subseteq Fds /\ ClientsWriteBlocked \subseteq Fds
          /\ NewOutputPending \in BOOLEAN /\ AnyClientsWriteBlocked \in BOOLEAN
          /\ AnyClientsWriteBlocked <=> ClientsWriteBlocked # {}
        BY <1>1 DEF Pending
    <2> HIDE DEF writable
    <2>5. CASE /\ NewOutputPending' = TRUE /\ OutputPending' = OutputPending \cup Writable
               /\ ClientsWriteBlocked' = ClientsWriteBlocked \ writable
               /\ AnyClientsWriteBlocked' = (ClientsWriteBlocked' # {})
        BY <2>1, <2>3, <2>5
    <2>6. CASE UNCHANGED <<NewOutputPending, OutputPending, ClientsWriteBlocked,
                           AnyClientsWriteBlocked>>
        BY <2>3, <2>6
    <2> QED BY <2>2, <2>5, <2>6
<1> HIDE DEF readable, writable
<1>5. /\ backlog' \in 0..MaxBacklog /\ client' \in Fds \cup {Nobody}
      /\ \/ UNCHANGED <<isOpen, index>>
         \/ /\ client' \in Fds /\ ~isOpen[client'] /\ ~InUse(client')
            /\ isOpen' = [isOpen EXCEPT ![client'] = TRUE]
            /\ \E i \in Indices : index' = [index EXCEPT ![client'] = i]
    BY <1>2, AcceptDoes
<1>6. Table'
    BY <1>1, <1>2, <1>3, <1>5 DEF Table
<1>7. Pending'
    BY <1>1, <1>2, <1>4 DEF Pending
<1>8. CASE UNCHANGED <<isOpen, index>>
    <2>1. Mapped'
        BY <1>1, <1>2, <1>8 DEF Mapped
    <2>2. \A f \in Fds : Same(f)
        BY <1>2, <1>4, <1>8 DEF Same
    <2> QED BY <1>6, <1>7, <2>1, <2>2 DEF Orderly, Changes
<1>9. ASSUME NEW f \in Fds, ~isOpen[f], ~InUse(f), isOpen' = [isOpen EXCEPT ![f] = TRUE],
             NEW i \in Indices, index' = [index EXCEPT ![f] = i]
      PROVE  Mapped' /\ Opens(f) /\ \A g \in Fds \ {f} : Same(g)
    <2>1. /\ isOpen' = [g \in Fds |-> isOpen'[g]] /\ index' = [g \in Fds |-> index'[g]]
          /\ isOpen'[f] = TRUE /\ index'[f] = i
          /\ \A g \in Fds \ {f} : isOpen'[g] = isOpen[g] /\ index'[g] = index[g]
        BY <1>1, <1>9 DEF Mapped
    <2>2. Mapped'
        BY <1>1, <1>2, <2>1 DEF Mapped
    <2>3. Opens(f)
        BY <1>2, <1>9, <2>1 DEF Opens
    <2>4. \A g \in Fds \ {f} : Same(g)
        BY <1>2, <1>4, <2>1 DEF Same
    <2> QED BY <2>2, <2>3, <2>4
<1>10. Orderly
    BY <1>5, <1>6, <1>7, <1>8, <1>9 DEF Orderly, Changes
<1> QED BY <1>6, <1>10

-----------------------------------------------------------------------------
\* Every step of the server, of the kernel and of the peers is orderly.
LEMMA StepOrderly ==
    ASSUME IInv, [Next]_vars
    PROVE  Orderly /\ Table'
<1>1. Table /\ Sizes # {} /\ ClientsWithInput \subseteq Fds
    BY OutputAssumption DEF IInv, Table, ClientsWithInput
<1>2. ASSUME NEW f \in Fds, NEW n \in Sizes, NEW c \in BOOLEAN,
             InputEvent(f, n, c) \/ RequestWrites(f, n, c)
      PROVE  Orderly /\ Table'
    <2>1. WriteToClient(f, n, c) /\ UNCHANGED <<tableVars, loopVars>>
        BY <1>2 DEF InputEvent, RequestWrites, TheLoop
    <2>2. Orderly
        BY <2>1, WriteOrderly DEF tableVars
    <2> QED BY <1>1, <2>1, <2>2 DEF Table, tableVars, loopVars
<1>3. ASSUME NEW n \in Sizes, WelcomeNew(n)
      PROVE  Orderly /\ Table'
    <2>1. /\ WriteToClient(client, n, FALSE) /\ client \in Fds
          /\ pc' = "round" /\ client' = Nobody /\ UNCHANGED <<tableVars, ready>>
        BY <1>1, <1>3 DEF WelcomeNew, Table
    <2>2. Orderly
        BY <2>1, WriteOrderly DEF tableVars
    <2> QED BY <1>1, <2>1, <2>2 DEF Table, tableVars
<1>4. ASSUME InputDone PROVE Orderly /\ Table'
    <2>1. /\ FlushIfCriticalOutputPending /\ pc' = "wait"
          /\ UNCHANGED <<tableVars, ready, client>>
        BY <1>4 DEF InputDone
    <2>2. Orderly
        BY <2>1, CriticalOrderly DEF tableVars
    <2> QED BY <1>1, <2>1, <2>2 DEF Table, tableVars
<1>5. ASSUME NextReady PROVE Orderly /\ Table'
    <2>1. Orderly
        BY <1>5, UnchangedOrderly DEF NextReady, tableVars
    <2>2. Max(ready) \in Fds
        BY <1>1, <1>5, MaxIn DEF NextReady, Table
    <2> QED BY <1>1, <1>5, <2>1, <2>2 DEF NextReady, Table, tableVars
<1>6. ASSUME EndRound PROVE Orderly /\ Table'
    <2>1. Orderly
        BY <1>6, UnchangedOrderly DEF EndRound, tableVars
    <2> QED BY <1>1, <1>6, <2>1 DEF EndRound, Table, tableVars
<1>7. ASSUME ReadRequest PROVE Orderly /\ Table'
    <2>1. Orderly
        BY <1>7, UnchangedOrderly DEF ReadRequest
    <2> QED BY <1>1, <1>7, <2>1 DEF ReadRequest, Table, TheLoop, loopVars
<1>8. ASSUME InputBetweenRequests PROVE Orderly /\ Table'
    <2>1. FlushIfCriticalOutputPending /\ UNCHANGED <<tableVars, loopVars>>
        BY <1>8 DEF InputBetweenRequests, TheLoop
    <2>2. Orderly
        BY <2>1, CriticalOrderly DEF tableVars
    <2> QED BY <1>1, <2>1, <2>2 DEF Table, tableVars, loopVars
<1>9. ASSUME GrabServer PROVE Orderly /\ Table'
    <2>1. Orderly
        BY <1>9, UnchangedOrderly DEF GrabServer
    <2> QED BY <1>1, <1>9, <2>1 DEF GrabServer, Table, TheLoop, loopVars
<1>10. ASSUME CloseTurn PROVE Orderly /\ Table'
    <2>1. /\ client \in Fds /\ (hungUp[client] \/ ~isOpen[client])
          /\ CloseDownClients({client})
          /\ client' = Nobody /\ UNCHANGED <<pc, ready>> /\ pc = "turn"
        BY <1>1, <1>10 DEF CloseTurn, Table
    <2>2. /\ {client} \in SUBSET Fds
          /\ \A f \in {client} : isOpen[f] => hungUp[f]
        BY <2>1
    <2>3. Orderly /\ full' \subseteq Fds /\ holder' \in Fds \cup {Nobody} /\ backlog' = backlog
        BY <2>1, <2>2, CloseOrderly
    <2> QED BY <1>1, <2>1, <2>3 DEF Table
<1>11. ASSUME EndTurn PROVE Orderly /\ Table'
    <2>1. Orderly
        BY <1>11, FlushAllOutputOrderly DEF EndTurn, tableVars
    <2> QED BY <1>1, <1>11, <2>1 DEF EndTurn, Table, tableVars
<1>12. ASSUME WaitBuffered PROVE Orderly /\ Table'
    <2>1. Orderly
        BY <1>12, UnchangedOrderly DEF WaitBuffered, tableVars
    <2> QED BY <1>1, <1>12, <2>1 DEF WaitBuffered, Table, tableVars
<1>13. ASSUME WaitFlush PROVE Orderly /\ Table'
    <2>1. Orderly
        BY <1>13, FlushAllOutputOrderly DEF WaitFlush, tableVars
    <2> QED BY <1>1, <1>13, <2>1 DEF WaitFlush, Table, tableVars, TheLoop, loopVars
<1>14. ASSUME CheckConnections PROVE Orderly /\ Table'
    <2> DEFINE F == BadFds \cap AllClients
    <2>1. /\ CloseDownClients(F) /\ pc' \in {"wait", "input"} /\ UNCHANGED <<ready, client>>
        BY <1>14 DEF CheckConnections
    <2>2. F \in SUBSET Fds /\ \A f \in F : isOpen[f] => hungUp[f]
        BY DEF BadFds, AllClients
    <2> HIDE DEF F
    <2>3. Orderly /\ full' \subseteq Fds /\ holder' \in Fds \cup {Nobody} /\ backlog' = backlog
        BY <2>1, <2>2, CloseOrderly
    <2> QED BY <1>1, <2>1, <2>3 DEF Table
<1>15. ASSUME NEW A \in SUBSET AllClients, Select(A) PROVE Orderly /\ Table'
    BY <1>15, SelectOrderly
<1>16. ASSUME PeerConnects PROVE Orderly /\ Table'
    <2>1. Orderly
        BY <1>16, UnchangedOrderly DEF PeerConnects
    <2>2. backlog' \in 0..MaxBacklog
        BY <1>1, <1>16, OutputAssumption DEF PeerConnects, Table
    <2> QED BY <1>1, <1>16, <2>1, <2>2 DEF PeerConnects, Table, loopVars
<1>17. ASSUME NEW f \in Fds, PeerReads(f) PROVE Orderly /\ Table'
    BY <1>1, <1>17, PeerReadsOrderly DEF PeerReads, Table, tableVars, loopVars
<1>18. ASSUME NEW f \in Fds, PeerHangsUp(f) PROVE Orderly /\ Table'
    BY <1>1, <1>18, PeerHangsUpOrderly DEF PeerHangsUp, Table, tableVars, loopVars
<1>19. CASE UNCHANGED vars
    <2>1. Orderly
        BY <1>19, UnchangedOrderly DEF vars, tableVars
    <2> QED BY <1>1, <1>19, <2>1 DEF vars, tableVars, loopVars, Table
<1>20. ASSUME ServerStep PROVE Orderly /\ Table'
    BY <1>2, <1>3, <1>4, <1>5, <1>6, <1>7, <1>8, <1>9, <1>10, <1>11, <1>12, <1>13,
       <1>14, <1>15, <1>20 DEF ServerStep
<1>21. ASSUME Environment PROVE Orderly /\ Table'
    BY <1>16, <1>17, <1>18, <1>21 DEF Environment
<1> QED BY <1>19, <1>20, <1>21 DEF Next

LEMMA StepKept ==
    ASSUME IInv, [Next]_vars
    PROVE  IInv' /\ \A f \in Fds : Streams(f)
<1>1. Orderly /\ Table'
    BY StepOrderly
<1>2. ASSUME NEW f \in Fds PROVE Conn(f)' /\ Streams(f)
    BY <1>1, ChangesKept DEF IInv, Orderly
<1> QED BY <1>1, <1>2 DEF IInv, Orderly

LEMMA InitKept == Init => IInv
<1> SUFFICES ASSUME Init PROVE IInv
    OBVIOUS
<1>1. Mapped
    BY DEF Init, Mapped
<1>2. Pending
    BY DEF Init, Pending
<1>3. Table
    BY OutputAssumption DEF Init, Table
<1>4. ASSUME NEW f \in Fds PROVE Conn(f)
    <2>1. /\ isOpen[f] = FALSE /\ hungUp[f] = FALSE /\ sock[f] = <<>> /\ buf[f] = <<>>
          /\ unread[f] = 0 /\ bufsize[f] = OutputBufferSize /\ index[f] = Nobody
        BY DEF Init
    <2>2. 0 \in 0..MaxUnread
        BY Constants
    <2>3. ~Up(f) /\ ~InUse(f)
        BY <2>1 DEF Up, InUse
    <2>4. Typed(f)
        BY <2>1, <2>2, Constants DEF Typed
    <2>5. Sound(f)
        BY <2>1, <2>3, Constants DEF Sound
    <2> QED BY <2>1, <2>4, <2>5 DEF Conn, Known
<1> QED BY <1>1, <1>2, <1>3, <1>4 DEF IInv

\* IInv holds in every state: whatever FlushClient (io.c) does with a writev()
\* that takes nothing, a part, or fails, and whatever WaitForSomething finds.
THEOREM Invariance == Spec => []IInv
<1>1. IInv /\ [Next]_vars => IInv'
    BY StepKept
<1> QED BY <1>1, InitKept, PTL DEF Spec

\* The masks hold descriptors and the buffers units: TypeOK.
THEOREM TypeCorrect == Spec => []TypeOK
BY Invariance, InvImplies, PTL

\* Output that WriteToClient has put in a buffer, or that FlushClient could not
\* write, is in OutputPending, for FlushAllOutput to find, or its descriptor is
\* one select() is asked about.
THEOREM NothingIsForgotten == Spec => []NothingForgotten
BY Invariance, InvImplies, PTL

\* Module Stream, of the connections
shownUp    == [f \in Fds |-> Up(f)]
shownQueue == [f \in Fds |-> Shown(f)]

LEMMA ShownAre ==
    ASSUME NEW f \in Fds
    PROVE  /\ shownUp[f] = Up(f) /\ shownUp'[f] = Up(f)'
           /\ shownQueue[f] = Shown(f) /\ shownQueue'[f] = Shown(f)'
<1>1. shownUp[f] = Up(f) /\ shownUp'[f] = Up(f)'
    BY DEF shownUp
<1>2. shownQueue[f] = Shown(f) /\ shownQueue'[f] = Shown(f)'
    BY DEF shownQueue
<1> QED BY <1>1, <1>2

LEMMA StepStreams ==
    ASSUME IInv, [Next]_vars
    PROVE  [S!Next]_S!vars
<1>1. \A f \in Fds : Streams(f)
    BY StepKept
<1>2. /\ shownUp \in [Fds -> BOOLEAN] /\ shownUp' \in [Fds -> BOOLEAN]
      /\ DOMAIN shownQueue' = Fds
    <2>1. \A f \in Fds : Up(f) \in BOOLEAN
        BY DEF Up
    <2>2. \A f \in Fds : Up(f)' \in BOOLEAN
        BY DEF Up
    <2>3. shownUp \in [Fds -> BOOLEAN]
        BY <2>1 DEF shownUp
    <2>4. shownUp' \in [Fds -> BOOLEAN]
        BY <2>2 DEF shownUp
    <2>5. DOMAIN shownQueue' = Fds
        BY ZenonT(30) DEF shownQueue
    <2> QED BY <2>3, <2>4, <2>5
<1>3. ASSUME NEW f \in Fds
      PROVE  S!Open(f) \/ S!Write(f) \/ S!Read(f) \/ S!Close(f) \/ S!Stay(f)
    <2>1. Streams(f)
        BY <1>1
    <2>2. \/ ~shownUp[f] /\ shownUp'[f] /\ shownQueue'[f] = <<>>
          \/ /\ shownUp[f] /\ shownUp'[f]
             /\ \E n \in Sizes :
                  shownQueue'[f] = shownQueue[f] \o Numbers(Len(shownQueue[f]), n)
          \/ /\ shownUp[f] /\ shownUp'[f] /\ shownQueue[f] # <<>>
             /\ shownQueue'[f] = Numbers(0, Len(shownQueue[f]) - 1)
          \/ shownUp[f] /\ ~shownUp'[f] /\ shownQueue'[f] = <<>>
          \/ shownUp'[f] = shownUp[f] /\ shownQueue'[f] = shownQueue[f]
        BY <2>1, ShownAre, Zenon DEF Streams
    <2> QED BY <2>2 DEF S!Open, S!Write, S!Read, S!Close, S!Stay, S!Numbers, Numbers,
              shownUp, shownQueue, Shown
<1>4. S!Next
    BY <1>2, <1>3 DEF S!Next, shownUp, shownQueue, Shown
<1> QED BY <1>4

LEMMA InitStreams == Init => S!Init
<1> SUFFICES ASSUME Init PROVE S!Init
    OBVIOUS
<1>1. ASSUME NEW f \in Fds PROVE ~Up(f) /\ Up(f) \in BOOLEAN
    BY DEF Init, Up
<1> QED BY <1>1 DEF S!Init

\* The buffer, the kernel and the masks implement module Stream: WriteToClient
\* adds to the end of what the client has still to read, and nothing FlushClient
\* does loses, repeats or reorders a unit, but for closing the connection.
THEOREM StreamIsKept == Spec => StreamKept
<1>1. IInv /\ [Next]_vars => [S!Next]_S!vars
    BY StepStreams
<1> QED BY <1>1, InitStreams, Invariance, PTL DEF Spec, StreamKept, S!Spec

=============================================================================
