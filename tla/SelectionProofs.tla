--------------------------- MODULE SelectionProofs ---------------------------
(***************************************************************************)
(* Theorems about module Selection, and their proofs, for any number of    *)
(* programs and calls, sizes of values and times, whatever the programs    *)
(* ask and when: its type, that a callback is called once, that an         *)
(* increment that is still to be sent has a record that ends it, and that  *)
(* the owner in the server is one that answers.                            *)
(*                                                                         *)
(* The invariant has a part for the counters (Counted), for the names of   *)
(* properties, of which there is one per call at most (Named), for the     *)
(* calls, whose timer, handler and callback must agree on whether they are *)
(* answered (Answered), for the increments (IncrementHasRecord) and for    *)
(* the events that take the selection away (OwnerKnows).                   *)
(***************************************************************************)
EXTENDS Selection, SequenceTheorems, WellFoundedInduction, TLAPS

-----------------------------------------------------------------------------
(* Sequences, smallest elements, and what RemoveFirst returns.               *)

LEMMA TailIndex ==
    ASSUME NEW T, NEW q \in Seq(T), q # <<>>
    PROVE  /\ Tail(q) \in Seq(T) /\ Head(q) \in T /\ Head(q) = q[1]
           /\ 1 \in DOMAIN q /\ DOMAIN q = 1..Len(q)
           /\ Len(q) \in Nat /\ Len(q) >= 1
           /\ DOMAIN Tail(q) = 1..(Len(q) - 1)
           /\ \A i \in DOMAIN Tail(q) : i + 1 \in DOMAIN q /\ Tail(q)[i] = q[i + 1]
           /\ \A i \in DOMAIN q \ {1} :
                i - 1 \in DOMAIN Tail(q) /\ q[i] = Tail(q)[i - 1]
<1>1. /\ Tail(q) \in Seq(T) /\ Head(q) \in T /\ Head(q) = q[1]
      /\ Len(q) \in Nat /\ Len(q) >= 1 /\ DOMAIN q = 1..Len(q)
      /\ Len(Tail(q)) = Len(q) - 1
      /\ \A i \in 1..(Len(q) - 1) : Tail(q)[i] = q[i + 1]
    BY HeadTailProperties, LenProperties, EmptySeq
<1>2. DOMAIN Tail(q) = 1..(Len(q) - 1)
    BY <1>1, LenProperties
<1> QED BY <1>1, <1>2

LEMMA AppendIndex ==
    ASSUME NEW T, NEW q \in Seq(T), NEW x \in T
    PROVE  /\ Append(q, x) \in Seq(T)
           /\ DOMAIN q = 1..Len(q) /\ Len(q) \in Nat
           /\ DOMAIN Append(q, x) = 1..(Len(q) + 1)
           /\ \A i \in 1..Len(q) : Append(q, x)[i] = q[i]
           /\ Append(q, x)[Len(q) + 1] = x
BY AppendProperties, LenProperties

LEMMA AppendOne ==
    ASSUME NEW T, NEW q \in Seq(T), NEW x \in T
    PROVE  q \o <<x>> = Append(q, x) /\ q \o <<>> = q
BY AppendIsConcat, ConcatEmptySeq

LEMMA MinInSet ==
    ASSUME NEW S \in SUBSET Nat, S # {}
    PROVE  \E x \in S : \A y \in S : x <= y
<1>1. PICK x \in S : \A y \in S : ~(<<y, x>> \in OpToRel(<, Nat))
    BY NatLessThanWellFounded, WFMin
<1>2. \A y \in S : ~(y < x)
    BY <1>1 DEF OpToRel
<1> QED BY <1>2

LEMMA RemoveFirstType ==
    ASSUME NEW T, NEW s \in Seq(T), NEW k
    PROVE  RemoveFirst(s, k) \in Seq(T)
<1>1. CASE \E i \in 1..Len(s) : s[i] = k
    <2> DEFINE I == {i \in 1..Len(s) : s[i] = k}
    <2>1. SelectInSeq(s, LAMBDA v : v = k) = Min(I)
        BY <1>1 DEF SelectInSeq
    <2>2. Min(I) \in I
        <3> I \in SUBSET Nat /\ I # {}
            BY <1>1
        <3> HIDE DEF I
        <3> QED BY MinInSet DEF Min
    <2>3. Min(I) \in 1..Len(s)
        BY <2>2
    <2> HIDE DEF I
    <2>4. RemoveFirst(s, k) = SubSeq(s, 1, Min(I) - 1) \o SubSeq(s, Min(I) + 1, Len(s))
        BY <1>1, <2>1 DEF RemoveFirst, RemoveAt
    <2> QED BY <2>3, <2>4
<1>2. CASE ~\E i \in 1..Len(s) : s[i] = k
    BY <1>2 DEF RemoveFirst
<1> QED BY <1>1, <1>2

LEMMA RemoveAtType ==
    ASSUME NEW T, NEW s \in Seq(T), NEW i \in DOMAIN s
    PROVE  RemoveAt(s, i) \in Seq(T)
BY DEF RemoveAt

-----------------------------------------------------------------------------
(* The inductive invariant.                                                 *)

\* Events, as they are in the queues
Deleted(r, a)   == [type |-> "deleted", window |-> r, atom |-> a]
Arrived(a)      == [type |-> "newValue", atom |-> a]
Notice(type, time, a) == [type |-> type, time |-> time, atom |-> a]
Request == [type : {"request"}, key : Key, window : Requestor, atom : Atom, time : Nat]

\* The counters are what the code takes them for.
Counted ==
    /\ ctx.widget => ctx.refcount >= 1 /\ ctx.handler
    /\ incr # NoIncr => incr.total <= MaxParts /\ incr.offset <= incr.total
    /\ event # NoEvent => event.keys # <<>>

\* There are fewer names of properties than calls.
Named ==
    \A r \in Requestor :
        /\ Len(avail[r]) <= MaxRequest
        /\ \A k \in Key : asked[k] = NotAsked => Len(avail[r]) < k

\* A call that waits for its answer, or whose timer runs, has not been answered,
\* unless its callback is just being called; and only what a program has asked
\* for is handled in it.
Unanswered == {"replies", "increments"}
Answered ==
    \A k \in Key :
        /\ Len(answers[k]) <= 1
        /\ asked[k] = NotAsked => info[k] = NoInfo /\ answers[k] = <<>>
        /\ info[k] # NoInfo /\ info[k].timer =>
            /\ info[k].at \in Unanswered /\ answers[k] = <<>>
            /\ \A r \in Requestor : inCallback[r] # k
        /\ info[k].at \in Unanswered =>
            answers[k] = <<>> \/ \E r \in Requestor : inCallback[r] = k
        /\ \A r \in Requestor : inCallback[r] = k \/ k \in todo[r].keys => Asks(r, k)

\* The owner has no SelectionClear event to come that is as new as its ownership.
Cleared(t) == \A i \in DOMAIN toOwner : toOwner[i].type = "clear" => toOwner[i].time < t
OwnerKnows ==
    /\ owner = "us" => IF asking = NotAsking THEN ctx.widget /\ Cleared(ctx.time)
                                             ELSE Cleared(asking.time)
    /\ asking # NotAsking => ~ctx.widget
    /\ Cleared(now + 1)

Calls == Named /\ Answered
Basic == Counted /\ OwnerKnows /\ Calls /\ IncrementHasRecord

-----------------------------------------------------------------------------
(* Type correctness, by groups of variables.                                *)

ServerType ==
    /\ owner \in {"us", "other", "none"} /\ now \in Nat
    /\ property \in [Requestor -> [Atom -> Value \cup {NoValue}]]
    /\ toOwner \in Seq(ToOwner)
    /\ toRequestor \in [Requestor -> Seq(ToRequestor)]
OwnType ==
    /\ alive \in BOOLEAN
    /\ ctx \in [widget : BOOLEAN, time : Nat, notify : BOOLEAN, refcount : Nat,
                handler : BOOLEAN]
    /\ asking \in {NotAsking} \cup [time : Nat, notify : BOOLEAN]
SendType ==
    /\ recs \subseteq Rec /\ incr \in Incr \cup {NoIncr}
    /\ table \in Seq(Key) /\ hung \subseteq Requestor
    /\ event \in Dispatch \cup {NoEvent}
AskType ==
    /\ avail \in [Requestor -> Seq(BOOLEAN)]
    /\ asked \in [Key -> Call \cup {NotAsked}]
    /\ handlers \in [Requestor -> Seq(Key)]
    /\ todo \in [Requestor -> Todo \cup {Nothing}]
    /\ inCallback \in [Requestor -> 0..MaxRequest]
    /\ incrList \in [Requestor -> Seq(Collected)]
    /\ info \in [Key -> Info \cup {NoInfo}]
HistoryType ==
    /\ size \in [Key -> -1..MaxParts]
    /\ answers \in [Key -> Seq(Answer)]
    /\ done \in [Key -> Seq({"told", "timedOut"})] /\ crossed \subseteq Requestor

LEMMA TypeGroups ==
    /\ TypeOK <=> ServerType /\ OwnType /\ SendType /\ AskType /\ HistoryType
    /\ TypeOK' <=> ServerType' /\ OwnType' /\ SendType' /\ AskType' /\ HistoryType'
BY DEF TypeOK, ServerType, OwnType, SendType, AskType, HistoryType

LEMMA UnchangedTypes ==
    /\ ServerType /\ UNCHANGED serverVars => ServerType'
    /\ OwnType /\ UNCHANGED ownVars => OwnType'
    /\ SendType /\ UNCHANGED sendVars => SendType'
    /\ AskType /\ UNCHANGED askVars => AskType'
    /\ HistoryType /\ UNCHANGED history => HistoryType'
BY DEF ServerType, OwnType, SendType, AskType, HistoryType, serverVars, ownVars, sendVars,
       askVars, history

LEMMA Constants ==
    /\ MaxRequest \in Nat /\ MaxParts \in Nat /\ MaxTime \in Nat
    /\ Key = 1..MaxRequest /\ Atom = 1..MaxRequest /\ Notify \subseteq BOOLEAN
    /\ Key \subseteq Nat
BY SelectionAssumption DEF Key, Atom

\* A record tells from its fields whether it is the special value.
LEMMA InfoType ==
    ASSUME TypeOK, NEW k \in Key
    PROVE  /\ info[k] \in Info \cup {NoInfo}
           /\ info[k] # NoInfo <=> info[k] \in Info
           /\ info[k].at # "free" => info[k] # NoInfo
           /\ info[k] = NoInfo => info[k].at = "free"
           /\ info[k] # NoInfo => info[k].atom \in Atom /\ info[k].timer \in BOOLEAN
<1>1. info[k] \in Info \cup {NoInfo}
    BY DEF TypeOK
<1>2. NoInfo.at = "free" /\ NoInfo \notin Info
    BY DEF NoInfo, Info
<1> QED BY <1>1, <1>2 DEF Info

LEMMA CallType ==
    ASSUME TypeOK, NEW k \in Key
    PROVE  /\ asked[k] \in Call \cup {NotAsked}
           /\ asked[k] # NotAsked => asked[k] \in Call /\ asked[k].time \in Nat
                                     /\ asked[k].requestor \in Requestor
           /\ \A r \in Requestor, n \in Nat : [requestor |-> r, time |-> n] \in Call
                                              /\ [requestor |-> r, time |-> n] # NotAsked
BY DEF TypeOK, Call, NotAsked

LEMMA HeadToOwner ==
    ASSUME TypeOK, toOwner # <<>>
    PROVE  /\ Head(toOwner) \in ToOwner /\ Tail(toOwner) \in Seq(ToOwner)
           /\ Head(toOwner).type = "clear" => Head(toOwner).time \in Nat
           /\ Head(toOwner).type = "request" => Head(toOwner) \in Request
           /\ Head(toOwner).type = "deleted" =>
                /\ Head(toOwner).window \in Requestor /\ Head(toOwner).atom \in Atom
                /\ Head(toOwner) = Deleted(Head(toOwner).window, Head(toOwner).atom)
<1>1. Head(toOwner) \in ToOwner /\ Tail(toOwner) \in Seq(ToOwner)
    BY TailIndex DEF TypeOK
<1> QED BY <1>1 DEF ToOwner, Request, Deleted

LEMMA EventTypes ==
    /\ Request \subseteq ToOwner
    /\ \A r \in Requestor, a \in Atom : Deleted(r, a) \in ToOwner
    /\ \A t \in Nat : [type |-> "clear", time |-> t] \in ToOwner
    /\ \A type \in {"converted", "increments"}, t \in Nat, a \in Atom :
            Notice(type, t, a) \in ToRequestor
    /\ \A t \in Nat : Notice("refused", t, 0) \in ToRequestor
    /\ \A a \in Atom : Arrived(a) \in ToRequestor
<1>1. Request \subseteq ToOwner
    BY DEF Request, ToOwner
<1>2. \A r \in Requestor, a \in Atom : Deleted(r, a) \in ToOwner
    BY DEF Deleted, ToOwner
<1>3. \A t \in Nat : [type |-> "clear", time |-> t] \in ToOwner
    BY DEF ToOwner
<1>4. \A type \in {"converted", "increments"}, t \in Nat, a \in Atom :
            Notice(type, t, a) \in ToRequestor
    BY DEF Notice, ToRequestor
<1>5. \A t \in Nat : Notice("refused", t, 0) \in ToRequestor
    BY DEF Notice, ToRequestor
<1>6. \A a \in Atom : Arrived(a) \in ToRequestor
    BY DEF Arrived, ToRequestor
<1> QED BY <1>1, <1>2, <1>3, <1>4, <1>5, <1>6

LEMMA Values ==
    /\ NoValue \notin Value
    /\ \A k \in Key : /\ Stored("INCR", k, 0) \in Value /\ Stored("end", k, 0) \in Value
                      /\ \A p \in 0..MaxParts : Stored("value", k, p) \in Value
    /\ \A v \in Value : v.key \in Key /\ v.part \in 0..MaxParts
                        /\ v.type \in {"INCR", "value", "end"}
    /\ NoValue.key = 0
BY Constants DEF NoValue, Value, Stored

\* ChangeProperty appends a PropertyNotify event, for who watches, and the notice.
AfterChange(r, a) ==
    IF Watches(r) THEN Append(toRequestor[r], Arrived(a)) ELSE toRequestor[r]

LEMMA ChangeEffect ==
    ASSUME TypeOK, NEW r \in Requestor, NEW a \in Atom, NEW v \in Value,
           NEW events \in Seq(ToRequestor), Change(r, a, v, events)
    PROVE  /\ property' = [property EXCEPT ![r][a] = v]
           /\ property' \in [Requestor -> [Atom -> Value \cup {NoValue}]]
           /\ toRequestor' \in [Requestor -> Seq(ToRequestor)]
           /\ AfterChange(r, a) \in Seq(ToRequestor)
           /\ \A s \in Requestor \ {r} : toRequestor'[s] = toRequestor[s]
           /\ toRequestor'[r] = AfterChange(r, a) \o events
<1> DEFINE q == toRequestor[r]
           w == IF Watches(r) THEN <<[type |-> "newValue", atom |-> a]>> ELSE <<>>
<1>1. q \in Seq(ToRequestor) /\ Arrived(a) \in ToRequestor
    BY EventTypes DEF TypeOK
<1>2. q \o w = AfterChange(r, a)
    BY <1>1, AppendOne DEF AfterChange, Arrived
<1>3. AfterChange(r, a) \in Seq(ToRequestor)
    BY <1>1 DEF AfterChange
<1>4. property' = [property EXCEPT ![r][a] = v]
    BY DEF Change
<1>5. property' \in [Requestor -> [Atom -> Value \cup {NoValue}]]
    BY <1>4 DEF TypeOK
<1>6. toRequestor' = [toRequestor EXCEPT ![r] = q \o w \o events]
    BY DEF Change
<1>7. toRequestor' = [toRequestor EXCEPT ![r] = AfterChange(r, a) \o events]
    BY <1>2, <1>6
<1> QED BY <1>3, <1>4, <1>5, <1>7 DEF TypeOK

LEMMA ChangeOnly ==
    ASSUME TypeOK, NEW r \in Requestor, NEW a \in Atom, NEW v \in Value,
           Change(r, a, v, <<>>)
    PROVE  /\ property' = [property EXCEPT ![r][a] = v]
           /\ property' \in [Requestor -> [Atom -> Value \cup {NoValue}]]
           /\ toRequestor' \in [Requestor -> Seq(ToRequestor)]
           /\ \A s \in Requestor \ {r} : toRequestor'[s] = toRequestor[s]
           /\ toRequestor'[r] = AfterChange(r, a)
<1> DEFINE none == <<>>
<1>1. none \in Seq(ToRequestor)
    OBVIOUS
<1>2. \A q \in Seq(ToRequestor) : q \o none = q
    BY AppendOne
<1>3. Change(r, a, v, none)
    OBVIOUS
<1> HIDE DEF none
<1>4. /\ property' = [property EXCEPT ![r][a] = v]
      /\ property' \in [Requestor -> [Atom -> Value \cup {NoValue}]]
      /\ toRequestor' \in [Requestor -> Seq(ToRequestor)]
      /\ AfterChange(r, a) \in Seq(ToRequestor)
      /\ \A s \in Requestor \ {r} : toRequestor'[s] = toRequestor[s]
      /\ toRequestor'[r] = AfterChange(r, a) \o none
    BY <1>1, <1>3, ChangeEffect
<1> QED BY <1>2, <1>4

LEMMA ChangeAndReply ==
    ASSUME TypeOK, NEW e \in Request, NEW v \in Value,
           NEW type \in {"converted", "increments"},
           Change(e.window, e.atom, v, Reply(type, e, e.atom))
    PROVE  /\ property' \in [Requestor -> [Atom -> Value \cup {NoValue}]]
           /\ toRequestor' \in [Requestor -> Seq(ToRequestor)]
<1>1. /\ e.window \in Requestor /\ e.atom \in Atom /\ e.time \in Nat
    BY DEF Request
<1>2. /\ Notice(type, e.time, e.atom) \in ToRequestor
      /\ Reply(type, e, e.atom) = <<Notice(type, e.time, e.atom)>>
    BY <1>1, EventTypes DEF Reply, Notice
<1> DEFINE events == Reply(type, e, e.atom)
<1>3. events \in Seq(ToRequestor) /\ Change(e.window, e.atom, v, events)
    BY <1>2
<1>4. \A q \in Seq(ToRequestor) : q \o events \in Seq(ToRequestor)
    BY <1>3, ConcatProperties
<1> HIDE DEF events
<1> QED BY <1>1, <1>3, <1>4, ChangeEffect

LEMMA DeleteEffect ==
    ASSUME TypeOK, NEW r \in Requestor, NEW a \in Atom, Delete(r, a)
    PROVE  /\ property' = [property EXCEPT ![r][a] = NoValue]
           /\ property' \in [Requestor -> [Atom -> Value \cup {NoValue}]]
           /\ toOwner' \in Seq(ToOwner)
           /\ IF property[r][a] # NoValue /\ r \in hung
              THEN toOwner' = Append(toOwner, Deleted(r, a)) ELSE toOwner' = toOwner
<1>1. property' = [property EXCEPT ![r][a] = NoValue]
    BY DEF Delete
<1>2. property' \in [Requestor -> [Atom -> Value \cup {NoValue}]]
    BY <1>1 DEF TypeOK
<1>3. IF property[r][a] # NoValue /\ r \in hung
      THEN toOwner' = Append(toOwner, Deleted(r, a)) ELSE toOwner' = toOwner
    BY DEF Delete, Deleted
<1>4. toOwner \in Seq(ToOwner) /\ Deleted(r, a) \in ToOwner
    BY EventTypes DEF TypeOK
<1>5. toOwner' \in Seq(ToOwner)
    BY <1>3, <1>4, AppendProperties
<1> QED BY <1>1, <1>2, <1>3, <1>5

LEMMA PropertyTaken ==
    ASSUME TypeOK, NEW r \in Requestor
    PROVE  /\ PropertyOf(r) \in 1..Len(avail[r]) + 1
           /\ PropertyOf(r) \in DOMAIN avail[r] => avail[r][PropertyOf(r)]
           /\ Taken(r) \in Seq(BOOLEAN) /\ Len(Taken(r)) <= Len(avail[r]) + 1
           /\ PropertyOf(r) \in DOMAIN Taken(r) /\ ~Taken(r)[PropertyOf(r)]
           /\ \A b \in DOMAIN avail[r] : b \in DOMAIN Taken(r)
           /\ \A b \in DOMAIN avail[r] \ {PropertyOf(r)} : Taken(r)[b] = avail[r][b]
<1> DEFINE s == avail[r]
           free == {a \in DOMAIN s : s[a]}
<1>1. s \in Seq(BOOLEAN) /\ DOMAIN s = 1..Len(s) /\ Len(s) \in Nat
    BY LenProperties DEF TypeOK
<1>4. Taken(r) = IF PropertyOf(r) > Len(s) THEN Append(s, FALSE)
                                         ELSE [s EXCEPT ![PropertyOf(r)] = FALSE]
    BY DEF Taken
<1>2. CASE free = {}
    <2>1. PropertyOf(r) = Len(s) + 1
        BY <1>2 DEF PropertyOf
    <2>2. Taken(r) = Append(s, FALSE)
        <3>1. PropertyOf(r) > Len(s)
            BY <1>1, <2>1
        <3> QED BY <1>4, <3>1
    <2> HIDE DEF s
    <2>3. /\ Taken(r) \in Seq(BOOLEAN) /\ DOMAIN Taken(r) = 1..(Len(s) + 1)
          /\ Len(Taken(r)) = Len(s) + 1
          /\ \A i \in 1..Len(s) : Taken(r)[i] = s[i] /\ Taken(r)[Len(s) + 1] = FALSE
          /\ Taken(r)[Len(s) + 1] = FALSE
        BY <1>1, <2>2, AppendIndex, AppendProperties
    <2>4. PropertyOf(r) \notin 1..Len(s) /\ PropertyOf(r) \in 1..Len(s) + 1
        BY <1>1, <2>1
    <2> QED BY <1>1, <2>1, <2>3, <2>4 DEF s
<1>3. CASE free # {}
    <2>1. PropertyOf(r) = CHOOSE a \in free : \A b \in free : a <= b
        BY <1>3 DEF PropertyOf
    <2>2. PropertyOf(r) \in free
        <3> free \in SUBSET Nat
            BY <1>1
        <3> HIDE DEF free
        <3>1. \E a \in free : \A b \in free : a <= b
            BY <1>3, MinInSet
        <3> QED BY <2>1, <3>1
    <2>3. PropertyOf(r) \in 1..Len(s) /\ s[PropertyOf(r)]
        BY <1>1, <2>2
    <2>4. Taken(r) = [s EXCEPT ![PropertyOf(r)] = FALSE]
        <3>1. ~(PropertyOf(r) > Len(s))
            BY <1>1, <2>3
        <3> QED BY <1>4, <3>1
    <2> HIDE DEF s, free
    <2>5. Taken(r) \in Seq(BOOLEAN) /\ DOMAIN Taken(r) = 1..Len(s) /\ Len(Taken(r)) = Len(s)
        BY <1>1, <2>3, <2>4, ExceptSeq
    <2> QED BY <1>1, <2>3, <2>4, <2>5 DEF s
<1> QED BY <1>2, <1>3

LEMMA NewName ==
    ASSUME TypeOK, Named, NEW r \in Requestor, NEW k \in Key, asked[k] = NotAsked
    PROVE  PropertyOf(r) \in Atom
<1>1. Len(avail[r]) < k /\ Len(avail[r]) \in Nat
    BY LenProperties DEF Named, TypeOK
<1> HIDE DEF Named
<1> QED BY <1>1, PropertyTaken, Constants

LEMMA ToFrontType ==
    ASSUME TypeOK, NEW r \in Requestor, NEW k \in Key, ToFront(r, k)
    PROVE  handlers' \in [Requestor -> Seq(Key)]
<1>1. RemoveFirst(handlers[r], k) \in Seq(Key) /\ <<k>> \in Seq(Key)
    BY RemoveFirstType DEF TypeOK
<1>2. <<k>> \o RemoveFirst(handlers[r], k) \in Seq(Key)
    BY <1>1, ConcatProperties
<1> QED BY <1>2 DEF ToFront, TypeOK

LEMMA FreeType ==
    ASSUME TypeOK, NEW r \in Requestor, NEW k \in Key, Free(r, k)
    PROVE  /\ info' = [info EXCEPT ![k] = NoInfo]
           /\ info' \in [Key -> Info \cup {NoInfo}]
           /\ avail' \in [Requestor -> Seq(BOOLEAN)]
           /\ \A s \in Requestor : Len(avail'[s]) = Len(avail[s])
           /\ handlers' \in [Requestor -> Seq(Key)]
<1> DEFINE a == info[k].atom
           new == [avail[r] EXCEPT ![a] = TRUE]
<1>1. info' = [info EXCEPT ![k] = NoInfo] /\ avail' = [avail EXCEPT ![r] = new]
    BY DEF Free, TypeOK
<1>2. avail[r] \in Seq(BOOLEAN) /\ DOMAIN avail[r] = 1..Len(avail[r])
    BY LenProperties DEF TypeOK
<1> HIDE DEF a
<1>3. new \in Seq(BOOLEAN) /\ Len(new) = Len(avail[r])
    <2>1. CASE a \in DOMAIN avail[r]
        BY <1>2, <2>1, ExceptSeq
    <2>2. CASE a \notin DOMAIN avail[r]
        <3>1. new = avail[r]
            BY <1>2, <2>2
        <3> QED BY <1>2, <3>1
    <2> QED BY <2>1, <2>2
<1>4. RemoveFirst(handlers[r], k) \in Seq(Key)
    BY RemoveFirstType DEF TypeOK
<1>5. handlers' \in [Requestor -> Seq(Key)]
    BY <1>4 DEF Free, TypeOK
<1> HIDE DEF new
<1>6. /\ avail' \in [Requestor -> Seq(BOOLEAN)]
      /\ \A s \in Requestor : Len(avail'[s]) = Len(avail[s])
    BY <1>1, <1>3 DEF TypeOK
<1>7. info' \in [Key -> Info \cup {NoInfo}]
    BY <1>1 DEF TypeOK
<1> QED BY <1>1, <1>5, <1>6, <1>7

LEMMA ReturnType ==
    ASSUME TypeOK, NEW r \in Requestor, NEW k \in Key,
           NEW outcome \in {"value", "none", "failed"},
           NEW parts \in Seq(Value), Return(r, k, outcome, parts)
    PROVE  /\ answers' \in [Key -> Seq(Answer)]
           /\ inCallback' \in [Requestor -> 0..MaxRequest]
<1>1. answers' = [answers EXCEPT ![k] = Append(@, [outcome |-> outcome, parts |-> parts])]
    BY DEF Return
<1>2. [outcome |-> outcome, parts |-> parts] \in Answer
    BY DEF Answer
<1>3. k \in 0..MaxRequest
    BY Constants
<1>4. inCallback' \in [Requestor -> 0..MaxRequest]
    BY <1>3 DEF Return, TypeOK
<1> QED BY <1>1, <1>2, <1>4 DEF TypeOK

LEMMA HandlerType ==
    ASSUME TypeOK, NEW r \in Requestor, NEW k \in Key, AddHandler(r, k) \/ RemoveHandler(r, k)
    PROVE  table' \in Seq(Key) /\ hung' \subseteq Requestor
<1>1. CASE AddHandler(r, k)
    <2>1. table \in Seq(Key) /\ <<k>> \in Seq(Key) /\ hung \subseteq Requestor
        BY DEF TypeOK
    <2>2. <<k>> \o table \in Seq(Key)
        BY <2>1, ConcatProperties
    <2> QED BY <1>1, <2>1, <2>2 DEF AddHandler
<1>2. CASE RemoveHandler(r, k)
    BY <1>2, RemoveFirstType DEF RemoveHandler, TypeOK
<1> QED BY <1>1, <1>2

LEMMA TellType ==
    ASSUME TypeOK, NEW rec \in Rec, NEW how \in {"told", "timedOut"}, Tell(rec, how)
    PROVE  done' \in [Key -> Seq({"told", "timedOut"})]
BY DEF TypeOK, Tell, Rec

LEMMA FreeRecType ==
    ASSUME TypeOK, NEW rec \in recs, FreeRec(rec)
    PROVE  recs' \subseteq Rec
<1>1. rec \in Rec
    BY DEF TypeOK
<1>2. [rec EXCEPT !.freed = TRUE, !.timer = FALSE] \in Rec
    BY <1>1 DEF Rec
<1> QED BY <1>2 DEF FreeRec, TypeOK

-----------------------------------------------------------------------------
(* Each action preserves the types.                                         *)

\* The actions that only concern who is the owner
Ownership ==
    \/ \E notify \in Notify : XtOwnSelection(notify)
    \/ OwnerAsked \/ XtDisownSelection \/ OtherOwns \/ SelectionClear

LEMMA LostType ==
    ASSUME OwnType, ctx.widget => ctx.refcount >= 1, ctx.widget
    PROVE  Lost \in [widget : BOOLEAN, time : Nat, notify : BOOLEAN, refcount : Nat,
                     handler : BOOLEAN]
<1>1. ctx.refcount \in Nat /\ ctx.refcount - 1 \in Nat
    BY DEF OwnType
<1>2. (ctx.handler /\ ctx.refcount = 1) \in BOOLEAN
    OBVIOUS
<1> QED BY <1>1, <1>2 DEF OwnType, Lost

LEMMA OwnershipTypes ==
    ASSUME TypeOK, Counted, Ownership
    PROVE  TypeOK'
<1> USE TypeGroups
<1>1. ASSUME NEW notify \in Notify, XtOwnSelection(notify) PROVE TypeOK'
    <2>1. now \in Nat /\ now + 1 \in Nat /\ ctx.refcount + 1 \in Nat
        BY DEF ServerType, OwnType
    <2>2. Owning(now + 1, notify) \in [widget : BOOLEAN, time : Nat, notify : BOOLEAN,
                                       refcount : Nat, handler : BOOLEAN]
        BY <2>1, Constants DEF Owning
    <2>3. [time |-> now + 1, notify |-> notify] \in [time : Nat, notify : BOOLEAN]
        BY <2>1, Constants
    <2>4. ServerType'
        BY <1>1, <2>1 DEF XtOwnSelection, ServerType
    <2>5. OwnType'
        BY <1>1, <2>2, <2>3 DEF XtOwnSelection, OwnType
    <2> QED BY <1>1, <2>4, <2>5, UnchangedTypes DEF XtOwnSelection
<1>2. ASSUME OwnerAsked PROVE TypeOK'
    <2>1. asking.time \in Nat /\ asking.notify \in BOOLEAN /\ ctx.refcount + 1 \in Nat
        BY <1>2 DEF OwnType, OwnerAsked
    <2>2. Owning(asking.time, asking.notify)
                \in [widget : BOOLEAN, time : Nat, notify : BOOLEAN, refcount : Nat,
                     handler : BOOLEAN]
        BY <2>1 DEF Owning
    <2>3. OwnType'
        BY <1>2, <2>2 DEF OwnerAsked, OwnType
    <2> QED BY <1>2, <2>3, UnchangedTypes DEF OwnerAsked
<1>3. ASSUME XtDisownSelection PROVE TypeOK'
    <2>1. OwnType'
        BY <1>3, LostType DEF XtDisownSelection, OwnType, Counted
    <2>2. ServerType'
        BY <1>3 DEF XtDisownSelection, ServerType
    <2> QED BY <1>3, <2>1, <2>2, UnchangedTypes DEF XtDisownSelection
<1>4. ASSUME OtherOwns PROVE TypeOK'
    <2>1. now + 1 \in Nat /\ [type |-> "clear", time |-> now + 1] \in ToOwner
        BY EventTypes DEF ServerType
    <2>2. toOwner' \in Seq(ToOwner)
        BY <1>4, <2>1 DEF OtherOwns, ServerType
    <2>3. ServerType'
        BY <1>4, <2>1, <2>2 DEF OtherOwns, ServerType
    <2> QED BY <1>4, <2>3, UnchangedTypes DEF OtherOwns
<1>5. ASSUME SelectionClear PROVE TypeOK'
    <2>1. toOwner' \in Seq(ToOwner)
        BY <1>5, HeadToOwner DEF SelectionClear, OwnerReads
    <2>2. ServerType'
        BY <1>5, <2>1 DEF SelectionClear, ServerType
    <2>3. OwnType'
        BY <1>5, LostType DEF SelectionClear, OwnType, Counted
    <2> QED BY <1>5, <2>2, <2>3, UnchangedTypes DEF SelectionClear
<1> QED BY <1>1, <1>2, <1>3, <1>4, <1>5 DEF Ownership

\* The owner reads a request.
LEMMA RequestRead ==
    ASSUME TypeOK, OwnerReads("request")
    PROVE  /\ toOwner # <<>> /\ Head(toOwner) \in Request /\ Tail(toOwner) \in Seq(ToOwner)
           /\ Head(toOwner).key \in Key /\ Head(toOwner).window \in Requestor
           /\ Head(toOwner).atom \in Atom /\ Head(toOwner).time \in Nat
           /\ event = NoEvent
BY HeadToOwner DEF OwnerReads, Request, Ready

LEMMA RequestTypes ==
    ASSUME TypeOK, SelectionIgnored \/ Refuse \/ Convert
                   \/ \E n \in 1..MaxParts : ConvertIncremental(n)
    PROVE  TypeOK'
<1> USE TypeGroups
<1> DEFINE e == Head(toOwner)
<1>1. /\ toOwner # <<>> /\ e \in Request /\ Tail(toOwner) \in Seq(ToOwner)
      /\ e.key \in Key /\ e.window \in Requestor /\ e.atom \in Atom /\ e.time \in Nat
    BY RequestRead DEF SelectionIgnored, Refuse, Convert, ConvertIncremental
<1>2. \A notify, allSent \in BOOLEAN : NewRec(e, notify, allSent) \in Rec
    BY <1>1 DEF NewRec, Rec
<1> HIDE DEF e
<1>3. ASSUME SelectionIgnored PROVE TypeOK'
    <2>1. ServerType'
        BY <1>1, <1>3 DEF SelectionIgnored, ServerType, e
    <2> QED BY <1>3, <2>1, UnchangedTypes DEF SelectionIgnored
<1>4. ASSUME Refuse PROVE TypeOK'
    <2>1. toRequestor' = [toRequestor EXCEPT ![e.window] = @ \o Reply("refused", e, 0)]
        BY <1>4 DEF Refuse, e
    <2>2. Reply("refused", e, 0) \in Seq(ToRequestor)
        BY <1>1, EventTypes DEF Reply, Notice
    <2>3. ServerType'
        BY <1>1, <1>4, <2>1, <2>2, ConcatProperties DEF Refuse, ServerType, e
    <2> QED BY <1>4, <2>3, UnchangedTypes DEF Refuse
<1>5. ASSUME Convert PROVE TypeOK'
    <2>1. Change(e.window, e.atom, Stored("value", e.key, 0), Reply("converted", e, e.atom))
        BY <1>5 DEF Convert, e
    <2>2. Stored("value", e.key, 0) \in Value
        BY <1>1, Values, Constants
    <2>3. /\ property' \in [Requestor -> [Atom -> Value \cup {NoValue}]]
          /\ toRequestor' \in [Requestor -> Seq(ToRequestor)]
        BY <1>1, <2>1, <2>2, ChangeAndReply
    <2>4. ServerType'
        BY <1>1, <1>5, <2>3 DEF Convert, ServerType, e
    <2>5. SendType'
        <3>1. CASE ctx.notify
            <4>1. recs' = recs \cup {NewRec(e, TRUE, TRUE)} /\ AddHandler(e.window, e.key)
                BY <1>5, <3>1 DEF Convert, e
            <4>2. table' \in Seq(Key) /\ hung' \subseteq Requestor
                BY <1>1, <4>1, HandlerType
            <4> QED BY <1>2, <1>5, <4>1, <4>2 DEF Convert, SendType
        <3>2. CASE ~ctx.notify
            BY <1>5, <3>2 DEF Convert, SendType
        <3> QED BY <3>1, <3>2
    <2>6. HistoryType'
        <3>1. 0 \in -1..MaxParts /\ size' = [size EXCEPT ![e.key] = 0]
            BY <1>5, Constants DEF Convert, e
        <3> QED BY <1>1, <1>5, <3>1 DEF Convert, HistoryType
    <2> QED BY <1>5, <2>4, <2>5, <2>6, UnchangedTypes DEF Convert
<1>6. ASSUME NEW n \in 1..MaxParts, ConvertIncremental(n) PROVE TypeOK'
    <2>1. Change(e.window, e.atom, Stored("INCR", e.key, 0), Reply("increments", e, e.atom))
        BY <1>6 DEF ConvertIncremental, e
    <2>2. Stored("INCR", e.key, 0) \in Value
        BY <1>1, Values
    <2>3. /\ property' \in [Requestor -> [Atom -> Value \cup {NoValue}]]
          /\ toRequestor' \in [Requestor -> Seq(ToRequestor)]
        BY <1>1, <2>1, <2>2, ChangeAndReply
    <2>4. ServerType'
        BY <1>1, <1>6, <2>3 DEF ConvertIncremental, ServerType, e
    <2>5. SendType'
        <3>1. /\ recs' = recs \cup {NewRec(e, ctx.notify, FALSE)}
              /\ AddHandler(e.window, e.key)
              /\ incr' = [key |-> e.key, window |-> e.window, atom |-> e.atom,
                          offset |-> 0, total |-> n]
            BY <1>6 DEF ConvertIncremental, e
        <3>2. table' \in Seq(Key) /\ hung' \subseteq Requestor
            BY <1>1, <3>1, HandlerType
        <3>3. incr' \in Incr
            BY <1>1, <3>1, Constants DEF Incr
        <3>4. ctx.notify \in BOOLEAN
            BY DEF OwnType
        <3> QED BY <1>2, <1>6, <3>1, <3>2, <3>3, <3>4 DEF ConvertIncremental, SendType
    <2>6. HistoryType'
        <3>1. n \in -1..MaxParts /\ size' = [size EXCEPT ![e.key] = n]
            BY <1>6, Constants DEF ConvertIncremental, e
        <3> QED BY <1>1, <1>6, <3>1 DEF ConvertIncremental, HistoryType
    <2> QED BY <1>6, <2>4, <2>5, <2>6, UnchangedTypes DEF ConvertIncremental
<1> QED BY <1>3, <1>4, <1>5, <1>6

LEMMA DispatchTypes ==
    ASSUME TypeOK, DispatchDeleted
    PROVE  TypeOK'
<1> USE TypeGroups
<1>1. /\ Tail(toOwner) \in Seq(ToOwner)
      /\ Head(toOwner).window \in Requestor /\ Head(toOwner).atom \in Atom
    BY HeadToOwner DEF DispatchDeleted, OwnerReads
<1>2. ServerType'
    BY <1>1 DEF DispatchDeleted, ServerType
<1>3. event' \in Dispatch \cup {NoEvent}
    BY <1>1 DEF DispatchDeleted, SendType, Dispatch
<1>4. SendType'
    BY <1>3 DEF DispatchDeleted, SendType
<1> QED BY <1>2, <1>4, UnchangedTypes DEF DispatchDeleted

\* The four ways HandlePropertyGone goes, with the record it is called for
Handles(rec) == rec \in recs /\ rec.key = Head(event.keys) /\ rec.atom = event.atom
NotMine ==
    /\ \A rec \in recs : rec.key = Head(event.keys) => rec.freed \/ rec.atom # event.atom
    /\ UNCHANGED <<property, toRequestor, recs, incr, table, hung, done>>
EndsTransfer(rec) ==
    /\ rec.allSent
    /\ Tell(rec, "told")
    /\ RemoveHandler(event.window, rec.key)
    /\ FreeRec(rec)
    /\ UNCHANGED <<property, toRequestor, incr>>
LosesTimer(rec) ==
    /\ ~rec.allSent /\ ~FindIncr(event.window, event.atom)
    /\ recs' = (recs \ {rec}) \cup {[rec EXCEPT !.timer = FALSE]}
    /\ UNCHANGED <<property, toRequestor, incr, table, hung, done>>
SentNow == incr.offset = incr.total
SendsNext(rec) ==
    /\ ~rec.allSent /\ FindIncr(event.window, event.atom)
    /\ recs' = (recs \ {rec}) \cup {[rec EXCEPT !.timer = TRUE, !.allSent = SentNow]}
    /\ IF incr.offset < incr.total THEN SendIncrement ELSE AllSent
    /\ UNCHANGED <<table, hung, done>>

LEMMA HandlePropertyGoneCases ==
    ASSUME HandlePropertyGone
    PROVE  /\ event # NoEvent
           /\ event' = IF Len(event.keys) = 1 THEN NoEvent ELSE [event EXCEPT !.keys = Tail(@)]
           /\ UNCHANGED <<owner, now, toOwner, ownVars, askVars, size, answers, crossed>>
           /\ \/ NotMine
              \/ \E rec \in recs : Handles(rec) /\ EndsTransfer(rec)
              \/ \E rec \in recs : Handles(rec) /\ LosesTimer(rec)
              \/ \E rec \in recs : Handles(rec) /\ SendsNext(rec)
BY DEF HandlePropertyGone, Handles, NotMine, EndsTransfer, LosesTimer, SendsNext, SentNow

LEMMA HandlePropertyGoneTypes ==
    ASSUME TypeOK, Counted, HandlePropertyGone
    PROVE  TypeOK'
<1> USE TypeGroups, HandlePropertyGoneCases
<1>1. event \in Dispatch /\ event.window \in Requestor /\ event.atom \in Atom
      /\ event.keys \in Seq(Key) /\ event.keys # <<>>
    BY DEF SendType, Dispatch, Counted
<1>2. event' \in Dispatch \cup {NoEvent}
    <2>1. Tail(event.keys) \in Seq(Key)
        BY <1>1, TailIndex
    <2> QED BY <1>1, <2>1 DEF Dispatch
<1>3. OwnType' /\ AskType'
    BY UnchangedTypes
<1>4. CASE NotMine
    BY <1>2, <1>3, <1>4 DEF NotMine, ServerType, SendType, HistoryType
<1>5. ASSUME NEW rec \in recs, Handles(rec), EndsTransfer(rec) PROVE TypeOK'
    <2>1. rec \in Rec /\ rec.key \in Key
        BY DEF SendType, Rec
    <2>2. table' \in Seq(Key) /\ hung' \subseteq Requestor
        BY <1>1, <1>5, <2>1, HandlerType DEF EndsTransfer
    <2>3. done' \in [Key -> Seq({"told", "timedOut"})]
        BY <1>5, <2>1, TellType DEF EndsTransfer
    <2>4. recs' \subseteq Rec
        BY <1>5, FreeRecType DEF EndsTransfer
    <2> QED BY <1>2, <1>3, <1>5, <2>2, <2>3, <2>4
                DEF EndsTransfer, ServerType, SendType, HistoryType
<1>6. ASSUME NEW rec \in recs, Handles(rec), LosesTimer(rec) PROVE TypeOK'
    <2>1. [rec EXCEPT !.timer = FALSE] \in Rec
        BY DEF SendType, Rec
    <2> QED BY <1>2, <1>3, <1>6, <2>1 DEF LosesTimer, ServerType, SendType, HistoryType
<1>7. ASSUME NEW rec \in recs, Handles(rec), SendsNext(rec) PROVE TypeOK'
    <2>1. incr # NoIncr /\ incr \in Incr
        BY <1>7 DEF SendsNext, FindIncr, SendType
    <2>2. /\ incr.key \in Key /\ incr.window \in Requestor /\ incr.atom \in Atom
          /\ incr.offset \in Nat /\ incr.total \in Nat /\ incr.total <= MaxParts
          /\ incr.offset <= incr.total
        BY <2>1 DEF Incr, Counted
    <2>3. [rec EXCEPT !.timer = TRUE, !.allSent = SentNow] \in Rec
        BY DEF SendType, Rec, SentNow
    <2>4. recs' \subseteq Rec
        BY <1>7, <2>3 DEF SendsNext, SendType
    <2>5. /\ property' \in [Requestor -> [Atom -> Value \cup {NoValue}]]
          /\ toRequestor' \in [Requestor -> Seq(ToRequestor)]
          /\ incr' \in Incr \cup {NoIncr}
        <3>1. CASE incr.offset < incr.total
            <4>1. incr.offset + 1 \in 0..MaxParts /\ incr.offset + 1 \in Nat
                BY <2>2, <3>1, Constants
            <4>2. Stored("value", incr.key, incr.offset + 1) \in Value
                BY <2>2, <4>1, Values
            <4>3. SendIncrement
                BY <1>7, <3>1 DEF SendsNext
            <4>4. incr' \in Incr
                BY <2>1, <4>1, <4>3 DEF SendIncrement, Incr
            <4> QED BY <2>2, <4>2, <4>3, <4>4, ChangeOnly DEF SendIncrement
        <3>2. CASE ~(incr.offset < incr.total)
            <4>1. AllSent
                BY <1>7, <3>2 DEF SendsNext
            <4> QED BY <2>2, <4>1, ChangeOnly, Values DEF AllSent
        <3> QED BY <3>1, <3>2
    <2>6. table' = table /\ hung' = hung /\ done' = done
        BY <1>7 DEF SendsNext
    <2> QED BY <1>2, <1>3, <2>4, <2>5, <2>6 DEF ServerType, SendType, HistoryType
<1> QED BY <1>4, <1>5, <1>6, <1>7

LEMMA OwnerEndTypes ==
    ASSUME TypeOK, OwnerDies \/ \E rec \in recs : OwnerTimedOut(rec)
    PROVE  TypeOK'
<1> USE TypeGroups
<1>1. ASSUME OwnerDies PROVE TypeOK'
    <2>1. ServerType'
        BY <1>1 DEF OwnerDies, ServerType
    <2>2. OwnType'
        BY <1>1 DEF OwnerDies, OwnType, NoCtx
    <2>3. SendType'
        BY <1>1 DEF OwnerDies, SendType
    <2> QED BY <1>1, <2>1, <2>2, <2>3, UnchangedTypes DEF OwnerDies
<1>2. ASSUME NEW rec \in recs, OwnerTimedOut(rec) PROVE TypeOK'
    <2>1. rec \in Rec /\ rec.key \in Key /\ rec.window \in Requestor
        BY DEF SendType, Rec
    <2>2. table' \in Seq(Key) /\ hung' \subseteq Requestor
        BY <1>2, <2>1, HandlerType DEF OwnerTimedOut
    <2>3. done' \in [Key -> Seq({"told", "timedOut"})]
        BY <1>2, <2>1, TellType DEF OwnerTimedOut
    <2>4. SendType'
        BY <1>2, <2>2, FreeRecType DEF OwnerTimedOut, SendType
    <2>5. HistoryType'
        BY <1>2, <2>3 DEF OwnerTimedOut, HistoryType
    <2> QED BY <1>2, <2>4, <2>5, UnchangedTypes DEF OwnerTimedOut
<1> QED BY <1>1, <1>2

LEMMA AskTypes ==
    ASSUME TypeOK, Named, NEW r \in Requestor, NEW k \in Key, NEW time \in Times(r),
           XtGetSelectionValue(r, k, time)
    PROVE  TypeOK' /\ time \in Nat /\ now' >= now
<1> USE TypeGroups
<1> DEFINE a == PropertyOf(r)
           new == [atom |-> a, at |-> "replies", timer |-> TRUE]
           e == [type |-> "request", key |-> k, window |-> r, atom |-> a, time |-> time]
<1>1. a \in Atom
    BY NewName DEF XtGetSelectionValue
<1>2. time \in Nat
    <2>1. CASE time \in {n \in {now + 1} : n <= MaxTime}
        BY <2>1 DEF ServerType
    <2>2. CASE \E j \in Key : Asks(r, j) /\ time = asked[j].time
        BY <2>2, CallType DEF Asks
    <2> QED BY <2>1, <2>2 DEF Times
<1>3. e \in ToOwner
    BY <1>1, <1>2 DEF ToOwner
<1>4. toOwner' \in Seq(ToOwner)
    <2>1. toOwner' = toOwner \/ toOwner' = Append(toOwner, e)
        BY DEF XtGetSelectionValue
    <2>2. toOwner \in Seq(ToOwner)
        BY DEF ServerType
    <2> HIDE DEF e
    <2> QED BY <1>3, <2>1, <2>2, AppendProperties
<1>5. Reply("refused", e, 0) \in Seq(ToRequestor)
    BY <1>2, EventTypes DEF Reply, Notice
<1>6. toRequestor' \in [Requestor -> Seq(ToRequestor)]
    <2>1. \/ toRequestor' = toRequestor
          \/ toRequestor' = [toRequestor EXCEPT ![r] = @ \o Reply("refused", e, 0)]
        BY DEF XtGetSelectionValue
    <2>2. toRequestor \in [Requestor -> Seq(ToRequestor)]
        BY DEF ServerType
    <2>3. toRequestor[r] \o Reply("refused", e, 0) \in Seq(ToRequestor)
        BY <1>5, <2>2, ConcatProperties
    <2> QED BY <2>1, <2>2, <2>3
<1>7. now' \in Nat /\ now' >= now
    BY <1>2 DEF XtGetSelectionValue, ServerType
<1>8. ServerType'
    BY <1>4, <1>6, <1>7 DEF XtGetSelectionValue, ServerType
<1>9. new \in Info
    BY <1>1 DEF Info
<1>10. info' = [info EXCEPT ![k] = new]
    BY DEF XtGetSelectionValue
<1>11. Taken(r) \in Seq(BOOLEAN)
    BY PropertyTaken
<1>12. /\ avail' = [avail EXCEPT ![r] = Taken(r)]
       /\ asked' = [asked EXCEPT ![k] = [requestor |-> r, time |-> time]]
       /\ handlers' = [handlers EXCEPT ![r] = <<k>> \o @]
       /\ UNCHANGED <<todo, inCallback, incrList>>
    BY DEF XtGetSelectionValue
<1>13. [requestor |-> r, time |-> time] \in Call
    BY <1>2, CallType
<1>14. handlers' \in [Requestor -> Seq(Key)]
    <2>1. <<k>> \in Seq(Key) /\ handlers \in [Requestor -> Seq(Key)]
        BY DEF AskType
    <2>2. <<k>> \o handlers[r] \in Seq(Key)
        BY <2>1, ConcatProperties
    <2> QED BY <1>12, <2>1, <2>2
<1> HIDE DEF new
<1>15. AskType'
    BY <1>9, <1>10, <1>11, <1>12, <1>13, <1>14 DEF AskType
<1>16. HistoryType'
    BY DEF XtGetSelectionValue, HistoryType
<1> QED BY <1>2, <1>7, <1>8, <1>15, <1>16, UnchangedTypes DEF XtGetSelectionValue

\* What a handler of call k finds, and leaves alone
LEMMA HandleEffect ==
    ASSUME TypeOK, NEW r \in Requestor, NEW k \in Key, NEW at, at # "free", NEW types,
           Handle(r, k, at, types)
    PROVE  /\ inCallback[r] = 0 /\ k \in todo[r].keys
           /\ todo[r].event \in ToRequestor /\ todo[r].event.type \in types
           /\ todo' \in [Requestor -> Todo \cup {Nothing}]
           /\ \A s \in Requestor : todo'[s].keys \subseteq todo[s].keys
           /\ info[k] # NoInfo /\ info[k] \in Info /\ info[k].at = at
           /\ info[k].atom \in Atom /\ info[k].timer \in BOOLEAN
           /\ UNCHANGED <<owner, now, toRequestor, ownVars, sendVars, asked, size, done,
                          crossed>>
<1>1. k \in todo[r].keys /\ info[k].at = at /\ todo[r].event.type \in types
    BY DEF Handle, Newest
<1>2. todo \in [Requestor -> Todo \cup {Nothing}]
    BY DEF TypeOK
<1>3. todo[r] # Nothing
    BY <1>1 DEF Nothing
<1>4. todo[r] \in Todo /\ todo[r].event \in ToRequestor /\ todo[r].keys \subseteq Key
    BY <1>2, <1>3 DEF Todo
<1> DEFINE rest == todo[r].keys \ {k}
           next == IF rest = {} THEN Nothing ELSE [todo[r] EXCEPT !.keys = rest]
<1>5. todo' = [todo EXCEPT ![r] = next]
    BY <1>2 DEF Handle
<1>6. next \in Todo \cup {Nothing} /\ next.keys \subseteq todo[r].keys
    BY <1>4 DEF Todo, Nothing
<1> HIDE DEF next
<1>7. /\ todo' \in [Requestor -> Todo \cup {Nothing}]
      /\ \A s \in Requestor : todo'[s].keys \subseteq todo[s].keys
    BY <1>2, <1>5, <1>6
<1> QED BY <1>1, <1>4, <1>7, InfoType DEF Handle

\* The types after a step of a requestor, from the variables it changes
LEMMA RequestorStepTypes ==
    ASSUME TypeOK,
           UNCHANGED <<owner, now, toRequestor, ownVars, sendVars, asked, size, done, crossed>>,
           property' \in [Requestor -> [Atom -> Value \cup {NoValue}]],
           toOwner' \in Seq(ToOwner),
           avail' \in [Requestor -> Seq(BOOLEAN)],
           handlers' \in [Requestor -> Seq(Key)],
           todo' \in [Requestor -> Todo \cup {Nothing}],
           inCallback' \in [Requestor -> 0..MaxRequest],
           incrList' \in [Requestor -> Seq(Collected)],
           info' \in [Key -> Info \cup {NoInfo}],
           answers' \in [Key -> Seq(Answer)]
    PROVE  TypeOK'
<1>1. ServerType' /\ HistoryType' /\ AskType'
    BY TypeGroups DEF ServerType, HistoryType, AskType
<1> QED BY <1>1, TypeGroups, UnchangedTypes

\* A call gets another handler, or its timer is set or removed.
LEMMA InfoSet ==
    ASSUME TypeOK, NEW k \in Key, info[k] # NoInfo, NEW timer \in BOOLEAN,
           NEW at \in {"replies", "increments", "lateReplies", "lateIncrements",
                       "answered", "ended"}
    PROVE  /\ [info EXCEPT ![k].at = at, ![k].timer = timer]
                = [info EXCEPT ![k] = [info[k] EXCEPT !.at = at, !.timer = timer]]
           /\ [info EXCEPT ![k].at = at] = [info EXCEPT ![k] = [info[k] EXCEPT !.at = at]]
           /\ [info EXCEPT ![k].timer = timer]
                = [info EXCEPT ![k] = [info[k] EXCEPT !.timer = timer]]
           /\ [info[k] EXCEPT !.at = at, !.timer = timer] \in Info
           /\ [info[k] EXCEPT !.at = at] \in Info /\ [info[k] EXCEPT !.timer = timer] \in Info
           /\ \A x \in Info : [info EXCEPT ![k] = x] \in [Key -> Info \cup {NoInfo}]
<1>1. info[k] \in Info /\ info \in [Key -> Info \cup {NoInfo}]
    BY InfoType DEF TypeOK
<1> QED BY <1>1 DEF Info

LEMMA CollectsType ==
    ASSUME TypeOK, NEW r \in Requestor, NEW a \in Atom, Collects(r, a)
    PROVE  incrList' \in [Requestor -> Seq(Collected)]
<1> DEFINE nothing == <<>>
           new == [atom |-> a, parts |-> nothing]
<1>1. nothing \in Seq(Value)
    OBVIOUS
<1>4. incrList[r] \in Seq(Collected) /\ incrList \in [Requestor -> Seq(Collected)]
    BY DEF TypeOK
<1>2. incrList' = [incrList EXCEPT ![r] = <<new>> \o @]
    BY DEF Collects
<1> HIDE DEF nothing
<1>5. new \in Collected
    BY <1>1 DEF Collected
<1> HIDE DEF new
<1>3. <<new>> \o incrList[r] \in Seq(Collected)
    BY <1>4, <1>5, ConcatProperties
<1> QED BY <1>2, <1>3, <1>4

LEMMA AnswerTypes ==
    ASSUME TypeOK, NEW r \in Requestor, NEW k \in Key,
           \/ HandleNone(r, k) \/ HandleNormal(r, k) \/ HandleIncremental(r, k)
    PROVE  TypeOK'
<1>1. /\ property \in [Requestor -> [Atom -> Value \cup {NoValue}]]
      /\ toOwner \in Seq(ToOwner) /\ answers \in [Key -> Seq(Answer)]
      /\ inCallback \in [Requestor -> 0..MaxRequest]
      /\ handlers \in [Requestor -> Seq(Key)] /\ avail \in [Requestor -> Seq(BOOLEAN)]
      /\ incrList \in [Requestor -> Seq(Collected)]
    BY DEF TypeOK
<1>2. ASSUME NEW outcome \in {"value", "none", "failed"}, Return(r, k, outcome, <<>>)
      PROVE  answers' \in [Key -> Seq(Answer)] /\ inCallback' \in [Requestor -> 0..MaxRequest]
    <2> DEFINE nothing == <<>>
    <2>1. nothing \in Seq(Value) /\ Return(r, k, outcome, nothing)
        BY <1>2
    <2> HIDE DEF nothing
    <2> QED BY <2>1, ReturnType
<1>3. ASSUME HandleNone(r, k) PROVE TypeOK'
    <2>1. Handle(r, k, "replies", {"refused"}) /\ Return(r, k, "none", <<>>)
        BY <1>3 DEF HandleNone
    <2>2. info' \in [Key -> Info \cup {NoInfo}]
        <3>1. info[k] # NoInfo
            BY <2>1, HandleEffect
        <3> QED BY <1>3, <3>1, InfoSet DEF HandleNone
    <2>3. UNCHANGED <<property, toOwner, avail, handlers, incrList>>
        BY <1>3 DEF HandleNone
    <2>4. answers' \in [Key -> Seq(Answer)] /\ inCallback' \in [Requestor -> 0..MaxRequest]
        BY <1>2, <2>1
    <2> QED BY <1>1, <2>1, <2>2, <2>3, <2>4, HandleEffect, RequestorStepTypes
<1>4. ASSUME HandleNormal(r, k) PROVE TypeOK'
    <2> DEFINE a == todo[r].event.atom
               v == property[r][a]
    <2>1. Handle(r, k, "replies", {"converted"}) /\ Delete(r, a)
        BY <1>4 DEF HandleNormal
    <2>2. a \in Atom
        <3>1. todo[r].event \in ToRequestor /\ todo[r].event.type \in {"converted"}
            BY <2>1, HandleEffect
        <3> QED BY <3>1 DEF ToRequestor
    <2>3. info' \in [Key -> Info \cup {NoInfo}]
        <3>1. info[k] # NoInfo
            BY <2>1, HandleEffect
        <3> QED BY <1>4, <3>1, InfoSet DEF HandleNormal
    <2>4. answers' \in [Key -> Seq(Answer)] /\ inCallback' \in [Requestor -> 0..MaxRequest]
        <3>1. CASE v = NoValue
            BY <1>2, <1>4, <3>1 DEF HandleNormal
        <3>2. CASE v # NoValue
            <4>1. v \in Value
                BY <1>1, <2>2, <3>2
            <4>2. <<v>> \in Seq(Value) /\ Return(r, k, "value", <<v>>)
                BY <1>4, <3>2, <4>1 DEF HandleNormal
            <4> QED BY <4>2, ReturnType
        <3> QED BY <3>1, <3>2
    <2>5. UNCHANGED <<avail, handlers, incrList>>
        BY <1>4 DEF HandleNormal
    <2>6. property' \in [Requestor -> [Atom -> Value \cup {NoValue}]] /\ toOwner' \in Seq(ToOwner)
        BY <2>1, <2>2, DeleteEffect
    <2> QED BY <1>1, <2>1, <2>3, <2>4, <2>5, <2>6, HandleEffect, RequestorStepTypes
<1>5. ASSUME HandleIncremental(r, k) PROVE TypeOK'
    <2>1. /\ Handle(r, k, "replies", {"increments"}) /\ Delete(r, info[k].atom)
          /\ ToFront(r, k) /\ Collects(r, info[k].atom)
          /\ UNCHANGED <<avail, inCallback, answers>>
        BY <1>5 DEF HandleIncremental
    <2>2. info' \in [Key -> Info \cup {NoInfo}] /\ info[k].atom \in Atom
        <3>1. info[k] # NoInfo /\ info[k].atom \in Atom
            BY <2>1, HandleEffect
        <3> QED BY <1>5, <3>1, InfoSet DEF HandleIncremental
    <2>3. property' \in [Requestor -> [Atom -> Value \cup {NoValue}]] /\ toOwner' \in Seq(ToOwner)
        BY <2>1, <2>2, DeleteEffect
    <2> QED BY <1>1, <2>1, <2>2, <2>3, HandleEffect, RequestorStepTypes, ToFrontType, CollectsType
<1> QED BY <1>3, <1>4, <1>5

LEMMA IncrementTypes ==
    ASSUME TypeOK, NEW r \in Requestor, NEW k \in Key, HandleGetIncrement(r, k)
    PROVE  TypeOK'
<1> DEFINE a == info[k].atom
           v == property[r][a]
<1>1. Handle(r, k, "increments", {"newValue"}) /\ UNCHANGED <<avail, handlers>>
    BY DEF HandleGetIncrement
<1>2. /\ property \in [Requestor -> [Atom -> Value \cup {NoValue}]]
      /\ toOwner \in Seq(ToOwner) /\ answers \in [Key -> Seq(Answer)]
      /\ inCallback \in [Requestor -> 0..MaxRequest]
      /\ handlers \in [Requestor -> Seq(Key)] /\ avail \in [Requestor -> Seq(BOOLEAN)]
      /\ incrList \in [Requestor -> Seq(Collected)] /\ info \in [Key -> Info \cup {NoInfo}]
    BY DEF TypeOK
<1>3. a \in Atom /\ info[k] # NoInfo
    BY <1>1, HandleEffect
<1>4. CASE UNCHANGED <<property, toOwner, info, inCallback, incrList, answers>>
    BY <1>1, <1>2, <1>4, HandleEffect, RequestorStepTypes
<1>5. ASSUME NEW i \in DOMAIN incrList[r], Delete(r, a), Empty(v),
             Return(r, k, "value", incrList[r][i].parts),
             info' = [info EXCEPT ![k].at = "ended", ![k].timer = FALSE], UNCHANGED incrList
      PROVE  TypeOK'
    <2>1. incrList[r][i] \in Collected
        BY <1>2, ElementOfSeq
    <2>2. incrList[r][i].parts \in Seq(Value)
        BY <2>1 DEF Collected
    <2>3. info' \in [Key -> Info \cup {NoInfo}]
        BY <1>3, <1>5, InfoSet
    <2> DEFINE parts == incrList[r][i].parts
    <2>4. parts \in Seq(Value) /\ Return(r, k, "value", parts)
        BY <1>5, <2>2
    <2> HIDE DEF parts
    <2>5. answers' \in [Key -> Seq(Answer)] /\ inCallback' \in [Requestor -> 0..MaxRequest]
        BY <2>4, ReturnType
    <2>6. property' \in [Requestor -> [Atom -> Value \cup {NoValue}]] /\ toOwner' \in Seq(ToOwner)
        BY <1>3, <1>5, DeleteEffect
    <2> QED BY <1>1, <1>2, <1>5, <2>3, <2>5, <2>6, HandleEffect, RequestorStepTypes
<1>6. ASSUME NEW i \in DOMAIN incrList[r], Delete(r, a), ~Empty(v),
             info' = [info EXCEPT ![k].timer = TRUE],
             incrList' = [incrList EXCEPT ![r][i].parts = Append(@, v)],
             UNCHANGED <<inCallback, answers>>
      PROVE  TypeOK'
    <2>1. v \in Value
        BY <1>2, <1>3, <1>6 DEF Empty
    <2> DEFINE q == incrList[r]
               new == [q[i] EXCEPT !.parts = Append(@, v)]
    <2>2. q \in Seq(Collected) /\ q[i] \in Collected
        BY <1>2, ElementOfSeq
    <2>3. Append(q[i].parts, v) \in Seq(Value)
        BY <2>1, <2>2 DEF Collected
    <2>4. new \in Collected
        BY <2>2, <2>3 DEF Collected
    <2>5. incrList' = [incrList EXCEPT ![r] = [q EXCEPT ![i] = new]]
        BY <1>2, <1>6
    <2> HIDE DEF new, q, v
    <2>6. [q EXCEPT ![i] = new] \in Seq(Collected)
        BY <1>6, <2>2, <2>4, ExceptSeq DEF q
    <2>7. incrList' \in [Requestor -> Seq(Collected)]
        BY <1>2, <2>5, <2>6
    <2>8. info' \in [Key -> Info \cup {NoInfo}]
        BY <1>3, <1>6, InfoSet
    <2> QED BY <1>1, <1>2, <1>3, <1>6, <2>7, <2>8, HandleEffect, RequestorStepTypes, DeleteEffect
<1> QED BY <1>4, <1>5, <1>6 DEF HandleGetIncrement, IsIncr

LEMMA CleanupTypes ==
    ASSUME TypeOK, NEW r \in Requestor, NEW k \in Key,
           CleanupReply(r, k) \/ CleanupIncremental(r, k) \/ CleanupIncrement(r, k)
    PROVE  TypeOK'
<1>1. /\ property \in [Requestor -> [Atom -> Value \cup {NoValue}]]
      /\ toOwner \in Seq(ToOwner) /\ answers \in [Key -> Seq(Answer)]
      /\ inCallback \in [Requestor -> 0..MaxRequest]
      /\ handlers \in [Requestor -> Seq(Key)] /\ avail \in [Requestor -> Seq(BOOLEAN)]
      /\ incrList \in [Requestor -> Seq(Collected)] /\ info \in [Key -> Info \cup {NoInfo}]
    BY DEF TypeOK
<1>2. ASSUME CleanupReply(r, k) PROVE TypeOK'
    <2>1. /\ Handle(r, k, "lateReplies", {"refused", "converted"}) /\ Free(r, k)
          /\ UNCHANGED <<inCallback, incrList, answers>>
        BY <1>2 DEF CleanupReply
    <2>2. property' \in [Requestor -> [Atom -> Value \cup {NoValue}]] /\ toOwner' \in Seq(ToOwner)
        <3>1. CASE todo[r].event.type = "converted"
            <4>1. Delete(r, todo[r].event.atom)
                BY <1>2, <3>1 DEF CleanupReply
            <4>2. todo[r].event.atom \in Atom
                BY <2>1, <3>1, HandleEffect DEF ToRequestor
            <4> QED BY <4>1, <4>2, DeleteEffect
        <3>2. CASE todo[r].event.type # "converted"
            BY <1>1, <1>2, <3>2 DEF CleanupReply
        <3> QED BY <3>1, <3>2
    <2> QED BY <1>1, <2>1, <2>2, HandleEffect, RequestorStepTypes, FreeType
<1>3. ASSUME CleanupIncremental(r, k) PROVE TypeOK'
    <2>1. /\ Handle(r, k, "lateReplies", {"increments"}) /\ ToFront(r, k)
          /\ UNCHANGED <<property, toOwner, avail, inCallback, incrList, answers>>
        BY <1>3 DEF CleanupIncremental
    <2>2. info' \in [Key -> Info \cup {NoInfo}]
        BY <1>3, <2>1, HandleEffect, InfoSet DEF CleanupIncremental
    <2> QED BY <1>1, <2>1, <2>2, HandleEffect, RequestorStepTypes, ToFrontType
<1>4. ASSUME CleanupIncrement(r, k) PROVE TypeOK'
    <2>1. /\ Handle(r, k, "lateIncrements", {"newValue"}) /\ Delete(r, info[k].atom)
          /\ Free(r, k) \/ UNCHANGED <<info, avail, handlers>>
          /\ UNCHANGED <<inCallback, incrList, answers>>
        BY <1>4 DEF CleanupIncrement
    <2> QED BY <1>1, <2>1, HandleEffect, RequestorStepTypes, FreeType, DeleteEffect
<1> QED BY <1>2, <1>3, <1>4

LEMMA DispatchEventTypes ==
    ASSUME TypeOK, NEW r \in Requestor, DispatchEvent(r)
    PROVE  TypeOK'
<1> USE TypeGroups
<1> DEFINE e == Head(toRequestor[r])
           keys == {k \in Key : Asks(r, k) /\ info[k] # NoInfo /\ Match(e, k)}
           next == IF keys = {} THEN Nothing ELSE [event |-> e, keys |-> keys]
<1>1. /\ toRequestor[r] # <<>> /\ toRequestor' = [toRequestor EXCEPT ![r] = Tail(@)]
      /\ todo' = [todo EXCEPT ![r] = next]
      /\ UNCHANGED <<owner, now, property, toOwner, ownVars, sendVars, avail, asked,
                     info, handlers, inCallback, incrList, history>>
    BY DEF DispatchEvent
<1>2. e \in ToRequestor /\ Tail(toRequestor[r]) \in Seq(ToRequestor)
    BY <1>1, TailIndex DEF ServerType
<1>3. next \in Todo \cup {Nothing}
    BY <1>2 DEF Todo
<1> HIDE DEF next
<1>4. ServerType'
    BY <1>1, <1>2 DEF ServerType
<1>5. AskType'
    BY <1>1, <1>3 DEF AskType
<1> QED BY <1>1, <1>4, <1>5, UnchangedTypes

LEMMA CallbackTypes ==
    ASSUME TypeOK, NEW r \in Requestor, NEW k \in Key,
           ReqTimedOut(r, k) \/ FinishAnswer(r, k) \/ FinishTimeout(r, k)
    PROVE  TypeOK'
<1>1. /\ property \in [Requestor -> [Atom -> Value \cup {NoValue}]]
      /\ toOwner \in Seq(ToOwner) /\ answers \in [Key -> Seq(Answer)]
      /\ inCallback \in [Requestor -> 0..MaxRequest]
      /\ handlers \in [Requestor -> Seq(Key)] /\ avail \in [Requestor -> Seq(BOOLEAN)]
      /\ todo \in [Requestor -> Todo \cup {Nothing}]
      /\ incrList \in [Requestor -> Seq(Collected)] /\ info \in [Key -> Info \cup {NoInfo}]
    BY DEF TypeOK
<1>0. 0 \in 0..MaxRequest
    BY Constants
<1>2. ASSUME ReqTimedOut(r, k) PROVE TypeOK'
    <2> DEFINE nothing == <<>>
    <2>1. nothing \in Seq(Value) /\ Return(r, k, "failed", nothing)
        BY <1>2 DEF ReqTimedOut
    <2>2. info' \in [Key -> Info \cup {NoInfo}]
        BY <1>2, InfoSet DEF ReqTimedOut
    <2>3. UNCHANGED <<serverVars, ownVars, sendVars, avail, asked, handlers, todo,
                      incrList, size, done, crossed>>
        BY <1>2 DEF ReqTimedOut
    <2> HIDE DEF nothing
    <2>4. answers' \in [Key -> Seq(Answer)] /\ inCallback' \in [Requestor -> 0..MaxRequest]
        BY <2>1, ReturnType
    <2> QED BY <1>1, <2>2, <2>3, <2>4, RequestorStepTypes DEF serverVars
<1>3. ASSUME FinishAnswer(r, k) PROVE TypeOK'
    <2>1. /\ Free(r, k) /\ inCallback' \in [Requestor -> 0..MaxRequest]
          /\ UNCHANGED <<serverVars, ownVars, sendVars, asked, todo, incrList, history>>
        BY <1>0, <1>1, <1>3 DEF FinishAnswer
    <2> QED BY <1>1, <2>1, FreeType, RequestorStepTypes DEF serverVars, history
<1>4. ASSUME FinishTimeout(r, k) PROVE TypeOK'
    <2>1. /\ ToFront(r, k) /\ inCallback' \in [Requestor -> 0..MaxRequest]
          /\ UNCHANGED <<serverVars, ownVars, sendVars, avail, asked, todo, history>>
          /\ info[k].at \in {"replies", "increments"}
        BY <1>0, <1>1, <1>4 DEF FinishTimeout
    <2> DEFINE at == IF info[k].at = "replies" THEN "lateReplies" ELSE "lateIncrements"
    <2>2. info[k] # NoInfo /\ info' = [info EXCEPT ![k].at = at]
        BY <1>1, <1>4, <2>1, InfoType DEF FinishTimeout
    <2>3. info' \in [Key -> Info \cup {NoInfo}]
        BY <2>2, InfoSet
    <2>4. incrList' \in [Requestor -> Seq(Collected)]
        <3>1. CASE UNCHANGED incrList
            BY <1>1, <3>1
        <3>2. ASSUME NEW i \in DOMAIN incrList[r],
                     incrList' = [incrList EXCEPT ![r] = RemoveAt(@, i)]
              PROVE  incrList' \in [Requestor -> Seq(Collected)]
            <4>1. RemoveAt(incrList[r], i) \in Seq(Collected)
                BY <1>1, RemoveAtType
            <4> QED BY <1>1, <3>2, <4>1
        <3> QED BY <1>4, <3>1, <3>2 DEF FinishTimeout, IsIncr
    <2> QED BY <1>1, <2>1, <2>3, <2>4, ToFrontType, RequestorStepTypes DEF serverVars, history
<1> QED BY <1>2, <1>3, <1>4

-----------------------------------------------------------------------------
(* Each action preserves the counters and what the owner knows.             *)

NoNewClear ==
    \A i \in DOMAIN toOwner' : toOwner'[i].type = "clear" =>
        \E j \in DOMAIN toOwner : toOwner'[i] = toOwner[j]

LEMMA ClearFromTail ==
    ASSUME TypeOK, toOwner # <<>>, toOwner' = Tail(toOwner)
    PROVE  NoNewClear
BY TailIndex DEF NoNewClear, TypeOK

LEMMA ClearFromAppend ==
    ASSUME TypeOK, NEW e \in ToOwner, e.type # "clear", toOwner' = Append(toOwner, e)
    PROVE  NoNewClear
<1>1. toOwner \in Seq(ToOwner)
    BY DEF TypeOK
<1>2. /\ DOMAIN toOwner = 1..Len(toOwner) /\ Len(toOwner) \in Nat
      /\ DOMAIN toOwner' = 1..(Len(toOwner) + 1)
      /\ \A i \in 1..Len(toOwner) : toOwner'[i] = toOwner[i]
      /\ toOwner'[Len(toOwner) + 1] = e
    BY <1>1, AppendIndex
<1> SUFFICES ASSUME NEW i \in DOMAIN toOwner', toOwner'[i].type = "clear"
             PROVE  \E j \in DOMAIN toOwner : toOwner'[i] = toOwner[j]
    BY DEF NoNewClear
<1>3. i # Len(toOwner) + 1
    BY <1>2
<1> QED BY <1>2, <1>3

LEMMA OwnerKnowsAsBefore ==
    ASSUME OwnerKnows, UNCHANGED <<owner, now, ctx, asking>>, NoNewClear
    PROVE  OwnerKnows'
BY DEF OwnerKnows, Cleared, NoNewClear

\* Time may pass, too.
LEMMA OwnerKnowsLater ==
    ASSUME TypeOK, OwnerKnows, UNCHANGED <<owner, ctx, asking>>, NoNewClear,
           now' \in Nat, now' >= now
    PROVE  OwnerKnows'
<1>1. \A j \in DOMAIN toOwner : toOwner[j].type = "clear" => toOwner[j].time \in Nat
    <2>1. toOwner \in Seq(ToOwner)
        BY DEF TypeOK
    <2>2. \A j \in DOMAIN toOwner : toOwner[j] \in ToOwner
        BY <2>1, ElementOfSeq
    <2> QED BY <2>2 DEF ToOwner
<1>2. now \in Nat
    BY DEF TypeOK
<1>3. Cleared(now + 1)'
    BY <1>1, <1>2 DEF OwnerKnows, Cleared, NoNewClear
<1> QED BY <1>3 DEF OwnerKnows, Cleared, NoNewClear

\* What a requestor does to the owner's queue: a deletion, or nothing
LEMMA ClearFromDelete ==
    ASSUME TypeOK, NEW r \in Requestor, NEW a \in Atom, Delete(r, a) \/ UNCHANGED toOwner
    PROVE  NoNewClear
<1>1. CASE toOwner' = toOwner
    BY <1>1 DEF NoNewClear
<1>2. CASE toOwner' = Append(toOwner, Deleted(r, a))
    <2>1. Deleted(r, a) \in ToOwner /\ Deleted(r, a).type # "clear"
        BY EventTypes DEF Deleted
    <2> QED BY <1>2, <2>1, ClearFromAppend
<1> QED BY <1>1, <1>2, DeleteEffect

LEMMA OwnershipKnown ==
    ASSUME TypeOK, Counted, OwnerKnows, Ownership
    PROVE  Counted' /\ OwnerKnows'
<1>1. /\ toOwner \in Seq(ToOwner) /\ now \in Nat /\ DOMAIN toOwner = 1..Len(toOwner)
      /\ Len(toOwner) \in Nat /\ ctx.refcount \in Nat /\ ctx.time \in Nat
      /\ \A i \in DOMAIN toOwner : toOwner[i].type = "clear" => toOwner[i].time \in Nat
    <2>1. toOwner \in Seq(ToOwner) /\ DOMAIN toOwner = 1..Len(toOwner) /\ Len(toOwner) \in Nat
        BY LenProperties DEF TypeOK
    <2>2. \A i \in DOMAIN toOwner : toOwner[i] \in ToOwner
        BY <2>1, ElementOfSeq
    <2> QED BY <2>1, <2>2 DEF ToOwner, TypeOK
<1>2. ASSUME NEW notify \in Notify, XtOwnSelection(notify) PROVE Counted' /\ OwnerKnows'
    <2>1. CASE ctx.widget
        <3>1. /\ owner' = owner /\ asking' = asking /\ toOwner' = toOwner /\ now' = now + 1
              /\ ctx' = Owning(now + 1, notify) /\ asking = NotAsking
              /\ incr' = incr /\ event' = event
            BY <1>2, <2>1 DEF XtOwnSelection, Ready, sendVars
        <3>2. ctx'.widget /\ ctx'.time = now + 1 /\ ctx'.refcount >= 1 /\ ctx'.handler
            BY <1>1, <3>1 DEF Owning
        <3>3. Cleared(now + 1)' /\ Cleared(now + 1) /\ Cleared(ctx.time)'
            <4>1. Cleared(now + 1)
                BY DEF OwnerKnows
            <4> QED BY <1>1, <3>1, <3>2, <4>1 DEF Cleared
        <3> QED BY <3>1, <3>2, <3>3 DEF Counted, OwnerKnows
    <2>2. CASE ~ctx.widget
        <3>1. /\ owner' = "us" /\ toOwner' = toOwner /\ now' = now + 1
              /\ asking' = [time |-> now + 1, notify |-> notify]
              /\ ctx' = ctx /\ incr' = incr /\ event' = event
            BY <1>2, <2>2 DEF XtOwnSelection, sendVars
        <3>2. asking'.time = now + 1 /\ asking' # NotAsking
            <4>1. [time |-> now + 1, notify |-> notify] # [time |-> 0]
                BY <1>1
            <4> QED BY <3>1, <4>1 DEF NotAsking
        <3>3. Cleared(now + 1)' /\ Cleared(asking.time)'
            <4>1. Cleared(now + 1)
                BY DEF OwnerKnows
            <4> QED BY <1>1, <3>1, <3>2, <4>1 DEF Cleared
        <3> QED BY <2>2, <3>1, <3>2, <3>3 DEF Counted, OwnerKnows
    <2> QED BY <2>1, <2>2
<1>3. ASSUME OwnerAsked PROVE Counted' /\ OwnerKnows'
    <2>1. /\ owner' = owner /\ toOwner' = toOwner /\ now' = now /\ incr' = incr
          /\ event' = event /\ asking # NotAsking /\ asking' = NotAsking
          /\ ctx' = IF owner = "us" THEN Owning(asking.time, asking.notify) ELSE ctx
        BY <1>3 DEF OwnerAsked, serverVars, sendVars
    <2>2. owner = "us" => /\ ctx'.widget /\ ctx'.time = asking.time
                          /\ ctx'.refcount >= 1 /\ ctx'.handler
        BY <1>1, <2>1 DEF Owning
    <2>3. (owner = "us" => Cleared(ctx.time)') /\ Cleared(now + 1)'
        BY <2>1, <2>2 DEF OwnerKnows, Cleared
    <2> QED BY <2>1, <2>2, <2>3 DEF Counted, OwnerKnows
<1>4. ASSUME XtDisownSelection PROVE Counted' /\ OwnerKnows'
    <2>1. /\ owner' = "none" /\ toOwner' = toOwner /\ now' = now /\ incr' = incr
          /\ event' = event /\ asking = NotAsking /\ asking' = asking /\ ~ctx'.widget
        BY <1>4 DEF XtDisownSelection, sendVars, Lost, TypeOK, Ready
    <2>2. Cleared(now + 1)'
        BY <2>1 DEF OwnerKnows, Cleared
    <2> QED BY <2>1, <2>2 DEF Counted, OwnerKnows
<1>5. ASSUME OtherOwns PROVE Counted' /\ OwnerKnows'
    <2>1. /\ owner' = "other" /\ now' = now + 1 /\ incr' = incr /\ event' = event
          /\ asking' = asking /\ ctx' = ctx
          /\ toOwner' = toOwner \/ toOwner' = Append(toOwner, [type |-> "clear", time |-> now + 1])
        BY <1>5 DEF OtherOwns, sendVars, ownVars
    <2>2. Cleared(now + 1)'
        <3> SUFFICES ASSUME NEW i \in DOMAIN toOwner', toOwner'[i].type = "clear"
                     PROVE  toOwner'[i].time < now' + 1
            BY DEF Cleared
        <3>1. Cleared(now + 1)
            BY DEF OwnerKnows
        <3>2. CASE toOwner' = toOwner
            BY <1>1, <2>1, <3>1, <3>2 DEF Cleared
        <3>3. CASE toOwner' = Append(toOwner, [type |-> "clear", time |-> now + 1])
            <4>1. [type |-> "clear", time |-> now + 1] \in ToOwner
                BY <1>1, EventTypes
            <4>2. /\ DOMAIN toOwner' = 1..(Len(toOwner) + 1)
                  /\ \A j \in 1..Len(toOwner) : toOwner'[j] = toOwner[j]
                  /\ toOwner'[Len(toOwner) + 1] = [type |-> "clear", time |-> now + 1]
                BY <1>1, <3>3, <4>1, AppendIndex
            <4>3. CASE i = Len(toOwner) + 1
                BY <1>1, <2>1, <4>2, <4>3
            <4>4. CASE i # Len(toOwner) + 1
                <5>1. i \in DOMAIN toOwner /\ toOwner'[i] = toOwner[i]
                    BY <1>1, <4>2, <4>4
                <5> QED BY <1>1, <2>1, <3>1, <5>1 DEF Cleared
            <4> QED BY <4>3, <4>4
        <3> QED BY <2>1, <3>2, <3>3
    <2> QED BY <2>1, <2>2 DEF Counted, OwnerKnows
<1>6. ASSUME SelectionClear PROVE Counted' /\ OwnerKnows'
    <2>1. /\ owner' = owner /\ now' = now /\ incr' = incr /\ event' = event
          /\ asking = NotAsking /\ asking' = asking
          /\ toOwner # <<>> /\ Head(toOwner).type = "clear" /\ toOwner' = Tail(toOwner)
          /\ ctx' = IF ctx.handler /\ ctx.widget /\ Head(toOwner).time >= ctx.time
                    THEN Lost ELSE ctx
        BY <1>6 DEF SelectionClear, sendVars, OwnerReads, Ready
    <2>2. NoNewClear
        BY <2>1, ClearFromTail
    <2>3. CASE ctx' = ctx
        BY <2>1, <2>2, <2>3, OwnerKnowsAsBefore DEF Counted
    <2>4. CASE ctx' = Lost /\ Head(toOwner).time >= ctx.time
        <3>1. ~ctx'.widget
            BY <2>4 DEF Lost, TypeOK
        <3>2. owner # "us"
            <4>1. Head(toOwner) = toOwner[1] /\ 1 \in DOMAIN toOwner
                BY <1>1, <2>1, TailIndex
            <4>2. ~Cleared(ctx.time)
                BY <1>1, <2>1, <2>4, <4>1 DEF Cleared
            <4> QED BY <2>1, <4>2 DEF OwnerKnows
        <3>3. Cleared(now + 1)'
            BY <2>1, <2>2 DEF OwnerKnows, Cleared, NoNewClear
        <3> QED BY <2>1, <3>1, <3>2, <3>3 DEF Counted, OwnerKnows
    <2> QED BY <2>1, <2>3, <2>4
<1> QED BY <1>2, <1>3, <1>4, <1>5, <1>6 DEF Ownership

LEMMA OwnerKnown ==
    ASSUME TypeOK, Counted, OwnerKnows, OwnerHandles \/ OwnerTimer \/ OwnerDies,
           ~Ownership
    PROVE  Counted' /\ OwnerKnows'
<1>1. ASSUME SelectionIgnored \/ Refuse \/ Convert PROVE Counted' /\ OwnerKnows'
    <2>1. /\ UNCHANGED <<owner, now, ctx, asking, incr, event>>
          /\ toOwner # <<>> /\ toOwner' = Tail(toOwner)
        BY <1>1 DEF SelectionIgnored, Refuse, Convert, OwnerReads, ownVars, sendVars
    <2> QED BY <2>1, ClearFromTail, OwnerKnowsAsBefore DEF Counted
<1>2. ASSUME NEW n \in 1..MaxParts, ConvertIncremental(n) PROVE Counted' /\ OwnerKnows'
    <2>1. /\ UNCHANGED <<owner, now, ctx, asking, event>>
          /\ toOwner # <<>> /\ toOwner' = Tail(toOwner)
          /\ incr'.offset = 0 /\ incr'.total = n
        BY <1>2 DEF ConvertIncremental, OwnerReads, ownVars, sendVars
    <2>2. incr'.offset <= incr'.total /\ incr'.total <= MaxParts
        BY <2>1, Constants
    <2> QED BY <2>1, <2>2, ClearFromTail, OwnerKnowsAsBefore DEF Counted
<1>3. ASSUME DispatchDeleted PROVE Counted' /\ OwnerKnows'
    <2>1. /\ UNCHANGED <<owner, now, ctx, asking, incr>>
          /\ toOwner # <<>> /\ toOwner' = Tail(toOwner)
          /\ event' # NoEvent => event'.keys # <<>>
        BY <1>3 DEF DispatchDeleted, OwnerReads, ownVars, sendVars
    <2> QED BY <2>1, ClearFromTail, OwnerKnowsAsBefore DEF Counted
<1>4. ASSUME HandlePropertyGone PROVE Counted' /\ OwnerKnows'
    <2> USE <1>4, HandlePropertyGoneCases
    <2>1. UNCHANGED <<owner, now, ctx, asking, toOwner>> /\ event # NoEvent
        BY DEF ownVars
    <2>2. event' # NoEvent => event'.keys # <<>>
        <3>1. event \in Dispatch /\ event.keys \in Seq(Key) /\ event.keys # <<>>
            BY <2>1 DEF Counted, TypeOK, Dispatch
        <3>2. ASSUME Len(event.keys) # 1 PROVE Tail(event.keys) # <<>>
            <4>1. /\ Len(Tail(event.keys)) = Len(event.keys) - 1 /\ Len(event.keys) \in Nat
                  /\ Len(event.keys) >= 1
                BY <3>1, HeadTailProperties, TailIndex
            <4>2. Tail(event.keys) \in Seq(Key)
                BY <3>1, TailIndex
            <4>3. Tail(event.keys) = <<>> => Len(Tail(event.keys)) = 0
                BY <4>2, EmptySeq
            <4> QED BY <3>2, <4>1, <4>3
        <3>3. CASE Len(event.keys) # 1
            BY <3>1, <3>2, <3>3 DEF Dispatch
        <3>4. CASE Len(event.keys) = 1
            BY <3>4
        <3> QED BY <3>3, <3>4
    <2>3. incr' # NoIncr => incr'.total <= MaxParts /\ incr'.offset <= incr'.total
        <3>1. CASE UNCHANGED incr
            BY <3>1 DEF Counted
        <3>2. CASE FindIncr(event.window, event.atom)
                   /\ IF incr.offset < incr.total THEN SendIncrement ELSE AllSent
            <4>1. incr # NoIncr /\ incr \in Incr
                BY <3>2 DEF FindIncr, TypeOK
            <4>2. /\ incr.offset \in Nat /\ incr.total \in Nat
                  /\ incr.total <= MaxParts /\ incr.offset <= incr.total
                BY <4>1 DEF Incr, Counted
            <4>3. CASE SendIncrement /\ incr.offset < incr.total
                <5>1. incr'.offset = incr.offset + 1 /\ incr'.total = incr.total
                    BY <4>1, <4>3 DEF SendIncrement, Incr
                <5> QED BY <4>2, <4>3, <5>1
            <4>4. CASE AllSent
                BY <4>4 DEF AllSent
            <4> QED BY <3>2, <4>3, <4>4
        <3> QED BY <3>1, <3>2 DEF NotMine, EndsTransfer, LosesTimer, SendsNext
    <2>4. Counted'
        BY <2>1, <2>2, <2>3 DEF Counted
    <2> QED BY <2>1, <2>4, OwnerKnowsAsBefore DEF NoNewClear
<1>5. ASSUME NEW rec \in recs, OwnerTimedOut(rec) PROVE Counted' /\ OwnerKnows'
    <2>1. /\ UNCHANGED <<owner, now, ctx, asking, toOwner, event>>
          /\ incr' = incr \/ incr' = NoIncr
        BY <1>5 DEF OwnerTimedOut, serverVars, ownVars
    <2> QED BY <2>1, OwnerKnowsAsBefore DEF Counted, NoNewClear
<1>6. ASSUME OwnerDies PROVE Counted' /\ OwnerKnows'
    <2>1. /\ owner' # "us" /\ now' = now /\ toOwner' = <<>> /\ asking' = NotAsking
          /\ ~ctx'.widget /\ incr' = NoIncr /\ event' = NoEvent
        BY <1>6 DEF OwnerDies, NoCtx
    <2> QED BY <2>1 DEF Counted, OwnerKnows, Cleared
<1> QED BY <1>1, <1>2, <1>3, <1>4, <1>5, <1>6 DEF OwnerHandles, OwnerTimer, Ownership

LEMMA AskKnown ==
    ASSUME TypeOK, Counted, OwnerKnows, Named, NEW r \in Requestor, NEW k \in Key,
           NEW time \in Times(r), XtGetSelectionValue(r, k, time)
    PROVE  Counted' /\ OwnerKnows'
<1> DEFINE e == [type |-> "request", key |-> k, window |-> r, atom |-> PropertyOf(r),
                 time |-> time]
<1>1. /\ toOwner' = toOwner \/ toOwner' = Append(toOwner, e)
      /\ UNCHANGED <<owner, ctx, asking, incr, event>>
    BY DEF XtGetSelectionValue, ownVars, sendVars
<1>2. PropertyOf(r) \in Atom
    BY NewName DEF XtGetSelectionValue
<1>3. time \in Nat /\ now' >= now /\ TypeOK'
    BY AskTypes
<1>4. e \in ToOwner /\ e.type # "clear"
    BY <1>2, <1>3 DEF ToOwner
<1>5. now' \in Nat
    BY <1>3 DEF TypeOK
<1> HIDE DEF e
<1>6. NoNewClear
    BY <1>1, <1>4, ClearFromAppend DEF NoNewClear
<1> QED BY <1>1, <1>3, <1>5, <1>6, OwnerKnowsLater DEF Counted

\* The steps of a program that has asked
Continues(r, k) ==
    \/ HandleNone(r, k) \/ HandleNormal(r, k) \/ HandleIncremental(r, k)
    \/ HandleGetIncrement(r, k)
    \/ CleanupReply(r, k) \/ CleanupIncremental(r, k) \/ CleanupIncrement(r, k)
Called(r, k) == FinishAnswer(r, k) \/ FinishTimeout(r, k) \/ ReqTimedOut(r, k)

LEMMA ContinuesKnown ==
    ASSUME TypeOK, Counted, OwnerKnows, NEW r \in Requestor, NEW k \in Key,
           Continues(r, k)
    PROVE  Counted' /\ OwnerKnows' /\ UNCHANGED <<recs, incr>>
<1>1. PICK at \in {"replies", "increments", "lateReplies", "lateIncrements"},
           types \in SUBSET {"refused", "converted", "increments", "newValue"} :
            /\ Handle(r, k, at, types)
            /\ \/ UNCHANGED toOwner \/ Delete(r, info[k].atom)
               \/ todo[r].event.type = "converted" /\ Delete(r, todo[r].event.atom)
    BY DEF Continues, HandleNone, HandleNormal, HandleIncremental, HandleGetIncrement,
           CleanupReply, CleanupIncremental, CleanupIncrement, Handle
<1>2. /\ info[k].atom \in Atom /\ todo[r].event \in ToRequestor
      /\ UNCHANGED <<owner, now, ownVars, sendVars>>
    <2>1. at # "free"
        OBVIOUS
    <2> QED BY <1>1, <2>1, HandleEffect
<1>3. todo[r].event.type = "converted" => todo[r].event.atom \in Atom
    BY <1>2 DEF ToRequestor
<1>4. NoNewClear
    BY <1>1, <1>2, <1>3, ClearFromDelete
<1> QED BY <1>2, <1>4, OwnerKnowsAsBefore DEF Counted, ownVars, sendVars

LEMMA CalledKnown ==
    ASSUME Counted, OwnerKnows, NEW r \in Requestor,
           DispatchEvent(r) \/ \E k \in Key : Called(r, k)
    PROVE  Counted' /\ OwnerKnows' /\ UNCHANGED <<recs, incr>>
<1>1. UNCHANGED <<owner, now, toOwner, ownVars, sendVars>>
    BY DEF DispatchEvent, Called, FinishAnswer, FinishTimeout, ReqTimedOut, serverVars
<1> QED BY <1>1, OwnerKnowsAsBefore DEF Counted, NoNewClear, ownVars, sendVars

-----------------------------------------------------------------------------
(* Each action preserves the increment's record.                            *)

Keeps(rec) ==
    /\ rec.key = incr.key /\ rec.window = incr.window /\ rec.atom = incr.atom
    /\ ~rec.freed /\ ~rec.allSent

LEMMA RecordAsBefore ==
    ASSUME IncrementHasRecord, recs \subseteq recs', incr' = incr \/ incr' = NoIncr
    PROVE  IncrementHasRecord'
BY DEF IncrementHasRecord

LEMMA RecordFreed ==
    ASSUME TypeOK, IncrementHasRecord, NEW rec \in recs, FreeRec(rec),
           rec.allSent \/ FindIncr(rec.window, rec.atom) \/ ~Keeps(rec),
           incr' = IF ~rec.allSent /\ FindIncr(rec.window, rec.atom) THEN NoIncr ELSE incr
    PROVE  IncrementHasRecord'
<1>1. CASE incr' = NoIncr
    BY <1>1 DEF IncrementHasRecord
<1>2. CASE incr' # NoIncr
    <2>1. PICK other \in recs : Keeps(other)
        BY <1>2 DEF IncrementHasRecord, Keeps
    <2>2. other # rec
        BY <1>2, <2>1 DEF Keeps
    <2>3. other \in recs'
        BY <2>2 DEF FreeRec
    <2> QED BY <1>2, <2>1, <2>3 DEF IncrementHasRecord, Keeps
<1> QED BY <1>1, <1>2

LEMMA OwnerRecord ==
    ASSUME TypeOK, IncrementHasRecord, OwnerHandles \/ OwnerTimer \/ OwnerDies
    PROVE  IncrementHasRecord'
<1>1. CASE OwnerAsked \/ SelectionClear \/ SelectionIgnored \/ Refuse \/ DispatchDeleted
    BY <1>1 DEF OwnerAsked, SelectionClear, SelectionIgnored, Refuse, DispatchDeleted,
                sendVars, IncrementHasRecord
<1>2. CASE Convert
    <2>1. recs \subseteq recs' /\ incr' = incr
        BY <1>2 DEF Convert
    <2> QED BY <2>1, RecordAsBefore
<1>3. ASSUME NEW n \in 1..MaxParts, ConvertIncremental(n) PROVE IncrementHasRecord'
    <2> DEFINE e == Head(toOwner)
               new == NewRec(e, ctx.notify, FALSE)
    <2>1. /\ new \in recs' /\ incr'.key = e.key /\ incr'.window = e.window
          /\ incr'.atom = e.atom
        BY <1>3 DEF ConvertIncremental
    <2>2. /\ new.key = e.key /\ new.window = e.window /\ new.atom = e.atom
          /\ ~new.freed /\ ~new.allSent
        BY DEF NewRec
    <2> HIDE DEF e, new
    <2> QED BY <2>1, <2>2 DEF IncrementHasRecord
<1>4. CASE HandlePropertyGone
    <2> USE HandlePropertyGoneCases, <1>4
    <2>1. CASE NotMine
        BY <2>1 DEF NotMine, IncrementHasRecord
    <2>2. ASSUME NEW rec \in recs, EndsTransfer(rec) PROVE IncrementHasRecord'
        BY <2>2, RecordFreed DEF EndsTransfer
    <2>3. ASSUME NEW rec \in recs, LosesTimer(rec) PROVE IncrementHasRecord'
        <3> DEFINE new == [rec EXCEPT !.timer = FALSE]
        <3>1. recs' = (recs \ {rec}) \cup {new} /\ incr' = incr
            BY <2>3 DEF LosesTimer
        <3>2. rec \in Rec
            BY DEF TypeOK
        <3>3. /\ new.key = rec.key /\ new.window = rec.window /\ new.atom = rec.atom
              /\ new.freed = rec.freed /\ new.allSent = rec.allSent
            BY <3>2 DEF Rec
        <3> HIDE DEF new
        <3> QED BY <3>1, <3>3 DEF IncrementHasRecord
    <2>4. ASSUME NEW rec \in recs, SendsNext(rec) PROVE IncrementHasRecord'
        <3>1. CASE incr.offset < incr.total
            <4> DEFINE new == [rec EXCEPT !.timer = TRUE, !.allSent = SentNow]
            <4>1. SendIncrement /\ recs' = (recs \ {rec}) \cup {new} /\ incr # NoIncr
                BY <2>4, <3>1 DEF SendsNext, FindIncr
            <4>2. rec \in Rec /\ incr \in Incr
                BY <4>1 DEF TypeOK
            <4>3. ~SentNow
                BY <3>1, <4>2 DEF SentNow, Incr
            <4>4. /\ incr'.key = incr.key /\ incr'.window = incr.window
                  /\ incr'.atom = incr.atom
                BY <4>1, <4>2 DEF SendIncrement, Incr
            <4>5. /\ new.key = rec.key /\ new.window = rec.window /\ new.atom = rec.atom
                  /\ new.freed = rec.freed /\ new.allSent = FALSE
                BY <4>2, <4>3 DEF Rec
            <4> HIDE DEF new
            <4>6. PICK other \in recs : Keeps(other)
                BY <4>1 DEF IncrementHasRecord, Keeps
            <4>7. CASE other = rec
                BY <4>1, <4>4, <4>5, <4>6, <4>7 DEF IncrementHasRecord, Keeps
            <4>8. CASE other # rec
                BY <4>1, <4>4, <4>6, <4>8 DEF IncrementHasRecord, Keeps
            <4> QED BY <4>7, <4>8
        <3>2. CASE ~(incr.offset < incr.total)
            BY <2>4, <3>2 DEF SendsNext, AllSent, IncrementHasRecord
        <3> QED BY <3>1, <3>2
    <2> QED BY <2>1, <2>2, <2>3, <2>4
<1>5. ASSUME NEW rec \in recs, OwnerTimedOut(rec) PROVE IncrementHasRecord'
    <2>1. FreeRec(rec) /\ incr' = IF FindIncr(rec.window, rec.atom) THEN NoIncr ELSE incr
        BY <1>5 DEF OwnerTimedOut
    <2>2. CASE incr' = NoIncr
        BY <2>2 DEF IncrementHasRecord
    <2>3. CASE incr' # NoIncr
        <3>1. incr' = incr /\ ~FindIncr(rec.window, rec.atom) /\ incr # NoIncr
            BY <2>1, <2>3
        <3>2. ~Keeps(rec)
            BY <3>1 DEF Keeps, FindIncr
        <3> QED BY <2>1, <3>1, <3>2, RecordFreed
    <2> QED BY <2>2, <2>3
<1>6. CASE OwnerDies
    BY <1>6 DEF OwnerDies, IncrementHasRecord
<1> QED BY <1>1, <1>2, <1>3, <1>4, <1>5, <1>6 DEF OwnerHandles, OwnerTimer

-----------------------------------------------------------------------------
(* Each action preserves the names and the calls.                           *)

LEMMA CallsAsBefore ==
    ASSUME Calls, UNCHANGED <<avail, asked, info, todo, inCallback, answers>>
    PROVE  Calls'
BY DEF Calls, Named, Answered, Asks

LEMMA AskedAnew ==
    ASSUME TypeOK, Calls, NEW r \in Requestor, NEW k \in Key, NEW time \in Times(r),
           XtGetSelectionValue(r, k, time)
    PROVE  Calls'
<1> DEFINE call == [requestor |-> r, time |-> time]
           new == [atom |-> PropertyOf(r), at |-> "replies", timer |-> TRUE]
<1>1. /\ asked[k] = NotAsked /\ \A j \in 1..k - 1 : asked[j] # NotAsked
      /\ asked' = [asked EXCEPT ![k] = call] /\ info' = [info EXCEPT ![k] = new]
      /\ avail' = [avail EXCEPT ![r] = Taken(r)]
      /\ UNCHANGED <<todo, inCallback, answers>>
    BY DEF XtGetSelectionValue
<1>2. /\ info \in [Key -> Info \cup {NoInfo}] /\ avail \in [Requestor -> Seq(BOOLEAN)]
      /\ asked \in [Key -> Call \cup {NotAsked}]
    BY DEF TypeOK
<1>3. call # NotAsked /\ new.at = "replies"
    BY DEF NotAsked
<1> HIDE DEF call, new
<1>4. /\ avail'[r] = Taken(r) /\ \A s \in Requestor \ {r} : avail'[s] = avail[s]
      /\ info'[k] = new /\ \A j \in Key \ {k} : info'[j] = info[j]
      /\ asked'[k] = call /\ \A j \in Key \ {k} : asked'[j] = asked[j]
    BY <1>1, <1>2
<1>5. Named'
    <2>1. /\ Len(Taken(r)) <= Len(avail[r]) + 1 /\ Taken(r) \in Seq(BOOLEAN)
          /\ Len(avail[r]) < k
        BY <1>1, PropertyTaken DEF Calls, Named
    <2>2. /\ Len(avail[r]) \in Nat /\ Len(Taken(r)) \in Nat
          /\ k \in Nat /\ k <= MaxRequest /\ MaxRequest \in Nat
        BY <1>2, <2>1, LenProperties, Constants
    <2>3. Len(Taken(r)) <= k
        BY <2>1, <2>2
    <2>4. ASSUME NEW s \in Requestor PROVE Len(avail'[s]) <= MaxRequest
        BY <1>4, <2>2, <2>3 DEF Calls, Named
    <2>5. ASSUME NEW s \in Requestor, NEW j \in Key, asked'[j] = NotAsked
          PROVE  Len(avail'[s]) < j
        <3>1. j # k /\ asked[j] = NotAsked
            BY <1>3, <1>4, <2>5
        <3>2. k < j
            BY <1>1, <3>1, <2>2, Constants
        <3>3. Len(avail[s]) < j /\ j \in Nat
            BY <3>1, Constants DEF Calls, Named
        <3> QED BY <1>4, <2>2, <2>3, <3>2, <3>3
    <2> QED BY <2>4, <2>5 DEF Named
<1>6. answers[k] = <<>> /\ \A s \in Requestor : inCallback[s] # k
    BY <1>1 DEF Calls, Answered, Asks
<1>7. \A s \in Requestor, j \in Key : Asks(s, j) => Asks(s, j)'
    <2> SUFFICES ASSUME NEW s \in Requestor, NEW j \in Key, Asks(s, j) PROVE Asks(s, j)'
        OBVIOUS
    <2>1. j # k
        BY <1>1 DEF Asks
    <2> QED BY <1>4, <2>1 DEF Asks
<1>8. Answered'
    <2> SUFFICES ASSUME NEW j \in Key
                 PROVE  /\ Len(answers'[j]) <= 1
                        /\ asked'[j] = NotAsked => info'[j] = NoInfo /\ answers'[j] = <<>>
                        /\ info'[j] # NoInfo /\ info'[j].timer =>
                            /\ info'[j].at \in Unanswered /\ answers'[j] = <<>>
                            /\ \A s \in Requestor : inCallback'[s] # j
                        /\ info'[j].at \in Unanswered =>
                            answers'[j] = <<>> \/ \E s \in Requestor : inCallback'[s] = j
                        /\ \A s \in Requestor :
                            inCallback'[s] = j \/ j \in todo'[s].keys => Asks(s, j)'
        BY DEF Answered, Unanswered
    <2>1. CASE j = k
        BY <1>1, <1>3, <1>4, <1>6, <1>7, <2>1 DEF Calls, Answered, Unanswered
    <2>2. CASE j # k
        <3>1. info'[j] = info[j] /\ asked'[j] = asked[j]
            BY <1>4, <2>2
        <3> QED BY <1>1, <1>7, <3>1 DEF Calls, Answered, Unanswered
    <2> QED BY <2>1, <2>2
<1> QED BY <1>5, <1>8 DEF Calls

\* A step of the program for its call k leaves info x, answers y and callback c.
LEMMA CallStep ==
    ASSUME TypeOK, Calls, NEW r \in Requestor, NEW k \in Key, Asks(r, k), asked' = asked,
           \A s \in Requestor : Len(avail'[s]) = Len(avail[s]),
           \A s \in Requestor : todo'[s].keys \subseteq todo[s].keys,
           NEW x, info' = [info EXCEPT ![k] = x],
           NEW y, answers' = [answers EXCEPT ![k] = y],
           NEW c, inCallback' = [inCallback EXCEPT ![r] = c],
           inCallback[r] \in {0, k}, c \in {0, k}, Len(y) <= 1,
           x # NoInfo /\ x.timer => x.at \in Unanswered /\ y = <<>> /\ c = 0,
           x.at \in Unanswered => y = <<>> \/ c = k
    PROVE  Calls'
<1>0. k \in Nat \ {0}
    BY Constants
<1>1. /\ info \in [Key -> Info \cup {NoInfo}] /\ answers \in [Key -> Seq(Answer)]
      /\ inCallback \in [Requestor -> 0..MaxRequest]
    BY DEF TypeOK
<1>2. /\ info'[k] = x /\ answers'[k] = y /\ inCallback'[r] = c
      /\ \A j \in Key \ {k} : info'[j] = info[j] /\ answers'[j] = answers[j]
      /\ \A s \in Requestor \ {r} : inCallback'[s] = inCallback[s]
    BY <1>1
<1>3. \A s \in Requestor, j \in Key : Asks(s, j)' <=> Asks(s, j)
    BY DEF Asks
<1>4. \A s \in Requestor \ {r} : inCallback[s] # k
    BY DEF Calls, Answered, Asks
<1>5. Named'
    BY DEF Calls, Named
<1>6. Answered'
    <2> SUFFICES ASSUME NEW j \in Key
                 PROVE  /\ Len(answers'[j]) <= 1
                        /\ asked'[j] = NotAsked => info'[j] = NoInfo /\ answers'[j] = <<>>
                        /\ info'[j] # NoInfo /\ info'[j].timer =>
                            /\ info'[j].at \in Unanswered /\ answers'[j] = <<>>
                            /\ \A s \in Requestor : inCallback'[s] # j
                        /\ info'[j].at \in Unanswered =>
                            answers'[j] = <<>> \/ \E s \in Requestor : inCallback'[s] = j
                        /\ \A s \in Requestor :
                            inCallback'[s] = j \/ j \in todo'[s].keys => Asks(s, j)'
        BY DEF Answered, Unanswered
    <2>1. CASE j = k
        <3>1. asked'[k] # NotAsked
            BY DEF Asks
        <3>2. \A s \in Requestor :
                inCallback'[s] = k \/ k \in todo'[s].keys => Asks(s, k)'
            BY <1>2, <1>3, <1>4 DEF Calls, Answered
        <3>3. c = 0 => \A s \in Requestor : inCallback'[s] # k
            BY <1>0, <1>2, <1>4
        <3> QED BY <1>2, <2>1, <3>1, <3>2, <3>3
    <2>2. CASE j # k
        <3>1. info'[j] = info[j] /\ answers'[j] = answers[j] /\ j # 0
            BY <1>2, <2>2, Constants
        <3>2. \A s \in Requestor : inCallback'[s] = j <=> inCallback[s] = j
            BY <1>2, <2>2, <3>1
        <3> QED BY <1>3, <3>1, <3>2 DEF Calls, Answered
    <2> QED BY <2>1, <2>2
<1> QED BY <1>5, <1>6 DEF Calls

\* What a handler finds: a call of its program, not answered while it waits
LEMMA HandlesCall ==
    ASSUME TypeOK, Calls, NEW r \in Requestor, NEW k \in Key, NEW at, at # "free",
           NEW types, Handle(r, k, at, types)
    PROVE  /\ Asks(r, k) /\ inCallback[r] = 0 /\ info[k] # NoInfo /\ info[k].at = at
           /\ info[k] \in Info /\ info \in [Key -> Info \cup {NoInfo}]
           /\ Len(answers[k]) <= 1
           /\ at \in Unanswered => answers[k] = <<>>
           /\ at \notin Unanswered => ~info[k].timer
           /\ asked' = asked /\ \A s \in Requestor : todo'[s].keys \subseteq todo[s].keys
           /\ answers = [answers EXCEPT ![k] = answers[k]]
           /\ inCallback = [inCallback EXCEPT ![r] = 0]
<1>1. /\ inCallback[r] = 0 /\ k \in todo[r].keys
      /\ info[k] # NoInfo /\ info[k] \in Info /\ info[k].at = at
      /\ asked' = asked /\ \A s \in Requestor : todo'[s].keys \subseteq todo[s].keys
    BY HandleEffect
<1>2. Asks(r, k)
    BY <1>1 DEF Calls, Answered
<1>3. \A s \in Requestor : inCallback[s] = k => s = r
    BY <1>2 DEF Calls, Answered, Asks
<1>4. k # 0
    BY Constants
<1>5. at \in Unanswered => answers[k] = <<>>
    BY <1>1, <1>3, <1>4 DEF Calls, Answered
<1>6. Len(answers[k]) <= 1 /\ (at \notin Unanswered => ~info[k].timer)
    BY <1>1 DEF Calls, Answered
<1>7. /\ answers = [answers EXCEPT ![k] = answers[k]]
      /\ inCallback = [inCallback EXCEPT ![r] = 0] /\ info \in [Key -> Info \cup {NoInfo}]
    BY <1>1 DEF TypeOK
<1> QED BY <1>1, <1>2, <1>5, <1>6, <1>7

\* The callback is called for the first time.
LEMMA FirstAnswer ==
    ASSUME TypeOK, NEW r \in Requestor, NEW k \in Key, answers[k] = <<>>,
           NEW outcome, NEW parts, Return(r, k, outcome, parts)
    PROVE  \E y : /\ answers' = [answers EXCEPT ![k] = y] /\ Len(y) <= 1
                  /\ inCallback' = [inCallback EXCEPT ![r] = k]
<1> DEFINE z == [outcome |-> outcome, parts |-> parts]
<1>1. answers' = [answers EXCEPT ![k] = Append(@, z)]
      /\ inCallback' = [inCallback EXCEPT ![r] = k]
    BY DEF Return
<1> HIDE DEF z
<1>2. Append(answers[k], z) = <<z>> /\ Len(<<z>>) <= 1
    OBVIOUS
<1> QED BY <1>1, <1>2

LEMMA AnswersOn ==
    ASSUME TypeOK, Calls, NEW r \in Requestor, NEW k \in Key,
           HandleNone(r, k) \/ HandleNormal(r, k) \/ HandleIncremental(r, k)
    PROVE  Calls'
<1>1. ASSUME HandleNone(r, k) \/ HandleNormal(r, k) PROVE Calls'
    <2>1. PICK types, outcome, parts :
            /\ Handle(r, k, "replies", types) /\ Return(r, k, outcome, parts)
            /\ info' = [info EXCEPT ![k].at = "answered", ![k].timer = FALSE]
            /\ avail' = avail
        BY <1>1 DEF HandleNone, HandleNormal
    <2> DEFINE x == [info[k] EXCEPT !.at = "answered", !.timer = FALSE]
    <2>2. /\ Asks(r, k) /\ inCallback[r] = 0 /\ info[k] # NoInfo /\ answers[k] = <<>>
          /\ asked' = asked /\ \A s \in Requestor : todo'[s].keys \subseteq todo[s].keys
        BY <2>1, HandlesCall DEF Unanswered
    <2>3. info' = [info EXCEPT ![k] = x] /\ x \in Info
        BY <2>1, <2>2, InfoSet
    <2>4. PICK y : /\ answers' = [answers EXCEPT ![k] = y] /\ Len(y) <= 1
                   /\ inCallback' = [inCallback EXCEPT ![r] = k]
        BY <2>1, <2>2, FirstAnswer
    <2>5. ~x.timer /\ x.at \notin Unanswered
        BY <2>2, InfoType DEF Info, Unanswered
    <2> HIDE DEF x
    <2> QED BY <2>1, <2>2, <2>3, <2>4, <2>5, CallStep
<1>2. ASSUME HandleIncremental(r, k) PROVE Calls'
    <2>1. /\ Handle(r, k, "replies", {"increments"})
          /\ info' = [info EXCEPT ![k].at = "increments", ![k].timer = TRUE]
          /\ UNCHANGED <<avail, inCallback, answers>>
        BY <1>2 DEF HandleIncremental
    <2> DEFINE x == [info[k] EXCEPT !.at = "increments", !.timer = TRUE]
    <2>2. /\ Asks(r, k) /\ inCallback[r] = 0 /\ info[k] # NoInfo /\ answers[k] = <<>>
          /\ asked' = asked /\ \A s \in Requestor : todo'[s].keys \subseteq todo[s].keys
          /\ answers = [answers EXCEPT ![k] = answers[k]] /\ Len(answers[k]) <= 1
          /\ inCallback = [inCallback EXCEPT ![r] = 0]
        BY <2>1, HandlesCall DEF Unanswered
    <2>3. info' = [info EXCEPT ![k] = x] /\ x \in Info
        BY <2>1, <2>2, InfoSet
    <2>4. x.at \in Unanswered
        BY <2>2, InfoType DEF Info, Unanswered
    <2> HIDE DEF x
    <2> QED BY <2>1, <2>2, <2>3, <2>4, CallStep
<1> QED BY <1>1, <1>2

LEMMA IncrementsOn ==
    ASSUME TypeOK, Calls, NEW r \in Requestor, NEW k \in Key, HandleGetIncrement(r, k)
    PROVE  Calls'
<1>1. Handle(r, k, "increments", {"newValue"}) /\ avail' = avail
    BY DEF HandleGetIncrement
<1>2. /\ Asks(r, k) /\ inCallback[r] = 0 /\ info[k] # NoInfo /\ answers[k] = <<>>
      /\ info[k].at = "increments" /\ info[k] \in Info
      /\ asked' = asked /\ \A s \in Requestor : todo'[s].keys \subseteq todo[s].keys
      /\ answers = [answers EXCEPT ![k] = answers[k]] /\ Len(answers[k]) <= 1
      /\ inCallback = [inCallback EXCEPT ![r] = 0]
      /\ info \in [Key -> Info \cup {NoInfo}]
    BY <1>1, HandlesCall DEF Unanswered
<1>3. CASE UNCHANGED <<info, inCallback, answers>>
    <2>1. info' = [info EXCEPT ![k] = info[k]]
        BY <1>2, <1>3
    <2> QED BY <1>1, <1>2, <1>3, <2>1, CallStep DEF Unanswered
<1>4. ASSUME NEW parts, Return(r, k, "value", parts),
             info' = [info EXCEPT ![k].at = "ended", ![k].timer = FALSE]
      PROVE  Calls'
    <2> DEFINE x == [info[k] EXCEPT !.at = "ended", !.timer = FALSE]
    <2>1. info' = [info EXCEPT ![k] = x] /\ x \in Info
        BY <1>2, <1>4, InfoSet
    <2>2. PICK y : /\ answers' = [answers EXCEPT ![k] = y] /\ Len(y) <= 1
                   /\ inCallback' = [inCallback EXCEPT ![r] = k]
        BY <1>2, <1>4, FirstAnswer
    <2>3. ~x.timer /\ x.at \notin Unanswered
        BY <1>2 DEF Info, Unanswered
    <2> HIDE DEF x
    <2> QED BY <1>1, <1>2, <2>1, <2>2, <2>3, CallStep
<1>5. ASSUME info' = [info EXCEPT ![k].timer = TRUE], UNCHANGED <<inCallback, answers>>
      PROVE  Calls'
    <2> DEFINE x == [info[k] EXCEPT !.timer = TRUE]
    <2>1. info' = [info EXCEPT ![k] = x] /\ x \in Info
        BY <1>2, <1>5, InfoSet
    <2>2. x.at \in Unanswered
        BY <1>2 DEF Info, Unanswered
    <2> HIDE DEF x
    <2> QED BY <1>1, <1>2, <1>5, <2>1, <2>2, CallStep
<1> QED BY <1>3, <1>4, <1>5 DEF HandleGetIncrement

LEMMA CleanupOn ==
    ASSUME TypeOK, Calls, NEW r \in Requestor, NEW k \in Key,
           CleanupReply(r, k) \/ CleanupIncremental(r, k) \/ CleanupIncrement(r, k)
    PROVE  Calls'
<1>1. PICK at \in {"lateReplies", "lateIncrements"},
           types \in {{"refused", "converted"}, {"increments"}, {"newValue"}} :
        /\ Handle(r, k, at, types) /\ UNCHANGED <<inCallback, answers>>
        /\ \/ Free(r, k) \/ UNCHANGED <<info, avail>>
           \/ info' = [info EXCEPT ![k].at = "lateIncrements"] /\ UNCHANGED avail
    BY DEF CleanupReply, CleanupIncremental, CleanupIncrement
<1>2. at # "free" /\ at \notin Unanswered
    BY DEF Unanswered
<1>3. /\ Asks(r, k) /\ inCallback[r] = 0 /\ info[k] # NoInfo /\ info[k].at = at
      /\ info[k] \in Info /\ Len(answers[k]) <= 1 /\ ~info[k].timer
      /\ asked' = asked /\ \A s \in Requestor : todo'[s].keys \subseteq todo[s].keys
      /\ answers = [answers EXCEPT ![k] = answers[k]]
      /\ inCallback = [inCallback EXCEPT ![r] = 0]
      /\ info \in [Key -> Info \cup {NoInfo}]
    BY <1>1, <1>2, HandlesCall
<1>4. CASE Free(r, k)
    <2>1. /\ info' = [info EXCEPT ![k] = NoInfo]
          /\ \A s \in Requestor : Len(avail'[s]) = Len(avail[s])
        BY <1>4, FreeType
    <2>2. NoInfo.at \notin Unanswered
        BY DEF NoInfo, Unanswered
    <2> QED BY <1>1, <1>3, <2>1, <2>2, CallStep
<1>5. CASE UNCHANGED <<info, avail>>
    <2>1. info' = [info EXCEPT ![k] = info[k]]
        BY <1>3, <1>5
    <2> QED BY <1>1, <1>2, <1>3, <1>5, <2>1, CallStep
<1>6. CASE info' = [info EXCEPT ![k].at = "lateIncrements"] /\ UNCHANGED avail
    <2> DEFINE x == [info[k] EXCEPT !.at = "lateIncrements"]
    <2>1. info' = [info EXCEPT ![k] = x] /\ x \in Info
        BY <1>3, <1>6, InfoSet
    <2>2. ~x.timer /\ x.at \notin Unanswered
        BY <1>3 DEF Info, Unanswered
    <2> HIDE DEF x
    <2> QED BY <1>1, <1>3, <1>6, <2>1, <2>2, CallStep
<1> QED BY <1>1, <1>4, <1>5, <1>6

LEMMA DispatchesOn ==
    ASSUME TypeOK, Calls, NEW r \in Requestor, DispatchEvent(r)
    PROVE  Calls'
<1> DEFINE e == Head(toRequestor[r])
           keys == {k \in Key : Asks(r, k) /\ info[k] # NoInfo /\ Match(e, k)}
           next == IF keys = {} THEN Nothing ELSE [event |-> e, keys |-> keys]
<1>1. /\ todo' = [todo EXCEPT ![r] = next]
      /\ UNCHANGED <<avail, asked, info, inCallback, answers>>
    BY DEF DispatchEvent, history
<1>2. \A k \in next.keys : Asks(r, k)
    BY DEF Nothing
<1> HIDE DEF next
<1>3. \A s \in Requestor : \A k \in todo'[s].keys : k \in todo[s].keys \/ Asks(s, k)
    BY <1>1, <1>2 DEF TypeOK
<1>4. \A s \in Requestor, k \in Key : Asks(s, k)' <=> Asks(s, k)
    BY <1>1 DEF Asks
<1>5. Named'
    BY <1>1 DEF Calls, Named
<1>6. Answered'
    BY <1>1, <1>3, <1>4 DEF Calls, Answered
<1> QED BY <1>5, <1>6 DEF Calls

LEMMA CallbackOn ==
    ASSUME TypeOK, Calls, NEW r \in Requestor, NEW k \in Key, Called(r, k)
    PROVE  Calls'
<1>1. /\ info \in [Key -> Info \cup {NoInfo}] /\ Len(answers[k]) <= 1
      /\ answers = [answers EXCEPT ![k] = answers[k]]
    BY DEF TypeOK, Calls, Answered
<1>2. ASSUME ReqTimedOut(r, k) PROVE Calls'
    <2>1. /\ Asks(r, k) /\ inCallback[r] = 0 /\ info[k] # NoInfo /\ info[k].timer
          /\ Return(r, k, "failed", <<>>)
          /\ info' = [info EXCEPT ![k].timer = FALSE]
          /\ UNCHANGED <<avail, asked, todo>>
        BY <1>2 DEF ReqTimedOut, Waits
    <2> DEFINE x == [info[k] EXCEPT !.timer = FALSE]
    <2>2. info' = [info EXCEPT ![k] = x] /\ x \in Info
        BY <2>1, InfoSet
    <2>3. answers[k] = <<>>
        BY <2>1 DEF Calls, Answered
    <2>4. PICK y : /\ answers' = [answers EXCEPT ![k] = y] /\ Len(y) <= 1
                   /\ inCallback' = [inCallback EXCEPT ![r] = k]
        BY <2>1, <2>3, FirstAnswer
    <2>5. ~x.timer
        BY <2>1, InfoType DEF Info
    <2> HIDE DEF x
    <2> QED BY <2>1, <2>2, <2>4, <2>5, CallStep
<1>3. ASSUME inCallback[r] = k PROVE Asks(r, k)
    BY <1>3 DEF Calls, Answered
<1>4. ASSUME FinishAnswer(r, k) PROVE Calls'
    <2>1. /\ inCallback[r] = k /\ Free(r, k) /\ inCallback' = [inCallback EXCEPT ![r] = 0]
          /\ UNCHANGED <<asked, todo, answers>>
        BY <1>4 DEF FinishAnswer, history
    <2>2. /\ info' = [info EXCEPT ![k] = NoInfo]
          /\ \A s \in Requestor : Len(avail'[s]) = Len(avail[s])
        BY <2>1, FreeType
    <2>3. NoInfo.at \notin Unanswered
        BY DEF NoInfo, Unanswered
    <2> QED BY <1>1, <1>3, <2>1, <2>2, <2>3, CallStep
<1>5. ASSUME FinishTimeout(r, k) PROVE Calls'
    <2> DEFINE at == IF info[k].at = "replies" THEN "lateReplies" ELSE "lateIncrements"
               x == [info[k] EXCEPT !.at = at]
    <2>1. /\ inCallback[r] = k /\ inCallback' = [inCallback EXCEPT ![r] = 0]
          /\ info[k].at \in {"replies", "increments"}
          /\ info' = [info EXCEPT ![k].at = at]
          /\ UNCHANGED <<avail, asked, todo, answers>>
        BY <1>1, <1>5 DEF FinishTimeout, history
    <2>2. info[k] # NoInfo /\ info[k] \in Info
        BY <2>1, InfoType
    <2>3. info' = [info EXCEPT ![k] = x] /\ x \in Info
        BY <2>1, <2>2, InfoSet
    <2>4. ~info[k].timer
        BY <2>1, <2>2 DEF Calls, Answered
    <2>5. ~x.timer /\ x.at \notin Unanswered
        BY <2>2, <2>4 DEF Info, Unanswered
    <2> HIDE DEF x
    <2> QED BY <1>1, <1>3, <2>1, <2>3, <2>5, CallStep
<1> QED BY <1>2, <1>4, <1>5 DEF Called

-----------------------------------------------------------------------------
(* The invariant, and the theorems.                                         *)

LEMMA InitBasic == Init => TypeOK /\ Basic
<1> SUFFICES ASSUME Init PROVE TypeOK /\ Basic
    OBVIOUS
<1>1. TypeOK
    BY Constants DEF Init, TypeOK, NoCtx
<1>2. OwnerKnows /\ Counted /\ IncrementHasRecord
    BY DEF Init, OwnerKnows, Cleared, Counted, IncrementHasRecord, NoCtx
<1>3. NoInfo.at = "free" /\ Len(<<>>) = 0 /\ Nothing.keys = {}
    BY DEF NoInfo, Nothing
<1>4. Named
    BY <1>3, Constants DEF Init, Named
<1>5. Answered
    BY <1>3, Constants DEF Init, Answered, Unanswered
<1> QED BY <1>1, <1>2, <1>4, <1>5 DEF Basic, Calls

LEMMA NextBasic == TypeOK /\ Basic /\ [Next]_vars => TypeOK' /\ Basic'
<1> SUFFICES ASSUME TypeOK, Basic, [Next]_vars PROVE TypeOK' /\ Basic'
    OBVIOUS
<1> USE DEF Basic
<1>1. CASE Ownership
    <2>1. UNCHANGED <<avail, asked, info, todo, inCallback, answers, recs, incr>>
        BY <1>1 DEF Ownership, XtOwnSelection, OwnerAsked, XtDisownSelection, OtherOwns,
                    SelectionClear, history, askVars, sendVars
    <2> QED BY <1>1, <2>1, OwnershipTypes, OwnershipKnown, CallsAsBefore, RecordAsBefore
<1>2. CASE ~Ownership /\ (OwnerHandles \/ OwnerTimer \/ OwnerDies)
    <2>1. TypeOK'
        BY <1>2, RequestTypes, DispatchTypes, HandlePropertyGoneTypes, OwnerEndTypes
           DEF OwnerHandles, OwnerTimer, Ownership
    <2>2. UNCHANGED <<askVars, answers>>
        <3>1. CASE HandlePropertyGone
            BY <3>1, HandlePropertyGoneCases
        <3>2. CASE OwnerTimer \/ OwnerDies
            BY <3>2 DEF OwnerTimer, OwnerTimedOut, OwnerDies, history
        <3>3. CASE \/ SelectionIgnored \/ Refuse \/ Convert \/ DispatchDeleted
                   \/ \E n \in 1..MaxParts : ConvertIncremental(n)
            BY <3>3 DEF SelectionIgnored, Refuse, Convert, ConvertIncremental,
                        DispatchDeleted, history
        <3> QED BY <1>2, <3>1, <3>2, <3>3 DEF OwnerHandles, Ownership
    <2>3. Calls'
        BY <2>2, CallsAsBefore DEF askVars
    <2> QED BY <1>2, <2>1, <2>3, OwnerKnown, OwnerRecord
<1>3. ASSUME NEW r \in Requestor, NEW k \in Key, Continues(r, k)
      PROVE  TypeOK' /\ Basic'
    <2>1. TypeOK'
        BY <1>3, AnswerTypes, IncrementTypes, CleanupTypes DEF Continues
    <2>2. Calls'
        BY <1>3, AnswersOn, IncrementsOn, CleanupOn DEF Continues
    <2>3. Counted' /\ OwnerKnows' /\ UNCHANGED <<recs, incr>>
        BY <1>3, ContinuesKnown
    <2> QED BY <2>1, <2>2, <2>3, RecordAsBefore
<1>4. ASSUME NEW r \in Requestor, NEW k \in Key, Called(r, k)
      PROVE  TypeOK' /\ Basic'
    <2>1. Counted' /\ OwnerKnows' /\ UNCHANGED <<recs, incr>>
        BY <1>4, CalledKnown
    <2>2. TypeOK'
        BY <1>4, CallbackTypes DEF Called
    <2> QED BY <1>4, <2>1, <2>2, CallbackOn, RecordAsBefore
<1>5. ASSUME NEW r \in Requestor, DispatchEvent(r)
      PROVE  TypeOK' /\ Basic'
    <2>1. Counted' /\ OwnerKnows' /\ UNCHANGED <<recs, incr>>
        BY <1>5, CalledKnown
    <2> QED BY <1>5, <2>1, DispatchEventTypes, DispatchesOn, RecordAsBefore
<1>6. ASSUME NEW r \in Requestor, NEW k \in Key, NEW time \in Times(r),
             XtGetSelectionValue(r, k, time)
      PROVE  TypeOK' /\ Basic'
    <2>1. UNCHANGED <<recs, incr>>
        BY <1>6 DEF XtGetSelectionValue, sendVars
    <2>2. TypeOK' /\ Counted' /\ OwnerKnows'
        BY <1>6, AskTypes, AskKnown DEF Calls
    <2> QED BY <1>6, <2>1, <2>2, AskedAnew, RecordAsBefore
<1>7. CASE UNCHANGED vars
    <2>1. TypeOK'
        BY <1>7, TypeGroups, UnchangedTypes DEF vars
    <2>2. Calls' /\ IncrementHasRecord'
        BY <1>7, CallsAsBefore, RecordAsBefore DEF vars, history, askVars, sendVars
    <2>3. Counted' /\ OwnerKnows'
        BY <1>7 DEF vars, serverVars, ownVars, sendVars, Counted, OwnerKnows, Cleared
    <2> QED BY <2>1, <2>2, <2>3
<1>8. ASSUME NEW r \in Requestor, RequestorProceeds(r)
      PROVE  \E k \in Key : Continues(r, k) \/ Called(r, k)
    BY <1>8 DEF RequestorProceeds, Continues, Called
<1>9. ASSUME RequestorTimer PROVE \E r \in Requestor, k \in Key : Called(r, k)
    BY <1>9 DEF RequestorTimer, Called
<1> QED BY <1>1, <1>2, <1>3, <1>4, <1>5, <1>6, <1>7, <1>8, <1>9
        DEF Next, Environment, Ownership

LEMMA BasicInvariant == Spec => [](TypeOK /\ Basic)
BY InitBasic, NextBasic, PTL DEF Spec

\* All variables of the two sides of the selection keep their types: a call gets
\* a property name that exists, a part of a value is one the value has, and the
\* count of references to the widget does not become negative.
THEOREM TypeCorrect == Spec => []TypeOK
BY BasicInvariant, PTL

\* The owner in the server is a widget that knows it and answers, or that will
\* know it when XtOwnSelection has asked who is the owner: no SelectionClear of an
\* earlier loss takes a selection away that was taken again later.
THEOREM OwnerAnswersTrue == Spec => []OwnerAnswers
<1>1. Basic => OwnerAnswers
    BY DEF Basic, Counted, OwnerKnows, OwnerAnswers
<1> QED BY <1>1, BasicInvariant, PTL

\* The callback of a call is called once, although answers are told apart by
\* their time alone: a timer that runs out makes the call's handler one that only
\* cleans up, and an answer removes the timer.
THEOREM AnsweredOnceTrue == Spec => []AnsweredOnce
<1>1. Basic => AnsweredOnce
    BY DEF Basic, Calls, Answered, AnsweredOnce
<1> QED BY <1>1, BasicInvariant, PTL

\* An increment that is still to be sent has a record that is not freed and that
\* a timeout or the next deletion finds: OwnerTimedOut takes the increment of its
\* own record with it, and who ends another transfer leaves both.
THEOREM IncrementHasRecordTrue == Spec => []IncrementHasRecord
<1>1. Basic => IncrementHasRecord
    BY DEF Basic
<1> QED BY <1>1, BasicInvariant, PTL

=============================================================================
