------------------------------ MODULE Selection ------------------------------
(***************************************************************************)
(* A selection between programs of the Xt Intrinsics (lib/Xt/Selection.c)  *)
(* through the server (dix/dispatch.c, dix/property.c): who owns it, and   *)
(* the transfer of its value, at once or in increments, with the timeouts  *)
(* of both sides.                                                          *)
(*                                                                         *)
(* One program with one widget may be the owner, other programs ask it,    *)
(* each with one window, and yet others may take the selection away.  A    *)
(* program is one thread that handles the events of its queue one by one;  *)
(* a timeout may come before events that are already in the queue.  A      *)
(* request takes effect in the server at once, but the events it causes    *)
(* are read later, and "the owner has set itself" and "it asks who is      *)
(* owner" are two requests.                                                *)
(*                                                                         *)
(* Abstractions.  A program takes the selection, or asks for it anew, with  *)
(* the time of an event of its own, and these grow: the server refuses no  *)
(* SetSelectionOwner, and equal times do not occur where SelectionClear    *)
(* compares them.  All calls ask for one target; a call that asks again    *)
(* uses the time of an earlier one (lib/Xaw/Text.c).  A value is one part, *)
(* or 1..n parts sent one by one.  Of PropertyNotify events those are left *)
(* out that no handler looks at (Deleted in the requestor, NewValue in the *)
(* owner).  The branches for incremental owners cannot be reached, as      *)
(* XtOwnSelection clears the flag.  Left out: XtGetSelectionValues, a      *)
(* requestor that is the owner, an owner other than this program that does *)
(* more than refuse, two transfers in increments at once (see below), and  *)
(* windows that are destroyed.                                             *)
(***************************************************************************)
EXTENDS Integers, Sequences, SequencesExt

CONSTANTS
    Requestor,      \* the programs that ask, and their windows
    MaxRequest,     \* bound: so many calls of XtGetSelectionValue
    MaxParts,       \* a value has at most so many increments
    MaxTime,        \* bound: so many events with a time of their own
    Notify          \* whether owners pass XtOwnSelection a done procedure

ASSUME SelectionAssumption ==
    /\ MaxRequest \in Nat /\ MaxParts \in Nat /\ MaxTime \in Nat
    /\ Notify \subseteq BOOLEAN

Key  == 1..MaxRequest       \* a call of XtGetSelectionValue
Atom == 1..MaxRequest       \* _SELECTION_0, _SELECTION_1...

VARIABLES
    \* the server
    owner,          \* the owner of the selection: "us", "other" or "none"
    now,            \* the time of the last event a program acted on
    property,       \* per window and atom: the property
    toOwner,        \* events the owner has not read
    toRequestor,    \* per requestor: events it has not read
    \* the program that may be the owner
    alive,          \* it is there
    ctx,            \* its SelectRec
    asking,         \* it is in XGetSelectionOwner, called by XtOwnSelection
    recs,           \* the PropGone records
    incr,           \* ctx->incrList
    table,          \* closures HandlePropertyGone is registered with, newest first
    hung,           \* windows that are hung onto its widget, and selected
    event,          \* the PropertyNotify event in dispatch, and what is left to call
    \* the requestors
    avail,          \* per requestor: the PropList
    asked,          \* per call: who asks, and with what time
    info,           \* per call: the CallBackInfo
    handlers,       \* per requestor: calls whose info has a handler, newest first
    todo,           \* per requestor: the event in dispatch, and who is still called
    inCallback,     \* per requestor: the call whose callback it is in
    incrList,       \* per requestor: its ctx->incrList
    \* history
    size,           \* per call: how many increments the value had (0: none)
    answers,        \* per call: what the callback was called with
    done,           \* per call: how the owner's done procedure was called
    crossed         \* requestors that asked with the time of a call that waits

serverVars == <<owner, now, property, toOwner, toRequestor>>
ownVars    == <<alive, ctx, asking>>
sendVars   == <<recs, incr, table, hung, event>>
askVars    == <<avail, asked, info, handlers, todo, inCallback, incrList>>
history    == <<size, answers, done, crossed>>
vars       == <<serverVars, ownVars, sendVars, askVars, history>>

NotAsking == [time |-> 0]
NoCtx == [widget |-> FALSE, time |-> 0, notify |-> FALSE, refcount |-> 0,
          handler |-> FALSE]

\* A property: its type is INCR, a value (or part of one), or it is empty.
Value == [type : {"INCR", "value", "end"}, key : Key, part : 0..MaxParts]
NoValue == [type |-> "none", key |-> 0, part |-> 0]
Stored(type, k, part) == [type |-> type, key |-> k, part |-> part]

ToOwner ==
    [type : {"clear"}, time : Nat]
        \cup [type : {"deleted"}, window : Requestor, atom : Atom]
        \cup [type : {"request"}, key : Key, window : Requestor, atom : Atom,
              time : Nat]

\* A SelectionNotify event, with property None (0), a target or INCR, or a
\* PropertyNotify event
ToRequestor ==
    [type : {"refused"}, time : Nat, atom : {0}]
        \cup [type : {"converted", "increments"}, time : Nat, atom : Atom]
        \cup [type : {"newValue"}, atom : Atom]

Rec == [key : Key, window : Requestor, atom : Atom, notify : BOOLEAN,
        allSent : BOOLEAN, timer : BOOLEAN, freed : BOOLEAN]
Incr == [key : Key, window : Requestor, atom : Atom, offset : Nat, total : Nat]
NoIncr == [key |-> 0]
Dispatch == [window : Requestor, atom : Atom, keys : Seq(Key)]
NoEvent == [keys |-> <<>>]

\* at: the handler that is registered with the record: HandleSelectionReplies,
\* HandleGetIncrement, or ReqCleanup instead of one of them; or the callback has
\* been called and the record is about to be freed
Info == [atom : Atom, timer : BOOLEAN,
         at : {"replies", "increments", "lateReplies", "lateIncrements",
               "answered", "ended"}]
NoInfo == [at |-> "free"]
Call == [requestor : Requestor, time : Nat]
NotAsked == [time |-> 0]
Collected == [atom : Atom, parts : Seq(Value)]      \* IncrementalRec
Todo == [event : ToRequestor, keys : SUBSET Key]
Nothing == [keys |-> {}]

Answer == [outcome : {"value", "none", "failed"}, parts : Seq(Value)]

TypeOK ==
    /\ owner \in {"us", "other", "none"} /\ now \in Nat
    /\ property \in [Requestor -> [Atom -> Value \cup {NoValue}]]
    /\ toOwner \in Seq(ToOwner)
    /\ toRequestor \in [Requestor -> Seq(ToRequestor)]
    /\ alive \in BOOLEAN
    /\ ctx \in [widget : BOOLEAN, time : Nat, notify : BOOLEAN, refcount : Nat,
                handler : BOOLEAN]
    /\ asking \in {NotAsking} \cup [time : Nat, notify : BOOLEAN]
    /\ recs \subseteq Rec /\ incr \in Incr \cup {NoIncr}
    /\ table \in Seq(Key) /\ hung \subseteq Requestor
    /\ event \in Dispatch \cup {NoEvent}
    /\ avail \in [Requestor -> Seq(BOOLEAN)]
    /\ asked \in [Key -> Call \cup {NotAsked}]
    /\ handlers \in [Requestor -> Seq(Key)]
    /\ todo \in [Requestor -> Todo \cup {Nothing}]
    /\ inCallback \in [Requestor -> 0..MaxRequest]
    /\ incrList \in [Requestor -> Seq(Collected)]
    /\ info \in [Key -> Info \cup {NoInfo}]
    /\ size \in [Key -> -1..MaxParts]
    /\ answers \in [Key -> Seq(Answer)]
    /\ done \in [Key -> Seq({"told", "timedOut"})] /\ crossed \subseteq Requestor

-----------------------------------------------------------------------------
(* The server's requests that both sides make.                              *)

\* A program that waits for increments has selected PropertyChange.
Asks(r, k) == asked[k] # NotAsked /\ asked[k].requestor = r
Watches(r) ==
    \E k \in Key :
        Asks(r, k) /\ info[k].at \in {"increments", "lateIncrements", "ended"}

\* ChangeProperty by the owner, and then events for the requestor
Change(r, a, v, events) ==
    /\ property' = [property EXCEPT ![r][a] = v]
    /\ toRequestor' =
        [toRequestor EXCEPT
            ![r] = @ \o (IF Watches(r) THEN <<[type |-> "newValue", atom |-> a]>>
                                       ELSE <<>>) \o events]

\* DeleteProperty, and GetProperty that deletes, by a requestor
Delete(r, a) ==
    /\ property' = [property EXCEPT ![r][a] = NoValue]
    /\ toOwner' = IF property[r][a] # NoValue /\ r \in hung
                  THEN Append(toOwner, [type |-> "deleted", window |-> r, atom |-> a])
                  ELSE toOwner

-----------------------------------------------------------------------------
(* Ownership.                                                               *)

\* The owner handles the next event or call once it is done with the last.
Ready == alive /\ event = NoEvent /\ asking = NotAsking

Owning(time, notify) ==
    [widget |-> TRUE, time |-> time, notify |-> notify,
     refcount |-> ctx.refcount + 1, handler |-> TRUE]

LostInPart ==                       \* mutant
    [ctx EXCEPT !.refcount = @ - 1, !.handler = @ /\ ctx.refcount = 1]

\* LoseSelection, when the widget has the selection; the test of refcount is the
\* code's.
Lost == [ctx EXCEPT !.widget = FALSE, !.refcount = @ - 1,
                    !.handler = @ /\ ctx.refcount = 1]

\* XtOwnSelection up to XSetSelectionOwner; it makes no request when the widget
\* has the selection, as far as it knows.
XtOwnSelection(notify) ==
    /\ Ready /\ now < MaxTime
    /\ now' = now + 1
    /\ IF ctx.widget
       THEN ctx' = Owning(now + 1, notify) /\ UNCHANGED <<owner, asking>>
       ELSE /\ owner' = "us"
            /\ asking' = [time |-> now + 1, notify |-> notify]
            /\ ctx' = ctx
    /\ UNCHANGED <<property, toOwner, toRequestor, alive, sendVars, askVars, history>>

\* and from XGetSelectionOwner.
OwnerAsked ==
    /\ asking # NotAsking
    /\ asking' = NotAsking
    /\ ctx' = IF owner = "us" THEN Owning(asking.time, asking.notify) ELSE ctx
    /\ UNCHANGED <<serverVars, alive, sendVars, askVars, history>>

DisownLocally ==                    \* mutant
    /\ Ready /\ ctx.widget
    /\ ctx' = Lost
    /\ UNCHANGED <<serverVars, alive, asking, sendVars, askVars, history>>

XtDisownSelection ==
    /\ Ready /\ ctx.widget
    /\ ctx' = Lost
    /\ owner' = "none"
    /\ UNCHANGED <<now, property, toOwner, toRequestor, alive, asking, sendVars,
                   askVars, history>>

\* Another program becomes the owner.
OtherOwns ==
    /\ now < MaxTime
    /\ now' = now + 1
    /\ owner' = "other"
    /\ toOwner' = IF owner = "us"
                  THEN Append(toOwner, [type |-> "clear", time |-> now + 1])
                  ELSE toOwner
    /\ UNCHANGED <<property, toRequestor, ownVars, sendVars, askVars, history>>

OwnerReads(type) == Ready /\ toOwner # <<>> /\ Head(toOwner).type = type

SelectionClear ==
    /\ OwnerReads("clear")
    /\ toOwner' = Tail(toOwner)
    /\ ctx' = IF ctx.handler /\ ctx.widget /\ Head(toOwner).time >= ctx.time
              THEN Lost ELSE ctx
    /\ UNCHANGED <<owner, now, property, toRequestor, alive, asking, sendVars,
                   askVars, history>>

-----------------------------------------------------------------------------
(* The owner's side of a transfer.                                          *)

\* AddHandler: a window that is known to the toolkit gets no second handler.
AddHandler(r, k) ==
    IF r \in hung
    THEN UNCHANGED <<hung, table>>
    ELSE hung' = hung \cup {r} /\ table' = <<k>> \o table

\* RemoveHandler: raw handlers stay unless the window is known.
RemoveHandler(r, k) ==
    IF r \in hung
    THEN hung' = hung \ {r} /\ table' = RemoveFirst(table, k)
    ELSE UNCHANGED <<hung, table>>

NewRec(e, notify, allSent) ==
    [key |-> e.key, window |-> e.window, atom |-> e.atom, notify |-> notify,
     allSent |-> allSent, timer |-> TRUE, freed |-> FALSE]

Reply(type, e, a) == <<[type |-> type, time |-> e.time, atom |-> a]>>

\* A SelectionRequest event that finds no handler is not answered.
SelectionIgnored ==
    /\ OwnerReads("request") /\ ~ctx.handler
    /\ toOwner' = Tail(toOwner)
    /\ UNCHANGED <<owner, now, property, toRequestor, ownVars, sendVars, askVars,
                   history>>

\* The widget has lost the selection, took it later, or will not convert it.
Refuse ==
    /\ OwnerReads("request") /\ ctx.handler
    /\ toOwner' = Tail(toOwner)
    /\ LET e == Head(toOwner)
       IN  toRequestor' = [toRequestor EXCEPT ![e.window] = @ \o Reply("refused", e, 0)]
    /\ UNCHANGED <<owner, now, property, ownVars, sendVars, askVars, history>>

Converts(e) == ctx.handler /\ ctx.widget /\ e.time >= ctx.time

\* GetConversion of a value that is sent at once
Convert ==
    /\ OwnerReads("request")
    /\ LET e == Head(toOwner)
       IN  /\ Converts(e)
           /\ toOwner' = Tail(toOwner)
           /\ size' = [size EXCEPT ![e.key] = 0]
           /\ IF ctx.notify
              THEN /\ recs' = recs \cup {NewRec(e, TRUE, TRUE)}
                   /\ AddHandler(e.window, e.key)
              ELSE UNCHANGED <<recs, table, hung>>
           /\ Change(e.window, e.atom, Stored("value", e.key, 0),
                     Reply("converted", e, e.atom))
    /\ UNCHANGED <<owner, now, ownVars, incr, event, askVars, answers, done, crossed>>

\* and of one that is sent in n parts.  (PrepareIncremental does not set prev of
\* the old head of incrList, so that who takes a record out takes out the head,
\* whichever it frees.  Owners are left out that have two such transfers.)
ConvertIncremental(n) ==
    /\ OwnerReads("request") /\ incr = NoIncr
    /\ LET e == Head(toOwner)
       IN  /\ Converts(e)
           /\ toOwner' = Tail(toOwner)
           /\ size' = [size EXCEPT ![e.key] = n]
           /\ incr' = [key |-> e.key, window |-> e.window, atom |-> e.atom,
                       offset |-> 0, total |-> n]
           /\ recs' = recs \cup {NewRec(e, ctx.notify, FALSE)}
           /\ AddHandler(e.window, e.key)
           /\ Change(e.window, e.atom, Stored("INCR", e.key, 0),
                     Reply("increments", e, e.atom))
    /\ UNCHANGED <<owner, now, ownVars, event, askVars, answers, done, crossed>>

\* A PropertyNotify event goes to all handlers of the widget its window is hung
\* onto.
DispatchDeleted ==
    /\ OwnerReads("deleted")
    /\ toOwner' = Tail(toOwner)
    /\ LET e == Head(toOwner)
       IN  event' = IF e.window \in hung /\ table # <<>>
                    THEN [window |-> e.window, atom |-> e.atom, keys |-> table]
                    ELSE NoEvent
    /\ UNCHANGED <<owner, now, property, toRequestor, ownVars, recs, incr, table,
                   hung, askVars, history>>

\* XtFree of a record.  A handler that stays is called with it all the same.
FreeRec(rec) ==
    recs' = (recs \ {rec}) \cup
                {f \in {[rec EXCEPT !.freed = TRUE, !.timer = FALSE]} :
                    Contains(table', rec.key)}

FindIncrOfAtom(r, a) == incr # NoIncr /\ incr.atom = a      \* mutant

FindIncr(r, a) == incr # NoIncr /\ incr.window = r /\ incr.atom = a

Tell(rec, how) ==
    done' = IF rec.notify THEN [done EXCEPT ![rec.key] = Append(@, how)] ELSE done

SendIncrement ==
    /\ Change(incr.window, incr.atom, Stored("value", incr.key, incr.offset + 1),
              <<>>)
    /\ incr' = [incr EXCEPT !.offset = @ + 1]

AllSent ==
    /\ Change(incr.window, incr.atom, Stored("end", incr.key, 0), <<>>)
    /\ incr' = NoIncr

\* The next of the handlers that are called for an event.  It looks at the
\* property, not at the window.  If its record was freed, the memory may be as it
\* was, or hold something else.
HandlePropertyGone ==
    /\ event # NoEvent
    /\ event' = IF Len(event.keys) = 1 THEN NoEvent
                ELSE [event EXCEPT !.keys = Tail(@)]
    /\ \/ /\ \A rec \in recs : rec.key = Head(event.keys)
                                    => rec.freed \/ rec.atom # event.atom
          /\ UNCHANGED <<property, toRequestor, recs, incr, table, hung, done>>
       \/ \E rec \in recs :
            /\ rec.key = Head(event.keys) /\ rec.atom = event.atom
            /\ \/ /\ rec.allSent
                  /\ Tell(rec, "told")
                  /\ RemoveHandler(event.window, rec.key)
                  /\ FreeRec(rec)
                  /\ UNCHANGED <<property, toRequestor, incr>>
               \/ /\ ~rec.allSent /\ ~FindIncr(event.window, event.atom)
                  /\ recs' = (recs \ {rec}) \cup {[rec EXCEPT !.timer = FALSE]}
                  /\ UNCHANGED <<property, toRequestor, incr, table, hung, done>>
               \/ /\ ~rec.allSent /\ FindIncr(event.window, event.atom)
                  /\ recs' = (recs \ {rec}) \cup
                        {[rec EXCEPT !.timer = TRUE,
                                     !.allSent = incr.offset = incr.total]}
                  /\ IF incr.offset < incr.total THEN SendIncrement ELSE AllSent
                  /\ UNCHANGED <<table, hung, done>>
    /\ UNCHANGED <<owner, now, toOwner, ownVars, askVars, size, answers, crossed>>

TimeoutKeepsIncrement(rec) ==       \* mutant
    /\ Ready /\ rec.timer
    /\ incr' = incr
    /\ Tell(rec, "timedOut")
    /\ RemoveHandler(rec.window, rec.key)
    /\ FreeRec(rec)
    /\ UNCHANGED <<serverVars, ownVars, event, askVars, size, answers, crossed>>

OwnerTimedOut(rec) ==
    /\ Ready /\ rec.timer
    /\ incr' = IF FindIncr(rec.window, rec.atom) THEN NoIncr ELSE incr
    /\ Tell(rec, "timedOut")
    /\ RemoveHandler(rec.window, rec.key)
    /\ FreeRec(rec)
    /\ UNCHANGED <<serverVars, ownVars, event, askVars, size, answers, crossed>>

\* The program ends, and the server forgets what it owned and selected.
OwnerDies ==
    /\ alive /\ alive' = FALSE
    /\ owner' = IF owner = "us" THEN "none" ELSE owner
    /\ toOwner' = <<>> /\ recs' = {} /\ incr' = NoIncr
    /\ table' = <<>> /\ hung' = {} /\ event' = NoEvent /\ asking' = NotAsking
    /\ ctx' = NoCtx
    /\ UNCHANGED <<now, property, toRequestor, askVars, history>>

-----------------------------------------------------------------------------
(* The requestor's side.                                                    *)

\* GetSelectionProperty: the first that is available, or a new one
PropertyOf(r) ==
    LET free == {a \in DOMAIN avail[r] : avail[r][a]}
    IN  IF free = {} THEN Len(avail[r]) + 1
        ELSE CHOOSE a \in free : \A b \in free : a <= b
Taken(r) ==
    LET a == PropertyOf(r)
    IN  IF a > Len(avail[r]) THEN Append(avail[r], FALSE)
                             ELSE [avail[r] EXCEPT ![a] = FALSE]

\* The program handles the next event, or a timeout, once it is done with the last.
Waits(r) == todo[r] = Nothing /\ inCallback[r] = 0

\* A program asks, when it handles an event of its own or in a callback, with the
\* time of an event of its own, or again with that of an earlier call.
Times(r) ==
    {n \in {now + 1} : n <= MaxTime} \cup
        {asked[j].time : j \in {i \in Key : Asks(r, i)}}

XtGetSelectionValue(r, k, time) ==
    /\ Waits(r) \/ inCallback[r] # 0
    /\ asked[k] = NotAsked /\ \A j \in 1..k - 1 : asked[j] # NotAsked
    /\ asked' = [asked EXCEPT ![k] = [requestor |-> r, time |-> time]]
    /\ crossed' = IF \E j \in Key : /\ Asks(r, j) /\ asked[j].time = time
                                    /\ info[j].at \in {"replies", "lateReplies"}
                  THEN crossed \cup {r} ELSE crossed
    /\ now' = IF time > now THEN time ELSE now
    /\ info' = [info EXCEPT ![k] = [atom |-> PropertyOf(r), at |-> "replies",
                                    timer |-> TRUE]]
    /\ handlers' = [handlers EXCEPT ![r] = <<k>> \o @]
    /\ avail' = [avail EXCEPT ![r] = Taken(r)]
    /\ LET e == [type |-> "request", key |-> k, window |-> r, atom |-> PropertyOf(r),
                 time |-> time]
       IN  \/ owner = "us" /\ toOwner' = Append(toOwner, e) /\ UNCHANGED toRequestor
           \/ /\ owner # "us"
              /\ toRequestor' = [toRequestor EXCEPT ![r] = @ \o Reply("refused", e, 0)]
              /\ UNCHANGED toOwner
           \/ owner = "other" /\ UNCHANGED <<toOwner, toRequestor>>
    /\ UNCHANGED <<owner, property, ownVars, sendVars, todo, inCallback, incrList,
                   size, answers, done>>

MatchAnyTime(e, k) ==               \* mutant
    IF e.type = "newValue"
    THEN info[k].at \in {"increments", "lateIncrements"} /\ info[k].atom = e.atom
    ELSE /\ info[k].at \in {"replies", "lateReplies"}
         /\ e.type = "increments" => e.atom = info[k].atom

\* MATCH_SELECT for a SelectionNotify event, and the test of a PropertyNotify event.
\* Nothing but time, requestor and target tells one call from another.
Match(e, k) ==
    IF e.type = "newValue"
    THEN info[k].at \in {"increments", "lateIncrements"} /\ info[k].atom = e.atom
    ELSE /\ info[k].at \in {"replies", "lateReplies"}
         /\ e.time = asked[k].time
         /\ e.type = "increments" => e.atom = info[k].atom

\* DispatchEvent: which handlers are called is decided before the first is.
DispatchEvent(r) ==
    /\ Waits(r) /\ toRequestor[r] # <<>>
    /\ toRequestor' = [toRequestor EXCEPT ![r] = Tail(@)]
    /\ LET e    == Head(toRequestor[r])
           keys == {k \in Key : Asks(r, k) /\ info[k] # NoInfo /\ Match(e, k)}
       IN  todo' = [todo EXCEPT ![r] = IF keys = {} THEN Nothing
                                       ELSE [event |-> e, keys |-> keys]]
    /\ UNCHANGED <<owner, now, property, toOwner, ownVars, sendVars, avail, asked,
                   info, handlers, inCallback, incrList, history>>

\* The newest of the handlers that are still to be called
Newest(r, k) ==
    /\ k \in todo[r].keys
    /\ \A i, j \in DOMAIN handlers[r] :
          handlers[r][i] = k /\ handlers[r][j] \in todo[r].keys => i <= j

\* The event is handled for call k: by handler "at", if it has the right type.
Handle(r, k, at, types) ==
    /\ inCallback[r] = 0 /\ Newest(r, k)
    /\ info[k].at = at /\ todo[r].event.type \in types
    /\ LET rest == todo[r].keys \ {k}
       IN  todo' = [todo EXCEPT ![r] = IF rest = {} THEN Nothing
                                       ELSE [@ EXCEPT !.keys = rest]]
    /\ UNCHANGED <<owner, now, toRequestor, ownVars, sendVars, asked, size, done,
                   crossed>>

\* The callback of call k is called.
Return(r, k, outcome, parts) ==
    /\ answers' = [answers EXCEPT ![k] =
                      Append(@, [outcome |-> outcome, parts |-> parts])]
    /\ inCallback' = [inCallback EXCEPT ![r] = k]

\* The handler of call k is registered anew.
ToFront(r, k) ==
    handlers' = [handlers EXCEPT ![r] = <<k>> \o RemoveFirst(@, k)]

\* HandleSelectionReplies removes the timer and the handler before the callback.
HandleNone(r, k) ==
    /\ Handle(r, k, "replies", {"refused"})
    /\ Return(r, k, "none", <<>>)
    /\ info' = [info EXCEPT ![k].at = "answered", ![k].timer = FALSE]
    /\ UNCHANGED <<property, toOwner, avail, handlers, incrList>>

HandleNormal(r, k) ==
    /\ Handle(r, k, "replies", {"converted"})
    /\ LET a == todo[r].event.atom
           v == property[r][a]
       IN  /\ IF v = NoValue THEN Return(r, k, "none", <<>>)
                             ELSE Return(r, k, "value", <<v>>)
           /\ Delete(r, a)
    /\ info' = [info EXCEPT ![k].at = "answered", ![k].timer = FALSE]
    /\ UNCHANGED <<avail, handlers, incrList>>

\* A new record for increments, at the head of the list
Collects(r, a) ==
    incrList' = [incrList EXCEPT ![r] = <<[atom |-> a, parts |-> <<>>]>> \o @]

IncrementalUntimed(r, k) ==         \* mutant
    /\ Handle(r, k, "replies", {"increments"})
    /\ info' = [info EXCEPT ![k].at = "increments", ![k].timer = FALSE]
    /\ ToFront(r, k)
    /\ Delete(r, info[k].atom)
    /\ Collects(r, info[k].atom)
    /\ UNCHANGED <<avail, inCallback, answers>>

HandleIncremental(r, k) ==
    /\ Handle(r, k, "replies", {"increments"})
    /\ info' = [info EXCEPT ![k].at = "increments", ![k].timer = TRUE]
    /\ ToFront(r, k)
    /\ Delete(r, info[k].atom)
    /\ Collects(r, info[k].atom)
    /\ UNCHANGED <<avail, inCallback, answers>>

\* FindIncr on the requestor's side: the newest record of the property
IsIncr(r, a, i) ==
    /\ i \in DOMAIN incrList[r] /\ incrList[r][i].atom = a
    /\ \A j \in 1..i - 1 : incrList[r][j].atom # a
NoIncrOf(r, a) == \A i \in DOMAIN incrList[r] : incrList[r][i].atom # a

\* No value, or one without elements
Empty(v) == v = NoValue \/ v.type = "end"

\* An increment is collected.  The last, empty one ends the transfer; the record
\* the others were collected in stays in the list.
HandleGetIncrement(r, k) ==
    /\ Handle(r, k, "increments", {"newValue"})
    /\ LET a == info[k].atom
           v == property[r][a]
       IN  \/ /\ NoIncrOf(r, a)
              /\ UNCHANGED <<property, toOwner, info, inCallback, incrList, answers>>
           \/ \E i \in DOMAIN incrList[r] :
                /\ IsIncr(r, a, i)
                /\ Delete(r, a)
                /\ IF Empty(v)
                   THEN /\ Return(r, k, "value", incrList[r][i].parts)
                        /\ info' = [info EXCEPT ![k].at = "ended", ![k].timer = FALSE]
                        /\ UNCHANGED incrList
                   ELSE /\ info' = [info EXCEPT ![k].timer = TRUE]
                        /\ incrList' = [incrList EXCEPT ![r][i].parts = Append(@, v)]
                        /\ UNCHANGED <<inCallback, answers>>
    /\ UNCHANGED <<avail, handlers>>

\* The CallBackInfo is freed, and its property is available again.
Free(r, k) ==
    /\ info' = [info EXCEPT ![k] = NoInfo]
    /\ avail' = [avail EXCEPT ![r][info[k].atom] = TRUE]
    /\ handlers' = [handlers EXCEPT ![r] = RemoveFirst(@, k)]

\* ReqCleanup of an answer that came too late
CleanupReply(r, k) ==
    /\ Handle(r, k, "lateReplies", {"refused", "converted"})
    /\ IF todo[r].event.type = "converted" THEN Delete(r, todo[r].event.atom)
                                           ELSE UNCHANGED <<property, toOwner>>
    /\ Free(r, k)
    /\ UNCHANGED <<inCallback, incrList, answers>>

CleanupIncremental(r, k) ==
    /\ Handle(r, k, "lateReplies", {"increments"})
    /\ info' = [info EXCEPT ![k].at = "lateIncrements"]
    /\ ToFront(r, k)
    /\ UNCHANGED <<property, toOwner, avail, inCallback, incrList, answers>>

CleanupIncrement(r, k) ==
    /\ Handle(r, k, "lateIncrements", {"newValue"})
    /\ Delete(r, info[k].atom)
    /\ IF Empty(property[r][info[k].atom]) THEN Free(r, k)
                                           ELSE UNCHANGED <<info, avail, handlers>>
    /\ UNCHANGED <<inCallback, incrList, answers>>

\* ReqTimedOut up to the callback
ReqTimedOut(r, k) ==
    /\ Waits(r) /\ Asks(r, k) /\ info[k] # NoInfo /\ info[k].timer
    /\ Return(r, k, "failed", <<>>)
    /\ info' = [info EXCEPT ![k].timer = FALSE]
    /\ UNCHANGED <<serverVars, ownVars, sendVars, avail, asked, handlers, todo,
                   incrList, size, done, crossed>>

\* The callback returns to HandleSelectionReplies or HandleGetIncrement,
FinishAnswer(r, k) ==
    /\ inCallback[r] = k /\ info[k].at \in {"answered", "ended"}
    /\ Free(r, k)
    /\ inCallback' = [inCallback EXCEPT ![r] = 0]
    /\ UNCHANGED <<serverVars, ownVars, sendVars, asked, todo, incrList, history>>

FreedAtTimeout(r, k) ==             \* mutant
    /\ inCallback[r] = k /\ info[k].at \in {"replies", "increments"}
    /\ Free(r, k)
    /\ inCallback' = [inCallback EXCEPT ![r] = 0]
    /\ UNCHANGED <<serverVars, ownVars, sendVars, asked, todo, incrList, history>>

TimeoutKeepsWaiting(r, k) ==        \* mutant
    /\ inCallback[r] = k /\ info[k].at \in {"replies", "increments"}
    /\ inCallback' = [inCallback EXCEPT ![r] = 0]
    /\ UNCHANGED <<serverVars, ownVars, sendVars, avail, asked, info, handlers, todo,
                   incrList, history>>

\* or to ReqTimedOut.  The call goes on waiting for its answer, with ReqCleanup;
\* what it has collected is dropped, or what another call has left in the list
\* under the name of its property.
FinishTimeout(r, k) ==
    /\ inCallback[r] = k /\ info[k].at \in {"replies", "increments"}
    /\ LET a == info[k].atom
       IN  \/ NoIncrOf(r, a) /\ UNCHANGED incrList
           \/ \E i \in DOMAIN incrList[r] :
                /\ IsIncr(r, a, i)
                /\ incrList' = [incrList EXCEPT ![r] = RemoveAt(@, i)]
    /\ info' = [info EXCEPT
                    ![k].at = IF @ = "replies" THEN "lateReplies" ELSE "lateIncrements"]
    /\ ToFront(r, k)
    /\ inCallback' = [inCallback EXCEPT ![r] = 0]
    /\ UNCHANGED <<serverVars, ownVars, sendVars, avail, asked, todo, history>>

-----------------------------------------------------------------------------
Init ==
    /\ owner = "none" /\ now = 0
    /\ property = [r \in Requestor |-> [a \in Atom |-> NoValue]]
    /\ toOwner = <<>> /\ toRequestor = [r \in Requestor |-> <<>>]
    /\ alive = TRUE /\ asking = NotAsking
    /\ ctx = NoCtx
    /\ recs = {} /\ incr = NoIncr /\ table = <<>> /\ hung = {} /\ event = NoEvent
    /\ avail = [r \in Requestor |-> <<>>]
    /\ asked = [k \in Key |-> NotAsked] /\ info = [k \in Key |-> NoInfo]
    /\ handlers = [r \in Requestor |-> <<>>] /\ todo = [r \in Requestor |-> Nothing]
    /\ inCallback = [r \in Requestor |-> 0] /\ incrList = [r \in Requestor |-> <<>>]
    /\ size = [k \in Key |-> -1]
    /\ answers = [k \in Key |-> <<>>] /\ done = [k \in Key |-> <<>>]
    /\ crossed = {}

OwnerHandles ==
    \/ OwnerAsked \/ SelectionClear
    \/ SelectionIgnored \/ Refuse \/ Convert
    \/ \E n \in 1..MaxParts : ConvertIncremental(n)
    \/ DispatchDeleted \/ HandlePropertyGone

\* What a program has begun, it goes on with.
RequestorProceeds(r) ==
    \E k \in Key :
        \/ HandleNone(r, k) \/ HandleNormal(r, k) \/ HandleIncremental(r, k)
        \/ HandleGetIncrement(r, k)
        \/ CleanupReply(r, k) \/ CleanupIncremental(r, k) \/ CleanupIncrement(r, k)
        \/ FinishAnswer(r, k) \/ FinishTimeout(r, k)

Environment ==
    \/ \E notify \in Notify : XtOwnSelection(notify)
    \/ XtDisownSelection \/ OtherOwns \/ OwnerDies
    \/ \E r \in Requestor, k \in Key :
          \E time \in Times(r) : XtGetSelectionValue(r, k, time)

OwnerTimer == \E rec \in recs : OwnerTimedOut(rec)
RequestorTimer == \E r \in Requestor, k \in Key : ReqTimedOut(r, k)

Next ==
    \/ Environment
    \/ OwnerHandles \/ OwnerTimer
    \/ \E r \in Requestor : DispatchEvent(r) \/ RequestorProceeds(r)
    \/ RequestorTimer

\* A program returns from the handlers and callbacks it has begun, and timers that
\* nobody removes run out.  That the programs read their events is not assumed.
Spec ==
    /\ Init /\ [][Next]_vars
    /\ WF_vars(\E r \in Requestor : RequestorProceeds(r))
    /\ WF_vars(RequestorTimer)

-----------------------------------------------------------------------------
(* Properties.                                                              *)

\* The callback of a call of XtGetSelectionValue is called once: whichever of an
\* answer, its increments and the timeout comes first, what comes later is dropped,
\* whatever other calls are under way.
AnsweredOnce == \A k \in Key : Len(answers[k]) <= 1

\* A value that a call is given is the whole value the owner has converted for this
\* call, however calls of several programs, late answers and timeouts of both sides
\* interleave.  This holds in programs that do not ask with the time of a call that
\* still waits for its answer; those that do may be given the answer to the other.
Whole(k) == IF size[k] = 0 THEN <<Stored("value", k, 0)>>
            ELSE [i \in 1..size[k] |-> Stored("value", k, i)]
ValueIsWhole ==
    \A k \in Key : asked[k] # NotAsked /\ asked[k].requestor \notin crossed =>
        \A i \in DOMAIN answers[k] :
            answers[k][i].outcome = "value" => answers[k][i].parts = Whole(k)

\* A property name that is available again in such a program is not used by an
\* earlier call any more: nothing is stored under it, no call waits for it, no
\* request names it, and the owner has nothing left to store.
PropertyIsFree ==
    \A r \in Requestor \ crossed : \A a \in DOMAIN avail[r] : avail[r][a] =>
        /\ property[r][a] = NoValue
        /\ \A k \in Key : Asks(r, k) /\ info[k] # NoInfo => info[k].atom # a
        /\ \A i \in DOMAIN toOwner : toOwner[i].type = "request" =>
                <<toOwner[i].window, toOwner[i].atom>> # <<r, a>>
        /\ \A rec \in recs :
                <<rec.window, rec.atom>> = <<r, a>> => rec.allSent \/ rec.freed

\* The owner stores nothing over what such a program has not fetched yet: although
\* its handlers are called for each other's windows, the next increment is sent
\* when the last one was deleted, and not for another window's event.
NothingOverwritten ==
    [][\A r \in Requestor \ crossed, a \in Atom :
        \/ property'[r][a] = property[r][a]
        \/ property[r][a] = NoValue \/ property'[r][a] = NoValue]_vars

\* An increment that is still to be sent has a record whose timer or next event
\* ends it: no timeout, in the middle of whichever transfer, frees the record and
\* leaves the increment, which would be sent to a later call of the same name.
IncrementHasRecord ==
    incr # NoIncr =>
        \E rec \in recs :
            /\ rec.key = incr.key /\ rec.window = incr.window /\ rec.atom = incr.atom
            /\ ~rec.freed /\ ~rec.allSent

\* Again and again no call waits for its callback: every call is answered, whatever
\* becomes of the owner and of the answers to other calls.
Waiting(k) == info[k] # NoInfo /\ answers[k] = <<>>
EveryCallAnswered == []<>(\A k \in Key : ~Waiting(k))

\* The owner is told once that a conversion is done, and unless it has waited too
\* long, not before the requestor has fetched all of it.  (Of calls of programs that
\* do not ask with the time of a call that still waits.)
DoneAfterTransfer ==
    \A k \in Key : asked[k] # NotAsked /\ asked[k].requestor \notin crossed =>
        /\ Len(done[k]) <= 1
        /\ Contains(done[k], "told") =>
            /\ answers[k] # <<>>
            /\ \A r \in Requestor, a \in Atom : property[r][a].key # k

\* The server's owner is a widget that thinks it is the owner and will answer, or
\* is about to learn it.
OwnerAnswers ==
    owner = "us" => (ctx.widget /\ ctx.handler) \/ asking # NotAsking

=============================================================================
