----------------------------- MODULE DeviceGrabs -----------------------------
(***************************************************************************)
(* Active and passive grabs of the keyboard and the pointer, the freezing   *)
(* of devices by synchronous grabs, the queue of frozen events and its      *)
(* replay (dix/events.c), and what the end of a client or of a window does   *)
(* to them (dispatch.c, window.c, resource.c).                              *)
(*                                                                          *)
(* The server is one thread: a request or a hardware event runs to its end   *)
(* before the next.  A run is split where events.c calls PlayReleasedEvents, *)
(* which processes queued events one by one inside whatever changed a        *)
(* freeze: "todo" is what is left of the calls in progress, the innermost    *)
(* first, and is empty between requests.                                    *)
(*                                                                          *)
(* Abstractions.  Windows form a chain from the root, and the pointer is in  *)
(* the deepest viewable one.  The focus is PointerRoot, as at startup.  No    *)
(* key is a modifier and a passive grab names one key or button (module       *)
(* PassiveGrabs has the rest of the matching).  Times are left out: a         *)
(* request's time is acceptable.  sync.other points to the static GrabRec of  *)
(* the other device, so it is a Boolean.  A grab's event mask has the presses  *)
(* and releases, and no grab confines the pointer.                           *)
(***************************************************************************)
EXTENDS Integers, Sequences, SequencesExt

CONSTANTS
    Client,         \* clients
    Depth,          \* windows are 1..Depth, 1 the root, w + 1 a child of w
    Key, Button,    \* what can be pressed on each device
    Repeating,      \* keys the hardware repeats while they are held
    ActiveGrab,     \* the GrabPointer and GrabKeyboard requests clients make
    PassiveGrab,    \* the GrabButton and GrabKey requests they make
    Owner,          \* per window below the root: the client that created it
    Listener,       \* per window: the client that selects ButtonPress
    CloseDownModes, \* close down modes clients set
    MaxQueue,       \* bound: hardware is still while so many events are queued
    Nobody          \* no client

Window == 1..Depth
Device == {"keyboard", "pointer"}
Other(d) == IF d = "keyboard" THEN "pointer" ELSE "keyboard"
On(d) == IF d = "keyboard" THEN Key ELSE Button
Mode == {"sync", "async"}

Event ==
    [dev : {"keyboard"}, type : {"press", "release"}, detail : Key]
        \cup [dev : {"pointer"}, type : {"press", "release"}, detail : Button]
        \cup [dev : {"pointer"}, type : {"motion"}, detail : {Nobody}]
NoEvent == [dev |-> "none", type |-> "none", detail |-> Nobody]

\* "how" and "late" are history: the grab was asked for, or began with a press
\* in a passive or automatic grab, or when an event was replayed; and its client
\* was being closed down, or gone, when it began.
Grab == [client : Client, window : Window, mode : Mode, otherMode : Mode,
         how : {"active", "passive", "replay"}, late : BOOLEAN]
NoGrab == [client |-> Nobody]

ASSUME DeviceGrabsAssumption ==
    /\ Nobody \notin Client
    /\ Depth \in Nat \ {0} /\ MaxQueue \in Nat
    /\ Key \cap Button = {} /\ Repeating \subseteq Key
    /\ ActiveGrab \subseteq [dev : Device, client : Client, window : Window,
                             mode : Mode, otherMode : Mode]
    /\ PassiveGrab \subseteq [detail : Key \cup Button, client : Client,
                              window : Window, mode : Mode, otherMode : Mode]
    /\ Owner \in [2..Depth -> Client]
    /\ Listener \in [Window -> Client \cup {Nobody}]
    /\ CloseDownModes \subseteq {"DestroyAll", "Retain"}

VARIABLES
    dev,        \* per device: grab and sync of its DeviceIntRec
    down,       \* keys and buttons that are logically down
    activator,  \* keyThatActivatedPassiveGrab
    queue,      \* syncEvents.pending
    todo,       \* the calls in progress, see above
    passive,    \* the passive grabs of all windows
    held,       \* keys and buttons that are physically down
    connected,  \* clients with a connection
    retained,   \* clients that are gone and whose resources are retained
    viewable,   \* windows 1..viewable are viewable
    exists,     \* windows 1..exists exist
    sprite      \* spriteTraceGood: the pointer is in window sprite

inputVars  == <<dev, down, activator, queue, todo>>
clientVars == <<connected, retained>>
windowVars == <<viewable, exists, sprite>>
vars == <<inputVars, clientVars, windowVars, passive, held>>

Frozen == {"FROZEN_NO_EVENT", "FROZEN_WITH_EVENT"}      \* state >= FROZEN
SyncState == Frozen \cup {"NOT_GRABBED", "THAWED", "FREEZE_NEXT_EVENT",
                          "FREEZE_BOTH_NEXT_EVENT"}

\* The fields grab and sync of a DeviceIntRec; "auto" is its passiveGrab or
\* autoReleaseGrab
DeviceState ==
    [grab : Grab \cup {NoGrab}, state : SyncState, other : BOOLEAN,
     frozen : BOOLEAN, event : Event \cup {NoEvent}, auto : BOOLEAN]

\* See "The calls in progress" below.
CallInProgress ==
    [call : {"play"}, at : Nat \ {0}]
        \cup [call : {"process", "passive"}, event : Event]
        \cup [call : {"release"}, client : Client, dev : Device]
        \cup [call : {"close"}, client : Client, mode : CloseDownModes \cup {"Kill"}]
        \cup [call : {"ungrab"}, client : Client]
        \cup [call : {"delete"}, window : 2..Depth, dev : Device]
        \cup [call : {"destroy", "freed"}, window : 2..Depth]
        \cup [call : {"restructured"}]

TypeOK ==
    /\ dev \in [Device -> DeviceState]
    /\ down \subseteq Key \cup Button /\ held \subseteq Key \cup Button
    /\ activator \in Key \cup {Nobody}
    /\ queue \in Seq(Event) /\ todo \in Seq(CallInProgress)
    /\ passive \subseteq PassiveGrab
    /\ connected \subseteq Client /\ retained \subseteq Client \ connected
    /\ exists \in Window /\ viewable \in 1..exists /\ sprite \in Window

-----------------------------------------------------------------------------
(* The two devices, D, after each of the helpers of events.c.               *)

Grabbed(D, d, c) == D[d].grab # NoGrab /\ D[d].grab.client = c

\* ComputeFreezes, its first assignments.  (sync.event is forgotten here once
\* the state says that nobody will read it.)
Recomputed(D) ==
    [d \in Device |->
        [D[d] EXCEPT
            !.frozen = D[d].other \/ D[d].state \in Frozen,
            !.event = IF D[d].state = "FROZEN_WITH_EVENT" THEN @ ELSE NoEvent]]

\* otherDev->sync.other is the address of the GrabRec that has just been
\* overwritten, so its client is always the grabbing one.
CheckedForSyncs(D, d, g) ==
    LET sameClient == D[d].other /\ Grabbed(D, Other(d), g.client)
    IN  [D EXCEPT
          ![d].state = IF g.mode = "sync" THEN "FROZEN_NO_EVENT" ELSE "THAWED",
          ![d].other = @ /\ ~(g.mode = "async" /\ sameClient),
          ![Other(d)].other = g.otherMode = "sync"]

\* ActivatePointerGrab, ActivateKeyboardGrab
Activated(D, d, g, auto) ==
    Recomputed(CheckedForSyncs([D EXCEPT ![d].grab = g, ![d].auto = auto], d, g))

DeactivatedKeepingOther(D, d) ==    \* mutant
    Recomputed([D EXCEPT ![d].grab = NoGrab, ![d].state = "NOT_GRABBED",
                         ![d].auto = FALSE])

\* DeactivatePointerGrab, DeactivateKeyboardGrab
Deactivated(D, d) ==
    Recomputed([D EXCEPT ![d].grab = NoGrab, ![d].state = "NOT_GRABBED",
                         ![d].auto = FALSE, ![Other(d)].other = FALSE])

\* The end of CheckPassiveGrabsOnWindow
FrozenWithEvent(D, d, e) ==
    IF D[d].state = "FROZEN_NO_EVENT"
    THEN [D EXCEPT ![d].event = e, ![d].state = "FROZEN_WITH_EVENT"]
    ELSE D

\* DeliverGrabbedEvent: the client gets the event, through the window that
\* selects it (ownerEvents) or else through the grab, unless it is gone.
DeliveredToGrab(D, d, e) ==
    LET o     == Other(d)
        state == D[d].state
        sleep == [D EXCEPT ![d].state = "FROZEN_WITH_EVENT",
                           ![d].frozen = TRUE, ![d].event = e]
        both  == /\ D[o].state = "FREEZE_BOTH_NEXT_EVENT"
                 /\ Grabbed(D, o, D[d].grab.client)
    IN  IF D[d].grab.client \notin connected THEN D
        ELSE IF state = "FREEZE_NEXT_EVENT" THEN sleep
        ELSE IF state # "FREEZE_BOTH_NEXT_EVENT" THEN D
        ELSE IF both
             THEN [sleep EXCEPT ![o].frozen = TRUE, ![o].state = "FROZEN_NO_EVENT"]
             ELSE [sleep EXCEPT ![o].frozen = TRUE, ![o].other = TRUE]

\* EnqueueEvent: motion overwrites motion at the tail
Enqueued(q, e) ==
    IF e.type = "motion" /\ q # <<>> /\ Last(q).type = "motion"
    THEN [q EXCEPT ![Len(q)] = e]
    ELSE Append(q, e)

-----------------------------------------------------------------------------
(* The calls in progress.                                                   *)

PlayFrom(i)        == [call |-> "play", at |-> i]
Process(e)         == [call |-> "process", event |-> e]
FinishPassive(e)   == [call |-> "passive", event |-> e]
Release(c, d)      == [call |-> "release", client |-> c, dev |-> d]
CloseDown(c, mode) == [call |-> "close", client |-> c, mode |-> mode]
FreePassive(c)     == [call |-> "ungrab", client |-> c]
Destroy(w)         == [call |-> "destroy", window |-> w]
DeleteFrom(w, d)   == [call |-> "delete", window |-> w, dev |-> d]
Restructured       == [call |-> "restructured"]
Freed(w)           == [call |-> "freed", window |-> w]

\* playingEvents: ComputeFreezes plays nothing inside a play.
Playing(rest) == \E i \in DOMAIN rest : rest[i].call = "play"
ThenPlay(rest) == IF Playing(rest) THEN rest ELSE <<PlayFrom(1)>> \o rest

-----------------------------------------------------------------------------
(* ProcessKeyboardEvent and ProcessPointerEvent on event e, when q is the    *)
(* queue without it and rest is what is left of the calls in progress.       *)

EnqueueEvent(e, q, rest) ==
    /\ dev[e.dev].frozen
    /\ queue' = Enqueued(q, e)
    /\ todo' = rest
    /\ UNCHANGED <<dev, down, activator>>

\* "allow ddx to generate multiple downs": a press of a key that is down is
\* processed as a release and a press.
RepeatKey(e, q, rest) ==
    /\ ~dev[e.dev].frozen
    /\ e.type = "press" /\ e.dev = "keyboard" /\ e.detail \in down
    /\ todo' = <<Process([e EXCEPT !.type = "release"]), Process(e)>> \o rest
    /\ queue' = q
    /\ UNCHANGED <<dev, down, activator>>

\* "guard against duplicates"
IgnoreRelease(e, q, rest) ==
    /\ ~dev[e.dev].frozen
    /\ e.type = "release" /\ e.dev = "keyboard" /\ e.detail \notin down
    /\ queue' = q /\ todo' = rest
    /\ UNCHANGED <<dev, down, activator>>

\* A press that is processed as one, and is not a repetition
Pressed(e, q) ==
    /\ ~dev[e.dev].frozen
    /\ e.type = "press" /\ ~(e.dev = "keyboard" /\ e.detail \in down)
    /\ down' = down \cup {e.detail}
    /\ queue' = q

\* CheckDeviceGrabs: the first passive grab from window "from" down to the
\* pointer's; it never looks at the event's type.
Matching(e, from) ==
    {p \in passive : p.detail = e.detail /\ p.window \in from..sprite}
FirstMatch(e, from) ==
    {p \in Matching(e, from) : \A r \in Matching(e, from) : p.window <= r.window}
Late(c) ==
    \/ c \notin connected
    \/ \E i \in DOMAIN todo : todo[i].call = "close" /\ todo[i].client = c
GrabOf(p, how) == [client |-> p.client, window |-> p.window, mode |-> p.mode,
                   otherMode |-> p.otherMode, how |-> how, late |-> Late(p.client)]

\* A press starts a passive grab.  The grab is activated, which may play
\* queued events, before the press is delivered and noted.
StartPassiveGrab(e, q, rest) ==
    /\ Pressed(e, q)
    /\ dev[e.dev].grab = NoGrab
    /\ \E p \in FirstMatch(e, 1) :
        LET D == Activated(dev, e.dev, GrabOf(p, "passive"), TRUE)
        IN  IF Playing(rest)
            THEN /\ dev' = FrozenWithEvent(D, e.dev, e)
                 /\ activator' = IF e.dev = "keyboard" THEN e.detail ELSE activator
                 /\ todo' = rest
            ELSE /\ dev' = D
                 /\ todo' = <<PlayFrom(1), FinishPassive(e)>> \o rest
                 /\ UNCHANGED activator

\* DeliverDeviceEvents goes up from the pointer's window to the first window
\* with a client that gets the event; a button press starts a grab for it.
Receivers == {w \in 1..sprite : Listener[w] \in connected}
AutomaticGrab(w, how) ==
    [client |-> Listener[w], window |-> w,
     mode |-> "async", otherMode |-> "async", how |-> how,
     late |-> Late(Listener[w])]
AutomaticGrabs(e, how) ==
    {AutomaticGrab(w, how) : w \in
        {x \in Receivers : /\ e.type = "press" /\ e.dev = "pointer"
                           /\ \A y \in Receivers : y <= x}}

PressUngrabbed(e, q, rest) ==
    /\ Pressed(e, q)
    /\ dev[e.dev].grab = NoGrab /\ Matching(e, 1) = {}
    /\ \/ \E g \in AutomaticGrabs(e, "passive") :
            /\ dev' = Activated(dev, e.dev, g, TRUE)
            /\ todo' = ThenPlay(rest)
       \/ /\ AutomaticGrabs(e, "passive") = {}
          /\ dev' = dev
          /\ todo' = rest
    /\ UNCHANGED activator

PressGrabbed(e, q, rest) ==
    /\ Pressed(e, q)
    /\ dev[e.dev].grab # NoGrab
    /\ dev' = DeliveredToGrab(dev, e.dev, e)
    /\ todo' = rest
    /\ UNCHANGED activator

EndsGrabBeforeRelease(e) ==         \* mutant
    /\ dev[e.dev].auto
    /\ IF e.dev = "keyboard" THEN e.detail = activator
                             ELSE down \cap Button = {}

\* A release that ends a passive or automatic grab: deactivateGrab
EndsGrab(e) ==
    /\ dev[e.dev].auto
    /\ IF e.dev = "keyboard" THEN e.detail = activator
                             ELSE (down \ {e.detail}) \cap Button = {}

Released(e, q, rest) ==
    /\ ~dev[e.dev].frozen
    /\ e.type = "release" /\ (e.dev = "pointer" \/ e.detail \in down)
    /\ down' = down \ {e.detail}
    /\ queue' = q
    /\ UNCHANGED activator
    /\ \/ /\ EndsGrab(e)
          /\ dev' = Deactivated(dev, e.dev)
          /\ todo' = ThenPlay(rest)
       \/ /\ ~EndsGrab(e)
          /\ dev' = IF dev[e.dev].grab = NoGrab THEN dev
                    ELSE DeliveredToGrab(dev, e.dev, e)
          /\ todo' = rest

\* The pointer's window is found again if the pointer is elsewhere than it was:
\* within the windows that are mapped, in the middle of an unmap too.
CheckMotion == sprite' \in {sprite, viewable}

\* Motion is delivered, and freezes nothing.
Moved(e, q, rest) ==
    /\ ~dev[e.dev].frozen
    /\ e.type = "motion"
    /\ queue' = q /\ todo' = rest
    /\ CheckMotion
    /\ UNCHANGED <<dev, down, activator>>

ProcessEvent(e, q, rest) ==
    \/ /\ \/ EnqueueEvent(e, q, rest)
          \/ RepeatKey(e, q, rest)
          \/ IgnoreRelease(e, q, rest)
          \/ StartPassiveGrab(e, q, rest)
          \/ PressUngrabbed(e, q, rest)
          \/ PressGrabbed(e, q, rest)
          \/ Released(e, q, rest)
       /\ UNCHANGED sprite
    \/ Moved(e, q, rest)

-----------------------------------------------------------------------------
(* The hardware.                                                            *)

Idle == todo = <<>>

Hardware(e) ==
    /\ Idle /\ Len(queue) < MaxQueue
    /\ ProcessEvent(e, queue, <<>>)
    /\ UNCHANGED <<clientVars, viewable, exists, passive>>

Press(d, x) ==
    /\ x \in On(d) /\ (x \in held => x \in Repeating)
    /\ Hardware([dev |-> d, type |-> "press", detail |-> x])
    /\ held' = held \cup {x}

Lift(d, x) ==
    /\ x \in On(d) \cap held
    /\ Hardware([dev |-> d, type |-> "release", detail |-> x])
    /\ held' = held \ {x}

Move ==
    /\ Hardware([dev |-> "pointer", type |-> "motion", detail |-> Nobody])
    /\ UNCHANGED held

-----------------------------------------------------------------------------
(* The calls in progress continue.                                          *)

Call(name) == todo # <<>> /\ Head(todo).call = name

PlayableAll == Head(todo).at..Len(queue)    \* mutant

\* PlayReleasedEvents: the next queued event, from where the scan stands, whose
\* device is not frozen.  What it skipped it does not come back to.
Playable == {i \in Head(todo).at..Len(queue) : ~dev[queue[i].dev].frozen}

PlayReleasedEvents ==
    /\ Call("play")
    /\ IF Playable = {}
       THEN todo' = Tail(todo) /\ UNCHANGED <<dev, down, activator, queue, sprite>>
       ELSE \E i \in Playable :
                /\ \A j \in Playable : i <= j
                /\ ProcessEvent(queue[i], RemoveAt(queue, i),
                                <<PlayFrom(i)>> \o Tail(todo))
    /\ UNCHANGED <<clientVars, viewable, exists, passive, held>>

ProcessRepeat ==
    /\ Call("process")
    /\ ProcessEvent(Head(todo).event, queue, Tail(todo))
    /\ UNCHANGED <<clientVars, viewable, exists, passive, held>>

\* Back in CheckPassiveGrabsOnWindow, and in ProcessKeyboardEvent after it
FinishPassiveGrab ==
    /\ Call("passive")
    /\ LET e == Head(todo).event
       IN  /\ dev' = FrozenWithEvent(dev, e.dev, e)
           /\ activator' = IF e.dev = "keyboard" THEN e.detail ELSE activator
    /\ todo' = Tail(todo)
    /\ UNCHANGED <<down, queue, clientVars, windowVars, passive, held>>

-----------------------------------------------------------------------------
(* Requests.  Those that change nothing are left out.                       *)

\* ProcGrabPointer, ProcGrabKeyboard
FrozenByOthers(d, c) ==
    /\ dev[d].frozen
    /\ \/ dev[d].other /\ ~Grabbed(dev, Other(d), c)
       \/ dev[d].state \in Frozen /\ ~Grabbed(dev, d, c)

GrabDevice(g) ==
    /\ Idle /\ g.client \in connected
    /\ dev[g.dev].grab = NoGrab \/ Grabbed(dev, g.dev, g.client)
    /\ g.window <= viewable
    /\ ~FrozenByOthers(g.dev, g.client)
    /\ dev' = Activated(dev, g.dev, GrabOf(g, "active"), FALSE)
    /\ todo' = ThenPlay(<<>>)
    /\ UNCHANGED <<down, activator, queue, clientVars, windowVars, passive, held>>

\* ProcUngrabPointer, ProcUngrabKeyboard
UngrabDevice(c, d) ==
    /\ Idle /\ c \in connected /\ Grabbed(dev, d, c)
    /\ dev' = Deactivated(dev, d)
    /\ todo' = ThenPlay(<<>>)
    /\ UNCHANGED <<down, activator, queue, clientVars, windowVars, passive, held>>

\* AllowSome: the client has frozen device d, by its grab of d or of the other
HasFrozen(c, d) ==
    \/ Grabbed(dev, d, c) /\ dev[d].state \in Frozen
    \/ Grabbed(dev, Other(d), c) /\ dev[d].other

Allow(c, D) ==
    /\ Idle /\ c \in connected
    /\ dev' = Recomputed(D)
    /\ todo' = ThenPlay(<<>>)
    /\ UNCHANGED <<down, activator, queue, clientVars, windowVars, passive, held>>

ThawEverybodys(D, d, c, state) ==   \* mutant
    [D EXCEPT ![d].state = IF Grabbed(D, d, c) THEN state ELSE @,
              ![d].other = FALSE]
ThawOwnOnly(D, d, c, state) ==      \* mutant
    [D EXCEPT ![d].state = IF Grabbed(D, d, c) THEN state ELSE @]

\* Device d goes on in the given state, as far as client c has frozen it.
Thaw(D, d, c, state) ==
    [D EXCEPT ![d].state = IF Grabbed(D, d, c) THEN state ELSE @,
              ![d].other = @ /\ ~Grabbed(D, Other(d), c)]

AllowAsync(c, d) ==
    /\ HasFrozen(c, d)
    /\ Allow(c, Thaw(dev, d, c, "THAWED"))

AllowSync(c, d) ==
    /\ HasFrozen(c, d) /\ Grabbed(dev, d, c)
    /\ Allow(c, Thaw(dev, d, c, "FREEZE_NEXT_EVENT"))

AllowBoth(c, state) ==
    /\ \A d \in Device : HasFrozen(c, d)
    /\ Allow(c, Thaw(Thaw(dev, "keyboard", c, state), "pointer", c, state))

AllowAsyncBoth(c) == AllowBoth(c, "THAWED")
AllowSyncBoth(c)  == AllowBoth(c, "FREEZE_BOTH_NEXT_EVENT")

\* The windows below the grab window are looked at if it still is above the
\* pointer.  With the focus PointerRoot the keyboard's case reads pWin before
\* anything was assigned to it, unless there is no such window: whether the
\* windows are looked at is then anybody's guess.
AllowReplay(c, d) ==
    /\ Idle /\ c \in connected
    /\ Grabbed(dev, d, c) /\ dev[d].state = "FROZEN_WITH_EVENT"
    /\ LET e    == dev[d].event
           from == dev[d].grab.window + 1
           D    == Deactivated(dev, d)
       IN  \/ \E p \in FirstMatch(e, from) :
                dev' = FrozenWithEvent(
                    Activated(D, d, GrabOf(p, "replay"), TRUE), d, e)
          \/ /\ Matching(e, from) = {} \/ d = "keyboard"
             /\ \/ \E g \in AutomaticGrabs(e, "replay") :
                        dev' = Activated(D, d, g, TRUE)
                \/ AutomaticGrabs(e, "replay") = {} /\ dev' = D
    /\ todo' = ThenPlay(<<>>)
    /\ UNCHANGED <<down, activator, queue, clientVars, windowVars, passive, held>>

\* ProcGrabKey, ProcGrabButton: BadAccess if another client has the combination
SetPassiveGrab(p) ==
    LET same == {r \in passive : r.detail = p.detail /\ r.window = p.window}
    IN  /\ Idle /\ p.client \in connected /\ p.window <= exists
        /\ \A r \in same : r.client = p.client
        /\ passive' = (passive \ same) \cup {p}
        /\ UNCHANGED <<inputVars, clientVars, windowVars, held>>

\* ProcUngrabKey, ProcUngrabButton
DeletePassiveGrab(p) ==
    /\ Idle /\ p \in passive /\ p.client \in connected
    /\ passive' = passive \ {p}
    /\ UNCHANGED <<inputVars, clientVars, windowVars, held>>

-----------------------------------------------------------------------------
(* Windows.                                                                 *)

\* UnmapWindow, UnrealizeChildren: DeleteWindowFromAnyEvents for each window that
\* was viewable; the pointer's window is found again at the end only.
PointerFirst(odd) == IF odd THEN "pointer" ELSE "keyboard"
Unmap(w) ==
    [i \in 1..2 * (viewable - w + 1) |->
        DeleteFrom(w + (i - 1) \div 2, PointerFirst(i % 2 = 1))]
    \o <<Restructured>>

UnmapWindow(w) ==
    /\ Idle /\ w \in 2..viewable
    /\ viewable' = w - 1
    /\ todo' = Unmap(w)
    /\ UNCHANGED <<dev, down, activator, queue, clientVars, exists, sprite,
                   passive, held>>

\* MapWindow, of all the windows at once
MapWindows ==
    /\ Idle /\ viewable < exists
    /\ viewable' = exists /\ sprite' = exists
    /\ UNCHANGED <<inputVars, clientVars, exists, passive, held>>

DeleteWindowFromAnyEvents ==
    /\ Call("delete")
    /\ LET d == Head(todo).dev
       IN  IF dev[d].grab # NoGrab /\ dev[d].grab.window = Head(todo).window
           THEN dev' = Deactivated(dev, d) /\ todo' = ThenPlay(Tail(todo))
           ELSE dev' = dev /\ todo' = Tail(todo)
    /\ UNCHANGED <<down, activator, queue, clientVars, windowVars, passive, held>>

WindowsRestructured ==
    /\ Call("restructured")
    /\ sprite' = viewable
    /\ todo' = Tail(todo)
    /\ UNCHANGED <<dev, down, activator, queue, clientVars, viewable, exists,
                   passive, held>>

\* CrushTree and the end of DeleteWindow, the deepest window first
Free(w) ==
    [i \in 1..3 * (exists - w + 1) |->
        LET x == exists - (i - 1) \div 3
        IN  IF i % 3 = 0 THEN Freed(x) ELSE DeleteFrom(x, PointerFirst(i % 3 = 1))]

DeleteWindowStillMapped ==          \* mutant
    /\ Call("destroy")
    /\ todo' = Free(Head(todo).window) \o Tail(todo)
    /\ UNCHANGED <<dev, down, activator, queue, clientVars, windowVars, passive, held>>

DeleteWindow ==
    /\ Call("destroy")
    /\ LET w == Head(todo).window
       IN  IF w <= viewable
           THEN viewable' = w - 1 /\ todo' = Unmap(w) \o Free(w) \o Tail(todo)
           ELSE viewable' = viewable /\ todo' = Free(w) \o Tail(todo)
    /\ UNCHANGED <<dev, down, activator, queue, clientVars, exists, sprite,
                   passive, held>>

\* The end of DeleteWindowFromAnyEvents(pWin, TRUE)
FreeWindow ==
    /\ Call("freed")
    /\ passive' = {p \in passive : p.window # Head(todo).window}
    /\ exists' = Head(todo).window - 1
    /\ todo' = Tail(todo)
    /\ UNCHANGED <<dev, down, activator, queue, clientVars, viewable, sprite, held>>

-----------------------------------------------------------------------------
(* The end of a client.  Every ddx adds the pointer before the keyboard.     *)

\* CloseDownClient: for a connected client, or (KillClient) for one that is
\* gone with its resources retained
CloseDownClient(c, mode) ==
    /\ Idle
    /\ \/ c \in connected /\ mode \in CloseDownModes
       \/ c \in retained /\ mode = "Kill"
    /\ todo' = <<Release(c, "pointer"), Release(c, "keyboard"),
                 CloseDown(c, mode)>>
    /\ UNCHANGED <<dev, down, activator, queue, clientVars, windowVars, passive,
                   held>>

ReleaseActiveGrabs ==
    /\ Call("release")
    /\ LET d == Head(todo).dev
       IN  IF Grabbed(dev, d, Head(todo).client)
           THEN dev' = Deactivated(dev, d) /\ todo' = ThenPlay(Tail(todo))
           ELSE dev' = dev /\ todo' = Tail(todo)
    /\ UNCHANGED <<down, activator, queue, clientVars, windowVars, passive, held>>

\* The passive grabs and the windows of a client are freed in the order of the
\* hash table: either may come first.
FreeClientResources(c, rest) ==
    LET tops == {w \in 2..exists : /\ Owner[w] = c
                                   /\ \A x \in 2..exists : Owner[x] = c => w <= x}
    IN  \/ tops = {} /\ todo' = <<FreePassive(c)>> \o rest
        \/ \E w \in tops : \/ todo' = <<FreePassive(c), Destroy(w)>> \o rest
                            \/ todo' = <<Destroy(w), FreePassive(c)>> \o rest

\* The rest of CloseDownClient
FinishCloseDown ==
    /\ Call("close")
    /\ LET c == Head(todo).client
       IN  /\ connected' = connected \ {c}
           /\ IF Head(todo).mode = "Retain"
              THEN /\ retained' = retained \cup {c}
                   /\ todo' = Tail(todo)
              ELSE /\ retained' = retained \ {c}
                   /\ FreeClientResources(c, Tail(todo))
    /\ UNCHANGED <<dev, down, activator, queue, windowVars, passive, held>>

\* PassiveClientGone for each passive grab of the client
FreePassiveGrabs ==
    /\ Call("ungrab")
    /\ passive' = {p \in passive : p.client # Head(todo).client}
    /\ todo' = Tail(todo)
    /\ UNCHANGED <<dev, down, activator, queue, clientVars, windowVars, held>>

-----------------------------------------------------------------------------
Init ==
    /\ dev = [d \in Device |-> [grab |-> NoGrab, state |-> "NOT_GRABBED",
                                other |-> FALSE, frozen |-> FALSE,
                                event |-> NoEvent, auto |-> FALSE]]
    /\ down = {} /\ held = {} /\ activator = Nobody
    /\ queue = <<>> /\ todo = <<>> /\ passive = {}
    /\ connected = Client /\ retained = {}
    /\ viewable = Depth /\ exists = Depth /\ sprite = Depth

Continue ==
    \/ PlayReleasedEvents \/ ProcessRepeat \/ FinishPassiveGrab
    \/ DeleteWindowFromAnyEvents \/ WindowsRestructured
    \/ DeleteWindow \/ FreeWindow
    \/ ReleaseActiveGrabs \/ FinishCloseDown \/ FreePassiveGrabs

User ==
    \/ \E d \in Device, x \in Key \cup Button : Press(d, x) \/ Lift(d, x)
    \/ Move

AllowEvents(c) ==
    \/ \E d \in Device : AllowAsync(c, d) \/ AllowSync(c, d) \/ AllowReplay(c, d)
    \/ AllowAsyncBoth(c) \/ AllowSyncBoth(c)

Request ==
    \/ \E g \in ActiveGrab : GrabDevice(g)
    \/ \E c \in Client, d \in Device : UngrabDevice(c, d)
    \/ \E c \in Client : AllowEvents(c)
    \/ \E p \in PassiveGrab : SetPassiveGrab(p) \/ DeletePassiveGrab(p)
    \/ \E w \in Window : UnmapWindow(w)
    \/ MapWindows
    \/ \E c \in Client, mode \in CloseDownModes \cup {"Kill"} :
          CloseDownClient(c, mode)

Next == Continue \/ User \/ Request

Spec == Init /\ [][Next]_vars /\ WF_vars(Continue)

-----------------------------------------------------------------------------
(* Properties.                                                              *)

\* A device is frozen exactly while its own grab or the other device's grab
\* freezes it, and whatever freezes a device is a grab that is active.
FreezesAreGrabs ==
    \A d \in Device :
        /\ dev[d].frozen <=> dev[d].other \/ dev[d].state \in Frozen
        /\ dev[d].other => dev[Other(d)].grab # NoGrab
        /\ dev[d].state # "NOT_GRABBED" <=> dev[d].grab # NoGrab

\* No grab outlives the connection of its client, unless it began when the client
\* was already being closed down or gone: its close-down ends every earlier one,
\* whatever is played in the middle of it.
HoldersConnected ==
    \A d \in Device :
        dev[d].grab # NoGrab /\ ~dev[d].grab.late => dev[d].grab.client \in connected

\* So what keeps a device frozen is a grab, and a client is there to lift it with
\* AllowEvents but for the grabs that begin too late.
FreezeHasAGrab == FreezesAreGrabs /\ HoldersConnected

\* A grab of the pointer that a button started has some button down, unless it
\* started with a replayed press: no order of queued presses and releases
\* leaves a grab that nothing ends.
ButtonGrabHasAButton ==
    LET p == dev["pointer"]
    IN  (p.auto /\ p.grab # NoGrab /\ p.grab.how = "passive")
            => down \cap Button # {}

\* Between requests, when no event of a device is queued, the server's idea of
\* what is down on it is the hardware's.
NoStuckKeys ==
    Idle => \A d \in Device :
        (\A i \in DOMAIN queue : queue[i].dev # d)
            => down \cap On(d) = held \cap On(d)

\* The grabs keep what GrabRights promises.
Rights == INSTANCE GrabRights WITH
    holder   <- [d \in Device |-> dev[d].grab.client],
    frozenBy <- [d \in Device |->
                    {g \in Device : IF g = d THEN dev[d].state \in Frozen
                                             ELSE dev[d].other}]

RightsKept == Rights!Spec

\* With clients that thaw what they have frozen, no device stays frozen, unless
\* it is in the name of a client that is gone.
FrozenByTheGone ==
    \E g \in Device : dev[g].grab # NoGrab /\ dev[g].grab.client \notin connected

DevicesThaw ==
    \A d \in Device : dev[d].frozen ~> (~dev[d].frozen \/ FrozenByTheGone)

\* Whatever a request or an event sets off ends, queued repetitions included.
CallsReturn == ~Idle ~> Idle

FairSpec == Spec /\ \A c \in Client, d \in Device : SF_vars(AllowAsync(c, d))

=============================================================================
