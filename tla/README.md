# X11R3 in TLA+: the server's scheduler, output and grabs, Xlib's connection, selections

This directory models the concurrent core of the X Window System in this repository
(X11 release 3), checks it with TLC on small instances and proves main safety
properties with TLAPS for every size of instance. All paths below are relative to
`src/`; `io.c`, `WaitFor.c`, `connection.c` and `utils.c` are in `server/os/4.2bsd`,
`dispatch.c`, `main.c`, `events.c`, `grabs.c` and `property.c` in `server/dix`,
`XlibInt.c` in `lib/X`, `Selection.c` in `lib/Xt`.

    tlc -config Dispatch_grabs.cfg MCDispatch.tla     # any cfg, with the module the table of runs names
    tlapm DispatchProofs.tla

## 1. The system and its parts

The repository holds a display server, the client library and toolkit, and some
hundred clients. State that several parties change at the same time is in the
server, in the library's end of a connection, and in the toolkit's protocol by which
two programs exchange a selection; this is what the project is about.

| part | state it keeps | operations | what would make it wrong | here |
|---|---|---|---|---|
| scheduler (`dispatch.c`, `WaitFor.c`, `io.c`, `connection.c`, `main.c`) | `clients[]`, `nextFreeClientID`, `nClients`, `ConnectionTranslation[]`, the select masks, input buffers, server grab, `clientsDoomed` | wait, accept, read, execute, yield, grab, close, kill, reset | a client forgotten, served while another has the grab, counted twice, touched after it was freed | `Dispatch` |
| output (`io.c`, `WaitFor.c`) | per client buffer; `OutputPending`, `ClientsWriteBlocked`, three flags | write, flush, block, retry, give up | output lost, reordered or never sent; a live client closed | `Output`, `Stream` |
| input events and device grabs (`events.c`) | active grabs, `sync.state`, `sync.other`, queue of frozen events, what is down | device events, Grab/Ungrab, AllowEvents, a grab window or client that goes away | a device frozen for ever, a grab that nothing ends, a client that freezes or takes what is another's | `DeviceGrabs`, `GrabRights` |
| passive grabs (`grabs.c`) | lists of grabs per window, detail and modifier masks | add, delete, match | a deleted combination still grabs, two clients have the same | `PassiveGrabs`, `GrabTable` |
| resources (`resource.c`) | hash table per client | add, look up, free one, free a client's | freed twice, found after it was freed | only the order in which a client's grabs and windows are freed, in `DeviceGrabs` |
| windows (`window.c`) | tree, map state, save sets | map, reparent, destroy | a client's death destroys what it saved | a chain of windows, in `DeviceGrabs` |
| selections, properties, atoms (`dispatch.c`, `property.c`, `atom.c`) | owner and time of each selection; property lists; atom table | convert, change, delete | an older owner wins, an event for a dead owner | selections and the properties they use: the server's half of `Selection` |
| colormaps (`colormap.c`) | reference counts of cells | alloc, free | a cell freed while shared | not modelled |
| fonts, cursors, GCs (`dixfonts.c`, `cursor.c`, `gc.c`) | reference counts | open, close | | not modelled |
| extensions, byte swapping, tables | tables filled at start-up | | | not modelled |
| host access (`access.c`) | list of hosts | add, remove, check | | its verdict is a free choice of `Dispatch` |
| ddx (`server/ddx`) | pixels and hardware | | | not modelled: arithmetic of drawing, device access |
| Xlib (`XlibInt.c` and the request functions) | output buffer, event queue, last reply read | requests, replies, flush, event queue | a reply taken for something else, a wrong sequence number, both ends waiting | `Xlib` |
| Xt (`lib/Xt`) | selection records, property lists, timeouts; translations, geometry, inputs | own, lose, convert, send and fetch in increments, time out | a value cut or mixed, a name used twice, nobody told | `Selection`; the rest not modelled |
| xdm, other clients | | | | not modelled |

How they interact. The server is one thread, `Dispatch` (`dispatch.c:208`). It calls
`WaitForSomething`, which returns ready clients and new ones; for each ready client
in turn it calls `ReadRequestFromClient` and the request's procedure until the os
layer sets `isItTimeToYield`. Hardware events come in between, and are processed by
`events.c`, or queued while a grab freezes their device. A procedure may write to any
client (`WriteToClient`), close clients, or grab the server or a device.
`FlushAllOutput` is called after each turn. The layers share global masks and each
other's records, and nothing locks anything. What runs at the same time as the server
is the rest of the world: peers connect, send, read and hang up between any two steps,
and a signal handler (`utils.c:61`) sets `clientsDoomed`. On the other side of a
socket Xlib buffers requests and reads replies, errors and events as they come. Two
programs that exchange a selection see each other through the server only, by
properties and events that arrive when they like.

What is hard in it: lists made before a round and used after other clients' requests
changed what they list; masks saved at a server grab and merged back when it ends; a
descriptor that FlushClient closes under a client that remains in all tables; a count
that goes to -1; buffered requests select() cannot see; queued events that are played
inside the call that thawed a device, and may freeze it again; a client that dies with
freezes, grabs and windows; numbers of 16 bits for a stream without end; a socket full
both ways; timeouts that race late answers. `PROJECT.json` lists these hazards one by
one, each at its line.

## 2. The modules

**`Dispatch`** is the scheduler. Its variables have the names of the C globals where
there is one; the exceptions are listed here.

| in the module | in the code |
|---|---|
| `backlog`, `isOpen`, `hungUp`, `wire` | the kernel: connections not accepted, descriptors, what peers have sent |
| `buf[f]` | `inputBuffers[f]`: units not yet served |
| `clients[s]` | `clients[s]`: descriptor, close down mode, `clientGone`, `noClientException` (`exc`) |
| `ready` | `clientReady[]`, as a function from descriptor to client index |
| `newClient` | the entry of `newClients[]` |
| `client` | `Dispatch`'s local variable, or `KillAllClients`'s loop variable |
| `pc` | where the loop is: `wait`, `select` (the inner loop of WaitForSomething), `new`, `serve` (between turns), `read`, `exec`, `close`, `killall`; or `undefined`, after a read of freed memory |

Actions: `WaitBuffered`, `CheckConnections`, `Select`, `WaitDoomed` are the ways out
of WaitForSomething; `WelcomeNew`, `NextReady`, `ReadRequest`, the requests,
`CloseTurn`, `EndRound`, `KillAllClients` are Dispatch. The requests that touch this
machine are `ProcGrabServer`, `ProcUngrabServer`, `ProcChangeCloseDownMode` and
`ProcKillClient` in its cases (self, a retained client, any connected client, all
temporary ones); the hundred others are `ProcOther`, which succeeds or fails. The
environment is `Connect`, `Send`, `HangUp`, `DoomSignal`, and `WriteFails`, a write to a
peer that is gone, which closes the descriptor and marks the client. When the client
that KillClient named has a turn to come, Dispatch reads a freed record
(section 4): `ReadOfFreed` goes to `undefined`, where the server does nothing more. The
properties are about what comes before.

Abstractions: a request is two units, so reads split requests and several can be in a
buffer; `AllSockets` is `AllClients` plus what never changes; one listening socket;
of descriptors only those of clients; the kernel gives the lowest free one.

**`Output`** is the output side of the os layer and the points of the main loop that
flush. `buf`, `bufsize`, `sock` hold the units in a client's buffer, its allocation
and what the kernel has taken; units are numbered from the one the reader takes next,
so a lost or repeated unit shows as a gap. `FlushClients(F, data)` is FlushClient of
each client of `F`: refused (descriptor closed, client kept), taken in part (blocked,
rest kept in a buffer that may grow) or taken whole (buffer shrinks back).
`WriteToClient` and `FlushAllOutput` are the functions of those names, with the flags
and masks they leave. `HeldBack(f)` tests the mask of descriptors at the client's
*index*, as the code does. A round of requests is any sequence of writes to any
clients. The server grab is there as far as it confines the masks (`AllClients`,
`ClientsWithInput`). A newcomer whose descriptor still has a dead client is turned
away here; `Dispatch` has that case.

**`Stream`** is the abstract specification of output: per connection a queue, written
at one end, read in order at the other, cut off only when the connection ends.
`Output` implements it (`StreamKept == S!Spec`, with the queue mapped to the kernel's
units followed by the buffer's).

**`DeviceGrabs`** is the grab machine of `events.c`: `dev[d]` holds the fields `grab`,
`passiveGrab` (`auto`) and `sync` of a DeviceIntRec, `queue` is `syncEvents.pending`,
`activator` is `keyThatActivatedPassiveGrab`, `down` what the server thinks is down and
`held` what is. Its operators `Activated`, `Deactivated`, `Recomputed`,
`CheckedForSyncs`, `DeliveredToGrab`, `FrozenWithEvent` are the helpers of events.c as
functions from the two devices to the two devices, which the proofs use one by one.

The server is one thread, but `ComputeFreezes` plays the queued events inside the call
that changed a freeze, and each of those events may start or end a grab. A call is
therefore split where events.c calls `PlayReleasedEvents`: `todo` lists what is left
of the calls in progress, the innermost first. The devices' events are `Press`, `Lift`,
`Move`, which end in `ProcessEvent` (repeat, duplicate, queue, start of a passive or
automatic grab, delivery to a grab, end of a grab). Requests are GrabPointer and
GrabKeyboard, Ungrab, the seven ways of AllowEvents (`AllowAsync`, `AllowSync`,
`AllowReplay` per device, `AllowAsyncBoth`, `AllowSyncBoth`), GrabKey, GrabButton and their
undoing, map, unmap, and the end of a client, which releases its active grabs
(`ReleaseActiveGrabs`, pointer first) and then frees its passive grabs and its windows
in either order. A motion that is played finds the pointer's window again (`CheckMotion`),
in the middle of an unmap too. `how` and `late` of a grab are history: how it began, and
whether its client was being closed down or gone by then.

Abstractions: windows are a chain with the pointer in the deepest viewable one; the
focus is PointerRoot; no modifiers (`PassiveGrabs` has them); request times are always
acceptable; `sync.other`, which points into the other device's static GrabRec, is a
Boolean; a grab's event mask has presses and releases.

**`GrabRights`** is the abstract specification of it: per device a holder, and the grabs
that keep it frozen, named by the device they hold. A client takes a device that is
free or its own and that no other client has frozen; it freezes and thaws in the name
of its own grabs only; the end of a grab ends exactly the freezes made in its name.
A replay is the exception (`HandOn`): it hands the device on to another client though
that client's grab might not have been granted. `DeviceGrabs` implements it
(`RightsKept == Rights!Spec`).

**`PassiveGrabs`** is `grabs.c`: grabs of one window with an exact detail or AnyKey, exact
modifiers or AnyModifier, and for the "any" values the mask of what they still stand
for (bits in the code, a set here). The list is a set: the code takes the first match,
and `OneGrabPerCombination` says that there is no second. `DeletePassiveGrabFromList`
cuts what a new grab or an ungrab names out of the older ones, splitting a grab of any
key with any modifiers in two; then there are GrabKey with its BadAccess, UngrabKey and
the end of a client. **`GrabTable`** is what the protocol says of it: a table from
(device, modifiers, detail) to a client and its terms. `PassiveGrabs` implements it
(`TableKept`).

**`Xlib`** is one connection as the client library runs it. `call` says where the client
is inside Xlib: in a request (`put`), in `_XFlush` (`flush`) or `_XWaitForWritable`
(`wait`), with the place it returns to in `call.next`, in `_XReply`, in
`_XEventsQueued` (`poll`), or in one of the places of `_XReadEvents` (`read`, `flushed`,
`block`, `loop`, `got`). `batch` is what one read() returned and the loops have not
looked at; `Widened` is `_SetLastRequestRead`. The server is external: it counts
requests as `dispatch.c` does, answers, sends events when it likes and may stop
serving while the client does not read. `answered` and `error` are history.

**`Selection`** is the Intrinsics' selection protocol: one program with one widget may
own a selection, `Requestor` programs ask for it, others take it away. The server's
half (owner, properties, PropertyNotify and SelectionNotify events) changes at once;
what a program hears of it waits in `toOwner` and `toRequestor[r]`. The owner's state is
the SelectRec (`ctx`), the PropGone records (`recs`) with their timers, `incrList`
(`incr`) and the toolkit's event table (`table`, `hung`: which windows are hung onto
its widget and which closures are called for their events). A record that is freed while
the table still has its handler stays in `recs` as `freed`. A requestor's state is
the CallBackInfo of each call (`info`), the handlers registered with them
(`handlers`), the event in dispatch with the handlers that are still to be called
(`todo`), the callback it is in (`inCallback`), its `incrList` and the property names it
keeps (`avail`).

`XtOwnSelection` is two steps, since another program can come between "I own it" and
"who owns it?". Programs ask when they like: several at the same time, several calls of
one, in the middle of a callback, with the time of an event of their own or again with
the time of an earlier call, as the Text widget does when a selection is not there
(`lib/Xaw/Text.c:2160`, `2179-2183`). An answer carries what the code looks at, so
`Match` is MATCH_SELECT: time, requestor and target. `crossed` is history: the programs
that have asked with the time of a call whose SelectionNotify they had not handled yet.

Abstractions: all calls have one target; a SelectionClear and the ownership it is compared
with never have equal times (`Selection.c:239`); and an owner has at most one transfer in
increments (`ConvertIncremental` asks for `incr = NoIncr`), since PrepareIncremental does
not set `prev` of the old head of the list, and who takes a record out of the middle
frees one that stays linked. Requestors have no such bound.

**`MCDispatch`** adds a VIEW for TLC that leaves out values the server sets again
before it reads them; **`MCDeviceGrabs`** the grabs clients make; **`MCPassiveGrabs`** a
symmetry. **`DispatchProofs`**, **`DispatchKeepProofs`**, **`DispatchGrabProofs`**,
**`DeviceGrabsProofs`**, **`PassiveGrabsProofs`**, **`XlibProofs`**, **`OutputProofs`**,
**`SelectionProofs`** have the theorems.

How they fit together. `Dispatch` and `Output` are two views of one main loop: a failed
write is an action of the first (`WriteFails`), the masks the grab confines are in both.
`DeviceGrabs` and `PassiveGrabs` share the moment a press is matched: the first names
one key per grab, the second says which combinations a list of grabs stands for.
`Xlib` ends where `Dispatch` and `Output` begin: its `toServer` and `toClient` are the
socket, and its server is what they promise, requests in order and output whole and in
order. `Selection` rests on the same promise, of both of its connections.

## 3. The runs

| run | question | bounds |
|---|---|---|
| `dispatch_grabs` | grabs, kills, modes, resets and hang-ups in every order: are grab, masks and client table consistent? | 2 connections, 2 client indices of which `clients[]` starts with 1, so that it grows and is full; a buffer of two requests, a turn of two, three units in flight: split, pipelined and left-over requests all occur |
| `dispatch_fair` | is every request served? | the same without kills, modes and signals |
| `dispatch_failures` | failed writes close descriptors under the scheduler: do tables and count survive? | 2 descriptors, 3 indices, no grabs |
| `output` | is output whole, in order, and never forgotten? | 2 clients, buffers of 1 unit, writes of 1 and 2, the kernel holds 1, 3 unread: buffers overflow, block, grow and shrink; memory fails; server grabs |
| `output_fair` | are blocked writers retried, are connections answered? | the kernel holds 2, so that a later write can empty a blocked client's buffer before select() reports it |
| `devgrabs` | do freezes, grabs and rights stay consistent in every order of events, requests and ends? | a window manager that grabs a key and a button passively and an application that grabs the keyboard actively and the same key on its window, sync and async; one key that repeats, one button, 2 windows, 2 events queued: 1.5 million states |
| `devgrabs_fair` | does every frozen device thaw, does every call return? | both clients grab actively, each freezing the other's device, clients that die retain their resources |
| `passivegrabs` | are cut and split grabs what the protocol's table says? | 2 clients, 2 keys, 2 modifiers, up to 3 grabs; one device, as grabs of different devices never match |
| `xlib` | are numbers, replies and waiting right, do calls end? | 4 sequence numbers and 6 requests, so that they wrap with a reply or error missing in between; a buffer of 2 requests, sockets that hold 1 item each way, 2 events, 2 silent requests between round trips, the most that `SerialsAreTrue` allows for 4 numbers |
| `selection` | is every call answered once, is a value whole, are names free before they are used again, does the owner answer? | two requestors, 2 calls (of one or of both, the second inside a callback or after a timeout, with the same time or a new one), values at once or in one part and its end, the selection taken up to three times, an owner with a done procedure |
| `devgrabs_stuck`, `selection_overlap` | findings 1 and 2 | the same instances: `devgrabs` without repeating keys, and `selection` |

Two connections are enough for what is relational in the server: one that holds
something and one that is shut out, dies or is blocked; the proofs show that what is
proved does not depend on the number. `MaxWire`, `MaxBacklog`, `MaxUnread`, `MaxQueue` and
`MaxEvents` bound what peers and hardware do and only delay them. `MaxRequest` and `MaxTime`
bound the length of histories in `Xlib` and `Selection`. `Selection` was also checked once
with larger bounds, and every property of its run held: owners with and without a
done procedure (0.8 million states); values of two parts (2.1 million); three calls of
two programs, with `MaxTime` 2 (4.1 million); three calls of one program with values of
two parts (7.9 million).

What the passing properties say:

* `GrabExcludesOthers`: no request is read or executed for anyone but the holder of the
  server grab. `GrabConfinesInput`: dix's `grabbingClient` and the os layer's
  `GrabDone` agree, and select() hears the holder only.
* `NobodyForgotten`: every connected client is in the masks select() uses, or in those
  the end of the grab brings back. `NoStrandedRequest`: a whole request in a buffer
  is always known to one of the input masks, or its client has a turn to come.
* `RoundIsLive`: of the clients with a turn to come nobody is closed but by the
  KillClient of another. `OneClientPerDescriptor`, `ConnectionsCounted`: table and count
  are exact.
* `GenerationEndsEmpty`: a generation not ended by a signal ends under no connected
  client. `RetainedIsKept`: what a client retained is freed by KillClient or the end
  of the generation only.
* `EveryRequestServed`: liveness of round robin.
* `NothingForgotten`: no buffered output is in neither mask. `StreamKept`: what a client
  is sent is what was written to it. `BlockedAreRetried`: a writer does not stay blocked
  when its peer has read all there was. `ConnectionsAnswered`: blocked and closed
  writers do not keep the server from accepting.
* `FreezeHasAGrab`: a device is frozen exactly while an active grab freezes it, and the
  client of a grab is connected, so that it can lift the freeze with AllowEvents, unless
  it was being closed down or gone when the grab began (section 4): its close-down
  ends every earlier grab, whatever is played in the middle. `ButtonGrabHasAButton`: a grab of
  the pointer that a button began has a button to end it. `RightsKept`: see
  `GrabRights`. `DevicesThaw`, `CallsReturn`: a frozen device thaws; the playing of
  queued events, each of which may call for another play, ends.
* `OneGrabPerCombination`, `TableKept`: passive grabs are a table.
* `SerialsAreTrue`: events and errors are given the full number of the request they
  belong to, whatever is on its way, if the program makes a round trip often enough.
  `RepliesAreAwaited`: a reply is on its way only to the `_XReply` that waits for it.
  `BlocksForAReason`: the client blocks only with all requests sent and, in XNextEvent,
  no event queued. `CallsEnd`: full sockets both ways do not deadlock.
* `AnsweredOnce`, `EveryCallAnswered`: every call gets one answer, a value, none or a
  failure, whatever else goes on. `ValueIsWhole`: a value is the whole value the owner
  converted for this call. `PropertyIsFree`: a property name is used again only
  when nothing of its last use is left anywhere. `NothingOverwritten`: the owner
  stores no increment over one that was not fetched. These three are about programs that
  are not `crossed`; section 4 says what becomes of those. `IncrementHasRecord`: what is
  still to be sent has a record with a timer or event to come, and is not left to a later
  call. `OwnerAnswers`: the server's owner is a widget that will answer.

Each has a mutant of the code (in `PROJECT.json`; the definitions marked `\* mutant`)
that violates it.

Fairness. `FairSpec` of `Dispatch` and `Output` assumes weak fairness of `ServerStep` as a
whole: the process is scheduled and never stops of itself. No fairness is assumed of a
single action: which client is served is decided by the code alone. Of peers nothing
is assumed, except in `Output`, where those that stay go on reading.
`EveryRequestServed` is stated for executions in which server grabs end: a client that
keeps the server may starve the others by design ("there is no timeout for this in the
protocol", `connection.c:801`). `BlockedAreRetried` and `ConnectionsAnswered` are stated for
executions in which input runs out again and again, because how much input a client has
is left open there (`Dispatch` bounds a turn and needs no such condition).

`DeviceGrabs` assumes that calls go on (weak fairness of `Continue`) and, for
`DevicesThaw`, that every client again and again allows what it froze, whenever it can
(strong fairness of `AllowAsync`, as others may freeze and thaw in between); that is the
duty the protocol gives to clients that grab synchronously. A client that is gone with
its grabs is excepted (`FrozenByTheGone`, section 4). `Xlib` assumes that the client
runs inside its calls and that the server serves while few messages are unread: it may
wait for its client to read, which is what makes the deadlock possible. `Selection`
assumes that a program returns from the handlers and callbacks it has begun, and that
timers nobody removes run out, for that is what they are; that programs read their
events, or the owner does anything, is not assumed.

## 4. Findings

1. **Queued events overtake each other** (`devgrabs_stuck`). PlayReleasedEvents scans the
   queue once; what it skips because its device is frozen it does not come back to when
   an event further on thaws that device (`events.c:398-416`). Later events of the same
   device are then processed before the skipped one, and a press that is played after
   its own release leaves the server with a key down that is up. The protocol:
   changes "are simply queued for later processing"
   (`doc/Protocol/X11.protocol:4192-4193`), and UngrabKeyboard "releases any queued
   events" (4228-4229).
2. **"Done" before it is done** (`selection_overlap`). The owner's handler recognises the
   end of a transfer by the property's atom alone, not by the window
   (`Selection.c:377-379`), and every program's first property is `_SELECTION_0`. When
   two programs fetch values at the same time, the first one's deletion is taken for
   both. The toolkit's manual promises that the done procedure is called after the
   requestor has received the value (`doc/Xt/CH11:576-578`).

Seen while modelling, and no runs of their own: cases that no property of a run is about,
or that a property names as its exception, or that the model leaves out, as is said
with each.

Scheduler and output:

* KillClient of a client with a turn to come leaves a pointer to a freed record in
  `clientReady[]` (`dispatch.c:3020`, `3183-3186`), where the comment at `dispatch.c:257-259`
  expects NULL; Dispatch goes on to read it. `RoundIsLive` names it as the one way.
* ListenToAllClients brings back the input bits a grab saved (`connection.c:846`), also
  the bit of a client that was closed while another held the grab (by a reset, a
  KillClient or a failed write: CloseDownFileDescriptor clears the live masks only). The
  bit then stands for no request, against `io.c:92` ("which clients have FULL requests left
  in their buffers"): WaitForSomething returns an empty entry again and again without
  ever calling select(), or gives a newcomer on that descriptor a turn it has no input
  for.
* `NewOutputPending` is cleared for all clients by a buffer that overflows
  (`io.c:557-558`): the server may sleep on replies it has not sent, until it writes
  anything else.
* A blocked writer that dies during a grab stops the server: each select() fails on its
  closed descriptor, which CheckConnections does not see (`connection.c:740`,
  `WaitFor.c:211`).
* An empty flush closes a live client (`io.c:499`) on kernels where writev() of no
  vectors is an error. The repository's bug database has it as
  `doc/bugs/database/open/server/234`. The passing runs of `Output` assume the other
  kind of kernel (`EmptyWriteFails = FALSE`).
* When FlushClient closes a descriptor during a grab, the dead client stays in the
  tables (CheckConnections looks at the holder only) and accept() can give its
  descriptor to a newcomer: two clients then share it. For this reason
  `dispatch_failures` has no grabs.
* FlushAllOutput tests `ClientsWithInput` with `client->index` (`io.c:493`) although
  the mask is by descriptor: a client may be held back because of another's input.
  It is modelled (`HeldBack`), and no property is about the delay.

Grabs:

* While a client dies, the events queued behind its grab are played, and may start one
  of its passive grabs, which are freed later or retained. Nothing deactivates a grab of
  a client that is gone (`events.c:708-727`, `dispatch.c:3177-3183`), and no AllowEvents
  lifts what it froze; the protocol releases all grabs when a connection closes
  (`X11.protocol:8817-8825`). `FreezeHasAGrab` says that no other grab outlives its
  client (`late`); `DevicesThaw` excepts it (`FrozenByTheGone`).
* A repeated press under SyncKeyboard is processed as a release, which freezes, and a
  press, which is then queued behind a lift that was queued before
  (`events.c:1428-1437`).
* A replayed event is processed though another client's grab of the other device has
  the device frozen (`events.c:648-660`): `GrabRights!HandOn`.
* With the focus PointerRoot, CheckDeviceGrabs reads `pWin` before it is assigned
  (`events.c:1296-1311`); the model takes either outcome.
* DeleteWindowFromAnyEvents may play events while the window being unmapped is still
  in the sprite's trace, so that a grab starts on it.
* CheckPassiveGrabsOnWindow does not look at the event's type, and a replay does not
  set `keyThatActivatedPassiveGrab`: a keyboard grab can begin that the release of its
  key does not end. `syncEvents.num` counts up and never down (`events.c:379`).
* A passive grab of any key whose every key was ungrabbed one by one still makes
  another client's grab of any key fail.

Xlib:

* The comment of `_SetLastRequestRead` (`XlibInt.c:535-540`) and its loop differ in which
  number they call the right one. `SerialsAreTrue` is tight: one more silent request
  than `SeqSize - 2` and a number is widened wrong.

Selections:

* **A late answer for a later call.** A program that asks again with the time of a call
  that has failed by its timeout, as the Text widget does for the next selection of its list
  (`lib/Xaw/Text.c:2160`, `2179-2183`), has two records that MATCH_SELECT takes for the
  same: the late SelectionNotify is given to both. The later call gets the value meant for
  the first, or finds the property gone and gets none, and its name is freed
  (`Selection.c:997-1000`) while its own request is still to be answered; that answer, or its
  increments, then arrive under a name that another call has. Without the condition
  `\notin crossed`, TLC finds `PropertyIsFree`, `ValueIsWhole` and `NothingOverwritten`
  violated. Calls that wait at the same time with the same time are crossed too.
* AddHandler gives a window that is known to the toolkit no second handler
  (`Selection.c:267-273`): the second of two transfers to one window stalls until its
  timeouts.
* An event for another window removes the timer of an incremental record
  (`Selection.c:382`) and then returns (`395`): if the requestor stalls, the owner is never
  told and the record never freed.
* The owner's done procedure is called at a timeout though the requestor has not
  received the value (`Selection.c:320-328`, with a comment that asks whether it should
  be), and can be called twice for one conversion; `doc/Xt/CH11:571-578` promises it once,
  after the value was received. `DoneAfterTransfer` excepts the timeout.
* RemoveHandler takes the raw handler out only while the window is registered
  (`Selection.c:283-295`). When another record has unregistered it, the handler stays in
  the table and is called with the freed record for later events (`freed`).
* OwnerTimedOut finds the increment by window and property (`Selection.c:310`), so that
  the timeout of an old record cancels the increments of a newer transfer under the same
  name.
* At the empty increment the requestor leaves its own record in `incrList`
  (`Selection.c:813-823`). A later transfer under the same name puts a new one before it; a
  later timeout takes one of them out (`760-769`).
* XtOwnSelection by the widget that has the selection makes no request, yet sets a
  newer time: a SelectionClear in flight is then ignored and the widget believes for
  ever that it is the owner (`doc/Xt/CH11:813-817` has the rule for the time).
  `OwnerAnswers` is about the other direction only.
* XtDisownSelection of a selection that was already lost sets the new owner's
  selection to None.
* LoseSelection tests `--refcount` the wrong way round: the handler stays when the count
  is 0 and is removed when it is not, so that requests in the queue go unanswered.
* A failed XtOwnSelection by a second widget of the program leaves the first in
  `ctx->widget`; a destroyed requestor leaves its timer; PrepareIncremental does not set
  `prev` of the old head, so that who takes a record out takes out the head; a
  cleaned-up late INCR whose property nobody deletes loses its name for good; whether a
  sent value is freed is decided by the `notify` of the current owner record, not of the one it was
  converted for. The model leaves these cases out, or has them as the code does.

## 5. The proofs

`DispatchProofs` proves, from `DispatchAssumption` alone (so for every number of
descriptors and indices, every buffer size, with signals and failing writes):

| theorem | states |
|---|---|
| `Invariance` | `Spec => []IInv`, the inductive invariant |
| `TypeCorrect` | `Spec => []TypeOK` |
| `GrabIsExclusive` | `Spec => []GrabExcludesOthers` |
| `TurnsAreLive` | `Spec => RoundIsLive`, an action property |
| `CountIsExact` | `Spec => []ConnectionsCounted` |
| `GenerationsEndEmpty` | `Spec => GenerationEndsEmpty`, an action property |

None of these is inductive alone. `TypeOK` needs that `nextFreeClientID` stays below
`currentMaxClients` and that no client sits above it; `RoundIsLive` needs that an entry of
`ready` is of a client that was closed or still holds that descriptor, since nobody
gets the index of a closed client before the round ends, and that the client of the turn
has no entry left; the count needs all that, the position of the loop,
and facts about cardinalities of sets of indices that differ by one. The invariant is a
conjunction of named parts; the proof that a step keeps it has one lemma per action and,
under it, one step per part the action can disturb. Cardinalities come from the
library's `FiniteSetTheorems`.

`DispatchKeepProofs` and `DispatchGrabProofs` go on from `IInv`:

| theorem | states | if |
|---|---|---|
| `NoRequestStranded` | `Spec => []NoStrandedRequest` | |
| `RetainedAreKept` | `Spec => RetainedIsKept`, an action property | |
| `GrabConfines` | `Spec => []GrabConfinesInput` | no write fails, or nobody grabs |
| `NobodyIsForgotten` | `Spec => []NobodyForgotten` | no write fails, or nobody grabs |
| `OneClientEach` | `Spec => []OneClientPerDescriptor` | no write fails, or nobody grabs |

The condition is the fault of section 4 and nothing else is needed. A write that fails
closes a descriptor and leaves its client; during a grab CheckConnections does not look
at it, and accept() may give the descriptor to another client. Without that, no two
clients have one descriptor (`Bound`), and a client whose descriptor is closed is found
before it is given away (`Sure`). That a request is announced needs none of this:
whatever empties a buffer or clears a bit does it to the same descriptor.

`DeviceGrabsProofs` proves, from `DeviceGrabsAssumption` (any clients, windows, keys, grabs
and modes):

| theorem | states |
|---|---|
| `Invariance` | `Spec => []IInv` |
| `TypeCorrect` | `Spec => []TypeOK` |
| `HoldersAreConnected` | `Spec => []EndsInv`: grabs end with the connections of their clients, late ones excepted |
| `FreezesHaveGrabs` | `Spec => []FreezeHasAGrab` |
| `ButtonGrabsEnd` | `Spec => []ButtonGrabHasAButton` |
| `RightsAreKept` | `Spec => RightsKept`: DeviceGrabs implements GrabRights |

Its first half is about the helpers: what `Activated`, `Deactivated`, `Thaw`,
`DeliveredToGrab`, `FrozenWithEvent` do to a pair of devices that is `Exact` (`frozen` says
what freezes it, and every freeze has its grab). The invariant then says of the calls
in progress that each is one a request could have left there with the windows that are
viewable now (`CallAt`), and of the devices that they are `Exact` and that a button's
grab is `Fed` by a button that is down. That the client of a grab is connected needs to
know how far the closing of a client has got: a grab of the client that began before its
close-down is still to be released by it, before the connection goes (`ReleasedFirst`),
however many calls were nested in between. The refinement names, for each way a step can
change the devices, the step of `GrabRights` it is.

`PassiveGrabsProofs` proves, from `PassiveGrabsAssumption` (any keys, modifiers, clients):

| theorem | states |
|---|---|
| `Invariance` | `Spec => []IInv` |
| `TypeCorrect` | `Spec => []TypeOK` |
| `OneGrab` | `Spec => []OneGrabPerCombination` |
| `TableIsKept` | `Spec => TableKept`: PassiveGrabs implements GrabTable |

It goes up one level at a time: one dimension of a grab against a request's (the two
are related exactly if some value is meant by both; what is left when a value is taken
out means exactly the rest); both dimensions (two grabs match exactly if some
combination is common to both; the remainder means exactly what the request does not);
the list (every combination has one cover at most, before and after).

`XlibProofs` proves, from `XlibAssumption` (any width of sequence numbers, any buffer and
sockets, any promise of the program):

| theorem | states |
|---|---|
| `Invariance` | `Spec => []IInv` |
| `TypeCorrect` | `Spec => []TypeOK` |
| `SerialsTrue` | `Spec => []SerialsAreTrue` |
| `RepliesAwaited` | `Spec => []RepliesAreAwaited` |
| `BlocksWithReason` | `Spec => []BlocksForAReason` |

It begins with arithmetic: a widened number lies between the last one read and the true
one, and is the true one if that is less than `SeqSize` away (`WidenedRight`). The
invariant follows every request and message: each request is in the buffer, left to
write, on its way or served, and only the last may want a reply (`Pipeline`); messages come
in the order of their numbers, none older than what was read (`Ordered`); a reply is the
answer to the last request, so nothing but events follows it (`Answers`); and the program
keeps its promise (`Round`), which bounds how far a message can be ahead.

`OutputProofs` proves, from `OutputAssumption` (any number of connections, any size of a
buffer, of the kernel's and of a write, memory failing or not):

| theorem | states |
|---|---|
| `Invariance` | `Spec => []IInv` |
| `TypeCorrect` | `Spec => []TypeOK` |
| `NothingIsForgotten` | `Spec => []NothingForgotten` |
| `StreamIsKept` | `Spec => StreamKept`: Output implements Stream |

Connections do not touch each other, so the argument is about one of them. The invariant
says of each that what its peer has not read is in the kernel and then in the buffer,
numbered from one (`Sound`), and that a buffer with something in it has its bit in one of
the two masks (`Known`); `AnyClientsWriteBlocked` says truly whether any bit of
`ClientsWriteBlocked` is set (`Pending`). A step does one of seven things to a connection
(`Changes`: nothing, read, hang up, buffer, flush, close, open), and each keeps it in
order and is a step or a stutter of `Stream` (`Streams`). Then each operation is shown to
do only such things to every connection (`Orderly`).

`SelectionProofs` proves, from `SelectionAssumption` (any programs, calls, sizes of values and
times, whatever programs ask and when):

| theorem | states |
|---|---|
| `TypeCorrect` | `Spec => []TypeOK` |
| `AnsweredOnceTrue` | `Spec => []AnsweredOnce` |
| `IncrementHasRecordTrue` | `Spec => []IncrementHasRecord` |
| `OwnerAnswersTrue` | `Spec => []OwnerAnswers` |

The invariant says that a call whose timer runs or whose handler waits has not been
answered, unless its callback is just under way, and that programs handle nothing but
their own calls (`Answered`); that they never need more names than there were calls
(`Named`); that what is left of a transfer has its record (`IncrementHasRecord` itself);
that the counters are what the code takes them for, among them that the owner of the
selection has a reference and its handler although LoseSelection tests the count the
wrong way round (`Counted`); and that an owner has no SelectionClear to come that is as
new as its ownership, nor one as new as the next event will be (`OwnerKnows`).

`ValueIsWhole`, `PropertyIsFree` and `NothingOverwritten` are model-checked only. Out of the
prover's reach: liveness under fairness (`EveryRequestServed`, `BlockedAreRetried`,
`ConnectionsAnswered`, `DevicesThaw`, `CallsReturn`, `CallsEnd`, `EveryCallAnswered`), which TLC
checks on small instances. Every other property of the passing runs is stated by a
theorem; where a condition is named, the run that checks the property meets it.

## 6. Not modelled

Server: the contents of requests, replies and events; the screen saver's timeouts and
long requests that make input buffers grow; authorization under its alarm
(`connection.c:348`), whose verdict is a free choice; DECnet and TCP as separate
listeners; output while `writev` is still going on (its peer reads during it are peer
reads before it). Of events: focus other than PointerRoot, enter, leave and focus
events, cursor confinement, event selection and propagation beyond the listener of a
press, time stamps, ChangeActivePointerGrab. Of windows: everything a chain of viewable
windows does not have. Properties: append and prepend, rotation, the atom table.

Libraries: in Xlib requests that are merged with the last one in the buffer,
KeymapNotify, requests with several replies, extensions, the end of the connection,
and the hundreds of request functions except for whether they have a reply; in Xt
everything except selections, and of those XtGetSelectionValues, transfers within one
program, incremental owners (whose branches cannot be reached) and destroyed widgets.

Drawing (ddx), fonts, byte swapping, colormaps, the resource manager, geometry
management, xdm and the clients are not modelled: arithmetic and layout, sequential
table handling, or programs of their own. They are by far the most of the repository's
lines. Of the other parts, the table in section 1 and the `components` of `PROJECT.json`
say why.

## 7. Plan

1. *Done*: `Dispatch`, `DispatchProofs`; `Stream`, `Output`; `GrabRights`, `DeviceGrabs`,
   `DeviceGrabsProofs`; `GrabTable`, `PassiveGrabs`, `PassiveGrabsProofs`; `Xlib`,
   `XlibProofs`; `OutputProofs`; `DispatchKeepProofs`, `DispatchGrabProofs`; `Selection`,
   `SelectionProofs`.
2. `ClientDeath`: resources, selections, save sets freed when a client is closed, in the
   order of `CloseDownClient` and `FreeClientResources`.
3. xdm's display states (`clients/xdm/dm.c`): sessions, servers and signals.
4. Time stamps (`CompareTimeStamps`, 32 bits and the months counter), sharing of colour
   cells (`colormap.c`).
