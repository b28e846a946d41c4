-------------------------- MODULE DeviceGrabsProofs --------------------------
(***************************************************************************)
(* What holds of module DeviceGrabs for every set of clients, windows, keys,  *)
(* buttons and grabs and any number of queued events.                        *)
(***************************************************************************)
EXTENDS DeviceGrabs, TLAPS, SequenceTheorems

-----------------------------------------------------------------------------
(* The inductive invariant.                                                *)

\* A window is freed only after it was unmapped.
CallAt(v) == {c \in CallInProgress : c.call = "freed" => v < c.window}

IInv ==
    /\ TypeOK
    /\ todo \in Seq(CallAt(viewable))
    /\ FreezesAreGrabs
    /\ ButtonGrabHasAButton

\* The part of the invariant that is about the devices D alone, before and
\* after ComputeFreezes.
Sound(D) ==
    /\ D \in [Device -> DeviceState]
    /\ \A d \in Device :
        /\ D[d].other => D[Other(d)].grab # NoGrab
        /\ D[d].state # "NOT_GRABBED" <=> D[d].grab # NoGrab
Exact(D) ==
    /\ Sound(D)
    /\ \A d \in Device : D[d].frozen <=> D[d].other \/ D[d].state \in Frozen

\* A grab that a button started needs one of the buttons that are down.
Fed(D, keys) ==
    (D["pointer"].auto /\ D["pointer"].grab # NoGrab
        /\ D["pointer"].grab.how = "passive") => keys \cap Button # {}

\* No client is closed down by these calls.
NoClose(s) == \A i \in DOMAIN s : s[i].call # "close"

-----------------------------------------------------------------------------
(* What the operators on the devices return.                               *)

\* There are two devices.
LEMMA TwoDevices ==
    \A d \in Device : Other(d) \in Device /\ Other(d) # d /\ Other(Other(d)) = d
                      /\ \A x \in Device : x = d \/ x = Other(d)
BY DEF Device, Other

\* A grab is not the absence of one, and has a client.
LEMMA GrabsHaveClients ==
    /\ \A g \in Grab : g # NoGrab /\ g.client \in Client /\ g.client # Nobody
    /\ NoGrab.client = Nobody
<1>1. NoGrab.client = Nobody
    BY DEF NoGrab
<1>2. \A g \in Grab : g.client \in Client
    BY DEF Grab
<1> QED BY <1>1, <1>2, DeviceGrabsAssumption

\* The invariant of the devices, device by device.
LEMMA SoundTwo ==
    ASSUME NEW D, NEW d \in Device
    PROVE  LET o == Other(d)
           IN  /\ Sound(D) <=>
                    /\ D \in [Device -> DeviceState]
                    /\ D[d].other => D[o].grab # NoGrab
                    /\ D[o].other => D[d].grab # NoGrab
                    /\ D[d].state # "NOT_GRABBED" <=> D[d].grab # NoGrab
                    /\ D[o].state # "NOT_GRABBED" <=> D[o].grab # NoGrab
               /\ Exact(D) <=>
                    /\ Sound(D)
                    /\ D[d].frozen <=> D[d].other \/ D[d].state \in Frozen
                    /\ D[o].frozen <=> D[o].other \/ D[o].state \in Frozen
BY TwoDevices DEF Sound, Exact

\* ComputeFreezes makes "frozen" exact, and keeps the rest.
LEMMA RecomputedExact ==
    ASSUME NEW D, Sound(D)
    PROVE  /\ Exact(Recomputed(D))
           /\ \A d \in Device :
                /\ Recomputed(D)[d].grab = D[d].grab
                /\ Recomputed(D)[d].state = D[d].state
                /\ Recomputed(D)[d].other = D[d].other
                /\ Recomputed(D)[d].auto = D[d].auto
<1>1. \A d \in Device : D[d] \in DeviceState
    BY DEF Sound
<1>2. \A d \in Device :
        /\ Recomputed(D)[d] \in DeviceState
        /\ Recomputed(D)[d].grab = D[d].grab
        /\ Recomputed(D)[d].state = D[d].state
        /\ Recomputed(D)[d].other = D[d].other
        /\ Recomputed(D)[d].auto = D[d].auto
        /\ Recomputed(D)[d].frozen = (D[d].other \/ D[d].state \in Frozen)
    BY <1>1 DEF Recomputed, DeviceState
<1>3. Recomputed(D) \in [Device -> DeviceState]
    BY <1>2 DEF Recomputed
<1> QED BY <1>2, <1>3, TwoDevices, ZenonT(30) DEF Exact, Sound

\* An activated grab holds its device; the other device keeps its state, and
\* what it did to this one as long as it is another client's.
LEMMA ActivatedSound ==
    ASSUME NEW D, Sound(D), NEW d \in Device, NEW g \in Grab, NEW auto \in BOOLEAN
    PROVE  LET E == Activated(D, d, g, auto)
               o == Other(d)
           IN  /\ Exact(E)
               /\ E[d].grab = g /\ E[d].auto = auto
               /\ E[d].other => D[d].other
               /\ D[d].other /\ D[o].grab.client # g.client => E[d].other
               /\ E[o].grab = D[o].grab /\ E[o].state = D[o].state
               /\ E[o].auto = D[o].auto
<1> DEFINE A == [D EXCEPT ![d].grab = g, ![d].auto = auto]
           C == CheckedForSyncs(A, d, g)
           o == Other(d)
<1>0. o \in Device /\ o # d /\ D[d] \in DeviceState /\ D[o] \in DeviceState
    BY TwoDevices DEF Sound
<1>1. /\ A \in [Device -> DeviceState]
      /\ A[d].grab = g /\ A[d].auto = auto /\ A[o] = D[o]
      /\ A[d].other = D[d].other
    BY <1>0 DEF Sound, DeviceState
<1>2. /\ C \in [Device -> DeviceState]
      /\ C[d].grab = g /\ C[d].auto = auto
      /\ C[d].state \in {"FROZEN_NO_EVENT", "THAWED"}
      /\ C[d].other => D[d].other
      /\ D[d].other /\ D[o].grab.client # g.client => C[d].other
      /\ C[o].grab = D[o].grab /\ C[o].state = D[o].state /\ C[o].auto = D[o].auto
    <2> DEFINE keeps == A[d].other /\ ~(g.mode = "async" /\ A[d].other
                                            /\ Grabbed(A, o, g.client))
               state == IF g.mode = "sync" THEN "FROZEN_NO_EVENT" ELSE "THAWED"
               freezes == g.otherMode = "sync"
    <2>1. C = [A EXCEPT ![d].state = state, ![d].other = keeps,
                        ![o].other = freezes]
        BY DEF CheckedForSyncs
    <2>2. /\ state \in {"FROZEN_NO_EVENT", "THAWED"}
          /\ keeps \in BOOLEAN /\ freezes \in BOOLEAN
          /\ keeps => A[d].other
          /\ A[d].other /\ A[o].grab.client # g.client => keeps
        BY DEF Grabbed
    <2> HIDE DEF state, keeps, freezes, A
    <2>3. /\ A[d] \in DeviceState /\ A[o] \in DeviceState
          /\ {"FROZEN_NO_EVENT", "THAWED"} \subseteq SyncState
        BY <1>0, <1>1 DEF SyncState, Frozen
    <2>4. /\ C[d] = [A[d] EXCEPT !.state = state, !.other = keeps]
          /\ C[o] = [A[o] EXCEPT !.other = freezes]
          /\ \A x \in Device : x \in {d, o}
          /\ C \in [Device -> {C[d], C[o]}]
        BY <2>1, <1>0, <1>1, TwoDevices
    <2>5. C[d] \in DeviceState /\ C[o] \in DeviceState
        BY <2>2, <2>3, <2>4, ZenonT(30) DEF DeviceState
    <2>6. C \in [Device -> DeviceState]
        BY <2>4, <2>5
    <2>7. /\ C[d].grab = A[d].grab /\ C[d].auto = A[d].auto
          /\ C[d].state = state /\ C[d].other = keeps
          /\ C[o].grab = A[o].grab /\ C[o].state = A[o].state
          /\ C[o].auto = A[o].auto
        BY <2>3, <2>4 DEF DeviceState
    <2> QED BY <2>2, <2>6, <2>7, <1>1
<1>3. Sound(C)
    <2> HIDE DEF C
    <2>1. g # NoGrab
        BY GrabsHaveClients
    <2> QED BY <1>0, <1>2, <2>1, TwoDevices DEF Sound
<1>4. Activated(D, d, g, auto) = Recomputed(C)
    BY DEF Activated
<1> HIDE DEF C, A
<1> QED BY <1>0, <1>2, <1>3, <1>4, RecomputedExact

\* The end of a grab ends what it froze on the other device, and nothing else
\* of that device.
LEMMA DeactivatedSound ==
    ASSUME NEW D, Sound(D), NEW d \in Device
    PROVE  LET E == Deactivated(D, d)
               o == Other(d)
           IN  /\ Exact(E)
               /\ E[d].grab = NoGrab /\ E[d].state = "NOT_GRABBED"
               /\ E[d].other = D[d].other
               /\ E[o].grab = D[o].grab /\ E[o].state = D[o].state
               /\ E[o].auto = D[o].auto /\ E[o].other = FALSE
<1> DEFINE C == [D EXCEPT ![d].grab = NoGrab, ![d].state = "NOT_GRABBED",
                          ![d].auto = FALSE, ![Other(d)].other = FALSE]
           o == Other(d)
<1>1. /\ o \in Device /\ o # d /\ D[d] \in DeviceState /\ D[o] \in DeviceState
      /\ \A x \in Device : x = d \/ x = o
    BY TwoDevices DEF Sound
<1>2. /\ C[d] = [D[d] EXCEPT !.grab = NoGrab, !.state = "NOT_GRABBED", !.auto = FALSE]
      /\ C[o] = [D[o] EXCEPT !.other = FALSE]
      /\ C \in [Device -> {C[d], C[o]}]
    BY <1>1 DEF Sound
<1>3. /\ C \in [Device -> DeviceState]
      /\ C[d].grab = NoGrab /\ C[d].state = "NOT_GRABBED"
      /\ C[d].other = D[d].other
      /\ C[o].grab = D[o].grab /\ C[o].state = D[o].state
      /\ C[o].auto = D[o].auto /\ C[o].other = FALSE
    <2>1. C[d] \in DeviceState /\ C[o] \in DeviceState
        BY <1>1, <1>2, ZenonT(30) DEF DeviceState, SyncState
    <2>2. C \in [Device -> DeviceState]
        BY <1>2, <2>1
    <2> HIDE DEF C
    <2> QED BY <1>1, <1>2, <2>2 DEF DeviceState
<1>4. Sound(C)
    <2> HIDE DEF C
    <2> QED BY <1>1, <1>3, TwoDevices DEF Sound
<1>5. Deactivated(D, d) = Recomputed(C)
    BY DEF Deactivated
<1> HIDE DEF C
<1> QED BY <1>1, <1>3, <1>4, <1>5, RecomputedExact

\* A frozen device that gets an event to replay stays as frozen as it was.
LEMMA FrozenWithEventExact ==
    ASSUME NEW D, Exact(D), NEW d \in Device, NEW e \in Event \cup {NoEvent}
    PROVE  LET E == FrozenWithEvent(D, d, e)
           IN  /\ Exact(E)
               /\ \A x \in Device :
                    /\ E[x].grab = D[x].grab /\ E[x].auto = D[x].auto
                    /\ E[x].other = D[x].other
                    /\ E[x].state \in Frozen <=> D[x].state \in Frozen
<1>1. CASE D[d].state # "FROZEN_NO_EVENT"
    BY <1>1 DEF FrozenWithEvent
<1>2. CASE D[d].state = "FROZEN_NO_EVENT"
    <2> DEFINE E == FrozenWithEvent(D, d, e)
    <2>1. E = [D EXCEPT ![d].event = e, ![d].state = "FROZEN_WITH_EVENT"]
        BY <1>2 DEF FrozenWithEvent
    <2>2. /\ D \in [Device -> DeviceState] /\ D[d] \in DeviceState
          /\ \A x \in Device : x # d => E[x] = D[x]
          /\ E[d] = [D[d] EXCEPT !.event = e, !.state = "FROZEN_WITH_EVENT"]
        BY <2>1 DEF Exact, Sound
    <2>3. /\ E[d] \in DeviceState
          /\ E[d].grab = D[d].grab /\ E[d].auto = D[d].auto
          /\ E[d].other = D[d].other /\ E[d].frozen = D[d].frozen
          /\ E[d].state = "FROZEN_WITH_EVENT"
        BY <2>2 DEF DeviceState, SyncState, Frozen
    <2>4. E \in [Device -> DeviceState]
        BY <2>1, <2>2, <2>3
    <2> HIDE DEF E
    <2>5. \A x \in Device :
            /\ E[x].grab = D[x].grab /\ E[x].auto = D[x].auto
            /\ E[x].other = D[x].other /\ E[x].frozen = D[x].frozen
            /\ E[x].state \in Frozen <=> D[x].state \in Frozen
            /\ E[x].state # "NOT_GRABBED" <=> D[x].state # "NOT_GRABBED"
        BY <2>2, <2>3, <1>2 DEF Frozen
    <2> QED BY <2>4, <2>5, TwoDevices DEF Exact, Sound, E
<1> QED BY <1>1, <1>2

\* An event that is delivered to a grab freezes in the name of that grab, or
\* of the same client's grab of the other device.
LEMMA DeliveredSound ==
    ASSUME NEW D, Exact(D), NEW d \in Device, D[d].grab # NoGrab, NEW e \in Event
    PROVE  LET E == DeliveredToGrab(D, d, e)
               o == Other(d)
           IN  /\ Exact(E)
               /\ \A x \in Device :
                    E[x].grab = D[x].grab /\ E[x].auto = D[x].auto
               /\ E[d].other = D[d].other
               /\ \/ E[o].state = D[o].state
                  \/ D[o].grab.client = D[d].grab.client
<1> DEFINE o == Other(d)
           E == DeliveredToGrab(D, d, e)
           sleep == [D EXCEPT ![d].state = "FROZEN_WITH_EVENT",
                              ![d].frozen = TRUE, ![d].event = e]
           two == [sleep EXCEPT ![o].frozen = TRUE, ![o].state = "FROZEN_NO_EVENT"]
           one == [sleep EXCEPT ![o].frozen = TRUE, ![o].other = TRUE]
           both == D[o].state = "FREEZE_BOTH_NEXT_EVENT"
                    /\ Grabbed(D, o, D[d].grab.client)
<1>1. \/ E = D
      \/ E = sleep
      \/ E = two /\ both
      \/ E = one
    BY DEF DeliveredToGrab
<1>2. /\ o \in Device /\ o # d /\ D[d] \in DeviceState /\ D[o] \in DeviceState
      /\ \A x \in Device : x = d \/ x = o
      /\ D \in [Device -> DeviceState]
    BY TwoDevices DEF Exact, Sound
<1>3. /\ sleep \in [Device -> DeviceState]
      /\ sleep[d].grab = D[d].grab /\ sleep[d].auto = D[d].auto
      /\ sleep[d].other = D[d].other /\ sleep[d].frozen = TRUE
      /\ sleep[d].state = "FROZEN_WITH_EVENT" /\ sleep[o] = D[o]
    <2>1. sleep[d] = [D[d] EXCEPT !.state = "FROZEN_WITH_EVENT",
                                  !.frozen = TRUE, !.event = e]
        BY <1>2
    <2>2. sleep[d] \in DeviceState
        BY <2>1, <1>2 DEF DeviceState, SyncState, Frozen
    <2> QED BY <2>1, <2>2, <1>2 DEF DeviceState
<1>4. Exact(sleep)
    <2> HIDE DEF sleep
    <2> QED BY <1>2, <1>3, TwoDevices DEF Exact, Sound, Frozen
<1>5. CASE E = D
    BY <1>5
<1>6. CASE E = sleep
    <2> HIDE DEF sleep
    <2>1. \A x \in Device : sleep[x].grab = D[x].grab /\ sleep[x].auto = D[x].auto
        BY <1>2, <1>3
    <2> QED BY <1>6, <1>3, <1>4, <2>1
<1>7. CASE E = two /\ both
    <2> HIDE DEF sleep, E
    <2>1. /\ two[o] = [sleep[o] EXCEPT !.frozen = TRUE, !.state = "FROZEN_NO_EVENT"]
          /\ two[d] = sleep[d] /\ two \in [Device -> {two[d], two[o]}]
        BY <1>2, <1>3
    <2>2. /\ two[o] \in DeviceState
          /\ two[o].grab = D[o].grab /\ two[o].auto = D[o].auto
          /\ two[o].other = D[o].other /\ two[o].frozen = TRUE
          /\ two[o].state = "FROZEN_NO_EVENT"
        BY <2>1, <1>2, <1>3 DEF DeviceState, SyncState, Frozen
    <2>3. D[o].grab # NoGrab /\ D[o].grab.client = D[d].grab.client
        BY <1>7 DEF Grabbed
    <2> HIDE DEF two
    <2>4. Exact(two)
        <3>1. two \in [Device -> DeviceState]
            BY <2>1, <2>2, <1>3
        <3>2. /\ sleep[d].other => sleep[o].grab # NoGrab
              /\ sleep[o].other => sleep[d].grab # NoGrab
              /\ sleep[d].state # "NOT_GRABBED" <=> sleep[d].grab # NoGrab
              /\ sleep[d].frozen <=> sleep[d].other \/ sleep[d].state \in Frozen
            BY <1>4, SoundTwo DEF o
        <3>3. /\ two[d].other => two[o].grab # NoGrab
              /\ two[o].other => two[d].grab # NoGrab
              /\ two[d].state # "NOT_GRABBED" <=> two[d].grab # NoGrab
              /\ two[o].state # "NOT_GRABBED" <=> two[o].grab # NoGrab
              /\ two[d].frozen <=> two[d].other \/ two[d].state \in Frozen
            BY <3>2, <2>1, <2>2, <2>3, <1>3
        <3>4. two[o].frozen <=> two[o].other \/ two[o].state \in Frozen
            BY <2>2 DEF Frozen
        <3> QED BY <3>1, <3>3, <3>4, SoundTwo DEF o
    <2>5. \A x \in Device : two[x].grab = D[x].grab /\ two[x].auto = D[x].auto
        BY <2>1, <2>2, <1>2, <1>3, ZenonT(30)
    <2>6. two[d].other = D[d].other
        BY <2>1, <1>3
    <2> QED BY <1>7, <2>3, <2>4, <2>5, <2>6 DEF E
<1>8. CASE E = one
    <2> HIDE DEF sleep, E
    <2>1. /\ one[o] = [sleep[o] EXCEPT !.frozen = TRUE, !.other = TRUE]
          /\ one[d] = sleep[d] /\ one \in [Device -> {one[d], one[o]}]
        BY <1>2, <1>3
    <2>2. /\ one[o] \in DeviceState
          /\ one[o].grab = D[o].grab /\ one[o].auto = D[o].auto
          /\ one[o].other = TRUE /\ one[o].frozen = TRUE
          /\ one[o].state = D[o].state
        BY <2>1, <1>2, <1>3 DEF DeviceState
    <2> HIDE DEF one
    <2>3. Exact(one)
        <3>1. one \in [Device -> DeviceState]
            BY <2>1, <2>2, <1>3
        <3>2. /\ sleep[d].other => sleep[o].grab # NoGrab
              /\ sleep[d].state # "NOT_GRABBED" <=> sleep[d].grab # NoGrab
              /\ sleep[o].state # "NOT_GRABBED" <=> sleep[o].grab # NoGrab
              /\ sleep[d].frozen <=> sleep[d].other \/ sleep[d].state \in Frozen
            BY <1>4, SoundTwo DEF o
        <3>3. /\ one[d].other => one[o].grab # NoGrab
              /\ one[d].grab # NoGrab
              /\ one[d].state # "NOT_GRABBED"
              /\ one[o].state # "NOT_GRABBED" <=> one[o].grab # NoGrab
              /\ one[d].frozen <=> one[d].other \/ one[d].state \in Frozen
              /\ one[o].frozen /\ one[o].other
            BY <3>2, <2>1, <2>2, <1>3
        <3> QED BY <3>1, <3>3, SoundTwo DEF o
    <2>4. \A x \in Device : one[x].grab = D[x].grab /\ one[x].auto = D[x].auto
        BY <2>1, <2>2, <1>2, <1>3, ZenonT(30)
    <2>5. one[d].other = D[d].other /\ one[o].state = D[o].state
        BY <2>1, <2>2, <1>3
    <2> QED BY <1>8, <2>3, <2>4, <2>5 DEF E
<1> HIDE DEF E, one, two, sleep
<1> QED BY <1>1, <1>5, <1>6, <1>7, <1>8, ZenonT(30)

\* A client that thaws a device changes what its own grabs do.
LEMMA ThawSound ==
    ASSUME NEW D, Sound(D), NEW d \in Device, NEW c \in Client,
           NEW state \in SyncState, state # "NOT_GRABBED"
    PROVE  LET E == Thaw(D, d, c, state)
               o == Other(d)
           IN  /\ Sound(E)
               /\ \A x \in Device :
                    E[x].grab = D[x].grab /\ E[x].auto = D[x].auto
               /\ E[o].state = D[o].state /\ E[o].other = D[o].other
               /\ E[d].state = D[d].state \/ D[d].grab.client = c
               /\ E[d].other = D[d].other \/ D[o].grab.client = c
<1> DEFINE o == Other(d)
           new == IF Grabbed(D, d, c) THEN state ELSE D[d].state
           other == D[d].other /\ ~Grabbed(D, o, c)
           E == [D EXCEPT ![d].state = new, ![d].other = other]
<1>1. Thaw(D, d, c, state) = E
    BY DEF Thaw
<1>2. /\ o \in Device /\ o # d /\ D[d] \in DeviceState /\ D[o] \in DeviceState
      /\ \A x \in Device : x = d \/ x = o
      /\ D \in [Device -> DeviceState]
      /\ D[d].state \in SyncState /\ D[d].other \in BOOLEAN
    BY TwoDevices DEF Sound, DeviceState
<1>3. /\ new \in SyncState /\ other \in BOOLEAN
      /\ new = D[d].state \/ D[d].grab.client = c
      /\ other => D[d].other
      /\ other = D[d].other \/ D[o].grab.client = c
      /\ new # "NOT_GRABBED" <=> D[d].state # "NOT_GRABBED"
    <2>1. /\ new \in SyncState /\ other \in BOOLEAN
          /\ new = D[d].state \/ D[d].grab.client = c
          /\ other => D[d].other
          /\ other = D[d].other \/ D[o].grab.client = c
        BY <1>2 DEF Grabbed
    <2>2. new # "NOT_GRABBED" <=> D[d].state # "NOT_GRABBED"
        BY DEF Grabbed, Sound
    <2> QED BY <2>1, <2>2
<1> HIDE DEF new, other
<1>4. /\ E[d] = [D[d] EXCEPT !.state = new, !.other = other]
      /\ E[o] = D[o] /\ E \in [Device -> {E[d], E[o]}]
    BY <1>2
<1>5. /\ E[d] \in DeviceState /\ E[d].state = new /\ E[d].other = other
      /\ E[d].grab = D[d].grab /\ E[d].auto = D[d].auto
    BY <1>2, <1>3, <1>4 DEF DeviceState
<1> HIDE DEF E
<1>6. Sound(E)
    <2>1. E \in [Device -> DeviceState]
        BY <1>2, <1>4, <1>5
    <2>2. /\ D[d].other => D[o].grab # NoGrab
          /\ D[o].other => D[d].grab # NoGrab
          /\ D[d].state # "NOT_GRABBED" <=> D[d].grab # NoGrab
          /\ D[o].state # "NOT_GRABBED" <=> D[o].grab # NoGrab
        BY SoundTwo DEF o
    <2>3. E[d].other => E[o].grab # NoGrab
        BY <2>2, <1>3, <1>4, <1>5
    <2>4. /\ E[o].other => E[d].grab # NoGrab
          /\ E[d].state # "NOT_GRABBED" <=> E[d].grab # NoGrab
          /\ E[o].state # "NOT_GRABBED" <=> E[o].grab # NoGrab
        BY <2>2, <1>3, <1>4, <1>5
    <2> QED BY <2>1, <2>3, <2>4, SoundTwo DEF o
<1> QED BY <1>1, <1>2, <1>3, <1>4, <1>5, <1>6

-----------------------------------------------------------------------------
(* Steps of the devices as steps of GrabRights.                            *)

Holds(D) == [d \in Device |-> D[d].grab.client]
FrozenBy(D) ==
    [d \in Device |-> {g \in Device : IF g = d THEN D[d].state \in Frozen
                                               ELSE D[d].other}]

\* Whose freezes differ between two states of the devices.
LEMMA FreezesKept ==
    ASSUME NEW D, NEW E, NEW gs, NEW d \in Device,
           d \in gs \/ (D[d].state \in Frozen <=> E[d].state \in Frozen),
           Other(d) \in gs \/ D[d].other = E[d].other
    PROVE  FrozenBy(E)[d] \ gs = FrozenBy(D)[d] \ gs
<1>1. \A g \in Device : g \notin gs =>
        (g \in FrozenBy(E)[d] <=> g \in FrozenBy(D)[d])
    BY TwoDevices DEF FrozenBy
<1>2. FrozenBy(E)[d] \subseteq Device /\ FrozenBy(D)[d] \subseteq Device
    BY DEF FrozenBy
<1> QED BY <1>1, <1>2

\* The mapping of the refinement, before and after a step.
LEMMA Mapping ==
    /\ Holds(dev) = [d \in Device |-> dev[d].grab.client]
    /\ FrozenBy(dev) = [d \in Device |-> {g \in Device :
            IF g = d THEN dev[d].state \in Frozen ELSE dev[d].other}]
    /\ FrozenBy(dev) \in [Device -> SUBSET Device]
BY DEF Holds, FrozenBy

\* An activated grab takes its device, or has it handed on.
LEMMA TakeStep ==
    ASSUME Exact(dev), Exact(dev'), NEW d \in Device, NEW g \in Grab,
           dev[d].grab = NoGrab \/ dev[d].grab.client = g.client,
           dev[d].other => dev[Other(d)].grab.client = g.client,
           dev[d].state \in Frozen => dev[d].grab.client = g.client,
           dev'[d].grab = g, dev'[Other(d)].grab = dev[Other(d)].grab,
           dev'[Other(d)].state \in Frozen <=> dev[Other(d)].state \in Frozen,
           dev'[d].other => dev[d].other
    PROVE  Rights!Take(g.client, d)
<1> DEFINE c == g.client
           o == Other(d)
           gs == {x \in Device : Holds(dev')[x] = c}
<1>1. o \in Device /\ o # d /\ \A x \in Device : x = d \/ x = o
    BY TwoDevices
<1>2. Holds(dev') = [Holds(dev) EXCEPT ![d] = c]
    BY <1>1 DEF Holds
<1>3. Holds(dev)[d] \in {Nobody, c}
    BY GrabsHaveClients DEF Holds
<1>4. \A x \in FrozenBy(dev)[d] : Holds(dev)[x] = c
    BY <1>1 DEF Holds, FrozenBy
<1>5. FrozenBy(dev') \in [Device -> SUBSET Device]
    BY DEF FrozenBy
<1>6. d \in gs
    BY DEF Holds
<1>7. o \in gs \/ dev'[d].other = dev[d].other
    <2>1. dev[d].other \in BOOLEAN /\ dev'[d].other \in BOOLEAN
        BY DEF Exact, Sound, DeviceState
    <2>2. CASE dev[d].other
        BY <2>1, <2>2, <1>1 DEF Holds
    <2>3. CASE ~dev[d].other
        BY <2>1, <2>3
    <2> QED BY <2>2, <2>3
<1>8. \A x \in Device : FrozenBy(dev')[x] \ gs = FrozenBy(dev)[x] \ gs
    <2> HIDE DEF gs
    <2>1. FrozenBy(dev')[d] \ gs = FrozenBy(dev)[d] \ gs
        <3>1. Other(d) \in gs \/ dev[d].other = dev'[d].other
            BY <1>7 DEF o
        <3> HIDE DEF o
        <3> QED BY <3>1, <1>6, FreezesKept
    <2>2. FrozenBy(dev')[o] \ gs = FrozenBy(dev)[o] \ gs
        BY <1>1, <1>6, FreezesKept, TwoDevices DEF o
    <2> QED BY <1>1, <2>1, <2>2
<1> QED BY <1>2, <1>3, <1>4, <1>5, <1>8
        DEF Rights!Take, Rights!FreezesOnlyOf, Holds, FrozenBy

LEMMA HandOnStep ==
    ASSUME Exact(dev), Exact(dev'), NEW d \in Device, NEW g \in Grab,
           dev[d].grab # NoGrab,
           dev'[d].grab = g, dev'[Other(d)].grab = dev[Other(d)].grab,
           dev'[Other(d)].state \in Frozen <=> dev[Other(d)].state \in Frozen,
           \/ dev'[d].other = dev[d].other
           \/ dev[Other(d)].grab.client = g.client
    PROVE  Rights!HandOn(g.client, d)
<1> DEFINE c == g.client
           o == Other(d)
           gs == {x \in Device : Holds(dev')[x] = c} \cup {d}
<1>1. o \in Device /\ o # d /\ \A x \in Device : x = d \/ x = o
    BY TwoDevices
<1>2. Holds(dev') = [Holds(dev) EXCEPT ![d] = c]
    BY <1>1 DEF Holds
<1>3. Holds(dev)[d] # Nobody
    BY GrabsHaveClients DEF Holds, Exact, Sound, DeviceState
<1>4. FrozenBy(dev') \in [Device -> SUBSET Device]
    BY DEF FrozenBy
<1>5. d \in gs /\ (o \in gs \/ dev'[d].other = dev[d].other)
    BY <1>1 DEF Holds
<1>6. \A x \in Device : FrozenBy(dev')[x] \ gs = FrozenBy(dev)[x] \ gs
    <2> HIDE DEF gs
    <2>1. FrozenBy(dev')[d] \ gs = FrozenBy(dev)[d] \ gs
        <3>1. Other(d) \in gs \/ dev[d].other = dev'[d].other
            BY <1>5 DEF o
        <3> HIDE DEF o
        <3> QED BY <3>1, <1>5, FreezesKept
    <2>2. FrozenBy(dev')[o] \ gs = FrozenBy(dev)[o] \ gs
        BY <1>1, <1>5, FreezesKept, TwoDevices DEF o
    <2> QED BY <1>1, <2>1, <2>2
<1> QED BY <1>2, <1>3, <1>4, <1>6
        DEF Rights!HandOn, Rights!FreezesOnlyOf, Holds, FrozenBy

\* A deactivated grab lets go.
LEMMA LetGoStep ==
    ASSUME NEW d \in Device,
           dev'[d].grab = NoGrab, dev'[Other(d)].grab = dev[Other(d)].grab,
           dev'[d].state = "NOT_GRABBED", dev'[d].other = dev[d].other,
           dev'[Other(d)].state = dev[Other(d)].state,
           dev'[Other(d)].other = FALSE
    PROVE  Rights!LetGo(d)
<1> DEFINE o == Other(d)
<1>1. o \in Device /\ o # d /\ \A x \in Device : x = d \/ x = o
    BY TwoDevices
<1>2. Holds(dev') = [Holds(dev) EXCEPT ![d] = Nobody]
    BY <1>1, GrabsHaveClients DEF Holds
<1>3. FrozenBy(dev') = [x \in Device |-> FrozenBy(dev)[x] \ {d}]
    <2>1. FrozenBy(dev')[d] = FrozenBy(dev)[d] \ {d}
        BY <1>1 DEF FrozenBy, Frozen
    <2>2. FrozenBy(dev')[o] = FrozenBy(dev)[o] \ {d}
        BY <1>1 DEF FrozenBy, Frozen
    <2>3. FrozenBy(dev') = [x \in Device |-> FrozenBy(dev')[x]]
        BY DEF FrozenBy
    <2>4. \A x \in Device : FrozenBy(dev')[x] = FrozenBy(dev)[x] \ {d}
        BY <1>1, <2>1, <2>2
    <2> HIDE DEF o
    <2> QED BY <2>3, <2>4
<1> QED BY <1>2, <1>3 DEF Rights!LetGo, Holds, FrozenBy

\* Freezes and thaws in the name of one client's grabs.
LEMMA SyncStep ==
    ASSUME NEW c \in Client,
           \A d \in Device :
              /\ dev'[d].grab = dev[d].grab
              /\ (dev'[d].state = dev[d].state) \/ dev[d].grab.client = c
              /\ (dev'[d].other = dev[d].other) \/ dev[Other(d)].grab.client = c
    PROVE  Rights!Sync(c)
<1> DEFINE gs == {x \in Device : Holds(dev)[x] = c}
<1>1. Holds(dev') = Holds(dev)
    BY DEF Holds
<1>2. FrozenBy(dev') \in [Device -> SUBSET Device]
    BY DEF FrozenBy
<1>3. \A d \in Device : /\ d \in gs <=> dev[d].grab.client = c
                        /\ Other(d) \in gs <=> dev[Other(d)].grab.client = c
    BY TwoDevices DEF Holds
<1>4. \A d \in Device : FrozenBy(dev')[d] \ gs = FrozenBy(dev)[d] \ gs
    <2> HIDE DEF gs
    <2> TAKE d \in Device
    <2>1. d \in gs \/ (dev[d].state \in Frozen <=> dev'[d].state \in Frozen)
        BY <1>3
    <2>2. Other(d) \in gs \/ dev[d].other = dev'[d].other
        BY <1>3
    <2> QED BY <2>1, <2>2, FreezesKept
<1> QED BY <1>1, <1>2, <1>4 DEF Rights!Sync, Rights!FreezesOnlyOf, Holds, FrozenBy

-----------------------------------------------------------------------------
(* What the helpers of the actions return.                                 *)

\* The calls in progress are well-formed.
LEMMA CallsTyped ==
    ASSUME NEW v \in Int
    PROVE  /\ \A i \in Nat \ {0} : PlayFrom(i) \in CallAt(v)
           /\ \A e \in Event : Process(e) \in CallAt(v) /\ FinishPassive(e) \in CallAt(v)
           /\ \A c \in Client, d \in Device : Release(c, d) \in CallAt(v)
           /\ \A c \in Client, m \in CloseDownModes \cup {"Kill"} :
                CloseDown(c, m) \in CallAt(v)
           /\ \A c \in Client : FreePassive(c) \in CallAt(v)
           /\ \A w \in 2..Depth : Destroy(w) \in CallAt(v)
           /\ \A w \in 2..Depth, d \in Device : DeleteFrom(w, d) \in CallAt(v)
           /\ \A w \in 2..Depth : v < w => Freed(w) \in CallAt(v)
           /\ Restructured \in CallAt(v)
BY DEF CallAt, CallInProgress, PlayFrom, Process, FinishPassive, Release, CloseDown,
       FreePassive, Destroy, DeleteFrom, Freed, Restructured

\* What a call in progress carries.
LEMMA CallsCarry ==
    ASSUME NEW v \in Int, NEW c \in CallAt(v)
    PROVE  /\ c.call = "play" => c.at \in Nat \ {0}
           /\ c.call \in {"process", "passive"} => c.event \in Event
           /\ c.call = "release" => c.client \in Client /\ c.dev \in Device
           /\ c.call = "close" => /\ c.client \in Client
                                  /\ c.mode \in CloseDownModes \cup {"Kill"}
           /\ c.call = "delete" => c.window \in 2..Depth /\ c.dev \in Device
           /\ c.call \in {"destroy", "freed"} => c.window \in 2..Depth
           /\ c.call = "freed" => v < c.window
BY DEF CallAt, CallInProgress

\* A call before those in progress.
LEMMA CallFirst ==
    ASSUME NEW S, NEW c \in S, NEW rest \in Seq(S)
    PROVE  <<c>> \o rest \in Seq(S)
<1>1. <<c>> \in Seq(S)
    OBVIOUS
<1> QED BY <1>1, ConcatProperties

LEMMA ThenPlayTyped ==
    ASSUME NEW v \in Int, NEW rest \in Seq(CallAt(v))
    PROVE  ThenPlay(rest) \in Seq(CallAt(v))
BY CallsTyped, CallFirst DEF ThenPlay

\* EnqueueEvent and the queue without an event
LEMMA EnqueuedTyped ==
    ASSUME NEW q \in Seq(Event), NEW e \in Event
    PROVE  Enqueued(q, e) \in Seq(Event)
<1>1. CASE e.type = "motion" /\ q # <<>> /\ Last(q).type = "motion"
    <2>1. Len(q) \in 1..Len(q)
        BY <1>1
    <2> QED BY <1>1, <2>1, ExceptSeq DEF Enqueued
<1>2. CASE ~(e.type = "motion" /\ q # <<>> /\ Last(q).type = "motion")
    BY <1>2, AppendProperties DEF Enqueued
<1> QED BY <1>1, <1>2

LEMMA RemoveAtTyped ==
    ASSUME NEW q \in Seq(Event), NEW i \in 1..Len(q)
    PROVE  RemoveAt(q, i) \in Seq(Event)
<1>1. \A j \in 1..(i - 1) : q[j] \in Event
    OBVIOUS
<1>2. \A j \in (i + 1)..Len(q) : q[j] \in Event
    OBVIOUS
<1>3. SubSeq(q, 1, i - 1) \in Seq(Event)
    BY <1>1, SubSeqProperties
<1>4. SubSeq(q, i + 1, Len(q)) \in Seq(Event)
    BY <1>2, SubSeqProperties
<1> QED BY <1>3, <1>4, ConcatProperties DEF RemoveAt

\* The grabs that presses start.
LEMMA GrabsTyped ==
    ASSUME TypeOK
    PROVE  /\ \A p \in passive, how \in {"active", "passive", "replay"} :
                GrabOf(p, how) \in Grab /\ GrabOf(p, how).client = p.client
           /\ \A g \in ActiveGrab, how \in {"active", "passive", "replay"} :
                GrabOf(g, how) \in Grab /\ GrabOf(g, how).client = g.client
           /\ \A e \in Event \cup {NoEvent}, how \in {"active", "passive", "replay"} :
                \A g \in AutomaticGrabs(e, how) : g \in Grab
<1>4. \A c : Late(c) \in BOOLEAN
    BY DEF Late
<1>1. \A e \in Event \cup {NoEvent}, how \in {"active", "passive", "replay"} :
        \A g \in AutomaticGrabs(e, how) : g \in Grab
    <2> SUFFICES ASSUME NEW how \in {"active", "passive", "replay"},
                        NEW w \in 1..sprite, Listener[w] \in connected
                 PROVE  AutomaticGrab(w, how) \in Grab
        BY DEF AutomaticGrabs, Receivers
    <2>1. w \in Window /\ Listener[w] \in Client
        BY DeviceGrabsAssumption DEF TypeOK, Window
    <2> QED BY <1>4, <2>1 DEF AutomaticGrab, Grab, Mode
<1>2. \A g \in ActiveGrab : /\ g.client \in Client /\ g.window \in Window
                            /\ g.mode \in Mode /\ g.otherMode \in Mode
    BY DeviceGrabsAssumption
<1>3. \A p \in passive : /\ p.client \in Client /\ p.window \in Window
                         /\ p.mode \in Mode /\ p.otherMode \in Mode
    BY DeviceGrabsAssumption DEF TypeOK
<1> QED BY <1>1, <1>2, <1>3, <1>4 DEF GrabOf, Grab

\* What an event carries.
LEMMA EventsCarry ==
    ASSUME NEW e \in Event
    PROVE  /\ e.dev \in Device
           /\ e.type \in {"press", "release", "motion"}
           /\ e.type # "motion" => e.detail \in On(e.dev)
           /\ \A t \in {"press", "release"} :
                e.type # "motion" => [e EXCEPT !.type = t] \in Event
<1>1. CASE e \in [dev : {"keyboard"}, type : {"press", "release"}, detail : Key]
    BY <1>1 DEF Event, Device, On
<1>2. CASE e \in [dev : {"pointer"}, type : {"press", "release"}, detail : Button]
    BY <1>2 DEF Event, Device, On
<1>3. CASE e \in [dev : {"pointer"}, type : {"motion"}, detail : {Nobody}]
    BY <1>3 DEF Device
<1> QED BY <1>1, <1>2, <1>3 DEF Event

-----------------------------------------------------------------------------
(* Processing an event.                                                    *)

\* What a step promises about the devices and the calls in progress.
InputKept ==
    /\ Exact(dev') /\ Fed(dev', down')
    /\ down' \subseteq Key \cup Button /\ activator' \in Key \cup {Nobody}
    /\ queue' \in Seq(Event) /\ todo' \in Seq(CallAt(viewable))
    /\ [Rights!Next]_(Rights!vars)

\* The invariant in the form the lemmas on the devices use.
LEMMA InvDevices ==
    ASSUME IInv
    PROVE  /\ Sound(dev) /\ Exact(dev) /\ Fed(dev, down)
           /\ down \subseteq Key \cup Button /\ activator \in Key \cup {Nobody}
           /\ queue \in Seq(Event) /\ todo \in Seq(CallAt(viewable))
           /\ viewable \in Int /\ dev \in [Device -> DeviceState]
BY DEF IInv, TypeOK, FreezesAreGrabs, ButtonGrabHasAButton, Exact, Sound, Fed, Window

\* A step that leaves the devices alone.
LEMMA SameDevices ==
    ASSUME dev' = dev
    PROVE  [Rights!Next]_(Rights!vars)
BY DEF Rights!vars

\* A device that is not frozen and not grabbed is taken.
LEMMA TakenWhenFree ==
    ASSUME Exact(dev), NEW d \in Device, NEW g \in Grab, NEW auto \in BOOLEAN,
           ~dev[d].frozen, dev[d].grab = NoGrab
    PROVE  LET E == Activated(dev, d, g, auto)
           IN  /\ Exact(E)
               /\ E[Other(d)].grab = dev[Other(d)].grab
               /\ E[Other(d)].auto = dev[Other(d)].auto
               /\ dev' = E => [Rights!Next]_(Rights!vars)
               /\ \A e \in Event : dev' = FrozenWithEvent(E, d, e)
                                        => [Rights!Next]_(Rights!vars)
<1> DEFINE E == Activated(dev, d, g, auto)
           o == Other(d)
<1>1. /\ Exact(E) /\ E[d].grab = g /\ E[o].grab = dev[o].grab
      /\ E[o].state = dev[o].state /\ (E[d].other => dev[d].other)
      /\ E[o].auto = dev[o].auto
    BY ActivatedSound DEF Exact
<1>2. ~dev[d].other /\ dev[d].state \notin Frozen
    BY DEF Exact
<1>3. g.client \in Client
    BY GrabsHaveClients
<1> HIDE DEF E, o
<1>4. ASSUME dev' = E
      PROVE  [Rights!Next]_(Rights!vars)
    <2>1. Rights!Take(g.client, d)
        BY <1>1, <1>2, <1>4, TakeStep DEF o
    <2> QED BY <2>1, <1>3 DEF Rights!Next
<1>5. ASSUME NEW e \in Event, dev' = FrozenWithEvent(E, d, e)
      PROVE  [Rights!Next]_(Rights!vars)
    <2>1. /\ Exact(dev')
          /\ \A x \in Device : /\ dev'[x].grab = E[x].grab
                               /\ dev'[x].other = E[x].other
                               /\ dev'[x].state \in Frozen <=> E[x].state \in Frozen
        BY <1>1, <1>5, FrozenWithEventExact
    <2>2. Rights!Take(g.client, d)
        <3>1. o \in Device
            BY TwoDevices DEF o
        <3>2. /\ dev'[d].grab = g /\ dev'[o].grab = dev[o].grab
              /\ dev'[o].state \in Frozen <=> dev[o].state \in Frozen
              /\ dev'[d].other => dev[d].other
            BY <3>1, <2>1, <1>1
        <3> QED BY <3>2, <2>1, <1>2, TakeStep DEF o
    <2> QED BY <2>2, <1>3 DEF Rights!Next
<1> QED BY <1>1, <1>4, <1>5 DEF E, o

LEMMA LetGo ==
    ASSUME Exact(dev), NEW d \in Device
    PROVE  /\ Exact(Deactivated(dev, d))
           /\ dev' = Deactivated(dev, d) => [Rights!Next]_(Rights!vars)
<1> DEFINE E == Deactivated(dev, d)
           o == Other(d)
<1>1. /\ Exact(E)
      /\ E[d].grab = NoGrab /\ E[d].state = "NOT_GRABBED"
      /\ E[d].other = dev[d].other
      /\ E[o].grab = dev[o].grab /\ E[o].state = dev[o].state /\ E[o].other = FALSE
    <2>1. Sound(dev)
        BY DEF Exact
    <2> QED BY <2>1, DeactivatedSound
<1> HIDE DEF E
<1>2. ASSUME dev' = E
      PROVE  [Rights!Next]_(Rights!vars)
    <2>1. Rights!LetGo(d)
        BY <1>1, <1>2, LetGoStep
    <2> QED BY <2>1 DEF Rights!Next
<1> QED BY <1>1, <1>2 DEF E

\* An event delivered to the grab of its device
LEMMA Delivered ==
    ASSUME Exact(dev), NEW d \in Device, dev[d].grab # NoGrab, NEW e \in Event
    PROVE  LET E == DeliveredToGrab(dev, d, e)
           IN  /\ Exact(E)
               /\ \A x \in Device :
                    E[x].grab = dev[x].grab /\ E[x].auto = dev[x].auto
               /\ dev' = E => [Rights!Next]_(Rights!vars)
<1> DEFINE E == DeliveredToGrab(dev, d, e)
           o == Other(d)
<1>1. PICK c \in Client : c = dev[d].grab.client
    BY GrabsHaveClients DEF Exact, Sound, DeviceState
<1>2. /\ Exact(E)
      /\ \A x \in Device : E[x].grab = dev[x].grab /\ E[x].auto = dev[x].auto
      /\ E[d].other = dev[d].other
      /\ E[o].state = dev[o].state \/ dev[o].grab.client = c
    BY <1>1, DeliveredSound
<1> HIDE DEF E
<1>3. ASSUME dev' = E
      PROVE  [Rights!Next]_(Rights!vars)
    <2>1. \A x \in Device :
            /\ dev'[x].grab = dev[x].grab
            /\ dev'[x].state = dev[x].state \/ dev[x].grab.client = c
            /\ dev'[x].other = dev[x].other \/ dev[Other(x)].grab.client = c
        BY <1>1, <1>2, <1>3, TwoDevices
    <2>2. Rights!Sync(c)
        BY <2>1, SyncStep
    <2> QED BY <2>2 DEF Rights!Next
<1> QED BY <1>2, <1>3 DEF E

\* The pointer's grab stays fed while it and the buttons stay.
LEMMA FedKept ==
    ASSUME NEW D, NEW E, NEW keys, NEW more, Fed(D, keys),
           E["pointer"].grab = D["pointer"].grab,
           E["pointer"].auto = D["pointer"].auto,
           keys \cap Button \subseteq more
    PROVE  Fed(E, more)
BY DEF Fed

LEMMA PassiveGrabStarts ==
    ASSUME IInv, NEW e \in Event, NEW q \in Seq(Event),
           NEW rest \in Seq(CallAt(viewable)), StartPassiveGrab(e, q, rest)
    PROVE  InputKept
<1>1. /\ ~dev[e.dev].frozen /\ e.type = "press"
      /\ down' = down \cup {e.detail} /\ queue' = q
      /\ dev[e.dev].grab = NoGrab
    BY DEF StartPassiveGrab, Pressed
<1>2. PICK p \in FirstMatch(e, 1) :
        LET D == Activated(dev, e.dev, GrabOf(p, "passive"), TRUE)
        IN  IF Playing(rest)
            THEN /\ dev' = FrozenWithEvent(D, e.dev, e)
                 /\ activator' = IF e.dev = "keyboard" THEN e.detail ELSE activator
                 /\ todo' = rest
            ELSE /\ dev' = D
                 /\ todo' = <<PlayFrom(1), FinishPassive(e)>> \o rest
                 /\ UNCHANGED activator
    BY DEF StartPassiveGrab
<1>3. /\ e.dev \in Device /\ e.detail \in On(e.dev)
      /\ e.dev = "keyboard" => e.detail \in Key
      /\ e.dev = "pointer" => e.detail \in Button
      /\ e.detail \in Key \cup Button
    BY <1>1, EventsCarry DEF On, Device
<1>4. PICK g \in Grab : g = GrabOf(p, "passive")
    BY <1>2, GrabsTyped DEF FirstMatch, Matching, IInv
<1> DEFINE D == Activated(dev, e.dev, g, TRUE)
<1>5. /\ Exact(D)
      /\ D[Other(e.dev)].grab = dev[Other(e.dev)].grab
      /\ D[Other(e.dev)].auto = dev[Other(e.dev)].auto
      /\ dev' = D => [Rights!Next]_(Rights!vars)
      /\ dev' = FrozenWithEvent(D, e.dev, e) => [Rights!Next]_(Rights!vars)
    BY <1>1, <1>3, InvDevices, TakenWhenFree
<1> HIDE DEF D
<1>7. Fed(D, down')
    <2>1. CASE e.dev = "pointer"
        <3>1. down' \cap Button # {}
            BY <2>1, <1>1, <1>3
        <3> QED BY <3>1 DEF Fed
    <2>2. CASE e.dev = "keyboard"
        <3>1. Other(e.dev) = "pointer"
            BY <2>2 DEF Other
        <3>2. /\ D["pointer"].grab = dev["pointer"].grab
              /\ D["pointer"].auto = dev["pointer"].auto
              /\ down \cap Button \subseteq down'
            BY <3>1, <1>1, <1>5
        <3> QED BY <3>2, InvDevices, FedKept
    <2> QED BY <2>1, <2>2, <1>3 DEF Device
<1>8. CASE Playing(rest)
    <2>1. /\ dev' = FrozenWithEvent(D, e.dev, e)
          /\ activator' = IF e.dev = "keyboard" THEN e.detail ELSE activator
          /\ todo' = rest
        BY <1>2, <1>4, <1>8 DEF D
    <2>2. Exact(dev') /\ \A x \in Device : dev'[x].grab = D[x].grab
                                            /\ dev'[x].auto = D[x].auto
        BY <2>1, <1>3, <1>5, FrozenWithEventExact
    <2>3. Fed(dev', down')
        <3>1. "pointer" \in Device
            BY DEF Device
        <3> QED BY <3>1, <2>2, <1>7, FedKept
    <2> QED BY <2>1, <2>2, <2>3, <1>1, <1>3, <1>5, InvDevices DEF InputKept
<1>9. CASE ~Playing(rest)
    <2>1. /\ dev' = D
          /\ todo' = <<PlayFrom(1), FinishPassive(e)>> \o rest
          /\ activator' = activator
        BY <1>2, <1>4, <1>9 DEF D
    <2>2. todo' \in Seq(CallAt(viewable))
        <3>1. PlayFrom(1) \in CallAt(viewable) /\ FinishPassive(e) \in CallAt(viewable)
            BY CallsTyped, InvDevices
        <3>2. <<PlayFrom(1), FinishPassive(e)>> \in Seq(CallAt(viewable))
            BY <3>1
        <3> QED BY <2>1, <3>2, ConcatProperties
    <2> QED BY <2>1, <2>2, <1>1, <1>3, <1>5, <1>7, InvDevices DEF InputKept
<1> QED BY <1>8, <1>9

LEMMA PressOfNoGrab ==
    ASSUME IInv, NEW e \in Event, NEW q \in Seq(Event),
           NEW rest \in Seq(CallAt(viewable)), PressUngrabbed(e, q, rest)
    PROVE  InputKept
<1>1. /\ ~dev[e.dev].frozen /\ e.type = "press"
      /\ down' = down \cup {e.detail} /\ queue' = q /\ activator' = activator
      /\ dev[e.dev].grab = NoGrab
    BY DEF PressUngrabbed, Pressed
<1>2. /\ e.dev \in Device
      /\ e.detail \in Key \cup Button
      /\ e.dev = "pointer" => e.detail \in Button
    BY <1>1, EventsCarry DEF On, Device
<1>3. CASE dev' = dev /\ todo' = rest
    <2>1. Fed(dev', down')
        BY <1>1, <1>3, InvDevices, FedKept
    <2> QED BY <2>1, <1>1, <1>2, <1>3, InvDevices, SameDevices DEF InputKept
<1>4. ASSUME NEW g \in AutomaticGrabs(e, "passive"),
             dev' = Activated(dev, e.dev, g, TRUE), todo' = ThenPlay(rest)
      PROVE  InputKept
    <2>1. g \in Grab /\ e.dev = "pointer"
        BY GrabsTyped DEF AutomaticGrabs, IInv
    <2>2. Exact(dev') /\ [Rights!Next]_(Rights!vars)
        BY <2>1, <1>1, <1>2, <1>4, InvDevices, TakenWhenFree
    <2>3. Fed(dev', down')
        <3>1. down' \cap Button # {}
            BY <2>1, <1>1, <1>2
        <3> QED BY <3>1 DEF Fed
    <2>4. todo' \in Seq(CallAt(viewable))
        BY <1>4, InvDevices, ThenPlayTyped
    <2> QED BY <2>2, <2>3, <2>4, <1>1, <1>2, InvDevices DEF InputKept
<1> QED BY <1>3, <1>4 DEF PressUngrabbed

LEMMA PressOfGrab ==
    ASSUME IInv, NEW e \in Event, NEW q \in Seq(Event),
           NEW rest \in Seq(CallAt(viewable)), PressGrabbed(e, q, rest)
    PROVE  InputKept
<1>1. /\ e.type = "press" /\ dev[e.dev].grab # NoGrab
      /\ down' = down \cup {e.detail} /\ queue' = q /\ activator' = activator
      /\ dev' = DeliveredToGrab(dev, e.dev, e) /\ todo' = rest
    BY DEF PressGrabbed, Pressed
<1>2. e.dev \in Device /\ e.detail \in Key \cup Button /\ "pointer" \in Device
    BY <1>1, EventsCarry DEF On, Device
<1>3. /\ Exact(dev') /\ [Rights!Next]_(Rights!vars)
      /\ \A x \in Device : dev'[x].grab = dev[x].grab /\ dev'[x].auto = dev[x].auto
    BY <1>1, <1>2, InvDevices, Delivered
<1>4. Fed(dev', down')
    <2>1. /\ dev'["pointer"].grab = dev["pointer"].grab
          /\ dev'["pointer"].auto = dev["pointer"].auto
          /\ down \cap Button \subseteq down'
        BY <1>1, <1>2, <1>3
    <2> QED BY <2>1, InvDevices, FedKept
<1> QED BY <1>1, <1>2, <1>3, <1>4, InvDevices DEF InputKept

LEMMA ReleaseProcessed ==
    ASSUME IInv, NEW e \in Event, NEW q \in Seq(Event),
           NEW rest \in Seq(CallAt(viewable)), Released(e, q, rest)
    PROVE  InputKept
<1>1. /\ e.type = "release"
      /\ down' = down \ {e.detail} /\ queue' = q /\ activator' = activator
    BY DEF Released
<1>2. /\ e.dev \in Device /\ "pointer" \in Device
      /\ e.dev = "keyboard" => e.detail \in Key
    BY <1>1, EventsCarry DEF On, Device
<1>3. e.dev = "keyboard" => down \cap Button \subseteq down'
    BY <1>1, <1>2, DeviceGrabsAssumption
<1>4. CASE /\ EndsGrab(e)
           /\ dev' = Deactivated(dev, e.dev) /\ todo' = ThenPlay(rest)
    <2>1. Exact(dev') /\ [Rights!Next]_(Rights!vars)
        BY <1>2, <1>4, InvDevices, LetGo
    <2>2. /\ dev'[e.dev].grab = NoGrab
          /\ dev'[Other(e.dev)].grab = dev[Other(e.dev)].grab
          /\ dev'[Other(e.dev)].auto = dev[Other(e.dev)].auto
        BY <1>2, <1>4, InvDevices, DeactivatedSound
    <2>3. Fed(dev', down')
        <3>1. CASE e.dev = "pointer"
            BY <3>1, <2>2 DEF Fed
        <3>2. CASE e.dev = "keyboard"
            <4>1. Other(e.dev) = "pointer"
                BY <3>2 DEF Other
            <4> QED BY <4>1, <3>2, <2>2, <1>3, InvDevices, FedKept
        <3> QED BY <3>1, <3>2, <1>2 DEF Device
    <2>4. todo' \in Seq(CallAt(viewable))
        BY <1>4, InvDevices, ThenPlayTyped
    <2> QED BY <2>1, <2>3, <2>4, <1>1, InvDevices DEF InputKept
<1>5. CASE /\ ~EndsGrab(e)
           /\ dev' = IF dev[e.dev].grab = NoGrab THEN dev
                     ELSE DeliveredToGrab(dev, e.dev, e)
           /\ todo' = rest
    <2>1. /\ Exact(dev') /\ [Rights!Next]_(Rights!vars)
          /\ \A x \in Device : dev'[x].grab = dev[x].grab /\ dev'[x].auto = dev[x].auto
        BY <1>2, <1>5, InvDevices, SameDevices, Delivered
    <2>2. Fed(dev', down')
        <3>1. CASE e.dev = "pointer"
            <4>1. dev["pointer"].auto => down' \cap Button # {}
                BY <3>1, <1>1, <1>5 DEF EndsGrab
            <4> QED BY <4>1, <2>1, <1>2 DEF Fed
        <3>2. CASE e.dev = "keyboard"
            BY <3>2, <2>1, <1>2, <1>3, InvDevices, FedKept
        <3> QED BY <3>1, <3>2, <1>2 DEF Device
    <2> QED BY <2>1, <2>2, <1>1, <1>5, InvDevices DEF InputKept
<1> QED BY <1>4, <1>5 DEF Released

\* Processing an event, however it comes about
LEMMA EventProcessed ==
    ASSUME IInv, NEW e \in Event, NEW q \in Seq(Event),
           NEW rest \in Seq(CallAt(viewable)), ProcessEvent(e, q, rest)
    PROVE  InputKept
<1>1. CASE EnqueueEvent(e, q, rest)
    <2>1. /\ dev' = dev /\ down' = down /\ activator' = activator
          /\ queue' = Enqueued(q, e) /\ todo' = rest
        BY <1>1 DEF EnqueueEvent
    <2> QED BY <2>1, InvDevices, SameDevices, EnqueuedTyped DEF InputKept
<1>2. CASE RepeatKey(e, q, rest)
    <2>1. /\ dev' = dev /\ down' = down /\ activator' = activator /\ queue' = q
          /\ e.type = "press"
          /\ todo' = <<Process([e EXCEPT !.type = "release"]), Process(e)>> \o rest
        BY <1>2 DEF RepeatKey
    <2>2. /\ Process([e EXCEPT !.type = "release"]) \in CallAt(viewable)
          /\ Process(e) \in CallAt(viewable)
        BY <2>1, EventsCarry, CallsTyped, InvDevices
    <2>3. <<Process([e EXCEPT !.type = "release"]), Process(e)>>
                \in Seq(CallAt(viewable))
        BY <2>2
    <2> QED BY <2>1, <2>3, InvDevices, SameDevices, ConcatProperties DEF InputKept
<1>3. CASE IgnoreRelease(e, q, rest) \/ Moved(e, q, rest)
    <2>1. /\ dev' = dev /\ down' = down /\ activator' = activator
          /\ queue' = q /\ todo' = rest
        BY <1>3 DEF IgnoreRelease, Moved
    <2> QED BY <2>1, InvDevices, SameDevices DEF InputKept
<1> QED BY <1>1, <1>2, <1>3, PassiveGrabStarts, PressOfNoGrab, PressOfGrab,
           ReleaseProcessed DEF ProcessEvent

-----------------------------------------------------------------------------
(* The actions.                                                            *)

\* The types of what is not input.
RestTyped ==
    /\ held \subseteq Key \cup Button /\ passive \subseteq PassiveGrab
    /\ connected \subseteq Client /\ retained \subseteq Client \ connected
    /\ exists \in Window /\ viewable \in 1..exists /\ sprite \in Window

\* What every step keeps.
StepKept == IInv' /\ [Rights!Next]_(Rights!vars)

LEMMA InvKept ==
    ASSUME InputKept, RestTyped', todo' \in Seq(CallAt(viewable'))
    PROVE  StepKept
<1>1. todo' \in Seq(CallInProgress)
    <2>1. CallAt(viewable') \subseteq CallInProgress
        BY DEF CallAt
    <2> QED BY <2>1, SeqMonotonic
<1>2. TypeOK'
    BY <1>1 DEF InputKept, RestTyped, TypeOK, Exact, Sound
<1>3. FreezesAreGrabs'
    BY DEF InputKept, FreezesAreGrabs, Exact, Sound
<1>4. ButtonGrabHasAButton'
    BY DEF InputKept, ButtonGrabHasAButton, Fed
<1> QED BY <1>2, <1>3, <1>4 DEF StepKept, IInv, InputKept

\* The pointer's window may be found again when an event is processed.
LEMMA SpriteTyped ==
    ASSUME IInv, NEW e, NEW q, NEW rest, ProcessEvent(e, q, rest)
    PROVE  sprite' \in Window
<1>1. sprite \in Window /\ viewable \in Window
    BY DeviceGrabsAssumption DEF IInv, TypeOK, Window
<1> QED BY <1>1 DEF ProcessEvent, Moved, CheckMotion

\* A step that leaves what is not input alone.
LEMMA InputStep ==
    ASSUME IInv, InputKept, UNCHANGED <<clientVars, viewable, exists, passive>>,
           sprite' \in Window, held' \subseteq Key \cup Button
    PROVE  StepKept
<1>1. RestTyped' /\ viewable' = viewable
    BY DEF RestTyped, IInv, TypeOK, clientVars
<1> QED BY <1>1, InvKept DEF InputKept

\* A step that leaves the devices and the events alone.
LEMMA OtherStep ==
    ASSUME IInv, UNCHANGED <<dev, down, activator, queue>>, RestTyped',
           todo' \in Seq(CallAt(viewable'))
    PROVE  StepKept
<1>1. Exact(dev) /\ Fed(dev, down)
    BY InvDevices
<1>2. TypeOK'
    <2>1. todo' \in Seq(CallInProgress)
        <3>1. CallAt(viewable') \subseteq CallInProgress
            BY DEF CallAt
        <3> QED BY <3>1, SeqMonotonic
    <2> QED BY <2>1 DEF RestTyped, TypeOK, IInv
<1>3. FreezesAreGrabs' /\ ButtonGrabHasAButton'
    BY DEF IInv, FreezesAreGrabs, ButtonGrabHasAButton
<1> QED BY <1>2, <1>3, SameDevices DEF StepKept, IInv

LEMMA HardwareStep ==
    ASSUME IInv, NEW e \in Event, Hardware(e), held' \subseteq Key \cup Button
    PROVE  StepKept
<1>1. /\ ProcessEvent(e, queue, <<>>)
      /\ UNCHANGED <<clientVars, viewable, exists, passive>>
    BY DEF Hardware
<1>2. <<>> \in Seq(CallAt(viewable))
    BY EmptySeq
<1> QED BY <1>1, <1>2, InvDevices, EventProcessed, SpriteTyped, InputStep

LEMMA UserStep ==
    ASSUME IInv, User
    PROVE  StepKept
<1>1. held \subseteq Key \cup Button
    BY DEF IInv, TypeOK
<1>2. ASSUME NEW d \in Device, NEW x \in Key \cup Button, Press(d, x)
      PROVE  StepKept
    <2>1. [dev |-> d, type |-> "press", detail |-> x] \in Event
        BY <1>2 DEF Press, On, Device, Event
    <2> QED BY <1>1, <1>2, <2>1, HardwareStep DEF Press
<1>3. ASSUME NEW d \in Device, NEW x \in Key \cup Button, Lift(d, x)
      PROVE  StepKept
    <2>1. [dev |-> d, type |-> "release", detail |-> x] \in Event
        BY <1>3 DEF Lift, On, Device, Event
    <2> QED BY <1>1, <1>3, <2>1, HardwareStep DEF Lift
<1>4. CASE Move
    <2>1. [dev |-> "pointer", type |-> "motion", detail |-> Nobody] \in Event
        BY DEF Event
    <2> QED BY <1>1, <1>4, <2>1, HardwareStep DEF Move
<1> QED BY <1>2, <1>3, <1>4 DEF User

\* The call in progress and what is left after it.
LEMMA CallTaken ==
    ASSUME IInv, NEW name, Call(name)
    PROVE  /\ Head(todo) \in CallAt(viewable) /\ Head(todo).call = name
           /\ Tail(todo) \in Seq(CallAt(viewable)) /\ viewable \in Int
BY InvDevices, HeadTailProperties DEF Call

LEMMA PlayStep ==
    ASSUME IInv, PlayReleasedEvents
    PROVE  StepKept
<1>1. /\ Head(todo) \in CallAt(viewable) /\ Head(todo).at \in Nat \ {0}
      /\ Tail(todo) \in Seq(CallAt(viewable))
    BY CallTaken, CallsCarry DEF PlayReleasedEvents
<1>2. /\ held' \subseteq Key \cup Button /\ sprite \in Window
      /\ UNCHANGED <<clientVars, viewable, exists, passive>>
    BY DEF PlayReleasedEvents, IInv, TypeOK
<1>3. CASE Playable = {}
    <2>1. todo' = Tail(todo) /\ UNCHANGED <<dev, down, activator, queue, sprite>>
        BY <1>3 DEF PlayReleasedEvents
    <2>2. InputKept
        BY <2>1, <1>1, InvDevices, SameDevices DEF InputKept
    <2> QED BY <2>1, <2>2, <1>2, InputStep
<1>4. CASE Playable # {}
    <2>1. PICK i \in Playable :
            ProcessEvent(queue[i], RemoveAt(queue, i), <<PlayFrom(i)>> \o Tail(todo))
        BY <1>4 DEF PlayReleasedEvents
    <2>2. i \in 1..Len(queue) /\ i \in Nat \ {0} /\ queue \in Seq(Event)
        BY <1>1, InvDevices DEF Playable
    <2>3. queue[i] \in Event /\ RemoveAt(queue, i) \in Seq(Event)
        BY <2>2, RemoveAtTyped
    <2>4. <<PlayFrom(i)>> \o Tail(todo) \in Seq(CallAt(viewable))
        BY <2>2, <1>1, InvDevices, CallsTyped, CallFirst
    <2>5. InputKept
        BY <2>1, <2>3, <2>4, EventProcessed
    <2> QED BY <2>1, <2>5, <1>2, SpriteTyped, InputStep
<1> QED BY <1>3, <1>4

LEMMA RepeatStep ==
    ASSUME IInv, ProcessRepeat
    PROVE  StepKept
<1>1. /\ Head(todo).event \in Event /\ Tail(todo) \in Seq(CallAt(viewable))
      /\ ProcessEvent(Head(todo).event, queue, Tail(todo))
    BY CallTaken, CallsCarry DEF ProcessRepeat
<1>2. /\ held' \subseteq Key \cup Button
      /\ UNCHANGED <<clientVars, viewable, exists, passive>>
    BY DEF ProcessRepeat, IInv, TypeOK
<1> QED BY <1>1, <1>2, InvDevices, EventProcessed, SpriteTyped, InputStep

LEMMA FinishPassiveStep ==
    ASSUME IInv, FinishPassiveGrab
    PROVE  StepKept
<1>1. PICK e \in Event : e = Head(todo).event
    BY CallTaken, CallsCarry DEF FinishPassiveGrab
<1>2. /\ Tail(todo) \in Seq(CallAt(viewable))
      /\ dev' = FrozenWithEvent(dev, e.dev, e)
      /\ activator' = IF e.dev = "keyboard" THEN e.detail ELSE activator
      /\ todo' = Tail(todo) /\ down' = down /\ queue' = queue
      /\ held' \subseteq Key \cup Button
      /\ UNCHANGED <<clientVars, viewable, exists, passive>> /\ sprite' \in Window
    BY <1>1, CallTaken DEF FinishPassiveGrab, IInv, TypeOK, windowVars
<1>3. e.dev \in Device /\ (e.dev = "keyboard" => e.detail \in Key)
    BY EventsCarry DEF On, Event
<1>4. /\ Exact(dev')
      /\ \A x \in Device :
            /\ dev'[x].grab = dev[x].grab /\ dev'[x].auto = dev[x].auto
            /\ dev'[x].other = dev[x].other
            /\ dev'[x].state \in Frozen <=> dev[x].state \in Frozen
    <2>1. PICK d \in Device : d = e.dev
        BY <1>3
    <2>2. dev' = FrozenWithEvent(dev, d, e)
        BY <1>2, <2>1
    <2>3. e \in Event \cup {NoEvent}
        OBVIOUS
    <2> QED BY <2>2, <2>3, InvDevices, FrozenWithEventExact
<1>5. Fed(dev', down')
    <2>1. "pointer" \in Device
        BY DEF Device
    <2>2. down \cap Button \subseteq down'
        BY <1>2
    <2> QED BY <2>1, <2>2, <1>4, InvDevices, FedKept
<1>6. [Rights!Next]_(Rights!vars)
    <2>1. Holds(dev') = Holds(dev)
        BY <1>4 DEF Holds
    <2>2. FrozenBy(dev') = FrozenBy(dev)
        BY <1>4 DEF FrozenBy
    <2> QED BY <2>1, <2>2 DEF Rights!vars, Holds, FrozenBy
<1>7. InputKept
    BY <1>2, <1>3, <1>4, <1>5, <1>6, InvDevices DEF InputKept
<1> QED BY <1>2, <1>7, InputStep

\* Requests that change the devices and play what is queued
LEMMA RequestStep ==
    ASSUME IInv, Exact(dev'), Fed(dev', down), [Rights!Next]_(Rights!vars),
           todo' = ThenPlay(<<>>),
           UNCHANGED <<down, activator, queue, clientVars, windowVars, passive, held>>
    PROVE  StepKept
<1>1. todo' \in Seq(CallAt(viewable))
    BY InvDevices, EmptySeq, ThenPlayTyped
<1>2. /\ held' \subseteq Key \cup Button /\ sprite' \in Window
      /\ viewable' = viewable /\ exists' = exists
    BY DEF IInv, TypeOK, windowVars
<1>3. Fed(dev', down')
    BY DEF Fed
<1>4. InputKept
    BY <1>1, <1>3, InvDevices DEF InputKept
<1> QED BY <1>2, <1>4, InputStep

\* An active grab, or one of a device that is not the pointer, feeds nobody.
LEMMA FedByOthers ==
    ASSUME NEW D, NEW E, NEW d \in Device, NEW keys, Fed(D, keys),
           E[Other(d)].grab = D[Other(d)].grab,
           E[Other(d)].auto = D[Other(d)].auto,
           E[d].grab = NoGrab \/ ~E[d].auto \/ E[d].grab.how # "passive"
    PROVE  Fed(E, keys)
<1>1. CASE d = "pointer"
    BY <1>1 DEF Fed
<1>2. CASE d = "keyboard"
    BY <1>2 DEF Fed, Other
<1> QED BY <1>1, <1>2 DEF Device

LEMMA GrabStep ==
    ASSUME IInv, NEW r \in ActiveGrab, GrabDevice(r)
    PROVE  StepKept
<1>1. PICK g \in Grab : g = GrabOf(r, "active")
    BY GrabsTyped DEF IInv
<1>2. PICK d \in Device : d = r.dev
    BY DeviceGrabsAssumption
<1>3. /\ dev' = Activated(dev, d, g, FALSE)
      /\ dev[d].grab = NoGrab \/ Grabbed(dev, d, g.client)
      /\ ~FrozenByOthers(d, g.client)
    BY <1>1, <1>2, GrabsTyped DEF GrabDevice, IInv
<1>4. /\ Exact(dev') /\ dev'[d].grab = g /\ dev'[d].auto = FALSE
      /\ dev'[d].other => dev[d].other
      /\ dev'[Other(d)].grab = dev[Other(d)].grab
      /\ dev'[Other(d)].state = dev[Other(d)].state
      /\ dev'[Other(d)].auto = dev[Other(d)].auto
    <2>1. PICK auto \in BOOLEAN : auto = FALSE
        OBVIOUS
    <2>2. dev' = Activated(dev, d, g, auto)
        BY <1>3, <2>1
    <2> QED BY <2>1, <2>2, InvDevices, ActivatedSound
<1>5. /\ dev[d].other => dev[Other(d)].grab.client = g.client
      /\ dev[d].state \in Frozen => dev[d].grab.client = g.client
    BY <1>3, InvDevices DEF FrozenByOthers, Grabbed, Exact
<1>6. dev[d].grab = NoGrab \/ dev[d].grab.client = g.client
    BY <1>3 DEF Grabbed
<1>7. Rights!Take(g.client, d)
    BY <1>4, <1>5, <1>6, InvDevices, TakeStep
<1>8. [Rights!Next]_(Rights!vars)
    BY <1>7, GrabsHaveClients DEF Rights!Next
<1>9. Fed(dev', down)
    BY <1>4, InvDevices, FedByOthers
<1> QED BY <1>4, <1>8, <1>9, RequestStep DEF GrabDevice

LEMMA UngrabStep ==
    ASSUME IInv, NEW c \in Client, NEW d \in Device, UngrabDevice(c, d)
    PROVE  StepKept
<1>1. dev' = Deactivated(dev, d)
    BY DEF UngrabDevice
<1>2. Exact(dev') /\ [Rights!Next]_(Rights!vars)
    BY <1>1, InvDevices, LetGo
<1>3. /\ dev'[d].grab = NoGrab
      /\ dev'[Other(d)].grab = dev[Other(d)].grab
      /\ dev'[Other(d)].auto = dev[Other(d)].auto
    BY <1>1, InvDevices, DeactivatedSound
<1>4. Fed(dev', down)
    BY <1>3, InvDevices, FedByOthers
<1> QED BY <1>2, <1>4, RequestStep DEF UngrabDevice

\* AllowSome, when the devices become D
LEMMA AllowStep ==
    ASSUME IInv, NEW c \in Client, NEW D, Sound(D), Allow(c, D),
           \A x \in Device :
              /\ D[x].grab = dev[x].grab /\ D[x].auto = dev[x].auto
              /\ D[x].state = dev[x].state \/ dev[x].grab.client = c
              /\ D[x].other = dev[x].other \/ dev[Other(x)].grab.client = c
    PROVE  StepKept
<1>1. dev' = Recomputed(D)
    BY DEF Allow
<1>2. /\ Exact(dev')
      /\ \A x \in Device : /\ dev'[x].grab = D[x].grab /\ dev'[x].auto = D[x].auto
                           /\ dev'[x].state = D[x].state
                           /\ dev'[x].other = D[x].other
    BY <1>1, RecomputedExact
<1>3. \A x \in Device :
        /\ dev'[x].grab = dev[x].grab
        /\ dev'[x].state = dev[x].state \/ dev[x].grab.client = c
        /\ dev'[x].other = dev[x].other \/ dev[Other(x)].grab.client = c
    BY <1>2
<1>4. Rights!Sync(c)
    BY <1>3, SyncStep
<1>5. [Rights!Next]_(Rights!vars)
    BY <1>4 DEF Rights!Next
<1>6. Fed(dev', down)
    <2>1. "pointer" \in Device
        BY DEF Device
    <2> QED BY <2>1, <1>2, InvDevices, FedKept
<1> QED BY <1>2, <1>5, <1>6, RequestStep DEF Allow

LEMMA ThawStep ==
    ASSUME IInv, NEW c \in Client, NEW d \in Device,
           NEW state \in SyncState, state # "NOT_GRABBED",
           Allow(c, Thaw(dev, d, c, state))
    PROVE  StepKept
<1> DEFINE D == Thaw(dev, d, c, state)
<1>1. /\ Sound(D)
      /\ \A x \in Device : D[x].grab = dev[x].grab /\ D[x].auto = dev[x].auto
      /\ D[Other(d)].state = dev[Other(d)].state
      /\ D[Other(d)].other = dev[Other(d)].other
      /\ D[d].state = dev[d].state \/ dev[d].grab.client = c
      /\ D[d].other = dev[d].other \/ dev[Other(d)].grab.client = c
    BY InvDevices, ThawSound
<1>2. Allow(c, D)
    OBVIOUS
<1> HIDE DEF D
<1>3. \A x \in Device :
        /\ D[x].state = dev[x].state \/ dev[x].grab.client = c
        /\ D[x].other = dev[x].other \/ dev[Other(x)].grab.client = c
    BY <1>1, TwoDevices
<1> QED BY <1>1, <1>2, <1>3, AllowStep

LEMMA AllowBothStep ==
    ASSUME IInv, NEW c \in Client, NEW state \in SyncState, state # "NOT_GRABBED",
           AllowBoth(c, state)
    PROVE  StepKept
<1> DEFINE K == Thaw(dev, "keyboard", c, state)
           D == Thaw(K, "pointer", c, state)
<1>1. /\ "keyboard" \in Device /\ "pointer" \in Device
      /\ Other("keyboard") = "pointer" /\ Other("pointer") = "keyboard"
      /\ \A x \in Device : x \in {"keyboard", "pointer"}
    BY DEF Device, Other
<1>2. /\ Sound(K)
      /\ \A x \in Device : K[x].grab = dev[x].grab /\ K[x].auto = dev[x].auto
      /\ K["pointer"].state = dev["pointer"].state
      /\ K["pointer"].other = dev["pointer"].other
      /\ K["keyboard"].state = dev["keyboard"].state \/ dev["keyboard"].grab.client = c
      /\ K["keyboard"].other = dev["keyboard"].other \/ dev["pointer"].grab.client = c
    BY <1>1, InvDevices, ThawSound
<1> HIDE DEF K
<1>3. /\ Sound(D)
      /\ \A x \in Device : D[x].grab = K[x].grab /\ D[x].auto = K[x].auto
      /\ D["keyboard"].state = K["keyboard"].state
      /\ D["keyboard"].other = K["keyboard"].other
      /\ D["pointer"].state = K["pointer"].state \/ K["pointer"].grab.client = c
      /\ D["pointer"].other = K["pointer"].other \/ K["keyboard"].grab.client = c
    BY <1>1, <1>2, ThawSound
<1>4. Allow(c, D)
    BY DEF AllowBoth, K
<1> HIDE DEF D
<1>5. \A x \in Device :
        /\ D[x].grab = dev[x].grab /\ D[x].auto = dev[x].auto
        /\ D[x].state = dev[x].state \/ dev[x].grab.client = c
        /\ D[x].other = dev[x].other \/ dev[Other(x)].grab.client = c
    BY <1>1, <1>2, <1>3
<1> QED BY <1>3, <1>4, <1>5, AllowStep

\* A grab that a replayed event starts
LEMMA ReplayStarts ==
    ASSUME IInv, NEW d \in Device, dev[d].grab # NoGrab, NEW g \in Grab,
           g.how = "replay", NEW e \in Event \cup {NoEvent},
           LET D == Activated(Deactivated(dev, d), d, g, TRUE)
           IN  dev' = D \/ dev' = FrozenWithEvent(D, d, e)
    PROVE  Exact(dev') /\ Fed(dev', down) /\ [Rights!Next]_(Rights!vars)
<1> DEFINE L == Deactivated(dev, d)
           o == Other(d)
<1>1. PICK auto \in BOOLEAN : auto = TRUE
    OBVIOUS
<1> DEFINE D == Activated(L, d, g, auto)
<1>2. dev' = D \/ dev' = FrozenWithEvent(D, d, e)
    BY <1>1
<1>3. /\ Sound(L)
      /\ L[d].other = dev[d].other
      /\ L[o].grab = dev[o].grab /\ L[o].state = dev[o].state /\ L[o].auto = dev[o].auto
    <2>1. /\ Exact(L) /\ L[d].other = dev[d].other
          /\ L[o].grab = dev[o].grab /\ L[o].state = dev[o].state
          /\ L[o].auto = dev[o].auto
        BY InvDevices, DeactivatedSound
    <2> HIDE DEF L
    <2> QED BY <2>1 DEF Exact
<1> HIDE DEF L
<1>4. /\ Exact(D) /\ D[d].grab = g
      /\ D[d].other => L[d].other
      /\ L[d].other /\ L[o].grab.client # g.client => D[d].other
      /\ D[o].grab = L[o].grab /\ D[o].state = L[o].state /\ D[o].auto = L[o].auto
    BY <1>3, ActivatedSound
<1> HIDE DEF D
<1>5. o \in Device
    BY TwoDevices
<1>6. /\ Exact(dev')
      /\ \A x \in Device : /\ dev'[x].grab = D[x].grab /\ dev'[x].auto = D[x].auto
                           /\ dev'[x].other = D[x].other
                           /\ dev'[x].state \in Frozen <=> D[x].state \in Frozen
    BY <1>2, <1>4, FrozenWithEventExact
<1>7. dev'[d].other = dev[d].other \/ dev[o].grab.client = g.client
    <2>1. dev[d].other \in BOOLEAN /\ dev'[d].other \in BOOLEAN
        BY <1>6, InvDevices DEF Exact, Sound, DeviceState
    <2>2. CASE dev[d].other /\ dev[o].grab.client # g.client
        BY <2>1, <2>2, <1>3, <1>4, <1>6
    <2>3. CASE ~dev[d].other
        BY <2>1, <2>3, <1>3, <1>4, <1>6
    <2> QED BY <2>2, <2>3
<1>8. /\ dev'[d].grab = g /\ dev'[o].grab = dev[o].grab
      /\ dev'[o].auto = dev[o].auto
      /\ dev'[o].state \in Frozen <=> dev[o].state \in Frozen
    BY <1>3, <1>4, <1>5, <1>6
<1>9. Rights!HandOn(g.client, d)
    BY <1>6, <1>7, <1>8, InvDevices, HandOnStep
<1>10. [Rights!Next]_(Rights!vars)
    BY <1>9, GrabsHaveClients DEF Rights!Next
<1>11. Fed(dev', down)
    BY <1>8, InvDevices, FedByOthers
<1> QED BY <1>6, <1>10, <1>11

LEMMA ReplayStep ==
    ASSUME IInv, NEW c \in Client, NEW d \in Device, AllowReplay(c, d)
    PROVE  StepKept
<1>1. dev[d].grab # NoGrab
    BY DEF AllowReplay, Grabbed
<1>2. PICK e \in Event \cup {NoEvent} : e = dev[d].event
    BY InvDevices DEF DeviceState
<1> DEFINE from == dev[d].grab.window + 1
           L == Deactivated(dev, d)
<1>3. CASE \E p \in FirstMatch(e, from) :
            dev' = FrozenWithEvent(Activated(L, d, GrabOf(p, "replay"), TRUE), d, e)
    <2>1. PICK p \in FirstMatch(e, from) :
            dev' = FrozenWithEvent(Activated(L, d, GrabOf(p, "replay"), TRUE), d, e)
        BY <1>3
    <2>2. PICK g \in Grab : g = GrabOf(p, "replay")
        BY GrabsTyped DEF FirstMatch, Matching, IInv
    <2>3. g.how = "replay"
        BY <2>2 DEF GrabOf
    <2> QED BY <1>1, <2>1, <2>2, <2>3, ReplayStarts, RequestStep DEF AllowReplay
<1>4. CASE \E g \in AutomaticGrabs(e, "replay") : dev' = Activated(L, d, g, TRUE)
    <2>1. PICK g \in AutomaticGrabs(e, "replay") : dev' = Activated(L, d, g, TRUE)
        BY <1>4
    <2>2. g \in Grab /\ g.how = "replay"
        BY GrabsTyped DEF AutomaticGrabs, AutomaticGrab, IInv
    <2> QED BY <1>1, <2>1, <2>2, ReplayStarts, RequestStep DEF AllowReplay
<1>5. CASE dev' = L
    <2>1. Exact(dev') /\ [Rights!Next]_(Rights!vars)
        BY <1>5, InvDevices, LetGo
    <2>2. /\ dev'[d].grab = NoGrab
          /\ dev'[Other(d)].grab = dev[Other(d)].grab
          /\ dev'[Other(d)].auto = dev[Other(d)].auto
        BY <1>5, InvDevices, DeactivatedSound
    <2>3. Fed(dev', down)
        BY <2>2, InvDevices, FedByOthers
    <2> QED BY <2>1, <2>3, RequestStep DEF AllowReplay
<1> QED BY <1>2, <1>3, <1>4, <1>5 DEF AllowReplay

LEMMA AllowEventsStep ==
    ASSUME IInv, NEW c \in Client, AllowEvents(c)
    PROVE  StepKept
<1>1. /\ {"THAWED", "FREEZE_NEXT_EVENT", "FREEZE_BOTH_NEXT_EVENT"} \subseteq SyncState
    BY DEF SyncState
<1>2. ASSUME NEW d \in Device, AllowAsync(c, d) \/ AllowSync(c, d)
      PROVE  StepKept
    BY <1>1, <1>2, ThawStep DEF AllowAsync, AllowSync
<1>3. CASE AllowAsyncBoth(c) \/ AllowSyncBoth(c)
    BY <1>1, <1>3, AllowBothStep DEF AllowAsyncBoth, AllowSyncBoth
<1> QED BY <1>2, <1>3, ReplayStep DEF AllowEvents

LEMMA PassiveRequestStep ==
    ASSUME IInv, NEW p \in PassiveGrab, SetPassiveGrab(p) \/ DeletePassiveGrab(p)
    PROVE  StepKept
<1>1. /\ UNCHANGED <<dev, down, activator, queue>>
      /\ UNCHANGED <<todo, viewable, exists, sprite, connected, retained, held>>
      /\ passive' \subseteq PassiveGrab
    BY DEF SetPassiveGrab, DeletePassiveGrab, inputVars, clientVars, windowVars,
           IInv, TypeOK
<1>2. RestTyped'
    BY <1>1 DEF RestTyped, IInv, TypeOK
<1>3. todo' \in Seq(CallAt(viewable'))
    BY <1>1, InvDevices
<1> QED BY <1>1, <1>2, <1>3, OtherStep

-----------------------------------------------------------------------------
(* Windows.                                                                *)

LEMMA Division ==
    \A j \in Nat : /\ j \div 2 \in Nat /\ 2 * (j \div 2) <= j
                   /\ j \div 3 \in Nat /\ 3 * (j \div 3) <= j
OBVIOUS

\* A function on 1..n is a sequence.
LEMMA FunctionsAreSeqs ==
    ASSUME NEW S, NEW n \in Nat, NEW f \in [1..n -> S]
    PROVE  f \in Seq(S)
BY SeqDef

LEMMA NoCloseConcat ==
    ASSUME NEW S, NEW s \in Seq(S), NEW t \in Seq(S), NoClose(s), NoClose(t)
    PROVE  NoClose(s \o t)
<1>1. /\ s \o t \in Seq(S) /\ Len(s \o t) = Len(s) + Len(t)
      /\ Len(s) \in Nat /\ Len(t) \in Nat
      /\ \A i \in 1..(Len(s) + Len(t)) :
            (s \o t)[i] = IF i <= Len(s) THEN s[i] ELSE t[i - Len(s)]
    BY ConcatProperties, LenProperties
<1> QED BY <1>1, LenProperties DEF NoClose

\* The calls that unmap the viewable windows from w on
LEMMA UnmapTyped ==
    ASSUME IInv, NEW v \in Int, NEW w \in 2..viewable
    PROVE  Unmap(w) \in Seq(CallAt(v)) /\ NoClose(Unmap(w))
<1> DEFINE n == 2 * (viewable - w + 1)
           f == [i \in 1..n |->
                    DeleteFrom(w + (i - 1) \div 2, PointerFirst(i % 2 = 1))]
<1>1. viewable \in 1..Depth /\ Depth \in Nat
    BY DeviceGrabsAssumption DEF IInv, TypeOK, Window
<1>2. n \in Nat
    BY <1>1
<1>3. ASSUME NEW i \in 1..n
      PROVE  DeleteFrom(w + (i - 1) \div 2, PointerFirst(i % 2 = 1)) \in CallAt(v)
    <2>1. PICK j \in Nat : j = (i - 1) \div 2 /\ 2 * j <= i - 1
        BY <1>2, Division
    <2>2. w + j \in 2..Depth
        BY <1>1, <2>1
    <2>3. PointerFirst(i % 2 = 1) \in Device
        BY DEF PointerFirst, Device
    <2> QED BY <2>1, <2>2, <2>3, CallsTyped
<1>4. f \in [1..n -> CallAt(v)]
    BY <1>3
<1>5. <<Restructured>> \in Seq(CallAt(v))
    BY CallsTyped
<1>6. NoClose(f) /\ NoClose(<<Restructured>>)
    BY DEF NoClose, DeleteFrom, Restructured
<1> HIDE DEF n, f
<1>7. f \in Seq(CallAt(v))
    BY <1>2, <1>4, FunctionsAreSeqs
<1> QED BY <1>5, <1>6, <1>7, ConcatProperties, NoCloseConcat DEF Unmap, f, n

\* The calls that free the windows from w on, which are not viewable any more
LEMMA FreeTyped ==
    ASSUME IInv, NEW w \in 2..Depth, NEW v \in Int, v < w
    PROVE  Free(w) \in Seq(CallAt(v)) /\ NoClose(Free(w))
<1> DEFINE n == 3 * (exists - w + 1)
           e(i) == LET x == exists - (i - 1) \div 3
                   IN  IF i % 3 = 0 THEN Freed(x)
                                    ELSE DeleteFrom(x, PointerFirst(i % 3 = 1))
           f == [i \in 1..n |-> e(i)]
<1>1. exists \in 1..Depth /\ Depth \in Nat
    BY DeviceGrabsAssumption DEF IInv, TypeOK, Window
<1>2. n \in Int
    BY <1>1
<1>3. ASSUME NEW i \in 1..n
      PROVE  e(i) \in CallAt(v)
    <2>1. PICK j \in Nat : j = (i - 1) \div 3 /\ 3 * j <= i - 1
        BY <1>2, Division
    <2>2. exists - j \in 2..Depth /\ v < exists - j
        BY <1>1, <2>1
    <2>3. PointerFirst(i % 3 = 1) \in Device
        BY DEF PointerFirst, Device
    <2>4. /\ DeleteFrom(exists - j, PointerFirst(i % 3 = 1)) \in CallAt(v)
          /\ Freed(exists - j) \in CallAt(v)
        BY <2>2, <2>3, CallsTyped
    <2> QED BY <2>1, <2>4
<1>6. NoClose(f)
    BY DEF NoClose, Freed, DeleteFrom
<1> HIDE DEF e
<1>4. f \in [1..n -> CallAt(v)]
    BY <1>3
<1>5. f \in Seq(CallAt(v))
    <2> HIDE DEF f, n
    <2>1. CASE n >= 0
        BY <2>1, <1>2, <1>4, FunctionsAreSeqs
    <2>2. CASE n < 0
        <3>1. 1..n = 1..0
            BY <2>2, <1>2
        <3>2. f \in [1..0 -> CallAt(v)]
            BY <3>1, <1>4
        <3> QED BY <3>2, FunctionsAreSeqs
    <2> QED BY <1>2, <2>1, <2>2
<1> QED BY <1>5, <1>6 DEF Free, f, e, n

LEMMA UnmapStep ==
    ASSUME IInv, NEW w \in Window, UnmapWindow(w)
    PROVE  StepKept
<1>1. /\ w \in 2..viewable /\ viewable' = w - 1 /\ todo' = Unmap(w)
      /\ UNCHANGED <<dev, down, activator, queue>>
      /\ UNCHANGED <<connected, retained, exists, sprite, passive, held>>
    BY DEF UnmapWindow, clientVars
<1>2. viewable \in 1..exists /\ exists \in Int /\ w - 1 \in Int
    BY <1>1 DEF IInv, TypeOK, Window
<1>3. RestTyped'
    BY <1>1, <1>2 DEF RestTyped, IInv, TypeOK
<1>4. Unmap(w) \in Seq(CallAt(w - 1))
    BY <1>1, <1>2, UnmapTyped
<1> QED BY <1>1, <1>3, <1>4, OtherStep

LEMMA MapStep ==
    ASSUME IInv, MapWindows
    PROVE  StepKept
<1>1. /\ todo = <<>> /\ viewable' = exists /\ sprite' = exists
      /\ UNCHANGED <<dev, down, activator, queue, todo>>
      /\ UNCHANGED <<connected, retained, exists, passive, held>>
    BY DEF MapWindows, Idle, clientVars, inputVars
<1>2. RestTyped'
    BY <1>1 DEF RestTyped, IInv, TypeOK, Window
<1>3. todo' \in Seq(CallAt(viewable'))
    BY <1>1, EmptySeq
<1> QED BY <1>1, <1>2, <1>3, OtherStep

\* Deactivating the grab of a device, and going on
LEMMA EndGrabStep ==
    ASSUME IInv, NEW d \in Device, todo # <<>>,
           \/ dev' = Deactivated(dev, d) /\ todo' = ThenPlay(Tail(todo))
           \/ dev' = dev /\ todo' = Tail(todo),
           UNCHANGED <<down, activator, queue, clientVars, windowVars, passive, held>>
    PROVE  StepKept
<1>1. /\ Tail(todo) \in Seq(CallAt(viewable))
      /\ held' \subseteq Key \cup Button /\ sprite' \in Window
      /\ viewable' = viewable /\ exists' = exists
    BY InvDevices, HeadTailProperties DEF IInv, TypeOK, windowVars
<1>2. todo' \in Seq(CallAt(viewable))
    BY <1>1, InvDevices, ThenPlayTyped
<1>3. Exact(dev') /\ Fed(dev', down) /\ [Rights!Next]_(Rights!vars)
    <2>1. CASE dev' = dev
        BY <2>1, InvDevices, SameDevices
    <2>2. CASE dev' = Deactivated(dev, d)
        <3>1. /\ dev'[d].grab = NoGrab
              /\ dev'[Other(d)].grab = dev[Other(d)].grab
              /\ dev'[Other(d)].auto = dev[Other(d)].auto
            BY <2>2, InvDevices, DeactivatedSound
        <3>2. Fed(dev', down)
            BY <3>1, InvDevices, FedByOthers
        <3> QED BY <2>2, <3>2, InvDevices, LetGo
    <2> QED BY <2>1, <2>2
<1>4. InputKept
    <2>1. Fed(dev', down')
        BY <1>3 DEF Fed
    <2> QED BY <1>2, <1>3, <2>1, InvDevices DEF InputKept
<1> QED BY <1>1, <1>4, InputStep

LEMMA DeleteFromEventsStep ==
    ASSUME IInv, DeleteWindowFromAnyEvents
    PROVE  StepKept
<1>1. todo # <<>> /\ Head(todo).dev \in Device
    BY CallTaken, CallsCarry DEF DeleteWindowFromAnyEvents, Call
<1>2. PICK d \in Device : d = Head(todo).dev
    BY <1>1
<1> QED BY <1>1, <1>2, EndGrabStep DEF DeleteWindowFromAnyEvents

LEMMA ReleaseGrabsStep ==
    ASSUME IInv, ReleaseActiveGrabs
    PROVE  StepKept
<1>1. todo # <<>> /\ Head(todo).dev \in Device
    BY CallTaken, CallsCarry DEF ReleaseActiveGrabs, Call
<1>2. PICK d \in Device : d = Head(todo).dev
    BY <1>1
<1> QED BY <1>1, <1>2, EndGrabStep DEF ReleaseActiveGrabs

LEMMA RestructuredStep ==
    ASSUME IInv, WindowsRestructured
    PROVE  StepKept
<1>1. /\ sprite' = viewable /\ todo' = Tail(todo)
      /\ UNCHANGED <<dev, down, activator, queue>>
      /\ UNCHANGED <<connected, retained, viewable, exists, passive, held>>
    BY DEF WindowsRestructured, clientVars
<1>2. RestTyped'
    <2>1. viewable \in Window
        BY DeviceGrabsAssumption DEF IInv, TypeOK, Window
    <2> QED BY <2>1, <1>1 DEF RestTyped, IInv, TypeOK
<1>3. todo' \in Seq(CallAt(viewable'))
    BY <1>1, CallTaken DEF WindowsRestructured
<1> QED BY <1>1, <1>2, <1>3, OtherStep

LEMMA DestroyStep ==
    ASSUME IInv, DeleteWindow
    PROVE  StepKept
<1>1. /\ Head(todo).window \in 2..Depth /\ Tail(todo) \in Seq(CallAt(viewable))
      /\ viewable \in Int
    BY CallTaken, CallsCarry DEF DeleteWindow
<1>2. PICK w \in 2..Depth : w = Head(todo).window
    BY <1>1
<1>3. /\ UNCHANGED <<dev, down, activator, queue>>
      /\ UNCHANGED <<connected, retained, exists, sprite, passive, held>>
    BY DEF DeleteWindow, clientVars
<1>4. CASE w <= viewable
    <2>1. viewable' = w - 1 /\ todo' = Unmap(w) \o Free(w) \o Tail(todo)
        BY <1>2, <1>4 DEF DeleteWindow
    <2>2. w - 1 \in Int /\ w - 1 < w /\ w \in 2..viewable
        BY <1>1, <1>4, DeviceGrabsAssumption
    <2>3. /\ Unmap(w) \in Seq(CallAt(w - 1)) /\ Free(w) \in Seq(CallAt(w - 1))
        BY <2>2, UnmapTyped, FreeTyped
    <2>4. Tail(todo) \in Seq(CallAt(w - 1))
        <3>1. CallAt(viewable) \subseteq CallAt(w - 1)
            BY <1>1, <1>4, <2>2 DEF CallAt, CallInProgress
        <3> QED BY <3>1, <1>1, SeqMonotonic
    <2>5. todo' \in Seq(CallAt(w - 1))
        BY <2>1, <2>3, <2>4, ConcatProperties
    <2>6. RestTyped'
        BY <1>3, <2>1, <2>2 DEF RestTyped, IInv, TypeOK, Window
    <2> QED BY <2>1, <2>5, <2>6, <1>3, OtherStep
<1>5. CASE ~(w <= viewable)
    <2>1. viewable' = viewable /\ todo' = Free(w) \o Tail(todo)
        BY <1>2, <1>5 DEF DeleteWindow
    <2>2. Free(w) \in Seq(CallAt(viewable))
        BY <1>1, <1>5, FreeTyped, DeviceGrabsAssumption
    <2>3. todo' \in Seq(CallAt(viewable))
        BY <2>1, <2>2, <1>1, ConcatProperties
    <2>4. RestTyped'
        BY <1>3, <2>1 DEF RestTyped, IInv, TypeOK
    <2> QED BY <2>1, <2>3, <2>4, <1>3, OtherStep
<1> QED BY <1>4, <1>5

LEMMA FreeWindowStep ==
    ASSUME IInv, FreeWindow
    PROVE  StepKept
<1>1. /\ Head(todo).window \in 2..Depth /\ viewable < Head(todo).window
      /\ Tail(todo) \in Seq(CallAt(viewable))
    BY CallTaken, CallsCarry DEF FreeWindow
<1>2. /\ exists' = Head(todo).window - 1 /\ todo' = Tail(todo)
      /\ passive' \subseteq passive
      /\ UNCHANGED <<dev, down, activator, queue>>
      /\ UNCHANGED <<connected, retained, viewable, sprite, held>>
    BY DEF FreeWindow, clientVars
<1>3. RestTyped'
    <2>1. exists' \in 1..Depth /\ viewable' \in 1..exists'
        <3>1. PICK w \in 2..Depth : w = Head(todo).window /\ viewable < w
            BY <1>1
        <3>2. viewable \in Int /\ viewable >= 1 /\ Depth \in Nat
            BY DeviceGrabsAssumption DEF IInv, TypeOK, Window
        <3>3. exists' = w - 1 /\ viewable' = viewable
            BY <3>1, <1>2
        <3> QED BY <3>1, <3>2, <3>3
    <2>2. /\ held \subseteq Key \cup Button /\ passive \subseteq PassiveGrab
          /\ connected \subseteq Client /\ retained \subseteq Client \ connected
          /\ sprite \in Window
        BY DEF IInv, TypeOK
    <2> QED BY <2>1, <2>2, <1>2 DEF RestTyped, Window
<1> QED BY <1>1, <1>2, <1>3, OtherStep

-----------------------------------------------------------------------------
(* The end of a client.                                                    *)

LEMMA CloseDownStep ==
    ASSUME IInv, NEW c \in Client, NEW mode \in CloseDownModes \cup {"Kill"},
           CloseDownClient(c, mode)
    PROVE  StepKept
<1>1. /\ todo' = <<Release(c, "pointer"), Release(c, "keyboard"), CloseDown(c, mode)>>
      /\ UNCHANGED <<dev, down, activator, queue>>
      /\ UNCHANGED <<connected, retained, viewable, exists, sprite, passive, held>>
    BY DEF CloseDownClient, clientVars, windowVars
<1>2. /\ Release(c, "pointer") \in CallAt(viewable)
      /\ Release(c, "keyboard") \in CallAt(viewable)
      /\ CloseDown(c, mode) \in CallAt(viewable)
    BY InvDevices, CallsTyped DEF Device
<1>3. todo' \in Seq(CallAt(viewable))
    BY <1>1, <1>2
<1>4. RestTyped'
    BY <1>1 DEF RestTyped, IInv, TypeOK
<1> QED BY <1>1, <1>3, <1>4, OtherStep

LEMMA FinishCloseDownStep ==
    ASSUME IInv, FinishCloseDown
    PROVE  StepKept
<1>1. PICK c \in Client : c = Head(todo).client
    BY CallTaken, CallsCarry DEF FinishCloseDown
<1>2. Tail(todo) \in Seq(CallAt(viewable)) /\ viewable \in Int
    BY CallTaken DEF FinishCloseDown
<1>3. /\ UNCHANGED <<dev, down, activator, queue>>
      /\ UNCHANGED <<viewable, exists, sprite, passive, held>>
      /\ connected' = connected \ {c}
      /\ \/ retained' = retained \cup {c} /\ todo' = Tail(todo)
         \/ retained' = retained \ {c} /\ FreeClientResources(c, Tail(todo))
    BY <1>1 DEF FinishCloseDown, windowVars
<1>4. RestTyped'
    BY <1>3 DEF RestTyped, IInv, TypeOK
<1>5. todo' \in Seq(CallAt(viewable))
    <2>1. CASE todo' = Tail(todo)
        BY <2>1, <1>2
    <2>2. FreePassive(c) \in CallAt(viewable)
        BY <1>2, CallsTyped
    <2>3. CASE todo' = <<FreePassive(c)>> \o Tail(todo)
        BY <2>2, <2>3, <1>2, CallFirst
    <2>4. ASSUME NEW w \in 2..exists,
                 \/ todo' = <<FreePassive(c), Destroy(w)>> \o Tail(todo)
                 \/ todo' = <<Destroy(w), FreePassive(c)>> \o Tail(todo)
          PROVE  todo' \in Seq(CallAt(viewable))
        <3>1. w \in 2..Depth
            BY DeviceGrabsAssumption DEF IInv, TypeOK, Window
        <3>2. Destroy(w) \in CallAt(viewable)
            BY <3>1, <1>2, CallsTyped
        <3>3. /\ <<FreePassive(c), Destroy(w)>> \in Seq(CallAt(viewable))
              /\ <<Destroy(w), FreePassive(c)>> \in Seq(CallAt(viewable))
            BY <2>2, <3>2
        <3> QED BY <3>3, <2>4, <1>2, ConcatProperties
    <2> QED BY <2>1, <2>3, <2>4, <1>3 DEF FreeClientResources
<1> QED BY <1>3, <1>4, <1>5, OtherStep

LEMMA FreePassiveStep ==
    ASSUME IInv, FreePassiveGrabs
    PROVE  StepKept
<1>1. /\ todo' = Tail(todo) /\ passive' \subseteq passive
      /\ UNCHANGED <<dev, down, activator, queue>>
      /\ UNCHANGED <<connected, retained, viewable, exists, sprite, held>>
    BY DEF FreePassiveGrabs, clientVars, windowVars
<1>2. RestTyped'
    BY <1>1 DEF RestTyped, IInv, TypeOK
<1>3. todo' \in Seq(CallAt(viewable'))
    BY <1>1, CallTaken DEF FreePassiveGrabs
<1> QED BY <1>1, <1>2, <1>3, OtherStep

-----------------------------------------------------------------------------
(* Grabs and the connections of their clients.  While a client is closed      *)
(* down, what is left of ReleaseActiveGrabs comes before the connection goes. *)

\* A grab of client c that did not begin while c was being closed down or gone
Early(D, d, c) == Grabbed(D, d, c) /\ ~D[d].grab.late

ReleasedFirst(D, s) ==
    \A i \in DOMAIN s : s[i].call = "close" =>
        \A d \in Device : Early(D, d, s[i].client) =>
            \E j \in 1..(i - 1) : s[j] = Release(s[i].client, d)

EndsInv == HoldersConnected /\ ReleasedFirst(dev, todo)

\* The grabs of D are those in force, but for some that ended and some that began.
GrabsFrom(D) ==
    \A d \in Device : \/ D[d].grab = dev[d].grab
                      \/ D[d].grab = NoGrab
                      \/ D[d].grab.late = Late(D[d].grab.client)

\* More calls before those in progress change nothing.
LEMMA ReleasedPush ==
    ASSUME NEW D, NEW S, NEW p \in Seq(S), NEW s \in Seq(S),
           NoClose(p), ReleasedFirst(D, s)
    PROVE  ReleasedFirst(D, p \o s)
<1> DEFINE t == p \o s
<1>1. /\ t \in Seq(S) /\ Len(t) = Len(p) + Len(s)
      /\ Len(p) \in Nat /\ Len(s) \in Nat
      /\ DOMAIN t = 1..(Len(p) + Len(s)) /\ DOMAIN s = 1..Len(s)
      /\ DOMAIN p = 1..Len(p)
      /\ \A i \in 1..(Len(p) + Len(s)) :
            t[i] = IF i <= Len(p) THEN p[i] ELSE s[i - Len(p)]
    BY ConcatProperties, LenProperties
<1> HIDE DEF t
<1>2. ASSUME NEW i \in DOMAIN t, t[i].call = "close",
             NEW d \in Device, Early(D, d, t[i].client)
      PROVE  \E j \in 1..(i - 1) : t[j] = Release(t[i].client, d)
    <2>1. i \in Int /\ i > Len(p) /\ i - Len(p) \in DOMAIN s /\ t[i] = s[i - Len(p)]
        BY <1>1, <1>2 DEF NoClose
    <2>2. PICK j \in 1..(i - Len(p) - 1) : s[j] = Release(t[i].client, d)
        BY <2>1, <1>2 DEF ReleasedFirst
    <2>3. j + Len(p) \in 1..(i - 1) /\ j + Len(p) \in 1..(Len(p) + Len(s))
        BY <1>1, <1>2, <2>1, <2>2
    <2>4. t[j + Len(p)] = s[j]
        BY <1>1, <2>2, <2>3
    <2> QED BY <2>2, <2>3, <2>4
<1> QED BY <1>2 DEF ReleasedFirst, t

\* Nor does the end of a call, unless it is a release still to be done.
LEMMA ReleasedPop ==
    ASSUME NEW D, NEW S, NEW s \in Seq(S), s # <<>>, ReleasedFirst(D, s),
           \A c : \A d \in Device : Head(s) = Release(c, d) => ~Early(D, d, c)
    PROVE  ReleasedFirst(D, Tail(s))
<1> DEFINE t == Tail(s)
<1>1. /\ t \in Seq(S) /\ Len(t) = Len(s) - 1 /\ Len(s) \in Nat \ {0}
      /\ DOMAIN t = 1..(Len(s) - 1) /\ DOMAIN s = 1..Len(s)
      /\ \A i \in 1..(Len(s) - 1) : t[i] = s[i + 1]
      /\ Head(s) = s[1]
    BY HeadTailProperties, LenProperties, EmptySeq
<1> HIDE DEF t
<1>2. ASSUME NEW i \in DOMAIN t, t[i].call = "close",
             NEW d \in Device, Early(D, d, t[i].client)
      PROVE  \E j \in 1..(i - 1) : t[j] = Release(t[i].client, d)
    <2>1. i \in 1..(Len(s) - 1) /\ i + 1 \in DOMAIN s /\ t[i] = s[i + 1]
        BY <1>1
    <2>2. PICK j \in 1..i : s[j] = Release(t[i].client, d)
        BY <2>1, <1>2 DEF ReleasedFirst
    <2>3. j # 1
        BY <1>1, <1>2, <2>2
    <2>4. j - 1 \in 1..(i - 1) /\ t[j - 1] = s[j]
        BY <1>1, <2>1, <2>2, <2>3
    <2> QED BY <2>2, <2>4
<1> QED BY <1>2 DEF ReleasedFirst, t

\* Nor do grabs that end, or begin for a client that is being closed down.
LEMMA ReleasedWithGrabs ==
    ASSUME NEW D, GrabsFrom(D), ReleasedFirst(dev, todo), IInv
    PROVE  ReleasedFirst(D, todo)
<1>1. ASSUME NEW i \in DOMAIN todo, todo[i].call = "close",
             NEW d \in Device, Early(D, d, todo[i].client)
      PROVE  Early(dev, d, todo[i].client)
    <2>1. Late(todo[i].client)
        BY <1>1 DEF Late
    <2> QED BY <1>1, <2>1 DEF GrabsFrom, Early, Grabbed
<1> QED BY <1>1 DEF ReleasedFirst

LEMMA HoldersStay ==
    ASSUME HoldersConnected, GrabsFrom(dev'), connected' = connected
    PROVE  HoldersConnected'
BY DEF HoldersConnected, GrabsFrom, Late

\* A step in which no client's connection goes
LEMMA CallEnds ==
    ASSUME IInv, EndsInv, GrabsFrom(dev'), connected' = connected, todo # <<>>,
           Head(todo).call # "release",
           NEW p \in Seq(CallInProgress), NoClose(p), todo' = p \o Tail(todo)
    PROVE  EndsInv'
<1>1. todo \in Seq(CallInProgress) /\ Tail(todo) \in Seq(CallInProgress)
    BY HeadTailProperties DEF IInv, TypeOK
<1>2. ReleasedFirst(dev', todo)
    BY ReleasedWithGrabs DEF EndsInv
<1>3. ReleasedFirst(dev', Tail(todo))
    BY <1>1, <1>2, ReleasedPop DEF Release
<1>4. ReleasedFirst(dev', todo')
    BY <1>1, <1>3, ReleasedPush
<1> QED BY <1>4, HoldersStay DEF EndsInv

LEMMA RequestEnds ==
    ASSUME EndsInv, GrabsFrom(dev'), connected' = connected, NoClose(todo')
    PROVE  EndsInv'
<1>1. ReleasedFirst(dev', todo')
    BY DEF ReleasedFirst, NoClose
<1> QED BY <1>1, HoldersStay DEF EndsInv

\* The helpers that end, begin and keep grabs
LEMMA GrabsSame ==
    ASSUME NEW D, \A d \in Device : D[d].grab = dev[d].grab
    PROVE  GrabsFrom(D)
BY DEF GrabsFrom

LEMMA GrabsEnd ==
    ASSUME IInv, NEW d \in Device
    PROVE  GrabsFrom(Deactivated(dev, d))
<1> DEFINE E == Deactivated(dev, d)
<1>1. E[d].grab = NoGrab /\ E[Other(d)].grab = dev[Other(d)].grab
    BY InvDevices, DeactivatedSound
<1> HIDE DEF E
<1>2. GrabsFrom(E)
    BY <1>1, TwoDevices DEF GrabsFrom
<1> QED BY <1>2 DEF E

LEMMA GrabsBegin ==
    ASSUME IInv, NEW d \in Device, NEW g \in Grab, g.late = Late(g.client),
           NEW D, D = dev \/ D = Deactivated(dev, d), NEW x \in Event \cup {NoEvent}
    PROVE  /\ GrabsFrom(Activated(D, d, g, TRUE)) /\ GrabsFrom(Activated(D, d, g, FALSE))
           /\ GrabsFrom(FrozenWithEvent(Activated(D, d, g, TRUE), d, x))
<1>1. Sound(D) /\ D[Other(d)].grab = dev[Other(d)].grab
    <2> DEFINE E == Deactivated(dev, d)
    <2>1. Exact(E) /\ E[Other(d)].grab = dev[Other(d)].grab
        BY InvDevices, DeactivatedSound
    <2>2. D = dev \/ D = E
        OBVIOUS
    <2> HIDE DEF E
    <2> QED BY <2>1, <2>2, InvDevices DEF Exact
<1>2. ASSUME NEW auto \in BOOLEAN
      PROVE  LET E == Activated(D, d, g, auto)
             IN  /\ Exact(E) /\ E[d].grab = g
                 /\ E[Other(d)].grab = dev[Other(d)].grab
    BY <1>1, ActivatedSound
<1>3. ASSUME NEW E, E[d].grab = g, E[Other(d)].grab = dev[Other(d)].grab
      PROVE  GrabsFrom(E)
    BY <1>3, TwoDevices DEF GrabsFrom
<1>4. GrabsFrom(Activated(D, d, g, TRUE)) /\ GrabsFrom(Activated(D, d, g, FALSE))
    BY <1>2, <1>3
<1> DEFINE E == Activated(D, d, g, TRUE)
<1>5. Exact(E) /\ E[d].grab = g /\ E[Other(d)].grab = dev[Other(d)].grab
    BY <1>2
<1> HIDE DEF E
<1>6. \A y \in Device : FrozenWithEvent(E, d, x)[y].grab = E[y].grab
    BY <1>5, FrozenWithEventExact
<1>7. GrabsFrom(FrozenWithEvent(E, d, x))
    BY <1>3, <1>5, <1>6, TwoDevices
<1> QED BY <1>4, <1>7 DEF E

\* The grabs of clients and listeners know whether they begin too late.
LEMMA LateGrabs ==
    /\ \A p, how : GrabOf(p, how).late = Late(GrabOf(p, how).client)
    /\ \A e, how : \A g \in AutomaticGrabs(e, how) : g.late = Late(g.client)
BY DEF GrabOf, AutomaticGrabs, AutomaticGrab

\* What is put before the calls in progress
Pushed(rest) ==
    \E p \in Seq(CallInProgress) : NoClose(p) /\ todo' = p \o rest

LEMMA PushedNone ==
    ASSUME NEW rest \in Seq(CallInProgress), todo' = rest
    PROVE  Pushed(rest)
<1>1. <<>> \in Seq(CallInProgress) /\ NoClose(<<>>)
    BY EmptySeq DEF NoClose
<1> QED BY <1>1, ConcatEmptySeq DEF Pushed

LEMMA PushedPlay ==
    ASSUME NEW rest \in Seq(CallInProgress), todo' = ThenPlay(rest)
    PROVE  Pushed(rest)
<1>1. CASE Playing(rest)
    BY <1>1, PushedNone DEF ThenPlay
<1>2. CASE ~Playing(rest)
    <2>1. PlayFrom(1) \in CallInProgress /\ PlayFrom(1).call = "play"
        BY DEF PlayFrom, CallInProgress
    <2>2. <<PlayFrom(1)>> \in Seq(CallInProgress) /\ NoClose(<<PlayFrom(1)>>)
        BY <2>1 DEF NoClose
    <2> QED BY <1>2, <2>2 DEF ThenPlay, Pushed
<1> QED BY <1>1, <1>2

\* Processing an event begins and ends grabs, and closes no connection.
LEMMA EventEnds ==
    ASSUME IInv, NEW e \in Event, NEW q, NEW rest \in Seq(CallInProgress),
           ProcessEvent(e, q, rest)
    PROVE  GrabsFrom(dev') /\ Pushed(rest)
<1>0. e.dev \in Device /\ e \in Event \cup {NoEvent}
    BY EventsCarry
<1>1. CASE EnqueueEvent(e, q, rest) \/ IgnoreRelease(e, q, rest) \/ Moved(e, q, rest)
    <2>1. dev' = dev /\ todo' = rest
        BY <1>1 DEF EnqueueEvent, IgnoreRelease, Moved
    <2> QED BY <2>1, GrabsSame, PushedNone
<1>2. CASE RepeatKey(e, q, rest)
    <2>1. /\ dev' = dev
          /\ todo' = <<Process([e EXCEPT !.type = "release"]), Process(e)>> \o rest
          /\ Process([e EXCEPT !.type = "release"]) \in CallInProgress
          /\ Process(e) \in CallInProgress
        BY <1>2, EventsCarry DEF RepeatKey, Process, CallInProgress
    <2>2. /\ NoClose(<<Process([e EXCEPT !.type = "release"]), Process(e)>>)
          /\ <<Process([e EXCEPT !.type = "release"]), Process(e)>> \in Seq(CallInProgress)
        BY <2>1 DEF NoClose, Process
    <2> QED BY <2>1, <2>2, GrabsSame DEF Pushed
<1>3. CASE StartPassiveGrab(e, q, rest)
    <2>1. PICK p \in FirstMatch(e, 1) :
            LET D == Activated(dev, e.dev, GrabOf(p, "passive"), TRUE)
            IN  \/ dev' = FrozenWithEvent(D, e.dev, e) /\ todo' = rest
                \/ /\ dev' = D
                   /\ todo' = <<PlayFrom(1), FinishPassive(e)>> \o rest
        BY <1>3 DEF StartPassiveGrab
    <2>2. GrabOf(p, "passive") \in Grab
        BY GrabsTyped DEF FirstMatch, Matching, IInv
    <2>3. GrabsFrom(dev')
        BY <1>0, <2>1, <2>2, LateGrabs, GrabsBegin
    <2>4. ASSUME todo' = <<PlayFrom(1), FinishPassive(e)>> \o rest
          PROVE  Pushed(rest)
        <3>1. PlayFrom(1) \in CallInProgress /\ FinishPassive(e) \in CallInProgress
            BY DEF PlayFrom, FinishPassive, CallInProgress
        <3>2. /\ NoClose(<<PlayFrom(1), FinishPassive(e)>>)
              /\ <<PlayFrom(1), FinishPassive(e)>> \in Seq(CallInProgress)
            BY <3>1 DEF NoClose, PlayFrom, FinishPassive
        <3> QED BY <2>4, <3>2 DEF Pushed
    <2> QED BY <2>1, <2>3, <2>4, PushedNone
<1>4. CASE PressUngrabbed(e, q, rest)
    <2>1. CASE dev' = dev /\ todo' = rest
        BY <2>1, GrabsSame, PushedNone
    <2>2. ASSUME NEW g \in AutomaticGrabs(e, "passive"),
                 dev' = Activated(dev, e.dev, g, TRUE), todo' = ThenPlay(rest)
          PROVE  GrabsFrom(dev') /\ Pushed(rest)
        <3>1. g \in Grab /\ g.late = Late(g.client)
            BY GrabsTyped, LateGrabs DEF IInv
        <3> QED BY <1>0, <2>2, <3>1, GrabsBegin, PushedPlay
    <2> QED BY <1>4, <2>1, <2>2 DEF PressUngrabbed
<1>5. CASE PressGrabbed(e, q, rest)
    <2>1. /\ dev[e.dev].grab # NoGrab
          /\ dev' = DeliveredToGrab(dev, e.dev, e) /\ todo' = rest
        BY <1>5 DEF PressGrabbed
    <2> QED BY <1>0, <2>1, InvDevices, Delivered, GrabsSame, PushedNone
<1>6. CASE Released(e, q, rest)
    <2>1. CASE dev' = Deactivated(dev, e.dev) /\ todo' = ThenPlay(rest)
        BY <1>0, <2>1, GrabsEnd, PushedPlay
    <2>2. CASE /\ dev' = IF dev[e.dev].grab = NoGrab THEN dev
                         ELSE DeliveredToGrab(dev, e.dev, e)
               /\ todo' = rest
        BY <1>0, <2>2, InvDevices, Delivered, GrabsSame, PushedNone
    <2> QED BY <1>6, <2>1, <2>2 DEF Released
<1> QED BY <1>1, <1>2, <1>3, <1>4, <1>5, <1>6 DEF ProcessEvent

\* What the end of a window or a client puts before the calls in progress
LEMMA DestroyPushed ==
    ASSUME IInv, DeleteWindow
    PROVE  Pushed(Tail(todo))
<1>1. /\ Head(todo).window \in 2..Depth /\ Tail(todo) \in Seq(CallInProgress)
      /\ viewable \in Int
    <2>1. CallAt(viewable) \subseteq CallInProgress
        BY DEF CallAt
    <2> QED BY <2>1, CallTaken, CallsCarry, SeqMonotonic DEF DeleteWindow
<1>2. PICK w \in 2..Depth : w = Head(todo).window
    BY <1>1
<1>3. PICK v \in Int : v < w
    BY <1>2, DeviceGrabsAssumption
<1>4. CallAt(v) \subseteq CallInProgress
    BY DEF CallAt
<1>5. Free(w) \in Seq(CallInProgress) /\ NoClose(Free(w))
    BY <1>3, <1>4, FreeTyped, SeqMonotonic
<1>6. CASE w <= viewable
    <2>1. w \in 2..viewable
        BY <1>1, <1>6, DeviceGrabsAssumption
    <2>2. Unmap(w) \in Seq(CallInProgress) /\ NoClose(Unmap(w))
        BY <2>1, <1>4, UnmapTyped, SeqMonotonic
    <2>3. Unmap(w) \o Free(w) \in Seq(CallInProgress) /\ NoClose(Unmap(w) \o Free(w))
        BY <2>2, <1>5, ConcatProperties, NoCloseConcat
    <2>4. todo' = Unmap(w) \o Free(w) \o Tail(todo)
        BY <1>2, <1>6 DEF DeleteWindow
    <2> QED BY <2>3, <2>4 DEF Pushed
<1>7. CASE ~(w <= viewable)
    BY <1>2, <1>5, <1>7 DEF DeleteWindow, Pushed
<1> QED BY <1>6, <1>7

LEMMA ResourcesPushed ==
    ASSUME IInv, NEW c \in Client, NEW rest \in Seq(CallInProgress),
           FreeClientResources(c, rest)
    PROVE  Pushed(rest)
<1>1. FreePassive(c) \in CallInProgress /\ FreePassive(c).call = "ungrab"
    BY DEF FreePassive, CallInProgress
<1>2. CASE todo' = <<FreePassive(c)>> \o rest
    <2>1. <<FreePassive(c)>> \in Seq(CallInProgress) /\ NoClose(<<FreePassive(c)>>)
        BY <1>1 DEF NoClose
    <2> QED BY <1>2, <2>1 DEF Pushed
<1>3. ASSUME NEW w \in 2..exists,
             \/ todo' = <<FreePassive(c), Destroy(w)>> \o rest
             \/ todo' = <<Destroy(w), FreePassive(c)>> \o rest
      PROVE  Pushed(rest)
    <2>1. Destroy(w) \in CallInProgress /\ Destroy(w).call = "destroy"
        BY DeviceGrabsAssumption DEF Destroy, CallInProgress, IInv, TypeOK, Window
    <2>2. /\ <<FreePassive(c), Destroy(w)>> \in Seq(CallInProgress)
          /\ NoClose(<<FreePassive(c), Destroy(w)>>)
        BY <1>1, <2>1 DEF NoClose
    <2>3. /\ <<Destroy(w), FreePassive(c)>> \in Seq(CallInProgress)
          /\ NoClose(<<Destroy(w), FreePassive(c)>>)
        BY <1>1, <2>1 DEF NoClose
    <2> QED BY <1>3, <2>2, <2>3 DEF Pushed
<1> QED BY <1>2, <1>3 DEF FreeClientResources

\* The calls in progress
LEMMA ContinueEnds ==
    ASSUME IInv, EndsInv, Continue
    PROVE  EndsInv'
<1>0. todo \in Seq(CallInProgress)
    BY DEF IInv, TypeOK
<1>1. ASSUME todo # <<>>
      PROVE  Tail(todo) \in Seq(CallInProgress)
    BY <1>0, <1>1, HeadTailProperties
<1>2. ASSUME todo # <<>>, Head(todo).call # "release", connected' = connected,
             GrabsFrom(dev'), Pushed(Tail(todo))
      PROVE  EndsInv'
    BY <1>2, CallEnds DEF Pushed
<1>3. CASE PlayReleasedEvents
    <2>1. todo # <<>> /\ Head(todo).call = "play" /\ connected' = connected
        BY <1>3 DEF PlayReleasedEvents, Call, clientVars
    <2>2. CASE Playable = {}
        <3>1. dev' = dev /\ todo' = Tail(todo)
            BY <1>3, <2>2 DEF PlayReleasedEvents
        <3> QED BY <1>1, <1>2, <2>1, <3>1, GrabsSame, PushedNone
    <2>3. CASE Playable # {}
        <3>1. PICK i \in Playable :
                ProcessEvent(queue[i], RemoveAt(queue, i),
                             <<PlayFrom(i)>> \o Tail(todo))
            BY <1>3, <2>3 DEF PlayReleasedEvents
        <3>2. i \in Nat \ {0} /\ queue[i] \in Event
            <4>1. Head(todo).at \in Nat \ {0}
                BY <1>3, CallTaken, CallsCarry DEF PlayReleasedEvents
            <4> QED BY <4>1, InvDevices DEF Playable
        <3>3. /\ <<PlayFrom(i)>> \in Seq(CallInProgress) /\ NoClose(<<PlayFrom(i)>>)
            <4>1. PlayFrom(i) \in CallInProgress /\ PlayFrom(i).call = "play"
                BY <3>2 DEF PlayFrom, CallInProgress
            <4> QED BY <4>1 DEF NoClose
        <3>4. <<PlayFrom(i)>> \o Tail(todo) \in Seq(CallInProgress)
            BY <3>3, <1>1, <2>1, ConcatProperties
        <3>5. GrabsFrom(dev') /\ Pushed(<<PlayFrom(i)>> \o Tail(todo))
            BY <3>1, <3>2, <3>4, EventEnds
        <3>6. ReleasedFirst(dev', <<PlayFrom(i)>> \o Tail(todo))
            <4>1. ReleasedFirst(dev', todo)
                BY <3>5, ReleasedWithGrabs DEF EndsInv
            <4>2. ReleasedFirst(dev', Tail(todo))
                BY <4>1, <1>0, <2>1, ReleasedPop DEF Release
            <4> QED BY <4>2, <3>3, <1>1, <2>1, ReleasedPush
        <3>7. ReleasedFirst(dev', todo')
            BY <3>4, <3>5, <3>6, ReleasedPush DEF Pushed
        <3> QED BY <3>5, <3>7, <2>1, HoldersStay DEF EndsInv
    <2> QED BY <2>2, <2>3
<1>4. CASE ProcessRepeat
    <2>1. /\ todo # <<>> /\ Head(todo).call = "process" /\ connected' = connected
          /\ Head(todo).event \in Event
          /\ ProcessEvent(Head(todo).event, queue, Tail(todo))
        BY <1>4, CallTaken, CallsCarry DEF ProcessRepeat, Call, clientVars
    <2> QED BY <2>1, <1>1, <1>2, EventEnds
<1>5. CASE FinishPassiveGrab
    <2>1. /\ todo # <<>> /\ Head(todo).call = "passive" /\ connected' = connected
          /\ Head(todo).event \in Event /\ todo' = Tail(todo)
          /\ dev' = FrozenWithEvent(dev, Head(todo).event.dev, Head(todo).event)
        BY <1>5, CallTaken, CallsCarry DEF FinishPassiveGrab, Call, clientVars
    <2>2. PICK e \in Event : e = Head(todo).event
        BY <2>1
    <2>3. PICK d \in Device : d = e.dev
        BY EventsCarry
    <2>4. /\ dev' = FrozenWithEvent(dev, d, e) /\ Exact(dev)
          /\ e \in Event \cup {NoEvent}
        BY <2>1, <2>2, <2>3, InvDevices
    <2>5. GrabsFrom(dev')
        BY <2>4, FrozenWithEventExact, GrabsSame
    <2> QED BY <2>1, <2>5, <1>1, <1>2, PushedNone
<1>6. CASE DeleteWindowFromAnyEvents
    <2>1. /\ todo # <<>> /\ Head(todo).call = "delete" /\ connected' = connected
          /\ Head(todo).dev \in Device
          /\ \/ dev' = Deactivated(dev, Head(todo).dev) /\ todo' = ThenPlay(Tail(todo))
             \/ dev' = dev /\ todo' = Tail(todo)
        BY <1>6, CallTaken, CallsCarry DEF DeleteWindowFromAnyEvents, Call, clientVars
    <2>2. GrabsFrom(dev') /\ Pushed(Tail(todo))
        BY <2>1, <1>1, GrabsSame, GrabsEnd, PushedNone, PushedPlay
    <2> QED BY <2>1, <2>2, <1>2
<1>7. CASE WindowsRestructured \/ FreeWindow \/ FreePassiveGrabs
    <2>1. /\ todo # <<>> /\ Head(todo).call # "release" /\ connected' = connected
          /\ dev' = dev /\ todo' = Tail(todo)
        BY <1>7 DEF WindowsRestructured, FreeWindow, FreePassiveGrabs, Call, clientVars
    <2> QED BY <2>1, <1>1, <1>2, GrabsSame, PushedNone
<1>8. CASE DeleteWindow
    <2>1. /\ todo # <<>> /\ Head(todo).call = "destroy" /\ connected' = connected
          /\ dev' = dev /\ Head(todo).window \in 2..Depth /\ viewable \in Int
        BY <1>8, CallTaken, CallsCarry DEF DeleteWindow, Call, clientVars
    <2>2. Pushed(Tail(todo))
        BY <1>8, <2>1, <1>1, DestroyPushed
    <2> QED BY <2>1, <2>2, <1>2, GrabsSame
<1>9. CASE ReleaseActiveGrabs
    <2>1. PICK c \in Client, d \in Device :
            /\ todo # <<>> /\ Head(todo) = Release(c, d) /\ connected' = connected
            /\ IF Grabbed(dev, d, c)
               THEN dev' = Deactivated(dev, d) /\ todo' = ThenPlay(Tail(todo))
               ELSE dev' = dev /\ todo' = Tail(todo)
        <3>1. /\ todo # <<>> /\ Head(todo) \in CallInProgress
              /\ Head(todo).call = "release"
            BY <1>9, <1>0, HeadTailProperties DEF ReleaseActiveGrabs, Call
        <3>2. PICK c \in Client, d \in Device : Head(todo) = Release(c, d)
            BY <3>1 DEF CallInProgress, Release
        <3>3. Head(todo).client = c /\ Head(todo).dev = d
            BY <3>2 DEF Release
        <3> QED BY <1>9, <3>1, <3>2, <3>3 DEF ReleaseActiveGrabs, clientVars
    <2>2. GrabsFrom(dev') /\ Pushed(Tail(todo))
        BY <2>1, <1>1, GrabsSame, GrabsEnd, PushedNone, PushedPlay
    <2>3. ~Grabbed(dev', d, c)
        <3>1. Deactivated(dev, d)[d].grab = NoGrab
            BY InvDevices, DeactivatedSound
        <3> QED BY <3>1, <2>1 DEF Grabbed
    <2>4. ReleasedFirst(dev', todo)
        BY <2>2, ReleasedWithGrabs DEF EndsInv
    <2>5. \A y : \A x \in Device : Head(todo) = Release(y, x) => x = d /\ y = c
        BY <2>1 DEF Release
    <2>6. ReleasedFirst(dev', Tail(todo))
        BY <2>1, <2>3, <2>4, <2>5, <1>0, ReleasedPop DEF Early
    <2>7. ReleasedFirst(dev', todo')
        BY <2>1, <2>2, <2>6, <1>1, ReleasedPush DEF Pushed
    <2> QED BY <2>1, <2>2, <2>7, HoldersStay DEF EndsInv
<1>10. CASE FinishCloseDown
    <2>1. PICK c : /\ todo # <<>> /\ Head(todo).call = "close"
                   /\ c = Head(todo).client /\ c \in Client /\ dev' = dev
                   /\ connected' = connected \ {c}
                   /\ todo' = Tail(todo) \/ FreeClientResources(c, Tail(todo))
        BY <1>10, CallTaken, CallsCarry DEF FinishCloseDown, Call
    <2>2. Pushed(Tail(todo))
        BY <2>1, <1>1, ResourcesPushed, PushedNone
    <2>3. \A d \in Device : ~Early(dev, d, c)
        <3>1. 1 \in DOMAIN todo /\ Head(todo) = todo[1]
            BY <1>0, <2>1
        <3> QED BY <3>1, <2>1 DEF EndsInv, ReleasedFirst
    <2>4. HoldersConnected'
        BY <2>1, <2>3 DEF EndsInv, HoldersConnected, Early, Grabbed
    <2>5. ReleasedFirst(dev', todo)
        BY <2>1 DEF EndsInv
    <2>6. ReleasedFirst(dev', Tail(todo))
        BY <2>1, <2>5, <1>0, ReleasedPop DEF Release
    <2>7. ReleasedFirst(dev', todo')
        BY <2>1, <2>2, <2>6, <1>1, ReleasedPush DEF Pushed
    <2> QED BY <2>4, <2>7 DEF EndsInv
<1> QED BY <1>3, <1>4, <1>5, <1>6, <1>7, <1>8, <1>9, <1>10 DEF Continue

\* Hardware and requests
LEMMA RequestsEnd ==
    ASSUME IInv, EndsInv, User \/ Request
    PROVE  EndsInv'
<1>0. todo = <<>> => NoClose(todo)
    BY DEF NoClose
<1>1. ASSUME NEW e \in Event, Hardware(e)
      PROVE  EndsInv'
    <2>1. <<>> \in Seq(CallInProgress) /\ ProcessEvent(e, queue, <<>>)
          /\ connected' = connected
        BY <1>1, EmptySeq DEF Hardware, clientVars
    <2>2. GrabsFrom(dev') /\ Pushed(<<>>)
        BY <2>1, EventEnds
    <2>3. NoClose(todo')
        BY <2>2, ConcatEmptySeq DEF Pushed
    <2> QED BY <2>1, <2>2, <2>3, RequestEnds
<1>2. CASE User
    <2>1. /\ \A d \in Device, x \in Key \cup Button :
                x \in On(d) => /\ [dev |-> d, type |-> "press", detail |-> x] \in Event
                              /\ [dev |-> d, type |-> "release", detail |-> x] \in Event
          /\ [dev |-> "pointer", type |-> "motion", detail |-> Nobody] \in Event
        BY DEF On, Device, Event
    <2> QED BY <1>1, <1>2, <2>1 DEF User, Press, Lift, Move
<1>3. ASSUME todo' = ThenPlay(<<>>)
      PROVE  NoClose(todo')
    <2>1. <<>> \in Seq(CallInProgress)
        BY EmptySeq
    <2> QED BY <2>1, <1>3, PushedPlay, ConcatEmptySeq DEF Pushed
<1>4. ASSUME todo' = ThenPlay(<<>>), connected' = connected, GrabsFrom(dev')
      PROVE  EndsInv'
    BY <1>3, <1>4, RequestEnds
<1>5. ASSUME NEW r \in ActiveGrab, GrabDevice(r)
      PROVE  EndsInv'
    <2>1. /\ GrabOf(r, "active") \in Grab /\ r.dev \in Device
          /\ NoEvent \in Event \cup {NoEvent}
        BY GrabsTyped, DeviceGrabsAssumption DEF IInv
    <2>2. GrabsFrom(dev')
        BY <1>5, <2>1, LateGrabs, GrabsBegin DEF GrabDevice
    <2> QED BY <1>4, <1>5, <2>2 DEF GrabDevice, clientVars
<1>6. ASSUME NEW c \in Client, NEW d \in Device, UngrabDevice(c, d)
      PROVE  EndsInv'
    BY <1>4, <1>6, GrabsEnd DEF UngrabDevice, clientVars
<1>7. ASSUME NEW c \in Client, AllowEvents(c)
      PROVE  EndsInv'
    <2>1. ASSUME NEW D, Sound(D), \A d \in Device : D[d].grab = dev[d].grab, Allow(c, D)
          PROVE  EndsInv'
        BY <1>4, <2>1, RecomputedExact, GrabsSame DEF Allow, clientVars
    <2>2. {"THAWED", "FREEZE_NEXT_EVENT", "FREEZE_BOTH_NEXT_EVENT"}
            \subseteq SyncState \ {"NOT_GRABBED"}
        BY DEF SyncState
    <2>3. ASSUME NEW d \in Device, AllowAsync(c, d) \/ AllowSync(c, d)
          PROVE  EndsInv'
        BY <2>1, <2>2, <2>3, InvDevices, ThawSound DEF AllowAsync, AllowSync
    <2>4. ASSUME NEW state \in {"THAWED", "FREEZE_BOTH_NEXT_EVENT"}, AllowBoth(c, state)
          PROVE  EndsInv'
        <3> DEFINE K == Thaw(dev, "keyboard", c, state)
        <3>1. /\ "keyboard" \in Device /\ "pointer" \in Device
              /\ state \in SyncState /\ state # "NOT_GRABBED"
            BY <2>2 DEF Device
        <3>2. Sound(K) /\ \A x \in Device : K[x].grab = dev[x].grab
            BY <3>1, InvDevices, ThawSound
        <3> HIDE DEF K
        <3>3. /\ Sound(Thaw(K, "pointer", c, state))
              /\ \A x \in Device : Thaw(K, "pointer", c, state)[x].grab = K[x].grab
            BY <3>1, <3>2, ThawSound
        <3>4. Allow(c, Thaw(K, "pointer", c, state))
            BY <2>4 DEF AllowBoth, K
        <3> QED BY <2>1, <3>2, <3>3, <3>4
    <2>5. ASSUME NEW d \in Device, AllowReplay(c, d)
          PROVE  EndsInv'
        <3>1. PICK e \in Event \cup {NoEvent} : e = dev[d].event
            BY InvDevices DEF DeviceState
        <3>2. ASSUME NEW from, NEW p \in FirstMatch(e, from),
                     dev' = FrozenWithEvent(Activated(Deactivated(dev, d), d,
                                            GrabOf(p, "replay"), TRUE), d, e)
              PROVE  GrabsFrom(dev')
            <4>1. GrabOf(p, "replay") \in Grab
                BY GrabsTyped DEF FirstMatch, Matching, IInv
            <4> QED BY <3>2, <4>1, LateGrabs, GrabsBegin
        <3>3. ASSUME NEW g \in AutomaticGrabs(e, "replay"),
                     dev' = Activated(Deactivated(dev, d), d, g, TRUE)
              PROVE  GrabsFrom(dev')
            <4>1. g \in Grab /\ g.late = Late(g.client)
                BY GrabsTyped, LateGrabs DEF IInv
            <4> QED BY <3>1, <3>3, <4>1, GrabsBegin
        <3>4. GrabsFrom(dev')
            BY <2>5, <3>1, <3>2, <3>3, GrabsEnd DEF AllowReplay
        <3> QED BY <1>4, <2>5, <3>4 DEF AllowReplay, clientVars
    <2> QED BY <1>7, <2>3, <2>4, <2>5 DEF AllowEvents, AllowAsyncBoth, AllowSyncBoth
<1>8. ASSUME NEW p \in PassiveGrab, SetPassiveGrab(p) \/ DeletePassiveGrab(p)
      PROVE  EndsInv'
    <2>1. todo = <<>> /\ UNCHANGED <<dev, todo, connected>>
        BY <1>8 DEF SetPassiveGrab, DeletePassiveGrab, Idle, inputVars, clientVars
    <2> QED BY <2>1, <1>0, GrabsSame, RequestEnds
<1>9. ASSUME NEW w \in Window, UnmapWindow(w)
      PROVE  EndsInv'
    <2>1. todo' = Unmap(w) /\ w \in 2..viewable /\ UNCHANGED <<dev, connected>>
        BY <1>9 DEF UnmapWindow, clientVars
    <2>2. NoClose(todo')
        BY <2>1, UnmapTyped
    <2> QED BY <2>1, <2>2, GrabsSame, RequestEnds
<1>10. CASE MapWindows
    <2>1. todo = <<>> /\ UNCHANGED <<dev, todo, connected>>
        BY <1>10 DEF MapWindows, Idle, inputVars, clientVars
    <2> QED BY <2>1, <1>0, GrabsSame, RequestEnds
<1>11. ASSUME NEW c \in Client, NEW mode \in CloseDownModes \cup {"Kill"},
              CloseDownClient(c, mode)
       PROVE  EndsInv'
    <2>1. /\ UNCHANGED <<dev, connected>>
          /\ todo' = <<Release(c, "pointer"), Release(c, "keyboard"), CloseDown(c, mode)>>
        BY <1>11 DEF CloseDownClient, clientVars
    <2>2. /\ todo'[1] = Release(c, "pointer") /\ todo'[2] = Release(c, "keyboard")
          /\ todo'[3].client = c /\ DOMAIN todo' = 1..3
          /\ todo'[1].call # "close" /\ todo'[2].call # "close"
        BY <2>1 DEF Release, CloseDown
    <2>3. ReleasedFirst(dev', todo')
        BY <2>2 DEF ReleasedFirst, Device
    <2>4. HoldersConnected'
        BY <2>1, GrabsSame, HoldersStay DEF EndsInv
    <2> QED BY <2>3, <2>4 DEF EndsInv
<1> QED BY <1>2, <1>5, <1>6, <1>7, <1>8, <1>9, <1>10, <1>11 DEF Request

-----------------------------------------------------------------------------
(* The theorems.                                                           *)

LEMMA InitInv == Init => IInv /\ Rights!Init
<1> SUFFICES ASSUME Init PROVE IInv /\ Rights!Init
    OBVIOUS
<1>1. \A d \in Device :
        /\ dev[d] \in DeviceState
        /\ dev[d].grab = NoGrab /\ dev[d].state = "NOT_GRABBED"
        /\ dev[d].other = FALSE /\ dev[d].frozen = FALSE /\ dev[d].auto = FALSE
    BY DEF Init, DeviceState, SyncState
<1>2. dev \in [Device -> DeviceState]
    BY <1>1 DEF Init
<1>3. TypeOK /\ todo \in Seq(CallAt(viewable))
    <2>1. queue \in Seq(Event) /\ todo \in Seq(CallInProgress)
            /\ todo \in Seq(CallAt(viewable))
        BY EmptySeq DEF Init
    <2>2. exists \in Window /\ viewable \in 1..exists /\ sprite \in Window
        BY DeviceGrabsAssumption DEF Init, Window
    <2>3. /\ down \subseteq Key \cup Button /\ held \subseteq Key \cup Button
          /\ activator \in Key \cup {Nobody} /\ passive \subseteq PassiveGrab
          /\ connected \subseteq Client /\ retained \subseteq Client \ connected
        BY DEF Init
    <2> QED BY <1>2, <2>1, <2>2, <2>3 DEF TypeOK
<1>4. FreezesAreGrabs /\ ButtonGrabHasAButton
    BY <1>1, TwoDevices DEF FreezesAreGrabs, ButtonGrabHasAButton, Frozen, Device
<1>5. Rights!Init
    <2>1. Holds(dev) = [d \in Device |-> Nobody]
        BY <1>1, GrabsHaveClients DEF Holds
    <2>2. FrozenBy(dev) = [d \in Device |-> {}]
        BY <1>1 DEF FrozenBy, Frozen
    <2> QED BY <2>1, <2>2 DEF Rights!Init, Holds, FrozenBy
<1> QED BY <1>3, <1>4, <1>5 DEF IInv

LEMMA NextKept == IInv /\ [Next]_vars => StepKept
<1> SUFFICES ASSUME IInv, [Next]_vars PROVE StepKept
    OBVIOUS
<1>1. CASE Continue
    BY <1>1, PlayStep, RepeatStep, FinishPassiveStep, DeleteFromEventsStep,
       RestructuredStep, DestroyStep, FreeWindowStep, ReleaseGrabsStep,
       FinishCloseDownStep, FreePassiveStep DEF Continue
<1>2. CASE User
    BY <1>2, UserStep
<1>3. CASE Request
    BY <1>3, GrabStep, UngrabStep, AllowEventsStep, PassiveRequestStep, UnmapStep,
       MapStep, CloseDownStep DEF Request
<1>4. CASE UNCHANGED vars
    <2>1. /\ UNCHANGED <<dev, down, activator, queue, todo>>
          /\ UNCHANGED <<connected, retained, viewable, exists, sprite, passive, held>>
        BY <1>4 DEF vars, inputVars, clientVars, windowVars
    <2>2. RestTyped'
        BY <2>1 DEF RestTyped, IInv, TypeOK
    <2>3. todo' \in Seq(CallAt(viewable'))
        BY <2>1, InvDevices
    <2> QED BY <2>1, <2>2, <2>3, OtherStep
<1> QED BY <1>1, <1>2, <1>3, <1>4 DEF Next

\* The inductive invariant holds of events.c's grabs, whatever clients ask for
\* and users do.
THEOREM Invariance == Spec => []IInv
<1>1. Init => IInv
    BY InitInv
<1>2. IInv /\ [Next]_vars => IInv'
    BY NextKept DEF StepKept
<1> QED BY <1>1, <1>2, PTL DEF Spec

\* Every variable of the device code keeps its type.
THEOREM TypeCorrect == Spec => []TypeOK
<1>1. IInv => TypeOK
    BY DEF IInv
<1> QED BY <1>1, Invariance, PTL

\* CloseDownClient ends the grabs of a client before its connection goes.
THEOREM HoldersAreConnected == Spec => []EndsInv
<1>1. Init => EndsInv
    BY DEF Init, EndsInv, HoldersConnected, ReleasedFirst
<1>2. IInv /\ EndsInv /\ [Next]_vars => EndsInv'
    <2> SUFFICES ASSUME IInv, EndsInv, [Next]_vars PROVE EndsInv'
        OBVIOUS
    <2>1. CASE UNCHANGED vars
        BY <2>1 DEF EndsInv, HoldersConnected, ReleasedFirst, Early, Grabbed, vars,
                    inputVars, clientVars
    <2> QED BY <2>1, ContinueEnds, RequestsEnd DEF Next
<1> QED BY <1>1, <1>2, Invariance, PTL DEF Spec

\* sync.frozen is right after ComputeFreezes and DeliverGrabbedEvent, and
\* whatever freezes a device is a grab in force, of a client that is connected
\* unless the grab began when it was already being closed down or gone.
THEOREM FreezesHaveGrabs == Spec => []FreezeHasAGrab
<1>1. IInv /\ EndsInv => FreezeHasAGrab
    BY DEF IInv, EndsInv, FreezeHasAGrab
<1> QED BY <1>1, Invariance, HoldersAreConnected, PTL

\* ProcessPointerEvent ends a grab that a button started with the last button.
THEOREM ButtonGrabsEnd == Spec => []ButtonGrabHasAButton
<1>1. IInv => ButtonGrabHasAButton
    BY DEF IInv
<1> QED BY <1>1, Invariance, PTL

\* Grabbing, ungrabbing, AllowEvents, replay and the end of clients and windows
\* implement the rights of GrabRights.
THEOREM RightsAreKept == Spec => RightsKept
<1>1. Init => Rights!Init
    BY InitInv
<1>2. IInv /\ [Next]_vars => [Rights!Next]_(Rights!vars)
    BY NextKept DEF StepKept
<1> QED BY <1>1, <1>2, Invariance, PTL DEF Spec, RightsKept, Rights!Spec
=============================================================================
