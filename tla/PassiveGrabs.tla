---------------------------- MODULE PassiveGrabs ----------------------------
(***************************************************************************)
(* The passive grabs of one window (dix/grabs.c): GrabKey and GrabButton     *)
(* with exact or "any" keys, buttons and modifiers, how a new grab or an     *)
(* ungrab cuts what it names out of the older grabs, and which grab an event *)
(* finds.                                                                   *)
(*                                                                          *)
(* The list is a set: an event takes the first grab that matches it, and     *)
(* OneGrabPerCombination says there never is a second.  A request runs to     *)
(* its end before the next.  DeletePassiveGrabFromList adds the grab it       *)
(* splits off at the head of the list and may meet the one it was split from  *)
(* again; that one no longer matches, so each grab is looked at once here.    *)
(* The modifiers of a request are valid.                                     *)
(***************************************************************************)
EXTENDS Naturals, FiniteSets

CONSTANTS
    Client,     \* clients
    Device,     \* the keyboard and the pointer
    Detail,     \* key codes and button numbers, which are alike
    Modifier,   \* the sets of modifier keys an event may come with
    Terms,      \* the other fields of a GrabRec: modes, event mask, cursor...
    MaxGrabs,   \* bound: no grab is added to that many
    AnyValue,   \* AnyKey, AnyButton and AnyModifier
    Null        \* no mask, no grab

ASSUME PassiveGrabsAssumption ==
    /\ MaxGrabs \in Nat
    /\ AnyValue \notin Detail \cup Modifier
    /\ \A s \in (SUBSET Detail) \cup (SUBSET Modifier) : s # Null
    /\ \A r \in [client : Client, terms : Terms] : r # Null

VARIABLE grabs      \* PASSIVEGRABS(pWin)

\* DetailRec, over the values that AnyValue may stand for: once there is a
\* pMask, it stands for what is in it.
DetailRec(Value) ==
    [exact : Value \cup {AnyValue}, pMask : {Null} \cup SUBSET Value]
Named(x) == [exact |-> x, pMask |-> Null]

GrabRec ==
    [client : Client, device : Device, terms : Terms,
     modifiersDetail : DetailRec(Modifier), detail : DetailRec(Detail)]

\* CreateGrab
CreateGrab(c, d, terms, modifiers, keybut) ==
    [client |-> c, device |-> d, terms |-> terms,
     modifiersDetail |-> Named(modifiers), detail |-> Named(keybut)]

\* The temporaryGrab of an ungrab and of an event
UngrabOf(c, d, modifiers, keybut) ==
    [client |-> c, device |-> d,
     modifiersDetail |-> Named(modifiers), detail |-> Named(keybut)]
EventOf(x) ==
    [device |-> x.device,
     modifiersDetail |-> Named(x.modifiers), detail |-> Named(x.detail)]

\* Only AnyValue has a mask.
TypeOK ==
    /\ grabs \subseteq GrabRec
    /\ \A g \in grabs :
        /\ g.detail.exact # AnyValue => g.detail.pMask = Null
        /\ g.modifiersDetail.exact # AnyValue => g.modifiersDetail.pMask = Null

-----------------------------------------------------------------------------
(* Which grabs match.                                                       *)

IsInGrabMask(first, second) ==
    /\ first.exact = AnyValue
    /\ first.pMask = Null \/ (second.exact # AnyValue /\ second.exact \in first.pMask)

IdenticalExactDetails(x, y) == x # AnyValue /\ y # AnyValue /\ x = y

DetailSupersedesSecond(first, second) ==
    \/ IsInGrabMask(first, second)
    \/ IdenticalExactDetails(first.exact, second.exact)

GrabSupersedesSecond(g, h) ==
    /\ DetailSupersedesSecond(g.modifiersDetail, h.modifiersDetail)
    /\ DetailSupersedesSecond(g.detail, h.detail)

GrabMatchesUncrossed(g, h) ==       \* mutant
    /\ g.device = h.device
    /\ GrabSupersedesSecond(g, h) \/ GrabSupersedesSecond(h, g)

GrabMatchesSecond(g, h) ==
    /\ g.device = h.device
    /\ \/ GrabSupersedesSecond(g, h)
       \/ GrabSupersedesSecond(h, g)
       \/ /\ DetailSupersedesSecond(h.detail, g.detail)
          /\ DetailSupersedesSecond(g.modifiersDetail, h.modifiersDetail)
       \/ /\ DetailSupersedesSecond(g.detail, h.detail)
          /\ DetailSupersedesSecond(h.modifiersDetail, g.modifiersDetail)

-----------------------------------------------------------------------------
(* DeletePassiveGrabFromList.                                               *)

\* DeleteDetailFromMask, the mask being NULL or not
Without(r, x, Value) ==
    [r EXCEPT !.pMask = (IF @ = Null THEN Value ELSE @) \ {x}]
WithoutDetail(g, m) ==
    [g EXCEPT !.detail = Without(@, m.detail.exact, Detail)]
WithoutModifiers(g, m) ==
    [g EXCEPT !.modifiersDetail =
        Without(@, m.modifiersDetail.exact, Modifier)]

SplitOffAfresh(g, m) ==             \* mutant
    WithoutModifiers(
        CreateGrab(g.client, g.device, g.terms, AnyValue, m.detail.exact), m)

\* pNewGrab: what is left of g for the key that m names
SplitOff(g, m) ==
    WithoutModifiers(
        [CreateGrab(g.client, g.device, g.terms, AnyValue, m.detail.exact)
            EXCEPT !.modifiersDetail.pMask = g.modifiersDetail.pMask], m)

RemainderOfAny(g, m) ==             \* mutant
    IF m.detail.exact # AnyValue THEN {WithoutDetail(g, m)}
                            ELSE {WithoutModifiers(g, m)}

\* What is left of a grab g that matches m and is not superseded by it
Remainder(g, m) ==
    CASE g.detail.exact = AnyValue /\ g.modifiersDetail.exact # AnyValue ->
            {WithoutDetail(g, m)}
      [] g.modifiersDetail.exact = AnyValue /\ g.detail.exact # AnyValue ->
            {WithoutModifiers(g, m)}
      [] OTHER ->
            IF m.detail.exact # AnyValue /\ m.modifiersDetail.exact # AnyValue
            THEN {WithoutDetail(g, m), SplitOff(g, m)}
            ELSE IF m.detail.exact = AnyValue
                 THEN {WithoutModifiers(g, m)}
                 ELSE {WithoutDetail(g, m)}

\* What is left of a grab of the list
Left(g, m) ==
    IF GrabMatchesSecond(g, m) /\ g.client = m.client
    THEN IF GrabSupersedesSecond(m, g) THEN {} ELSE Remainder(g, m)
    ELSE {g}

DeletePassiveGrabFromList(m) == UNION {Left(g, m) : g \in grabs}

-----------------------------------------------------------------------------
(* Requests, and the end of a client.                                       *)

\* ProcGrabKey, ProcGrabButton; BadAccess changes nothing.
GrabKey(c, d, terms, modifiers, keybut) ==
    LET temporaryGrab == CreateGrab(c, d, terms, modifiers, keybut)
    IN  /\ Cardinality(grabs) < MaxGrabs
        /\ \A g \in grabs :
              GrabMatchesSecond(temporaryGrab, g) => g.client = c
        /\ grabs' = DeletePassiveGrabFromList(temporaryGrab)
                        \cup {temporaryGrab}

\* ProcUngrabKey, ProcUngrabButton
UngrabKey(c, d, modifiers, keybut) ==
    grabs' = DeletePassiveGrabFromList(UngrabOf(c, d, modifiers, keybut))

\* PassiveClientGone, for each of the client's grabs
ClientGone(c) == grabs' = {g \in grabs : g.client # c}

Init == grabs = {}

Next ==
    \E c \in Client :
        \/ \E d \in Device, modifiers \in Modifier \cup {AnyValue},
              keybut \in Detail \cup {AnyValue} :
              \/ \E terms \in Terms : GrabKey(c, d, terms, modifiers, keybut)
              \/ UngrabKey(c, d, modifiers, keybut)
        \/ ClientGone(c)

Spec == Init /\ [][Next]_grabs

-----------------------------------------------------------------------------
(* Properties.                                                              *)

\* CheckPassiveGrabsOnWindow: the grabs an event matches
Combination == [device : Device, detail : Detail, modifiers : Modifier]
Found(x) == {g \in grabs : GrabMatchesSecond(EventOf(x), g)}

\* However the grabs of a window were cut and split, an event matches at most
\* one of them: the order of the list does not matter.
OneGrabPerCombination ==
    \A x \in Combination : \A g, h \in Found(x) : g = h

\* What an event finds is what the protocol's table of combinations says.
Granted(x) ==
    LET found == Found(x)
    IN  IF found = {} THEN Null
        ELSE LET g == CHOOSE g \in found : TRUE
             IN  [client |-> g.client, terms |-> g.terms]
Table == INSTANCE GrabTable WITH
    Nobody <- Null, holder <- [x \in Combination |-> Granted(x)]

TableKept == Table!Spec
=============================================================================
