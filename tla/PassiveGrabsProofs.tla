------------------------- MODULE PassiveGrabsProofs -------------------------
(***************************************************************************)
(* Proofs about PassiveGrabs, for every set of clients, keys and modifiers.  *)
(*                                                                          *)
(* First one DetailRec against a request's, which has no mask: what they     *)
(* both mean, and what is left when one value is taken out.  Then a grab      *)
(* against a request, in both dimensions, and the whole list.                *)
(***************************************************************************)
EXTENDS PassiveGrabs, TLAPS

\* A DetailRec as it occurs in the list
Sound(r, Value) ==
    /\ r \in DetailRec(Value)
    /\ r.exact # AnyValue => r.pMask = Null

\* r means the value v.
Means(r, v) ==
    \/ r.exact = v
    \/ r.exact = AnyValue /\ (r.pMask = Null \/ v \in r.pMask)

\* An event of combination x matches grab g.
Covers(g, x) ==
    /\ g.device = x.device
    /\ Means(g.detail, x.detail)
    /\ Means(g.modifiersDetail, x.modifiers)

SoundGrab(g) ==
    /\ g \in GrabRec
    /\ Sound(g.detail, Detail) /\ Sound(g.modifiersDetail, Modifier)

-----------------------------------------------------------------------------
(* One dimension: r is in the list, Named(y) in the request.                 *)

\* Two that have a value in common are in one of the relations that
\* GrabMatchesSecond looks at.
LEMMA CommonValue ==
    ASSUME NEW Value, AnyValue \notin Value, NEW r, Sound(r, Value),
           NEW y \in Value \cup {AnyValue}, NEW v \in Value,
           Means(r, v), Means(Named(y), v)
    PROVE  \/ DetailSupersedesSecond(r, Named(y))
           \/ DetailSupersedesSecond(Named(y), r)
BY DEF Sound, Means, Named, DetailRec, DetailSupersedesSecond, IsInGrabMask,
       IdenticalExactDetails

\* What supersedes r means all that r means.
LEMMA SupersedesMeans ==
    ASSUME NEW Value, AnyValue \notin Value, NEW r, Sound(r, Value),
           NEW y \in Value \cup {AnyValue}, NEW v \in Value,
           DetailSupersedesSecond(Named(y), r), Means(r, v)
    PROVE  Means(Named(y), v)
BY DEF Sound, Means, Named, DetailRec, DetailSupersedesSecond, IsInGrabMask,
       IdenticalExactDetails

\* An exact value that is related to the request's is superseded by it.
LEMMA ExactIsSuperseded ==
    ASSUME NEW Value, NEW r, Sound(r, Value), r.exact # AnyValue,
           NEW y \in Value \cup {AnyValue},
           \/ DetailSupersedesSecond(r, Named(y))
           \/ DetailSupersedesSecond(Named(y), r)
    PROVE  DetailSupersedesSecond(Named(y), r)
BY DEF Named, DetailSupersedesSecond, IsInGrabMask, IdenticalExactDetails

LEMMA AnySupersedes ==
    ASSUME NEW r
    PROVE  DetailSupersedesSecond(Named(AnyValue), r)
BY DEF Named, DetailSupersedesSecond, IsInGrabMask

LEMMA NamedMeans ==
    ASSUME NEW Value, AnyValue \notin Value, NEW v \in Value,
           NEW y \in Value \cup {AnyValue}
    PROVE  Means(Named(y), v) <=> (y = AnyValue \/ y = v)
BY DEF Means, Named

LEMMA NamedIsSound ==
    ASSUME NEW Value, NEW y \in Value \cup {AnyValue}
    PROVE  Sound(Named(y), Value)
BY DEF Sound, Named, DetailRec

\* DeleteDetailFromMask takes out one value.
LEMMA WithoutOne ==
    ASSUME NEW Value, AnyValue \notin Value,
           \A s \in SUBSET Value : s # Null,
           NEW r, Sound(r, Value), r.exact = AnyValue, NEW y \in Value
    PROVE  /\ Sound(Without(r, y, Value), Value)
           /\ Without(r, y, Value).exact = AnyValue
           /\ \A v \in Value :
                Means(Without(r, y, Value), v) <=> Means(r, v) /\ v # y
<1> DEFINE q == Without(r, y, Value)
           mask == IF r.pMask = Null THEN Value ELSE r.pMask
<1>1. /\ mask \in SUBSET Value
      /\ \A v \in Value : v \in mask <=> Means(r, v)
  BY DEF Sound, DetailRec, Means
<1>2. q = [exact |-> AnyValue, pMask |-> mask \ {y}]
  BY DEF Without, Sound, DetailRec
<1>3. mask \ {y} \in SUBSET Value /\ mask \ {y} # Null
  BY <1>1
<1> HIDE DEF mask
<1>4. \A v \in Value : Means(q, v) <=> v \in mask \ {y}
  BY <1>2, <1>3 DEF Means
<1> QED
  BY <1>1, <1>2, <1>3, <1>4 DEF Sound, DetailRec

-----------------------------------------------------------------------------
(* A grab of the list and a request.                                        *)

\* A temporaryGrab of a request
Request(m) ==
    /\ m.device \in Device /\ m.client \in Client
    /\ m.detail.exact \in Detail \cup {AnyValue}
    /\ m.detail = Named(m.detail.exact)
    /\ m.modifiersDetail.exact \in Modifier \cup {AnyValue}
    /\ m.modifiersDetail = Named(m.modifiersDetail.exact)

LEMMA Assumed ==
    /\ AnyValue \notin Detail /\ AnyValue \notin Modifier
    /\ \A s \in SUBSET Detail : s # Null
    /\ \A s \in SUBSET Modifier : s # Null
BY PassiveGrabsAssumption

LEMMA MatchIsSymmetric ==
    ASSUME NEW g, NEW h
    PROVE  GrabMatchesSecond(g, h) <=> GrabMatchesSecond(h, g)
BY DEF GrabMatchesSecond, GrabSupersedesSecond

\* A grab and a request that have a combination in common match.
LEMMA CommonCombination ==
    ASSUME NEW g, SoundGrab(g), NEW m, Request(m),
           NEW x \in Combination, Covers(g, x), Covers(m, x)
    PROVE  GrabMatchesSecond(g, m)
<1>1. g.device = m.device
  BY DEF Covers
<1>2. \/ DetailSupersedesSecond(g.detail, m.detail)
      \/ DetailSupersedesSecond(m.detail, g.detail)
  <2>1. x.detail \in Detail
    BY DEF Combination
  <2> QED
    BY <2>1, Assumed, CommonValue DEF Covers, SoundGrab, Request
<1>3. \/ DetailSupersedesSecond(g.modifiersDetail, m.modifiersDetail)
      \/ DetailSupersedesSecond(m.modifiersDetail, g.modifiersDetail)
  <2>1. x.modifiers \in Modifier
    BY DEF Combination
  <2> QED
    BY <2>1, Assumed, CommonValue DEF Covers, SoundGrab, Request
<1> QED
  BY <1>1, <1>2, <1>3 DEF GrabMatchesSecond, GrabSupersedesSecond

\* What is left of a grab g after request m: grabs like g, that mean what g
\* means and m does not, each combination once.
LeavesTheRest(rest, g, m) ==
    /\ \A h \in rest : /\ SoundGrab(h)
                       /\ h.client = g.client /\ h.terms = g.terms
    /\ \A x \in Combination :
        (\E h \in rest : Covers(h, x)) <=> Covers(g, x) /\ ~Covers(m, x)
    /\ \A x \in Combination : \A h, i \in rest :
        Covers(h, x) /\ Covers(i, x) => h = i

LEMMA WithoutDetailOf ==
    ASSUME NEW g, SoundGrab(g), g.detail.exact = AnyValue,
           NEW m, m.detail.exact \in Detail
    PROVE  LET h == WithoutDetail(g, m)
           IN  /\ SoundGrab(h)
               /\ h.client = g.client /\ h.terms = g.terms
               /\ \A x \in Combination :
                    Covers(h, x) <=> Covers(g, x) /\ x.detail # m.detail.exact
<1> DEFINE r == Without(g.detail, m.detail.exact, Detail)
           h == [g EXCEPT !.detail = r]
<1>1. h = WithoutDetail(g, m)
  BY DEF WithoutDetail, SoundGrab, GrabRec
<1>2. /\ Sound(r, Detail)
      /\ \A v \in Detail : Means(r, v) <=> Means(g.detail, v) /\ v # m.detail.exact
  BY WithoutOne, Assumed DEF SoundGrab
<1> HIDE DEF r
<1>3. /\ h.detail = r /\ h.device = g.device /\ h.client = g.client
      /\ h.terms = g.terms /\ h.modifiersDetail = g.modifiersDetail
      /\ h \in GrabRec
  BY <1>2 DEF SoundGrab, GrabRec, Sound
<1> HIDE DEF h
<1>4. SoundGrab(h)
  BY <1>2, <1>3 DEF SoundGrab
<1>5. ASSUME NEW x \in Combination
      PROVE  Covers(h, x) <=> Covers(g, x) /\ x.detail # m.detail.exact
  BY <1>2, <1>3 DEF Covers, Combination
<1> QED
  BY <1>1, <1>3, <1>4, <1>5

LEMMA WithoutModifiersOf ==
    ASSUME NEW g, SoundGrab(g), g.modifiersDetail.exact = AnyValue,
           NEW m, m.modifiersDetail.exact \in Modifier
    PROVE  LET h == WithoutModifiers(g, m)
           IN  /\ SoundGrab(h)
               /\ h.client = g.client /\ h.terms = g.terms
               /\ \A x \in Combination :
                    Covers(h, x) <=> /\ Covers(g, x)
                                     /\ x.modifiers # m.modifiersDetail.exact
<1> DEFINE y == m.modifiersDetail.exact
           r == Without(g.modifiersDetail, y, Modifier)
           h == [g EXCEPT !.modifiersDetail = r]
<1>1. h = WithoutModifiers(g, m)
  BY DEF WithoutModifiers, SoundGrab, GrabRec
<1>2. /\ Sound(r, Modifier)
      /\ \A v \in Modifier : Means(r, v) <=> Means(g.modifiersDetail, v) /\ v # y
  BY WithoutOne, Assumed DEF SoundGrab
<1> HIDE DEF r
<1>3. /\ h.modifiersDetail = r /\ h.device = g.device /\ h.client = g.client
      /\ h.terms = g.terms /\ h.detail = g.detail
      /\ h \in GrabRec
  BY <1>2 DEF SoundGrab, GrabRec, Sound
<1> HIDE DEF h
<1>4. SoundGrab(h)
  BY <1>2, <1>3 DEF SoundGrab
<1>5. ASSUME NEW x \in Combination
      PROVE  Covers(h, x) <=> Covers(g, x) /\ x.modifiers # y
  BY <1>2, <1>3 DEF Covers, Combination
<1> QED
  BY <1>1, <1>3, <1>4, <1>5

\* The grab that is split off means the rest of g for the key that m names.
LEMMA SplitOffMeans ==
    ASSUME NEW g, SoundGrab(g), g.detail.exact = AnyValue,
           g.modifiersDetail.exact = AnyValue, NEW m,
           m.detail.exact \in Detail, Means(g.detail, m.detail.exact),
           m.modifiersDetail.exact \in Modifier
    PROVE  LET h == SplitOff(g, m)
           IN  /\ SoundGrab(h)
               /\ h.client = g.client /\ h.terms = g.terms
               /\ \A x \in Combination :
                    Covers(h, x) <=> /\ Covers(g, x)
                                     /\ x.detail = m.detail.exact
                                     /\ x.modifiers # m.modifiersDetail.exact
<1> DEFINE k == m.detail.exact
           i == [CreateGrab(g.client, g.device, g.terms, AnyValue, k)
                    EXCEPT !.modifiersDetail.pMask = g.modifiersDetail.pMask]
<1>1. i = [client |-> g.client, device |-> g.device, terms |-> g.terms,
           modifiersDetail |-> g.modifiersDetail, detail |-> Named(k)]
  BY DEF CreateGrab, Named, SoundGrab, Sound, DetailRec
<1> HIDE DEF i
<1>2. SoundGrab(i)
  <2>1. Sound(Named(k), Detail)
    BY NamedIsSound
  <2> QED
    BY <1>1, <2>1 DEF SoundGrab, GrabRec, Sound
<1>3. i.modifiersDetail.exact = AnyValue
  BY <1>1
<1>4. ASSUME NEW x \in Combination
      PROVE  Covers(i, x) <=> Covers(g, x) /\ x.detail = k
  <2>1. x.detail \in Detail
    BY DEF Combination
  <2>2. Means(Named(k), x.detail) <=> x.detail = k
    BY <2>1, NamedMeans, Assumed
  <2> QED
    BY <1>1, <2>2 DEF Covers
<1>5. SplitOff(g, m) = WithoutModifiers(i, m)
  BY DEF SplitOff, i
<1>6. i.client = g.client /\ i.terms = g.terms
  BY <1>1
<1> QED
  BY <1>2, <1>3, <1>4, <1>5, <1>6, WithoutModifiersOf

LEMMA RequestCovers ==
    ASSUME NEW m, Request(m), NEW x \in Combination
    PROVE  Covers(m, x) <=>
            /\ m.device = x.device
            /\ m.detail.exact = AnyValue \/ m.detail.exact = x.detail
            /\ \/ m.modifiersDetail.exact = AnyValue
               \/ m.modifiersDetail.exact = x.modifiers
<1>1. x.detail \in Detail /\ x.modifiers \in Modifier
  BY DEF Combination
<1>2. /\ m.detail = Named(m.detail.exact)
      /\ m.modifiersDetail = Named(m.modifiersDetail.exact)
      /\ m.detail.exact \in Detail \cup {AnyValue}
      /\ m.modifiersDetail.exact \in Modifier \cup {AnyValue}
  BY DEF Request
<1>3. Means(m.detail, x.detail) <=>
        m.detail.exact = AnyValue \/ m.detail.exact = x.detail
  BY <1>1, <1>2, NamedMeans, Assumed
<1>4. Means(m.modifiersDetail, x.modifiers) <=>
        m.modifiersDetail.exact = AnyValue \/ m.modifiersDetail.exact = x.modifiers
  BY <1>1, <1>2, NamedMeans, Assumed
<1> QED
  BY <1>3, <1>4 DEF Covers

\* What a match says in each dimension
LEMMA MatchInDimensions ==
    ASSUME NEW g, NEW m, GrabMatchesSecond(g, m)
    PROVE  /\ g.device = m.device
           /\ \/ DetailSupersedesSecond(g.detail, m.detail)
              \/ DetailSupersedesSecond(m.detail, g.detail)
           /\ \/ DetailSupersedesSecond(g.modifiersDetail, m.modifiersDetail)
              \/ DetailSupersedesSecond(m.modifiersDetail, g.modifiersDetail)
BY DEF GrabMatchesSecond, GrabSupersedesSecond

LEMMA Superseded ==
    ASSUME NEW g, SoundGrab(g), NEW m, Request(m),
           GrabMatchesSecond(g, m), GrabSupersedesSecond(m, g)
    PROVE  LeavesTheRest({}, g, m)
<1> SUFFICES ASSUME NEW x \in Combination, Covers(g, x)
             PROVE  Covers(m, x)
  BY DEF LeavesTheRest
<1>1. x.detail \in Detail /\ x.modifiers \in Modifier
  BY DEF Combination
<1>2. Means(m.detail, x.detail)
  BY <1>1, SupersedesMeans, Assumed
     DEF GrabSupersedesSecond, Request, SoundGrab, Covers
<1>3. Means(m.modifiersDetail, x.modifiers)
  BY <1>1, SupersedesMeans, Assumed
     DEF GrabSupersedesSecond, Request, SoundGrab, Covers
<1> QED
  BY <1>2, <1>3, MatchInDimensions DEF Covers

\* A request that does not supersede an "any" names a value that it means.
LEMMA NamesOne ==
    ASSUME NEW Value, NEW r, Sound(r, Value), NEW n,
           n.exact \in Value \cup {AnyValue}, n = Named(n.exact),
           DetailSupersedesSecond(r, n), ~DetailSupersedesSecond(n, r)
    PROVE  n.exact \in Value /\ r.exact = AnyValue /\ Means(r, n.exact)
<1>1. n.exact # AnyValue
  BY AnySupersedes
<1>2. r.exact = AnyValue
  BY ExactIsSuperseded
<1>3. r.pMask = Null \/ n.exact \in r.pMask
  BY <1>1, <1>2 DEF DetailSupersedesSecond, IsInGrabMask, IdenticalExactDetails
<1> QED
  BY <1>1, <1>2, <1>3 DEF Means

LEMMA RemainderLeavesTheRest ==
    ASSUME NEW g, SoundGrab(g), NEW m, Request(m),
           GrabMatchesSecond(g, m), ~GrabSupersedesSecond(m, g)
    PROVE  LeavesTheRest(Remainder(g, m), g, m)
<1> DEFINE k == m.detail.exact
           s == m.modifiersDetail.exact
           keyed == DetailSupersedesSecond(m.detail, g.detail)
           modified == DetailSupersedesSecond(m.modifiersDetail, g.modifiersDetail)
<1>0. /\ g.device = m.device
      /\ DetailSupersedesSecond(g.detail, m.detail) \/ keyed
      /\ DetailSupersedesSecond(g.modifiersDetail, m.modifiersDetail) \/ modified
      /\ ~(keyed /\ modified)
  BY MatchInDimensions DEF GrabSupersedesSecond
<1>1. /\ k \in Detail \cup {AnyValue} /\ m.detail = Named(k)
      /\ s \in Modifier \cup {AnyValue} /\ m.modifiersDetail = Named(s)
      /\ Sound(g.detail, Detail) /\ Sound(g.modifiersDetail, Modifier)
  BY DEF Request, SoundGrab
<1>2. ~keyed => k \in Detail /\ g.detail.exact = AnyValue /\ Means(g.detail, k)
  BY <1>0, <1>1, NamesOne
<1>3. ~modified => s \in Modifier /\ g.modifiersDetail.exact = AnyValue
  BY <1>0, <1>1, NamesOne
<1>4. g.detail.exact # AnyValue => keyed
  BY <1>2
<1>5. g.modifiersDetail.exact # AnyValue => modified
  BY <1>3
\* Whatever supersedes a dimension of g means all of it.
<1>6. ASSUME NEW x \in Combination, Covers(g, x)
      PROVE  /\ keyed => k = AnyValue \/ k = x.detail
             /\ modified => s = AnyValue \/ s = x.modifiers
  <2>1. x.detail \in Detail /\ x.modifiers \in Modifier
    BY DEF Combination
  <2>2. keyed => Means(Named(k), x.detail)
    BY <1>1, <1>6, <2>1, SupersedesMeans, Assumed DEF Covers
  <2>3. modified => Means(Named(s), x.modifiers)
    BY <1>1, <1>6, <2>1, SupersedesMeans, Assumed DEF Covers
  <2> QED
    BY <1>1, <2>1, <2>2, <2>3, NamedMeans, Assumed
<1>7. ASSUME NEW x \in Combination, Covers(g, x)
      PROVE  Covers(m, x) <=> /\ k = AnyValue \/ k = x.detail
                              /\ s = AnyValue \/ s = x.modifiers
  BY <1>0, <1>7, RequestCovers DEF Covers
<1>8. k # AnyValue => k \in Detail
  BY <1>1
<1>9. s # AnyValue => s \in Modifier
  BY <1>1
<1> HIDE DEF keyed, modified
\* Only the key is taken out.
<1>10. ASSUME k \in Detail, g.detail.exact = AnyValue,
              modified \/ s = AnyValue
       PROVE  LeavesTheRest({WithoutDetail(g, m)}, g, m)
  <2>1. /\ SoundGrab(WithoutDetail(g, m))
        /\ WithoutDetail(g, m).client = g.client
        /\ WithoutDetail(g, m).terms = g.terms
        /\ \A x \in Combination :
            Covers(WithoutDetail(g, m), x) <=> Covers(g, x) /\ x.detail # k
    BY <1>10, WithoutDetailOf
  <2>2. ASSUME NEW x \in Combination, Covers(g, x)
        PROVE  Covers(m, x) <=> x.detail = k
    BY <1>6, <1>7, <1>10, <2>2, Assumed
  <2> QED
    BY <2>1, <2>2 DEF LeavesTheRest
\* Only the modifiers are taken out.
<1>11. ASSUME s \in Modifier, g.modifiersDetail.exact = AnyValue,
              keyed \/ k = AnyValue
       PROVE  LeavesTheRest({WithoutModifiers(g, m)}, g, m)
  <2>1. /\ SoundGrab(WithoutModifiers(g, m))
        /\ WithoutModifiers(g, m).client = g.client
        /\ WithoutModifiers(g, m).terms = g.terms
        /\ \A x \in Combination :
            Covers(WithoutModifiers(g, m), x) <=> Covers(g, x) /\ x.modifiers # s
    BY <1>11, WithoutModifiersOf
  <2>2. ASSUME NEW x \in Combination, Covers(g, x)
        PROVE  Covers(m, x) <=> x.modifiers = s
    BY <1>6, <1>7, <1>11, <2>2, Assumed
  <2> QED
    BY <2>1, <2>2 DEF LeavesTheRest
<1>12. CASE g.detail.exact = AnyValue /\ g.modifiersDetail.exact # AnyValue
  <2>1. Remainder(g, m) = {WithoutDetail(g, m)}
    BY <1>12 DEF Remainder
  <2>2. modified /\ ~keyed
    BY <1>0, <1>5, <1>12 DEF keyed, modified
  <2> QED
    BY <1>2, <1>10, <1>12, <2>1, <2>2
<1>13. CASE g.modifiersDetail.exact = AnyValue /\ g.detail.exact # AnyValue
  <2>1. Remainder(g, m) = {WithoutModifiers(g, m)}
    BY <1>13 DEF Remainder
  <2>2. keyed /\ ~modified
    BY <1>0, <1>4, <1>13 DEF keyed, modified
  <2> QED
    BY <1>3, <1>11, <1>13, <2>1, <2>2
<1>14. CASE g.detail.exact = AnyValue /\ g.modifiersDetail.exact = AnyValue
  <2>1. CASE k # AnyValue /\ s # AnyValue
    <3>1. Remainder(g, m) = {WithoutDetail(g, m), SplitOff(g, m)}
      BY <1>14, <2>1 DEF Remainder
    <3>2. k \in Detail /\ s \in Modifier
      BY <1>8, <1>9, <2>1
    <3> DEFINE h == WithoutDetail(g, m)
               i == SplitOff(g, m)
    <3>3. SoundGrab(h) /\ h.client = g.client /\ h.terms = g.terms
      BY <1>14, <3>2, WithoutDetailOf
    <3>4. \A x \in Combination : Covers(h, x) <=> Covers(g, x) /\ x.detail # k
      BY <1>14, <3>2, WithoutDetailOf
    <3>5. Means(g.detail, k)
      <4>1. CASE ~keyed
        BY <1>2, <4>1
      <4>2. CASE keyed
        BY <1>14, <2>1, <4>2, <1>1 DEF keyed, Named, DetailSupersedesSecond,
           IsInGrabMask, IdenticalExactDetails
      <4> QED
        BY <4>1, <4>2
    <3>6. SoundGrab(i) /\ i.client = g.client /\ i.terms = g.terms
      BY <1>14, <3>2, <3>5, SplitOffMeans
    <3>7. \A x \in Combination : Covers(i, x) <=>
            Covers(g, x) /\ x.detail = k /\ x.modifiers # s
      BY <1>14, <3>2, <3>5, SplitOffMeans
    <3> HIDE DEF h, i
    <3>8. \A x \in Combination : Covers(g, x) =>
            (Covers(m, x) <=> k = x.detail /\ s = x.modifiers)
      BY <1>7, <2>1
    <3>9. \A x \in Combination :
            (Covers(h, x) \/ Covers(i, x)) <=> Covers(g, x) /\ ~Covers(m, x)
      BY <3>4, <3>7, <3>8
    <3>10. \A x \in Combination : ~(Covers(h, x) /\ Covers(i, x))
      BY <3>4, <3>7
    <3>11. LeavesTheRest({h, i}, g, m)
      BY <3>3, <3>6, <3>9, <3>10 DEF LeavesTheRest
    <3> QED
      BY <3>1, <3>11 DEF h, i
  <2>2. CASE k = AnyValue
    <3>1. Remainder(g, m) = {WithoutModifiers(g, m)}
      BY <1>14, <2>2 DEF Remainder
    <3>2. keyed
      BY <1>1, <2>2, AnySupersedes DEF keyed
    <3> QED
      BY <1>0, <1>3, <1>11, <2>2, <3>1, <3>2 DEF keyed, modified
  <2>3. CASE k # AnyValue /\ s = AnyValue
    <3>1. Remainder(g, m) = {WithoutDetail(g, m)}
      BY <1>14, <2>3 DEF Remainder
    <3> QED
      BY <1>8, <1>10, <1>14, <2>3, <3>1
  <2> QED
    BY <2>1, <2>2, <2>3
<1>15. ~(g.detail.exact # AnyValue /\ g.modifiersDetail.exact # AnyValue)
  BY <1>0, <1>4, <1>5 DEF keyed, modified
<1> QED
  BY <1>12, <1>13, <1>14, <1>15

-----------------------------------------------------------------------------
(* The whole list.                                                          *)

IInv == TypeOK /\ OneGrabPerCombination

SoundList == \A g \in grabs : SoundGrab(g)

LEMMA TypeOKIsSound == TypeOK <=> SoundList
BY DEF SoundList, TypeOK, SoundGrab, Sound, GrabRec

LEMMA EventFinds ==
    ASSUME NEW x \in Combination, NEW g, SoundGrab(g)
    PROVE  GrabMatchesSecond(EventOf(x), g) <=> Covers(g, x)
<1>1. x.detail \in Detail /\ x.modifiers \in Modifier
  BY DEF Combination
<1>2. ASSUME NEW Value, AnyValue \notin Value, NEW v \in Value,
             NEW r, Sound(r, Value)
      PROVE  /\ DetailSupersedesSecond(r, Named(v)) <=> Means(r, v)
             /\ DetailSupersedesSecond(Named(v), r) => Means(r, v)
  BY <1>2 DEF Sound, Means, Named, DetailRec, DetailSupersedesSecond,
     IsInGrabMask, IdenticalExactDetails
<1>3. /\ DetailSupersedesSecond(g.detail, Named(x.detail))
            <=> Means(g.detail, x.detail)
      /\ DetailSupersedesSecond(Named(x.detail), g.detail)
            => Means(g.detail, x.detail)
  BY <1>1, <1>2, Assumed DEF SoundGrab
<1>4. /\ DetailSupersedesSecond(g.modifiersDetail, Named(x.modifiers))
            <=> Means(g.modifiersDetail, x.modifiers)
      /\ DetailSupersedesSecond(Named(x.modifiers), g.modifiersDetail)
            => Means(g.modifiersDetail, x.modifiers)
  BY <1>1, <1>2, Assumed DEF SoundGrab
<1>5. /\ EventOf(x).device = x.device
      /\ EventOf(x).detail = Named(x.detail)
      /\ EventOf(x).modifiersDetail = Named(x.modifiers)
  BY DEF EventOf
<1> QED
  BY <1>3, <1>4, <1>5 DEF GrabMatchesSecond, GrabSupersedesSecond, Covers

OneCover ==
    \A x \in Combination : \A g, h \in grabs :
        Covers(g, x) /\ Covers(h, x) => g = h

LEMMA OneGrabIsOneCover == TypeOK => (OneGrabPerCombination <=> OneCover)
BY TypeOKIsSound, EventFinds
   DEF OneGrabPerCombination, OneCover, Found, SoundList

\* What an event is granted is what the one grab says that means it.
LEMMA GrantedByCover ==
    IInv => \A x \in Combination :
        /\ \A g \in grabs : Covers(g, x) =>
                Granted(x) = [client |-> g.client, terms |-> g.terms]
        /\ (\A g \in grabs : ~Covers(g, x)) => Granted(x) = Null
<1> SUFFICES ASSUME IInv, NEW x \in Combination
             PROVE  /\ \A g \in grabs : Covers(g, x) =>
                        Granted(x) = [client |-> g.client, terms |-> g.terms]
                    /\ (\A g \in grabs : ~Covers(g, x)) => Granted(x) = Null
  OBVIOUS
<1>1. Found(x) = {g \in grabs : Covers(g, x)}
  BY TypeOKIsSound, EventFinds DEF IInv, Found, SoundList
<1>2. \A g, h \in Found(x) : g = h
  BY DEF IInv, OneGrabPerCombination
<1>3. ASSUME NEW g \in grabs, Covers(g, x)
      PROVE  Granted(x) = [client |-> g.client, terms |-> g.terms]
  <2>1. g \in Found(x)
    BY <1>1, <1>3
  <2>2. Found(x) = {g}
    BY <1>2, <2>1
  <2>3. (CHOOSE h \in {g} : TRUE) = g
    OBVIOUS
  <2> QED
    BY <2>2, <2>3 DEF Granted
<1>4. (\A g \in grabs : ~Covers(g, x)) => Granted(x) = Null
  BY <1>1 DEF Granted
<1> QED
  BY <1>3, <1>4

\* A request touches the grabs of its client only, and takes from them what it
\* means.
LEMMA LeftOfOthers ==
    ASSUME NEW g, NEW m, g.client # m.client
    PROVE  Left(g, m) = {g}
BY DEF Left

LEMMA LeftOfOwn ==
    ASSUME NEW g, SoundGrab(g), NEW m, Request(m), g.client = m.client
    PROVE  LeavesTheRest(Left(g, m), g, m)
<1>1. CASE ~GrabMatchesSecond(g, m)
  <2>1. Left(g, m) = {g}
    BY <1>1 DEF Left
  <2>2. \A x \in Combination : ~(Covers(g, x) /\ Covers(m, x))
    BY <1>1, CommonCombination
  <2> QED
    BY <2>1, <2>2 DEF LeavesTheRest
<1>2. CASE GrabMatchesSecond(g, m) /\ GrabSupersedesSecond(m, g)
  BY <1>2, Superseded DEF Left
<1>3. CASE GrabMatchesSecond(g, m) /\ ~GrabSupersedesSecond(m, g)
  BY <1>3, RemainderLeavesTheRest DEF Left
<1> QED
  BY <1>1, <1>2, <1>3

\* Grab g keeps combination x in spite of request m.
Keeps(g, m, x) == Covers(g, x) /\ ~(g.client = m.client /\ Covers(m, x))

LEMMA DeleteFromList ==
    ASSUME IInv, NEW m, Request(m)
    PROVE  LET D == DeletePassiveGrabFromList(m)
           IN  /\ \A h \in D : SoundGrab(h)
               /\ \A x \in Combination : \A h \in D : Covers(h, x) =>
                    \E g \in grabs : /\ Keeps(g, m, x)
                                     /\ h.client = g.client /\ h.terms = g.terms
               /\ \A x \in Combination : \A g \in grabs :
                    Keeps(g, m, x) => \E h \in D : Covers(h, x)
               /\ \A x \in Combination : \A h, i \in D :
                    Covers(h, x) /\ Covers(i, x) => h = i
<1> DEFINE D == DeletePassiveGrabFromList(m)
<1>1. \A g \in grabs : SoundGrab(g)
  BY TypeOKIsSound DEF IInv, SoundList
<1>2. ASSUME NEW g \in grabs
      PROVE  /\ \A h \in Left(g, m) :
                    SoundGrab(h) /\ h.client = g.client /\ h.terms = g.terms
             /\ \A x \in Combination :
                    (\E h \in Left(g, m) : Covers(h, x)) <=> Keeps(g, m, x)
             /\ \A x \in Combination : \A h, i \in Left(g, m) :
                    Covers(h, x) /\ Covers(i, x) => h = i
  <2>1. CASE g.client # m.client
    BY <1>1, <2>1, LeftOfOthers DEF Keeps
  <2>2. CASE g.client = m.client
    BY <1>1, <2>2, LeftOfOwn DEF LeavesTheRest, Keeps
  <2> QED
    BY <2>1, <2>2
<1>3. \A h : h \in D <=> \E g \in grabs : h \in Left(g, m)
  BY DEF DeletePassiveGrabFromList
<1> HIDE DEF D
<1>4. \A h \in D : SoundGrab(h)
  BY <1>2, <1>3
<1>5. ASSUME NEW x \in Combination, NEW h \in D, Covers(h, x)
      PROVE  \E g \in grabs : /\ Keeps(g, m, x)
                              /\ h.client = g.client /\ h.terms = g.terms
  BY <1>2, <1>3, <1>5
<1>6. ASSUME NEW x \in Combination, NEW g \in grabs, Keeps(g, m, x)
      PROVE  \E h \in D : Covers(h, x)
  BY <1>2, <1>3, <1>6
<1>7. ASSUME NEW x \in Combination, NEW h \in D, NEW i \in D,
             Covers(h, x), Covers(i, x)
      PROVE  h = i
  <2>1. PICK g \in grabs : h \in Left(g, m)
    BY <1>3
  <2>2. PICK f \in grabs : i \in Left(f, m)
    BY <1>3
  <2>3. Covers(g, x) /\ Covers(f, x)
    BY <1>2, <1>7, <2>1, <2>2 DEF Keeps
  <2>4. g = f
    BY <2>3, OneGrabIsOneCover DEF IInv, OneCover
  <2> QED
    BY <1>2, <1>7, <2>1, <2>2, <2>4
<1> QED
  BY <1>4, <1>5, <1>6, <1>7 DEF D

LEMMA CreatedRequest ==
    ASSUME NEW c \in Client, NEW d \in Device, NEW terms \in Terms,
           NEW modifiers \in Modifier \cup {AnyValue},
           NEW keybut \in Detail \cup {AnyValue}
    PROVE  LET t == CreateGrab(c, d, terms, modifiers, keybut)
           IN  Request(t) /\ SoundGrab(t) /\ t.client = c /\ t.terms = terms
<1>1. Sound(Named(keybut), Detail) /\ Sound(Named(modifiers), Modifier)
  BY NamedIsSound
<1>2. Named(keybut) = [exact |-> keybut, pMask |-> Null]
  BY DEF Named
<1>3. Named(modifiers) = [exact |-> modifiers, pMask |-> Null]
  BY DEF Named
<1> QED
  BY <1>1, <1>2, <1>3 DEF CreateGrab, Request, SoundGrab, GrabRec, Sound

LEMMA UngrabRequest ==
    ASSUME NEW c \in Client, NEW d \in Device,
           NEW modifiers \in Modifier \cup {AnyValue},
           NEW keybut \in Detail \cup {AnyValue}
    PROVE  LET u == UngrabOf(c, d, modifiers, keybut)
           IN  Request(u) /\ u.client = c
BY DEF UngrabOf, Request, Named

-----------------------------------------------------------------------------
(* The invariant.                                                           *)

LEMMA InitInvariant == Init => IInv
BY DEF Init, IInv, TypeOK, OneGrabPerCombination, Found

LEMMA GrabKeyInvariant ==
    ASSUME IInv, NEW c \in Client, NEW d \in Device, NEW terms \in Terms,
           NEW modifiers \in Modifier \cup {AnyValue},
           NEW keybut \in Detail \cup {AnyValue},
           GrabKey(c, d, terms, modifiers, keybut)
    PROVE  IInv'
<1> DEFINE t == CreateGrab(c, d, terms, modifiers, keybut)
           D == DeletePassiveGrabFromList(t)
<1>1. Request(t) /\ SoundGrab(t) /\ t.client = c
  BY CreatedRequest
<1>2. grabs' = D \cup {t}
  BY DEF GrabKey
<1>3. \A g \in grabs : GrabMatchesSecond(t, g) => g.client = c
  BY DEF GrabKey
<1>4. \A g \in grabs : SoundGrab(g)
  BY TypeOKIsSound DEF IInv, SoundList
<1> HIDE DEF t
<1>5. /\ \A h \in D : SoundGrab(h)
      /\ \A x \in Combination : \A h \in D : Covers(h, x) =>
            \E g \in grabs : Keeps(g, t, x)
      /\ \A x \in Combination : \A h, i \in D :
            Covers(h, x) /\ Covers(i, x) => h = i
  BY <1>1, DeleteFromList
<1> HIDE DEF D
\* Nobody else has what the client is granted.
<1>6. ASSUME NEW x \in Combination, NEW g \in grabs, Covers(t, x), Keeps(g, t, x)
      PROVE  FALSE
  <2>1. Covers(g, x) /\ g.client # c
    BY <1>1, <1>6 DEF Keeps
  <2>2. GrabMatchesSecond(g, t)
    BY <1>1, <1>4, <1>6, <2>1, CommonCombination
  <2> QED
    BY <1>3, <2>1, <2>2, MatchIsSymmetric
<1>7. \A x \in Combination : \A h, i \in grabs' :
        Covers(h, x) /\ Covers(i, x) => h = i
  BY <1>2, <1>5, <1>6
<1>8. \A h \in grabs' : SoundGrab(h)
  BY <1>1, <1>2, <1>5
<1>9. TypeOK'
  <2>1. TypeOK' <=> SoundList'
    BY TypeOKIsSound, PTL
  <2> QED
    BY <1>8, <2>1 DEF SoundList
<1>10. TypeOK' => (OneGrabPerCombination' <=> OneCover')
  BY OneGrabIsOneCover, PTL
<1> QED
  BY <1>7, <1>9, <1>10 DEF IInv, OneCover

LEMMA UngrabKeyInvariant ==
    ASSUME IInv, NEW c \in Client, NEW d \in Device,
           NEW modifiers \in Modifier \cup {AnyValue},
           NEW keybut \in Detail \cup {AnyValue},
           UngrabKey(c, d, modifiers, keybut)
    PROVE  IInv'
<1> DEFINE u == UngrabOf(c, d, modifiers, keybut)
<1>1. grabs' = DeletePassiveGrabFromList(u) /\ Request(u)
  BY UngrabRequest DEF UngrabKey
<1> HIDE DEF u
<1>2. /\ \A h \in grabs' : SoundGrab(h)
      /\ \A x \in Combination : \A h, i \in grabs' :
            Covers(h, x) /\ Covers(i, x) => h = i
  BY <1>1, DeleteFromList
<1>3. TypeOK' <=> SoundList'
  BY TypeOKIsSound, PTL
<1>4. TypeOK' => (OneGrabPerCombination' <=> OneCover')
  BY OneGrabIsOneCover, PTL
<1> QED
  BY <1>2, <1>3, <1>4 DEF IInv, SoundList, OneCover

LEMMA ClientGoneInvariant ==
    ASSUME IInv, NEW c \in Client, ClientGone(c)
    PROVE  IInv'
BY DEF IInv, TypeOK, OneGrabPerCombination, Found, ClientGone

LEMMA NextInvariant == IInv /\ [Next]_grabs => IInv'
<1> SUFFICES ASSUME IInv, [Next]_grabs PROVE IInv'
  OBVIOUS
<1>1. CASE UNCHANGED grabs
  BY <1>1 DEF IInv, TypeOK, OneGrabPerCombination, Found
<1>2. CASE Next
  <2> SUFFICES ASSUME NEW c \in Client,
                      \/ \E d \in Device, modifiers \in Modifier \cup {AnyValue},
                            keybut \in Detail \cup {AnyValue} :
                            \/ \E terms \in Terms :
                                    GrabKey(c, d, terms, modifiers, keybut)
                            \/ UngrabKey(c, d, modifiers, keybut)
                      \/ ClientGone(c)
               PROVE  IInv'
    BY <1>2 DEF Next
  <2> QED
    BY GrabKeyInvariant, UngrabKeyInvariant, ClientGoneInvariant
<1> QED
  BY <1>1, <1>2

THEOREM Invariance == Spec => []IInv
BY InitInvariant, NextInvariant, PTL DEF Spec

\* The masks of the list are sound: only "any" has one.  (TypeOK)
THEOREM TypeCorrect == Spec => []TypeOK
BY Invariance, PTL DEF IInv

\* Whatever clients grab, ungrab and leave, an event matches at most one of the
\* grabs of a window.  (DeletePassiveGrabFromList and its callers)
THEOREM OneGrab == Spec => []OneGrabPerCombination
BY Invariance, PTL DEF IInv

-----------------------------------------------------------------------------
(* The grabs implement the protocol's table.                                *)

Bar == [x \in Combination |-> Granted(x)]

\* The values that x names
Naming(y, Value) == IF y = AnyValue THEN Value ELSE {y}
BlockOf(m) == Table!Block(m.device, Naming(m.detail.exact, Detail),
                          Naming(m.modifiersDetail.exact, Modifier))

LEMMA BlockCovers ==
    ASSUME NEW m, Request(m)
    PROVE  /\ BlockOf(m) \subseteq Combination
           /\ \A x \in Combination : x \in BlockOf(m) <=> Covers(m, x)
           /\ Naming(m.detail.exact, Detail) \in Table!Names(Detail)
           /\ Naming(m.modifiersDetail.exact, Modifier) \in Table!Names(Modifier)
<1>1. /\ m.detail.exact \in Detail \cup {AnyValue} /\ m.device \in Device
      /\ m.modifiersDetail.exact \in Modifier \cup {AnyValue}
  BY DEF Request
<1>2. ASSUME NEW Value, NEW y \in Value \cup {AnyValue}
      PROVE  Naming(y, Value) \in Table!Names(Value)
  BY <1>2 DEF Naming, Table!Names
<1>3. ASSUME NEW x \in Combination
      PROVE  x \in BlockOf(m) <=> Covers(m, x)
  BY <1>1, RequestCovers, Assumed
     DEF BlockOf, Table!Block, Naming, Combination
<1>4. BlockOf(m) \subseteq Combination
  BY <1>1 DEF BlockOf, Table!Block, Naming, Combination
<1> QED
  BY <1>1, <1>2, <1>3, <1>4

\* GrantedByCover, of the state and the next
GrantedIs ==
    \A x \in Combination :
        /\ \A g \in grabs : Covers(g, x) =>
                Granted(x) = [client |-> g.client, terms |-> g.terms]
        /\ (\A g \in grabs : ~Covers(g, x)) => Granted(x) = Null

LEMMA GrantedBefore == IInv => GrantedIs
BY GrantedByCover DEF GrantedIs

LEMMA GrantedAfter == IInv' => GrantedIs'
BY GrantedBefore, PTL

\* A combination is held by a client exactly if a grab of the client means it.
LEMMA HeldByCover ==
    ASSUME IInv, NEW x \in Combination, NEW c \in Client
    PROVE  (Granted(x) # Null /\ Granted(x).client = c)
                <=> \E g \in grabs : Covers(g, x) /\ g.client = c
<1>1. CASE \E g \in grabs : Covers(g, x)
  <2>1. PICK g \in grabs : Covers(g, x)
    BY <1>1
  <2>2. Granted(x) = [client |-> g.client, terms |-> g.terms]
    BY <2>1, GrantedBefore DEF GrantedIs
  <2>3. SoundGrab(g)
    BY TypeOKIsSound DEF IInv, SoundList
  <2>4. Granted(x) # Null /\ Granted(x).client = g.client
    BY <2>2, <2>3, PassiveGrabsAssumption DEF SoundGrab, GrabRec
  <2>5. \A h \in grabs : Covers(h, x) => h = g
    BY <2>1, OneGrabIsOneCover DEF IInv, OneCover
  <2> QED
    BY <2>1, <2>4, <2>5
<1>2. CASE \A g \in grabs : ~Covers(g, x)
  BY <1>2, GrantedBefore DEF GrantedIs
<1> QED
  BY <1>1, <1>2

LEMMA InitTable == Init => Table!Init
<1> SUFFICES ASSUME Init PROVE Table!Init
  OBVIOUS
<1>1. \A x \in Combination : Granted(x) = Null
  BY GrantedBefore, InitInvariant DEF GrantedIs, Init
<1> QED
  BY <1>1 DEF Table!Init, Table!Combination, Combination

\* A combination that a request does not take stays as it is.
LEMMA KeptIsGranted ==
    ASSUME IInv, IInv', NEW m, Request(m),
           DeletePassiveGrabFromList(m) \subseteq grabs',
           NEW x \in Combination, NEW g \in grabs, Keeps(g, m, x)
    PROVE  Granted(x)' = Granted(x)
<1>1. PICK h \in grabs' : h \in DeletePassiveGrabFromList(m) /\ Covers(h, x)
  BY DeleteFromList
<1>2. PICK f \in grabs : /\ Covers(f, x)
                         /\ h.client = f.client /\ h.terms = f.terms
  BY <1>1, DeleteFromList DEF Keeps
<1>3. Granted(x) = [client |-> f.client, terms |-> f.terms]
  BY <1>2, GrantedBefore DEF GrantedIs
<1>4. Granted(x)' = [client |-> h.client, terms |-> h.terms]
  BY <1>1, GrantedAfter DEF GrantedIs
<1> QED
  BY <1>2, <1>3, <1>4

LEMMA GrabKeyGrants ==
    ASSUME IInv, IInv', NEW c \in Client, NEW d \in Device, NEW terms \in Terms,
           NEW modifiers \in Modifier \cup {AnyValue},
           NEW keybut \in Detail \cup {AnyValue},
           GrabKey(c, d, terms, modifiers, keybut)
    PROVE  Table!Next
<1> DEFINE t == CreateGrab(c, d, terms, modifiers, keybut)
           block == BlockOf(t)
           r == [client |-> c, terms |-> terms]
<1>1. Request(t) /\ SoundGrab(t) /\ t.client = c /\ t.terms = terms
  BY CreatedRequest
<1>2. grabs' = DeletePassiveGrabFromList(t) \cup {t}
  BY DEF GrabKey
<1>3. \A g \in grabs : GrabMatchesSecond(t, g) => g.client = c
  BY DEF GrabKey
<1>4. t.device = d
  BY DEF CreateGrab
<1> HIDE DEF t
<1>5. /\ block \subseteq Combination
      /\ \A x \in Combination : x \in block <=> Covers(t, x)
  BY <1>1, BlockCovers
<1>6. \A g \in grabs : SoundGrab(g)
  BY TypeOKIsSound DEF IInv, SoundList
\* Nobody else holds what is asked for.
<1>7. ASSUME NEW x \in block, Granted(x) # Null
      PROVE  Granted(x).client = c
  <2>1. x \in Combination /\ Covers(t, x)
    BY <1>5
  <2>2. PICK g \in grabs : Covers(g, x)
    BY <1>7, <2>1, GrantedBefore DEF GrantedIs
  <2>3. GrabMatchesSecond(t, g)
    BY <1>1, <1>6, <2>1, <2>2, CommonCombination, MatchIsSymmetric
  <2>4. g.client = c
    BY <1>3, <2>3
  <2> QED
    BY <2>1, <2>2, <2>4, GrantedBefore DEF GrantedIs
<1>8. ASSUME NEW x \in Combination, Covers(t, x)
      PROVE  Granted(x)' = r
  BY <1>1, <1>2, <1>8, GrantedAfter DEF GrantedIs
<1>9. ASSUME NEW x \in Combination, ~Covers(t, x)
      PROVE  Granted(x)' = Granted(x)
  <2>1. CASE \E g \in grabs : Covers(g, x)
    <3>1. PICK g \in grabs : Keeps(g, t, x)
      BY <1>9, <2>1 DEF Keeps
    <3> QED
      BY <1>1, <1>2, <3>1, KeptIsGranted
  <2>2. CASE \A g \in grabs : ~Covers(g, x)
    <3>1. \A h \in grabs' : ~Covers(h, x)
      BY <1>1, <1>2, <1>9, <2>2, DeleteFromList DEF Keeps
    <3> QED
      BY <2>2, <3>1, GrantedBefore, GrantedAfter DEF GrantedIs
  <2> QED
    BY <2>1, <2>2
<1> HIDE DEF block
<1>10. \A x \in block : Bar[x] = Null \/ (Bar[x] # Null /\ Bar[x].client = c)
  BY <1>5, <1>7 DEF Bar
<1>11. Bar' = [x \in Combination |-> IF x \in block THEN r ELSE Bar[x]]
  BY <1>5, <1>8, <1>9 DEF Bar
<1>12. Table!Grant(c, terms, block)
  BY <1>10, <1>11 DEF Table!Grant, Table!HeldBy, Table!Combination, Combination, Bar
<1>13. \E keys \in Table!Names(Detail), masks \in Table!Names(Modifier) :
          block = Table!Block(d, keys, masks)
  BY <1>1, <1>4, BlockCovers DEF block, BlockOf
<1> QED
  BY <1>12, <1>13 DEF Table!Next

LEMMA UngrabKeyReleases ==
    ASSUME IInv, IInv', NEW c \in Client, NEW d \in Device,
           NEW modifiers \in Modifier \cup {AnyValue},
           NEW keybut \in Detail \cup {AnyValue},
           UngrabKey(c, d, modifiers, keybut)
    PROVE  Table!Next
<1> DEFINE u == UngrabOf(c, d, modifiers, keybut)
           block == BlockOf(u)
<1>1. Request(u) /\ u.client = c
  BY UngrabRequest
<1>2. grabs' = DeletePassiveGrabFromList(u)
  BY DEF UngrabKey
<1>3. u.device = d
  BY DEF UngrabOf
<1> HIDE DEF u
<1>4. \A x \in Combination : x \in block <=> Covers(u, x)
  BY <1>1, BlockCovers
<1> DEFINE Held(x) == Granted(x) # Null /\ Granted(x).client = c
<1>5. ASSUME NEW x \in Combination, Covers(u, x), Held(x)
      PROVE  Granted(x)' = Null
  <2>1. \A g \in grabs : Covers(g, x) => g.client = c
    BY <1>5, HeldByCover, OneGrabIsOneCover DEF IInv, OneCover
  <2>2. \A h \in grabs' : ~Covers(h, x)
    BY <1>1, <1>2, <1>5, <2>1, DeleteFromList DEF Keeps
  <2> QED
    BY <2>2, GrantedAfter DEF GrantedIs
<1>6. ASSUME NEW x \in Combination, ~(Covers(u, x) /\ Held(x))
      PROVE  Granted(x)' = Granted(x)
  <2>1. CASE \E g \in grabs : Covers(g, x)
    <3>1. PICK g \in grabs : Covers(g, x)
      BY <2>1
    <3>2. Keeps(g, u, x)
      BY <1>1, <1>6, <3>1, HeldByCover DEF Keeps
    <3> QED
      BY <1>1, <1>2, <3>2, KeptIsGranted
  <2>2. CASE \A g \in grabs : ~Covers(g, x)
    <3>1. \A h \in grabs' : ~Covers(h, x)
      BY <1>1, <1>2, <2>2, DeleteFromList DEF Keeps
    <3> QED
      BY <2>2, <3>1, GrantedBefore, GrantedAfter DEF GrantedIs
  <2> QED
    BY <2>1, <2>2
<1> HIDE DEF block
<1>7. Bar' = [x \in Combination |->
                IF x \in block /\ Bar[x] # Null /\ Bar[x].client = c
                THEN Null ELSE Bar[x]]
  BY <1>4, <1>5, <1>6 DEF Bar
<1>8. Table!Release(c, block)
  BY <1>7 DEF Table!Release, Table!HeldBy, Table!Combination, Combination, Bar
<1>9. \E keys \in Table!Names(Detail), masks \in Table!Names(Modifier) :
          block = Table!Block(d, keys, masks)
  BY <1>1, <1>3, BlockCovers DEF block, BlockOf
<1> QED
  BY <1>8, <1>9 DEF Table!Next

LEMMA ClientGoneReleases ==
    ASSUME IInv, IInv', NEW c \in Client, ClientGone(c)
    PROVE  Table!Next
<1>1. grabs' = {g \in grabs : g.client # c}
  BY DEF ClientGone
<1>2. ASSUME NEW x \in Combination, Granted(x) # Null /\ Granted(x).client = c
      PROVE  Granted(x)' = Null
  <2>1. \A g \in grabs : Covers(g, x) => g.client = c
    BY <1>2, HeldByCover, OneGrabIsOneCover DEF IInv, OneCover
  <2> QED
    BY <1>1, <2>1, GrantedAfter DEF GrantedIs
<1>3. ASSUME NEW x \in Combination,
             ~(Granted(x) # Null /\ Granted(x).client = c)
      PROVE  Granted(x)' = Granted(x)
  <2>1. \A g \in grabs : Covers(g, x) => g.client # c
    BY <1>3, HeldByCover
  <2>2. CASE \E g \in grabs : Covers(g, x)
    BY <1>1, <2>1, <2>2, GrantedBefore, GrantedAfter DEF GrantedIs
  <2>3. CASE \A g \in grabs : ~Covers(g, x)
    BY <1>1, <2>3, GrantedBefore, GrantedAfter DEF GrantedIs
  <2> QED
    BY <2>2, <2>3
<1>4. Bar' = [x \in Combination |->
                IF x \in Combination /\ Bar[x] # Null /\ Bar[x].client = c
                THEN Null ELSE Bar[x]]
  BY <1>2, <1>3 DEF Bar
<1>5. Table!Release(c, Combination)
  BY <1>4 DEF Table!Release, Table!HeldBy, Table!Combination, Combination, Bar
<1> QED
  BY <1>5 DEF Table!Next, Table!Combination, Combination

LEMMA NextTable == IInv /\ IInv' /\ [Next]_grabs => [Table!Next]_Bar
<1> SUFFICES ASSUME IInv, IInv', [Next]_grabs PROVE [Table!Next]_Bar
  OBVIOUS
<1>1. CASE UNCHANGED grabs
  BY <1>1 DEF Bar, Granted, Found
<1>2. CASE Next
  <2> SUFFICES ASSUME NEW c \in Client,
                      \/ \E d \in Device, modifiers \in Modifier \cup {AnyValue},
                            keybut \in Detail \cup {AnyValue} :
                            \/ \E terms \in Terms :
                                    GrabKey(c, d, terms, modifiers, keybut)
                            \/ UngrabKey(c, d, modifiers, keybut)
                      \/ ClientGone(c)
               PROVE  Table!Next
    BY <1>2 DEF Next
  <2> QED
    BY GrabKeyGrants, UngrabKeyReleases, ClientGoneReleases
<1> QED
  BY <1>1, <1>2

\* What events find on a window's list of cut and split grabs is at all times
\* what the protocol's table of combinations grants, step by step.
THEOREM TableIsKept == Spec => TableKept
<1>1. [Table!Next]_Bar <=> [Table!Next]_([x \in Combination |-> Granted(x)])
  BY DEF Bar
<1> QED
  BY <1>1, InitTable, NextTable, Invariance, PTL DEF Spec, TableKept, Table!Spec

=============================================================================
