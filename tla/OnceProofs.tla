---- MODULE OnceProofs ----
(***************************************************************************)
(* dedupe is enough: in a process that has not restarted no event with an  *)
(* id is counted twice, nor stored twice while every Flush succeeds, for   *)
(* any number of records, resends and generations.                         *)
(***************************************************************************)
EXTENDS PipelineInv, FiniteSetTheorems, FunctionTheorems, TLAPS

\* Leaves are tried with SMT, then with Zenon.
USE SMTT(30), Zenon

\* A place names an event of the log.
LEMMA PlaceFacts ==
    ASSUME log \in Seq(Seq(Event)), NEW x \in Places
    PROVE  /\ x = <<x[1], x[2]>> /\ x[1] \in 1..Len(log) /\ x[2] \in 1..Len(log[x[1]])
           /\ x[1] \in Nat /\ x[2] \in Nat /\ log[x[1]] \in Seq(Event) /\ SentAt(x) \in Event
<1>1. PICK k \in DOMAIN log : x \in {<<k, i>> : i \in DOMAIN log[k]}
  BY Zenon DEF Places
<1>2. PICK i \in DOMAIN log[k] : x = <<k, i>>
  BY <1>1, Zenon
<1> QED BY <1>1, <1>2 DEF SentAt

LEMMA PlaceIn ==
    ASSUME log \in Seq(Seq(Event)), NEW k \in 1..Len(log), NEW i \in 1..Len(log[k])
    PROVE  <<k, i>> \in Places
<1>1. DOMAIN log = 1..Len(log) /\ log[k] \in Seq(Event)
  OBVIOUS
<1>2. DOMAIN log[k] = 1..Len(log[k])
  BY <1>1
<1>3. <<k, i>> \in {<<k, j>> : j \in DOMAIN log[k]}
  BY <1>2, Zenon
<1> QED BY <1>1, <1>3, ZenonT(60) DEF Places

\* A log holds finitely many events.
LEMMA SentFinite ==
    ASSUME NEW L \in Seq(Seq(Event)), NEW M,
           \A m \in M : \E k \in DOMAIN L : \E i \in DOMAIN L[k] : m = L[k][i]
    PROVE  IsFiniteSet(M) /\ Cardinality(M) \in Nat
<1> DEFINE R(k) == {L[k][i] : i \in DOMAIN L[k]}
           f == [k \in DOMAIN L |-> R(k)]
           RR == {f[k] : k \in DOMAIN L}
<1>1. ASSUME NEW k \in DOMAIN L PROVE IsFiniteSet(f[k])
  <2>1. L[k] \in Seq(Event) /\ Len(L[k]) \in Nat
    OBVIOUS
  <2>2. DOMAIN L[k] = 1..Len(L[k]) /\ L[k] = [i \in DOMAIN L[k] |-> L[k][i]]
    BY <2>1
  <2>3. IsFiniteSet(DOMAIN L[k])
    BY <2>1, <2>2, FS_Interval
  <2>4. L[k] \in Surjection(DOMAIN L[k], R(k))
    BY <2>2, ZenonT(60) DEF Surjection
  <2>5. IsFiniteSet(R(k))
    BY <2>3, <2>4, FS_Surjection, Zenon
  <2> QED BY <2>5, Zenon
<1>2. IsFiniteSet(RR)
  <2>1. DOMAIN L = 1..Len(L) /\ Len(L) \in Nat
    OBVIOUS
  <2>2. IsFiniteSet(DOMAIN L)
    BY <2>1, FS_Interval
  <2>3. DOMAIN f = DOMAIN L /\ f = [k \in DOMAIN L |-> f[k]]
    BY Zenon
  <2> HIDE DEF f
  <2>4. f \in Surjection(DOMAIN L, RR)
    BY <2>3, Zenon DEF Surjection
  <2> QED BY <2>2, <2>4, FS_Surjection, ZenonT(60)
<1>3. \A S \in RR : IsFiniteSet(S)
  BY <1>1, Zenon
<1>4. M \subseteq UNION RR
  <2> SUFFICES ASSUME NEW m \in M PROVE m \in UNION RR
    BY Zenon
  <2>1. PICK k \in DOMAIN L : \E i \in DOMAIN L[k] : m = L[k][i]
    BY Zenon
  <2>2. m \in f[k] /\ f[k] \in RR
    BY <2>1, Zenon
  <2> QED BY <2>2, Zenon
<1> HIDE DEF RR
<1>5. IsFiniteSet(UNION RR)
  BY <1>2, <1>3, FS_UNION, ZenonT(60)
<1> QED BY <1>4, <1>5, FS_Subset, FS_CardinalityType

\* So are the ids met, in the state before a step and in the one after it.
LEMMA MetFinite ==
    ASSUME log \in Seq(Seq(Event)), NEW x, NEW e
    PROVE  IsFiniteSet(MetSince(x, e)) /\ Cardinality(MetSince(x, e)) \in Nat
<1>1. ASSUME NEW m \in MetSince(x, e)
      PROVE  \E k \in DOMAIN log : \E i \in DOMAIN log[k] : m = log[k][i]
  <2>1. PICK z \in Places : m = SentAt(z)
    BY Zenon DEF MetSince
  <2> QED BY <2>1 DEF Places, SentAt
<1> QED BY <1>1, SentFinite, ZenonT(60)

LEMMA MetFiniteAfter ==
    ASSUME (log \in Seq(Seq(Event)))', NEW x, NEW e
    PROVE  IsFiniteSet(MetSince(x, e)') /\ Cardinality(MetSince(x, e)') \in Nat
<1>1. ASSUME NEW m \in MetSince(x, e)'
      PROVE  \E k \in DOMAIN log' : \E i \in DOMAIN log'[k] : m = log'[k][i]
  <2>1. PICK z \in Places' : m = SentAt(z)'
    BY Zenon DEF MetSince
  <2> QED BY <2>1 DEF Places, SentAt
<1> QED BY <1>1, SentFinite, ZenonT(60)

\* More ids than a generation holds stay more than a generation holds.
LEMMA StillMet ==
    ASSUME (log \in Seq(Seq(Event)))', NEW x, NEW e,
           MetSince(x, e) \subseteq MetSince(x, e)', Cardinality(MetSince(x, e)) > DedupeCap
    PROVE  Cardinality(MetSince(x, e)') > DedupeCap
<1>1. IsFiniteSet(MetSince(x, e)') /\ Cardinality(MetSince(x, e)') \in Nat
  BY MetFiniteAfter, Zenon
<1> DEFINE A == MetSince(x, e)  B == MetSince(x, e)'
<1> HIDE DEF A, B
<1>2. Cardinality(A) <= Cardinality(B) /\ Cardinality(A) \in Nat
  <2>1. IsFiniteSet(B) /\ A \in SUBSET B
    BY <1>1, ZenonT(60) DEF A, B
  <2> QED BY <2>1, FS_Subset, FS_CardinalityType, ZenonT(60)
<1> QED BY <1>1, <1>2, PipelineAssumption DEF A, B

\* What the clients sent decides whether an event is sent within the window.
LEMMA WindowKept ==
    ASSUME UNCHANGED log, NEW e
    PROVE  /\ SentWithinWindow(e)' <=> SentWithinWindow(e)
           /\ Places' = Places /\ \A x : SentAt(x)' = SentAt(x)
<1>1. Places' = Places
  BY DEF Places
<1>2. \A x : SentAt(x)' = SentAt(x)
  BY Zenon DEF SentAt
<1> QED BY <1>1, <1>2, SMTT(30) DEF SentWithinWindow, SentBefore

\* process goes on and the log keeps its records: more ids are met.
LEMMA MetGrows ==
    ASSUME Places \subseteq Places', \A z \in Places : SentAt(z)' = SentAt(z),
           \A z \in Places : Handled(z) => Handled(z)', NEW x, NEW e
    PROVE  MetSince(x, e) \subseteq MetSince(x, e)'
  BY Zenon DEF MetSince, SentBefore

\* Steps that neither take an event nor make a row keep what was taken.
LEMMA OnceKept ==
    ASSUME OnceType, EventsOnce, UNCHANGED <<log, times, cur, prev>>,
           RowsMade' \subseteq RowsMade,
           \A x \in Places : Handled(x) => Handled(x)',
           InHand' => InHand /\ UNCHANGED <<pos, idx>>
    PROVE  EventsOnce'
<1> SUFFICES ASSUME NEW e \in Event \ NoId, SentWithinWindow(e)'
             PROVE  NeverTaken(e)' \/ \E x \in Places' : TakenOnceAt(x, e)'
  BY Zenon DEF EventsOnce
<1>1. SentWithinWindow(e) /\ Places' = Places /\ \A x : SentAt(x)' = SentAt(x)
  BY WindowKept, Zenon
<1>2. InHand' => InHand /\ EventAt' = EventAt /\ <<pos, idx>>' = <<pos, idx>>
  BY Zenon DEF EventAt
<1>3. CASE NeverTaken(e)
  BY <1>2, <1>3, ZenonT(60) DEF NeverTaken
<1>4. ASSUME NEW x \in Places, TakenOnceAt(x, e) PROVE TakenOnceAt(x, e)'
  <2>1. MetSince(x, e) \subseteq MetSince(x, e)'
    BY <1>1, MetGrows, ZenonT(60)
  <2>2. Remembered(x, e)'
    <3>1. Remembered(x, e)
      BY <1>4, Zenon DEF TakenOnceAt
    <3>2. CASE e \in cur
      BY <3>2, Zenon DEF Remembered
    <3>3. CASE e \in prev /\ cur \subseteq MetSince(x, e)
      BY <3>3, <2>1, Zenon DEF Remembered
    <3>4. CASE Cardinality(MetSince(x, e)) > DedupeCap
      <4>1. (log \in Seq(Seq(Event)))'
        BY Zenon DEF OnceType
      <4>2. Cardinality(MetSince(x, e)') > DedupeCap
        BY <4>1, <3>4, <2>1, StillMet
      <4> QED BY <4>2, Zenon DEF Remembered
    <3> QED BY <3>1, <3>2, <3>3, <3>4 DEF Remembered
  <2> QED BY <1>1, <1>2, <1>4, <2>2, ZenonT(60) DEF TakenOnceAt, PlaceOf
<1>5. NeverTaken(e) \/ \E x \in Places : TakenOnceAt(x, e)
  BY <1>1, Zenon DEF EventsOnce
<1> QED BY <1>1, <1>3, <1>4, <1>5, ZenonT(60)

\* A new record is behind everything process has handled, and what it brings can
\* only take an event out of the window.
LEMMA SubmitOnce ==
    ASSUME OnceType, OncePosition, EventsOnce, NEW b \in Bodies, Submit(b)
    PROVE  EventsOnce'
<1> SUFFICES ASSUME NEW e \in Event \ NoId, SentWithinWindow(e)'
             PROVE  NeverTaken(e)' \/ \E x \in Places' : TakenOnceAt(x, e)'
  BY Zenon DEF EventsOnce
<1>1. /\ log \in Seq(Seq(Event)) /\ b \in Seq(Event) /\ log' = Append(log, b)
      /\ UNCHANGED <<storeVars, pos, cpc, ret, idx, cur, prev, times>>
  BY PipelineAssumption, Zenon DEF Submit, OnceType, dedupeVars
<1>2. /\ log' \in Seq(Seq(Event)) /\ Len(log') = Len(log) + 1
      /\ \A k \in 1..Len(log) : log'[k] = log[k]
  BY <1>1
<1>3. ASSUME NEW x \in Places PROVE x \in Places' /\ SentAt(x)' = SentAt(x) /\ x[1] <= Len(log)
  <2>1. PICK k \in DOMAIN log : \E i \in DOMAIN log[k] : x = <<k, i>>
    BY Zenon DEF Places
  <2>2. PICK i \in DOMAIN log[k] : x = <<k, i>>
    BY <2>1, Zenon
  <2>3. k \in 1..Len(log) /\ k \in DOMAIN log' /\ log'[k] = log[k]
    BY <1>1, <1>2
  <2>4. x \in {<<k, j>> : j \in DOMAIN log'[k]}
    BY <2>2, <2>3, ZenonT(60)
  <2>5. x \in Places'
    BY <2>3, <2>4 DEF Places
  <2> QED BY <2>2, <2>3, <2>5 DEF SentAt
<1>4. ASSUME NEW x \in Places', x[1] <= Len(log) PROVE x \in Places
  <2>1. PICK k \in DOMAIN log' : \E i \in DOMAIN log'[k] : x = <<k, i>>
    BY Zenon DEF Places
  <2>2. PICK i \in DOMAIN log'[k] : x = <<k, i>>
    BY <2>1, Zenon
  <2>3. k \in 1..Len(log) /\ k \in DOMAIN log /\ log'[k] = log[k]
    BY <1>1, <1>2, <1>4, <2>2
  <2>4. x \in {<<k, j>> : j \in DOMAIN log[k]}
    BY <2>2, <2>3, Zenon
  <2> QED BY <2>3, <2>4 DEF Places
<1>a. ASSUME NEW x \in Places PROVE x[1] \in DOMAIN log
  <2>1. PICK k \in DOMAIN log : \E i \in DOMAIN log[k] : x = <<k, i>>
    BY Zenon DEF Places
  <2> QED BY <2>1
<1>b. ASSUME NEW x \in Places' PROVE x[1] \in DOMAIN log'
  <2>1. PICK k \in DOMAIN log' : \E i \in DOMAIN log'[k] : x = <<k, i>>
    BY Zenon DEF Places
  <2> QED BY <2>1
<1>5. \A x : Handled(x)' <=> Handled(x)
  BY <1>1, Zenon DEF Handled, InHand, InProcess
<1>6. SentWithinWindow(e)
  <2> SUFFICES ASSUME NEW x \in Places, NEW y \in Places,
                      SentAt(x) = e, SentAt(y) = e, SentBefore(x, y)
               PROVE  LET between == {z \in Places : SentBefore(x, z) /\ SentBefore(z, y)}
                      IN  Cardinality({SentAt(z) : z \in between} \ (NoId \cup Bad \cup {e})) <= DedupeCap
    BY Zenon DEF SentWithinWindow
  <2> DEFINE Btw == {z \in Places : SentBefore(x, z) /\ SentBefore(z, y)}
             BtwNow == {z \in Places' : SentBefore(x, z) /\ SentBefore(z, y)}
             Ids == {SentAt(z) : z \in Btw} \ (NoId \cup Bad \cup {e})
             IdsNow == {SentAt(z)' : z \in BtwNow} \ (NoId \cup Bad \cup {e})
  <2>1. Cardinality(IdsNow) <= DedupeCap
    BY <1>3, ZenonT(60) DEF SentWithinWindow, SentBefore
  <2>2. Btw = BtwNow
    <3>1. ASSUME NEW z \in Places', SentBefore(z, y) PROVE z[1] <= Len(log)
      <4>1. \A k \in DOMAIN log : k \in Nat
        BY <1>1
      <4>2. \A k \in DOMAIN log' : k \in Nat
        BY <1>2
      <4>3. z[1] \in DOMAIN log' /\ y[1] \in DOMAIN log
        BY <1>a, <1>b, Zenon
      <4>4. z[1] \in Nat /\ y[1] \in Nat /\ y[1] <= Len(log)
        BY <1>3, <4>1, <4>2, <4>3, ZenonT(60)
      <4> QED BY <3>1, <4>4, <1>1 DEF SentBefore
    <3> QED BY <1>3, <1>4, <3>1, Zenon
  <2>3. \A z \in Btw : SentAt(z)' = SentAt(z)
    BY <1>3, Zenon
  <2> HIDE DEF Btw, BtwNow
  <2>4. Ids = IdsNow
    BY <2>2, <2>3, Zenon
  <2> QED BY <2>1, <2>4, Zenon DEF Btw
<1>7. InHand' <=> InHand
  BY <1>1, Zenon DEF InHand, InProcess
<1>8. InHand => EventAt' = EventAt /\ <<pos, idx>>' = <<pos, idx>>
  BY <1>1, <1>2 DEF EventAt, OncePosition, OnceType, InHand
<1>9. RowsMade' = RowsMade
  BY <1>1, Zenon DEF RowsMade, StoredRows, storeVars
<1>10. CASE NeverTaken(e)
  BY <1>1, <1>7, <1>8, <1>9, <1>10 DEF NeverTaken
<1>11. ASSUME NEW x \in Places, TakenOnceAt(x, e) PROVE TakenOnceAt(x, e)'
  <2>1. MetSince(x, e) \subseteq MetSince(x, e)'
    <3>1. Places \subseteq Places' /\ \A z \in Places : SentAt(z)' = SentAt(z)
      BY <1>3, Zenon
    <3> QED BY <3>1, <1>5, MetGrows, Zenon
  <2>2. Remembered(x, e)'
    <3>1. Remembered(x, e)
      BY <1>11, Zenon DEF TakenOnceAt
    <3>2. CASE e \in cur
      BY <3>2, <1>1, Zenon DEF Remembered
    <3>3. CASE e \in prev /\ cur \subseteq MetSince(x, e)
      BY <3>3, <2>1, <1>1 DEF Remembered
    <3>4. CASE Cardinality(MetSince(x, e)) > DedupeCap
      <4>1. Cardinality(MetSince(x, e)') > DedupeCap
        BY <1>2, <3>4, <2>1, StillMet
      <4> QED BY <4>1, ZenonT(60) DEF Remembered
    <3> QED BY <3>1, <3>2, <3>3, <3>4 DEF Remembered
  <2> QED BY <1>1, <1>3, <1>5, <1>7, <1>8, <1>9, <1>11, <2>2 DEF TakenOnceAt, PlaceOf
<1>12. NeverTaken(e) \/ \E x \in Places : TakenOnceAt(x, e)
  BY <1>6, Zenon DEF EventsOnce
<1> QED BY <1>3, <1>10, <1>11, <1>12, ZenonT(60)

\* process takes the event at idx: it was never taken before, since an event
\* within the window is forgotten only after its last resend.
LEMMA TakeEventOnce ==
    ASSUME OnceType, OncePosition, EventsOnce, TakeEvent
    PROVE  EventsOnce'
<1> SUFFICES ASSUME NEW e \in Event \ NoId, SentWithinWindow(e)'
             PROVE  NeverTaken(e)' \/ \E x \in Places' : TakenOnceAt(x, e)'
  BY Zenon DEF EventsOnce
<1>a. PICK a : a = EventAt
  BY Zenon
<1>h. PICK h : h = <<pos, idx>>
  BY ZenonT(60)
<1>1. /\ log \in Seq(Seq(Event)) /\ cpc = "event" /\ cpc' = "append"
      /\ UNCHANGED <<buf, flushing, files, log, pos, idx, ret, times>>
      /\ pos \in Nat /\ idx \in Nat \ {0} /\ 0 < pos /\ pos <= Len(log) /\ idx <= Len(log[pos])
      /\ a \notin Bad
      /\ a \notin NoId => a \notin cur \cup prev
  BY <1>a, Zenon DEF TakeEvent, AtEvent, Goto, Seen, storeVars, walVars, OnceType, OncePosition, InProcess
<1>2. h \in Places /\ SentAt(h) = a
  <2>1. pos \in 1..Len(log) /\ idx \in 1..Len(log[pos])
    BY <1>1
  <2> QED BY <1>1, <1>a, <1>h, <2>1, PlaceIn, ZenonT(60) DEF SentAt, EventAt
<1>3. SentWithinWindow(e) /\ Places' = Places /\ \A x : SentAt(x)' = SentAt(x)
  BY <1>1, WindowKept, Zenon
<1>4. InProcess /\ ~InHand /\ InProcess' /\ InHand' /\ EventAt' = a
  BY <1>1, <1>a, ZenonT(60) DEF InProcess, InHand, EventAt
<1>5. ASSUME NEW x \in Places
      PROVE  /\ Handled(x)' <=> Handled(x) \/ x = h
             /\ Handled(x) <=> SentBefore(x, h)
  BY <1>1, <1>4, <1>h, PlaceFacts DEF Handled, SentBefore
<1>6. RowsMade' = RowsMade
  BY <1>1, Zenon DEF RowsMade, StoredRows
<1>7. NeverTaken(e) \/ \E x \in Places : TakenOnceAt(x, e)
  BY <1>3, Zenon DEF EventsOnce
<1>8. CASE e = a
  <2>1. NeverTaken(e)
    <3> SUFFICES ASSUME NEW x \in Places, TakenOnceAt(x, e) PROVE FALSE
      BY <1>7, Zenon
    <3>1. Cardinality(MetSince(x, e)) > DedupeCap
      BY <1>1, <1>8, ZenonT(60) DEF TakenOnceAt, Remembered
    <3>2. SentBefore(x, h) /\ SentAt(x) = e /\ SentAt(h) = e
      BY <1>2, <1>5, <1>8 DEF TakenOnceAt
    <3>3. {y \in Places : SentBefore(x, y) /\ Handled(y)}
            = {z \in Places : SentBefore(x, z) /\ SentBefore(z, h)}
      BY <1>5, Zenon
    <3>4. Cardinality(MetSince(x, e)) <= DedupeCap
      BY <1>2, <1>3, <3>2, <3>3, ZenonT(60) DEF SentWithinWindow, MetSince
    <3>5. Cardinality(MetSince(x, e)) \in Nat
      BY <1>1, MetFinite, Zenon
    <3> QED BY <3>1, <3>4, <3>5, PipelineAssumption
  <2>2. e \in cur'
    BY <1>a, <1>8, ZenonT(60) DEF TakeEvent, Remember
  <2>3. TakenOnceAt(h, e)'
    <3>1. Handled(h)' /\ SentAt(h)' = e
      BY <1>2, <1>3, <1>5, <1>8
    <3>2. Remembered(h, e)'
      BY <2>2, Zenon DEF Remembered
    <3> QED BY <1>1, <1>6, <1>h, <2>1, <3>1, <3>2 DEF TakenOnceAt, NeverTaken
  <2> QED BY <1>2, <1>3, <2>3, Zenon
<1>9. CASE e # a
  <2>1. cur' \cup prev' \subseteq cur \cup prev \cup {a}
    BY <1>a, Zenon DEF TakeEvent, Remember, dedupeVars
  <2>2. CASE NeverTaken(e)
    BY <1>1, <1>4, <1>6, <1>9, <2>1, <2>2, ZenonT(60) DEF NeverTaken
  <2>3. ASSUME NEW x \in Places, TakenOnceAt(x, e) PROVE TakenOnceAt(x, e)'
    <3>1. MetSince(x, e) \subseteq MetSince(x, e)'
      BY <1>3, <1>5, MetGrows, ZenonT(60)
    <3>2. a \notin NoId => a \in MetSince(x, e)'
      <4>1. SentBefore(x, h) /\ Handled(h)'
        BY <1>2, <1>5, <2>3, Zenon DEF TakenOnceAt
      <4> QED BY <1>1, <1>2, <1>3, <1>9, <4>1 DEF MetSince, SentBefore
    <3>3. Remembered(x, e)
      BY <2>3, Zenon DEF TakenOnceAt
    <3>4. (log \in Seq(Seq(Event)))'
      BY <1>1, Zenon
    <3>5. Cardinality(MetSince(x, e)) > DedupeCap => Remembered(x, e)'
      <4>1. ASSUME Cardinality(MetSince(x, e)) > DedupeCap PROVE Cardinality(MetSince(x, e)') > DedupeCap
        BY <3>1, <3>4, <4>1, StillMet, ZenonT(60)
      <4> QED BY <4>1, Zenon DEF Remembered
    <3>6. Remembered(x, e)'
      <4>6. CASE a \in NoId
        <5>1. UNCHANGED <<cur, prev>>
          BY <1>a, <4>6, Zenon DEF TakeEvent, Remember, dedupeVars
        <5> QED BY <3>1, <3>3, <3>5, <5>1, ZenonT(60) DEF Remembered
      <4>7. CASE a \notin NoId /\ ~(Cardinality(cur) >= DedupeCap)
        <5>1. cur' = cur \cup {a} /\ prev' = prev
          BY <1>a, <4>7, Zenon DEF TakeEvent, Remember
        <5> QED BY <3>1, <3>2, <3>3, <3>5, <4>7, <5>1 DEF Remembered
      <4>8. CASE a \notin NoId /\ Cardinality(cur) >= DedupeCap
        <5>1. cur' = {a} /\ prev' = cur
          BY <1>a, <4>8, Zenon DEF TakeEvent, Remember
        <5>2. CASE e \in cur
          BY <3>2, <4>8, <5>1, <5>2 DEF Remembered
        <5>3. CASE e \in prev /\ cur \subseteq MetSince(x, e)
          <6> DEFINE M == MetSince(x, e)'
          <6>1. IsFiniteSet(M) /\ Cardinality(M) \in Nat
            BY <3>4, MetFiniteAfter, Zenon
          <6>2. cur \cup {a} \in SUBSET M /\ a \notin cur
            BY <1>1, <3>1, <3>2, <4>8, <5>3
          <6> HIDE DEF M
          <6>3. IsFiniteSet(cur) /\ Cardinality(cur \cup {a}) <= Cardinality(M)
            BY <6>1, <6>2, FS_Subset, Zenon
          <6>4. Cardinality(cur) \in Nat /\ Cardinality(cur \cup {a}) = Cardinality(cur) + 1
            BY <6>2, <6>3, FS_AddElement, FS_CardinalityType, ZenonT(60)
          <6>5. Cardinality(M) > DedupeCap
            BY <4>8, <6>1, <6>3, <6>4, PipelineAssumption
          <6> QED BY <6>5, Zenon DEF M, Remembered
        <5> QED BY <3>3, <3>5, <5>2, <5>3 DEF Remembered
      <4> QED BY <4>6, <4>7, <4>8, Zenon
    <3> QED BY <1>1, <1>3, <1>4, <1>5, <1>6, <1>9, <2>3, <3>6, ZenonT(60) DEF TakenOnceAt, PlaceOf
  <2> QED BY <1>3, <1>7, <2>2, <2>3, ZenonT(60)
<1> QED BY <1>8, <1>9, Zenon

\* The row stored is that of the event in hand.
LEMMA StoreEventOnce ==
    ASSUME OnceType, OncePosition, EventsOnce, StoreEvent
    PROVE  EventsOnce'
<1> SUFFICES ASSUME NEW e \in Event \ NoId, SentWithinWindow(e)'
             PROVE  NeverTaken(e)' \/ \E x \in Places' : TakenOnceAt(x, e)'
  BY Zenon DEF EventsOnce
<1>1. /\ cpc = "append" /\ cpc' = "upsert"
      /\ UNCHANGED <<flushing, files, log, pos, idx, ret, times, cur, prev>>
      /\ buf' = buf \cup {RowAt} /\ pos \in Nat /\ 0 < pos
  BY Zenon DEF StoreEvent, StoreAppend, Goto, walVars, dedupeVars, OnceType, OncePosition, InProcess
<1>2. SentWithinWindow(e) /\ Places' = Places /\ \A x : SentAt(x)' = SentAt(x)
  BY <1>1, WindowKept, Zenon
<1>3. InProcess /\ InHand /\ InProcess' /\ InHand' /\ EventAt' = EventAt
  BY <1>1, Zenon DEF InProcess, InHand, EventAt
<1>4. \A x : Handled(x)' <=> Handled(x)
  BY <1>1, <1>3, ZenonT(60) DEF Handled
<1>5. RowsMade' = RowsMade \cup {RowAt} /\ RowAt.ev = EventAt /\ PlaceOf(RowAt) = <<pos, idx>>
  BY <1>1 DEF RowsMade, StoredRows, RowAt, RowOf, EventAt, PlaceOf
<1>6. \A x : MetSince(x, e)' = MetSince(x, e)
  BY <1>2, <1>4, ZenonT(60) DEF MetSince, SentBefore
<1>7. CASE NeverTaken(e)
  BY <1>1, <1>3, <1>5, <1>7, Zenon DEF NeverTaken
<1>8. ASSUME NEW x \in Places, TakenOnceAt(x, e) PROVE TakenOnceAt(x, e)'
  <2>1. Remembered(x, e)'
    BY <1>1, <1>6, <1>8, ZenonT(60) DEF TakenOnceAt, Remembered
  <2>2. ASSUME NEW r \in RowsMade', r.ev = e PROVE PlaceOf(r) = x
    BY <1>3, <1>5, <1>8, <2>2, ZenonT(60) DEF TakenOnceAt
  <2> QED BY <1>1, <1>2, <1>3, <1>4, <1>8, <2>1, <2>2, ZenonT(60) DEF TakenOnceAt, PlaceOf
<1> QED BY <1>2, <1>7, <1>8, Zenon DEF EventsOnce

\* The event counted is the one in hand, which had not been counted.
LEMMA UpsertIssueOnce ==
    ASSUME OnceType, OncePosition, EventsOnce, UpsertIssue
    PROVE  EventsOnce'
<1> SUFFICES ASSUME NEW e \in Event \ NoId, SentWithinWindow(e)'
             PROVE  NeverTaken(e)' \/ \E x \in Places' : TakenOnceAt(x, e)'
  BY Zenon DEF EventsOnce
<1>1. /\ cpc = "upsert" /\ cpc' = "event" /\ idx' = idx + 1
      /\ UNCHANGED <<buf, flushing, files, log, pos, ret, cur, prev>>
      /\ times' = times \/ times' = [times EXCEPT ![EventAt] = @ + 1]
      /\ times \in [Event -> Nat] /\ idx \in Nat /\ log \in Seq(Seq(Event))
  BY Zenon DEF UpsertIssue, Goto, walVars, storeVars, dedupeVars, OnceType
<1>2. SentWithinWindow(e) /\ Places' = Places /\ \A x : SentAt(x)' = SentAt(x)
  BY <1>1, WindowKept, Zenon
<1>3. InProcess /\ InHand /\ InProcess' /\ ~InHand'
  BY <1>1, Zenon DEF InProcess, InHand
<1>4. ASSUME NEW x \in Places PROVE Handled(x)' <=> Handled(x)
  BY <1>1, <1>3, PlaceFacts DEF Handled
<1>5. RowsMade' = RowsMade
  BY <1>1, Zenon DEF RowsMade, StoredRows
<1>6. \A x : MetSince(x, e)' = MetSince(x, e)
  BY <1>2, <1>4, Zenon DEF MetSince, SentBefore
<1>7. CASE NeverTaken(e)
  <2>1. times'[e] = 0
    BY <1>1, <1>3, <1>7, Zenon DEF NeverTaken
  <2> QED BY <1>1, <1>3, <1>5, <1>7, <2>1, ZenonT(60) DEF NeverTaken
<1>8. ASSUME NEW x \in Places, TakenOnceAt(x, e) PROVE TakenOnceAt(x, e)'
  <2>1. Remembered(x, e)'
    BY <1>1, <1>6, <1>8, ZenonT(60) DEF TakenOnceAt, Remembered
  <2>2. times'[e] <= 1
    BY <1>1, <1>3, <1>8 DEF TakenOnceAt
  <2> QED BY <1>2, <1>3, <1>4, <1>5, <1>8, <2>1, <2>2, ZenonT(60) DEF TakenOnceAt, PlaceOf
<1> QED BY <1>2, <1>7, <1>8, Zenon DEF EventsOnce

\* Steps that only move control, out of process or within it.
LEMMA QuietOnce ==
    ASSUME OnceState, UNCHANGED <<buf, flushing, parts, files, log, pos, idx, times, cur, prev>>,
           ret' \in {"wait", "next", "select", "exited"},
           cpc # "upsert", cpc' # "upsert",
           InProcess' => InProcess /\ (InHand' <=> InHand),
           cpc' # "flush" => flushing = {},
           cpc' = "commit" => ret' # "wait"
    PROVE  OnceState'
<1> USE DEF OnceState
<1>1. RowsMade' = RowsMade
  BY Zenon DEF RowsMade, StoredRows
<1>2. InHand' => InHand
  BY Zenon DEF InHand
<1>3. OnceType'
  BY Zenon DEF OnceType
<1>4. OncePosition'
  BY <1>2, Zenon DEF OncePosition
<1>5. RowsOnce'
  BY <1>1, Zenon DEF RowsOnce, RowsApart
<1>6. \A x : Handled(x) => Handled(x)'
  BY Zenon DEF Handled
<1>7. EventsOnce'
  BY <1>1, <1>2, <1>6, OnceKept, ZenonT(60)
<1> QED BY <1>3, <1>4, <1>5, <1>7, Zenon

LEMMA QuietActionsOnce ==
    ASSUME OnceState,
           \/ SelectDone \/ SelectTick \/ SelectDefault \/ NoRecord \/ ReadFails \/ RecordDone
           \/ BufferFull \/ Retry \/ FlushNothing \/ CommitOffset \/ CommitFails
    PROVE  OnceState'
<1> USE DEF storeVars, walVars, dedupeVars, InProcess, InHand, Call, Goto
<1>1. /\ ret \in {"wait", "next", "select", "exited"} /\ (cpc # "flush" => flushing = {})
      /\ (cpc = "commit" => ret # "wait")
  BY Zenon DEF OnceState, OnceType, OncePosition, RowsOnce
<1>2. CASE SelectDone
  BY <1>1, <1>2, QuietOnce, Zenon DEF SelectDone
<1>3. CASE SelectTick
  BY <1>1, <1>3, QuietOnce, Zenon DEF SelectTick
<1>4. CASE SelectDefault
  BY <1>1, <1>4, QuietOnce, ZenonT(60) DEF SelectDefault
<1>5. CASE NoRecord
  BY <1>1, <1>5, QuietOnce DEF NoRecord
<1>6. CASE ReadFails
  BY <1>1, <1>6, QuietOnce DEF ReadFails
<1>7. CASE RecordDone
  BY <1>1, <1>7, QuietOnce DEF RecordDone
<1>8. CASE BufferFull
  BY <1>1, <1>8, QuietOnce, ZenonT(60) DEF BufferFull
<1>9. CASE Retry
  BY <1>1, <1>9, QuietOnce, Zenon DEF Retry
<1>10. CASE FlushNothing
  BY <1>1, <1>10, QuietOnce, ZenonT(60) DEF FlushNothing, AfterFlush
<1>11. CASE CommitOffset
  BY <1>1, <1>11, QuietOnce, Zenon DEF CommitOffset
<1>12. CASE CommitFails
  BY <1>1, <1>12, QuietOnce, Zenon DEF CommitFails
<1> QED BY <1>2, <1>3, <1>4, <1>5, <1>6, <1>7, <1>8, <1>9, <1>10, <1>11, <1>12, ZenonT(60)

\* Steps of others, that leave Run where it is.
LEMMA IdleOnce ==
    ASSUME OnceState,
           UNCHANGED <<storeVars, log, pos, cpc, ret, idx, dedupeVars, times>>
    PROVE  OnceState'
<1> USE DEF OnceState, storeVars, dedupeVars
<1>1. RowsMade' = RowsMade
  BY Zenon DEF RowsMade, StoredRows
<1>2. InProcess' = InProcess /\ InHand' = InHand
  BY Zenon DEF InProcess, InHand
<1>3. OnceType'
  BY Zenon DEF OnceType
<1>4. OncePosition'
  BY <1>2, Zenon DEF OncePosition
<1>5. RowsOnce'
  BY <1>1, <1>2, Zenon DEF RowsOnce, RowsApart
<1>6. \A x : Handled(x) => Handled(x)'
  BY <1>2, Zenon DEF Handled
<1>7. EventsOnce'
  BY <1>1, <1>2, <1>6, OnceKept, ZenonT(60)
<1> QED BY <1>3, <1>4, <1>5, <1>7, Zenon

\* Steps on to the next record or the next event: no row is of an event ahead.
LEMMA AdvanceOnce ==
    ASSUME OnceState, UNCHANGED <<buf, flushing, parts, files, log, ret, times, cur, prev>>,
           ReadRecord \/ DropEvent \/ GiveUp
    PROVE  OnceState'
<1> USE DEF OnceState
<1>1. RowsMade' = RowsMade /\ StoredRows' = StoredRows
  BY Zenon DEF RowsMade, StoredRows
<1>2. /\ cpc' = "event" /\ InProcess' /\ ~InHand' /\ cpc \notin {"flush", "upsert"}
      /\ pos' \in Nat /\ 0 < pos' /\ pos' <= Len(log) /\ idx' \in Nat \ {0}
      /\ pos \in Nat /\ idx \in Nat
      /\ \/ pos' = pos + 1 /\ idx' = 1 /\ cpc = "next"
         \/ pos' = pos /\ idx' > idx /\ InProcess
  <2>1. Len(log) \in Nat /\ \A k \in 1..Len(log) : Len(log[k]) \in Nat
    BY DEF OnceType
  <2>2. CASE ReadRecord
    BY <2>1, <2>2 DEF ReadRecord, Goto, InProcess, InHand, OnceType, OncePosition
  <2>3. CASE DropEvent
    BY <2>1, <2>3 DEF DropEvent, AtEvent, InProcess, InHand, OnceType, OncePosition
  <2>4. CASE GiveUp
    BY <2>1, <2>4 DEF GiveUp, Goto, InProcess, InHand, OnceType, OncePosition
  <2> QED BY <2>2, <2>3, <2>4, ZenonT(60)
<1>3. OnceType'
  BY <1>2, Zenon DEF OnceType
<1>4. OncePosition'
  BY <1>2, Zenon DEF OncePosition
<1>5. RowsOnce'
  <2>1. \A r \in RowsMade : r.off \in Nat /\ r.i \in Nat
    BY DEF OnceType, RowsMade, StoredRows, Row
  <2>2. ASSUME NEW r \in RowsMade
        PROVE  r.off < pos' /\ (r.off = pos' - 1 => r.i < idx')
    BY <1>2, <2>1 DEF RowsOnce
  <2> QED BY <1>1, <1>2, <2>2, ZenonT(60) DEF RowsOnce, RowsApart
<1>6. ASSUME NEW x \in Places, Handled(x) PROVE Handled(x)'
  <2>1. x[1] \in Nat /\ x[2] \in Nat
    BY PlaceFacts, Zenon DEF OnceType
  <2> QED BY <1>2, <1>6, <2>1 DEF Handled
<1>7. EventsOnce'
  BY <1>1, <1>2, <1>6, OnceKept, ZenonT(60)
<1> QED BY <1>3, <1>4, <1>5, <1>7, ZenonT(60)

LEMMA SubmitKeepsOnce ==
    ASSUME OnceState, NEW b \in Bodies, Submit(b)
    PROVE  OnceState'
<1> USE DEF OnceState
<1>1. /\ log \in Seq(Seq(Event)) /\ b \in Seq(Event) /\ log' = Append(log, b) /\ pos \in Nat
      /\ UNCHANGED <<buf, flushing, parts, files, pos, cpc, ret, idx, times>>
  BY PipelineAssumption, Zenon DEF Submit, OnceType, storeVars
<1>2. log' \in Seq(Seq(Event)) /\ Len(log') = Len(log) + 1 /\ \A k \in 1..Len(log) : log'[k] = log[k]
  BY <1>1
<1>3. RowsMade' = RowsMade /\ InProcess' = InProcess /\ InHand' = InHand
  BY <1>1, Zenon DEF RowsMade, StoredRows, InProcess, InHand
<1>4. OnceType'
  BY <1>1, <1>2, ZenonT(60) DEF OnceType
<1>5. OncePosition'
  BY <1>1, <1>2, <1>3 DEF OncePosition, InHand
<1>6. RowsOnce'
  BY <1>1, <1>3, Zenon DEF RowsOnce, RowsApart
<1> QED BY <1>4, <1>5, <1>6, SubmitOnce, Zenon

LEMMA TakeEventKeepsOnce ==
    ASSUME OnceState, TakeEvent
    PROVE  OnceState'
<1> USE DEF OnceState
<1>1. /\ cpc = "event" /\ cpc' = "append" /\ idx <= Len(log[pos])
      /\ UNCHANGED <<buf, flushing, parts, files, log, pos, ret, idx, times>>
  BY Zenon DEF TakeEvent, AtEvent, Goto, storeVars, walVars
<1>2. RowsMade' = RowsMade /\ InProcess' /\ InProcess
  BY <1>1, Zenon DEF RowsMade, StoredRows, InProcess
<1>3. OnceType'
  BY <1>1, Zenon DEF OnceType
<1>4. OncePosition'
  BY <1>1, <1>2, ZenonT(60) DEF OncePosition
<1>5. RowsOnce'
  BY <1>1, <1>2 DEF RowsOnce, RowsApart
<1> QED BY <1>3, <1>4, <1>5, TakeEventOnce

\* The row process stores is a new one.
LEMMA StoreEventKeepsOnce ==
    ASSUME OnceState, StoreEvent
    PROVE  OnceState'
<1> USE DEF OnceState
<1>1. /\ cpc = "append" /\ cpc' = "upsert" /\ buf' = buf \cup {RowAt}
      /\ UNCHANGED <<flushing, parts, files, log, pos, ret, idx, times>>
      /\ pos \in Nat /\ 0 < pos /\ pos <= Len(log) /\ idx \in Nat \ {0} /\ idx <= Len(log[pos])
      /\ log \in Seq(Seq(Event)) /\ flushing = {}
  BY Zenon DEF StoreEvent, StoreAppend, Goto, walVars, OnceType, OncePosition, RowsOnce, InProcess, InHand
<1>2. /\ RowAt \in Row /\ RowAt.off = pos - 1 /\ RowAt.i = idx
  <2>1. pos \in 1..Len(log) /\ idx \in 1..Len(log[pos]) /\ (pos - 1) + 1 = pos /\ pos - 1 \in Nat
    BY <1>1
  <2>2. log[pos] \in Seq(Event)
    BY <1>1, <2>1
  <2>3. log[pos][idx] \in Event
    BY <2>1, <2>2
  <2> QED BY <1>1, <2>1, <2>3, ZenonT(60) DEF RowAt, RowOf, Row
<1>3. RowsMade' = RowsMade \cup {RowAt} /\ InProcess /\ InProcess' /\ InHand
  BY <1>1, ZenonT(60) DEF RowsMade, StoredRows, InProcess, InHand
<1>4. OnceType'
  BY <1>1, <1>2 DEF OnceType
<1>5. OncePosition'
  BY <1>1, <1>3 DEF OncePosition
<1>6. RowAt \notin RowsMade
  BY <1>1, <1>2, <1>3 DEF RowsOnce
<1>7. \A f \in files : RowAt \notin f.rows
  BY <1>6, ZenonT(60) DEF RowsMade, StoredRows
<1>8. RowsOnce'
  BY <1>1, <1>2, <1>3, <1>7 DEF RowsOnce, RowsApart
<1> QED BY <1>4, <1>5, <1>8, StoreEventOnce, ZenonT(60)

LEMMA UpsertIssueKeepsOnce ==
    ASSUME OnceState, UpsertIssue
    PROVE  OnceState'
<1> USE DEF OnceState
<1>1. /\ cpc = "upsert" /\ cpc' = "event" /\ idx' = idx + 1
      /\ UNCHANGED <<buf, flushing, parts, files, log, pos, ret>>
      /\ times' = times \/ times' = [times EXCEPT ![EventAt] = @ + 1]
      /\ idx \in Nat \ {0} /\ pos \in Nat
  BY Zenon DEF UpsertIssue, Goto, walVars, storeVars, OnceType
<1>2. RowsMade' = RowsMade /\ InProcess' /\ InProcess /\ ~InHand'
  BY <1>1, Zenon DEF RowsMade, StoredRows, InProcess, InHand
<1>3. times' \in [Event -> Nat]
  BY <1>1 DEF OnceType
<1>4. OnceType'
  BY <1>1, <1>3 DEF OnceType
<1>5. OncePosition'
  BY <1>1, <1>2, ZenonT(60) DEF OncePosition
<1>6. \A r \in RowsMade : r.i \in Nat
  BY DEF OnceType, RowsMade, StoredRows, Row
<1>7. RowsOnce'
  BY <1>1, <1>2, <1>6 DEF RowsOnce, RowsApart
<1> QED BY <1>4, <1>5, <1>7, UpsertIssueOnce, Zenon

\* Flush moves rows from the buffer to the files, each into one of them; a failed
\* one puts them back.
LEMMA FlushOnce ==
    ASSUME OnceState,
           FlushTake \/ FlushReturn \/ \E p \in Partition : FlushPart(p) \/ FlushFails(p)
    PROVE  OnceState'
<1> USE DEF OnceState
<1>1. /\ cpc = "flush" /\ UNCHANGED <<log, pos, ret, idx, times, cur, prev>>
      /\ \/ cpc' = cpc
         \/ /\ flushing' = {} /\ cpc' \in {"wait", "commit", "next", "select", "exited"}
            /\ cpc' = "wait" <=> ret = "wait"
  BY Zenon DEF FlushTake, FlushReturn, FlushPart, FlushFails, FlushEnd, WriteSegmentFails, AfterFlush,
         Goto, walVars, dedupeVars, OnceType
<1>2. /\ InProcess' => InProcess /\ (InHand' <=> InHand)
      /\ InHand' => InHand
  BY <1>1, Zenon DEF InProcess, InHand
<1>3. \A x : Handled(x) => Handled(x)'
  BY <1>1, <1>2, Zenon DEF Handled
<1>4. OncePosition'
  BY <1>1, <1>2, Zenon DEF OncePosition
<1> DEFINE Moved == /\ OnceType' /\ RowsMade' \subseteq RowsMade
                    /\ flushing' # {} => buf' = {}
                    /\ ~FlushFaults => RowsApart'
<1>5. ASSUME Moved PROVE OnceState'
  <2>1. RowsOnce'
    BY <1>1, <1>2, <1>5, ZenonT(60) DEF RowsOnce
  <2>2. EventsOnce'
    BY <1>1, <1>2, <1>3, <1>5, OnceKept
  <2> QED BY <1>4, <1>5, <2>1, <2>2, ZenonT(60)
<1>6. ASSUME FlushTake PROVE Moved
  BY <1>1, <1>6, ZenonT(60) DEF FlushTake, FlushBegin, OnceType, RowsOnce, RowsApart, RowsMade, StoredRows
<1>7. ASSUME FlushReturn PROVE Moved
  BY <1>1, <1>7, ZenonT(60) DEF FlushReturn, FlushEnd, OnceType, RowsOnce, RowsApart, RowsMade, StoredRows
<1>8. ASSUME NEW p \in Partition, FlushPart(p) PROVE Moved
  <2>1. PICK n : n = SegmentName(p)
    BY Zenon
  <2>2. PICK g : g = [name |-> n, rows |-> RowsOf(p)]
    BY Zenon
  <2>3. /\ p \in parts /\ parts' = parts \ {p} /\ UNCHANGED <<buf, flushing>>
        /\ files' = {f \in files : f.name # n} \cup {g}
    BY <1>8, <2>1, <2>2, Zenon DEF FlushPart, WriteSegment
  <2>4. g.rows \subseteq flushing /\ \A r \in g.rows : Part[r.ev] = p
    BY <2>2, Zenon DEF RowsOf
  <2>5. \A f \in files' : f \in files \/ f = g
    BY <2>3, Zenon
  <2>6. OnceType'
    <3>1. flushing \in SUBSET Row /\ \A f \in files : f.rows \in SUBSET Row
      BY Zenon DEF OnceType
    <3>2. \A f \in files' : f.rows \in SUBSET Row
      BY <2>4, <2>5, <3>1, Zenon
    <3>3. ret' \in {"wait", "next", "select", "exited"}
      BY <1>1, ZenonT(60) DEF OnceType
    <3> QED BY <1>1, <2>3, <3>2, <3>3, ZenonT(60) DEF OnceType
  <2>7. RowsMade' \subseteq RowsMade
    BY <2>3, <2>4, <2>5 DEF RowsMade, StoredRows
  <2>8. ASSUME RowsApart PROVE RowsApart'
    <3>1. \A f \in files : \A r \in f.rows : r \notin g.rows
      BY <2>3, <2>4, <2>8, ZenonT(60) DEF RowsApart
    <3>2. \A f, h \in files' : \A r \in f.rows : r \in h.rows => f = h
      BY <2>5, <2>8, <3>1, ZenonT(60) DEF RowsApart
    <3>3. \A f \in files' : \A r \in f.rows :
             r \notin buf' /\ (r \in flushing' => Part[r.ev] \notin parts')
      BY <2>3, <2>4, <2>5, <2>8, ZenonT(60) DEF RowsOnce, RowsApart
    <3> QED BY <3>2, <3>3, Zenon DEF RowsApart
  <2> QED BY <1>1, <2>3, <2>6, <2>7, <2>8 DEF RowsOnce
<1>9. ASSUME NEW p \in Partition, FlushFails(p) PROVE Moved
  BY <1>1, <1>9, ZenonT(60) DEF FlushFails, WriteSegmentFails, OnceType, RowsOnce, RowsMade, StoredRows
<1> HIDE DEF Moved
<1> QED BY <1>5, <1>6, <1>7, <1>8, <1>9, ZenonT(60)

LEMMA OnceStep ==
    ASSUME OnceInv, [Next]_vars
    PROVE  OnceInv'
<1> USE DEF OnceInv
<1>1. reboots' \in Nat /\ (reboots' = 0 => reboots = 0)
  <2>1. reboots' = reboots \/ reboots' = reboots + 1
    BY Zenon DEF Next, Run, Process, Flush, vars, Submit, RefreshLagFromWAL, Cancel, SelectDone,
           SelectTick, SelectDefault, ReadRecord, NoRecord, ReadFails, RecordDone, DropEvent,
           TakeEvent, StoreEvent, BufferFull, Retry, GiveUp, UpsertIssue, FlushNothing,
           FlushTake, FlushReturn, FlushPart, FlushFails, CommitOffset, CommitFails, Reboot,
           IngestReboot, histVars
  <2> QED BY <2>1
<1> SUFFICES ASSUME reboots' = 0, OnceState PROVE OnceState'
  BY <1>1, Zenon
<1>2. ASSUME NEW b \in Bodies, Submit(b) PROVE OnceState'
  BY <1>2, SubmitKeepsOnce, Zenon
<1>3. CASE RefreshLagFromWAL
  BY <1>3, IdleOnce, Zenon DEF RefreshLagFromWAL, walVars
<1>4. CASE Cancel
  BY <1>4, IdleOnce, Zenon DEF Cancel, walVars
<1>5. CASE UNCHANGED vars
  BY <1>5, IdleOnce, Zenon DEF vars, walVars
<1>6. CASE ReadRecord
  BY <1>6, AdvanceOnce, Zenon DEF ReadRecord, Goto, storeVars, walVars, dedupeVars
<1>7. CASE DropEvent
  BY <1>7, AdvanceOnce, Zenon DEF DropEvent, storeVars, walVars, dedupeVars
<1>8. CASE GiveUp
  BY <1>8, AdvanceOnce, Zenon DEF GiveUp, Goto, storeVars, walVars, dedupeVars
<1>9. CASE Reboot
  BY <1>1, <1>9 DEF Reboot
<1>10. CASE IngestReboot
  BY <1>1, <1>10 DEF IngestReboot
<1>11. CASE Run
  <2>1. CASE TakeEvent
    BY <2>1, TakeEventKeepsOnce, Zenon
  <2>2. CASE StoreEvent
    BY <2>2, StoreEventKeepsOnce, ZenonT(60)
  <2>3. CASE UpsertIssue
    BY <2>3, UpsertIssueKeepsOnce, Zenon
  <2>4. CASE FlushTake \/ FlushReturn \/ \E p \in Partition : FlushPart(p) \/ FlushFails(p)
    BY <2>4, FlushOnce, Zenon
  <2>5. CASE \/ SelectDone \/ SelectTick \/ SelectDefault \/ NoRecord \/ ReadFails \/ RecordDone
             \/ BufferFull \/ Retry \/ FlushNothing \/ CommitOffset \/ CommitFails
    BY <2>5, QuietActionsOnce, Zenon
  <2> QED BY <1>6, <1>7, <1>8, <1>11, <2>1, <2>2, <2>3, <2>4, <2>5, ZenonT(60)
        DEF Run, Process, Flush
<1> QED BY <1>2, <1>3, <1>4, <1>5, <1>9, <1>10, <1>11, ZenonT(60) DEF Next

LEMMA OnceInit == Init => OnceInv
<1> SUFFICES ASSUME Init PROVE OnceInv
  BY Zenon
<1> USE DEF Init, StoreInit
<1>1. OnceType
  BY DEF OnceType
<1>2. OncePosition
  BY DEF OncePosition, InProcess, InHand
<1>3. RowsMade = {} /\ RowsOnce
  BY Zenon DEF RowsOnce, RowsApart, RowsMade, StoredRows, InProcess
<1>4. \A e \in Event : NeverTaken(e)
  BY <1>3, Zenon DEF NeverTaken, InHand, InProcess
<1> QED BY <1>1, <1>2, <1>3, <1>4, ZenonT(60) DEF OnceInv, OnceState, EventsOnce

\* An event taken once has at most one row, in at most one file.
LEMMA OneCopy ==
    ASSUME OnceState, NEW e \in Event \ NoId, SentWithinWindow(e)
    PROVE  times[e] <= 1 /\ (~FlushFaults => Copies(e) <= 1)
<1>0. times[e] <= 1
  BY DEF OnceState, EventsOnce, NeverTaken, TakenOnceAt
<1> SUFFICES ASSUME ~FlushFaults PROVE Copies(e) <= 1
  BY <1>0, Zenon
<1> DEFINE C == UNION {{<<f.name, r>> : r \in {s \in f.rows : s.ev = e}} : f \in files}
<1>1. NeverTaken(e) \/ \E x \in Places : TakenOnceAt(x, e)
  BY Zenon DEF OnceState, EventsOnce
<1>2. ASSUME NEW c \in C PROVE \E f \in files : \E r \in f.rows : r.ev = e /\ c = <<f.name, r>>
  BY Zenon
<1>3. \A f \in files : \A r \in f.rows : r \in RowsMade /\ r \in Row
  BY Zenon DEF RowsMade, StoredRows, OnceState, OnceType
<1>4. ASSUME NEW c \in C, NEW d \in C PROVE c = d
  <2>1. PICK f \in files : \E r \in f.rows : r.ev = e /\ c = <<f.name, r>>
    BY <1>2, Zenon
  <2>2. PICK r \in f.rows : r.ev = e /\ c = <<f.name, r>>
    BY <2>1, Zenon
  <2>3. PICK g \in files : \E s \in g.rows : s.ev = e /\ d = <<g.name, s>>
    BY <1>2, Zenon
  <2>4. PICK s \in g.rows : s.ev = e /\ d = <<g.name, s>>
    BY <2>3, Zenon
  <2>5. PlaceOf(r) = PlaceOf(s) /\ r \in Row /\ s \in Row
    BY <1>1, <1>3, <2>2, <2>4, ZenonT(60) DEF NeverTaken, TakenOnceAt
  <2>6. r.off = s.off /\ r.i = s.i
    BY <2>5 DEF PlaceOf, Row
  <2>7. r = s
    BY <2>2, <2>4, <2>5, <2>6 DEF Row
  <2>8. f = g
    BY <2>2, <2>4, <2>7, ZenonT(60) DEF OnceState, RowsOnce, RowsApart
  <2> QED BY <2>2, <2>4, <2>7, <2>8, ZenonT(60)
<1> HIDE DEF C
<1>5. Cardinality(C) <= 1
  <2>1. CASE C = {}
    BY <2>1, FS_EmptySet
  <2>2. CASE C # {}
    <3>1. PICK c \in C : TRUE
      BY <2>2, Zenon
    <3>2. C = {c}
      BY <1>4, Zenon
    <3>3. Cardinality({c}) = 1
      BY FS_Singleton, Zenon
    <3> QED BY <3>2, <3>3
  <2> QED BY <2>1, <2>2, Zenon
<1> QED BY <1>5, ZenonT(60) DEF C, Copies

\* A process that has not restarted counts an event with an event_id once,
\* however often its client sends it within a generation of other ids, and, when
\* no flush fails, has it in one row of one file (process, dedupe.firstSeen).
THEOREM DedupeSuffices == Spec => []EffectivelyOnce
<1>1. OnceInv => EffectivelyOnce
  BY OneCopy, Zenon DEF OnceInv, EffectivelyOnce
<1>2. OnceInv /\ [Next]_vars => OnceInv'
  BY OnceStep, Zenon
<1> QED BY <1>1, <1>2, OnceInit, PTL DEF Spec
====
