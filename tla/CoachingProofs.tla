---------------------------- MODULE CoachingProofs ----------------------------
(***************************************************************************)
(* What a coached replay guarantees for every record, player, text and     *)
(* answer of the language model.                                           *)
(***************************************************************************)
EXTENDS CoachedReplay, FiniteSetTheorems, SequenceTheorems, TLAPS

-----------------------------------------------------------------------------
(***************************************************************************)
(* The elements of a finite set in an order: InOrder takes the element     *)
(* with n - 1 elements before it as the n-th.  The order is a relation     *)
(* here, so that the lemmas can be cited for any.                          *)
(***************************************************************************)

IsOrder(S, R) ==
    /\ \A x \in S : <<x, x>> \notin R
    /\ \A x, y, z \in S : <<x, y>> \in R /\ <<y, z>> \in R => <<x, z>> \in R
    /\ \A x, y \in S : x # y => <<x, y>> \in R \/ <<y, x>> \in R

Below(S, R, x) == {y \in S : <<y, x>> \in R}

\* Elements have different ranks, which grow along the order.
LEMMA RanksGrow ==
    ASSUME NEW S, IsFiniteSet(S), NEW R, IsOrder(S, R)
    PROVE  /\ \A x \in S : Cardinality(Below(S, R, x)) \in 0 .. (Cardinality(S) - 1)
           /\ \A x, y \in S :
                  <<x, y>> \in R => Cardinality(Below(S, R, x)) < Cardinality(Below(S, R, y))
<1>1. \A x \in S : /\ Below(S, R, x) \in SUBSET S /\ x \notin Below(S, R, x)
                   /\ IsFiniteSet(Below(S, R, x))
  BY FS_Subset DEF Below, IsOrder
<1>2. \A x \in S : Cardinality(Below(S, R, x)) \in Nat
  BY <1>1, FS_CardinalityType
<1>3. Cardinality(S) \in Nat
  BY FS_CardinalityType
<1>4. ASSUME NEW x \in S PROVE Cardinality(Below(S, R, x)) < Cardinality(S)
  <2>1. Below(S, R, x) # S
    BY <1>1
  <2>2. /\ Cardinality(Below(S, R, x)) <= Cardinality(S)
        /\ Cardinality(Below(S, R, x)) # Cardinality(S)
    BY <1>1, <2>1, FS_Subset
  <2> QED
    BY <1>2, <1>3, <2>2
<1>5. ASSUME NEW x \in S, NEW y \in S, <<x, y>> \in R
      PROVE  Cardinality(Below(S, R, x)) < Cardinality(Below(S, R, y))
  <2>1. Below(S, R, x) \in SUBSET Below(S, R, y) /\ x \in Below(S, R, y)
    BY <1>5 DEF Below, IsOrder
  <2>2. Below(S, R, x) # Below(S, R, y)
    BY <1>1, <2>1
  <2>3. /\ Cardinality(Below(S, R, x)) <= Cardinality(Below(S, R, y))
        /\ Cardinality(Below(S, R, x)) # Cardinality(Below(S, R, y))
    BY <1>1, <2>1, <2>2, FS_Subset
  <2> QED
    BY <1>2, <2>3
<1> QED
  BY <1>2, <1>3, <1>4, <1>5

\* Every rank is one of an element.
LEMMA RanksExist ==
    ASSUME NEW S, IsFiniteSet(S), NEW R, IsOrder(S, R), NEW n \in 1 .. Cardinality(S)
    PROVE  \E x \in S : Cardinality(Below(S, R, x)) = n - 1
<1>1. Cardinality(S) \in Nat
  BY FS_CardinalityType
<1> DEFINE T == 0 .. (Cardinality(S) - 1)
           f == [x \in S |-> Cardinality(Below(S, R, x))]
<1>2. IsFiniteSet(T) /\ Cardinality(T) = Cardinality(S)
  <2>1. PICK m : m = Cardinality(S) - 1
    OBVIOUS
  <2>2. m \in Int /\ 0 \in Int
    BY <1>1, <2>1
  <2>3. IsFiniteSet(0 .. m) /\ Cardinality(0 .. m) = IF 0 > m THEN 0 ELSE m - 0 + 1
    BY <2>2, FS_Interval
  <2> QED
    BY <1>1, <2>1, <2>3
<1>3. f \in Injection(S, T)
  <2>1. f \in [S -> T]
    BY RanksGrow
  <2>2. ASSUME NEW x \in S, NEW y \in S, x # y PROVE f[x] # f[y]
    <3>1. f[x] < f[y] \/ f[y] < f[x]
      BY <2>2, RanksGrow DEF IsOrder
    <3>2. f[x] \in Int /\ f[y] \in Int
      BY <1>1, RanksGrow
    <3> QED
      BY <3>1, <3>2
  <2> QED
    BY <2>1, <2>2 DEF Injection, IsInjective
<1>4. f \in Surjection(S, T)
  BY <1>2, <1>3, FS_Injection
<1>5. n - 1 \in T
  BY <1>1
<1>6. PICK x \in S : f[x] = n - 1
  BY <1>4, <1>5 DEF Surjection
<1> QED
  BY <1>6

\* A sequence of the elements by their ranks has all of them, in order.
LEMMA RankedSequence ==
    ASSUME NEW S, IsFiniteSet(S), NEW R, IsOrder(S, R),
           NEW o \in [1 .. Cardinality(S) -> S],
           \A n \in 1 .. Cardinality(S) : Cardinality(Below(S, R, o[n])) = n - 1
    PROVE  /\ o \in Seq(S) /\ Len(o) = Cardinality(S) /\ DOMAIN o = 1 .. Cardinality(S)
           /\ Range(o) = S
           /\ \A j, k \in DOMAIN o : j < k => <<o[j], o[k]>> \in R
<1>1. Cardinality(S) \in Nat
  BY FS_CardinalityType
<1>2. DOMAIN o = 1 .. Cardinality(S) /\ o \in Seq(S) /\ Len(o) = Cardinality(S)
  BY <1>1
<1>3. ASSUME NEW x \in S PROVE x \in Range(o)
  <2>1. PICK n \in 1 .. Cardinality(S) : Cardinality(Below(S, R, x)) = n - 1
    <3>1. Cardinality(Below(S, R, x)) + 1 \in 1 .. Cardinality(S)
      BY <1>1, RanksGrow
    <3> QED
      BY <1>1, <3>1, RanksGrow
  <2>2. o[n] = x
    <3>1. o[n] \in S /\ Cardinality(Below(S, R, o[n])) = Cardinality(Below(S, R, x))
      BY <2>1
    <3>2. Cardinality(Below(S, R, x)) \in Int
      BY <2>1
    <3>3. <<o[n], x>> \notin R /\ <<x, o[n]>> \notin R
      BY <3>1, <3>2, RanksGrow
    <3> QED
      BY <3>1, <3>3 DEF IsOrder
  <2> QED
    BY <1>2, <2>1, <2>2 DEF Range
<1>4. Range(o) = S
  BY <1>2, <1>3 DEF Range
<1>5. ASSUME NEW j \in DOMAIN o, NEW k \in DOMAIN o, j < k PROVE <<o[j], o[k]>> \in R
  <2>1. /\ o[j] \in S /\ o[k] \in S /\ j \in Int /\ k \in Int
        /\ Cardinality(Below(S, R, o[j])) = j - 1 /\ Cardinality(Below(S, R, o[k])) = k - 1
    BY <1>1, <1>2
  <2>2. o[j] # o[k]
    BY <1>5, <2>1
  <2>3. <<o[k], o[j]>> \notin R
    <3>1. ~(k - 1 < j - 1)
      BY <1>5, <2>1
    <3> QED
      BY <2>1, <3>1, RanksGrow
  <2> QED
    BY <2>1, <2>2, <2>3 DEF IsOrder
<1> QED
  BY <1>2, <1>4, <1>5

\* Picked takes the elements at the positions N from positions that grow.
LEMMA PickedPositions ==
    ASSUME NEW V, NEW s \in Seq(V), NEW N \in SUBSET (DOMAIN s)
    PROVE  /\ Cardinality(N) \in Nat
           /\ \E o \in [1 .. Cardinality(N) -> N] :
                  /\ Picked(s, N) = [n \in 1 .. Cardinality(N) |-> s[o[n]]]
                  /\ Range(o) = N
                  /\ \A j, k \in 1 .. Cardinality(N) : j < k => o[j] < o[k]
<1> DEFINE R == {x \in N \X N : x[1] < x[2]}
<1>0. PICK o : o = InOrder(N, LAMBDA i, j : i < j)
  OBVIOUS
<1>1. /\ DOMAIN s = 1 .. Len(s) /\ Len(s) \in Nat /\ N \subseteq Nat
  OBVIOUS
<1>2. IsFiniteSet(N) /\ Cardinality(N) \in Nat
  <2>1. IsFiniteSet(1 .. Len(s))
    BY <1>1, FS_Interval
  <2>2. IsFiniteSet(N)
    BY <1>1, <2>1, FS_Subset
  <2> QED
    BY <2>2, FS_CardinalityType
<1>3. IsOrder(N, R)
  BY <1>1 DEF IsOrder
<1>4. \A x \in N : {y \in N : y < x} = Below(N, R, x)
  BY DEF Below
<1>5. ASSUME NEW n \in 1 .. Cardinality(N)
      PROVE  o[n] \in N /\ Cardinality(Below(N, R, o[n])) = n - 1
  <2>1. \E x \in N : Cardinality({y \in N : y < x}) = n - 1
    <3>1. PICK x \in N : Cardinality(Below(N, R, x)) = n - 1
      BY <1>2, <1>3, RanksExist
    <3> QED
      BY <1>4, <3>1
  <2>2. o[n] = CHOOSE x \in N : Cardinality({y \in N : y < x}) = n - 1
    BY <1>0 DEF InOrder
  <2>3. o[n] \in N /\ Cardinality({y \in N : y < o[n]}) = n - 1
    BY <2>1, <2>2
  <2> QED
    BY <1>4, <2>3
<1>6. o \in [1 .. Cardinality(N) -> N]
  BY <1>0, <1>5 DEF InOrder
<1>7. Picked(s, N) = [n \in DOMAIN o |-> s[o[n]]]
  BY <1>0 DEF Picked
<1> HIDE DEF R
<1>8. /\ DOMAIN o = 1 .. Cardinality(N) /\ Range(o) = N
      /\ \A j, k \in DOMAIN o : j < k => <<o[j], o[k]>> \in R
  BY <1>2, <1>3, <1>5, <1>6, RankedSequence
<1>9. ASSUME NEW j \in 1 .. Cardinality(N), NEW k \in 1 .. Cardinality(N), j < k
      PROVE  o[j] < o[k]
  <2>1. <<o[j], o[k]>> \in R
    BY <1>8, <1>9
  <2> QED
    BY <2>1 DEF R
<1> QED
  BY <1>2, <1>6, <1>7, <1>8, <1>9

\* So it has just these elements.
LEMMA PickedElements ==
    ASSUME NEW V, NEW s \in Seq(V), NEW N \in SUBSET (DOMAIN s)
    PROVE  /\ Picked(s, N) \in Seq(V)
           /\ Len(Picked(s, N)) = Cardinality(N) /\ Cardinality(N) \in Nat
           /\ DOMAIN Picked(s, N) = 1 .. Cardinality(N)
           /\ Range(Picked(s, N)) = {s[n] : n \in N}
           /\ \A j, k \in DOMAIN Picked(s, N) : j < k =>
                  \E m, n \in N : m < n /\ Picked(s, N)[j] = s[m] /\ Picked(s, N)[k] = s[n]
<1>1. PICK c \in Nat : c = Cardinality(N)
  BY PickedPositions
<1>2. PICK o \in [1 .. c -> N] : /\ Picked(s, N) = [n \in 1 .. c |-> s[o[n]]]
                                 /\ Range(o) = N
                                 /\ \A j, k \in 1 .. c : j < k => o[j] < o[k]
  BY <1>1, PickedPositions
<1>3. \A n \in N : s[n] \in V
  OBVIOUS
<1>4. Picked(s, N) \in [1 .. c -> V]
  BY <1>2, <1>3
<1>5. Picked(s, N) \in Seq(V) /\ Len(Picked(s, N)) = c /\ DOMAIN Picked(s, N) = 1 .. c
  BY <1>1, <1>4
<1>6. Range(Picked(s, N)) = {s[n] : n \in N}
  <2>1. Range(Picked(s, N)) = {s[o[n]] : n \in 1 .. c}
    BY <1>2 DEF Range
  <2>2. N = {o[n] : n \in 1 .. c}
    BY <1>2 DEF Range
  <2> QED
    BY <2>1, <2>2
<1>7. ASSUME NEW j \in 1 .. c, NEW k \in 1 .. c, j < k
      PROVE  \E m, n \in N : m < n /\ Picked(s, N)[j] = s[m] /\ Picked(s, N)[k] = s[n]
  BY <1>2, <1>7
<1> QED
  BY <1>1, <1>5, <1>6, <1>7

-----------------------------------------------------------------------------
(***************************************************************************)
(* The windows of a record: every one is of a real event that its player   *)
(* took part in.                                                           *)
(***************************************************************************)

\* An event of a record and what its fields are.
LEMMA EventFields ==
    ASSUME NEW rec, IsRecord(rec), NEW i \in DOMAIN rec.events
    PROVE  /\ rec.events[i] \in Event /\ i \in Nat
           /\ rec.events[i].kind \in {"damage", "kill"}
           /\ rec.events[i].round \in Rounds /\ rec.events[i].round \in Nat
           /\ rec.events[i].tick \in Nat
           /\ rec.events[i].attacker \in Players /\ rec.events[i].victim \in Players
           /\ rec.events[i].attacker \in Nat /\ rec.events[i].victim \in Nat
<1>1. rec.events \in Seq(Event) /\ Players \subseteq Nat /\ Rounds \subseteq Nat
  BY WindowAssumption DEF IsRecord
<1>2. rec.events[i] \in Event /\ i \in Nat
  BY <1>1
<1> QED
  BY <1>1, <1>2 DEF Event

LEMMA FinitelyManyContacts ==
    ASSUME NEW rec, IsRecord(rec)
    PROVE  /\ IsFiniteSet(DOMAIN rec.events)
           /\ Contacts(rec) \subseteq DOMAIN rec.events /\ IsFiniteSet(Contacts(rec))
<1>1. rec.events \in Seq(Event)
  BY DEF IsRecord
<1>2. DOMAIN rec.events = 1 .. Len(rec.events) /\ Len(rec.events) \in Nat
  BY <1>1
<1>3. IsFiniteSet(DOMAIN rec.events)
  BY <1>2, FS_Interval
<1>4. Contacts(rec) \subseteq DOMAIN rec.events
  BY DEF Contacts, OfKind, RealEvents
<1> QED
  BY <1>3, <1>4, FS_Subset

\* Contacts are in a strict order.
LEMMA ContactsAreOrdered ==
    ASSUME NEW rec, IsRecord(rec), NEW S \in SUBSET DOMAIN rec.events
    PROVE  IsOrder(S, {x \in S \X S : Before(rec, x[1], x[2])})
<1> DEFINE R == {x \in S \X S : Before(rec, x[1], x[2])}
<1>1. ASSUME NEW x \in S PROVE <<x, x>> \notin R
  <2>1. x \in DOMAIN rec.events
    OBVIOUS
  <2> QED
    BY <2>1, EventFields DEF Before
<1>2. ASSUME NEW x \in S, NEW y \in S, NEW z \in S, <<x, y>> \in R, <<y, z>> \in R
      PROVE  <<x, z>> \in R
  <2> DEFINE e == rec.events[x]
             f == rec.events[y]
             g == rec.events[z]
  <2>1. /\ x \in Nat /\ y \in Nat /\ z \in Nat
        /\ e.round \in Nat /\ f.round \in Nat /\ g.round \in Nat
        /\ e.tick \in Nat /\ f.tick \in Nat /\ g.tick \in Nat
    BY EventFields
  <2>2. Before(rec, x, y) /\ Before(rec, y, z)
    BY <1>2
  <2>3. Before(rec, x, z)
    BY <2>1, <2>2 DEF Before
  <2> QED
    BY <2>3
<1>3. ASSUME NEW x \in S, NEW y \in S, x # y PROVE <<x, y>> \in R \/ <<y, x>> \in R
  <2> DEFINE e == rec.events[x]
             f == rec.events[y]
  <2>1. /\ x \in Nat /\ y \in Nat /\ e.round \in Nat /\ f.round \in Nat
        /\ e.tick \in Nat /\ f.tick \in Nat
        /\ e.kind \in {"damage", "kill"} /\ f.kind \in {"damage", "kill"}
    BY EventFields
  <2>2. Before(rec, x, y) \/ Before(rec, y, x)
    BY <1>3, <2>1 DEF Before
  <2> QED
    BY <2>2
<1> HIDE DEF R
<1> QED
  BY <1>1, <1>2, <1>3 DEF IsOrder, R

\* Contacts in the order of the record.
LEMMA ContactSequence ==
    ASSUME NEW rec, IsRecord(rec), NEW o,
           o = InOrder(Contacts(rec), LAMBDA i, j : Before(rec, i, j))
    PROVE  /\ o \in Seq(Contacts(rec)) /\ Range(o) = Contacts(rec)
           /\ \A j, k \in DOMAIN o : j < k => Before(rec, o[j], o[k])
<1> DEFINE S == Contacts(rec)
           R == {x \in S \X S : Before(rec, x[1], x[2])}
<1>1. IsFiniteSet(S) /\ IsOrder(S, R)
  BY FinitelyManyContacts, ContactsAreOrdered
<1>2. \A x \in S : {y \in S : Before(rec, y, x)} = Below(S, R, x)
  BY DEF Below
<1>3. ASSUME NEW n \in 1 .. Cardinality(S)
      PROVE  o[n] \in S /\ Cardinality(Below(S, R, o[n])) = n - 1
  <2>1. \E x \in S : Cardinality({y \in S : Before(rec, y, x)}) = n - 1
    <3> HIDE DEF S, R
    <3>1. PICK x \in S : Cardinality(Below(S, R, x)) = n - 1
      BY <1>1, RanksExist
    <3> QED
      BY <1>2, <3>1
  <2>2. o[n] = CHOOSE x \in S : Cardinality({y \in S : Before(rec, y, x)}) = n - 1
    BY DEF InOrder
  <2>3. o[n] \in S /\ Cardinality({y \in S : Before(rec, y, o[n])}) = n - 1
    BY <2>1, <2>2
  <2> QED
    BY <1>2, <2>3
<1>4. o \in [1 .. Cardinality(S) -> S]
  BY <1>3 DEF InOrder
<1> HIDE DEF S, R
<1>5. /\ o \in Seq(S) /\ Range(o) = S
      /\ \A j, k \in DOMAIN o : j < k => <<o[j], o[k]>> \in R
  BY <1>1, <1>3, <1>4, RankedSequence
<1> QED
  BY <1>5 DEF S, R

LEMMA AnchorsAreContacts ==
    ASSUME NEW rec, IsRecord(rec) PROVE Anchors(rec) \subseteq Contacts(rec)
<1>1. PICK o : o = InOrder(Contacts(rec), LAMBDA i, j : Before(rec, i, j))
  OBVIOUS
<1>2. o \in Seq(Contacts(rec))
  BY <1>1, ContactSequence
<1>3. Anchors(rec) \subseteq {o[n] : n \in 1 .. Len(o)}
  BY <1>1 DEF Anchors
<1> QED
  BY <1>2, <1>3

\* The event of a window and what the window says of it.
LEMMA WindowFields ==
    ASSUME NEW rec, IsRecord(rec), NEW w \in Windows(rec)
    PROVE  LET e == rec.events[w.event]
           IN  /\ w.event \in Contacts(rec) /\ w.event \in DOMAIN rec.events
               /\ w.role \in {"attacker", "victim"}
               /\ w.round = e.round /\ w.kind = e.kind /\ w.contact = e.tick
               /\ w.player = IF w.role = "attacker" THEN e.attacker ELSE e.victim
               /\ w.opponent = IF w.role = "attacker" THEN e.victim ELSE e.attacker
<1>1. PICK x \in Anchors(rec) \X {"attacker", "victim"} : w = WindowOf(rec, x[1], x[2])
  BY DEF Windows
<1>2. PICK i, role : /\ i \in Anchors(rec) /\ role \in {"attacker", "victim"}
                     /\ w = WindowOf(rec, i, role)
  BY <1>1
<1>3. i \in Contacts(rec) /\ i \in DOMAIN rec.events
  BY <1>2, AnchorsAreContacts, FinitelyManyContacts
<1> QED
  BY <1>2, <1>3 DEF WindowOf

WindowsBefore(rec, w) == {v \in OpenWindows(rec) : WindowBefore(rec, v, w)}

LEMMA KeptWindows ==
    ASSUME NEW rec
    PROVE  Windows(rec) = {w \in OpenWindows(rec) : Cardinality(WindowsBefore(rec, w)) < MaxWindows}
BY DEF Windows, OpenWindows, WindowsBefore

LEMMA FinitelyManyOpenWindows ==
    ASSUME NEW rec, IsRecord(rec) PROVE IsFiniteSet(OpenWindows(rec))
<1> DEFINE pairs == Anchors(rec) \X {"attacker", "victim"}
           all == {WindowOf(rec, x[1], x[2]) : x \in pairs}
<1>1. IsFiniteSet(Anchors(rec)) /\ IsFiniteSet({"attacker", "victim"})
  <2>1. IsFiniteSet({"attacker"} \cup {"victim"})
    BY FS_Singleton, FS_AddElement
  <2>2. {"attacker"} \cup {"victim"} = {"attacker", "victim"}
    OBVIOUS
  <2> QED
    BY <2>1, <2>2, FinitelyManyContacts, AnchorsAreContacts, FS_Subset
<1>2. IsFiniteSet(pairs)
  BY <1>1, FS_Product
<1> DEFINE f == [x \in pairs |-> WindowOf(rec, x[1], x[2])]
<1>3. f \in Surjection(pairs, all)
  <2>1. f \in [pairs -> all] /\ \A t \in all : \E x \in pairs : f[x] = t
    OBVIOUS
  <2> HIDE DEF pairs, all, f
  <2> QED
    BY <2>1 DEF Surjection
<1>4. OpenWindows(rec) \subseteq all
  BY DEF OpenWindows
<1> HIDE DEF pairs, all, f
<1>5. IsFiniteSet(all)
  BY <1>2, <1>3, FS_Surjection
<1> QED
  BY <1>4, <1>5, FS_Subset

LEMMA FinitelyManyWindows ==
    ASSUME NEW rec, IsRecord(rec) PROVE IsFiniteSet(Windows(rec))
BY KeptWindows, FinitelyManyOpenWindows, FS_Subset

-----------------------------------------------------------------------------
(***************************************************************************)
(* The moments of a record: each is of a damage that its player took part  *)
(* in, and they are in a strict order.                                     *)
(***************************************************************************)

\* What is used of a moment.
IsMoment(rec, d) ==
    /\ d.round \in Rounds /\ d.player \in Players
    /\ d.contact \in Nat /\ d.close \in Nat
    /\ d.open = d.contact /\ d.contact <= d.close /\ d.close <= d.contact + CloseTicks
    /\ ContactDamage(rec, d) # {}

InMatchOrder(moments) ==
    \A j, k \in DOMAIN moments : j < k => DecisionBefore(moments[j], moments[k])

LEMMA DecisionFields ==
    ASSUME NEW rec, NEW w
    PROVE  /\ DecisionOf(rec, w).round = w.round /\ DecisionOf(rec, w).player = w.player
           /\ DecisionOf(rec, w).opponent = w.opponent /\ DecisionOf(rec, w).role = w.role
           /\ DecisionOf(rec, w).open = w.contact /\ DecisionOf(rec, w).contact = w.contact
           /\ DecisionOf(rec, w).close = CloseOf(rec, w)
BY DEF DecisionOf

\* The reaction is watched for CloseTicks at most, and never ends before the
\* contact.
LEMMA CloseBounds ==
    ASSUME NEW rec, IsRecord(rec), NEW w, w.round \in Rounds, w.contact \in Nat
    PROVE  /\ CloseOf(rec, w) \in Nat /\ w.contact <= CloseOf(rec, w)
           /\ CloseOf(rec, w) <= w.contact + CloseTicks
<1>1. rec.rounds[w.round].end \in Nat \cup {None} /\ CloseTicks \in Nat
  BY PipelineAssumption DEF IsRecord, RoundTimes
<1> QED
  BY <1>1 DEF CloseOf

LEMMA DecisionsAreMoments ==
    ASSUME NEW rec, IsRecord(rec), NEW w \in FirstWindows(rec)
    PROVE  IsMoment(rec, DecisionOf(rec, w))
<1> DEFINE e == rec.events[w.event]
           d == DecisionOf(rec, w)
<1>1. w \in Windows(rec) /\ w.kind = "damage"
  BY DEF FirstWindows
<1>2. /\ w.event \in DOMAIN rec.events /\ w.role \in {"attacker", "victim"}
      /\ w.round = e.round /\ w.kind = e.kind /\ w.contact = e.tick
      /\ w.player = IF w.role = "attacker" THEN e.attacker ELSE e.victim
      /\ w.opponent = IF w.role = "attacker" THEN e.victim ELSE e.attacker
  BY <1>1, WindowFields
<1>3. /\ e.round \in Rounds /\ e.tick \in Nat /\ e.attacker \in Players /\ e.victim \in Players
  BY <1>2, EventFields
<1>4. /\ d.round = e.round /\ d.player = w.player /\ d.opponent = w.opponent
      /\ d.role = w.role /\ d.open = e.tick /\ d.contact = e.tick /\ d.close = CloseOf(rec, w)
  BY <1>2, DecisionFields
<1>5. e \in ContactDamage(rec, d)
  <2>1. e \in Range(rec.events)
    BY <1>2 DEF Range
  <2> HIDE DEF d, e
  <2> QED
    BY <1>1, <1>2, <1>4, <2>1 DEF ContactDamage
<1>6. /\ CloseOf(rec, w) \in Nat /\ w.contact <= CloseOf(rec, w)
      /\ CloseOf(rec, w) <= w.contact + CloseTicks
  BY <1>2, <1>3, CloseBounds
<1> HIDE DEF d, e
<1>7. d.player \in Players
  BY <1>2, <1>3, <1>4
<1>8. IsMoment(rec, d)
  BY <1>2, <1>3, <1>4, <1>5, <1>6, <1>7 DEF IsMoment
<1> QED
  BY <1>8 DEF d

\* A player has one first contact in a round.
LEMMA FirstContactsDiffer ==
    ASSUME NEW rec, IsRecord(rec), NEW v \in FirstWindows(rec), NEW w \in FirstWindows(rec),
           v.round = w.round, v.player = w.player
    PROVE  v = w
<1> SUFFICES ASSUME v # w PROVE FALSE
  OBVIOUS
<1>1. v \in Windows(rec) /\ w \in Windows(rec)
  BY DEF FirstWindows
<1>2. /\ v.contact < w.contact \/ (v.contact = w.contact /\ WindowBefore(rec, v, w))
      /\ w.contact < v.contact \/ (w.contact = v.contact /\ WindowBefore(rec, w, v))
  BY <1>1 DEF FirstWindows, IsFirstContact
<1>3. /\ v.contact \in Nat /\ w.contact \in Nat
      /\ v.event \in DOMAIN rec.events /\ w.event \in DOMAIN rec.events
  BY <1>1, WindowFields, EventFields
<1>4. WindowBefore(rec, v, w) /\ WindowBefore(rec, w, v)
  BY <1>2, <1>3
<1>5. Before(rec, v.event, w.event) /\ Before(rec, w.event, v.event)
  BY <1>4 DEF WindowBefore
<1> DEFINE e == rec.events[v.event]
           f == rec.events[w.event]
<1>6. /\ v.event \in Nat /\ w.event \in Nat /\ e.round \in Nat /\ f.round \in Nat
      /\ e.tick \in Nat /\ f.tick \in Nat
  BY <1>3, EventFields
<1> QED
  BY <1>5, <1>6 DEF Before

\* Nor two moments.
LEMMA OneMomentARound ==
    ASSUME NEW rec, IsRecord(rec), NEW c \in Decisions(rec), NEW d \in Decisions(rec),
           c.round = d.round, c.player = d.player
    PROVE  c = d
<1>1. PICK v, w : /\ v \in FirstWindows(rec) /\ w \in FirstWindows(rec)
                  /\ c = DecisionOf(rec, v) /\ d = DecisionOf(rec, w)
  BY DEF Decisions
<1>2. v.round = w.round /\ v.player = w.player
  BY <1>1, DecisionFields
<1> QED
  BY <1>1, <1>2, FirstContactsDiffer

LEMMA DecisionsAreOrdered ==
    ASSUME NEW rec, IsRecord(rec)
    PROVE  /\ IsFiniteSet(Decisions(rec))
           /\ IsOrder(Decisions(rec),
                      {x \in Decisions(rec) \X Decisions(rec) : DecisionBefore(x[1], x[2])})
<1> DEFINE S == Decisions(rec)
           R == {x \in S \X S : DecisionBefore(x[1], x[2])}
<1>1. \A d \in S : d.round \in Nat /\ d.contact \in Nat /\ d.player \in Nat
  BY DecisionsAreMoments, WindowAssumption DEF Decisions, IsMoment
<1>2. \A c, d \in S : c.round = d.round /\ c.player = d.player => c = d
  BY OneMomentARound
<1>3. IsOrder(S, R)
  <2> HIDE DEF S
  <2>1. \A x \in S : <<x, x>> \notin R
    BY <1>1 DEF DecisionBefore
  <2>2. \A x, y, z \in S : <<x, y>> \in R /\ <<y, z>> \in R => <<x, z>> \in R
    BY <1>1 DEF DecisionBefore
  <2>3. \A x, y \in S : x # y => <<x, y>> \in R \/ <<y, x>> \in R
    BY <1>1, <1>2 DEF DecisionBefore
  <2> QED
    BY <2>1, <2>2, <2>3 DEF IsOrder
<1>4. IsFiniteSet(S)
  <2>1. IsFiniteSet(FirstWindows(rec))
    BY FinitelyManyWindows, FS_Subset DEF FirstWindows
  <2> DEFINE f == [w \in FirstWindows(rec) |-> DecisionOf(rec, w)]
  <2>2. f \in Surjection(FirstWindows(rec), S)
    <3>1. f \in [FirstWindows(rec) -> S] /\ \A t \in S : \E x \in FirstWindows(rec) : f[x] = t
      BY DEF Decisions
    <3> HIDE DEF S, f
    <3> QED
      BY <3>1 DEF Surjection
  <2> HIDE DEF S, f
  <2> QED
    BY <2>1, <2>2, FS_Surjection
<1> QED
  BY <1>3, <1>4

LEMMA FirstNElements ==
    ASSUME NEW V, NEW s \in Seq(V), NEW n \in Nat
    PROVE  /\ FirstN(s, n) \in Seq(V)
           /\ \A k \in DOMAIN FirstN(s, n) : k \in DOMAIN s /\ FirstN(s, n)[k] = s[k]
<1>1. PICK m : m = IF Len(s) < n THEN Len(s) ELSE n
  OBVIOUS
<1>2. m \in Nat /\ m <= Len(s) /\ FirstN(s, n) = SubSeq(s, 1, m) /\ Len(s) \in Nat
  BY <1>1 DEF FirstN
<1>3. \A k \in 1 .. m : s[k] \in V
  BY <1>2
<1>4. /\ SubSeq(s, 1, m) \in Seq(V) /\ Len(SubSeq(s, 1, m)) = m
      /\ \A k \in 1 .. m : SubSeq(s, 1, m)[k] = s[k]
  BY <1>2, <1>3
<1> QED
  BY <1>2, <1>4

\* The moments of a record in the order of the match, and the candidates.
LEMMA MomentSequence ==
    ASSUME NEW rec, IsRecord(rec), NEW o, o = InOrder(Decisions(rec), DecisionBefore)
    PROVE  /\ o \in Seq(Decisions(rec)) /\ Len(o) = Cardinality(Decisions(rec))
           /\ Range(o) = Decisions(rec) /\ InMatchOrder(o)
           /\ Candidates(rec) = FirstN(o, MaxDecisions)
<1> DEFINE S == Decisions(rec)
           R == {x \in S \X S : DecisionBefore(x[1], x[2])}
<1>1. IsFiniteSet(S) /\ IsOrder(S, R)
  BY DecisionsAreOrdered
<1>2. \A x \in S : {y \in S : DecisionBefore(y, x)} = Below(S, R, x)
  BY DEF Below
<1>3. ASSUME NEW n \in 1 .. Cardinality(S)
      PROVE  o[n] \in S /\ Cardinality(Below(S, R, o[n])) = n - 1
  <2>1. \E x \in S : Cardinality({y \in S : DecisionBefore(y, x)}) = n - 1
    <3> HIDE DEF S, R
    <3>1. PICK x \in S : Cardinality(Below(S, R, x)) = n - 1
      BY <1>1, RanksExist
    <3> QED
      BY <1>2, <3>1
  <2>2. o[n] = CHOOSE x \in S : Cardinality({y \in S : DecisionBefore(y, x)}) = n - 1
    BY DEF InOrder
  <2>3. o[n] \in S /\ Cardinality({y \in S : DecisionBefore(y, o[n])}) = n - 1
    BY <2>1, <2>2
  <2> QED
    BY <1>2, <2>3
<1>4. o \in [1 .. Cardinality(S) -> S]
  BY <1>3 DEF InOrder
<1>5. Candidates(rec) = FirstN(o, MaxDecisions)
  BY DEF Candidates, Decisions, FirstWindows
<1> HIDE DEF S, R
<1>6. /\ o \in Seq(S) /\ Len(o) = Cardinality(S) /\ Range(o) = S
      /\ \A j, k \in DOMAIN o : j < k => <<o[j], o[k]>> \in R
  BY <1>1, <1>3, <1>4, RankedSequence
<1> QED
  BY <1>5, <1>6 DEF InMatchOrder, S, R

LEMMA CandidatesAreMoments ==
    ASSUME NEW rec, IsRecord(rec)
    PROVE  /\ Candidates(rec) \in Seq(Decisions(rec)) /\ InMatchOrder(Candidates(rec))
           /\ \A d \in Decisions(rec) : IsMoment(rec, d)
<1>1. PICK o : o = InOrder(Decisions(rec), DecisionBefore)
  OBVIOUS
<1>2. /\ o \in Seq(Decisions(rec)) /\ InMatchOrder(o)
      /\ Candidates(rec) = FirstN(o, MaxDecisions)
  BY <1>1, MomentSequence
<1>3. /\ Candidates(rec) \in Seq(Decisions(rec))
      /\ \A k \in DOMAIN Candidates(rec) : k \in DOMAIN o /\ Candidates(rec)[k] = o[k]
  <2>1. MaxDecisions \in Nat
    BY PipelineAssumption
  <2> QED
    BY <1>2, <2>1, FirstNElements
<1>4. InMatchOrder(Candidates(rec))
  BY <1>2, <1>3 DEF InMatchOrder
<1> QED
  BY <1>3, <1>4, DecisionsAreMoments DEF Decisions

\* Without a limit in the way, all moments are candidates.
LEMMA AllMomentsAreCandidates ==
    ASSUME NEW rec, IsRecord(rec), Cardinality(Decisions(rec)) <= MaxDecisions
    PROVE  Range(Candidates(rec)) = Decisions(rec)
<1>1. PICK o : o = InOrder(Decisions(rec), DecisionBefore)
  OBVIOUS
<1>2. /\ o \in Seq(Decisions(rec)) /\ Len(o) = Cardinality(Decisions(rec))
      /\ Range(o) = Decisions(rec) /\ Candidates(rec) = FirstN(o, MaxDecisions)
  BY <1>1, MomentSequence
<1>3. MaxDecisions \in Nat /\ Len(o) \in Nat /\ Len(o) <= MaxDecisions
  BY <1>2, PipelineAssumption
<1>4. (IF Len(o) < MaxDecisions THEN Len(o) ELSE MaxDecisions) = Len(o)
  BY <1>3
<1>5. SubSeq(o, 1, Len(o)) = o
  BY <1>2
<1> QED
  BY <1>2, <1>4, <1>5 DEF FirstN

-----------------------------------------------------------------------------
(***************************************************************************)
(* The moments chosen for the coach span those of the player.              *)
(***************************************************************************)

\* A dividend that is larger by the divisor gives a larger quotient.
LEMMA QuotientsGrow ==
    ASSUME NEW a \in Nat, NEW b \in Nat, NEW q \in Nat \ {0}, a + q <= b
    PROVE  a \div q \in Nat /\ b \div q \in Nat /\ a \div q < b \div q
<1>1. /\ a \div q \in Nat /\ b \div q \in Nat
  OBVIOUS
<1>2. PICK x \in Nat : x = a \div q
  BY <1>1
<1>3. PICK y \in Nat : y = b \div q
  BY <1>1
<1>4. q * x <= a /\ a < q * x + q
  BY <1>2
<1>5. q * y <= b /\ b < q * y + q
  BY <1>3
<1>6. x < y
  <2> SUFFICES ASSUME y <= x PROVE FALSE
    OBVIOUS
  <2>1. q * y <= q * x
    OBVIOUS
  <2>2. q * y \in Int /\ q * x \in Int
    OBVIOUS
  <2> QED
    BY <1>4, <1>5, <2>1, <2>2
<1> QED
  BY <1>2, <1>3, <1>6

\* A multiple is divided evenly.
LEMMA QuotientOfMultiple ==
    ASSUME NEW m \in Nat, NEW q \in Nat \ {0} PROVE (q * m) \div q = m
OBVIOUS

\* Evenly spaced indices grow from the first to the last.
LEMMA SpreadIndices ==
    ASSUME NEW n \in Nat, NEW limit \in Nat, limit > 1, n > limit
    PROVE  /\ \A k \in 1 .. limit : Spread(n, limit)[k] \in 1 .. n
           /\ \A j, k \in 1 .. limit : j < k => Spread(n, limit)[j] < Spread(n, limit)[k]
           /\ Spread(n, limit)[1] = 1 /\ Spread(n, limit)[limit] = n
<1> DEFINE s == Spread(n, limit)
<1>1. PICK q \in Nat \ {0} : q = limit - 1
  OBVIOUS
<1>2. PICK m \in Nat : m = n - 1
  OBVIOUS
<1>3. q <= m
  BY <1>1, <1>2
<1>4. \A k \in 1 .. limit : s[k] = ((k - 1) * m) \div q + 1
  BY <1>1, <1>2 DEF Spread
<1>5. \A k \in 1 .. limit : (k - 1) * m \in Nat
  BY <1>2
<1>6. ASSUME NEW j \in 1 .. limit, NEW k \in 1 .. limit, j < k PROVE s[j] < s[k]
  <2>1. PICK a \in Nat : a = (j - 1) * m
    BY <1>5
  <2>2. PICK b \in Nat : b = (k - 1) * m
    BY <1>5
  <2>3. a + q <= b
    <3>1. PICK g \in Nat : g = (k - 1) - (j - 1) /\ g >= 1
      BY <1>6
    <3>2. (k - 1) * m = (j - 1) * m + g * m
      BY <3>1
    <3>3. g * m >= m
      BY <3>1
    <3>4. g * m \in Int
      BY <3>1
    <3> QED
      BY <1>3, <2>1, <2>2, <3>2, <3>3, <3>4
  <2>4. a \div q \in Nat /\ b \div q \in Nat /\ a \div q < b \div q
    BY <2>3, QuotientsGrow
  <2> QED
    BY <1>4, <2>1, <2>2, <2>4
<1>7. s[1] = 1
  <2>1. (1 - 1) * m = q * 0
    BY <1>2
  <2>2. (q * 0) \div q = 0
    BY QuotientOfMultiple
  <2> QED
    BY <1>4, <2>1, <2>2
<1>8. s[limit] = n
  <2>1. (limit - 1) * m = q * m
    BY <1>1
  <2>2. (q * m) \div q = m
    BY QuotientOfMultiple
  <2> QED
    BY <1>2, <1>4, <2>1, <2>2
<1>9. \A k \in 1 .. limit : s[k] \in Nat
  <2> TAKE k \in 1 .. limit
  <2>1. PICK a \in Nat : a = (k - 1) * m
    BY <1>5
  <2>2. a \div q \in Nat
    OBVIOUS
  <2> QED
    BY <1>4, <2>1, <2>2
<1> HIDE DEF s
<1>10. \A k \in 1 .. limit : s[k] \in 1 .. n
  <2> TAKE k \in 1 .. limit
  <2>1. k = 1 \/ 1 < k
    OBVIOUS
  <2>2. k = limit \/ k < limit
    OBVIOUS
  <2>3. s[1] <= s[k] /\ s[k] <= s[limit]
    BY <1>6, <1>9, <2>1, <2>2
  <2> QED
    BY <1>7, <1>8, <1>9, <2>3
<1> QED
  BY <1>6, <1>7, <1>8, <1>10 DEF s

LEMMA SelectionSpans ==
    ASSUME NEW V, NEW moments \in Seq(V), moments # <<>>, InMatchOrder(moments),
           NEW limit \in Nat \ {0}, NEW chosen, chosen = SelectDiverse(moments, limit)
    PROVE  /\ chosen \in Seq(V) /\ chosen # <<>> /\ InMatchOrder(chosen)
           /\ Len(chosen) = IF Len(moments) < limit THEN Len(moments) ELSE limit
           /\ Range(chosen) \subseteq Range(moments)
           /\ chosen[1] = moments[1]
           /\ limit > 1 => chosen[Len(chosen)] = moments[Len(moments)]
<1>1. PICK n \in Nat : n = Len(moments)
  OBVIOUS
<1>2. /\ DOMAIN moments = 1 .. n /\ n >= 1 /\ \A k \in 1 .. n : moments[k] \in V
  BY <1>1
<1>3. CASE n <= limit
  <2>1. chosen = moments
    BY <1>1, <1>3 DEF SelectDiverse
  <2> QED
    BY <1>1, <1>3, <2>1
<1>4. CASE n > limit /\ limit = 1
  <2>1. chosen = <<moments[1]>>
    BY <1>1, <1>4 DEF SelectDiverse
  <2>2. /\ chosen \in Seq(V) /\ Len(chosen) = 1 /\ DOMAIN chosen = {1}
        /\ chosen[1] = moments[1]
    BY <1>2, <2>1
  <2>3. InMatchOrder(chosen)
    BY <2>2 DEF InMatchOrder
  <2>4. Range(chosen) \subseteq Range(moments)
    <3>1. Range(chosen) = {moments[1]}
      BY <2>2 DEF Range
    <3>2. moments[1] \in Range(moments)
      BY <1>2 DEF Range
    <3> QED
      BY <3>1, <3>2
  <2>5. chosen # <<>>
    BY <2>2
  <2> QED
    BY <1>1, <1>4, <2>2, <2>3, <2>4, <2>5
<1>5. CASE n > limit /\ limit > 1
  <2>1. PICK s : s = Spread(n, limit)
    OBVIOUS
  <2>2. /\ \A k \in 1 .. limit : s[k] \in 1 .. n
        /\ \A j, k \in 1 .. limit : j < k => s[j] < s[k]
        /\ s[1] = 1 /\ s[limit] = n
    BY <1>5, <2>1, SpreadIndices
  <2>3. chosen = [k \in 1 .. limit |-> moments[s[k]]]
    BY <1>1, <1>5, <2>1 DEF SelectDiverse
  <2>4. /\ chosen \in [1 .. limit -> V] /\ chosen \in Seq(V) /\ Len(chosen) = limit
        /\ DOMAIN chosen = 1 .. limit
    BY <1>2, <2>2, <2>3
  <2>5. chosen[1] = moments[1] /\ chosen[Len(chosen)] = moments[n]
    BY <1>5, <2>2, <2>3, <2>4
  <2>6. InMatchOrder(chosen)
    <3> SUFFICES ASSUME NEW j \in 1 .. limit, NEW k \in 1 .. limit, j < k
                 PROVE  DecisionBefore(chosen[j], chosen[k])
      BY <2>4 DEF InMatchOrder
    <3>1. s[j] \in DOMAIN moments /\ s[k] \in DOMAIN moments /\ s[j] < s[k]
      BY <1>2, <2>2
    <3>2. DecisionBefore(moments[s[j]], moments[s[k]])
      BY <3>1 DEF InMatchOrder
    <3> QED
      BY <2>3, <3>2
  <2>7. Range(chosen) \subseteq Range(moments)
    BY <1>2, <2>2, <2>3 DEF Range
  <2>8. chosen # <<>>
    BY <1>5, <2>4
  <2> QED
    BY <1>1, <1>5, <2>4, <2>5, <2>6, <2>7, <2>8
<1>6. n <= limit \/ (n > limit /\ limit = 1) \/ (n > limit /\ limit > 1)
  OBVIOUS
<1> QED
  BY <1>3, <1>4, <1>5, <1>6

-----------------------------------------------------------------------------
(***************************************************************************)
(* What is asked about a player, and what becomes of the answer.           *)
(***************************************************************************)

\* The moments of the player, all of them and in their order.
LEMMA PlayerMoments ==
    ASSUME NEW rec, IsRecord(rec), NEW estimated, NEW p,
           NEW prep, prep = PipelineResult(rec, estimated),
           NEW result, result = FilterForPlayer(prep, p)
    PROVE  /\ result.candidates \in Seq(Decisions(rec)) /\ InMatchOrder(result.candidates)
           /\ \A k \in DOMAIN result.candidates :
                  IsMoment(rec, result.candidates[k]) /\ result.candidates[k].player = p
           /\ result.keyEvents = {m \in KeyEvents(rec, Candidates(rec)) : p \in m.who}
<1>1. PICK c : c = Candidates(rec)
  OBVIOUS
<1>2. /\ c \in Seq(Decisions(rec)) /\ InMatchOrder(c)
      /\ \A d \in Decisions(rec) : IsMoment(rec, d)
  BY <1>1, CandidatesAreMoments
<1>3. PICK N \in SUBSET DOMAIN c : N = {k \in DOMAIN c : c[k].player = p}
  OBVIOUS
<1>4. /\ prep.candidates = c /\ prep.keyEvents = KeyEvents(rec, c)
      /\ result.candidates = Picked(c, N)
      /\ result.keyEvents = {m \in KeyEvents(rec, c) : p \in m.who}
  BY <1>1, <1>3 DEF PipelineResult, FilterForPlayer
<1>5. PICK s : s = Picked(c, N)
  OBVIOUS
<1>6. /\ s \in Seq(Decisions(rec)) /\ Range(s) = {c[n] : n \in N}
      /\ \A j, k \in DOMAIN s : j < k =>
             \E m, n \in N : m < n /\ s[j] = c[m] /\ s[k] = c[n]
  BY <1>2, <1>5, PickedElements
<1>7. InMatchOrder(s)
  <2> SUFFICES ASSUME NEW j \in DOMAIN s, NEW k \in DOMAIN s, j < k
               PROVE  DecisionBefore(s[j], s[k])
    BY DEF InMatchOrder
  <2>1. PICK m \in N, n \in N : m < n /\ s[j] = c[m] /\ s[k] = c[n]
    BY <1>6
  <2>2. DecisionBefore(c[m], c[n])
    BY <1>2, <2>1 DEF InMatchOrder
  <2> QED
    BY <2>1, <2>2
<1>8. ASSUME NEW k \in DOMAIN s PROVE IsMoment(rec, s[k]) /\ s[k].player = p
  <2>1. s[k] \in Range(s)
    BY DEF Range
  <2>2. PICK n \in N : s[k] = c[n]
    BY <1>6, <2>1
  <2>3. s[k] \in Decisions(rec)
    BY <1>6
  <2> QED
    BY <1>2, <1>3, <2>2, <2>3
<1> QED
  BY <1>1, <1>4, <1>5, <1>6, <1>7, <1>8

\* The texts of an answer: of different chosen moments, each of the moment it
\* was written for.
LEMMA MergedTexts ==
    ASSUME NEW V, NEW selected \in Seq(V), selected # <<>>, NEW candidates,
           NEW answer \in Seq(Nat), IsCoachResponse(answer, selected),
           NEW texts, texts = Merge(answer, selected, candidates)
    PROVE  /\ texts # <<>>
           /\ \A k \in DOMAIN texts : /\ texts[k].about \in DOMAIN selected
                                      /\ texts[k].decision = selected[texts[k].about]
           /\ \A j, k \in DOMAIN texts : j # k => texts[j].decision # texts[k].decision
<1>1. PICK n \in Nat : DOMAIN answer = 1 .. n /\ Len(answer) = n
  OBVIOUS
<1>2. PICK resolved : resolved = [k \in DOMAIN answer |->
                                    [decision |-> selected[answer[k]], about |-> answer[k]]]
  OBVIOUS
<1>3. \A k \in DOMAIN answer : answer[k] \in DOMAIN selected
  BY DEF IsCoachResponse
<1>4. PICK W : DOMAIN resolved = 1 .. n /\ resolved \in Seq(W)
  <2>1. PICK W : W = {resolved[k] : k \in 1 .. n}
    OBVIOUS
  <2>2. DOMAIN resolved = 1 .. n /\ resolved \in [1 .. n -> W]
    BY <1>1, <1>2, <2>1
  <2>3. resolved \in Seq(W)
    BY <2>2
  <2> QED
    BY <2>2, <2>3
<1>5. PICK N \in SUBSET DOMAIN resolved :
           N = {k \in DOMAIN answer : \A j \in 1 .. (k - 1) : resolved[j].decision # resolved[k].decision}
  BY <1>1, <1>4
<1>6. texts = Picked(resolved, N)
  <2>1. Merge(answer, selected, candidates) =
            Picked(resolved, {k \in DOMAIN answer :
                       \A j \in 1 .. (k - 1) : resolved[j].decision # resolved[k].decision})
    BY <1>2 DEF Merge, Aliased
  <2> QED
    BY <1>5, <2>1
<1>7. /\ Len(texts) = Cardinality(N) /\ Cardinality(N) \in Nat
      /\ DOMAIN texts = 1 .. Cardinality(N)
      /\ Range(texts) = {resolved[m] : m \in N}
      /\ \A j, k \in DOMAIN texts : j < k =>
             \E l, m \in N : l < m /\ texts[j] = resolved[l] /\ texts[k] = resolved[m]
  <2>1. PICK s : s = Picked(resolved, N)
    OBVIOUS
  <2>2. /\ Len(s) = Cardinality(N) /\ Cardinality(N) \in Nat
        /\ DOMAIN s = 1 .. Cardinality(N)
        /\ Range(s) = {resolved[m] : m \in N}
        /\ \A j, k \in DOMAIN s : j < k =>
               \E l, m \in N : l < m /\ s[j] = resolved[l] /\ s[k] = resolved[m]
    BY <1>4, <2>1, PickedElements
  <2> QED
    BY <1>6, <2>1, <2>2
<1>8. texts # <<>>
  <2>1. n >= 1
    BY <1>1 DEF IsCoachResponse
  <2>2. 1 \in N
    BY <1>1, <1>5, <2>1
  <2>3. resolved[1] \in Range(texts)
    BY <1>7, <2>2
  <2> QED
    BY <2>3 DEF Range
<1>9. ASSUME NEW k \in DOMAIN texts
      PROVE  /\ texts[k].about \in DOMAIN selected
             /\ texts[k].decision = selected[texts[k].about]
  <2>1. texts[k] \in Range(texts)
    BY DEF Range
  <2>2. PICK m \in N : texts[k] = resolved[m]
    BY <1>7, <2>1
  <2> QED
    BY <1>2, <1>3, <1>5, <2>2
<1>10. ASSUME NEW j \in DOMAIN texts, NEW k \in DOMAIN texts, j < k
       PROVE  texts[j].decision # texts[k].decision
  <2>1. PICK l \in N, m \in N : l < m /\ texts[j] = resolved[l] /\ texts[k] = resolved[m]
    BY <1>7, <1>10
  <2>2. l \in 1 .. (m - 1)
    BY <1>4, <2>1
  <2>3. resolved[l].decision # resolved[m].decision
    BY <1>5, <2>2
  <2> QED
    BY <2>1, <2>3
<1>11. ASSUME NEW j \in DOMAIN texts, NEW k \in DOMAIN texts, j # k
       PROVE  texts[j].decision # texts[k].decision
  <2>1. j \in Int /\ k \in Int
    BY <1>7
  <2> QED
    BY <1>10, <1>11, <2>1
<1> QED
  BY <1>8, <1>9, <1>11

-----------------------------------------------------------------------------
(***************************************************************************)
(* The goals of a text, and those the language model reads into one.       *)
(***************************************************************************)

LEMMA StatedGoalsAreGoals ==
    ASSUME NEW text \in Texts PROVE StatedGoals(text) \subseteq Goals
<1> DEFINE R == {x \in text \X text : TakenBefore(x[1], x[2])}
<1>1. /\ text \subseteq Phrase /\ IsFiniteSet(text)
      /\ \A m, x \in text : m.from = x.from /\ m.to = x.to => m = x
  BY TextsAssumption
<1>2. \A m \in text : m.from \in Nat /\ m.to \in Nat /\ m.goal \in Goals
  BY <1>1 DEF Phrase
<1>3. IsOrder(text, R)
  <2>1. \A x \in text : <<x, x>> \notin R
    BY <1>2 DEF TakenBefore
  <2>2. \A x, y, z \in text : <<x, y>> \in R /\ <<y, z>> \in R => <<x, z>> \in R
    BY <1>2 DEF TakenBefore
  <2>3. \A x, y \in text : x # y => <<x, y>> \in R \/ <<y, x>> \in R
    BY <1>1, <1>2 DEF TakenBefore
  <2> QED
    BY <2>1, <2>2, <2>3 DEF IsOrder
<1>4. \A x \in text : {y \in text : TakenBefore(y, x)} = Below(text, R, x)
  BY DEF Below
<1> HIDE DEF R
<1>5. PICK o : o = InOrder(text, TakenBefore)
  OBVIOUS
<1>6. ASSUME NEW n \in 1 .. Cardinality(text)
      PROVE  o[n] \in text /\ Cardinality(Below(text, R, o[n])) = n - 1
  <2>1. \E x \in text : Cardinality({y \in text : TakenBefore(y, x)}) = n - 1
    <3>1. PICK x \in text : Cardinality(Below(text, R, x)) = n - 1
      BY <1>1, <1>3, RanksExist
    <3> QED
      BY <1>4, <3>1
  <2>2. o[n] = CHOOSE x \in text : Cardinality({y \in text : TakenBefore(y, x)}) = n - 1
    BY <1>5 DEF InOrder
  <2>3. o[n] \in text /\ Cardinality({y \in text : TakenBefore(y, o[n])}) = n - 1
    BY <2>1, <2>2
  <2> QED
    BY <1>4, <2>3
<1>7. o \in [1 .. Cardinality(text) -> text]
  BY <1>5, <1>6 DEF InOrder
<1>8. o \in Seq(text)
  BY <1>1, <1>3, <1>6, <1>7, RankedSequence
<1>9. TakenPhrases(text) \subseteq {o[n] : n \in 1 .. Len(o)}
  BY <1>5 DEF TakenPhrases
<1>10. TakenPhrases(text) \subseteq text
  BY <1>8, <1>9
<1> QED
  BY <1>2, <1>10 DEF StatedGoals

-----------------------------------------------------------------------------
(***************************************************************************)
(* The invariant of a replay: what was prepared is of its record, what the *)
(* coach was asked is of one of its players, the texts are of the chosen   *)
(* moments, and a question is about one of the texts.                      *)
(***************************************************************************)

HasTexts == stage \in {"coached", "interpreting", "advising", "replied"}

PreparedIsOfTheRecord ==
    /\ stage \in Stages /\ record \in Records
    /\ stage # "parsed" =>
          \E estimated \in BOOLEAN : prepared = PipelineResult(record, estimated)

RequestOf(p, result, selected) ==
    [player |-> p, result |-> result, selected |-> selected, told |-> Payload(selected, result)]

RequestIsOfAPlayer ==
    stage \notin {"parsed", "prepared"} =>
        \E p \in Players :
            LET result == FilterForPlayer(prepared, p)
            IN  /\ result.candidates # <<>>
                /\ request = RequestOf(p, result, SelectDiverse(result.candidates, AnalysesPerPlayer))

TextsAreOfTheirMoments ==
    /\ ~HasTexts => analyses = <<>>
    /\ HasTexts =>
          /\ analyses # <<>>
          /\ \A k \in DOMAIN analyses :
                /\ analyses[k].about \in DOMAIN request.selected
                /\ analyses[k].decision = request.selected[analyses[k].about]
          /\ \A j, k \in DOMAIN analyses :
                j # k => analyses[j].decision # analyses[k].decision

QuestionIsOfAText ==
    /\ stage \notin {"interpreting", "advising", "replied"} => question = None
    /\ stage # "replied" => reply = None
    /\ stage \in {"interpreting", "advising", "replied"} =>
          \E k \in DOMAIN analyses, goals \in SUBSET Goals :
              /\ question = Prompt(analyses[k].decision, goals,
                                   Evidence(record, analyses[k].decision, request.result.keyEvents))
              /\ stage = "advising" => goals # {}

ReplayInv ==
    /\ PreparedIsOfTheRecord
    /\ RequestIsOfAPlayer
    /\ TextsAreOfTheirMoments
    /\ QuestionIsOfAText

LEMMA InitReplay == ReplayInit => ReplayInv
BY DEF ReplayInit, ReplayInv, PreparedIsOfTheRecord, RequestIsOfAPlayer,
       TextsAreOfTheirMoments, QuestionIsOfAText, HasTexts, Stages

\* What the coach was asked: some moments of one player, in the order of the
\* match, from the first to the last.
LEMMA RequestFields ==
    ASSUME ReplayInv, stage \notin {"parsed", "prepared"}
    PROVE  /\ IsRecord(record) /\ request.player \in Players
           /\ request.result.candidates \in Seq(Decisions(record))
           /\ request.result.candidates # <<>>
           /\ request.result.keyEvents =
                  {m \in KeyEvents(record, Candidates(record)) : request.player \in m.who}
           /\ prepared.candidates = Candidates(record)
           /\ request.selected = SelectDiverse(request.result.candidates, AnalysesPerPlayer)
           /\ request.selected \in Seq(Decisions(record)) /\ request.selected # <<>>
           /\ \A k \in DOMAIN request.selected :
                  /\ IsMoment(record, request.selected[k])
                  /\ request.selected[k].player = request.player
           /\ request.told = Payload(request.selected, request.result)
           /\ SelectionSpansTheMatch
<1>1. IsRecord(record)
  BY ReplayAssumption DEF ReplayInv, PreparedIsOfTheRecord
<1>2. PICK estimated \in BOOLEAN : prepared = PipelineResult(record, estimated)
  BY DEF ReplayInv, PreparedIsOfTheRecord
<1>a. PICK p \in Players :
          LET asked == FilterForPlayer(prepared, p)
          IN  /\ asked.candidates # <<>>
              /\ request = RequestOf(p, asked, SelectDiverse(asked.candidates, AnalysesPerPlayer))
  BY DEF ReplayInv, RequestIsOfAPlayer
<1>3. PICK result, selected :
          /\ result = FilterForPlayer(prepared, p) /\ result.candidates # <<>>
          /\ selected = SelectDiverse(result.candidates, AnalysesPerPlayer)
          /\ request = RequestOf(p, result, selected)
  BY <1>a
<1>4. /\ request.player = p /\ request.result = result /\ request.selected = selected
      /\ request.told = Payload(selected, result)
  BY <1>3 DEF RequestOf
<1>5. prepared.candidates = Candidates(record)
  BY <1>2 DEF PipelineResult
<1>6. PICK s : s = result.candidates
  OBVIOUS
<1>7. /\ s \in Seq(Decisions(record)) /\ InMatchOrder(s)
      /\ \A k \in DOMAIN s : IsMoment(record, s[k]) /\ s[k].player = p
      /\ result.keyEvents = {m \in KeyEvents(record, Candidates(record)) : p \in m.who}
  BY <1>1, <1>2, <1>3, <1>6, PlayerMoments
<1>8. AnalysesPerPlayer \in Nat \ {0}
  BY PipelineAssumption
<1>9. s # <<>> /\ selected = SelectDiverse(s, AnalysesPerPlayer)
  BY <1>3, <1>6
<1>10. /\ selected \in Seq(Decisions(record)) /\ selected # <<>> /\ InMatchOrder(selected)
       /\ Len(selected) = IF Len(s) < AnalysesPerPlayer THEN Len(s) ELSE AnalysesPerPlayer
       /\ Range(selected) \subseteq Range(s)
       /\ selected[1] = s[1]
       /\ AnalysesPerPlayer > 1 => selected[Len(selected)] = s[Len(s)]
  BY <1>7, <1>8, <1>9, SelectionSpans
<1>11. ASSUME NEW k \in DOMAIN selected PROVE IsMoment(record, selected[k]) /\ selected[k].player = p
  <2>1. selected[k] \in Range(s)
    BY <1>10 DEF Range
  <2>2. PICK n \in DOMAIN s : selected[k] = s[n]
    BY <2>1 DEF Range
  <2> QED
    BY <1>7, <2>2
<1>12. SelectionSpansTheMatch
  BY <1>4, <1>6, <1>10 DEF SelectionSpansTheMatch, InMatchOrder
<1> QED
  BY <1>1, <1>3, <1>4, <1>5, <1>6, <1>7, <1>9, <1>10, <1>11, <1>12

-----------------------------------------------------------------------------
(* One lemma for each action.                                               *)

LEMMA PrepareStep == ReplayInv /\ Prepare => ReplayInv'
<1> SUFFICES ASSUME ReplayInv, Prepare PROVE ReplayInv'
  OBVIOUS
<1>1. /\ stage = "parsed" /\ stage' = "prepared"
      /\ \E estimated \in BOOLEAN : prepared' = PipelineResult(record, estimated)
      /\ record' = record /\ request' = request /\ analyses' = analyses
      /\ question' = question /\ reply' = reply
  BY DEF Prepare
<1>2. PreparedIsOfTheRecord'
  BY <1>1 DEF ReplayInv, PreparedIsOfTheRecord, Stages
<1>3. RequestIsOfAPlayer'
  BY <1>1 DEF RequestIsOfAPlayer
<1>4. TextsAreOfTheirMoments'
  BY <1>1 DEF ReplayInv, TextsAreOfTheirMoments, HasTexts
<1>5. QuestionIsOfAText'
  BY <1>1 DEF ReplayInv, QuestionIsOfAText
<1> QED
  BY <1>2, <1>3, <1>4, <1>5 DEF ReplayInv

LEMMA SelectPlayerStep ==
    ASSUME NEW p \in Players, ReplayInv, SelectPlayer(p) PROVE ReplayInv'
<1>1. /\ stage \in {"prepared", "failed"} /\ stage' = "coaching"
      /\ record' = record /\ prepared' = prepared /\ analyses' = analyses
      /\ question' = question /\ reply' = reply
  BY DEF SelectPlayer
<1>2. LET result == FilterForPlayer(prepared, p)
      IN  /\ result.candidates # <<>>
          /\ request' = RequestOf(p, result, SelectDiverse(result.candidates, AnalysesPerPlayer))
  BY DEF SelectPlayer, RequestOf
<1>3. PreparedIsOfTheRecord'
  BY <1>1 DEF ReplayInv, PreparedIsOfTheRecord, Stages
<1>4. RequestIsOfAPlayer'
  BY <1>1, <1>2 DEF RequestIsOfAPlayer
<1>5. TextsAreOfTheirMoments'
  BY <1>1 DEF ReplayInv, TextsAreOfTheirMoments, HasTexts
<1>6. QuestionIsOfAText'
  BY <1>1 DEF ReplayInv, QuestionIsOfAText
<1> QED
  BY <1>3, <1>4, <1>5, <1>6 DEF ReplayInv

LEMMA CoachAnswersStep ==
    ASSUME NEW answer \in Answers, ReplayInv, CoachAnswers(answer) PROVE ReplayInv'
<1>1. /\ stage = "coaching" /\ stage' \in {"coached", "failed"}
      /\ record' = record /\ prepared' = prepared /\ request' = request
      /\ question' = question /\ reply' = reply
  BY DEF CoachAnswers
<1>2. PreparedIsOfTheRecord'
  BY <1>1 DEF ReplayInv, PreparedIsOfTheRecord, Stages
<1>3. RequestIsOfAPlayer'
  BY <1>1 DEF ReplayInv, RequestIsOfAPlayer
<1>4. TextsAreOfTheirMoments'
  <2>1. CASE stage' = "failed"
    <3>1. analyses' = analyses
      BY <1>1, <2>1 DEF CoachAnswers
    <3> QED
      BY <1>1, <2>1, <3>1 DEF ReplayInv, TextsAreOfTheirMoments, HasTexts
  <2>2. CASE stage' = "coached"
    <3>1. /\ IsCoachResponse(answer, request.selected)
          /\ analyses' = Merge(answer, request.selected, request.result.candidates)
      BY <2>2 DEF CoachAnswers
    <3>2. request.selected \in Seq(Decisions(record)) /\ request.selected # <<>>
      BY <1>1, RequestFields
    <3>3. AnalysesPerPlayer \in Nat
      BY PipelineAssumption
    <3>4. PICK n \in Nat : answer \in [1 .. n -> 0 .. AnalysesPerPlayer]
      BY ReplayAssumption DEF Answers
    <3>5. PICK texts : texts = Merge(answer, request.selected, request.result.candidates)
      OBVIOUS
    <3>6. /\ texts # <<>>
          /\ \A k \in DOMAIN texts :
                 /\ texts[k].about \in DOMAIN request.selected
                 /\ texts[k].decision = request.selected[texts[k].about]
          /\ \A j, k \in DOMAIN texts : j # k => texts[j].decision # texts[k].decision
      <4> PICK s, candidates, V : /\ s = request.selected /\ V = Decisions(record)
                                  /\ candidates = request.result.candidates
        OBVIOUS
      <4>1. /\ s \in Seq(V) /\ s # <<>> /\ IsCoachResponse(answer, s)
            /\ texts = Merge(answer, s, candidates)
        BY <3>1, <3>2, <3>5
      <4>3. answer \in Seq(Nat)
        BY <3>3, <3>4
      <4>2. /\ texts # <<>>
            /\ \A k \in DOMAIN texts : /\ texts[k].about \in DOMAIN s
                                       /\ texts[k].decision = s[texts[k].about]
            /\ \A j, k \in DOMAIN texts : j # k => texts[j].decision # texts[k].decision
        BY <4>1, <4>3, MergedTexts
      <4> QED
        BY <4>2
    <3>7. analyses' = texts
      BY <3>1, <3>5
    <3> QED
      BY <1>1, <2>2, <3>6, <3>7 DEF TextsAreOfTheirMoments, HasTexts
  <2> QED
    BY <1>1, <2>1, <2>2
<1>5. QuestionIsOfAText'
  BY <1>1 DEF ReplayInv, QuestionIsOfAText
<1> QED
  BY <1>2, <1>3, <1>4, <1>5 DEF ReplayInv

LEMMA AskIntentStep ==
    ASSUME NEW k \in DOMAIN analyses, NEW text \in Texts, ReplayInv,
           AskIntent(analyses[k].decision, text)
    PROVE  ReplayInv'
<1> PICK d : d = analyses[k].decision
  OBVIOUS
<1>1. AskIntent(d, text)
  OBVIOUS
<1>2. /\ stage \in {"coached", "replied"} /\ stage' \in {"interpreting", "advising", "replied"}
      /\ question' = Prompt(d, StatedGoals(text), Evidence(record, d, request.result.keyEvents))
      /\ stage' = "advising" => question'.goals # {}
      /\ stage' # "replied" => reply' = None
      /\ record' = record /\ prepared' = prepared /\ request' = request /\ analyses' = analyses
  BY <1>1 DEF AskIntent
<1>3. question'.goals = StatedGoals(text) /\ StatedGoals(text) \subseteq Goals
  BY <1>2, StatedGoalsAreGoals DEF Prompt
<1>4. PreparedIsOfTheRecord'
  BY <1>2 DEF ReplayInv, PreparedIsOfTheRecord, Stages
<1>5. RequestIsOfAPlayer'
  BY <1>2 DEF ReplayInv, RequestIsOfAPlayer
<1>6. TextsAreOfTheirMoments'
  BY <1>2 DEF ReplayInv, TextsAreOfTheirMoments, HasTexts
<1>7. QuestionIsOfAText'
  BY <1>2, <1>3 DEF QuestionIsOfAText
<1> QED
  BY <1>4, <1>5, <1>6, <1>7 DEF ReplayInv

LEMMA InterpretStep ==
    ASSUME NEW confident, NEW quoted \in BOOLEAN, NEW goal \in Goals, ReplayInv,
           Interpret(confident, {[goal |-> goal, quoted |-> quoted]})
    PROVE  ReplayInv'
<1> PICK interpretations : interpretations = {[goal |-> goal, quoted |-> quoted]}
  OBVIOUS
<1> PICK goals : goals = InterpretedGoals(confident, interpretations)
  OBVIOUS
<1>1. goals \subseteq Goals
  BY DEF InterpretedGoals
<1>2. /\ stage = "interpreting" /\ stage' \in {"replied", "advising"}
      /\ question' = question \/ (question' = [question EXCEPT !.goals = goals])
      /\ stage' = "advising" =>
             goals # {} /\ question' = [question EXCEPT !.goals = goals] /\ reply' = reply
      /\ record' = record /\ prepared' = prepared /\ request' = request /\ analyses' = analyses
  BY DEF Interpret
<1>3. PICK n \in DOMAIN analyses, before \in SUBSET Goals :
          question = Prompt(analyses[n].decision, before,
                            Evidence(record, analyses[n].decision, request.result.keyEvents))
  BY <1>2 DEF ReplayInv, QuestionIsOfAText
<1>4. [question EXCEPT !.goals = goals] =
          Prompt(analyses[n].decision, goals,
                 Evidence(record, analyses[n].decision, request.result.keyEvents))
  BY <1>3 DEF Prompt
<1>5. PreparedIsOfTheRecord'
  BY <1>2 DEF ReplayInv, PreparedIsOfTheRecord, Stages
<1>6. RequestIsOfAPlayer'
  BY <1>2 DEF ReplayInv, RequestIsOfAPlayer
<1>7. TextsAreOfTheirMoments'
  BY <1>2 DEF ReplayInv, TextsAreOfTheirMoments, HasTexts
<1>8. QuestionIsOfAText'
  <2>1. /\ stage' \in {"advising", "replied"} /\ stage' # "replied" => reply' = None
    BY <1>2 DEF ReplayInv, QuestionIsOfAText
  <2>2. CASE question' = question /\ stage' = "replied"
    BY <1>2, <1>3, <2>1, <2>2 DEF QuestionIsOfAText
  <2>3. CASE question' = [question EXCEPT !.goals = goals]
    BY <1>1, <1>2, <1>4, <2>1, <2>3 DEF QuestionIsOfAText
  <2> QED
    BY <1>2, <2>2, <2>3
<1> QED
  BY <1>5, <1>6, <1>7, <1>8 DEF ReplayInv

\* The question is answered one way or another, or the coach gives up.
Answered ==
    /\ stage = "advising" /\ stage' = "replied"
    /\ record' = record /\ prepared' = prepared /\ request' = request
    /\ analyses' = analyses /\ question' = question

LEMMA AnsweredStep == ReplayInv /\ Answered => ReplayInv'
<1> SUFFICES ASSUME ReplayInv, Answered PROVE ReplayInv'
  OBVIOUS
<1>1. PreparedIsOfTheRecord'
  BY DEF ReplayInv, PreparedIsOfTheRecord, Stages, Answered
<1>2. RequestIsOfAPlayer'
  BY DEF ReplayInv, RequestIsOfAPlayer, Answered
<1>3. TextsAreOfTheirMoments'
  BY DEF ReplayInv, TextsAreOfTheirMoments, HasTexts, Answered
<1>4. QuestionIsOfAText'
  BY DEF ReplayInv, QuestionIsOfAText, Answered
<1> QED
  BY <1>1, <1>2, <1>3, <1>4 DEF ReplayInv

LEMMA ModelFailsStep == ReplayInv /\ ModelFails => ReplayInv'
<1> SUFFICES ASSUME ReplayInv, ModelFails PROVE ReplayInv'
  OBVIOUS
<1>1. CASE stage = "advising"
  <2>1. Answered
    BY <1>1 DEF ModelFails, Answered
  <2> QED
    BY <2>1, AnsweredStep
<1>2. CASE stage # "advising"
  <2>1. /\ stage = "coaching" /\ stage' = "failed"
        /\ record' = record /\ prepared' = prepared /\ request' = request
        /\ analyses' = analyses /\ question' = question /\ reply' = reply
    BY <1>2 DEF ModelFails
  <2>2. PreparedIsOfTheRecord'
    BY <2>1 DEF ReplayInv, PreparedIsOfTheRecord, Stages
  <2>3. RequestIsOfAPlayer'
    BY <2>1 DEF ReplayInv, RequestIsOfAPlayer
  <2>4. TextsAreOfTheirMoments'
    BY <2>1 DEF ReplayInv, TextsAreOfTheirMoments, HasTexts
  <2>5. QuestionIsOfAText'
    BY <2>1 DEF ReplayInv, QuestionIsOfAText
  <2> QED
    BY <2>2, <2>3, <2>4, <2>5 DEF ReplayInv
<1> QED
  BY <1>1, <1>2

\* An advice is one of some claims, whichever they are.
AdviseSomething == \E adjustment \in Adjustments : \E claims : Advise(adjustment, claims)

LEMMA AdviseStep == ReplayInv /\ AdviseSomething => ReplayInv' /\ Answered
<1>1. AdviseSomething => Answered
  BY DEF AdviseSomething, Advise, Answered
<1> QED
  BY <1>1, AnsweredStep

LEMMA ReplayActions ==
    ASSUME ReplayNext
    PROVE  \/ Prepare
           \/ \E p \in Players : SelectPlayer(p)
           \/ \E answer \in Answers : CoachAnswers(answer)
           \/ \E k \in DOMAIN analyses, text \in Texts : AskIntent(analyses[k].decision, text)
           \/ \E confident, quoted \in BOOLEAN, goal \in Goals :
                 Interpret(confident, {[goal |-> goal, quoted |-> quoted]})
           \/ AdviseSomething
           \/ ModelFails
<1>1. Adjustments = {"reassess", "reset", "disengage", "hold", "utility", "controlled"}
  <2>1. DOMAIN SafeAdjustments = 1 .. 6
    BY DEF SafeAdjustments
  <2>2. Adjustments = {SafeAdjustments[n] : n \in 1 .. 6}
    BY <2>1 DEF Adjustments, Range
  <2> QED
    BY <2>2 DEF SafeAdjustments
<1>2. ASSUME NEW adjustment \in Adjustments, NEW claims, Advise(adjustment, claims)
      PROVE  AdviseSomething
  BY <1>2 DEF AdviseSomething
<1>3. "reset" \in Adjustments
  BY <1>1
<1> QED
  BY <1>2, <1>3 DEF ReplayNext

LEMMA ReplayStep == ReplayInv /\ [ReplayNext]_replayVars => ReplayInv'
<1>1. ASSUME ReplayInv, ReplayNext PROVE ReplayInv'
  BY <1>1, ReplayActions, PrepareStep, SelectPlayerStep, CoachAnswersStep, AskIntentStep,
     InterpretStep, AdviseStep, ModelFailsStep
<1>2. ASSUME ReplayInv, UNCHANGED replayVars PROVE ReplayInv'
  BY <1>2 DEF replayVars, ReplayInv, PreparedIsOfTheRecord, RequestIsOfAPlayer,
              TextsAreOfTheirMoments, QuestionIsOfAText, HasTexts
<1> QED
  BY <1>1, <1>2

LEMMA ReplaysKeepTheInvariant == ReplaySpec => []ReplayInv
BY InitReplay, ReplayStep, PTL DEF ReplaySpec

-----------------------------------------------------------------------------
(* The types of a replay.                                                   *)

\* The coach is asked only once the replay is prepared, and what an intent
\* request is answered.
RepliesAreTyped ==
    /\ stage \in {"parsed", "prepared"} => request = None
    /\ reply # None =>
          reply.status \in {"advised", "clarify", "insufficient", "malformed", "unavailable"}

ReplayTypeInv == ReplayInv /\ RepliesAreTyped

LEMMA ReplayTypesFollow == ReplayTypeInv => ReplayTypeOK
<1> SUFFICES ASSUME ReplayTypeInv PROVE ReplayTypeOK
  OBVIOUS
<1>1. ReplayInv /\ RepliesAreTyped
  BY DEF ReplayTypeInv
<1>2. stage \in Stages /\ record \in Records /\ IsRecord(record)
  BY <1>1, ReplayAssumption DEF ReplayInv, PreparedIsOfTheRecord
<1>3. request # None => request.player \in Players /\ request.selected # <<>>
  BY <1>1, RequestFields DEF RepliesAreTyped
<1>4. ASSUME NEW k \in DOMAIN analyses PROVE analyses[k].decision.player \in Players
  <2>1. HasTexts
    BY <1>1, <1>4 DEF ReplayInv, TextsAreOfTheirMoments
  <2>2. /\ analyses[k].about \in DOMAIN request.selected
        /\ analyses[k].decision = request.selected[analyses[k].about]
    BY <1>1, <2>1 DEF ReplayInv, TextsAreOfTheirMoments
  <2>3. \A n \in DOMAIN request.selected : IsMoment(record, request.selected[n])
    BY <1>1, <2>1, RequestFields DEF HasTexts
  <2> QED
    BY <2>2, <2>3 DEF IsMoment
<1>5. question # None => question.goals \subseteq Goals
  <2>1. ASSUME question # None PROVE question.goals \subseteq Goals
    <3>1. PICK k \in DOMAIN analyses, goals \in SUBSET Goals :
              question = Prompt(analyses[k].decision, goals,
                                Evidence(record, analyses[k].decision, request.result.keyEvents))
      BY <1>1, <2>1 DEF ReplayInv, QuestionIsOfAText
    <3> QED
      BY <3>1 DEF Prompt
  <2> QED
    BY <2>1
<1> QED
  BY <1>1, <1>2, <1>3, <1>4, <1>5 DEF ReplayTypeOK, RepliesAreTyped

LEMMA InitReplayTypes == ReplayInit => ReplayTypeInv
BY InitReplay DEF ReplayInit, ReplayTypeInv, RepliesAreTyped

LEMMA RepliesStep == RepliesAreTyped /\ [ReplayNext]_replayVars => RepliesAreTyped'
<1> SUFFICES ASSUME RepliesAreTyped, [ReplayNext]_replayVars PROVE RepliesAreTyped'
  OBVIOUS
<1>1. CASE Prepare
  BY <1>1 DEF Prepare, RepliesAreTyped
<1>2. ASSUME NEW p \in Players, SelectPlayer(p) PROVE RepliesAreTyped'
  BY <1>2 DEF SelectPlayer, RepliesAreTyped
<1>3. ASSUME NEW answer \in Answers, CoachAnswers(answer) PROVE RepliesAreTyped'
  BY <1>3 DEF CoachAnswers, RepliesAreTyped
<1>4. ASSUME NEW d, NEW text \in Texts, AskIntent(d, text) PROVE RepliesAreTyped'
  <2>1. stage' \in {"interpreting", "advising", "replied"} /\ (reply' = None \/ reply' = [status |-> "insufficient"])
    BY <1>4 DEF AskIntent
  <2> QED
    BY <2>1 DEF RepliesAreTyped
<1>5. ASSUME NEW confident, NEW readings, Interpret(confident, readings) PROVE RepliesAreTyped'
  <2>1. stage' \in {"advising", "replied"} /\ (reply' = reply \/ reply' = Clarification)
    BY <1>5 DEF Interpret
  <2>2. Clarification.status = "clarify"
    BY DEF Clarification
  <2> QED
    BY <2>1, <2>2 DEF RepliesAreTyped
<1>6. ASSUME NEW adjustment, NEW claims, Advise(adjustment, claims) PROVE RepliesAreTyped'
  <2>1. \A x, y, z : Published(x, y, z).status = "advised"
    BY DEF Published
  <2>2. stage' = "replied" /\ (reply' = [status |-> "malformed"] \/ \E x, y, z : reply' = Published(x, y, z))
    BY <1>6 DEF Advise
  <2> QED
    BY <2>1, <2>2 DEF RepliesAreTyped
<1>7. CASE ModelFails
  BY <1>7 DEF ModelFails, RepliesAreTyped
<1>8. CASE UNCHANGED replayVars
  BY <1>8 DEF replayVars, RepliesAreTyped
<1> QED
  BY <1>1, <1>2, <1>3, <1>4, <1>5, <1>6, <1>7, <1>8 DEF ReplayNext

LEMMA ReplayTypesStep == ReplayTypeInv /\ [ReplayNext]_replayVars => ReplayTypeInv'
BY ReplayStep, RepliesStep DEF ReplayTypeInv

\* Whatever the models answer, a replay's request, texts, question and reply
\* have their types.
THEOREM ReplaysAreTyped == ReplaySpec => []ReplayTypeOK
BY InitReplayTypes, ReplayTypesStep, ReplayTypesFollow, PTL DEF ReplaySpec

-----------------------------------------------------------------------------
(* Texts and questions.                                                     *)

\* merge_pi_output resolves an alias against the moments the coach was asked
\* about: every text stands under the moment it was written for, no moment has
\* two, all are the player's own, and those asked about span the match.
THEOREM TextsAreOfTheirOwnMoments == ReplaySpec => []CoachingIsAboutItsMoment
<1>1. ReplayInv => CoachingIsAboutItsMoment
  <2> SUFFICES ASSUME ReplayInv PROVE CoachingIsAboutItsMoment
    OBVIOUS
  <2>1. stage = "coached" =>
            /\ \A k \in DOMAIN analyses :
                   /\ analyses[k].decision = request.selected[analyses[k].about]
                   /\ analyses[k].decision.player = request.player
            /\ \A j, k \in DOMAIN analyses :
                   j # k => analyses[j].decision # analyses[k].decision
            /\ analyses # <<>>
    BY RequestFields DEF ReplayInv, TextsAreOfTheirMoments, HasTexts
  <2>2. SelectionSpansTheMatch
    <3>1. CASE stage = "coaching"
      BY <3>1, RequestFields
    <3>2. CASE stage # "coaching"
      BY <3>2 DEF SelectionSpansTheMatch
    <3> QED
      BY <3>1, <3>2
  <2> QED
    BY <2>1, <2>2 DEF CoachingIsAboutItsMoment
<1> QED
  BY <1>1, ReplaysKeepTheInvariant, PTL

\* The moment of a text, and what may be cited of it.
LEMMA TextFields ==
    ASSUME ReplayInv, HasTexts, NEW k \in DOMAIN analyses
    PROVE  IsMoment(record, analyses[k].decision)
<1>1. stage \notin {"parsed", "prepared"}
  BY DEF HasTexts
<1> QED
  BY <1>1, RequestFields DEF ReplayInv, TextsAreOfTheirMoments

\* A moment passes the intent engine's checks: its reaction is no longer than
\* the engine accepts, and the contact itself can be cited.
LEMMA MomentsCanBeExplained ==
    ASSUME NEW rec, NEW d, IsMoment(rec, d), NEW keyEvents, CloseTicks <= MaxReaction
    PROVE  /\ HasSafeWindow(d)
           /\ \E fact \in Evidence(rec, d, keyEvents) : Substantive(fact, d)
<1>1. HasSafeWindow(d)
  BY PipelineAssumption, ReactionAssumption DEF IsMoment, HasSafeWindow
<1>2. PICK fact : fact = [id |-> "contact-state",
                          of |-> ContactDamage(rec, d)
                                 \cup LatestRow(RowsOf(rec, d.round, d.player), d.contact)]
  OBVIOUS
<1>3. fact \in Telemetry(rec, d)
  BY <1>2 DEF Telemetry, IsMoment
<1>4. fact \in Evidence(rec, d, keyEvents)
  BY <1>3 DEF Evidence
<1>5. Substantive(fact, d)
  BY <1>2 DEF Substantive
<1> QED
  BY <1>1, <1>4, <1>5

\* The moments the pipeline makes pass the checks of the intent engine, made
\* elsewhere: no completed analysis is answered with insufficient evidence, if
\* the engine accepts reactions as long as the pipeline cuts them (2.5 s).
THEOREM CompletedTextsCanBeAskedAbout ==
    ASSUME CloseTicks <= MaxReaction
    PROVE  ReplaySpec => []ShownMomentsCanBeExplained
<1>1. ReplayInit => ShownMomentsCanBeExplained
  BY DEF ReplayInit, ShownMomentsCanBeExplained
<1>2. ASSUME ReplayInv, ShownMomentsCanBeExplained, [ReplayNext]_replayVars
      PROVE  ShownMomentsCanBeExplained'
  <2>1. CASE reply' = reply
    BY <1>2, <2>1 DEF ShownMomentsCanBeExplained
  <2>2. ASSUME NEW k \in DOMAIN analyses, NEW text \in Texts, AskIntent(analyses[k].decision, text)
        PROVE  ShownMomentsCanBeExplained'
    <3>1. PICK d : d = analyses[k].decision
      OBVIOUS
    <3>2. AskIntent(d, text) /\ HasTexts
      BY <2>2, <3>1 DEF AskIntent, HasTexts
    <3>3. IsMoment(record, d)
      BY <1>2, <3>1, <3>2, TextFields
    <3>4. PICK rec, keyEvents : rec = record /\ keyEvents = request.result.keyEvents
      OBVIOUS
    <3>5. HasSafeWindow(d) /\ \E fact \in Evidence(rec, d, keyEvents) : Substantive(fact, d)
      BY <3>3, <3>4, MomentsCanBeExplained
    <3>6. question'.facts = Evidence(rec, d, keyEvents)
      BY <3>2, <3>4 DEF AskIntent, Prompt
    <3>7. reply' = None
      BY <3>2, <3>5, <3>6 DEF AskIntent
    <3> QED
      BY <3>7 DEF ShownMomentsCanBeExplained
  <2>3. ASSUME NEW confident, NEW interpretations, Interpret(confident, interpretations)
        PROVE  reply' = reply \/ reply' = Clarification
    BY <2>3 DEF Interpret
  <2>4. AdviseSomething =>
            reply'.status = "advised" \/ reply'.status = "malformed"
    <3> SUFFICES ASSUME NEW adjustment, NEW claims, Advise(adjustment, claims)
                 PROVE  reply'.status = "advised" \/ reply'.status = "malformed"
      BY DEF AdviseSomething
    <3>1. \/ \E advice, cited, summary : reply' = Published(advice, cited, summary)
          \/ reply' = [status |-> "malformed"]
      BY DEF Advise
    <3> QED
      BY <3>1 DEF Published
  <2>5. ModelFails => reply' = reply \/ reply' = [status |-> "unavailable"]
    BY DEF ModelFails
  <2>6. Prepare => reply' = reply
    BY DEF Prepare
  <2>7. \A p \in Players : SelectPlayer(p) => reply' = reply
    BY DEF SelectPlayer
  <2>8. \A answer \in Answers : CoachAnswers(answer) => reply' = reply
    BY DEF CoachAnswers
  <2>9. CASE reply'.status \in {"advised", "malformed", "clarify", "unavailable"}
    BY <2>9 DEF ShownMomentsCanBeExplained
  <2>10. Clarification.status = "clarify" /\ [status |-> "unavailable"].status = "unavailable"
    BY DEF Clarification
  <2>11. UNCHANGED replayVars => reply' = reply
    BY DEF replayVars
  <2> QED
    BY <1>2, <2>1, <2>2, <2>3, <2>4, <2>5, <2>6, <2>7, <2>8, <2>9, <2>10, <2>11, ReplayActions
<1> QED
  BY <1>1, <1>2, ReplaysKeepTheInvariant, PTL DEF ReplaySpec

-----------------------------------------------------------------------------
(* Published advice.                                                        *)

\* A set of positions has a least one.
LEMMA LeastOfSix ==
    ASSUME NEW S \in SUBSET (1 .. 6), S # {} PROVE Least(S) \in S
<1>1. \E n \in S : \A m \in S : n <= m
  <2>0. S \subseteq {1, 2, 3, 4, 5, 6}
    OBVIOUS
  <2>1. CASE 1 \in S
    BY <2>0, <2>1
  <2>2. CASE 1 \notin S /\ 2 \in S
    BY <2>0, <2>2
  <2>3. CASE 1 \notin S /\ 2 \notin S /\ 3 \in S
    BY <2>0, <2>3
  <2>4. CASE 1 \notin S /\ 2 \notin S /\ 3 \notin S /\ 4 \in S
    BY <2>0, <2>4
  <2>5. CASE 1 \notin S /\ 2 \notin S /\ 3 \notin S /\ 4 \notin S /\ 5 \in S
    BY <2>0, <2>5
  <2>6. CASE 1 \notin S /\ 2 \notin S /\ 3 \notin S /\ 4 \notin S /\ 5 \notin S
    <3>1. S = {6}
      BY <2>0, <2>6
    <3> QED
      BY <3>1
  <2> QED
    BY <2>1, <2>2, <2>3, <2>4, <2>5, <2>6
<1> QED
  BY <1>1 DEF Least

\* Whatever the model chose, the advice suits one of the goals, and is a
\* grenade only if there is one.
LEMMA ResolveIsAllowed ==
    ASSUME NEW goals \in SUBSET Goals, goals # {}, NEW adjustment, NEW utility \in BOOLEAN,
           NEW advice, advice = Resolve(goals, adjustment, utility)
    PROVE  /\ \E g \in goals : advice \in Allowed[g]
           /\ advice = "utility" => utility
<1>1. \A g \in Goals : "reassess" \in Allowed[g] /\ Default[g] \in Allowed[g]
  BY DEF Goals, Allowed, Default
<1>2. PICK g : g = CHOOSE x \in goals : TRUE
  OBVIOUS
<1>3. g \in goals /\ g \in Goals
  BY <1>2
<1>4. DOMAIN SafeAdjustments = 1 .. 6
  BY DEF SafeAdjustments
<1>5. PICK shared \in SUBSET (1 .. 6) :
          shared = {n \in DOMAIN SafeAdjustments :
                       /\ (SafeAdjustments[n] # "utility" \/ utility)
                       /\ \A x \in goals : SafeAdjustments[n] \in Allowed[x]}
  BY <1>4
<1>6. CASE (adjustment # "utility" \/ utility) /\ \E x \in goals : adjustment \in Allowed[x]
  BY <1>6 DEF Resolve
<1>7. CASE /\ ~((adjustment # "utility" \/ utility) /\ \E x \in goals : adjustment \in Allowed[x])
           /\ Cardinality(goals) = 1
  <2>1. advice = IF Default[g] # "utility" \/ utility THEN Default[g] ELSE "reassess"
    BY <1>2, <1>7 DEF Resolve
  <2> QED
    BY <1>1, <1>3, <2>1
<1>8. CASE /\ ~((adjustment # "utility" \/ utility) /\ \E x \in goals : adjustment \in Allowed[x])
           /\ Cardinality(goals) # 1
  <2>1. advice = IF shared = {} THEN "reassess" ELSE SafeAdjustments[Least(shared)]
    BY <1>5, <1>8 DEF Resolve
  <2>2. shared # {} => Least(shared) \in shared
    BY LeastOfSix
  <2> QED
    BY <1>1, <1>3, <1>5, <2>1, <2>2
<1> QED
  BY <1>6, <1>7, <1>8

\* The facts of a moment are finitely many.
LEMMA FinitelyManyMarkers ==
    ASSUME NEW rec, IsRecord(rec) PROVE IsFiniteSet(Markers(rec))
<1> DEFINE ofEvent(i) == [type |-> rec.events[i].kind, round |-> rec.events[i].round,
                          tick |-> rec.events[i].tick,
                          who |-> {rec.events[i].attacker, rec.events[i].victim}]
           ofDeed(x) == [type |-> x.name, round |-> x.round, tick |-> x.tick, who |-> {x.player}]
           A == {ofEvent(i) : i \in DOMAIN rec.events}
           B == {ofDeed(x) : x \in rec.deeds}
           f == [i \in DOMAIN rec.events |-> ofEvent(i)]
           g == [x \in rec.deeds |-> ofDeed(x)]
<1>1. IsFiniteSet(DOMAIN rec.events) /\ IsFiniteSet(rec.deeds)
  BY FinitelyManyContacts DEF IsRecord
<1>2. IsFiniteSet(A)
  <2>1. f \in [DOMAIN rec.events -> A] /\ \A t \in A : \E i \in DOMAIN rec.events : f[i] = t
    OBVIOUS
  <2> HIDE DEF A, f
  <2>2. f \in Surjection(DOMAIN rec.events, A)
    BY <2>1 DEF Surjection
  <2> QED
    BY <1>1, <2>2, FS_Surjection
<1>3. IsFiniteSet(B)
  <2>1. g \in [rec.deeds -> B] /\ \A t \in B : \E x \in rec.deeds : g[x] = t
    OBVIOUS
  <2> HIDE DEF B, g
  <2>2. g \in Surjection(rec.deeds, B)
    BY <2>1 DEF Surjection
  <2> QED
    BY <1>1, <2>2, FS_Surjection
<1>4. Markers(rec) = A \cup B
  BY DEF Markers
<1> HIDE DEF A, B
<1> QED
  BY <1>2, <1>3, <1>4, FS_Union

LEMMA FiniteEvidence ==
    ASSUME NEW rec, NEW d, NEW keyEvents, IsFiniteSet(keyEvents)
    PROVE  IsFiniteSet(Evidence(rec, d, keyEvents))
<1> DEFINE fact(m) == [id |-> "event", of |-> {m}]
           M == EventsOfMoment(d, keyEvents)
           A == {fact(m) : m \in M}
           f == [m \in M |-> fact(m)]
<1>1. IsFiniteSet(M)
  BY FS_Subset DEF EventsOfMoment
<1>2. IsFiniteSet(A)
  <2>1. f \in [M -> A] /\ \A t \in A : \E m \in M : f[m] = t
    OBVIOUS
  <2> HIDE DEF A, f, M
  <2>2. f \in Surjection(M, A)
    BY <2>1 DEF Surjection
  <2> QED
    BY <1>1, <2>2, FS_Surjection
<1>3. IsFiniteSet(Classified(d))
  <2>1. PICK x, y : Classified(d) \subseteq {x} \cup {y}
    BY DEF Classified
  <2> QED
    BY <2>1, FS_Singleton, FS_Union, FS_Subset
<1>4. IsFiniteSet(Telemetry(rec, d))
  <2>1. PICK x, y, z :
            /\ x = [id |-> "contact-state",
                    of |-> ContactDamage(rec, d)
                           \cup LatestRow(RowsOf(rec, d.round, d.player), d.contact)]
            /\ y = [id |-> "reaction-movement",
                    of |-> LatestRow({r \in RowsOf(rec, d.round, d.player) : r.tick >= d.contact},
                                     d.close)]
            /\ z = [id |-> "teammate-spacing", of |-> TeamRows(rec, d)]
    OBVIOUS
  <2>2. Telemetry(rec, d) \subseteq ({x} \cup {y}) \cup {z}
    BY <2>1 DEF Telemetry
  <2> QED
    BY <2>2, FS_Singleton, FS_Union, FS_Subset
<1>5. Evidence(rec, d, keyEvents) = (A \cup Classified(d)) \cup Telemetry(rec, d)
  BY DEF Evidence
<1> HIDE DEF A
<1> QED
  BY <1>2, <1>3, <1>4, <1>5, FS_Union

\* The state at the contact is one fact.
LEMMA OneContactState ==
    ASSUME NEW rec, NEW d, NEW keyEvents,
           NEW x \in Evidence(rec, d, keyEvents), NEW y \in Evidence(rec, d, keyEvents),
           x.id = "contact-state", y.id = "contact-state"
    PROVE  x = y
<1>1. ASSUME NEW z \in Evidence(rec, d, keyEvents), z.id = "contact-state"
      PROVE  z = [id |-> "contact-state",
                  of |-> ContactDamage(rec, d)
                         \cup LatestRow(RowsOf(rec, d.round, d.player), d.contact)]
  <2>1. z \in Telemetry(rec, d)
    BY <1>1 DEF Evidence, Classified
  <2> QED
    BY <1>1, <2>1 DEF Telemetry
<1> QED
  BY <1>1

\* The facts there are, and their order.
LEMMA FactKinds ==
    ASSUME NEW rec, NEW d, NEW keyEvents, NEW x \in Evidence(rec, d, keyEvents)
    PROVE  /\ x.id \in {"contact-state", "reaction-movement", "teammate-spacing",
                        "observed-action", "signal", "event"}
           /\ Priority(x) \in 0 .. 5
           /\ Priority(x) = 0 <=> x.id = "contact-state"
           /\ Priority(x) = 5 <=> x.id = "event"
           /\ x.id = "event" => \E m \in EventsOfMoment(d, keyEvents) :
                                    x = [id |-> "event", of |-> {m}]
<1>1. x.id \in {"contact-state", "reaction-movement", "teammate-spacing",
                "observed-action", "signal", "event"}
  BY DEF Evidence, Classified, Telemetry
<1>2. x.id = "event" => \E m \in EventsOfMoment(d, keyEvents) : x = [id |-> "event", of |-> {m}]
  BY DEF Evidence, Classified, Telemetry
<1>3. /\ x.id = "contact-state" => Priority(x) = 0
      /\ x.id = "reaction-movement" => Priority(x) = 1
      /\ x.id = "teammate-spacing" => Priority(x) = 2
      /\ x.id = "observed-action" => Priority(x) = 3
      /\ x.id = "signal" => Priority(x) = 4
      /\ x.id = "event" => Priority(x) = 5
  BY DEF Priority
<1> QED
  BY <1>1, <1>2, <1>3

\* What is told of the cited facts: the state at the contact whenever it is
\* cited; an event only if at most one fact of another kind is; no kill.
LEMMA SummariesTell ==
    ASSUME NEW rec, NEW d, NEW keyEvents, IsFiniteSet(keyEvents),
           NEW cited \in SUBSET Evidence(rec, d, keyEvents), NEW facts \in Summaries(cited)
    PROVE  /\ \A x \in cited : x.id = "contact-state" => x \in facts
           /\ \A x \in facts : x.id = "event" =>
                  /\ "kill" \notin Statement(x).says
                  /\ Cardinality({y.id : y \in cited} \ {"event"}) < 2
<1>1. /\ facts \subseteq cited /\ Cardinality(facts) \in {1, 2}
      /\ \A x \in facts, y \in cited \ facts : Priority(x) <= Priority(y)
  BY DEF Summaries
<1>2. IsFiniteSet(facts) /\ facts # {}
  <2>1. IsFiniteSet(Evidence(rec, d, keyEvents))
    BY FiniteEvidence
  <2>2. facts \subseteq Evidence(rec, d, keyEvents)
    BY <1>1
  <2> QED
    BY <1>1, <2>1, <2>2, FS_Subset, FS_EmptySet
<1>3. ASSUME NEW x \in cited, x.id = "contact-state" PROVE x \in facts
  <2> SUFFICES ASSUME x \notin facts PROVE FALSE
    OBVIOUS
  <2>1. PICK y \in facts : TRUE
    BY <1>2
  <2>2. Priority(y) <= Priority(x) /\ y \in cited
    BY <1>1, <2>1
  <2>3. Priority(x) = 0
    BY <1>3, FactKinds
  <2>4. Priority(y) \in 0 .. 5 /\ (Priority(y) = 0 <=> y.id = "contact-state")
    BY <2>2, FactKinds
  <2>5. y.id = "contact-state"
    BY <2>2, <2>3, <2>4
  <2>6. x = y
    BY <1>3, <2>2, <2>5, OneContactState
  <2> QED
    BY <2>1, <2>6
<1>4. ASSUME NEW x \in facts, x.id = "event" PROVE "kill" \notin Statement(x).says
  <2>1. x \in Evidence(rec, d, keyEvents)
    BY <1>1
  <2>2. PICK m \in EventsOfMoment(d, keyEvents) : x = [id |-> "event", of |-> {m}]
    BY <1>4, <2>1, FactKinds
  <2>3. Statement(x).says = {m.type}
    <3>1. Statement(x).says = {n.type : n \in x.of}
      BY <1>4 DEF Statement
    <3>2. x.of = {m}
      BY <2>2
    <3> QED
      BY <3>1, <3>2
  <2>4. m.type # "kill"
    BY DEF EventsOfMoment
  <2> QED
    BY <2>3, <2>4
<1>5. ASSUME NEW x \in facts, x.id = "event"
      PROVE  Cardinality({y.id : y \in cited} \ {"event"}) < 2
  <2>1. \A y \in cited : y \notin facts => y.id = "event"
    <3> SUFFICES ASSUME NEW y \in cited, y \notin facts PROVE y.id = "event"
      OBVIOUS
    <3>1. Priority(x) <= Priority(y) /\ x \in cited
      BY <1>1
    <3>2. Priority(x) = 5
      BY <1>5, <3>1, FactKinds
    <3>3. Priority(y) \in 0 .. 5 /\ (Priority(y) = 5 <=> y.id = "event")
      BY FactKinds
    <3> QED
      BY <3>1, <3>2, <3>3
  <2>2. PICK others : others = facts \ {x}
    OBVIOUS
  <2>3. IsFiniteSet(others) /\ Cardinality(others) \in {0, 1}
    <3>1. IsFiniteSet(facts \ {x}) /\ Cardinality(facts \ {x}) = Cardinality(facts) - 1
      BY <1>2, <1>5, FS_RemoveElement
    <3> QED
      BY <1>1, <2>2, <3>1
  <2>4. \E z : others \subseteq {z}
    <3>1. CASE others = {}
      BY <3>1
    <3>2. CASE others # {}
      <4>1. PICK z \in others : TRUE
        BY <3>2
      <4>2. IsFiniteSet(others \ {z}) /\ Cardinality(others \ {z}) = Cardinality(others) - 1
        BY <2>3, <4>1, FS_RemoveElement
      <4>3. Cardinality(others \ {z}) \in Nat
        BY <4>2, FS_CardinalityType
      <4>4. Cardinality(others \ {z}) = 0
        BY <2>3, <4>2, <4>3
      <4>5. others \ {z} = {}
        BY <4>2, <4>4, FS_EmptySet
      <4> QED
        BY <4>5
    <3> QED
      BY <3>1, <3>2
  <2>5. PICK z : others \subseteq {z}
    BY <2>4
  <2>6. PICK ids : ids = {y.id : y \in cited} \ {"event"}
    OBVIOUS
  <2>7. ids \subseteq {z.id}
    <3> SUFFICES ASSUME NEW y \in cited, y.id # "event" PROVE y.id = z.id
      BY <2>6
    <3>1. y \in facts /\ y # x
      BY <1>5, <2>1
    <3>2. y \in others
      BY <2>2, <3>1
    <3> QED
      BY <2>5, <3>2
  <2>8. IsFiniteSet({z.id}) /\ Cardinality({z.id}) = 1
    BY FS_Singleton
  <2>9. Cardinality(ids) <= 1 /\ Cardinality(ids) \in Nat
    BY <2>7, <2>8, FS_Subset, FS_CardinalityType
  <2> QED
    BY <2>6, <2>9
<1> QED
  BY <1>3, <1>4, <1>5

LEMMA FinitelyManyKeyEvents ==
    ASSUME NEW rec, IsRecord(rec), NEW candidates
    PROVE  IsFiniteSet(KeyEvents(rec, candidates))
<1> DEFINE key(m) == [type |-> m.type, round |-> m.round, tick |-> m.tick, who |-> m.who,
                      anchor |-> IsAnchor(m, candidates)]
           M == {x \in Markers(rec) : IsAnchor(x, candidates) \/ x.type \in {"kill", "plant", "defuse"}}
           K == {key(m) : m \in M}
           f == [m \in M |-> key(m)]
<1>1. IsFiniteSet(M)
  BY FinitelyManyMarkers, FS_Subset
<1>2. f \in [M -> K] /\ \A t \in K : \E m \in M : f[m] = t
  OBVIOUS
<1>3. KeyEvents(rec, candidates) = K
  BY DEF KeyEvents
<1> HIDE DEF M, K, f
<1>4. f \in Surjection(M, K)
  BY <1>2 DEF Surjection
<1> QED
  BY <1>1, <1>3, <1>4, FS_Surjection

LEMMA AdviseIsGrounded ==
    ASSUME ReplayInv, NEW adjustment, NEW claims, Advise(adjustment, claims)
    PROVE  AdviceIsGrounded'
<1>1. Answered /\ stage = "advising"
  BY DEF Advise, Answered
<1>2. PICK k \in DOMAIN analyses, goals \in SUBSET Goals :
          /\ question = Prompt(analyses[k].decision, goals,
                               Evidence(record, analyses[k].decision, request.result.keyEvents))
          /\ goals # {}
  BY <1>1 DEF ReplayInv, QuestionIsOfAText
<1>3. PICK rec, d, keyEvents :
          rec = record /\ d = analyses[k].decision /\ keyEvents = request.result.keyEvents
  OBVIOUS
<1>4. question.decision = d /\ question.goals = goals /\ question.facts = Evidence(rec, d, keyEvents)
  BY <1>2, <1>3 DEF Prompt
<1>5. IsFiniteSet(keyEvents)
  <2>1. /\ IsRecord(record)
        /\ keyEvents = {m \in KeyEvents(record, Candidates(record)) : request.player \in m.who}
    BY <1>1, <1>3, RequestFields
  <2>2. IsFiniteSet(KeyEvents(rec, Candidates(rec)))
    BY <1>3, <2>1, FinitelyManyKeyEvents
  <2>3. keyEvents \subseteq KeyEvents(rec, Candidates(rec))
    BY <1>3, <2>1
  <2> QED
    BY <2>2, <2>3, FS_Subset
<1>6. PICK utility : utility = HasUtility(rec, d)
  OBVIOUS
<1>7. utility \in BOOLEAN
  BY <1>6 DEF HasUtility
<1>8. PICK cited : cited = {c[1] : c \in claims}
  OBVIOUS
<1>9. CASE ~IsGrounded(adjustment, claims, question.facts, d, utility)
  <2>1. reply' = [status |-> "malformed"]
    BY <1>3, <1>4, <1>6, <1>9 DEF Advise
  <2>2. reply'.status # "advised"
    BY <2>1
  <2> QED
    BY <2>2 DEF AdviceIsGrounded
<1>10. CASE IsGrounded(adjustment, claims, question.facts, d, utility)
  <2>1. \E facts \in Summaries(cited) :
            reply' = Published(Resolve(goals, adjustment, utility), cited, facts)
    BY <1>3, <1>4, <1>6, <1>8, <1>10 DEF Advise
  <2>2. PICK facts \in Summaries(cited) :
            reply' = Published(Resolve(goals, adjustment, utility), cited, facts)
    BY <2>1
  <2>3. PICK advice : advice = Resolve(goals, adjustment, utility)
    OBVIOUS
  <2>4. /\ reply'.advice = advice /\ reply'.cited = cited
        /\ reply'.told = {Statement(fact) : fact \in facts}
    BY <2>2, <2>3 DEF Published
  <2>5. (\E g \in goals : advice \in Allowed[g]) /\ (advice = "utility" => utility)
    BY <1>2, <1>7, <2>3, ResolveIsAllowed
  <2>6. cited \subseteq Evidence(rec, d, keyEvents)
    BY <1>4, <1>8, <1>10 DEF IsGrounded
  <2>7. \E fact \in cited : Substantive(fact, d)
    BY <1>8, <1>10 DEF IsGrounded, SupportsEachField
  <2>8. facts \subseteq cited
    BY DEF Summaries
  <2>9. /\ \A x \in cited : x.id = "contact-state" => x \in facts
        /\ \A x \in facts : x.id = "event" =>
               /\ "kill" \notin Statement(x).says
               /\ Cardinality({y.id : y \in cited} \ {"event"}) < 2
    BY <1>5, <2>6, SummariesTell
  <2>10. \A x \in cited : x.id = "contact-state" => Statement(x) \in reply'.told
    BY <2>4, <2>9
  <2>11. \A said \in reply'.told : said.id = "event" =>
             /\ "kill" \notin said.says
             /\ Cardinality({y.id : y \in cited} \ {"event"}) < 2
    <3> SUFFICES ASSUME NEW x \in facts, Statement(x).id = "event"
                 PROVE  /\ "kill" \notin Statement(x).says
                        /\ Cardinality({y.id : y \in cited} \ {"event"}) < 2
      BY <2>4
    <3>1. x.id = "event"
      BY DEF Statement
    <3> QED
      BY <2>9, <3>1
  <2>12. /\ question'.decision = d /\ question'.goals = goals
         /\ record' = rec /\ request'.result.keyEvents = keyEvents
    BY <1>1, <1>3, <1>4 DEF Answered
  <2> QED
    BY <1>6, <2>4, <2>5, <2>6, <2>7, <2>10, <2>11, <2>12 DEF AdviceIsGrounded
<1> QED
  BY <1>9, <1>10

\* Whatever the language model answers, in whatever order it cites: advice that
\* is published suits a stated goal, is a grenade only if there is one, cites
\* facts of the moment asked about, one of them more than the contact, tells
\* the cited telemetry before any event, and never a kill.
THEOREM PublishedAdviceIsGrounded == ReplaySpec => []AdviceIsGrounded
<1>1. ReplayInit => AdviceIsGrounded
  BY DEF ReplayInit, AdviceIsGrounded
<1>2. ASSUME ReplayInv, AdviceIsGrounded, [ReplayNext]_replayVars PROVE AdviceIsGrounded'
  <2>1. CASE AdviseSomething
    BY <1>2, <2>1, AdviseIsGrounded DEF AdviseSomething
  <2>2. CASE reply' = None
    BY <2>2 DEF AdviceIsGrounded
  <2>3. CASE reply'.status # "advised"
    BY <2>3 DEF AdviceIsGrounded
  <2>4. CASE UNCHANGED replayVars
    BY <1>2, <2>4 DEF AdviceIsGrounded, replayVars
  <2>5. Prepare => reply' = None
    BY <1>2 DEF Prepare, ReplayInv, QuestionIsOfAText
  <2>6. \A p \in Players : SelectPlayer(p) => reply' = None
    BY <1>2 DEF SelectPlayer, ReplayInv, QuestionIsOfAText
  <2>7. \A answer \in Answers : CoachAnswers(answer) => reply' = None
    BY <1>2 DEF CoachAnswers, ReplayInv, QuestionIsOfAText
  <2>8. ASSUME NEW d, NEW text, AskIntent(d, text)
        PROVE  reply' = None \/ reply' = [status |-> "insufficient"]
    BY <2>8 DEF AskIntent
  <2>9. ASSUME NEW confident, NEW interpretations, Interpret(confident, interpretations)
        PROVE  reply' = None \/ reply' = Clarification
    BY <1>2, <2>9 DEF Interpret, ReplayInv, QuestionIsOfAText
  <2>10. ModelFails => reply' = None \/ reply' = [status |-> "unavailable"]
    BY <1>2 DEF ModelFails, ReplayInv, QuestionIsOfAText
  <2>11. /\ Clarification.status = "clarify"
         /\ [status |-> "unavailable"].status = "unavailable"
         /\ [status |-> "insufficient"].status = "insufficient"
    BY DEF Clarification
  <2> QED
    BY <1>2, <2>1, <2>2, <2>3, <2>4, <2>5, <2>6, <2>7, <2>8, <2>9, <2>10, <2>11, ReplayActions
<1> QED
  BY <1>1, <1>2, ReplaysKeepTheInvariant, PTL DEF ReplaySpec

-----------------------------------------------------------------------------
(***************************************************************************)
(* First contacts.  Anchors are defined by recursion along the contacts;   *)
(* that the recursion defines them is shown by the least length it could   *)
(* not reach.                                                              *)
(***************************************************************************)

LEMMA LeastNumber ==
    ASSUME NEW m \in Nat, NEW B \in SUBSET (0 .. m), B # {}
    PROVE  \E n \in B : \A k \in B : n <= k
<1> DEFINE R == {x \in B \X B : x[1] < x[2]}
<1>1. \A n \in B : n \in Nat
  OBVIOUS
<1>2. IsFiniteSet(B)
  <2>1. IsFiniteSet(0 .. m)
    BY FS_Interval
  <2> QED
    BY <2>1, FS_Subset
<1>3. IsOrder(B, R)
  BY <1>1 DEF IsOrder
<1>4. Cardinality(B) \in Nat /\ Cardinality(B) # 0
  BY <1>2, FS_CardinalityType, FS_EmptySet
<1>5. 1 \in 1 .. Cardinality(B)
  BY <1>4
<1>6. PICK n \in B : Cardinality(Below(B, R, n)) = 0
  <2> HIDE DEF R
  <2>1. \E n \in B : Cardinality(Below(B, R, n)) = 1 - 1
    BY <1>2, <1>3, <1>5, RanksExist
  <2> QED
    BY <2>1
<1>7. Below(B, R, n) = {}
  <2>1. IsFiniteSet(Below(B, R, n))
    BY <1>2, FS_Subset DEF Below
  <2> QED
    BY <1>6, <2>1, FS_EmptySet
<1>8. \A k \in B : ~(k < n)
  BY <1>7 DEF Below
<1> QED
  BY <1>1, <1>8

\* A choice among the first n, made of whom it excludes among those before.
Excludes(f, n, C) == \A j \in 1 .. n : f[j] = (\A k \in 1 .. (j - 1) : ~(f[k] /\ <<j, k>> \in C))

LEMMA ChoicesExist ==
    ASSUME NEW m \in Nat, NEW C
    PROVE  \E f \in [1 .. m -> BOOLEAN] : Excludes(f, m, C)
<1> DEFINE Done(n) == \E f \in [1 .. n -> BOOLEAN] : Excludes(f, n, C)
           B == {n \in 0 .. m : ~Done(n)}
<1>1. SUFFICES ASSUME B # {} PROVE FALSE
  OBVIOUS
<1>2. PICK n \in B : \A k \in B : n <= k
  <2> HIDE DEF Done
  <2> QED
    BY <1>1, LeastNumber
<1>3. n # 0
  <2>1. [j \in 1 .. 0 |-> TRUE] \in [1 .. 0 -> BOOLEAN]
    OBVIOUS
  <2>2. Excludes([j \in 1 .. 0 |-> TRUE], 0, C)
    BY DEF Excludes
  <2>3. Done(0)
    BY <2>1, <2>2
  <2> QED
    BY <2>3
<1>4. PICK p : p = n - 1
  OBVIOUS
<1>5. p \in 0 .. m /\ p \notin B /\ n \in Nat /\ p \in Nat /\ n = p + 1
  BY <1>2, <1>3, <1>4
<1>6. PICK f \in [1 .. p -> BOOLEAN] : Excludes(f, p, C)
  BY <1>5
<1> DEFINE g == [j \in 1 .. n |->
                    IF j = n THEN \A k \in 1 .. p : ~(f[k] /\ <<n, k>> \in C) ELSE f[j]]
<1>7. g \in [1 .. n -> BOOLEAN]
  <2>1. ASSUME NEW j \in 1 .. n PROVE g[j] \in BOOLEAN
    <3>1. CASE j = n
      BY <3>1
    <3>2. CASE j # n
      <4>1. j \in 1 .. p
        BY <1>5, <3>2
      <4> QED
        BY <3>2, <4>1
    <3> QED
      BY <3>1, <3>2
  <2> QED
    BY <2>1
<1>8. ASSUME NEW k \in 1 .. p PROVE k \in 1 .. n /\ k # n /\ g[k] = f[k]
  <2>1. k \in 1 .. n /\ k # n
    BY <1>5
  <2> QED
    BY <2>1
<1>9. Excludes(g, n, C)
  <2>1. ASSUME NEW j \in 1 .. n
        PROVE  g[j] = (\A k \in 1 .. (j - 1) : ~(g[k] /\ <<j, k>> \in C))
    <3>1. CASE j = n
      <4>1. 1 .. (j - 1) = 1 .. p
        BY <1>5, <3>1
      <4>2. g[j] = (\A k \in 1 .. p : ~(f[k] /\ <<n, k>> \in C))
        BY <3>1
      <4> HIDE DEF g
      <4> QED
        BY <1>8, <3>1, <4>1, <4>2
    <3>2. CASE j # n
      <4>1. j \in 1 .. p /\ \A k \in 1 .. (j - 1) : k \in 1 .. p
        BY <1>5, <3>2
      <4>2. f[j] = (\A k \in 1 .. (j - 1) : ~(f[k] /\ <<j, k>> \in C))
        BY <1>6, <4>1 DEF Excludes
      <4> HIDE DEF g
      <4> QED
        BY <1>8, <4>1, <4>2
    <3> QED
      BY <3>1, <3>2
  <2> HIDE DEF g
  <2> QED
    BY <2>1 DEF Excludes
<1>10. Done(n)
  <2> HIDE DEF g
  <2> QED
    BY <1>7, <1>9
<1> QED
  BY <1>10

\* Of two events of one round, the earlier one is told of no later tick; and
\* none is before itself or before one that is before it.
LEMMA EarlierEvents ==
    ASSUME NEW rec, IsRecord(rec), NEW i \in DOMAIN rec.events, NEW j \in DOMAIN rec.events,
           Before(rec, i, j)
    PROVE  /\ ~Before(rec, j, i) /\ i # j
           /\ rec.events[i].round = rec.events[j].round
              => rec.events[i].tick <= rec.events[j].tick
<1>1. /\ i \in Nat /\ j \in Nat
      /\ rec.events[i].round \in Nat /\ rec.events[j].round \in Nat
      /\ rec.events[i].tick \in Nat /\ rec.events[j].tick \in Nat
  BY EventFields
<1> QED
  BY <1>1 DEF Before

\* One of some events is before all others.
LEMMA EarliestEvent ==
    ASSUME NEW rec, IsRecord(rec), NEW S \in SUBSET DOMAIN rec.events, S # {}
    PROVE  \E i \in S : \A j \in S : j # i => Before(rec, i, j)
<1> DEFINE R == {x \in S \X S : Before(rec, x[1], x[2])}
<1>1. IsFiniteSet(S) /\ IsOrder(S, R)
  BY FinitelyManyContacts, FS_Subset, ContactsAreOrdered
<1>2. Cardinality(S) \in Nat /\ Cardinality(S) # 0
  BY <1>1, FS_CardinalityType, FS_EmptySet
<1>3. PICK i \in S : Cardinality(Below(S, R, i)) = 0
  <2> HIDE DEF R
  <2>1. 1 \in 1 .. Cardinality(S)
    BY <1>2
  <2>2. \E i \in S : Cardinality(Below(S, R, i)) = 1 - 1
    BY <1>1, <2>1, RanksExist
  <2> QED
    BY <2>2
<1>4. Below(S, R, i) = {}
  <2>1. IsFiniteSet(Below(S, R, i))
    BY <1>1, FS_Subset DEF Below
  <2> QED
    BY <1>3, <2>1, FS_EmptySet
<1>5. ASSUME NEW j \in S, j # i PROVE Before(rec, i, j)
  <2>1. <<j, i>> \notin R
    BY <1>4 DEF Below
  <2>2. <<i, j>> \in R
    <3> HIDE DEF R
    <3> QED
      BY <1>1, <1>5, <2>1 DEF IsOrder
  <2> QED
    BY <2>2
<1> QED
  BY <1>5

\* Which contacts open a window: those that no other that does is shortly before.
LEMMA AnchorRule ==
    ASSUME NEW rec, IsRecord(rec), NEW i \in Contacts(rec)
    PROVE  i \in Anchors(rec) <=>
               \A j \in Anchors(rec) :
                   Before(rec, j, i) /\ SameFight(rec.events[i], rec.events[j])
                   => rec.events[i].tick - rec.events[j].tick >= Horizon
<1> DEFINE o == InOrder(Contacts(rec), LAMBDA x, y : Before(rec, x, y))
           e(n) == rec.events[o[n]]
           C == {x \in (1 .. Len(o)) \X (1 .. Len(o)) :
                    /\ SameFight(e(x[1]), e(x[2]))
                    /\ ~(e(x[1]).tick - e(x[2]).tick >= Horizon)}
           rule(f) == [n \in 1 .. Len(o) |->
                          \A k \in 1 .. (n - 1) :
                              f[k] /\ SameFight(rec.events[o[n]], rec.events[o[k]])
                              => rec.events[o[n]].tick - rec.events[o[k]].tick >= Horizon]
           anchor == CHOOSE f : f = rule(f)
<1>1. Anchors(rec) = {o[n] : n \in {k \in 1 .. Len(o) : anchor[k]}}
  BY Zenon DEF Anchors
<1>0. o = InOrder(Contacts(rec), LAMBDA x, y : Before(rec, x, y))
  OBVIOUS
<1> HIDE DEF o
<1>2. /\ o \in Seq(Contacts(rec)) /\ Range(o) = Contacts(rec)
      /\ \A j, k \in DOMAIN o : j < k => Before(rec, o[j], o[k])
  BY <1>0, ContactSequence
<1>3. Len(o) \in Nat /\ DOMAIN o = 1 .. Len(o)
  BY <1>2
<1>4. \E f : f = rule(f)
  <2>1. PICK f \in [1 .. Len(o) -> BOOLEAN] : Excludes(f, Len(o), C)
    <3> HIDE DEF C
    <3> QED
      BY <1>3, ChoicesExist
  <2>2. ASSUME NEW n \in 1 .. Len(o) PROVE f[n] = rule(f)[n]
    <3>1. f[n] = (\A k \in 1 .. (n - 1) : ~(f[k] /\ <<n, k>> \in C))
      BY <2>1 DEF Excludes
    <3>2. \A k \in 1 .. (n - 1) : k \in 1 .. Len(o)
      BY <1>3
    <3>3. \A k \in 1 .. (n - 1) :
              <<n, k>> \in C <=> /\ SameFight(rec.events[o[n]], rec.events[o[k]])
                                 /\ ~(rec.events[o[n]].tick - rec.events[o[k]].tick >= Horizon)
      BY <3>2
    <3> HIDE DEF C
    <3>4. rule(f)[n] = (\A k \in 1 .. (n - 1) :
                            f[k] /\ SameFight(rec.events[o[n]], rec.events[o[k]])
                            => rec.events[o[n]].tick - rec.events[o[k]].tick >= Horizon)
      OBVIOUS
    <3> HIDE DEF rule
    <3> QED
      BY <3>1, <3>3, <3>4
  <2>3. f = rule(f)
    BY <2>2
  <2> QED
    BY <2>3
<1>5. anchor = rule(anchor)
  <2> HIDE DEF rule
  <2> QED
    BY <1>4
<1> HIDE DEF anchor
<1>6. \A n \in 1 .. Len(o) :
          anchor[n] = (\A k \in 1 .. (n - 1) :
                           anchor[k] /\ SameFight(rec.events[o[n]], rec.events[o[k]])
                           => rec.events[o[n]].tick - rec.events[o[k]].tick >= Horizon)
  <2>1. \A n \in 1 .. Len(o) :
          rule(anchor)[n] = (\A k \in 1 .. (n - 1) :
                           anchor[k] /\ SameFight(rec.events[o[n]], rec.events[o[k]])
                           => rec.events[o[n]].tick - rec.events[o[k]].tick >= Horizon)
    OBVIOUS
  <2> HIDE DEF rule
  <2> QED
    BY <1>5, <2>1
<1> HIDE DEF rule
<1>7. PICK n \in 1 .. Len(o) : o[n] = i
  BY <1>2, <1>3 DEF Range
<1>8. \A k \in 1 .. Len(o) : Before(rec, o[k], i) <=> k < n
  <2>1. ASSUME NEW k \in 1 .. Len(o), k < n PROVE Before(rec, o[k], i)
    BY <1>2, <1>3, <1>7, <2>1
  <2>2. ASSUME NEW k \in 1 .. Len(o), ~(k < n) PROVE ~Before(rec, o[k], i)
    <3>1. o[k] \in DOMAIN rec.events /\ i \in DOMAIN rec.events
      BY <1>2, <1>3, FinitelyManyContacts
    <3>2. k = n \/ n < k
      BY <1>3, <2>2
    <3>3. o[k] = i \/ Before(rec, i, o[k])
      BY <1>2, <1>3, <1>7, <3>2
    <3> QED
      BY <3>1, <3>3, EarlierEvents
  <2> QED
    BY <2>1, <2>2
<1>9. i \in Anchors(rec) <=> anchor[n]
  <2>1. ASSUME NEW k \in 1 .. Len(o), o[k] = i PROVE k = n
    <3>1. ~(k < n)
      <4>1. i \in DOMAIN rec.events
        BY FinitelyManyContacts
      <4>2. ~Before(rec, i, i)
        BY <4>1, EarlierEvents
      <4> QED
        BY <1>8, <2>1, <4>2
    <3>2. ~(n < k)
      <4>1. i \in DOMAIN rec.events
        BY FinitelyManyContacts
      <4>2. ~Before(rec, i, i)
        BY <4>1, EarlierEvents
      <4> QED
        BY <1>2, <1>3, <1>7, <2>1, <4>2
    <3> QED
      BY <1>3, <3>1, <3>2
  <2> QED
    BY <1>1, <1>7, <2>1
<1>10. ASSUME anchor[n], NEW j \in Anchors(rec), Before(rec, j, i),
              SameFight(rec.events[i], rec.events[j])
       PROVE  rec.events[i].tick - rec.events[j].tick >= Horizon
  <2>1. PICK k \in 1 .. Len(o) : anchor[k] /\ o[k] = j
    BY <1>1
  <2>2. k \in 1 .. (n - 1)
    BY <1>3, <1>8, <1>10, <2>1
  <2> QED
    BY <1>6, <1>7, <1>10, <2>1, <2>2
<1>11. ASSUME \A j \in Anchors(rec) :
                  Before(rec, j, i) /\ SameFight(rec.events[i], rec.events[j])
                  => rec.events[i].tick - rec.events[j].tick >= Horizon
       PROVE  anchor[n]
  <2>1. ASSUME NEW k \in 1 .. (n - 1), anchor[k],
               SameFight(rec.events[o[n]], rec.events[o[k]])
        PROVE  rec.events[o[n]].tick - rec.events[o[k]].tick >= Horizon
    <3>1. k \in 1 .. Len(o) /\ k < n
      BY <1>3
    <3>2. o[k] \in Anchors(rec) /\ Before(rec, o[k], i)
      BY <1>1, <1>8, <2>1, <3>1
    <3> QED
      BY <1>7, <1>11, <2>1, <3>2
  <2> QED
    BY <1>6, <2>1
<1> QED
  BY <1>9, <1>10, <1>11

\* A contact without an earlier one of the same fight opens a window.
LEMMA FirstOfAFightIsAnAnchor ==
    ASSUME NEW rec, IsRecord(rec), NEW i \in Contacts(rec),
           \A j \in Contacts(rec) :
               Before(rec, j, i) => ~SameFight(rec.events[i], rec.events[j])
    PROVE  i \in Anchors(rec)
BY AnchorRule, AnchorsAreContacts

\* The damages of a round that a player took part in, each as first told.
InvolvedAt(rec, r, p) ==
    {i \in OfKind(rec, "damage") :
        rec.events[i].round = r /\ p \in {rec.events[i].attacker, rec.events[i].victim}}

LEMMA RealEventsAreTold ==
    ASSUME NEW rec, IsRecord(rec), NEW i \in OfKind(rec, "damage")
    PROVE  /\ i \in DOMAIN rec.events /\ rec.events[i].kind = "damage"
           /\ i \in Contacts(rec) /\ Real(rec.events[i])
BY DEF OfKind, RealEvents, Contacts

\* Whatever is told is told a first time.
LEMMA ToldOnceBefore ==
    ASSUME NEW rec, IsRecord(rec), NEW e \in Range(rec.events), Real(e), e.kind = "damage"
    PROVE  \E i \in OfKind(rec, "damage") : rec.events[i] = e
<1>1. DOMAIN rec.events = 1 .. Len(rec.events) /\ Len(rec.events) \in Nat
  BY DEF IsRecord
<1> DEFINE B == {i \in DOMAIN rec.events : rec.events[i] = e}
<1>2. B \in SUBSET (0 .. Len(rec.events)) /\ B # {}
  BY <1>1 DEF Range
<1>3. PICK i \in B : \A k \in B : i <= k
  <2> HIDE DEF B
  <2> QED
    BY <1>1, <1>2, LeastNumber
<1>4. ASSUME NEW j \in 1 .. (i - 1) PROVE rec.events[j] # rec.events[i]
  <2>1. j \in DOMAIN rec.events /\ ~(i <= j)
    BY <1>1, <1>3
  <2> QED
    BY <1>3, <2>1
<1>5. i \in RealEvents(rec)
  BY <1>3, <1>4 DEF RealEvents
<1> QED
  BY <1>3, <1>5 DEF OfKind

\* The first damage of a player in a round opens a window, and its tick is the
\* one FirstDamage names.
IsFirstOf(rec, r, p, i) ==
    /\ i \in InvolvedAt(rec, r, p)
    /\ \A j \in InvolvedAt(rec, r, p) : j # i => Before(rec, i, j)

LEMMA FirstInvolved ==
    ASSUME NEW rec, IsRecord(rec), NEW r, NEW p, InvolvedAt(rec, r, p) # {}
    PROVE  \E i : IsFirstOf(rec, r, p, i)
<1>1. InvolvedAt(rec, r, p) \in SUBSET DOMAIN rec.events
  BY RealEventsAreTold DEF InvolvedAt
<1>2. PICK i \in InvolvedAt(rec, r, p) :
          \A j \in InvolvedAt(rec, r, p) : j # i => Before(rec, i, j)
  BY <1>1, EarliestEvent
<1> QED
  BY <1>2 DEF IsFirstOf

LEMMA FirstInvolvedIsAnAnchor ==
    ASSUME NEW rec, IsRecord(rec), NEW r, NEW p, NEW i, IsFirstOf(rec, r, p, i)
    PROVE  i \in Anchors(rec)
<1>1. /\ i \in OfKind(rec, "damage") /\ rec.events[i].round = r
      /\ p \in {rec.events[i].attacker, rec.events[i].victim}
  BY DEF IsFirstOf, InvolvedAt
<1>2. Contacts(rec) = OfKind(rec, "damage")
  BY <1>1 DEF Contacts
<1>3. ASSUME NEW j \in Contacts(rec), Before(rec, j, i), SameFight(rec.events[i], rec.events[j])
      PROVE  FALSE
  <2>1. j \in InvolvedAt(rec, r, p)
    BY <1>1, <1>2, <1>3 DEF InvolvedAt, SameFight
  <2>2. i \in DOMAIN rec.events /\ j \in DOMAIN rec.events
    BY <1>1, <1>2, RealEventsAreTold
  <2>3. ~Before(rec, i, j) /\ j # i
    BY <1>3, <2>2, EarlierEvents
  <2> QED
    BY <2>1, <2>3 DEF IsFirstOf
<1>4. i \in Contacts(rec)
  BY <1>1, <1>2
<1> QED
  BY <1>3, <1>4, FirstOfAFightIsAnAnchor

LEMMA FirstDamageIsInvolved ==
    ASSUME NEW rec, IsRecord(rec), NEW r, NEW p
    PROVE  /\ FirstDamage(rec, r, p) = None <=> InvolvedAt(rec, r, p) = {}
           /\ \A i : IsFirstOf(rec, r, p, i) => FirstDamage(rec, r, p) = rec.events[i].tick
<1> DEFINE mine == {e \in Range(rec.events) :
                       Real(e) /\ e.kind = "damage" /\ e.round = r /\ p \in {e.attacker, e.victim}}
           ticks == {e.tick : e \in mine}
<1>1. \A i \in InvolvedAt(rec, r, p) : rec.events[i] \in mine
  BY RealEventsAreTold DEF InvolvedAt, Range
<1>2. ASSUME NEW e \in mine PROVE \E i \in InvolvedAt(rec, r, p) : rec.events[i] = e
  <2>1. e \in Range(rec.events) /\ Real(e) /\ e.kind = "damage"
    OBVIOUS
  <2>2. PICK i \in OfKind(rec, "damage") : rec.events[i] = e
    BY <2>1, ToldOnceBefore
  <2> QED
    BY <2>2 DEF InvolvedAt
<1>3. FirstDamage(rec, r, p) = IF mine = {} THEN None ELSE Least(ticks)
  BY DEF FirstDamage
<1> HIDE DEF mine
<1>4. ASSUME NEW i, IsFirstOf(rec, r, p, i)
      PROVE  FirstDamage(rec, r, p) = rec.events[i].tick /\ rec.events[i].tick \in Nat
  <2>1. /\ i \in InvolvedAt(rec, r, p) /\ rec.events[i] \in mine
        /\ \A j \in InvolvedAt(rec, r, p) : j # i => Before(rec, i, j)
    BY <1>1, <1>4 DEF IsFirstOf
  <2>2. \A j \in InvolvedAt(rec, r, p) : j \in DOMAIN rec.events /\ rec.events[j].round = r
    BY RealEventsAreTold DEF InvolvedAt
  <2>3. \A j \in InvolvedAt(rec, r, p) : rec.events[j].tick \in Nat
    BY <2>2, EventFields
  <2>4. \A j \in InvolvedAt(rec, r, p) : rec.events[i].tick <= rec.events[j].tick
    BY <2>1, <2>2, <2>3, EarlierEvents
  <2>5. PICK t : t = rec.events[i].tick
    OBVIOUS
  <2>6. t \in ticks /\ t \in Nat
    BY <2>1, <2>3, <2>5
  <2>7. \A u \in ticks : u \in Nat /\ t <= u
    BY <1>2, <2>3, <2>4, <2>5
  <2> HIDE DEF ticks
  <2>8. Least(ticks) = t
    <3>1. PICK n : n = Least(ticks)
      OBVIOUS
    <3>2. n \in ticks /\ \A u \in ticks : n <= u
      BY <2>6, <2>7, <3>1 DEF Least
    <3> QED
      BY <2>6, <2>7, <3>1, <3>2
  <2> QED
    BY <1>3, <2>1, <2>5, <2>6, <2>8
<1>5. InvolvedAt(rec, r, p) = {} => FirstDamage(rec, r, p) = None
  BY <1>2, <1>3
<1>6. InvolvedAt(rec, r, p) # {} => FirstDamage(rec, r, p) # None
  BY <1>4, FirstInvolved, WindowAssumption
<1> QED
  BY <1>4, <1>5, <1>6

\* The fields of a window of an event.
LEMMA RoleFields ==
    ASSUME NEW rec, NEW i, NEW role
    PROVE  LET e == rec.events[i]
               w == WindowOf(rec, i, role)
           IN  /\ w.event = i /\ w.role = role /\ w.round = e.round /\ w.kind = e.kind
               /\ w.contact = e.tick
               /\ w.player = IF role = "attacker" THEN e.attacker ELSE e.victim
               /\ w.opponent = IF role = "attacker" THEN e.victim ELSE e.attacker
BY DEF WindowOf

\* A window is open if the round was not over at the decision.
LEMMA OpenInTime ==
    ASSUME NEW rec, IsRecord(rec), NEW i \in DOMAIN rec.events, NEW role
    PROVE  LET e == rec.events[i]
               w == WindowOf(rec, i, role)
           IN  w.open < w.until <=> HadTime(rec, e.round, e.tick)
<1> DEFINE e     == rec.events[i]
           times == rec.rounds[e.round]
           w     == WindowOf(rec, i, role)
           open  == IF e.tick - Lead > times.start THEN e.tick - Lead ELSE times.start
           end   == EndOf(times)
<1>1. e.round \in Rounds /\ e.tick \in Nat
  BY EventFields
<1>2. times \in RoundTimes
  BY <1>1 DEF IsRecord
<1>3. times.start \in Nat /\ end \in Nat \cup {None}
  BY <1>2 DEF RoundTimes, EndOf
<1>4. Lead \in Nat /\ Horizon \in Nat /\ Horizon > 0
  BY WindowAssumption
<1>5. w.open = open /\ w.until = IF end # None /\ end < open + Horizon THEN end ELSE open + Horizon
  BY DEF WindowOf
<1>6. open \in Int
  BY <1>1, <1>3, <1>4
<1>7. HadTime(rec, e.round, e.tick) <=> end = None \/ open < end
  BY DEF HadTime
<1> HIDE DEF e, times, w, open, end
<1>8. w.open < w.until <=> end = None \/ open < end
  <2>1. CASE end = None
    BY <1>4, <1>5, <1>6, <2>1
  <2>2. CASE end # None
    BY <1>3, <1>4, <1>5, <1>6, <2>2
  <2> QED
    BY <2>1, <2>2
<1> QED
  BY <1>7, <1>8 DEF e, w

\* Who has time later in a round had it before.
LEMMA TimeRunsOut ==
    ASSUME NEW rec, IsRecord(rec), NEW r \in Rounds, NEW t \in Nat, NEW u \in Nat, u <= t,
           HadTime(rec, r, t)
    PROVE  HadTime(rec, r, u)
<1> DEFINE times == rec.rounds[r]
           end   == EndOf(times)
           open(n) == IF n - Lead > times.start THEN n - Lead ELSE times.start
<1>1. times \in RoundTimes
  BY DEF IsRecord
<1>2. times.start \in Nat /\ end \in Nat \cup {None} /\ Lead \in Nat
  BY <1>1, WindowAssumption DEF RoundTimes, EndOf
<1>3. open(u) <= open(t) /\ open(u) \in Int /\ open(t) \in Int
  BY <1>2
<1>4. end = None \/ open(t) < end
  BY DEF HadTime
<1>5. end = None \/ open(u) < end
  <2> HIDE DEF open, end
  <2> QED
    BY <1>2, <1>3, <1>4
<1> QED
  BY <1>5 DEF HadTime

LEMMA OpenWindowFields ==
    ASSUME NEW rec, IsRecord(rec), NEW w \in OpenWindows(rec)
    PROVE  LET e == rec.events[w.event]
           IN  /\ w.event \in Anchors(rec) /\ w.event \in Contacts(rec)
               /\ w.event \in DOMAIN rec.events /\ w.role \in {"attacker", "victim"}
               /\ w = WindowOf(rec, w.event, w.role)
               /\ HadTime(rec, e.round, e.tick)
<1>1. PICK x \in Anchors(rec) \X {"attacker", "victim"} : w = WindowOf(rec, x[1], x[2])
  BY DEF OpenWindows
<1>2. PICK i, role : /\ i \in Anchors(rec) /\ role \in {"attacker", "victim"}
                     /\ w = WindowOf(rec, i, role)
  BY <1>1
<1>3. i \in Contacts(rec) /\ i \in DOMAIN rec.events
  BY <1>2, AnchorsAreContacts, FinitelyManyContacts
<1>4. w.event = i /\ w.role = role
  BY <1>2, RoleFields
<1>5. w.open < w.until
  BY DEF OpenWindows
<1> QED
  BY <1>2, <1>3, <1>4, <1>5, OpenInTime

LEMMA WindowsAreOrdered ==
    ASSUME NEW rec, IsRecord(rec),
           NEW u \in OpenWindows(rec), NEW v \in OpenWindows(rec), NEW w \in OpenWindows(rec)
    PROVE  /\ ~WindowBefore(rec, u, u)
           /\ WindowBefore(rec, u, v) => ~WindowBefore(rec, v, u)
           /\ WindowBefore(rec, u, v) /\ WindowBefore(rec, v, w) => WindowBefore(rec, u, w)
<1> DEFINE S == DOMAIN rec.events
           R == {x \in S \X S : Before(rec, x[1], x[2])}
<1>1. /\ u.event \in S /\ v.event \in S /\ w.event \in S
      /\ {u.role, v.role, w.role} \subseteq {"attacker", "victim"}
  BY OpenWindowFields
<1>2. \A i \in S : ~Before(rec, i, i)
  BY ContactsAreOrdered DEF IsOrder
<1>3. \A i, j, k \in S : Before(rec, i, j) /\ Before(rec, j, k) => Before(rec, i, k)
  <2>1. \A i, j \in S : <<i, j>> \in R <=> Before(rec, i, j)
    OBVIOUS
  <2>2. IsOrder(S, R)
    BY ContactsAreOrdered
  <2> HIDE DEF R, S
  <2> QED
    BY <2>1, <2>2 DEF IsOrder
<1> HIDE DEF R, S
<1> QED
  BY <1>1, <1>2, <1>3 DEF WindowBefore

\* The limit cuts the last windows.
LEMMA EarlierWindowsAreKept ==
    ASSUME NEW rec, IsRecord(rec), NEW v \in OpenWindows(rec), NEW w \in Windows(rec),
           WindowBefore(rec, v, w)
    PROVE  v \in Windows(rec)
<1>1. w \in OpenWindows(rec) /\ Cardinality(WindowsBefore(rec, w)) < MaxWindows
  BY KeptWindows
<1>2. IsFiniteSet(WindowsBefore(rec, w))
  BY FinitelyManyOpenWindows, FS_Subset DEF WindowsBefore
<1>3. WindowsBefore(rec, v) \in SUBSET WindowsBefore(rec, w)
  BY <1>1, WindowsAreOrdered DEF WindowsBefore
<1>4. /\ IsFiniteSet(WindowsBefore(rec, v))
      /\ Cardinality(WindowsBefore(rec, v)) <= Cardinality(WindowsBefore(rec, w))
  BY <1>2, <1>3, FS_Subset
<1>5. Cardinality(WindowsBefore(rec, v)) \in Nat /\ Cardinality(WindowsBefore(rec, w)) \in Nat
  BY <1>2, <1>4, FS_CardinalityType
<1>6. MaxWindows \in Nat
  BY WindowAssumption
<1> QED
  BY <1>1, <1>4, <1>5, <1>6, KeptWindows

\* The window that the first damage of a player in a round opens for them.
FirstWindowOf(rec, p, i) ==
    WindowOf(rec, i, IF p = rec.events[i].attacker THEN "attacker" ELSE "victim")

LEMMA FirstWindowFields ==
    ASSUME NEW rec, IsRecord(rec), NEW r, NEW p, NEW i, IsFirstOf(rec, r, p, i)
    PROVE  LET w == FirstWindowOf(rec, p, i)
           IN  /\ w.event = i /\ w.player = p /\ w.round = r /\ w.kind = "damage"
               /\ w.contact = rec.events[i].tick /\ w.role \in {"attacker", "victim"}
               /\ HadTime(rec, r, rec.events[i].tick) => w \in OpenWindows(rec)
<1> DEFINE role == IF p = rec.events[i].attacker THEN "attacker" ELSE "victim"
           w    == FirstWindowOf(rec, p, i)
<1>1. /\ i \in OfKind(rec, "damage") /\ rec.events[i].round = r
      /\ p \in {rec.events[i].attacker, rec.events[i].victim}
  BY DEF IsFirstOf, InvolvedAt
<1>2. i \in DOMAIN rec.events /\ rec.events[i].kind = "damage"
  BY <1>1, RealEventsAreTold
<1>3. w = WindowOf(rec, i, role) /\ role \in {"attacker", "victim"}
  BY DEF FirstWindowOf
<1>4. /\ w.event = i /\ w.role = role /\ w.round = r /\ w.kind = "damage"
      /\ w.contact = rec.events[i].tick /\ w.player = p
  BY <1>1, <1>2, <1>3, RoleFields
<1>5. ASSUME HadTime(rec, r, rec.events[i].tick) PROVE w \in OpenWindows(rec)
  <2>1. w.open < w.until
    BY <1>1, <1>2, <1>3, <1>5, OpenInTime
  <2>2. <<i, role>> \in Anchors(rec) \X {"attacker", "victim"}
    BY <1>3, FirstInvolvedIsAnAnchor
  <2>3. w \in {WindowOf(rec, x[1], x[2]) : x \in Anchors(rec) \X {"attacker", "victim"}}
    <3> HIDE DEF w, role
    <3> QED
      BY <1>3, <2>2
  <2> QED
    BY <2>1, <2>3 DEF OpenWindows
<1> QED
  BY <1>3, <1>4, <1>5

\* Any open window of the player in the round, while the record tells of damage
\* there, is of a fight the player took part in: it is the first window or comes
\* after it.
LEMMA OtherWindowsAreLater ==
    ASSUME NEW rec, IsRecord(rec), NEW r, NEW p, NEW i, IsFirstOf(rec, r, p, i),
           NEW v \in OpenWindows(rec), v.round = r, v.player = p
    PROVE  /\ HadTime(rec, r, rec.events[i].tick)
           /\ v.contact \in Nat /\ rec.events[i].tick \in Nat /\ rec.events[i].tick <= v.contact
           /\ v = FirstWindowOf(rec, p, i) \/ WindowBefore(rec, FirstWindowOf(rec, p, i), v)
<1> DEFINE f == rec.events[v.event]
           e == rec.events[i]
<1>1. /\ v.event \in Contacts(rec) /\ v.event \in DOMAIN rec.events
      /\ v.role \in {"attacker", "victim"} /\ v = WindowOf(rec, v.event, v.role)
      /\ HadTime(rec, f.round, f.tick)
  BY OpenWindowFields
<1>2. /\ i \in InvolvedAt(rec, r, p) /\ i \in OfKind(rec, "damage") /\ e.round = r
      /\ \A j \in InvolvedAt(rec, r, p) : j # i => Before(rec, i, j)
  BY DEF IsFirstOf, InvolvedAt
<1>3. v.event \in OfKind(rec, "damage")
  BY <1>1, <1>2 DEF Contacts
<1>4. /\ v.round = f.round /\ v.contact = f.tick
      /\ v.player = IF v.role = "attacker" THEN f.attacker ELSE f.victim
  BY <1>1, RoleFields
<1>5. v.event \in InvolvedAt(rec, r, p)
  BY <1>1, <1>3, <1>4 DEF InvolvedAt
<1>6. i \in DOMAIN rec.events /\ Real(f)
  BY <1>2, <1>3, RealEventsAreTold
<1>7. f.tick \in Nat /\ e.tick \in Nat /\ f.round \in Rounds
  BY <1>1, <1>6, EventFields
<1>8. e.tick <= f.tick
  <2>1. CASE v.event = i
    BY <1>7, <2>1
  <2>2. CASE v.event # i
    BY <1>1, <1>2, <1>4, <1>5, <1>6, <2>2, EarlierEvents
  <2> QED
    BY <2>1, <2>2
<1>9. HadTime(rec, r, e.tick)
  BY <1>1, <1>4, <1>7, <1>8, TimeRunsOut
<1>10. CASE v.event = i
  <2>1. v.role = IF p = e.attacker THEN "attacker" ELSE "victim"
    BY <1>1, <1>4, <1>6, <1>10 DEF Real
  <2>2. v = FirstWindowOf(rec, p, i)
    BY <1>1, <1>10, <2>1 DEF FirstWindowOf
  <2> QED
    BY <1>4, <1>7, <1>8, <1>9, <2>2
<1>11. CASE v.event # i
  <2>1. Before(rec, i, v.event) /\ FirstWindowOf(rec, p, i).event = i
    BY <1>2, <1>5, <1>11, FirstWindowFields
  <2>2. WindowBefore(rec, FirstWindowOf(rec, p, i), v)
    BY <1>11, <2>1 DEF WindowBefore
  <2> QED
    BY <1>4, <1>7, <1>8, <1>9, <2>2
<1> QED
  BY <1>10, <1>11

\* So that a moment of the player in the round is of that window.
LEMMA MomentsAreOfFirstWindows ==
    ASSUME NEW rec, IsRecord(rec), NEW r, NEW p, NEW w \in FirstWindows(rec),
           w.round = r, w.player = p
    PROVE  \E i : IsFirstOf(rec, r, p, i) /\ w = FirstWindowOf(rec, p, i)
<1>1. /\ w \in Windows(rec) /\ w \in OpenWindows(rec) /\ w.kind = "damage"
      /\ \A v \in Windows(rec) :
             v.round = w.round /\ v.player = w.player /\ v # w
             => w.contact < v.contact \/ (w.contact = v.contact /\ WindowBefore(rec, w, v))
  BY KeptWindows DEF FirstWindows, IsFirstContact
<1>2. /\ w.event \in Contacts(rec) /\ w.role \in {"attacker", "victim"}
      /\ w = WindowOf(rec, w.event, w.role)
  BY <1>1, OpenWindowFields
<1>3. /\ w.round = rec.events[w.event].round /\ w.kind = rec.events[w.event].kind
      /\ w.player = IF w.role = "attacker" THEN rec.events[w.event].attacker
                                           ELSE rec.events[w.event].victim
  BY <1>2, RoleFields
<1>4. w.event \in InvolvedAt(rec, r, p)
  BY <1>1, <1>2, <1>3 DEF InvolvedAt, Contacts, OfKind
<1>5. PICK i : IsFirstOf(rec, r, p, i)
  BY <1>4, FirstInvolved
<1>6. PICK v : v = FirstWindowOf(rec, p, i)
  OBVIOUS
<1>7. /\ v.player = p /\ v.round = r /\ v.contact = rec.events[i].tick
      /\ v \in OpenWindows(rec) /\ w.contact \in Nat /\ v.contact \in Nat /\ v.contact <= w.contact
      /\ w = v \/ WindowBefore(rec, v, w)
  BY <1>1, <1>5, <1>6, FirstWindowFields, OtherWindowsAreLater
<1>8. ASSUME w # v PROVE FALSE
  <2>1. WindowBefore(rec, v, w)
    BY <1>7, <1>8
  <2>2. v \in Windows(rec)
    BY <1>1, <1>7, <2>1, EarlierWindowsAreKept
  <2>3. WindowBefore(rec, w, v)
    BY <1>1, <1>7, <1>8, <2>2
  <2> QED
    BY <1>1, <1>7, <2>1, <2>3, WindowsAreOrdered
<1> QED
  BY <1>5, <1>6, <1>8

LEMMA FirstWindowsAreFirst ==
    ASSUME NEW rec, IsRecord(rec), Cardinality(OpenWindows(rec)) <= MaxWindows,
           NEW r, NEW p, NEW i, IsFirstOf(rec, r, p, i),
           HadTime(rec, r, rec.events[i].tick)
    PROVE  FirstWindowOf(rec, p, i) \in FirstWindows(rec)
<1>1. PICK w : w = FirstWindowOf(rec, p, i)
  OBVIOUS
<1>2. /\ w \in OpenWindows(rec) /\ w.player = p /\ w.round = r /\ w.kind = "damage"
      /\ w.contact = rec.events[i].tick
  BY <1>1, FirstWindowFields
<1>3. w \in Windows(rec)
  <2> DEFINE O == OpenWindows(rec)
             B == WindowsBefore(rec, w)
  <2>1. B \in SUBSET O /\ B # O
    BY <1>2, WindowsAreOrdered DEF WindowsBefore
  <2>2. IsFiniteSet(O)
    BY FinitelyManyOpenWindows
  <2> HIDE DEF O, B
  <2>3. Cardinality(B) <= Cardinality(O) /\ Cardinality(B) # Cardinality(O) /\ IsFiniteSet(B)
    BY <2>1, <2>2, FS_Subset
  <2>4. Cardinality(B) \in Nat /\ Cardinality(O) \in Nat
    BY <2>2, <2>3, FS_CardinalityType
  <2>5. Cardinality(B) < Cardinality(O)
    BY <2>3, <2>4
  <2>6. MaxWindows \in Nat /\ Cardinality(O) <= MaxWindows
    BY WindowAssumption DEF O
  <2>7. Cardinality(B) < MaxWindows
    BY <2>4, <2>5, <2>6
  <2> QED
    BY <1>2, <2>7, KeptWindows DEF B
<1>4. ASSUME NEW v \in Windows(rec), v.round = w.round, v.player = w.player, v # w
      PROVE  w.contact < v.contact \/ (w.contact = v.contact /\ WindowBefore(rec, w, v))
  <2>1. v \in OpenWindows(rec)
    BY KeptWindows
  <2>2. /\ v.contact \in Nat /\ w.contact \in Nat /\ w.contact <= v.contact
        /\ WindowBefore(rec, w, v)
    BY <1>1, <1>2, <1>4, <2>1, OtherWindowsAreLater
  <2> QED
    BY <2>2
<1> QED
  BY <1>1, <1>2, <1>3, <1>4 DEF FirstWindows, IsFirstContact

\* What a record's moments are of a player in a round.
LEMMA MomentsOfARound ==
    ASSUME NEW rec, IsRecord(rec), NEW p, NEW r, NEW own,
           own = {c \in Range(Candidates(rec)) : c.player = p /\ c.round = r}
    PROVE  /\ FirstDamage(rec, r, p) = None => own = {}
           /\ WithinLimits(rec) /\ FirstDamage(rec, r, p) # None
              /\ HadTime(rec, r, FirstDamage(rec, r, p)) => own # {}
           /\ \A c \in own : /\ c.open = FirstDamage(rec, r, p)
                             /\ c.contact = FirstDamage(rec, r, p)
                             /\ \E i : /\ IsFirstOf(rec, r, p, i)
                                       /\ c = DecisionOf(rec, FirstWindowOf(rec, p, i))
           /\ Cardinality(own) <= 1
<1>1. ASSUME NEW c \in own
      PROVE  \E w \in FirstWindows(rec) : c = DecisionOf(rec, w) /\ w.round = r /\ w.player = p
  <2>1. Candidates(rec) \in Seq(Decisions(rec)) /\ c \in Range(Candidates(rec))
    BY CandidatesAreMoments
  <2>2. c \in Decisions(rec) /\ c.player = p /\ c.round = r
    BY <2>1 DEF Range
  <2>3. PICK w \in FirstWindows(rec) : c = DecisionOf(rec, w)
    BY <2>2 DEF Decisions
  <2> QED
    BY <2>2, <2>3, DecisionFields
<1>2. ASSUME NEW c \in own
      PROVE  \E i : IsFirstOf(rec, r, p, i) /\ c = DecisionOf(rec, FirstWindowOf(rec, p, i))
  <2>1. PICK w \in FirstWindows(rec) : c = DecisionOf(rec, w) /\ w.round = r /\ w.player = p
    BY <1>1
  <2> QED
    BY <2>1, MomentsAreOfFirstWindows
<1>3. ASSUME NEW c \in own
      PROVE  c.open = FirstDamage(rec, r, p) /\ c.contact = FirstDamage(rec, r, p)
  <2>1. PICK i : IsFirstOf(rec, r, p, i) /\ c = DecisionOf(rec, FirstWindowOf(rec, p, i))
    BY <1>2
  <2>2. PICK w : w = FirstWindowOf(rec, p, i)
    OBVIOUS
  <2>3. w.contact = rec.events[i].tick
    BY <2>1, <2>2, FirstWindowFields
  <2>4. c.open = w.contact /\ c.contact = w.contact
    BY <2>1, <2>2, DecisionFields
  <2> QED
    BY <2>1, <2>3, <2>4, FirstDamageIsInvolved
<1>4. FirstDamage(rec, r, p) = None => own = {}
  <2>1. ASSUME NEW c \in own PROVE FirstDamage(rec, r, p) # None
    <3>1. PICK i : IsFirstOf(rec, r, p, i)
      BY <1>2
    <3>2. InvolvedAt(rec, r, p) # {}
      BY <3>1 DEF IsFirstOf
    <3> QED
      BY <3>2, FirstDamageIsInvolved
  <2> QED
    BY <2>1
<1>5. ASSUME WithinLimits(rec), FirstDamage(rec, r, p) # None,
             HadTime(rec, r, FirstDamage(rec, r, p))
      PROVE  own # {}
  <2>1. PICK i : IsFirstOf(rec, r, p, i)
    BY <1>5, FirstDamageIsInvolved, FirstInvolved
  <2>2. PICK w : w = FirstWindowOf(rec, p, i)
    OBVIOUS
  <2>3. HadTime(rec, r, rec.events[i].tick)
    BY <1>5, <2>1, FirstDamageIsInvolved
  <2>4. w \in FirstWindows(rec) /\ w.player = p /\ w.round = r
    BY <1>5, <2>1, <2>2, <2>3, FirstWindowsAreFirst, FirstWindowFields DEF WithinLimits
  <2>5. PICK c : c = DecisionOf(rec, w)
    OBVIOUS
  <2>6. c \in Decisions(rec) /\ c.player = p /\ c.round = r
    BY <2>4, <2>5, DecisionFields DEF Decisions
  <2>7. c \in Range(Candidates(rec))
    BY <1>5, <2>6, AllMomentsAreCandidates DEF WithinLimits
  <2> QED
    BY <2>6, <2>7
<1>6. \A c, d \in own : c = d
  <2>1. ASSUME NEW c \in own, NEW d \in own PROVE c = d
    <3>1. PICK v \in FirstWindows(rec) : c = DecisionOf(rec, v) /\ v.round = r /\ v.player = p
      BY <1>1
    <3>2. PICK w \in FirstWindows(rec) : d = DecisionOf(rec, w) /\ w.round = r /\ w.player = p
      BY <1>1
    <3>3. v = w
      BY <3>1, <3>2, FirstContactsDiffer
    <3> QED
      BY <3>1, <3>2, <3>3
  <2> QED
    BY <2>1
<1>7. Cardinality(own) <= 1
  <2>1. CASE own = {}
    BY <2>1, FS_EmptySet
  <2>2. CASE own # {}
    <3>1. PICK c : own = {c}
      BY <1>6, <2>2
    <3> QED
      BY <3>1, FS_Singleton
  <2> QED
    BY <2>1, <2>2
<1> QED
  BY <1>2, <1>3, <1>4, <1>5, <1>7

\* The page highlights the damage the moment is of.
LEMMA FirstContactsAreHighlighted ==
    ASSUME NEW rec, IsRecord(rec), NEW p, NEW r, NEW i, IsFirstOf(rec, r, p, i),
           NEW c \in Range(Candidates(rec)), c = DecisionOf(rec, FirstWindowOf(rec, p, i))
    PROVE  \E m \in KeyEvents(rec, Candidates(rec)) :
               m.anchor /\ m.tick = rec.events[i].tick /\ m.round = r /\ p \in m.who
<1> DEFINE e == rec.events[i]
           candidates == Candidates(rec)
           marker == [type |-> e.kind, round |-> e.round, tick |-> e.tick, who |-> {e.attacker, e.victim}]
           key(m) == [type |-> m.type, round |-> m.round, tick |-> m.tick, who |-> m.who,
                      anchor |-> IsAnchor(m, candidates)]
<1>1. /\ i \in OfKind(rec, "damage") /\ e.round = r /\ p \in {e.attacker, e.victim}
  BY DEF IsFirstOf, InvolvedAt
<1>2. i \in DOMAIN rec.events /\ e.kind = "damage" /\ Real(e)
  BY <1>1, RealEventsAreTold
<1>3. PICK w : w = FirstWindowOf(rec, p, i)
  OBVIOUS
<1>4. w = WindowOf(rec, i, IF p = e.attacker THEN "attacker" ELSE "victim")
  BY <1>3 DEF FirstWindowOf
<1>5. /\ w.round = r /\ w.contact = e.tick /\ w.player = p
      /\ w.opponent = IF p = e.attacker THEN e.victim ELSE e.attacker
  BY <1>1, <1>4, RoleFields
<1>6. /\ c.round = r /\ c.contact = e.tick /\ {c.player, c.opponent} = {e.attacker, e.victim}
  <2>1. c.round = w.round /\ c.contact = w.contact /\ c.player = w.player /\ c.opponent = w.opponent
    BY <1>3, DecisionFields
  <2> QED
    BY <1>1, <1>5, <2>1
<1>7. marker \in Markers(rec)
  BY <1>2 DEF Markers
<1>8. /\ marker.type = "damage" /\ marker.round = r /\ marker.tick = e.tick
      /\ marker.who = {e.attacker, e.victim} /\ p \in marker.who
  BY <1>1, <1>2
<1>9. PICK k \in DOMAIN candidates : candidates[k] = c
  BY DEF Range
<1> HIDE DEF e, marker, candidates
<1>10. IsAnchor(marker, candidates)
  BY <1>6, <1>8, <1>9 DEF IsAnchor
<1>11. key(marker) \in KeyEvents(rec, candidates)
  BY <1>7, <1>10 DEF KeyEvents
<1>12. /\ key(marker).anchor /\ key(marker).tick = e.tick /\ key(marker).round = r
       /\ p \in key(marker).who
  BY <1>8, <1>10
<1> QED
  BY <1>11, <1>12 DEF e, candidates

\* Whoever was hit first, and however many fights went on at once: a player's
\* moment of a round is the very first damage with anybody, there is no second
\* one, and the page highlights it.  Where no limit cuts the windows of a
\* record, no player who had time to decide is left out.
THEOREM MomentsStartAtFirstContacts ==
    ASSUME \A rec \in Records : WithinLimits(rec)
    PROVE  ReplaySpec => []MomentsAreFirstContacts
<1>1. ASSUME ReplayInv, stage = "prepared", NEW p \in Players, NEW r \in Rounds
      PROVE  LET first == FirstDamage(record, r, p)
                 own   == {c \in Range(prepared.candidates) : c.player = p /\ c.round = r}
             IN  /\ first = None => own = {}
                 /\ first # None /\ HadTime(record, r, first) => own # {}
                 /\ \A c \in own : c.open = first /\ c.contact = first
                 /\ Cardinality(own) <= 1
                 /\ \A c \in own : \E m \in prepared.keyEvents :
                       m.anchor /\ m.tick = first /\ m.round = r /\ p \in m.who
  <2>1. /\ record \in Records
        /\ \E estimated \in BOOLEAN : prepared = PipelineResult(record, estimated)
    BY <1>1 DEF ReplayInv, PreparedIsOfTheRecord
  <2>2. PICK rec : rec = record
    OBVIOUS
  <2>3. /\ IsRecord(rec) /\ WithinLimits(rec) /\ prepared.candidates = Candidates(rec)
        /\ prepared.keyEvents = KeyEvents(rec, Candidates(rec))
    BY <2>1, <2>2, ReplayAssumption DEF PipelineResult
  <2>4. PICK own : own = {c \in Range(Candidates(rec)) : c.player = p /\ c.round = r}
    OBVIOUS
  <2>5. PICK first : first = FirstDamage(rec, r, p)
    OBVIOUS
  <2>6. /\ first = None => own = {}
        /\ first # None /\ HadTime(rec, r, first) => own # {}
        /\ \A c \in own : c.open = first /\ c.contact = first
        /\ \A c \in own : \E i : /\ IsFirstOf(rec, r, p, i)
                                 /\ c = DecisionOf(rec, FirstWindowOf(rec, p, i))
        /\ Cardinality(own) <= 1
    BY <2>3, <2>4, <2>5, MomentsOfARound
  <2>7. ASSUME NEW c \in own
        PROVE  \E m \in KeyEvents(rec, Candidates(rec)) :
                   m.anchor /\ m.tick = first /\ m.round = r /\ p \in m.who
    <3>1. PICK i : IsFirstOf(rec, r, p, i) /\ c = DecisionOf(rec, FirstWindowOf(rec, p, i))
      BY <2>6
    <3>2. c \in Range(Candidates(rec))
      BY <2>4
    <3>3. first = rec.events[i].tick
      BY <2>3, <2>5, <3>1, FirstDamageIsInvolved
    <3> QED
      BY <2>3, <3>1, <3>2, <3>3, FirstContactsAreHighlighted
  <2> QED
    BY <2>2, <2>3, <2>4, <2>5, <2>6, <2>7
<1>2. ReplayInv => MomentsAreFirstContacts
  BY <1>1 DEF MomentsAreFirstContacts
<1> QED
  BY <1>2, ReplaysKeepTheInvariant, PTL

-----------------------------------------------------------------------------
(***************************************************************************)
(* What is told of a moment if the fight had gone on differently.          *)
(***************************************************************************)

\* A record that tells the same of everything up to a tick, but for kills.
TellsUpTo(b, rec, t) ==
    /\ b.rows = {x \in rec.rows : x.tick <= t}
    /\ b.deeds = {x \in rec.deeds : x.tick <= t}
    /\ \A e \in Range(b.events) : e \in Range(rec.events) /\ e.tick <= t
    /\ \A e \in Range(rec.events) : e.tick <= t /\ e.kind # "kill" => e \in Range(b.events)

\* The record cut at a tick.
IsCutAt(b, rec, t) ==
    /\ b.rows = {x \in rec.rows : x.tick <= t}
    /\ b.deeds = {x \in rec.deeds : x.tick <= t}
    /\ b.events \in Seq(Event)
    /\ Range(b.events) = {e \in Range(rec.events) : e.tick <= t}
    /\ b \in [events : Seq(Event), rows : SUBSET Row, deeds : SUBSET Deed,
              grenades : SUBSET Players, rounds : [Rounds -> RoundTimes]]

LEMMA RecordUpTo ==
    ASSUME NEW rec, IsRecord(rec), NEW t \in Nat PROVE IsCutAt(UpTo(rec, t), rec, t)
<1>0. PICK b : b = UpTo(rec, t)
  OBVIOUS
<1>1. PICK s : s = rec.events
  OBVIOUS
<1>2. s \in Seq(Event)
  BY <1>1 DEF IsRecord
<1>3. PICK N \in SUBSET DOMAIN s : N = {n \in DOMAIN s : s[n].tick <= t}
  OBVIOUS
<1>4. PICK picked : picked = Picked(s, N)
  OBVIOUS
<1>5. picked \in Seq(Event) /\ Range(picked) = {s[n] : n \in N}
  BY <1>2, <1>4, PickedElements
<1>6. b = [rec EXCEPT !.events = picked, !.rows = {x \in @ : x.tick <= t},
                      !.deeds = {x \in @ : x.tick <= t}]
  BY <1>0, <1>1, <1>3, <1>4 DEF UpTo
<1>7. rec \in [events : Seq(Event), rows : SUBSET Row, deeds : SUBSET Deed,
               grenades : SUBSET Players, rounds : [Rounds -> RoundTimes]]
  BY DEF IsRecord
<1>8. /\ b.rows = {x \in rec.rows : x.tick <= t} /\ b.deeds = {x \in rec.deeds : x.tick <= t}
      /\ b.events = picked
  BY <1>6, <1>7
<1>9. b \in [events : Seq(Event), rows : SUBSET Row, deeds : SUBSET Deed,
             grenades : SUBSET Players, rounds : [Rounds -> RoundTimes]]
  BY <1>5, <1>6, <1>7
<1>10. Range(picked) = {e \in Range(s) : e.tick <= t}
  BY <1>3, <1>5 DEF Range
<1>11. IsCutAt(b, rec, t)
  BY <1>1, <1>5, <1>8, <1>9, <1>10 DEF IsCutAt
<1> QED
  BY <1>0, <1>11

\* Markers up to the tick that are not kills are the same.
LEMMA MarkersUpTo ==
    ASSUME NEW rec, IsRecord(rec), NEW t \in Nat, NEW b, TellsUpTo(b, rec, t), NEW x
    PROVE  /\ x \in Markers(b) => x \in Markers(rec) /\ x.tick <= t
           /\ x \in Markers(rec) /\ x.tick <= t /\ x.type # "kill" => x \in Markers(b)
<1> DEFINE ofEvent(e) == [type |-> e.kind, round |-> e.round, tick |-> e.tick,
                          who |-> {e.attacker, e.victim}]
           ofDeed(y) == [type |-> y.name, round |-> y.round, tick |-> y.tick, who |-> {y.player}]
<1>1. \A r : Markers(r) = {ofEvent(e) : e \in Range(r.events)} \cup {ofDeed(y) : y \in r.deeds}
  BY DEF Markers, Range
<1>2. ASSUME x \in Markers(b) PROVE x \in Markers(rec) /\ x.tick <= t
  <2>1. CASE \E e \in Range(b.events) : x = ofEvent(e)
    <3>1. PICK e \in Range(b.events) : x = ofEvent(e)
      BY <2>1
    <3>2. e \in Range(rec.events) /\ e.tick <= t /\ x.tick = e.tick
      BY <3>1 DEF TellsUpTo
    <3> QED
      BY <1>1, <3>1, <3>2
  <2>2. CASE \E y \in b.deeds : x = ofDeed(y)
    <3>1. PICK y \in b.deeds : x = ofDeed(y)
      BY <2>2
    <3>2. y \in rec.deeds /\ y.tick <= t /\ x.tick = y.tick
      BY <3>1 DEF TellsUpTo
    <3> QED
      BY <1>1, <3>1, <3>2
  <2> QED
    BY <1>1, <1>2, <2>1, <2>2
<1>3. ASSUME x \in Markers(rec), x.tick <= t, x.type # "kill" PROVE x \in Markers(b)
  <2>1. CASE \E e \in Range(rec.events) : x = ofEvent(e)
    <3>1. PICK e \in Range(rec.events) : x = ofEvent(e)
      BY <2>1
    <3>2. e.tick <= t /\ e.kind # "kill"
      BY <1>3, <3>1
    <3>3. e \in Range(b.events)
      BY <3>2 DEF TellsUpTo
    <3> QED
      BY <1>1, <3>1, <3>3
  <2>2. CASE \E y \in rec.deeds : x = ofDeed(y)
    <3>1. PICK y \in rec.deeds : x = ofDeed(y)
      BY <2>2
    <3>2. y.tick <= t
      BY <1>3, <3>1
    <3>3. y \in b.deeds
      BY <3>2 DEF TellsUpTo
    <3> QED
      BY <1>1, <3>1, <3>3
  <2> QED
    BY <1>1, <1>3, <2>1, <2>2
<1> QED
  BY <1>2, <1>3

\* So are the key events of a moment that are not kills, if the same contacts are
\* highlighted.
LEMMA MomentEventsUpTo ==
    ASSUME NEW rec, IsRecord(rec), NEW d, d.close \in Nat,
           NEW b, TellsUpTo(b, rec, d.close), NEW candidates, NEW left,
           \A m : m.tick <= d.close => (IsAnchor(m, left) <=> IsAnchor(m, candidates)),
           NEW shown, shown = {m \in KeyEvents(rec, candidates) : d.player \in m.who}
    PROVE  EventsOfMoment(d, KeyEvents(b, left)) = EventsOfMoment(d, shown)
<1> DEFINE key(m, c) == [type |-> m.type, round |-> m.round, tick |-> m.tick, who |-> m.who,
                         anchor |-> IsAnchor(m, c)]
           isKey(m, c) == IsAnchor(m, c) \/ m.type \in {"kill", "plant", "defuse"}
<1>1. \A r, c : KeyEvents(r, c) = {key(m, c) : m \in {x \in Markers(r) : isKey(x, c)}}
  BY DEF KeyEvents
<1>2. \A m, c : key(m, c).tick = m.tick /\ key(m, c).type = m.type
  OBVIOUS
<1>3. \A m : m.tick <= d.close => /\ isKey(m, left) <=> isKey(m, candidates)
                                  /\ key(m, left) = key(m, candidates)
  <2>1. ASSUME NEW m, m.tick <= d.close
        PROVE  IsAnchor(m, left) <=> IsAnchor(m, candidates)
    BY <2>1
  <2>2. \A m, c : IsAnchor(m, c) \in BOOLEAN
    BY DEF IsAnchor
  <2>3. \A m : m.tick <= d.close => IsAnchor(m, left) = IsAnchor(m, candidates)
    BY <2>1, <2>2
  <2> QED
    BY <2>3
<1> HIDE DEF key, isKey
<1>4. ASSUME NEW x \in EventsOfMoment(d, KeyEvents(b, left))
      PROVE  x \in EventsOfMoment(d, shown)
  <2>1. /\ x \in KeyEvents(b, left) /\ x.tick <= d.close /\ x.round = d.round
        /\ d.player \in x.who /\ x.type # "kill"
    BY DEF EventsOfMoment
  <2>2. PICK m \in Markers(b) : x = key(m, left) /\ isKey(m, left)
    BY <1>1, <2>1
  <2>3. m \in Markers(rec) /\ x = key(m, candidates) /\ isKey(m, candidates)
    BY <1>2, <1>3, <2>1, <2>2, MarkersUpTo
  <2>4. x \in KeyEvents(rec, candidates)
    BY <1>1, <2>3
  <2> QED
    BY <2>1, <2>4 DEF EventsOfMoment
<1>5. ASSUME NEW x \in EventsOfMoment(d, shown)
      PROVE  x \in EventsOfMoment(d, KeyEvents(b, left))
  <2>1. /\ x \in KeyEvents(rec, candidates) /\ x.tick <= d.close /\ x.round = d.round
        /\ d.player \in x.who /\ x.type # "kill"
    BY DEF EventsOfMoment
  <2>2. PICK m \in Markers(rec) : x = key(m, candidates) /\ isKey(m, candidates)
    BY <1>1, <2>1
  <2>3. m.tick <= d.close /\ m.type # "kill" /\ x = key(m, left) /\ isKey(m, left)
    BY <1>2, <1>3, <2>1, <2>2
  <2>4. m \in Markers(b)
    BY <2>2, <2>3, MarkersUpTo
  <2>5. x \in KeyEvents(b, left)
    BY <1>1, <2>3, <2>4
  <2> QED
    BY <2>1, <2>5 DEF EventsOfMoment
<1> QED
  BY <1>4, <1>5

\* A cut record shows the same key events up to the cut, kills too.
LEMMA KnownEventsUpTo ==
    ASSUME NEW rec, IsRecord(rec), NEW d, d.close \in Nat,
           NEW b, IsCutAt(b, rec, d.close), NEW candidates, NEW left,
           \A m : m.tick <= d.close => (IsAnchor(m, left) <=> IsAnchor(m, candidates)),
           NEW shown, shown = {m \in KeyEvents(rec, candidates) : d.player \in m.who}
    PROVE  KnownEvents(d, shown) = KnownEvents(d, KeyEvents(b, left))
<1> DEFINE key(m, c) == [type |-> m.type, round |-> m.round, tick |-> m.tick, who |-> m.who,
                         anchor |-> IsAnchor(m, c)]
           isKey(m, c) == IsAnchor(m, c) \/ m.type \in {"kill", "plant", "defuse"}
           known(K) == {m \in K : m.tick <= d.close /\ m.round = d.round /\ d.player \in m.who}
           ofEvent(e) == [type |-> e.kind, round |-> e.round, tick |-> e.tick,
                          who |-> {e.attacker, e.victim}]
           ofDeed(y) == [type |-> y.name, round |-> y.round, tick |-> y.tick, who |-> {y.player}]
<1>1. \A r : Markers(r) = {ofEvent(e) : e \in Range(r.events)} \cup {ofDeed(y) : y \in r.deeds}
  BY DEF Markers, Range
<1>2. \A r, c : KeyEvents(r, c) = {key(m, c) : m \in {x \in Markers(r) : isKey(x, c)}}
  BY DEF KeyEvents
<1>3. ASSUME NEW x, x.tick <= d.close PROVE x \in Markers(b) <=> x \in Markers(rec)
  <2>1. ASSUME NEW e, x = ofEvent(e) PROVE e \in Range(b.events) <=> e \in Range(rec.events)
    <3>1. e.tick <= d.close
      BY <1>3, <2>1
    <3> QED
      BY <3>1 DEF IsCutAt
  <2>2. ASSUME NEW y, x = ofDeed(y) PROVE y \in b.deeds <=> y \in rec.deeds
    <3>1. y.tick <= d.close
      BY <1>3, <2>2
    <3> QED
      BY <3>1 DEF IsCutAt
  <2> HIDE DEF ofEvent, ofDeed
  <2> QED
    BY <1>1, <2>1, <2>2
<1>4. \A m : m.tick <= d.close => /\ isKey(m, left) <=> isKey(m, candidates)
                                  /\ key(m, left) = key(m, candidates)
  <2>1. ASSUME NEW m, m.tick <= d.close
        PROVE  IsAnchor(m, left) <=> IsAnchor(m, candidates)
    BY <2>1
  <2>2. \A m, c : IsAnchor(m, c) \in BOOLEAN
    BY DEF IsAnchor
  <2>3. \A m : m.tick <= d.close => IsAnchor(m, left) = IsAnchor(m, candidates)
    BY <2>1, <2>2
  <2> QED
    BY <2>3
<1>5. ASSUME NEW x, x.tick <= d.close
      PROVE  x \in KeyEvents(b, left) <=> x \in KeyEvents(rec, candidates)
  <2>1. ASSUME NEW m, NEW c, x = key(m, c)
        PROVE  /\ m.tick <= d.close /\ (m \in Markers(b) <=> m \in Markers(rec))
               /\ isKey(m, left) <=> isKey(m, candidates)
               /\ key(m, left) = key(m, candidates)
    <3>1. m.tick <= d.close
      BY <1>5, <2>1
    <3> HIDE DEF key, isKey
    <3> QED
      BY <1>3, <1>4, <3>1
  <2> HIDE DEF key, isKey
  <2> QED
    BY <1>2, <2>1
<1>6. known(shown) = known(KeyEvents(b, left))
  <2> HIDE DEF key, isKey
  <2> QED
    BY <1>5
<1>7. \A K : KnownEvents(d, K) =
                 {m \in known(K) : Cardinality({x \in known(K) : x.tick > m.tick}) < MaxKnownEvents}
  BY DEF KnownEvents
<1> HIDE DEF known
<1> QED
  BY <1>6, <1>7

\* The row last seen at a tick does not depend on later ones.
LEMMA LatestRowUpTo ==
    ASSUME NEW rows \in SUBSET Row, NEW t \in Nat, NEW u \in Nat, u <= t,
           NEW seen, seen = {x \in rows : x.tick <= t}
    PROVE  LatestRow(seen, u) = LatestRow(rows, u)
<1>1. \A x \in rows : x.tick \in Nat
  BY DEF Row
<1>2. {x \in seen : x.tick <= u} = {x \in rows : x.tick <= u}
  BY <1>1
<1> QED
  BY <1>2 DEF LatestRow

\* The telemetry of a moment ends with the reaction.
LEMMA TelemetryUpTo ==
    ASSUME NEW rec, IsRecord(rec), NEW d, d.close \in Nat, d.contact \in Nat, d.contact <= d.close,
           NEW b, TellsUpTo(b, rec, d.close)
    PROVE  Telemetry(b, d) = Telemetry(rec, d)
<1>1. rec.rows \in SUBSET Row /\ b.rows = {x \in rec.rows : x.tick <= d.close}
  BY DEF IsRecord, TellsUpTo
<1>2. \A x \in rec.rows : x.tick \in Nat
  BY <1>1 DEF Row
<1>3. ContactDamage(b, d) = ContactDamage(rec, d)
  <2>1. ASSUME NEW e \in ContactDamage(b, d) PROVE e \in ContactDamage(rec, d)
    BY DEF ContactDamage, TellsUpTo
  <2>2. ASSUME NEW e \in ContactDamage(rec, d) PROVE e \in ContactDamage(b, d)
    <3>1. e \in Range(rec.events) /\ e.tick = d.contact /\ e.kind = "damage"
      BY DEF ContactDamage
    <3>2. e \in Range(b.events)
      BY <3>1 DEF TellsUpTo
    <3> QED
      BY <3>2 DEF ContactDamage
  <2> QED
    BY <2>1, <2>2
<1>4. LatestRow(RowsOf(b, d.round, d.player), d.contact) =
          LatestRow(RowsOf(rec, d.round, d.player), d.contact)
  <2>1. PICK rows \in SUBSET Row : rows = RowsOf(rec, d.round, d.player)
    BY <1>1 DEF RowsOf
  <2>2. RowsOf(b, d.round, d.player) = {x \in rows : x.tick <= d.close}
    BY <1>1, <2>1 DEF RowsOf
  <2> QED
    BY <2>1, <2>2, LatestRowUpTo
<1>5. LatestRow({x \in RowsOf(b, d.round, d.player) : x.tick >= d.contact}, d.close) =
          LatestRow({x \in RowsOf(rec, d.round, d.player) : x.tick >= d.contact}, d.close)
  <2>1. PICK rows \in SUBSET Row :
            rows = {x \in RowsOf(rec, d.round, d.player) : x.tick >= d.contact}
    BY <1>1 DEF RowsOf
  <2>2. {x \in RowsOf(b, d.round, d.player) : x.tick >= d.contact} =
            {x \in rows : x.tick <= d.close}
    BY <1>1, <2>1 DEF RowsOf
  <2>3. d.close <= d.close
    OBVIOUS
  <2> QED
    BY <2>1, <2>2, <2>3, LatestRowUpTo
<1>6. TeamRows(b, d) = TeamRows(rec, d)
  <2> DEFINE mates(r, p) ==
          {x \in RowsOf(r, d.round, p) : d.contact - TeamTicks <= x.tick /\ x.alive}
             team == {q \in Players \ {d.player} : Side[q] = Side[d.player]}
  <2>1. ASSUME NEW p PROVE LatestRow(mates(b, p), d.contact) = LatestRow(mates(rec, p), d.contact)
    <3>1. PICK rows \in SUBSET Row : rows = mates(rec, p)
      BY <1>1 DEF RowsOf
    <3>2. mates(b, p) = {x \in rows : x.tick <= d.close}
      BY <1>1, <3>1 DEF RowsOf
    <3> HIDE DEF mates
    <3> QED
      BY <3>1, <3>2, LatestRowUpTo
  <2>2. \A r : TeamRows(r, d) = UNION {LatestRow(mates(r, p), d.contact) : p \in team}
    BY DEF TeamRows
  <2> HIDE DEF mates, team
  <2>3. {LatestRow(mates(b, p), d.contact) : p \in team} =
            {LatestRow(mates(rec, p), d.contact) : p \in team}
    BY <2>1
  <2> QED
    BY <2>2, <2>3
<1> QED
  BY <1>3, <1>4, <1>5, <1>6 DEF Telemetry

-----------------------------------------------------------------------------
(* What is left of a record.                                                *)

\* What is left of a record that is cut at a tick, with the kills or without:
\* "at" tells where in the whole record an event is.
IsPart(b, rec, t, at) ==
    /\ IsRecord(b) /\ b.rounds = rec.rounds
    /\ b.rows = {x \in rec.rows : x.tick <= t} /\ b.deeds = {x \in rec.deeds : x.tick <= t}
    /\ at \in [DOMAIN b.events -> DOMAIN rec.events]
    /\ \A i, j \in DOMAIN b.events : i < j => at[i] < at[j]
    /\ \A i \in DOMAIN b.events : b.events[i] = rec.events[at[i]] /\ b.events[i].tick <= t
    /\ \A m \in DOMAIN rec.events :
           rec.events[m].tick <= t /\ rec.events[m].kind # "kill"
           => \E i \in DOMAIN b.events : at[i] = m

LEMMA PartPositions ==
    ASSUME NEW rec, IsRecord(rec), NEW t \in Nat, NEW b, NEW at, IsPart(b, rec, t, at)
    PROVE  /\ \A i \in DOMAIN b.events : at[i] \in DOMAIN rec.events
           /\ \A i, j \in DOMAIN b.events : i \in Nat /\ at[i] \in Nat /\ (i < j <=> at[i] < at[j])
           /\ \A i, j \in DOMAIN b.events : at[i] = at[j] => i = j
<1>1. /\ DOMAIN b.events \subseteq Nat /\ DOMAIN rec.events \subseteq Nat
  BY DEF IsPart, IsRecord
<1>2. \A i \in DOMAIN b.events : i \in Nat /\ at[i] \in DOMAIN rec.events /\ at[i] \in Nat
  BY <1>1 DEF IsPart
<1>3. \A i, j \in DOMAIN b.events : i < j => at[i] < at[j]
  BY DEF IsPart
<1>4. ASSUME NEW i \in DOMAIN b.events, NEW j \in DOMAIN b.events
      PROVE  (at[i] = at[j] => i = j) /\ (i < j <=> at[i] < at[j])
  <2>1. i \in Nat /\ j \in Nat /\ at[i] \in Nat /\ at[j] \in Nat
    BY <1>2
  <2>2. (i < j => at[i] < at[j]) /\ (j < i => at[j] < at[i])
    BY <1>3
  <2>3. i < j \/ i = j \/ j < i
    BY <2>1
  <2> QED
    BY <2>1, <2>2, <2>3
<1> QED
  BY <1>2, <1>4

\* The same events are real, and in the same order.
LEMMA RealEventsOfAPart ==
    ASSUME NEW rec, IsRecord(rec), NEW t \in Nat, NEW b, NEW at, IsPart(b, rec, t, at)
    PROVE  /\ \A i \in DOMAIN b.events :
                  i \in OfKind(b, "damage") <=> at[i] \in OfKind(rec, "damage")
           /\ \A m \in OfKind(rec, "damage") : rec.events[m].tick <= t =>
                  \E i \in OfKind(b, "damage") : at[i] = m
           /\ \A i, j \in DOMAIN b.events : Before(b, i, j) <=> Before(rec, at[i], at[j])
<1>1. /\ \A i \in DOMAIN b.events : /\ at[i] \in DOMAIN rec.events /\ b.events[i] = rec.events[at[i]]
                                    /\ rec.events[at[i]].tick <= t
      /\ \A m \in DOMAIN rec.events : rec.events[m].tick <= t /\ rec.events[m].kind # "kill"
             => \E i \in DOMAIN b.events : at[i] = m
  BY DEF IsPart
<1>2. /\ DOMAIN b.events = 1 .. Len(b.events) /\ Len(b.events) \in Nat
      /\ DOMAIN rec.events = 1 .. Len(rec.events) /\ Len(rec.events) \in Nat
  BY DEF IsPart, IsRecord
<1>3. ASSUME NEW i \in DOMAIN b.events
      PROVE  i \in OfKind(b, "damage") <=> at[i] \in OfKind(rec, "damage")
  <2>1. b.events[i] = rec.events[at[i]] /\ at[i] \in DOMAIN rec.events
    BY <1>1
  <2>2. ASSUME i \in OfKind(b, "damage") PROVE at[i] \in OfKind(rec, "damage")
    <3>1. /\ Real(b.events[i]) /\ b.events[i].kind = "damage"
          /\ \A j \in 1 .. (i - 1) : b.events[j] # b.events[i]
      BY <2>2 DEF OfKind, RealEvents
    <3>2. ASSUME NEW m \in 1 .. (at[i] - 1), rec.events[m] = rec.events[at[i]] PROVE FALSE
      <4>1. m \in DOMAIN rec.events /\ m < at[i]
        BY <1>2, <2>1
      <4>2. rec.events[m].kind # "kill" /\ rec.events[m].tick <= t
        BY <1>1, <2>1, <3>1, <3>2
      <4>3. PICK j \in DOMAIN b.events : at[j] = m
        BY <1>1, <4>1, <4>2
      <4>4. j < i /\ b.events[j] = b.events[i]
        BY <1>1, <2>1, <3>2, <4>1, <4>3, PartPositions
      <4>5. j \in 1 .. (i - 1)
        BY <1>2, <4>4
      <4> QED
        BY <3>1, <4>4, <4>5
    <3> QED
      BY <2>1, <3>1, <3>2 DEF OfKind, RealEvents
  <2>3. ASSUME at[i] \in OfKind(rec, "damage") PROVE i \in OfKind(b, "damage")
    <3>1. /\ Real(rec.events[at[i]]) /\ rec.events[at[i]].kind = "damage"
          /\ \A m \in 1 .. (at[i] - 1) : rec.events[m] # rec.events[at[i]]
      BY <2>3 DEF OfKind, RealEvents
    <3>2. ASSUME NEW j \in 1 .. (i - 1), b.events[j] = b.events[i] PROVE FALSE
      <4>1. j \in DOMAIN b.events /\ j < i
        BY <1>2
      <4>2. at[j] < at[i] /\ at[j] \in DOMAIN rec.events /\ rec.events[at[j]] = rec.events[at[i]]
        BY <1>1, <2>1, <3>2, <4>1, PartPositions
      <4>3. at[j] \in 1 .. (at[i] - 1)
        BY <1>2, <2>1, <4>2
      <4> QED
        BY <3>1, <4>2, <4>3
    <3> QED
      BY <2>1, <3>1, <3>2 DEF OfKind, RealEvents
  <2> QED
    BY <2>2, <2>3
<1>4. ASSUME NEW m \in OfKind(rec, "damage"), rec.events[m].tick <= t
      PROVE  \E i \in OfKind(b, "damage") : at[i] = m
  <2>1. m \in DOMAIN rec.events /\ rec.events[m].kind # "kill"
    BY RealEventsAreTold
  <2>2. PICK i \in DOMAIN b.events : at[i] = m
    BY <1>1, <1>4, <2>1
  <2> QED
    BY <1>3, <2>2
<1>5. ASSUME NEW i \in DOMAIN b.events, NEW j \in DOMAIN b.events
      PROVE  Before(b, i, j) <=> Before(rec, at[i], at[j])
  <2>1. b.events[i] = rec.events[at[i]] /\ b.events[j] = rec.events[at[j]]
    BY <1>1
  <2>2. i < j <=> at[i] < at[j]
    BY PartPositions
  <2> QED
    BY <2>1, <2>2 DEF Before
<1> QED
  BY <1>3, <1>4, <1>5

\* The cut record is what is left of the record; without the kills, too.
LEMMA CutIsAPart ==
    ASSUME NEW rec, IsRecord(rec), NEW t \in Nat
    PROVE  \E at : /\ IsPart(UpTo(rec, t), rec, t, at)
                   /\ Range(at) = {m \in DOMAIN rec.events : rec.events[m].tick <= t}
<1>0. PICK b : b = UpTo(rec, t)
  OBVIOUS
<1>1. PICK s : s = rec.events
  OBVIOUS
<1>2. s \in Seq(Event) /\ DOMAIN s = 1 .. Len(s) /\ Len(s) \in Nat
  BY <1>1 DEF IsRecord
<1>3. PICK N \in SUBSET DOMAIN s : N = {n \in DOMAIN s : s[n].tick <= t}
  OBVIOUS
<1>4. PICK picked : picked = Picked(s, N)
  OBVIOUS
<1>5. PICK n \in Nat : n = Cardinality(N)
  BY <1>2, PickedPositions
<1>6. PICK at \in [1 .. n -> N] :
          /\ picked = [k \in 1 .. n |-> s[at[k]]] /\ Range(at) = N
          /\ \A j, k \in 1 .. n : j < k => at[j] < at[k]
  BY <1>2, <1>4, <1>5, PickedPositions
<1>7. b = [rec EXCEPT !.events = picked, !.rows = {x \in @ : x.tick <= t},
                      !.deeds = {x \in @ : x.tick <= t}]
  BY <1>0, <1>1, <1>3, <1>4 DEF UpTo
<1>8. /\ rec \in [events : Seq(Event), rows : SUBSET Row, deeds : SUBSET Deed,
                  grenades : SUBSET Players, rounds : [Rounds -> RoundTimes]]
      /\ IsFiniteSet(rec.rows) /\ IsFiniteSet(rec.deeds)
  BY DEF IsRecord
<1>9. /\ b.rows = {x \in rec.rows : x.tick <= t} /\ b.deeds = {x \in rec.deeds : x.tick <= t}
      /\ b.events = picked /\ b.rounds = rec.rounds
  BY <1>7, <1>8
<1>10. picked \in Seq(Event) /\ DOMAIN picked = 1 .. n
  BY <1>2, <1>6
<1>11. IsRecord(b)
  <2>1. b \in [events : Seq(Event), rows : SUBSET Row, deeds : SUBSET Deed,
               grenades : SUBSET Players, rounds : [Rounds -> RoundTimes]]
    BY <1>7, <1>8, <1>10
  <2>2. IsFiniteSet(b.rows) /\ IsFiniteSet(b.deeds)
    BY <1>8, <1>9, FS_Subset
  <2> QED
    BY <2>1, <2>2 DEF IsRecord
<1>12. \A k \in 1 .. n : at[k] \in N /\ picked[k] = s[at[k]]
  BY <1>6
<1>13. \A m \in DOMAIN s : s[m].tick <= t => \E k \in 1 .. n : at[k] = m
  BY <1>3, <1>6 DEF Range
<1>14. IsPart(b, rec, t, at)
  <2>1. at \in [DOMAIN b.events -> DOMAIN rec.events]
    BY <1>1, <1>6, <1>9, <1>10
  <2>2. \A i \in DOMAIN b.events : b.events[i] = rec.events[at[i]] /\ b.events[i].tick <= t
    BY <1>1, <1>3, <1>9, <1>10, <1>12
  <2> QED
    BY <1>1, <1>6, <1>9, <1>10, <1>11, <1>13, <2>1, <2>2 DEF IsPart
<1> QED
  BY <1>0, <1>1, <1>3, <1>6, <1>14

LEMMA BlindIsAPart ==
    ASSUME NEW rec, IsRecord(rec), NEW t \in Nat, NEW b,
           b = [UpTo(rec, t) EXCEPT !.events = Picked(@, {n \in DOMAIN @ : @[n].kind # "kill"})]
    PROVE  \E at : IsPart(b, rec, t, at)
<1>1. PICK c : c = UpTo(rec, t)
  OBVIOUS
<1>2. PICK at : IsPart(c, rec, t, at)
  BY <1>1, CutIsAPart
<1>3. PICK s : s = c.events
  OBVIOUS
<1>4. /\ IsRecord(c) /\ s \in Seq(Event) /\ DOMAIN s = 1 .. Len(s) /\ Len(s) \in Nat
      /\ c \in [events : Seq(Event), rows : SUBSET Row, deeds : SUBSET Deed,
                grenades : SUBSET Players, rounds : [Rounds -> RoundTimes]]
      /\ IsFiniteSet(c.rows) /\ IsFiniteSet(c.deeds)
  BY <1>2, <1>3 DEF IsPart, IsRecord
<1>5. PICK N \in SUBSET DOMAIN s : N = {n \in DOMAIN s : s[n].kind # "kill"}
  OBVIOUS
<1>6. PICK picked : picked = Picked(s, N)
  OBVIOUS
<1>7. PICK n \in Nat : n = Cardinality(N)
  BY <1>4, PickedPositions
<1>a. s \in Seq(Event) /\ DOMAIN s = 1 .. Len(s) /\ Len(s) \in Nat
  BY <1>4
<1>8. PICK o \in [1 .. n -> N] :
          /\ picked = [k \in 1 .. n |-> s[o[k]]] /\ Range(o) = N
          /\ \A j, k \in 1 .. n : j < k => o[j] < o[k]
  BY <1>a, <1>6, <1>7, PickedPositions
<1>9. b = [c EXCEPT !.events = picked]
  BY <1>1, <1>3, <1>5, <1>6
<1>10. /\ picked \in Seq(Event) /\ DOMAIN picked = 1 .. n
  BY <1>a, <1>8
<1>11. /\ b.events = picked /\ b.rows = c.rows /\ b.deeds = c.deeds /\ b.rounds = c.rounds
       /\ IsRecord(b)
  BY <1>4, <1>9, <1>10 DEF IsRecord
<1> DEFINE to == [k \in 1 .. n |-> at[o[k]]]
<1>12. /\ at \in [DOMAIN s -> DOMAIN rec.events]
       /\ \A i, j \in DOMAIN s : i < j => at[i] < at[j]
       /\ \A i \in DOMAIN s : s[i] = rec.events[at[i]] /\ s[i].tick <= t
       /\ \A m \in DOMAIN rec.events : rec.events[m].tick <= t /\ rec.events[m].kind # "kill"
              => \E i \in DOMAIN s : at[i] = m
       /\ c.rounds = rec.rounds /\ c.rows = {x \in rec.rows : x.tick <= t}
       /\ c.deeds = {x \in rec.deeds : x.tick <= t}
  BY <1>2, <1>3 DEF IsPart
<1>13. \A k \in 1 .. n : o[k] \in DOMAIN s /\ picked[k] = s[o[k]] /\ to[k] = at[o[k]]
  BY <1>8
<1>14. to \in [1 .. n -> DOMAIN rec.events]
  BY <1>12, <1>13
<1>15. ASSUME NEW m \in DOMAIN rec.events, rec.events[m].tick <= t, rec.events[m].kind # "kill"
       PROVE  \E k \in 1 .. n : to[k] = m
  <2>1. PICK i \in DOMAIN s : at[i] = m
    BY <1>12, <1>15
  <2>2. i \in N
    BY <1>5, <1>12, <1>15, <2>1
  <2>3. PICK k \in 1 .. n : o[k] = i
    BY <1>8, <2>2 DEF Range
  <2> QED
    BY <1>13, <2>1, <2>3
<1>16. \A j, k \in 1 .. n : j < k => to[j] < to[k]
  BY <1>8, <1>12, <1>13
<1>17. \A k \in 1 .. n : picked[k] = rec.events[to[k]] /\ picked[k].tick <= t
  BY <1>12, <1>13
<1> HIDE DEF to
<1>18. IsPart(b, rec, t, to)
  BY <1>10, <1>11, <1>12, <1>14, <1>15, <1>16, <1>17 DEF IsPart
<1> QED
  BY <1>18

\* Everything up to the tick is told, but for kills.
LEMMA PartsTell ==
    ASSUME NEW b, NEW rec, NEW t, NEW at, IsPart(b, rec, t, at)
    PROVE  TellsUpTo(b, rec, t)
<1>1. ASSUME NEW e \in Range(b.events) PROVE e \in Range(rec.events) /\ e.tick <= t
  <2>1. PICK i \in DOMAIN b.events : e = b.events[i]
    BY DEF Range
  <2>2. e = rec.events[at[i]] /\ e.tick <= t /\ at[i] \in DOMAIN rec.events
    BY <2>1 DEF IsPart
  <2> QED
    BY <2>2 DEF Range
<1>2. ASSUME NEW e \in Range(rec.events), e.tick <= t, e.kind # "kill" PROVE e \in Range(b.events)
  <2>1. PICK m \in DOMAIN rec.events : e = rec.events[m]
    BY DEF Range
  <2>2. PICK i \in DOMAIN b.events : at[i] = m
    BY <1>2, <2>1 DEF IsPart
  <2>3. b.events[i] = e
    BY <2>1, <2>2 DEF IsPart
  <2> QED
    BY <2>3 DEF Range
<1> QED
  BY <1>1, <1>2 DEF IsPart, TellsUpTo

\* The same contacts open windows: whether one does depends on earlier ones.
LEMMA AnchorsOfAPart ==
    ASSUME NEW rec, IsRecord(rec), NEW t \in Nat, NEW b, NEW at, IsPart(b, rec, t, at),
           OfKind(b, "damage") # {}, NEW c \in Contacts(b)
    PROVE  at[c] \in Contacts(rec) /\ (c \in Anchors(b) <=> at[c] \in Anchors(rec))
<1>1. /\ Contacts(b) = OfKind(b, "damage") /\ Contacts(rec) = OfKind(rec, "damage")
      /\ \A i \in Contacts(b) : at[i] \in Contacts(rec)
  <2>1. PICK i \in OfKind(b, "damage") : TRUE
    OBVIOUS
  <2>2. \A j \in OfKind(b, "damage") : j \in DOMAIN b.events
    BY DEF OfKind, RealEvents
  <2>3. \A j \in OfKind(b, "damage") : at[j] \in OfKind(rec, "damage")
    BY <2>2, RealEventsOfAPart
  <2> QED
    BY <2>1, <2>3 DEF Contacts
<1>2. IsRecord(b) /\ \A i \in Contacts(b) : i \in DOMAIN b.events /\ b.events[i] = rec.events[at[i]]
                                           /\ b.events[i].tick <= t
  BY FinitelyManyContacts DEF IsPart
<1> DEFINE Bad == {i \in Contacts(b) : ~(i \in Anchors(b) <=> at[i] \in Anchors(rec))}
<1>3. SUFFICES ASSUME Bad # {} PROVE FALSE
  BY <1>1
<1>4. PICK n \in Bad : \A j \in Bad : j # n => Before(b, n, j)
  <2>1. Bad \in SUBSET DOMAIN b.events
    BY <1>2
  <2> HIDE DEF Bad
  <2> QED
    BY <1>2, <1>3, <2>1, EarliestEvent
<1>5. \A j \in Contacts(b) : Before(b, j, n) => (j \in Anchors(b) <=> at[j] \in Anchors(rec))
  <2>1. ASSUME NEW j \in Contacts(b), Before(b, j, n), j \in Bad PROVE FALSE
    <3>1. j # n /\ ~Before(b, n, j)
      BY <1>2, <2>1, EarlierEvents
    <3> QED
      BY <1>4, <2>1, <3>1
  <2> QED
    BY <2>1
<1>6. n \in Anchors(b) <=>
          \A j \in Anchors(b) : Before(b, j, n) /\ SameFight(b.events[n], b.events[j])
                                => b.events[n].tick - b.events[j].tick >= Horizon
  BY <1>2, AnchorRule
<1>7. at[n] \in Anchors(rec) <=>
          \A m \in Anchors(rec) : Before(rec, m, at[n]) /\ SameFight(rec.events[at[n]], rec.events[m])
                                  => rec.events[at[n]].tick - rec.events[m].tick >= Horizon
  BY <1>1, AnchorRule
<1>8. \A i, j \in Contacts(b) : Before(b, i, j) <=> Before(rec, at[i], at[j])
  BY <1>2, RealEventsOfAPart
<1>9. ASSUME n \in Anchors(b), NEW m \in Anchors(rec), Before(rec, m, at[n]),
             SameFight(rec.events[at[n]], rec.events[m])
      PROVE  rec.events[at[n]].tick - rec.events[m].tick >= Horizon
  <2>1. m \in Contacts(rec) /\ m \in DOMAIN rec.events
    BY AnchorsAreContacts, FinitelyManyContacts
  <2>2. at[n] \in Contacts(rec) /\ at[n] \in DOMAIN rec.events /\ rec.events[at[n]].tick <= t
    BY <1>1, <1>2, FinitelyManyContacts
  <2>3. rec.events[m].tick <= rec.events[at[n]].tick
    BY <1>9, <2>1, <2>2, EarlierEvents DEF SameFight
  <2>4. rec.events[m].tick <= t
    BY <2>1, <2>2, <2>3, EventFields
  <2>5. PICK j \in Contacts(b) : at[j] = m
    BY <1>1, <2>1, <2>4, RealEventsOfAPart
  <2>6. Before(b, j, n)
    BY <1>8, <1>9, <2>5
  <2>7. j \in Anchors(b)
    BY <1>5, <2>5, <2>6
  <2> QED
    BY <1>2, <1>6, <1>9, <2>5, <2>6, <2>7
<1>10. ASSUME at[n] \in Anchors(rec), NEW j \in Anchors(b), Before(b, j, n),
              SameFight(b.events[n], b.events[j])
       PROVE  b.events[n].tick - b.events[j].tick >= Horizon
  <2>1. j \in Contacts(b)
    BY <1>2, AnchorsAreContacts
  <2>2. at[j] \in Anchors(rec) /\ Before(rec, at[j], at[n])
    BY <1>5, <1>8, <1>10, <2>1
  <2> QED
    BY <1>2, <1>7, <1>10, <2>1, <2>2
<1> QED
  BY <1>6, <1>7, <1>9, <1>10

\* The first damage of a player in a round is the same one.
LEMMA FirstOfAPart ==
    ASSUME NEW rec, IsRecord(rec), NEW t \in Nat, NEW b, NEW at, IsPart(b, rec, t, at),
           NEW r, NEW p, NEW n \in DOMAIN b.events
    PROVE  IsFirstOf(b, r, p, n) <=> IsFirstOf(rec, r, p, at[n])
<1>1. /\ \A i \in DOMAIN b.events : /\ at[i] \in DOMAIN rec.events /\ b.events[i] = rec.events[at[i]]
                                    /\ rec.events[at[i]].tick <= t
      /\ \A i \in OfKind(b, "damage") : i \in DOMAIN b.events
      /\ \A i \in OfKind(rec, "damage") : i \in DOMAIN rec.events
  BY DEF IsPart, OfKind, RealEvents
<1>2. \A i \in DOMAIN b.events : i \in InvolvedAt(b, r, p) <=> at[i] \in InvolvedAt(rec, r, p)
  BY <1>1, RealEventsOfAPart DEF InvolvedAt
<1>3. ASSUME IsFirstOf(b, r, p, n), NEW m \in InvolvedAt(rec, r, p), m # at[n]
      PROVE  Before(rec, at[n], m)
  <2>1. n \in InvolvedAt(b, r, p) /\ at[n] \in InvolvedAt(rec, r, p)
    BY <1>2, <1>3 DEF IsFirstOf
  <2>2. /\ m \in OfKind(rec, "damage") /\ m \in DOMAIN rec.events /\ at[n] \in DOMAIN rec.events
        /\ rec.events[m].round = r /\ rec.events[at[n]].round = r
    BY <1>1, <2>1 DEF InvolvedAt
  <2>3. CASE rec.events[m].tick <= t
    <3>1. PICK j \in OfKind(b, "damage") : at[j] = m
      BY <2>2, <2>3, RealEventsOfAPart
    <3>2. j \in InvolvedAt(b, r, p) /\ j # n
      BY <1>1, <1>2, <1>3, <3>1
    <3>3. Before(b, n, j)
      BY <1>3, <3>2 DEF IsFirstOf
    <3> QED
      BY <1>1, <3>1, <3>3, RealEventsOfAPart
  <2>4. CASE ~(rec.events[m].tick <= t)
    <3>1. rec.events[m].tick \in Nat /\ rec.events[at[n]].tick \in Nat
      BY <2>2, EventFields
    <3>2. rec.events[at[n]].tick < rec.events[m].tick
      BY <1>1, <2>4, <3>1
    <3> QED
      BY <2>2, <3>2 DEF Before
  <2> QED
    BY <2>3, <2>4
<1>4. ASSUME IsFirstOf(rec, r, p, at[n]), NEW j \in InvolvedAt(b, r, p), j # n
      PROVE  Before(b, n, j)
  <2>1. j \in DOMAIN b.events /\ at[j] \in InvolvedAt(rec, r, p)
    BY <1>1, <1>2 DEF InvolvedAt
  <2>2. at[j] # at[n]
    BY <1>4, <2>1, PartPositions
  <2>3. Before(rec, at[n], at[j])
    BY <1>4, <2>1, <2>2 DEF IsFirstOf
  <2> QED
    BY <2>1, <2>3, RealEventsOfAPart
<1> QED
  BY <1>2, <1>3, <1>4 DEF IsFirstOf

\* There are no more windows than of the whole record.
LEMMA WindowsOfAPart ==
    ASSUME NEW rec, IsRecord(rec), NEW t \in Nat, NEW b, NEW at, IsPart(b, rec, t, at),
           OfKind(b, "damage") # {}
    PROVE  Cardinality(OpenWindows(b)) <= Cardinality(OpenWindows(rec))
<1> DEFINE f == [w \in OpenWindows(b) |-> WindowOf(rec, at[w.event], w.role)]
<1>1. IsRecord(b) /\ b.rounds = rec.rounds
  BY DEF IsPart
<1>2. ASSUME NEW w \in OpenWindows(b)
      PROVE  /\ w.event \in DOMAIN b.events /\ w = WindowOf(b, w.event, w.role)
             /\ f[w] \in OpenWindows(rec) /\ f[w].event = at[w.event] /\ f[w].role = w.role
  <2>1. PICK i, role : i = w.event /\ role = w.role
    OBVIOUS
  <2>2. /\ i \in Anchors(b) /\ i \in Contacts(b) /\ i \in DOMAIN b.events
        /\ role \in {"attacker", "victim"} /\ w = WindowOf(b, i, role)
        /\ HadTime(b, b.events[i].round, b.events[i].tick)
    BY <1>1, <2>1, OpenWindowFields
  <2>3. b.events[i] = rec.events[at[i]] /\ at[i] \in DOMAIN rec.events
    BY <2>2 DEF IsPart
  <2>4. HadTime(rec, rec.events[at[i]].round, rec.events[at[i]].tick)
    BY <1>1, <2>2, <2>3 DEF HadTime
  <2>5. at[i] \in Anchors(rec)
    BY <2>2, AnchorsOfAPart
  <2>6. PICK v : v = WindowOf(rec, at[i], role)
    OBVIOUS
  <2>7. v.open < v.until /\ v.event = at[i] /\ v.role = role
    BY <2>3, <2>4, <2>6, OpenInTime, RoleFields
  <2>8. v \in {WindowOf(rec, x[1], x[2]) : x \in Anchors(rec) \X {"attacker", "victim"}}
    <3>1. PICK x : x = <<at[i], role>>
      OBVIOUS
    <3>2. x \in Anchors(rec) \X {"attacker", "victim"} /\ v = WindowOf(rec, x[1], x[2])
      BY <2>2, <2>5, <2>6, <3>1
    <3> QED
      BY <3>2
  <2>9. v \in OpenWindows(rec) /\ f[w] = v
    BY <2>1, <2>6, <2>7, <2>8 DEF OpenWindows
  <2> QED
    BY <2>1, <2>2, <2>7, <2>9
<1>3. f \in [OpenWindows(b) -> OpenWindows(rec)]
  BY <1>2
<1> HIDE DEF f
<1>4. ASSUME NEW v \in OpenWindows(b), NEW w \in OpenWindows(b), f[v] = f[w] PROVE v = w
  <2>1. at[v.event] = at[w.event] /\ v.role = w.role
    BY <1>2, <1>4
  <2>2. v.event = w.event
    BY <1>2, <2>1, PartPositions
  <2> QED
    BY <1>2, <2>1, <2>2
<1>5. f \in Injection(OpenWindows(b), OpenWindows(rec))
  BY <1>3, <1>4 DEF Injection, IsInjective
<1> QED
  BY <1>5, FinitelyManyOpenWindows, FS_Injection

-----------------------------------------------------------------------------
(* The moments of what is left of a record.                                 *)

\* The moment of a player whose first damage of a round is event i.
MomentOf(rec, p, i) == DecisionOf(rec, FirstWindowOf(rec, p, i))

\* Two moments that differ at most in what the player did.
SameMoment(c, d) ==
    /\ c.round = d.round /\ c.player = d.player /\ c.opponent = d.opponent /\ c.role = d.role
    /\ c.open = d.open /\ c.contact = d.contact /\ c.close = d.close

\* All moments of a record whose windows are not cut.
LEMMA MomentsOfARecord ==
    ASSUME NEW rec, IsRecord(rec), Cardinality(OpenWindows(rec)) <= MaxWindows, NEW d
    PROVE  d \in Decisions(rec) <=>
               \E r, p, i : /\ IsFirstOf(rec, r, p, i) /\ HadTime(rec, r, rec.events[i].tick)
                            /\ d = MomentOf(rec, p, i)
<1>1. ASSUME d \in Decisions(rec)
      PROVE  \E r, p, i : /\ IsFirstOf(rec, r, p, i) /\ HadTime(rec, r, rec.events[i].tick)
                          /\ d = MomentOf(rec, p, i)
  <2>1. PICK w \in FirstWindows(rec) : d = DecisionOf(rec, w)
    BY <1>1 DEF Decisions
  <2>2. PICK r, p : r = w.round /\ p = w.player
    OBVIOUS
  <2>3. PICK i : IsFirstOf(rec, r, p, i) /\ w = FirstWindowOf(rec, p, i)
    BY <2>2, MomentsAreOfFirstWindows
  <2>4. w \in OpenWindows(rec) /\ w.event = i /\ rec.events[i].round = r
    BY <2>3, KeptWindows, FirstWindowFields DEF FirstWindows, IsFirstOf, InvolvedAt
  <2>5. HadTime(rec, r, rec.events[i].tick)
    BY <2>4, OpenWindowFields
  <2> QED
    BY <2>1, <2>3, <2>5 DEF MomentOf
<1>2. ASSUME NEW r, NEW p, NEW i, IsFirstOf(rec, r, p, i), HadTime(rec, r, rec.events[i].tick),
             d = MomentOf(rec, p, i)
      PROVE  d \in Decisions(rec)
  BY <1>2, FirstWindowsAreFirst DEF MomentOf, Decisions
<1> QED
  BY <1>1, <1>2

\* The moment of the part is the one of the record, but for what the player did.
LEMMA MomentOfAPart ==
    ASSUME NEW rec, IsRecord(rec), NEW t \in Nat, NEW b, NEW at, IsPart(b, rec, t, at),
           NEW r, NEW p, NEW n, IsFirstOf(b, r, p, n)
    PROVE  /\ n \in DOMAIN b.events /\ b.events[n] = rec.events[at[n]] /\ b.events[n].tick <= t
           /\ IsFirstOf(rec, r, p, at[n])
           /\ HadTime(b, r, b.events[n].tick) <=> HadTime(rec, r, rec.events[at[n]].tick)
           /\ SameMoment(MomentOf(b, p, n), MomentOf(rec, p, at[n]))
           /\ MomentOf(b, p, n).round = r /\ MomentOf(b, p, n).player = p
           /\ MomentOf(b, p, n).contact = b.events[n].tick
<1>1. IsRecord(b) /\ b.rounds = rec.rounds
  BY DEF IsPart
<1>2. n \in DOMAIN b.events
  BY <1>1, RealEventsAreTold DEF IsFirstOf, InvolvedAt
<1>3. b.events[n] = rec.events[at[n]] /\ b.events[n].tick <= t
  BY <1>2 DEF IsPart
<1>4. IsFirstOf(rec, r, p, at[n])
  BY <1>2, FirstOfAPart
<1>5. HadTime(b, r, b.events[n].tick) <=> HadTime(rec, r, rec.events[at[n]].tick)
  BY <1>1, <1>3 DEF HadTime
<1>6. PICK v, w : v = FirstWindowOf(b, p, n) /\ w = FirstWindowOf(rec, p, at[n])
  OBVIOUS
<1>7. PICK role : role = IF p = b.events[n].attacker THEN "attacker" ELSE "victim"
  OBVIOUS
<1>8. v = WindowOf(b, n, role) /\ w = WindowOf(rec, at[n], role)
  BY <1>3, <1>6, <1>7 DEF FirstWindowOf
<1>9. /\ v.round = w.round /\ v.player = w.player /\ v.opponent = w.opponent /\ v.role = w.role
      /\ v.contact = w.contact
  BY <1>3, <1>8, RoleFields
<1>10. v.round = r /\ v.player = p /\ v.contact = b.events[n].tick
  BY <1>1, <1>6, FirstWindowFields
<1>11. CloseOf(b, v) = CloseOf(rec, w)
  BY <1>1, <1>9 DEF CloseOf
<1>12. SameMoment(DecisionOf(b, v), DecisionOf(rec, w))
  BY <1>9, <1>11, DecisionFields DEF SameMoment
<1>13. /\ DecisionOf(b, v).round = r /\ DecisionOf(b, v).player = p
       /\ DecisionOf(b, v).contact = b.events[n].tick
  BY <1>10, DecisionFields
<1> QED
  BY <1>2, <1>3, <1>4, <1>5, <1>6, <1>12, <1>13 DEF MomentOf

\* So no limit cuts the part if none cuts the record, and both have the same
\* moments up to the cut.
LEMMA MomentsOfAPart ==
    ASSUME NEW rec, IsRecord(rec), NEW t \in Nat, NEW b, NEW at, IsPart(b, rec, t, at),
           OfKind(b, "damage") # {}, WithinLimits(rec)
    PROVE  /\ WithinLimits(b)
           /\ \A c \in Decisions(b) : c.contact <= t /\ \E d \in Decisions(rec) : SameMoment(c, d)
           /\ \A d \in Decisions(rec) : d.contact <= t => \E c \in Decisions(b) : SameMoment(c, d)
<1>1. IsRecord(b)
  BY DEF IsPart
<1>2. /\ Cardinality(OpenWindows(rec)) <= MaxWindows
      /\ Cardinality(OpenWindows(b)) <= MaxWindows
  <2>1. Cardinality(OpenWindows(rec)) <= MaxWindows
    BY DEF WithinLimits
  <2>2. /\ Cardinality(OpenWindows(b)) \in Nat /\ Cardinality(OpenWindows(rec)) \in Nat
        /\ MaxWindows \in Nat
    BY <1>1, FinitelyManyOpenWindows, FS_CardinalityType, WindowAssumption
  <2>3. Cardinality(OpenWindows(b)) <= Cardinality(OpenWindows(rec))
    BY WindowsOfAPart
  <2> QED
    BY <2>1, <2>2, <2>3
<1>3. ASSUME NEW c \in Decisions(b)
      PROVE  c.contact <= t /\ \E d \in Decisions(rec) : SameMoment(c, d)
  <2>1. PICK r, p, n : /\ IsFirstOf(b, r, p, n) /\ HadTime(b, r, b.events[n].tick)
                       /\ c = MomentOf(b, p, n)
    BY <1>1, <1>2, MomentsOfARecord
  <2>2. /\ IsFirstOf(rec, r, p, at[n]) /\ HadTime(rec, r, rec.events[at[n]].tick)
        /\ SameMoment(c, MomentOf(rec, p, at[n])) /\ c.contact <= t
    BY <2>1, MomentOfAPart
  <2>3. PICK d : d = MomentOf(rec, p, at[n])
    OBVIOUS
  <2>4. d \in Decisions(rec)
    BY <1>2, <2>2, <2>3, MomentsOfARecord
  <2> QED
    BY <2>2, <2>3, <2>4
<1>4. ASSUME NEW d \in Decisions(rec), d.contact <= t
      PROVE  \E c \in Decisions(b) : SameMoment(c, d)
  <2>1. PICK r, p, i : /\ IsFirstOf(rec, r, p, i) /\ HadTime(rec, r, rec.events[i].tick)
                       /\ d = MomentOf(rec, p, i)
    BY <1>2, MomentsOfARecord
  <2>2. i \in OfKind(rec, "damage") /\ rec.events[i].tick <= t
    <3>1. i \in OfKind(rec, "damage")
      BY <2>1 DEF IsFirstOf, InvolvedAt
    <3>2. d.contact = rec.events[i].tick
      BY <2>1, FirstWindowFields, DecisionFields DEF MomentOf
    <3> QED
      BY <1>4, <3>1, <3>2
  <2>3. PICK n \in OfKind(b, "damage") : at[n] = i
    BY <2>2, RealEventsOfAPart
  <2>4. n \in DOMAIN b.events
    BY <1>1, RealEventsAreTold
  <2>5. IsFirstOf(b, r, p, n)
    BY <2>1, <2>3, <2>4, FirstOfAPart
  <2>6. HadTime(b, r, b.events[n].tick) /\ SameMoment(MomentOf(b, p, n), d)
    BY <2>1, <2>3, <2>5, MomentOfAPart
  <2>7. PICK c : c = MomentOf(b, p, n)
    OBVIOUS
  <2>8. c \in Decisions(b)
    BY <1>1, <1>2, <2>5, <2>6, <2>7, MomentsOfARecord
  <2> QED
    BY <2>6, <2>7, <2>8
<1>5. Cardinality(Decisions(b)) <= Cardinality(Decisions(rec))
  <2> DEFINE g == [c \in Decisions(b) |-> CHOOSE d \in Decisions(rec) : SameMoment(c, d)]
  <2>1. \A c \in Decisions(b) : g[c] \in Decisions(rec) /\ SameMoment(c, g[c])
    BY <1>3
  <2>2. g \in [Decisions(b) -> Decisions(rec)]
    BY <2>1
  <2> HIDE DEF g
  <2>3. ASSUME NEW c \in Decisions(b), NEW d \in Decisions(b), g[c] = g[d] PROVE c = d
    BY <1>1, <2>1, <2>3, OneMomentARound DEF SameMoment
  <2>4. g \in Injection(Decisions(b), Decisions(rec))
    BY <2>2, <2>3 DEF Injection, IsInjective
  <2> QED
    BY <2>4, DecisionsAreOrdered, FS_Injection
<1>6. WithinLimits(b)
  <2>1. /\ Cardinality(Decisions(b)) \in Nat /\ Cardinality(Decisions(rec)) \in Nat
        /\ MaxDecisions \in Nat /\ Cardinality(Decisions(rec)) <= MaxDecisions
    BY <1>1, DecisionsAreOrdered, FS_CardinalityType, PipelineAssumption DEF WithinLimits
  <2> QED
    BY <1>2, <1>5, <2>1 DEF WithinLimits
<1> QED
  BY <1>3, <1>4, <1>6

\* What a player was seen to do until the cut is the same, unless none of their
\* positions is left.
LEMMA ActionUpTo ==
    ASSUME NEW rec, IsRecord(rec), NEW t \in Nat, NEW b, TellsUpTo(b, rec, t),
           NEW r, NEW p, NEW from \in Nat, from <= t, NEW initiator \in BOOLEAN
    PROVE  \/ Action(b, r, p, from, t, initiator) = Action(rec, r, p, from, t, initiator)
           \/ RowsOf(b, r, p) = {} /\ Action(b, r, p, from, t, initiator) = "unknown"
<1>1. DeedsBetween(b, r, p, from, t) = DeedsBetween(rec, r, p, from, t)
  BY DEF DeedsBetween, TellsUpTo
<1>2. RowsOf(b, r, p) = {x \in RowsOf(rec, r, p) : x.tick <= t}
  BY DEF RowsOf, TellsUpTo
<1>3. Moved(b, r, p, from, t) <=> Moved(rec, r, p, from, t)
  <2>1. PICK rows \in SUBSET Row : rows = RowsOf(rec, r, p)
    BY DEF RowsOf, IsRecord
  <2>2. PICK later \in SUBSET Row : later = {x \in rows : x.tick > from}
    OBVIOUS
  <2>3. PICK seen : seen = RowsOf(b, r, p)
    OBVIOUS
  <2>4. {x \in seen : x.tick > from} = {x \in later : x.tick <= t}
    BY <1>2, <2>1, <2>2, <2>3
  <2>5. LatestRow(seen, from) = LatestRow(rows, from)
    BY <1>2, <2>1, <2>3, LatestRowUpTo
  <2>6. LatestRow({x \in seen : x.tick > from}, t) = LatestRow(later, t)
    <3>1. t <= t
      OBVIOUS
    <3> QED
      BY <2>4, <3>1, LatestRowUpTo
  <2> QED
    BY <2>1, <2>2, <2>3, <2>5, <2>6 DEF Moved
<1>4. CASE DeedsBetween(rec, r, p, from, t) # {}
  BY <1>1, <1>4 DEF Action
<1>5. CASE DeedsBetween(rec, r, p, from, t) = {} /\ RowsOf(b, r, p) = {}
  BY <1>1, <1>5 DEF Action
<1>6. CASE DeedsBetween(rec, r, p, from, t) = {} /\ RowsOf(b, r, p) # {}
  <2>1. RowsOf(rec, r, p) # {}
    BY <1>2, <1>6
  <2> QED
    BY <1>1, <1>3, <1>6, <2>1 DEF Action
<1> QED
  BY <1>4, <1>5, <1>6

\* The cut record has the moment, made of what is left.
LEMMA MomentIsOfAPart ==
    ASSUME NEW rec, IsRecord(rec), WithinLimits(rec), NEW d \in Decisions(rec),
           NEW t \in Nat, t = d.close, NEW b, NEW at, IsPart(b, rec, t, at)
    PROVE  OfKind(b, "damage") # {} /\ IsMomentOf(d, b)
<1>1. IsRecord(b) /\ TellsUpTo(b, rec, t)
  BY PartsTell DEF IsPart
<1>2. d.contact \in Nat /\ d.contact <= t
  BY CandidatesAreMoments DEF IsMoment
<1>3. PICK r, p, i : IsFirstOf(rec, r, p, i) /\ d = MomentOf(rec, p, i)
  BY MomentsOfARecord DEF WithinLimits
<1>4. i \in OfKind(rec, "damage") /\ d.contact = rec.events[i].tick
  BY <1>3, FirstWindowFields, DecisionFields DEF MomentOf, IsFirstOf, InvolvedAt
<1>5. PICK n \in OfKind(b, "damage") : at[n] = i
  BY <1>2, <1>4, RealEventsOfAPart
<1>6. n \in DOMAIN b.events /\ IsFirstOf(b, r, p, n)
  BY <1>1, <1>3, <1>5, FirstOfAPart, RealEventsAreTold
<1>7. PICK c : c = MomentOf(b, p, n)
  OBVIOUS
<1>8. SameMoment(c, d) /\ c.round = r /\ c.player = p
  BY <1>3, <1>5, <1>6, <1>7, MomentOfAPart
<1>9. WithinLimits(b)
  BY <1>5, MomentsOfAPart
<1>10. c \in Range(Candidates(b))
  <2>1. PICK x \in Decisions(b) : SameMoment(x, d)
    BY <1>2, <1>5, MomentsOfAPart
  <2>2. PICK q, s, k : IsFirstOf(b, q, s, k) /\ x = MomentOf(b, s, k)
    BY <1>1, <1>9, <2>1, MomentsOfARecord DEF WithinLimits
  <2>3. x.round = q /\ x.player = s
    BY <2>2, MomentOfAPart
  <2>4. q = r /\ s = p
    BY <1>8, <2>1, <2>3 DEF SameMoment
  <2>5. k = n
    <3>1. \A j, m : IsFirstOf(b, r, p, j) /\ IsFirstOf(b, r, p, m) /\ j # m => Before(b, j, m) /\ Before(b, m, j)
      BY DEF IsFirstOf
    <3>2. k \in DOMAIN b.events
      BY <1>1, <2>2, RealEventsAreTold DEF IsFirstOf, InvolvedAt
    <3> QED
      BY <1>1, <1>6, <2>2, <2>4, <3>1, <3>2, EarlierEvents
  <2> QED
    BY <1>1, <1>7, <1>9, <2>1, <2>2, <2>4, <2>5, AllMomentsAreCandidates DEF WithinLimits
<1>11. PICK v, w : v = FirstWindowOf(b, p, n) /\ w = FirstWindowOf(rec, p, i)
  OBVIOUS
<1>12. c = DecisionOf(b, v) /\ d = DecisionOf(rec, w)
  BY <1>3, <1>7, <1>11 DEF MomentOf
<1>13. /\ v.round = w.round /\ v.player = w.player /\ v.opponent = w.opponent /\ v.role = w.role
       /\ v.contact = w.contact /\ CloseOf(b, v) = CloseOf(rec, w) /\ CloseOf(rec, w) = t
       /\ w.contact = d.contact
  <2>1. /\ c.round = v.round /\ c.player = v.player /\ c.opponent = v.opponent
        /\ c.role = v.role /\ c.contact = v.contact /\ c.close = CloseOf(b, v)
    BY <1>12, DecisionFields
  <2>2. /\ d.round = w.round /\ d.player = w.player /\ d.opponent = w.opponent
        /\ d.role = w.role /\ d.contact = w.contact /\ d.close = CloseOf(rec, w)
    BY <1>12, DecisionFields
  <2> QED
    BY <1>8, <2>1, <2>2 DEF SameMoment
<1>14. \/ Action(b, v.round, v.player, v.contact, t, v.role = "attacker") =
              Action(rec, v.round, v.player, v.contact, t, v.role = "attacker")
       \/ /\ RowsOf(b, v.round, v.player) = {}
          /\ Action(b, v.round, v.player, v.contact, t, v.role = "attacker") = "unknown"
  <2>1. PICK initiator \in BOOLEAN : initiator = (v.role = "attacker")
    OBVIOUS
  <2>2. v.contact \in Nat /\ v.contact <= t
    BY <1>2, <1>13
  <2>3. \/ Action(b, v.round, v.player, v.contact, t, initiator) =
               Action(rec, v.round, v.player, v.contact, t, initiator)
        \/ /\ RowsOf(b, v.round, v.player) = {}
           /\ Action(b, v.round, v.player, v.contact, t, initiator) = "unknown"
    BY <1>1, <2>2, ActionUpTo
  <2> QED
    BY <2>1, <2>3
<1>15. c = d \/ (c = [d EXCEPT !.action = "unknown"] /\ RowsOf(b, d.round, d.player) = {})
  <2>1. d.round = v.round /\ d.player = v.player
    BY <1>8, <1>12, DecisionFields DEF SameMoment
  <2>2. CASE Action(b, v.round, v.player, v.contact, t, v.role = "attacker") =
                 Action(rec, v.round, v.player, v.contact, t, v.role = "attacker")
    BY <1>12, <1>13, <2>2 DEF DecisionOf
  <2>3. CASE /\ RowsOf(b, v.round, v.player) = {}
             /\ Action(b, v.round, v.player, v.contact, t, v.role = "attacker") = "unknown"
    BY <1>12, <1>13, <2>1, <2>3 DEF DecisionOf
  <2> QED
    BY <1>14, <2>2, <2>3
<1> QED
  BY <1>5, <1>10, <1>15 DEF IsMomentOf

\* And the page highlights the same contacts.
LEMMA SameAnchors ==
    ASSUME NEW rec, IsRecord(rec), WithinLimits(rec), NEW t \in Nat,
           NEW b, NEW at, IsPart(b, rec, t, at), OfKind(b, "damage") # {}, NEW m, m.tick <= t
    PROVE  IsAnchor(m, Candidates(b)) <=> IsAnchor(m, Candidates(rec))
<1>1. IsRecord(b) /\ WithinLimits(b)
  BY MomentsOfAPart DEF IsPart
<1>2. Range(Candidates(b)) = Decisions(b) /\ Range(Candidates(rec)) = Decisions(rec)
  BY <1>1, AllMomentsAreCandidates DEF WithinLimits
<1> DEFINE isAt(c) == m.round = c.round /\ m.tick = c.contact /\ m.who = {c.player, c.opponent}
<1>3. \A s : IsAnchor(m, s) <=> m.type = "damage" /\ \E c \in Range(s) : isAt(c)
  BY DEF IsAnchor, Range
<1>4. (\E c \in Decisions(b) : isAt(c)) <=> (\E d \in Decisions(rec) : isAt(d))
  <2>1. ASSUME NEW c \in Decisions(b), isAt(c) PROVE \E d \in Decisions(rec) : isAt(d)
    BY <2>1, MomentsOfAPart DEF SameMoment
  <2>2. ASSUME NEW d \in Decisions(rec), isAt(d) PROVE \E c \in Decisions(b) : isAt(c)
    BY <2>2, MomentsOfAPart DEF SameMoment
  <2> QED
    BY <2>1, <2>2
<1> HIDE DEF isAt
<1> QED
  BY <1>2, <1>3, <1>4

-----------------------------------------------------------------------------
(* Estimates of who wins.                                                   *)

\* What is counted up to a tick is counted in the record cut at it.
LEMMA FoughtUpTo ==
    ASSUME NEW rec, IsRecord(rec), NEW t \in Nat, NEW kind, NEW r, NEW u \in Nat, u <= t
    PROVE  Cardinality(Fought(UpTo(rec, t), kind, r, u)) = Cardinality(Fought(rec, kind, r, u))
<1>1. PICK b : b = UpTo(rec, t)
  OBVIOUS
<1>2. PICK at : /\ IsPart(b, rec, t, at)
                /\ Range(at) = {m \in DOMAIN rec.events : rec.events[m].tick <= t}
  BY <1>1, CutIsAPart
<1>3. PICK S, T : S = Fought(b, kind, r, u) /\ T = Fought(rec, kind, r, u)
  OBVIOUS
<1>4. IsRecord(b) /\ IsFiniteSet(S)
  <2>1. IsRecord(b)
    BY <1>2 DEF IsPart
  <2> QED
    BY <1>3, <2>1, FinitelyManyContacts, FS_Subset DEF Fought
<1>5. /\ \A i \in S : i \in DOMAIN b.events
      /\ \A i \in DOMAIN b.events : /\ b.events[i] = rec.events[at[i]] /\ at[i] \in DOMAIN rec.events
      /\ DOMAIN at = DOMAIN b.events
  BY <1>2, <1>3 DEF Fought, IsPart
<1>6. \A i \in DOMAIN b.events : i \in S <=> at[i] \in T
  BY <1>3, <1>5 DEF Fought
<1> DEFINE f == [i \in S |-> at[i]]
<1>7. f \in [S -> T] /\ \A i \in S : f[i] = at[i]
  BY <1>5, <1>6
<1> HIDE DEF f
<1>8. ASSUME NEW m \in T PROVE \E i \in S : f[i] = m
  <2>1. m \in DOMAIN rec.events /\ rec.events[m].tick <= u
    BY <1>3 DEF Fought
  <2>2. rec.events[m].tick <= t
    BY <2>1, EventFields
  <2>3. m \in Range(at)
    BY <1>2, <2>1, <2>2
  <2>4. PICK i \in DOMAIN b.events : at[i] = m
    BY <1>5, <2>3 DEF Range
  <2> QED
    BY <1>6, <1>7, <2>4
<1>9. \A i, j \in S : f[i] = f[j] => i = j
  BY <1>2, <1>5, <1>7, PartPositions
<1>10. f \in Bijection(S, T)
  BY <1>7, <1>8, <1>9 DEF Bijection, Injection, Surjection, IsInjective
<1>11. ExistsBijection(S, T)
  BY <1>10 DEF ExistsBijection
<1>12. Cardinality(T) = Cardinality(S)
  BY <1>4, <1>11, FS_Bijection
<1> QED
  BY <1>1, <1>3, <1>12

\* An estimate of a state up to the cut can be made of the cut record.
LEMMA EstimatesUpTo ==
    ASSUME NEW rec, IsRecord(rec), NEW t \in Nat, NEW x \in Estimates(rec), x.tick <= t
    PROVE  x \in Estimates(UpTo(rec, t))
<1>1. PICK b : b = UpTo(rec, t)
  OBVIOUS
<1>2. PICK at : IsPart(b, rec, t, at)
  BY <1>1, CutIsAPart
<1>3. /\ b.rows = {y \in rec.rows : y.tick <= t} /\ b.deeds = {y \in rec.deeds : y.tick <= t}
      /\ b.rounds = rec.rounds
  BY <1>2 DEF IsPart
<1>4. /\ \A y \in rec.rows : y.tick \in Nat
      /\ \A y \in rec.deeds : y.tick \in Nat
  BY DEF IsRecord, Row, Deed
<1>5. PICK r \in Rounds : /\ rec.rounds[r].decided
                          /\ x \in {Estimate(rec, r, u) : u \in TimelineTicks(rec, r)}
  BY DEF Estimates
<1>6. PICK u \in TimelineTicks(rec, r) : x = Estimate(rec, r, u)
  BY <1>5
<1> DEFINE ticks(c) == {y.tick : y \in {z \in c.rows : z.round = r}}
           both(c, v) == {Side[y.player] : y \in {z \in c.rows : z.round = r /\ z.tick = v /\ z.alive}}
                             = {"ct", "t"}
<1>7. \A c : TimelineTicks(c, r) =
          {v \in ticks(c) : both(c, v) /\ Cardinality({w \in ticks(c) : w < v}) % TimelineEvery = 0}
  BY DEF TimelineTicks
<1>8. x.tick = u
  BY <1>6 DEF Estimate
<1>9. u \in Nat /\ u <= t /\ u \in ticks(rec) /\ both(rec, u)
      /\ Cardinality({w \in ticks(rec) : w < u}) % TimelineEvery = 0
  <2>1. u \in ticks(rec) /\ both(rec, u)
        /\ Cardinality({w \in ticks(rec) : w < u}) % TimelineEvery = 0
    <3> HIDE DEF ticks, both
    <3> QED
      BY <1>7
  <2> QED
    BY <1>4, <1>8, <2>1
<1>10. u \in TimelineTicks(b, r)
  <2>1. \A v \in Nat : v <= t => (v \in ticks(b) <=> v \in ticks(rec))
    BY <1>3, <1>4
  <2>2. \A c : c \in {rec, b} => ticks(c) \subseteq Nat
    BY <1>3, <1>4
  <2>3. {z \in b.rows : z.round = r /\ z.tick = u /\ z.alive} =
            {z \in rec.rows : z.round = r /\ z.tick = u /\ z.alive}
    BY <1>3, <1>9
  <2>4. both(b, u)
    BY <1>9, <2>3
  <2> HIDE DEF ticks, both
  <2>5. {w \in ticks(b) : w < u} = {w \in ticks(rec) : w < u}
    <3>1. ASSUME NEW w \in Nat, w < u PROVE w <= t
      BY <1>9, <3>1
    <3> QED
      BY <2>1, <2>2, <3>1
  <2> QED
    BY <1>7, <1>9, <2>1, <2>4, <2>5
<1>11. Estimate(b, r, u) = Estimate(rec, r, u)
  <2>1. {y \in b.rows : y.round = r /\ y.tick = u} = {y \in rec.rows : y.round = r /\ y.tick = u}
    BY <1>3, <1>9
  <2>2. {y \in b.deeds : y.round = r /\ y.tick <= u} = {y \in rec.deeds : y.round = r /\ y.tick <= u}
    BY <1>3, <1>4, <1>9
  <2>3. \A kind : Cardinality(Fought(b, kind, r, u)) = Cardinality(Fought(rec, kind, r, u))
    BY <1>1, <1>9, FoughtUpTo
  <2> QED
    BY <1>3, <2>1, <2>2, <2>3 DEF Estimate
<1>12. x \in Estimates(b)
  BY <1>3, <1>5, <1>6, <1>10, <1>11 DEF Estimates
<1> QED
  BY <1>1, <1>12

\* The probability told is an estimate of the timeline, not after the contact.
LEMMA ProbabilityIsPast ==
    ASSUME NEW rec, IsRecord(rec), NEW timeline \in SUBSET Estimates(rec),
           NEW d, d.open \in Nat, ProbabilityAt(d, timeline) # None
    PROVE  ProbabilityAt(d, timeline) \in timeline /\ ProbabilityAt(d, timeline).tick <= d.open
<1>1. PICK past : past = {x \in timeline : x.tick <= d.open}
  OBVIOUS
<1>2. past # {} /\ ProbabilityAt(d, timeline) =
          CHOOSE x \in past : \A y \in past :
              y.tick < x.tick \/ (y.tick = x.tick /\ x.round <= y.round)
  BY <1>1 DEF ProbabilityAt
<1>3. ASSUME NEW x \in past PROVE x.tick \in 0 .. d.open /\ x.round \in Nat
  <2>1. x \in Estimates(rec) /\ x.tick <= d.open
    BY <1>1
  <2>2. PICK r \in Rounds : x \in {Estimate(rec, r, u) : u \in TimelineTicks(rec, r)}
    BY <2>1 DEF Estimates
  <2>3. PICK u \in TimelineTicks(rec, r) : x = Estimate(rec, r, u)
    BY <2>2
  <2>4. x.tick = u /\ x.round = r
    BY <2>3 DEF Estimate
  <2>5. \E y \in rec.rows : y.tick = u
    BY <2>3 DEF TimelineTicks
  <2>6. u \in Nat
    BY <2>5 DEF IsRecord, Row
  <2> QED
    BY <2>1, <2>4, <2>6, WindowAssumption
<1> DEFINE Lags == {d.open - x.tick : x \in past}
<1>4. PICK x \in past : \A y \in past : y.tick <= x.tick
  <2>1. Lags \in SUBSET (0 .. d.open) /\ Lags # {}
    BY <1>2, <1>3
  <2>2. \E n \in Lags : \A k \in Lags : n <= k
    <3> HIDE DEF Lags
    <3> QED
      BY <2>1, LeastNumber
  <2>3. PICK x \in past : \A y \in past : d.open - x.tick <= d.open - y.tick
    BY <2>2
  <2> QED
    BY <1>3, <2>3
<1> DEFINE Numbers == {z.round : z \in {y \in past : y.tick = x.tick /\ y.round <= x.round}}
<1>5. PICK z \in past : z.tick = x.tick /\ \A y \in past : y.tick = x.tick => z.round <= y.round
  <2>1. Numbers \in SUBSET (0 .. x.round) /\ Numbers # {} /\ x.round \in Nat
    BY <1>3
  <2>2. \E n \in Numbers : \A k \in Numbers : n <= k
    <3> HIDE DEF Numbers
    <3> QED
      BY <2>1, LeastNumber
  <2>3. PICK z \in past : /\ z.tick = x.tick /\ z.round <= x.round
                          /\ \A y \in past : y.tick = x.tick /\ y.round <= x.round
                                 => z.round <= y.round
    BY <2>2
  <2> QED
    BY <1>3, <2>3
<1>6. \A y \in past : y.tick < z.tick \/ (y.tick = z.tick /\ z.round <= y.round)
  BY <1>3, <1>4, <1>5
<1>7. ProbabilityAt(d, timeline) \in past
  BY <1>2, <1>6
<1> QED
  BY <1>1, <1>7

\* Every probability of the timeline is estimated from a state of the match.
LEMMA TimelineFields ==
    ASSUME ReplayInv, stage \notin {"parsed", "prepared"}
    PROVE  request.result.timeline \in SUBSET Estimates(record)
<1>1. PICK estimated \in BOOLEAN : prepared = PipelineResult(record, estimated)
  BY DEF ReplayInv, PreparedIsOfTheRecord
<1>2. PICK p \in Players :
          LET asked == FilterForPlayer(prepared, p)
          IN  request = RequestOf(p, asked, SelectDiverse(asked.candidates, AnalysesPerPlayer))
  BY DEF ReplayInv, RequestIsOfAPlayer
<1>3. request.result = FilterForPlayer(prepared, p)
  BY <1>2 DEF RequestOf
<1>4. request.result.timeline = prepared.timeline
  BY <1>1, <1>3 DEF FilterForPlayer, PipelineResult
<1>5. prepared.timeline = IF estimated THEN TimelineOf(record) ELSE {}
  BY <1>1 DEF PipelineResult
<1>6. TimelineOf(record) \in SUBSET Estimates(record)
  BY DEF TimelineOf
<1> QED
  BY <1>4, <1>5, <1>6

\* What the coach is told of a moment, and what the language model may cite, is
\* what the record gives that is cut at the end of the reaction: the moment, its
\* events and those highlighted, and the latter if nobody had been killed.  The
\* probability told is one that can be estimated of the record cut at the
\* contact.  No limit cuts the windows of a record.
THEOREM FactsHideTheOutcome ==
    ASSUME \A rec \in Records : WithinLimits(rec)
    PROVE  ReplaySpec => []FactsAreOutcomeBlind
<1>1. ASSUME ReplayInv, stage = "coaching", NEW k \in DOMAIN request.told
      PROVE  LET d     == request.selected[k]
                 told  == request.told[k]
                 blind == UpTo(record, d.close)
             IN  /\ IsMomentOf(d, blind)
                 /\ told.events = KnownEvents(d, KeyEvents(blind, Candidates(blind)))
                 /\ told.probability # None => told.probability \in Estimates(UpTo(record, d.open))
  <2>1. stage \notin {"parsed", "prepared"}
    BY <1>1
  <2>2. PICK rec, shown, timeline : /\ rec = record /\ shown = request.result.keyEvents
                                    /\ timeline = request.result.timeline
    OBVIOUS
  <2>3. /\ DOMAIN request.told = DOMAIN request.selected
        /\ request.told[k].events = KnownEvents(request.selected[k], shown)
        /\ request.told[k].probability = ProbabilityAt(request.selected[k], timeline)
    BY <1>1, <2>1, <2>2, RequestFields DEF Payload
  <2>4. PICK d : d = request.selected[k]
    OBVIOUS
  <2>5. /\ IsRecord(rec) /\ IsMoment(rec, d) /\ d \in Decisions(rec)
        /\ shown = {m \in KeyEvents(rec, Candidates(rec)) : d.player \in m.who}
    BY <1>1, <2>1, <2>2, <2>3, <2>4, RequestFields
  <2>6. WithinLimits(rec)
    BY <1>1, <2>2 DEF ReplayInv, PreparedIsOfTheRecord
  <2>7. d.close \in Nat /\ d.open \in Nat
    BY <2>5 DEF IsMoment
  <2>8. PICK t, b : t = d.close /\ b = UpTo(rec, t)
    OBVIOUS
  <2>9. PICK at : IsPart(b, rec, t, at)
    BY <2>5, <2>7, <2>8, CutIsAPart
  <2>10. OfKind(b, "damage") # {} /\ IsMomentOf(d, b)
    BY <2>5, <2>6, <2>7, <2>8, <2>9, MomentIsOfAPart
  <2>11. \A m : m.tick <= t => (IsAnchor(m, Candidates(b)) <=> IsAnchor(m, Candidates(rec)))
    BY <2>5, <2>6, <2>7, <2>8, <2>9, <2>10, SameAnchors
  <2>12. IsCutAt(b, rec, t)
    BY <2>5, <2>7, <2>8, RecordUpTo
  <2>13. KnownEvents(d, shown) = KnownEvents(d, KeyEvents(b, Candidates(b)))
    BY <2>5, <2>7, <2>8, <2>11, <2>12, KnownEventsUpTo
  <2>14. ASSUME ProbabilityAt(d, timeline) # None
         PROVE  ProbabilityAt(d, timeline) \in Estimates(UpTo(rec, d.open))
    <3>1. timeline \in SUBSET Estimates(rec)
      BY <1>1, <2>1, <2>2, TimelineFields
    <3>2. PICK x : x = ProbabilityAt(d, timeline)
      OBVIOUS
    <3>3. x \in Estimates(rec) /\ x.tick <= d.open
      BY <2>5, <2>7, <2>14, <3>1, <3>2, ProbabilityIsPast
    <3> QED
      BY <2>5, <2>7, <3>2, <3>3, EstimatesUpTo
  <2> QED
    BY <2>2, <2>3, <2>4, <2>8, <2>10, <2>13, <2>14
<1>2. ASSUME ReplayInv, stage = "advising"
      PROVE  LET d     == question.decision
                 blind == [UpTo(record, d.close) EXCEPT
                              !.events = Picked(@, {n \in DOMAIN @ : @[n].kind # "kill"})]
             IN  /\ IsMomentOf(d, blind)
                 /\ Evidence(blind, d, KeyEvents(blind, Candidates(blind))) = question.facts
  <2>1. stage \notin {"parsed", "prepared"} /\ HasTexts
    BY <1>2 DEF HasTexts
  <2>2. PICK rec, shown : rec = record /\ shown = request.result.keyEvents
    OBVIOUS
  <2>3. PICK k \in DOMAIN analyses, goals \in SUBSET Goals :
            question = Prompt(analyses[k].decision, goals,
                              Evidence(record, analyses[k].decision, request.result.keyEvents))
    BY <1>2 DEF ReplayInv, QuestionIsOfAText
  <2>4. PICK d : d = analyses[k].decision
    OBVIOUS
  <2>5. question.decision = d /\ question.facts = Evidence(rec, d, shown)
    BY <2>2, <2>3, <2>4 DEF Prompt
  <2>6. PICK n \in DOMAIN request.selected : d = request.selected[n]
    BY <1>2, <2>1, <2>4 DEF ReplayInv, TextsAreOfTheirMoments
  <2>7. /\ IsRecord(rec) /\ IsMoment(rec, d) /\ d \in Decisions(rec)
        /\ shown = {m \in KeyEvents(rec, Candidates(rec)) : d.player \in m.who}
    BY <1>2, <2>1, <2>2, <2>6, RequestFields
  <2>8. WithinLimits(rec)
    BY <1>2, <2>2 DEF ReplayInv, PreparedIsOfTheRecord
  <2>9. d.close \in Nat /\ d.contact \in Nat /\ d.contact <= d.close
    BY <2>7 DEF IsMoment
  <2>10. PICK t, b : t = d.close /\ b = [UpTo(rec, t) EXCEPT
                                            !.events = Picked(@, {m \in DOMAIN @ : @[m].kind # "kill"})]
    OBVIOUS
  <2>11. PICK at : IsPart(b, rec, t, at)
    BY <2>7, <2>9, <2>10, BlindIsAPart
  <2>12. OfKind(b, "damage") # {} /\ IsMomentOf(d, b)
    BY <2>7, <2>8, <2>9, <2>10, <2>11, MomentIsOfAPart
  <2>13. \A m : m.tick <= t => (IsAnchor(m, Candidates(b)) <=> IsAnchor(m, Candidates(rec)))
    BY <2>7, <2>8, <2>9, <2>10, <2>11, <2>12, SameAnchors
  <2>14. TellsUpTo(b, rec, t)
    BY <2>11, PartsTell
  <2>15. Evidence(b, d, KeyEvents(b, Candidates(b))) = Evidence(rec, d, shown)
    <3>1. Telemetry(b, d) = Telemetry(rec, d)
      BY <2>7, <2>9, <2>10, <2>14, TelemetryUpTo
    <3>2. EventsOfMoment(d, KeyEvents(b, Candidates(b))) = EventsOfMoment(d, shown)
      <4>1. PICK left, candidates : left = Candidates(b) /\ candidates = Candidates(rec)
        OBVIOUS
      <4>2. /\ TellsUpTo(b, rec, d.close)
            /\ \A m : m.tick <= d.close => (IsAnchor(m, left) <=> IsAnchor(m, candidates))
        BY <2>10, <2>13, <2>14, <4>1
      <4>3. IsRecord(rec) /\ shown = {m \in KeyEvents(rec, candidates) : d.player \in m.who}
        BY <2>7, <4>1
      <4>4. EventsOfMoment(d, KeyEvents(b, left)) = EventsOfMoment(d, shown)
        BY <2>9, <4>2, <4>3, MomentEventsUpTo
      <4> QED
        BY <4>1, <4>4
    <3> QED
      BY <3>1, <3>2 DEF Evidence
  <2> QED
    BY <2>2, <2>5, <2>10, <2>12, <2>15
<1>3. ReplayInv => FactsAreOutcomeBlind
  BY <1>1, <1>2 DEF FactsAreOutcomeBlind
<1> QED
  BY <1>3, ReplaysKeepTheInvariant, PTL

-----------------------------------------------------------------------------
(***************************************************************************)
(* Windows of a record cut where the decision was taken: what is known of  *)
(* a window is not changed by what comes later, nor what came of it by     *)
(* what came before.                                                       *)
(***************************************************************************)

LEMMA ToldKinds ==
    ASSUME NEW rec, rec.events \in Seq(Event), NEW kind
    PROVE  {rec.events[i] : i \in OfKind(rec, kind)} = {e \in Range(rec.events) : Real(e) /\ e.kind = kind}
<1>0. PICK events \in Seq(Event) : events = rec.events
  OBVIOUS
<1>1. ASSUME NEW i \in OfKind(rec, kind)
      PROVE  rec.events[i] \in {e \in Range(events) : Real(e) /\ e.kind = kind}
  BY <1>0 DEF OfKind, RealEvents, Range
<1>2. ASSUME NEW e \in Range(events), Real(e), e.kind = kind
      PROVE  \E i \in OfKind(rec, kind) : rec.events[i] = e
  <2>1. PICK n \in DOMAIN events : events[n] = e
    BY DEF Range
  <2>2. PICK B : B = {m \in DOMAIN events : events[m] = e}
    OBVIOUS
  <2>3. DOMAIN events = 1 .. Len(events) /\ Len(events) \in Nat
    BY LenProperties
  <2>4. B \in SUBSET (0 .. Len(events)) /\ B # {}
    BY <2>1, <2>2, <2>3
  <2>5. PICK i \in B : \A k \in B : i <= k
    BY <2>3, <2>4, LeastNumber
  <2>6. i \in 1 .. Len(events) /\ events[i] = e
    BY <2>2, <2>3, <2>5
  <2>7. ASSUME NEW j \in 1 .. (i - 1) PROVE events[j] # events[i]
    <3>1. j \in 1 .. Len(events) /\ j < i
      BY <2>3, <2>6, <2>7
    <3>2. CASE events[j] = e
      <4>1. j \in B
        BY <2>2, <2>3, <3>1, <3>2
      <4> QED
        BY <2>5, <2>6, <3>1, <4>1
    <3> QED
      BY <2>6, <3>2
  <2>8. i \in OfKind(rec, kind)
    BY <1>0, <1>2, <2>3, <2>6, <2>7 DEF OfKind, RealEvents
  <2> QED
    BY <1>0, <2>6, <2>8
<1> QED
  BY <1>0, <1>1, <1>2

\* What of the features is told, by kinds of facts.
LEMMA FeaturesUpTo ==
    ASSUME NEW rec, IsRecord(rec), NEW w, w.open \in Nat, w.contact \in Nat
    PROVE  Features(UpTo(rec, w.open), w) = Features(rec, w)
<1>1. PICK b : b = UpTo(rec, w.open)
  OBVIOUS
<1>2. IsCutAt(b, rec, w.open)
  BY <1>1, RecordUpTo
<1>3. \A kind : {b.events[i] : i \in OfKind(b, kind)} =
                    {e \in {rec.events[i] : i \in OfKind(rec, kind)} : e.tick <= w.open}
  <2>1. ASSUME NEW kind
        PROVE  {b.events[i] : i \in OfKind(b, kind)} =
                   {e \in {rec.events[i] : i \in OfKind(rec, kind)} : e.tick <= w.open}
    <3>1. {b.events[i] : i \in OfKind(b, kind)} = {e \in Range(b.events) : Real(e) /\ e.kind = kind}
      <4>1. b.events \in Seq(Event)
        BY <1>2 DEF IsCutAt
      <4> QED
        BY <4>1, ToldKinds
    <3>2. {rec.events[i] : i \in OfKind(rec, kind)} = {e \in Range(rec.events) : Real(e) /\ e.kind = kind}
      BY ToldKinds DEF IsRecord
    <3> QED
      BY <1>2, <3>1, <3>2 DEF IsCutAt
  <2> QED
    BY <2>1
<1>4. ContactFeature(b, w) = ContactFeature(rec, w)
  <2>1. CASE w.open >= w.contact
    <3>1. PICK B : B = {b.events[i] : i \in OfKind(b, w.kind)}
      OBVIOUS
    <3>2. PICK A : A = {rec.events[i] : i \in OfKind(rec, w.kind)}
      OBVIOUS
    <3>3. B = {e \in A : e.tick <= w.open}
      BY <1>3, <3>1, <3>2
    <3>4. PICK fighters : fighters = IF w.role = "attacker" THEN <<w.player, w.opponent>> ELSE <<w.opponent, w.player>>
      OBVIOUS
    <3>5. {e \in B : e.round = w.round /\ e.tick = w.contact /\ <<e.attacker, e.victim>> = fighters} =
              {e \in A : e.round = w.round /\ e.tick = w.contact /\ <<e.attacker, e.victim>> = fighters}
      BY <2>1, <3>3
    <3> QED
      BY <2>1, <3>1, <3>2, <3>4, <3>5 DEF ContactFeature
  <2>2. CASE ~(w.open >= w.contact)
    BY <2>2 DEF ContactFeature
  <2> QED
    BY <2>1, <2>2
<1>5. Recent(b, w) = Recent(rec, w)
  BY <1>3 DEF Recent
<1>6. \A p : RowsOf(b, w.round, p) = {x \in RowsOf(rec, w.round, p) : x.tick <= w.open}
  BY <1>2 DEF RowsOf, IsCutAt
<1>7. \A p : LatestRow(RowsOf(b, w.round, p), w.open) = LatestRow(RowsOf(rec, w.round, p), w.open)
  <2>1. ASSUME NEW rows
        PROVE  LatestRow({x \in rows : x.tick <= w.open}, w.open) = LatestRow(rows, w.open)
    BY DEF LatestRow
  <2> QED
    BY <1>6, <2>1
<1>8. {x \in RowsOf(b, w.round, w.player) : w.open - Lookback <= x.tick /\ x.tick <= w.open} =
          {x \in RowsOf(rec, w.round, w.player) : w.open - Lookback <= x.tick /\ x.tick <= w.open}
  BY <1>6
<1>9. UNION {LatestRow(RowsOf(b, w.round, p), w.open) : p \in Players \ {w.player}} =
          UNION {LatestRow(RowsOf(rec, w.round, p), w.open) : p \in Players \ {w.player}}
  BY <1>7
<1>10. Features(b, w) = Features(rec, w)
  BY <1>4, <1>5, <1>7, <1>8, <1>9 DEF Features
<1> QED
  BY <1>1, <1>10

LEMMA LabelsAfter ==
    ASSUME NEW rec, IsRecord(rec), NEW w, w.open \in Nat
    PROVE  Labels(After(rec, w.open), w) = Labels(rec, w)
<1>1. PICK s : s = rec.events
  OBVIOUS
<1>2. s \in Seq(Event)
  BY <1>1 DEF IsRecord
<1>3. PICK N \in SUBSET DOMAIN s : N = {n \in DOMAIN s : s[n].tick > w.open}
  OBVIOUS
<1>4. PICK picked : picked = Picked(s, N)
  OBVIOUS
<1>5. picked \in Seq(Event) /\ Range(picked) = {s[n] : n \in N}
  BY <1>2, <1>4, PickedElements
<1>6. PICK b : b = After(rec, w.open)
  OBVIOUS
<1>7. b.events = picked
  <2>1. b = [rec EXCEPT !.events = picked]
    BY <1>1, <1>3, <1>4, <1>6 DEF After
  <2> QED
    BY <2>1 DEF IsRecord
<1>8. Range(picked) = {e \in Range(s) : e.tick > w.open}
  BY <1>3, <1>5 DEF Range
<1>9. \A kind : Later(b, w, kind) = Later(rec, w, kind)
  <2>1. ASSUME NEW kind PROVE Later(b, w, kind) = Later(rec, w, kind)
    <3>1. {b.events[i] : i \in OfKind(b, kind)} = {e \in Range(picked) : Real(e) /\ e.kind = kind}
      <4>1. b.events \in Seq(Event)
        BY <1>5, <1>7
      <4> QED
        BY <1>7, <4>1, ToldKinds
    <3>2. {rec.events[i] : i \in OfKind(rec, kind)} = {e \in Range(s) : Real(e) /\ e.kind = kind}
      BY <1>1, <1>2, ToldKinds
    <3>3. \A e \in Range(s) : e.tick \in Nat
      <4>1. \A n \in DOMAIN s : s[n] \in Event
        BY <1>2, ElementOfSeq
      <4> QED
        BY <4>1 DEF Range, Event
    <3> QED
      BY <1>8, <3>1, <3>2, <3>3 DEF Later
  <2> QED
    BY <2>1
<1>10. Trades(b, w) = Trades(rec, w)
  <2>1. PICK kills : kills = Later(b, w, "kill")
    OBVIOUS
  <2>2. kills = Later(rec, w, "kill")
    BY <1>9, <2>1
  <2> QED
    BY <2>1, <2>2 DEF Trades
<1>11. Later(b, w, "kill") = Later(rec, w, "kill") /\ Later(b, w, "damage") = Later(rec, w, "damage")
  BY <1>9
<1>12. Labels(b, w) = Labels(rec, w)
  BY <1>10, <1>11 DEF Labels
<1> QED
  BY <1>6, <1>12

LEMMA WindowTimes ==
    ASSUME NEW rec, IsRecord(rec), NEW w \in Windows(rec)
    PROVE  w.open \in Nat /\ w.contact \in Nat
<1>1. PICK x \in Anchors(rec) \X {"attacker", "victim"} : w = WindowOf(rec, x[1], x[2])
  BY DEF Windows
<1>2. PICK i : i \in Anchors(rec) /\ i = x[1]
  BY <1>1
<1>3. PICK e \in Event : e = rec.events[i]
  <2>1. i \in DOMAIN rec.events
    BY <1>2, AnchorsAreContacts, FinitelyManyContacts
  <2>2. \A s \in Seq(Event) : \A n \in DOMAIN s : s[n] \in Event
    BY ElementOfSeq
  <2> QED
    BY <2>1, <2>2 DEF IsRecord
<1>4. e.tick \in Nat /\ e.round \in Rounds
  BY <1>3 DEF Event
<1>5. PICK times \in RoundTimes : times = rec.rounds[e.round]
  BY <1>4 DEF IsRecord
<1>6. times.start \in Nat
  BY <1>5 DEF RoundTimes
<1>7. /\ w.contact = e.tick
      /\ w.open = IF e.tick - Lead > times.start THEN e.tick - Lead ELSE times.start
  BY <1>1, <1>2, <1>3, <1>5 DEF WindowOf
<1> QED
  BY <1>4, <1>6, <1>7, WindowAssumption

\* What a player is to be advised on is learnt from what was known before, and
\* rated by what came after, whatever the replay tells in whichever order.
THEOREM FeaturesComeBeforeLabels == ReplaySpec => []FeaturesPrecedeLabels
<1>1. ReplayInv => FeaturesPrecedeLabels
  <2> SUFFICES ASSUME ReplayInv, stage = "parsed", NEW w \in Windows(record)
               PROVE  /\ Features(UpTo(record, w.open), w) = Features(record, w)
                      /\ Labels(After(record, w.open), w) = Labels(record, w)
    BY DEF FeaturesPrecedeLabels
  <2>1. IsRecord(record)
    BY ReplayAssumption DEF ReplayInv, PreparedIsOfTheRecord
  <2>2. w.open \in Nat /\ w.contact \in Nat
    BY <2>1, WindowTimes
  <2> QED
    BY <2>1, <2>2, FeaturesUpTo, LabelsAfter
<1> QED
  BY <1>1, ReplaysKeepTheInvariant, PTL
==============================================================================
