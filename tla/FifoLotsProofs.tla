---------------------------- MODULE FifoLotsProofs ----------------------------
(***************************************************************************)
(* The loop over the lots of an inventory row computes the profile that    *)
(* InventoryService works with, and the parents of the lots account for    *)
(* every unit, for any number of lots, locations, dates and quantities.    *)
(***************************************************************************)
EXTENDS FifoLots, SumLemmas

LEMMA LotFacts ==
    ASSUME NEW t \in Seq(Lot)
    PROVE  /\ Len(t) \in Nat
           /\ DOMAIN t = 1..Len(t)
           /\ \A i \in DOMAIN t :
                 /\ i \in Nat
                 /\ t[i] \in Lot
                 /\ t[i].received \in Epochs
                 /\ t[i].received \in Nat
                 /\ t[i].received <= LastEpoch
                 /\ t[i].onHand \in Nat
                 /\ t[i].quantityReceived \in Nat
                 /\ t[i].parent \in Nat
  <1>1. DOMAIN t = 1..Len(t) /\ Len(t) \in Nat /\ \A i \in DOMAIN t : t[i] \in Lot
    OBVIOUS
  <1>2. \A i \in Epochs : i \in Nat /\ i <= LastEpoch
    BY EpochAssumption DEF Epochs
  <1>3. \A x \in Lot : x.received \in Epochs /\ x.onHand \in Nat /\ x.quantityReceived \in Nat /\ x.parent \in Nat
    BY LotBounds DEF Lot
  <1>4. \A i \in DOMAIN t : i \in Nat
    BY <1>1
  <1>5. QED
    BY <1>1, <1>2, <1>3, <1>4

-----------------------------------------------------------------------------
(* The order of the lots *)

\* Some lot of a set comes before all others.
LEMMA FirstOfLots ==
    ASSUME NEW t \in Seq(Lot), NEW S \in SUBSET DOMAIN t, S # {}
    PROVE  /\ First(t, S) \in S
           /\ \A j \in S \ {First(t, S)} : Before(t, First(t, S), j)
  <1>1. DOMAIN t \subseteq Nat /\ \A i \in DOMAIN t : t[i].received \in Nat
    BY LotFacts
  <1> DEFINE Dates == {t[i].received : i \in S}
  <1>2. Dates \in SUBSET Nat /\ Dates # {}
    BY <1>1
  <1>3. PICK e \in Dates : \A f \in Dates : e <= f
    BY <1>2, LeastNatural
  <1> DEFINE Oldest == {i \in S : t[i].received = e}
  <1>4. Oldest \in SUBSET Nat /\ Oldest # {}
    BY <1>1, <1>3
  <1>5. PICK i \in Oldest : \A j \in Oldest : i <= j
    BY <1>4, LeastNatural
  <1>6. ASSUME NEW j \in S \ {i}
        PROVE  Before(t, i, j)
    <2>1. t[i].received = e /\ e <= t[j].received /\ e \in Nat /\ t[j].received \in Nat /\ i \in Nat /\ j \in Nat
      BY <1>1, <1>3, <1>5
    <2>2. t[j].received = e => i <= j
      BY <1>5
    <2>3. QED
      BY <2>1, <2>2, i # j DEF Before
  <1>7. i \in S
    OBVIOUS
  <1>8. QED
    BY <1>6, <1>7 DEF First

-----------------------------------------------------------------------------
(* Units in sets of lots *)

OnHandOf(t) == [i \in DOMAIN t |-> t[i].onHand]

LEMMA UnitsTable ==
    ASSUME NEW t \in Seq(Lot), NEW S \in SUBSET DOMAIN t
    PROVE  /\ IsFiniteSet(S)
           /\ \A i \in S : OnHandOf(t)[i] = t[i].onHand /\ OnHandOf(t)[i] \in Nat
           /\ UnitsIn(t, S) = SumFunctionOnSet(OnHandOf(t), S)
           /\ UnitsIn(t, S) \in Nat
  <1>1. DOMAIN t = 1..Len(t) /\ Len(t) \in Nat
    OBVIOUS
  <1>2. IsFiniteSet(DOMAIN t)
    BY <1>1, FS_Interval
  <1>3. IsFiniteSet(S)
    BY <1>2, FS_Subset
  <1>4. \A i \in S : OnHandOf(t)[i] = t[i].onHand /\ OnHandOf(t)[i] \in Nat
    BY LotFacts DEF OnHandOf
  <1>5. UnitsIn(t, S) = SumFunctionOnSet(OnHandOf(t), S)
    BY DEF UnitsIn, OnHandOf
  <1>6. QED
    BY <1>3, <1>4, <1>5, PartType

LEMMA UnitsOne ==
    ASSUME NEW t \in Seq(Lot), NEW S \in SUBSET DOMAIN t, NEW i \in S
    PROVE  t[i].onHand <= UnitsIn(t, S)
  BY UnitsTable, PartOne

LEMMA UnitsNone ==
    ASSUME NEW t \in Seq(Lot), NEW S \in SUBSET DOMAIN t, \A i \in S : t[i].onHand = 0
    PROVE  UnitsIn(t, S) = 0
  BY UnitsTable, PartNone

\* The lots of a location that are as old as e.
AsOld(t, l, e) == {i \in DOMAIN t : t[i].location = l /\ t[i].received <= e}

LEMMA ProfileIsUnits ==
    ASSUME NEW t \in Seq(Lot), NEW l
    PROVE  /\ ProfileOf(t, l) \in [Epochs -> Nat]
           /\ \A e \in Epochs : ProfileOf(t, l)[e] = UnitsIn(t, AsOld(t, l, e))
           /\ OnHandAt(t, l) = ProfileOf(t, l)[LastEpoch]
  <1>1. \A e \in Epochs : AsOld(t, l, e) \in SUBSET DOMAIN t
    BY DEF AsOld
  <1>2. \A e \in Epochs : UnitsIn(t, AsOld(t, l, e)) \in Nat
    BY <1>1, UnitsTable
  <1>3. ProfileOf(t, l) = [e \in Epochs |-> UnitsIn(t, AsOld(t, l, e))]
    BY DEF ProfileOf, AsOld
  <1>4. LastEpoch \in Epochs
    BY EpochAssumption DEF Epochs
  <1>5. AsOld(t, l, LastEpoch) = {i \in DOMAIN t : t[i].location = l}
    <2>1. \A i \in DOMAIN t : t[i].received <= LastEpoch
      BY LotFacts
    <2>2. QED
      BY <2>1 DEF AsOld
  <1>6. QED
    BY <1>2, <1>3, <1>4, <1>5 DEF OnHandAt

\* k units are taken from lot i.
Less(t, i, k) == [t EXCEPT ![i].onHand = @ - k]

LEMMA LessFacts ==
    ASSUME NEW t \in Seq(Lot), NEW i \in DOMAIN t, NEW k \in Nat, k <= t[i].onHand
    PROVE  /\ Less(t, i, k) \in Seq(Lot)
           /\ Len(Less(t, i, k)) = Len(t)
           /\ DOMAIN Less(t, i, k) = DOMAIN t
           /\ \A j \in DOMAIN t :
                 /\ Less(t, i, k)[j].location = t[j].location
                 /\ Less(t, i, k)[j].received = t[j].received
                 /\ Less(t, i, k)[j].parent = t[j].parent
                 /\ Less(t, i, k)[j].quantityReceived = t[j].quantityReceived
                 /\ Less(t, i, k)[j].onHand = IF j = i THEN t[j].onHand - k ELSE t[j].onHand
  <1> DEFINE d == Less(t, i, k)
  <1>1. \A j \in DOMAIN t : t[j] \in Lot
    OBVIOUS
  <1>2. DOMAIN t = 1..Len(t) /\ Len(t) \in Nat
    OBVIOUS
  <1>3. DOMAIN d = DOMAIN t /\ d = [j \in 1..Len(t) |-> d[j]]
    BY <1>2 DEF Less
  <1>4. ASSUME NEW j \in DOMAIN t
        PROVE  /\ d[j] \in Lot
               /\ d[j].location = t[j].location
               /\ d[j].received = t[j].received
               /\ d[j].parent = t[j].parent
               /\ d[j].quantityReceived = t[j].quantityReceived
               /\ d[j].onHand = IF j = i THEN t[j].onHand - k ELSE t[j].onHand
    <2>1. CASE j = i
      <3>1. d[j] = [t[j] EXCEPT !.onHand = @ - k]
        BY <2>1 DEF Less
      <3>2. t[j].onHand \in Nat /\ t[j].onHand - k \in Nat
        BY <1>1, <2>1 DEF Lot
      <3> HIDE DEF d
      <3>3. QED
        BY <1>1, <2>1, <3>1, <3>2 DEF Lot
    <2>2. CASE j # i
      <3>1. d[j] = t[j]
        BY <2>2 DEF Less
      <3> HIDE DEF d
      <3>2. QED
        BY <1>1, <2>2, <3>1
    <2>3. QED
      BY <2>1, <2>2
  <1> HIDE DEF d
  <1>5. d \in Seq(Lot) /\ Len(d) = Len(t)
    <2>1. \A j \in 1..Len(t) : d[j] \in Lot
      BY <1>2, <1>4
    <2>2. d \in [1..Len(t) -> Lot]
      BY <1>2, <1>3, <2>1
    <2>3. QED
      BY <1>2, <2>2
  <1>6. QED
    BY <1>3, <1>4, <1>5 DEF d

LEMMA UnitsLess ==
    ASSUME NEW t \in Seq(Lot), NEW i \in DOMAIN t, NEW k \in Nat, k <= t[i].onHand,
           NEW S \in SUBSET DOMAIN t
    PROVE  UnitsIn(Less(t, i, k), S) = UnitsIn(t, S) - IF i \in S THEN k ELSE 0
  <1> DEFINE d == Less(t, i, k)
             f == OnHandOf(t)
             g == OnHandOf(d)
  <1>1. d \in Seq(Lot) /\ DOMAIN d = DOMAIN t
    BY LessFacts
  <1>2. \A j \in DOMAIN t : d[j].onHand = IF j = i THEN t[j].onHand - k ELSE t[j].onHand
    BY LessFacts
  <1> HIDE DEF d
  <1>3. /\ IsFiniteSet(S)
        /\ \A j \in S : f[j] = t[j].onHand /\ f[j] \in Nat
        /\ UnitsIn(t, S) = SumFunctionOnSet(f, S)
        /\ UnitsIn(t, S) \in Nat
    BY UnitsTable
  <1>4. /\ \A j \in S : g[j] = d[j].onHand /\ g[j] \in Nat
        /\ UnitsIn(d, S) = SumFunctionOnSet(g, S)
    BY <1>1, UnitsTable
  <1> HIDE DEF f, g
  <1>5. \A j \in S \ {i} : g[j] = f[j]
    BY <1>2, <1>3, <1>4
  <1>6. SumFunctionOnSet(g, S) = SumFunctionOnSet(f, S) + IF i \in S THEN g[i] - f[i] ELSE 0
    BY <1>3, <1>4, <1>5, PartChange
  <1>7. i \in S => g[i] - f[i] = 0 - k
    BY <1>2, <1>3, <1>4
  <1>8. QED
    BY <1>3, <1>4, <1>6, <1>7 DEF d

LEMMA LessProfile ==
    ASSUME NEW t \in Seq(Lot), NEW i \in DOMAIN t, NEW k \in Nat, k <= t[i].onHand,
           NEW l, NEW e \in Epochs
    PROVE  UnitsIn(Less(t, i, k), AsOld(Less(t, i, k), l, e)) =
               UnitsIn(t, AsOld(t, l, e)) - IF t[i].location = l /\ t[i].received <= e THEN k ELSE 0
  <1> DEFINE d == Less(t, i, k)
             S == AsOld(t, l, e)
  <1>1. DOMAIN d = DOMAIN t /\ \A j \in DOMAIN t : d[j].location = t[j].location /\ d[j].received = t[j].received
    BY LessFacts
  <1> HIDE DEF d
  <1>2. AsOld(d, l, e) = S /\ S \in SUBSET DOMAIN t
    BY <1>1 DEF AsOld
  <1>3. i \in S <=> t[i].location = l /\ t[i].received <= e
    BY DEF AsOld
  <1> HIDE DEF S
  <1>4. UnitsIn(d, S) = UnitsIn(t, S) - IF i \in S THEN k ELSE 0
    BY <1>2, UnitsLess DEF d
  <1>5. QED
    BY <1>2, <1>3, <1>4 DEF S, d

\* A lot is added.
LEMMA AppendFacts ==
    ASSUME NEW t \in Seq(Lot), NEW x \in Lot
    PROVE  /\ Append(t, x) \in Seq(Lot)
           /\ Len(t) \in Nat
           /\ DOMAIN t = 1..Len(t)
           /\ Len(Append(t, x)) = Len(t) + 1
           /\ DOMAIN Append(t, x) = DOMAIN t \cup {Len(t) + 1}
           /\ Len(t) + 1 \notin DOMAIN t
           /\ \A j \in DOMAIN t : Append(t, x)[j] = t[j]
           /\ Append(t, x)[Len(t) + 1] = x
  OBVIOUS

LEMMA UnitsAppend ==
    ASSUME NEW t \in Seq(Lot), NEW x \in Lot, NEW S \in SUBSET DOMAIN t
    PROVE  /\ UnitsIn(Append(t, x), S) = UnitsIn(t, S)
           /\ UnitsIn(Append(t, x), S \cup {Len(t) + 1}) = UnitsIn(t, S) + x.onHand
  <1> DEFINE d == Append(t, x)
             n == Len(t) + 1
             T == S \cup {n}
             f == OnHandOf(t)
             g == OnHandOf(d)
  <1>1. /\ d \in Seq(Lot)
        /\ DOMAIN d = DOMAIN t \cup {n}
        /\ n \notin DOMAIN t
        /\ \A j \in DOMAIN t : d[j] = t[j]
        /\ d[n] = x
    BY AppendFacts
  <1> HIDE DEF d, n
  <1>2. /\ IsFiniteSet(S)
        /\ \A j \in S : f[j] = t[j].onHand /\ f[j] \in Nat
        /\ UnitsIn(t, S) = SumFunctionOnSet(f, S)
    BY UnitsTable
  <1>3. T \in SUBSET DOMAIN d /\ S \in SUBSET DOMAIN d /\ n \in T /\ n \notin S
    BY <1>1
  <1>4. /\ \A j \in T : g[j] = d[j].onHand /\ g[j] \in Nat
        /\ UnitsIn(d, T) = SumFunctionOnSet(g, T)
        /\ UnitsIn(d, S) = SumFunctionOnSet(g, S)
    BY <1>1, <1>3, UnitsTable
  <1> HIDE DEF f, g
  <1>5. (\A j \in S : g[j] = f[j]) /\ g[n] = x.onHand /\ g[n] \in Nat
    BY <1>1, <1>2, <1>4
  <1>6. T = S \cup {n}
    OBVIOUS
  <1> HIDE DEF T
  <1>7. SumFunctionOnSet(g, S) = SumFunctionOnSet(f, S) /\ SumFunctionOnSet(g, T) = SumFunctionOnSet(f, S) + g[n]
    BY <1>2, <1>3, <1>5, <1>6, PartMore
  <1>8. QED
    BY <1>2, <1>4, <1>5, <1>7 DEF d, n, T

LEMMA AppendProfile ==
    ASSUME NEW t \in Seq(Lot), NEW x \in Lot, NEW l, NEW e \in Epochs
    PROVE  UnitsIn(Append(t, x), AsOld(Append(t, x), l, e)) =
               UnitsIn(t, AsOld(t, l, e)) + IF x.location = l /\ x.received <= e THEN x.onHand ELSE 0
  <1> DEFINE d == Append(t, x)
             n == Len(t) + 1
             S == AsOld(t, l, e)
             R == AsOld(d, l, e)
  <1>1. /\ DOMAIN d = DOMAIN t \cup {n}
        /\ n \notin DOMAIN t
        /\ \A j \in DOMAIN t : d[j] = t[j]
        /\ d[n] = x
    BY AppendFacts
  <1>2. S \in SUBSET DOMAIN t
    BY DEF AsOld
  <1>3. /\ UnitsIn(d, S) = UnitsIn(t, S)
        /\ UnitsIn(d, S \cup {n}) = UnitsIn(t, S) + x.onHand
        /\ UnitsIn(t, S) \in Nat
    BY <1>2, UnitsAppend, UnitsTable
  <1> HIDE DEF d, n
  <1>4. R = IF x.location = l /\ x.received <= e THEN S \cup {n} ELSE S
    BY <1>1 DEF AsOld
  <1> HIDE DEF R, S
  <1>5. UnitsIn(d, R) = UnitsIn(t, S) + IF x.location = l /\ x.received <= e THEN x.onHand ELSE 0
    BY <1>3, <1>4
  <1>6. QED
    BY <1>5 DEF R, S, d

-----------------------------------------------------------------------------
(* The loop *)

Job ==
    [op : {"transfer", "sell"}, from : Locations, to : Locations, quantity : Nat, remaining : Nat,
     queue : SUBSET Nat, before : Seq(Lot)]

ParentsFirst(t) == \A i \in DOMAIN t : t[i].parent < i

LotsOK ==
    /\ table \in Seq(Lot)
    /\ Len(table) <= MaxLots
    /\ ParentsFirst(table)
    /\ sold \in Seq(Nat)
    /\ Len(sold) = Len(table)
    /\ job = NoJob \/ job \in Job

\* Of the lots u at one location and v at the other, d units have been moved.
Drawn(t, k, d) ==
    LET u == ProfileOf(k.before, k.from)
        v == ProfileOf(k.before, k.to)
    IN  /\ ProfileOf(t, k.from) = KeptLots(u, d)
        /\ k.op = "transfer" => ProfileOf(t, k.to) = MergeLots(v, TakenLots(u, d))

\* The loop k over the lots t: while units remain to be taken, the lots it has
\* not come to are all that have units, and what it has done so far is what
\* the profile operators say of the units it has taken so far.
LoopOK(t, k) ==
    /\ k.remaining <= k.quantity
    /\ (k.op = "transfer") <=> (k.from # k.to)
    /\ k.quantity <= OnHandAt(k.before, k.from)
    /\ k.queue \subseteq Queue(t, k.from)
    /\ k.remaining > 0 => Queue(t, k.from) \subseteq k.queue
    /\ Drawn(t, k, k.quantity - k.remaining)

LoopInv == job # NoJob => LoopOK(table, job)

FifoInv == LotsOK /\ LoopInv

\* The lot that comes next, and how much of it is taken.
NextLot(t, k) == First(t, k.queue)
Portion(t, k) == IF t[NextLot(t, k)].onHand < k.remaining THEN t[NextLot(t, k)].onHand ELSE k.remaining

LEMMA JobFacts ==
    ASSUME NEW k \in Job
    PROVE  /\ k # NoJob
           /\ k.op \in {"transfer", "sell"} /\ k.from \in Locations /\ k.to \in Locations
           /\ k.quantity \in Nat /\ k.remaining \in Nat
           /\ k.queue \in SUBSET Nat
           /\ k.before \in Seq(Lot)
  <1>1. k.op # "none"
    BY DEF Job
  <1>2. NoJob.op = "none"
    BY DEF NoJob
  <1>3. k # NoJob
    BY <1>1, <1>2
  <1>4. QED
    BY <1>3 DEF Job

\* The oldest lot with units of the location is next.
LEMMA NextLotFacts ==
    ASSUME NEW t \in Seq(Lot), NEW k \in Job, LoopOK(t, k), k.remaining > 0, k.queue # {}
    PROVE  /\ NextLot(t, k) \in DOMAIN t
           /\ NextLot(t, k) \in k.queue
           /\ t[NextLot(t, k)].location = k.from
           /\ Portion(t, k) \in Nat
           /\ Portion(t, k) > 0
           /\ Portion(t, k) <= k.remaining
           /\ Portion(t, k) <= t[NextLot(t, k)].onHand
           /\ Portion(t, k) = k.remaining \/ Portion(t, k) = t[NextLot(t, k)].onHand
           /\ \A j \in DOMAIN t :
                 t[j].location = k.from /\ t[j].received < t[NextLot(t, k)].received => t[j].onHand = 0
  <1> DEFINE i == NextLot(t, k)
  <1>1. k.queue = Queue(t, k.from) /\ k.queue \in SUBSET DOMAIN t
    BY DEF LoopOK, Queue
  <1>2. i \in k.queue /\ \A j \in k.queue \ {i} : Before(t, i, j)
    BY <1>1, FirstOfLots DEF NextLot
  <1>3. k.remaining \in Nat
    BY JobFacts
  <1>4. i \in DOMAIN t /\ t[i].location = k.from /\ t[i].onHand > 0 /\ t[i].onHand \in Nat
    BY <1>1, <1>2, LotFacts DEF Queue
  <1>5. ASSUME NEW j \in DOMAIN t, t[j].location = k.from, t[j].received < t[i].received
        PROVE  t[j].onHand = 0
    <2>1. t[j].received \in Nat /\ t[i].received \in Nat /\ t[j].onHand \in Nat
      BY <1>4, LotFacts
    <2>2. j # i /\ ~Before(t, i, j)
      BY <1>5, <2>1 DEF Before
    <2>3. j \notin k.queue
      BY <1>2, <2>2
    <2>4. ~(t[j].onHand > 0)
      BY <1>1, <1>5, <2>3 DEF Queue
    <2>5. QED
      BY <2>1, <2>4
  <1> HIDE DEF i
  <1>6. Portion(t, k) = IF t[i].onHand < k.remaining THEN t[i].onHand ELSE k.remaining
    BY DEF Portion, i
  <1>7. QED
    BY <1>2, <1>3, <1>4, <1>5, <1>6 DEF i

\* What the lots of the location that are as old as e have, before and after.
LEMMA DrawnNext ==
    ASSUME NEW t \in Seq(Lot), NEW k \in Job, LoopOK(t, k), k.remaining > 0, k.queue # {},
           NEW e \in Epochs
    PROVE  LET i == NextLot(t, k)
               c == Portion(t, k)
               d == k.quantity - k.remaining
               u == ProfileOf(k.before, k.from)[e]
           IN  /\ UnitsIn(Less(t, i, c), AsOld(Less(t, i, c), k.from, e)) = IF u > d + c THEN u - (d + c) ELSE 0
               /\ t[i].received <= e => u >= d + c
               /\ ~(t[i].received <= e) => u <= d
               /\ u \in Nat
               /\ d \in Nat
  <1> DEFINE i == NextLot(t, k)
             c == Portion(t, k)
             d == k.quantity - k.remaining
             u == ProfileOf(k.before, k.from)[e]
             S == AsOld(t, k.from, e)
             a == UnitsIn(t, S)
             b == UnitsIn(Less(t, i, c), AsOld(Less(t, i, c), k.from, e))
  <1>1. /\ i \in DOMAIN t /\ t[i].location = k.from
        /\ c \in Nat /\ c > 0 /\ c <= k.remaining /\ c <= t[i].onHand
        /\ \A j \in DOMAIN t : t[j].location = k.from /\ t[j].received < t[i].received => t[j].onHand = 0
    BY NextLotFacts
  <1>2. k.quantity \in Nat /\ k.remaining \in Nat /\ k.remaining <= k.quantity /\ k.before \in Seq(Lot)
    BY JobFacts DEF LoopOK
  <1>3. d \in Nat
    BY <1>2
  <1>4. u \in Nat
    BY <1>2, ProfileIsUnits
  <1>5. S \in SUBSET DOMAIN t
    BY DEF AsOld
  <1>6. a = IF u > d THEN u - d ELSE 0
    <2>1. ProfileOf(t, k.from) = KeptLots(ProfileOf(k.before, k.from), d)
      BY DEF LoopOK, Drawn
    <2>2. ProfileOf(t, k.from)[e] = a
      BY ProfileIsUnits
    <2>3. KeptLots(ProfileOf(k.before, k.from), d)[e] = IF u > d THEN u - d ELSE 0
      BY DEF KeptLots
    <2>4. QED
      BY <2>1, <2>2, <2>3
  <1>7. t[i].received \in Nat /\ t[i].onHand \in Nat /\ e \in Nat /\ \A j \in DOMAIN t : t[j].received \in Nat
    BY <1>1, LotFacts, EpochAssumption DEF Epochs
  <1>8. b = a - IF t[i].received <= e THEN c ELSE 0
    <2>1. b = a - IF t[i].location = k.from /\ t[i].received <= e THEN c ELSE 0
      BY <1>1, LessProfile
    <2>2. QED
      BY <1>1, <2>1
  <1>9. CASE t[i].received <= e
    <2>1. i \in S
      BY <1>1, <1>9 DEF AsOld
    <2>2. t[i].onHand <= a
      BY <1>5, <2>1, UnitsOne
    <2> HIDE DEF i, c, d, u, S, a, b
    <2>3. a >= c /\ u > d /\ a = u - d
      BY <1>1, <1>3, <1>4, <1>6, <1>7, <2>2
    <2>4. b = u - d - c /\ u >= d + c
      BY <1>1, <1>3, <1>4, <1>8, <1>9, <2>3
    <2>5. b = IF u > d + c THEN u - (d + c) ELSE 0
      BY <1>1, <1>3, <1>4, <2>4
    <2>6. QED
      BY <1>3, <1>4, <1>9, <2>4, <2>5 DEF i, c, d, u, S, a, b
  <1>10. CASE ~(t[i].received <= e)
    <2>1. \A j \in S : t[j].onHand = 0
      <3>1. \A j \in S : j \in DOMAIN t /\ t[j].location = k.from /\ t[j].received <= e
        BY DEF AsOld
      <3>2. \A j \in S : t[j].received < t[i].received
        BY <1>7, <1>10, <3>1
      <3> HIDE DEF i, S
      <3>3. QED
        BY <1>1, <3>1, <3>2
    <2>2. a = 0
      BY <1>5, <2>1, UnitsNone
    <2> HIDE DEF i, c, d, u, S, a, b
    <2>3. b = 0 /\ u <= d
      BY <1>3, <1>4, <1>6, <1>8, <1>10, <2>2
    <2>4. b = IF u > d + c THEN u - (d + c) ELSE 0
      BY <1>1, <1>3, <1>4, <2>3
    <2>5. QED
      BY <1>3, <1>4, <1>10, <2>3, <2>4 DEF i, c, d, u, S, a, b
  <1>11. QED
    BY <1>9, <1>10

\* The loop after one lot more.
Onward(t, k) == [k EXCEPT !.remaining = @ - Portion(t, k), !.queue = @ \ {NextLot(t, k)}]

LEMMA OnwardFacts ==
    ASSUME NEW t \in Seq(Lot), NEW k \in Job, LoopOK(t, k), k.remaining > 0, k.queue # {}
    PROVE  /\ Onward(t, k) \in Job
           /\ Onward(t, k).remaining = k.remaining - Portion(t, k)
           /\ Onward(t, k).queue = k.queue \ {NextLot(t, k)}
           /\ Onward(t, k).op = k.op /\ Onward(t, k).from = k.from /\ Onward(t, k).to = k.to
           /\ Onward(t, k).quantity = k.quantity /\ Onward(t, k).before = k.before
           /\ Onward(t, k).remaining <= k.quantity
           /\ Onward(t, k).quantity - Onward(t, k).remaining = k.quantity - k.remaining + Portion(t, k)
  <1>1. Portion(t, k) \in Nat /\ Portion(t, k) <= k.remaining
    BY NextLotFacts
  <1>2. k.remaining \in Nat /\ k.quantity \in Nat /\ k.queue \in SUBSET Nat /\ k.remaining <= k.quantity
    BY JobFacts DEF LoopOK
  <1>3. k.remaining - Portion(t, k) \in Nat /\ k.queue \ {NextLot(t, k)} \in SUBSET Nat
    BY <1>1, <1>2
  <1>4. /\ Onward(t, k) \in Job
        /\ Onward(t, k).remaining = k.remaining - Portion(t, k)
        /\ Onward(t, k).queue = k.queue \ {NextLot(t, k)}
        /\ Onward(t, k).op = k.op /\ Onward(t, k).from = k.from /\ Onward(t, k).to = k.to
        /\ Onward(t, k).quantity = k.quantity /\ Onward(t, k).before = k.before
    BY <1>3 DEF Onward, Job
  <1>5. QED
    BY <1>1, <1>2, <1>3, <1>4

\* The lots of the queue: those left in it have their units, the lot that was
\* taken from has none unless all is done.
LEMMA QueueNext ==
    ASSUME NEW t \in Seq(Lot), NEW k \in Job, LoopOK(t, k), k.remaining > 0, k.queue # {},
           NEW d \in Seq(Lot),
           DOMAIN t \subseteq DOMAIN d,
           \A j \in DOMAIN t : d[j] = Less(t, NextLot(t, k), Portion(t, k))[j],
           \A j \in DOMAIN d \ DOMAIN t : d[j].location # k.from
    PROVE  /\ Onward(t, k).queue \subseteq Queue(d, k.from)
           /\ Onward(t, k).remaining > 0 => Queue(d, k.from) \subseteq Onward(t, k).queue
  <1> DEFINE i == NextLot(t, k)
             c == Portion(t, k)
  <1>1. k.queue = Queue(t, k.from)
    BY DEF LoopOK
  <1>2. /\ i \in DOMAIN t
        /\ c \in Nat /\ c <= t[i].onHand
        /\ c = k.remaining \/ c = t[i].onHand
    BY NextLotFacts
  <1>3. Onward(t, k).queue = k.queue \ {i} /\ Onward(t, k).remaining = k.remaining - c
    BY OnwardFacts
  <1>4. k.remaining \in Nat /\ \A j \in DOMAIN t : t[j].onHand \in Nat
    BY JobFacts, LotFacts
  <1>5. \A j \in DOMAIN t :
           /\ d[j].location = t[j].location
           /\ d[j].onHand = IF j = i THEN t[j].onHand - c ELSE t[j].onHand
    BY <1>2, LessFacts
  <1> HIDE DEF i, c
  <1>6. ASSUME NEW j \in k.queue \ {i} PROVE j \in Queue(d, k.from)
    BY <1>1, <1>5 DEF Queue
  <1>7. ASSUME NEW j \in Queue(d, k.from), k.remaining - c > 0
        PROVE  j \in k.queue \ {i}
    <2>1. j \in DOMAIN d /\ d[j].location = k.from /\ d[j].onHand > 0
      BY DEF Queue
    <2>2. j \in DOMAIN t
      BY <2>1
    <2>3. c = t[i].onHand
      BY <1>2, <1>4, <1>7
    <2>4. j # i
      BY <1>2, <1>4, <1>5, <2>1, <2>2, <2>3
    <2>5. j \in Queue(t, k.from)
      BY <1>5, <2>1, <2>2, <2>4 DEF Queue
    <2>6. QED
      BY <1>1, <2>4, <2>5
  <1>8. QED
    BY <1>3, <1>6, <1>7

\* A sale takes from the lots of its location.
LEMMA SellNext ==
    ASSUME NEW t \in Seq(Lot), NEW k \in Job, LoopOK(t, k), k.remaining > 0, k.queue # {},
           k.op # "transfer"
    PROVE  LoopOK(Less(t, NextLot(t, k), Portion(t, k)), Onward(t, k))
  <1> DEFINE i == NextLot(t, k)
             c == Portion(t, k)
             m == Onward(t, k)
             less == Less(t, i, c)
             d == k.quantity - k.remaining
             u == ProfileOf(k.before, k.from)
  <1>1. i \in DOMAIN t /\ c \in Nat /\ c <= t[i].onHand
    BY NextLotFacts
  <1>2. less \in Seq(Lot) /\ DOMAIN less = DOMAIN t
    BY <1>1, LessFacts
  <1>3. /\ m.op = k.op /\ m.from = k.from /\ m.to = k.to /\ m.quantity = k.quantity /\ m.before = k.before
        /\ m.remaining <= k.quantity
        /\ m.quantity - m.remaining = d + c
    BY OnwardFacts
  <1>4. m.queue \subseteq Queue(less, k.from) /\ (m.remaining > 0 => Queue(less, k.from) \subseteq m.queue)
    BY <1>2, QueueNext
  <1>5. ProfileOf(less, k.from) = KeptLots(u, d + c)
    <2>1. \A e \in Epochs : ProfileOf(less, k.from)[e] = IF u[e] > d + c THEN u[e] - (d + c) ELSE 0
      BY <1>2, DrawnNext, ProfileIsUnits
    <2>2. ProfileOf(less, k.from) \in [Epochs -> Nat]
      BY <1>2, ProfileIsUnits
    <2> HIDE DEF c, d, u, less
    <2>3. QED
      BY <2>1, <2>2 DEF KeptLots
  <1> HIDE DEF i, c, m, less, d, u
  <1>6. Drawn(less, m, m.quantity - m.remaining)
    BY <1>3, <1>5 DEF Drawn, u
  <1>7. QED
    BY <1>3, <1>4, <1>6 DEF LoopOK, i, c, m, less

\* A transfer adds a lot of the same date at the other location.
LEMMA TransferNext ==
    ASSUME NEW t \in Seq(Lot), NEW k \in Job, LoopOK(t, k), k.remaining > 0, k.queue # {},
           k.op = "transfer",
           NEW x \in Lot, x.location = k.to, x.onHand = Portion(t, k),
           x.received = t[NextLot(t, k)].received
    PROVE  LoopOK(Append(Less(t, NextLot(t, k), Portion(t, k)), x), Onward(t, k))
  <1> DEFINE i == NextLot(t, k)
             c == Portion(t, k)
             m == Onward(t, k)
             less == Less(t, i, c)
             more == Append(less, x)
             d == k.quantity - k.remaining
             u == ProfileOf(k.before, k.from)
             v == ProfileOf(k.before, k.to)
  <1>1. i \in DOMAIN t /\ c \in Nat /\ c > 0 /\ c <= t[i].onHand /\ t[i].location = k.from
    BY NextLotFacts
  <1>2. less \in Seq(Lot) /\ DOMAIN less = DOMAIN t
    BY <1>1, LessFacts
  <1>3. /\ more \in Seq(Lot)
        /\ DOMAIN t \subseteq DOMAIN more
        /\ \A j \in DOMAIN t : more[j] = less[j]
        /\ \A j \in DOMAIN more \ DOMAIN t : more[j] = x
    BY <1>2, AppendFacts
  <1>4. /\ m.op = k.op /\ m.from = k.from /\ m.to = k.to /\ m.quantity = k.quantity /\ m.before = k.before
        /\ m.remaining <= k.quantity
        /\ m.quantity - m.remaining = d + c
    BY OnwardFacts
  <1>5. k.from # k.to /\ k.before \in Seq(Lot)
    BY JobFacts DEF LoopOK
  <1>6. m.queue \subseteq Queue(more, k.from) /\ (m.remaining > 0 => Queue(more, k.from) \subseteq m.queue)
    <2>1. \A j \in DOMAIN more \ DOMAIN t : more[j].location # k.from
      BY <1>3, <1>5
    <2>2. \A j \in DOMAIN t : more[j] = Less(t, NextLot(t, k), Portion(t, k))[j]
      BY <1>3
    <2> HIDE DEF more
    <2>3. QED
      BY <1>3, <2>1, <2>2, QueueNext
  <1>7. ASSUME NEW e \in Epochs
        PROVE  /\ ProfileOf(more, k.from)[e] = IF u[e] > d + c THEN u[e] - (d + c) ELSE 0
               /\ ProfileOf(more, k.to)[e] = v[e] + IF u[e] > d + c THEN d + c ELSE u[e]
    <2>1. /\ UnitsIn(less, AsOld(less, k.from, e)) = IF u[e] > d + c THEN u[e] - (d + c) ELSE 0
          /\ t[i].received <= e => u[e] >= d + c
          /\ ~(t[i].received <= e) => u[e] <= d
          /\ u[e] \in Nat /\ d \in Nat
      BY DrawnNext
    <2>2. UnitsIn(less, AsOld(less, k.to, e)) = UnitsIn(t, AsOld(t, k.to, e)) - 0
      BY <1>1, <1>5, LessProfile
    <2>3. /\ UnitsIn(more, AsOld(more, k.from, e)) = UnitsIn(less, AsOld(less, k.from, e)) + 0
          /\ UnitsIn(more, AsOld(more, k.to, e)) =
                 UnitsIn(less, AsOld(less, k.to, e)) + IF t[i].received <= e THEN c ELSE 0
      BY <1>2, <1>5, AppendProfile
    <2>4. /\ ProfileOf(more, k.from)[e] = UnitsIn(more, AsOld(more, k.from, e))
          /\ ProfileOf(more, k.to)[e] = UnitsIn(more, AsOld(more, k.to, e))
          /\ ProfileOf(t, k.to)[e] = UnitsIn(t, AsOld(t, k.to, e))
          /\ v[e] \in Nat
      BY <1>3, <1>5, ProfileIsUnits
    <2>5. ProfileOf(t, k.to)[e] = v[e] + IF u[e] > d THEN d ELSE u[e]
      BY DEF LoopOK, Drawn, MergeLots, TakenLots
    <2> HIDE DEF i, c, m, less, more, d, u, v
    <2>6. ProfileOf(more, k.from)[e] = IF u[e] > d + c THEN u[e] - (d + c) ELSE 0
      BY <1>1, <2>1, <2>3, <2>4
    <2>7. ProfileOf(more, k.to)[e] = v[e] + (IF u[e] > d THEN d ELSE u[e]) + (IF t[i].received <= e THEN c ELSE 0)
      <3>1. ProfileOf(t, k.to)[e] \in Nat
        BY ProfileIsUnits
      <3>2. UnitsIn(less, AsOld(less, k.to, e)) = ProfileOf(t, k.to)[e]
        BY <2>2, <2>4, <3>1
      <3>3. ProfileOf(more, k.to)[e] = ProfileOf(t, k.to)[e] + IF t[i].received <= e THEN c ELSE 0
        BY <2>3, <2>4, <3>2
      <3>4. QED
        BY <2>5, <3>3
    <2>8. (IF u[e] > d THEN d ELSE u[e]) + (IF t[i].received <= e THEN c ELSE 0)
             = IF u[e] > d + c THEN d + c ELSE u[e]
      <3>1. u[e] \in Nat /\ d \in Nat /\ c \in Nat /\ c > 0
        BY <1>1, <2>1
      <3>2. CASE t[i].received <= e
        <4>1. u[e] >= d + c
          BY <2>1, <3>2
        <4>2. u[e] > d /\ (u[e] > d + c \/ u[e] = d + c)
          BY <3>1, <4>1
        <4>3. QED
          BY <3>1, <3>2, <4>2
      <3>3. CASE ~(t[i].received <= e)
        <4>1. u[e] <= d
          BY <2>1, <3>3
        <4>2. ~(u[e] > d) /\ ~(u[e] > d + c) /\ u[e] + 0 = u[e]
          BY <3>1, <4>1
        <4>3. QED
          BY <3>3, <4>2
      <3>4. QED
        BY <3>2, <3>3
    <2>9. ProfileOf(more, k.to)[e] = v[e] + IF u[e] > d + c THEN d + c ELSE u[e]
      <3> DEFINE a == IF u[e] > d THEN d ELSE u[e]
                 b == IF t[i].received <= e THEN c ELSE 0
      <3>1. v[e] \in Int /\ a \in Int /\ b \in Int
        BY <1>1, <2>1, <2>4
      <3>2. ProfileOf(more, k.to)[e] = v[e] + a + b /\ a + b = IF u[e] > d + c THEN d + c ELSE u[e]
        BY <2>7, <2>8
      <3> HIDE DEF a, b
      <3>3. v[e] + a + b = v[e] + (a + b)
        BY <3>1
      <3>4. QED
        BY <3>2, <3>3
    <2>10. QED
      BY <2>6, <2>9
  <1>8. ProfileOf(more, k.from) \in [Epochs -> Nat] /\ ProfileOf(more, k.to) \in [Epochs -> Nat]
    BY <1>3, ProfileIsUnits
  <1> HIDE DEF i, c, m, less, more, d, u, v
  <1>9. /\ ProfileOf(more, k.from) = KeptLots(u, d + c)
        /\ ProfileOf(more, k.to) = MergeLots(v, TakenLots(u, d + c))
    BY <1>7, <1>8 DEF KeptLots, MergeLots, TakenLots
  <1>10. Drawn(more, m, m.quantity - m.remaining)
    BY <1>4, <1>9 DEF Drawn, u, v
  <1>11. QED
    BY <1>4, <1>6, <1>10 DEF LoopOK, i, c, m, less, more

-----------------------------------------------------------------------------
(* Lineage *)

\* g is the root of each of the first n lots.
RootTable(g, t, n) == g = [j \in 1..n |-> IF t[j].parent = NoParent THEN j ELSE g[t[j].parent]]

\* The recursion along parents has a solution, as parents come before children.
LEMMA RootTableExists ==
    ASSUME NEW t \in Seq(Lot), ParentsFirst(t)
    PROVE  \E g : RootTable(g, t, Len(t))
  <1> DEFINE Good(n) == \E g : RootTable(g, t, n)
             Bad == {n \in 0..Len(t) : ~Good(n)}
  <1>1. Len(t) \in Nat /\ DOMAIN t = 1..Len(t) /\ \A j \in DOMAIN t : t[j].parent \in Nat /\ t[j].parent < j
    BY LotFacts DEF ParentsFirst
  <1>2. Good(0)
    <2> DEFINE g == [j \in 1..0 |-> j]
    <2>1. g = [j \in 1..0 |-> IF t[j].parent = NoParent THEN j ELSE g[t[j].parent]]
      OBVIOUS
    <2>2. QED
      BY <2>1 DEF RootTable
  <1>3. ASSUME NEW n \in 0..Len(t), n + 1 <= Len(t), Good(n)
        PROVE  Good(n + 1)
    <2>1. PICK g : RootTable(g, t, n)
      BY <1>3
    <2> DEFINE h == [j \in 1..(n + 1) |-> IF t[j].parent = NoParent THEN j ELSE g[t[j].parent]]
    <2>2. g = [j \in 1..n |-> IF t[j].parent = NoParent THEN j ELSE g[t[j].parent]]
      BY <2>1 DEF RootTable
    <2>3. \A j \in 1..n : h[j] = g[j]
      <3>1. \A j \in 1..n : j \in 1..(n + 1)
        BY <1>1
      <3>2. \A j \in 1..n : g[j] = IF t[j].parent = NoParent THEN j ELSE g[t[j].parent]
        BY <2>2
      <3>3. QED
        BY <3>1, <3>2
    <2>4. ASSUME NEW j \in 1..(n + 1), t[j].parent # NoParent
          PROVE  h[t[j].parent] = g[t[j].parent]
      <3>1. j \in DOMAIN t
        BY <1>1, <1>3
      <3>2. t[j].parent \in 1..n
        BY <1>1, <2>4, <3>1 DEF NoParent
      <3>3. QED
        BY <2>3, <3>2
    <2>5. h = [j \in 1..(n + 1) |-> IF t[j].parent = NoParent THEN j ELSE h[t[j].parent]]
      BY <2>4
    <2> HIDE DEF h
    <2>6. QED
      BY <2>5 DEF RootTable
  <1> HIDE DEF Good
  <1>4. Bad = {}
    <2>1. SUFFICES ASSUME Bad # {} PROVE FALSE
      OBVIOUS
    <2>2. Bad \in SUBSET Nat
      BY <1>1
    <2>3. PICK m \in Bad : \A n \in Bad : m <= n
      BY <2>1, <2>2, LeastNatural
    <2>4. m \in 0..Len(t) /\ ~Good(m)
      BY <2>3
    <2>5. m - 1 \in 0..Len(t) /\ (m - 1) + 1 = m /\ m <= Len(t) /\ ~(m <= m - 1)
      BY <1>1, <1>2, <2>4
    <2>6. Good(m - 1)
      BY <2>3, <2>5
    <2>7. Good((m - 1) + 1)
      BY <1>3, <2>5, <2>6
    <2>8. QED
      BY <2>4, <2>5, <2>7
  <1>5. Good(Len(t))
    BY <1>1, <1>4
  <1>6. QED
    BY <1>5 DEF Good

\* A receipt is its own root, a child has the root of its parent.
LEMMA RootStep ==
    ASSUME NEW t \in Seq(Lot), ParentsFirst(t), NEW i \in DOMAIN t
    PROVE  /\ t[i].parent = NoParent => RootOf(t, i) = i
           /\ t[i].parent # NoParent =>
                 /\ t[i].parent \in DOMAIN t
                 /\ RootOf(t, i) = RootOf(t, t[i].parent)
  <1> DEFINE g == CHOOSE h : h = [j \in DOMAIN t |-> IF t[j].parent = NoParent THEN j ELSE h[t[j].parent]]
  <1>1. \A j : RootOf(t, j) = g[j]
    BY DEF RootOf
  <1>2. Len(t) \in Nat /\ DOMAIN t = 1..Len(t) /\ \A j \in DOMAIN t : t[j].parent \in Nat /\ t[j].parent < j
    BY LotFacts DEF ParentsFirst
  <1>3. \E h : h = [j \in DOMAIN t |-> IF t[j].parent = NoParent THEN j ELSE h[t[j].parent]]
    BY <1>2, RootTableExists DEF RootTable
  <1>4. g = [j \in DOMAIN t |-> IF t[j].parent = NoParent THEN j ELSE g[t[j].parent]]
    BY <1>3
  <1> HIDE DEF g
  <1>5. g[i] = IF t[i].parent = NoParent THEN i ELSE g[t[i].parent]
    BY <1>4
  <1>6. t[i].parent # NoParent => t[i].parent \in DOMAIN t
    BY <1>2 DEF NoParent
  <1>7. QED
    BY <1>1, <1>5, <1>6

\* What holds of a lot whenever it holds of its parent holds of all lots.
LEMMA ByParent ==
    ASSUME NEW t \in Seq(Lot), ParentsFirst(t), NEW G,
           \A i \in DOMAIN t : (t[i].parent = NoParent \/ t[i].parent \in G) => i \in G
    PROVE  \A i \in DOMAIN t : i \in G
  <1> DEFINE Bad == {i \in DOMAIN t : i \notin G}
  <1>1. SUFFICES ASSUME Bad # {} PROVE FALSE
    OBVIOUS
  <1>2. \A i \in DOMAIN t : i \in Nat /\ t[i].parent \in Nat /\ t[i].parent < i
    BY LotFacts DEF ParentsFirst
  <1>3. Bad \in SUBSET Nat
    BY <1>2
  <1>4. PICK m \in Bad : \A n \in Bad : m <= n
    BY <1>1, <1>3, LeastNatural
  <1>5. t[m].parent # NoParent /\ t[m].parent \notin G
    BY <1>4
  <1>6. t[m].parent \in DOMAIN t
    BY <1>4, <1>5, RootStep
  <1>7. QED
    BY <1>2, <1>4, <1>5, <1>6

LEMMA RootInTable ==
    ASSUME NEW t \in Seq(Lot), ParentsFirst(t)
    PROVE  \A i \in DOMAIN t : RootOf(t, i) \in DOMAIN t
  <1> DEFINE G == {i \in DOMAIN t : RootOf(t, i) \in DOMAIN t}
  <1>1. \A i \in DOMAIN t : (t[i].parent = NoParent \/ t[i].parent \in G) => i \in G
    BY RootStep
  <1> HIDE DEF G
  <1>2. \A i \in DOMAIN t : i \in G
    BY <1>1, ByParent
  <1>3. QED
    BY <1>2 DEF G

\* Lots that are added leave the roots of the others as they are.
LEMMA RootSame ==
    ASSUME NEW t \in Seq(Lot), ParentsFirst(t),
           NEW d \in Seq(Lot), ParentsFirst(d),
           DOMAIN t \subseteq DOMAIN d,
           \A i \in DOMAIN t : d[i].parent = t[i].parent
    PROVE  \A i \in DOMAIN t : RootOf(d, i) = RootOf(t, i)
  <1> DEFINE G == {i \in DOMAIN t : RootOf(d, i) = RootOf(t, i)}
  <1>1. ASSUME NEW i \in DOMAIN t, t[i].parent = NoParent \/ t[i].parent \in G
        PROVE  i \in G
    <2>1. i \in DOMAIN d /\ d[i].parent = t[i].parent
      OBVIOUS
    <2>2. CASE t[i].parent = NoParent
      <3>1. RootOf(t, i) = i
        BY <2>2, RootStep
      <3>2. RootOf(d, i) = i
        BY <2>1, <2>2, RootStep
      <3>3. QED
        BY <3>1, <3>2
    <2>3. CASE t[i].parent # NoParent
      <3>1. RootOf(t, i) = RootOf(t, t[i].parent)
        BY <2>3, RootStep
      <3>2. RootOf(d, i) = RootOf(d, d[i].parent)
        BY <2>1, <2>3, RootStep
      <3>3. RootOf(d, t[i].parent) = RootOf(t, t[i].parent)
        BY <1>1, <2>3
      <3>4. QED
        BY <2>1, <3>1, <3>2, <3>3
    <2>4. QED
      BY <2>2, <2>3
  <1> HIDE DEF G
  <1>2. \A i \in DOMAIN t : i \in G
    BY <1>1, ByParent
  <1>3. QED
    BY <1>2 DEF G

LEMMA FamilyFacts ==
    ASSUME NEW t \in Seq(Lot), ParentsFirst(t)
    PROVE  /\ \A r : Family(t, r) \in SUBSET DOMAIN t
           /\ \A i \in DOMAIN t : i \in Family(t, RootOf(t, i))
           /\ \A r : \A i \in Family(t, r) : RootOf(t, i) = r
           /\ \A r \in Roots(t) : r \in DOMAIN t /\ r \in Family(t, r)
  BY RootStep DEF Family, Roots

LEMMA FamilySame ==
    ASSUME NEW t \in Seq(Lot), ParentsFirst(t), NEW d \in Seq(Lot),
           DOMAIN d = DOMAIN t, \A i \in DOMAIN t : d[i].parent = t[i].parent
    PROVE  /\ ParentsFirst(d)
           /\ \A i \in DOMAIN t : RootOf(d, i) = RootOf(t, i)
           /\ \A r : Family(d, r) = Family(t, r)
           /\ Roots(d) = Roots(t)
  <1>1. ParentsFirst(d)
    BY DEF ParentsFirst
  <1>2. \A i \in DOMAIN t : RootOf(d, i) = RootOf(t, i)
    BY <1>1, RootSame
  <1>3. \A r : Family(d, r) = Family(t, r)
    BY <1>2 DEF Family
  <1>4. QED
    BY <1>1, <1>2, <1>3 DEF Roots

\* A child joins the family of its parent, a receipt begins one.
LEMMA FamilyMore ==
    ASSUME NEW t \in Seq(Lot), ParentsFirst(t), NEW x \in Lot, x.parent <= Len(t)
    PROVE  LET d == Append(t, x)
               n == Len(t) + 1
           IN  /\ ParentsFirst(d)
               /\ x.parent = NoParent =>
                     /\ Roots(d) = Roots(t) \cup {n}
                     /\ \A r \in Roots(t) : Family(d, r) = Family(t, r)
                     /\ Family(d, n) = {n}
               /\ x.parent # NoParent =>
                     /\ x.parent \in DOMAIN t
                     /\ Roots(d) = Roots(t)
                     /\ \A r : Family(d, r) =
                          IF x.parent \in Family(t, r) THEN Family(t, r) \cup {n} ELSE Family(t, r)
  <1> DEFINE d == Append(t, x)
             n == Len(t) + 1
  <1>1. /\ d \in Seq(Lot)
        /\ Len(t) \in Nat
        /\ DOMAIN t = 1..Len(t)
        /\ DOMAIN d = DOMAIN t \cup {n}
        /\ n \notin DOMAIN t
        /\ \A j \in DOMAIN t : d[j] = t[j]
        /\ d[n] = x
    BY AppendFacts
  <1>2. n \in Nat /\ x.parent \in Nat /\ x.parent < n
    <2>1. d[n].parent \in Nat
      BY <1>1, LotFacts
    <2> HIDE DEF d
    <2>2. QED
      BY <1>1, <2>1
  <1>3. x.parent # NoParent => x.parent \in DOMAIN t
    BY <1>1, <1>2 DEF NoParent
  <1> HIDE DEF d, n
  <1>4. ParentsFirst(d)
    BY <1>1, <1>2 DEF ParentsFirst
  <1>5. \A i \in DOMAIN t : RootOf(d, i) = RootOf(t, i)
    BY <1>1, <1>4, RootSame
  <1>6. /\ x.parent = NoParent => RootOf(d, n) = n
        /\ x.parent # NoParent => RootOf(d, n) = RootOf(d, x.parent)
    <2>1. n \in DOMAIN d /\ d[n].parent = x.parent
      BY <1>1
    <2>2. QED
      BY <1>1, <1>4, <2>1, RootStep
  <1>7. CASE x.parent = NoParent
    <2>1. Roots(d) = Roots(t) \cup {n}
      BY <1>1, <1>7 DEF Roots
    <2>2. \A r \in Roots(t) : Family(d, r) = Family(t, r)
      BY <1>1, <1>5, <1>6, <1>7 DEF Family, Roots
    <2>3. \A i \in DOMAIN t : RootOf(d, i) # n
      BY <1>1, <1>5, RootInTable
    <2>4. Family(d, n) = {n}
      BY <1>1, <1>6, <1>7, <2>3 DEF Family
    <2>5. QED
      BY <1>4, <1>7, <2>1, <2>2, <2>4 DEF d, n
  <1>8. CASE x.parent # NoParent
    <2>1. Roots(d) = Roots(t)
      BY <1>1, <1>8 DEF Roots
    <2>2. RootOf(d, n) = RootOf(t, x.parent)
      BY <1>3, <1>5, <1>6, <1>8
    <2>3. ASSUME NEW r
          PROVE  Family(d, r) = IF x.parent \in Family(t, r) THEN Family(t, r) \cup {n} ELSE Family(t, r)
      BY <1>1, <1>3, <1>5, <1>8, <2>2 DEF Family
    <2>4. QED
      BY <1>3, <1>4, <1>8, <2>1, <2>3 DEF d, n
  <1>9. QED
    BY <1>7, <1>8

Accounts(t, s) ==
    \A r \in Roots(t) :
        /\ t[r].quantityReceived = UnitsIn(t, Family(t, r)) + SumFunctionOnSet(s, Family(t, r))
        /\ \A i \in Family(t, r) : t[i].received = t[r].received

\* Sums of what was sold out of the lots of a family.
LEMMA SoldTable ==
    ASSUME NEW s \in Seq(Nat), NEW F \in SUBSET DOMAIN s
    PROVE  IsFiniteSet(F) /\ (\A y \in F : s[y] \in Nat) /\ SumFunctionOnSet(s, F) \in Nat
  <1>1. DOMAIN s = 1..Len(s) /\ Len(s) \in Nat /\ \A i \in DOMAIN s : s[i] \in Nat
    OBVIOUS
  <1>2. IsFiniteSet(F)
    <2>1. IsFiniteSet(DOMAIN s)
      BY <1>1, FS_Interval
    <2>2. QED
      BY <2>1, FS_Subset
  <1>3. \A y \in F : s[y] \in Nat
    BY <1>1
  <1>4. QED
    BY <1>2, <1>3, PartType

LEMMA SoldMore ==
    ASSUME NEW s \in Seq(Nat), NEW F \in SUBSET DOMAIN s, NEW i \in DOMAIN s, NEW k \in Nat
    PROVE  SumFunctionOnSet([s EXCEPT ![i] = @ + k], F) = SumFunctionOnSet(s, F) + IF i \in F THEN k ELSE 0
  <1> DEFINE d == [s EXCEPT ![i] = @ + k]
  <1>1. IsFiniteSet(F) /\ \A y \in F : s[y] \in Nat
    BY SoldTable
  <1>2. (\A y \in F \ {i} : d[y] = s[y]) /\ d[i] = s[i] + k /\ s[i] \in Nat
    OBVIOUS
  <1> HIDE DEF d
  <1>3. \A y \in F : d[y] \in Nat
    <2>1. s[i] + k \in Nat
      BY <1>2
    <2>2. QED
      BY <1>1, <1>2, <2>1
  <1>4. SumFunctionOnSet(d, F) = SumFunctionOnSet(s, F) + IF i \in F THEN d[i] - s[i] ELSE 0
    BY <1>1, <1>2, <1>3, PartChange
  <1>5. d[i] - s[i] = k
    BY <1>2
  <1>6. QED
    BY <1>4, <1>5 DEF d

LEMMA SoldAppend ==
    ASSUME NEW s \in Seq(Nat), NEW F \in SUBSET DOMAIN s, NEW n, n = Len(s) + 1
    PROVE  /\ SumFunctionOnSet(Append(s, 0), F) = SumFunctionOnSet(s, F)
           /\ SumFunctionOnSet(Append(s, 0), F \cup {n}) = SumFunctionOnSet(s, F)
           /\ SumFunctionOnSet(Append(s, 0), {n}) = 0
  <1> DEFINE a == Append(s, 0)
  <1>1. IsFiniteSet(F) /\ (\A y \in F : s[y] \in Nat) /\ SumFunctionOnSet(s, F) \in Nat
    BY SoldTable
  <1>2. n \notin F /\ (\A y \in F : a[y] = s[y]) /\ a[n] = 0
    OBVIOUS
  <1> HIDE DEF a
  <1>3. SumFunctionOnSet(a, F) = SumFunctionOnSet(s, F) /\ SumFunctionOnSet(a, F \cup {n}) = SumFunctionOnSet(s, F) + 0
    <2>1. PICK T : T = F \cup {n}
      OBVIOUS
    <2>2. a[n] \in Nat
      BY <1>2
    <2>3. SumFunctionOnSet(a, F) = SumFunctionOnSet(s, F) /\ SumFunctionOnSet(a, T) = SumFunctionOnSet(s, F) + a[n]
      BY <1>1, <1>2, <2>1, <2>2, PartMore
    <2>4. QED
      BY <1>2, <2>1, <2>3
  <1>4. SumFunctionOnSet(a, {n}) = 0
    <2>1. IsFiniteSet({n}) /\ \A y \in {n} : a[y] = 0
      BY <1>2, FS_Singleton
    <2>2. QED
      BY <2>1, PartNone
  <1>5. QED
    BY <1>1, <1>3, <1>4 DEF a

LEMMA SaleAccounts ==
    ASSUME NEW t \in Seq(Lot), ParentsFirst(t), NEW s \in Seq(Nat), Len(s) = Len(t), Accounts(t, s),
           NEW i \in DOMAIN t, NEW k \in Nat, k <= t[i].onHand
    PROVE  Accounts(Less(t, i, k), [s EXCEPT ![i] = @ + k])
  <1> DEFINE d == Less(t, i, k)
             b == [s EXCEPT ![i] = @ + k]
  <1>1. /\ d \in Seq(Lot)
        /\ DOMAIN d = DOMAIN t
        /\ \A j \in DOMAIN t :
              /\ d[j].received = t[j].received
              /\ d[j].parent = t[j].parent
              /\ d[j].quantityReceived = t[j].quantityReceived
    BY LessFacts
  <1>2. DOMAIN s = DOMAIN t
    BY LotFacts
  <1>3. ASSUME NEW F \in SUBSET DOMAIN t
        PROVE  UnitsIn(d, F) + SumFunctionOnSet(b, F) = UnitsIn(t, F) + SumFunctionOnSet(s, F)
    <2>1. UnitsIn(d, F) = UnitsIn(t, F) - IF i \in F THEN k ELSE 0
      BY UnitsLess
    <2>2. SumFunctionOnSet(b, F) = SumFunctionOnSet(s, F) + IF i \in F THEN k ELSE 0
      <3>1. F \in SUBSET DOMAIN s /\ i \in DOMAIN s
        BY <1>2
      <3>2. QED
        BY <3>1, SoldMore
    <2>3. UnitsIn(t, F) \in Nat
      BY UnitsTable
    <2>4. SumFunctionOnSet(s, F) \in Nat
      BY <1>2, SoldTable
    <2> HIDE DEF d, b
    <2>5. QED
      BY <2>1, <2>2, <2>3, <2>4
  <1> HIDE DEF d, b
  <1>4. Roots(d) = Roots(t) /\ \A r : Family(d, r) = Family(t, r)
    BY <1>1, FamilySame
  <1>5. ASSUME NEW r \in Roots(t)
        PROVE  /\ d[r].quantityReceived = UnitsIn(d, Family(t, r)) + SumFunctionOnSet(b, Family(t, r))
               /\ \A j \in Family(t, r) : d[j].received = d[r].received
    <2>1. Family(t, r) \in SUBSET DOMAIN t /\ r \in DOMAIN t
      BY FamilyFacts
    <2>2. /\ t[r].quantityReceived = UnitsIn(t, Family(t, r)) + SumFunctionOnSet(s, Family(t, r))
          /\ \A j \in Family(t, r) : t[j].received = t[r].received
      BY DEF Accounts
    <2>3. UnitsIn(d, Family(t, r)) + SumFunctionOnSet(b, Family(t, r)) =
              UnitsIn(t, Family(t, r)) + SumFunctionOnSet(s, Family(t, r))
      BY <1>3, <2>1
    <2>4. QED
      BY <1>1, <2>1, <2>2, <2>3
  <1>6. QED
    BY <1>4, <1>5 DEF Accounts, d, b

LEMMA ReceiptAccounts ==
    ASSUME NEW t \in Seq(Lot), ParentsFirst(t), NEW s \in Seq(Nat), Len(s) = Len(t), Accounts(t, s),
           NEW x \in Lot, x.parent = NoParent, x.quantityReceived = x.onHand
    PROVE  Accounts(Append(t, x), Append(s, 0)) /\ ParentsFirst(Append(t, x))
  <1> DEFINE d == Append(t, x)
             n == Len(t) + 1
             b == Append(s, 0)
  <1>1. /\ d \in Seq(Lot)
        /\ n \notin DOMAIN t
        /\ \A j \in DOMAIN t : d[j] = t[j]
        /\ d[n] = x
        /\ Len(t) \in Nat
    BY AppendFacts
  <1>2. DOMAIN s = DOMAIN t
    BY LotFacts
  <1>3. x.parent <= Len(t)
    BY <1>1 DEF NoParent
  <1>4. /\ ParentsFirst(d)
        /\ Roots(d) = Roots(t) \cup {n}
        /\ \A r \in Roots(t) : Family(d, r) = Family(t, r)
        /\ Family(d, n) = {n}
    BY <1>3, FamilyMore
  <1>5. /\ \A F \in SUBSET DOMAIN t :
              UnitsIn(d, F) = UnitsIn(t, F) /\ SumFunctionOnSet(b, F) = SumFunctionOnSet(s, F)
        /\ SumFunctionOnSet(b, {n}) = 0
    <2>1. ASSUME NEW F \in SUBSET DOMAIN t PROVE UnitsIn(d, F) = UnitsIn(t, F)
      BY UnitsAppend
    <2>2. ASSUME NEW F \in SUBSET DOMAIN s
          PROVE  SumFunctionOnSet(b, F) = SumFunctionOnSet(s, F) /\ SumFunctionOnSet(b, {n}) = 0
      <3>1. n = Len(s) + 1
        OBVIOUS
      <3> HIDE DEF d, n
      <3>2. QED
        BY <3>1, SoldAppend
    <2>3. {} \in SUBSET DOMAIN s
      OBVIOUS
    <2> HIDE DEF d, n, b
    <2>4. QED
      BY <1>2, <2>1, <2>2, <2>3
  <1>6. UnitsIn(d, {n}) = x.onHand /\ x.onHand \in Nat
    <2>1. UnitsIn(d, {} \cup {n}) = UnitsIn(t, {}) + x.onHand /\ {} \in SUBSET DOMAIN t
      BY UnitsAppend
    <2>2. UnitsIn(t, {}) = 0
      BY <2>1, UnitsNone
    <2>3. x.onHand \in Nat
      BY DEF Lot
    <2>4. {} \cup {n} = {n}
      OBVIOUS
    <2> HIDE DEF d, n
    <2>5. QED
      BY <2>1, <2>2, <2>3, <2>4
  <1> HIDE DEF d, n, b
  <1>7. ASSUME NEW r \in Roots(t)
        PROVE  /\ d[r].quantityReceived = UnitsIn(d, Family(d, r)) + SumFunctionOnSet(b, Family(d, r))
               /\ \A j \in Family(d, r) : d[j].received = d[r].received
    <2>1. Family(t, r) \in SUBSET DOMAIN t /\ r \in DOMAIN t
      BY FamilyFacts
    <2>2. QED
      BY <1>1, <1>4, <1>5, <2>1 DEF Accounts
  <1>8. /\ d[n].quantityReceived = UnitsIn(d, Family(d, n)) + SumFunctionOnSet(b, Family(d, n))
        /\ \A j \in Family(d, n) : d[j].received = d[n].received
    BY <1>1, <1>4, <1>5, <1>6
  <1>9. QED
    BY <1>4, <1>7, <1>8 DEF Accounts, d, b

LEMMA TransferAccounts ==
    ASSUME NEW t \in Seq(Lot), ParentsFirst(t), NEW s \in Seq(Nat), Len(s) = Len(t), Accounts(t, s),
           NEW i \in DOMAIN t, NEW k \in Nat, k <= t[i].onHand,
           NEW x \in Lot, x.parent = i, x.onHand = k, x.received = t[i].received
    PROVE  Accounts(Append(Less(t, i, k), x), Append(s, 0)) /\ ParentsFirst(Append(Less(t, i, k), x))
  <1> DEFINE less == Less(t, i, k)
             d == Append(less, x)
             n == Len(t) + 1
             b == Append(s, 0)
  <1>1. /\ less \in Seq(Lot)
        /\ Len(less) = Len(t)
        /\ DOMAIN less = DOMAIN t
        /\ \A j \in DOMAIN t :
              /\ less[j].received = t[j].received
              /\ less[j].parent = t[j].parent
              /\ less[j].quantityReceived = t[j].quantityReceived
    BY LessFacts
  <1>2. /\ d \in Seq(Lot)
        /\ n \notin DOMAIN t
        /\ \A j \in DOMAIN t : d[j] = less[j]
        /\ d[n] = x
        /\ Len(t) \in Nat
    BY <1>1, AppendFacts
  <1>3. DOMAIN s = DOMAIN t /\ DOMAIN t = 1..Len(t)
    BY LotFacts
  <1>4. ParentsFirst(less) /\ Roots(less) = Roots(t) /\ \A r : Family(less, r) = Family(t, r)
    BY <1>1, FamilySame
  <1>5. i <= Len(t) /\ i # NoParent
    BY <1>3 DEF NoParent
  <1>6. /\ ParentsFirst(d)
        /\ Roots(d) = Roots(t)
        /\ \A r : Family(d, r) = IF i \in Family(t, r) THEN Family(t, r) \cup {n} ELSE Family(t, r)
    <2>1. x.parent <= Len(less) /\ x.parent # NoParent /\ Len(less) + 1 = n
      BY <1>1, <1>5
    <2> HIDE DEF less, n
    <2>2. /\ ParentsFirst(d)
          /\ Roots(d) = Roots(less)
          /\ \A r : Family(d, r) =
                IF x.parent \in Family(less, r) THEN Family(less, r) \cup {Len(less) + 1} ELSE Family(less, r)
      BY <1>1, <1>4, <2>1, FamilyMore
    <2> HIDE DEF d
    <2>3. QED
      BY <1>4, <2>1, <2>2
  <1>7. ASSUME NEW F \in SUBSET DOMAIN t
        PROVE  /\ i \in F => UnitsIn(d, F \cup {n}) = UnitsIn(t, F)
               /\ i \notin F => UnitsIn(d, F) = UnitsIn(t, F)
               /\ SumFunctionOnSet(b, F) = SumFunctionOnSet(s, F)
               /\ SumFunctionOnSet(b, F \cup {n}) = SumFunctionOnSet(s, F)
    <2>1. UnitsIn(less, F) = UnitsIn(t, F) - IF i \in F THEN k ELSE 0
      BY UnitsLess
    <2>2. UnitsIn(t, F) \in Nat
      BY UnitsTable
    <2>3. F \in SUBSET DOMAIN less /\ Len(less) + 1 = n
      BY <1>1
    <2>4. UnitsIn(d, F) = UnitsIn(less, F) /\ UnitsIn(d, F \cup {n}) = UnitsIn(less, F) + k
      <3> HIDE DEF less, n
      <3>1. UnitsIn(Append(less, x), F) = UnitsIn(less, F) /\ UnitsIn(Append(less, x), F \cup {Len(less) + 1}) = UnitsIn(less, F) + x.onHand
        BY <1>1, <2>3, UnitsAppend
      <3>2. QED
        BY <2>3, <3>1
    <2>5. F \in SUBSET DOMAIN s
      BY <1>3
    <2>6. SumFunctionOnSet(b, F) = SumFunctionOnSet(s, F) /\ SumFunctionOnSet(b, F \cup {n}) = SumFunctionOnSet(s, F)
      <3>1. n = Len(s) + 1
        OBVIOUS
      <3> HIDE DEF less, d, n
      <3>2. QED
        BY <2>5, <3>1, SoldAppend
    <2> HIDE DEF less, d, n, b
    <2>7. QED
      BY <2>1, <2>2, <2>4, <2>6
  <1> HIDE DEF less, d, n, b
  <1>8. ASSUME NEW r \in Roots(t)
        PROVE  /\ d[r].quantityReceived = UnitsIn(d, Family(d, r)) + SumFunctionOnSet(b, Family(d, r))
               /\ \A j \in Family(d, r) : d[j].received = d[r].received
    <2>1. Family(t, r) \in SUBSET DOMAIN t /\ r \in DOMAIN t
      BY FamilyFacts
    <2>2. /\ t[r].quantityReceived = UnitsIn(t, Family(t, r)) + SumFunctionOnSet(s, Family(t, r))
          /\ \A j \in Family(t, r) : t[j].received = t[r].received
      BY DEF Accounts
    <2>3. UnitsIn(d, Family(d, r)) = UnitsIn(t, Family(t, r)) /\ SumFunctionOnSet(b, Family(d, r)) = SumFunctionOnSet(s, Family(t, r))
      <3>1. CASE i \in Family(t, r)
        <4>1. Family(d, r) = Family(t, r) \cup {n}
          BY <1>6, <3>1
        <4>2. QED
          BY <1>7, <2>1, <3>1, <4>1
      <3>2. CASE i \notin Family(t, r)
        <4>1. Family(d, r) = Family(t, r)
          BY <1>6, <3>2
        <4>2. QED
          BY <1>7, <2>1, <3>2, <4>1
      <3>3. QED
        BY <3>1, <3>2
    <2>4. d[r].quantityReceived = t[r].quantityReceived /\ d[r].received = t[r].received
      BY <1>1, <1>2, <2>1
    <2>5. ASSUME NEW j \in Family(d, r) PROVE d[j].received = t[r].received
      <3>1. CASE j \in Family(t, r)
        BY <1>1, <1>2, <2>1, <2>2, <3>1
      <3>2. CASE j \notin Family(t, r)
        <4>1. j = n /\ i \in Family(t, r)
          BY <1>6, <3>2
        <4>2. QED
          BY <1>2, <2>2, <4>1
      <3>3. QED
        BY <3>1, <3>2
    <2>6. QED
      BY <2>2, <2>3, <2>4, <2>5
  <1>9. QED
    BY <1>6, <1>8 DEF Accounts, d, b, less

-----------------------------------------------------------------------------
(* Every step *)

LEMMA InitFifo == Init => FifoInv /\ Accounts(table, sold)
  <1> SUFFICES ASSUME Init PROVE FifoInv /\ Accounts(table, sold)
    OBVIOUS
  <1>1. table = <<>> /\ sold = <<>> /\ job = NoJob
    BY DEF Init
  <1>2. LotsOK /\ LoopInv
    BY <1>1, LotBounds DEF LotsOK, LoopInv, ParentsFirst
  <1>3. Accounts(table, sold)
    BY <1>1 DEF Accounts, Roots
  <1>4. QED
    BY <1>2, <1>3 DEF FifoInv

\* A receipt adds a lot that has no parent.
LEMMA ReceiveStep ==
    ASSUME LotsOK, NEW l \in Locations, NEW e \in Epochs, NEW q \in Quantities, Receive(l, e, q)
    PROVE  /\ job = NoJob /\ job' = NoJob
           /\ LotsOK'
           /\ \E x \in Lot : /\ x.parent = NoParent /\ x.quantityReceived = x.onHand
                             /\ table' = Append(table, x) /\ sold' = Append(sold, 0)
  <1> DEFINE x == [location |-> l, received |-> e, quantityReceived |-> q, onHand |-> q, parent |-> NoParent]
  <1>1. /\ job = NoJob /\ job' = NoJob
        /\ Len(table) < MaxLots
        /\ table' = Append(table, x) /\ sold' = Append(sold, 0)
    BY DEF Receive
  <1>2. x \in Lot /\ x.parent = 0 /\ x.quantityReceived = x.onHand
    BY LotBounds DEF Lot, NoParent
  <1> HIDE DEF x
  <1>3. /\ table \in Seq(Lot) /\ Len(table) \in Nat /\ sold \in Seq(Nat)
        /\ Len(sold) = Len(table) /\ ParentsFirst(table) /\ MaxLots \in Nat
    BY LotBounds DEF LotsOK
  <1>4. table' \in Seq(Lot) /\ Len(table') <= MaxLots
    BY <1>1, <1>2, <1>3
  <1>5. sold' \in Seq(Nat) /\ Len(sold') = Len(table')
    BY <1>1, <1>2, <1>3
  <1>6. ParentsFirst(table')
    <2>1. x.parent <= Len(table)
      BY <1>2, <1>3
    <2>2. ParentsFirst(Append(table, x))
      BY <1>2, <1>3, <2>1, FamilyMore
    <2>3. QED
      BY <1>1, <2>2
  <1>7. LotsOK'
    BY <1>1, <1>4, <1>5, <1>6 DEF LotsOK
  <1>8. QED
    BY <1>1, <1>2, <1>7 DEF NoParent

\* The loop begins with all lots that have units, and has taken none.
LEMMA StartStep ==
    ASSUME LotsOK, NEW op \in {"transfer", "sell"}, NEW from \in Locations, NEW to \in Locations,
           NEW q \in Quantities, Start(op, from, to, q)
    PROVE  FifoInv' /\ UNCHANGED <<table, sold>>
  <1> DEFINE k == [op |-> op, from |-> from, to |-> to, quantity |-> q, remaining |-> q,
                   queue |-> Queue(table, from), before |-> table]
  <1>1. /\ job' = k /\ UNCHANGED <<table, sold>>
        /\ (op = "transfer") <=> (from # to)
        /\ OnHandAt(table, from) >= q
    BY DEF Start
  <1>2. table \in Seq(Lot) /\ q \in Nat /\ Queue(table, from) \in SUBSET Nat
    BY LotBounds, LotFacts DEF LotsOK, Queue
  <1>3. k \in Job
    BY <1>2 DEF Job
  <1>4. /\ k.op = op /\ k.from = from /\ k.to = to /\ k.quantity = q /\ k.remaining = q
        /\ k.queue = Queue(table, from) /\ k.before = table
    OBVIOUS
  <1> HIDE DEF k
  <1>5. Drawn(table, k, 0)
    <2> DEFINE u == ProfileOf(table, from)
               v == ProfileOf(table, to)
    <2>1. u \in [Epochs -> Nat] /\ v \in [Epochs -> Nat]
      BY <1>2, ProfileIsUnits
    <2> HIDE DEF u, v
    <2>2. u = KeptLots(u, 0)
      BY <2>1 DEF KeptLots
    <2>3. v = MergeLots(v, TakenLots(u, 0))
      BY <2>1 DEF MergeLots, TakenLots
    <2>4. QED
      BY <1>4, <2>2, <2>3 DEF Drawn, u, v
  <1>6. k.quantity - k.remaining = 0 /\ k.remaining <= k.quantity
    BY <1>2, <1>4
  <1>7. OnHandAt(table, from) \in Nat
    <2>1. {i \in DOMAIN table : table[i].location = from} \in SUBSET DOMAIN table
      OBVIOUS
    <2>2. QED
      BY <1>2, <2>1, UnitsTable DEF OnHandAt
  <1>8. LoopOK(table, k)
    BY <1>1, <1>2, <1>4, <1>5, <1>6, <1>7 DEF LoopOK
  <1>9. QED
    BY <1>1, <1>3, <1>8 DEF FifoInv, LotsOK, LoopInv

\* One lot is taken from, and at a transfer a child of it is made.
LEMMA TakeStep ==
    ASSUME LotsOK, LoopInv, TakeFromLot
    PROVE  /\ job \in Job /\ LoopOK(table, job) /\ job.remaining > 0 /\ job.queue # {}
           /\ NextLot(table, job) \in DOMAIN table
           /\ Portion(table, job) \in Nat
           /\ Portion(table, job) <= table[NextLot(table, job)].onHand
           /\ job' = Onward(table, job)
           /\ job.op # "transfer" =>
                 /\ table' = Less(table, NextLot(table, job), Portion(table, job))
                 /\ sold' = [sold EXCEPT ![NextLot(table, job)] = @ + Portion(table, job)]
           /\ job.op = "transfer" =>
                 /\ Len(table) < MaxLots
                 /\ sold' = Append(sold, 0)
                 /\ \E x \in Lot :
                       /\ x.location = job.to /\ x.onHand = Portion(table, job)
                       /\ x.parent = NextLot(table, job)
                       /\ x.received = table[NextLot(table, job)].received
                       /\ table' = Append(Less(table, NextLot(table, job), Portion(table, job)), x)
  <1> DEFINE i == NextLot(table, job)
             c == Portion(table, job)
             x == ChildLot(i, job.to, c)
  <1>1. job # NoJob /\ job.remaining > 0 /\ job.queue # {}
    BY DEF TakeFromLot
  <1>2. job \in Job /\ LoopOK(table, job) /\ table \in Seq(Lot)
    BY <1>1 DEF LotsOK, LoopInv
  <1>3. i \in DOMAIN table /\ c \in Nat /\ c <= table[i].onHand
    BY <1>1, <1>2, NextLotFacts
  <1>4. First(table, job.queue) = i /\ (IF table[i].onHand < job.remaining THEN table[i].onHand ELSE job.remaining) = c
    BY DEF NextLot, Portion
  <1>5. job' = Onward(table, job)
    BY <1>4 DEF TakeFromLot, Onward
  <1>6. job.op # "transfer" => table' = Less(table, i, c) /\ sold' = [sold EXCEPT ![i] = @ + c]
    BY <1>4 DEF TakeFromLot, Less
  <1>7. job.op = "transfer" =>
            Len(table) < MaxLots /\ sold' = Append(sold, 0) /\ table' = Append(Less(table, i, c), x)
    BY <1>4 DEF TakeFromLot, Less
  <1>8. ASSUME Len(table) < MaxLots
        PROVE  /\ x \in Lot /\ x.location = job.to /\ x.onHand = c /\ x.parent = i
               /\ x.received = table[i].received
    <2>1. table[i] \in Lot /\ Len(table) \in Nat /\ i \in 1..Len(table) /\ MaxLots \in Nat
      BY <1>2, <1>3, LotFacts, LotBounds
    <2>2. i \in 0..MaxLots
      BY <1>8, <2>1
    <2>3. job.to \in Locations
      BY <1>2, JobFacts
    <2> HIDE DEF i, c
    <2>4. QED
      BY <1>3, <2>1, <2>2, <2>3 DEF ChildLot, Lot
  <1> HIDE DEF i, c, x
  <1>9. QED
    BY <1>1, <1>2, <1>3, <1>5, <1>6, <1>7, <1>8 DEF i, c

LEMMA TakeKeeps ==
    ASSUME LotsOK, LoopInv, Accounts(table, sold), TakeFromLot
    PROVE  FifoInv' /\ Accounts(table, sold)'
  <1> DEFINE i == NextLot(table, job)
             c == Portion(table, job)
  <1>1. /\ job \in Job /\ LoopOK(table, job) /\ job.remaining > 0 /\ job.queue # {}
        /\ i \in DOMAIN table /\ c \in Nat /\ c <= table[i].onHand
        /\ job' = Onward(table, job)
    BY TakeStep
  <1>2. /\ table \in Seq(Lot) /\ Len(table) \in Nat /\ Len(table) <= MaxLots /\ ParentsFirst(table)
        /\ sold \in Seq(Nat) /\ Len(sold) = Len(table) /\ MaxLots \in Nat
    BY LotBounds DEF LotsOK
  <1>3. job' \in Job /\ job' # NoJob
    <2>1. Onward(table, job) \in Job
      BY <1>1, <1>2, OnwardFacts
    <2>2. QED
      BY <1>1, <2>1, JobFacts
  <1>4. /\ Less(table, i, c) \in Seq(Lot) /\ Len(Less(table, i, c)) = Len(table)
        /\ DOMAIN Less(table, i, c) = DOMAIN table
        /\ \A j \in DOMAIN table : Less(table, i, c)[j].parent = table[j].parent
    BY <1>1, <1>2, LessFacts
  <1>5. CASE job.op # "transfer"
    <2>1. table' = Less(table, i, c) /\ sold' = [sold EXCEPT ![i] = @ + c]
      BY <1>5, TakeStep
    <2>2. LoopOK(table', job')
      <3>1. LoopOK(Less(table, i, c), Onward(table, job))
        BY <1>1, <1>2, <1>5, SellNext
      <3>2. QED
        BY <1>1, <2>1, <3>1
    <2>3. Accounts(table', sold')
      <3>1. Accounts(Less(table, i, c), [sold EXCEPT ![i] = @ + c])
        BY <1>1, <1>2, SaleAccounts
      <3>2. QED
        BY <2>1, <3>1
    <2>4. ParentsFirst(table')
      <3>1. ParentsFirst(Less(table, i, c))
        BY <1>2, <1>4, FamilySame
      <3>2. QED
        BY <2>1, <3>1
    <2>5. sold' \in Seq(Nat) /\ Len(sold') = Len(sold)
      <3> HIDE DEF i, c
      <3>1. DOMAIN sold = 1..Len(sold) /\ \A j \in DOMAIN sold : sold[j] \in Nat /\ sold[j] + c \in Nat
        BY <1>1, <1>2
      <3>2. sold' \in [1..Len(sold) -> Nat]
        BY <1>1, <2>1, <3>1
      <3>3. QED
        BY <1>2, <3>2
    <2>6. LotsOK'
      BY <1>2, <1>3, <1>4, <2>1, <2>4, <2>5 DEF LotsOK
    <2>7. QED
      BY <2>2, <2>3, <2>6 DEF FifoInv, LoopInv
  <1>6. CASE job.op = "transfer"
    <2>1. PICK x \in Lot :
             /\ x.location = job.to /\ x.onHand = c /\ x.parent = i /\ x.received = table[i].received
             /\ table' = Append(Less(table, i, c), x)
      BY <1>6, TakeStep
    <2>2. Len(table) < MaxLots /\ sold' = Append(sold, 0)
      BY <1>6, TakeStep
    <2>3. LoopOK(table', job')
      <3>1. LoopOK(Append(Less(table, i, c), x), Onward(table, job))
        BY <1>1, <1>2, <1>6, <2>1, TransferNext
      <3>2. QED
        BY <1>1, <2>1, <3>1
    <2>4. Accounts(table', sold') /\ ParentsFirst(table')
      <3>1. /\ Accounts(Append(Less(table, i, c), x), Append(sold, 0))
            /\ ParentsFirst(Append(Less(table, i, c), x))
        BY <1>1, <1>2, <2>1, TransferAccounts
      <3>2. QED
        BY <2>1, <2>2, <3>1
    <2> HIDE DEF i, c
    <2>5. table' \in Seq(Lot) /\ Len(table') = Len(table) + 1
      <3>1. Append(Less(table, i, c), x) \in Seq(Lot) /\ Len(Append(Less(table, i, c), x)) = Len(Less(table, i, c)) + 1
        BY <1>4, AppendFacts
      <3>2. QED
        BY <1>4, <2>1, <3>1
    <2>6. sold' \in Seq(Nat) /\ Len(sold') = Len(sold) + 1
      BY <1>2, <2>2
    <2>7. LotsOK'
      BY <1>2, <1>3, <2>2, <2>4, <2>5, <2>6 DEF LotsOK
    <2>8. QED
      BY <2>3, <2>4, <2>7 DEF FifoInv, LoopInv
  <1>7. QED
    BY <1>5, <1>6

LEMMA NextFifo ==
    FifoInv /\ Accounts(table, sold) /\ [Next]_vars => FifoInv' /\ Accounts(table, sold)'
  <1> SUFFICES ASSUME FifoInv, Accounts(table, sold), [Next]_vars
               PROVE  FifoInv' /\ Accounts(table, sold)'
    OBVIOUS
  <1> USE DEF FifoInv
  <1>1. ASSUME NEW l \in Locations, NEW q \in Quantities, NEW e \in Epochs, Receive(l, e, q)
        PROVE  FifoInv' /\ Accounts(table, sold)'
    <2>1. PICK x \in Lot : /\ x.parent = NoParent /\ x.quantityReceived = x.onHand
                           /\ table' = Append(table, x) /\ sold' = Append(sold, 0)
      BY <1>1, ReceiveStep
    <2>2. job' = NoJob /\ LotsOK'
      BY <1>1, ReceiveStep
    <2>3. Accounts(Append(table, x), Append(sold, 0))
      BY <2>1, ReceiptAccounts DEF LotsOK
    <2>4. Accounts(table', sold')
      BY <2>1, <2>3
    <2>5. LoopInv'
      BY <2>2 DEF LoopInv
    <2>6. QED
      BY <2>2, <2>4, <2>5
  <1>2. ASSUME NEW l \in Locations, NEW q \in Quantities, NEW to \in Locations,
               NEW op \in {"transfer", "sell"}, Start(op, l, to, q)
        PROVE  FifoInv' /\ Accounts(table, sold)'
    <2>1. FifoInv' /\ UNCHANGED <<table, sold>>
      BY <1>2, StartStep
    <2>2. QED
      BY <2>1
  <1>3. CASE TakeFromLot
    BY <1>3, TakeKeeps
  <1>4. CASE Finish
    <2>1. job' = NoJob /\ table' = table /\ sold' = sold
      BY <1>4 DEF Finish
    <2>2. LotsOK' /\ LoopInv'
      BY <2>1 DEF LotsOK, LoopInv
    <2>3. QED
      BY <2>1, <2>2
  <1>5. CASE UNCHANGED vars
    <2>1. job' = job /\ table' = table /\ sold' = sold
      BY <1>5 DEF vars
    <2>2. LotsOK' /\ LoopInv'
      BY <2>1 DEF LotsOK, LoopInv
    <2>3. QED
      BY <2>1, <2>2
  <1>6. QED
    BY <1>1, <1>2, <1>3, <1>4, <1>5 DEF Next

LEMMA AlwaysFifo == Spec => [](FifoInv /\ Accounts(table, sold))
  BY InitFifo, NextFifo, PTL DEF Spec

-----------------------------------------------------------------------------
(* The properties *)

\* The rows of lots are of their types, with a sum of sold units for each.
THEOREM LotTypes == Spec => []TypeOK
  <1>1. FifoInv => TypeOK
    BY DEF FifoInv, LotsOK, TypeOK
  <1>2. QED
    BY <1>1, AlwaysFifo, PTL

\* When the loop has no units left to take, or no lots, it has taken all units
\* and left the lots as the profile operators of InventoryService say.
THEOREM LoopComputesProfile == Spec => []LoopIsProfile
  <1>1. FifoInv => LoopIsProfile
    <2> SUFFICES ASSUME FifoInv, job # NoJob, job.remaining = 0 \/ job.queue = {}
                 PROVE  job.remaining = 0 /\ Drawn(table, job, job.quantity)
      BY DEF LoopIsProfile, Drawn
    <2>1. job \in Job /\ LoopOK(table, job) /\ table \in Seq(Lot)
      BY DEF FifoInv, LotsOK, LoopInv
    <2> DEFINE d == job.quantity - job.remaining
               u == ProfileOf(job.before, job.from)
               S == {i \in DOMAIN table : table[i].location = job.from}
    <2>2. job.quantity \in Nat /\ job.remaining \in Nat /\ job.remaining <= job.quantity /\ job.before \in Seq(Lot)
      BY <2>1, JobFacts DEF LoopOK
    <2>3. Drawn(table, job, d) /\ job.quantity <= OnHandAt(job.before, job.from)
      BY <2>1 DEF LoopOK
    <2>4. ASSUME job.queue = {}, job.remaining > 0
          PROVE  FALSE
      <3>1. Queue(table, job.from) = {}
        BY <2>1, <2>4 DEF LoopOK
      <3>2. \A i \in S : table[i].onHand = 0
        <4>1. \A i \in DOMAIN table : table[i].onHand \in Nat
          BY <2>1, LotFacts
        <4>2. QED
          BY <3>1, <4>1 DEF Queue
      <3>3. OnHandAt(table, job.from) = 0
        <4>1. S \in SUBSET DOMAIN table
          OBVIOUS
        <4> HIDE DEF S
        <4>2. UnitsIn(table, S) = 0
          BY <2>1, <3>2, <4>1, UnitsNone
        <4>3. QED
          BY <4>2 DEF OnHandAt, S
      <3>4. /\ OnHandAt(table, job.from) = ProfileOf(table, job.from)[LastEpoch]
            /\ OnHandAt(job.before, job.from) = u[LastEpoch]
            /\ u \in [Epochs -> Nat]
        BY <2>1, <2>2, ProfileIsUnits
      <3>5. LastEpoch \in Epochs
        BY EpochAssumption DEF Epochs
      <3>6. ProfileOf(table, job.from)[LastEpoch] = IF u[LastEpoch] > d THEN u[LastEpoch] - d ELSE 0
        BY <2>3, <3>5 DEF Drawn, KeptLots
      <3>7. u[LastEpoch] \in Nat /\ job.quantity <= u[LastEpoch]
        BY <2>3, <3>4, <3>5
      <3> HIDE DEF u, S
      <3>8. u[LastEpoch] > d /\ u[LastEpoch] - d # 0
        BY <2>2, <2>4, <3>7
      <3>9. QED
        BY <3>3, <3>4, <3>6, <3>8
    <2>5. job.remaining = 0
      BY <2>2, <2>4
    <2>6. d = job.quantity
      BY <2>2, <2>5
    <2>7. QED
      BY <2>3, <2>5, <2>6
  <1>2. QED
    BY <1>1, AlwaysFifo, PTL

\* What a receipt brought in is on hand in lots that descend from it, all of
\* its date, or was sold out of one of them.
THEOREM LineageAlwaysAccounts == Spec => []LineageAccounts
  <1>1. Accounts(table, sold) => LineageAccounts
    BY DEF Accounts, LineageAccounts
  <1>2. QED
    BY <1>1, AlwaysFifo, PTL

\* No step takes from a lot while an older lot of the location has units.
THEOREM AlwaysOldestFirst == Spec => OldestFirst
  <1> DEFINE Ordered ==
               \A i, j \in DOMAIN table :
                  table'[j].onHand < table[j].onHand
                  /\ table[i].location = table[j].location
                  /\ table[i].received < table[j].received => table[i].onHand = 0
  <1>1. ASSUME FifoInv, TakeFromLot
        PROVE  Ordered
    <2> DEFINE n == NextLot(table, job)
               c == Portion(table, job)
    <2>1. job \in Job /\ LoopOK(table, job) /\ job.remaining > 0 /\ job.queue # {} /\ table \in Seq(Lot)
      BY <1>1, TakeStep DEF FifoInv, LotsOK
    <2>2. /\ n \in DOMAIN table /\ c \in Nat /\ c <= table[n].onHand
          /\ table[n].location = job.from
          /\ \A i \in DOMAIN table :
                table[i].location = job.from /\ table[i].received < table[n].received => table[i].onHand = 0
      BY <2>1, NextLotFacts
    <2>3. /\ Less(table, n, c) \in Seq(Lot)
          /\ DOMAIN Less(table, n, c) = DOMAIN table
          /\ \A j \in DOMAIN table :
                Less(table, n, c)[j].onHand = IF j = n THEN table[j].onHand - c ELSE table[j].onHand
      BY <2>1, <2>2, LessFacts
    <2>4. \A j \in DOMAIN table : table'[j] = Less(table, n, c)[j]
      <3>1. CASE job.op # "transfer"
        BY <1>1, <3>1, TakeStep DEF FifoInv
      <3>2. CASE job.op = "transfer"
        <4>1. PICK x \in Lot : table' = Append(Less(table, n, c), x)
          BY <1>1, <3>2, TakeStep DEF FifoInv
        <4> HIDE DEF n, c
        <4>2. \A j \in DOMAIN table : Append(Less(table, n, c), x)[j] = Less(table, n, c)[j]
          BY <2>3, AppendFacts
        <4>3. QED
          BY <4>1, <4>2
      <3>3. QED
        BY <3>1, <3>2
    <2> HIDE DEF n, c
    <2>5. ASSUME NEW j \in DOMAIN table, table'[j].onHand < table[j].onHand
          PROVE  j = n
      <3>1. table[j].onHand \in Nat
        BY <2>1, LotFacts
      <3>2. QED
        BY <2>3, <2>4, <2>5, <3>1
    <2>6. QED
      BY <2>2, <2>5
  <1>2. ASSUME FifoInv, [Next]_vars, ~TakeFromLot
        PROVE  Ordered
    <2>1. \A j \in DOMAIN table : table[j].onHand \in Nat
      BY <1>2, LotFacts DEF FifoInv, LotsOK
    <2>2. \A j \in DOMAIN table : table'[j] = table[j]
      <3>1. ASSUME NEW l \in Locations, NEW q \in Quantities, NEW e \in Epochs, Receive(l, e, q)
            PROVE  \A j \in DOMAIN table : table'[j] = table[j]
        <4>1. PICK x \in Lot : table' = Append(table, x)
          BY <1>2, <3>1, ReceiveStep DEF FifoInv
        <4>2. QED
          BY <1>2, <4>1, AppendFacts DEF FifoInv, LotsOK
      <3>2. ASSUME NEW l \in Locations, NEW q \in Quantities, NEW to \in Locations, NEW op \in {"transfer", "sell"},
                   Start(op, l, to, q)
            PROVE  table' = table
        BY <3>2 DEF Start
      <3>3. Finish \/ UNCHANGED vars => table' = table
        BY DEF Finish, vars
      <3>4. QED
        BY <1>2, <3>1, <3>2, <3>3 DEF Next
    <2>3. QED
      BY <2>1, <2>2
  <1>3. FifoInv /\ [Next]_vars => [Ordered]_vars
    BY <1>1, <1>2
  <1>4. QED
    BY <1>3, AlwaysFifo, PTL DEF Spec, OldestFirst
=============================================================================
