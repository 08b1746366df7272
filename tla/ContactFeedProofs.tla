--------------------------- MODULE ContactFeedProofs ---------------------------
(***************************************************************************)
(* What TLAPS proves of ContactFeed, for any number of people and entities,  *)
(* page size, settling time, delays and skews that satisfy                  *)
(* ConstantsAssumption.                                                     *)
(***************************************************************************)
EXTENDS ContactFeed, FiniteSetTheorems, WellFoundedInduction, TLAPS

-----------------------------------------------------------------------------
(* Keys *)

LEMMA Multiples ==
    ASSUME NEW a \in Nat, NEW b \in Nat, NEW m \in Nat
    PROVE  /\ a * m \in Nat
           /\ a <= b => a * m <= b * m
           /\ a < b => a * m + m <= b * m
<1>1. a * m \in Nat /\ b * m \in Nat
  OBVIOUS
<1>2. ASSUME a <= b PROVE a * m <= b * m
  <2>1. PICK d \in Nat : b = a + d
    BY <1>2
  <2>2. b * m = a * m + d * m /\ d * m \in Nat
    BY <2>1
  <2>3. QED
    BY <1>1, <2>2
<1>3. ASSUME a < b PROVE a * m + m <= b * m
  <2>1. PICK d \in Nat : b = (a + 1) + d
    BY <1>3
  <2>2. b * m = a * m + m + d * m /\ d * m \in Nat
    BY <2>1
  <2>3. QED
    BY <1>1, <2>2
<1>4. QED
  BY <1>1, <1>2, <1>3

\* A key is above the bound of its own time and of every earlier one, and below all later ones.
LEMMA KeyOrder ==
    ASSUME NEW t \in Nat, NEW s \in Nat, NEW p \in Persons
    PROVE  /\ KeyOf(t, p) \in Nat /\ Bound(s) \in Nat
           /\ s <= t => Bound(s) < KeyOf(t, p) /\ Bound(s) <= Bound(t)
           /\ t < s => KeyOf(t, p) < Bound(s)
<1> DEFINE m == N + 1
<1>1. m \in Nat /\ p \in Nat /\ p > 0 /\ p < m
  BY ConstantsAssumption DEF Persons
<1>2. KeyOf(t, p) = t * m + p /\ Bound(s) = s * m /\ Bound(t) = t * m
  BY DEF KeyOf, Bound
<1> HIDE DEF m
<1>3. t * m \in Nat /\ s * m \in Nat
  BY <1>1, Multiples
<1>4. s <= t => s * m <= t * m
  BY <1>1, Multiples
<1>5. t < s => t * m + m <= s * m
  BY <1>1, Multiples
<1>6. QED
  BY <1>1, <1>2, <1>3, <1>4, <1>5

\* Keys of different people differ.
LEMMA KeysDiffer ==
    ASSUME NEW t \in Nat, NEW s \in Nat, NEW p \in Persons, NEW q \in Persons, KeyOf(t, p) = KeyOf(s, q)
    PROVE  p = q
<1> DEFINE m == N + 1
<1>1. m \in Nat /\ p \in Nat /\ q \in Nat /\ p > 0 /\ p < m /\ q > 0 /\ q < m
  BY ConstantsAssumption DEF Persons
<1>2. t * m + p = s * m + q
  BY DEF KeyOf
<1> HIDE DEF m
<1>3. t * m \in Nat /\ s * m \in Nat
  BY <1>1, Multiples
<1>4. t < s => t * m + m <= s * m
  BY <1>1, Multiples
<1>5. s < t => s * m + m <= t * m
  BY <1>1, Multiples
<1>6. t = s
  BY <1>1, <1>2, <1>3, <1>4, <1>5
<1>7. QED
  BY <1>1, <1>2, <1>3, <1>6

LEMMA LeastNat ==
    ASSUME NEW S, S \subseteq Nat, S # {}
    PROVE  \E m \in S : \A n \in S : m <= n
<1>1. PICK m \in S : \A n \in S : ~(<<n, m>> \in OpToRel(<, Nat))
  BY NatLessThanWellFounded, WFMin, Zenon
<1>2. \A n \in S : ~(n < m)
  BY <1>1 DEF OpToRel
<1>3. QED
  BY <1>2

-----------------------------------------------------------------------------
(* Pages.  Every row has a key of its own person. *)

KeysOK == \A p \in Persons : \E t \in Nat : row[p].key = KeyOf(t, p)

LEMMA KeyFacts ==
    ASSUME KeysOK
    PROVE  /\ \A p \in Persons : row[p].key \in Nat
           /\ \A p, q \in Persons : row[p].key = row[q].key => p = q
BY KeyOrder, KeysDiffer DEF KeysOK

LEMMA Lowest ==
    ASSUME KeysOK, NEW S, S \subseteq Persons, S # {}
    PROVE  \E p \in S : \A q \in S : row[p].key <= row[q].key
<1> DEFINE K == {row[p].key : p \in S}
<1>1. K \subseteq Nat /\ K # {}
  BY KeyFacts
<1>2. PICK k \in K : \A n \in K : k <= n
  BY <1>1, LeastNat
<1>3. QED
  BY <1>2

LEMMA Highest ==
    ASSUME KeysOK, NEW S, S \subseteq Persons, S # {}, NEW b \in Nat, \A p \in S : row[p].key < b
    PROVE  \E p \in S : \A q \in S : row[q].key <= row[p].key
<1> DEFINE K == {b - row[p].key : p \in S}
<1>1. \A p \in S : row[p].key \in Nat
  BY KeyFacts
<1>2. K \subseteq Nat /\ K # {}
  BY <1>1
<1>3. PICK k \in K : \A n \in K : k <= n
  BY <1>2, LeastNat
<1>4. PICK p \in S : k = b - row[p].key
  BY <1>3
<1>5. \A q \in S : b - row[p].key <= b - row[q].key
  BY <1>3, <1>4
<1>6. QED
  BY <1>1, <1>5

\* A page is the lower part of what the read covers; it is empty only if there is nothing.
LEMMA PageFacts ==
    ASSUME KeysOK
    PROVE  /\ FirstPage \subseteq Changes /\ Changes \subseteq Persons
           /\ \A p \in FirstPage, q \in Changes : row[q].key <= row[p].key => q \in FirstPage
           /\ Changes # {} => FirstPage # {}
<1>1. FirstPage \subseteq Changes /\ Changes \subseteq Persons
  BY DEF FirstPage, Changes
<1>2. \A p \in Persons : IsFiniteSet(Before(p, Changes)) /\ Cardinality(Before(p, Changes)) \in Nat
  <2>1. IsFiniteSet(Persons)
    BY ConstantsAssumption, FS_Interval DEF Persons
  <2>2. \A p \in Persons : Before(p, Changes) \subseteq Persons
    BY <1>1 DEF Before
  <2>3. QED
    BY <2>1, <2>2, FS_Subset, FS_CardinalityType
<1>3. ASSUME NEW p \in FirstPage, NEW q \in Changes, row[q].key <= row[p].key PROVE q \in FirstPage
  <2>1. Before(q, Changes) \subseteq Before(p, Changes)
    BY <1>1, <1>3, KeyFacts DEF Before
  <2>2. Cardinality(Before(q, Changes)) <= Cardinality(Before(p, Changes))
    BY <1>1, <1>2, <2>1, FS_Subset
  <2>3. Cardinality(Before(p, Changes)) < Limit
    BY DEF FirstPage
  <2>4. Cardinality(Before(q, Changes)) \in Nat /\ Cardinality(Before(p, Changes)) \in Nat
    BY <1>1, <1>2
  <2>5. Cardinality(Before(q, Changes)) < Limit
    BY <2>2, <2>3, <2>4, ConstantsAssumption
  <2>6. QED
    BY <2>5 DEF FirstPage
<1>4. ASSUME Changes # {} PROVE FirstPage # {}
  <2>1. PICK p \in Changes : \A q \in Changes : row[p].key <= row[q].key
    BY <1>1, <1>4, Lowest
  <2>2. Before(p, Changes) = {}
    BY <1>1, <2>1, KeyFacts DEF Before
  <2>3. Cardinality(Before(p, Changes)) < Limit
    BY <2>2, FS_EmptySet, ConstantsAssumption
  <2>4. QED
    BY <2>3 DEF FirstPage
<1>5. QED
  BY <1>1, <1>3, <1>4

\* The next key is that of the last row of the page.
LEMMA NextKeyFacts ==
    ASSUME KeysOK, request.bound \in Nat, FirstPage # {}
    PROVE  /\ \E p \in FirstPage : NextKey = row[p].key
           /\ \A q \in FirstPage : row[q].key <= NextKey
<1>1. FirstPage \subseteq Persons /\ \A p \in FirstPage : row[p].key < request.bound
  BY DEF FirstPage, Changes
<1>2. PICK p \in FirstPage : \A q \in FirstPage : row[q].key <= row[p].key
  BY <1>1, Highest
<1>3. Before(p, FirstPage) = FirstPage \ {p}
  BY <1>1, <1>2, KeyFacts DEF Before
<1> DEFINE l == CHOOSE v \in FirstPage : Before(v, FirstPage) = FirstPage \ {v}
<1>4. l \in FirstPage /\ Before(l, FirstPage) = FirstPage \ {l}
  BY <1>3
<1>5. NextKey = row[l].key
  BY DEF NextKey
<1> HIDE DEF l
<1>6. \A q \in FirstPage : row[q].key <= row[l].key
  BY <1>1, <1>4, KeyFacts DEF Before
<1>7. QED
  BY <1>4, <1>5, <1>6

-----------------------------------------------------------------------------
(* Types *)

WellFormed == TypeOK /\ KeysOK

LEMMA NoRequestFacts == NoRequest \in Request /\ NoRequest.at = "none" /\ NoRequest.after = None
BY DEF NoRequest, Request

LEMMA InitWellFormed == Init => WellFormed
<1> SUFFICES ASSUME Init PROVE WellFormed
  OBVIOUS
<1>1. PICK here \in SUBSET Persons :
          row = [p \in Persons |-> [key |-> KeyOf(0, p), data |-> 0, here |-> p \in here, del |-> FALSE]]
  BY DEF Init
<1>2. \A p \in Persons : KeyOf(0, p) \in Nat
  BY KeyOrder
<1>3. row \in [Persons -> Row]
  BY <1>1, <1>2 DEF Row
<1>4. KeysOK
  BY <1>1 DEF KeysOK
<1>5. request \in Request
  BY NoRequestFacts DEF Init
<1>6. device \in Device
  <2> DEFINE f == [p \in Persons |-> None]
  <2>1. f \in [Persons -> Contact \cup {None}]
    OBVIOUS
  <2>2. device = [cursor |-> None, full |-> TRUE, got |-> {}, copy |-> f]
    BY DEF Init
  <2> HIDE DEF f
  <2>3. QED
    BY <2>1, <2>2 DEF Device
<1>7. job \in Job
  BY DEF Init, NoJob, Job
<1>8. QED
  BY <1>3, <1>4, <1>5, <1>6, <1>7, ConstantsAssumption DEF Init, TypeOK, WellFormed

LEMMA ClockFacts ==
    ASSUME TypeOK, NEW t \in Clock
    PROVE  t \in Nat /\ t <= now + Skew /\ now <= t + Skew
<1>1. now \in Nat /\ Skew \in Nat
  BY ConstantsAssumption DEF TypeOK
<1>2. CASE now < Skew
  <2>1. t \in 0..(now + Skew)
    BY <1>2 DEF Clock
  <2>2. QED
    BY <1>1, <1>2, <2>1
<1>3. CASE ~(now < Skew)
  <2>1. t \in (now - Skew)..(now + Skew)
    BY <1>3 DEF Clock
  <2>2. QED
    BY <1>1, <1>3, <2>1
<1>4. QED
  BY <1>2, <1>3

LEMMA SendFacts ==
    ASSUME TypeOK, NEW p \in Persons, NEW kind \in Kinds, NEW d \in Nat, Send(p, kind, d)
    PROVE  \E w \in Write : w.t \in Clock /\ flight' = flight \cup {w}
<1>1. PICK t \in Clock : flight' = flight \cup {[p |-> p, t |-> t, kind |-> kind, data |-> d]}
  BY DEF Send
<1>2. [p |-> p, t |-> t, kind |-> kind, data |-> d] \in Write
  BY ClockFacts DEF Write
<1>3. QED
  BY <1>1, <1>2

\* What each action changes, in the terms of the invariant.
Sends == /\ flight' = flight \/ \E w \in Write : w.t \in Clock /\ flight' = flight \cup {w}
         /\ units' \in [Persons -> SUBSET Entities] /\ unstamped' \in [Persons -> BOOLEAN]
         /\ \A p \in Persons : units'[p] # units[p] => unstamped'[p]
         /\ \A p \in Persons : unstamped[p] => unstamped'[p]
         /\ job' \in Job /\ writes' \in Nat /\ faults' \in Nat
         /\ UNCHANGED <<now, row, request, device>>

Writing == (\E p \in Persons, kind \in Kinds : WritePerson(p, kind))
           \/ (\E p \in Persons, to \in SUBSET Entities : StartReplacing(p, to))
           \/ ReplaceUnit \/ StampPerson \/ JobFails

LEMMA WritingFacts ==
    ASSUME TypeOK, Writing
    PROVE  Sends
<1>0. /\ units \in [Persons -> SUBSET Entities] /\ unstamped \in [Persons -> BOOLEAN]
      /\ job \in Job /\ writes \in Nat /\ faults \in Nat
  BY DEF TypeOK
<1>1. UNCHANGED <<now, row, request, device>>
  BY DEF Writing, WritePerson, StartReplacing, ReplaceUnit, StampPerson, JobFails
<1>2. writes' \in Nat /\ faults' \in Nat
  <2>1. (writes' = writes \/ writes' = writes + 1) /\ (faults' = faults \/ faults' = faults + 1)
    BY DEF Writing, WritePerson, StartReplacing, ReplaceUnit, StampPerson, JobFails, Budget, Fault
  <2>2. QED
    BY <1>0, <2>1
<1>3. NoJob \in Job
  BY DEF NoJob, Job
<1>4. ASSUME NEW p \in Persons, NEW kind \in Kinds, WritePerson(p, kind) PROVE Sends
  <2>1. Send(p, kind, writes') /\ UNCHANGED others
    BY <1>4 DEF WritePerson
  <2>2. \E w \in Write : w.t \in Clock /\ flight' = flight \cup {w}
    BY <1>2, <2>1, SendFacts
  <2>3. UNCHANGED <<units, unstamped, job>>
    BY <2>1 DEF others
  <2>4. QED
    BY <1>0, <1>1, <1>2, <2>2, <2>3 DEF Sends
<1>5. ASSUME NEW p \in Persons, NEW to \in SUBSET Entities, StartReplacing(p, to) PROVE Sends
  <2>1. job' = [p |-> p, to |-> to, changed |-> FALSE] /\ UNCHANGED <<flight, units, unstamped>>
    BY <1>5 DEF StartReplacing
  <2>2. job' \in Job
    BY <2>1 DEF Job
  <2>3. QED
    BY <1>0, <1>1, <1>2, <2>1, <2>2 DEF Sends
<1>6. CASE ReplaceUnit
  <2>1. job.p \in Persons /\ job.to \subseteq Entities
    BY <1>0, <1>6 DEF ReplaceUnit, Job
  <2>2. PICK S \in SUBSET Entities : units' = [units EXCEPT ![job.p] = S]
    <3> DEFINE old == units[job.p] \ job.to
               new == job.to \ units[job.p]
    <3>1. \/ \E e \in old : units' = [units EXCEPT ![job.p] = units[job.p] \ {e}]
          \/ \E e \in new : units' = [units EXCEPT ![job.p] = units[job.p] \cup {e}]
      BY <1>6 DEF ReplaceUnit
    <3>2. units[job.p] \subseteq Entities
      BY <1>0, <2>1
    <3>3. QED
      BY <2>1, <3>1, <3>2
  <2>3. units' \in [Persons -> SUBSET Entities] /\ \A p \in Persons : p # job.p => units'[p] = units[p]
    BY <1>0, <2>1, <2>2
  <2>4. unstamped' = [unstamped EXCEPT ![job.p] = TRUE]
    BY <1>6 DEF ReplaceUnit
  <2>5. unstamped' \in [Persons -> BOOLEAN] /\ unstamped'[job.p]
        /\ \A p \in Persons : unstamped[p] => unstamped'[p]
    BY <1>0, <2>1, <2>4
  <2>6. job' \in Job /\ flight' = flight
    BY <1>0, <1>6 DEF ReplaceUnit, Job
  <2>7. QED
    BY <1>1, <1>2, <2>3, <2>5, <2>6 DEF Sends
<1>7. CASE StampPerson
  <2>1. job.p \in Persons /\ UNCHANGED <<units, unstamped>> /\ job' = NoJob
    BY <1>0, <1>7 DEF StampPerson, Job
  <2>2. flight' = flight \/ \E w \in Write : w.t \in Clock /\ flight' = flight \cup {w}
    <3>1. flight' = flight \/ Send(job.p, "stamp", 0)
      BY <1>7 DEF StampPerson
    <3>2. "stamp" \in Kinds
      BY DEF Kinds
    <3>3. QED
      BY <2>1, <3>1, <3>2, SendFacts
  <2>3. QED
    BY <1>0, <1>1, <1>2, <1>3, <2>1, <2>2 DEF Sends
<1>8. CASE JobFails
  <2>1. UNCHANGED <<units, unstamped, flight>> /\ job' = NoJob
    BY <1>8 DEF JobFails
  <2>2. QED
    BY <1>0, <1>1, <1>2, <1>3, <2>1 DEF Sends
<1>9. QED
  BY <1>4, <1>5, <1>6, <1>7, <1>8 DEF Writing

\* A row as the write of key t leaves it.
LEMMA WrittenFacts ==
    ASSUME TypeOK, NEW w \in Write
    PROVE  Written(w) \in Row /\ Written(w).key = KeyOf(w.t, w.p)
<1> DEFINE k == KeyOf(w.t, w.p)
           r == [row[w.p] EXCEPT !.key = k]
<1>1. w.p \in Persons /\ w.t \in Nat /\ w.data \in Nat /\ w.kind \in Kinds
  BY DEF Write
<1>2. k \in Nat
  BY <1>1, KeyOrder
<1> HIDE DEF k
<1>3. r \in Row /\ r.key = k
  BY <1>1, <1>2 DEF TypeOK, Row
<1>4. Written(w) = CASE w.kind \in {"create", "edit"} -> [r EXCEPT !.here = TRUE, !.data = w.data]
                     [] w.kind = "delete"             -> [r EXCEPT !.del = TRUE]
                     [] w.kind = "undelete"           -> [r EXCEPT !.del = FALSE]
                     [] w.kind = "stamp"              -> r
  BY DEF Written, k
<1> HIDE DEF r
<1>5. CASE w.kind \in {"create", "edit"}
  <2>1. Written(w) = [r EXCEPT !.here = TRUE, !.data = w.data]
    BY <1>4, <1>5
  <2>2. QED
    BY <1>1, <1>3, <2>1 DEF Row, k
<1>6. CASE w.kind = "delete"
  <2>1. Written(w) = [r EXCEPT !.del = TRUE]
    BY <1>4, <1>6
  <2>2. QED
    BY <1>3, <2>1 DEF Row, k
<1>7. CASE w.kind = "undelete"
  <2>1. Written(w) = [r EXCEPT !.del = FALSE]
    BY <1>4, <1>7
  <2>2. QED
    BY <1>3, <2>1 DEF Row, k
<1>8. CASE w.kind = "stamp"
  <2>1. Written(w) = r
    BY <1>4, <1>8
  <2>2. QED
    BY <1>3, <2>1 DEF k
<1>9. QED
  BY <1>1, <1>5, <1>6, <1>7, <1>8 DEF Kinds

Arriving == \E w \in flight : Apply(w) \/ ApplyTwice(w)

Lands == /\ flight' \subseteq flight
         /\ \E w \in flight : /\ row'[w.p].key = KeyOf(w.t, w.p)
                              /\ \A q \in Persons : q # w.p => row'[q] = row[q] /\ (unstamped[q] => unstamped'[q])
         /\ row' \in [Persons -> Row] /\ unstamped' \in [Persons -> BOOLEAN] /\ faults' \in Nat
         /\ UNCHANGED <<now, units, job, request, device, writes>>

LEMMA ArrivingFacts ==
    ASSUME TypeOK, Arriving
    PROVE  Lands
<1>1. PICK w \in flight : Apply(w) \/ ApplyTwice(w)
  BY DEF Arriving
<1>2. w \in Write /\ w.p \in Persons
  BY DEF TypeOK, Write
<1>3. Arrives(w) /\ flight' \subseteq flight
  BY <1>1 DEF Apply, ApplyTwice
<1>4. faults' \in Nat
  <2>1. faults' = faults \/ faults' = faults + 1
    BY <1>1 DEF Apply, ApplyTwice, Fault
  <2>2. QED
    BY <2>1 DEF TypeOK
<1>5. row' = [row EXCEPT ![w.p] = Written(w)] /\ unstamped' = [unstamped EXCEPT ![w.p] = FALSE]
  BY <1>3 DEF Arrives
<1>6. row' \in [Persons -> Row] /\ row'[w.p].key = KeyOf(w.t, w.p)
  BY <1>2, <1>5, WrittenFacts DEF TypeOK
<1>7. unstamped' \in [Persons -> BOOLEAN]
  BY <1>5 DEF TypeOK
<1>8. \A q \in Persons : q # w.p => row'[q] = row[q] /\ (unstamped[q] => unstamped'[q])
  BY <1>2, <1>5 DEF TypeOK
<1>9. UNCHANGED <<now, units, job, request, device, writes>>
  BY <1>3 DEF Arrives
<1>10. QED
  BY <1>3, <1>4, <1>6, <1>7, <1>8, <1>9 DEF Lands

-----------------------------------------------------------------------------
(* The inductive invariant.  A write is at most Late old when it lands, and nothing is given  *)
(* out beyond Top: so what lands, lands above every cursor, bound and next key.               *)

Top == IF now < Late THEN 0 ELSE now - Late

InTime == \A w \in flight : now <= w.t + Late

Reach ==
    /\ device.cursor # None => device.cursor <= Bound(Top)
    /\ device.cursor = None => device.full /\ device.got = {}
    /\ request.at = "asked" =>
          request.after = device.cursor /\ \E h \in Nat : h <= Top /\ request.bound = Bound(h)
    /\ request.at = "read" =>
          request.next <= Bound(Top) /\ (device.cursor # None => device.cursor <= request.next)

\* A page under way: whoever is not on it and below its next key, the client has or need not.
Entry(p) == [p |-> p, data |-> row[p].data, del |-> row[p].del]

PageOK ==
    request.at = "read" =>
        /\ \A c, d \in request.page : c.p = d.p => c = d
        /\ \A p \in Persons : row[p].here /\ row[p].key <= request.next =>
              \/ Entry(p) \in request.page
              \/ /\ p \notin Upserts \cup Tombstones
                 /\ IF device.cursor = None THEN row[p].del ELSE row[p].key <= device.cursor

IInv == WellFormed /\ InTime /\ Reach /\ PageOK /\ CursorCovers

LEMMA TopFacts ==
    ASSUME TypeOK
    PROVE  /\ Top \in Nat /\ Bound(Top) \in Nat /\ now \in Nat /\ Late \in Nat
           /\ \A t \in Nat : now <= t + Late => Top <= t
           /\ \A t \in Nat : t <= now + Skew => Horizon(t) \in Nat /\ Horizon(t) <= Top
<1>1. now \in Nat /\ Late \in Nat /\ Skew \in Nat /\ Settle \in Nat /\ Late + Skew <= Settle
  BY ConstantsAssumption DEF TypeOK
<1>2. Top \in Nat /\ \A t \in Nat : now <= t + Late => Top <= t
  BY <1>1 DEF Top
<1>3. \A t \in Nat : t <= now + Skew => Horizon(t) \in Nat /\ Horizon(t) <= Top
  BY <1>1 DEF Top, Horizon
<1>4. Bound(Top) \in Nat
  BY <1>2, ConstantsAssumption, Multiples DEF Bound
<1>5. QED
  BY <1>1, <1>2, <1>3, <1>4

\* Nothing lands behind a cursor, or behind a read under way.
LEMMA NothingBehind ==
    ASSUME TypeOK, InTime, Reach, NEW w \in flight
    PROVE  /\ KeyOf(w.t, w.p) \in Nat /\ Bound(Top) < KeyOf(w.t, w.p)
           /\ device.cursor # None => KeyOf(w.t, w.p) > device.cursor
           /\ request.at = "asked" => KeyOf(w.t, w.p) > request.bound
           /\ request.at = "read" => KeyOf(w.t, w.p) > request.next
<1> DEFINE k == KeyOf(w.t, w.p)
<1>1. w.t \in Nat /\ w.p \in Persons /\ Top \in Nat /\ Bound(Top) \in Nat
  BY TopFacts DEF TypeOK, Write
<1>2. Top <= w.t
  BY <1>1, TopFacts DEF InTime
<1>3. k \in Nat /\ Bound(Top) < k
  BY <1>1, <1>2, KeyOrder
<1>4. \A h \in Nat : h <= Top => Bound(h) \in Nat /\ Bound(h) < k
  BY <1>1, <1>2, KeyOrder
<1> HIDE DEF k
<1>5. device.cursor # None => k > device.cursor
  BY <1>1, <1>3 DEF Reach, TypeOK, Device
<1>6. request.at = "asked" => k > request.bound
  BY <1>1, <1>4 DEF Reach
<1>7. request.at = "read" => k > request.next
  BY <1>1, <1>3 DEF Reach, TypeOK, Request
<1>8. QED
  BY <1>3, <1>5, <1>6, <1>7 DEF k

LEMMA InitInv == Init => IInv
<1> SUFFICES ASSUME Init PROVE IInv
  OBVIOUS
<1>1. WellFormed
  BY InitWellFormed
<1>2. InTime
  BY DEF Init, InTime
<1>3. device.cursor = None /\ device.full /\ device.got = {} /\ request.at = "none"
  BY NoRequestFacts DEF Init
<1>4. QED
  BY <1>1, <1>2, <1>3 DEF IInv, Reach, PageOK, CursorCovers

\* Steps of the writers.
LEMMA SendsInv ==
    ASSUME IInv, Sends
    PROVE  IInv'
<1>1. TypeOK /\ KeysOK
  BY DEF IInv, WellFormed
<1>2. now' = now /\ row' = row /\ request' = request /\ device' = device
  BY DEF Sends
<1>3. flight' \subseteq Write /\ InTime'
  <2>1. CASE flight' = flight
    BY <1>1, <1>2, <2>1 DEF IInv, InTime, TypeOK
  <2>2. CASE \E w \in Write : w.t \in Clock /\ flight' = flight \cup {w}
    <3>1. PICK w \in Write : w.t \in Clock /\ flight' = flight \cup {w}
      BY <2>2
    <3>2. w.t \in Nat /\ now <= w.t + Skew
      BY <1>1, <3>1, ClockFacts
    <3>3. now <= w.t + Late
      BY <1>1, <3>2, ConstantsAssumption DEF TypeOK
    <3>4. QED
      BY <1>1, <1>2, <3>1, <3>3 DEF IInv, InTime, TypeOK
  <2>3. QED
    BY <2>1, <2>2 DEF Sends
<1>4. TypeOK'
  BY <1>1, <1>2, <1>3 DEF TypeOK, Sends
<1>5. KeysOK' /\ Reach' /\ PageOK'
  BY <1>1, <1>2 DEF KeysOK, IInv, Reach, Top, PageOK, Entry, Upserts, Tombstones
<1>6. CursorCovers'
  <2> SUFFICES ASSUME device.cursor # None, NEW p \in Persons, row[p].here, row[p].key <= device.cursor
               PROVE  UpToDate(p)'
    BY <1>2 DEF CursorCovers
  <2>1. UpToDate(p)
    BY DEF IInv, CursorCovers
  <2>2. \/ unstamped'[p]
        \/ units'[p] = units[p] /\ (unstamped[p] => unstamped'[p])
    BY DEF Sends
  <2>3. QED
    BY <1>2, <2>1, <2>2 DEF UpToDate, Live
<1>7. QED
  BY <1>3, <1>4, <1>5, <1>6 DEF IInv, WellFormed

\* A write that lands.
LEMMA LandsInv ==
    ASSUME IInv, Lands
    PROVE  IInv'
<1>1. TypeOK /\ KeysOK /\ InTime /\ Reach
  BY DEF IInv, WellFormed
<1>2. PICK w \in flight :
          /\ row'[w.p].key = KeyOf(w.t, w.p)
          /\ \A q \in Persons : q # w.p => row'[q] = row[q] /\ (unstamped[q] => unstamped'[q])
  BY DEF Lands
<1>3. now' = now /\ units' = units /\ job' = job /\ request' = request /\ device' = device /\ writes' = writes
  BY DEF Lands
<1>4. TypeOK'
  BY <1>1, <1>3 DEF TypeOK, Lands
<1>5. w.t \in Nat /\ w.p \in Persons
  BY <1>1 DEF TypeOK, Write
<1>6. KeysOK'
  BY <1>1, <1>2, <1>5 DEF KeysOK
<1>7. InTime' /\ Reach'
  BY <1>1, <1>3 DEF Lands, InTime, Reach, Top
<1>8. /\ KeyOf(w.t, w.p) \in Nat
      /\ device.cursor # None => KeyOf(w.t, w.p) > device.cursor
      /\ request.at = "read" => KeyOf(w.t, w.p) > request.next
  BY <1>1, NothingBehind
<1>9. PageOK'
  <2> SUFFICES ASSUME request.at = "read"
               PROVE  /\ \A c, d \in request.page : c.p = d.p => c = d
                      /\ \A p \in Persons : row'[p].here /\ row'[p].key <= request.next =>
                            \/ Entry(p)' \in request.page
                            \/ /\ p \notin (Upserts \cup Tombstones)'
                               /\ IF device.cursor = None THEN row'[p].del ELSE row'[p].key <= device.cursor
    BY <1>3 DEF PageOK
  <2>1. \A c, d \in request.page : c.p = d.p => c = d
    BY DEF IInv, PageOK
  <2>2. ASSUME NEW p \in Persons, row'[p].here, row'[p].key <= request.next
        PROVE  \/ Entry(p)' \in request.page
               \/ /\ p \notin (Upserts \cup Tombstones)'
                  /\ IF device.cursor = None THEN row'[p].del ELSE row'[p].key <= device.cursor
    <3>1. request.next \in Nat
      BY <1>1 DEF TypeOK, Request
    <3>2. p # w.p
      BY <1>2, <1>8, <2>2, <3>1
    <3>3. row'[p] = row[p]
      BY <1>2, <3>2
    <3>4. Upserts' = Upserts /\ Tombstones' = Tombstones /\ Entry(p)' = Entry(p)
      BY <1>3, <3>3 DEF Upserts, Tombstones, Entry
    <3>5. QED
      BY <2>2, <3>3, <3>4 DEF IInv, PageOK
  <2>3. QED
    BY <2>1, <2>2
<1>10. CursorCovers'
  <2> SUFFICES ASSUME device.cursor # None, NEW p \in Persons, row'[p].here, row'[p].key <= device.cursor
               PROVE  UpToDate(p)'
    BY <1>3 DEF CursorCovers
  <2>1. device.cursor \in Nat
    BY <1>1 DEF TypeOK, Device
  <2>2. p # w.p
    BY <1>2, <1>8, <2>1
  <2>3. row'[p] = row[p] /\ (unstamped[p] => unstamped'[p])
    BY <1>2, <2>2
  <2>4. UpToDate(p)
    BY <2>3 DEF IInv, CursorCovers
  <2>5. QED
    BY <1>3, <2>3, <2>4 DEF UpToDate, Live
<1>11. QED
  BY <1>4, <1>6, <1>7, <1>9, <1>10 DEF IInv, WellFormed

LEMMA TickInv ==
    ASSUME IInv, Tick
    PROVE  IInv'
<1>1. TypeOK /\ KeysOK /\ now \in Nat /\ Late \in Nat
  BY ConstantsAssumption DEF IInv, WellFormed, TypeOK
<1>2. now' = now + 1 /\ UNCHANGED <<row, flight, units, unstamped, job, request, device, writes, faults>>
  BY DEF Tick, others
<1>3. TypeOK' /\ KeysOK'
  BY <1>1, <1>2 DEF TypeOK, KeysOK
<1>4. InTime'
  <2>1. \A w \in flight : w.t \in Nat /\ now < w.t + Late
    BY <1>1 DEF Tick, TypeOK, Write
  <2>2. QED
    BY <1>1, <1>2, <2>1 DEF InTime
<1>5. Top \in Nat /\ Top' \in Nat /\ Top <= Top'
  BY <1>1, <1>2 DEF Top
<1>6. Bound(Top) \in Nat /\ Bound(Top') \in Nat /\ Bound(Top) <= Bound(Top')
  <2> DEFINE m == N + 1
  <2>1. m \in Nat
    BY ConstantsAssumption
  <2>2. Bound(Top) = Top * m /\ Bound(Top') = Top' * m
    BY DEF Bound
  <2> DEFINE t == Top
             u == Top'
  <2>3. t \in Nat /\ u \in Nat /\ t <= u /\ Bound(Top) = t * m /\ Bound(Top') = u * m
    BY <1>5, <2>2
  <2> HIDE DEF m, t, u
  <2>4. QED
    BY <2>1, <2>3, Multiples
<1>7. Reach'
  <2> DEFINE b == Bound(Top)
             c == Bound(Top')
  <2>1. Bound(Top)' = c /\ b \in Nat /\ c \in Nat /\ b <= c
    BY <1>6 DEF Bound
  <2>2. device.cursor # None => device.cursor \in Nat /\ device.cursor <= b
    BY <1>1 DEF IInv, Reach, TypeOK, Device
  <2>3. request.at = "read" => request.next \in Nat /\ request.next <= b
    BY <1>1 DEF IInv, Reach, TypeOK, Request
  <2>4. request.at = "asked" => \E h \in Nat : h <= Top' /\ request.bound = Bound(h)
    BY <1>5 DEF IInv, Reach
  <2> HIDE DEF b, c
  <2>5. (device.cursor # None => device.cursor <= c) /\ (request.at = "read" => request.next <= c)
    BY <2>1, <2>2, <2>3
  <2>6. QED
    BY <1>2, <2>1, <2>4, <2>5 DEF IInv, Reach
<1>8. PageOK' /\ CursorCovers'
  BY <1>2 DEF IInv, PageOK, Entry, Upserts, Tombstones, CursorCovers, UpToDate, Live
<1>9. QED
  BY <1>3, <1>4, <1>7, <1>8 DEF IInv, WellFormed

-----------------------------------------------------------------------------
(* Requests *)

AskOrDrop == Ask \/ Lost \/ CursorExpires

LEMMA AskOrDropInv ==
    ASSUME IInv, AskOrDrop
    PROVE  IInv'
<1>0. TypeOK /\ KeysOK /\ faults \in Nat /\ device \in Device /\ request \in Request
  BY DEF IInv, WellFormed, TypeOK
<1>1. UNCHANGED <<now, row, flight, units, unstamped, job, writes>>
  BY DEF AskOrDrop, Ask, Lost, CursorExpires, others
<1>2. faults' \in Nat
  <2>1. faults' = faults \/ faults' = faults + 1
    BY DEF AskOrDrop, Ask, Lost, CursorExpires, Fault
  <2>2. QED
    BY <1>0, <2>1
<1>3. /\ request' \in Request
      /\ \/ request'.at = "none"
         \/ /\ request'.at = "asked" /\ request'.after = device.cursor /\ device' = device
            /\ \E h \in Nat : h <= Top /\ request'.bound = Bound(h)
  <2>1. CASE Ask
    <3>1. PICK t \in Clock : request' = [NoRequest EXCEPT !.at = "asked", !.after = device.cursor,
                                                         !.bound = Bound(Horizon(t))]
      BY <2>1 DEF Ask
    <3>2. Horizon(t) \in Nat /\ Horizon(t) <= Top
      BY <1>0, ClockFacts, TopFacts
    <3> DEFINE h == Horizon(t)
               b == Bound(h)
    <3>3. b \in Nat
      BY <3>2, ConstantsAssumption, Multiples DEF Bound
    <3>4. device' = device /\ device.cursor \in Nat \cup {None}
      BY <1>0, <2>1 DEF Ask, Device
    <3>5. /\ request' \in Request /\ request'.at = "asked" /\ request'.after = device.cursor
          /\ request'.bound = b
      <4> HIDE DEF b
      <4>1. request' = [NoRequest EXCEPT !.at = "asked", !.after = device.cursor, !.bound = b]
        BY <3>1 DEF b
      <4>2. QED
        BY <3>3, <3>4, <4>1 DEF NoRequest, Request
    <3>6. QED
      BY <3>2, <3>4, <3>5
  <2>2. CASE Lost \/ CursorExpires
    BY <2>2, NoRequestFacts DEF Lost, CursorExpires
  <2>3. QED
    BY <2>1, <2>2 DEF AskOrDrop
<1>4. /\ device' \in Device
      /\ device' = device \/ (device'.cursor = None /\ device'.full /\ device'.got = {})
  <2>1. CASE Ask \/ Lost
    BY <1>0, <2>1 DEF Ask, Lost
  <2>2. CASE CursorExpires
    BY <1>0, <2>2 DEF CursorExpires, Device
  <2>3. QED
    BY <2>1, <2>2 DEF AskOrDrop
<1>5. TypeOK' /\ KeysOK'
  BY <1>0, <1>1, <1>2, <1>3, <1>4 DEF TypeOK, KeysOK
<1>6. InTime'
  BY <1>1 DEF IInv, InTime
<1>7. Top' = Top /\ Bound(Top)' = Bound(Top)
  BY <1>1 DEF Top, Bound
<1>8. Reach'
  BY <1>3, <1>4, <1>7 DEF IInv, Reach
<1>9. PageOK'
  BY <1>3 DEF PageOK
<1>10. CursorCovers'
  BY <1>1, <1>4 DEF IInv, CursorCovers, UpToDate, Live
<1>11. QED
  BY <1>5, <1>6, <1>8, <1>9, <1>10 DEF IInv, WellFormed

\* What is read is the part of the table between the client's cursor and the next key.
LEMMA ReadInv ==
    ASSUME IInv, Read
    PROVE  IInv'
<1> DEFINE page == {Entry(p) : p \in FirstPage}
           more == Changes # FirstPage
           n == NextKey
<1>0. TypeOK /\ KeysOK /\ Reach /\ request \in Request /\ device \in Device
  BY DEF IInv, WellFormed, TypeOK
<1>1. UNCHANGED <<now, row, flight, units, unstamped, job, device, writes, faults>> /\ request.at = "asked"
  BY DEF Read, others
<1>2. PICK h \in Nat : h <= Top /\ request.bound = Bound(h)
  BY <1>0, <1>1 DEF Reach
<1>3. request.bound \in Nat /\ request.after = device.cursor /\ device.cursor \in Nat \cup {None}
  BY <1>0, <1>1 DEF Reach, Request, Device
<1>4. FirstPage \subseteq Changes /\ Changes \subseteq Persons
  BY <1>0, PageFacts
<1>5. \A p \in FirstPage : row[p].here /\ row[p].key < request.bound /\ row[p].key \in Nat
  BY <1>0, <1>4, KeyFacts DEF FirstPage, Changes
<1>6. /\ n \in Nat /\ n <= Bound(Top)
      /\ request.after # None => request.after <= n
  <2>1. Bound(Top) \in Nat /\ request.bound <= Bound(Top)
    <3> DEFINE t == Top
    <3>1. t \in Nat /\ h <= t
      BY <1>0, <1>2, TopFacts
    <3> DEFINE m == N + 1
    <3>2. m \in Nat
      BY ConstantsAssumption
    <3>3. Bound(t) = t * m /\ Bound(h) = h * m
      BY DEF Bound
    <3> HIDE DEF m, t
    <3>4. Bound(t) \in Nat /\ Bound(h) <= Bound(t)
      BY <1>2, <3>1, <3>2, <3>3, Multiples
    <3>5. QED
      BY <1>2, <3>4 DEF t
  <2>2. CASE FirstPage # {}
    <3>1. PICK p \in FirstPage : n = row[p].key
      BY <1>0, <1>3, <2>2, NextKeyFacts
    <3>2. request.after # None => row[p].key > request.after
      BY <1>4 DEF Changes
    <3>3. row[p].key \in Nat /\ row[p].key < request.bound
      BY <1>5
    <3> HIDE DEF n
    <3>4. n \in Nat /\ n < request.bound
      BY <3>1, <3>3
    <3>5. request.after # None => request.after \in Nat /\ n > request.after
      BY <1>3, <3>1, <3>2
    <3>6. QED
      BY <1>3, <2>1, <3>4, <3>5
  <2>3. CASE FirstPage = {} /\ request.after # None
    <3>1. n = request.after
      BY <2>3 DEF NextKey
    <3>2. request.after \in Nat /\ request.after <= Bound(Top)
      BY <1>0, <1>3, <2>3 DEF Reach
    <3> HIDE DEF n
    <3>3. QED
      BY <3>1, <3>2
  <2>4. CASE FirstPage = {} /\ request.after = None
    <3>1. n = request.bound
      BY <2>4 DEF NextKey
    <3> HIDE DEF n
    <3>2. QED
      BY <1>3, <2>1, <2>4, <3>1
  <2>5. QED
    BY <2>2, <2>3, <2>4
<1>7. page \in SUBSET Sent
  <2>1. \A p \in FirstPage : p \in Persons /\ row[p].data \in Nat /\ row[p].del \in BOOLEAN
    BY <1>0, <1>4 DEF TypeOK, Row
  <2>2. QED
    BY <2>1 DEF Sent, Entry
<1>8. request' = [NoRequest EXCEPT !.at = "read", !.page = page, !.next = n, !.more = more]
  BY DEF Read, Entry
<1>9. /\ request' \in Request /\ request'.at = "read"
      /\ request'.page = page /\ request'.next = n
  <2>1. more \in BOOLEAN
    OBVIOUS
  <2> HIDE DEF page, more, n
  <2>2. QED
    BY <1>6, <1>7, <1>8, <2>1 DEF NoRequest, Request
<1>10. TypeOK' /\ KeysOK' /\ InTime'
  BY <1>0, <1>1, <1>9 DEF TypeOK, KeysOK, IInv, InTime
<1>11. Reach'
  <2>1. Top' = Top /\ Bound(Top)' = Bound(Top)
    BY <1>1 DEF Top, Bound
  <2> HIDE DEF n, page
  <2>2. QED
    BY <1>0, <1>1, <1>3, <1>6, <1>9, <2>1 DEF Reach
<1>12. CursorCovers'
  BY <1>1 DEF IInv, CursorCovers, UpToDate, Live
<1>13. PageOK'
  <2>1. \A c, d \in page : c.p = d.p => c = d
    BY DEF Entry
  <2>2. \A p \in Persons : p \in (Upserts \cup Tombstones)' => p \in FirstPage
    BY <1>9 DEF Upserts, Tombstones, Entry
  <2>3. ASSUME NEW p \in Persons, row[p].here, row[p].key <= n, p \notin FirstPage
        PROVE  IF device.cursor = None THEN row[p].del ELSE row[p].key <= device.cursor
    <3>1. row[p].key \in Nat
      BY <1>0, KeyFacts
    <3>2. row[p].key < request.bound => p \notin Changes
      <4>1. CASE FirstPage = {}
        BY <1>0, <4>1, PageFacts
      <4>2. CASE FirstPage # {}
        <5>1. PICK q \in FirstPage : n = row[q].key
          BY <1>0, <1>3, <4>2, NextKeyFacts
        <5>2. row[p].key <= row[q].key
          BY <2>3, <5>1
        <5>3. QED
          BY <1>0, <2>3, <5>2, PageFacts
      <4>3. QED
        BY <4>1, <4>2
    <3>3. row[p].key < request.bound
          \/ (device.cursor # None /\ row[p].key <= device.cursor)
      <4>1. CASE FirstPage # {}
        <5>1. PICK q \in FirstPage : n = row[q].key
          BY <1>0, <1>3, <4>1, NextKeyFacts
        <5>2. row[q].key < request.bound /\ row[q].key \in Nat
          BY <1>5
        <5> HIDE DEF n
        <5>3. QED
          BY <1>3, <2>3, <3>1, <5>1, <5>2
      <4>2. CASE FirstPage = {} /\ request.after # None
        BY <1>3, <2>3, <4>2 DEF NextKey
      <4>3. CASE FirstPage = {} /\ request.after = None
        <5>1. row[p].key <= Bound(h)
          BY <1>2, <2>3, <4>3 DEF NextKey
        <5>2. PICK t \in Nat : row[p].key = KeyOf(t, p)
          BY <1>0 DEF KeysOK
        <5>3. h <= t => Bound(h) < KeyOf(t, p)
          BY KeyOrder
        <5>4. t < h => KeyOf(t, p) < Bound(h)
          BY KeyOrder
        <5>5. KeyOf(t, p) \in Nat /\ Bound(h) \in Nat
          BY KeyOrder
        <5> DEFINE k == KeyOf(t, p)
                   b == Bound(h)
        <5>6. k <= b /\ k \in Nat /\ b \in Nat /\ (h <= t => b < k) /\ (t < h => k < b)
          BY <5>1, <5>2, <5>3, <5>4, <5>5
        <5> HIDE DEF k, b
        <5>7. k < b
          BY <5>6
        <5>8. QED
          BY <1>2, <5>2, <5>7 DEF k, b
      <4>4. QED
        BY <4>1, <4>2, <4>3
    <3>4. CASE device.cursor = None
      <4>1. p \notin Changes
        BY <3>2, <3>3, <3>4
      <4>2. row[p].key < request.bound
        BY <3>3, <3>4
      <4>3. QED
        BY <1>3, <2>3, <3>4, <4>1, <4>2 DEF Changes
    <3>5. CASE device.cursor # None
      <4>1. CASE row[p].key < request.bound
        <5>1. ~(row[p].key > request.after)
          BY <1>3, <2>3, <3>2, <3>5, <4>1 DEF Changes
        <5>2. QED
          BY <1>3, <3>1, <3>5, <5>1
      <4>2. CASE row[p].key <= device.cursor
        BY <3>5, <4>2
      <4>3. QED
        BY <3>3, <3>5, <4>1, <4>2
    <3>6. QED
      BY <3>4, <3>5
  <2>4. ASSUME NEW p \in Persons, row[p].here, row[p].key <= n
        PROVE  \/ Entry(p) \in page
               \/ /\ p \notin (Upserts \cup Tombstones)'
                  /\ IF device.cursor = None THEN row[p].del ELSE row[p].key <= device.cursor
    BY <2>2, <2>3, <2>4
  <2>5. \A p \in Persons : Entry(p)' = Entry(p)
    BY <1>1 DEF Entry
  <2> HIDE DEF n, page
  <2>6. QED
    BY <1>1, <1>9, <2>1, <2>4, <2>5 DEF PageOK
<1>14. QED
  BY <1>10, <1>11, <1>12, <1>13 DEF IInv, WellFormed

\* What a reply leaves of each person: the three cases of the client's map.
LEMMA AnswerFacts ==
    ASSUME IInv, Answer
    PROVE  /\ UNCHANGED <<now, row, flight, units, unstamped, job, writes, faults>>
           /\ request.at = "read" /\ request' = NoRequest
           /\ Upserts \subseteq Persons /\ Tombstones \subseteq Persons
           /\ device'.cursor = request.next
           /\ device'.full = (device.full /\ request.more)
           /\ device'.got = IF device.full /\ request.more THEN Brought ELSE {}
           /\ \A p \in Upserts : \E c \in request.page :
                 /\ c.p = p /\ ~c.del
                 /\ device'.copy[p] = [data |-> c.data, units |-> units[p]]
           /\ \A p \in Tombstones \ Upserts : device'.copy[p] = None
           /\ \A p \in Persons \ (Upserts \cup Tombstones) :
                 device'.copy[p] = IF device.full /\ ~request.more /\ p \notin Brought
                                   THEN None ELSE device.copy[p]
           /\ device' \in Device
<1> DEFINE chosen(p) == CHOOSE c \in request.page : c.p = p
           copy == [p \in Persons |->
              IF p \in Upserts
              THEN [data |-> chosen(p).data, units |-> units[p]]
              ELSE IF p \in Tombstones \/ (device.full /\ ~request.more /\ p \notin Brought)
              THEN None
              ELSE device.copy[p]]
           full == device.full /\ request.more
           got == IF device.full /\ request.more THEN Brought ELSE {}
<1>1. TypeOK /\ request \in Request /\ device \in Device /\ units \in [Persons -> SUBSET Entities]
  BY DEF IInv, WellFormed, TypeOK
<1>2. request.page \subseteq Sent /\ request.next \in Nat /\ request.more \in BOOLEAN
      /\ device.full \in BOOLEAN /\ device.got \subseteq Persons
      /\ device.copy \in [Persons -> Contact \cup {None}]
  BY <1>1 DEF Request, Device
<1>3. request.at = "read" /\ request' = NoRequest
      /\ UNCHANGED <<now, row, flight, units, unstamped, job, writes, faults>>
  BY DEF Answer, others
<1>4. Upserts \subseteq Persons /\ Tombstones \subseteq Persons
  BY <1>2 DEF Upserts, Tombstones, Sent
<1>5. \A p \in Upserts : chosen(p) \in request.page /\ chosen(p).p = p /\ ~chosen(p).del
  <2> TAKE p \in Upserts
  <2>1. PICK c \in request.page : ~c.del /\ c.p = p
    BY DEF Upserts
  <2>2. chosen(p) \in request.page /\ chosen(p).p = p
    BY <2>1
  <2> HIDE DEF chosen
  <2>3. chosen(p) = c
    BY <1>3, <2>1, <2>2 DEF IInv, PageOK
  <2>4. QED
    BY <2>1, <2>2, <2>3
<1>6. device' = [cursor |-> request.next, full |-> full, got |-> got, copy |-> copy]
  BY DEF Answer
<1> HIDE DEF chosen
<1>7. \A p \in Upserts : chosen(p).data \in Nat
  BY <1>2, <1>5 DEF Sent
<1>8. copy \in [Persons -> Contact \cup {None}]
  <2> SUFFICES ASSUME NEW p \in Persons PROVE copy[p] \in Contact \cup {None}
    OBVIOUS
  <2>1. CASE p \in Upserts
    <3>1. copy[p] = [data |-> chosen(p).data, units |-> units[p]]
      BY <2>1
    <3> HIDE DEF copy
    <3>2. QED
      BY <1>1, <1>7, <2>1, <3>1 DEF Contact
  <2>2. CASE p \notin Upserts
    <3>1. copy[p] = None \/ copy[p] = device.copy[p]
      BY <2>2
    <3> HIDE DEF copy
    <3>2. QED
      BY <1>2, <3>1
  <2>3. QED
    BY <2>1, <2>2
<1>9. full \in BOOLEAN /\ got \in SUBSET Persons
  BY <1>2, <1>4 DEF Brought
<1>10. /\ \A p \in Upserts : copy[p] = [data |-> chosen(p).data, units |-> units[p]]
       /\ \A p \in Tombstones \ Upserts : copy[p] = None
       /\ \A p \in Persons \ (Upserts \cup Tombstones) :
             copy[p] = IF device.full /\ ~request.more /\ p \notin Brought THEN None ELSE device.copy[p]
  BY <1>4
<1>11. /\ device' \in Device /\ device'.cursor = request.next /\ device'.full = full
       /\ device'.got = got /\ device'.copy = copy
  <2> HIDE DEF full, got, copy
  <2>1. QED
    BY <1>2, <1>6, <1>8, <1>9 DEF Device
<1> HIDE DEF copy
<1>12. QED
  BY <1>3, <1>4, <1>5, <1>10, <1>11

LEMMA AnswerInv ==
    ASSUME IInv, Answer
    PROVE  IInv'
<1>1. TypeOK /\ KeysOK /\ Reach /\ units \in [Persons -> SUBSET Entities] /\ row \in [Persons -> Row]
      /\ request \in Request /\ device \in Device
  BY DEF IInv, WellFormed, TypeOK
<1>2. UNCHANGED <<now, row, flight, units, unstamped, job, writes, faults>>
      /\ request.at = "read" /\ request' = NoRequest
  BY AnswerFacts
<1>3. request.next \in Nat /\ request.next # None
  BY <1>1, ConstantsAssumption DEF Request
<1>4. TypeOK' /\ KeysOK' /\ InTime'
  BY <1>1, <1>2, AnswerFacts, NoRequestFacts DEF TypeOK, KeysOK, IInv, InTime
<1>5. Reach'
  <2>1. Bound(Top)' = Bound(Top)
    BY <1>2 DEF Top, Bound
  <2>2. request.next <= Bound(Top) /\ device'.cursor = request.next
    BY <1>1, <1>2, AnswerFacts DEF Reach
  <2>3. QED
    BY <1>2, <1>3, <2>1, <2>2, NoRequestFacts DEF Reach
<1>6. PageOK'
  BY <1>2, NoRequestFacts DEF PageOK
<1>7. ASSUME NEW p \in Persons, row[p].here, row[p].key <= request.next
      PROVE  UpToDate(p)'
  <2>1. device.cursor = None => device.full /\ device.got = {}
    BY <1>1 DEF Reach
  <2>2. row[p].del \in BOOLEAN /\ Live(p) = ~row[p].del /\ Live(p)' = ~row[p].del
    BY <1>1, <1>2, <1>7 DEF Live, Row
  <2>3. ASSUME Entry(p) \in request.page, ~row[p].del
        PROVE  UpToDate(p)'
    <3>1. p \in Upserts /\ p \in Brought
      BY <2>3 DEF Upserts, Entry, Brought
    <3>2. PICK c \in request.page : /\ c.p = p
                                    /\ device'.copy[p] = [data |-> c.data, units |-> units[p]]
      BY <3>1, AnswerFacts
    <3>3. c = Entry(p)
      BY <1>2, <2>3, <3>2 DEF IInv, PageOK, Entry
    <3>4. device'.copy[p] = [data |-> row[p].data, units |-> units[p]]
      BY <3>2, <3>3 DEF Entry
    <3>5. device'.copy[p] # None /\ device'.copy[p].data = row[p].data /\ device'.copy[p].units = units[p]
      <4>1. row[p].data \in Nat
        BY <1>1 DEF Row
      <4>2. device'.copy[p] \in Contact
        BY <1>1, <3>4, <4>1 DEF Contact
      <4>3. QED
        BY <3>4, <4>2, NoneAssumption
    <3>6. device'.full => p \in device'.got
      BY <3>1, AnswerFacts
    <3>7. QED
      BY <1>2, <2>2, <2>3, <3>5, <3>6 DEF UpToDate
  <2>4. ASSUME Entry(p) \in request.page, row[p].del
        PROVE  UpToDate(p)'
    <3>1. p \in Tombstones
      BY <2>4 DEF Tombstones, Entry
    <3>2. p \notin Upserts
      <4>1. SUFFICES ASSUME NEW c \in request.page, ~c.del, c.p = p PROVE FALSE
        BY DEF Upserts
      <4>2. c = Entry(p)
        BY <1>2, <2>4, <4>1 DEF IInv, PageOK, Entry
      <4>3. QED
        BY <2>4, <4>1, <4>2 DEF Entry
    <3>3. device'.copy[p] = None /\ p \notin device'.got
      BY <3>1, <3>2, AnswerFacts DEF Brought
    <3>4. QED
      BY <2>2, <2>4, <3>3 DEF UpToDate
  <2>5. ASSUME p \notin Upserts \cup Tombstones, device.cursor # None, row[p].key <= device.cursor
        PROVE  UpToDate(p)'
    <3>1. UpToDate(p)
      BY <1>7, <2>5 DEF IInv, CursorCovers
    <3>2. device'.copy[p] = IF device.full /\ ~request.more /\ p \notin Brought THEN None ELSE device.copy[p]
      BY <2>5, AnswerFacts
    <3>3. p \in Brought <=> p \in device.got
      BY <2>5 DEF Brought
    <3>4. device'.full = (device.full /\ request.more)
          /\ device'.got = IF device.full /\ request.more THEN Brought ELSE {}
      BY AnswerFacts
    <3>5. QED
      BY <1>2, <2>2, <3>1, <3>2, <3>3, <3>4 DEF UpToDate
  <2>6. ASSUME p \notin Upserts \cup Tombstones, device.cursor = None, row[p].del
        PROVE  UpToDate(p)'
    <3>1. p \notin Brought /\ device.full
      BY <2>1, <2>6 DEF Brought
    <3>2. device'.copy[p] = IF ~request.more THEN None ELSE device.copy[p]
      BY <2>6, <3>1, AnswerFacts
    <3>3. (device'.full <=> request.more) /\ p \notin device'.got
      BY <3>1, AnswerFacts
    <3>4. QED
      BY <2>2, <2>6, <3>2, <3>3 DEF UpToDate
  <2>7. QED
    BY <1>2, <1>7, <2>2, <2>3, <2>4, <2>5, <2>6 DEF IInv, PageOK
<1>8. CursorCovers'
  BY <1>2, <1>7, AnswerFacts DEF CursorCovers
<1>9. QED
  BY <1>4, <1>5, <1>6, <1>8 DEF IInv, WellFormed

-----------------------------------------------------------------------------
(* The specification *)

LEMMA StepCases == Next <=> Writing \/ Arriving \/ AskOrDrop \/ Read \/ Answer \/ Tick
BY DEF Next, Writing, Arriving, AskOrDrop

LEMMA Step == IInv /\ [Next]_vars => IInv'
<1> SUFFICES ASSUME IInv, [Next]_vars PROVE IInv'
  OBVIOUS
<1>0. TypeOK
  BY DEF IInv, WellFormed
<1>1. CASE Writing
  BY <1>0, <1>1, WritingFacts, SendsInv
<1>2. CASE Arriving
  BY <1>0, <1>2, ArrivingFacts, LandsInv
<1>3. CASE AskOrDrop
  BY <1>3, AskOrDropInv
<1>4. CASE Read
  BY <1>4, ReadInv
<1>5. CASE Answer
  BY <1>5, AnswerInv
<1>6. CASE Tick
  BY <1>6, TickInv
<1>7. CASE UNCHANGED vars
  BY <1>7 DEF vars, IInv, WellFormed, TypeOK, KeysOK, InTime, Reach, Top, PageOK, Entry,
              Upserts, Tombstones, CursorCovers, UpToDate, Live
<1>8. QED
  BY <1>1, <1>2, <1>3, <1>4, <1>5, <1>6, <1>7, StepCases

LEMMA Invariance == Spec => []IInv
BY InitInv, Step, PTL DEF Spec

\* Every variable of the feed keeps to its type, in every behaviour of the specification.
THEOREM TypeCorrect == Spec => []TypeOK
<1>1. IInv => TypeOK
  BY DEF IInv, WellFormed
<1>2. QED
  BY <1>1, Invariance, PTL

\* No write lands behind a cursor that has been given out or behind a read under way, for every
\* settling time at least as long as the delay and the skew together (offline_sync.rs, SETTLE_US).
THEOREM SettledSafe == Spec => []Settled
<1>1. IInv => Settled
  BY NothingBehind DEF IInv, WellFormed, Settled
<1>2. QED
  BY <1>1, Invariance, PTL

\* A client holds everybody changed up to its cursor in their present state and none of the
\* deleted, whatever the pages, the lost replies and the full syncs (list_contact_changes).
THEOREM CoverSafe == Spec => []CursorCovers
<1>1. IInv => CursorCovers
  BY DEF IInv
<1>2. QED
  BY <1>1, Invariance, PTL

\* A reply never moves a cursor back, though servers' clocks differ (next_key).
THEOREM CursorSafe == Spec => CursorNeverMovesBack
<1>1. ASSUME IInv, [Next]_vars
      PROVE  device.cursor # None /\ device'.cursor # None => device'.cursor >= device.cursor
  <2>0. TypeOK /\ device \in Device /\ device.cursor \in Nat \cup {None}
    BY <1>1 DEF IInv, WellFormed, TypeOK, Device
  <2>1. CASE Writing \/ Arriving \/ Read \/ Tick \/ UNCHANGED vars
    <3>1. device' = device
      BY <2>0, <2>1, WritingFacts, ArrivingFacts DEF Sends, Lands, Read, Tick, vars
    <3>2. QED
      BY <2>0, <3>1
  <2>2. CASE AskOrDrop
    <3>1. device' = device \/ device'.cursor = None
      BY <2>0, <2>2 DEF AskOrDrop, Ask, Lost, CursorExpires, Device
    <3>2. QED
      BY <2>0, <3>1
  <2>3. CASE Answer
    BY <1>1, <2>3, AnswerFacts DEF IInv, Reach
  <2>4. QED
    BY <1>1, <2>1, <2>2, <2>3, StepCases
<1>2. QED
  BY <1>1, Invariance, PTL DEF Spec, CursorNeverMovesBack
=============================================================================
