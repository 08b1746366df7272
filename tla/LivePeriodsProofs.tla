--------------------------- MODULE LivePeriodsProofs ---------------------------
(***************************************************************************)
(* What TLAPS proves of LivePeriods, for any set of periods and whatever    *)
(* the bounds: however many snapshots are in flight, however long messages  *)
(* are under way and however often the channel fails.                       *)
(***************************************************************************)
EXTENDS LivePeriods, SequenceTheorems, WellFoundedInduction, TLAPS

-----------------------------------------------------------------------------
(* The inductive invariant.  A period is open in version 1 only, wherever a      *)
(* version of it may be: in the row, the index, a message, a snapshot, the list. *)

RowInv ==
    \A p \in Periods :
        /\ srv[p].open => srv[p].ver = 1
        /\ idx[p].open => idx[p].ver = 1
        /\ idx[p].ver <= srv[p].ver

\* The messages of S say what was once true of the row.
Honest(S) ==
    \A m \in S : /\ m \in Message
                 /\ 1 <= m.ver /\ m.ver <= srv[m.p].ver
                 /\ m.open <=> m.ver = 1

MessageInv == Honest(net) /\ Honest(replies) /\ (queue # None => Honest(queue))

FetchInv ==
    \A i \in DOMAIN fetches : \A p \in Periods :
        fetches[i].rows[p] <= 1 /\ fetches[i].rows[p] <= srv[p].ver

\* Nothing that is under way to the kiosk, or may still be read for it, shows the period open.
NoneOpen(S, p) == \A m \in S : m.p = p => ~m.open
NotFetched(fs, p) == \A i \in DOMAIN fs : fs[i].rows[p] = 0
Over(p) ==
    /\ 1 < srv[p].ver /\ ~idx[p].open
    /\ NoneOpen(net, p) /\ NoneOpen(replies, p)
    /\ queue # None => NoneOpen(queue, p)
    /\ NotFetched(fetches, p)

\* What the list says was once true, and a tombstone old enough to be pruned is not needed.
Sound(l) ==
    \A p \in Periods : l[p] # None =>
        /\ l[p].ver <= srv[p].ver
        /\ l[p].open <=> l[p].ver = 1
        /\ l[p].old => Over(p)

\* The buffer lasts as long as a resync is in flight.
BufferInv == queue # None => Resyncs(fetches) # {}

IInv == TypeOK /\ RowInv /\ MessageInv /\ FetchInv /\ Sound(list) /\ BufferInv

\* The kiosk knows that the period is closed, or has forgotten it after nothing could show it.
Gone(l, p) == Tombstone(l[p]) \/ (l[p] = None /\ Over(p))

-----------------------------------------------------------------------------
(* The operators the actions are built from *)

\* Of messages with bounded versions one is the newest.
LEMMA NewestExists ==
    ASSUME NEW N \in Nat, NEW S, S # {}, \A m \in S : m.ver \in 0..N
    PROVE  Newest(S) \in S /\ \A n \in S : n.ver <= Newest(S).ver
<1> DEFINE T == {N - m.ver : m \in S}
<1>1. T \subseteq Nat /\ T # {}
  OBVIOUS
<1>2. PICK x \in T : \A y \in T : ~ (<<y, x>> \in OpToRel(<, Nat))
  BY <1>1, NatLessThanWellFounded, WFMin
<1>3. PICK m \in S : x = N - m.ver
  OBVIOUS
<1>4. ASSUME NEW n \in S PROVE n.ver <= m.ver
  <2>1. N - n.ver \in T /\ N - n.ver \in Nat /\ N - m.ver \in Nat
    BY <1>1
  <2>2. ~ (N - n.ver < N - m.ver)
    BY <1>2, <1>3, <2>1 DEF OpToRel
  <2>3. QED
    BY <2>2
<1>5. QED
  BY <1>4 DEF Newest

\* Messages leave an entry as it is or replace it by a newer one.
LEMMA ApplyFacts ==
    ASSUME NEW l, NEW S, NEW p \in Periods, NEW N \in Nat,
           \A m \in S : m.p = p => m.ver \in 0..N
    PROVE  \/ Apply(l, S)[p] = l[p]
           \/ \E m \in S : /\ m.p = p
                           /\ l[p] = None \/ l[p].ver < m.ver
                           /\ Apply(l, S)[p] = EntryOf(m)
<1>1. CASE Accepted(l, S, p) = {}
  BY <1>1 DEF Apply
<1>2. CASE Accepted(l, S, p) # {}
  <2>1. \A m \in Accepted(l, S, p) : m.ver \in 0..N
    BY DEF Accepted
  <2>2. Newest(Accepted(l, S, p)) \in Accepted(l, S, p)
    BY <1>2, <2>1, NewestExists
  <2>3. Apply(l, S)[p] = EntryOf(Newest(Accepted(l, S, p)))
    BY <1>2 DEF Apply
  <2>4. QED
    BY <2>2, <2>3 DEF Accepted, Newer
<1>3. QED
  BY <1>1, <1>2

LEMMA ApplyType ==
    ASSUME NEW l \in [Periods -> Entry \cup {None}], NEW S, Honest(S), TypeOK
    PROVE  Apply(l, S) \in [Periods -> Entry \cup {None}]
<1>1. ASSUME NEW p \in Periods PROVE Apply(l, S)[p] \in Entry \cup {None}
  <2>1. srv[p].ver \in Nat
    BY DEF TypeOK, Stored
  <2>2. \A m \in S : m.p = p => m.ver \in 0..srv[p].ver
    BY <2>1 DEF Honest, Message
  <2>3. \A m \in S : EntryOf(m) \in Entry
    BY DEF Honest, Message, EntryOf, Entry
  <2>4. QED
    BY <2>1, <2>2, <2>3, ApplyFacts
<1>2. Apply(l, S) = [p \in Periods |-> Apply(l, S)[p]]
  BY DEF Apply
<1>3. QED
  BY <1>1, <1>2

\* Messages leave the list sound, and what is gone stays gone.
LEMMA ApplySound ==
    ASSUME TypeOK, NEW l \in [Periods -> Entry \cup {None}], NEW S, Honest(S), Sound(l)
    PROVE  /\ Sound(Apply(l, S))
           /\ \A p \in Periods : (Over(p) => NoneOpen(S, p)) /\ Gone(l, p)
                                    => Gone(Apply(l, S), p)
<1> SUFFICES ASSUME NEW p \in Periods
             PROVE  /\ Apply(l, S)[p] # None =>
                          /\ Apply(l, S)[p].ver <= srv[p].ver
                          /\ Apply(l, S)[p].open <=> Apply(l, S)[p].ver = 1
                          /\ Apply(l, S)[p].old => Over(p)
                    /\ (Over(p) => NoneOpen(S, p)) /\ Gone(l, p) => Gone(Apply(l, S), p)
  BY DEF Sound
<1>1. srv[p].ver \in Nat
  BY DEF TypeOK, Stored
<1>2. \A m \in S : m.p = p => m.ver \in 0..srv[p].ver
  BY <1>1 DEF Honest, Message
<1>3. CASE Apply(l, S)[p] = l[p]
  BY <1>3 DEF Sound, Gone
<1>4. ASSUME NEW m \in S, m.p = p, l[p] = None \/ l[p].ver < m.ver, Apply(l, S)[p] = EntryOf(m)
      PROVE  /\ Apply(l, S)[p].ver <= srv[p].ver
             /\ Apply(l, S)[p].open <=> Apply(l, S)[p].ver = 1
             /\ ~Apply(l, S)[p].old
             /\ (Over(p) => NoneOpen(S, p)) /\ Gone(l, p) => Gone(Apply(l, S), p)
  <2>1. /\ Apply(l, S)[p].ver = m.ver /\ Apply(l, S)[p].open = m.open /\ ~Apply(l, S)[p].old
        /\ Apply(l, S)[p] \in Entry
    BY <1>4 DEF EntryOf, Honest, Message, Entry
  <2>2. m.ver \in Nat /\ 1 <= m.ver /\ m.ver <= srv[p].ver /\ (m.open <=> m.ver = 1)
    BY <1>4 DEF Honest, Message
  <2>3. ASSUME Over(p) => NoneOpen(S, p), Gone(l, p) PROVE ~m.open
    <3>1. CASE Tombstone(l[p])
      <4>1. l[p] \in Entry /\ l[p].ver # 1 /\ l[p].ver < m.ver
        BY <1>4, <3>1 DEF Tombstone, Sound
      <4>2. QED
        BY <2>2, <4>1 DEF Entry
    <3>2. CASE Over(p)
      BY <1>4, <2>3, <3>2 DEF NoneOpen
    <3>3. QED
      BY <2>3, <3>1, <3>2 DEF Gone
  <2>4. Apply(l, S)[p] # None
    BY <2>1, ConstantsAssumption DEF Entry
  <2>5. QED
    BY <2>1, <2>2, <2>3, <2>4 DEF Gone, Tombstone
<1>5. QED
  BY <1>1, <1>2, <1>3, <1>4, ApplyFacts

\* A snapshot whose rows were once true does the same.
LEMMA SnapshotSound ==
    ASSUME TypeOK, NEW l \in [Periods -> Entry \cup {None}], Sound(l),
           NEW f \in Fetch, \A p \in Periods : f.rows[p] <= 1 /\ f.rows[p] <= srv[p].ver
    PROVE  /\ ApplySnapshot(l, f) \in [Periods -> Entry \cup {None}]
           /\ Sound(ApplySnapshot(l, f))
           /\ \A p \in Periods : (Over(p) => f.rows[p] = 0) /\ Gone(l, p)
                                    => Gone(ApplySnapshot(l, f), p)
<1> SUFFICES ASSUME NEW p \in Periods
             PROVE  /\ ApplySnapshot(l, f)[p] \in Entry \cup {None}
                    /\ ApplySnapshot(l, f)[p] # None =>
                          /\ ApplySnapshot(l, f)[p].ver <= srv[p].ver
                          /\ ApplySnapshot(l, f)[p].open <=> ApplySnapshot(l, f)[p].ver = 1
                          /\ ApplySnapshot(l, f)[p].old => Over(p)
                    /\ (Over(p) => f.rows[p] = 0) /\ Gone(l, p) => Gone(ApplySnapshot(l, f), p)
  BY DEF Sound, ApplySnapshot
<1>1. f.rows[p] \in Nat /\ f.rows[p] <= 1 /\ f.rows[p] <= srv[p].ver /\ srv[p].ver \in Nat
  BY DEF Fetch, TypeOK, Stored
<1>2. CASE p \in Taken(l, f)
  <2>1. f.rows[p] = 1 /\ ~Wins(l, f, p)
    BY <1>1, <1>2 DEF Taken
  <2>2. ApplySnapshot(l, f)[p] = [ver |-> 1, open |-> TRUE, old |-> FALSE]
    BY <1>2, <2>1 DEF ApplySnapshot, EntryOf
  <2>3. ApplySnapshot(l, f)[p] \in Entry
    BY <2>2 DEF Entry
  <2>4. ~ ((Over(p) => f.rows[p] = 0) /\ Gone(l, p))
    <3>1. ~Tombstone(l[p])
      BY <2>1 DEF Wins, Tombstone, Entry
    <3>2. QED
      BY <2>1, <3>1 DEF Gone
  <2>5. QED
    BY <1>1, <2>1, <2>2, <2>3, <2>4
<1>3. CASE p \notin Taken(l, f) /\ (f.rows[p] > 0 \/ Survives(l, f, p))
  <2>1. ApplySnapshot(l, f)[p] = Pruned(l[p])
    BY <1>3 DEF ApplySnapshot
  <2>2. CASE Tombstone(l[p]) /\ l[p].old
    BY <2>1, <2>2 DEF Pruned, Gone, Sound, Tombstone
  <2>3. CASE ~(Tombstone(l[p]) /\ l[p].old)
    BY <2>1, <2>3 DEF Pruned, Gone, Sound
  <2>4. QED
    BY <2>2, <2>3
<1>4. CASE p \notin Taken(l, f) /\ ~(f.rows[p] > 0 \/ Survives(l, f, p))
  <2>1. ApplySnapshot(l, f)[p] = None
    BY <1>4 DEF ApplySnapshot
  <2>2. ~Tombstone(l[p])
    BY <1>4 DEF Survives
  <2>3. QED
    BY <2>1, <2>2 DEF Gone
<1>5. QED
  BY <1>2, <1>3, <1>4

-----------------------------------------------------------------------------
(* The fetches in flight *)

Answer == [p \in Periods |-> IF idx[p].open THEN idx[p].ver ELSE 0]

\* Every fetch of gs has the rows of one of fs, none yet, or those the index has now.
From(gs, fs) ==
    \A j \in DOMAIN gs : \/ gs[j].rows \in {NoRows, Answer}
                         \/ \E i \in DOMAIN fs : gs[j].rows = fs[i].rows

LEMMA FromTransitive ==
    ASSUME NEW a, NEW b, NEW c, From(a, b), From(b, c)
    PROVE  From(a, c)
BY DEF From

\* Stamping changes neither the rows nor the kind of a fetch.
LEMMA StampedFacts ==
    ASSUME NEW fs \in Seq(Fetch), NEW P \in SUBSET Periods
    PROVE  /\ Stamped(fs, P) \in Seq(Fetch)
           /\ From(Stamped(fs, P), fs)
           /\ Resyncs(Stamped(fs, P)) = Resyncs(fs)
<1> DEFINE gs == Stamped(fs, P)
<1>1. DOMAIN gs = DOMAIN fs /\ DOMAIN fs = 1..Len(fs) /\ Len(fs) \in Nat
  BY DEF Stamped
<1>2. ASSUME NEW i \in DOMAIN fs
      PROVE  gs[i] \in Fetch /\ gs[i].rows = fs[i].rows /\ gs[i].kind = fs[i].kind
  <2>1. fs[i] \in Fetch
    BY <1>1
  <2>2. gs[i] = [fs[i] EXCEPT !.since = @ \cup P]
    BY DEF Stamped
  <2>3. QED
    BY <2>1, <2>2 DEF Fetch
<1>3. gs \in Seq(Fetch)
  <2>1. gs \in [1..Len(fs) -> Fetch]
    BY <1>1, <1>2 DEF Stamped
  <2>2. QED
    BY <1>1, <2>1, IsASeq
<1>4. QED
  BY <1>1, <1>2, <1>3 DEF From, Resyncs

LEMMA StampedAsFacts ==
    ASSUME NEW fs \in Seq(Fetch), NEW n \in Nat, NEW P \in SUBSET Periods
    PROVE  /\ StampedAs(fs, n, P) \in Seq(Fetch)
           /\ DOMAIN StampedAs(fs, n, P) = DOMAIN fs
           /\ From(StampedAs(fs, n, P), fs)
           /\ Resyncs(StampedAs(fs, n, P)) = Resyncs(fs)
<1> DEFINE gs == StampedAs(fs, n, P)
<1>1. DOMAIN gs = DOMAIN fs /\ DOMAIN fs = 1..Len(fs) /\ Len(fs) \in Nat
  BY DEF StampedAs
<1>2. ASSUME NEW i \in DOMAIN fs
      PROVE  gs[i] \in Fetch /\ gs[i].rows = fs[i].rows /\ gs[i].kind = fs[i].kind
  <2>1. fs[i] \in Fetch
    BY <1>1
  <2>2. gs[i] = [fs[i] EXCEPT !.since = IF i < n THEN @ \cup P ELSE @ \ P]
    BY DEF StampedAs
  <2>3. QED
    BY <2>1, <2>2 DEF Fetch
<1>3. gs \in Seq(Fetch)
  <2>1. gs \in [1..Len(fs) -> Fetch]
    BY <1>1, <1>2 DEF StampedAs
  <2>2. QED
    BY <1>1, <2>1, IsASeq
<1>4. QED
  BY <1>1, <1>2, <1>3 DEF From, Resyncs

\* Without the fetch at position i the others are still there.
LEMMA RemoveAtPositions ==
    ASSUME NEW fs \in Seq(Fetch), NEW i \in DOMAIN fs
    PROVE  /\ RemoveAt(fs, i) \in Seq(Fetch)
           /\ Len(RemoveAt(fs, i)) = Len(fs) - 1
           /\ \A j \in 1..(Len(fs) - 1) :
                 RemoveAt(fs, i)[j] = IF j < i THEN fs[j] ELSE fs[j + 1]
<1>1. Len(fs) \in Nat /\ i \in 1..Len(fs)
  OBVIOUS
<1>2. PICK a : a = SubSeq(fs, 1, i - 1)
  OBVIOUS
<1>3. PICK b : b = SubSeq(fs, i + 1, Len(fs))
  OBVIOUS
<1>4. a \in Seq(Fetch) /\ Len(a) = i - 1 /\ \A j \in 1..(i - 1) : a[j] = fs[j]
  <2>1. \A j \in 1..(i - 1) : fs[j] \in Fetch
    BY <1>1
  <2>2. /\ a \in Seq(Fetch) /\ Len(a) = IF 1 <= i - 1 THEN i - 1 - 1 + 1 ELSE 0
        /\ \A j \in 1..(i - 1 - 1 + 1) : a[j] = fs[1 + j - 1]
    BY <1>1, <1>2, <2>1, SubSeqProperties
  <2>3. QED
    BY <1>1, <2>2
<1>5. /\ b \in Seq(Fetch) /\ Len(b) = Len(fs) - i
      /\ \A j \in 1..(Len(fs) - i) : b[j] = fs[i + j]
  <2>1. \A j \in (i + 1)..Len(fs) : fs[j] \in Fetch
    BY <1>1
  <2>2. /\ b \in Seq(Fetch)
        /\ Len(b) = IF i + 1 <= Len(fs) THEN Len(fs) - (i + 1) + 1 ELSE 0
        /\ \A j \in 1..(Len(fs) - (i + 1) + 1) : b[j] = fs[i + 1 + j - 1]
    BY <1>1, <1>3, <2>1, SubSeqProperties
  <2>3. QED
    BY <1>1, <2>2
<1>6. RemoveAt(fs, i) = a \o b
  BY <1>2, <1>3 DEF RemoveAt
<1>7. /\ a \o b \in Seq(Fetch) /\ Len(a \o b) = Len(a) + Len(b)
      /\ \A j \in 1..(Len(a) + Len(b)) :
            (a \o b)[j] = IF j <= Len(a) THEN a[j] ELSE b[j - Len(a)]
  BY <1>4, <1>5, ConcatProperties
<1>8. ASSUME NEW j \in 1..(Len(fs) - 1)
      PROVE  (a \o b)[j] = IF j < i THEN fs[j] ELSE fs[j + 1]
  <2>1. CASE j < i
    <3>1. Len(a) = i - 1 /\ Len(b) = Len(fs) - i
      BY <1>4, <1>5
    <3>2. j \in 1..(Len(a) + Len(b)) /\ j <= Len(a) /\ j \in 1..(i - 1)
      BY <1>1, <2>1, <3>1
    <3>3. (a \o b)[j] = a[j]
      BY <1>7, <3>2
    <3>4. QED
      BY <1>4, <2>1, <3>2, <3>3
  <2>2. CASE ~(j < i)
    <3>1. j - (i - 1) \in 1..(Len(fs) - i) /\ i + (j - (i - 1)) = j + 1
      BY <1>1, <2>2
    <3>2. (a \o b)[j] = b[j - (i - 1)]
      <4>1. Len(a) = i - 1 /\ Len(b) = Len(fs) - i
        BY <1>4, <1>5
      <4>2. j \in 1..(Len(a) + Len(b)) /\ ~(j <= Len(a))
        BY <1>1, <2>2, <4>1
      <4>3. (a \o b)[j] = b[j - Len(a)]
        BY <1>7, <4>2
      <4>4. QED
        BY <4>1, <4>3
    <3>3. QED
      BY <1>5, <2>2, <3>1, <3>2
  <2>3. QED
    BY <2>1, <2>2
<1>9. Len(a \o b) = Len(fs) - 1
  <2>1. Len(a) = i - 1 /\ Len(b) = Len(fs) - i /\ Len(a \o b) = Len(a) + Len(b)
    BY <1>4, <1>5, <1>7
  <2>2. QED
    BY <1>1, <2>1
<1>10. a \o b \in Seq(Fetch)
  BY <1>7
<1>11. QED
  BY <1>6, <1>8, <1>9, <1>10

LEMMA RemoveAtFacts ==
    ASSUME NEW fs \in Seq(Fetch), NEW i \in DOMAIN fs
    PROVE  /\ RemoveAt(fs, i) \in Seq(Fetch)
           /\ From(RemoveAt(fs, i), fs)
           /\ \A k \in Resyncs(fs) : k # i => Resyncs(RemoveAt(fs, i)) # {}
<1>1. PICK gs : gs = RemoveAt(fs, i)
  OBVIOUS
<1>2. DOMAIN fs = 1..Len(fs) /\ Len(fs) \in Nat /\ i \in 1..Len(fs)
  OBVIOUS
<1>3. /\ gs \in Seq(Fetch) /\ DOMAIN gs = 1..(Len(fs) - 1)
      /\ \A j \in 1..(Len(fs) - 1) : gs[j] = IF j < i THEN fs[j] ELSE fs[j + 1]
  BY <1>1, RemoveAtPositions
<1>4. From(gs, fs)
  <2> SUFFICES ASSUME NEW j \in DOMAIN gs
               PROVE  \E k \in DOMAIN fs : gs[j].rows = fs[k].rows
    BY DEF From
  <2>1. j \in DOMAIN fs /\ j + 1 \in DOMAIN fs
    BY <1>2, <1>3
  <2>2. gs[j] = fs[j] \/ gs[j] = fs[j + 1]
    BY <1>3
  <2>3. QED
    BY <2>1, <2>2
<1>5. ASSUME NEW k \in Resyncs(fs), k # i PROVE Resyncs(gs) # {}
  <2>1. k \in 1..Len(fs) /\ fs[k].kind = "resync"
    BY <1>2, <1>5 DEF Resyncs
  <2>2. CASE k < i
    <3>1. k \in DOMAIN gs /\ gs[k] = fs[k]
      BY <1>2, <1>3, <2>1, <2>2
    <3>2. QED
      BY <2>1, <3>1 DEF Resyncs
  <2>3. CASE k > i
    <3>1. k - 1 \in 1..(Len(fs) - 1) /\ ~(k - 1 < i) /\ k - 1 + 1 = k
      BY <1>2, <2>1, <2>3
    <3>2. k - 1 \in DOMAIN gs /\ gs[k - 1] = fs[k]
      BY <1>3, <3>1
    <3>3. QED
      BY <2>1, <3>2 DEF Resyncs
  <2>4. QED
    BY <1>2, <1>5, <2>1, <2>2, <2>3
<1>6. QED
  BY <1>1, <1>3, <1>4, <1>5

\* A new fetch has no rows yet.
LEMMA AppendFacts ==
    ASSUME NEW fs \in Seq(Fetch), NEW kind \in {"poll", "resync"}
    PROVE  LET gs == Append(fs, NewFetch(kind)) IN
           /\ gs \in Seq(Fetch)
           /\ From(gs, fs)
           /\ Resyncs(fs) # {} \/ kind = "resync" => Resyncs(gs) # {}
<1> DEFINE gs == Append(fs, NewFetch(kind))
<1>1. NewFetch(kind) \in Fetch /\ NewFetch(kind).rows = NoRows /\ NewFetch(kind).kind = kind
  BY DEF NewFetch, Fetch, NoRows
<1>2. /\ gs \in Seq(Fetch) /\ DOMAIN gs = 1..(Len(fs) + 1) /\ Len(fs) \in Nat
      /\ DOMAIN fs = 1..Len(fs)
      /\ gs[Len(fs) + 1] = NewFetch(kind) /\ \A i \in 1..Len(fs) : gs[i] = fs[i]
  BY <1>1
<1> HIDE DEF gs
<1>3. From(gs, fs)
  <2> SUFFICES ASSUME NEW j \in DOMAIN gs
               PROVE  gs[j].rows = NoRows \/ \E i \in DOMAIN fs : gs[j].rows = fs[i].rows
    BY DEF From
  <2>1. j = Len(fs) + 1 \/ j \in DOMAIN fs
    BY <1>2
  <2>2. QED
    BY <1>1, <1>2, <2>1
<1>4. Resyncs(fs) # {} \/ kind = "resync" => Resyncs(gs) # {}
  BY <1>1, <1>2 DEF Resyncs
<1>5. QED
  BY <1>2, <1>3, <1>4 DEF gs

-----------------------------------------------------------------------------
(* The steps of a kiosk and of the channel: the rows stay as they are *)

\* What is under way is what was under way before, or a query of the index.
KioskStep ==
    /\ UNCHANGED server
    /\ net' \subseteq net /\ replies' \subseteq replies
    /\ queue' # None => /\ Honest(queue')
                        /\ \A p \in Periods : Over(p) => NoneOpen(queue', p)
    /\ fetches' \in Seq(Fetch) /\ From(fetches', fetches)

\* A list that the steps may lead to.
Follows(l) ==
    /\ l \in [Periods -> Entry \cup {None}] /\ Sound(l)
    /\ \A p \in Periods : Gone(list, p) => Gone(l, p)

\* The invariant holds after the step, and what is over or gone stays so.
Preserved ==
    /\ IInv'
    /\ \A p \in Periods : /\ Over(p) => Over(p)'
                          /\ Gone(list, p) => Gone(list, p)'

\* The variables no other part of the invariant is about.
LinkType ==
    /\ mode \in {"connecting", "unavailable", "ready"}
    /\ chan \in {"new", "attaching", "attached", "down"}
    /\ connected \in BOOLEAN /\ polling \in BOOLEAN /\ live \in BOOLEAN
    /\ covered \in BOOLEAN
    /\ failures \in Nat /\ drops \in Nat

LEMMA FromFacts ==
    ASSUME TypeOK, RowInv, FetchInv, NEW gs, From(gs, fetches), NEW j \in DOMAIN gs, NEW p \in Periods
    PROVE  /\ gs[j].rows[p] <= 1 /\ gs[j].rows[p] <= srv[p].ver
           /\ ~idx[p].open /\ NotFetched(fetches, p) => gs[j].rows[p] = 0
<1>1. /\ idx[p].ver \in Nat /\ srv[p].ver \in Nat
      /\ idx[p].open => idx[p].ver = 1
      /\ idx[p].ver <= srv[p].ver
  BY DEF TypeOK, Stored, RowInv
<1>2. CASE gs[j].rows = NoRows
  BY <1>1, <1>2 DEF NoRows
<1>3. CASE gs[j].rows = Answer
  BY <1>1, <1>3 DEF Answer
<1>4. CASE \E i \in DOMAIN fetches : gs[j].rows = fetches[i].rows
  BY <1>4 DEF FetchInv, NotFetched
<1>5. QED
  BY <1>2, <1>3, <1>4 DEF From

LEMMA KioskStepPreserves ==
    ASSUME IInv, KioskStep, Follows(list'), BufferInv', LinkType',
           queue' = None \/ queue' \subseteq Message
    PROVE  Preserved
<1>1. ASSUME NEW p \in Periods, Over(p) PROVE Over(p)'
  <2>1. NotFetched(fetches', p)
    BY <1>1, FromFacts DEF IInv, KioskStep, Over, NotFetched
  <2>2. QED
    BY <1>1, <2>1 DEF KioskStep, Over, NoneOpen, NotFetched, server
<1>2. TypeOK'
  BY DEF IInv, TypeOK, KioskStep, Follows, LinkType, server
<1>3. RowInv'
  BY DEF IInv, KioskStep, RowInv, server
<1>4. MessageInv'
  BY DEF IInv, KioskStep, MessageInv, Honest, server
<1>5. FetchInv'
  BY FromFacts DEF IInv, KioskStep, FetchInv, server
<1>6. Sound(list)'
  BY <1>1 DEF Follows, Sound, KioskStep, server
<1>7. \A p \in Periods : Gone(list, p) => Gone(list, p)'
  BY <1>1 DEF Follows, Gone
<1>8. QED
  BY <1>1, <1>2, <1>3, <1>4, <1>5, <1>6, <1>7 DEF IInv, Preserved

\* A list may stay as it is, take in messages, or take in a snapshot.
LEMMA FollowsSame ==
    ASSUME IInv
    PROVE  Follows(list)
BY DEF Follows, IInv, TypeOK

LEMMA FollowsMessages ==
    ASSUME IInv, NEW l, Follows(l), NEW S, Honest(S),
           \A p \in Periods : Over(p) => NoneOpen(S, p)
    PROVE  Follows(Apply(l, S))
BY ApplyType, ApplySound DEF Follows, IInv

LEMMA FollowsSnapshot ==
    ASSUME IInv, NEW i \in DOMAIN fetches
    PROVE  Follows(ApplySnapshot(list, fetches[i]))
<1>1. fetches[i] \in Fetch
  BY DEF IInv, TypeOK
<1>2. \A p \in Periods : fetches[i].rows[p] <= 1 /\ fetches[i].rows[p] <= srv[p].ver
  BY DEF IInv, FetchInv
<1>3. \A p \in Periods : Over(p) => fetches[i].rows[p] = 0
  BY DEF Over, NotFetched
<1>4. QED
  BY <1>1, <1>2, <1>3, SnapshotSound DEF Follows, IInv, TypeOK

LEMMA ReplayedFacts ==
    ASSUME IInv, NEW fs
    PROVE  /\ Honest(Replayed(fs))
           /\ \A p \in Periods : Over(p) => NoneOpen(Replayed(fs), p)
BY DEF Replayed, IInv, MessageInv, Honest, Over, NoneOpen

\* The buffer and the fetches are left alone, or a fetch is added.
LEMMA QueueFacts ==
    ASSUME IInv
    PROVE  /\ queue = None \/ queue \subseteq Message
           /\ queue # None => /\ Honest(queue)
                              /\ \A p \in Periods : Over(p) => NoneOpen(queue, p)
           /\ fetches \in Seq(Fetch) /\ From(fetches, fetches)
BY DEF IInv, TypeOK, MessageInv, Over, From

-----------------------------------------------------------------------------
(* The server's steps *)

LEMMA WritePreserves ==
    ASSUME IInv, NEW p \in Periods, Write(p)
    PROVE  Preserved
<1>1. UNCHANGED <<list, queue, fetches, link, covered, used>>
  BY DEF Write
<1>2. \A q \in Periods : srv[q].ver \in Nat /\ idx[q].ver \in Nat /\ (srv[q].open => srv[q].ver = 1)
                         /\ (idx[q].open => idx[q].ver = 1) /\ idx[q].ver <= srv[q].ver
  BY DEF IInv, TypeOK, RowInv, Stored
<1>3. /\ srv' \in [Periods -> Stored]
      /\ srv'[p].ver = srv[p].ver + 1 /\ (srv'[p].open <=> srv'[p].ver = 1)
      /\ \A q \in Periods : q # p => srv'[q] = srv[q]
  <2>1. srv \in [Periods -> Stored] /\ srv[p] \in Stored
    BY DEF IInv, TypeOK
  <2>2. CASE Started(p)
    BY <1>2, <2>1, <2>2 DEF Started, Stored
  <2>3. CASE Ended(p)
    <3>1. srv[p].ver \in Nat /\ 1 <= srv[p].ver
      BY <1>2, <2>3 DEF Ended
    <3>2. srv'[p] = [ver |-> srv[p].ver + 1, open |-> FALSE] /\ srv'[p] \in Stored
      BY <2>1, <2>3, <3>1 DEF Ended, Stored
    <3>3. QED
      BY <2>1, <2>3, <3>1, <3>2 DEF Ended
  <2>4. QED
    BY <2>2, <2>3 DEF Write
<1>4. \A q \in Periods : srv[q].ver <= srv'[q].ver /\ srv'[q].ver \in Nat
                         /\ (srv'[q].open => srv'[q].ver = 1)
  <2> TAKE q \in Periods
  <2>1. CASE q = p
    BY <1>2, <1>3, <2>1
  <2>2. CASE q # p
    BY <1>2, <1>3, <2>2
  <2>3. QED
    BY <2>1, <2>2
<1>5. idx' = idx \/ idx' = srv'
  BY DEF Write
<1> DEFINE m == [p |-> p, ver |-> srv'[p].ver, open |-> srv'[p].open]
<1>6. net' \subseteq net \cup {m} /\ replies' \subseteq replies \cup {m}
  BY DEF Write
<1>7. m \in Message /\ m.p = p /\ 1 <= m.ver /\ m.ver = srv'[p].ver /\ (m.open <=> m.ver = 1)
  <2>1. srv'[p] \in Stored
    BY <1>3
  <2>2. QED
    BY <1>2, <1>3, <2>1 DEF Message, Stored
<1> HIDE DEF m
<1>8. TypeOK'
  <2>1. idx' \in [Periods -> Stored] /\ net' \subseteq Message /\ replies' \subseteq Message
    BY <1>3, <1>5, <1>6, <1>7 DEF IInv, TypeOK
  <2>2. QED
    BY <1>1, <1>3, <2>1 DEF IInv, TypeOK, link, used
<1>9. RowInv'
  <2> SUFFICES ASSUME NEW q \in Periods
               PROVE  (idx'[q].open => idx'[q].ver = 1) /\ idx'[q].ver <= srv'[q].ver
    BY <1>4 DEF RowInv
  <2>1. CASE idx' = idx
    BY <1>2, <1>4, <2>1
  <2>2. CASE idx' = srv'
    BY <1>4, <2>2
  <2>3. QED
    BY <1>5, <2>1, <2>2
<1>10. MessageInv'
  <2> DEFINE Fine(n) == /\ n \in Message
                        /\ 1 <= n.ver /\ n.ver <= srv'[n.p].ver
                        /\ n.open <=> n.ver = 1
  <2>1. ASSUME NEW n, n \in Message, 1 <= n.ver, n.ver <= srv[n.p].ver, n.open <=> n.ver = 1
        PROVE  Fine(n)
    <3>1. n.p \in Periods /\ n.ver \in Nat
      BY <2>1 DEF Message
    <3>2. QED
      BY <1>2, <1>4, <2>1, <3>1
  <2>2. Fine(m)
    BY <1>4, <1>7
  <2>3. /\ \A n \in net : Fine(n)
        /\ \A n \in replies : Fine(n)
        /\ queue # None => \A n \in queue : Fine(n)
    BY <2>1 DEF IInv, MessageInv, Honest
  <2> HIDE DEF Fine
  <2>4. (\A n \in net' : Fine(n)) /\ (\A n \in replies' : Fine(n))
    BY <1>6, <2>2, <2>3
  <2>5. QED
    BY <1>1, <2>3, <2>4 DEF Fine, MessageInv, Honest
<1>11. FetchInv'
  <2> SUFFICES ASSUME NEW i \in DOMAIN fetches, NEW q \in Periods
               PROVE  fetches[i].rows[q] <= 1 /\ fetches[i].rows[q] <= srv'[q].ver
    BY <1>1 DEF FetchInv
  <2>1. fetches[i].rows[q] \in Nat
    <3>1. fetches[i] \in Fetch
      BY DEF IInv, TypeOK
    <3>2. QED
      BY <3>1 DEF Fetch
  <2>2. fetches[i].rows[q] <= 1 /\ fetches[i].rows[q] <= srv[q].ver
    BY DEF IInv, FetchInv
  <2>3. QED
    BY <1>2, <1>4, <2>1, <2>2
<1>12. ASSUME NEW q \in Periods, Over(q) PROVE Over(q)'
  <2>1. 1 < srv[q].ver /\ ~idx[q].open
    BY <1>12 DEF Over
  <2>2. 1 < srv'[q].ver /\ ~srv'[q].open
    BY <1>2, <1>4, <2>1
  <2>3. ~idx'[q].open
    BY <1>5, <2>1, <2>2
  <2>4. ASSUME NEW n \in {m}, n.p = q PROVE ~n.open
    BY <1>7, <2>2, <2>4
  <2>5. NoneOpen(net', q) /\ NoneOpen(replies', q)
    BY <1>6, <1>12, <2>4 DEF Over, NoneOpen
  <2>6. QED
    BY <1>1, <1>12, <2>2, <2>3, <2>5 DEF Over, NoneOpen, NotFetched
<1>13. Sound(list)'
  <2> SUFFICES ASSUME NEW q \in Periods, list[q] # None
               PROVE  /\ list[q].ver <= srv'[q].ver
                      /\ list[q].open <=> list[q].ver = 1
                      /\ list[q].old => Over(q)'
    BY <1>1 DEF Sound
  <2>1. list[q].ver \in Nat /\ list[q].ver <= srv[q].ver
    BY DEF IInv, TypeOK, Sound, Entry
  <2>2. QED
    BY <1>2, <1>4, <1>12, <2>1 DEF IInv, Sound
<1>14. BufferInv'
  BY <1>1 DEF IInv, BufferInv, Resyncs
<1>15. \A q \in Periods : Gone(list, q) => Gone(list, q)'
  BY <1>1, <1>12 DEF Gone, Tombstone
<1>16. QED
  BY <1>8, <1>9, <1>10, <1>11, <1>12, <1>13, <1>14, <1>15 DEF IInv, Preserved

LEMMA ReplicatePreserves ==
    ASSUME IInv, NEW p \in Periods, Replicate(p)
    PROVE  Preserved
<1>1. UNCHANGED <<srv, net, replies, list, queue, fetches, link, covered, used>>
  BY DEF Replicate
<1>2. \A q \in Periods : idx'[q] = idx[q] \/ idx'[q] = srv[q]
  BY DEF Replicate, IInv, TypeOK
<1>3. idx' \in [Periods -> Stored]
  BY DEF Replicate, IInv, TypeOK
<1>4. \A q \in Periods : srv[q].ver \in Nat
  BY DEF IInv, TypeOK, Stored
<1>5. TypeOK'
  BY <1>1, <1>3 DEF IInv, TypeOK, link, used
<1>6. RowInv'
  BY <1>1, <1>2, <1>4 DEF IInv, RowInv
<1>7. MessageInv' /\ FetchInv' /\ BufferInv'
  BY <1>1 DEF IInv, MessageInv, Honest, FetchInv, BufferInv, Resyncs
<1>8. ASSUME NEW q \in Periods, Over(q) PROVE Over(q)'
  <2>1. ~idx'[q].open
    BY <1>2, <1>4, <1>8 DEF Over, IInv, RowInv
  <2>2. QED
    BY <1>1, <1>8, <2>1 DEF Over, NoneOpen, NotFetched
<1>9. Sound(list)' /\ \A q \in Periods : Gone(list, q) => Gone(list, q)'
  BY <1>1, <1>8 DEF IInv, Sound, Gone, Tombstone
<1>10. QED
  BY <1>5, <1>6, <1>7, <1>8, <1>9 DEF IInv, Preserved

-----------------------------------------------------------------------------
(* Messages and results reach the kiosk *)

LEMMA DeliverPreserves ==
    ASSUME IInv, NEW m \in net, NEW again \in BOOLEAN, Deliver(m, again)
    PROVE  Preserved
<1>1. UNCHANGED <<server, replies, link, covered, used>> /\ net' \subseteq net
  BY DEF Deliver
<1>2. PICK v \in IF m.open THEN {m.ver} ELSE (m.ver)..(srv[m.p].ver) :
          LET heard == [m EXCEPT !.ver = v] IN
          IF queue # None
          THEN queue' = queue \cup {heard} /\ UNCHANGED <<list, fetches>>
          ELSE Hear({heard}) /\ UNCHANGED queue
  BY DEF Deliver
<1> DEFINE heard == [m EXCEPT !.ver = v]
<1>3. /\ m \in Message /\ 1 <= m.ver /\ m.ver <= srv[m.p].ver /\ (m.open <=> m.ver = 1)
      /\ m.ver \in Nat /\ m.p \in Periods /\ srv[m.p].ver \in Nat
  BY DEF IInv, TypeOK, MessageInv, Honest, Message, Stored
<1>4. v \in Nat /\ m.ver <= v /\ v <= srv[m.p].ver /\ (m.open <=> v = 1)
  BY <1>3
<1>5. /\ heard \in Message /\ heard.p = m.p /\ heard.ver = v /\ heard.open = m.open
  BY <1>3, <1>4 DEF Message
<1> HIDE DEF heard
<1>6. Honest({heard})
  BY <1>3, <1>4, <1>5 DEF Honest
<1>7. \A p \in Periods : Over(p) => NoneOpen({heard}, p)
  BY <1>5 DEF Over, NoneOpen
<1>8. CASE queue # None
  <2>1. queue' = queue \cup {heard} /\ UNCHANGED <<list, fetches>>
    BY <1>2, <1>8 DEF heard
  <2>2. /\ queue' \subseteq Message /\ Honest(queue')
        /\ \A p \in Periods : Over(p) => NoneOpen(queue', p)
    BY <1>5, <1>6, <1>7, <1>8, <2>1, QueueFacts DEF Honest, NoneOpen
  <2>3. KioskStep
    BY <1>1, <2>1, <2>2, QueueFacts DEF KioskStep
  <2>4. Follows(list')
    BY <2>1, FollowsSame
  <2>5. BufferInv' /\ LinkType'
    BY <1>1, <1>8, <2>1 DEF IInv, BufferInv, Resyncs, TypeOK, LinkType, link, used
  <2>6. QED
    BY <2>2, <2>3, <2>4, <2>5, KioskStepPreserves
<1>9. CASE queue = None
  <2>1. Hear({heard}) /\ queue' = None
    BY <1>2, <1>9 DEF heard
  <2>2. fetches' \in Seq(Fetch) /\ From(fetches', fetches)
    BY <2>1, QueueFacts, StampedFacts DEF Hear, Touched
  <2>3. KioskStep
    BY <1>1, <2>1, <2>2 DEF KioskStep
  <2>4. Follows(list')
    BY <1>6, <1>7, <2>1, FollowsSame, FollowsMessages DEF Hear
  <2>5. BufferInv' /\ LinkType'
    BY <1>1, <2>1 DEF IInv, BufferInv, TypeOK, LinkType, link, used
  <2>6. QED
    BY <2>1, <2>3, <2>4, <2>5, KioskStepPreserves
<1>10. QED
  BY <1>8, <1>9

LEMMA OwnResultPreserves ==
    ASSUME IInv, NEW m \in replies, OwnResult(m)
    PROVE  Preserved
<1>1. /\ UNCHANGED <<server, net, queue, link, covered, used>> /\ replies' \subseteq replies
      /\ Hear({m})
  BY DEF OwnResult
<1>2. Honest({m}) /\ \A p \in Periods : Over(p) => NoneOpen({m}, p)
  BY DEF IInv, MessageInv, Honest, Over, NoneOpen
<1>3. fetches' \in Seq(Fetch) /\ From(fetches', fetches) /\ Resyncs(fetches') = Resyncs(fetches)
  BY <1>1, QueueFacts, StampedFacts DEF Hear, Touched
<1>4. KioskStep
  BY <1>1, <1>3, QueueFacts DEF KioskStep
<1>5. Follows(list')
  BY <1>1, <1>2, FollowsSame, FollowsMessages DEF Hear
<1>6. BufferInv' /\ LinkType'
  <2>1. BufferInv'
    BY <1>1, <1>3 DEF IInv, BufferInv, Resyncs
  <2>2. LinkType'
    BY <1>1 DEF IInv, TypeOK, LinkType, link, used
  <2>3. QED
    BY <2>1, <2>2
<1>7. QED
  BY <1>1, <1>4, <1>5, <1>6, KioskStepPreserves, QueueFacts

LEMMA LosePreserves ==
    ASSUME IInv, NEW m \in net, Lose(m)
    PROVE  Preserved
<1>1. /\ UNCHANGED <<server, replies, list, queue, fetches, link, covered, used>>
      /\ net' \subseteq net
  BY DEF Lose
<1>2. KioskStep /\ Follows(list')
  BY <1>1, QueueFacts, FollowsSame DEF KioskStep
<1>3. BufferInv' /\ LinkType'
  BY <1>1 DEF IInv, BufferInv, Resyncs, TypeOK, LinkType, link, used
<1>4. QED
  BY <1>1, <1>2, <1>3, KioskStepPreserves, QueueFacts

-----------------------------------------------------------------------------
(* Snapshots *)

LEMMA PollPreserves ==
    ASSUME IInv, Poll
    PROVE  Preserved
<1>1. /\ UNCHANGED <<server, net, replies, list, queue, link, covered, used>>
      /\ fetches' = Append(fetches, NewFetch("poll"))
  BY DEF Poll
<1>2. /\ fetches' \in Seq(Fetch) /\ From(fetches', fetches)
      /\ Resyncs(fetches) # {} => Resyncs(fetches') # {}
  BY <1>1, QueueFacts, AppendFacts
<1>3. KioskStep /\ Follows(list')
  BY <1>1, <1>2, QueueFacts, FollowsSame DEF KioskStep
<1>4. BufferInv'
  BY <1>1, <1>2 DEF IInv, BufferInv, Resyncs
<1>5. LinkType'
  BY <1>1 DEF IInv, TypeOK, LinkType, link, used
<1>6. QED
  BY <1>1, <1>3, <1>4, <1>5, KioskStepPreserves, QueueFacts

\* The common part of the actions that start a resync.
LEMMA ResyncFacts ==
    ASSUME IInv, Resync, UNCHANGED <<server, net, replies, list>>
    PROVE  /\ KioskStep /\ Follows(list') /\ BufferInv'
           /\ queue' = None \/ queue' \subseteq Message
<1>1. /\ fetches' = Append(fetches, NewFetch("resync"))
      /\ queue' = IF queue = None THEN {} ELSE queue
  BY DEF Resync
<1>2. fetches' \in Seq(Fetch) /\ From(fetches', fetches) /\ Resyncs(fetches') # {}
  BY <1>1, QueueFacts, AppendFacts
<1>3. /\ queue' \subseteq Message /\ Honest(queue')
      /\ \A p \in Periods : Over(p) => NoneOpen(queue', p)
  BY <1>1, QueueFacts DEF Honest, NoneOpen
<1>4. KioskStep /\ Follows(list')
  BY <1>2, <1>3, FollowsSame DEF KioskStep
<1>5. BufferInv'
  BY <1>2 DEF BufferInv, Resyncs
<1>6. QED
  BY <1>3, <1>4, <1>5

LEMMA ResyncTimerPreserves ==
    ASSUME IInv, ResyncTimer
    PROVE  Preserved
<1>1. Resync /\ UNCHANGED <<server, net, replies, list, link, covered, used>>
  BY DEF ResyncTimer
<1>2. LinkType'
  BY <1>1 DEF IInv, TypeOK, LinkType, link, used
<1>3. QED
  BY <1>1, <1>2, ResyncFacts, KioskStepPreserves

LEMMA ReadSnapshotPreserves ==
    ASSUME IInv, NEW i \in DOMAIN fetches, ReadSnapshot(i)
    PROVE  Preserved
<1>1. UNCHANGED <<server, net, replies, list, queue, link, covered, used>>
  BY DEF ReadSnapshot
<1>2. fetches \in Seq(Fetch) /\ DOMAIN fetches = 1..Len(fetches) /\ Len(fetches) \in Nat
  BY DEF IInv, TypeOK
<1>3. Answer \in [Periods -> Nat]
  BY DEF IInv, TypeOK, Stored, Answer
<1>4. fetches' = [fetches EXCEPT ![i] =
                      [fetches[i] EXCEPT !.read = TRUE, !.stale = Stale(i), !.rows = Answer]]
  BY DEF ReadSnapshot, Answer
<1>5. /\ DOMAIN fetches' = DOMAIN fetches
      /\ \A j \in DOMAIN fetches : j # i => fetches'[j] = fetches[j]
      /\ fetches'[i] = [fetches[i] EXCEPT !.read = TRUE, !.stale = Stale(i), !.rows = Answer]
  BY <1>4
<1>6. fetches[i] \in Fetch /\ Stale(i) \in SUBSET Periods
  BY <1>2 DEF Stale
<1>7. /\ fetches'[i] \in Fetch /\ fetches'[i].rows = Answer
      /\ fetches'[i].kind = fetches[i].kind
  BY <1>3, <1>5, <1>6 DEF Fetch
<1>8. fetches' \in Seq(Fetch)
  <2>1. \A j \in 1..Len(fetches) : fetches[j] \in Fetch
    BY <1>2
  <2>2. fetches' \in [1..Len(fetches) -> Fetch]
    BY <1>2, <1>4, <1>5, <1>7, <2>1
  <2>3. QED
    BY <1>2, <2>2, IsASeq
<1>9. From(fetches', fetches)
  BY <1>5, <1>7 DEF From
<1>10. Resyncs(fetches) = Resyncs(fetches')
  BY <1>5, <1>7 DEF Resyncs
<1>11. KioskStep /\ Follows(list')
  BY <1>1, <1>8, <1>9, QueueFacts, FollowsSame DEF KioskStep
<1>12. BufferInv'
  BY <1>1, <1>10 DEF IInv, BufferInv, Resyncs
<1>13. LinkType'
  BY <1>1 DEF IInv, TypeOK, LinkType, link, used
<1>14. QED
  BY <1>1, <1>11, <1>12, <1>13, KioskStepPreserves, QueueFacts

LEMMA RestFacts ==
    ASSUME IInv, NEW i \in DOMAIN fetches
    PROVE  /\ Rest(i) \in Seq(Fetch) /\ From(Rest(i), fetches)
           /\ fetches[i].kind = "poll" /\ Resyncs(fetches) # {} => Resyncs(Rest(i)) # {}
<1> DEFINE P == Taken(list, fetches[i])
           fs == StampedAs(fetches, i, P)
<1>1. i \in Nat /\ P \in SUBSET Periods
  BY DEF IInv, TypeOK, Taken
<1>2. /\ fs \in Seq(Fetch) /\ DOMAIN fs = DOMAIN fetches /\ From(fs, fetches)
      /\ Resyncs(fs) = Resyncs(fetches)
  BY <1>1, QueueFacts, StampedAsFacts
<1>3. Rest(i) = RemoveAt(fs, i)
  BY DEF Rest
<1> HIDE DEF fs
<1>4. /\ Rest(i) \in Seq(Fetch) /\ From(Rest(i), fs)
      /\ \A k \in Resyncs(fs) : k # i => Resyncs(Rest(i)) # {}
  BY <1>2, <1>3, RemoveAtFacts
<1>5. From(Rest(i), fetches)
  BY <1>2, <1>4, FromTransitive
<1>6. fetches[i].kind = "poll" => i \notin Resyncs(fetches)
  BY DEF Resyncs
<1>7. QED
  BY <1>2, <1>4, <1>5, <1>6

LEMMA PollArrivesPreserves ==
    ASSUME IInv, NEW i \in DOMAIN fetches, PollArrives(i)
    PROVE  Preserved
<1>1. /\ UNCHANGED <<server, net, replies, queue, link, used>> /\ covered' = TRUE
      /\ list' = ApplySnapshot(list, fetches[i]) /\ fetches' = Rest(i)
      /\ fetches[i].kind = "poll"
  BY DEF PollArrives
<1>2. KioskStep /\ Follows(list')
  BY <1>1, QueueFacts, RestFacts, FollowsSnapshot DEF KioskStep
<1>3. BufferInv'
  BY <1>1, RestFacts DEF IInv, BufferInv, Resyncs
<1>4. LinkType'
  BY <1>1 DEF IInv, TypeOK, LinkType, link, used
<1>5. QED
  BY <1>1, <1>2, <1>3, <1>4, KioskStepPreserves, QueueFacts

LEMMA ResyncArrivesPreserves ==
    ASSUME IInv, NEW i \in DOMAIN fetches, ResyncArrives(i)
    PROVE  Preserved
<1> DEFINE l == ApplySnapshot(list, fetches[i])
           S == Replayed(Rest(i))
<1>1. /\ UNCHANGED <<server, net, replies, mode, chan, connected, used>> /\ covered' = TRUE
      /\ list' = Apply(l, S) /\ fetches' = Stamped(Rest(i), Touched(l, S))
      /\ queue' = IF Flushes(Rest(i)) THEN None ELSE queue
      /\ polling' = (polling /\ ~Settles) /\ live' = (live \/ Settles)
  BY DEF ResyncArrives
<1>2. Follows(list')
  BY <1>1, FollowsSnapshot, ReplayedFacts, FollowsMessages
<1>3. Touched(l, S) \in SUBSET Periods
  BY DEF Touched
<1> HIDE DEF l, S
<1>4. /\ fetches' \in Seq(Fetch) /\ From(fetches', Rest(i))
      /\ Resyncs(fetches') = Resyncs(Rest(i))
  BY <1>1, <1>3, RestFacts, StampedFacts
<1>5. From(fetches', fetches)
  BY <1>4, RestFacts, FromTransitive
<1>6. KioskStep
  BY <1>1, <1>4, <1>5, QueueFacts DEF KioskStep
<1>7. BufferInv'
  BY <1>1, <1>4 DEF BufferInv, Flushes, Resyncs
<1>8. LinkType'
  BY <1>1 DEF IInv, TypeOK, LinkType, link, used, Settles
<1>9. QED
  BY <1>1, <1>2, <1>6, <1>7, <1>8, KioskStepPreserves, QueueFacts

LEMMA PollFailsPreserves ==
    ASSUME IInv, NEW i \in DOMAIN fetches, PollFails(i)
    PROVE  Preserved
<1>1. /\ UNCHANGED <<server, net, replies, list, queue, link, drops>>
      /\ fetches' = RemoveAt(fetches, i) /\ fetches[i].kind = "poll" /\ failures' = failures + 1
      /\ covered' = TRUE
  BY DEF PollFails, FetchFails
<1>2. /\ fetches' \in Seq(Fetch) /\ From(fetches', fetches)
      /\ \A k \in Resyncs(fetches) : k # i => Resyncs(fetches') # {}
  BY <1>1, QueueFacts, RemoveAtFacts
<1>3. KioskStep /\ Follows(list')
  BY <1>1, <1>2, QueueFacts, FollowsSame DEF KioskStep
<1>4. BufferInv'
  <2>1. i \notin Resyncs(fetches)
    BY <1>1 DEF Resyncs
  <2>2. Resyncs(fetches) # {} => Resyncs(fetches') # {}
    BY <1>2, <2>1
  <2>3. QED
    BY <1>1, <2>2 DEF IInv, BufferInv, Resyncs
<1>5. LinkType'
  BY <1>1 DEF IInv, TypeOK, LinkType, link
<1>6. QED
  BY <1>1, <1>3, <1>4, <1>5, KioskStepPreserves, QueueFacts

\* The fallback poll adds at most a fetch.
LEMMA StartPollingFacts ==
    ASSUME NEW fs \in Seq(Fetch), StartPolling(fs)
    PROVE  /\ fetches' \in Seq(Fetch) /\ From(fetches', fs) /\ polling' = TRUE
           /\ Resyncs(fs) # {} => Resyncs(fetches') # {}
<1>1. CASE polling
  BY <1>1 DEF StartPolling, From
<1>2. CASE ~polling
  BY <1>2, AppendFacts DEF StartPolling
<1>3. QED
  BY <1>1, <1>2

LEMMA ResyncFailsPreserves ==
    ASSUME IInv, NEW i \in DOMAIN fetches, ResyncFails(i)
    PROVE  Preserved
<1> DEFINE fs == RemoveAt(fetches, i)
           S == Replayed(fs)
           gs == Stamped(fs, Touched(list, S))
<1>1. /\ UNCHANGED <<server, net, replies, mode, chan, connected, drops>>
      /\ covered' = TRUE
      /\ list' = Apply(list, S) /\ StartPolling(gs)
      /\ queue' = IF Flushes(fs) THEN None ELSE queue
      /\ live' = FALSE /\ failures' = failures + 1
  BY DEF ResyncFails, FetchFails
<1>2. Follows(list')
  BY <1>1, FollowsSame, ReplayedFacts, FollowsMessages
<1>3. Touched(list, S) \in SUBSET Periods
  BY DEF Touched
<1>4. fs \in Seq(Fetch) /\ From(fs, fetches)
  BY QueueFacts, RemoveAtFacts
<1> HIDE DEF fs, S
<1>5. gs \in Seq(Fetch) /\ From(gs, fs) /\ Resyncs(gs) = Resyncs(fs)
  BY <1>3, <1>4, StampedFacts
<1> HIDE DEF gs
<1>6. /\ fetches' \in Seq(Fetch) /\ From(fetches', gs) /\ polling' = TRUE
      /\ Resyncs(gs) # {} => Resyncs(fetches') # {}
  BY <1>1, <1>5, StartPollingFacts
<1>7. From(fetches', fetches)
  BY <1>4, <1>5, <1>6, FromTransitive
<1>8. KioskStep
  BY <1>1, <1>6, <1>7, QueueFacts DEF KioskStep
<1>9. BufferInv'
  BY <1>1, <1>5, <1>6 DEF BufferInv, Flushes, Resyncs
<1>10. LinkType'
  <2>1. failures' \in Nat /\ drops' \in Nat
    BY <1>1 DEF IInv, TypeOK
  <2>2. /\ mode' \in {"connecting", "unavailable", "ready"}
        /\ chan' \in {"new", "attaching", "attached", "down"}
        /\ connected' \in BOOLEAN /\ covered' \in BOOLEAN
    BY <1>1 DEF IInv, TypeOK
  <2>3. polling' \in BOOLEAN /\ live' \in BOOLEAN
    BY <1>1, <1>6
  <2>4. QED
    BY <2>1, <2>2, <2>3 DEF LinkType
<1>11. QED
  BY <1>1, <1>2, <1>8, <1>9, <1>10, KioskStepPreserves, QueueFacts

-----------------------------------------------------------------------------
(* The channel, and the quiet day *)

LEMMA EnterFacts ==
    ASSUME NEW m, NEW poll \in BOOLEAN, Enter(m, poll)
    PROVE  /\ fetches' \in Seq(Fetch) /\ From(fetches', fetches) /\ queue' = None
           /\ mode' = m /\ chan' = "new" /\ polling' = poll /\ live' = FALSE /\ covered' = FALSE
<1>1. NewFetch("poll") \in Fetch /\ NewFetch("poll").rows = NoRows
  BY DEF NewFetch, Fetch, NoRows
<1>2. CASE poll
  BY <1>1, <1>2 DEF Enter, From
<1>3. CASE ~poll
  BY <1>3 DEF Enter, From
<1>4. QED
  BY <1>2, <1>3 DEF Enter

\* Settle and Restart.
LEMMA EnterPreserves ==
    ASSUME IInv, Settle \/ Restart
    PROVE  Preserved
<1>1. UNCHANGED <<server, net, replies, list>>
  BY DEF Settle, Restart
<1>2. PICK m \in {"connecting", "unavailable", "ready"}, poll \in BOOLEAN : Enter(m, poll)
  <2>1. CASE Settle
    BY <2>1 DEF Settle
  <2>2. CASE Restart
    BY <2>2 DEF Restart
  <2>3. QED
    BY <2>1, <2>2
<1>3. connected' \in BOOLEAN /\ failures' \in Nat /\ drops' \in Nat
  <2>1. connected' \in BOOLEAN
    <3>1. connected \in BOOLEAN
      BY DEF IInv, TypeOK
    <3>2. QED
      BY <3>1, Zenon DEF Settle, Restart
  <2>2. failures' = failures /\ (drops' = drops \/ drops' = drops + 1)
    BY DEF Settle, Restart, Dropping, used
  <2>3. QED
    BY <2>1, <2>2 DEF IInv, TypeOK
<1>4. KioskStep /\ Follows(list')
  BY <1>1, <1>2, EnterFacts, FollowsSame DEF KioskStep
<1>5. BufferInv' /\ LinkType'
  BY <1>2, <1>3, EnterFacts DEF BufferInv, LinkType
<1>6. QED
  BY <1>2, <1>4, <1>5, EnterFacts, KioskStepPreserves

LEMMA AttachedPreserves ==
    ASSUME IInv, Attached
    PROVE  Preserved
<1>1. /\ Resync /\ chan' = "attached" /\ covered' = FALSE
      /\ UNCHANGED <<server, net, replies, list, mode, connected, polling, live, used>>
  BY DEF Attached
<1>2. LinkType'
  BY <1>1 DEF IInv, TypeOK, LinkType, used
<1>3. QED
  BY <1>1, <1>2, ResyncFacts, KioskStepPreserves

\* Resumed, Reattaching and ConnectionReturns leave the list and the fetches alone.
LEMMA LinkPreserves ==
    ASSUME IInv, Resumed \/ Reattaching \/ ConnectionReturns
    PROVE  Preserved
<1>1. UNCHANGED <<server, net, replies, list, queue, fetches>>
  BY DEF Resumed, Reattaching, ConnectionReturns
<1>2. KioskStep /\ Follows(list')
  BY <1>1, QueueFacts, FollowsSame DEF KioskStep
<1>3. BufferInv'
  BY <1>1 DEF IInv, BufferInv, Resyncs
<1>4. LinkType'
  <2>1. failures' = failures /\ (drops' = drops \/ drops' = drops + 1)
    BY DEF Resumed, Reattaching, ConnectionReturns, Dropping, used
  <2>2. /\ mode' = mode /\ chan' \in {"attached", "attaching", chan} /\ covered' = covered
        /\ connected' \in {connected, TRUE} /\ polling' \in {polling, FALSE}
        /\ live' \in {live, TRUE}
    BY DEF Resumed, Reattaching, ConnectionReturns
  <2>3. failures' \in Nat /\ drops' \in Nat
    BY <2>1 DEF IInv, TypeOK
  <2>4. QED
    BY <2>2, <2>3 DEF IInv, TypeOK, LinkType
<1>5. QED
  BY <1>1, <1>2, <1>3, <1>4, KioskStepPreserves, QueueFacts

\* ChannelFails and ConnectionDrops fall back to the poll.
LEMMA FallbackPreserves ==
    ASSUME IInv, ChannelFails \/ ConnectionDrops
    PROVE  Preserved
<1>1. UNCHANGED <<server, net, replies, list, queue>> /\ StartPolling(fetches)
  BY DEF ChannelFails, ConnectionDrops
<1>2. /\ fetches' \in Seq(Fetch) /\ From(fetches', fetches) /\ polling' = TRUE
      /\ Resyncs(fetches) # {} => Resyncs(fetches') # {}
  BY <1>1, QueueFacts, StartPollingFacts
<1>3. KioskStep /\ Follows(list')
  BY <1>1, <1>2, QueueFacts, FollowsSame DEF KioskStep
<1>4. BufferInv'
  BY <1>1, <1>2 DEF IInv, BufferInv, Resyncs
<1>5. LinkType'
  <2>1. failures' = failures /\ drops' = drops + 1
    BY DEF ChannelFails, ConnectionDrops, Dropping
  <2>2. /\ mode' = mode /\ chan' \in {"down", chan} /\ covered' = covered
        /\ connected' \in {connected, FALSE} /\ live' = FALSE
    BY DEF ChannelFails, ConnectionDrops
  <2>3. failures' \in Nat /\ drops' \in Nat
    BY <2>1 DEF IInv, TypeOK
  <2>4. QED
    BY <1>2, <2>2, <2>3 DEF IInv, TypeOK, LinkType
<1>6. QED
  BY <1>1, <1>3, <1>4, <1>5, KioskStepPreserves, QueueFacts

\* After a day with nothing under way a tombstone is not needed any more.
LEMMA DayPassesPreserves ==
    ASSUME IInv, DayPasses
    PROVE  Preserved
<1>1. /\ UNCHANGED <<server, net, replies, queue, fetches, link, covered, failures, drops>>
      /\ net = {} /\ replies = {} /\ fetches = <<>> /\ idx = srv
      /\ list' = [p \in Periods |-> IF Tombstone(list[p]) THEN [list[p] EXCEPT !.old = TRUE]
                                     ELSE list[p]]
  BY DEF DayPasses
<1>2. queue = None
  BY <1>1 DEF IInv, BufferInv, Resyncs
<1>3. ASSUME NEW p \in Periods, Tombstone(list[p])
      PROVE  /\ Over(p) /\ list'[p] \in Entry /\ list'[p] # None
             /\ list'[p].ver = list[p].ver /\ list'[p].open = list[p].open
  <2>1. list[p] # None /\ ~list[p].open /\ list[p] \in Entry
    BY <1>3 DEF Tombstone, IInv, TypeOK
  <2>2. /\ list[p].ver \in Nat /\ list[p].ver # 0 /\ list[p].ver # 1
        /\ list[p].ver <= srv[p].ver /\ srv[p].ver \in Nat
        /\ srv[p].open => srv[p].ver = 1
    BY <2>1 DEF IInv, Sound, Entry, TypeOK, Stored, RowInv
  <2>3. Over(p)
    BY <1>1, <1>2, <2>2 DEF Over, NoneOpen, NotFetched
  <2>4. list'[p] = [list[p] EXCEPT !.old = TRUE]
    BY <1>1, <1>3
  <2>5. /\ list'[p] \in Entry /\ list'[p].ver = list[p].ver
        /\ list'[p].open = list[p].open
    BY <2>1, <2>4 DEF Entry
  <2>6. QED
    BY <2>3, <2>5, ConstantsAssumption DEF Entry
<1>4. \A p \in Periods : ~Tombstone(list[p]) => list'[p] = list[p]
  BY <1>1
<1>5. list' \in [Periods -> Entry \cup {None}]
  BY <1>1, <1>3, <1>4 DEF IInv, TypeOK
<1>6. Sound(list')
  BY <1>3, <1>4 DEF IInv, Sound, Tombstone
<1>7. \A p \in Periods : Gone(list, p) => Gone(list', p)
  BY <1>3, <1>4 DEF Gone, Tombstone
<1>8. KioskStep /\ Follows(list')
  BY <1>1, <1>2, <1>5, <1>6, <1>7, QueueFacts DEF KioskStep, Follows
<1>9. BufferInv' /\ LinkType'
  BY <1>1, <1>2 DEF IInv, BufferInv, TypeOK, LinkType, link
<1>10. QED
  BY <1>1, <1>2, <1>8, <1>9, KioskStepPreserves

-----------------------------------------------------------------------------
(* The theorems *)

LEMMA InitIInv == Init => IInv
<1> SUFFICES ASSUME Init PROVE IInv
  OBVIOUS
<1>1. /\ srv = [p \in Periods |-> [ver |-> 0, open |-> FALSE]] /\ idx = srv
      /\ net = {} /\ replies = {} /\ queue = None /\ fetches = <<>>
      /\ list = [p \in Periods |-> None]
  BY DEF Init
<1>2. TypeOK
  <2>1. /\ srv \in [Periods -> Stored] /\ idx \in [Periods -> Stored]
        /\ list \in [Periods -> Entry \cup {None}] /\ fetches \in Seq(Fetch)
        /\ net \subseteq Message /\ replies \subseteq Message
    BY <1>1 DEF Stored
  <2>2. QED
    BY <1>1, <2>1 DEF Init, TypeOK
<1>3. RowInv /\ MessageInv /\ FetchInv /\ Sound(list) /\ BufferInv
  BY <1>1 DEF RowInv, MessageInv, Honest, FetchInv, Sound, BufferInv
<1>4. QED
  BY <1>2, <1>3 DEF IInv

LEMMA StepPreserves ==
    ASSUME IInv, [Next]_vars
    PROVE  Preserved
<1>1. CASE Network
  <2>1. ASSUME NEW p \in Periods, Write(p) PROVE Preserved
    BY <2>1, WritePreserves
  <2>2. ASSUME NEW p \in Periods, Replicate(p) PROVE Preserved
    BY <2>2, ReplicatePreserves
  <2>3. ASSUME NEW m \in net, Lose(m) PROVE Preserved
    BY <2>3, LosePreserves
  <2>4. ASSUME NEW m \in net, NEW again \in BOOLEAN, Deliver(m, again) PROVE Preserved
    BY <2>4, DeliverPreserves
  <2>5. ASSUME NEW m \in replies, OwnResult(m) PROVE Preserved
    BY <2>5, OwnResultPreserves
  <2>6. QED
    BY <1>1, <2>1, <2>2, <2>3, <2>4, <2>5 DEF Network
<1>2. CASE Snapshots
  <2>1. ASSUME NEW i \in DOMAIN fetches,
               ReadSnapshot(i) \/ PollArrives(i) \/ ResyncArrives(i) \/ PollFails(i) \/ ResyncFails(i)
        PROVE  Preserved
    BY <2>1, ReadSnapshotPreserves, PollArrivesPreserves, ResyncArrivesPreserves,
       PollFailsPreserves, ResyncFailsPreserves
  <2>2. QED
    BY <1>2, <2>1, PollPreserves, ResyncTimerPreserves DEF Snapshots
<1>3. CASE Channel
  BY <1>3, EnterPreserves, AttachedPreserves, LinkPreserves, FallbackPreserves DEF Channel
<1>4. CASE DayPasses
  BY <1>4, DayPassesPreserves
<1>5. CASE UNCHANGED vars
  <2>1. /\ UNCHANGED <<server, net, replies, list, queue, fetches, mode, chan, connected>>
        /\ UNCHANGED <<polling, live, covered, failures, drops>>
    BY <1>5 DEF vars, link, used
  <2>2. KioskStep /\ Follows(list') /\ BufferInv'
    BY <2>1, QueueFacts, FollowsSame DEF KioskStep, IInv, BufferInv, Resyncs
  <2>3. LinkType'
    BY <2>1 DEF IInv, TypeOK, LinkType
  <2>4. QED
    BY <2>1, <2>2, <2>3, KioskStepPreserves, QueueFacts
<1>6. QED
  BY <1>1, <1>2, <1>3, <1>4, <1>5 DEF Next

\* Every row, message, fetch and entry is well formed, and the kiosk's status is one of those
\* KioskRealtimeProvider and Ably know.
THEOREM TypeCorrect == Spec => []TypeOK
<1>1. IInv /\ [Next]_vars => IInv'
  BY StepPreserves DEF Preserved
<1>2. IInv => TypeOK
  BY DEF IInv
<1>3. QED
  BY <1>1, <1>2, InitIInv, PTL DEF Spec

\* A period the kiosk has heard is closed never shows again, with any number of snapshots,
\* messages, results and interruptions crossing, and after its tombstone has been pruned
\* (applyClosed, applyOpened, applySnapshot and pruneTombstones of livePeriods.ts).
THEOREM ClosedSafe == Spec => ClosedStaysClosed
<1>1. IInv /\ [Next]_vars => IInv'
  BY StepPreserves DEF Preserved
<1>2. ASSUME NEW p \in Periods
      PROVE  Spec => [](Tombstone(list[p]) => []~Shown(p))
  <2>1. IInv /\ [Next]_vars /\ Gone(list, p) => Gone(list, p)'
    BY StepPreserves DEF Preserved
  <2>2. Tombstone(list[p]) => Gone(list, p)
    BY DEF Gone
  <2>3. Gone(list, p) => ~Shown(p)
    BY DEF Gone, Tombstone, Shown
  <2>4. QED
    BY <1>1, <2>1, <2>2, <2>3, InitIInv, PTL DEF Spec
<1>3. QED
  BY <1>2 DEF ClosedStaysClosed

\* A kiosk whose realtime status has settled and that does not poll has a channel that is
\* attached or about to be, whatever order the ends of resyncs and the drops of the channel
\* come in (the `if (channelAttached)` of resyncFromSnapshot).
THEOREM PolledSafe == Spec => []PolledOrAttached
<1>1. Init => PolledOrAttached
  BY DEF Init, PolledOrAttached
<1>2. PolledOrAttached /\ TypeOK /\ [Next]_vars => PolledOrAttached'
  <2> SUFFICES ASSUME PolledOrAttached, TypeOK, [Next]_vars
               PROVE  PolledOrAttached'
    OBVIOUS
  <2>1. CASE Network
    BY <2>1 DEF Network, Write, Replicate, Lose, Deliver, OwnResult, link, PolledOrAttached
  <2>2. CASE Snapshots
    <3>1. CASE Poll \/ ResyncTimer
      BY <3>1 DEF Poll, ResyncTimer, link, PolledOrAttached
    <3>2. ASSUME NEW i \in DOMAIN fetches, ReadSnapshot(i) \/ PollArrives(i) \/ PollFails(i)
          PROVE  PolledOrAttached'
      BY <3>2 DEF ReadSnapshot, PollArrives, PollFails, link, PolledOrAttached
    <3>3. ASSUME NEW i \in DOMAIN fetches, ResyncArrives(i)
          PROVE  PolledOrAttached'
      BY <3>3 DEF ResyncArrives, Settles, PolledOrAttached
    <3>4. ASSUME NEW i \in DOMAIN fetches, ResyncFails(i)
          PROVE  PolledOrAttached'
      BY <3>4 DEF ResyncFails, StartPolling, PolledOrAttached
    <3>5. QED
      BY <2>2, <3>1, <3>2, <3>3, <3>4 DEF Snapshots
  <2>3. CASE Channel
    BY <2>3 DEF Channel, Settle, Restart, Enter, Attached, Resumed, Reattaching, ChannelFails,
                ConnectionDrops, ConnectionReturns, StartPolling, PolledOrAttached
  <2>4. CASE DayPasses
    BY <2>4 DEF DayPasses, link, PolledOrAttached
  <2>5. CASE UNCHANGED vars
    BY <2>5 DEF vars, link, PolledOrAttached
  <2>6. QED
    BY <2>1, <2>2, <2>3, <2>4, <2>5 DEF Next
<1>3. QED
  BY <1>1, <1>2, TypeCorrect, PTL DEF Spec

-----------------------------------------------------------------------------
(* The buffer takes effect *)

\* When messages have been applied each of them is in the list, or something newer.
LEMMA AppliedIsThere ==
    ASSUME TypeOK, NEW l \in [Periods -> Entry \cup {None}], NEW S, Honest(S), NEW m \in S
    PROVE  Apply(l, S)[m.p] # None /\ Apply(l, S)[m.p].ver >= m.ver
<1> DEFINE A == Accepted(l, S, m.p)
<1>1. m.p \in Periods /\ m.ver \in Nat /\ srv[m.p].ver \in Nat
  BY DEF Honest, Message, TypeOK, Stored
<1>2. CASE A = {}
  <2>1. l[m.p] # None /\ ~(l[m.p].ver < m.ver)
    BY <1>2 DEF Accepted, Newer
  <2>2. l[m.p].ver \in Nat
    BY <1>1, <2>1 DEF Entry
  <2>3. Apply(l, S)[m.p] = l[m.p]
    BY <1>1, <1>2 DEF Apply
  <2>4. QED
    BY <1>1, <2>1, <2>2, <2>3
<1>3. CASE A # {}
  <2>1. \A n \in A : n \in S /\ n.p = m.p /\ n.ver \in 0..srv[m.p].ver
    BY <1>1 DEF Accepted, Honest, Message
  <2>2. Newest(A) \in A /\ \A n \in A : n.ver <= Newest(A).ver
    BY <1>1, <1>3, <2>1, NewestExists
  <2>3. Apply(l, S)[m.p] = EntryOf(Newest(A))
    BY <1>1, <1>3 DEF Apply
  <2>4. EntryOf(Newest(A)) \in Entry /\ EntryOf(Newest(A)).ver = Newest(A).ver
    BY <2>1, <2>2 DEF EntryOf, Honest, Message, Entry
  <2>5. Newest(A).ver \in Nat /\ Newest(A).ver >= m.ver
    <3>1. Newest(A).ver \in Nat
      BY <1>1, <2>1, <2>2
    <3>2. CASE m \in A
      BY <1>1, <2>2, <3>1, <3>2
    <3>3. CASE m \notin A
      <4>1. l[m.p] # None /\ ~(l[m.p].ver < m.ver)
        BY <3>3 DEF Accepted, Newer
      <4>2. l[m.p].ver \in Nat
        BY <1>1, <4>1 DEF Entry
      <4>3. l[m.p].ver < Newest(A).ver
        BY <2>2, <4>1 DEF Accepted, Newer
      <4>4. QED
        BY <1>1, <3>1, <4>1, <4>2, <4>3
    <3>4. QED
      BY <3>2, <3>3
  <2>6. QED
    BY <2>3, <2>4, <2>5, ConstantsAssumption DEF Entry
<1>4. QED
  BY <1>2, <1>3

\* Versions stay below their bound, so the buffer is never mistaken for no buffer.
Bounded == \A p \in Periods : srv[p].ver <= MaxVersion

LEMMA BoundedStep ==
    ASSUME TypeOK, Bounded, [Next]_vars
    PROVE  Bounded'
<1>1. CASE UNCHANGED srv
  BY <1>1 DEF Bounded
<1>2. ASSUME NEW p \in Periods, Write(p) PROVE Bounded'
  <2> SUFFICES ASSUME NEW q \in Periods PROVE srv'[q].ver <= MaxVersion
    BY DEF Bounded
  <2>1. MaxVersion \in Nat /\ 1 <= MaxVersion
    BY ConstantsAssumption
  <2>2. srv[p].ver \in Nat /\ (q # p => srv'[q] = srv[q])
    BY <1>2 DEF TypeOK, Stored, Write, Started, Ended
  <2>3. srv'[p].ver = 1 \/ (srv[p].ver \in 1..(MaxVersion - 1) /\ srv'[p].ver = srv[p].ver + 1)
    BY <1>2 DEF TypeOK, Write, Started, Ended
  <2>4. QED
    BY <2>1, <2>2, <2>3 DEF Bounded
<1>3. QED
  <2>1. CASE Network
    BY <1>1, <1>2, <2>1 DEF Network, Replicate, Lose, Deliver, OwnResult, server
  <2>2. CASE Snapshots
    BY <1>1, <2>2 DEF Snapshots, Poll, ResyncTimer, ReadSnapshot, PollArrives, ResyncArrives,
       PollFails, ResyncFails, server
  <2>3. CASE Channel
    BY <1>1, <2>3 DEF Channel, Settle, Restart, Attached, Resumed, Reattaching, ChannelFails,
       ConnectionDrops, ConnectionReturns, server
  <2>4. CASE DayPasses \/ UNCHANGED vars
    BY <1>1, <2>4 DEF DayPasses, vars, server
  <2>5. QED
    BY <2>1, <2>2, <2>3, <2>4 DEF Next

Buffered(m) ==
    \/ chan' = "new"
    \/ queue' # None /\ m \in queue'
    \/ list'[m.p] # None /\ list'[m.p].ver >= m.ver

\* Every message heard while a resync is in flight takes effect when the buffer goes, however
\* many resyncs overlap and whether they succeed or fail, unless the effect starts anew
\* (resyncInFlight and messageQueue of LivePeriodsProvider.tsx).
THEOREM BufferSafe == Spec => BufferedIsApplied
<1>1. IInv /\ Bounded /\ [Next]_vars => (IInv /\ Bounded)'
  BY StepPreserves, BoundedStep DEF Preserved, IInv
<1>2. IInv /\ Bounded /\ [Next]_vars
        => [\A m \in IF queue = None THEN {} ELSE queue : Buffered(m)]_vars
  <2> SUFFICES ASSUME IInv, Bounded, Next, queue # None, NEW m \in queue
               PROVE  Buffered(m)
    OBVIOUS
  <2>0. Honest(queue)
    BY DEF IInv, MessageInv
  <2>1. CASE UNCHANGED queue
    BY <2>1 DEF Buffered
  <2>2. CASE \E n \in net : \E again \in BOOLEAN : Deliver(n, again)
    <3>1. PICK n \in net, again \in BOOLEAN : Deliver(n, again)
      BY <2>2
    <3>2. PICK v \in IF n.open THEN {n.ver} ELSE (n.ver)..(srv[n.p].ver) :
              queue' = queue \cup {[n EXCEPT !.ver = v]}
      BY <3>1 DEF Deliver
    <3>3. /\ n \in Message /\ n.ver <= srv[n.p].ver /\ n.ver \in Nat /\ n.p \in Periods
          /\ srv[n.p].ver \in Nat /\ srv[n.p].ver <= MaxVersion /\ MaxVersion \in Nat
      BY ConstantsAssumption DEF IInv, TypeOK, MessageInv, Honest, Message, Stored, Bounded
    <3>4. v \in 0..MaxVersion
      BY <3>3
    <3>5. [n EXCEPT !.ver = v] \in [p : Periods, ver : 0..MaxVersion, open : BOOLEAN]
      BY <3>3, <3>4 DEF Message
    <3>6. queue \subseteq [p : Periods, ver : 0..MaxVersion, open : BOOLEAN]
      <4> SUFFICES ASSUME NEW x \in queue
                   PROVE  x \in [p : Periods, ver : 0..MaxVersion, open : BOOLEAN]
        OBVIOUS
      <4>1. x \in Message /\ x.ver <= srv[x.p].ver
        BY <2>0 DEF Honest
      <4>2. x.p \in Periods /\ x.ver \in Nat
        BY <4>1 DEF Message
      <4>3. srv[x.p].ver \in Nat /\ srv[x.p].ver <= MaxVersion /\ MaxVersion \in Nat
        BY <4>2, ConstantsAssumption DEF IInv, TypeOK, Stored, Bounded
      <4>4. x.ver \in 0..MaxVersion
        BY <4>1, <4>2, <4>3
      <4>5. QED
        BY <4>1, <4>4 DEF Message
    <3>7. queue' # None
      BY <3>2, <3>5, <3>6, ConstantsAssumption
    <3>8. m \in queue'
      BY <3>2
    <3>9. QED
      BY <3>7, <3>8 DEF Buffered
  <2>3. CASE Resync
    BY <2>3 DEF Resync, Buffered
  <2>4. CASE Settle \/ Restart
    BY <2>4 DEF Settle, Restart, Enter, Buffered
  <2>5. ASSUME NEW i \in DOMAIN fetches, ResyncArrives(i) PROVE Buffered(m)
    <3>1. /\ list' = Apply(ApplySnapshot(list, fetches[i]), Replayed(Rest(i)))
          /\ queue' = IF Flushes(Rest(i)) THEN None ELSE queue
      BY <2>5 DEF ResyncArrives
    <3>2. CASE Flushes(Rest(i))
      <4>1. Replayed(Rest(i)) = queue
        BY <3>2 DEF Replayed
      <4>2. ApplySnapshot(list, fetches[i]) \in [Periods -> Entry \cup {None}]
        BY FollowsSnapshot DEF Follows
      <4>3. QED
        BY <2>0, <3>1, <4>1, <4>2, AppliedIsThere DEF IInv, Buffered
    <3>3. CASE ~Flushes(Rest(i))
      BY <3>1, <3>3 DEF Buffered
    <3>4. QED
      BY <3>2, <3>3
  <2>6. ASSUME NEW i \in DOMAIN fetches, ResyncFails(i) PROVE Buffered(m)
    <3>1. PICK fs : fs = RemoveAt(fetches, i)
      OBVIOUS
    <3>2. list' = Apply(list, Replayed(fs)) /\ queue' = IF Flushes(fs) THEN None ELSE queue
      BY <2>6, <3>1 DEF ResyncFails
    <3>3. CASE Flushes(fs)
      <4>1. Replayed(fs) = queue
        BY <3>3 DEF Replayed
      <4>2. QED
        BY <2>0, <3>2, <4>1, AppliedIsThere DEF IInv, TypeOK, Buffered
    <3>4. CASE ~Flushes(fs)
      BY <3>2, <3>4 DEF Buffered
    <3>5. QED
      BY <3>3, <3>4
  <2>7. QED
    <3>1. CASE Network
      BY <2>1, <2>2, <3>1 DEF Network, Write, Replicate, Lose, OwnResult
    <3>2. CASE Snapshots
      BY <2>1, <2>3, <2>5, <2>6, <3>2 DEF Snapshots, Poll, ResyncTimer, ReadSnapshot, PollArrives, PollFails
    <3>3. CASE Channel
      BY <2>1, <2>3, <2>4, <3>3 DEF Channel, Attached, Resumed, Reattaching, ChannelFails,
         ConnectionDrops, ConnectionReturns
    <3>4. CASE DayPasses
      BY <2>1, <3>4 DEF DayPasses
    <3>5. QED
      BY <3>1, <3>2, <3>3, <3>4 DEF Next
<1>3. Init => Bounded
  BY ConstantsAssumption DEF Init, Bounded
<1>4. QED
  BY <1>1, <1>2, <1>3, InitIInv, PTL DEF Spec, BufferedIsApplied, Buffered

-----------------------------------------------------------------------------
(* Live means caught up, or that the fetch of a snapshot has failed *)

\* What is called live, or may be without another snapshot, has had one, has one on the way, or
\* has seen the fetch of one fail.
CaughtUp == live \/ chan \in {"attached", "attaching"} => covered \/ fetches # <<>>

LEMMA SomeLeft ==
    ASSUME NEW fs \in Seq(Fetch), NEW P, NEW kind \in {"poll", "resync"}
    PROVE  /\ fs # <<>> => Stamped(fs, P) # <<>>
           /\ Append(fs, NewFetch(kind)) # <<>>
<1>1. ASSUME fs # <<>> PROVE Stamped(fs, P) # <<>>
  <2>1. DOMAIN fs # {}
    BY <1>1
  <2>2. DOMAIN Stamped(fs, P) = DOMAIN fs
    BY DEF Stamped
  <2>3. QED
    BY <2>1, <2>2
<1>2. Append(fs, NewFetch(kind)) # <<>>
  <2>1. NewFetch(kind) \in Fetch
    BY DEF NewFetch, Fetch, NoRows
  <2>2. PICK gs : gs = Append(fs, NewFetch(kind))
    OBVIOUS
  <2>3. gs \in Seq(Fetch) /\ Len(gs) = Len(fs) + 1 /\ Len(fs) \in Nat
    BY <2>1, <2>2
  <2>4. gs # <<>>
    BY <2>3
  <2>5. QED
    BY <2>2, <2>4
<1>3. QED
  BY <1>1, <1>2

LEMMA CaughtUpStep ==
    ASSUME TypeOK, CaughtUp, [Next]_vars
    PROVE  CaughtUp'
<1>1. fetches \in Seq(Fetch)
  BY DEF TypeOK
<1>2. CASE UNCHANGED <<live, chan, covered, fetches>>
  BY <1>2 DEF CaughtUp
<1>3. ASSUME NEW P, fetches' = Stamped(fetches, P), UNCHANGED <<live, chan, covered>>
      PROVE  CaughtUp'
  BY <1>1, <1>3, SomeLeft DEF CaughtUp
<1>4. CASE Network
  <2>1. ASSUME NEW S, Hear(S), UNCHANGED <<live, chan, covered>> PROVE CaughtUp'
    BY <1>3, <2>1 DEF Hear
  <2>2. ASSUME NEW m \in net, NEW again \in BOOLEAN, Deliver(m, again) PROVE CaughtUp'
    <3>1. UNCHANGED <<live, chan, covered>>
      BY <2>2 DEF Deliver, link
    <3>2. PICK heard : UNCHANGED fetches \/ Hear({heard})
      BY <2>2 DEF Deliver
    <3>3. QED
      BY <1>2, <2>1, <3>1, <3>2
  <2>3. ASSUME NEW m \in replies, OwnResult(m) PROVE CaughtUp'
    BY <2>1, <2>3 DEF OwnResult, link
  <2>4. QED
    BY <1>2, <1>4, <2>2, <2>3 DEF Network, Write, Replicate, Lose, link
<1>5. CASE Snapshots
  <2>1. CASE Poll \/ ResyncTimer
    <3>1. fetches' # <<>>
      BY <1>1, <2>1, SomeLeft DEF Poll, ResyncTimer, Resync
    <3>2. QED
      BY <3>1 DEF CaughtUp
  <2>2. ASSUME NEW i \in DOMAIN fetches, ReadSnapshot(i) PROVE CaughtUp'
    <3>1. DOMAIN fetches' = DOMAIN fetches
      BY <2>2 DEF ReadSnapshot
    <3>2. fetches' # <<>>
      BY <3>1
    <3>3. QED
      BY <3>2 DEF CaughtUp
  <2>3. ASSUME NEW i \in DOMAIN fetches, PollArrives(i) \/ ResyncArrives(i) PROVE CaughtUp'
    BY <2>3 DEF PollArrives, ResyncArrives, CaughtUp
  <2>4. ASSUME NEW i \in DOMAIN fetches, PollFails(i) \/ ResyncFails(i) PROVE CaughtUp'
    BY <2>4 DEF PollFails, ResyncFails, FetchFails, CaughtUp
  <2>5. QED
    BY <1>5, <2>1, <2>2, <2>3, <2>4 DEF Snapshots
<1>6. CASE Channel
  <2>1. CASE Settle \/ Restart
    BY <2>1 DEF Settle, Restart, Enter, CaughtUp
  <2>2. CASE Attached
    BY <1>1, <2>2, SomeLeft DEF Attached, Resync, CaughtUp
  <2>3. CASE Resumed \/ Reattaching \/ ConnectionReturns
    BY <2>3 DEF Resumed, Reattaching, ConnectionReturns, CaughtUp
  <2>4. CASE ChannelFails
    BY <2>4 DEF ChannelFails, CaughtUp
  <2>5. CASE ConnectionDrops
    <3>1. fetches' = fetches \/ fetches' # <<>>
      BY <1>1, <2>5, SomeLeft DEF ConnectionDrops, StartPolling
    <3>2. QED
      BY <2>5, <3>1 DEF ConnectionDrops, CaughtUp
  <2>6. QED
    BY <1>6, <2>1, <2>2, <2>3, <2>4, <2>5 DEF Channel
<1>7. CASE DayPasses \/ UNCHANGED vars
  BY <1>2, <1>7 DEF DayPasses, vars, link
<1>8. QED
  BY <1>4, <1>5, <1>6, <1>7 DEF Next

\* The dialog says "live" only of a list that has had a snapshot since continuity was last lost,
\* has one on the way, or has seen the fetch of one fail since, however often the channel and the
\* connection come and go (resyncFromSnapshot and the channel's listeners).
THEOREM LiveSafe == Spec => []LiveMeansCaughtUp
<1>1. Init => CaughtUp
  BY DEF Init, CaughtUp
<1>2. TypeOK /\ CaughtUp /\ [Next]_vars => CaughtUp'
  BY CaughtUpStep
<1>3. CaughtUp => LiveMeansCaughtUp
  BY DEF CaughtUp, LiveMeansCaughtUp
<1>4. QED
  BY <1>1, <1>2, <1>3, TypeCorrect, PTL DEF Spec

-----------------------------------------------------------------------------
(* Nobody flickers, but for an index that is behind and requests that cross *)

Shows(l, p) == l[p] # None /\ l[p].open

\* What a snapshot rightly lacks was lacking, as long as it is open, in all those requested
\* earlier, which have been read.
Ordered(fs) ==
    \A i, j \in DOMAIN fs : \A p \in Periods :
        i < j /\ fs[j].read /\ p \notin fs[j].stale /\ fs[j].rows[p] = 0 =>
            fs[i].read /\ (srv[p].open => fs[i].rows[p] = 0)

\* Such a snapshot was requested before the entry was written, if the list l shows the period.
Kept(fs, l) ==
    \A i \in DOMAIN fs : \A p \in Periods :
        srv[p].open /\ Shows(l, p) /\ fs[i].read /\ p \notin fs[i].stale /\ fs[i].rows[p] = 0 =>
            p \in fs[i].since

OrderInv == Ordered(fetches) /\ Kept(fetches, list)

\* Stamping touches only the times.
LEMMA StampedTimes ==
    ASSUME NEW fs \in Seq(Fetch), NEW P
    PROVE  \A i \in DOMAIN fs : /\ Stamped(fs, P)[i].read = fs[i].read
                               /\ Stamped(fs, P)[i].rows = fs[i].rows
                               /\ Stamped(fs, P)[i].stale = fs[i].stale
                               /\ Stamped(fs, P)[i].since = fs[i].since \cup P
<1> TAKE i \in DOMAIN fs
<1>1. fs[i] \in Fetch
  OBVIOUS
<1>2. Stamped(fs, P)[i] = [fs[i] EXCEPT !.since = @ \cup P]
  BY DEF Stamped
<1>3. QED
  BY <1>1, <1>2 DEF Fetch

LEMMA StampedAsTimes ==
    ASSUME NEW fs \in Seq(Fetch), NEW P, NEW n \in Nat, NEW i \in DOMAIN fs
    PROVE  /\ StampedAs(fs, n, P)[i].read = fs[i].read
           /\ StampedAs(fs, n, P)[i].rows = fs[i].rows
           /\ StampedAs(fs, n, P)[i].stale = fs[i].stale
           /\ i < n => StampedAs(fs, n, P)[i].since = fs[i].since \cup P
           /\ ~(i < n) => StampedAs(fs, n, P)[i].since = fs[i].since \ P
<1>1. fs[i] \in Fetch
  OBVIOUS
<1>2. StampedAs(fs, n, P)[i] = [fs[i] EXCEPT !.since = IF i < n THEN @ \cup P ELSE @ \ P]
  BY DEF StampedAs
<1>3. QED
  BY <1>1, <1>2 DEF Fetch

\* Entries that messages write are stamped, so the snapshots under way do not drop them.
LEMMA HearKeeps ==
    ASSUME NEW fs \in Seq(Fetch), NEW l, NEW S, Ordered(fs), Kept(fs, l)
    PROVE  /\ Ordered(Stamped(fs, Touched(l, S)))
           /\ Kept(Stamped(fs, Touched(l, S)), Apply(l, S))
<1> DEFINE P == Touched(l, S)
           gs == Stamped(fs, P)
<1>2. DOMAIN gs = DOMAIN fs
  BY DEF Stamped
<1>3. \A i \in DOMAIN fs : /\ gs[i].read = fs[i].read /\ gs[i].rows = fs[i].rows
                           /\ gs[i].stale = fs[i].stale /\ gs[i].since = fs[i].since \cup P
  BY StampedTimes
<1>4. \A p \in Periods : p \notin P => Apply(l, S)[p] = l[p]
  BY DEF Apply, Touched
<1> HIDE DEF P, gs
<1>5. Ordered(gs)
  BY <1>2, <1>3 DEF Ordered
<1>6. Kept(gs, Apply(l, S))
  BY <1>2, <1>3, <1>4 DEF Kept, Shows
<1>7. QED
  BY <1>5, <1>6 DEF gs, P

\* So are those a fetch in flight is not told of: it has not been read.
LEMMA AppendKeeps ==
    ASSUME NEW fs \in Seq(Fetch), NEW l, NEW kind \in {"poll", "resync"}, Ordered(fs), Kept(fs, l)
    PROVE  Ordered(Append(fs, NewFetch(kind))) /\ Kept(Append(fs, NewFetch(kind)), l)
<1>1. NewFetch(kind) \in Fetch /\ ~NewFetch(kind).read
  BY DEF NewFetch, Fetch, NoRows
<1>2. PICK gs : gs = Append(fs, NewFetch(kind))
  OBVIOUS
<1>3. /\ DOMAIN gs = 1..(Len(fs) + 1) /\ Len(fs) \in Nat /\ DOMAIN fs = 1..Len(fs)
      /\ gs[Len(fs) + 1] = NewFetch(kind) /\ \A i \in 1..Len(fs) : gs[i] = fs[i]
  BY <1>1, <1>2
<1>4. \A i \in DOMAIN gs : gs[i].read => i \in DOMAIN fs /\ gs[i] = fs[i]
  BY <1>1, <1>3
<1>5. Ordered(gs)
  <2> SUFFICES ASSUME NEW i \in DOMAIN gs, NEW j \in DOMAIN gs, NEW p \in Periods, i < j, gs[j].read,
                      p \notin gs[j].stale, gs[j].rows[p] = 0
               PROVE  gs[i].read /\ (srv[p].open => gs[i].rows[p] = 0)
    BY DEF Ordered
  <2>1. j \in DOMAIN fs /\ gs[j] = fs[j]
    BY <1>4
  <2>2. i \in DOMAIN fs /\ gs[i] = fs[i]
    BY <1>3, <2>1
  <2>3. QED
    BY <2>1, <2>2 DEF Ordered
<1>6. Kept(gs, l)
  BY <1>4 DEF Kept
<1>7. QED
  BY <1>2, <1>5, <1>6

\* The position in fs of what is at position j once position i has been removed.
Was(i, j) == IF j < i THEN j ELSE j + 1

LEMMA RemoveKeeps ==
    ASSUME NEW fs \in Seq(Fetch), NEW i \in DOMAIN fs, NEW l, Ordered(fs),
           \A k \in DOMAIN fs : k # i => \A p \in Periods :
               srv[p].open /\ Shows(l, p) /\ fs[k].read /\ p \notin fs[k].stale /\ fs[k].rows[p] = 0
                   => p \in fs[k].since
    PROVE  Ordered(RemoveAt(fs, i)) /\ Kept(RemoveAt(fs, i), l)
<1>1. PICK gs : gs = RemoveAt(fs, i)
  OBVIOUS
<1>2. /\ Len(fs) \in Nat /\ DOMAIN fs = 1..Len(fs) /\ i \in Nat
      /\ gs \in Seq(Fetch) /\ DOMAIN gs = 1..(Len(fs) - 1)
      /\ \A j \in 1..(Len(fs) - 1) : gs[j] = IF j < i THEN fs[j] ELSE fs[j + 1]
  BY <1>1, RemoveAtPositions
<1>3. \A j \in DOMAIN gs : Was(i, j) \in DOMAIN fs /\ Was(i, j) # i /\ gs[j] = fs[Was(i, j)]
  BY <1>2 DEF Was
<1>4. \A j, k \in DOMAIN gs : j < k => Was(i, j) < Was(i, k)
  BY <1>2 DEF Was
<1>5. Ordered(gs)
  BY <1>3, <1>4 DEF Ordered
<1>6. Kept(gs, l)
  BY <1>3 DEF Kept
<1>7. QED
  BY <1>1, <1>5, <1>6

\* A snapshot that is applied: what it shows is stamped with the time it was requested, and
\* the snapshots read after it show it too.
LEMMA RestKeeps ==
    ASSUME IInv, OrderInv, NEW i \in DOMAIN fetches
    PROVE  Ordered(Rest(i)) /\ Kept(Rest(i), ApplySnapshot(list, fetches[i]))
<1>0. PICK P : P = Taken(list, fetches[i])
  OBVIOUS
<1> DEFINE fs == StampedAs(fetches, i, P)
           l == ApplySnapshot(list, fetches[i])
<1>1. /\ i \in Nat /\ P \in SUBSET Periods /\ fetches \in Seq(Fetch)
      /\ \A k \in DOMAIN fetches : k \in Nat
  BY <1>0 DEF IInv, TypeOK, Taken
<1>2. fs \in Seq(Fetch) /\ DOMAIN fs = DOMAIN fetches
  BY <1>1, StampedAsFacts
<1>3. ASSUME NEW k \in DOMAIN fetches
      PROVE  /\ fs[k].read = fetches[k].read /\ fs[k].rows = fetches[k].rows
             /\ fs[k].stale = fetches[k].stale
             /\ k < i => fs[k].since = fetches[k].since \cup P
             /\ ~(k < i) => fs[k].since = fetches[k].since \ P
  BY <1>1, StampedAsTimes
<1>4. Ordered(fetches) /\ Kept(fetches, list)
  BY DEF OrderInv
<1>5. \A p \in Periods : p \notin P /\ Shows(l, p) => Shows(list, p)
  BY <1>0 DEF ApplySnapshot, Pruned, Shows
<1>6. \A p \in P : p \in Periods /\ fetches[i].rows[p] > 0
  BY <1>0 DEF Taken
<1>7. ASSUME NEW k \in DOMAIN fetches, NEW p \in Periods PROVE fetches[k].rows[p] \in Nat
  <2>1. fetches[k] \in Fetch
    BY <1>1
  <2>2. QED
    BY <2>1 DEF Fetch
<1>8. Rest(i) = RemoveAt(fs, i)
  BY <1>0 DEF Rest
<1> HIDE DEF fs, l
<1>9. Ordered(fs)
  BY <1>2, <1>3, <1>4 DEF Ordered
<1>10. ASSUME NEW k \in DOMAIN fs, k # i, NEW p \in Periods,
              srv[p].open, Shows(l, p), fs[k].read, p \notin fs[k].stale, fs[k].rows[p] = 0
       PROVE  p \in fs[k].since
  <2>0. /\ k \in DOMAIN fetches /\ k \in Nat
        /\ fetches[k].read /\ p \notin fetches[k].stale /\ fetches[k].rows[p] = 0
    BY <1>1, <1>2, <1>3, <1>10
  <2>1. CASE p \in P
    <3>1. fetches[i].rows[p] > 0
      BY <1>6, <2>1
    <3>2. ~(i < k)
      BY <1>4, <1>7, <1>10, <2>0, <3>1 DEF Ordered
    <3>3. k < i
      BY <1>1, <1>10, <2>0, <3>2
    <3>4. QED
      BY <1>3, <2>0, <2>1, <3>3
  <2>2. CASE p \notin P
    <3>1. p \in fetches[k].since
      BY <1>4, <1>5, <1>10, <2>0, <2>2 DEF Kept
    <3>2. QED
      BY <1>3, <2>0, <2>2, <3>1
  <2>3. QED
    BY <2>1, <2>2
<1>11. Ordered(RemoveAt(fs, i)) /\ Kept(RemoveAt(fs, i), l)
  BY <1>2, <1>9, <1>10, RemoveKeeps
<1>12. QED
  BY <1>8, <1>11 DEF l

LEMMA OrderInvNext ==
    ASSUME UNCHANGED server, Ordered(fetches'), Kept(fetches', list')
    PROVE  OrderInv'
<1>2. Ordered(fetches)'
  BY DEF Ordered, server
<1>3. Kept(fetches, list)'
  BY DEF Kept, Shows, server
<1>4. QED
  BY <1>2, <1>3 DEF OrderInv

LEMMA StartPollingKeeps ==
    ASSUME NEW fs \in Seq(Fetch), NEW l, Ordered(fs), Kept(fs, l), StartPolling(fs)
    PROVE  Ordered(fetches') /\ Kept(fetches', l)
<1>1. CASE polling
  BY <1>1 DEF StartPolling
<1>2. CASE ~polling
  <2>1. fetches' = Append(fs, NewFetch("poll"))
    BY <1>2 DEF StartPolling
  <2>2. Ordered(Append(fs, NewFetch("poll"))) /\ Kept(Append(fs, NewFetch("poll")), l)
    BY AppendKeeps
  <2>3. QED
    BY <2>1, <2>2
<1>3. QED
  BY <1>1, <1>2

\* A row that is written is new to every snapshot and to the list, or no longer open.
LEMMA WriteKeeps ==
    ASSUME IInv, OrderInv, NEW p \in Periods, Write(p)
    PROVE  OrderInv'
<1>1. fetches' = fetches /\ list' = list
  BY DEF Write
<1>2. ASSUME NEW q \in Periods, srv'[q].open
      PROVE  srv[q].open \/ (~Shows(list, q) /\ \A i \in DOMAIN fetches : fetches[i].rows[q] = 0)
  <2>1. CASE q # p \/ Ended(p)
    BY <1>2, <2>1 DEF Write, Started, Ended, IInv, TypeOK
  <2>2. CASE q = p /\ Started(p)
    <3>1. srv[q].ver = 0
      BY <2>2 DEF Started
    <3>2. ~Shows(list, q)
      <4>1. list[q] # None => list[q].ver <= 0 /\ list[q].ver \in Nat \ {0}
        BY <3>1 DEF IInv, TypeOK, Sound, Entry
      <4>2. QED
        BY <4>1 DEF Shows
    <3>3. ASSUME NEW i \in DOMAIN fetches PROVE fetches[i].rows[q] = 0
      <4>1. fetches[i] \in Fetch
        BY DEF IInv, TypeOK
      <4>2. fetches[i].rows[q] \in Nat /\ fetches[i].rows[q] <= 0
        BY <3>1, <4>1 DEF Fetch, IInv, FetchInv
      <4>3. QED
        BY <4>2
    <3>4. QED
      BY <3>2, <3>3
  <2>3. QED
    BY <2>1, <2>2 DEF Write
<1>3. Ordered(fetches)'
  <2> SUFFICES ASSUME NEW i \in DOMAIN fetches, NEW j \in DOMAIN fetches, NEW q \in Periods, i < j,
                      fetches[j].read, q \notin fetches[j].stale, fetches[j].rows[q] = 0
               PROVE  fetches[i].read /\ (srv'[q].open => fetches[i].rows[q] = 0)
    BY <1>1 DEF Ordered
  <2>1. fetches[i].read /\ (srv[q].open => fetches[i].rows[q] = 0)
    BY DEF OrderInv, Ordered
  <2>2. QED
    BY <1>2, <2>1
<1>4. Kept(fetches, list)'
  BY <1>1, <1>2 DEF OrderInv, Kept, Shows
<1>5. QED
  BY <1>3, <1>4 DEF OrderInv

\* The snapshot that is read lacks an open period only if it is marked as stale.
LEMMA ReadKeeps ==
    ASSUME IInv, OrderInv, NEW i \in DOMAIN fetches, ReadSnapshot(i)
    PROVE  Ordered(fetches') /\ Kept(fetches', list)
<1>1. /\ DOMAIN fetches' = DOMAIN fetches /\ ~fetches[i].read
      /\ fetches' = [fetches EXCEPT ![i] =
                        [fetches[i] EXCEPT !.read = TRUE, !.stale = Stale(i), !.rows = Answer]]
  BY DEF ReadSnapshot, Answer
<1>2. fetches[i] \in Fetch /\ \A j \in DOMAIN fetches : j \in Nat /\ 1 <= j
  BY DEF IInv, TypeOK
<1>3. fetches'[i].read /\ fetches'[i].rows = Answer /\ fetches'[i].stale = Stale(i)
  BY <1>1, <1>2 DEF Fetch
<1>4. \A j \in DOMAIN fetches : j # i => fetches'[j] = fetches[j]
  BY <1>1
<1>5. ASSUME NEW p \in Periods, p \notin Stale(i), Answer[p] = 0
      PROVE  /\ ~srv[p].open
             /\ \A j \in 1..(i - 1) : fetches[j].read
  <2>1. ~idx[p].open
    BY <1>5 DEF Answer, IInv, RowInv
  <2>2. QED
    BY <1>5, <2>1 DEF Stale
<1>6. ASSUME NEW p \in Periods, p \notin Stale(i), Answer[p] = 0, NEW j \in DOMAIN fetches, j < i
      PROVE  fetches[j].read
  <2>1. j \in 1..(i - 1)
    BY <1>2, <1>6
  <2>2. QED
    BY <1>5, <1>6, <2>1
<1>7. Ordered(fetches')
  <2> SUFFICES ASSUME NEW j \in DOMAIN fetches, NEW k \in DOMAIN fetches, NEW p \in Periods, j < k,
                      fetches'[k].read, p \notin fetches'[k].stale, fetches'[k].rows[p] = 0
               PROVE  fetches'[j].read /\ (srv[p].open => fetches'[j].rows[p] = 0)
    BY <1>1 DEF Ordered
  <2>1. CASE k = i
    <3>1. j # i /\ fetches[j].read /\ ~srv[p].open
      BY <1>2, <1>3, <1>5, <1>6, <2>1
    <3>2. QED
      BY <1>4, <3>1
  <2>2. CASE k # i
    <3>1. fetches[j].read /\ (srv[p].open => fetches[j].rows[p] = 0)
      BY <1>4, <2>2 DEF OrderInv, Ordered
    <3>2. j # i
      BY <1>1, <3>1
    <3>3. QED
      BY <1>4, <3>1, <3>2
  <2>3. QED
    BY <2>1, <2>2
<1>8. Kept(fetches', list)
  <2> SUFFICES ASSUME NEW j \in DOMAIN fetches, NEW p \in Periods, srv[p].open, Shows(list, p),
                      fetches'[j].read, p \notin fetches'[j].stale, fetches'[j].rows[p] = 0
               PROVE  p \in fetches'[j].since
    BY <1>1 DEF Kept
  <2>1. j # i
    BY <1>3, <1>5
  <2>2. QED
    BY <1>4, <2>1 DEF OrderInv, Kept
<1>9. QED
  BY <1>7, <1>8

LEMMA OrderStep ==
    ASSUME IInv, OrderInv, [Next]_vars
    PROVE  OrderInv'
<1>1. Ordered(fetches) /\ Kept(fetches, list) /\ fetches \in Seq(Fetch)
  BY DEF OrderInv, IInv, TypeOK
<1>2. CASE UNCHANGED <<server, list, fetches>>
  BY <1>1, <1>2, OrderInvNext
<1>3. ASSUME NEW S, Hear(S), UNCHANGED server PROVE OrderInv'
  <2>1. Ordered(fetches') /\ Kept(fetches', list')
    BY <1>1, <1>3, HearKeeps DEF Hear
  <2>2. QED
    BY <1>3, <2>1, OrderInvNext
<1>4. ASSUME NEW kind \in {"poll", "resync"}, fetches' = Append(fetches, NewFetch(kind)),
             UNCHANGED <<server, list>>
      PROVE  OrderInv'
  <2>1. Ordered(fetches') /\ Kept(fetches', list)
    BY <1>1, <1>4, AppendKeeps
  <2>2. QED
    BY <1>4, <2>1, OrderInvNext
<1>5. CASE Network
  <2>1. ASSUME NEW m \in net, NEW again \in BOOLEAN, Deliver(m, again) PROVE OrderInv'
    <3>1. UNCHANGED server
      BY <2>1 DEF Deliver
    <3>2. PICK heard : UNCHANGED <<list, fetches>> \/ Hear({heard})
      BY <2>1 DEF Deliver
    <3>3. QED
      BY <1>2, <1>3, <3>1, <3>2
  <2>2. ASSUME NEW m \in replies, OwnResult(m) PROVE OrderInv'
    BY <1>3, <2>2 DEF OwnResult
  <2>3. ASSUME NEW p \in Periods, Replicate(p) PROVE OrderInv'
    BY <2>3 DEF Replicate, OrderInv, Ordered, Kept
  <2>4. ASSUME NEW m \in net, Lose(m) PROVE OrderInv'
    BY <1>2, <2>4 DEF Lose
  <2>5. QED
    BY <1>5, <2>1, <2>2, <2>3, <2>4, WriteKeeps DEF Network
<1>6. CASE Snapshots
  <2>1. CASE Poll
    BY <1>4, <2>1 DEF Poll
  <2>2. CASE ResyncTimer
    BY <1>4, <2>2 DEF ResyncTimer, Resync
  <2>3. ASSUME NEW i \in DOMAIN fetches, ReadSnapshot(i) PROVE OrderInv'
    <3>1. UNCHANGED <<server, list>>
      BY <2>3 DEF ReadSnapshot
    <3>2. QED
      BY <2>3, <3>1, ReadKeeps, OrderInvNext
  <2>4. ASSUME NEW i \in DOMAIN fetches, PollArrives(i) PROVE OrderInv'
    <3>1. /\ UNCHANGED server /\ fetches' = Rest(i)
          /\ list' = ApplySnapshot(list, fetches[i])
      BY <2>4 DEF PollArrives
    <3>2. Ordered(fetches') /\ Kept(fetches', list')
      BY <3>1, RestKeeps
    <3>3. QED
      BY <3>1, <3>2, OrderInvNext
  <2>5. ASSUME NEW i \in DOMAIN fetches, ResyncArrives(i) PROVE OrderInv'
    <3>1. PICK l, fs : l = ApplySnapshot(list, fetches[i]) /\ fs = Rest(i)
      OBVIOUS
    <3>2. PICK S : S = Replayed(fs)
      OBVIOUS
    <3>3. /\ UNCHANGED server /\ list' = Apply(l, S) /\ fetches' = Stamped(fs, Touched(l, S))
      BY <2>5, <3>1, <3>2 DEF ResyncArrives
    <3>4. fs \in Seq(Fetch) /\ Ordered(fs) /\ Kept(fs, l)
      BY <3>1, RestKeeps, RestFacts
    <3>5. Ordered(fetches') /\ Kept(fetches', list')
      BY <3>3, <3>4, HearKeeps
    <3>6. QED
      BY <3>3, <3>5, OrderInvNext
  <2>6. ASSUME NEW i \in DOMAIN fetches
        PROVE  /\ RemoveAt(fetches, i) \in Seq(Fetch)
               /\ Ordered(RemoveAt(fetches, i)) /\ Kept(RemoveAt(fetches, i), list)
    BY <1>1, RemoveAtFacts, RemoveKeeps DEF Kept
  <2>7. ASSUME NEW i \in DOMAIN fetches, PollFails(i) PROVE OrderInv'
    <3>1. UNCHANGED <<server, list>> /\ fetches' = RemoveAt(fetches, i)
      BY <2>7 DEF PollFails
    <3>2. QED
      BY <2>6, <3>1, OrderInvNext
  <2>8. ASSUME NEW i \in DOMAIN fetches, ResyncFails(i) PROVE OrderInv'
    <3>1. PICK fs : fs = RemoveAt(fetches, i)
      OBVIOUS
    <3>2. PICK S : S = Replayed(fs)
      OBVIOUS
    <3>3. PICK gs : gs = Stamped(fs, Touched(list, S))
      OBVIOUS
    <3>4. UNCHANGED server /\ list' = Apply(list, S) /\ StartPolling(gs)
      BY <2>8, <3>1, <3>2, <3>3 DEF ResyncFails
    <3>5. fs \in Seq(Fetch) /\ Ordered(fs) /\ Kept(fs, list)
      BY <2>6, <3>1
    <3>6. gs \in Seq(Fetch)
      <4>1. Touched(list, S) \in SUBSET Periods
        BY DEF Touched
      <4>2. QED
        BY <3>3, <3>5, <4>1, StampedFacts
    <3>7. Ordered(gs) /\ Kept(gs, list')
      BY <3>3, <3>4, <3>5, HearKeeps
    <3>8. Ordered(fetches') /\ Kept(fetches', list')
      BY <3>4, <3>6, <3>7, StartPollingKeeps
    <3>9. QED
      BY <3>4, <3>8, OrderInvNext
  <2>9. QED
    BY <1>6, <2>1, <2>2, <2>3, <2>4, <2>5, <2>7, <2>8 DEF Snapshots
<1>7. CASE Channel
  <2>1. CASE Settle \/ Restart
    <3>1. UNCHANGED <<server, list>>
      BY <2>1 DEF Settle, Restart
    <3>2. fetches' = <<>> \/ fetches' = <<NewFetch("poll")>>
      BY <2>1 DEF Settle, Restart, Enter
    <3>3. \A j \in DOMAIN fetches' : ~fetches'[j].read
      BY <3>2 DEF NewFetch
    <3>4. Ordered(fetches') /\ Kept(fetches', list')
      BY <3>3 DEF Ordered, Kept
    <3>5. QED
      BY <3>1, <3>4, OrderInvNext
  <2>2. CASE Attached
    BY <1>4, <2>2 DEF Attached, Resync
  <2>3. CASE Resumed \/ Reattaching \/ ConnectionReturns
    BY <1>2, <2>3 DEF Resumed, Reattaching, ConnectionReturns
  <2>4. CASE ChannelFails \/ ConnectionDrops
    <3>1. UNCHANGED <<server, list>> /\ StartPolling(fetches)
      BY <2>4 DEF ChannelFails, ConnectionDrops
    <3>2. Ordered(fetches') /\ Kept(fetches', list')
      BY <1>1, <3>1, StartPollingKeeps
    <3>3. QED
      BY <3>1, <3>2, OrderInvNext
  <2>5. QED
    BY <1>7, <2>1, <2>2, <2>3, <2>4 DEF Channel
<1>8. CASE DayPasses
  <2>1. UNCHANGED server /\ fetches' = <<>>
    BY <1>8 DEF DayPasses, server
  <2>2. Ordered(fetches') /\ Kept(fetches', list')
    BY <2>1 DEF Ordered, Kept
  <2>3. QED
    BY <2>1, <2>2, OrderInvNext
<1>9. CASE UNCHANGED vars
  BY <1>2, <1>9 DEF vars
<1>10. QED
  BY <1>5, <1>6, <1>7, <1>8, <1>9 DEF Next

\* No message under way is newer than an entry for a period that is open.
LEMMA MessagesKeepShown ==
    ASSUME TypeOK, RowInv, NEW l \in [Periods -> Entry \cup {None}], Sound(l), NEW S, Honest(S),
           NEW p \in Periods, srv[p].open, Shows(l, p)
    PROVE  Shows(Apply(l, S), p)
<1>1. srv[p].ver = 1 /\ l[p] # None /\ l[p].ver = 1
  BY DEF RowInv, Sound, Shows
<1>2. ASSUME NEW m \in S, m.p = p PROVE m.ver \in 0..1
  BY <1>1, <1>2 DEF Honest, Message
<1>3. \A m \in S : ~(m.p = p /\ (l[p] = None \/ l[p].ver < m.ver))
  BY <1>1, <1>2
<1>4. Apply(l, S)[p] = l[p]
  BY <1>2, <1>3, ApplyFacts
<1>5. QED
  BY <1>4 DEF Shows

LEMMA SnapshotKeepsShown ==
    ASSUME OrderInv, NEW i \in DOMAIN fetches, fetches[i] \in Fetch, fetches[i].read,
           NEW p \in Periods, p \notin fetches[i].stale, srv[p].open, Shows(list, p)
    PROVE  Shows(ApplySnapshot(list, fetches[i]), p)
<1>1. PICK f : f = fetches[i]
  OBVIOUS
<1>2. f.rows[p] \in Nat
  BY <1>1 DEF Fetch
<1>3. CASE p \in Taken(list, f)
  <2>1. ApplySnapshot(list, f)[p] = [ver |-> f.rows[p], open |-> TRUE, old |-> FALSE]
    BY <1>3 DEF ApplySnapshot, EntryOf
  <2>2. [ver |-> f.rows[p], open |-> TRUE, old |-> FALSE] \in Entry
    BY <1>2, <1>3 DEF Entry, Taken
  <2>3. QED
    BY <1>1, <2>1, <2>2, ConstantsAssumption DEF Shows, Entry
<1>4. CASE p \notin Taken(list, f)
  <2>1. f.rows[p] > 0 \/ Survives(list, f, p)
    BY <1>1, <1>2 DEF OrderInv, Kept, Survives, Shows
  <2>2. ApplySnapshot(list, f)[p] = list[p]
    BY <1>4, <2>1 DEF ApplySnapshot, Pruned, Tombstone, Shows
  <2>3. QED
    BY <1>1, <2>2 DEF Shows
<1>5. QED
  BY <1>3, <1>4

LEMMA ShownStays ==
    ASSUME IInv, OrderInv, Next, NEW p \in Periods, Shown(p), srv'[p].open,
           \A i \in DOMAIN fetches : PollArrives(i) \/ ResyncArrives(i) => p \notin fetches[i].stale
    PROVE  Shown(p)'
<1>1. Shows(list, p) /\ list \in [Periods -> Entry \cup {None}]
  BY DEF Shown, Shows, IInv, TypeOK
<1> SUFFICES Shows(list', p)
  BY DEF Shown, Shows
<1>2. CASE UNCHANGED list
  BY <1>1, <1>2
<1>3. ASSUME NEW S, Honest(S), Hear(S), UNCHANGED server PROVE Shows(list', p)
  BY <1>1, <1>3, MessagesKeepShown DEF Hear, IInv, server
<1>4. CASE Network
  <2>1. ASSUME NEW m \in net, NEW again \in BOOLEAN, Deliver(m, again) PROVE Shows(list', p)
    <3>1. UNCHANGED server
      BY <2>1 DEF Deliver
    <3>2. PICK v \in IF m.open THEN {m.ver} ELSE (m.ver)..(srv[m.p].ver) :
              UNCHANGED list \/ Hear({[m EXCEPT !.ver = v]})
      BY <2>1 DEF Deliver
    <3>3. /\ m \in Message /\ 1 <= m.ver /\ m.ver <= srv[m.p].ver /\ (m.open <=> m.ver = 1)
          /\ m.ver \in Nat /\ srv[m.p].ver \in Nat
      BY DEF IInv, TypeOK, MessageInv, Honest, Message, Stored
    <3>4. v \in Nat /\ m.ver <= v /\ v <= srv[m.p].ver /\ (m.open <=> v = 1)
      BY <3>3
    <3>5. Honest({[m EXCEPT !.ver = v]})
      BY <3>3, <3>4 DEF Honest, Message
    <3>6. QED
      BY <1>2, <1>3, <3>1, <3>2, <3>5
  <2>2. ASSUME NEW m \in replies, OwnResult(m) PROVE Shows(list', p)
    <3>1. Honest({m})
      BY DEF IInv, MessageInv, Honest
    <3>2. QED
      BY <1>3, <2>2, <3>1 DEF OwnResult
  <2>3. QED
    BY <1>2, <1>4, <2>1, <2>2 DEF Network, Write, Replicate, Lose
<1>5. CASE Snapshots
  <2>1. \A i \in DOMAIN fetches : fetches[i] \in Fetch
    BY DEF IInv, TypeOK
  <2>2. ASSUME NEW i \in DOMAIN fetches, PollArrives(i) PROVE Shows(list', p)
    <3>1. /\ fetches[i].read /\ srv[p].open /\ p \notin fetches[i].stale
          /\ list' = ApplySnapshot(list, fetches[i])
      BY <2>2 DEF PollArrives, server
    <3>2. QED
      BY <1>1, <2>1, <3>1, SnapshotKeepsShown
  <2>3. ASSUME NEW i \in DOMAIN fetches, ResyncArrives(i) PROVE Shows(list', p)
    <3>1. PICK l : l = ApplySnapshot(list, fetches[i])
      OBVIOUS
    <3>2. PICK S : S = Replayed(Rest(i))
      OBVIOUS
    <3>3. fetches[i].read /\ srv[p].open /\ p \notin fetches[i].stale /\ list' = Apply(l, S)
      BY <2>3, <3>1, <3>2 DEF ResyncArrives, server
    <3>4. Shows(l, p)
      BY <1>1, <2>1, <3>1, <3>3, SnapshotKeepsShown
    <3>5. l \in [Periods -> Entry \cup {None}] /\ Sound(l)
      BY <3>1, FollowsSnapshot DEF Follows
    <3>6. Honest(S)
      BY <3>2, ReplayedFacts
    <3>7. QED
      BY <3>3, <3>4, <3>5, <3>6, MessagesKeepShown DEF IInv
  <2>4. ASSUME NEW i \in DOMAIN fetches, ResyncFails(i) PROVE Shows(list', p)
    <3>1. PICK S : S = Replayed(RemoveAt(fetches, i))
      OBVIOUS
    <3>2. srv[p].open /\ list' = Apply(list, S)
      BY <2>4, <3>1 DEF ResyncFails, server
    <3>3. Honest(S)
      BY <3>1, ReplayedFacts
    <3>4. QED
      BY <1>1, <3>2, <3>3, MessagesKeepShown DEF IInv
  <2>5. QED
    BY <1>2, <1>5, <2>2, <2>3, <2>4 DEF Snapshots, Poll, ResyncTimer, ReadSnapshot, PollFails
<1>6. CASE Channel
  BY <1>2, <1>6 DEF Channel, Settle, Restart, Attached, Resumed, Reattaching, ChannelFails,
                    ConnectionDrops, ConnectionReturns
<1>7. CASE DayPasses
  <2>1. list' = [q \in Periods |-> IF Tombstone(list[q]) THEN [list[q] EXCEPT !.old = TRUE]
                                   ELSE list[q]]
    BY <1>7 DEF DayPasses
  <2>2. QED
    BY <1>1, <2>1 DEF Shows, Tombstone
<1>8. QED
  BY <1>4, <1>5, <1>6, <1>7 DEF Next

\* Someone who is shown and still signed in does not vanish from the list for a moment,
\* whichever polls, resyncs, own results and messages cross (receivedAt > requestedAt in
\* applySnapshot), unless a snapshot lacks them because the index was behind on that row, or an
\* earlier request unserved, when it was read.
THEOREM FlickerFree == Spec => NoFlicker
<1>1. Init => IInv /\ OrderInv
  <2>1. Init => OrderInv
    BY DEF Init, OrderInv, Ordered, Kept
  <2>2. QED
    BY <2>1, InitIInv
<1>2. IInv /\ OrderInv /\ [Next]_vars => (IInv /\ OrderInv)'
  BY StepPreserves, OrderStep DEF Preserved
<1>3. IInv /\ OrderInv /\ [Next]_vars
        => [\A p \in Periods :
              Shown(p) /\ srv'[p].open /\ ~Shown(p)' =>
                  \E i \in DOMAIN fetches :
                      p \in fetches[i].stale /\ (PollArrives(i) \/ ResyncArrives(i))]_vars
  BY ShownStays
<1>4. QED
  BY <1>1, <1>2, <1>3, PTL DEF Spec, NoFlicker
=============================================================================
