---------------------------- MODULE PeriodsProofs ----------------------------
(***************************************************************************)
(* What TLAPS proves of Periods, for any number of periods, members, units,  *)
(* handlers, calls and failures, whether or not the person index lags.       *)
(***************************************************************************)
EXTENDS Periods, TLAPS

-----------------------------------------------------------------------------
(* The inductive invariant.  What the indexes need to know of a row: *)

RowOK(r) ==
    /\ r.ver = 0 => r = NoRow
    /\ Exists(r) => r.loc \in Units
    /\ IsOpen(r) => r.ver = 1
    /\ r.open = IF IsOpen(r) THEN r.loc ELSE None
    /\ Exists(r) /\ ~r.del => r.live = r.loc

RowInv == \A p \in Ids : RowOK(row[p])

\* A call works on a period that exists, has what its write and its messages need, and the
\* row it has seen is an earlier state of that period.
Changing == Closings \cup Edits

Looking(c) == c.op \in {"scan", "self_in"} /\ c.who \in Members /\ c.loc \in Units

Reading(c) ==
    /\ c.op \in Changing
    /\ c.op = "edit" => c.who \in Members /\ c.loc \in Units
    /\ c.p \in Ids
    /\ Exists(c.seen) /\ RowOK(c.seen) /\ c.seen.ver <= row[c.p].ver
    /\ c.seen.ver = row[c.p].ver => c.seen = row[c.p]
    /\ c.at = "write" /\ c.before => row[c.p].ended

Writing(c) ==
    /\ c.p \in Ids
    /\ 1 <= c.ver /\ c.ver <= row[c.p].ver
    /\ \/ c.op \in Openings /\ c.loc \in Units /\ c.ver = 1
       \/ c.op = "create" /\ c.ver = 1
       \/ c.op \in Changing /\ Exists(c.seen) /\ RowOK(c.seen) /\ c.ver > 1

CallOK(c) ==
    /\ c.at = "start" => Looking(c)
    /\ c.at \in {"before", "write"} => Reading(c)
    /\ c.at \in {"record", "tell"} => Writing(c)

CallInv == \A x \in Handlers : CallOK(call[x])

IInv == TypeOK /\ RowInv /\ CallInv

-----------------------------------------------------------------------------
(* The rows *)

LEMMA NoRowFacts == NoRow \in Row /\ RowOK(NoRow) /\ ~Exists(NoRow) /\ NoRow.ver = 0 /\ ~NoRow.del
BY ConstantsAssumption DEF NoRow, Row, RowOK, Exists, IsOpen

\* One field at a time a row stays a row.
LEMMA RowExcept ==
    /\ \A r \in Row, v \in Nat : [r EXCEPT !.ver = v] \in Row
    /\ \A r \in Row, v \in Members \cup {Guest, None} : [r EXCEPT !.who = v] \in Row
    /\ \A r \in Row, v \in Units \cup {None} : [r EXCEPT !.loc = v] \in Row
    /\ \A r \in Row, v \in Units \cup {None} : [r EXCEPT !.open = v] \in Row
    /\ \A r \in Row, v \in Units \cup {None} : [r EXCEPT !.live = v] \in Row
    /\ \A r \in Row, v \in BOOLEAN : [r EXCEPT !.ended = v] \in Row
    /\ \A r \in Row, v \in BOOLEAN : [r EXCEPT !.del = v] \in Row
<1>1. \A r \in Row, v \in Nat : [r EXCEPT !.ver = v] \in Row
  BY DEF Row
<1>2. \A r \in Row, v \in Members \cup {Guest, None} : [r EXCEPT !.who = v] \in Row
  BY DEF Row
<1>3. \A r \in Row, v \in Units \cup {None} : [r EXCEPT !.loc = v] \in Row
  BY DEF Row
<1>4. \A r \in Row, v \in Units \cup {None} : [r EXCEPT !.open = v] \in Row
  BY DEF Row
<1>5. \A r \in Row, v \in Units \cup {None} : [r EXCEPT !.live = v] \in Row
  BY DEF Row
<1>6. \A r \in Row, v \in BOOLEAN : [r EXCEPT !.ended = v] \in Row
  BY DEF Row
<1>7. \A r \in Row, v \in BOOLEAN : [r EXCEPT !.del = v] \in Row
  BY DEF Row
<1>8. QED
  BY <1>1, <1>2, <1>3, <1>4, <1>5, <1>6, <1>7

\* The rows that are put first.
LEMMA StartedFacts ==
    ASSUME NEW m \in Members, NEW u \in Units
    PROVE  /\ Started(m, u) \in Row /\ RowOK(Started(m, u))
           /\ Started(m, u).ver = 1 /\ IsOpen(Started(m, u)) /\ Started(m, u).loc = u
<1>1. Started(m, u) \in Row
  BY NoRowFacts, RowExcept DEF Started
<1>2. QED
  BY <1>1 DEF Started, NoRow, RowOK, Exists, IsOpen

LEMMA GuestStartedFacts ==
    ASSUME NEW u \in Units
    PROVE  /\ GuestStarted(u) \in Row /\ RowOK(GuestStarted(u))
           /\ GuestStarted(u).ver = 1 /\ IsOpen(GuestStarted(u)) /\ GuestStarted(u).loc = u
<1>1. GuestStarted(u) \in Row
  BY NoRowFacts, RowExcept DEF GuestStarted
<1>2. QED
  BY <1>1 DEF GuestStarted, NoRow, RowOK, Exists, IsOpen

LEMMA CreatedFacts ==
    ASSUME NEW m \in Members, NEW u \in Units
    PROVE  /\ Created(m, u) \in Row /\ RowOK(Created(m, u))
           /\ Created(m, u).ver = 1 /\ Created(m, u).ended
<1>1. Created(m, u) \in Row
  BY NoRowFacts, RowExcept DEF Created
<1>2. QED
  BY <1>1 DEF Created, NoRow, RowOK, Exists, IsOpen

\* Every later write leaves a closed row, a version on, that the indexes agree with.
Follows(r, s) ==
    /\ s \in Row /\ RowOK(s)
    /\ s.ver = r.ver + 1 /\ ~IsOpen(s)
    /\ r.ended => s.ended

LEMMA ChangedFacts ==
    ASSUME NEW r \in Row, Exists(r), RowOK(r)
    PROVE  /\ Follows(r, Ended(r))
           /\ \A m \in Members, u \in Units : Follows(r, Fields(r, m, u))
           /\ Follows(r, Deleted(r))
<1>1. r.ver \in Nat /\ r.ver + 1 \in Nat /\ r.loc \in Units
  BY DEF Row, RowOK, Exists
<1>2. Ended(r) \in Row
  BY <1>1, RowExcept DEF Ended
<1>3. Follows(r, Ended(r))
  BY <1>1, <1>2 DEF Follows, Ended, Row, RowOK, Exists, IsOpen
<1>4. ASSUME NEW m \in Members, NEW u \in Units PROVE Follows(r, Fields(r, m, u))
  <2>1. Fields(r, m, u) \in Row
    BY <1>2, RowExcept DEF Fields
  <2>2. /\ Fields(r, m, u).ver = r.ver + 1 /\ Fields(r, m, u).ended
        /\ Fields(r, m, u).open = None /\ Fields(r, m, u).loc = u /\ Fields(r, m, u).live = u
    BY <1>1 DEF Fields, Ended, Row
  <2>3. QED
    BY <1>1, <2>1, <2>2 DEF Follows, RowOK, Exists, IsOpen
<1>5. Deleted(r) \in Row
  BY <1>1, RowExcept DEF Deleted
<1>6. Follows(r, Deleted(r))
  BY <1>1, <1>5 DEF Follows, Deleted, Row, RowOK, Exists, IsOpen
<1>7. QED
  BY <1>3, <1>4, <1>6

LEMMA NewRowFacts ==
    ASSUME NEW r \in Row, Exists(r), RowOK(r), NEW c, c.op \in Changing,
           c.op = "edit" => c.who \in Members /\ c.loc \in Units
    PROVE  Follows(r, NewRow(c, r))
<1>1. CASE c.op \in {"kiosk_out", "self_out", "edit_time", "guest_out", "edit_guest"}
  <2>1. NewRow(c, r) = Ended(r)
    BY <1>1 DEF NewRow, TimeCategory, GuestFields
  <2>2. QED
    BY <2>1, ChangedFacts
<1>2. CASE c.op = "edit"
  <2>1. NewRow(c, r) = Fields(r, c.who, c.loc)
    BY <1>2 DEF NewRow
  <2>2. QED
    BY <1>2, <2>1, ChangedFacts
<1>3. CASE c.op = "delete"
  <2>1. NewRow(c, r) = Deleted(r)
    BY <1>3 DEF NewRow
  <2>2. QED
    BY <2>1, ChangedFacts
<1>4. QED
  BY <1>1, <1>2, <1>3 DEF Changing, Closings, Edits

-----------------------------------------------------------------------------
(* The steps *)

LEMMA IdleFacts == Idle \in Call /\ CallOK(Idle) /\ Idle.at = "idle" /\ Idle.op = None
BY NoRowFacts DEF Idle, Call, CallOK

LEMMA CallExcept ==
    /\ \A c \in Call, v \in Ops \cup {None} : [c EXCEPT !.op = v] \in Call
    /\ \A c \in Call, v \in {"idle", "start", "before", "write", "record", "tell"} :
          [c EXCEPT !.at = v] \in Call
    /\ \A c \in Call, v \in Ids \cup {None} : [c EXCEPT !.p = v] \in Call
    /\ \A c \in Call, v \in Members \cup {Guest, None} : [c EXCEPT !.who = v] \in Call
    /\ \A c \in Call, v \in Units \cup {None} : [c EXCEPT !.loc = v] \in Call
    /\ \A c \in Call, v \in Row : [c EXCEPT !.seen = v] \in Call
    /\ \A c \in Call, v \in BOOLEAN : [c EXCEPT !.before = v] \in Call
    /\ \A c \in Call, v \in Nat : [c EXCEPT !.ver = v] \in Call
<1>1. \A c \in Call, v \in Ops \cup {None} : [c EXCEPT !.op = v] \in Call
  BY DEF Call
<1>2. \A c \in Call, v \in {"idle", "start", "before", "write", "record", "tell"} :
          [c EXCEPT !.at = v] \in Call
  BY DEF Call
<1>3. \A c \in Call, v \in Ids \cup {None} : [c EXCEPT !.p = v] \in Call
  BY DEF Call
<1>4. \A c \in Call, v \in Members \cup {Guest, None} : [c EXCEPT !.who = v] \in Call
  BY DEF Call
<1>5. \A c \in Call, v \in Units \cup {None} : [c EXCEPT !.loc = v] \in Call
  BY DEF Call
<1>6. \A c \in Call, v \in Row : [c EXCEPT !.seen = v] \in Call
  BY DEF Call
<1>7. \A c \in Call, v \in BOOLEAN : [c EXCEPT !.before = v] \in Call
  BY DEF Call
<1>8. \A c \in Call, v \in Nat : [c EXCEPT !.ver = v] \in Call
  BY DEF Call
<1>9. QED
  BY <1>1, <1>2, <1>3, <1>4, <1>5, <1>6, <1>7, <1>8

\* A row only goes forward, and stays ended.
Advances ==
    \A p \in Ids : \/ row'[p] = row[p]
                   \/ row[p].ver < row'[p].ver /\ (row[p].ended => row'[p].ended)

\* So what a call has in hand stays good while others go on.
LEMMA CallKept ==
    ASSUME TypeOK, TypeOK', Advances, NEW y \in Handlers, CallOK(call[y]), call'[y] = call[y]
    PROVE  CallOK(call[y])'
<1> DEFINE c == call[y]
<1>1. c \in Call /\ c.seen \in Row /\ c.seen.ver \in Nat /\ c.ver \in Nat
  BY DEF TypeOK, Call, Row
<1>2. \A p \in Ids : row[p].ver \in Nat /\ row'[p].ver \in Nat
  BY DEF TypeOK, Row
<1>3. CASE c.at \in {"before", "write"}
  <2>1. Reading(c)
    BY <1>3 DEF CallOK
  <2>2. Reading(c)'
    BY <1>1, <1>2, <2>1 DEF Reading, Advances
  <2>3. QED
    BY <1>3, <2>2 DEF CallOK
<1>4. CASE c.at \in {"record", "tell"}
  <2>1. Writing(c)
    BY <1>4 DEF CallOK
  <2>2. Writing(c)'
    BY <1>1, <1>2, <2>1 DEF Writing, Advances
  <2>3. QED
    BY <1>4, <2>2 DEF CallOK
<1>5. CASE c.at \notin {"before", "write", "record", "tell"}
  BY <1>5 DEF CallOK, Looking
<1>6. QED
  BY <1>3, <1>4, <1>5

\* A call that writes no row goes on to c.
LEMMA GoesTo ==
    ASSUME IInv, NEW x \in Handlers, NEW c \in Call, CallOK(c),
           call' = [call EXCEPT ![x] = c], row' = row, idx' \in [Ids -> Row],
           log' \subseteq [p : Ids, ver : Nat, open : BOOLEAN], told' \subseteq Message,
           calls' \in Nat, failures' \in Nat
    PROVE  IInv'
<1>1. TypeOK'
  BY DEF IInv, TypeOK
<1>2. call'[x] = c /\ \A y \in Handlers : y # x => call'[y] = call[y]
  BY DEF IInv, TypeOK
<1>3. CallOK(call[x])'
  BY <1>2 DEF CallOK, Looking, Reading, Writing
<1>4. Advances
  BY DEF Advances
<1>5. \A y \in Handlers : y # x => CallOK(call[y])'
  BY <1>1, <1>2, <1>4, CallKept DEF IInv, CallInv
<1>6. QED
  BY <1>1, <1>3, <1>5 DEF IInv, RowInv, CallInv

\* A call writes row r.
Written(p, r, c) ==
    /\ r \in Row /\ RowOK(r) /\ r.ver = row[p].ver + 1
    /\ row[p].ended => r.ended
    /\ c \in Call
    /\ \/ c.op \in Openings /\ c.loc \in Units /\ row[p].ver = 0 /\ IsOpen(r) /\ r.loc = c.loc
       \/ c.op = "create" /\ row[p].ver = 0 /\ r.ended
       \/ c.op \in Changing /\ Exists(c.seen) /\ RowOK(c.seen) /\ row[p].ver > 0 /\ ~IsOpen(r)

LEMMA PutFacts ==
    ASSUME IInv, NEW x \in Handlers, NEW p \in Ids, NEW r, NEW c, Written(p, r, c), Put(x, p, r, c)
    PROVE  /\ row' = [row EXCEPT ![p] = r]
           /\ row'[p] = r /\ \A q \in Ids : q # p => row'[q] = row[q]
           /\ \A y \in Handlers : y # x => call'[y] = call[y]
           /\ call'[x] \in Call /\ call'[x].at = "record" /\ call'[x].p = p /\ call'[x].ver = r.ver
           /\ call'[x].op = c.op /\ call'[x].loc = c.loc /\ call'[x].seen = c.seen
           /\ call'[x].before = c.before
           /\ log' = log /\ told' = told /\ failures' = failures
           /\ Advances
<1> DEFINE d == [c EXCEPT !.at = "record", !.p = p, !.ver = r.ver]
<1>1. r.ver \in Nat /\ c \in Call
  BY DEF Written, Row
<1>2. d \in Call
  BY <1>1, CallExcept
<1>3. /\ d.at = "record" /\ d.p = p /\ d.ver = r.ver
      /\ d.op = c.op /\ d.loc = c.loc /\ d.seen = c.seen /\ d.before = c.before
  BY <1>1 DEF Call
<1>4. call' = [call EXCEPT ![x] = d] /\ row' = [row EXCEPT ![p] = r]
  BY DEF Put
<1> HIDE DEF d
<1>5. call'[x] = d /\ \A y \in Handlers : y # x => call'[y] = call[y]
  BY <1>4 DEF IInv, TypeOK
<1>6. row'[p] = r /\ \A q \in Ids : q # p => row'[q] = row[q]
  BY <1>4 DEF IInv, TypeOK
<1>7. row[p].ver \in Nat
  BY DEF IInv, TypeOK, Row
<1>8. Advances
  BY <1>6, <1>7 DEF Advances, Written
<1>9. log' = log /\ told' = told /\ failures' = failures
  BY DEF Put
<1>10. QED
  BY <1>2, <1>3, <1>4, <1>5, <1>6, <1>8, <1>9

LEMMA PutInv ==
    ASSUME IInv, NEW x \in Handlers, NEW p \in Ids, NEW r, NEW c, Written(p, r, c), Put(x, p, r, c),
           calls' \in Nat
    PROVE  IInv'
<1>1. row' \in [Ids -> Row]
  BY DEF IInv, TypeOK, Written, Put
<1>2. idx' \in [Ids -> Row]
  BY <1>1 DEF IInv, TypeOK, Put
<1>3. call' \in [Handlers -> Call]
  BY PutFacts DEF IInv, TypeOK, Put
<1>4. TypeOK'
  BY <1>1, <1>2, <1>3, PutFacts DEF IInv, TypeOK
<1>5. RowInv'
  BY PutFacts DEF IInv, RowInv, Written
<1>6. \A y \in Handlers : y # x => CallOK(call[y])'
  BY <1>4, PutFacts, CallKept DEF IInv, CallInv
<1>7. row[p].ver \in Nat /\ r.ver = row[p].ver + 1
  BY DEF IInv, TypeOK, Row, Written
<1>8. Writing(call[x])'
  BY <1>7, PutFacts DEF Writing, Written
<1>9. CallOK(call[x])'
  BY <1>8, PutFacts DEF CallOK
<1>10. QED
  BY <1>4, <1>5, <1>6, <1>9 DEF IInv, CallInv

\* The five steps that write a row.
Opens(x) ==
    \E p \in Ids :
        \/ StartPeriod(x, p)
        \/ \E u \in Units : GuestSignIn(x, p, u) \/ \E m \in Members : CreatePeriod(x, p, m, u)

LEMMA OpensFacts ==
    ASSUME IInv, NEW x \in Handlers, Opens(x)
    PROVE  \E p \in Ids : \E r, c : Written(p, r, c) /\ Put(x, p, r, c) /\ c.op \notin Changing
<1>1. PICK p \in Ids :
          \/ StartPeriod(x, p)
          \/ \E u \in Units : GuestSignIn(x, p, u) \/ \E m \in Members : CreatePeriod(x, p, m, u)
  BY DEF Opens
<1>2. call[x] \in Call /\ CallOK(call[x])
  BY DEF IInv, TypeOK, CallInv
<1>3. row[p].ver = 0
  BY <1>1 DEF StartPeriod, GuestSignIn, CreatePeriod, Fresh
<1>4. ~row[p].ended
  BY <1>3 DEF IInv, RowInv, RowOK, NoRow
<1>5. "scan" \notin Changing /\ "self_in" \notin Changing /\ "guest_in" \notin Changing /\ "create" \notin Changing
  BY DEF Changing, Closings, Edits
<1>6. CASE StartPeriod(x, p)
  <2> DEFINE c == call[x]
  <2>1. Looking(c)
    BY <1>2, <1>6 DEF StartPeriod, CallOK
  <2>2. Written(p, Started(c.who, c.loc), c)
    <3> DEFINE r == Started(c.who, c.loc)
    <3>1. r \in Row /\ RowOK(r) /\ r.ver = 1 /\ IsOpen(r) /\ r.loc = c.loc
      BY <2>1, StartedFacts DEF Looking
    <3> HIDE DEF r
    <3>2. c.op \in Openings /\ c.loc \in Units
      BY <2>1 DEF Looking, Openings
    <3>3. QED
      BY <1>2, <1>3, <1>4, <3>1, <3>2 DEF Written, r
  <2>3. Put(x, p, Started(c.who, c.loc), c)
    BY <1>6 DEF StartPeriod
  <2>4. QED
    BY <1>5, <2>1, <2>2, <2>3 DEF Looking
<1>7. ASSUME NEW u \in Units, GuestSignIn(x, p, u)
      PROVE  \E r, c : Written(p, r, c) /\ Put(x, p, r, c) /\ c.op \notin Changing
  <2> DEFINE c == [Idle EXCEPT !.op = "guest_in", !.loc = u]
  <2>1. c \in Call
    BY IdleFacts, CallExcept DEF Ops, Openings
  <2>2. c.op = "guest_in" /\ c.loc = u
    BY IdleFacts DEF Call
  <2>3. Put(x, p, GuestStarted(u), c)
    BY <1>7 DEF GuestSignIn
  <2> HIDE DEF c
  <2>4. Written(p, GuestStarted(u), c)
    <3>1. c.op \in Openings /\ c.loc = u
      BY <2>2 DEF Openings
    <3>2. QED
      BY <1>3, <1>4, <2>1, <3>1, GuestStartedFacts DEF Written
  <2>5. QED
    BY <1>5, <2>2, <2>3, <2>4
<1>8. ASSUME NEW u \in Units, NEW m \in Members, CreatePeriod(x, p, m, u)
      PROVE  \E r, c : Written(p, r, c) /\ Put(x, p, r, c) /\ c.op \notin Changing
  <2> DEFINE c == [Idle EXCEPT !.op = "create"]
  <2>1. c \in Call
    BY IdleFacts, CallExcept DEF Ops
  <2>2. c.op = "create"
    BY IdleFacts DEF Call
  <2>3. Put(x, p, Created(m, u), c)
    BY <1>8 DEF CreatePeriod
  <2> HIDE DEF c
  <2>4. Written(p, Created(m, u), c)
    BY <1>3, <1>4, <2>1, <2>2, CreatedFacts DEF Written
  <2>5. QED
    BY <1>5, <2>2, <2>3, <2>4
<1>9. QED
  BY <1>1, <1>6, <1>7, <1>8

LEMMA WriteFacts ==
    ASSUME IInv, NEW x \in Handlers, Write(x)
    PROVE  /\ call[x].at = "write" /\ Reading(call[x]) /\ call[x].p \in Ids
           /\ Put(x, call[x].p, NewRow(call[x], row[call[x].p]), call[x])
           /\ Written(call[x].p, NewRow(call[x], row[call[x].p]), call[x])
<1> DEFINE c == call[x]
           r == row[c.p]
<1>1. c.at = "write" /\ c \in Call /\ Reading(c)
  BY DEF IInv, TypeOK, CallInv, CallOK, Write
<1>2. r \in Row /\ RowOK(r) /\ r.ver \in Nat /\ c.seen \in Row /\ c.seen.ver \in Nat
  BY <1>1 DEF IInv, TypeOK, RowInv, Reading, Row, Call
<1>3. Exists(r)
  BY <1>1, <1>2 DEF Reading, Exists
<1>4. Follows(r, NewRow(c, r))
  BY <1>1, <1>2, <1>3, NewRowFacts DEF Reading
<1>5. Written(c.p, NewRow(c, r), c)
  BY <1>1, <1>3, <1>4 DEF Written, Follows, Reading, Exists
<1>6. QED
  BY <1>1, <1>5 DEF Write, Reading

LEMMA Counters ==
    ASSUME IInv
    PROVE  calls \in Nat /\ failures \in Nat
BY DEF IInv, TypeOK

\* The steps that read.
Looks(x) == \E m \in Members, u \in Units : ScanRegister(x, m, u) \/ SelfSignIn(x, m, u)

LEMMA LooksFacts ==
    ASSUME IInv, NEW x \in Handlers, Looks(x)
    PROVE  /\ call[x].at = "idle"
           /\ call'[x].at = "start"
           /\ UNCHANGED <<row, idx, log, told, failures>>
           /\ \A y \in Handlers : y # x => call'[y] = call[y]
           /\ IInv'
<1>1. PICK m \in Members, u \in Units, op \in {"scan", "self_in"} : LooksUp(x, op, m, u)
  BY DEF Looks, ScanRegister, SelfSignIn
<1> DEFINE c == [Idle EXCEPT !.op = op, !.at = "start", !.who = m, !.loc = u]
<1>2. op \in Ops \cup {None}
  BY DEF Ops, Openings
<1>3. c \in Call
  BY <1>2, IdleFacts, CallExcept
<1>4. c.op = op /\ c.at = "start" /\ c.who = m /\ c.loc = u
  BY IdleFacts DEF Call
<1>5. call' = [call EXCEPT ![x] = c] /\ UNCHANGED <<row, idx, log, told, failures>>
  BY <1>1 DEF LooksUp
<1>6. call[x].at = "idle" /\ calls' \in Nat
  <2>1. Begin(x)
    BY <1>1 DEF LooksUp
  <2>2. call[x].at = "idle" /\ calls' = calls + 1
    BY <2>1 DEF Begin
  <2>3. calls \in Nat
    BY Counters
  <2>4. calls' \in Nat
    BY <2>2, <2>3
  <2>5. QED
    BY <2>2, <2>4
<1> HIDE DEF c
<1>7. CallOK(c)
  BY <1>4 DEF CallOK, Looking
<1>8. IInv'
  BY <1>3, <1>5, <1>6, <1>7, GoesTo DEF IInv, TypeOK
<1>9. call'[x] = c /\ \A y \in Handlers : y # x => call'[y] = call[y]
  BY <1>5 DEF IInv, TypeOK
<1>10. QED
  BY <1>4, <1>5, <1>6, <1>8, <1>9

LEMMA ReadsFacts ==
    ASSUME IInv, NEW x \in Handlers, ReadPeriod(x)
    PROVE  /\ call[x].at = "idle"
           /\ call'[x].at \in {"before", "write"} /\ call'[x].op \in Changing
           /\ ~call'[x].before /\ call'[x].p \in Ids /\ call'[x].seen = row[call'[x].p]
           /\ UNCHANGED <<row, idx, log, told, failures>>
           /\ \A y \in Handlers : y # x => call'[y] = call[y]
           /\ IInv'
<1>1. \E op \in Changing, p \in Ids, m \in Members \cup {None}, u \in Units \cup {None} :
          Reads(x, op, p, m, u) /\ (op = "edit" => m \in Members /\ u \in Units)
  <2>1. PICK p \in Ids :
          \/ \E op \in Changing \ {"edit"} : Reads(x, op, p, None, None)
          \/ \E m \in Members, u \in Units : Reads(x, "edit", p, m, u)
    <3>1. {"kiosk_out", "self_out", "guest_out", "edit_time", "edit_guest", "delete"} \subseteq Changing \ {"edit"}
      BY DEF Changing, Closings, Edits
    <3>2. QED
      BY <3>1 DEF ReadPeriod, ReadForKioskSignOut, ReadForSelfSignOut, ReadForGuestSignOut, ReadForEdit,
                  ReadForTimeEdit, ReadForGuestEdit, ReadForDelete
  <2>2. "edit" \in Changing
    BY DEF Changing, Edits
  <2>3. QED
    BY <2>1, <2>2
<1>2. PICK op \in Changing, p \in Ids, m \in Members \cup {None}, u \in Units \cup {None} :
          Reads(x, op, p, m, u) /\ (op = "edit" => m \in Members /\ u \in Units)
  BY <1>1
<1> DEFINE at == IF op = "guest_out" THEN "write" ELSE "before"
           c == [Idle EXCEPT !.op = op, !.p = p, !.seen = row[p], !.who = m, !.loc = u, !.at = at]
<1>3. op \in Ops \cup {None} /\ row[p] \in Row /\ RowOK(row[p])
  BY DEF Ops, Changing, IInv, TypeOK, RowInv
<1>4. c \in Call
  BY <1>3, IdleFacts, CallExcept
<1>5. /\ c.op = op /\ c.p = p /\ c.seen = row[p] /\ c.who = m /\ c.loc = u /\ c.at = at
      /\ c.before = Idle.before
  BY IdleFacts DEF Call
<1>6. call' = [call EXCEPT ![x] = c] /\ UNCHANGED <<row, idx, log, told, failures>> /\ Exists(row[p])
  BY <1>2 DEF Reads
<1>7. call[x].at = "idle" /\ calls' \in Nat
  BY <1>2, Counters DEF Reads, Begin
<1>8. c.before = FALSE /\ row[p].ver \in Nat
  BY <1>3, <1>5 DEF Idle, Row
<1> HIDE DEF c
<1>9. CallOK(c)
  <2>1. Reading(c)
    <3>1. c.at = "write" /\ c.before => row[c.p].ended
      <4>1. c.before = FALSE
        BY <1>8
      <4>2. QED
        BY <4>1
    <3>2. /\ c.op \in Changing /\ (c.op = "edit" => c.who \in Members /\ c.loc \in Units) /\ c.p \in Ids
          /\ Exists(c.seen) /\ RowOK(c.seen) /\ c.seen.ver <= row[c.p].ver /\ c.seen = row[c.p]
      BY <1>2, <1>3, <1>5, <1>6, <1>8
    <3>3. QED
      BY <3>1, <3>2 DEF Reading
  <2>2. QED
    BY <1>5, <2>1 DEF CallOK
<1>10. IInv'
  BY <1>4, <1>6, <1>7, <1>9, GoesTo DEF IInv, TypeOK
<1>11. call'[x] = c /\ \A y \in Handlers : y # x => call'[y] = call[y]
  BY <1>6 DEF IInv, TypeOK
<1>12. QED
  BY <1>5, <1>6, <1>7, <1>8, <1>10, <1>11

LEMMA ReadBeforeFacts ==
    ASSUME IInv, NEW x \in Handlers, ReadBefore(x)
    PROVE  /\ call[x].at = "before"
           /\ call'[x] = [call[x] EXCEPT !.at = "write", !.before = row[call[x].p].ended]
           /\ call'[x].at = "write"
           /\ UNCHANGED <<row, idx, log, told, failures>>
           /\ \A y \in Handlers : y # x => call'[y] = call[y]
           /\ IInv'
<1> DEFINE c == [call[x] EXCEPT !.at = "write", !.before = row[call[x].p].ended]
<1>1. call[x] \in Call /\ call[x].at = "before" /\ CallOK(call[x])
  BY DEF IInv, TypeOK, CallInv, ReadBefore
<1>2. Reading(call[x])
  BY <1>1 DEF CallOK
<1>3. row[call[x].p].ended \in BOOLEAN
  BY <1>2 DEF IInv, TypeOK, Row, Reading
<1>4. c \in Call
  BY <1>1, <1>3, CallExcept
<1>5. /\ c.op = call[x].op /\ c.p = call[x].p /\ c.seen = call[x].seen /\ c.who = call[x].who
      /\ c.loc = call[x].loc /\ c.at = "write" /\ c.before = row[call[x].p].ended
  BY <1>1 DEF Call
<1>6. call' = [call EXCEPT ![x] = c] /\ UNCHANGED <<row, idx, log, told, calls, failures>>
  BY DEF ReadBefore
<1> HIDE DEF c
<1>7. CallOK(c)
  BY <1>2, <1>5 DEF CallOK, Reading
<1>8. IInv'
  BY <1>4, <1>6, <1>7, GoesTo DEF IInv, TypeOK
<1>9. call'[x] = c /\ \A y \in Handlers : y # x => call'[y] = call[y]
  BY <1>6 DEF IInv, TypeOK
<1>10. QED
  BY <1>1, <1>5, <1>6, <1>8, <1>9 DEF c

\* The steps after a write.
LEMMA RecordFacts ==
    ASSUME IInv, NEW x \in Handlers, Record(x) \/ RecordFails(x)
    PROVE  /\ call[x].at = "record" /\ Writing(call[x])
           /\ call'[x] = [call[x] EXCEPT !.at = "tell"]
           /\ UNCHANGED <<row, idx, told>>
           /\ \A y \in Handlers : y # x => call'[y] = call[y]
           /\ IInv'
<1> DEFINE c == [call[x] EXCEPT !.at = "tell"]
<1>1. call[x] \in Call /\ call[x].at = "record" /\ CallOK(call[x])
  BY DEF IInv, TypeOK, CallInv, Record, RecordFails
<1>2. Writing(call[x])
  BY <1>1 DEF CallOK
<1>3. c \in Call
  BY <1>1, CallExcept
<1>4. /\ c.op = call[x].op /\ c.p = call[x].p /\ c.seen = call[x].seen
      /\ c.loc = call[x].loc /\ c.ver = call[x].ver /\ c.at = "tell"
  BY <1>1 DEF Call
<1>5. call' = [call EXCEPT ![x] = c] /\ UNCHANGED <<row, idx, told, calls>>
  BY DEF Record, RecordFails
<1>6. failures' \in Nat
  BY DEF Record, RecordFails, IInv, TypeOK
<1>7. call[x].p \in Ids /\ call[x].ver \in Nat
  BY <1>1, <1>2 DEF Writing, Call
<1>8. log' \subseteq [p : Ids, ver : Nat, open : BOOLEAN]
  <2> DEFINE e == [p |-> call[x].p, ver |-> call[x].ver, open |-> call[x].op \in Openings]
  <2>1. log' = log \cup {e} \/ log' = log
    BY DEF Record, RecordFails
  <2>2. (call[x].op \in Openings) \in BOOLEAN
    OBVIOUS
  <2>3. e \in [p : Ids, ver : Nat, open : BOOLEAN]
    BY <1>7, <2>2
  <2>4. QED
    BY <2>1, <2>3 DEF IInv, TypeOK
<1> HIDE DEF c
<1>9. CallOK(c)
  BY <1>2, <1>4 DEF CallOK, Writing
<1>10. IInv'
  BY <1>3, <1>5, <1>6, <1>8, <1>9, GoesTo DEF IInv, TypeOK
<1>11. call'[x] = c /\ \A y \in Handlers : y # x => call'[y] = call[y]
  BY <1>5 DEF IInv, TypeOK
<1>12. QED
  BY <1>1, <1>2, <1>5, <1>10, <1>11 DEF c

LEMMA MessagesFacts ==
    ASSUME IInv, NEW x \in Handlers, call[x].at = "tell"
    PROVE  /\ OpenedMessages(x) \subseteq Message
           /\ ClosedMessages(x) \subseteq Message
<1>1. call[x] \in Call /\ Writing(call[x])
  BY DEF IInv, TypeOK, CallInv, CallOK
<1>2. call[x].p \in Ids /\ call[x].ver \in Nat /\ row[call[x].p].ver \in Nat
  BY <1>1 DEF IInv, TypeOK, Writing, Call, Row
<1>3. call[x].op \in Changing => call[x].seen.loc \in Units
  BY <1>1 DEF Writing, RowOK, Changing, Openings, Closings, Edits
<1>4. call[x].op \in Openings => call[x].loc \in Units
  BY <1>1 DEF Writing, Changing, Openings, Closings, Edits
<1>5. OpenedMessages(x) \subseteq Message
  <2>1. CASE call[x].op \in Openings
    <3>1. [p |-> call[x].p, ver |-> call[x].ver, open |-> TRUE, loc |-> call[x].loc] \in Message
      BY <1>2, <1>4, <2>1 DEF Message
    <3>2. QED
      BY <2>1, <3>1 DEF OpenedMessages
  <2>2. CASE call[x].op \notin Openings
    BY <2>2 DEF OpenedMessages
  <2>3. QED
    BY <2>1, <2>2
<1>6. ASSUME NEW m \in ClosedMessages(x) PROVE m \in Message
  <2>1. call[x].op \in Changing
    BY DEF ClosedMessages, Changing
  <2>2. PICK v \in Nat : m = [p |-> call[x].p, open |-> FALSE, loc |-> call[x].seen.loc, ver |-> v]
    BY <1>2 DEF ClosedMessages
  <2>3. QED
    BY <1>2, <1>3, <2>1, <2>2 DEF Message
<1>7. QED
  BY <1>5, <1>6

\* A call ends: it has told the kiosks, was refused or fails.
Ends(x) == Tell(x) \/ Refused(x) \/ Fails(x)

LEMMA EndsFacts ==
    ASSUME IInv, NEW x \in Handlers, Ends(x)
    PROVE  /\ call[x].at # "idle" /\ call'[x] = Idle
           /\ UNCHANGED <<row, idx, log>>
           /\ \A y \in Handlers : y # x => call'[y] = call[y]
           /\ IInv'
<1>1. call' = [call EXCEPT ![x] = Idle] /\ UNCHANGED <<row, idx, log, calls>>
  BY DEF Ends, Tell, Refused, Fails
<1>2. call[x].at # "idle"
  BY DEF Ends, Tell, Refused, Fails
<1>3. failures' \in Nat
  BY DEF Ends, Tell, Refused, Fails, IInv, TypeOK
<1>4. told' \subseteq Message
  <2>1. CASE Tell(x)
    BY <2>1, MessagesFacts DEF Tell, IInv, TypeOK
  <2>2. CASE Refused(x) \/ Fails(x)
    BY <2>2 DEF Refused, Fails, IInv, TypeOK
  <2>3. QED
    BY <2>1, <2>2 DEF Ends
<1>5. IInv'
  BY <1>1, <1>3, <1>4, IdleFacts, GoesTo DEF IInv, TypeOK
<1>6. QED
  BY <1>1, <1>2, <1>5 DEF IInv, TypeOK

LEMMA ReplicateFacts ==
    ASSUME IInv, NEW p \in Ids, Replicate(p)
    PROVE  UNCHANGED <<row, call, log, told, failures>> /\ IInv'
<1>1. UNCHANGED <<row, call, log, told, calls, failures>> /\ idx' \in [Ids -> Row]
  BY DEF Replicate, IInv, TypeOK
<1>2. QED
  BY <1>1 DEF IInv, TypeOK, RowInv, CallInv, CallOK, Looking, Reading, Writing

-----------------------------------------------------------------------------
(* The inductive invariant holds *)

LEMMA StepCases ==
    ASSUME Next
    PROVE  \/ \E x \in Handlers :
                \/ Looks(x) \/ ReadPeriod(x) \/ Opens(x) \/ ReadBefore(x) \/ Write(x)
                \/ Record(x) \/ RecordFails(x) \/ Ends(x)
           \/ \E p \in Ids : Replicate(p)
<1>1. ASSUME NEW x \in Handlers, SignIn(x) PROVE Looks(x) \/ Opens(x)
  BY <1>1 DEF SignIn, Looks, Opens
<1>2. ASSUME NEW x \in Handlers, GoesOn(x)
      PROVE  Opens(x) \/ ReadBefore(x) \/ Write(x) \/ Record(x) \/ RecordFails(x) \/ Ends(x)
  <2>1. ASSUME NEW p \in Ids, StartPeriod(x, p) PROVE Opens(x)
    BY <2>1 DEF Opens
  <2>2. QED
    BY <1>2, <2>1 DEF GoesOn, Ends
<1>3. QED
  BY <1>1, <1>2 DEF Next

LEMMA InitInv == Init => IInv
<1> SUFFICES ASSUME Init PROVE IInv
  OBVIOUS
<1>1. TypeOK
  BY NoRowFacts, IdleFacts DEF Init, TypeOK
<1>2. RowInv
  BY NoRowFacts DEF Init, RowInv
<1>3. CallInv
  BY IdleFacts DEF Init, CallInv
<1>4. QED
  BY <1>1, <1>2, <1>3 DEF IInv

LEMMA StepInv == IInv /\ [Next]_vars => IInv'
<1> SUFFICES ASSUME IInv, [Next]_vars PROVE IInv'
  OBVIOUS
<1>1. CASE UNCHANGED vars
  BY <1>1 DEF vars, IInv, TypeOK, RowInv, CallInv, CallOK, Looking, Reading, Writing
<1>2. ASSUME NEW x \in Handlers, Looks(x) PROVE IInv'
  BY <1>2, LooksFacts
<1>3. ASSUME NEW x \in Handlers, ReadPeriod(x) PROVE IInv'
  BY <1>3, ReadsFacts
<1>4. ASSUME NEW x \in Handlers, Opens(x) PROVE IInv'
  <2>1. calls' \in Nat
    <3>1. calls' = calls \/ calls' = calls + 1
      BY <1>4 DEF Opens, StartPeriod, GuestSignIn, CreatePeriod, Begin
    <3>2. QED
      BY <3>1, Counters
  <2>2. QED
    BY <1>4, <2>1, OpensFacts, PutInv
<1>5. ASSUME NEW x \in Handlers, ReadBefore(x) PROVE IInv'
  BY <1>5, ReadBeforeFacts
<1>6. ASSUME NEW x \in Handlers, Write(x) PROVE IInv'
  <2>1. calls' \in Nat
    BY <1>6 DEF Write, IInv, TypeOK
  <2>2. QED
    BY <1>6, <2>1, WriteFacts, PutInv
<1>7. ASSUME NEW x \in Handlers, Record(x) \/ RecordFails(x) PROVE IInv'
  BY <1>7, RecordFacts
<1>8. ASSUME NEW x \in Handlers, Ends(x) PROVE IInv'
  BY <1>8, EndsFacts
<1>9. ASSUME NEW p \in Ids, Replicate(p) PROVE IInv'
  BY <1>9, ReplicateFacts
<1>10. QED
  BY <1>1, <1>2, <1>3, <1>4, <1>5, <1>6, <1>7, <1>8, <1>9, StepCases

THEOREM Invariance == Spec => []IInv
<1>1. QED
  BY InitInv, StepInv, PTL DEF Spec

\* Every variable keeps its type, whatever the constants.
THEOREM TypeCorrect == Spec => []TypeOK
<1>1. IInv => TypeOK
  BY DEF IInv
<1>2. QED
  BY <1>1, Invariance, PTL

\* location_open is on the open, undeleted periods and on no other, and names their unit.
THEOREM OpenIndexSafe == Spec => []OpenIndexIsExact
<1>1. IInv => OpenIndexIsExact
  BY DEF IInv, RowInv, RowOK, OpenIndexIsExact
<1>2. QED
  BY <1>1, Invariance, PTL

\* No period that is not deleted is missing from its unit's list.
THEOREM LiveIndexSafe == Spec => []LiveIndexMissesNone
<1>1. IInv => LiveIndexMissesNone
  BY DEF IInv, RowInv, RowOK, LiveIndexMissesNone
<1>2. QED
  BY <1>1, Invariance, PTL

-----------------------------------------------------------------------------
(* The rows, as PeriodRows has them *)

VerOf == [p \in Ids |-> row[p].ver]
OpenOf == {p \in Ids : IsOpen(row[p])}

LEMMA RowStep == IInv /\ [Next]_vars => [Rows!Next]_(Rows!vars)
<1> SUFFICES ASSUME IInv, [Next]_vars PROVE [Rows!Next]_(Rows!vars)
  OBVIOUS
<1>1. ASSUME UNCHANGED row PROVE UNCHANGED Rows!vars
  BY <1>1 DEF Rows!vars
<1>2. ASSUME NEW x \in Handlers, NEW p \in Ids, NEW r, NEW c, Written(p, r, c), Put(x, p, r, c)
      PROVE  Rows!Next
  <2>1. row'[p] = r /\ r.ver = row[p].ver + 1 /\ \A q \in Ids : q # p => row'[q] = row[q]
    BY <1>2, PutFacts DEF Written
  <2>2. VerOf' = [VerOf EXCEPT ![p] = @ + 1]
    BY <2>1 DEF VerOf
  <2>3. CASE row[p].ver = 0 /\ IsOpen(r)
    <3>1. OpenOf' = OpenOf \cup {p}
      BY <2>1, <2>3 DEF OpenOf
    <3>2. Rows!Start(p)
      BY <2>2, <2>3, <3>1 DEF Rows!Start, Rows!Bump, VerOf, OpenOf
    <3>3. QED
      BY <3>2 DEF Rows!Next
  <2>4. CASE row[p].ver = 0 /\ ~IsOpen(r)
    <3>1. ~IsOpen(row[p])
      BY <2>4 DEF IsOpen, Exists
    <3>2. OpenOf' = OpenOf
      BY <2>1, <2>4, <3>1 DEF OpenOf
    <3>3. Rows!Enter(p)
      BY <2>2, <2>4, <3>2 DEF Rows!Enter, Rows!Bump, VerOf, OpenOf
    <3>4. QED
      BY <3>3 DEF Rows!Next
  <2>5. CASE row[p].ver > 0 /\ ~IsOpen(r)
    <3>1. OpenOf' = OpenOf \ {p}
      BY <2>1, <2>5 DEF OpenOf
    <3>2. Rows!Change(p)
      BY <2>2, <2>5, <3>1 DEF Rows!Change, Rows!Bump, VerOf, OpenOf
    <3>3. QED
      BY <3>2 DEF Rows!Next
  <2>6. QED
    BY <1>2, <2>3, <2>4, <2>5 DEF Written
<1>3. ASSUME NEW x \in Handlers, Opens(x) PROVE Rows!Next
  BY <1>2, <1>3, OpensFacts
<1>4. ASSUME NEW x \in Handlers, Write(x) PROVE Rows!Next
  BY <1>2, <1>4, WriteFacts
<1>5. CASE UNCHANGED vars
  BY <1>1, <1>5 DEF vars
<1>6. QED
  BY <1>1, <1>3, <1>4, <1>5, StepCases, LooksFacts, ReadsFacts, ReadBeforeFacts, RecordFacts, EndsFacts,
     ReplicateFacts

LEMMA RowInit == Init => Rows!Init
<1> SUFFICES ASSUME Init PROVE Rows!Init
  OBVIOUS
<1>1. \A p \in Ids : row[p] = NoRow
  BY DEF Init
<1>2. QED
  BY <1>1, NoRowFacts DEF Rows!Init, IsOpen

\* The table implements PeriodRows: a period is open in its first version only, and every write
\* of any handler makes a new version.
THEOREM RowsRefined == Spec => RowsSpec
<1>1. QED
  BY RowInit, RowStep, Invariance, PTL DEF Spec, RowsSpec, Rows!Spec

-----------------------------------------------------------------------------
(* The audit log.  An entry is there, or the call that has written is about to put it; what  *)
(* compares with the row read before it leaves one if that row had not ended.                *)

Owes(c, p, v, o) ==
    /\ c.at = "record" /\ c.p = p /\ c.ver = v
    /\ c.op \in Openings <=> o
    /\ c.op \in Updates => ~c.before

Audited(p, v, o) ==
    \/ \E e \in log : e.p = p /\ e.ver = v /\ (e.open <=> o)
    \/ \E x \in Handlers : Owes(call[x], p, v, o)

\* A period was entered as finished, or its sign-in is audited, and its end once there is one.
AuditOf(p) ==
    \/ Audited(p, 1, FALSE)
    \/ /\ Audited(p, 1, TRUE)
       /\ row[p].ver = 1 => ~row[p].ended
       /\ row[p].ver > 1 => Audited(p, 2, FALSE)

AuditInv == failures = 0 => \A p \in Ids : Exists(row[p]) => AuditOf(p)

\* What is owed is not lost by a step of a call that owes nothing.
LEMMA StillAudited ==
    ASSUME NEW x \in Handlers, call[x].at # "record", log' = log,
           \A y \in Handlers : y # x => call'[y] = call[y], NEW p, NEW v, NEW o, Audited(p, v, o)
    PROVE  Audited(p, v, o)'
BY DEF Audited, Owes

\* Nor by the step that pays it.
LEMMA NowAudited ==
    ASSUME IInv, NEW x \in Handlers, Record(x), NEW p, NEW v, NEW o, Audited(p, v, o)
    PROVE  Audited(p, v, o)'
<1>1. CASE \E e \in log : e.p = p /\ e.ver = v /\ (e.open <=> o)
  <2>1. log \subseteq log'
    BY DEF Record
  <2>2. QED
    BY <1>1, <2>1 DEF Audited
<1>2. ASSUME NEW y \in Handlers, y # x, Owes(call[y], p, v, o) PROVE Audited(p, v, o)'
  <2>1. call'[y] = call[y]
    BY <1>2, RecordFacts
  <2>2. QED
    BY <1>2, <2>1 DEF Audited, Owes
<1>3. CASE Owes(call[x], p, v, o)
  <2> DEFINE e == [p |-> call[x].p, ver |-> call[x].ver, open |-> call[x].op \in Openings]
  <2>1. e \in log'
    BY <1>3 DEF Record, Owes
  <2>2. e.p = p /\ e.ver = v /\ (e.open <=> o)
    BY <1>3 DEF Owes
  <2>3. QED
    BY <2>1, <2>2 DEF Audited
<1>4. QED
  BY <1>1, <1>2, <1>3 DEF Audited

LEMMA AuditKept ==
    ASSUME AuditInv, row' = row, failures' = 0 => failures = 0,
           \A p \in Ids, v \in {1, 2} : /\ Audited(p, v, FALSE) => Audited(p, v, FALSE)'
                                        /\ Audited(p, v, TRUE) => Audited(p, v, TRUE)'
    PROVE  AuditInv'
<1> SUFFICES ASSUME failures' = 0, NEW p \in Ids, Exists(row[p])' PROVE AuditOf(p)'
  BY DEF AuditInv
<1>1. AuditOf(p)
  BY DEF AuditInv, Exists
<1>2. QED
  BY <1>1 DEF AuditOf

LEMMA AuditQuiet ==
    ASSUME IInv, AuditInv, NEW x \in Handlers, call[x].at # "record", UNCHANGED <<row, log, failures>>,
           \A y \in Handlers : y # x => call'[y] = call[y]
    PROVE  AuditInv'
BY StillAudited, AuditKept

LEMMA AuditPut ==
    ASSUME IInv, AuditInv, NEW x \in Handlers, NEW p \in Ids, NEW r, NEW c, Written(p, r, c), Put(x, p, r, c),
           call[x].at # "record", row[p].ver > 0 => Reading(call[x]) /\ call[x].at = "write" /\ c = call[x] /\ c.p = p
    PROVE  AuditInv'
<1> SUFFICES ASSUME failures' = 0, NEW q \in Ids, Exists(row[q])' PROVE AuditOf(q)'
  BY DEF AuditInv
<1>1. failures = 0 /\ log' = log /\ (\A y \in Handlers : y # x => call'[y] = call[y])
  BY PutFacts
<1>2. \A v \in {1, 2} : /\ Audited(q, v, FALSE) => Audited(q, v, FALSE)'
                        /\ Audited(q, v, TRUE) => Audited(q, v, TRUE)'
  BY <1>1, StillAudited
<1>3. CASE q # p
  <2>1. row'[q] = row[q]
    BY <1>3, PutFacts
  <2>2. AuditOf(q)
    BY <1>1, <2>1 DEF AuditInv, Exists
  <2>3. QED
    BY <1>2, <2>1, <2>2 DEF AuditOf
<1>4. CASE q = p
  <2>q. SUFFICES AuditOf(p)'
    BY <1>4
  <2>0. \A v \in {1, 2} : /\ Audited(p, v, FALSE) => Audited(p, v, FALSE)'
                          /\ Audited(p, v, TRUE) => Audited(p, v, TRUE)'
    BY <1>2, <1>4
  <2>1. row'[p] = r /\ r.ver = row[p].ver + 1 /\ row[p].ver \in Nat
    BY PutFacts DEF Written, IInv, TypeOK, Row
  <2>2. /\ call'[x].at = "record" /\ call'[x].p = p /\ call'[x].ver = r.ver /\ call'[x].op = c.op
        /\ call'[x].before = c.before
    BY PutFacts
  <2>3. CASE c.op \in Openings /\ row[p].ver = 0 /\ IsOpen(r)
    <3>1. c.op \notin Updates
      BY <2>3 DEF Openings, Updates
    <3>2. Owes(call[x], p, 1, TRUE)'
      BY <2>1, <2>2, <2>3, <3>1 DEF Owes
    <3>3. Audited(p, 1, TRUE)'
      BY <3>2 DEF Audited
    <3>4. row'[p].ver = 1 /\ ~row'[p].ended
      BY <2>1, <2>3 DEF IsOpen
    <3>5. ~(row'[p].ver > 1)
      BY <3>4
    <3>6. QED
      BY <3>3, <3>4, <3>5 DEF AuditOf
  <2>4. CASE c.op = "create" /\ row[p].ver = 0
    <3>1. c.op \notin Updates /\ c.op \notin Openings
      BY <2>4 DEF Openings, Updates
    <3>2. Owes(call[x], p, 1, FALSE)'
      BY <2>1, <2>2, <2>4, <3>1 DEF Owes
    <3>3. Audited(p, 1, FALSE)'
      BY <3>2 DEF Audited
    <3>4. QED
      BY <3>3 DEF AuditOf
  <2>5. CASE c.op \in Changing /\ row[p].ver > 0
    <3>1. AuditOf(p)
      BY <1>1, <2>5 DEF AuditInv, Exists
    <3>2. CASE Audited(p, 1, FALSE)
      <4>1. Audited(p, 1, FALSE)'
        BY <2>0, <3>2
      <4>2. QED
        BY <4>1 DEF AuditOf
    <3>3. CASE ~Audited(p, 1, FALSE)
      <4>1. Audited(p, 1, TRUE)
        BY <3>1, <3>3 DEF AuditOf
      <4>2. Audited(p, 1, TRUE)'
        BY <2>0, <4>1
      <4>3. r.ver # 1
        BY <2>1, <2>5
      <4>4. ASSUME row[p].ver > 1 PROVE Audited(p, 2, FALSE)'
        <5>1. Audited(p, 2, FALSE)
          BY <3>1, <3>3, <4>4 DEF AuditOf
        <5>2. QED
          BY <2>0, <5>1
      <4>5. ASSUME row[p].ver = 1 PROVE Audited(p, 2, FALSE)'
        <5>1. ~row[p].ended
          BY <3>1, <3>3, <4>5 DEF AuditOf
        <5>2. c = call[x] /\ c.at = "write" /\ c.p = p /\ Reading(c)
          BY <2>5
        <5>3. c.at = "write" /\ c.before => row[c.p].ended
          BY <5>2 DEF Reading
        <5>4. ~c.before
          BY <5>1, <5>2, <5>3
        <5>5. c.op \notin Openings
          BY <2>5 DEF Openings, Changing, Closings, Edits
        <5>6. r.ver = 2
          BY <2>1, <4>5
        <5>7. Owes(call[x], p, 2, FALSE)'
          BY <2>2, <5>4, <5>5, <5>6 DEF Owes
        <5>8. QED
          BY <5>7 DEF Audited
      <4>c. row[p].ver > 1 \/ row[p].ver = 1
        BY <2>1, <2>5
      <4>6. Audited(p, 2, FALSE)'
        BY <4>c, <4>4, <4>5
      <4>7. row'[p].ver # 1
        BY <2>1, <4>3
      <4>8. QED
        BY <4>2, <4>6, <4>7 DEF AuditOf
    <3>4. QED
      BY <3>2, <3>3
  <2>6. QED
    BY <2>3, <2>4, <2>5 DEF Written
<1>5. QED
  BY <1>3, <1>4

\* The calls that open a period had no row yet.
LEMMA OpensAt ==
    ASSUME NEW x \in Handlers, Opens(x)
    PROVE  call[x].at \in {"idle", "start"}
BY DEF Opens, StartPeriod, GuestSignIn, CreatePeriod, Begin

LEMMA AuditStep == IInv /\ AuditInv /\ [Next]_vars => AuditInv'
<1> SUFFICES ASSUME IInv, AuditInv, [Next]_vars PROVE AuditInv'
  OBVIOUS
<1>1. CASE UNCHANGED vars
  <2>1. UNCHANGED <<row, call, log, failures>>
    BY <1>1 DEF vars
  <2>2. QED
    BY <2>1 DEF AuditInv, AuditOf, Audited, Owes, Exists
<1>2. ASSUME NEW x \in Handlers, Looks(x) \/ ReadPeriod(x) \/ ReadBefore(x) PROVE AuditInv'
  <2>1. call[x].at # "record"
    BY <1>2, LooksFacts, ReadsFacts, ReadBeforeFacts
  <2>2. UNCHANGED <<row, log, failures>> /\ \A y \in Handlers : y # x => call'[y] = call[y]
    BY <1>2, LooksFacts, ReadsFacts, ReadBeforeFacts
  <2>3. QED
    BY <2>1, <2>2, AuditQuiet
<1>3. ASSUME NEW x \in Handlers, Opens(x) PROVE AuditInv'
  <2>0. PICK p \in Ids : \E r, c : Written(p, r, c) /\ Put(x, p, r, c) /\ c.op \notin Changing
    BY <1>3, OpensFacts
  <2>1. PICK r, c : Written(p, r, c) /\ Put(x, p, r, c) /\ c.op \notin Changing
    BY <2>0
  <2>2. row[p].ver = 0
    BY <2>1 DEF Written
  <2>3. call[x].at # "record"
    BY <1>3, OpensAt
  <2>4. QED
    BY <2>1, <2>2, <2>3, AuditPut
<1>4. ASSUME NEW x \in Handlers, Write(x) PROVE AuditInv'
  <2>1. call[x].at # "record"
    BY <1>4, WriteFacts
  <2>2. QED
    BY <1>4, <2>1, WriteFacts, AuditPut
<1>5. ASSUME NEW x \in Handlers, Record(x) PROVE AuditInv'
  <2>1. failures' = failures
    BY <1>5 DEF Record
  <2>2. QED
    BY <1>5, <2>1, NowAudited, RecordFacts, AuditKept
<1>6. ASSUME NEW x \in Handlers, RecordFails(x) \/ Fails(x) PROVE AuditInv'
  <2>1. failures' = failures + 1
    BY <1>6 DEF RecordFails, Fails
  <2>2. failures' # 0
    BY <2>1, Counters
  <2>3. QED
    BY <2>2 DEF AuditInv
<1>7. ASSUME NEW x \in Handlers, Tell(x) \/ Refused(x) PROVE AuditInv'
  <2>1. call[x].at # "record" /\ failures' = failures
    BY <1>7 DEF Tell, Refused
  <2>2. UNCHANGED <<row, log>> /\ \A y \in Handlers : y # x => call'[y] = call[y]
    BY <1>7, EndsFacts DEF Ends
  <2>3. QED
    BY <2>1, <2>2, AuditQuiet
<1>8. ASSUME NEW p \in Ids, Replicate(p) PROVE AuditInv'
  <2>1. UNCHANGED <<row, call, log, failures>>
    BY <1>8, ReplicateFacts
  <2>2. QED
    BY <2>1 DEF AuditInv, AuditOf, Audited, Owes, Exists
<1>9. QED
  BY <1>1, <1>2, <1>3, <1>4, <1>5, <1>6, <1>7, <1>8, StepCases DEF Ends

\* Once the handlers are done, and unless one has failed, every creation of a period is in the
\* audit log, and so is the write that ended one that was open.
THEOREM AuditSafe == Spec => []AuditHasSignInsAndOuts
<1>1. Init => AuditInv
  BY NoRowFacts DEF Init, AuditInv
<1>2. IInv /\ AuditInv => AuditHasSignInsAndOuts
  <2> SUFFICES ASSUME AuditInv, Quiet, failures = 0, NEW p \in Ids, Exists(row[p])
               PROVE  \E e \in log :
                         /\ e.p = p /\ e.ver = 1
                         /\ e.open /\ row[p].ver > 1 => \E f \in log : f.p = p /\ f.ver = 2
    BY DEF AuditHasSignInsAndOuts
  <2>1. \A x \in Handlers : call[x].at # "record"
    BY DEF Quiet
  <2>2. \A v, o : Audited(p, v, o) => \E e \in log : e.p = p /\ e.ver = v /\ (e.open <=> o)
    BY <2>1 DEF Audited, Owes
  <2>3. AuditOf(p)
    BY DEF AuditInv
  <2>4. CASE Audited(p, 1, FALSE)
    BY <2>2, <2>4
  <2>5. CASE Audited(p, 1, TRUE) /\ (row[p].ver > 1 => Audited(p, 2, FALSE))
    BY <2>2, <2>5
  <2>6. QED
    BY <2>3, <2>4, <2>5 DEF AuditOf
<1>3. QED
  BY <1>1, <1>2, AuditStep, Invariance, PTL DEF Spec

-----------------------------------------------------------------------------
(* What kiosks are told.  A sign-in that is published or about to be is of the first version; *)
(* once there is a second, an end is published or a call that will publish one is under way,   *)
(* since the call that wrote the second version had read the first, at the same unit.          *)

Under(c) == c.at \in {"record", "tell"}

Opened(c, p, u) == Under(c) /\ c.op \in Openings /\ c.p = p /\ c.loc = u

Closes(c, p, u) ==
    /\ Under(c) /\ c.p = p /\ c.seen.loc = u /\ c.ver > 1
    /\ c.op \in Closings \/ (c.op \in Edits /\ IsOpen(c.seen))

Announced(p, u) ==
    \/ \E m \in told : m.p = p /\ m.loc = u /\ m.open
    \/ \E x \in Handlers : Opened(call[x], p, u)

Taken(p, u) ==
    \/ \E m \in told : m.p = p /\ m.loc = u /\ ~m.open /\ m.ver > 1
    \/ \E x \in Handlers : Closes(call[x], p, u)

First == \A m \in told : m.open => m.ver = 1

ToldOf(p, u) ==
    /\ Exists(row[p])
    /\ row[p].ver = 1 => IsOpen(row[p]) /\ row[p].loc = u
    /\ row[p].ver > 1 => Taken(p, u)

AllTold == \A p \in Ids, u \in Units : Announced(p, u) => ToldOf(p, u)

ToldInv == failures = 0 => First /\ AllTold

\* A step that neither writes nor publishes leaves it.
LEMMA ToldKept ==
    ASSUME ToldInv, UNCHANGED <<row, told>>, failures' = 0 => failures = 0,
           \A p \in Ids, u \in Units :
               /\ (\E x \in Handlers : Opened(call[x], p, u))' => \E x \in Handlers : Opened(call[x], p, u)
               /\ (\E x \in Handlers : Closes(call[x], p, u)) => (\E x \in Handlers : Closes(call[x], p, u))'
    PROVE  ToldInv'
<1> SUFFICES ASSUME failures' = 0 PROVE First' /\ AllTold'
  BY DEF ToldInv
<1>1. First /\ AllTold
  BY DEF ToldInv
<1>2. First'
  BY <1>1 DEF First
<1>3. ASSUME NEW p \in Ids, NEW u \in Units, Announced(p, u)' PROVE ToldOf(p, u)'
  <2>1. Announced(p, u)
    BY <1>3 DEF Announced
  <2>2. ToldOf(p, u)
    BY <1>1, <2>1 DEF AllTold
  <2>3. Taken(p, u) => Taken(p, u)'
    BY DEF Taken
  <2>4. QED
    BY <2>2, <2>3 DEF ToldOf, Exists, IsOpen
<1>4. QED
  BY <1>2, <1>3 DEF AllTold

LEMMA ToldQuiet ==
    ASSUME ToldInv, NEW x \in Handlers, ~Under(call[x]), ~Under(call'[x]),
           UNCHANGED <<row, told, failures>>, \A y \in Handlers : y # x => call'[y] = call[y]
    PROVE  ToldInv'
<1>1. ASSUME NEW p \in Ids, NEW u \in Units
      PROVE  /\ (\E y \in Handlers : Opened(call[y], p, u))' => \E y \in Handlers : Opened(call[y], p, u)
             /\ (\E y \in Handlers : Closes(call[y], p, u)) => (\E y \in Handlers : Closes(call[y], p, u))'
  BY DEF Opened, Closes
<1>2. QED
  BY <1>1, ToldKept

\* A write: what was announced of the row still was, and the call that writes over the first
\* version has seen it.
LEMMA ToldPut ==
    ASSUME IInv, ToldInv, NEW x \in Handlers, NEW p \in Ids, NEW r, NEW c, Written(p, r, c), Put(x, p, r, c),
           ~Under(call[x]), row[p].ver > 0 => Reading(c) /\ c.p = p
    PROVE  ToldInv'
<1> SUFFICES ASSUME failures' = 0 PROVE First' /\ AllTold'
  BY DEF ToldInv
<1>0. told' = told /\ failures' = failures
  BY PutFacts
<1>1. First /\ AllTold
  BY <1>0 DEF ToldInv
<1>2. First'
  BY <1>0, <1>1 DEF First
<1>3. \A y \in Handlers : y # x => call'[y] = call[y]
  BY PutFacts
<1>4. /\ Under(call'[x]) /\ call'[x].p = p /\ call'[x].ver = r.ver /\ call'[x].op = c.op
      /\ call'[x].loc = c.loc /\ call'[x].seen = c.seen
  BY PutFacts DEF Under
<1>5. ASSUME NEW q \in Ids, NEW u \in Units, Taken(q, u) PROVE Taken(q, u)'
  BY <1>0, <1>3, <1>5 DEF Taken, Closes
<1>6. ASSUME NEW q \in Ids, NEW u \in Units, q # p \/ c.op \notin Openings, Announced(q, u)'
      PROVE  Announced(q, u)
  <2>1. ~Opened(call'[x], q, u)
    BY <1>4, <1>6 DEF Opened
  <2>2. CASE \E m \in told' : m.p = q /\ m.loc = u /\ m.open
    BY <1>0, <2>2 DEF Announced
  <2>3. CASE \E y \in Handlers : Opened(call'[y], q, u)
    <3>1. PICK y \in Handlers : Opened(call'[y], q, u)
      BY <2>3
    <3>2. call'[y] = call[y]
      BY <1>3, <2>1, <3>1
    <3>3. QED
      BY <3>1, <3>2 DEF Announced
  <2>4. QED
    BY <1>6, <2>2, <2>3 DEF Announced
<1>7. ASSUME NEW q \in Ids, NEW u \in Units, Announced(q, u)', q # p PROVE ToldOf(q, u)'
  <2>1. ToldOf(q, u)
    BY <1>1, <1>6, <1>7 DEF AllTold
  <2>2. row'[q] = row[q]
    BY <1>7, PutFacts
  <2>3. QED
    BY <1>5, <2>1, <2>2 DEF ToldOf, Exists, IsOpen
<1>8. row'[p] = r /\ r.ver = row[p].ver + 1 /\ row[p].ver \in Nat
  BY PutFacts DEF Written, IInv, TypeOK, Row
<1>9. ASSUME NEW u \in Units, Announced(p, u)' PROVE ToldOf(p, u)'
  <2>1. CASE row[p].ver = 0
    <3>1. \A v \in Units : ~Announced(p, v)
      BY <1>1, <2>1 DEF AllTold, ToldOf, Exists
    <3>2. c.op \in Openings
      BY <1>6, <1>9, <3>1
    <3>3. IsOpen(r) /\ r.loc = c.loc
      <4>1. c.op # "create" /\ c.op \notin Changing
        BY <3>2 DEF Openings, Changing, Closings, Edits
      <4>2. QED
        BY <4>1 DEF Written
    <3>4. c.loc = u
      <4>1. CASE \E m \in told' : m.p = p /\ m.loc = u /\ m.open
        BY <1>0, <3>1, <4>1 DEF Announced
      <4>2. CASE \E y \in Handlers : Opened(call'[y], p, u)
        <5>1. PICK y \in Handlers : Opened(call'[y], p, u)
          BY <4>2
        <5>2. CASE y = x
          BY <1>4, <5>1, <5>2 DEF Opened
        <5>3. CASE y # x
          BY <1>3, <3>1, <5>1, <5>3 DEF Announced
        <5>4. QED
          BY <5>2, <5>3
      <4>3. QED
        BY <1>9, <4>1, <4>2 DEF Announced
    <3>5. row'[p].ver = 1
      BY <1>8, <2>1
    <3>6. row'[p].ver > 0 /\ ~(row'[p].ver > 1)
      BY <3>5
    <3>7. IsOpen(row'[p]) /\ row'[p].loc = u
      BY <1>8, <3>3, <3>4
    <3>8. QED
      BY <3>5, <3>6, <3>7 DEF ToldOf, Exists, IsOpen
  <2>2. CASE row[p].ver > 0
    <3>1. c.op \in Changing /\ Reading(c) /\ c.p = p
      BY <2>2 DEF Reading
    <3>2. c.op \notin Openings
      BY <3>1 DEF Openings, Changing, Closings, Edits
    <3>3. ToldOf(p, u)
      BY <1>1, <1>6, <1>9, <3>2 DEF AllTold
    <3>4. ASSUME row[p].ver > 1 PROVE Taken(p, u)'
      BY <1>5, <3>3, <3>4 DEF ToldOf
    <3>5. ASSUME row[p].ver = 1 PROVE Taken(p, u)'
      <4>1. IsOpen(row[p]) /\ row[p].loc = u
        BY <3>3, <3>5 DEF ToldOf
      <4>2. c.seen.ver > 0 /\ c.seen.ver <= 1 /\ (c.seen.ver = 1 => c.seen = row[p])
        BY <3>1, <3>5 DEF Reading, Exists
      <4>3. c.seen.ver \in Nat
        BY DEF Written, Call, Row
      <4>4. c.seen.ver = 1
        BY <4>2, <4>3
      <4>5. IsOpen(c.seen) /\ c.seen.loc = u
        BY <4>1, <4>2, <4>4
      <4>6. call'[x].ver > 1
        BY <1>4, <1>8, <3>5
      <4>7. Closes(call'[x], p, u)
        BY <1>4, <3>1, <4>5, <4>6 DEF Closes, Changing
      <4>8. QED
        BY <4>7 DEF Taken
    <3>6. Taken(p, u)'
      BY <1>8, <2>2, <3>4, <3>5
    <3>7. row'[p].ver > 0 /\ row'[p].ver # 1
      BY <1>8, <2>2
    <3>8. QED
      BY <3>6, <3>7 DEF ToldOf, Exists
  <2>3. QED
    BY <1>8, <2>1, <2>2
<1>10. QED
  BY <1>2, <1>7, <1>9 DEF AllTold

\* The step that publishes.
LEMMA ToldTell ==
    ASSUME IInv, ToldInv, NEW x \in Handlers, Tell(x)
    PROVE  ToldInv'
<1> DEFINE c == call[x]
<1> SUFFICES ASSUME failures' = 0 PROVE First' /\ AllTold'
  BY DEF ToldInv
<1>0. /\ c.at = "tell" /\ told' = told \cup OpenedMessages(x) \cup ClosedMessages(x)
      /\ row' = row /\ failures' = failures
  BY DEF Tell
<1>1. First /\ AllTold
  BY <1>0 DEF ToldInv
<1>2. Ends(x)
  BY DEF Ends
<1>3. call'[x] = Idle /\ \A y \in Handlers : y # x => call'[y] = call[y]
  BY <1>2, EndsFacts
<1>4. Writing(c) /\ c \in Call
  BY <1>0 DEF IInv, TypeOK, CallInv, CallOK
<1>5. \A m \in OpenedMessages(x) : c.op \in Openings /\ m.p = c.p /\ m.ver = c.ver /\ m.open /\ m.loc = c.loc
  BY DEF OpenedMessages
<1>6. \A m \in ClosedMessages(x) : ~m.open
  BY DEF ClosedMessages
<1>7. First'
  <2>1. ASSUME c.op \in Openings PROVE c.ver = 1
    <3>1. c.op \notin Changing
      BY <2>1 DEF Openings, Changing, Closings, Edits
    <3>2. QED
      BY <1>4, <3>1 DEF Writing
  <2>2. \A m \in OpenedMessages(x) : m.ver = 1
    BY <1>5, <2>1
  <2>3. \A m \in told' : m \in told \/ m \in OpenedMessages(x) \/ m \in ClosedMessages(x)
    BY <1>0
  <2>4. QED
    BY <1>1, <1>6, <2>2, <2>3 DEF First
<1>8. ASSUME NEW p \in Ids, NEW u \in Units, Announced(p, u)' PROVE ToldOf(p, u)'
  <2>1. Announced(p, u)
    <3>1. CASE \E y \in Handlers : Opened(call'[y], p, u)
      <4>1. PICK y \in Handlers : Opened(call'[y], p, u)
        BY <3>1
      <4>2. y # x
        BY <1>3, <4>1 DEF Opened, Under, Idle
      <4>3. QED
        BY <1>3, <4>1, <4>2 DEF Announced
    <3>2. CASE \E m \in told' : m.p = p /\ m.loc = u /\ m.open
      <4>1. PICK m \in told' : m.p = p /\ m.loc = u /\ m.open
        BY <3>2
      <4>2. CASE m \in told
        BY <4>1, <4>2 DEF Announced
      <4>3. CASE m \in OpenedMessages(x)
        <5>1. Opened(c, p, u)
          BY <1>0, <1>5, <4>1, <4>3 DEF Opened, Under
        <5>2. QED
          BY <5>1 DEF Announced
      <4>4. QED
        BY <1>0, <1>6, <4>1, <4>2, <4>3
    <3>3. QED
      BY <1>8, <3>1, <3>2 DEF Announced
  <2>2. ToldOf(p, u)
    BY <1>1, <2>1 DEF AllTold
  <2>3. ASSUME Taken(p, u) PROVE Taken(p, u)'
    <3>1. CASE \E m \in told : m.p = p /\ m.loc = u /\ ~m.open /\ m.ver > 1
      BY <1>0, <3>1 DEF Taken
    <3>2. ASSUME NEW y \in Handlers, y # x, Closes(call[y], p, u) PROVE Taken(p, u)'
      BY <1>3, <3>2 DEF Taken
    <3>3. CASE Closes(c, p, u)
      <4> DEFINE v == IF c.op \in Edits \ {"delete"} THEN row[c.p].ver ELSE c.ver
                 m == [p |-> c.p, open |-> FALSE, loc |-> c.seen.loc, ver |-> v]
      <4>1. m \in told'
        BY <1>0, <3>3 DEF ClosedMessages, Closes
      <4>2. m.p = p /\ m.loc = u /\ ~m.open
        BY <3>3 DEF Closes
      <4>3. c.ver > 1 /\ c.ver <= row[c.p].ver
        BY <1>4, <3>3 DEF Closes, Writing
      <4>4. row[c.p].ver \in Nat /\ c.ver \in Nat
        BY <1>4 DEF IInv, TypeOK, Writing, Row, Call
      <4>5. row[c.p].ver > 1
        BY <4>3, <4>4
      <4>6. v > 1
        BY <4>3, <4>5
      <4>7. m.ver > 1
        BY <4>6
      <4> HIDE DEF m
      <4>8. QED
        BY <4>1, <4>2, <4>7 DEF Taken
    <3>4. QED
      BY <2>3, <3>1, <3>2, <3>3 DEF Taken
  <2>4. QED
    BY <1>0, <2>2, <2>3 DEF ToldOf, Exists, IsOpen
<1>9. QED
  BY <1>7, <1>8 DEF AllTold

LEMMA ToldStep == IInv /\ ToldInv /\ [Next]_vars => ToldInv'
<1> SUFFICES ASSUME IInv, ToldInv, [Next]_vars PROVE ToldInv'
  OBVIOUS
<1>1. CASE UNCHANGED vars
  <2>1. UNCHANGED <<row, call, told, failures>>
    BY <1>1 DEF vars
  <2>2. QED
    BY <2>1, ToldKept
<1>2. ASSUME NEW x \in Handlers, Looks(x) \/ ReadPeriod(x) \/ ReadBefore(x) PROVE ToldInv'
  <2>1. ~Under(call[x]) /\ ~Under(call'[x])
    BY <1>2, LooksFacts, ReadsFacts, ReadBeforeFacts DEF Under
  <2>2. UNCHANGED <<row, told, failures>> /\ \A y \in Handlers : y # x => call'[y] = call[y]
    BY <1>2, LooksFacts, ReadsFacts, ReadBeforeFacts
  <2>3. QED
    BY <2>1, <2>2, ToldQuiet
<1>3. ASSUME NEW x \in Handlers, Opens(x) PROVE ToldInv'
  <2>0. PICK p \in Ids : \E r, c : Written(p, r, c) /\ Put(x, p, r, c) /\ c.op \notin Changing
    BY <1>3, OpensFacts
  <2>1. PICK r, c : Written(p, r, c) /\ Put(x, p, r, c) /\ c.op \notin Changing
    BY <2>0
  <2>2. ~(row[p].ver > 0)
    BY <2>1 DEF Written
  <2>3. ~Under(call[x])
    BY <1>3, OpensAt DEF Under
  <2>4. QED
    BY <2>1, <2>2, <2>3, ToldPut
<1>4. ASSUME NEW x \in Handlers, Write(x) PROVE ToldInv'
  <2>1. ~Under(call[x])
    BY <1>4, WriteFacts DEF Under
  <2>2. QED
    BY <1>4, <2>1, WriteFacts, ToldPut
<1>5. ASSUME NEW x \in Handlers, Record(x) PROVE ToldInv'
  <2>1. failures' = failures
    BY <1>5 DEF Record
  <2>2. /\ call[x].at = "record" /\ call'[x] = [call[x] EXCEPT !.at = "tell"] /\ call[x] \in Call
        /\ UNCHANGED <<row, told>> /\ \A y \in Handlers : y # x => call'[y] = call[y]
    BY <1>5, RecordFacts DEF IInv, TypeOK
  <2>3. /\ Under(call[x]) /\ Under(call'[x])
        /\ call'[x].op = call[x].op /\ call'[x].p = call[x].p /\ call'[x].loc = call[x].loc
        /\ call'[x].seen = call[x].seen /\ call'[x].ver = call[x].ver
    BY <2>2 DEF Under, Call
  <2>4. \A p \in Ids, u \in Units, y \in Handlers :
           /\ Opened(call'[y], p, u) => Opened(call[y], p, u)
           /\ Closes(call[y], p, u) => Closes(call'[y], p, u)
    BY <2>2, <2>3 DEF Opened, Closes
  <2>5. QED
    BY <2>1, <2>2, <2>4, ToldKept
<1>6. ASSUME NEW x \in Handlers, RecordFails(x) \/ Fails(x) PROVE ToldInv'
  <2>1. failures' = failures + 1
    BY <1>6 DEF RecordFails, Fails
  <2>2. failures' # 0
    BY <2>1, Counters
  <2>3. QED
    BY <2>2 DEF ToldInv
<1>7. ASSUME NEW x \in Handlers, Refused(x) PROVE ToldInv'
  <2>1. Ends(x) /\ call[x].at = "write" /\ failures' = failures /\ told' = told
    BY <1>7 DEF Ends, Refused
  <2>2. call'[x] = Idle /\ row' = row /\ \A y \in Handlers : y # x => call'[y] = call[y]
    BY <2>1, EndsFacts
  <2>3. ~Under(call[x]) /\ ~Under(call'[x])
    BY <2>1, <2>2 DEF Under, Idle
  <2>4. QED
    BY <2>1, <2>2, <2>3, ToldQuiet
<1>8. ASSUME NEW p \in Ids, Replicate(p) PROVE ToldInv'
  <2>1. UNCHANGED <<row, call, told, failures>>
    BY <1>8, ReplicateFacts
  <2>2. QED
    BY <2>1, ToldKept
<1>9. QED
  BY <1>1, <1>2, <1>3, <1>4, <1>5, <1>6, <1>7, <1>8, ToldTell, StepCases DEF Ends

\* When the handlers are done and none has failed, whoever was told of a sign-in has been told,
\* on the same channel and with a higher version, that it is over.
THEOREM CloseSafe == Spec => []CloseIsTold
<1>1. Init => ToldInv
  <2> SUFFICES ASSUME Init PROVE First /\ AllTold
    BY DEF ToldInv
  <2>1. First
    BY DEF Init, First
  <2>2. \A x \in Handlers : ~Under(call[x])
    BY DEF Init, Idle, Under
  <2>3. AllTold
    BY <2>2 DEF Init, AllTold, Announced, Opened
  <2>4. QED
    BY <2>1, <2>3
<1>2. IInv /\ ToldInv => CloseIsTold
  <2> SUFFICES ASSUME IInv, ToldInv, Quiet, failures = 0, NEW m \in told, m.open, ~IsOpen(row[m.p])
               PROVE  \E c \in told : c.p = m.p /\ ~c.open /\ c.loc = m.loc /\ c.ver > m.ver
    BY DEF CloseIsTold
  <2>1. m.p \in Ids /\ m.loc \in Units /\ m.ver = 1
    BY DEF IInv, TypeOK, Message, ToldInv, First
  <2>2. ToldOf(m.p, m.loc)
    BY <2>1 DEF ToldInv, AllTold, Announced
  <2>3. Taken(m.p, m.loc)
    <3>1. row[m.p].ver \in Nat /\ row[m.p].ver > 0
      BY <2>1, <2>2 DEF ToldOf, Exists, IInv, TypeOK, Row
    <3>2. row[m.p].ver # 1
      BY <2>2 DEF ToldOf
    <3>3. row[m.p].ver > 1
      BY <3>1, <3>2
    <3>4. QED
      BY <2>2, <3>3 DEF ToldOf
  <2>4. \A x \in Handlers : ~Closes(call[x], m.p, m.loc)
    BY DEF Quiet, Closes, Under
  <2>5. QED
    BY <2>1, <2>3, <2>4 DEF Taken
<1>3. QED
  BY <1>1, <1>2, ToldStep, Invariance, PTL DEF Spec
=============================================================================
