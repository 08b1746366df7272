--------------------------- MODULE MemberSyncProofs ---------------------------
(***************************************************************************)
(* What TLAPS proves of MemberSync, for any number of members, units, rows,  *)
(* changes, garbled pages and failed runs.                                  *)
(***************************************************************************)
EXTENDS MemberSync, FiniteSetTheorems, TLAPS

-----------------------------------------------------------------------------
(* The inductive invariant.  Until a member has a row SES has them in one unit only, so no     *)
(* other unit's run has them on its page, and only that unit's run can be about to create it.  *)

Fits(u, c) ==
    IF c.kind = "create"
    THEN c.who \in Members /\ c.id = None /\ Known(c.who) = {} /\ run[u].page[c.who] = "item"
    ELSE c.id \in Ids /\ row[c.id].who # None

PlanInv(u) ==
    /\ \A m \in Members : run[u].page[m] # "absent" => Known(m) # {} \/ ses[m] = u
    /\ \A c \in run[u].todo : Fits(u, c)

IInv == TypeOK /\ OneRowPerMember /\ \A u \in Units : PlanInv(u)

-----------------------------------------------------------------------------
(* Rows *)

FullRow == [who : Members, ses : BOOLEAN, loc : Units, del : BOOLEAN, miss : 0..Grace \cup {None}]

LEMMA RowFacts ==
    /\ NoRow \in Row /\ NoRow.who = None /\ NoRow.miss = None
    /\ FullRow \subseteq Row /\ None \notin Members
    /\ \A r \in Row : r.who # None => r \in FullRow
    /\ \A r \in Row : r.miss # None => r.who # None
BY ConstantsAssumption DEF NoRow, Row, FullRow

\* One field at a time a row stays a row, and its owner's.
LEMMA RowExcept ==
    ASSUME NEW r \in FullRow
    PROVE  /\ [r EXCEPT !.ses = TRUE] \in FullRow /\ [r EXCEPT !.ses = TRUE].who = r.who
           /\ \A u \in Units : [r EXCEPT !.loc = u] \in FullRow /\ [r EXCEPT !.loc = u].who = r.who
           /\ \A k \in 0..Grace \cup {None} :
                 [r EXCEPT !.miss = k] \in FullRow /\ [r EXCEPT !.miss = k].who = r.who
           /\ \A d \in BOOLEAN : [r EXCEPT !.del = d, !.miss = None] \in FullRow
                                 /\ [r EXCEPT !.del = d, !.miss = None].who = r.who
BY DEF FullRow

\* What a step that writes one row's fields leaves.
SameOwners == row' \in [Ids -> Row] /\ \A r \in Ids : row'[r].who = row[r].who

LEMMA OneRowWritten ==
    ASSUME TypeOK, NEW i \in Ids, NEW r \in FullRow, r.who = row[i].who, row' = [row EXCEPT ![i] = r]
    PROVE  SameOwners
BY RowFacts DEF TypeOK, SameOwners

LEMMA WrittenFacts ==
    ASSUME TypeOK, NEW u \in Units, NEW c \in Change, c.kind # "create", c.id \in Ids,
           row[c.id].who # None, row' = Written(u, c)
    PROVE  SameOwners
<1> DEFINE i == c.id
           r == row[i]
<1>1. r \in FullRow
  BY RowFacts DEF TypeOK
<1>2. 0 \in 0..Grace \cup {None} /\ None \in 0..Grace \cup {None}
  BY ConstantsAssumption
<1>3. c.kind \in {"adopt", "undelete", "move", "clear", "mark", "delete"}
  BY DEF Change, Kinds
<1>4. CASE c.kind = "adopt"
  <2>1. row' = [row EXCEPT ![i] = [r EXCEPT !.ses = TRUE]]
    BY <1>4 DEF Written, TypeOK
  <2>2. QED
    BY <1>1, <2>1, RowExcept, OneRowWritten
<1>5. CASE c.kind = "undelete"
  <2>1. row' = [row EXCEPT ![i] = [r EXCEPT !.del = FALSE, !.miss = None]]
    BY <1>5 DEF Written, TypeOK
  <2>2. QED
    BY <1>1, <2>1, RowExcept, OneRowWritten
<1>6. CASE c.kind = "move"
  <2>1. row' = [row EXCEPT ![i] = [r EXCEPT !.loc = u]]
    BY <1>6 DEF Written, TypeOK
  <2>2. QED
    BY <1>1, <2>1, RowExcept, OneRowWritten
<1>7. CASE c.kind = "clear"
  <2>1. row' = [row EXCEPT ![i] = [r EXCEPT !.miss = None]]
    BY <1>7 DEF Written, TypeOK
  <2>2. QED
    BY <1>1, <1>2, <2>1, RowExcept, OneRowWritten
<1>8. CASE c.kind = "mark"
  <2>1. row' = [row EXCEPT ![i] = [r EXCEPT !.miss = 0]]
    BY <1>8 DEF Written, TypeOK
  <2>2. QED
    BY <1>1, <1>2, <2>1, RowExcept, OneRowWritten
<1>9. CASE c.kind = "delete"
  <2>1. row' = [row EXCEPT ![i] = [r EXCEPT !.del = TRUE, !.miss = None]]
    BY <1>9 DEF Written, Deleted, TypeOK
  <2>2. QED
    BY <1>1, <2>1, RowExcept, OneRowWritten
<1>10. QED
  BY <1>3, <1>4, <1>5, <1>6, <1>7, <1>8, <1>9

-----------------------------------------------------------------------------
(* Plans *)

LEMMA WritesFacts ==
    ASSUME TypeOK, NEW kind \in Kinds \ {"create"}, NEW ids, ids \subseteq Ids,
           \A r \in ids : row[r].who # None, NEW u \in Units
    PROVE  Writes(kind, ids) \subseteq Change /\ \A c \in Writes(kind, ids) : Fits(u, c)
<1>1. \A r \in ids : row[r].who \in Members \cup {None}
  BY RowFacts DEF TypeOK, FullRow
<1>2. QED
  BY <1>1 DEF Writes, Change, Fits

LEMMA PlansFacts ==
    ASSUME TypeOK, NEW u \in Units
    PROVE  Plans(u) \subseteq Change /\ \A c \in Plans(u) : Fits(u, c)
<1> DEFINE items == {m \in Members : run[u].page[m] = "item"}
           found == {r \in Ids : row[r].who \in items}
           adopt == {r \in found : ~row[r].ses}
           back  == {r \in found \ adopt : row[r].del}
           moved == {r \in found \ adopt : row[r].loc # u} \cup back
           marked == {r \in adopt \cup moved : row[r].miss # None}
           new == {[kind |-> "create", who |-> m, id |-> None] : m \in {i \in items : Known(i) = {}}}
<1>1. \A r \in found : r \in Ids /\ row[r].who # None
  BY RowFacts
<1>2. adopt \subseteq found /\ back \subseteq found /\ moved \subseteq found /\ marked \subseteq found
  OBVIOUS
<1>3. new \subseteq Change /\ \A c \in new : Fits(u, c)
  BY DEF Change, Kinds, Fits
<1>4. {"adopt", "undelete", "move", "clear"} \subseteq Kinds \ {"create"}
  BY DEF Kinds
<1>5. Plans(u) = new \cup Writes("adopt", adopt) \cup Writes("undelete", back)
                 \cup Writes("move", moved) \cup Writes("clear", marked)
  BY DEF Plans
<1> HIDE DEF found, adopt, back, moved, marked, new
<1>6. Writes("adopt", adopt) \subseteq Change /\ \A c \in Writes("adopt", adopt) : Fits(u, c)
  BY <1>1, <1>2, <1>4, WritesFacts
<1>7. Writes("undelete", back) \subseteq Change /\ \A c \in Writes("undelete", back) : Fits(u, c)
  BY <1>1, <1>2, <1>4, WritesFacts
<1>8. Writes("move", moved) \subseteq Change /\ \A c \in Writes("move", moved) : Fits(u, c)
  BY <1>1, <1>2, <1>4, WritesFacts
<1>9. Writes("clear", marked) \subseteq Change /\ \A c \in Writes("clear", marked) : Fits(u, c)
  BY <1>1, <1>2, <1>4, WritesFacts
<1>10. QED
  BY <1>3, <1>5, <1>6, <1>7, <1>8, <1>9

LEMMA AbsenceFacts ==
    ASSUME TypeOK, NEW u \in Units
    PROVE  Absence(u) \subseteq Change /\ \A c \in Absence(u) : Fits(u, c)
<1> DEFINE seen == {r \in Roster(u) : row[r].miss # None /\ Seen(u, r)}
<1>1. \A r \in Roster(u) : r \in Ids /\ row[r].who # None
  BY DEF Roster, Live
<1>2. seen \subseteq Roster(u) /\ Marked(u) \subseteq Roster(u) /\ Ripe(u) \subseteq Roster(u)
  BY DEF Marked, Ripe, Candidates, Synced
<1>3. {"clear", "mark", "delete"} \subseteq Kinds \ {"create"}
  BY DEF Kinds
<1>4. Absence(u) \subseteq Writes("clear", seen) \cup Writes("mark", Marked(u)) \cup Writes("delete", Ripe(u))
  BY DEF Absence
<1> HIDE DEF seen
<1>5. Writes("clear", seen) \subseteq Change /\ \A c \in Writes("clear", seen) : Fits(u, c)
  BY <1>1, <1>2, <1>3, WritesFacts
<1>6. Writes("mark", Marked(u)) \subseteq Change /\ \A c \in Writes("mark", Marked(u)) : Fits(u, c)
  BY <1>1, <1>2, <1>3, WritesFacts
<1>7. Writes("delete", Ripe(u)) \subseteq Change /\ \A c \in Writes("delete", Ripe(u)) : Fits(u, c)
  BY <1>1, <1>2, <1>3, WritesFacts
<1>8. QED
  BY <1>4, <1>5, <1>6, <1>7

-----------------------------------------------------------------------------
(* Steps *)

Rest == /\ stay \in [Members -> 0..3] /\ last \in [Units -> 0..Stale + 1] /\ due \in [Units -> BOOLEAN]
        /\ changes \in Nat /\ glitches \in Nat /\ failures \in Nat /\ stopped \in BOOLEAN

LEMMA IdleFacts ==
    /\ Idle \in Run /\ Idle.todo = {} /\ \A m \in Members : Idle.page[m] = "absent"
    /\ \A p \in Page : [Idle EXCEPT !.at = "look", !.page = p] \in Run
                       /\ [Idle EXCEPT !.at = "look", !.page = p].page = p
                       /\ [Idle EXCEPT !.at = "look", !.page = p].todo = {}
<1> DEFINE p == [m \in Members |-> "absent"]
<1>1. p \in Page /\ Idle = [at |-> "idle", page |-> p, todo |-> {}] /\ \A m \in Members : p[m] = "absent"
  BY DEF Page, Idle
<1> HIDE DEF p
<1>2. Idle \in Run /\ Idle.todo = {} /\ Idle.page = p
  BY <1>1 DEF Run
<1>3. QED
  BY <1>1, <1>2 DEF Run

\* What making a plan or a write of it does to the run.
LEMMA RunWith ==
    ASSUME NEW n \in Run, NEW at \in {"idle", "look", "roster", "apply"}, NEW t \in SUBSET Change
    PROVE  /\ [n EXCEPT !.at = at, !.todo = t] \in Run
           /\ [n EXCEPT !.at = at, !.todo = t].page = n.page
           /\ [n EXCEPT !.at = at, !.todo = t].todo = t
BY DEF Run

LEMMA RunDoing ==
    ASSUME NEW n \in Run, NEW t \in SUBSET Change
    PROVE  /\ [n EXCEPT !.todo = t] \in Run
           /\ [n EXCEPT !.todo = t].page = n.page
           /\ [n EXCEPT !.todo = t].todo = t
BY DEF Run

\* A run goes on without a write.
LEMMA RunStepInv ==
    ASSUME IInv, NEW u \in Units, NEW n \in Run, row' = row, ses' = ses, run' = [run EXCEPT ![u] = n], Rest',
           \A m \in Members : n.page[m] # "absent" => Known(m) # {} \/ ses[m] = u,
           n.todo = {} \/ (n.page = run[u].page /\ \A c \in n.todo : Fits(u, c))
    PROVE  IInv'
<1>1. run' \in [Units -> Run] /\ run'[u] = n /\ \A v \in Units : v # u => run'[v] = run[v]
  BY DEF IInv, TypeOK
<1>2. TypeOK'
  BY <1>1 DEF IInv, TypeOK, Rest
<1>3. \A m : Known(m)' = Known(m)
  BY DEF Known
<1>4. ASSUME NEW v \in Units PROVE PlanInv(v)'
  <2>1. CASE v # u
    <3>1. PlanInv(v) /\ run'[v] = run[v]
      BY <1>1, <2>1 DEF IInv
    <3>2. \A c \in run[v].todo : Fits(v, c)'
      BY <1>3, <3>1 DEF PlanInv, Fits
    <3>3. QED
      BY <1>3, <3>1, <3>2 DEF PlanInv
  <2>2. CASE v = u
    <3>1. \A c \in n.todo : Fits(u, c)'
      BY <1>1, <1>3 DEF Fits
    <3>2. QED
      BY <1>1, <1>3, <2>2, <3>1 DEF PlanInv
  <2>3. QED
    BY <2>1, <2>2
<1>5. QED
  BY <1>2, <1>4 DEF IInv, OneRowPerMember

LEMMA FetchInv ==
    ASSUME IInv, NEW u \in Units, Fetch(u)
    PROVE  IInv'
<1>0. TypeOK /\ glitches \in Nat
  BY DEF IInv, TypeOK
<1>1. PICK page \in Page :
          /\ \A m \in Members : ses[m] # u => page[m] = "absent"
          /\ glitches' = glitches + Cardinality({m \in Members : page[m] # PageOf(u)[m]})
          /\ run' = [run EXCEPT ![u] = [Idle EXCEPT !.at = "look", !.page = page]]
  BY DEF Fetch
<1>2. glitches' \in Nat
  <2> DEFINE S == {m \in Members : page[m] # PageOf(u)[m]}
             n == Cardinality(S)
  <2>1. n \in Nat
    BY ConstantsAssumption, FS_Subset, FS_CardinalityType
  <2> HIDE DEF n
  <2>2. glitches' = glitches + n
    BY <1>1 DEF n
  <2>3. QED
    BY <1>0, <2>1, <2>2
<1>3. UNCHANGED <<ses, stay, row, last, due, changes, failures, stopped>>
  BY DEF Fetch
<1> DEFINE next == [Idle EXCEPT !.at = "look", !.page = page]
<1>4. next \in Run /\ next.page = page /\ next.todo = {}
  BY IdleFacts
<1> HIDE DEF next
<1>5. Rest'
  BY <1>0, <1>2, <1>3 DEF TypeOK, Rest
<1>6. run' = [run EXCEPT ![u] = next]
  BY <1>1 DEF next
<1>7. \A m \in Members : next.page[m] # "absent" => Known(m) # {} \/ ses[m] = u
  BY <1>1, <1>4
<1>8. row' = row /\ ses' = ses
  BY <1>3
<1>9. QED
  BY <1>4, <1>5, <1>6, <1>7, <1>8, RunStepInv

LEMMA PlanStepInv ==
    ASSUME IInv, NEW u \in Units, NEW n \in Run, n.page = run[u].page, \A c \in n.todo : Fits(u, c),
           run' = [run EXCEPT ![u] = n], UNCHANGED <<ses, stay, row, last, due, changes, glitches, failures, stopped>>
    PROVE  IInv'
<1>1. TypeOK /\ PlanInv(u)
  BY DEF IInv
<1>2. Rest' /\ row' = row /\ ses' = ses
  BY <1>1 DEF TypeOK, Rest
<1>3. \A m \in Members : n.page[m] # "absent" => Known(m) # {} \/ ses[m] = u
  BY <1>1 DEF PlanInv
<1>4. QED
  BY <1>2, <1>3, RunStepInv

LEMMA LookUpInv ==
    ASSUME IInv, NEW u \in Units, LookUp(u)
    PROVE  IInv'
<1> DEFINE n == run[u]
           t == Plans(u)
           next == [n EXCEPT !.at = "roster", !.todo = t]
<1>1. TypeOK /\ n \in Run
  BY DEF IInv, TypeOK
<1>2. t \in SUBSET Change /\ \A c \in t : Fits(u, c)
  BY <1>1, PlansFacts
<1>3. run' = [run EXCEPT ![u] = next] /\ UNCHANGED <<ses, stay, row, last, due, changes, glitches, failures, stopped>>
  BY <1>1 DEF LookUp, TypeOK
<1>4. next \in Run /\ next.page = n.page /\ next.todo = t
  <2>1. n \in Run
    BY <1>1
  <2> HIDE DEF n, t
  <2>2. QED
    BY <1>2, <2>1, RunWith
<1> HIDE DEF t, next
<1>5. QED
  BY <1>2, <1>3, <1>4, PlanStepInv

LEMMA ReadRosterInv ==
    ASSUME IInv, NEW u \in Units, ReadRoster(u)
    PROVE  IInv'
<1> DEFINE n == run[u]
           t == run[u].todo \cup Absence(u)
           next == [n EXCEPT !.at = "apply", !.todo = t]
<1>1. TypeOK /\ n \in Run /\ PlanInv(u)
  BY DEF IInv, TypeOK
<1>2. t \in SUBSET Change /\ \A c \in t : Fits(u, c)
  BY <1>1, AbsenceFacts DEF PlanInv, Run
<1>3. run' = [run EXCEPT ![u] = next] /\ UNCHANGED <<ses, stay, row, last, due, changes, glitches, failures, stopped>>
  BY <1>1 DEF ReadRoster, TypeOK
<1>4. next \in Run /\ next.page = n.page /\ next.todo = t
  <2>1. n \in Run
    BY <1>1
  <2> HIDE DEF n, t
  <2>2. QED
    BY <1>2, <2>1, RunWith
<1> HIDE DEF t, next
<1>5. QED
  BY <1>2, <1>3, <1>4, PlanStepInv

LEMMA EndsInv ==
    ASSUME IInv, NEW u \in Units, Aborts(u) \/ Finish(u) \/ Fails(u) \/ EnqueueMemberSync(u)
    PROVE  IInv'
<1>0. TypeOK /\ run[u] \in Run /\ failures \in Nat /\ changes \in Nat /\ Stale \in Nat
  BY ConstantsAssumption DEF IInv, TypeOK
<1>1. /\ UNCHANGED <<ses, stay, row, glitches>>
      /\ stopped' = stopped \/ stopped' = TRUE
      /\ failures' = failures \/ failures' = failures + 1
      /\ changes' = changes \/ changes' = changes + 1
  BY DEF Aborts, Finish, Fails, EnqueueMemberSync, Budget
<1>2. last' \in [Units -> 0..Stale + 1]
  <2>1. 0 \in 0..Stale + 1
    BY <1>0
  <2>2. last' = last \/ last' = [last EXCEPT ![u] = 0]
    BY DEF Aborts, Finish, Fails, EnqueueMemberSync
  <2>3. QED
    BY <1>0, <2>1, <2>2 DEF TypeOK
<1>3. due' \in [Units -> BOOLEAN]
  <2>1. \E b \in BOOLEAN : due' = [due EXCEPT ![u] = b]
    BY DEF Aborts, Finish, Fails, EnqueueMemberSync
  <2>2. QED
    BY <1>0, <2>1 DEF TypeOK
<1>s. stopped' \in BOOLEAN
  BY <1>0, <1>1 DEF TypeOK
<1>4. changes' \in Nat /\ failures' \in Nat
  BY <1>0, <1>1
<1>5. Rest'
  BY <1>0, <1>1, <1>2, <1>3, <1>4, <1>s DEF TypeOK, Rest
<1>6. run' = [run EXCEPT ![u] = Idle] \/ run' = [run EXCEPT ![u] = run[u]]
  BY <1>0 DEF Aborts, Finish, Fails, EnqueueMemberSync, TypeOK
<1>u. row' = row /\ ses' = ses
  BY <1>1
<1>7. CASE run' = [run EXCEPT ![u] = Idle]
  <2>1. Idle \in Run /\ Idle.todo = {} /\ \A m \in Members : Idle.page[m] # "absent" => Known(m) # {} \/ ses[m] = u
    BY IdleFacts
  <2>2. QED
    BY <1>5, <1>7, <1>u, <2>1, RunStepInv
<1>8. CASE run' = [run EXCEPT ![u] = run[u]]
  <2>1. /\ \A m \in Members : run[u].page[m] # "absent" => Known(m) # {} \/ ses[m] = u
        /\ \A c \in run[u].todo : Fits(u, c)
    BY DEF IInv, PlanInv
  <2>2. QED
    BY <1>0, <1>5, <1>8, <1>u, <2>1, RunStepInv
<1>9. QED
  BY <1>6, <1>7, <1>8

\* Rows change but not their owners, and nobody plans anything more.
LEMMA OwnersKeptInv ==
    ASSUME IInv, SameOwners, ses' = ses, Rest', run' \in [Units -> Run],
           \A v \in Units : run'[v].page = run[v].page /\ run'[v].todo \subseteq run[v].todo
    PROVE  IInv'
<1>1. TypeOK'
  BY DEF IInv, TypeOK, Rest, SameOwners
<1>2. \A m : Known(m)' = Known(m)
  BY DEF Known, SameOwners
<1>3. OneRowPerMember'
  BY DEF IInv, OneRowPerMember, SameOwners
<1>4. ASSUME NEW v \in Units PROVE PlanInv(v)'
  <2>1. /\ \A m \in Members : run[v].page[m] # "absent" => Known(m) # {} \/ ses[m] = v
        /\ run'[v].page = run[v].page
    BY DEF IInv, PlanInv
  <2>2. ASSUME NEW c \in run[v].todo PROVE Fits(v, c)'
    <3>1. Fits(v, c)
      BY DEF IInv, PlanInv
    <3>2. QED
      BY <1>2, <2>1, <3>1 DEF Fits, SameOwners
  <2>3. \A c \in run'[v].todo : Fits(v, c)'
    BY <2>2
  <2>4. QED
    BY <1>2, <2>1, <2>3 DEF PlanInv
<1>5. QED
  BY <1>1, <1>3, <1>4 DEF IInv

LEMMA ApplyInv ==
    ASSUME IInv, NEW u \in Units, NEW c \in run[u].todo, Apply(u, c)
    PROVE  IInv'
<1>0. TypeOK /\ run[u] \in Run /\ c \in Change
  BY DEF IInv, TypeOK, Run
<1>1. Fits(u, c) /\ c.kind # "create" /\ row' = Written(u, c)
      /\ UNCHANGED <<ses, stay, last, due, changes, glitches, failures, stopped>>
  BY DEF IInv, PlanInv, Apply
<1>2. SameOwners
  BY <1>0, <1>1, WrittenFacts DEF Fits
<1> DEFINE t == run[u].todo \ {c}
           n == run[u]
           next == [n EXCEPT !.todo = t]
<1>3. run' = [run EXCEPT ![u] = next]
  BY <1>0 DEF Apply, TypeOK
<1>4. next \in Run /\ next.page = run[u].page /\ next.todo \subseteq run[u].todo
  <2>1. t \in SUBSET Change /\ t \subseteq run[u].todo /\ n \in Run
    BY <1>0 DEF Run
  <2> HIDE DEF n, t
  <2>2. next \in Run /\ next.page = n.page /\ next.todo = t
    BY <2>1, RunDoing
  <2>3. QED
    BY <2>1, <2>2 DEF n
<1> HIDE DEF next
<1>5. run' \in [Units -> Run] /\ \A v \in Units : run'[v].page = run[v].page /\ run'[v].todo \subseteq run[v].todo
  BY <1>0, <1>3, <1>4 DEF TypeOK
<1>6. Rest'
  BY <1>0, <1>1 DEF TypeOK, Rest
<1>7. QED
  BY <1>1, <1>2, <1>5, <1>6, OwnersKeptInv

LEMMA DeletePersonInv ==
    ASSUME IInv, NEW r \in Ids, DeletePerson(r)
    PROVE  IInv'
<1>0. TypeOK /\ row[r].who # None /\ changes \in Nat
  BY DEF IInv, TypeOK, DeletePerson, Live
<1>1. UNCHANGED <<ses, stay, last, due, run, glitches, failures, stopped>> /\ changes' = changes + 1
      /\ row' = [row EXCEPT ![r] = [row[r] EXCEPT !.del = TRUE, !.miss = None]]
  BY <1>0 DEF DeletePerson, Budget, Deleted, TypeOK
<1>2. row[r] \in FullRow
  BY <1>0, RowFacts DEF TypeOK
<1>3. SameOwners
  BY <1>0, <1>1, <1>2, RowExcept, OneRowWritten
<1>4. changes' \in Nat
  BY <1>0, <1>1
<1>5. Rest' /\ run' \in [Units -> Run]
  BY <1>0, <1>1, <1>4 DEF TypeOK, Rest
<1>6. QED
  BY <1>1, <1>3, <1>5, OwnersKeptInv

LEMMA DayInv ==
    ASSUME IInv, Day
    PROVE  IInv'
<1>0. TypeOK /\ Stale \in Nat /\ Grace \in Nat
  BY ConstantsAssumption DEF IInv, TypeOK
<1>1. UNCHANGED <<ses, run, changes, glitches, failures, stopped>>
  BY DEF Day
<1>2. stay' \in [Members -> 0..3]
  <2>1. \A k \in 0..3 : Older(k, 2) \in 0..3
    BY DEF Older
  <2>2. stay' = [m \in Members |-> Older(stay[m], 2)]
    BY DEF Day
  <2>3. QED
    BY <1>0, <2>1, <2>2 DEF TypeOK
<1>3. last' \in [Units -> 0..Stale + 1]
  <2>1. \A k \in 0..Stale + 1 : Older(k, Stale + 1) \in 0..Stale + 1
    BY <1>0 DEF Older
  <2>2. last' = [u \in Units |-> Older(last[u], Stale + 1)]
    BY DEF Day
  <2>3. QED
    BY <1>0, <2>1, <2>2 DEF TypeOK
<1>4. SameOwners
  <2>1. \A k \in 0..Grace : Older(k, Grace) \in 0..Grace
    BY <1>0 DEF Older
  <2>2. row' = [r \in Ids |-> IF row[r].miss = None THEN row[r]
                              ELSE [row[r] EXCEPT !.miss = Older(row[r].miss, Grace)]]
    BY DEF Day
  <2>3. ASSUME NEW r \in Ids PROVE row'[r] \in Row /\ row'[r].who = row[r].who
    <3>1. row[r] \in Row
      BY <1>0 DEF TypeOK
    <3>2. CASE row[r].miss = None
      BY <2>2, <3>1, <3>2
    <3>3. CASE row[r].miss # None
      <4> DEFINE k == Older(row[r].miss, Grace)
      <4>1. row[r] \in FullRow
        BY <3>1, <3>3, RowFacts
      <4>2. k \in 0..Grace \cup {None}
        BY <2>1, <3>3, <4>1 DEF FullRow
      <4>3. row'[r] = [row[r] EXCEPT !.miss = k]
        BY <2>2, <3>3
      <4> HIDE DEF k
      <4>4. QED
        <5>1. [row[r] EXCEPT !.miss = k] \in FullRow /\ [row[r] EXCEPT !.miss = k].who = row[r].who
          BY <4>1, <4>2, RowExcept
        <5>2. QED
          BY <4>3, <5>1, RowFacts
    <3>4. QED
      BY <3>2, <3>3
  <2>4. QED
    BY <2>2, <2>3 DEF SameOwners
<1>5. due' \in [Units -> BOOLEAN]
  BY DEF Day
<1>6. Rest' /\ run' \in [Units -> Run]
  BY <1>0, <1>1, <1>2, <1>3, <1>5 DEF TypeOK, Rest
<1>7. QED
  BY <1>1, <1>4, <1>6, OwnersKeptInv

\* Only a member with a row, or one SES does not have, changes unit.
LEMMA MovesInv ==
    ASSUME IInv, NEW m \in Members, NEW u \in Units \cup {None}, Moves(m, u)
    PROVE  IInv'
<1>0. TypeOK /\ changes \in Nat
  BY DEF IInv, TypeOK
<1>1. /\ UNCHANGED <<row, last, due, run, glitches, failures, stopped>>
      /\ ses' = [ses EXCEPT ![m] = u] /\ stay' = [stay EXCEPT ![m] = 0]
      /\ changes' = changes + 1 /\ (ses[m] = None \/ Known(m) # {})
  BY DEF Moves, Budget
<1>2. changes' \in Nat
  BY <1>0, <1>1
<1>3. TypeOK'
  BY <1>0, <1>1, <1>2 DEF TypeOK
<1>4. \A x : Known(x)' = Known(x)
  BY <1>1 DEF Known
<1>5. ASSUME NEW v \in Units PROVE PlanInv(v)'
  <2>1. ASSUME NEW x \in Members, run[v].page[x] # "absent" PROVE Known(x) # {} \/ ses'[x] = v
    <3>1. Known(x) # {} \/ ses[x] = v
      BY <2>1 DEF IInv, PlanInv
    <3>2. v # None
      BY ConstantsAssumption
    <3>3. QED
      BY <1>0, <1>1, <3>1, <3>2 DEF TypeOK
  <2>2. \A c \in run[v].todo : Fits(v, c)'
    BY <1>1, <1>4 DEF IInv, PlanInv, Fits
  <2>3. QED
    BY <1>1, <1>4, <2>1, <2>2 DEF PlanInv
<1>6. OneRowPerMember'
  BY <1>1 DEF IInv, OneRowPerMember
<1>7. QED
  BY <1>3, <1>5, <1>6 DEF IInv

\* The new row is the member's first; any other run that was about to create it would be of
\* the unit SES has them in.
LEMMA NewRowFacts ==
    ASSUME NEW m \in Members, NEW u \in Units
    PROVE  [NoRow EXCEPT !.who = m, !.loc = u] \in FullRow /\ [NoRow EXCEPT !.who = m, !.loc = u].who = m
BY DEF NoRow, FullRow

LEMMA CreateInv ==
    ASSUME IInv, NEW u \in Units, NEW c \in run[u].todo, Create(u, c)
    PROVE  IInv'
<1> DEFINE m == c.who
           new == [NoRow EXCEPT !.who = m, !.loc = u]
<1>0. TypeOK /\ run[u] \in Run /\ row \in [Ids -> Row] /\ run \in [Units -> Run]
  BY DEF IInv, TypeOK
<1>1. PICK n \in Ids : n = NewId /\ row[n].who = None
  BY DEF Create, NewId
<1> DEFINE adopt == [kind |-> "adopt", who |-> m, id |-> n]
           t == (run[u].todo \ {c}) \cup {adopt}
           old == run[u]
           next == [old EXCEPT !.todo = t]
<1>2. c.kind = "create" /\ Fits(u, c) /\ m \in Members /\ c.id = None /\ Known(m) = {}
      /\ run[u].page[m] = "item"
  BY DEF IInv, PlanInv, Fits, Create
<1>3. UNCHANGED <<ses, stay, last, due, changes, glitches, failures, stopped>>
      /\ row' = [row EXCEPT ![n] = new] /\ run' = [run EXCEPT ![u] = next]
  BY <1>0, <1>1 DEF Create, TypeOK
<1>4. m # None
  BY <1>2, RowFacts
<1>5. new \in Row /\ new.who = m
  <2> HIDE DEF m
  <2> QED
    BY <1>2, NewRowFacts, RowFacts
<1> HIDE DEF new
<1>6. adopt \in Change /\ adopt.kind = "adopt" /\ adopt.id = n
  BY <1>2 DEF Change, Kinds
<1> HIDE DEF adopt
<1>7. t \in SUBSET Change
  BY <1>0, <1>6 DEF Run
<1>8. next \in Run /\ next.page = old.page /\ next.todo = t
  <2> HIDE DEF t
  <2>1. old \in Run
    BY <1>0
  <2> HIDE DEF old
  <2> QED
    BY <1>7, <2>1, RunDoing
<1> HIDE DEF next
<1>9. row' \in [Ids -> Row] /\ run' \in [Units -> Run] /\ run'[u] = next
      /\ row'[n].who = m /\ (\A r \in Ids : r # n => row'[r] = row[r])
      /\ (\A v \in Units : v # u => run'[v] = run[v])
  BY <1>0, <1>3, <1>5, <1>8
<1>p. \A v \in Units : run'[v].page = run[v].page
  BY <1>8, <1>9
<1>10. TypeOK'
  BY <1>0, <1>3, <1>9 DEF TypeOK
<1>11. Known(m)' = {n} /\ \A x \in Members : x # m => Known(x)' = Known(x)
  <2>1. \A r \in Ids : r # n => row[r].who # m
    BY <1>2 DEF Known
  <2> HIDE DEF m
  <2>2. Known(m)' = {n}
    BY <1>1, <1>9, <2>1 DEF Known
  <2>3. ASSUME NEW x \in Members, x # m PROVE Known(x)' = Known(x)
    <3>1. x # None
      BY RowFacts
    <3>2. QED
      BY <1>1, <1>9, <2>3, <3>1 DEF Known
  <2>4. QED
    BY <2>2, <2>3
<1>12. OneRowPerMember'
  <2>1. \A r \in Ids : r # n => row[r].who # m
    BY <1>2 DEF Known
  <2> HIDE DEF m
  <2>2. QED
    BY <1>9, <2>1 DEF IInv, OneRowPerMember
<1>13. ASSUME NEW v \in Units, NEW d \in run[v].todo, d # c PROVE Fits(v, d)'
  <2>0. d \in Change /\ run[v] \in Run /\ c \in Change
    BY <1>0 DEF Run
  <2>1. Fits(v, d) /\ run'[v].page = run[v].page
    BY <1>p DEF IInv, PlanInv
  <2>2. CASE d.kind # "create"
    <3>1. row'[d.id].who # None
      BY <1>4, <1>9, <2>1, <2>2 DEF Fits
    <3>2. QED
      BY <2>1, <2>2, <3>1 DEF Fits
  <2>3. CASE d.kind = "create"
    <3>1. d.who \in Members /\ d.id = None /\ Known(d.who) = {} /\ run[v].page[d.who] = "item"
      BY <2>1, <2>3 DEF Fits
    <3>2. d.who # m
      <4>1. SUFFICES ASSUME d.who = m PROVE FALSE
        OBVIOUS
      <4>2. ses[m] = v /\ ses[m] = u
        BY <1>2, <3>1, <4>1 DEF IInv, PlanInv
      <4>3. d = c
        BY <1>2, <2>0, <2>3, <3>1, <4>1 DEF Change
      <4>4. QED
        BY <1>13, <4>3
    <3>3. QED
      BY <1>11, <2>1, <2>3, <3>1, <3>2 DEF Fits
  <2>4. QED
    BY <2>2, <2>3
<1>14. Fits(u, adopt)'
  BY <1>1, <1>4, <1>6, <1>9 DEF Fits
<1>15. ASSUME NEW v \in Units PROVE PlanInv(v)'
  <2>1. run'[v].page = run[v].page
    BY <1>p
  <2>2. \A x \in Members : run[v].page[x] # "absent" => Known(x)' # {} \/ ses'[x] = v
    BY <1>3, <1>11 DEF IInv, PlanInv
  <2>3. \A d \in run'[v].todo : Fits(v, d)'
    <3>1. CASE v = u
      <4>1. run'[v].todo = t
        BY <1>8, <1>9, <3>1
      <4>2. ASSUME NEW d \in t PROVE Fits(v, d)'
        <5>1. CASE d = adopt
          BY <1>14, <3>1, <5>1
        <5>2. CASE d # adopt
          BY <1>13, <3>1, <5>2
        <5>3. QED
          BY <5>1, <5>2
      <4>3. QED
        BY <4>1, <4>2
    <3>2. CASE v # u
      <4>1. run'[v] = run[v]
        BY <1>9, <3>2
      <4>2. c \notin run[v].todo
        <5>1. SUFFICES ASSUME c \in run[v].todo PROVE FALSE
          OBVIOUS
        <5>2. Fits(v, c)
          BY <5>1 DEF IInv, PlanInv
        <5>3. ses[m] = v /\ ses[m] = u
          BY <1>2, <5>2 DEF IInv, PlanInv, Fits
        <5>4. QED
          BY <3>2, <5>3
      <4>3. QED
        BY <1>13, <4>1, <4>2
    <3>3. QED
      BY <3>1, <3>2
  <2>4. QED
    BY <2>1, <2>2, <2>3 DEF PlanInv
<1>16. QED
  BY <1>10, <1>12, <1>15 DEF IInv

-----------------------------------------------------------------------------
(* The specification *)

LEMMA InitInv == Init => IInv
<1> SUFFICES ASSUME Init PROVE IInv
  OBVIOUS
<1>0. Stale \in Nat
  BY ConstantsAssumption
<1>1. row \in [Ids -> Row] /\ \A r \in Ids : row[r].who = None
  BY RowFacts DEF Init
<1>2. run \in [Units -> Run] /\ \A u \in Units : run[u].todo = {} /\ \A m \in Members : run[u].page[m] = "absent"
  BY RowFacts, IdleFacts DEF Init
<1>3. last \in [Units -> 0..Stale + 1]
  <2>1. Stale + 1 \in 0..Stale + 1
    BY <1>0
  <2>2. QED
    BY <2>1 DEF Init
<1>4. stay \in [Members -> 0..3] /\ ses \in [Members -> Units \cup {None}]
  BY DEF Init
<1>5. TypeOK
  BY <1>1, <1>2, <1>3, <1>4 DEF Init, TypeOK
<1>6. QED
  BY <1>1, <1>2, <1>5 DEF IInv, OneRowPerMember, PlanInv

LEMMA Step == IInv /\ [Next]_vars => IInv'
<1> SUFFICES ASSUME IInv, [Next]_vars PROVE IInv'
  OBVIOUS
<1>1. ASSUME NEW u \in Units, Runs(u) PROVE IInv'
  BY <1>1, FetchInv, LookUpInv, ReadRosterInv, EndsInv, ApplyInv, CreateInv DEF Runs
<1>2. ASSUME NEW u \in Units, Fails(u) \/ EnqueueMemberSync(u) PROVE IInv'
  BY <1>2, EndsInv
<1>3. ASSUME NEW m \in Members, NEW u \in Units \cup {None}, Moves(m, u) PROVE IInv'
  BY <1>3, MovesInv
<1>4. ASSUME NEW r \in Ids, DeletePerson(r) PROVE IInv'
  BY <1>4, DeletePersonInv
<1>5. CASE Day
  BY <1>5, DayInv
<1>6. CASE UNCHANGED vars
  BY <1>6 DEF vars, IInv, TypeOK, OneRowPerMember, PlanInv, Fits, Known
<1>7. QED
  BY <1>1, <1>2, <1>3, <1>4, <1>5, <1>6 DEF Next

LEMMA Invariance == Spec => []IInv
BY InitInv, Step, PTL DEF Spec

\* Every variable of the sync keeps to its type, in every behaviour of the specification.
THEOREM TypeCorrect == Spec => []TypeOK
<1>1. IInv => TypeOK
  BY DEF IInv
<1>2. QED
  BY <1>1, Invariance, PTL

\* No two rows are of one member, so the look-ups of a run (at_most_one) never fail, whatever
\* runs overlap, move and delete, and wherever they stop.
THEOREM OneRowSafe == Spec => []OneRowPerMember
<1>1. IInv => OneRowPerMember
  BY DEF IInv
<1>2. QED
  BY <1>1, Invariance, PTL

-----------------------------------------------------------------------------
(* Who is deleted.  First what each step does to the runs and to the rows.        *)

Kept(u, at, todo) ==
    /\ run'[u].at = at /\ run'[u].page = run[u].page /\ run'[u].todo = todo
    /\ \A v \in Units : v # u => run'[v] = run[v]

LEMMA FetchView ==
    ASSUME TypeOK, NEW u \in Units, Fetch(u)
    PROVE  /\ UNCHANGED <<ses, stay, row, last, due, changes, failures, stopped>> /\ due[u] /\ run[u].at = "idle"
           /\ run'[u].at = "look" /\ run'[u].todo = {}
           /\ \A v \in Units : v # u => run'[v] = run[v]
           /\ \A m \in Members : ses[m] # u => run'[u].page[m] = "absent"
           /\ glitches' \in Nat /\ glitches' >= glitches /\ glitches' <= MaxGlitches
           /\ (\E m \in Members : run'[u].page[m] # PageOf(u)[m]) => glitches' >= glitches + 1
<1>1. PICK page \in Page :
          /\ \A m \in Members : ses[m] # u => page[m] = "absent"
          /\ glitches' = glitches + Cardinality({m \in Members : page[m] # PageOf(u)[m]})
          /\ glitches' <= MaxGlitches
          /\ run' = [run EXCEPT ![u] = [Idle EXCEPT !.at = "look", !.page = page]]
  BY DEF Fetch
<1> DEFINE S == {m \in Members : page[m] # PageOf(u)[m]}
           next == [Idle EXCEPT !.at = "look", !.page = page]
<1>2. next.at = "look" /\ next.page = page /\ next.todo = {}
  BY DEF Idle
<1>3. run'[u] = next /\ \A v \in Units : v # u => run'[v] = run[v]
  BY <1>1 DEF TypeOK
<1> HIDE DEF next
<1>4. IsFiniteSet(S) /\ Cardinality(S) \in Nat
  BY ConstantsAssumption, FS_Subset, FS_CardinalityType
<1>5. S # {} => Cardinality(S) >= 1
  <2>1. Cardinality(S) = 0 <=> S = {}
    BY <1>4, FS_EmptySet
  <2>2. QED
    BY <1>4, <2>1
<1>6. glitches' = glitches + Cardinality(S) /\ glitches \in Nat
  BY <1>1 DEF TypeOK
<1>7. (\E m \in Members : page[m] # PageOf(u)[m]) => S # {}
  OBVIOUS
<1> HIDE DEF S
<1>8. UNCHANGED <<ses, stay, row, last, due, changes, failures, stopped>> /\ due[u] /\ run[u].at = "idle"
  BY DEF Fetch
<1>9. /\ glitches' \in Nat /\ glitches' >= glitches /\ glitches' <= MaxGlitches
      /\ S # {} => glitches' >= glitches + 1
  BY <1>1, <1>4, <1>5, <1>6
<1>10. QED
  BY <1>1, <1>2, <1>3, <1>7, <1>8, <1>9

LEMMA LookUpView ==
    ASSUME TypeOK, NEW u \in Units, LookUp(u)
    PROVE  /\ UNCHANGED <<ses, stay, row, last, due, changes, glitches, failures, stopped>>
           /\ run[u].at = "look" /\ Kept(u, "roster", Plans(u))
<1>1. run[u] \in Run
  BY DEF TypeOK
<1>2. run' = [run EXCEPT ![u] = [run[u] EXCEPT !.at = "roster", !.todo = Plans(u)]]
  BY DEF LookUp, TypeOK
<1>3. PICK t : t = Plans(u)
  OBVIOUS
<1>4. /\ run'[u] = [run[u] EXCEPT !.at = "roster", !.todo = t]
      /\ \A v \in Units : v # u => run'[v] = run[v]
  BY <1>2, <1>3 DEF TypeOK
<1>5. run'[u].at = "roster" /\ run'[u].page = run[u].page /\ run'[u].todo = t
  BY <1>1, <1>4 DEF Run
<1>6. QED
  BY <1>3, <1>4, <1>5 DEF LookUp, Kept

LEMMA ReadRosterView ==
    ASSUME TypeOK, NEW u \in Units, ReadRoster(u)
    PROVE  /\ UNCHANGED <<ses, stay, row, last, due, changes, glitches, failures, stopped>>
           /\ run[u].at = "roster" /\ Kept(u, "apply", run[u].todo \cup Absence(u))
<1>1. run[u] \in Run
  BY DEF TypeOK
<1>2. PICK t : t = run[u].todo \cup Absence(u)
  OBVIOUS
<1>3. run' = [run EXCEPT ![u] = [run[u] EXCEPT !.at = "apply", !.todo = t]]
  BY <1>2 DEF ReadRoster, TypeOK
<1>4. /\ run'[u] = [run[u] EXCEPT !.at = "apply", !.todo = t]
      /\ \A v \in Units : v # u => run'[v] = run[v]
  BY <1>3 DEF TypeOK
<1>5. run'[u].at = "apply" /\ run'[u].page = run[u].page /\ run'[u].todo = t
  BY <1>1, <1>4 DEF Run
<1>6. QED
  BY <1>2, <1>4, <1>5 DEF ReadRoster, Kept

\* A run that ends, however it ends.
LEMMA EndsView ==
    ASSUME TypeOK, NEW u \in Units, Aborts(u) \/ Finish(u) \/ Fails(u)
    PROVE  /\ UNCHANGED <<ses, stay, row, changes, glitches>> /\ failures' \in Nat
           /\ run'[u].at = "idle" /\ run'[u].todo = {} /\ \A m \in Members : run'[u].page[m] = "absent"
           /\ \A v \in Units : v # u => run'[v] = run[v] /\ due'[v] = due[v] /\ last'[v] = last[v]
<1>1. /\ UNCHANGED <<ses, stay, row, changes, glitches>>
      /\ run' = [run EXCEPT ![u] = Idle]
      /\ failures' = failures \/ failures' = failures + 1
      /\ last' = last \/ last' = [last EXCEPT ![u] = 0]
      /\ \E b \in BOOLEAN : due' = [due EXCEPT ![u] = b]
  BY DEF Aborts, Finish, Fails
<1>2. run'[u] = Idle /\ \A v \in Units : v # u => run'[v] = run[v] /\ due'[v] = due[v] /\ last'[v] = last[v]
  BY <1>1 DEF TypeOK
<1>3. failures' \in Nat
  BY <1>1 DEF TypeOK
<1>4. Idle.at = "idle"
  BY DEF Idle
<1>5. QED
  BY <1>1, <1>2, <1>3, <1>4, IdleFacts

\* One field of the row, as the kind of the write says.
LEMMA WrittenView ==
    ASSUME TypeOK, NEW u \in Units, NEW c \in Change, c.kind # "create", c.id \in Ids,
           row[c.id].who # None, row' = Written(u, c)
    PROVE  /\ \A r \in Ids : row'[r].who = row[r].who
           /\ \A r \in Ids : r # c.id => row'[r] = row[r]
           /\ row[c.id].ses \/ c.kind = "adopt" => row'[c.id].ses
           /\ row'[c.id].loc = IF c.kind = "move" THEN u ELSE row[c.id].loc
           /\ row'[c.id].del => c.kind = "delete" \/ row[c.id].del
           /\ row'[c.id].miss = IF c.kind = "mark" THEN 0
                                ELSE IF c.kind \in {"clear", "delete", "undelete"} THEN None
                                ELSE row[c.id].miss
           /\ row[c.id].del => row'[c.id].del \/ c.kind = "undelete"
<1> DEFINE i == c.id
<1>0. PICK r : r = row[i]
  OBVIOUS
<1>1. r \in FullRow /\ row \in [Ids -> Row]
  BY <1>0, RowFacts DEF TypeOK
<1>2. c.kind \in {"adopt", "undelete", "move", "clear", "mark", "delete"}
  BY DEF Change, Kinds
<1>3. \A x \in Ids : row'[x].who = row[x].who
  BY WrittenFacts DEF SameOwners
<1>n. ASSUME NEW q, row' = [row EXCEPT ![i] = q]
      PROVE  row'[i] = q /\ \A x \in Ids : x # i => row'[x] = row[x]
  BY <1>1, <1>n
<1>4. CASE c.kind = "adopt"
  <2>1. PICK q : q = [r EXCEPT !.ses = TRUE]
    OBVIOUS
  <2>2. q.ses /\ q.loc = r.loc /\ (q.del <=> r.del) /\ q.miss = r.miss
    BY <1>1, <2>1 DEF FullRow
  <2>3. row' = [row EXCEPT ![i] = q]
    BY <1>0, <1>4, <2>1 DEF Written, TypeOK
  <2>4. row'[i] = q /\ \A x \in Ids : x # i => row'[x] = row[x]
    BY <1>n, <2>3
  <2>5. QED
    BY <1>0, <1>3, <1>4, <2>2, <2>4
<1>5. CASE c.kind = "undelete"
  <2>1. PICK q : q = [r EXCEPT !.del = FALSE, !.miss = None]
    OBVIOUS
  <2>2. (q.ses <=> r.ses) /\ q.loc = r.loc /\ ~q.del /\ q.miss = None
    BY <1>1, <2>1 DEF FullRow
  <2>3. row' = [row EXCEPT ![i] = q]
    BY <1>0, <1>5, <2>1 DEF Written, TypeOK
  <2>4. row'[i] = q /\ \A x \in Ids : x # i => row'[x] = row[x]
    BY <1>n, <2>3
  <2>5. QED
    BY <1>0, <1>3, <1>5, <2>2, <2>4
<1>6. CASE c.kind = "move"
  <2>1. PICK q : q = [r EXCEPT !.loc = u]
    OBVIOUS
  <2>2. (q.ses <=> r.ses) /\ q.loc = u /\ (q.del <=> r.del) /\ q.miss = r.miss
    BY <1>1, <2>1 DEF FullRow
  <2>3. row' = [row EXCEPT ![i] = q]
    BY <1>0, <1>6, <2>1 DEF Written, TypeOK
  <2>4. row'[i] = q /\ \A x \in Ids : x # i => row'[x] = row[x]
    BY <1>n, <2>3
  <2>5. QED
    BY <1>0, <1>3, <1>6, <2>2, <2>4
<1>7. CASE c.kind = "clear"
  <2>1. PICK q : q = [r EXCEPT !.miss = None]
    OBVIOUS
  <2>2. (q.ses <=> r.ses) /\ q.loc = r.loc /\ (q.del <=> r.del) /\ q.miss = None
    BY <1>1, <2>1 DEF FullRow
  <2>3. row' = [row EXCEPT ![i] = q]
    BY <1>0, <1>7, <2>1 DEF Written, TypeOK
  <2>4. row'[i] = q /\ \A x \in Ids : x # i => row'[x] = row[x]
    BY <1>n, <2>3
  <2>5. QED
    BY <1>0, <1>3, <1>7, <2>2, <2>4
<1>8. CASE c.kind = "mark"
  <2>1. PICK q : q = [r EXCEPT !.miss = 0]
    OBVIOUS
  <2>2. (q.ses <=> r.ses) /\ q.loc = r.loc /\ (q.del <=> r.del) /\ q.miss = 0
    BY <1>1, <2>1 DEF FullRow
  <2>3. row' = [row EXCEPT ![i] = q]
    BY <1>0, <1>8, <2>1 DEF Written, TypeOK
  <2>4. row'[i] = q /\ \A x \in Ids : x # i => row'[x] = row[x]
    BY <1>n, <2>3
  <2>5. QED
    BY <1>0, <1>3, <1>8, <2>2, <2>4
<1>9. CASE c.kind = "delete"
  <2>1. PICK q : q = [r EXCEPT !.del = TRUE, !.miss = None]
    OBVIOUS
  <2>2. (q.ses <=> r.ses) /\ q.loc = r.loc /\ q.del /\ q.miss = None
    BY <1>1, <2>1 DEF FullRow
  <2>3. row' = [row EXCEPT ![i] = q]
    BY <1>0, <1>9, <2>1 DEF Written, Deleted, TypeOK
  <2>4. row'[i] = q /\ \A x \in Ids : x # i => row'[x] = row[x]
    BY <1>n, <2>3
  <2>5. QED
    BY <1>0, <1>3, <1>9, <2>2, <2>4
<1>10. QED
  BY <1>2, <1>4, <1>5, <1>6, <1>7, <1>8, <1>9

LEMMA ApplyView ==
    ASSUME IInv, NEW u \in Units, NEW c \in run[u].todo, Apply(u, c)
    PROVE  /\ UNCHANGED <<ses, stay, last, due, changes, glitches, failures, stopped>>
           /\ run[u].at = "apply" /\ Kept(u, "apply", run[u].todo \ {c})
           /\ c \in Change /\ c.kind # "create" /\ c.id \in Ids /\ row[c.id].who # None
           /\ row' = Written(u, c)
<1>1. TypeOK /\ run[u] \in Run /\ Fits(u, c)
  BY DEF IInv, TypeOK, PlanInv
<1>2. PICK t : t = run[u].todo \ {c}
  OBVIOUS
<1>3. run' = [run EXCEPT ![u] = [run[u] EXCEPT !.todo = t]]
  BY <1>1, <1>2 DEF Apply, TypeOK
<1>4. /\ run'[u] = [run[u] EXCEPT !.todo = t]
      /\ \A v \in Units : v # u => run'[v] = run[v]
  BY <1>1, <1>3 DEF TypeOK
<1>5. run'[u].at = run[u].at /\ run'[u].page = run[u].page /\ run'[u].todo = t
  BY <1>1, <1>4 DEF Run
<1>6. c \in Change
  BY <1>1 DEF Run
<1>7. QED
  BY <1>1, <1>2, <1>4, <1>5, <1>6 DEF Apply, Kept, Fits

LEMMA CreateView ==
    ASSUME IInv, NEW u \in Units, NEW c \in run[u].todo, Create(u, c)
    PROVE  /\ UNCHANGED <<ses, stay, last, due, changes, glitches, failures, stopped>>
           /\ run[u].at = "apply" /\ c.kind = "create" /\ c.who \in Members
           /\ run[u].page[c.who] = "item" /\ Known(c.who) = {}
           /\ \E n \in Ids :
                 /\ row[n].who = None
                 /\ \A r \in Ids : r # n => row'[r] = row[r]
                 /\ row'[n].who = c.who /\ row'[n].loc = u /\ row'[n].miss = None
                 /\ ~row'[n].ses /\ ~row'[n].del
                 /\ Kept(u, "apply", (run[u].todo \ {c})
                                        \cup {[kind |-> "adopt", who |-> c.who, id |-> n]})
<1>1. TypeOK /\ run[u] \in Run /\ Fits(u, c)
  BY DEF IInv, TypeOK, PlanInv
<1>2. PICK n \in Ids : n = NewId /\ row[n].who = None
  BY DEF Create, NewId
<1>3. PICK t : t = (run[u].todo \ {c}) \cup {[kind |-> "adopt", who |-> c.who, id |-> n]}
  OBVIOUS
<1>4. run' = [run EXCEPT ![u] = [run[u] EXCEPT !.todo = t]]
  BY <1>1, <1>2, <1>3 DEF Create, TypeOK
<1>5. /\ run'[u] = [run[u] EXCEPT !.todo = t]
      /\ \A v \in Units : v # u => run'[v] = run[v]
  BY <1>1, <1>4 DEF TypeOK
<1>6. run'[u].at = run[u].at /\ run'[u].page = run[u].page /\ run'[u].todo = t
  BY <1>1, <1>5 DEF Run
<1>7. row' = [row EXCEPT ![n] = [NoRow EXCEPT !.who = c.who, !.loc = u]]
  BY <1>2 DEF Create
<1>8. /\ \A r \in Ids : r # n => row'[r] = row[r]
      /\ row'[n] = [NoRow EXCEPT !.who = c.who, !.loc = u]
  BY <1>1, <1>7 DEF TypeOK
<1>9. /\ row'[n].who = c.who /\ row'[n].loc = u /\ row'[n].miss = None /\ ~row'[n].ses /\ ~row'[n].del
  BY <1>8 DEF NoRow
<1>10. Kept(u, "apply", t)
  BY <1>5, <1>6 DEF Create, Kept
<1>11. QED
  BY <1>1, <1>2, <1>3, <1>8, <1>9, <1>10 DEF Create, Fits

LEMMA DeletePersonView ==
    ASSUME TypeOK, NEW i \in Ids, DeletePerson(i)
    PROVE  /\ UNCHANGED <<ses, stay, last, due, run, glitches, failures, stopped>>
           /\ \A r \in Ids : /\ row'[r].who = row[r].who /\ row'[r].loc = row[r].loc
                             /\ row'[r].ses = row[r].ses
                             /\ row'[r] = row[r] \/ row'[r].miss = None
<1>1. row' = [row EXCEPT ![i] = [row[i] EXCEPT !.del = TRUE, !.miss = None]]
  BY DEF DeletePerson, Deleted, TypeOK
<1>2. row[i] \in FullRow /\ row \in [Ids -> Row]
  BY RowFacts DEF TypeOK, DeletePerson, Live
<1>3. QED
  BY <1>1, <1>2 DEF DeletePerson, FullRow

LEMMA DayView ==
    ASSUME TypeOK, Day
    PROVE  /\ UNCHANGED <<ses, run, changes, glitches, failures, stopped>>
           /\ \A u \in Units : ~due[u] /\ due'[u] /\ last'[u] = Older(last[u], Stale + 1)
           /\ \A m \in Members : stay'[m] = Older(stay[m], 2)
           /\ \A r \in Ids : /\ row'[r].who = row[r].who /\ row'[r].loc = row[r].loc
                             /\ row'[r].ses = row[r].ses /\ row'[r].del = row[r].del
                             /\ row'[r].miss = IF row[r].miss = None THEN None
                                               ELSE Older(row[r].miss, Grace)
<1>1. /\ UNCHANGED <<ses, run, changes, glitches, failures, stopped>>
      /\ \A u \in Units : ~due[u] /\ due'[u] /\ last'[u] = Older(last[u], Stale + 1)
      /\ \A m \in Members : stay'[m] = Older(stay[m], 2)
  BY DEF Day
<1>2. ASSUME NEW r \in Ids
      PROVE  /\ row'[r].who = row[r].who /\ row'[r].loc = row[r].loc
             /\ row'[r].ses = row[r].ses /\ row'[r].del = row[r].del
             /\ row'[r].miss = IF row[r].miss = None THEN None ELSE Older(row[r].miss, Grace)
  <2>1. row'[r] = IF row[r].miss = None THEN row[r]
                  ELSE [row[r] EXCEPT !.miss = Older(row[r].miss, Grace)]
    BY DEF Day
  <2>2. CASE row[r].miss = None
    BY <2>1, <2>2
  <2>3. CASE row[r].miss # None
    <3>1. row[r] \in FullRow
      BY <2>3, RowFacts DEF TypeOK
    <3>2. PICK k : k = Older(row[r].miss, Grace)
      OBVIOUS
    <3>3. row'[r] = [row[r] EXCEPT !.miss = k]
      BY <2>1, <2>3, <3>2
    <3>4. QED
      BY <2>3, <3>1, <3>2, <3>3 DEF FullRow
  <2>4. QED
    BY <2>2, <2>3
<1>3. QED
  BY <1>1, <1>2

\* A run's todo is made of the page it has; a member's page and table agree with the write.
ShapeOf(u) ==
    /\ run[u].at # "idle" => due[u]
    /\ run[u].at \in {"idle", "look"} => run[u].todo = {}
    /\ \A c \in run[u].todo :
          /\ c.kind # "create" => c.who = row[c.id].who
          /\ c.kind \in {"create", "adopt", "undelete", "move"} => run[u].page[c.who] = "item"
          /\ c.kind \in {"mark", "delete"} => run[u].page[c.who] = "absent"
ShapeInv == glitches <= MaxGlitches /\ \A u \in Units : ShapeOf(u)

LEMMA WritesView ==
    ASSUME NEW kind, NEW ids
    PROVE  /\ \A c \in Writes(kind, ids) : c.kind = kind /\ c.id \in ids /\ c.who = row[c.id].who
           /\ \A r \in ids : \E c \in Writes(kind, ids) : c.kind = kind /\ c.id = r
<1>1. ASSUME NEW c \in Writes(kind, ids)
      PROVE  c.kind = kind /\ c.id \in ids /\ c.who = row[c.id].who
  <2>1. PICK r \in ids : c = [kind |-> kind, who |-> row[r].who, id |-> r]
    BY DEF Writes
  <2>2. QED
    BY <2>1
<1>2. ASSUME NEW r \in ids
      PROVE  \E c \in Writes(kind, ids) : c.kind = kind /\ c.id = r
  <2>1. PICK c : c = [kind |-> kind, who |-> row[r].who, id |-> r]
    OBVIOUS
  <2>2. c \in Writes(kind, ids)
    BY <2>1 DEF Writes
  <2>3. c.kind = kind /\ c.id = r
    BY <2>1
  <2>4. QED
    BY <2>2, <2>3
<1>3. QED
  BY <1>1, <1>2

LEMMA PlansView ==
    ASSUME TypeOK, NEW u \in Units
    PROVE  /\ \A c \in Plans(u) :
                 /\ c.kind \in {"create", "adopt", "undelete", "move", "clear"}
                 /\ c.who \in Members /\ run[u].page[c.who] = "item"
                 /\ c.kind # "create" => c.id \in Ids /\ c.who = row[c.id].who
           /\ \A r \in Ids : row[r].who \in Members /\ run[u].page[row[r].who] = "item" =>
                 /\ row[r].del /\ row[r].miss # None =>
                       \E c \in Plans(u) : c.kind = "clear" /\ c.id = r
                 /\ row[r].ses /\ row[r].loc # u =>
                       \E c \in Plans(u) : c.kind = "move" /\ c.id = r
<1> DEFINE items == {m \in Members : run[u].page[m] = "item"}
           found == {r \in Ids : row[r].who \in items}
           adopt == {r \in found : ~row[r].ses}
           back  == {r \in found \ adopt : row[r].del}
           moved == {r \in found \ adopt : row[r].loc # u} \cup back
           marked == {r \in adopt \cup moved : row[r].miss # None}
           new == {[kind |-> "create", who |-> m, id |-> None] : m \in {i \in items : Known(i) = {}}}
<1>1. Plans(u) = new \cup Writes("adopt", adopt) \cup Writes("undelete", back)
                 \cup Writes("move", moved) \cup Writes("clear", marked)
  BY DEF Plans
<1>2. \A r \in found : r \in Ids /\ row[r].who \in Members /\ run[u].page[row[r].who] = "item"
  OBVIOUS
<1>3. adopt \subseteq found /\ back \subseteq found /\ moved \subseteq found /\ marked \subseteq found
  OBVIOUS
<1>4. \A c \in new : c.kind = "create" /\ c.who \in Members /\ run[u].page[c.who] = "item"
  OBVIOUS
<1>5. \A r \in found : /\ row[r].del /\ row[r].miss # None => r \in marked
                       /\ row[r].ses /\ row[r].loc # u => r \in moved
  OBVIOUS
<1>6. \A r \in Ids : row[r].who \in Members /\ run[u].page[row[r].who] = "item" => r \in found
  OBVIOUS
<1> HIDE DEF items, found, adopt, back, moved, marked, new
<1>7. ASSUME NEW kind \in Kinds, NEW ids, ids \subseteq found
      PROVE  /\ \A c \in Writes(kind, ids) :
                   /\ c.kind = kind /\ c.id \in ids /\ c.who = row[c.id].who
                   /\ c.id \in Ids /\ c.who \in Members /\ run[u].page[c.who] = "item"
             /\ \A r \in ids : \E c \in Writes(kind, ids) : c.kind = kind /\ c.id = r
  BY <1>2, <1>7, WritesView
<1>8. {"adopt", "undelete", "move", "clear"} \subseteq Kinds
  BY DEF Kinds
<1>9. \A c \in Plans(u) :
         /\ c.kind \in {"create", "adopt", "undelete", "move", "clear"}
         /\ c.who \in Members /\ run[u].page[c.who] = "item"
         /\ c.kind # "create" => c.id \in Ids /\ c.who = row[c.id].who
  <2> TAKE c \in Plans(u)
  <2>1. CASE c \in new
    BY <1>4, <2>1
  <2>2. CASE c \in Writes("adopt", adopt)
    BY <1>3, <1>7, <1>8, <2>2
  <2>3. CASE c \in Writes("undelete", back)
    BY <1>3, <1>7, <1>8, <2>3
  <2>4. CASE c \in Writes("move", moved)
    BY <1>3, <1>7, <1>8, <2>4
  <2>5. CASE c \in Writes("clear", marked)
    BY <1>3, <1>7, <1>8, <2>5
  <2>6. QED
    BY <1>1, <2>1, <2>2, <2>3, <2>4, <2>5
<1>10. ASSUME NEW r \in Ids, row[r].who \in Members, run[u].page[row[r].who] = "item"
       PROVE  /\ row[r].del /\ row[r].miss # None => \E c \in Plans(u) : c.kind = "clear" /\ c.id = r
              /\ row[r].ses /\ row[r].loc # u => \E c \in Plans(u) : c.kind = "move" /\ c.id = r
  <2>1. r \in found
    BY <1>6, <1>10
  <2>2. r \in marked => \E c \in Plans(u) : c.kind = "clear" /\ c.id = r
    BY <1>1, <1>3, <1>7, <1>8
  <2>3. r \in moved => \E c \in Plans(u) : c.kind = "move" /\ c.id = r
    BY <1>1, <1>3, <1>7, <1>8
  <2>4. QED
    BY <1>5, <2>1, <2>2, <2>3
<1>11. QED
  BY <1>9, <1>10

LEMMA AbsenceView ==
    ASSUME TypeOK, NEW u \in Units
    PROVE  /\ \A c \in Absence(u) :
                 /\ c.kind \in {"clear", "mark", "delete"}
                 /\ c.id \in Ids /\ c.who = row[c.id].who /\ c.who \in Members /\ row[c.id].loc = u
                 /\ c.kind = "clear" => run[u].page[c.who] # "absent"
                 /\ c.kind # "clear" => run[u].page[c.who] = "absent"
                 /\ c.kind = "delete" =>
                       row[c.id].miss # None /\ row[c.id].miss >= Grace /\ last[u] <= Stale
           /\ \A r \in Ids : Live(r) /\ row[r].loc = u /\ row[r].miss # None
                             /\ run[u].page[row[r].who] # "absent" =>
                 \E c \in Absence(u) : c.kind = "clear" /\ c.id = r
<1> DEFINE seen == {r \in Roster(u) : row[r].miss # None /\ Seen(u, r)}
<1>1. \A r \in Roster(u) : r \in Ids /\ row[r].who \in Members /\ row[r].loc = u
  BY RowFacts DEF Roster, Live, TypeOK, FullRow
<1>2. /\ \A r \in seen : r \in Roster(u) /\ run[u].page[row[r].who] # "absent"
      /\ \A r \in Marked(u) \cup Ripe(u) : r \in Roster(u) /\ run[u].page[row[r].who] = "absent"
      /\ \A r \in Ripe(u) : row[r].miss # None /\ row[r].miss >= Grace /\ last[u] <= Stale
  BY DEF Marked, Ripe, Candidates, Synced, Seen
<1>3. Absence(u) = Writes("clear", seen)
                   \cup IF Usable(u) THEN Writes("mark", Marked(u)) \cup Writes("delete", Ripe(u)) ELSE {}
  BY DEF Absence
<1>4. \A r \in Ids : Live(r) /\ row[r].loc = u /\ row[r].miss # None
                     /\ run[u].page[row[r].who] # "absent" => r \in seen
  BY DEF Roster, Seen
<1> HIDE DEF seen
<1>6. ASSUME NEW c \in Absence(u)
      PROVE  /\ c.kind \in {"clear", "mark", "delete"}
             /\ c.id \in Ids /\ c.who = row[c.id].who /\ c.who \in Members /\ row[c.id].loc = u
             /\ c.kind = "clear" => run[u].page[c.who] # "absent"
             /\ c.kind # "clear" => run[u].page[c.who] = "absent"
             /\ c.kind = "delete" =>
                   row[c.id].miss # None /\ row[c.id].miss >= Grace /\ last[u] <= Stale
  <2>1. CASE c \in Writes("clear", seen)
    BY <1>1, <1>2, WritesView, <2>1
  <2>2. CASE c \in Writes("mark", Marked(u))
    BY <1>1, <1>2, WritesView, <2>2
  <2>3. CASE c \in Writes("delete", Ripe(u))
    BY <1>1, <1>2, WritesView, <2>3
  <2>4. QED
    BY <1>3, <1>6, <2>1, <2>2, <2>3
<1>7. \A r \in seen : \E c \in Absence(u) : c.kind = "clear" /\ c.id = r
  BY <1>3, WritesView
<1>8. QED
  BY <1>4, <1>6, <1>7

LEMMA ShapeKept ==
    ASSUME IInv, NEW v \in Units, ShapeOf(v), run'[v] = run[v], due[v] => due'[v],
           \A r \in Ids : row[r].who # None => row'[r].who = row[r].who
    PROVE  ShapeOf(v)'
<1>1. \A c \in run[v].todo : c.kind # "create" => row'[c.id].who = row[c.id].who
  BY DEF IInv, PlanInv, Fits
<1>2. QED
  BY <1>1 DEF ShapeOf

LEMMA ShapeStep ==
    ASSUME IInv, ShapeInv, [Next]_vars
    PROVE  ShapeInv'
<1> USE DEF ShapeInv
<1>t. TypeOK
  BY DEF IInv
<1>o. ASSUME NEW u \in Units, \A v \in Units : v # u => run'[v] = run[v] /\ (due[v] => due'[v]),
             \A r \in Ids : row[r].who # None => row'[r].who = row[r].who,
             glitches' <= MaxGlitches, ShapeOf(u)'
      PROVE  ShapeInv'
  BY <1>o, ShapeKept
<1>a. ASSUME run' = run, \A v \in Units : due[v] => due'[v],
             \A r \in Ids : row[r].who # None => row'[r].who = row[r].who, glitches' = glitches
      PROVE  ShapeInv'
  BY <1>a, ShapeKept
<1>1. ASSUME NEW u \in Units, Fetch(u) PROVE ShapeInv'
  <2>1. ShapeOf(u)'
    BY <1>1, <1>t, FetchView DEF ShapeOf
  <2>2. QED
    BY <1>1, <1>o, <1>t, <2>1, FetchView
<1>2. ASSUME NEW u \in Units, LookUp(u) PROVE ShapeInv'
  <2>1. /\ UNCHANGED <<row, due, glitches>> /\ run[u].at = "look" /\ Kept(u, "roster", Plans(u))
    BY <1>2, <1>t, LookUpView
  <2>2. ShapeOf(u)'
    BY <1>t, <2>1, PlansView DEF ShapeOf, Kept
  <2>3. QED
    BY <1>o, <2>1, <2>2 DEF Kept
<1>3. ASSUME NEW u \in Units, ReadRoster(u) PROVE ShapeInv'
  <2>1. /\ UNCHANGED <<row, due, glitches>> /\ run[u].at = "roster"
        /\ Kept(u, "apply", run[u].todo \cup Absence(u))
    BY <1>3, <1>t, ReadRosterView
  <2>2. ShapeOf(u)'
    BY <1>t, <2>1, AbsenceView DEF ShapeOf, Kept
  <2>3. QED
    BY <1>o, <2>1, <2>2 DEF Kept
<1>4. ASSUME NEW u \in Units, Aborts(u) \/ Finish(u) \/ Fails(u) PROVE ShapeInv'
  <2>1. ShapeOf(u)'
    BY <1>4, <1>t, EndsView DEF ShapeOf
  <2>2. QED
    BY <1>4, <1>o, <1>t, <2>1, EndsView
<1>5. ASSUME NEW u \in Units, NEW c \in run[u].todo, Apply(u, c) PROVE ShapeInv'
  <2>1. /\ UNCHANGED <<due, glitches>> /\ run[u].at = "apply" /\ Kept(u, "apply", run[u].todo \ {c})
    BY <1>5, ApplyView
  <2>2. \A r \in Ids : row'[r].who = row[r].who
    BY <1>5, <1>t, ApplyView, WrittenView
  <2>3. \A d \in run[u].todo : d.kind # "create" => d.id \in Ids
    BY DEF IInv, PlanInv, Fits
  <2>4. ShapeOf(u)'
    BY <2>1, <2>2, <2>3 DEF ShapeOf, Kept
  <2>5. QED
    BY <1>o, <2>1, <2>2, <2>4 DEF Kept
<1>6. ASSUME NEW u \in Units, NEW c \in run[u].todo, Create(u, c) PROVE ShapeInv'
  <2>1. /\ UNCHANGED <<due, glitches>> /\ run[u].at = "apply" /\ run[u].page[c.who] = "item"
    BY <1>6, CreateView
  <2>2. PICK n \in Ids :
          /\ row[n].who = None /\ row'[n].who = c.who
          /\ \A r \in Ids : r # n => row'[r] = row[r]
          /\ Kept(u, "apply", (run[u].todo \ {c}) \cup {[kind |-> "adopt", who |-> c.who, id |-> n]})
    BY <1>6, CreateView
  <2>3. \A d \in run[u].todo : d.kind # "create" => row'[d.id] = row[d.id]
    BY <2>2 DEF IInv, PlanInv, Fits
  <2>4. PICK a : a = [kind |-> "adopt", who |-> c.who, id |-> n]
    OBVIOUS
  <2>5. a.kind = "adopt" /\ a.who = row'[a.id].who /\ run[u].page[a.who] = "item"
    BY <2>1, <2>2, <2>4
  <2>6. ShapeOf(u)'
    BY <2>1, <2>2, <2>3, <2>4, <2>5 DEF ShapeOf, Kept
  <2>7. QED
    BY <1>o, <2>1, <2>2, <2>6 DEF Kept
<1>7. ASSUME NEW u \in Units, EnqueueMemberSync(u) PROVE ShapeInv'
  <2>1. \A v \in Units : due[v] => due'[v]
    BY <1>7, <1>t DEF EnqueueMemberSync, TypeOK
  <2>2. QED
    BY <1>7, <1>a, <2>1 DEF EnqueueMemberSync
<1>8. ASSUME NEW m \in Members, NEW u \in Units \cup {None}, Moves(m, u) PROVE ShapeInv'
  BY <1>8, <1>a DEF Moves
<1>9. ASSUME NEW r \in Ids, DeletePerson(r) PROVE ShapeInv'
  BY <1>9, <1>a, <1>t, DeletePersonView
<1>10. CASE Day
  BY <1>10, <1>a, <1>t, DayView
<1>11. CASE UNCHANGED vars
  BY <1>11, <1>a DEF vars
<1>12. QED
  BY <1>1, <1>2, <1>3, <1>4, <1>5, <1>6, <1>7, <1>8, <1>9, <1>10, <1>11 DEF Next, Runs

\* Who has been in one unit all along.
HomeOf(m) ==
    stay[m] = 3 =>
        /\ ses[m] \in Units
        /\ \A u \in Units : /\ run[u].page[m] # "absent" => u = ses[m]
                            /\ \A c \in run[u].todo : c.who = m => u = ses[m]
        /\ \A r \in Known(m) : row[r].loc = ses[m]
HomeInv == \A m \in Members : HomeOf(m)

\* A member whom SES moves has to start again.
LEMMA StayView ==
    ASSUME IInv, [Next]_vars, NEW m \in Members, stay'[m] # 0
    PROVE  /\ ses'[m] = ses[m]
           /\ stay'[m] = stay[m] \/ (Day /\ stay'[m] = Older(stay[m], 2))
           /\ stay'[m] = 3 => stay[m] = 3
<1>t. TypeOK /\ stay[m] \in 0..3
  BY DEF IInv, TypeOK
<1>1. ASSUME NEW u \in Units, Runs(u) \/ Fails(u) \/ EnqueueMemberSync(u)
      PROVE  UNCHANGED <<ses, stay>>
  BY <1>1 DEF Runs, Fails, EnqueueMemberSync, Fetch, LookUp, ReadRoster, Aborts, Finish, Apply, Create
<1>2. ASSUME NEW n \in Members, NEW u \in Units \cup {None}, Moves(n, u)
      PROVE  ses'[m] = ses[m] /\ stay'[m] = stay[m]
  <2>1. ses' = [ses EXCEPT ![n] = u] /\ stay' = [stay EXCEPT ![n] = 0]
    BY <1>2 DEF Moves
  <2>2. n # m
    BY <2>1, <1>t DEF TypeOK
  <2>3. QED
    BY <2>1, <2>2, <1>t DEF TypeOK
<1>3. ASSUME NEW r \in Ids, DeletePerson(r)
      PROVE  UNCHANGED <<ses, stay>>
  BY <1>3 DEF DeletePerson
<1>4. CASE Day
  <2>1. ses'[m] = ses[m] /\ stay'[m] = Older(stay[m], 2)
    BY <1>4, <1>t, DayView
  <2>2. stay'[m] = 3 => stay[m] = 3
    BY <1>t, <2>1 DEF Older
  <2>3. QED
    BY <1>4, <2>1, <2>2
<1>5. CASE UNCHANGED vars
  BY <1>5 DEF vars
<1>6. QED
  BY <1>1, <1>2, <1>3, <1>4, <1>5 DEF Next

LEMMA HomeStep ==
    ASSUME IInv, ShapeInv, HomeInv, [Next]_vars
    PROVE  HomeInv'
<1> SUFFICES ASSUME NEW m \in Members, stay'[m] = 3 PROVE HomeOf(m)'
  BY DEF HomeInv, HomeOf
<1>t. TypeOK
  BY DEF IInv
<1>s. stay[m] = 3 /\ ses'[m] = ses[m]
  BY StayView
<1>h. /\ ses[m] \in Units
      /\ \A u \in Units : /\ run[u].page[m] # "absent" => u = ses[m]
                          /\ \A c \in run[u].todo : c.who = m => u = ses[m]
      /\ \A r \in Ids : row[r].who = m => row[r].loc = ses[m]
  BY <1>s DEF HomeInv, HomeOf, Known
<1>o. ASSUME NEW u \in Units, \A v \in Units : v # u => run'[v] = run[v],
             run'[u].page[m] # "absent" => u = ses[m],
             \A c \in run'[u].todo : c.who = m => u = ses[m],
             \A r \in Ids : row'[r].who = m => row'[r].loc = ses[m]
      PROVE  HomeOf(m)'
  BY <1>h, <1>o, <1>s DEF HomeOf, Known
<1>a. ASSUME run' = run, \A r \in Ids : row'[r].who = row[r].who /\ row'[r].loc = row[r].loc
      PROVE  HomeOf(m)'
  BY <1>h, <1>a, <1>s DEF HomeOf, Known
<1>1. ASSUME NEW u \in Units, Fetch(u) PROVE HomeOf(m)'
  BY <1>1, <1>h, <1>o, <1>t, FetchView
<1>2. ASSUME NEW u \in Units, LookUp(u) PROVE HomeOf(m)'
  <2>1. UNCHANGED row /\ Kept(u, "roster", Plans(u))
    BY <1>2, <1>t, LookUpView
  <2>2. \A c \in Plans(u) : c.who = m => u = ses[m]
    BY <1>h, <1>t, PlansView
  <2>3. QED
    BY <1>h, <1>o, <2>1, <2>2 DEF Kept
<1>3. ASSUME NEW u \in Units, ReadRoster(u) PROVE HomeOf(m)'
  <2>1. UNCHANGED row /\ Kept(u, "apply", run[u].todo \cup Absence(u))
    BY <1>3, <1>t, ReadRosterView
  <2>2. \A c \in Absence(u) : c.who = m => u = ses[m]
    BY <1>h, <1>t, AbsenceView
  <2>3. QED
    BY <1>h, <1>o, <2>1, <2>2 DEF Kept
<1>4. ASSUME NEW u \in Units, Aborts(u) \/ Finish(u) \/ Fails(u) PROVE HomeOf(m)'
  BY <1>4, <1>h, <1>o, <1>t, EndsView
<1>5. ASSUME NEW u \in Units, NEW c \in run[u].todo, Apply(u, c) PROVE HomeOf(m)'
  <2>1. Kept(u, "apply", run[u].todo \ {c}) /\ c \in Change /\ c.kind # "create" /\ c.id \in Ids
    BY <1>5, ApplyView
  <2>2. /\ \A r \in Ids : row'[r].who = row[r].who
        /\ \A r \in Ids : r # c.id => row'[r] = row[r]
        /\ row'[c.id].loc = u \/ row'[c.id].loc = row[c.id].loc
    BY <1>5, <1>t, ApplyView, WrittenView
  <2>3. c.who = row[c.id].who
    BY <2>1 DEF ShapeInv, ShapeOf
  <2>4. \A r \in Ids : row'[r].who = m => row'[r].loc = ses[m]
    BY <1>h, <2>1, <2>2, <2>3
  <2>5. QED
    BY <1>h, <1>o, <2>1, <2>4 DEF Kept
<1>6. ASSUME NEW u \in Units, NEW c \in run[u].todo, Create(u, c) PROVE HomeOf(m)'
  <2>1. PICK n \in Ids :
          /\ row'[n].who = c.who /\ row'[n].loc = u
          /\ \A r \in Ids : r # n => row'[r] = row[r]
          /\ Kept(u, "apply", (run[u].todo \ {c}) \cup {[kind |-> "adopt", who |-> c.who, id |-> n]})
    BY <1>6, CreateView
  <2>2. c.who = m => u = ses[m]
    BY <1>h
  <2>3. \A r \in Ids : row'[r].who = m => row'[r].loc = ses[m]
    BY <1>h, <2>1, <2>2
  <2>4. QED
    BY <1>h, <1>o, <2>1, <2>2, <2>3 DEF Kept
<1>7. ASSUME NEW u \in Units, EnqueueMemberSync(u) PROVE HomeOf(m)'
  BY <1>7, <1>a DEF EnqueueMemberSync
<1>8. ASSUME NEW n \in Members, NEW u \in Units \cup {None}, Moves(n, u) PROVE HomeOf(m)'
  BY <1>8, <1>a DEF Moves
<1>9. ASSUME NEW r \in Ids, DeletePerson(r) PROVE HomeOf(m)'
  BY <1>9, <1>a, <1>t, DeletePersonView
<1>10. CASE Day
  BY <1>10, <1>a, <1>t, DayView
<1>11. CASE UNCHANGED vars
  BY <1>11, <1>a DEF vars
<1>12. QED
  BY <1>1, <1>2, <1>3, <1>4, <1>5, <1>6, <1>7, <1>8, <1>9, <1>10, <1>11 DEF Next, Runs

Plan(u, kind, r) == \E c \in run[u].todo : c.kind = kind /\ c.id = r

Aged(r) == row[r].miss # None /\ row[r].miss >= 1
\* The unit has synced since it marked the row, and recently.
Since(r, v) == row[r].miss # None /\ last[v] <= Stale /\ last[v] < row[r].miss
LeftOut(m, v) == run[v].at # "idle" /\ run[v].page[m] # "item"

\* How many wrong entries it takes to get row r of m, who is in unit v all along, so far.
Counted(r, m, v) ==
    /\ row[r].miss # None => glitches >= 1
    /\ Since(r, v) => glitches >= 2
    /\ LeftOut(m, v) => glitches >= 1
    /\ LeftOut(m, v) /\ Aged(r) => glitches >= 2
    /\ LeftOut(m, v) /\ Since(r, v) /\ Aged(r) => glitches >= 3
    /\ run[v].at = "roster" /\ run[v].page[m] = "item" /\ Aged(r) /\ row[r].del => Plan(v, "clear", r)
    /\ run[v].at = "apply" /\ run[v].page[m] = "item" /\ Aged(r) => Plan(v, "clear", r)
    /\ \A u \in Units : Plan(u, "delete", r) => glitches >= 3
CountedInv == \A m \in Members : stay[m] = 3 => \A r \in Known(m) : Counted(r, m, ses[m])

\* Without a marker only the page in hand and the plans count.
LEMMA UnmarkedCounted ==
    ASSUME NEW r, NEW m, NEW v, row'[r].miss = None \/ row'[r].miss = 0,
           last'[v] \in Nat, None \notin Nat,
           row'[r].miss = 0 => glitches' >= 1,
           LeftOut(m, v)' => glitches' >= 1,
           \A u \in Units : Plan(u, "delete", r)' => glitches' >= 3
    PROVE  Counted(r, m, v)'
<1>1. ~Aged(r)' /\ ~Since(r, v)'
  BY DEF Aged, Since
<1>2. QED
  BY <1>1 DEF Counted

\* More wrong entries, the same marker.
LEMMA MoreCounted ==
    ASSUME NEW r, NEW m, NEW v, Counted(r, m, v), glitches \in Nat, glitches' \in Nat,
           glitches' >= glitches, row'[r] = row[r], last'[v] = last[v],
           run'[v].at = run[v].at, run'[v].page = run[v].page,
           Plan(v, "clear", r) => Plan(v, "clear", r)',
           \A u \in Units : Plan(u, "delete", r)' => Plan(u, "delete", r)
    PROVE  Counted(r, m, v)'
<1>1. /\ Aged(r)' <=> Aged(r)
      /\ Since(r, v)' <=> Since(r, v)
      /\ LeftOut(m, v)' <=> LeftOut(m, v)
  BY DEF Aged, Since, LeftOut
<1>2. \A k \in {1, 2, 3} : glitches >= k => glitches' >= k
  OBVIOUS
<1>3. QED
  BY <1>1, <1>2 DEF Counted

LEMMA CountedFetch ==
    ASSUME TypeOK, NEW u \in Units, Fetch(u), NEW r \in Ids, NEW m \in Members, NEW v \in Units,
           ses[m] = v, Counted(r, m, v)
    PROVE  Counted(r, m, v)'
<1>1. /\ UNCHANGED <<row, last>> /\ run'[u].at = "look" /\ run'[u].todo = {}
      /\ \A w \in Units : w # u => run'[w] = run[w]
      /\ glitches' \in Nat /\ glitches' >= glitches /\ glitches \in Nat
      /\ (\E n \in Members : run'[u].page[n] # PageOf(u)[n]) => glitches' >= glitches + 1
  BY FetchView DEF TypeOK
<1>2. \A w \in Units : Plan(w, "delete", r)' => Plan(w, "delete", r)
  BY <1>1 DEF Plan
<1>3. CASE u # v
  BY <1>1, <1>2, <1>3, MoreCounted DEF Plan
<1>4. CASE u = v
  <2>1. /\ Aged(r)' <=> Aged(r)
        /\ Since(r, v)' <=> Since(r, v)
    BY <1>1 DEF Aged, Since
  <2>2. LeftOut(m, v)' => glitches' >= glitches + 1
    BY <1>1, <1>4 DEF LeftOut, PageOf
  <2>3. \A k \in {1, 2, 3} : /\ glitches >= k => glitches' >= k
                             /\ LeftOut(m, v)' /\ glitches + 1 >= k => glitches' >= k
    BY <1>1, <2>2
  <2>4. \A k \in {0, 1, 2} : glitches >= k => glitches + 1 >= k + 1
    BY <1>1
  <2>5. Aged(r) => row[r].miss # None
    BY DEF Aged
  <2>6. /\ LeftOut(m, v)' => glitches' >= 1
        /\ LeftOut(m, v)' /\ Aged(r) => glitches' >= 2
        /\ LeftOut(m, v)' /\ Since(r, v) => glitches' >= 3
    BY <1>1, <2>2, <2>5 DEF Counted
  <2>7. QED
    BY <1>1, <1>2, <1>4, <2>1, <2>3, <2>6 DEF Counted
<1>5. QED
  BY <1>3, <1>4

LEMMA CountedLookUp ==
    ASSUME TypeOK, NEW u \in Units, LookUp(u), NEW m \in Members, NEW r \in Known(m), NEW v \in Units,
           Counted(r, m, v)
    PROVE  Counted(r, m, v)'
<1>0. r \in Ids /\ row[r].who = m /\ glitches \in Nat
  BY DEF Known, TypeOK
<1>1. /\ UNCHANGED <<row, last, glitches>> /\ run[u].at = "look" /\ Kept(u, "roster", Plans(u))
  BY LookUpView
<1>2. \A w \in Units : Plan(w, "delete", r)' => Plan(w, "delete", r)
  BY <1>1, PlansView DEF Plan, Kept
<1>3. CASE u # v
  <2>1. run'[v] = run[v]
    BY <1>1, <1>3 DEF Kept
  <2>2. Plan(v, "clear", r) => Plan(v, "clear", r)'
    BY <2>1 DEF Plan
  <2>3. QED
    BY <1>0, <1>1, <1>2, <2>1, <2>2, MoreCounted
<1>4. CASE u = v
  <2>1. /\ Aged(r)' <=> Aged(r)
        /\ Since(r, v)' <=> Since(r, v)
        /\ LeftOut(m, v)' <=> LeftOut(m, v)
    BY <1>1, <1>4 DEF Aged, Since, LeftOut, Kept
  <2>2. run'[v].page[m] = "item" /\ Aged(r) /\ row[r].del => Plan(v, "clear", r)'
    BY <1>0, <1>1, <1>4, PlansView DEF Plan, Kept, Aged
  <2>3. QED
    BY <1>1, <1>2, <1>4, <2>1, <2>2 DEF Counted, Kept
<1>5. QED
  BY <1>3, <1>4

LEMMA CountedReadRoster ==
    ASSUME TypeOK, Stale < Grace, NEW u \in Units, ReadRoster(u), NEW m \in Members, NEW r \in Known(m),
           NEW v \in Units, row[r].loc = v, Counted(r, m, v)
    PROVE  Counted(r, m, v)'
<1>0. r \in Ids /\ row[r].who = m /\ m # None /\ glitches \in Nat
  BY RowFacts DEF Known, TypeOK
<1>1. /\ UNCHANGED <<row, last, glitches>> /\ run[u].at = "roster"
      /\ Kept(u, "apply", run[u].todo \cup Absence(u))
  BY ReadRosterView
<1>2. ASSUME NEW w \in Units, Plan(w, "delete", r)' PROVE glitches' >= 3
  <2>1. CASE Plan(w, "delete", r)
    BY <1>1, <2>1 DEF Counted
  <2>2. CASE w = u /\ \E c \in Absence(u) : c.kind = "delete" /\ c.id = r
    <3>1. /\ u = v /\ run[v].page[m] = "absent"
          /\ row[r].miss # None /\ row[r].miss >= Grace /\ last[u] <= Stale
      BY <1>0, <2>2, AbsenceView
    <3>a. row[r] \in FullRow /\ last[u] \in 0..Stale + 1
      BY <1>0, RowFacts DEF TypeOK
    <3>b. Grace \in Nat \ {0} /\ Stale \in Nat
      BY ConstantsAssumption
    <3>c. row[r].miss \in 0..Grace
      BY <3>1, <3>a DEF FullRow
    <3>2. row[r].miss \in Nat /\ last[u] \in Nat /\ Grace \in Nat \ {0} /\ Stale \in Nat
      BY <3>a, <3>b, <3>c
    <3>3. Aged(r) /\ Since(r, v)
      BY <3>1, <3>2 DEF Aged, Since
    <3>4. QED
      BY <1>1, <3>1, <3>3 DEF Counted, LeftOut
  <2>3. QED
    BY <1>1, <1>2, <2>1, <2>2 DEF Plan, Kept
<1>3. CASE u # v
  <2>1. run'[v] = run[v]
    BY <1>1, <1>3 DEF Kept
  <2>2. /\ Aged(r)' <=> Aged(r)
        /\ Since(r, v)' <=> Since(r, v)
        /\ LeftOut(m, v)' <=> LeftOut(m, v)
        /\ Plan(v, "clear", r)' <=> Plan(v, "clear", r)
    BY <1>1, <2>1 DEF Aged, Since, LeftOut, Plan
  <2>3. QED
    BY <1>1, <1>2, <2>1, <2>2 DEF Counted
<1>4. CASE u = v
  <2>1. /\ Aged(r)' <=> Aged(r)
        /\ Since(r, v)' <=> Since(r, v)
        /\ LeftOut(m, v)' <=> LeftOut(m, v)
        /\ run'[v].page = run[v].page /\ run'[v].at = "apply"
    BY <1>1, <1>4 DEF Aged, Since, LeftOut, Kept
  <2>2. Plan(v, "clear", r) => Plan(v, "clear", r)'
    BY <1>1, <1>4 DEF Plan, Kept
  <2>3. run[v].page[m] = "item" /\ Aged(r) /\ ~row[r].del => Plan(v, "clear", r)'
    BY <1>0, <1>1, <1>4, AbsenceView DEF Plan, Kept, Aged, Live
  <2>4. QED
    BY <1>1, <1>2, <1>4, <2>1, <2>2, <2>3 DEF Counted
<1>5. QED
  BY <1>3, <1>4

\* A run that ends with nothing left to write has cleared the markers of those it has seen, so
\* whoever is still marked was left out.
LEMMA CountedEnds ==
    ASSUME TypeOK, ShapeInv, NEW u \in Units, Aborts(u) \/ Finish(u) \/ Fails(u),
           NEW m \in Members, NEW r \in Known(m), NEW v \in Units, Counted(r, m, v)
    PROVE  Counted(r, m, v)'
<1>1. /\ UNCHANGED <<row, glitches>> /\ run'[u].at = "idle" /\ run'[u].todo = {}
      /\ \A w \in Units : w # u => run'[w] = run[w] /\ last'[w] = last[w]
  BY EndsView
<1>0. r \in Ids /\ glitches \in Nat
  BY DEF Known, TypeOK
<1>2. \A w \in Units : Plan(w, "delete", r)' => Plan(w, "delete", r)
  BY <1>1 DEF Plan
<1>3. CASE u # v
  <2>1. Plan(v, "clear", r) => Plan(v, "clear", r)'
    BY <1>1, <1>3 DEF Plan
  <2>2. run'[v] = run[v] /\ last'[v] = last[v]
    BY <1>1, <1>3
  <2>3. QED
    BY <1>0, <1>1, <1>2, <2>1, <2>2, MoreCounted
<1>4. CASE u = v /\ ~Finish(u)
  <2>1. last' = last
    BY <1>4 DEF Aborts, Fails
  <2>2. (Since(r, v)' <=> Since(r, v)) /\ ~LeftOut(m, v)'
    BY <1>1, <1>4, <2>1 DEF Since, LeftOut
  <2>3. QED
    BY <1>1, <1>2, <1>4, <2>2 DEF Counted
<1>5. CASE u = v /\ Finish(u)
  <2>1. last'[v] = 0 /\ run[v].at = "apply" /\ run[v].todo = {}
    BY <1>5 DEF Finish, TypeOK
  <2>2. Since(r, v)' => Aged(r)
    <3>1. row[r].miss # None => row[r].miss \in 0..Grace
      BY <1>0, RowFacts DEF TypeOK, FullRow
    <3>2. Grace \in Nat
      BY ConstantsAssumption
    <3>3. QED
      BY <1>1, <2>1, <3>1, <3>2 DEF Since, Aged
  <2>3. Aged(r) => LeftOut(m, v)
    BY <2>1 DEF Counted, Plan, LeftOut
  <2>4. ~LeftOut(m, v)'
    BY <1>1, <1>5 DEF LeftOut
  <2>5. QED
    BY <1>1, <1>2, <1>5, <2>2, <2>3, <2>4 DEF Counted
<1>6. QED
  BY <1>3, <1>4, <1>5

LEMMA CountedApply ==
    ASSUME IInv, ShapeInv, NEW u \in Units, NEW c \in run[u].todo, Apply(u, c),
           NEW m \in Members, NEW r \in Known(m), NEW v \in Units, c.who = m => u = v,
           Counted(r, m, v)
    PROVE  Counted(r, m, v)'
<1>0. r \in Ids /\ row[r].who = m /\ glitches \in Nat /\ TypeOK
  BY DEF Known, TypeOK, IInv
<1>1. /\ UNCHANGED <<last, glitches>> /\ run[u].at = "apply" /\ Kept(u, "apply", run[u].todo \ {c})
      /\ c \in Change /\ c.kind # "create" /\ c.id \in Ids
  BY ApplyView
<1>2. /\ \A x \in Ids : x # c.id => row'[x] = row[x]
      /\ row[c.id].del => row'[c.id].del \/ c.kind = "undelete"
      /\ row'[c.id].del => c.kind = "delete" \/ row[c.id].del
      /\ row'[c.id].miss = IF c.kind = "mark" THEN 0
                           ELSE IF c.kind \in {"clear", "delete", "undelete"} THEN None
                           ELSE row[c.id].miss
  BY <1>0, ApplyView, WrittenView
<1>3. c.who = row[c.id].who /\ (c.kind = "mark" => run[u].page[c.who] = "absent")
  BY <1>1 DEF ShapeInv, ShapeOf
<1>4. \A w \in Units : Plan(w, "delete", r)' => Plan(w, "delete", r)
  BY <1>1 DEF Plan, Kept
<1>5. run'[v].at = run[v].at /\ run'[v].page = run[v].page
  BY <1>1 DEF Kept
<1>6. CASE c.id # r
  <2>1. Plan(v, "clear", r) => Plan(v, "clear", r)'
    BY <1>1, <1>6 DEF Plan, Kept
  <2>2. row'[r] = row[r] /\ last'[v] = last[v] /\ glitches' = glitches
    BY <1>0, <1>1, <1>2, <1>6
  <2>3. QED
    BY <1>0, <1>4, <1>5, <2>1, <2>2, MoreCounted
<1>7. CASE c.id = r /\ row'[r].miss # row[r].miss
  <2>1. u = v
    BY <1>0, <1>3, <1>7
  <2>2. row'[r].miss = None \/ row'[r].miss = 0
    BY <1>2, <1>7
  <2>3. row'[r].miss = 0 => LeftOut(m, v)
    <3>1. row'[r].miss = 0 => c.kind = "mark"
      BY <1>2, <1>7, ConstantsAssumption
    <3>2. QED
      BY <1>0, <1>1, <1>3, <1>7, <2>1, <3>1 DEF LeftOut
  <2>4. LeftOut(m, v)' <=> LeftOut(m, v)
    BY <1>5 DEF LeftOut
  <2>5. last'[v] \in Nat /\ None \notin Nat
    BY <1>0, <1>1, ConstantsAssumption DEF TypeOK
  <2>6. /\ LeftOut(m, v) => glitches' >= 1
        /\ \A w \in Units : Plan(w, "delete", r)' => glitches' >= 3
    BY <1>1, <1>4 DEF Counted
  <2>7. QED
    BY <2>2, <2>3, <2>4, <2>5, <2>6, UnmarkedCounted
<1>8. CASE c.id = r /\ row'[r].miss = row[r].miss
  <2>1. /\ Aged(r)' <=> Aged(r)
        /\ Since(r, v)' <=> Since(r, v)
        /\ LeftOut(m, v)' <=> LeftOut(m, v)
    BY <1>1, <1>5, <1>8 DEF Aged, Since, LeftOut
  <2>2. Aged(r) => c.kind # "clear"
    BY <1>2, <1>8 DEF Aged
  <2>3. u = v
    BY <1>0, <1>3, <1>8
  <2>4. Aged(r) /\ Plan(v, "clear", r) => Plan(v, "clear", r)'
    BY <1>1, <2>2, <2>3 DEF Plan, Kept
  <2>5. run[v].at = "apply" /\ run'[v].at = "apply"
    BY <1>1, <1>5, <2>3
  <2>6. QED
    BY <1>1, <1>4, <1>5, <1>8, <2>1, <2>4, <2>5 DEF Counted
<1>9. QED
  BY <1>6, <1>7, <1>8

\* The rows that were there, and the new one.
LEMMA CountedCreate ==
    ASSUME IInv, NEW u \in Units, NEW c \in run[u].todo, Create(u, c),
           NEW m \in Members, NEW r \in Ids, row'[r].who = m, NEW v \in Units, c.who = m => u = v,
           row[r].who = m => Counted(r, m, v)
    PROVE  Counted(r, m, v)'
<1>0. glitches \in Nat /\ TypeOK /\ m # None
  BY RowFacts DEF TypeOK, IInv
<1>1. /\ UNCHANGED <<last, glitches>> /\ run[u].at = "apply" /\ c.kind = "create"
      /\ run[u].page[c.who] = "item"
  BY CreateView
<1>2. PICK n \in Ids :
        /\ row[n].who = None /\ row'[n].who = c.who /\ row'[n].miss = None
        /\ \A x \in Ids : x # n => row'[x] = row[x]
        /\ Kept(u, "apply", (run[u].todo \ {c}) \cup {[kind |-> "adopt", who |-> c.who, id |-> n]})
  BY CreateView
<1>3. run'[v].at = run[v].at /\ run'[v].page = run[v].page
  BY <1>1, <1>2 DEF Kept
<1>4. PICK a : a = [kind |-> "adopt", who |-> c.who, id |-> n]
  OBVIOUS
<1>5. a.kind = "adopt" /\ run'[u].todo = (run[u].todo \ {c}) \cup {a}
  BY <1>2, <1>4 DEF Kept
<1>6. \A w \in Units : Plan(w, "delete", r)' => Plan(w, "delete", r)
  BY <1>2, <1>5 DEF Plan, Kept
<1>7. CASE r # n
  <2>1. Plan(v, "clear", r) => Plan(v, "clear", r)'
    BY <1>1, <1>2, <1>5 DEF Plan, Kept
  <2>2. row'[r] = row[r] /\ last'[v] = last[v] /\ glitches' = glitches /\ row[r].who = m
    BY <1>1, <1>2, <1>7
  <2>3. QED
    BY <1>0, <1>3, <1>6, <2>1, <2>2, MoreCounted
<1>8. CASE r = n
  <2>1. ~LeftOut(m, v)'
    BY <1>1, <1>2, <1>3, <1>8 DEF LeftOut
  <2>2. \A w \in Units : ~Plan(w, "delete", r)
    BY <1>2, <1>8 DEF Plan, IInv, PlanInv, Fits
  <2>3. last'[v] \in Nat /\ None \notin Nat
    BY <1>0, <1>1, ConstantsAssumption DEF TypeOK
  <2>4. row'[r].miss = None
    BY <1>2, <1>8
  <2>5. QED
    BY <1>6, <2>1, <2>2, <2>3, <2>4, UnmarkedCounted
<1>9. QED
  BY <1>7, <1>8

\* Days pass between runs; a marker set before the unit's last sync stays so.
LEMMA CountedDay ==
    ASSUME TypeOK, ShapeInv, Day, NEW m \in Members, NEW r \in Known(m), NEW v \in Units,
           Counted(r, m, v)
    PROVE  Counted(r, m, v)'
<1>0. r \in Ids /\ glitches \in Nat
  BY DEF Known, TypeOK
<1>1. /\ UNCHANGED <<run, glitches>>
      /\ \A u \in Units : ~due[u] /\ last'[u] = Older(last[u], Stale + 1)
      /\ row'[r].miss = IF row[r].miss = None THEN None ELSE Older(row[r].miss, Grace)
  BY <1>0, DayView
<1>2. \A u \in Units : run[u].at = "idle" /\ run[u].todo = {}
  BY <1>1 DEF ShapeInv, ShapeOf
<1>3. ~LeftOut(m, v)' /\ \A u \in Units : ~Plan(u, "delete", r)'
  BY <1>1, <1>2 DEF LeftOut, Plan
<1>4. row'[r].miss # None => row[r].miss # None
  BY <1>1
<1>5. Since(r, v)' => Since(r, v)
  <2>1. SUFFICES ASSUME Since(r, v)' PROVE Since(r, v)
    OBVIOUS
  <2>2. row[r].miss # None /\ row'[r].miss = Older(row[r].miss, Grace)
    BY <1>1, <2>1 DEF Since
  <2>3. row[r].miss \in 0..Grace /\ last[v] \in 0..Stale + 1 /\ Grace \in Nat /\ Stale \in Nat
    BY <1>0, <2>2, RowFacts, ConstantsAssumption DEF TypeOK, FullRow
  <2>4. PICK k \in Nat, l \in Nat : k = row[r].miss /\ l = last[v]
    BY <2>3
  <2>5. \/ row'[r].miss = k
        \/ row'[r].miss = k + 1
    BY <2>2, <2>4 DEF Older
  <2>6. last'[v] = IF l < Stale + 1 THEN l + 1 ELSE l
    BY <1>1, <2>4 DEF Older
  <2>7. last'[v] <= Stale /\ last'[v] < row'[r].miss
    BY <2>1 DEF Since
  <2>8. l <= Stale /\ l < k
    BY <2>3, <2>4, <2>5, <2>6, <2>7
  <2>9. QED
    BY <2>2, <2>4, <2>8 DEF Since
<1>6. QED
  BY <1>1, <1>2, <1>3, <1>4, <1>5 DEF Counted

LEMMA CountedStep ==
    ASSUME Stale < Grace, IInv, ShapeInv, HomeInv, CountedInv, [Next]_vars
    PROVE  CountedInv'
<1> SUFFICES ASSUME NEW m \in Members, stay'[m] = 3, NEW r \in Ids, row'[r].who = m
             PROVE  Counted(r, m, ses[m])'
  BY DEF CountedInv, Known
<1>t. TypeOK
  BY DEF IInv
<1>s. stay[m] = 3 /\ ses'[m] = ses[m]
  BY StayView
<1>v. PICK v \in Units : v = ses[m]
  BY <1>s DEF HomeInv, HomeOf
<1>h. /\ \A u \in Units : \A c \in run[u].todo : c.who = m => u = v
      /\ \A x \in Known(m) : row[x].loc = v
  BY <1>s, <1>v DEF HomeInv, HomeOf
<1>k. row[r].who = m => r \in Known(m) /\ Counted(r, m, v)
  BY <1>s, <1>v DEF CountedInv, Known
<1>g. SUFFICES Counted(r, m, v)'
  BY <1>s, <1>v DEF Counted, LeftOut, Since, Plan
<1>a. ASSUME UNCHANGED <<run, last, glitches>>, row[r].who = m, row'[r] = row[r] \/ row'[r].miss = None
      PROVE  Counted(r, m, v)'
  <2>1. /\ glitches \in Nat /\ glitches' = glitches /\ last'[v] = last[v] /\ run'[v] = run[v]
        /\ \A w \in Units : \A kind : Plan(w, kind, r)' <=> Plan(w, kind, r)
    BY <1>a, <1>t DEF TypeOK, Plan
  <2>2. CASE row'[r] = row[r]
    BY <1>a, <1>k, <2>1, <2>2, MoreCounted
  <2>3. CASE row'[r].miss = None
    <3>1. last'[v] \in Nat /\ None \notin Nat
      BY <1>t, <2>1, ConstantsAssumption DEF TypeOK
    <3>2. LeftOut(m, v)' <=> LeftOut(m, v)
      BY <2>1 DEF LeftOut
    <3>3. /\ LeftOut(m, v) => glitches' >= 1
          /\ \A w \in Units : Plan(w, "delete", r)' => glitches' >= 3
      BY <1>a, <1>k, <2>1 DEF Counted
    <3>4. QED
      BY <2>3, <3>1, <3>2, <3>3, UnmarkedCounted
  <2>4. QED
    BY <1>a, <2>2, <2>3
<1>1. ASSUME NEW u \in Units, Fetch(u) PROVE Counted(r, m, v)'
  <2>1. row' = row
    BY <1>1, <1>t, FetchView
  <2>2. QED
    BY <1>1, <1>k, <1>t, <1>v, <2>1, CountedFetch
<1>2. ASSUME NEW u \in Units, LookUp(u) PROVE Counted(r, m, v)'
  <2>1. row' = row
    BY <1>2 DEF LookUp
  <2>2. QED
    BY <1>2, <1>k, <1>t, <2>1, CountedLookUp
<1>3. ASSUME NEW u \in Units, ReadRoster(u) PROVE Counted(r, m, v)'
  <2>1. row' = row
    BY <1>3 DEF ReadRoster
  <2>2. QED
    BY <1>3, <1>h, <1>k, <1>t, <2>1, CountedReadRoster
<1>4. ASSUME NEW u \in Units, Aborts(u) \/ Finish(u) \/ Fails(u) PROVE Counted(r, m, v)'
  <2>1. row' = row
    BY <1>4 DEF Aborts, Finish, Fails
  <2>2. QED
    BY <1>4, <1>k, <1>t, <2>1, CountedEnds
<1>5. ASSUME NEW u \in Units, NEW c \in run[u].todo, Apply(u, c) PROVE Counted(r, m, v)'
  <2>1. row'[r].who = row[r].who
    BY <1>5, <1>t, ApplyView, WrittenView
  <2>2. QED
    BY <1>5, <1>h, <1>k, <2>1, CountedApply
<1>6. ASSUME NEW u \in Units, NEW c \in run[u].todo, Create(u, c) PROVE Counted(r, m, v)'
  BY <1>6, <1>h, <1>k, CountedCreate
<1>7. ASSUME NEW u \in Units, EnqueueMemberSync(u) PROVE Counted(r, m, v)'
  BY <1>7, <1>a DEF EnqueueMemberSync
<1>8. ASSUME NEW n \in Members, NEW u \in Units \cup {None}, Moves(n, u) PROVE Counted(r, m, v)'
  BY <1>8, <1>a DEF Moves
<1>9. ASSUME NEW x \in Ids, DeletePerson(x) PROVE Counted(r, m, v)'
  BY <1>9, <1>a, <1>t, DeletePersonView
<1>10. CASE Day
  <2>1. row'[r].who = row[r].who
    BY <1>10, <1>t, DayView
  <2>2. QED
    BY <1>10, <1>k, <1>t, <2>1, CountedDay
<1>11. CASE UNCHANGED vars
  BY <1>11, <1>a DEF vars
<1>12. QED
  BY <1>1, <1>2, <1>3, <1>4, <1>5, <1>6, <1>7, <1>8, <1>9, <1>10, <1>11 DEF Next, Runs

\* Nothing has gone wrong so far.
Calm == glitches + failures = 0 /\ ~stopped

PagesRight ==
    \A m \in Members : stay[m] # 0 =>
        \A u \in Units : run[u].at # "idle" => run[u].page[m] = PageOf(u)[m]

\* Whom a unit has had for a day and a sync is on its roster; before that its run is at it.
Settled(m, v) ==
    stay[m] # 0 /\ ses[m] = v =>
        \A r \in Known(m) :
            /\ stay[m] >= 2 \/ ~due[v] => row[r].loc = v
            /\ run[v].at \in {"roster", "apply"} => row[r].loc = v \/ Plan(v, "move", r)

\* A row without its SES id is one that a run is about to complete.
Adopted ==
    \A r \in Ids : row[r].who # None /\ ~row[r].ses =>
        \E u \in Units : run[u].at = "apply" /\ Plan(u, "adopt", r)

OnlyGone ==
    \A u \in Units, r \in Ids : Plan(u, "delete", r) => ses[row[r].who] = None \/ stay[row[r].who] < 2

CalmInv ==
    Calm => PagesRight /\ (\A m \in Members, v \in Units : Settled(m, v)) /\ Adopted /\ OnlyGone

\* A step that leaves things calm.
Quiet ==
    \/ \E u \in Units : \/ Fetch(u) /\ \A m \in Members : run'[u].page[m] = PageOf(u)[m]
                        \/ LookUp(u) \/ ReadRoster(u) \/ Finish(u) \/ EnqueueMemberSync(u)
                        \/ \E c \in run[u].todo : Apply(u, c) \/ Create(u, c)
    \/ \E m \in Members, u \in Units \cup {None} : Moves(m, u)
    \/ \E r \in Ids : DeletePerson(r)
    \/ Day \/ UNCHANGED vars

LEMMA NothingAdded == \A g, h, f \in Nat : g + f = 0 /\ h <= g => g = 0 /\ h = 0 /\ f = 0
OBVIOUS

LEMMA QuietSteps ==
    ASSUME IInv, [Next]_vars, Calm'
    PROVE  Calm /\ Quiet
<1>t. TypeOK /\ glitches \in Nat /\ failures \in Nat
  BY DEF IInv, TypeOK
<1>c. Calm <=> glitches = 0 /\ failures = 0 /\ ~stopped
  BY <1>t DEF Calm
<1>1. ASSUME NEW u \in Units, Fetch(u) PROVE Calm /\ Quiet
  <2>1. /\ failures' = failures /\ stopped' = stopped /\ glitches' \in Nat /\ glitches' >= glitches
        /\ (\E m \in Members : run'[u].page[m] # PageOf(u)[m]) => glitches' >= glitches + 1
    BY <1>1, <1>t, FetchView
  <2>c. glitches' + failures = 0 /\ ~stopped
    BY <2>1 DEF Calm
  <2>d. glitches' \in Nat /\ glitches' >= glitches /\ glitches \in Nat /\ failures \in Nat
    BY <1>t, <2>1
  <2>2. glitches' = 0 /\ glitches = 0 /\ failures = 0
    BY <2>c, <2>d, NothingAdded
  <2>3. \A m \in Members : run'[u].page[m] = PageOf(u)[m]
    BY <2>1, <2>2
  <2>4. QED
    BY <1>1, <1>c, <2>2, <2>c, <2>3 DEF Quiet
<1>2. ASSUME NEW u \in Units, Fails(u) PROVE FALSE
  <2>1. failures' = failures + 1 /\ glitches' = glitches
    BY <1>2 DEF Fails
  <2>2. QED
    BY <1>t, <2>1 DEF Calm
<1>3. ASSUME UNCHANGED <<glitches, failures, stopped>> PROVE Calm
  BY <1>3 DEF Calm
<1>4. ASSUME NEW u \in Units, Aborts(u) PROVE FALSE
  BY <1>4 DEF Aborts, Calm
<1>5. ASSUME NEW u \in Units, Runs(u) \/ EnqueueMemberSync(u), ~Fetch(u), ~Aborts(u) PROVE Calm /\ Quiet
  <2>1. UNCHANGED <<glitches, failures, stopped>>
    BY <1>5 DEF Runs, EnqueueMemberSync, LookUp, ReadRoster, Finish, Apply, Create
  <2>2. QED
    BY <1>3, <1>5, <2>1 DEF Quiet, Runs
<1>6. CASE \/ \E m \in Members, u \in Units \cup {None} : Moves(m, u)
           \/ \E r \in Ids : DeletePerson(r)
           \/ Day \/ UNCHANGED vars
  <2>1. UNCHANGED <<glitches, failures, stopped>>
    BY <1>6 DEF Moves, DeletePerson, Day, vars
  <2>2. QED
    BY <1>3, <1>6, <2>1 DEF Quiet
<1>7. QED
  BY <1>1, <1>2, <1>4, <1>5, <1>6 DEF Next

LEMMA PagesRightStep ==
    ASSUME IInv, ShapeInv, PagesRight, [Next]_vars, Quiet
    PROVE  PagesRight'
<1> SUFFICES ASSUME NEW m \in Members, stay'[m] # 0, NEW v \in Units, run'[v].at # "idle"
             PROVE  run'[v].page[m] = PageOf(v)'[m]
  BY DEF PagesRight
<1>t. TypeOK
  BY DEF IInv
<1>s. ses'[m] = ses[m] /\ (Day \/ stay'[m] = stay[m])
  BY StayView
<1>g. SUFFICES run'[v].page[m] = PageOf(v)[m]
  BY <1>s DEF PageOf
<1>h. stay[m] # 0 /\ run[v].at # "idle" => run[v].page[m] = PageOf(v)[m]
  BY DEF PagesRight
<1>a. CASE stay'[m] = stay[m] /\ run'[v].page = run[v].page /\ run[v].at # "idle"
  BY <1>a, <1>h
<1>d. CASE Day
  <2>1. run' = run /\ ~due[v]
    BY <1>d, <1>t, DayView
  <2>2. QED
    BY <2>1 DEF ShapeInv, ShapeOf
<1>k. ASSUME NEW u \in Units, NEW at, NEW todo, Kept(u, at, todo), run[u].at # "idle", ~Day
      PROVE  run'[v].page[m] = PageOf(v)[m]
  BY <1>a, <1>k, <1>s DEF Kept
<1>1. ASSUME NEW u \in Units, Fetch(u), \A n \in Members : run'[u].page[n] = PageOf(u)[n], ~Day
      PROVE  run'[v].page[m] = PageOf(v)[m]
  BY <1>1, <1>a, <1>s, <1>t, FetchView
<1>2. ASSUME NEW u \in Units, LookUp(u) \/ ReadRoster(u), ~Day
      PROVE  run'[v].page[m] = PageOf(v)[m]
  BY <1>2, <1>k, <1>t, LookUpView, ReadRosterView
<1>3. ASSUME NEW u \in Units, Finish(u), ~Day
      PROVE  run'[v].page[m] = PageOf(v)[m]
  BY <1>3, <1>a, <1>s, <1>t, EndsView
<1>4. ASSUME NEW u \in Units, NEW c \in run[u].todo, Apply(u, c), ~Day
      PROVE  run'[v].page[m] = PageOf(v)[m]
  BY <1>4, <1>k, ApplyView
<1>5. ASSUME NEW u \in Units, NEW c \in run[u].todo, Create(u, c), ~Day
      PROVE  run'[v].page[m] = PageOf(v)[m]
  <2>1. PICK n \in Ids : Kept(u, "apply", (run[u].todo \ {c})
                                              \cup {[kind |-> "adopt", who |-> c.who, id |-> n]})
    BY <1>5, CreateView
  <2>2. PICK t : t = (run[u].todo \ {c}) \cup {[kind |-> "adopt", who |-> c.who, id |-> n]}
    OBVIOUS
  <2>3. Kept(u, "apply", t) /\ run[u].at # "idle"
    BY <1>5, <2>1, <2>2, CreateView
  <2>4. QED
    BY <1>5, <1>k, <2>3
<1>6. CASE run' = run /\ ~Day
  BY <1>6, <1>a, <1>s
<1>7. QED
  BY <1>d, <1>1, <1>2, <1>3, <1>4, <1>5, <1>6
     DEF Quiet, EnqueueMemberSync, Moves, DeletePerson, vars

LEMMA AdoptedStep ==
    ASSUME IInv, Adopted, [Next]_vars, Quiet
    PROVE  Adopted'
<1> SUFFICES ASSUME NEW r \in Ids, row'[r].who # None, ~row'[r].ses
             PROVE  \E u \in Units : run'[u].at = "apply" /\ Plan(u, "adopt", r)'
  BY DEF Adopted
<1> DEFINE Goal == \E u \in Units : run'[u].at = "apply" /\ Plan(u, "adopt", r)'
<1>t. TypeOK
  BY DEF IInv
<1>h. row[r].who # None /\ ~row[r].ses =>
          \E u \in Units : run[u].at = "apply" /\ Plan(u, "adopt", r)
  BY DEF Adopted
<1>o. ASSUME NEW u \in Units, \A w \in Units : w # u => run'[w] = run[w],
             row[r].who # None, ~row[r].ses,
             run[u].at = "apply" /\ Plan(u, "adopt", r) => run'[u].at = "apply" /\ Plan(u, "adopt", r)'
      PROVE  Goal
  BY <1>h, <1>o DEF Plan
<1>a. ASSUME run' = run, row[r].who # None, ~row[r].ses PROVE Goal
  BY <1>h, <1>a DEF Plan
<1>1. ASSUME NEW u \in Units, Fetch(u) PROVE Goal
  BY <1>1, <1>o, <1>t, FetchView
<1>2. ASSUME NEW u \in Units, LookUp(u) PROVE Goal
  <2>1. row' = row /\ run[u].at = "look" /\ Kept(u, "roster", Plans(u))
    BY <1>2, <1>t, LookUpView
  <2>2. QED
    BY <1>o, <2>1 DEF Kept
<1>3. ASSUME NEW u \in Units, ReadRoster(u) PROVE Goal
  <2>1. row' = row /\ run[u].at = "roster" /\ Kept(u, "apply", run[u].todo \cup Absence(u))
    BY <1>3, <1>t, ReadRosterView
  <2>2. QED
    BY <1>o, <2>1 DEF Kept
<1>4. ASSUME NEW u \in Units, Finish(u) PROVE Goal
  <2>1. run[u].todo = {}
    BY <1>4 DEF Finish
  <2>2. QED
    BY <1>4, <1>o, <1>t, <2>1, EndsView DEF Plan
<1>5. ASSUME NEW u \in Units, NEW c \in run[u].todo, Apply(u, c) PROVE Goal
  <2>1. Kept(u, "apply", run[u].todo \ {c}) /\ c.id \in Ids
    BY <1>5, ApplyView
  <2>2. /\ \A x \in Ids : row'[x].who = row[x].who
        /\ \A x \in Ids : x # c.id => row'[x] = row[x]
        /\ row[c.id].ses \/ c.kind = "adopt" => row'[c.id].ses
    BY <1>5, <1>t, ApplyView, WrittenView
  <2>3. row[r].who # None /\ ~row[r].ses /\ (c.id = r => c.kind # "adopt")
    BY <2>1, <2>2
  <2>4. QED
    BY <1>o, <2>1, <2>3 DEF Kept, Plan
<1>6. ASSUME NEW u \in Units, NEW c \in run[u].todo, Create(u, c) PROVE Goal
  <2>1. c.kind = "create"
    BY <1>6, CreateView
  <2>2. PICK n \in Ids :
          /\ \A x \in Ids : x # n => row'[x] = row[x]
          /\ Kept(u, "apply", (run[u].todo \ {c}) \cup {[kind |-> "adopt", who |-> c.who, id |-> n]})
    BY <1>6, CreateView
  <2>3. PICK a : a = [kind |-> "adopt", who |-> c.who, id |-> n]
    OBVIOUS
  <2>4. a.kind = "adopt" /\ a.id = n /\ a \in run'[u].todo /\ run'[u].at = "apply"
    BY <2>2, <2>3 DEF Kept
  <2>5. CASE r = n
    BY <2>4, <2>5 DEF Plan
  <2>6. CASE r # n
    BY <1>o, <2>1, <2>2, <2>6 DEF Kept, Plan
  <2>7. QED
    BY <2>5, <2>6
<1>7. ASSUME NEW u \in Units, EnqueueMemberSync(u) PROVE Goal
  BY <1>7, <1>a DEF EnqueueMemberSync
<1>8. ASSUME NEW n \in Members, NEW u \in Units \cup {None}, Moves(n, u) PROVE Goal
  BY <1>8, <1>a DEF Moves
<1>9. ASSUME NEW x \in Ids, DeletePerson(x) PROVE Goal
  BY <1>9, <1>a, <1>t, DeletePersonView
<1>10. CASE Day
  BY <1>10, <1>a, <1>t, DayView
<1>11. CASE UNCHANGED vars
  BY <1>11, <1>a DEF vars
<1>12. QED
  BY <1>1, <1>2, <1>3, <1>4, <1>5, <1>6, <1>7, <1>8, <1>9, <1>10, <1>11 DEF Quiet

\* A page that is right has only those whom SES has in the unit.
LEMMA RightPage ==
    ASSUME PagesRight, NEW u \in Units, run[u].at # "idle", NEW m \in Members, stay[m] # 0
    PROVE  run[u].page[m] = "item" <=> ses[m] = u
BY DEF PagesRight, PageOf

LEMMA SettledStep ==
    ASSUME IInv, ShapeInv, PagesRight, \A m \in Members, v \in Units : Settled(m, v), Adopted,
           [Next]_vars, Quiet
    PROVE  \A m \in Members, v \in Units : Settled(m, v)'
<1> SUFFICES ASSUME NEW m \in Members, NEW v \in Units, stay'[m] # 0, ses'[m] = v,
                    NEW r \in Ids, row'[r].who = m
             PROVE  /\ stay'[m] >= 2 \/ ~due'[v] => row'[r].loc = v
                    /\ run'[v].at \in {"roster", "apply"} => row'[r].loc = v \/ Plan(v, "move", r)'
  BY DEF Settled, Known
<1> DEFINE Goal == /\ stay'[m] >= 2 \/ ~due'[v] => row'[r].loc = v
                   /\ run'[v].at \in {"roster", "apply"} => row'[r].loc = v \/ Plan(v, "move", r)'
<1>t. TypeOK /\ m # None
  BY RowFacts DEF IInv
<1>s. ses[m] = v /\ (stay'[m] = stay[m] \/ (Day /\ stay'[m] = Older(stay[m], 2)))
  BY StayView
<1>h. row[r].who = m /\ stay[m] # 0 =>
        /\ stay[m] >= 2 \/ ~due[v] => row[r].loc = v
        /\ run[v].at \in {"roster", "apply"} => row[r].loc = v \/ Plan(v, "move", r)
  BY <1>s DEF Settled, Known
<1>d. CASE Day
  <2>1. /\ run' = run /\ ~due[v] /\ due'[v] /\ stay'[m] = Older(stay[m], 2)
        /\ row[r].who = m /\ row'[r].loc = row[r].loc
    BY <1>d, <1>t, DayView
  <2>2. run'[v].at = "idle"
    BY <2>1 DEF ShapeInv, ShapeOf
  <2>3. stay'[m] >= 2 => stay[m] # 0
    BY <1>t, <2>1 DEF Older, TypeOK
  <2>4. QED
    BY <1>h, <2>1, <2>2, <2>3
<1>n. SUFFICES ASSUME stay'[m] = stay[m], stay[m] # 0 PROVE Goal
  BY <1>d, <1>s
<1>o. ASSUME row[r].who = m, row'[r].loc = row[r].loc, due[v] => due'[v],
             run'[v].at \in {"roster", "apply"} =>
                 /\ run[v].at \in {"roster", "apply"}
                 /\ Plan(v, "move", r) => Plan(v, "move", r)'
      PROVE  Goal
  BY <1>h, <1>n, <1>o
<1>a. ASSUME row[r].who = m, row'[r].loc = row[r].loc, due[v] => due'[v], run'[v] = run[v]
      PROVE  Goal
  BY <1>a, <1>o DEF Plan
<1>1. ASSUME NEW u \in Units, Fetch(u) PROVE Goal
  <2>1. /\ UNCHANGED <<row, due>> /\ run'[u].at = "look" /\ \A w \in Units : w # u => run'[w] = run[w]
    BY <1>1, <1>t, FetchView
  <2>2. CASE u = v
    BY <1>o, <2>1, <2>2
  <2>3. CASE u # v
    BY <1>a, <2>1, <2>3
  <2>4. QED
    BY <2>2, <2>3
<1>2. ASSUME NEW u \in Units, LookUp(u) PROVE Goal
  <2>1. /\ UNCHANGED <<row, due>> /\ run[u].at = "look" /\ Kept(u, "roster", Plans(u))
    BY <1>2, <1>t, LookUpView
  <2>2. CASE u = v
    <3>1. run[v].page[m] = "item"
      BY <1>n, <1>s, <2>1, <2>2, RightPage
    <3>2. row[r].ses
      <4>1. SUFFICES ASSUME ~row[r].ses PROVE FALSE
        OBVIOUS
      <4>2. PICK w \in Units : run[w].at = "apply" /\ Plan(w, "adopt", r)
        BY <1>t, <2>1, <4>1 DEF Adopted
      <4>3. run[w].page[m] = "item"
        BY <2>1, <4>2 DEF ShapeInv, ShapeOf, Plan
      <4>4. w = v
        BY <1>n, <1>s, <4>2, <4>3, RightPage
      <4>5. QED
        BY <2>1, <2>2, <4>2, <4>4
    <3>3. row[r].loc # v => Plan(v, "move", r)'
      BY <1>t, <2>1, <2>2, <3>1, <3>2, PlansView DEF Plan, Kept
    <3>4. QED
      BY <1>h, <1>n, <2>1, <3>3
  <2>3. CASE u # v
    BY <1>a, <2>1, <2>3 DEF Kept
  <2>4. QED
    BY <2>2, <2>3
<1>3. ASSUME NEW u \in Units, ReadRoster(u) PROVE Goal
  <2>1. /\ UNCHANGED <<row, due>> /\ run[u].at = "roster" /\ Kept(u, "apply", run[u].todo \cup Absence(u))
    BY <1>3, <1>t, ReadRosterView
  <2>2. CASE u = v
    BY <1>o, <2>1, <2>2 DEF Plan, Kept
  <2>3. CASE u # v
    BY <1>a, <2>1, <2>3 DEF Kept
  <2>4. QED
    BY <2>2, <2>3
<1>4. ASSUME NEW u \in Units, Finish(u) PROVE Goal
  <2>e. /\ row' = row /\ run'[u].at = "idle"
        /\ \A w \in Units : w # u => run'[w] = run[w] /\ due'[w] = due[w]
    BY <1>4, <1>t, EndsView
  <2>1. run[u].at = "apply" /\ run[u].todo = {}
    BY <1>4 DEF Finish
  <2>2. CASE u = v
    <3>1. ~Plan(v, "move", r)
      BY <2>1, <2>2 DEF Plan
    <3>2. row[r].loc = v
      BY <1>h, <1>n, <2>1, <2>2, <2>e, <3>1
    <3>3. QED
      BY <2>e, <3>2
  <2>3. CASE u # v
    BY <1>a, <2>e, <2>3
  <2>4. QED
    BY <2>2, <2>3
<1>5. ASSUME NEW u \in Units, NEW c \in run[u].todo, Apply(u, c) PROVE Goal
  <2>1. /\ UNCHANGED due /\ run[u].at = "apply" /\ Kept(u, "apply", run[u].todo \ {c})
        /\ c \in Change /\ c.kind # "create" /\ c.id \in Ids
    BY <1>5, ApplyView
  <2>w. row[c.id].who # None /\ row' = Written(u, c)
    BY <1>5, ApplyView
  <2>2. /\ row'[r].who = row[r].who
        /\ r # c.id => row'[r] = row[r]
        /\ row'[c.id].loc = IF c.kind = "move" THEN u ELSE row[c.id].loc
    BY <1>t, <2>1, <2>w, WrittenView
  <2>3. CASE c.id = r /\ c.kind = "move"
    <3>1. run[u].page[m] = "item"
      BY <2>1, <2>2, <2>3 DEF ShapeInv, ShapeOf
    <3>2. u = v
      BY <1>n, <1>s, <2>1, <3>1, RightPage
    <3>3. QED
      BY <2>2, <2>3, <3>2
  <2>4. CASE ~(c.id = r /\ c.kind = "move")
    <3>1. Plan(v, "move", r) => Plan(v, "move", r)'
      BY <2>1, <2>4 DEF Plan, Kept
    <3>2. run'[v].at = run[v].at
      BY <2>1 DEF Kept
    <3>3. row'[r].loc = row[r].loc
      BY <2>2, <2>4
    <3>4. QED
      BY <1>o, <2>1, <2>2, <3>1, <3>2, <3>3
  <2>5. QED
    BY <2>3, <2>4
<1>6. ASSUME NEW u \in Units, NEW c \in run[u].todo, Create(u, c) PROVE Goal
  <2>1. /\ UNCHANGED due /\ run[u].at = "apply" /\ c.kind = "create" /\ run[u].page[c.who] = "item"
    BY <1>6, CreateView
  <2>2. PICK n \in Ids :
          /\ row'[n].who = c.who /\ row'[n].loc = u
          /\ \A x \in Ids : x # n => row'[x] = row[x]
          /\ Kept(u, "apply", (run[u].todo \ {c}) \cup {[kind |-> "adopt", who |-> c.who, id |-> n]})
    BY <1>6, CreateView
  <2>3. CASE r = n
    <3>1. u = v
      BY <1>n, <1>s, <2>1, <2>2, <2>3, RightPage
    <3>2. QED
      BY <2>2, <2>3, <3>1
  <2>4. CASE r # n
    <3>1. Plan(v, "move", r) => Plan(v, "move", r)'
      BY <2>1, <2>2 DEF Plan, Kept
    <3>2. run'[v].at = run[v].at
      BY <2>1, <2>2 DEF Kept
    <3>3. row'[r] = row[r]
      BY <2>2, <2>4
    <3>4. QED
      BY <1>o, <2>1, <3>1, <3>2, <3>3
  <2>5. QED
    BY <2>3, <2>4
<1>7. ASSUME NEW u \in Units, EnqueueMemberSync(u) PROVE Goal
  BY <1>7, <1>a, <1>t DEF EnqueueMemberSync, TypeOK
<1>8. ASSUME NEW x \in Members, NEW u \in Units \cup {None}, Moves(x, u) PROVE Goal
  BY <1>8, <1>a DEF Moves
<1>9. ASSUME NEW x \in Ids, DeletePerson(x) PROVE Goal
  BY <1>9, <1>a, <1>t, DeletePersonView
<1>10. CASE UNCHANGED vars
  BY <1>10, <1>a DEF vars
<1>11. QED
  BY <1>d, <1>1, <1>2, <1>3, <1>4, <1>5, <1>6, <1>7, <1>8, <1>9, <1>10 DEF Quiet

LEMMA OwnersStay ==
    ASSUME IInv, [Next]_vars, NEW r \in Ids, row[r].who # None
    PROVE  row'[r].who = row[r].who
<1>t. TypeOK
  BY DEF IInv
<1>1. ASSUME NEW u \in Units, NEW c \in run[u].todo, Apply(u, c)
      PROVE  row'[r].who = row[r].who
  BY <1>1, <1>t, ApplyView, WrittenView
<1>2. ASSUME NEW u \in Units, NEW c \in run[u].todo, Create(u, c)
      PROVE  row'[r].who = row[r].who
  BY <1>2, CreateView
<1>3. ASSUME NEW x \in Ids, DeletePerson(x)
      PROVE  row'[r].who = row[r].who
  BY <1>3, <1>t, DeletePersonView
<1>4. CASE Day
  BY <1>4, <1>t, DayView
<1>5. CASE row' = row
  BY <1>5
<1>6. QED
  BY <1>1, <1>2, <1>3, <1>4, <1>5
     DEF Next, Runs, Fetch, LookUp, ReadRoster, Aborts, Finish, Fails, EnqueueMemberSync, Moves, vars

LEMMA NewDeletes ==
    ASSUME IInv, [Next]_vars, NEW u \in Units, NEW r \in Ids,
           Plan(u, "delete", r)', ~Plan(u, "delete", r)
    PROVE  ReadRoster(u) /\ \E c \in Absence(u) : c.kind = "delete" /\ c.id = r
<1>t. TypeOK
  BY DEF IInv
<1>n. ~(run'[u].todo \subseteq run[u].todo)
  BY DEF Plan
<1>1. ASSUME NEW v \in Units, Fetch(v) PROVE FALSE
  BY <1>1, <1>n, <1>t, FetchView
<1>2. ASSUME NEW v \in Units, LookUp(v) PROVE FALSE
  <2>1. Kept(v, "roster", Plans(v))
    BY <1>2, <1>t, LookUpView
  <2>2. v = u
    BY <1>n, <2>1 DEF Kept
  <2>3. QED
    BY <1>t, <2>1, <2>2, PlansView DEF Plan, Kept
<1>3. ASSUME NEW v \in Units, ReadRoster(v)
      PROVE  v = u /\ \E c \in Absence(u) : c.kind = "delete" /\ c.id = r
  <2>1. Kept(v, "apply", run[v].todo \cup Absence(v))
    BY <1>3, <1>t, ReadRosterView
  <2>2. v = u
    BY <1>n, <2>1 DEF Kept
  <2>3. QED
    BY <2>1, <2>2 DEF Plan, Kept
<1>4. ASSUME NEW v \in Units, Aborts(v) \/ Finish(v) \/ Fails(v) PROVE FALSE
  BY <1>4, <1>n, <1>t, EndsView
<1>5. ASSUME NEW v \in Units, NEW c \in run[v].todo, Apply(v, c) PROVE FALSE
  BY <1>5, <1>n, ApplyView DEF Kept
<1>6. ASSUME NEW v \in Units, NEW c \in run[v].todo, Create(v, c) PROVE FALSE
  <2>1. PICK n \in Ids :
          Kept(v, "apply", (run[v].todo \ {c}) \cup {[kind |-> "adopt", who |-> c.who, id |-> n]})
    BY <1>6, CreateView
  <2>2. PICK a : a = [kind |-> "adopt", who |-> c.who, id |-> n]
    OBVIOUS
  <2>3. a.kind = "adopt"
    BY <2>2
  <2>4. QED
    BY <2>1, <2>2, <2>3 DEF Plan, Kept
<1>7. CASE run' = run
  BY <1>7, <1>n
<1>8. QED
  BY <1>1, <1>2, <1>3, <1>4, <1>5, <1>6, <1>7
     DEF Next, Runs, EnqueueMemberSync, Moves, DeletePerson, Day, vars

LEMMA OnlyGoneStep ==
    ASSUME IInv, ShapeInv, PagesRight, \A m \in Members, v \in Units : Settled(m, v), OnlyGone,
           [Next]_vars
    PROVE  OnlyGone'
<1> SUFFICES ASSUME NEW u \in Units, NEW r \in Ids, Plan(u, "delete", r)'
             PROVE  ses'[row'[r].who] = None \/ stay'[row'[r].who] < 2
  BY DEF OnlyGone
<1>t. TypeOK
  BY DEF IInv
<1>1. CASE Plan(u, "delete", r)
  <2>1. PICK m \in Members : m = row[r].who
    BY <1>1, <1>t, RowFacts DEF Plan, IInv, PlanInv, Fits, TypeOK, FullRow
  <2>2. row'[r].who = m /\ m # None
    BY <1>1, <2>1, OwnersStay, RowFacts
  <2>3. ses[m] = None \/ stay[m] < 2
    BY <1>1, <2>1 DEF OnlyGone
  <2>4. ~Day
    <3>1. SUFFICES ASSUME Day PROVE FALSE
      OBVIOUS
    <3>2. ~due[u]
      BY <1>t, <3>1, DayView
    <3>3. QED
      BY <1>1, <3>2 DEF ShapeInv, ShapeOf, Plan
  <2>5. stay'[m] # 0 => ses'[m] = ses[m] /\ stay'[m] = stay[m]
    BY <2>4, StayView
  <2>6. QED
    BY <2>2, <2>3, <2>5
<1>2. CASE ~Plan(u, "delete", r)
  <2>1. ReadRoster(u) /\ \E c \in Absence(u) : c.kind = "delete" /\ c.id = r
    BY <1>2, NewDeletes
  <2>2. UNCHANGED <<ses, stay, row>> /\ run[u].at = "roster"
    BY <1>t, <2>1, ReadRosterView
  <2>3. PICK m \in Members : m = row[r].who /\ row[r].loc = u /\ run[u].page[m] = "absent"
    BY <1>t, <2>1, AbsenceView
  <2>4. SUFFICES ASSUME ses[m] # None, stay[m] >= 2 PROVE FALSE
    BY <1>t, <2>2, <2>3 DEF TypeOK
  <2>5. ses[m] \in Units /\ stay[m] # 0
    BY <1>t, <2>4 DEF TypeOK
  <2>6. row[r].loc = ses[m]
    BY <2>3, <2>4, <2>5 DEF Settled, Known
  <2>7. QED
    BY <2>2, <2>3, <2>5, <2>6, RightPage
<1>3. QED
  BY <1>1, <1>2

LEMMA CalmStep ==
    ASSUME IInv, ShapeInv, CalmInv, [Next]_vars
    PROVE  CalmInv'
<1> SUFFICES ASSUME Calm'
             PROVE  PagesRight' /\ (\A m \in Members, v \in Units : Settled(m, v)') /\ Adopted' /\ OnlyGone'
  BY DEF CalmInv
<1>1. Calm /\ Quiet
  BY QuietSteps
<1>2. PagesRight /\ (\A m \in Members, v \in Units : Settled(m, v)) /\ Adopted /\ OnlyGone
  BY <1>1 DEF CalmInv
<1>3. QED
  BY <1>1, <1>2, PagesRightStep, SettledStep, AdoptedStep, OnlyGoneStep

-----------------------------------------------------------------------------
(* Nobody who is here is deleted *)

\* Who falls to the sync had a deletion planned.
LEMMA DeletedByPlan ==
    ASSUME IInv, ShapeInv, [Next]_vars, NEW u \in Units, NEW r \in Ids,
           run[u].at = "apply", Live(r), row'[r].del, run'[u] # run[u]
    PROVE  Plan(u, "delete", r)
<1>t. TypeOK
  BY DEF IInv
<1>n. row' # row
  BY DEF Live
<1>1. ASSUME NEW v \in Units, NEW c \in run[v].todo, Apply(v, c)
      PROVE  Plan(u, "delete", r)
  <2>1. Kept(v, "apply", run[v].todo \ {c}) /\ c.id \in Ids
    BY <1>1, ApplyView
  <2>2. /\ r # c.id => row'[r] = row[r]
        /\ row'[c.id].del => c.kind = "delete" \/ row[c.id].del
    BY <1>1, <1>t, ApplyView, WrittenView
  <2>3. v = u
    BY <2>1 DEF Kept
  <2>4. c.id = r /\ c.kind = "delete"
    BY <2>1, <2>2 DEF Live
  <2>5. QED
    BY <2>3, <2>4 DEF Plan
<1>2. ASSUME NEW v \in Units, NEW c \in run[v].todo, Create(v, c)
      PROVE  FALSE
  <2>1. PICK n \in Ids :
          /\ row[n].who = None
          /\ \A x \in Ids : x # n => row'[x] = row[x]
          /\ Kept(v, "apply", (run[v].todo \ {c}) \cup {[kind |-> "adopt", who |-> c.who, id |-> n]})
    BY <1>2, CreateView
  <2>2. row'[r] = row[r]
    BY <2>1 DEF Live
  <2>3. QED
    BY <2>2 DEF Live
<1>3. CASE run' = run
  BY <1>3
<1>4. QED
  BY <1>n, <1>1, <1>2, <1>3
     DEF Next, Runs, Fetch, LookUp, ReadRoster, Aborts, Finish, Fails, EnqueueMemberSync, Moves,
         DeletePerson, Day, vars

DeletionInv == IInv /\ ShapeInv /\ HomeInv /\ CountedInv /\ CalmInv

LEMMA DeletionInit == Init => DeletionInv
<1> SUFFICES ASSUME Init PROVE DeletionInv
  OBVIOUS
<1>1. IInv
  BY InitInv
<1>2. \A u \in Units : /\ run[u].at = "idle" /\ run[u].todo = {}
                       /\ \A m \in Members : run[u].page[m] = "absent"
  BY IdleFacts DEF Init, Idle
<1>3. /\ \A m : m # None => Known(m) = {}
      /\ \A r \in Ids : row[r].who = None
  BY DEF Init, Known, NoRow
<1>4. \A m \in Members : m # None /\ ses[m] \in Units
  BY RowFacts DEF Init
<1>5. glitches = 0 /\ MaxGlitches \in Nat
  BY ConstantsAssumption DEF Init
<1>6. ShapeInv
  BY <1>2, <1>5 DEF ShapeInv, ShapeOf
<1>7. HomeInv
  BY <1>2, <1>3, <1>4 DEF HomeInv, HomeOf
<1>8. CountedInv
  BY <1>3, <1>4 DEF CountedInv
<1>9. CalmInv
  BY <1>2, <1>3, <1>4 DEF CalmInv, PagesRight, Settled, Adopted, OnlyGone, Plan
<1>10. QED
  BY <1>1, <1>6, <1>7, <1>8, <1>9 DEF DeletionInv

LEMMA DeletionStep ==
    ASSUME Stale < Grace, DeletionInv, [Next]_vars
    PROVE  DeletionInv'
BY Step, ShapeStep, HomeStep, CountedStep, CalmStep DEF DeletionInv

LEMMA DeletionSafe ==
    ASSUME MaxGlitches <= 2, DeletionInv, [Next]_vars, NEW u \in Units, NEW r \in Ids,
           run[u].at = "apply", Live(r), row'[r].del, run'[u] # run[u]
    PROVE  LET m == row[r].who IN
           ses[m] = None \/ stay[m] < 2 \/ (stay[m] = 2 /\ (glitches + failures > 0 \/ stopped))
<1>t. TypeOK
  BY DEF DeletionInv, IInv
<1>1. Plan(u, "delete", r)
  BY DeletedByPlan DEF DeletionInv
<1>2. PICK m \in Members : m = row[r].who
  BY <1>t, RowFacts DEF Live, TypeOK, FullRow
<1>3. stay[m] \in 0..3 /\ glitches \in Nat /\ failures \in Nat
  BY <1>t DEF TypeOK
<1>4. stay[m] # 3
  <2>1. SUFFICES ASSUME stay[m] = 3 PROVE FALSE
    OBVIOUS
  <2>2. glitches >= 3
    BY <1>1, <1>2, <2>1 DEF DeletionInv, CountedInv, Counted, Known
  <2>3. glitches <= MaxGlitches /\ MaxGlitches \in Nat
    BY ConstantsAssumption DEF DeletionInv, ShapeInv
  <2>4. QED
    BY <1>3, <2>2, <2>3
<1>5. Calm => ses[m] = None \/ stay[m] < 2
  BY <1>1, <1>2 DEF DeletionInv, CalmInv, OnlyGone
<1>6. Calm \/ glitches + failures > 0 \/ stopped
  BY <1>3 DEF Calm
<1>7. ses[m] = None \/ stay[m] < 2 \/ (stay[m] = 2 /\ (glitches + failures > 0 \/ stopped))
  BY <1>3, <1>4, <1>5, <1>6
<1>8. QED
  BY <1>2, <1>7

\* The daily sync (plan_absence_changes, apply_changes) deletes nobody whom SES has had in one
\* unit for two days while nothing has gone wrong, and nobody who has always been in theirs, for
\* any number of members, units, rows and days and however runs overlap, fail and are stopped, if
\* a unit that has not synced for as long as a marker must age deletes nobody, and pages have no
\* more than two wrong entries.
THEOREM NobodyDeleted ==
    ASSUME Stale < Grace, MaxGlitches <= 2
    PROVE  Spec => NobodyHereIsDeleted
<1>1. Init => DeletionInv
  BY DeletionInit
<1>2. DeletionInv /\ [Next]_vars => DeletionInv'
  BY DeletionStep
<1>3. DeletionInv /\ [Next]_vars =>
        [\A u \in Units, r \in Ids :
            run[u].at = "apply" /\ Live(r) /\ row'[r].del /\ run'[u] # run[u] =>
                LET m == row[r].who IN
                ses[m] = None \/ stay[m] < 2 \/ (stay[m] = 2 /\ (glitches + failures > 0 \/ stopped))]_vars
  BY DeletionSafe
<1>4. QED
  BY <1>1, <1>2, <1>3, PTL DEF Spec, NobodyHereIsDeleted
=============================================================================
