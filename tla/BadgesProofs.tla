----------------------------- MODULE BadgesProofs -----------------------------
(***************************************************************************)
(* What TLAPS proves of Badges, for any number of units, scanners, events,   *)
(* days, attempts and faults.                                               *)
(***************************************************************************)
EXTENDS Badges, TLAPS

-----------------------------------------------------------------------------
(* The inductive invariant: everything can always be dated back, and whoever is to read    *)
(* again has an attempt left.                                                               *)

HasAttempt(w) == w.at = "conflict" => w.attempt < MaxAttempts

IInv == TypeOK /\ day >= MaxAgo /\ \A id \in Writers : HasAttempt(writer[id])

-----------------------------------------------------------------------------
(* What a writer makes of a state *)

LEMMA StateExcept ==
    /\ \A s \in State, c \in [Units -> Nat] : [s EXCEPT !.count = c] \in State
    /\ \A s \in State, a \in [Win -> Nat \cup {None}] : [s EXCEPT !.at = a] \in State
    /\ \A s \in State, h \in SUBSET Win : [s EXCEPT !.shown = h] \in State
BY DEF State

\* t has counted n more and taken nothing back.
Grows(s, t) ==
    /\ \A w \in Win : s.at[w] # None => t.at[w] # None
    /\ s.shown \subseteq t.shown

LEMMA AwardFacts ==
    ASSUME NEW s \in State, NEW w \in Win, NEW time \in Nat
    PROVE  Award(s, w, time) \in State /\ Award(s, w, time).count = s.count /\ Grows(s, Award(s, w, time))
<1>1. CASE s.at[w] # None
  BY <1>1 DEF Award, Grows
<1>2. CASE s.at[w] = None
  <2> DEFINE a == [s.at EXCEPT ![w] = time]
             t == [s EXCEPT !.at = a]
  <2>1. Award(s, w, time) = t
    BY <1>2 DEF Award, State
  <2>2. a \in [Win -> Nat \cup {None}]
    BY DEF State
  <2>3. \A v \in Win : s.at[v] # None => a[v] # None
    BY ConstantsAssumption DEF State
  <2> HIDE DEF a
  <2>4. t \in State
    BY <2>2, StateExcept
  <2>5. t.at = a /\ t.count = s.count /\ t.shown = s.shown
    BY DEF State
  <2> HIDE DEF t
  <2>6. QED
    BY <2>1, <2>3, <2>4, <2>5 DEF Grows
<1>3. QED
  BY <1>1, <1>2

Plus1(f, u) == [v \in Units |-> IF v = u THEN f[v] + 1 ELSE f[v]]

LEMMA EventFacts ==
    ASSUME NEW s \in State, NEW u \in Units, NEW time \in Nat
    PROVE  /\ ApplyEvent(s, u, time) \in State
           /\ ApplyEvent(s, u, time).count = Plus1(s.count, u)
           /\ Grows(s, ApplyEvent(s, u, time))
<1> DEFINE t == [s EXCEPT !.count[u] = @ + 1]
<1>1. s.count \in [Units -> Nat]
  BY DEF State
<1>2. Plus1(s.count, u) = [s.count EXCEPT ![u] = @ + 1] /\ Plus1(s.count, u) \in [Units -> Nat]
  BY <1>1 DEF Plus1
<1>3. t = [s EXCEPT !.count = Plus1(s.count, u)]
  BY <1>2 DEF State
<1>4. t \in State
  BY <1>2, <1>3, StateExcept
<1>5. t.count = Plus1(s.count, u) /\ t.at = s.at /\ t.shown = s.shown
  BY <1>3 DEF State
<1>6. ApplyEvent(s, u, time) = IF t.count[u] >= Threshold THEN Award(t, <<u, "counted">>, time) ELSE t
  BY DEF ApplyEvent
<1>7. <<u, "counted">> \in Win
  BY DEF Win, Ids
<1> HIDE DEF t
<1>8. Grows(s, t)
  BY <1>5 DEF Grows
<1>9. CASE t.count[u] >= Threshold
  <2>1. ApplyEvent(s, u, time) = Award(t, <<u, "counted">>, time)
    BY <1>6, <1>9
  <2> DEFINE a == Award(t, <<u, "counted">>, time)
  <2>2. a \in State /\ a.count = t.count /\ Grows(t, a)
    BY <1>4, <1>7, AwardFacts
  <2>3. Grows(s, a)
    BY <1>8, <2>2 DEF Grows
  <2>4. QED
    BY <1>5, <2>1, <2>2, <2>3
<1>10. CASE ~(t.count[u] >= Threshold)
  BY <1>4, <1>5, <1>6, <1>8, <1>10
<1>11. QED
  BY <1>9, <1>10

LEMMA MarkFacts ==
    ASSUME NEW s \in State, NEW B
    PROVE  /\ MarkDisplayed(s, B) \in State
           /\ MarkDisplayed(s, B).count = s.count /\ MarkDisplayed(s, B).at = s.at
           /\ MarkDisplayed(s, B).shown = s.shown \cup UNION {Awarded(s, b) : b \in B}
<1> DEFINE h == s.shown \cup UNION {Awarded(s, b) : b \in B}
<1>1. MarkDisplayed(s, B) = [s EXCEPT !.shown = h]
  BY DEF MarkDisplayed, State
<1>2. h \in SUBSET Win
  BY DEF State, Awarded
<1> HIDE DEF h
<1>3. QED
  BY <1>1, <1>2, StateExcept DEF State, h

LEMMA ChangeFacts ==
    ASSUME IInv, NEW id \in Writers
    PROVE  /\ Change(id) \in State
           /\ Change(id).count = Counts(id, writer[id].seen.count)
           /\ Grows(writer[id].seen, Change(id))
           /\ ToShow(id) \subseteq Ids
<1> DEFINE w == writer[id]
           c == Credited(w.seen, w)
<1>1. w \in Writer /\ w.seen \in State /\ w.unit \in Units /\ w.time \in Nat
  BY DEF IInv, TypeOK, Writer
<1>2. CASE id = "night"
  <2>1. <<w.unit, "nightly">> \in Win
    BY <1>1 DEF Win, Ids
  <2>2. Change(id) = Award(w.seen, <<w.unit, "nightly">>, w.time)
    BY <1>2 DEF Change
  <2>3. Counts(id, w.seen.count) = w.seen.count
    BY <1>1, <1>2 DEF Counts, State
  <2>4. ToShow(id) = {}
    BY <1>2 DEF ToShow
  <2>5. QED
    BY <1>1, <2>1, <2>2, <2>3, <2>4, AwardFacts
<1>3. CASE id # "night"
  <2>1. c \in State /\ c.count = Plus1(w.seen.count, w.unit) /\ Grows(w.seen, c)
    BY <1>1, EventFacts DEF Credited
  <2>2. Counts(id, w.seen.count) = Plus1(w.seen.count, w.unit)
    BY <1>3 DEF Counts, Plus1
  <2>3. Change(id) = IF w.show THEN MarkDisplayed(c, Undisplayed(c)) ELSE c
    BY <1>3 DEF Change
  <2>4. ToShow(id) \subseteq Ids
    BY DEF ToShow, Undisplayed
  <2> HIDE DEF c, w
  <2>5. CASE w.show
    <3>1. Change(id) = MarkDisplayed(c, Undisplayed(c))
      BY <2>3, <2>5
    <3>2. Grows(c, MarkDisplayed(c, Undisplayed(c)))
      BY <2>1, MarkFacts DEF Grows
    <3>3. QED
      BY <2>1, <2>2, <2>4, <3>1, <3>2, MarkFacts DEF Grows, w
  <2>6. CASE ~w.show
    BY <2>1, <2>2, <2>3, <2>4, <2>6 DEF w
  <2>7. QED
    BY <2>5, <2>6
<1>4. QED
  BY <1>2, <1>3

-----------------------------------------------------------------------------
(* Types *)

LEMMA FreshFacts == Fresh \in State
BY DEF Fresh, State

LEMMA IdleFacts == IdleWriter \in Writer /\ IdleWriter.at = "idle"
BY FreshFacts, ConstantsAssumption DEF IdleWriter, Writer

LEMMA InitInv == Init => IInv
<1> SUFFICES ASSUME Init PROVE IInv
  OBVIOUS
<1>1. row \in State /\ stale \in State
  BY FreshFacts DEF Init
<1>2. writer \in [Writers -> Writer] /\ \A id \in Writers : HasAttempt(writer[id])
  BY IdleFacts DEF Init, HasAttempt
<1>3. congrats \in Run /\ record \subseteq Win
  BY DEF Init, NoRun, Run
<1>4. day \in Nat /\ day >= MaxAgo /\ events \in Nat /\ faults \in Nat
  BY ConstantsAssumption DEF Init
<1>5. /\ credited \in [Units -> Nat] /\ repeated \in [Units -> Nat] /\ celebrated \in [Ids -> Nat]
      /\ mailed \in [Win -> Nat] /\ unrecorded \in [Win -> Nat] /\ lost \in [Win -> Nat]
      /\ given \in [Win -> Nat \cup {None}]
  BY DEF Init
<1>6. QED
  BY <1>1, <1>2, <1>3, <1>4, <1>5 DEF IInv, TypeOK

\* Of a writer's step: nothing but its own place changes among the writers, and no mail.
WriterStep(id) ==
    /\ \E w \in Writer : HasAttempt(w) /\ writer' = [writer EXCEPT ![id] = w]
    /\ UNCHANGED day /\ UNCHANGED mail
    /\ events' \in Nat /\ faults' \in Nat

LEMMA WriterKeepsTypes ==
    ASSUME IInv, NEW id \in Writers, WriterStep(id),
           row' \in State, stale' \in State, given' \in [Win -> Nat \cup {None}],
           credited' \in [Units -> Nat], repeated' \in [Units -> Nat], celebrated' \in [Ids -> Nat]
    PROVE  IInv'
<1>1. PICK w \in Writer : HasAttempt(w) /\ writer' = [writer EXCEPT ![id] = w]
  BY DEF WriterStep
<1>2. writer' \in [Writers -> Writer]
  BY <1>1 DEF IInv, TypeOK
<1>3. \A v \in Writers : HasAttempt(writer'[v])
  BY <1>1 DEF IInv, TypeOK
<1>4. /\ day' = day /\ congrats' = congrats /\ record' = record
      /\ mailed' = mailed /\ unrecorded' = unrecorded /\ lost' = lost
  BY DEF WriterStep, mail
<1>5. events' \in Nat /\ faults' \in Nat
  BY DEF WriterStep
<1>6. TypeOK'
  BY <1>2, <1>4, <1>5 DEF IInv, TypeOK
<1>7. QED
  BY <1>3, <1>4, <1>6 DEF IInv, HasAttempt

\* The steps of the evening's run.
CongratsStep ==
    /\ congrats' \in Run /\ record' \subseteq Win
    /\ mailed' \in [Win -> Nat] /\ unrecorded' \in [Win -> Nat] /\ lost' \in [Win -> Nat]
    /\ stale' \in State /\ day' \in Nat /\ day' >= day /\ faults' \in Nat
    /\ UNCHANGED <<row, writer, given, credited, repeated, celebrated, events>>

LEMMA CongratsKeepsTypes ==
    ASSUME IInv, CongratsStep
    PROVE  IInv'
<1>1. TypeOK'
  BY DEF IInv, TypeOK, CongratsStep
<1>2. day' >= MaxAgo
  BY ConstantsAssumption DEF IInv, TypeOK, CongratsStep
<1>3. writer' = writer
  BY DEF CongratsStep
<1>4. QED
  BY <1>1, <1>2, <1>3 DEF IInv, HasAttempt

\* One step of badge_store::update saves what the change makes of the row, or saves nothing.
Saves(id) ==
    /\ row = writer[id].seen /\ row' = Change(id)
    /\ \/ credited' = Counts(id, credited) /\ repeated' = repeated
          /\ celebrated' = [b \in Ids |-> IF b \in ToShow(id) THEN celebrated[b] + 1 ELSE celebrated[b]]
       \/ repeated' = Counts(id, repeated) /\ UNCHANGED <<credited, celebrated>>

LEMMA RefusedFacts ==
    ASSUME IInv, NEW id \in Writers, Refused(id)
    PROVE  \E w \in Writer : HasAttempt(w) /\ writer' = [writer EXCEPT ![id] = w]
<1> DEFINE w == writer[id]
           v == [w EXCEPT !.at = "conflict"]
<1>1. w \in Writer
  BY DEF IInv, TypeOK
<1>2. writer' = [writer EXCEPT ![id] = IF w.attempt < MaxAttempts THEN v ELSE IdleWriter]
  BY <1>1 DEF Refused, IInv, TypeOK
<1>3. v \in Writer /\ v.attempt = w.attempt
  BY <1>1 DEF Writer
<1>4. CASE w.attempt < MaxAttempts
  <2>1. HasAttempt(v)
    BY <1>3, <1>4 DEF HasAttempt
  <2>2. QED
    BY <1>2, <1>3, <1>4, <2>1
<1>5. CASE ~(w.attempt < MaxAttempts)
  <2>1. HasAttempt(IdleWriter)
    BY IdleFacts DEF HasAttempt
  <2>2. QED
    BY <1>2, <1>5, <2>1, IdleFacts
<1>6. QED
  BY <1>4, <1>5

LEMMA CountsType ==
    ASSUME NEW id, NEW n \in [Units -> Nat]
    PROVE  Counts(id, n) \in [Units -> Nat]
BY DEF Counts

LEMMA UpdateFacts ==
    ASSUME IInv, NEW id \in Writers, Update(id)
    PROVE  /\ Saves(id) \/ UNCHANGED <<row, credited, repeated, celebrated>>
           /\ IInv'
<1>1. UNCHANGED day /\ UNCHANGED mail
  BY DEF Update, Write, NothingToWrite, Conflict, AnswerLost, ReadAgain
<1>2. \E w \in Writer : HasAttempt(w) /\ writer' = [writer EXCEPT ![id] = w]
  <2>1. CASE Finish(id)
    BY <2>1, IdleFacts DEF Finish, HasAttempt
  <2>2. CASE Refused(id)
    BY <2>2, RefusedFacts
  <2>3. CASE ReadAgain(id)
    <3>1. PICK s \in {row, stale} :
              writer' = [writer EXCEPT ![id].at = "write", ![id].seen = s, ![id].attempt = @ + 1]
      BY <2>3 DEF ReadAgain
    <3> DEFINE w == writer[id]
               v == [w EXCEPT !.at = "write", !.seen = s, !.attempt = @ + 1]
    <3>2. w \in Writer /\ s \in State /\ w.at = "conflict" /\ HasAttempt(w)
      BY <2>3 DEF IInv, TypeOK, ReadAgain
    <3>3. w.attempt + 1 \in 0..MaxAttempts
      BY <3>2, ConstantsAssumption DEF Writer, HasAttempt
    <3>4. v \in Writer /\ v.at = "write"
      BY <3>2, <3>3 DEF Writer
    <3>5. HasAttempt(v)
      BY <3>4 DEF HasAttempt
    <3>6. writer' = [writer EXCEPT ![id] = v]
      BY <3>1 DEF IInv, TypeOK
    <3>7. QED
      BY <3>4, <3>5, <3>6
  <2>4. QED
    BY <2>1, <2>2, <2>3 DEF Update, Write, NothingToWrite, Conflict, AnswerLost
<1>3. events' \in Nat /\ faults' \in Nat
  <2>1. events \in Nat /\ faults \in Nat
    BY DEF IInv, TypeOK
  <2>2. events' = events /\ (faults' = faults \/ faults' = faults + 1)
    BY DEF Update, Write, NothingToWrite, Conflict, AnswerLost, ReadAgain, Fault
  <2>3. QED
    BY <2>1, <2>2
<1>4. WriterStep(id)
  BY <1>1, <1>2, <1>3 DEF WriterStep
<1>5. CASE Write(id) \/ AnswerLost(id)
  <2>1. Save(id) /\ row = writer[id].seen
    BY <1>5 DEF Write, AnswerLost
  <2>2. row' \in State /\ stale' \in State
    BY <2>1, ChangeFacts DEF Save, IInv, TypeOK
  <2>3. given' \in [Win -> Nat \cup {None}]
    BY <2>1 DEF Save, IInv, TypeOK
  <2>4. Saves(id)
    BY <1>5, <2>1 DEF Saves, Write, AnswerLost, Save
  <2>5. credited' \in [Units -> Nat] /\ repeated' \in [Units -> Nat]
    <3>1. credited \in [Units -> Nat] /\ repeated \in [Units -> Nat]
      BY DEF IInv, TypeOK
    <3>2. Counts(id, credited) \in [Units -> Nat] /\ Counts(id, repeated) \in [Units -> Nat]
      BY <3>1, CountsType
    <3>3. QED
      BY <2>4, <3>1, <3>2 DEF Saves
  <2>7. celebrated' \in [Ids -> Nat]
    BY <2>4 DEF Saves, IInv, TypeOK
  <2>6. QED
    BY <1>4, <2>2, <2>3, <2>4, <2>5, <2>7, WriterKeepsTypes
<1>6. CASE NothingToWrite(id) \/ Conflict(id) \/ ReadAgain(id)
  <2>1. UNCHANGED <<row, stale, given, credited, repeated, celebrated>>
    BY <1>6 DEF NothingToWrite, Conflict, ReadAgain
  <2>2. QED
    BY <1>4, <2>1, WriterKeepsTypes DEF IInv, TypeOK
<1>7. QED
  BY <1>5, <1>6 DEF Update

Begins == \/ \E id \in Scanners, u \in Units, show \in BOOLEAN, time \in (day - MaxAgo)..(day + MaxAhead) :
                  BeginEvent(id, u, show, time)
          \/ \E u \in Units, time \in (day - Back)..day : BeginNight(u, time)

LEMMA BeginsFacts ==
    ASSUME IInv, Begins
    PROVE  IInv' /\ UNCHANGED <<row, credited, repeated, celebrated>>
<1>0. day \in Nat /\ day >= MaxAgo /\ events \in Nat /\ 1 \in 0..MaxAttempts
  BY ConstantsAssumption DEF IInv, TypeOK
<1>1. \E id \in Writers, w \in Writer : w.at = "write" /\ Begin(id, w)
  <2>1. CASE \E id \in Scanners, u \in Units, show \in BOOLEAN, time \in (day - MaxAgo)..(day + MaxAhead) :
                  BeginEvent(id, u, show, time)
    <3>1. PICK id \in Scanners, u \in Units, show \in BOOLEAN, time \in (day - MaxAgo)..(day + MaxAhead) :
              BeginEvent(id, u, show, time)
      BY <2>1
    <3> DEFINE w == [at |-> "write", seen |-> Fresh, attempt |-> 1, unit |-> u, show |-> show,
                 time |-> time, begun |-> day]
    <3>2. time \in Nat
      BY <1>0, ConstantsAssumption
    <3>3. w \in Writer
      BY <1>0, <3>2, FreshFacts DEF Writer
    <3>4. Begin(id, w)
      BY <3>1 DEF BeginEvent
    <3>5. QED
      BY <3>3, <3>4 DEF Writers
  <2>2. CASE \E u \in Units, time \in (day - Back)..day : BeginNight(u, time)
    <3>1. PICK u \in Units, time \in (day - Back)..day : BeginNight(u, time)
      BY <2>2
    <3> DEFINE w == [at |-> "write", seen |-> Fresh, attempt |-> 1, unit |-> u, show |-> FALSE,
                 time |-> time, begun |-> day]
    <3>2. time \in Nat
      BY <1>0, ConstantsAssumption
    <3>3. w \in Writer
      BY <1>0, <3>2, FreshFacts DEF Writer
    <3>4. Begin("night", w)
      BY <3>1 DEF BeginNight
    <3>5. QED
      BY <3>3, <3>4 DEF Writers
  <2>3. QED
    BY <2>1, <2>2 DEF Begins
<1>2. PICK id \in Writers, w \in Writer : w.at = "write" /\ Begin(id, w)
  BY <1>1
<1>3. PICK s \in {row, stale} : writer' = [writer EXCEPT ![id] = [w EXCEPT !.seen = s]]
  BY <1>2 DEF Begin
<1> DEFINE v == [w EXCEPT !.seen = s]
<1>4. v \in Writer /\ v.at = "write"
  BY <1>2 DEF Writer, IInv, TypeOK
<1>5. HasAttempt(v)
  BY <1>4 DEF HasAttempt
<1>6. events' \in Nat
  BY <1>0, <1>2 DEF Begin
<1>7. UNCHANGED <<row, stale, given, credited, repeated, celebrated, day, faults>> /\ UNCHANGED mail
  BY <1>2 DEF Begin
<1>8. WriterStep(id)
  BY <1>3, <1>4, <1>5, <1>6, <1>7 DEF WriterStep, IInv, TypeOK
<1>9. QED
  BY <1>7, <1>8, WriterKeepsTypes DEF IInv, TypeOK

Congrats == \/ StartCongrats \/ MissCongrats
            \/ List \/ ReadRecord \/ Mail \/ PutRecord \/ PutFails \/ CongratsFails \/ RunAgain

LEMMA RunExcept ==
    /\ \A c \in Run, w \in SUBSET Win : [c EXCEPT !.wins = w] \in Run
    /\ \A c \in Run, w \in SUBSET Win : [c EXCEPT !.new = w] \in Run
    /\ \A c \in Run : /\ [c EXCEPT !.at = "record"] \in Run /\ [c EXCEPT !.at = "send"] \in Run
                      /\ [c EXCEPT !.at = "put"] \in Run /\ [c EXCEPT !.at = "done"] \in Run
BY DEF Run

LEMMA CongratsFacts ==
    ASSUME IInv, Congrats
    PROVE  CongratsStep
<1>1. UNCHANGED <<row, writer, given, credited, repeated, celebrated, events>>
  BY DEF Congrats, StartCongrats, MissCongrats, List, ReadRecord, Mail, PutRecord, PutFails, CongratsFails,
         RunAgain, store
<1>2. congrats \in Run /\ NoRun \in Run
  BY DEF IInv, TypeOK, NoRun, Run
<1>3. /\ day \in Nat /\ faults \in Nat /\ record \subseteq Win /\ row \in State /\ stale \in State
      /\ mailed \in [Win -> Nat] /\ unrecorded \in [Win -> Nat] /\ lost \in [Win -> Nat]
  BY DEF IInv, TypeOK
<1>4. faults' \in Nat
  <2>1. faults' = faults \/ faults' = faults + 1
    BY DEF Congrats, StartCongrats, MissCongrats, List, ReadRecord, Mail, PutRecord, PutFails, CongratsFails,
           RunAgain, Fault
  <2>2. QED
    BY <1>3, <2>1
<1>5. day' \in Nat /\ day' >= day
  <2>1. day' = day \/ day' = day + 1
    BY DEF Congrats, StartCongrats, MissCongrats, List, ReadRecord, Mail, PutRecord, PutFails, CongratsFails,
           RunAgain, EndOfDay
  <2>2. QED
    BY <1>3, <2>1
<1>6. stale' \in State
  <2>1. stale' = stale \/ stale' = row
    BY DEF Congrats, StartCongrats, MissCongrats, List, ReadRecord, Mail, PutRecord, PutFails, CongratsFails,
           RunAgain, EndOfDay, store
  <2>2. QED
    BY <1>3, <2>1
<1>7. mailed' \in [Win -> Nat]
  <2>1. mailed' = mailed \/ mailed' = Plus(mailed, congrats.new)
    BY DEF Congrats, StartCongrats, MissCongrats, List, ReadRecord, Mail, PutRecord, PutFails, CongratsFails,
           RunAgain
  <2>2. QED
    BY <1>3, <2>1 DEF Plus
<1>8. unrecorded' \in [Win -> Nat]
  <2>1. unrecorded' = unrecorded \/ unrecorded' = Plus(unrecorded, congrats.new)
    BY DEF Congrats, StartCongrats, MissCongrats, List, ReadRecord, Mail, PutRecord, PutFails, CongratsFails,
           RunAgain
  <2>2. QED
    BY <1>3, <2>1 DEF Plus
<1>9. lost' \in [Win -> Nat]
  <2>1. lost' = lost \/ Lose(day) \/ Lose(day - 1)
    BY DEF Congrats, StartCongrats, MissCongrats, List, ReadRecord, Mail, PutRecord, PutFails, CongratsFails,
           RunAgain
  <2>2. QED
    BY <1>3, <2>1 DEF Lose
<1>10. record' \subseteq Win
  <2>1. record' = record \/ record' = congrats.wins
    BY DEF Congrats, StartCongrats, MissCongrats, List, ReadRecord, Mail, PutRecord, PutFails, CongratsFails,
           RunAgain
  <2>2. QED
    BY <1>2, <1>3, <2>1 DEF Run
<1>11. congrats' \in Run
  <2>1. CASE StartCongrats
    <3>1. congrats' = [at |-> "list", from |-> day - (Evenings - 1), to |-> day, wins |-> {}, new |-> {}]
      BY <2>1 DEF StartCongrats, NoRun
    <3>2. day - (Evenings - 1) \in Int
      BY <1>3, ConstantsAssumption
    <3>3. QED
      BY <1>3, <3>1, <3>2 DEF Run
  <2>2. CASE MissCongrats \/ CongratsFails
    BY <1>2, <2>2 DEF MissCongrats, CongratsFails
  <2>3. CASE List
    <3>1. PICK w \in SUBSET Win : congrats' = [congrats EXCEPT !.at = "record", !.wins = w]
      BY <2>3 DEF List
    <3>2. QED
      BY <1>2, <3>1, RunExcept
  <2>4. CASE ReadRecord
    <3>1. congrats.wins \ record \in SUBSET Win
      BY <1>2 DEF Run
    <3>2. PICK at \in {"done", "send"} : congrats' = [congrats EXCEPT !.new = congrats.wins \ record, !.at = at]
      BY <2>4 DEF ReadRecord
    <3>3. QED
      BY <1>2, <3>1, <3>2, RunExcept
  <2>5. CASE Mail \/ PutRecord \/ PutFails
    BY <1>2, <2>5, RunExcept DEF Mail, PutRecord, PutFails
  <2>6. CASE RunAgain
    <3>1. congrats' = [at |-> "list", from |-> congrats.from, to |-> day, wins |-> {}, new |-> {}]
      BY <2>6 DEF RunAgain, NoRun
    <3>2. QED
      BY <1>2, <1>3, <3>1 DEF Run
  <2>7. QED
    BY <2>1, <2>2, <2>3, <2>4, <2>5, <2>6 DEF Congrats
<1>12. QED
  BY <1>1, <1>4, <1>5, <1>6, <1>7, <1>8, <1>9, <1>10, <1>11 DEF CongratsStep

LEMMA StepCases ==
    ASSUME Next
    PROVE  Begins \/ Congrats \/ \E id \in Writers : Update(id)
BY DEF Next, Begins, Congrats

LEMMA Step == IInv /\ [Next]_vars => IInv'
<1> SUFFICES ASSUME IInv, [Next]_vars PROVE IInv'
  OBVIOUS
<1>1. CASE UNCHANGED vars
  BY <1>1 DEF vars, IInv, TypeOK, HasAttempt
<1>2. CASE Next
  BY <1>2, StepCases, BeginsFacts, UpdateFacts, CongratsFacts, CongratsKeepsTypes
<1>3. QED
  BY <1>1, <1>2

LEMMA Invariance == Spec => []IInv
<1>1. QED
  BY InitInv, Step, PTL DEF Spec

\* Every state, count, mark and mail stays well formed: no writer runs out of its attempts
\* between a conflict and the next read, and nothing is dated before day 0.
THEOREM TypeCorrect == Spec => []TypeOK
<1>1. IInv => TypeOK
  BY DEF IInv
<1>2. QED
  BY <1>1, Invariance, PTL

-----------------------------------------------------------------------------
(* No event is lost *)

LEMMA Quiet ==
    ASSUME IInv, [Next]_vars,
           ~\E id \in Writers : Update(id) /\ Saves(id)
    PROVE  UNCHANGED <<row, credited, repeated, celebrated>>
<1>1. CASE UNCHANGED vars
  BY <1>1 DEF vars
<1>2. CASE Begins
  BY <1>2, BeginsFacts
<1>3. CASE Congrats
  BY <1>3, CongratsFacts DEF CongratsStep
<1>4. CASE \E id \in Writers : Update(id)
  BY <1>4, UpdateFacts
<1>5. QED
  BY <1>1, <1>2, <1>3, <1>4, StepCases

\* The count is what requests were told is saved, and what was saved although its answer was
\* lost: the compare-and-swap of badge_store::update loses no event to another writer.
THEOREM CountSafe == Spec => []CountsEveryEvent
<1>1. Init => CountsEveryEvent
  BY DEF Init, Fresh, CountsEveryEvent
<1>2. IInv /\ CountsEveryEvent /\ [Next]_vars => CountsEveryEvent'
  <2> SUFFICES ASSUME IInv, CountsEveryEvent, [Next]_vars PROVE CountsEveryEvent'
    OBVIOUS
  <2>1. ASSUME NEW id \in Writers, Saves(id) PROVE CountsEveryEvent'
    <3> SUFFICES ASSUME NEW u \in Units PROVE row'.count[u] = credited'[u] + repeated'[u]
      BY DEF CountsEveryEvent
    <3> DEFINE hit == id # "night" /\ u = writer[id].unit
    <3>1. row'.count[u] = IF hit THEN row.count[u] + 1 ELSE row.count[u]
      <4>1. row'.count = Counts(id, row.count)
        BY <2>1, ChangeFacts DEF Saves
      <4>2. Counts(id, row.count)[u] = IF hit THEN row.count[u] + 1 ELSE row.count[u]
        BY DEF Counts
      <4>3. QED
        BY <4>1, <4>2
    <3>2. row.count[u] = credited[u] + repeated[u]
      BY DEF CountsEveryEvent
    <3>3. credited[u] \in Nat /\ repeated[u] \in Nat /\ row.count[u] \in Nat
      BY DEF IInv, TypeOK, State
    <3>4. \/ credited'[u] = (IF hit THEN credited[u] + 1 ELSE credited[u]) /\ repeated'[u] = repeated[u]
          \/ repeated'[u] = (IF hit THEN repeated[u] + 1 ELSE repeated[u]) /\ credited'[u] = credited[u]
      BY <2>1 DEF Saves, Counts
    <3> HIDE DEF hit
    <3>5. QED
      BY <3>1, <3>2, <3>3, <3>4
  <2>2. CASE UNCHANGED <<row, credited, repeated, celebrated>>
    BY <2>2 DEF CountsEveryEvent
  <2>3. QED
    BY <2>1, <2>2, Quiet
<1>3. QED
  BY <1>1, <1>2, Invariance, PTL DEF Spec

-----------------------------------------------------------------------------
(* A badge that has been celebrated stays marked as shown, in whatever state is saved next.  *)

Shown(s, b) == Awarded(s, b) \cap s.shown # {}

CelebratedInv == \A b \in Ids : celebrated[b] = 0 \/ (celebrated[b] = 1 /\ Shown(row, b))

LEMMA ShownStays ==
    ASSUME NEW s, NEW t, NEW b, Grows(s, t), Shown(s, b)
    PROVE  Shown(t, b)
BY DEF Grows, Shown, Awarded

LEMMA ToShowFacts ==
    ASSUME IInv, NEW id \in Writers, NEW b \in ToShow(id)
    PROVE  ~Shown(writer[id].seen, b) /\ Shown(Change(id), b)
<1> DEFINE w == writer[id]
           c == Credited(w.seen, w)
<1>1. w \in Writer /\ w.seen \in State /\ w.unit \in Units /\ w.time \in Nat
  BY DEF IInv, TypeOK, Writer
<1>2. id # "night" /\ w.show /\ b \in Undisplayed(c)
  BY DEF ToShow
<1>3. c \in State /\ Grows(w.seen, c)
  BY <1>1, EventFacts DEF Credited
<1>4. Change(id) = MarkDisplayed(c, Undisplayed(c))
  BY <1>2 DEF Change
<1> HIDE DEF c
<1>5. Awarded(c, b) # {} /\ Awarded(c, b) \cap c.shown = {}
  BY <1>2 DEF Undisplayed
<1>6. ~Shown(w.seen, b)
  BY <1>3, <1>5, ShownStays DEF Shown
<1> DEFINE d == MarkDisplayed(c, Undisplayed(c))
<1>7. d.at = c.at /\ Awarded(c, b) \subseteq d.shown
  BY <1>2, <1>3, MarkFacts
<1> HIDE DEF d
<1>8. Awarded(d, b) = Awarded(c, b)
  BY <1>7 DEF Awarded
<1>9. Shown(d, b)
  BY <1>5, <1>7, <1>8 DEF Shown
<1>10. QED
  BY <1>4, <1>6, <1>9 DEF d

\* A badge is celebrated at one kiosk at most, whatever scans overlap and however many units
\* award it: only a save celebrates, and it saves that the badge has been shown.
THEOREM CelebratedSafe == Spec => []CelebratedOnce
<1>1. Init => CelebratedInv
  BY DEF Init, CelebratedInv
<1>2. IInv /\ CelebratedInv /\ [Next]_vars => CelebratedInv'
  <2> SUFFICES ASSUME IInv, CelebratedInv, [Next]_vars PROVE CelebratedInv'
    OBVIOUS
  <2>1. ASSUME NEW id \in Writers, Saves(id) PROVE CelebratedInv'
    <3> SUFFICES ASSUME NEW b \in Ids PROVE celebrated'[b] = 0 \/ (celebrated'[b] = 1 /\ Shown(row', b))
      BY DEF CelebratedInv
    <3>1. celebrated[b] = 0 \/ (celebrated[b] = 1 /\ Shown(row, b))
      BY DEF CelebratedInv
    <3>2. row = writer[id].seen /\ row' = Change(id) /\ Grows(row, row')
      BY <2>1, ChangeFacts DEF Saves
    <3>3. Shown(row, b) => Shown(row', b)
      BY <3>2, ShownStays
    <3>4. CASE celebrated'[b] = celebrated[b]
      BY <3>1, <3>3, <3>4
    <3>5. CASE b \in ToShow(id) /\ celebrated'[b] = celebrated[b] + 1
      <4>1. ~Shown(row, b) /\ Shown(row', b)
        BY <3>2, <3>5, ToShowFacts
      <4>2. celebrated[b] = 0
        BY <3>1, <4>1
      <4>3. celebrated'[b] = 1
        BY <3>5, <4>2
      <4>4. QED
        BY <4>1, <4>3
    <3>6. QED
      BY <2>1, <3>4, <3>5 DEF Saves
  <2>2. CASE UNCHANGED <<row, credited, repeated, celebrated>>
    BY <2>2 DEF CelebratedInv
  <2>3. QED
    BY <2>1, <2>2, Quiet
<1>3. CelebratedInv => CelebratedOnce
  BY DEF CelebratedInv, CelebratedOnce
<1>4. QED
  BY <1>1, <1>2, <1>3, Invariance, PTL DEF Spec

-----------------------------------------------------------------------------
(* The mail.  What was won before an evening's run is in what it reads, so it is   *)
(* either mailed or recorded, too old or too young for the run, or the run fails;  *)
(* and what is recorded stays recorded until no later run can look back on it.      *)

\* The evening's run has read the wins and has not ended.
Sending == congrats.at \in {"record", "send", "put"}

\* Saved before the run began, which a mail proves too.
Due(w) == row.at[w] # None /\ (given[w] < day \/ mailed[w] > 0)

\* Evenings before this day have had their run, or have failed.
Past == IF congrats.at \in {"idle", "done"} THEN day ELSE day - 1

RunInv ==
    /\ congrats.at # "idle" =>
          congrats.from = day - Evenings /\ (congrats.to = day - 1 \/ congrats.to = day)
    /\ congrats.at \in {"send", "put"} => congrats.new = congrats.wins \ record

\* The day a win was saved, and what a read that is behind says of it.
Dates(w) ==
    /\ row.at[w] # None => given[w] \in Nat /\ given[w] <= day
    /\ stale.at[w] # None => stale.at[w] = row.at[w]
    /\ congrats.at = "list" /\ Due(w) => stale.at[w] = row.at[w]

\* What the run in progress has, and may have had before.
InRun(w) ==
    /\ mailed[w] > 0 =>
          row.at[w] # None /\ row.at[w] <= day /\ (congrats.at # "idle" => row.at[w] <= congrats.to)
    /\ Sending /\ Due(w) => w \in congrats.wins \/ row.at[w] < congrats.from \/ row.at[w] > congrats.to
    /\ Sending /\ w \in congrats.wins =>
          row.at[w] # None /\ congrats.from <= row.at[w] /\ row.at[w] <= congrats.to

\* A mail that is recorded is not sent again while a run can look back on the win.
Once(w) ==
    /\ mailed[w] <= 1 + unrecorded[w]
    /\ congrats.at = "send" /\ w \in congrats.new => mailed[w] <= unrecorded[w]
    /\ mailed[w] > unrecorded[w] =>
          \/ w \in record
          \/ row.at[w] < day - Evenings
          \/ congrats.at = "put" /\ w \in congrats.new

\* Each evening since the first that could mail the win has mailed it or was lost, until it is
\* too old.
Missed(w) ==
    /\ w \in record => mailed[w] > 0
    /\ congrats.at = "put" /\ w \in congrats.new => mailed[w] > 0
    /\ row.at[w] # None /\ mailed[w] = 0 =>
          lost[w] >= Past - FirstEvening(w) \/ lost[w] >= row.at[w] + Evenings - FirstEvening(w)

WinInv(w) == Dates(w) /\ InRun(w) /\ Once(w) /\ Missed(w)

MailInv == RunInv /\ \A w \in Win : WinInv(w)

LEMMA MailTypes ==
    ASSUME IInv
    PROVE  /\ day \in Nat /\ Evenings \in Nat /\ None \notin Nat
           /\ congrats.to \in Nat /\ congrats.from \in Int
           /\ congrats.at \in {"idle", "list", "record", "send", "put", "done"}
           /\ congrats.wins \subseteq Win /\ congrats.new \subseteq Win
           /\ \A w \in Win : /\ row.at[w] \in Nat \cup {None} /\ stale.at[w] \in Nat \cup {None}
                             /\ given[w] \in Nat \cup {None}
                             /\ mailed[w] \in Nat /\ unrecorded[w] \in Nat /\ lost[w] \in Nat
           /\ \A id \in Writers : writer[id].time \in Nat
<1>1. congrats \in Run /\ row \in State /\ stale \in State /\ \A id \in Writers : writer[id] \in Writer
  BY DEF IInv, TypeOK
<1>2. \A id \in Writers : writer[id].time \in Nat
  BY <1>1 DEF Writer
<1>3. /\ congrats.to \in Nat /\ congrats.from \in Int
      /\ congrats.at \in {"idle", "list", "record", "send", "put", "done"}
      /\ congrats.wins \subseteq Win /\ congrats.new \subseteq Win
  BY <1>1 DEF Run
<1>4. \A w \in Win : row.at[w] \in Nat \cup {None} /\ stale.at[w] \in Nat \cup {None}
  BY <1>1 DEF State
<1>5. QED
  BY <1>2, <1>3, <1>4, ConstantsAssumption DEF IInv, TypeOK

\* What a writer saves of a win that it did not read is dated by its request.
Dated(s, t, time) == \A w \in Win : t.at[w] = s.at[w] \/ (s.at[w] = None /\ t.at[w] = time)

LEMMA AwardDates ==
    ASSUME NEW s \in State, NEW w \in Win, NEW time \in Nat
    PROVE  Dated(s, Award(s, w, time), time)
<1>1. CASE s.at[w] # None
  BY <1>1 DEF Award, Dated
<1>2. CASE s.at[w] = None
  <2> DEFINE a == [s.at EXCEPT ![w] = time]
  <2>1. Award(s, w, time) = [s EXCEPT !.at = a]
    BY <1>2 DEF Award, State
  <2>2. \A v \in Win : a[v] = s.at[v] \/ (s.at[v] = None /\ a[v] = time)
    BY <1>2 DEF State
  <2> HIDE DEF a
  <2>3. [s EXCEPT !.at = a].at = a
    BY DEF State
  <2>4. QED
    BY <2>1, <2>2, <2>3 DEF Dated
<1>3. QED
  BY <1>1, <1>2

LEMMA EventDates ==
    ASSUME NEW s \in State, NEW u \in Units, NEW time \in Nat
    PROVE  Dated(s, ApplyEvent(s, u, time), time)
<1>1. s.count \in [Units -> Nat]
  BY DEF State
<1>p. Plus1(s.count, u) = [s.count EXCEPT ![u] = @ + 1] /\ Plus1(s.count, u) \in [Units -> Nat]
  BY <1>1 DEF Plus1
<1>2. PICK c \in [Units -> Nat] : c = [s.count EXCEPT ![u] = @ + 1]
  BY <1>p
<1>3. PICK t : t = [s EXCEPT !.count = c]
  OBVIOUS
<1>4. t \in State /\ t.at = s.at
  BY <1>3, StateExcept DEF State
<1>5. t = [s EXCEPT !.count[u] = @ + 1]
  BY <1>2, <1>3 DEF State
<1>6. ApplyEvent(s, u, time) = IF t.count[u] >= Threshold THEN Award(t, <<u, "counted">>, time) ELSE t
  BY <1>5 DEF ApplyEvent
<1>7. <<u, "counted">> \in Win
  BY DEF Win, Ids
<1>8. Dated(t, Award(t, <<u, "counted">>, time), time)
  BY <1>4, <1>7, AwardDates
<1>9. QED
  BY <1>4, <1>6, <1>8 DEF Dated

LEMMA ChangeDates ==
    ASSUME IInv, NEW id \in Writers
    PROVE  Dated(writer[id].seen, Change(id), writer[id].time)
<1>1. PICK w \in Writer : w = writer[id]
  BY DEF IInv, TypeOK
<1>2. w.seen \in State /\ w.unit \in Units /\ w.time \in Nat
  BY DEF Writer
<1>3. CASE id = "night"
  <2>1. <<w.unit, "nightly">> \in Win
    BY <1>2 DEF Win, Ids
  <2>2. Change(id) = Award(w.seen, <<w.unit, "nightly">>, w.time)
    BY <1>1, <1>3 DEF Change
  <2>3. QED
    BY <1>1, <1>2, <2>1, <2>2, AwardDates
<1>4. CASE id # "night"
  <2>1. PICK c : c = Credited(w.seen, w)
    OBVIOUS
  <2>2. c \in State /\ Dated(w.seen, c, w.time)
    BY <1>2, <2>1, EventFacts, EventDates DEF Credited
  <2>3. Change(id) = IF w.show THEN MarkDisplayed(c, Undisplayed(c)) ELSE c
    BY <1>1, <1>4, <2>1 DEF Change
  <2>4. MarkDisplayed(c, Undisplayed(c)).at = c.at
    BY <2>2, MarkFacts
  <2>5. Change(id).at = c.at
    BY <2>3, <2>4
  <2>6. QED
    BY <1>1, <2>2, <2>5 DEF Dated
<1>5. QED
  BY <1>3, <1>4

\* A writer's step keeps what is said of a win: it leaves the win alone or saves it today.
LEMMA WriterMail ==
    ASSUME IInv, IInv', RunInv, NEW w \in Win, WinInv(w), UNCHANGED day, UNCHANGED mail,
           \/ /\ row'.at[w] = row.at[w] /\ given'[w] = given[w]
              /\ stale'.at[w] = stale.at[w] \/ stale'.at[w] = row.at[w]
           \/ /\ row.at[w] = None /\ stale'.at[w] = None
              /\ row'.at[w] \in Nat /\ given'[w] = day
    PROVE  WinInv(w)'
<1> USE DEF mail, Sending, Due, Past, FirstEvening, WinInv
<1>t. /\ day \in Nat /\ Evenings \in Nat /\ None \notin Nat
      /\ row.at[w] \in Nat \cup {None} /\ given[w] \in Nat \cup {None}
      /\ mailed[w] \in Nat /\ unrecorded[w] \in Nat /\ lost[w] \in Nat
  BY MailTypes
<1>1. CASE /\ row'.at[w] = row.at[w] /\ given'[w] = given[w]
           /\ stale'.at[w] = stale.at[w] \/ stale'.at[w] = row.at[w]
  <2>1. Dates(w)' /\ InRun(w)'
    BY <1>1 DEF Dates, InRun
  <2>2. Once(w)' /\ Missed(w)'
    BY <1>1 DEF Once, Missed
  <2>3. QED
    BY <2>1, <2>2
<1>2. CASE /\ row.at[w] = None /\ stale'.at[w] = None
           /\ row'.at[w] \in Nat /\ given'[w] = day
  <2>1. mailed[w] = 0 /\ w \notin record /\ row'.at[w] # None
    BY <1>t, <1>2 DEF InRun, Missed
  <2>2. Dates(w)'
    BY <1>t, <1>2, <2>1 DEF Dates
  <2>3. InRun(w)'
    BY <1>t, <1>2, <2>1 DEF InRun
  <2>4. Once(w)'
    BY <1>t, <1>2, <2>1 DEF Once
  <2>5. Missed(w)'
    BY <1>t, <1>2, <2>1 DEF Missed
  <2>6. QED
    BY <2>2, <2>3, <2>4, <2>5
<1>3. QED
  BY <1>1, <1>2

LEMMA UpdateMail ==
    ASSUME IInv, MailInv, NEW id \in Writers, Update(id)
    PROVE  MailInv'
<1>1. IInv' /\ UNCHANGED day /\ UNCHANGED mail
  BY UpdateFacts DEF Update, Write, NothingToWrite, Conflict, AnswerLost, ReadAgain
<1>2. RunInv'
  BY <1>1 DEF mail, MailInv, RunInv
<1>3. ASSUME NEW w \in Win PROVE WinInv(w)'
  <2>1. CASE Write(id) \/ AnswerLost(id)
    <3>1. Save(id) /\ row = writer[id].seen /\ writer[id].at = "write"
      BY <2>1 DEF Write, AnswerLost
    <3>2. /\ row' = Change(id) /\ stale' = row
          /\ given'[w] = IF Change(id).at[w] # row.at[w] THEN day ELSE given[w]
      BY <3>1 DEF Save
    <3>3. writer[id].time \in Nat /\ None \notin Nat
      BY MailTypes
    <3>4. Change(id).at[w] = row.at[w] \/ (row.at[w] = None /\ Change(id).at[w] = writer[id].time)
      BY <3>1, ChangeDates DEF Dated
    <3>5. QED
      BY <1>1, <3>2, <3>3, <3>4, WriterMail DEF MailInv
  <2>2. CASE NothingToWrite(id) \/ Conflict(id) \/ ReadAgain(id)
    <3>1. UNCHANGED <<row, stale, given>>
      BY <2>2 DEF NothingToWrite, Conflict, ReadAgain
    <3>2. QED
      BY <1>1, <3>1, WriterMail DEF MailInv
  <2>3. QED
    BY <2>1, <2>2 DEF Update
<1>4. QED
  BY <1>2, <1>3 DEF MailInv

LEMMA BeginsMail ==
    ASSUME IInv, MailInv, Begins
    PROVE  MailInv'
<1>1. UNCHANGED <<row, stale, given, day>> /\ UNCHANGED mail
  BY DEF Begins, BeginEvent, BeginNight, Begin
<1>2. RunInv'
  BY <1>1 DEF mail, MailInv, RunInv
<1>3. \A v \in Win : WinInv(v)'
  BY <1>1, BeginsFacts, WriterMail DEF MailInv
<1>4. QED
  BY <1>2, <1>3 DEF MailInv

LEMMA StartMail ==
    ASSUME IInv, MailInv, StartCongrats
    PROVE  RunInv' /\ \A w \in Win : WinInv(w)'
<1> USE MailTypes DEF Sending, Due, Past, FirstEvening, WinInv
<1>1. /\ congrats'.at = "list" /\ congrats'.from = day - (Evenings - 1) /\ congrats'.to = day
      /\ day' = day + 1 /\ stale' = row /\ congrats.at \in {"idle", "done"}
      /\ UNCHANGED <<row, given, record, mailed, unrecorded, lost>>
  BY DEF StartCongrats, EndOfDay, NoRun
<1>2. RunInv'
  BY <1>1 DEF RunInv
<1>3. ASSUME NEW w \in Win PROVE WinInv(w)'
  <2>i. WinInv(w)
    BY DEF MailInv
  <2>1. Dates(w)'
    BY <1>1, <2>i DEF Dates
  <2>2. InRun(w)'
    BY <1>1, <2>i DEF InRun, Dates
  <2>3. Once(w)'
    BY <1>1, <2>i DEF Once, InRun
  <2>4. Missed(w)'
    BY <1>1, <2>i DEF Missed
  <2>5. QED
    BY <2>1, <2>2, <2>3, <2>4
<1>4. QED
  BY <1>2, <1>3

LEMMA MissMail ==
    ASSUME IInv, MailInv, MissCongrats
    PROVE  RunInv' /\ \A w \in Win : WinInv(w)'
<1> USE MailTypes DEF Sending, Due, Past, FirstEvening, WinInv
<1>1. /\ congrats'.at = "idle" /\ day' = day + 1 /\ stale' = row /\ congrats.at \in {"idle", "done"}
      /\ UNCHANGED <<row, given, record, mailed, unrecorded>> /\ Lose(day)
  BY DEF MissCongrats, EndOfDay, NoRun
<1>2. RunInv'
  BY <1>1 DEF RunInv
<1>3. ASSUME NEW w \in Win PROVE WinInv(w)'
  <2>i. WinInv(w)
    BY DEF MailInv
  <2>l. lost'[w] = IF row.at[w] # None /\ FirstEvening(w) <= day THEN lost[w] + 1 ELSE lost[w]
    BY <1>1 DEF Lose
  <2>1. Dates(w)'
    BY <1>1, <2>i DEF Dates
  <2>2. InRun(w)'
    BY <1>1, <2>i DEF InRun
  <2>3. Once(w)'
    BY <1>1, <2>i DEF Once, InRun
  <2>4. Missed(w)'
    BY <1>1, <2>i, <2>l DEF Missed, Dates
  <2>5. QED
    BY <2>1, <2>2, <2>3, <2>4
<1>4. QED
  BY <1>2, <1>3

LEMMA ListMail ==
    ASSUME IInv, MailInv, List
    PROVE  RunInv' /\ \A w \in Win : WinInv(w)'
<1> USE MailTypes DEF Sending, Due, Past, FirstEvening, WinInv
<1>1. PICK s \in {row, stale} :
          congrats' = [congrats EXCEPT !.at = "record", !.wins =
              {w \in Win : s.at[w] # None /\ s.at[w] >= congrats.from /\ s.at[w] <= congrats.to}]
  BY DEF List
<1>2. /\ congrats'.at = "record" /\ congrats'.from = congrats.from /\ congrats'.to = congrats.to
      /\ congrats'.new = congrats.new
      /\ congrats'.wins = {w \in Win : s.at[w] # None /\ s.at[w] >= congrats.from /\ s.at[w] <= congrats.to}
  BY <1>1 DEF IInv, TypeOK, Run
<1>3. congrats.at = "list" /\ UNCHANGED <<day, row, stale, given, record, mailed, unrecorded, lost>>
  BY DEF List, store
<1>4. RunInv'
  BY <1>2, <1>3 DEF MailInv, RunInv
<1>5. ASSUME NEW w \in Win PROVE WinInv(w)'
  <2>i. WinInv(w) /\ RunInv
    BY DEF MailInv
  <2>w. w \in congrats'.wins <=> s.at[w] # None /\ s.at[w] >= congrats.from /\ s.at[w] <= congrats.to
    BY <1>2
  <2>s. s.at[w] = row.at[w] \/ s.at[w] = stale.at[w]
    OBVIOUS
  <2>1. Dates(w)'
    BY <1>2, <1>3, <2>i DEF Dates
  <2>2. InRun(w)'
    <3>1. mailed[w] > 0 => row.at[w] # None /\ row.at[w] <= day /\ row.at[w] <= congrats.to
      BY <1>3, <2>i DEF InRun
    <3>2. Due(w) => s.at[w] = row.at[w]
      BY <1>3, <2>i, <2>s DEF Dates
    <3>3. s.at[w] # None => s.at[w] = row.at[w]
      BY <2>i, <2>s DEF Dates
    <3>4. Due(w)' <=> Due(w)
      BY <1>3
    <3>5. Due(w) => w \in congrats'.wins \/ row.at[w] < congrats.from \/ row.at[w] > congrats.to
      BY <2>w, <3>2
    <3>6. QED
      BY <1>2, <1>3, <2>w, <3>1, <3>3, <3>4, <3>5 DEF InRun
  <2>3. Once(w)'
    BY <1>2, <1>3, <2>i DEF Once
  <2>4. Missed(w)'
    BY <1>2, <1>3, <2>i DEF Missed
  <2>5. QED
    BY <2>1, <2>2, <2>3, <2>4
<1>6. QED
  BY <1>4, <1>5

LEMMA ReadRecordMail ==
    ASSUME IInv, MailInv, ReadRecord
    PROVE  RunInv' /\ \A w \in Win : WinInv(w)'
<1> USE MailTypes DEF Sending, Due, Past, FirstEvening, WinInv
<1>1. /\ congrats'.at = IF congrats.wins \subseteq record THEN "done" ELSE "send"
      /\ congrats'.from = congrats.from /\ congrats'.to = congrats.to
      /\ congrats'.wins = congrats.wins /\ congrats'.new = congrats.wins \ record
  BY DEF ReadRecord, IInv, TypeOK, Run
<1>2. congrats.at = "record" /\ UNCHANGED <<day, row, stale, given, record, mailed, unrecorded, lost>>
  BY DEF ReadRecord, store
<1>3. RunInv'
  BY <1>1, <1>2 DEF MailInv, RunInv
<1>4. ASSUME NEW w \in Win PROVE WinInv(w)'
  <2>i. WinInv(w) /\ RunInv
    BY DEF MailInv
  <2>1. Dates(w)'
    BY <1>1, <1>2, <2>i DEF Dates
  <2>2. InRun(w)'
    BY <1>1, <1>2, <2>i DEF InRun
  <2>3. Once(w)'
    <3>1. w \in congrats.wins => row.at[w] # None /\ row.at[w] >= day - Evenings
      BY <1>2, <2>i DEF InRun, RunInv
    <3>2. w \in congrats.wins \ record => mailed[w] <= unrecorded[w]
      BY <1>2, <2>i, <3>1 DEF Once
    <3>3. QED
      BY <1>1, <1>2, <2>i, <3>2 DEF Once
  <2>4. Missed(w)'
    <3>1. CASE congrats.wins \subseteq record
      <4> SUFFICES ASSUME row.at[w] # None, mailed[w] = 0
                   PROVE  lost[w] >= day - FirstEvening(w) \/ lost[w] >= row.at[w] + Evenings - FirstEvening(w)
        BY <1>1, <1>2, <2>i, <3>1 DEF Missed
      <4>1. w \notin congrats.wins
        BY <2>i, <3>1 DEF Missed
      <4>2. given[w] \in Nat /\ (given[w] < day => row.at[w] < day - Evenings \/ row.at[w] >= day)
        BY <1>2, <2>i, <4>1 DEF InRun, Dates, RunInv
      <4>3. CASE given[w] < day /\ row.at[w] < day - Evenings
        BY <1>2, <2>i, <4>2, <4>3 DEF Missed
      <4>4. CASE given[w] >= day \/ row.at[w] >= day
        BY <4>2, <4>4
      <4>5. QED
        BY <4>2, <4>3, <4>4
    <3>2. CASE ~(congrats.wins \subseteq record)
      BY <1>1, <1>2, <2>i, <3>2 DEF Missed
    <3>3. QED
      BY <3>1, <3>2
  <2>5. QED
    BY <2>1, <2>2, <2>3, <2>4
<1>5. QED
  BY <1>3, <1>4

LEMMA MailMail ==
    ASSUME IInv, MailInv, Mail
    PROVE  RunInv' /\ \A w \in Win : WinInv(w)'
<1> USE MailTypes DEF Sending, Due, Past, FirstEvening, WinInv
<1>1. /\ congrats'.at = "put" /\ congrats'.from = congrats.from /\ congrats'.to = congrats.to
      /\ congrats'.wins = congrats.wins /\ congrats'.new = congrats.new
  BY DEF Mail, IInv, TypeOK, Run
<1>2. congrats.at = "send" /\ UNCHANGED <<day, row, stale, given, record, unrecorded, lost>>
  BY DEF Mail, store
<1>3. RunInv'
  BY <1>1, <1>2 DEF MailInv, RunInv
<1>4. ASSUME NEW w \in Win PROVE WinInv(w)'
  <2>i. WinInv(w) /\ RunInv
    BY DEF MailInv
  <2>m. mailed'[w] = IF w \in congrats.new THEN mailed[w] + 1 ELSE mailed[w]
    BY DEF Mail, Plus
  <2>n. w \in congrats.new => w \in congrats.wins /\ row.at[w] # None /\ row.at[w] <= congrats.to /\ row.at[w] <= day
    BY <1>2, <2>i DEF RunInv, InRun
  <2>1. Dates(w)'
    BY <1>1, <1>2, <2>i DEF Dates
  <2>2. InRun(w)'
    BY <1>1, <1>2, <2>i, <2>m, <2>n DEF InRun
  <2>3. Once(w)'
    BY <1>1, <1>2, <2>i, <2>m DEF Once
  <2>4. Missed(w)'
    BY <1>1, <1>2, <2>i, <2>m DEF Missed
  <2>5. QED
    BY <2>1, <2>2, <2>3, <2>4
<1>5. QED
  BY <1>3, <1>4

\* A run that ends has mailed everything it looked for; the record may be lost.
LEMMA EndMail ==
    ASSUME IInv, MailInv, PutRecord \/ PutFails
    PROVE  RunInv' /\ \A w \in Win : WinInv(w)'
<1> USE MailTypes DEF Sending, Due, Past, FirstEvening, WinInv
<1>1. /\ congrats'.at = "done" /\ congrats'.from = congrats.from /\ congrats'.to = congrats.to
      /\ congrats'.wins = congrats.wins /\ congrats'.new = congrats.new
  BY DEF PutRecord, PutFails, IInv, TypeOK, Run
<1>2. congrats.at = "put" /\ UNCHANGED <<day, row, stale, given, mailed, lost>>
  BY DEF PutRecord, PutFails, store
<1>3. RunInv'
  BY <1>1, <1>2 DEF MailInv, RunInv
<1>4. ASSUME NEW w \in Win PROVE WinInv(w)'
  <2>i. WinInv(w) /\ RunInv
    BY DEF MailInv
  <2>r. \/ unrecorded'[w] = unrecorded[w] /\ record' = congrats.wins
        \/ /\ unrecorded'[w] = IF w \in congrats.new THEN unrecorded[w] + 1 ELSE unrecorded[w]
           /\ record' = record
    BY DEF PutRecord, PutFails, Plus
  <2>w. w \in congrats.wins => mailed[w] > 0
    BY <1>2, <2>i DEF RunInv, Missed
  <2>1. Dates(w)'
    BY <1>1, <1>2, <2>i DEF Dates
  <2>2. InRun(w)'
    BY <1>1, <1>2, <2>i DEF InRun
  <2>3. Once(w)'
    <3>1. mailed[w] > unrecorded[w] => w \in congrats.wins \/ row.at[w] < day - Evenings
      BY <1>2, <2>i DEF InRun, RunInv
    <3>2. QED
      BY <1>1, <1>2, <2>i, <2>r, <3>1 DEF Once
  <2>4. Missed(w)'
    <3>1. w \in record' => mailed'[w] > 0
      BY <1>2, <2>i, <2>r, <2>w DEF Missed
    <3>2. ASSUME row.at[w] # None, mailed[w] = 0
          PROVE  lost[w] >= day - FirstEvening(w) \/ lost[w] >= row.at[w] + Evenings - FirstEvening(w)
      <4>1. w \notin congrats.wins
        BY <2>w, <3>2
      <4>2. given[w] \in Nat /\ (given[w] < day => row.at[w] < day - Evenings \/ row.at[w] >= day)
        BY <1>2, <2>i, <3>2, <4>1 DEF InRun, Dates, RunInv
      <4>3. CASE given[w] < day /\ row.at[w] < day - Evenings
        BY <1>2, <2>i, <3>2, <4>2, <4>3 DEF Missed
      <4>4. CASE given[w] >= day \/ row.at[w] >= day
        BY <3>2, <4>2, <4>4
      <4>5. QED
        BY <4>2, <4>3, <4>4
    <3>3. QED
      BY <1>1, <1>2, <3>1, <3>2 DEF Missed
  <2>5. QED
    BY <2>1, <2>2, <2>3, <2>4
<1>5. QED
  BY <1>3, <1>4

LEMMA FailsMail ==
    ASSUME IInv, MailInv, CongratsFails
    PROVE  RunInv' /\ \A w \in Win : WinInv(w)'
<1> USE MailTypes DEF Sending, Due, Past, FirstEvening, WinInv
<1>1. congrats'.at = "idle"
  BY DEF CongratsFails, NoRun
<1>2. /\ congrats.at \in {"list", "record", "send"} /\ Lose(day - 1)
      /\ UNCHANGED <<day, row, stale, given, record, mailed, unrecorded>>
  BY DEF CongratsFails, store, Lose
<1>3. RunInv'
  BY <1>1 DEF RunInv
<1>4. ASSUME NEW w \in Win PROVE WinInv(w)'
  <2>i. WinInv(w)
    BY DEF MailInv
  <2>l. lost'[w] = IF row.at[w] # None /\ FirstEvening(w) <= day - 1 THEN lost[w] + 1 ELSE lost[w]
    BY <1>2 DEF Lose
  <2>1. Dates(w)'
    BY <1>1, <1>2, <2>i DEF Dates
  <2>2. InRun(w)'
    BY <1>1, <1>2, <2>i DEF InRun
  <2>3. Once(w)'
    BY <1>1, <1>2, <2>i DEF Once
  <2>4. Missed(w)'
    BY <1>1, <1>2, <2>i, <2>l DEF Missed, Dates
  <2>5. QED
    BY <2>1, <2>2, <2>3, <2>4
<1>5. QED
  BY <1>3, <1>4

LEMMA AgainMail ==
    ASSUME IInv, MailInv, RunAgain
    PROVE  RunInv' /\ \A w \in Win : WinInv(w)'
<1> USE MailTypes DEF Sending, Due, Past, FirstEvening, WinInv
<1>1. congrats'.at = "list" /\ congrats'.from = congrats.from /\ congrats'.to = day
  BY DEF RunAgain, NoRun
<1>2. /\ congrats.at \notin {"idle", "put"} /\ stale' = row
      /\ UNCHANGED <<day, row, given, record, mailed, unrecorded, lost>>
  BY DEF RunAgain
<1>3. RunInv'
  BY <1>1, <1>2 DEF MailInv, RunInv
<1>4. ASSUME NEW w \in Win PROVE WinInv(w)'
  <2>i. WinInv(w)
    BY DEF MailInv
  <2>1. Dates(w)'
    BY <1>1, <1>2, <2>i DEF Dates
  <2>2. InRun(w)'
    BY <1>1, <1>2, <2>i DEF InRun, Dates
  <2>3. Once(w)'
    BY <1>1, <1>2, <2>i DEF Once
  <2>4. Missed(w)'
    BY <1>1, <1>2, <2>i DEF Missed, Dates
  <2>5. QED
    BY <2>1, <2>2, <2>3, <2>4
<1>5. QED
  BY <1>3, <1>4

LEMMA NextMail == IInv /\ MailInv /\ [Next]_vars => MailInv'
<1> SUFFICES ASSUME IInv, MailInv, [Next]_vars PROVE MailInv'
  OBVIOUS
<1>1. CASE UNCHANGED vars
  <2>1. RunInv'
    BY <1>1 DEF vars, MailInv, RunInv
  <2>2. ASSUME NEW w \in Win PROVE WinInv(w)'
    BY <1>1, Step, WriterMail DEF vars, mail, MailInv
  <2>3. QED
    BY <2>1, <2>2 DEF MailInv
<1>2. CASE Begins
  BY <1>2, BeginsMail
<1>3. CASE \E id \in Writers : Update(id)
  BY <1>3, UpdateMail
<1>4. CASE Congrats
  <2>1. RunInv' /\ \A w \in Win : WinInv(w)'
    BY <1>4, StartMail, MissMail, ListMail, ReadRecordMail, MailMail, EndMail, FailsMail, AgainMail
       DEF Congrats
  <2>2. QED
    BY <2>1 DEF MailInv
<1>5. QED
  BY <1>1, <1>2, <1>3, <1>4, StepCases

LEMMA InitMail == Init => MailInv
<1> SUFFICES ASSUME Init PROVE MailInv
  OBVIOUS
<1>1. RunInv
  BY DEF Init, NoRun, RunInv
<1>2. ASSUME NEW w \in Win PROVE WinInv(w)
  BY <1>1 DEF Init, Fresh, NoRun, WinInv, Dates, InRun, Once, Missed, Sending
<1>3. QED
  BY <1>1, <1>2 DEF MailInv

\* Whatever overlaps an evening's run, lags behind it or runs it again, and whatever day a period
\* is dated, a win is mailed at most once more often than its record was lost, and one that is too
\* old to be mailed has been mailed, or every evening that could have seen it has failed - of which
\* there is none when it is already too old as it is saved (badge_congrats: the window of
\* LOOKBACK_SECS, and the record that replaces the last one).
THEOREM MailSafe == Spec => []EachWinIsMailed
<1>1. IInv /\ MailInv => EachWinIsMailed
  <2> SUFFICES ASSUME IInv, MailInv, NEW w \in Win
               PROVE  /\ mailed[w] <= 1 + unrecorded[w]
                      /\ TooOld(w) => mailed[w] > 0 \/ lost[w] >= row.at[w] + Evenings - FirstEvening(w)
    BY DEF EachWinIsMailed
  <2>1. WinInv(w)
    BY DEF MailInv
  <2>2. QED
    BY <2>1, MailTypes DEF WinInv, Dates, Once, Missed, Past, TooOld, FirstEvening
<1>2. QED
  BY <1>1, InitInv, InitMail, Step, NextMail, PTL DEF Spec
=============================================================================
