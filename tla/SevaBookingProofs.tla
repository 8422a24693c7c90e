------------------------- MODULE SevaBookingProofs -------------------------
(***************************************************************************)
(* Theorems about SevaBooking, for every set of requests, sevas, dates and *)
(* caps and every MaxAttempts, PadLimit and Radix.                         *)
(***************************************************************************)
EXTENDS SevaBooking, FiniteSetTheorems, TLAPS

\* Every step of a handler and every staff operation keeps the types.
LEMMA TypeStep ==
    ASSUME TypeOK, [Next]_vars
    PROVE  TypeOK'
<1> USE BookingAssumption DEF BookingAssumption, TypeOK, Working, Answered, Unlimited, request, Goto, Unlock
<1>1. ASSUME NEW r \in Requests, Begin(r) PROVE TypeOK'
  <2> PICK j \in Asks[r] : Begin(r)!(j)
    BY <1>1 DEF Begin
  <2>1. j \in Jobs /\ j.seva \in Sevas
    BY DEF Jobs
  <2>2. pc' \in [Requests -> {"idle"} \union Working \union Answered]
    OBVIOUS
  <2>3. cap' \in [Requests -> Caps \union {Unlimited}]
    BY <2>1
  <2> QED BY <2>1, <2>2, <2>3
<1>2. ASSUME NEW r \in Requests, Step(r) PROVE TypeOK'
  <2>1. CASE CheckDuplicate(r) BY <2>1 DEF CheckDuplicate
  <2>2. CASE SkipCount(r) BY <2>2 DEF SkipCount
  <2>3. CASE LockSeva(r) BY <2>3 DEF LockSeva
  <2>4. CASE CountSlots(r) BY <2>4 DEF CountSlots
  <2>5. CASE GenerateNumber(r)
    <3>1. NextNumbers \subseteq Nat
      <4>1. \A t \in tickets : t.num \in Nat
        BY DEF Ticket
      <4>2. Numbers \subseteq Nat
        <5> SUFFICES ASSUME NEW n \in Numbers, n \notin OldNumbers PROVE n \in Nat
          OBVIOUS
        <5>1. PICK t \in tickets : n = t.num
          BY DEF Numbers
        <5> QED BY <4>1, <5>1
      <4> QED BY <4>2 DEF NextNumbers
    <3> QED BY <2>5, <3>1 DEF GenerateNumber
  <2>6. CASE InsertTicket(r) BY <2>6 DEF InsertTicket
  <2>7. CASE NumberTaken(r) BY <2>7 DEF NumberTaken
  <2>8. CASE CommitTicket(r)
    <3>1. job[r] \in Jobs
      BY <2>8 DEF CommitTicket
    <3>2. tickets' \subseteq Ticket
      BY <2>8, <3>1 DEF CommitTicket, Ticket, Jobs
    <3>3. IsFiniteSet(tickets')
      BY <2>8, FS_AddElement DEF CommitTicket
    <3> QED BY <2>8, <3>2, <3>3 DEF CommitTicket
  <2>9. CASE ReloadSeva(r)
    <3>1. job[r] \in Jobs
      BY <2>9 DEF ReloadSeva
    <3> QED BY <2>9, <3>1 DEF ReloadSeva, Jobs
  <2>10. CASE DeadlockVictim(r)
    <3>1. pc[r] # "idle"
      BY <2>10 DEF DeadlockVictim, WaitsFor, WaitsForNumber, WaitsForRow
    <3> QED BY <2>10, <3>1 DEF DeadlockVictim
  <2> QED BY <1>2, <2>1, <2>2, <2>3, <2>4, <2>5, <2>6, <2>7, <2>8, <2>9, <2>10 DEF Step
<1>3. ASSUME NEW r \in Requests, Die(r) PROVE TypeOK'
  BY <1>3 DEF Die
<1>4. ASSUME NEW s \in Sevas, EditSeva(s) PROVE TypeOK'
  BY <1>4 DEF EditSeva, Looser
<1>5. ASSUME NEW s \in Sevas, RetireSeva(s) PROVE TypeOK'
  BY <1>5 DEF RetireSeva
<1>6. CASE DeleteTicket
  BY <1>6, FS_Subset DEF DeleteTicket
<1>7. CASE UNCHANGED vars
  BY <1>7 DEF vars
<1> QED BY <1>1, <1>2, <1>3, <1>4, <1>5, <1>6, <1>7 DEF Next

\* Type correctness of the booking handlers and the staff operations.
THEOREM TypeCorrect == Spec => []TypeOK
<1>1. Init => TypeOK
  BY BookingAssumption, FS_EmptySet DEF BookingAssumption, Init, TypeOK, Unlimited
<1> QED BY <1>1, TypeStep, PTL DEF Spec

-----------------------------------------------------------------------------
(* What the steps do to the tickets of a slot *)

\* count_booked returns a number: a slot has finitely many tickets.
LEMMA SlotFinite ==
    ASSUME TypeOK, NEW s, NEW d
    PROVE  IsFiniteSet(SlotTickets(s, d)) /\ Booked(s, d) \in Nat
<1>1. SlotTickets(s, d) \subseteq tickets
  BY DEF SlotTickets
<1>2. IsFiniteSet(SlotTickets(s, d))
  BY <1>1, FS_Subset DEF TypeOK
<1> QED BY <1>2, FS_CardinalityType DEF Booked

\* A step that leaves the tickets alone leaves every slot alone.
LEMMA SlotUnchanged ==
    ASSUME tickets' = tickets, NEW s, NEW d
    PROVE  SlotTickets(s, d)' = SlotTickets(s, d) /\ Booked(s, d)' = Booked(s, d)
BY DEF SlotTickets, Booked

\* The looser of two limits is looser than both.
LEMMA LooserOf ==
    ASSUME NEW a \in Nat, NEW b \in Nat
    PROVE  /\ Looser(a, b) \in Nat
           /\ Looser(a, b) # 0 => a # 0 /\ b # 0 /\ a <= Looser(a, b) /\ b <= Looser(a, b)
BY DEF Looser, Unlimited

\* A commit adds at most one ticket, and only to the slot it was asked for.
LEMMA SlotCommit ==
    ASSUME TypeOK, NEW r \in Requests, CommitTicket(r), NEW s, NEW d
    PROVE  /\ Booked(s, d)' \in Nat /\ Booked(s, d)' <= Booked(s, d) + 1
           /\ s # job[r].seva \/ d # job[r].date => Booked(s, d)' = Booked(s, d)
<1> DEFINE t == [num |-> num[r], seva |-> job[r].seva, date |-> job[r].date,
                 mobile |-> job[r].mobile, by |-> r]
<1>1. tickets' = tickets \union {t} /\ t.seva = job[r].seva /\ t.date = job[r].date
  BY DEF CommitTicket
<1> HIDE DEF t
<1>2. IsFiniteSet(SlotTickets(s, d)) /\ Booked(s, d) \in Nat
  BY SlotFinite
<1>3. CASE t.seva = s /\ t.date = d
  <2>1. SlotTickets(s, d)' = SlotTickets(s, d) \union {t}
    BY <1>1, <1>3 DEF SlotTickets
  <2>2. Cardinality(SlotTickets(s, d)') \in {Booked(s, d), Booked(s, d) + 1}
    BY <1>2, <2>1, FS_AddElement DEF Booked
  <2> QED BY <1>1, <1>2, <1>3, <2>2 DEF Booked
<1>4. CASE ~(t.seva = s /\ t.date = d)
  <2>1. SlotTickets(s, d)' = SlotTickets(s, d)
    BY <1>1, <1>4 DEF SlotTickets
  <2> QED BY <1>2, <2>1 DEF Booked
<1> QED BY <1>3, <1>4

\* A deletion never adds to a slot.
LEMMA SlotDelete ==
    ASSUME TypeOK, DeleteTicket, NEW s, NEW d
    PROVE  Booked(s, d)' \in Nat /\ Booked(s, d)' <= Booked(s, d)
<1>1. SlotTickets(s, d)' \subseteq SlotTickets(s, d)
  BY DEF DeleteTicket, SlotTickets
<1>2. IsFiniteSet(SlotTickets(s, d))
  BY SlotFinite
<1> QED BY <1>1, <1>2, FS_Subset, FS_CardinalityType DEF Booked

\* Every step but a commit and a deletion leaves the tickets alone.
LEMMA TicketsUnchanged ==
    ASSUME [Next]_vars, ~DeleteTicket, \A r \in Requests : ~CommitTicket(r)
    PROVE  tickets' = tickets
BY DEF Next, Step, vars, Begin, CheckDuplicate, SkipCount, LockSeva, CountSlots, GenerateNumber,
       InsertTicket, NumberTaken, ReloadSeva, DeadlockVictim, Die, EditSeva, RetireSeva

-----------------------------------------------------------------------------
(* The inductive invariant *)

\* No step leaves a lock behind or works under a cap without its lock.
LEMMA LockStep ==
    ASSUME TypeOK, LockDiscipline, [Next]_vars
    PROVE  LockDiscipline'
<1> USE BookingAssumption
    DEF BookingAssumption, TypeOK, LockDiscipline, Working, Answered, Unlimited, Goto, Unlock
<1>1. ASSUME NEW r \in Requests, Begin(r) PROVE LockDiscipline'
  BY <1>1 DEF Begin
<1>2. ASSUME NEW r \in Requests, Step(r) PROVE LockDiscipline'
  <2>1. CASE CheckDuplicate(r) BY <2>1 DEF CheckDuplicate
  <2>2. CASE SkipCount(r) BY <2>2 DEF SkipCount
  <2>3. CASE LockSeva(r)
    <3>1. job[r] \in Jobs /\ job[r].seva \in Sevas
      BY <2>3 DEF LockSeva, Jobs
    <3> QED BY <2>3, <3>1 DEF LockSeva
  <2>4. CASE CountSlots(r) BY <2>4 DEF CountSlots
  <2>5. CASE GenerateNumber(r) BY <2>5 DEF GenerateNumber
  <2>6. CASE InsertTicket(r) BY <2>6 DEF InsertTicket
  <2>7. CASE NumberTaken(r) BY <2>7 DEF NumberTaken
  <2>8. CASE CommitTicket(r) BY <2>8 DEF CommitTicket
  <2>9. CASE ReloadSeva(r) BY <2>9 DEF ReloadSeva
  <2>10. CASE DeadlockVictim(r) BY <2>10 DEF DeadlockVictim
  <2> QED BY <1>2, <2>1, <2>2, <2>3, <2>4, <2>5, <2>6, <2>7, <2>8, <2>9, <2>10 DEF Step
<1>3. ASSUME NEW r \in Requests, Die(r) PROVE LockDiscipline'
  BY <1>3 DEF Die
<1>4. ASSUME NEW s \in Sevas, EditSeva(s) PROVE LockDiscipline'
  BY <1>4 DEF EditSeva, request
<1>5. ASSUME NEW s \in Sevas, RetireSeva(s) PROVE LockDiscipline'
  BY <1>5 DEF RetireSeva, request
<1>6. CASE DeleteTicket
  BY <1>6 DEF DeleteTicket, request
<1>7. CASE UNCHANGED vars
  BY <1>7 DEF vars, request
<1> QED BY <1>1, <1>2, <1>3, <1>4, <1>5, <1>6, <1>7 DEF Next

\* A request past its count keeps its cap, its slot and its lock, and has
\* either just counted or stood there before.
LEMMA PastCount ==
    ASSUME TypeOK, [Next]_vars, NEW r \in Requests,
           pc'[r] \in {"number", "insert", "commit"}, cap'[r] # Unlimited
    PROVE  /\ job'[r] = job[r] /\ cap'[r] = cap[r]
           /\ pc[r] \in {"number", "insert", "commit"} \/ CountSlots(r)
<1> USE DEF TypeOK, Working, Answered, Goto
<1>1. ASSUME NEW q \in Requests, Begin(q) PROVE r # q /\ UNCHANGED <<pc[r], job[r], cap[r]>>
  BY <1>1 DEF Begin
<1>2. ASSUME NEW q \in Requests, Step(q)
      PROVE  \/ r # q /\ UNCHANGED <<pc[r], job[r], cap[r]>>
             \/ /\ r = q /\ UNCHANGED <<job[r], cap[r]>>
                /\ pc[r] \in {"number", "insert", "commit"} \/ CountSlots(r)
  <2> USE <1>2 DEF Step
  <2>1. CASE CheckDuplicate(q) BY <2>1 DEF CheckDuplicate
  <2>2. CASE SkipCount(q) BY <2>2 DEF SkipCount
  <2>3. CASE LockSeva(q) BY <2>3 DEF LockSeva
  <2>4. CASE CountSlots(q) BY <2>4 DEF CountSlots
  <2>5. CASE GenerateNumber(q) BY <2>5 DEF GenerateNumber
  <2>6. CASE InsertTicket(q) BY <2>6 DEF InsertTicket
  <2>7. CASE NumberTaken(q) BY <2>7 DEF NumberTaken
  <2>8. CASE CommitTicket(q) BY <2>8 DEF CommitTicket
  <2>9. CASE ReloadSeva(q) BY <2>9 DEF ReloadSeva
  <2>10. CASE DeadlockVictim(q) BY <2>10 DEF DeadlockVictim
  <2> QED BY <2>1, <2>2, <2>3, <2>4, <2>5, <2>6, <2>7, <2>8, <2>9, <2>10
<1>3. ASSUME NEW q \in Requests, Die(q) PROVE r # q /\ UNCHANGED <<pc[r], job[r], cap[r]>>
  BY <1>3 DEF Die
<1>4. CASE UNCHANGED request
  BY <1>4 DEF request
<1> QED BY <1>1, <1>2, <1>3, <1>4 DEF Next, vars, EditSeva, RetireSeva, DeleteTicket

\* What a request counted stays true until its ticket is in.
LEMMA CountStep ==
    ASSUME TypeOK, LockDiscipline, CountStillHolds, [Next]_vars
    PROVE  CountStillHolds'
<1> SUFFICES ASSUME NEW r \in Requests,
                    pc'[r] \in {"number", "insert", "commit"}, cap'[r] # Unlimited,
                    NEW s, NEW d, s = job'[r].seva, d = job'[r].date
             PROVE  Booked(s, d)' < cap'[r]
  BY DEF CountStillHolds, Booked, SlotTickets
<1> s = job[r].seva /\ d = job[r].date /\ cap'[r] = cap[r]
  BY PastCount
<1>1. job[r] \in Jobs /\ s \in Sevas /\ cap[r] \in Nat /\ cap[r] # Unlimited
  BY PastCount, BookingAssumption
     DEF TypeOK, Jobs, BookingAssumption, Unlimited, CountSlots
<1>2. lock[s] = r
  BY <1>1, PastCount DEF LockDiscipline, CountSlots
<1>3. Booked(s, d) \in Nat
  BY SlotFinite
<1>4. Booked(s, d) < cap[r]
  <2>1. CASE CountSlots(r)
    BY <2>1, <1>1, <1>3 DEF CountSlots, Goto, TypeOK
  <2>2. CASE pc[r] \in {"number", "insert", "commit"}
    BY <2>2, <1>1 DEF CountStillHolds
  <2> QED BY <2>1, <2>2, PastCount
<1>5. CASE DeleteTicket
  BY <1>1, <1>3, <1>4, <1>5, SlotDelete
<1>6. ASSUME NEW q \in Requests, CommitTicket(q)
      PROVE  Booked(s, d)' < cap[r]
  <2>1. q # r
    BY <1>6 DEF CommitTicket, Goto, TypeOK
  <2>2. s # job[q].seva
    BY <1>2, <1>6, <2>1, BookingAssumption DEF CommitTicket, BookingAssumption
  <2> QED BY <1>4, <1>6, <2>2, SlotCommit
<1>7. CASE tickets' = tickets
  BY <1>4, <1>7, SlotUnchanged
<1> QED BY <1>5, <1>6, <1>7, TicketsUnchanged

\* A ceiling is never below the caps in force or in use.
LEMMA CeilingStep ==
    ASSUME TypeOK, CapsWithinCeiling, [Next]_vars
    PROVE  CapsWithinCeiling'
<1> USE BookingAssumption
    DEF BookingAssumption, TypeOK, CapsWithinCeiling, Within, Unlimited, Working, Answered, Goto
<1>1. ASSUME NEW r \in Requests, Begin(r) PROVE CapsWithinCeiling'
  <2> PICK j \in Asks[r] : Begin(r)!(j)
    BY <1>1 DEF Begin
  <2>1. j.seva \in Sevas
    BY DEF Jobs
  <2> QED BY <2>1
<1>2. ASSUME NEW r \in Requests, Step(r) PROVE CapsWithinCeiling'
  <2>1. CASE ReloadSeva(r)
    <3>1. job[r].seva \in Sevas
      BY <2>1 DEF ReloadSeva, Jobs
    <3> QED BY <2>1, <3>1 DEF ReloadSeva
  <2>2. CASE DeadlockVictim(r)
    <3>1. pc[r] # "idle"
      BY <2>2 DEF DeadlockVictim, WaitsFor, WaitsForNumber, WaitsForRow
    <3> QED BY <2>2, <3>1 DEF DeadlockVictim
  <2>3. CASE ~ReloadSeva(r) /\ ~DeadlockVictim(r)
    BY <1>2, <2>3 DEF Step, CheckDuplicate, SkipCount, LockSeva, CountSlots, GenerateNumber,
       InsertTicket, NumberTaken, CommitTicket
  <2> QED BY <2>1, <2>2, <2>3
<1>3. ASSUME NEW r \in Requests, Die(r) PROVE CapsWithinCeiling'
  BY <1>3 DEF Die
<1>4. ASSUME NEW s \in Sevas, EditSeva(s) PROVE CapsWithinCeiling'
  <2> PICK c \in Caps, a \in BOOLEAN : EditSeva(s)!(c, a)
    BY <1>4 DEF EditSeva
  <2>1. \A z \in Sevas : slotCap'[z] = IF z = s THEN c ELSE slotCap[z]
    OBVIOUS
  <2>2. \A z \in Sevas : ceiling'[z] = IF z = s THEN Looser(ceiling[s], c) ELSE ceiling[z]
    OBVIOUS
  <2>a. c \in Nat /\ ceiling \in [Sevas -> Nat]
    OBVIOUS
  <2>3. \A z \in Sevas, n \in Nat : Within(n, z) => Within(n, z)'
    <3> TAKE z \in Sevas, n \in Nat
    <3>1. CASE z = s
      BY <3>1, <2>2, <2>a, LooserOf
    <3>2. CASE z # s
      BY <3>2, <2>2
    <3> QED BY <3>1, <3>2
  <2>4. Within(c, s)'
    BY <2>2, <2>a, LooserOf
  <2>5. \A r \in Requests : pc[r] # "idle" => job[r].seva \in Sevas /\ cap[r] \in Nat
    BY DEF Jobs
  <2> QED BY <2>1, <2>3, <2>4, <2>5 DEF request
<1>5. ASSUME NEW s \in Sevas, RetireSeva(s) PROVE CapsWithinCeiling'
  BY <1>5 DEF RetireSeva, request
<1>6. CASE DeleteTicket
  BY <1>6 DEF DeleteTicket, request
<1>7. CASE UNCHANGED vars
  BY <1>7 DEF vars, request
<1> QED BY <1>1, <1>2, <1>3, <1>4, <1>5, <1>6, <1>7 DEF Next

\* Only an edit of a seva changes a ceiling, and it only loosens it.
LEMMA CeilingLoosens ==
    ASSUME TypeOK, [Next]_vars, NEW s \in Sevas, ceiling'[s] # Unlimited
    PROVE  ceiling[s] # Unlimited /\ ceiling[s] <= ceiling'[s]
<1>1. ceiling \in [Sevas -> Nat]
  BY BookingAssumption DEF TypeOK, BookingAssumption
<1>2. ASSUME NEW z \in Sevas, EditSeva(z)
      PROVE  ceiling[s] # Unlimited /\ ceiling[s] <= ceiling'[s]
  <2> PICK c \in Caps, a \in BOOLEAN : EditSeva(z)!(c, a)
    BY <1>2 DEF EditSeva
  <2>1. c \in Nat
    BY BookingAssumption DEF BookingAssumption
  <2>2. ceiling'[s] = IF s = z THEN Looser(ceiling[s], c) ELSE ceiling[s]
    BY <1>1
  <2>3. CASE s = z
    <3>1. ceiling[s] \in Nat /\ ceiling'[s] = Looser(ceiling[s], c)
      BY <1>1, <2>2, <2>3
    <3> QED BY <2>1, <3>1, LooserOf DEF Unlimited
  <2>4. CASE s # z
    BY <1>1, <2>2, <2>4
  <2> QED BY <2>3, <2>4
<1>3. CASE ceiling' = ceiling
  BY <1>1, <1>3
<1>4. ceiling' = ceiling \/ \E z \in Sevas : EditSeva(z)
  BY DEF Next, Step, vars, Begin, CheckDuplicate, SkipCount, LockSeva, CountSlots, GenerateNumber,
     InsertTicket, NumberTaken, CommitTicket, ReloadSeva, DeadlockVictim, Die, RetireSeva,
     DeleteTicket
<1> QED BY <1>2, <1>3, <1>4

\* A commit finds room under the ceiling.
LEMMA RoomAtCommit ==
    ASSUME TypeOK, LockDiscipline, CountStillHolds, CapsWithinCeiling,
           NEW r \in Requests, CommitTicket(r),
           NEW s, NEW d, s = job[r].seva, d = job[r].date
    PROVE  s \in Sevas /\ (ceiling[s] # Unlimited => Booked(s, d) < ceiling[s])
<1>0. pc[r] = "commit" /\ job[r] \in Jobs
  BY DEF CommitTicket, TypeOK
<1>1. pc[r] = "commit" /\ s \in Sevas /\ cap[r] \in Nat /\ ceiling[s] \in Nat
  <2>1. s \in Sevas
    BY <1>0 DEF Jobs
  <2>2. cap[r] \in Caps \union {Unlimited} /\ ceiling[s] \in Caps
    BY <2>1 DEF TypeOK
  <2>3. Caps \union {Unlimited} \subseteq Nat
    BY BookingAssumption DEF BookingAssumption, Unlimited
  <2> QED BY <1>0, <2>1, <2>2, <2>3
<1>2. cap[r] # Unlimited => Booked(s, d) < cap[r]
  BY <1>1 DEF CountStillHolds
<1>3. Booked(s, d) \in Nat
  BY SlotFinite
<1> QED BY <1>1, <1>2, <1>3 DEF CapsWithinCeiling, Within, Unlimited

\* No slot is overbooked.
LEMMA RoomStep ==
    ASSUME TypeOK, LockDiscipline, CountStillHolds, CapsWithinCeiling, NoOverbooking, [Next]_vars
    PROVE  NoOverbooking'
<1> SUFFICES ASSUME NEW s \in Sevas, NEW d \in Dates, ceiling'[s] # Unlimited
             PROVE  Booked(s, d)' <= ceiling'[s]
  BY DEF NoOverbooking
<1>1. /\ ceiling[s] # Unlimited /\ ceiling[s] <= ceiling'[s]
      /\ ceiling[s] \in Nat /\ ceiling'[s] \in Nat
  BY CeilingLoosens, TypeStep, BookingAssumption DEF TypeOK, BookingAssumption
<1>2. Booked(s, d) \in Nat /\ Booked(s, d) <= ceiling[s]
  BY <1>1, SlotFinite DEF NoOverbooking
<1>3. CASE DeleteTicket
  BY <1>1, <1>2, <1>3, SlotDelete
<1>4. ASSUME NEW r \in Requests, CommitTicket(r)
      PROVE  Booked(s, d)' <= ceiling'[s]
  <2>1. ceiling' = ceiling
    BY <1>4 DEF CommitTicket
  <2>2. CASE s = job[r].seva /\ d = job[r].date
    <3>1. Booked(s, d) < ceiling[s]
      BY <1>1, <1>4, <2>2, RoomAtCommit
    <3> QED BY <1>1, <1>2, <1>4, <2>1, <3>1, SlotCommit
  <2>3. CASE ~(s = job[r].seva /\ d = job[r].date)
    BY <1>1, <1>2, <1>4, <2>1, <2>3, SlotCommit
  <2> QED BY <2>2, <2>3
<1>5. CASE tickets' = tickets
  BY <1>1, <1>2, <1>5, SlotUnchanged
<1> QED BY <1>3, <1>4, <1>5, TicketsUnchanged

\* Only a commit makes a request booked, and a booked request stays booked.
LEMMA BookedByCommit ==
    ASSUME TypeOK, [Next]_vars, \A r \in Requests : ~CommitTicket(r), NEW q \in Requests
    PROVE  pc'[q] = "booked" <=> pc[q] = "booked"
<1> USE DEF TypeOK, Working, Answered, Goto
<1>1. ASSUME NEW r \in Requests, Begin(r) PROVE pc'[q] = "booked" <=> pc[q] = "booked"
  BY <1>1 DEF Begin
<1>2. ASSUME NEW r \in Requests, Step(r) PROVE pc'[q] = "booked" <=> pc[q] = "booked"
  <2>1. CASE DeadlockVictim(r)
    <3>1. pc[r] \in {"insert", "commit"}
      BY <2>1 DEF DeadlockVictim, WaitsFor, WaitsForNumber, WaitsForRow
    <3> QED BY <2>1, <3>1 DEF DeadlockVictim
  <2>2. CASE ~DeadlockVictim(r)
    BY <1>2, <2>2 DEF Step, CheckDuplicate, SkipCount, LockSeva, CountSlots, GenerateNumber,
       InsertTicket, NumberTaken, ReloadSeva
  <2> QED BY <2>1, <2>2
<1>3. ASSUME NEW r \in Requests, Die(r) PROVE pc'[q] = "booked" <=> pc[q] = "booked"
  BY <1>3 DEF Die
<1>4. CASE pc' = pc
  BY <1>4
<1> QED BY <1>1, <1>2, <1>3, <1>4 DEF Next, vars, request, EditSeva, RetireSeva, DeleteTicket

\* A request books once.
LEMMA TicketStep ==
    ASSUME TypeOK, OneTicketEach, [Next]_vars
    PROVE  OneTicketEach'
<1>1. \A t \in tickets : t.by \in Requests
  BY DEF TypeOK, Ticket
<1>2. ASSUME NEW r \in Requests, CommitTicket(r) PROVE OneTicketEach'
  BY <1>1, <1>2 DEF CommitTicket, OneTicketEach, TypeOK, Goto
<1>3. CASE \A r \in Requests : ~CommitTicket(r)
  <2>1. tickets' \subseteq tickets
    BY <1>3, TicketsUnchanged DEF DeleteTicket
  <2> QED BY <1>1, <1>3, <2>1, BookedByCommit DEF OneTicketEach
<1> QED BY <1>2, <1>3

\* The strengthened invariant: each conjunct leans on those before it.
THEOREM Invariance == Spec => []IInv
<1>1. Init => IInv
  <2> SUFFICES ASSUME Init PROVE IInv
    OBVIOUS
  <2>1. TypeOK
    BY BookingAssumption, FS_EmptySet DEF BookingAssumption, Init, TypeOK, Unlimited
  <2>2. LockDiscipline /\ CountStillHolds /\ OneTicketEach
    BY BookingAssumption
       DEF Init, BookingAssumption, LockDiscipline, CountStillHolds, OneTicketEach
  <2>n. \A s \in Sevas : ceiling[s] \in Nat
    BY <2>1, BookingAssumption DEF TypeOK, BookingAssumption
  <2>3. CapsWithinCeiling
    BY <2>n DEF Init, CapsWithinCeiling, Within
  <2>4. NoOverbooking
    <3>1. \A s \in Sevas, d \in Dates : Booked(s, d) = 0
      BY FS_EmptySet DEF Init, Booked, SlotTickets
    <3> QED BY <2>n, <3>1 DEF NoOverbooking
  <2> QED BY <2>1, <2>2, <2>3, <2>4 DEF IInv
<1>2. IInv /\ [Next]_vars => IInv'
  BY TypeStep, LockStep, CountStep, CeilingStep, RoomStep, TicketStep DEF IInv
<1> QED BY <1>1, <1>2, PTL DEF Spec

\* The lock of a seva is held exactly while a booking under a cap needs it.
THEOREM LockHeldWhileNeeded == Spec => []LockDiscipline
BY Invariance, PTL DEF IInv

\* "two devotees can't both take the last slot"
THEOREM LastSlotTakenOnce == Spec => []CountStillHolds
BY Invariance, PTL DEF IInv

\* No date of a seva is booked beyond the loosest cap the seva has had.
THEOREM NeverOverbooked == Spec => []NoOverbooking
BY Invariance, PTL DEF IInv

-----------------------------------------------------------------------------
(* The refinement of the register *)

\* A slot is held by no more requests than it has tickets.
LEMMA HoldersBounded ==
    ASSUME TypeOK, NEW s, NEW d
    PROVE  Cardinality(Holders(s, d)) \in Nat /\ Cardinality(Holders(s, d)) <= Booked(s, d)
<1> DEFINE S == SlotTickets(s, d)
           T == Holders(s, d)
           by == [t \in S |-> t.by]
<1>1. IsFiniteSet(S)
  BY SlotFinite
<1>2. by \in Surjection(S, T)
  BY DEF Surjection, Holders, Range
<1>3. IsFiniteSet(T) /\ Cardinality(T) <= Cardinality(S)
  BY <1>1, <1>2, FS_Surjection
<1> QED BY <1>3, FS_CardinalityType DEF Booked

\* The mapped register one step later, slot by slot.
LEMMA NextSlots ==
    /\ \A slot \in Sevas \X Dates :
          /\ slot[1] \in Sevas /\ slot[2] \in Dates
          /\ \A s, d : slot = <<s, d>> <=> slot[1] = s /\ slot[2] = d
    /\ BookedSlots' = [slot \in Sevas \X Dates |-> Holders(slot[1], slot[2])']
<1>1. BookedSlots' = [slot \in Sevas \X Dates |-> Holders(slot[1], slot[2])']
  BY DEF BookedSlots
<1> QED BY <1>1

\* The register counts as the bookings do.
LEMMA SameCount == \A S : Register!Cardinality(S) = Cardinality(S)
BY DEF Register!Cardinality, Cardinality

\* A commit is a Book of the register.
LEMMA CommitBooks ==
    ASSUME IInv, NEW r \in Requests, CommitTicket(r)
    PROVE  \E s \in Sevas, d \in Dates : Register!Book(r, s, d)
<1>1. job[r] \in Jobs /\ pc[r] = "commit"
  BY DEF IInv, TypeOK, CommitTicket
<1> PICK s \in Sevas, d \in Dates : s = job[r].seva /\ d = job[r].date
  BY <1>1 DEF Jobs
<1>2. ceiling[s] # 0 => Cardinality(Holders(s, d)) < ceiling[s]
  <2>1. ceiling[s] # 0 => Booked(s, d) < ceiling[s]
    BY RoomAtCommit DEF IInv, Unlimited
  <2>2. ceiling[s] \in Nat
    BY BookingAssumption DEF IInv, TypeOK, BookingAssumption
  <2> QED BY <2>1, <2>2, HoldersBounded, SlotFinite DEF IInv
<1> PICK t : t = [num |-> num[r], seva |-> s, date |-> d, mobile |-> job[r].mobile, by |-> r]
  OBVIOUS
<1>3. tickets' = tickets \union {t} /\ t.seva = s /\ t.date = d /\ t.by = r
  BY DEF CommitTicket
<1> PICK H : H = Holders(s, d) \union {r}
  OBVIOUS
<1>4. \A x \in Sevas, y \in Dates :
          Holders(x, y)' = IF x = s /\ y = d THEN H ELSE Holders(x, y)
  <2> TAKE x \in Sevas, y \in Dates
  <2>1. SlotTickets(x, y)' = IF x = s /\ y = d THEN SlotTickets(x, y) \union {t}
                                              ELSE SlotTickets(x, y)
    BY <1>3 DEF SlotTickets
  <2>2. CASE x = s /\ y = d
    BY <1>3, <2>1, <2>2 DEF Holders
  <2>3. CASE ~(x = s /\ y = d)
    BY <2>1, <2>3 DEF Holders
  <2> QED BY <2>2, <2>3
<1>6. BookedSlots' = [BookedSlots EXCEPT ![<<s, d>>] = H]
  <2>1. \A slot \in Sevas \X Dates :
            Holders(slot[1], slot[2])' = IF slot = <<s, d>> THEN H ELSE Holders(slot[1], slot[2])
    BY <1>4, NextSlots
  <2>2. BookedSlots' = [slot \in Sevas \X Dates |->
                            IF slot = <<s, d>> THEN H ELSE Holders(slot[1], slot[2])]
    BY <2>1, NextSlots
  <2> QED BY <2>2 DEF BookedSlots
<1>7. BookedSlots[<<s, d>>] = Holders(s, d)
  BY DEF BookedSlots
<1>8. Served' = Served \union {r} /\ r \notin Served
  BY <1>1 DEF CommitTicket, Goto, IInv, TypeOK, Served
<1>9. ceiling' = ceiling
  BY DEF CommitTicket
<1>10. Register!Book(r, s, d)
  BY <1>2, <1>6, <1>7, <1>8, <1>9, SameCount DEF Register!Book
<1> QED BY <1>10

\* A deletion is a Free of the register.
LEMMA DeletionFrees ==
    ASSUME IInv, DeleteTicket
    PROVE  \E r \in Requests, s \in Sevas, d \in Dates : Register!Free(r, s, d)
<1> PICK t \in tickets : DeleteTicket!(t)
  BY DEF DeleteTicket
<1>1. t.by \in Requests /\ t.seva \in Sevas /\ t.date \in Dates
  BY DEF IInv, TypeOK, Ticket
<1> PICK r \in Requests, s \in Sevas, d \in Dates : r = t.by /\ s = t.seva /\ d = t.date
  BY <1>1
<1>2. \A u \in tickets : u.by = r => u = t
  BY DEF IInv, OneTicketEach
<1> PICK H : H = Holders(s, d) \ {r}
  OBVIOUS
<1>3. \A x \in Sevas, y \in Dates :
          Holders(x, y)' = IF x = s /\ y = d THEN H ELSE Holders(x, y)
  <2> TAKE x \in Sevas, y \in Dates
  <2>1. tickets' = tickets \ {t}
    OBVIOUS
  <2>2. CASE x = s /\ y = d
    <3>1. SlotTickets(x, y)' = SlotTickets(x, y) \ {t}
      BY <2>1 DEF SlotTickets
    <3>2. \A u \in SlotTickets(x, y) : u.by = r <=> u = t
      BY <1>2 DEF SlotTickets
    <3> QED BY <2>2, <3>1, <3>2 DEF Holders
  <2>3. CASE ~(x = s /\ y = d)
    <3>1. SlotTickets(x, y)' = SlotTickets(x, y)
      BY <2>1, <2>3 DEF SlotTickets
    <3> QED BY <2>3, <3>1 DEF Holders
  <2> QED BY <2>2, <2>3
<1>4. BookedSlots' = [BookedSlots EXCEPT ![<<s, d>>] = H]
  <2>1. \A slot \in Sevas \X Dates :
            Holders(slot[1], slot[2])' = IF slot = <<s, d>> THEN H ELSE Holders(slot[1], slot[2])
    BY <1>3, NextSlots
  <2>2. BookedSlots' = [slot \in Sevas \X Dates |->
                            IF slot = <<s, d>> THEN H ELSE Holders(slot[1], slot[2])]
    BY <2>1, NextSlots
  <2> QED BY <2>2 DEF BookedSlots
<1>5. BookedSlots[<<s, d>>] = Holders(s, d) /\ r \in Holders(s, d)
  BY DEF BookedSlots, Holders, SlotTickets
<1>6. Served' = Served /\ ceiling' = ceiling
  BY DEF Served, request
<1>7. Register!Free(r, s, d)
  BY <1>4, <1>5, <1>6 DEF Register!Free
<1> QED BY <1>7

\* An edit of a seva is a Loosen of the register.
LEMMA EditLoosens ==
    ASSUME IInv, NEW s \in Sevas, EditSeva(s)
    PROVE  \E c \in Caps : Register!Loosen(s, c)
<1> PICK c \in Caps, a \in BOOLEAN : EditSeva(s)!(c, a)
  BY DEF EditSeva
<1> PICK n : n = Looser(ceiling[s], c)
  OBVIOUS
<1>1. ceiling[s] \in Caps /\ ceiling[s] \in Nat /\ c \in Nat
  BY BookingAssumption DEF IInv, TypeOK, BookingAssumption
<1>2. n \in Caps
  BY <1>1 DEF Looser, Unlimited
<1>3. n = 0 \/ (ceiling[s] # 0 /\ ceiling[s] <= n)
  BY <1>1, LooserOf
<1>4. BookedSlots' = BookedSlots
  BY DEF BookedSlots, Holders, SlotTickets
<1>5. Served' = Served
  BY DEF Served, request
<1>6. Register!Loosen(s, n)
  BY <1>3, <1>4, <1>5 DEF Register!Loosen
<1> QED BY <1>2, <1>6

\* Every other step leaves the register as it is.
LEMMA RestStutters ==
    ASSUME IInv, [Next]_vars, ~DeleteTicket,
           \A r \in Requests : ~CommitTicket(r), \A s \in Sevas : ~EditSeva(s)
    PROVE  UNCHANGED <<BookedSlots, Served, ceiling>>
<1>1. BookedSlots' = BookedSlots
  BY TicketsUnchanged DEF BookedSlots, Holders, SlotTickets
<1>2. Served' = Served
  BY BookedByCommit DEF Served, IInv
<1>3. ceiling' = ceiling
  BY DEF Next, Step, vars, Begin, CheckDuplicate, SkipCount, LockSeva, CountSlots, GenerateNumber,
     InsertTicket, NumberTaken, ReloadSeva, DeadlockVictim, Die, RetireSeva
<1> QED BY <1>1, <1>2, <1>3

\* The bookings implement the register of SlotRegister: each is one atomic entry,
\* made at most once for a request, into a slot with room.
THEOREM BookingImplementsRegister == Spec => ImplementsRegister
<1>1. Init => Register!Init
  <2> SUFFICES ASSUME Init PROVE Register!Init
    OBVIOUS
  <2>1. \A s, d : Holders(s, d) = {}
    BY DEF Init, Holders, SlotTickets
  <2>2. BookedSlots = [slot \in Sevas \X Dates |-> {}]
    BY <2>1 DEF BookedSlots
  <2>3. Served = {}
    BY DEF Init, Served
  <2> QED BY <2>2, <2>3 DEF Init, Register!Init
<1>2. IInv /\ [Next]_vars => [Register!Next]_(Register!registerVars)
  <2> SUFFICES ASSUME IInv, [Next]_vars
               PROVE  Register!Next \/ UNCHANGED Register!registerVars
    OBVIOUS
  <2>1. ASSUME NEW r \in Requests, CommitTicket(r) PROVE Register!Next
    BY <2>1, CommitBooks DEF Register!Next
  <2>2. CASE DeleteTicket
    BY <2>2, DeletionFrees DEF Register!Next
  <2>3. ASSUME NEW s \in Sevas, EditSeva(s) PROVE Register!Next
    BY <2>3, EditLoosens DEF Register!Next
  <2>4. CASE /\ ~DeleteTicket
             /\ \A r \in Requests : ~CommitTicket(r)
             /\ \A s \in Sevas : ~EditSeva(s)
    BY <2>4, RestStutters DEF Register!registerVars
  <2> QED BY <2>1, <2>2, <2>3, <2>4
<1> QED BY <1>1, <1>2, Invariance, PTL DEF Spec, ImplementsRegister, Register!Spec
-----------------------------------------------------------------------------
(* RACES.  A number a request generates is taken by nobody; when it finds it   *)
(* taken, another request booked it in between.  So every failed attempt has a *)
(* booking of its own, as long as all numbers have their padding.              *)

\* The requests that booked, r left out.
Winners(r) == {q \in Requests \ {r} : pc[q] = "booked"}

\* A ticket has the number its request generated last, as no request goes on after it.
NumbersOfTickets == \A t \in tickets : t.num = num[t.by]

\* A lost attempt, and one about to be lost, has its winner.
AttemptsLost == Outgrown \/ \A r \in Requests :
    /\ tries[r] <= Cardinality(Winners(r))
    /\ pc[r] = "insert" /\ num[r] \in Numbers => tries[r] + 1 <= Cardinality(Winners(r))

\* The inductive invariant of the races.
RacesInv == TypeOK /\ OneTicketEach /\ IsFiniteSet(Served) /\ NumbersOfTickets /\ AttemptsLost

LEMMA WinnersFinite ==
    ASSUME IsFiniteSet(Served), NEW r
    PROVE  IsFiniteSet(Winners(r)) /\ Cardinality(Winners(r)) \in Nat
<1>1. Winners(r) \subseteq Served
  BY DEF Winners, Served
<1> QED BY <1>1, FS_Subset, FS_CardinalityType

\* Below its padding, a number ranks as it counts.
LEMMA RanksCount ==
    ASSUME NEW m \in Nat, NEW k \in Nat, m < PadLimit, k < PadLimit, TextRank(k) <= TextRank(m)
    PROVE  k <= m
<1>1. Radix \in Nat /\ Radix >= 1 /\ PadLimit \in Nat
  BY BookingAssumption DEF BookingAssumption
<1>2. 2 * Radix * k <= 2 * Radix * m
  BY DEF TextRank
<1>3. ASSUME k >= m + 1 PROVE FALSE
  <2>1. Radix * k >= Radix * (m + 1)
    BY <1>1, <1>3
  <2>2. Radix * (m + 1) = Radix * m + Radix
    BY <1>1
  <2>3. Radix * k \in Nat /\ Radix * m \in Nat
    BY <1>1
  <2>4. 2 * Radix * k = 2 * (Radix * k) /\ 2 * Radix * m = 2 * (Radix * m)
    BY <1>1
  <2> QED BY <1>1, <1>2, <2>1, <2>2, <2>3, <2>4
<1> QED BY <1>3

\* Where all numbers have their padding, the next one is free.
LEMMA NextIsFree ==
    ASSUME RacesInv, ~Outgrown, NEW n \in NextNumbers
    PROVE  n \notin Numbers
<1>1. \A k \in Numbers : k \in Nat /\ k < PadLimit
  <2>1. PadLimit \in Nat /\ OldNumbers \subseteq Nat
    BY BookingAssumption DEF BookingAssumption
  <2>2. \A k \in OldNumbers : k \in Nat /\ k < PadLimit
    BY <2>1 DEF Outgrown
  <2>3. ASSUME NEW t \in tickets PROVE t.num \in Nat /\ t.num < PadLimit
    <3>1. t.by \in Requests /\ pc[t.by] = "booked" /\ t.num = num[t.by] /\ num[t.by] \in Nat
      BY DEF RacesInv, TypeOK, OneTicketEach, NumbersOfTickets, Ticket
    <3> QED BY <2>1, <3>1 DEF Outgrown
  <2> QED BY <2>2, <2>3 DEF Numbers
<1>2. CASE Numbers = {}
  BY <1>2
<1>3. CASE Numbers # {}
  <2>1. PICK m \in Numbers : n = m + 1 /\ \A k \in Numbers : TextRank(k) <= TextRank(m)
    BY <1>3 DEF NextNumbers
  <2>2. \A k \in Numbers : k <= m
    BY <1>1, <2>1, RanksCount
  <2> QED BY <1>1, <2>1, <2>2
<1> QED BY <1>2, <1>3

\* What a step that books nothing does to a request's attempts.
LEMMA AttemptStep ==
    ASSUME TypeOK, [Next]_vars, \A q \in Requests : ~CommitTicket(q), NEW r \in Requests
    PROVE  \/ num'[r] = num[r] /\ tries'[r] = tries[r] /\ (pc'[r] = "insert" => pc[r] = "insert")
           \/ num'[r] \in NextNumbers /\ tries'[r] = tries[r] /\ pc[r] = "number" /\ tickets' = tickets
           \/ /\ num'[r] = num[r] /\ tries'[r] = tries[r] + 1 /\ pc'[r] # "insert"
              /\ pc[r] = "insert" /\ num[r] \in Numbers
<1> DEFINE Same == num'[r] = num[r] /\ tries'[r] = tries[r] /\ (pc'[r] = "insert" => pc[r] = "insert")
           Chosen == num'[r] \in NextNumbers /\ tries'[r] = tries[r] /\ pc[r] = "number" /\ tickets' = tickets
           Lost == /\ num'[r] = num[r] /\ tries'[r] = tries[r] + 1 /\ pc'[r] # "insert"
                   /\ pc[r] = "insert" /\ num[r] \in Numbers
<1>1. ASSUME NEW q \in Requests, Begin(q) PROVE Same
  BY <1>1 DEF Begin, Goto, TypeOK
<1>2. ASSUME NEW q \in Requests, Step(q) PROVE Same \/ Chosen \/ Lost
  <2>1. CASE GenerateNumber(q)
    <3>1. PICK n \in NextNumbers : num' = [num EXCEPT ![q] = n]
      BY <2>1 DEF GenerateNumber
    <3> QED BY <2>1, <3>1 DEF GenerateNumber, Goto, TypeOK
  <2>2. CASE NumberTaken(q)
    BY <2>2 DEF NumberTaken, Goto, TypeOK
  <2>3. CASE CheckDuplicate(q) \/ SkipCount(q) \/ LockSeva(q) \/ CountSlots(q)
    BY <2>3 DEF CheckDuplicate, SkipCount, LockSeva, CountSlots, Goto, TypeOK
  <2>4. CASE InsertTicket(q) \/ ReloadSeva(q) \/ DeadlockVictim(q)
    BY <2>4 DEF InsertTicket, ReloadSeva, DeadlockVictim, Goto, TypeOK
  <2> QED BY <1>2, <2>1, <2>2, <2>3, <2>4 DEF Step
<1>3. ASSUME NEW q \in Requests, Die(q) PROVE Same
  BY <1>3 DEF Die, Goto, TypeOK
<1>4. ASSUME NEW s \in Sevas, EditSeva(s) \/ RetireSeva(s) PROVE Same
  BY <1>4 DEF EditSeva, RetireSeva, request
<1>5. CASE DeleteTicket \/ UNCHANGED vars
  BY <1>5 DEF DeleteTicket, request, vars
<1> QED BY <1>1, <1>2, <1>3, <1>4, <1>5 DEF Next

\* A booking is the winner of every other request's race.
LEMMA RacesCommit ==
    ASSUME RacesInv, NEW q \in Requests, CommitTicket(q), TypeOK', OneTicketEach'
    PROVE  RacesInv'
<1>1. /\ pc' = [pc EXCEPT ![q] = "booked"] /\ pc[q] = "commit" /\ UNCHANGED <<num, tries>>
      /\ \A t \in tickets' : t \in tickets \/ (t.num = num[q] /\ t.by = q)
  BY DEF CommitTicket, Goto
<1>2. pc'[q] = "booked" /\ \A r \in Requests \ {q} : pc'[r] = pc[r]
  BY <1>1 DEF RacesInv, TypeOK
<1>3. Served' = Served \union {q} /\ q \notin Served
  BY <1>1, <1>2 DEF Served
<1>4. IsFiniteSet(Served')
  BY <1>3, FS_AddElement DEF RacesInv
<1>5. NumbersOfTickets'
  BY <1>1 DEF RacesInv, NumbersOfTickets
<1>6. Outgrown => Outgrown'
  BY <1>1, <1>2 DEF Outgrown
<1>7. ASSUME NEW r \in Requests, ~Outgrown'
      PROVE  /\ tries'[r] <= Cardinality(Winners(r)')
             /\ pc'[r] = "insert" /\ num'[r] \in Numbers' => tries'[r] + 1 <= Cardinality(Winners(r)')
  <2>1. tries[r] <= Cardinality(Winners(r)) /\ tries[r] \in Nat /\ tries' = tries
    BY <1>1, <1>6, <1>7 DEF RacesInv, AttemptsLost, TypeOK
  <2>2. CASE r = q
    <3>1. Winners(r)' = Winners(r)
      BY <1>2, <2>2 DEF Winners
    <3> QED BY <1>2, <2>1, <2>2, <3>1
  <2>3. CASE r # q
    <3>1. Winners(r)' = Winners(r) \union {q} /\ q \notin Winners(r)
      BY <1>1, <1>2, <2>3 DEF Winners
    <3>2. IsFiniteSet(Winners(r)) /\ Cardinality(Winners(r)) \in Nat
      BY WinnersFinite DEF RacesInv
    <3>3. Cardinality(Winners(r)') = Cardinality(Winners(r)) + 1
      BY <3>1, <3>2, FS_AddElement
    <3> QED BY <2>1, <3>2, <3>3
  <2> QED BY <2>2, <2>3
<1>8. AttemptsLost'
  BY <1>7 DEF AttemptsLost
<1> QED BY <1>4, <1>5, <1>8 DEF RacesInv

LEMMA RacesStep ==
    ASSUME RacesInv, [Next]_vars, TypeOK', OneTicketEach'
    PROVE  RacesInv'
<1>1. CASE \E q \in Requests : CommitTicket(q)
  BY <1>1, RacesCommit
<1>2. CASE \A q \in Requests : ~CommitTicket(q)
  <2> USE DEF RacesInv
  <2>1. \A q \in Requests : pc'[q] = "booked" <=> pc[q] = "booked"
    BY <1>2, BookedByCommit
  <2>2. tickets' \subseteq tickets
    BY <1>2, TicketsUnchanged DEF DeleteTicket
  <2>3. Served' = Served /\ \A r \in Requests : Winners(r)' = Winners(r)
    BY <2>1 DEF Served, Winners
  <2>4. \A r \in Requests : pc[r] = "booked" => num'[r] = num[r]
    BY <1>2, AttemptStep
  <2>5. NumbersOfTickets'
    <3>1. ASSUME NEW t \in tickets PROVE t.num = num'[t.by]
      <4>1. t.by \in Requests /\ pc[t.by] = "booked" /\ t.num = num[t.by]
        BY DEF TypeOK, OneTicketEach, NumbersOfTickets, Ticket
      <4> QED BY <4>1, <2>4
    <3> QED BY <2>2, <3>1 DEF NumbersOfTickets
  <2>6. Outgrown => Outgrown'
    BY <2>1, <2>4 DEF Outgrown
  <2>7. Numbers' \subseteq Numbers
    BY <2>2 DEF Numbers
  <2>8. ASSUME NEW r \in Requests, ~Outgrown'
        PROVE  /\ tries'[r] <= Cardinality(Winners(r))
               /\ pc'[r] = "insert" /\ num'[r] \in Numbers' => tries'[r] + 1 <= Cardinality(Winners(r))
    <3>1. /\ tries[r] <= Cardinality(Winners(r))
          /\ pc[r] = "insert" /\ num[r] \in Numbers => tries[r] + 1 <= Cardinality(Winners(r))
      BY <2>6, <2>8 DEF AttemptsLost
    <3>2. CASE num'[r] = num[r] /\ tries'[r] = tries[r] /\ (pc'[r] = "insert" => pc[r] = "insert")
      BY <2>7, <3>1, <3>2
    <3>3. CASE num'[r] \in NextNumbers /\ tries'[r] = tries[r] /\ pc[r] = "number" /\ tickets' = tickets
      <4>1. num'[r] \notin Numbers
        BY <2>6, <2>8, <3>3, NextIsFree
      <4> QED BY <2>7, <3>1, <3>3, <4>1
    <3>4. CASE /\ num'[r] = num[r] /\ tries'[r] = tries[r] + 1 /\ pc'[r] # "insert"
               /\ pc[r] = "insert" /\ num[r] \in Numbers
      BY <3>1, <3>4
    <3> QED BY <1>2, <3>2, <3>3, <3>4, AttemptStep
  <2>9. AttemptsLost'
    BY <2>3, <2>8 DEF AttemptsLost
  <2> QED BY <2>3, <2>5, <2>9
<1> QED BY <1>1, <1>2

\* What a request lost, and to how many bookings, is known throughout.
THEOREM RacesInvariance == Spec => []RacesInv
<1>1. Init => RacesInv
  <2> SUFFICES ASSUME Init PROVE RacesInv
    OBVIOUS
  <2>1. Served = {} /\ tickets = {} /\ \A r \in Requests : tries[r] = 0 /\ pc[r] = "idle"
    BY DEF Init, Served
  <2>2. IsFiniteSet(Served)
    BY <2>1, FS_EmptySet
  <2>3. \A r \in Requests : Cardinality(Winners(r)) \in Nat
    BY <2>2, WinnersFinite
  <2>4. NumbersOfTickets /\ AttemptsLost
    BY <2>1, <2>3 DEF NumbersOfTickets, AttemptsLost
  <2>5. TypeOK /\ OneTicketEach
    <3>1. TypeOK
      BY FS_EmptySet DEF Init, TypeOK, Unlimited, Working, Answered
    <3> QED BY <2>1, <3>1 DEF OneTicketEach
  <2> QED BY <2>2, <2>4, <2>5 DEF RacesInv
<1>2. RacesInv /\ [Next]_vars /\ IInv' => RacesInv'
  BY RacesStep DEF IInv
<1> QED BY <1>1, <1>2, Invariance, PTL DEF Spec

\* "retry if two bookings race for the same number" (seva_ticket_service.py:63): every attempt
\* a request lost was won by another booking, until a number outgrew its padding.
THEOREM RetriesLostTheirRaces == Spec => []RetriesAreLostRaces
<1>1. RacesInv => RetriesAreLostRaces
  <2> SUFFICES ASSUME RacesInv, NEW r \in Requests, ~Outgrown
               PROVE  ~(tries[r] > Cardinality(Winners(r)))
    BY DEF RetriesAreLostRaces, Winners
  <2>1. tries[r] <= Cardinality(Winners(r)) /\ tries[r] \in Nat /\ Cardinality(Winners(r)) \in Nat
    BY WinnersFinite DEF RacesInv, AttemptsLost, TypeOK
  <2> QED BY <2>1
<1> QED BY <1>1, RacesInvariance, PTL
=============================================================================
