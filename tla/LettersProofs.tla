---------------------------- MODULE LettersProofs ----------------------------
(***************************************************************************)
(* Theorems about Letters, for every set of workers, letters and members,  *)
(* whatever is asked of which letter, and every number of attempts.        *)
(*                                                                         *)
(* First what each action does to the letter it is about, and that it does *)
(* nothing to another; then one lemma for each part of the inductive       *)
(* invariant; then the theorems.                                           *)
(***************************************************************************)
EXTENDS Letters, FiniteSetTheorems, TLAPS

\* A step that writes to letter l at most.
OnlyOn(l) ==
    /\ \A k \in Letters \ {l} : rows'[k] = rows[k] /\ slots'[k] = slots[k] /\ edition'[k] = edition[k]
    /\ rows' \in [Letters -> Row \union {NoRow}]
    /\ slots' \in [Letters -> Panel]
    /\ edition' \in [Letters -> Nat]
    /\ edition[l] # 0 => edition'[l] # 0

\* A commit of w ends its request and leaves the others alone; unless it marks its
\* letter as overtaken, what it has checked holds.
Ends(w, op, l) ==
    /\ req[w] \in Request /\ req[w].op = op /\ req[w].letter = l
    /\ l \in Letters /\ rows[l] \in Row /\ rows[l] # NoRow
    /\ req' = [req EXCEPT ![w] = Idle]
    /\ overtaken \subseteq overtaken' /\ overtaken' \subseteq overtaken \union {l}
    /\ l \notin overtaken' => /\ rows[l].status = Needs[op]
                              /\ Passes(op, req[w].member, slots[l])
                              /\ op = "update" => \A m \in Members : SameSlot(slots[l][m], req[w].slots[m])

\* Letter l is written for the first time.
Created(l) ==
    /\ OnlyOn(l) /\ edition[l] = 0 /\ edition'[l] = 1
    /\ rows'[l] = [status |-> "DRAFT", ref |-> 0, text |-> 1]
    /\ \A m \in Members : slots'[l][m] # NoSlot => slots'[l][m].text = 1
    /\ UNCHANGED <<req, used, overtaken>>

\* It gets other signatories, and another text perhaps.
Edited(w, l) ==
    /\ OnlyOn(l) /\ Ends(w, "update", l)
    /\ rows'[l].status = rows[l].status /\ rows'[l].ref = rows[l].ref /\ rows'[l] \in Row
    /\ l \notin overtaken' =>
          \A m \in Members : slots'[l][m] # NoSlot => slots'[l][m].text = rows'[l].text
    /\ edition'[l] # 0 /\ UNCHANGED used

Deleted(w, l) ==
    /\ OnlyOn(l) /\ Ends(w, "delete", l)
    /\ rows'[l] = NoRow
    /\ UNCHANGED <<edition, used>>

\* It changes hands: only its status or an answer is written.
Turned(w, op, l) ==
    /\ OnlyOn(l) /\ Ends(w, op, l)
    /\ rows'[l] \in Row /\ rows'[l].ref = rows[l].ref /\ rows'[l].text = rows[l].text
    /\ \/ op = "send" /\ rows'[l].status = "AWAITING" /\ UNCHANGED slots
       \/ op = "recall" /\ rows'[l].status = "DRAFT"
       \/ op \in SlotOps /\ rows'[l].status = rows[l].status
       \/ op = "revoke" /\ rows'[l].status = "REVOKED" /\ UNCHANGED slots
    /\ \A m \in Members : /\ slots'[l][m] # NoSlot <=> slots[l][m] # NoSlot
                          /\ slots[l][m] # NoSlot => slots'[l][m].text = slots[l][m].text
    /\ UNCHANGED <<edition, used>>

\* It gets its number.
Numbered(w, l) == IF req[w].num = req[w].ref THEN rows[l].ref ELSE req[w].num
Issued(w, l) ==
    /\ OnlyOn(l) /\ Ends(w, "issue", l)
    /\ req[w].step = "numbered" /\ ~Clash(w)
    /\ rows'[l] = [status |-> IF req[w].status = "ISSUED" THEN rows[l].status ELSE "ISSUED",
                   ref |-> Numbered(w, l), text |-> rows[l].text]
    /\ rows'[l] \in Row
    /\ used' = used \union {<<l, Numbered(w, l)>>}
    /\ UNCHANGED <<slots, edition>>

\* A request moves on, and nothing else.
Handled(w) ==
    /\ \E r \in Request \union {Idle} : req' = [req EXCEPT ![w] = r] /\ (r # Idle => Served(r))
    /\ UNCHANGED <<rows, slots, edition, used, overtaken>>

LEMMA CommitEnds ==
    ASSUME TypeOK, NEW w \in Workers, NEW l \in Letters, NEW op \in Ops, Commits(w, op, l)
    PROVE  Ends(w, op, l)
<1>1. req[w] \in Request
  BY DEF TypeOK, Commits, Idle
<1>2. rows[l] \in Row /\ rows[l] # NoRow
  BY DEF TypeOK, Commits, Exists
<1> QED BY <1>1, <1>2 DEF Ends, Commits, StillAllowed, TypeOK

LEMMA OpsAre ==
    Ops = {"update", "delete", "send", "recall", "sign", "decline", "paper", "issue", "revoke"}
BY DEF Ops, Needs

\* A change of the status alone.
LEMMA StatusWritten ==
    ASSUME TypeOK, NEW l \in Letters, rows[l] \in Row, NEW s \in Statuses, SetStatus(l, s),
           UNCHANGED edition, slots' \in [Letters -> Panel],
           \A k \in Letters \ {l} : slots'[k] = slots[k]
    PROVE  /\ OnlyOn(l)
           /\ rows'[l] = [status |-> s, ref |-> rows[l].ref, text |-> rows[l].text]
<1> DEFINE row == [status |-> s, ref |-> rows[l].ref, text |-> rows[l].text]
<1>1. rows' = [rows EXCEPT ![l] = row]
  <2>1. [rows[l] EXCEPT !.status = s] = row
    BY DEF Row
  <2>2. rows' = [rows EXCEPT ![l] = [rows[l] EXCEPT !.status = s]]
    BY DEF SetStatus
  <2> QED BY <2>1, <2>2
<1>2. row \in Row
  BY DEF Row
<1>3. /\ rows' \in [Letters -> Row \union {NoRow}] /\ rows'[l] = row
      /\ \A k \in Letters \ {l} : rows'[k] = rows[k]
  <2> HIDE DEF row
  <2> QED BY <1>1, <1>2 DEF TypeOK
<1> QED BY <1>3 DEF OnlyOn, TypeOK

LEMMA CreateEffect ==
    ASSUME TypeOK, NEW w \in Workers, Create(w)
    PROVE  \E l \in Letters : Created(l)
<1>1. PICK l \in Letters : Create(w)!(l)
  BY DEF Create
<1>2. PICK panel \in Panels[l] : Create(w)!(l)!(panel)
  BY <1>1
<1>3. Fresh(panel, 1, 1) \in Panel
  BY DEF Fresh, Panel, Slot
<1>4. \A m \in Members : Fresh(panel, 1, 1)[m] # NoSlot => Fresh(panel, 1, 1)[m].text = 1
  BY DEF Fresh
<1>5. [status |-> "DRAFT", ref |-> 0, text |-> 1] \in Row
  BY DEF Row, Statuses
<1> QED BY <1>2, <1>3, <1>4, <1>5 DEF Created, OnlyOn, TypeOK

LEMMA UpdateEffect ==
    ASSUME TypeOK, NEW w \in Workers, Update(w)
    PROVE  \E l \in Letters : Edited(w, l)
<1>1. PICK l \in Letters, rewritten \in BOOLEAN : Update(w)!(l, rewritten)
  BY DEF Update
<1> DEFINE n == edition[l] + 1
           text == IF rewritten THEN n ELSE rows[l].text
           kept == {m \in Members : slots[l][m] # NoSlot /\ ~Loaded(w, l, m)}
<1>2. PICK panel \in Panels[l] : Update(w)!(l, rewritten)!(panel)
  BY <1>1
<1>3. Ends(w, "update", l)
  BY <1>2, CommitEnds, OpsAre
<1>4. n \in Nat \ {0} /\ text \in Nat
  BY <1>3 DEF TypeOK, Ends, Row
<1>5. /\ rows' = [rows EXCEPT ![l] = [status |-> rows[l].status, ref |-> rows[l].ref, text |-> text]]
      /\ [status |-> rows[l].status, ref |-> rows[l].ref, text |-> text] \in Row
  <2>1. rows[l] \in Row
    BY <1>3 DEF Ends
  <2>2. rows' = [rows EXCEPT ![l] = [rows[l] EXCEPT !.text = text]]
    BY <1>2
  <2> HIDE DEF n, text
  <2>3. [rows[l] EXCEPT !.text = text] = [status |-> rows[l].status, ref |-> rows[l].ref, text |-> text]
    BY <2>1 DEF Row
  <2> QED BY <1>4, <2>1, <2>2, <2>3 DEF Row
<1>6. Fresh(panel, n, text) \in Panel
  <2> HIDE DEF n, text
  <2> QED BY <1>4 DEF Fresh, Panel, Slot
<1> DEFINE mixed == [m \in Members |-> IF m \in kept THEN slots[l][m] ELSE Fresh(panel, n, text)[m]]
<1>7. mixed \in Panel /\ slots' = [slots EXCEPT ![l] = mixed]
  BY <1>2, <1>6 DEF Panel, TypeOK
<1>8. edition' = [edition EXCEPT ![l] = n]
  BY <1>2
<1>9. OnlyOn(l) /\ edition'[l] # 0
  <2> HIDE DEF n, text, kept, mixed
  <2> QED BY <1>4, <1>5, <1>7, <1>8 DEF OnlyOn, TypeOK
<1>10. l \notin overtaken' => kept = {}
  BY <1>3 DEF Ends, Loaded, SameSlot
<1>11. \A m \in Members : Fresh(panel, n, text)[m] # NoSlot => Fresh(panel, n, text)[m].text = text
  BY DEF Fresh
<1>12. l \notin overtaken' => \A m \in Members : slots'[l][m] # NoSlot => slots'[l][m].text = text
  <2> HIDE DEF n, text, kept
  <2> QED BY <1>7, <1>10, <1>11 DEF TypeOK
<1>13. UNCHANGED used /\ rows'[l] = [status |-> rows[l].status, ref |-> rows[l].ref, text |-> text]
  <2> HIDE DEF text
  <2> QED BY <1>2, <1>5 DEF TypeOK
<1> QED
  <2> HIDE DEF n, text, kept, mixed
  <2> QED BY <1>3, <1>5, <1>9, <1>12, <1>13 DEF Edited

LEMMA DeleteEffect ==
    ASSUME TypeOK, NEW w \in Workers, Delete(w)
    PROVE  \E l \in Letters : Deleted(w, l)
<1>1. PICK l \in Letters : Delete(w)!(l)
  BY DEF Delete
<1>2. Ends(w, "delete", l)
  BY <1>1, CommitEnds, OpsAre
<1>3. Empty \in Panel
  BY DEF Empty, Panel
<1> QED BY <1>1, <1>2, <1>3 DEF Deleted, OnlyOn, TypeOK

LEMMA SendEffect ==
    ASSUME TypeOK, NEW w \in Workers, Send(w)
    PROVE  \E l \in Letters : Turned(w, "send", l)
<1>1. PICK l \in Letters : Send(w)!(l)
  BY DEF Send
<1>2. Ends(w, "send", l) /\ UNCHANGED <<slots, edition, used>>
  BY <1>1, CommitEnds, OpsAre
<1>3. /\ OnlyOn(l)
      /\ rows'[l] = [status |-> "AWAITING", ref |-> rows[l].ref, text |-> rows[l].text]
  BY <1>1, <1>2, StatusWritten DEF Ends, TypeOK, Statuses
<1> QED BY <1>2, <1>3 DEF Turned, OnlyOn, Ends, Row, Statuses

LEMMA RevokeEffect ==
    ASSUME TypeOK, NEW w \in Workers, Revoke(w)
    PROVE  \E l \in Letters : Turned(w, "revoke", l)
<1>1. PICK l \in Letters : Revoke(w)!(l)
  BY DEF Revoke
<1>2. Ends(w, "revoke", l) /\ UNCHANGED <<slots, edition, used>>
  BY <1>1, CommitEnds, OpsAre
<1>3. /\ OnlyOn(l)
      /\ rows'[l] = [status |-> "REVOKED", ref |-> rows[l].ref, text |-> rows[l].text]
  BY <1>1, <1>2, StatusWritten DEF Ends, TypeOK, Statuses
<1> QED BY <1>2, <1>3 DEF Turned, OnlyOn, Ends, Row, Statuses

LEMMA RecallEffect ==
    ASSUME TypeOK, NEW w \in Workers, Recall(w)
    PROVE  \E l \in Letters : Turned(w, "recall", l)
<1>1. PICK l \in Letters : Recall(w)!(l)
  BY DEF Recall
<1> DEFINE cleared == {m \in Members : req[w].slots[m] # NoSlot /\ req[w].slots[m].status # "PENDING"}
           panel == [m \in Members |-> IF m \in cleared THEN [slots[l][m] EXCEPT !.status = "PENDING"]
                                       ELSE slots[l][m]]
<1>2. Ends(w, "recall", l)
  BY <1>1, CommitEnds, OpsAre
<1>3. \A m \in cleared : slots[l][m] \in Slot /\ slots[l][m] # NoSlot
  BY <1>1 DEF Loaded, TypeOK, Panel
<1>4. slots' = [slots EXCEPT ![l] = panel]
  BY <1>1
<1>5. /\ panel \in Panel
      /\ \A m \in Members : /\ panel[m] # NoSlot <=> slots[l][m] # NoSlot
                            /\ slots[l][m] # NoSlot => panel[m].text = slots[l][m].text
  <2>1. ASSUME NEW m \in cleared
        PROVE  /\ [slots[l][m] EXCEPT !.status = "PENDING"] \in Slot
               /\ [slots[l][m] EXCEPT !.status = "PENDING"] # NoSlot
               /\ [slots[l][m] EXCEPT !.status = "PENDING"].text = slots[l][m].text
    BY <1>3, MarksAssumption DEF Slot
  <2> HIDE DEF cleared
  <2> QED BY <1>3, <2>1 DEF TypeOK, Panel
<1>6. slots' \in [Letters -> Panel] /\ slots'[l] = panel /\ \A k \in Letters \ {l} : slots'[k] = slots[k]
  <2> HIDE DEF panel
  <2> QED BY <1>4, <1>5 DEF TypeOK
<1>7. SetStatus(l, "DRAFT") /\ UNCHANGED <<edition, used>>
  BY <1>1
<1>8. /\ OnlyOn(l)
      /\ rows'[l] = [status |-> "DRAFT", ref |-> rows[l].ref, text |-> rows[l].text]
  BY <1>2, <1>6, <1>7, StatusWritten DEF Ends, Statuses
<1> QED
  <2> HIDE DEF panel, cleared
  <2> QED BY <1>2, <1>5, <1>6, <1>7, <1>8 DEF Turned, Ends, Row, Statuses

LEMMA AnswerEffect ==
    ASSUME TypeOK, RequestsServed, NEW w \in Workers, NEW op \in SlotOps,
           NEW s \in {"SIGNED", "DECLINED", "PAPER"}, Answer(w, op, s)
    PROVE  \E l \in Letters : Turned(w, op, l)
<1>1. PICK l \in Letters : Answer(w, op, s)!(l)
  BY DEF Answer
<1> DEFINE m == req[w].member
<1>2. Ends(w, op, l)
  BY <1>1, CommitEnds, OpsAre DEF SlotOps
<1>3. m \in Members /\ slots[l][m] \in Slot
  <2>1. m \in Members \union {Nobody}
    BY <1>2 DEF Ends, Request
  <2>2. slots[l][m] # NoSlot /\ req[w].slots[m] # NoSlot
    BY <1>1 DEF Loaded
  <2>3. m \in Members
    BY <1>2, <2>1 DEF Ends, RequestsServed, Served, Request, Idle
  <2> QED BY <2>2, <2>3 DEF TypeOK, Panel
<1> DEFINE panel == [slots[l] EXCEPT ![m] = [slots[l][m] EXCEPT !.status = s]]
<1>4. [slots[l][m] EXCEPT !.status = s] \in Slot /\ [slots[l][m] EXCEPT !.status = s].text = slots[l][m].text
  BY <1>3 DEF Slot
<1>5. slots' = [slots EXCEPT ![l] = panel]
  BY <1>1
<1>6. /\ panel \in Panel
      /\ \A k \in Members : /\ panel[k] # NoSlot <=> slots[l][k] # NoSlot
                            /\ slots[l][k] # NoSlot => panel[k].text = slots[l][k].text
  <2>1. NoSlot \notin Slot
    BY MarksAssumption
  <2>2. slots[l] \in Panel
    BY DEF TypeOK
  <2> HIDE DEF m
  <2> QED BY <1>3, <1>4, <2>1, <2>2 DEF Panel
<1>7. OnlyOn(l) /\ slots'[l] = panel /\ UNCHANGED <<rows, edition, used>>
  <2> HIDE DEF panel
  <2> QED BY <1>1, <1>5, <1>6 DEF OnlyOn, TypeOK
<1> QED
  <2> HIDE DEF panel
  <2> QED BY <1>2, <1>6, <1>7 DEF Turned, Ends

LEMMA IssueEffect ==
    ASSUME TypeOK, NEW w \in Workers, Issue(w)
    PROVE  \E l \in Letters : Issued(w, l)
<1>1. PICK l \in Letters : Issue(w)!(l)
  BY DEF Issue
<1> DEFINE row == [status |-> IF req[w].status = "ISSUED" THEN rows[l].status ELSE "ISSUED",
                   ref |-> Numbered(w, l), text |-> rows[l].text]
<1>2. Ends(w, "issue", l) /\ req[w].step = "numbered"
  BY <1>1, CommitEnds, OpsAre DEF Commits
<1>3. row \in Row
  BY <1>2 DEF Ends, Row, Request, Numbered, Statuses
<1>4. rows' = [rows EXCEPT ![l] = row]
  <2>1. ASSUME NEW st, NEW ref
        PROVE  [[rows[l] EXCEPT !.status = st] EXCEPT !.ref = ref]
                 = [status |-> st, ref |-> ref, text |-> rows[l].text]
    <3>1. [rows[l] EXCEPT !.status = st] = [status |-> st, ref |-> rows[l].ref, text |-> rows[l].text]
      BY <1>2 DEF Ends, Row
    <3>2. [[status |-> st, ref |-> rows[l].ref, text |-> rows[l].text] EXCEPT !.ref = ref]
            = [status |-> st, ref |-> ref, text |-> rows[l].text]
      OBVIOUS
    <3> QED BY <3>1, <3>2
  <2>2. ASSUME NEW st, NEW ref
        PROVE  [rows EXCEPT ![l].status = st, ![l].ref = ref]
                 = [rows EXCEPT ![l] = [[rows[l] EXCEPT !.status = st] EXCEPT !.ref = ref]]
    BY <1>2 DEF TypeOK, Ends
  <2>3. rows' = [rows EXCEPT ![l].status = row.status, ![l].ref = Numbered(w, l)]
    BY <1>1 DEF Numbered
  <2>4. row = [status |-> row.status, ref |-> Numbered(w, l), text |-> rows[l].text]
    OBVIOUS
  <2> HIDE DEF row
  <2> QED BY <2>1, <2>2, <2>3, <2>4
<1>5. OnlyOn(l) /\ rows'[l] = row
  <2> HIDE DEF row
  <2>1. UNCHANGED <<slots, edition>>
    BY <1>1
  <2> QED BY <1>3, <1>4, <2>1 DEF OnlyOn, TypeOK
<1>6. ~Clash(w) /\ used' = used \union {<<l, Numbered(w, l)>>} /\ UNCHANGED <<slots, edition>>
  BY <1>1 DEF Numbered
<1> QED
  <2>1. rows'[l] \in Row
    BY <1>3, <1>5
  <2> QED BY <1>2, <1>5, <1>6, <2>1 DEF Issued

-----------------------------------------------------------------------------
(* The numbers *)

\* A number is taken by a letter it was issued to, so no more numbers are taken
\* than were ever issued.
LEMMA TakenAreUsed ==
    ASSUME TypeOK, NumbersAreIssued
    PROVE  IsFiniteSet(Taken) /\ Cardinality(Taken) <= Cardinality(used)
<1> DEFINE numbers == {u[2] : u \in used}
           f == [u \in used |-> u[2]]
<1>1. \A n \in Taken : \E u \in used : u[2] = n
  BY DEF Taken, NumbersAreIssued
<1>2. Taken \subseteq numbers
  BY <1>1
<1>3. f \in Surjection(used, numbers)
  BY DEF Surjection
<1>4. IsFiniteSet(numbers) /\ Cardinality(numbers) <= Cardinality(used)
  <2> HIDE DEF numbers, f
  <2> QED BY <1>3, FS_Surjection DEF NumbersAreIssued
<1>5. IsFiniteSet(Taken) /\ Cardinality(Taken) <= Cardinality(numbers)
  <2> HIDE DEF numbers
  <2> QED BY <1>2, <1>4, FS_Subset
<1>6. Cardinality(Taken) \in Nat /\ Cardinality(numbers) \in Nat /\ Cardinality(used) \in Nat
  <2> HIDE DEF numbers
  <2> QED BY <1>4, <1>5, FS_CardinalityType DEF NumbersAreIssued
<1> QED BY <1>4, <1>5, <1>6

\* As long as nothing is overtaken, the numbers on the letters are all that were issued.
LEMMA AllAreTaken ==
    ASSUME IInv, overtaken = {}
    PROVE  Cardinality(Taken) = Cardinality(used)
<1> DEFINE f == [u \in used |-> u[2]]
<1>1. TypeOK /\ NumbersAreIssued /\ NumbersAreFinal
  BY DEF IInv
<1>2. /\ \A u, v \in used : u[1] = v[1] <=> u[2] = v[2]
      /\ \A u \in used : Exists(u[1]) /\ rows[u[1]].ref = u[2]
  BY <1>1 DEF NumbersAreFinal
<1>3. \A u \in used : u[1] \in Letters /\ u[2] # 0 /\ u = <<u[1], u[2]>>
  <2>1. used \subseteq Letters \X (Nat \ {0})
    BY <1>1 DEF TypeOK
  <2> QED BY <2>1
<1>4. \A u \in used : u[2] \in Taken
  BY <1>2, <1>3 DEF Taken
<1>5. \A n \in Taken : \E u \in used : u[2] = n
  BY <1>1 DEF Taken, NumbersAreIssued
<1>6. \A u, v \in used : u[2] = v[2] => u = v
  BY <1>2, <1>3
<1>7. f \in Surjection(used, Taken) /\ f \in Injection(used, Taken)
  <2>1. f \in [used -> Taken] /\ \A u \in used : f[u] = u[2]
    BY <1>4
  <2> HIDE DEF f
  <2>2. \A n \in Taken : \E u \in used : f[u] = n
    BY <1>5, <2>1
  <2>3. \A u, v \in used : f[u] = f[v] => u = v
    BY <1>6, <2>1
  <2>4. f \in Surjection(used, Taken)
    BY <2>1, <2>2 DEF Surjection
  <2>5. f \in Injection(used, Taken)
    BY <2>1, <2>3 DEF Injection, IsInjective
  <2> QED BY <2>4, <2>5
<1> QED
  <2> HIDE DEF f
  <2> QED BY <1>1, <1>7, FS_Surjection DEF NumbersAreIssued

\* One more is issued: there are at least as many, and all are positive.
LEMMA OneMore ==
    ASSUME IsFiniteSet(used), NEW u, used' = used \union {u}
    PROVE  /\ IsFiniteSet(used') /\ Cardinality(used) \in Nat /\ Cardinality(used') \in Nat
           /\ Cardinality(used) <= Cardinality(used')
           /\ u \notin used => Cardinality(used') = Cardinality(used) + 1
<1>1. /\ IsFiniteSet(used \union {u})
      /\ Cardinality(used \union {u}) = IF u \in used THEN Cardinality(used) ELSE Cardinality(used) + 1
  BY FS_AddElement
<1>2. Cardinality(used) \in Nat
  BY FS_CardinalityType
<1> QED BY <1>1, <1>2

-----------------------------------------------------------------------------
(* What a step does *)

\* The steps that only move a request on keep to what is known of requests.
LEMMA RequestMoves ==
    ASSUME IInv, NEW w \in Workers,
           \/ ReadLetter(w) \/ ReadSlots(w) \/ Abandon(w)
           \/ TakeNumber(w) \/ NumberTaken(w) \/ Reload(w)
    PROVE  Handled(w)
<1> USE DEF Handled
<1>1. TypeOK /\ RequestsServed /\ NothingBeforeCreation /\ NumbersAreIssued /\ IssuedIsSigned
  BY DEF IInv
<1>2. MaxAttempts \in Nat \ {0} /\ Nobody \notin Members
  BY LettersAssumption DEF LettersAssumption
<1>3. CASE ReadLetter(w)
  <2>1. PICK l \in Letters, m \in Members \union {Nobody} : ReadLetter(w)!(l, m)
    BY <1>3 DEF ReadLetter
  <2>2. PICK op \in Asks[l] : ReadLetter(w)!(l, m)!(op)
    BY <2>1
  <2> DEFINE r == [step |-> "slots", op |-> op, letter |-> l, member |-> m,
                   status |-> rows[l].status, ref |-> rows[l].ref,
                   slots |-> Empty, num |-> 0, tries |-> 0]
  <2>3. op \in Ops /\ rows[l] \in Row /\ Exists(l) /\ Empty \in Panel
    BY <1>1, <2>2, LettersAssumption DEF LettersAssumption, TypeOK, Exists, Empty, Panel
  <2>4. r \in Request
    BY <2>3 DEF Request, Row
  <2>5. op = "revoke" \/ rows[l].status \in Public => rows[l].ref # 0
    BY <1>1, <2>2, <2>3 DEF Needs, Public, IssuedIsSigned
  <2>6. Served(r)
    BY <1>1, <1>2, <2>2, <2>3, <2>5 DEF Served, NothingBeforeCreation
  <2> QED
    BY <2>2, <2>4, <2>6
<1>4. CASE ReadSlots(w)
  <2> DEFINE kept == Keeps(req[w].op, req[w].member, slots[req[w].letter])
             r == [req[w] EXCEPT !.step = "decided", !.slots = kept]
  <2>1. req[w] \in Request /\ req[w] # Idle /\ Served(req[w])
    BY <1>1, <1>4 DEF TypeOK, ReadSlots, Idle, RequestsServed
  <2>2. kept \in Panel
    BY <1>1, <2>1 DEF Keeps, Panel, TypeOK, Request
  <2>3. r \in Request /\ Served(r)
    BY <2>1, <2>2 DEF Request, Served
  <2>4. req' = [req EXCEPT ![w] = r] /\ UNCHANGED <<rows, slots, edition, used, overtaken>>
    BY <1>1, <1>4, <2>1 DEF ReadSlots, TypeOK
  <2> QED BY <2>3, <2>4
<1>5. CASE Abandon(w)
  BY <1>5 DEF Abandon
<1>6. CASE TakeNumber(w)
  <2> DEFINE n == Cardinality(Taken) + 1 + req[w].tries
             r == [req[w] EXCEPT !.step = "numbered", !.num = n]
  <2>1. req[w] \in Request /\ req[w] # Idle /\ Served(req[w])
    BY <1>1, <1>6 DEF TypeOK, TakeNumber, Idle, RequestsServed
  <2>2. n \in Nat \ {0} /\ n <= Cardinality(used) + MaxAttempts
    <3>1. Cardinality(Taken) \in Nat /\ Cardinality(used) \in Nat
      BY <1>1, TakenAreUsed, FS_CardinalityType DEF NumbersAreIssued
    <3> QED BY <1>1, <1>2, <2>1, <3>1, TakenAreUsed DEF Request, Served
  <2>3. req' = [req EXCEPT ![w] = r] /\ req[w].op = "issue"
        /\ UNCHANGED <<rows, slots, edition, used, overtaken>>
    BY <1>1, <1>6, <2>1 DEF TakeNumber, TypeOK
  <2>4. r \in Request /\ Served(r)
    <3> HIDE DEF n
    <3> QED BY <2>1, <2>2, <2>3 DEF Request, Served
  <2> QED
    <3> HIDE DEF r
    <3> QED BY <2>3, <2>4
<1>7. CASE NumberTaken(w)
  <2> DEFINE r == [req[w] EXCEPT !.step = "again", !.tries = req[w].tries + 1]
  <2>1. req[w] \in Request /\ req[w] # Idle /\ Served(req[w]) /\ req[w].step = "numbered"
    BY <1>1, <1>7 DEF TypeOK, NumberTaken, Idle, RequestsServed
  <2>2. req' = [req EXCEPT ![w] = IF req[w].tries + 1 = MaxAttempts THEN Idle ELSE r]
        /\ UNCHANGED <<rows, slots, edition, used, overtaken>>
    BY <1>7 DEF NumberTaken
  <2>3. CASE req[w].tries + 1 = MaxAttempts
    BY <2>2, <2>3
  <2>4. CASE req[w].tries + 1 # MaxAttempts
    <3>1. req[w].tries \in Nat /\ req[w].tries + 1 < MaxAttempts
      BY <1>2, <2>1, <2>4 DEF Request, Served
    <3>2. req[w].tries + 1 \in Nat
      BY <3>1
    <3>3. r \in Request
      BY <2>1, <3>2 DEF Request
    <3>4. /\ r.letter = req[w].letter /\ r.op = req[w].op /\ r.member = req[w].member
          /\ r.status = req[w].status /\ r.ref = req[w].ref
          /\ r.step = "again" /\ r.tries = req[w].tries + 1
      BY <2>1 DEF Request
    <3>5. Served(r)
      <4> HIDE DEF r
      <4> QED BY <2>1, <3>1, <3>4 DEF Served
    <3> HIDE DEF r
    <3> QED BY <2>2, <2>4, <3>3, <3>5
  <2> QED BY <2>3, <2>4
<1>8. CASE Reload(w)
  <2> DEFINE row == rows[req[w].letter]
             r == [req[w] EXCEPT !.step = "decided", !.status = row.status, !.ref = row.ref]
  <2>1. req[w] \in Request /\ req[w] # Idle /\ Served(req[w]) /\ req[w].op = "issue"
    BY <1>1, <1>8 DEF TypeOK, Reload, Idle, RequestsServed, Served
  <2>2. row \in Row /\ (row.status \in Public => row.ref # 0)
    BY <1>1, <1>8, <2>1 DEF Reload, Exists, TypeOK, Request, IssuedIsSigned, Public
  <2>3. req' = [req EXCEPT ![w] = r] /\ UNCHANGED <<rows, slots, edition, used, overtaken>>
    BY <1>1, <1>8, <2>1 DEF Reload, TypeOK
  <2>4. r \in Request /\ Served(r)
    BY <2>1, <2>2 DEF Request, Served, Row
  <2> QED
    <3> HIDE DEF r
    <3> QED BY <2>3, <2>4
<1> QED BY <1>3, <1>4, <1>5, <1>6, <1>7, <1>8

\* A step moves a request on, or is one of five kinds of commit.
LEMMA Steps ==
    ASSUME IInv, Next
    PROVE  \/ \E w \in Workers : Handled(w)
           \/ \E l \in Letters : Created(l)
           \/ \E w \in Workers, l \in Letters : Edited(w, l)
           \/ \E w \in Workers, l \in Letters : Deleted(w, l)
           \/ \E w \in Workers, l \in Letters : \E op \in Ops : Turned(w, op, l)
           \/ \E w \in Workers, l \in Letters : Issued(w, l)
<1>1. TypeOK /\ RequestsServed
  BY DEF IInv
<1>2. PICK w \in Workers : Next!(w)
  BY DEF Next
<1>3. CASE ReadLetter(w) \/ ReadSlots(w) \/ Abandon(w) \/ TakeNumber(w) \/ NumberTaken(w) \/ Reload(w)
  BY <1>3, RequestMoves
<1>4. CASE Create(w)
  BY <1>1, <1>4, CreateEffect
<1>5. CASE Update(w)
  BY <1>1, <1>5, UpdateEffect
<1>6. CASE Delete(w)
  BY <1>1, <1>6, DeleteEffect
<1>7. CASE Send(w)
  BY <1>1, <1>7, SendEffect, OpsAre
<1>8. CASE Recall(w)
  BY <1>1, <1>8, RecallEffect, OpsAre
<1>9. CASE Sign(w) \/ Decline(w) \/ MarkPaper(w)
  BY <1>1, <1>9, AnswerEffect, OpsAre DEF Sign, Decline, MarkPaper, SlotOps
<1>10. CASE Revoke(w)
  BY <1>1, <1>10, RevokeEffect, OpsAre
<1>11. CASE Issue(w)
  BY <1>1, <1>11, IssueEffect
<1> QED BY <1>2, <1>3, <1>4, <1>5, <1>6, <1>7, <1>8, <1>9, <1>10, <1>11

-----------------------------------------------------------------------------
(* The inductive invariant, part by part *)

LEMMA InitIInv == Init => IInv
<1> SUFFICES ASSUME Init PROVE IInv
  OBVIOUS
<1>1. TypeOK
  BY DEF Init, TypeOK, Empty, Panel
<1>2. IsFiniteSet(used) /\ Cardinality(used) = 0
  BY FS_EmptySet DEF Init
<1>3. \A l \in Letters : ~Exists(l)
  BY DEF Init, Exists
<1> QED
  BY <1>1, <1>2, <1>3 DEF Init, IInv, RequestsServed, NothingBeforeCreation, NumbersAreIssued,
     SlotsMatchText, AwaitingHasSlots, IssuedIsSigned, DraftsHaveNoNumber, NumbersAreFinal,
     NumbersInReach

\* A number about to be issued is positive.
LEMMA NumberedIs ==
    ASSUME IInv, NEW w \in Workers, NEW l \in Letters, Issued(w, l)
    PROVE  /\ Numbered(w, l) \in Nat \ {0}
           /\ Numbered(w, l) <= Cardinality(used) + MaxAttempts
<1>1. TypeOK /\ RequestsServed /\ NumbersAreIssued /\ NumbersInReach
  BY DEF IInv
<1>2. req[w] \in Request /\ req[w].letter = l /\ rows[l] \in Row /\ Exists(l) /\ req[w].step = "numbered"
  BY DEF Issued, Ends, Exists
<1>3. Served(req[w])
  BY <1>1, <1>2 DEF RequestsServed, Request, Idle
<1>4. Cardinality(used) \in Nat /\ MaxAttempts \in Nat
  BY <1>1, FS_CardinalityType, LettersAssumption DEF NumbersAreIssued, LettersAssumption
<1>5. rows[l].ref # 0 => rows[l].ref <= Cardinality(used) + MaxAttempts
  <2> SUFFICES ASSUME rows[l].ref # 0 PROVE rows[l].ref <= Cardinality(used) + MaxAttempts
    OBVIOUS
  <2>1. <<l, rows[l].ref>> \in used
    BY <1>1, <1>2 DEF NumbersAreIssued
  <2>2. rows[l].ref <= Cardinality(used) + MaxAttempts - 1
    BY <1>1, <2>1 DEF NumbersInReach
  <2>3. rows[l].ref \in Nat
    BY <1>2 DEF Row
  <2> QED BY <1>4, <2>2, <2>3
<1> QED BY <1>2, <1>3, <1>5 DEF Numbered, Request, Served, Row

\* Every step keeps the types.
LEMMA TypeStep == ASSUME IInv, Next PROVE TypeOK'
<1>1. TypeOK
  BY DEF IInv
<1>2. CASE \E w \in Workers : Handled(w)
  BY <1>1, <1>2 DEF Handled, TypeOK
<1>3. CASE \E l \in Letters : Created(l)
  BY <1>1, <1>3 DEF Created, OnlyOn, TypeOK
<1>4. CASE \E w \in Workers, l \in Letters : Edited(w, l)
  BY <1>1, <1>4 DEF Edited, Ends, OnlyOn, TypeOK
<1>5. CASE \E w \in Workers, l \in Letters : Deleted(w, l)
  BY <1>1, <1>5 DEF Deleted, Ends, OnlyOn, TypeOK
<1>6. CASE \E w \in Workers, l \in Letters : \E op \in Ops : Turned(w, op, l)
  BY <1>1, <1>6 DEF Turned, Ends, OnlyOn, TypeOK
<1>7. CASE \E w \in Workers, l \in Letters : Issued(w, l)
  <2>1. PICK w \in Workers, l \in Letters : Issued(w, l)
    BY <1>7
  <2>2. Numbered(w, l) \in Nat \ {0}
    BY <2>1, NumberedIs
  <2> QED BY <1>1, <2>1, <2>2 DEF Issued, Ends, OnlyOn, TypeOK
<1> QED BY <1>2, <1>3, <1>4, <1>5, <1>6, <1>7, Steps

\* A commit leaves what is known of the other requests: it never takes a number off a
\* letter, and numbers are only ever added to those that were issued.
LEMMA OthersServed ==
    ASSUME IInv, NEW w \in Workers, NEW l \in Letters, NEW op \in Ops, Ends(w, op, l), OnlyOn(l),
           rows'[l] # NoRow /\ rows[l].ref # 0 => rows'[l].ref # 0,
           IsFiniteSet(used'), Cardinality(used) <= Cardinality(used')
    PROVE  RequestsServed'
<1>1. TypeOK /\ RequestsServed /\ NumbersAreIssued
  BY DEF IInv
<1>2. Cardinality(used) \in Nat /\ Cardinality(used') \in Nat /\ MaxAttempts \in Nat
  BY <1>1, FS_CardinalityType, LettersAssumption DEF NumbersAreIssued, LettersAssumption
<1> SUFFICES ASSUME NEW v \in Workers, req'[v] # Idle PROVE Served(req[v])'
  BY DEF RequestsServed
<1> DEFINE r == req[v]
<1>3. v # w /\ req'[v] = r /\ r \in Request /\ Served(r)
  BY <1>1 DEF Ends, TypeOK, RequestsServed
<1>4. r.letter \in Letters /\ r.num \in Nat
  BY <1>3 DEF Request
<1>5. edition'[r.letter] # 0
  BY <1>3, <1>4 DEF OnlyOn, Served
<1>6. r.ref # 0 /\ rows'[r.letter] # NoRow => rows'[r.letter].ref # 0
  BY <1>3, <1>4 DEF OnlyOn, Served, Ends, Exists
<1>7. r.step = "numbered" => r.num # 0 /\ r.num <= Cardinality(used') + MaxAttempts
  BY <1>2, <1>3, <1>4 DEF Served
<1> HIDE DEF r
<1> QED BY <1>3, <1>5, <1>6, <1>7 DEF Served, Exists

LEMMA ServedStep == ASSUME IInv, Next PROVE RequestsServed'
<1>1. TypeOK /\ RequestsServed /\ NumbersAreIssued
  BY DEF IInv
<1>2. IsFiniteSet(used) /\ Cardinality(used) \in Nat
  BY <1>1, FS_CardinalityType DEF NumbersAreIssued
<1>3. CASE \E w \in Workers : Handled(w)
  <2>1. PICK w \in Workers : Handled(w)
    BY <1>3
  <2>2. PICK r \in Request \union {Idle} : req' = [req EXCEPT ![w] = r] /\ (r # Idle => Served(r))
    BY <2>1 DEF Handled
  <2>3. \A v \in Workers : req'[v] # Idle => Served(req'[v])
    BY <1>1, <2>2 DEF TypeOK, RequestsServed
  <2>4. UNCHANGED <<rows, edition, used>>
    BY <2>1 DEF Handled
  <2> QED BY <2>3, <2>4 DEF RequestsServed, Served, Exists
<1>4. CASE \E l \in Letters : Created(l)
  <2>1. PICK l \in Letters : Created(l)
    BY <1>4
  <2> SUFFICES ASSUME NEW v \in Workers, req'[v] # Idle PROVE Served(req[v])'
    BY DEF RequestsServed
  <2>2. req'[v] = req[v] /\ UNCHANGED used /\ req[v] \in Request /\ Served(req[v])
    BY <1>1, <2>1 DEF Created, RequestsServed, TypeOK
  <2>3. req[v].letter \in Letters \ {l}
    BY <2>1, <2>2 DEF Created, Served, Request
  <2>4. /\ edition'[req[v].letter] = edition[req[v].letter]
        /\ rows'[req[v].letter] = rows[req[v].letter]
    BY <2>1, <2>3 DEF Created, OnlyOn
  <2> QED BY <2>2, <2>4 DEF Served, Exists
<1>5. CASE \E w \in Workers, l \in Letters : Edited(w, l)
  BY <1>2, <1>5, OthersServed, OpsAre DEF Edited
<1>6. CASE \E w \in Workers, l \in Letters : Deleted(w, l)
  BY <1>2, <1>6, OthersServed, OpsAre DEF Deleted
<1>7. CASE \E w \in Workers, l \in Letters : \E op \in Ops : Turned(w, op, l)
  BY <1>2, <1>7, OthersServed, OpsAre DEF Turned
<1>8. CASE \E w \in Workers, l \in Letters : Issued(w, l)
  <2>1. PICK w \in Workers, l \in Letters : Issued(w, l)
    BY <1>8
  <2>2. rows'[l].ref # 0
    BY <2>1, NumberedIs DEF Issued
  <2>3. IsFiniteSet(used') /\ Cardinality(used) <= Cardinality(used')
    BY <1>2, <2>1, OneMore DEF Issued
  <2> QED BY <2>1, <2>2, <2>3, OthersServed, OpsAre DEF Issued
<1> QED BY <1>3, <1>4, <1>5, <1>6, <1>7, <1>8, Steps
LEMMA CreationStep == ASSUME IInv, Next PROVE NothingBeforeCreation'
<1>1. TypeOK /\ NothingBeforeCreation
  BY DEF IInv
<1> SUFFICES ASSUME NEW k \in Letters, edition'[k] = 0
             PROVE  rows'[k] = NoRow /\ \A u \in used' : u[1] # k
  BY DEF NothingBeforeCreation, Exists
<1>2. CASE \E w \in Workers : Handled(w)
  BY <1>1, <1>2 DEF Handled, NothingBeforeCreation, Exists
<1>3. CASE \E l \in Letters : Created(l)
  BY <1>1, <1>3 DEF Created, OnlyOn, NothingBeforeCreation, Exists
<1>4. CASE \E w \in Workers, l \in Letters : Edited(w, l)
  BY <1>1, <1>4 DEF Edited, OnlyOn, NothingBeforeCreation, Exists
<1>5. CASE \E w \in Workers, l \in Letters : Deleted(w, l)
  BY <1>1, <1>5 DEF Deleted, OnlyOn, NothingBeforeCreation, Exists
<1>6. CASE \E w \in Workers, l \in Letters : \E op \in Ops : Turned(w, op, l)
  BY <1>1, <1>6 DEF Turned, OnlyOn, Ends, NothingBeforeCreation, Exists
<1>7. CASE \E w \in Workers, l \in Letters : Issued(w, l)
  <2>1. PICK w \in Workers, l \in Letters : Issued(w, l)
    BY <1>7
  <2>2. k # l
    BY <1>1, <2>1 DEF Issued, OnlyOn, Ends, NothingBeforeCreation, Exists
  <2> QED BY <1>1, <2>1, <2>2 DEF Issued, OnlyOn, NothingBeforeCreation, Exists
<1> QED BY <1>2, <1>3, <1>4, <1>5, <1>6, <1>7, Steps

LEMMA NumbersStep == ASSUME IInv, Next PROVE NumbersAreIssued'
<1>1. TypeOK /\ NumbersAreIssued
  BY DEF IInv
<1>2. CASE UNCHANGED used
  <2> SUFFICES ASSUME NEW k \in Letters, rows'[k] # NoRow, rows'[k].ref # 0
               PROVE  <<k, rows'[k].ref>> \in used
    BY <1>1, <1>2 DEF NumbersAreIssued, Exists
  <2>1. rows[k] # NoRow /\ rows[k].ref = rows'[k].ref => <<k, rows'[k].ref>> \in used
    BY <1>1 DEF NumbersAreIssued, Exists
  <2>2. CASE \E w \in Workers : Handled(w)
    BY <2>1, <2>2 DEF Handled
  <2>3. CASE \E l \in Letters : Created(l)
    BY <2>1, <2>3 DEF Created, OnlyOn
  <2>4. CASE \E w \in Workers, l \in Letters : Edited(w, l)
    BY <2>1, <2>4 DEF Edited, OnlyOn, Ends
  <2>5. CASE \E w \in Workers, l \in Letters : Deleted(w, l)
    BY <2>1, <2>5 DEF Deleted, OnlyOn
  <2>6. CASE \E w \in Workers, l \in Letters : \E op \in Ops : Turned(w, op, l)
    BY <2>1, <2>6 DEF Turned, OnlyOn, Ends
  <2>7. CASE \E w \in Workers, l \in Letters : Issued(w, l)
    <3>1. PICK w \in Workers, l \in Letters : Issued(w, l)
      BY <2>7
    <3>2. CASE k = l
      BY <1>2, <3>1, <3>2 DEF Issued
    <3>3. CASE k # l
      BY <2>1, <3>1, <3>3 DEF Issued, OnlyOn
    <3> QED BY <3>2, <3>3
  <2> QED BY <2>2, <2>3, <2>4, <2>5, <2>6, <2>7, Steps
<1>3. CASE \E w \in Workers, l \in Letters : Issued(w, l)
  <2>1. PICK w \in Workers, l \in Letters : Issued(w, l)
    BY <1>3
  <2>2. IsFiniteSet(used')
    BY <1>1, <2>1, OneMore DEF Issued, NumbersAreIssued
  <2>3. \A k \in Letters : rows'[k] # NoRow /\ rows'[k].ref # 0 => <<k, rows'[k].ref>> \in used'
    BY <1>1, <2>1 DEF Issued, OnlyOn, NumbersAreIssued, Exists
  <2> QED BY <2>2, <2>3 DEF NumbersAreIssued, Exists
<1> QED BY <1>2, <1>3, Steps DEF Handled, Created, Edited, Deleted, Turned

\* An edit writes the text its signatories get; nothing else changes a text, and
\* nothing else adds a signatory.
LEMMA TextStep == ASSUME IInv, Next PROVE SlotsMatchText'
<1>1. TypeOK /\ SlotsMatchText
  BY DEF IInv
<1> SUFFICES ASSUME NEW k \in Letters, k \notin overtaken', NEW m \in Members,
                    rows'[k] # NoRow, slots'[k][m] # NoSlot
             PROVE  slots'[k][m].text = rows'[k].text
  BY DEF SlotsMatchText, Exists
<1>2. k \notin overtaken /\ rows[k] # NoRow /\ slots[k][m] # NoSlot => slots[k][m].text = rows[k].text
  BY <1>1 DEF SlotsMatchText, Exists
<1>3. CASE \E w \in Workers : Handled(w)
  BY <1>2, <1>3 DEF Handled
<1>4. CASE \E l \in Letters : Created(l)
  BY <1>2, <1>4 DEF Created, OnlyOn
<1>5. CASE \E w \in Workers, l \in Letters : Edited(w, l)
  BY <1>2, <1>5 DEF Edited, Ends, OnlyOn
<1>6. CASE \E w \in Workers, l \in Letters : Deleted(w, l)
  BY <1>2, <1>6 DEF Deleted, Ends, OnlyOn
<1>7. CASE \E w \in Workers, l \in Letters : \E op \in Ops : Turned(w, op, l)
  BY <1>2, <1>7 DEF Turned, Ends, OnlyOn
<1>8. CASE \E w \in Workers, l \in Letters : Issued(w, l)
  BY <1>2, <1>8 DEF Issued, Ends, OnlyOn
<1> QED BY <1>3, <1>4, <1>5, <1>6, <1>7, <1>8, Steps

\* A letter is sent with its signatories, and only a draft loses them.
LEMMA AwaitingStep == ASSUME IInv, Next PROVE AwaitingHasSlots'
<1>1. TypeOK /\ AwaitingHasSlots
  BY DEF IInv
<1> SUFFICES ASSUME NEW k \in Letters, k \notin overtaken', rows'[k] # NoRow,
                    rows'[k].status = "AWAITING"
             PROVE  \E m \in Members : slots'[k][m] # NoSlot
  BY DEF AwaitingHasSlots, Exists, HasSlots
<1>2. k \notin overtaken /\ rows[k] # NoRow /\ rows[k].status = "AWAITING"
         => \E m \in Members : slots[k][m] # NoSlot
  BY <1>1 DEF AwaitingHasSlots, Exists, HasSlots
<1>3. CASE \E w \in Workers : Handled(w)
  BY <1>2, <1>3 DEF Handled
<1>4. CASE \E l \in Letters : Created(l)
  BY <1>2, <1>4 DEF Created, OnlyOn
<1>5. CASE \E w \in Workers, l \in Letters : Edited(w, l)
  BY <1>2, <1>5 DEF Edited, Ends, OnlyOn, Needs
<1>6. CASE \E w \in Workers, l \in Letters : Deleted(w, l)
  BY <1>2, <1>6 DEF Deleted, Ends, OnlyOn
<1>7. CASE \E w \in Workers, l \in Letters : \E op \in Ops : Turned(w, op, l)
  <2>1. PICK w \in Workers, l \in Letters : \E op \in Ops : Turned(w, op, l)
    BY <1>7
  <2>2. PICK op \in Ops : Turned(w, op, l)
    BY <2>1
  <2>3. CASE k # l
    BY <1>2, <2>2, <2>3 DEF Turned, Ends, OnlyOn
  <2>4. CASE k = l /\ op = "send"
    BY <2>2, <2>4 DEF Turned, Ends, Passes, HasSlots
  <2>5. CASE k = l /\ op \in SlotOps
    BY <1>2, <2>2, <2>5 DEF Turned, Ends, SlotOps
  <2>6. ~(k = l /\ op \in {"recall", "revoke"})
    BY <2>2 DEF Turned, SlotOps
  <2> QED BY <2>2, <2>3, <2>4, <2>5, <2>6 DEF Turned
<1>8. CASE \E w \in Workers, l \in Letters : Issued(w, l)
  BY <1>2, <1>8 DEF Issued, Ends, OnlyOn
<1> QED BY <1>3, <1>4, <1>5, <1>6, <1>7, <1>8, Steps

\* A letter is issued when everyone has answered, and nothing that may be done to
\* it then touches its number or its signatories.
LEMMA SignedStep == ASSUME IInv, Next PROVE IssuedIsSigned'
<1>1. TypeOK /\ RequestsServed /\ AwaitingHasSlots /\ IssuedIsSigned
  BY DEF IInv
<1> SUFFICES ASSUME NEW k \in Letters, rows'[k] # NoRow, rows'[k].status \in Public
             PROVE  /\ rows'[k].ref # 0
                    /\ k \in overtaken' \/ (HasSlots(slots'[k]) /\ AllDone(slots'[k]))
  BY DEF IssuedIsSigned, Exists, Public
<1>2. rows[k] # NoRow /\ rows[k].status \in Public =>
         /\ rows[k].ref # 0
         /\ k \in overtaken \/ (HasSlots(slots[k]) /\ AllDone(slots[k]))
  BY <1>1 DEF IssuedIsSigned, Exists, Public
<1>3. CASE \E w \in Workers : Handled(w)
  BY <1>2, <1>3 DEF Handled
<1>4. CASE \E l \in Letters : Created(l)
  BY <1>2, <1>4 DEF Created, OnlyOn, Public
<1>5. CASE \E w \in Workers, l \in Letters : Edited(w, l)
  BY <1>2, <1>5 DEF Edited, Ends, OnlyOn, Needs, Public
<1>6. CASE \E w \in Workers, l \in Letters : Deleted(w, l)
  BY <1>2, <1>6 DEF Deleted, Ends, OnlyOn
<1>7. CASE \E w \in Workers, l \in Letters : \E op \in Ops : Turned(w, op, l)
  <2>1. PICK w \in Workers, l \in Letters : \E op \in Ops : Turned(w, op, l)
    BY <1>7
  <2>2. PICK op \in Ops : Turned(w, op, l)
    BY <2>1
  <2>3. CASE k # l
    BY <1>2, <2>2, <2>3 DEF Turned, Ends, OnlyOn
  <2>4. CASE k = l /\ op \in SlotOps
    BY <1>2, <2>2, <2>4 DEF Turned, Ends, SlotOps, Needs, Public
  <2>5. CASE k = l /\ op = "revoke"
    <3>1. req[w] \in Request /\ req[w].op = "revoke" /\ req[w].letter = l /\ rows[l] # NoRow
      BY <2>2, <2>5 DEF Turned, Ends
    <3>2. rows[l].ref # 0
      BY <1>1, <3>1 DEF RequestsServed, Served, Request, Idle, Exists
    <3>3. k \notin overtaken' => HasSlots(slots'[k]) /\ AllDone(slots'[k])
      BY <1>2, <2>2, <2>5 DEF Turned, Ends, Needs, Public, SlotOps
    <3> QED BY <2>2, <2>5, <3>2, <3>3 DEF Turned
  <2>6. ~(k = l /\ op \in {"send", "recall"})
    BY <2>2 DEF Turned, SlotOps, Public
  <2> QED BY <2>2, <2>3, <2>4, <2>5, <2>6 DEF Turned
<1>8. CASE \E w \in Workers, l \in Letters : Issued(w, l)
  <2>1. PICK w \in Workers, l \in Letters : Issued(w, l)
    BY <1>8
  <2>2. CASE k # l
    BY <1>2, <2>1, <2>2 DEF Issued, Ends, OnlyOn
  <2>3. CASE k = l
    <3>1. rows'[k].ref # 0
      BY <2>1, <2>3, NumberedIs DEF Issued
    <3>2. k \notin overtaken' => HasSlots(slots[k]) /\ AllDone(slots[k])
      BY <1>1, <2>1, <2>3 DEF Issued, Ends, Needs, Passes, AwaitingHasSlots, Exists
    <3> QED BY <2>1, <3>1, <3>2 DEF Issued
  <2> QED BY <2>2, <2>3
<1> QED BY <1>3, <1>4, <1>5, <1>6, <1>7, <1>8, Steps

\* As long as nothing is overtaken, an issue gives its letter the number it has taken.
LEMMA IssueOfUnnumbered ==
    ASSUME IInv, NEW w \in Workers, NEW l \in Letters, Issued(w, l), overtaken' = {}
    PROVE  /\ overtaken = {} /\ rows[l].ref = 0 /\ rows[l] # NoRow
           /\ rows'[l].status = "ISSUED" /\ rows'[l].ref # 0
           /\ \A k \in Letters \ {l} : rows[k] # NoRow => rows[k].ref # rows'[l].ref
<1>1. RequestsServed /\ DraftsHaveNoNumber
  BY DEF IInv
<1>2. overtaken = {} /\ rows[l] # NoRow /\ rows[l].status = "AWAITING" /\ req[w] \in Request
      /\ req[w].letter = l
  BY DEF Issued, Ends, Needs
<1>3. rows[l].ref = 0
  BY <1>1, <1>2 DEF DraftsHaveNoNumber, Exists, Public
<1>4. req[w].ref = 0 /\ req[w].status # "ISSUED" /\ req[w].num # 0
  BY <1>1, <1>2, <1>3 DEF RequestsServed, Served, Request, Idle, Exists, Public, Issued
<1>5. rows'[l].status = "ISSUED" /\ rows'[l].ref = req[w].num
  BY <1>4 DEF Issued, Numbered
<1>6. \A k \in Letters \ {l} : rows[k] # NoRow => rows[k].ref # req[w].num
  BY <1>2, <1>4 DEF Issued, Clash, Exists
<1> QED BY <1>2, <1>3, <1>4, <1>5, <1>6

\* Only an issue gives a number, and only a revocation ends what it began.
LEMMA DraftsStep == ASSUME IInv, Next PROVE DraftsHaveNoNumber'
<1>1. TypeOK /\ DraftsHaveNoNumber
  BY DEF IInv
<1> SUFFICES ASSUME overtaken' = {}, NEW k \in Letters, rows'[k] # NoRow, rows'[k].status \notin Public
             PROVE  rows'[k].ref = 0
  BY DEF DraftsHaveNoNumber, Exists
<1>2. overtaken = {} /\ rows[k] # NoRow /\ rows[k].status \notin Public => rows[k].ref = 0
  BY <1>1 DEF DraftsHaveNoNumber, Exists
<1>3. CASE \E w \in Workers : Handled(w)
  BY <1>2, <1>3 DEF Handled
<1>4. CASE \E l \in Letters : Created(l)
  BY <1>2, <1>4 DEF Created, OnlyOn
<1>5. CASE \E w \in Workers, l \in Letters : Edited(w, l)
  BY <1>2, <1>5 DEF Edited, Ends, OnlyOn
<1>6. CASE \E w \in Workers, l \in Letters : Deleted(w, l)
  BY <1>2, <1>6 DEF Deleted, Ends, OnlyOn
<1>7. CASE \E w \in Workers, l \in Letters : \E op \in Ops : Turned(w, op, l)
  <2>1. PICK w \in Workers, l \in Letters : \E op \in Ops : Turned(w, op, l)
    BY <1>7
  <2>2. PICK op \in Ops : Turned(w, op, l)
    BY <2>1
  <2>3. CASE k # l
    BY <1>2, <2>2, <2>3 DEF Turned, Ends, OnlyOn
  <2>4. CASE k = l
    <3>1. overtaken = {} /\ rows[k] # NoRow /\ rows[k].status = Needs[op] /\ rows'[k].ref = rows[k].ref
      BY <2>2, <2>4 DEF Turned, Ends
    <3>2. Needs[op] \in Public => op = "revoke"
      BY <2>2 DEF Turned, Needs, Public, SlotOps
    <3>3. op # "revoke"
      BY <2>2, <2>4 DEF Turned, Public, SlotOps
    <3> QED BY <1>2, <3>1, <3>2, <3>3
  <2> QED BY <2>3, <2>4
<1>8. CASE \E w \in Workers, l \in Letters : Issued(w, l)
  <2>1. PICK w \in Workers, l \in Letters : Issued(w, l)
    BY <1>8
  <2>2. k # l
    BY <2>1, IssueOfUnnumbered DEF Public
  <2> QED BY <1>2, <2>1, <2>2 DEF Issued, Ends, OnlyOn
<1> QED BY <1>3, <1>4, <1>5, <1>6, <1>7, <1>8, Steps

\* A number that was issued stays on its letter: what may be done to a letter with a
\* number leaves the number, and it is never deleted.
LEMMA FinalStep == ASSUME IInv, Next PROVE NumbersAreFinal'
<1>1. TypeOK /\ DraftsHaveNoNumber /\ NumbersAreFinal
  BY DEF IInv
<1> SUFFICES ASSUME overtaken' = {}
             PROVE  /\ \A u, v \in used' : u[1] = v[1] <=> u[2] = v[2]
                    /\ \A u \in used' : rows'[u[1]] # NoRow /\ rows'[u[1]].ref = u[2]
  BY DEF NumbersAreFinal, Exists
<1>2. ASSUME overtaken = {}
      PROVE  /\ \A u, v \in used : u[1] = v[1] <=> u[2] = v[2]
             /\ \A u \in used : /\ u[1] \in Letters /\ u[2] # 0
                                /\ rows[u[1]] # NoRow /\ rows[u[1]].ref = u[2]
                                /\ rows[u[1]].status \in Public
  BY <1>1, <1>2 DEF NumbersAreFinal, DraftsHaveNoNumber, Exists, TypeOK
<1>3. CASE \E w \in Workers : Handled(w)
  BY <1>2, <1>3 DEF Handled
<1>4. CASE \E l \in Letters : Created(l)
  <2>1. PICK l \in Letters : Created(l)
    BY <1>4
  <2>2. overtaken = {} /\ \A u \in used : u[1] # l
    BY <2>1 DEF Created, IInv, NothingBeforeCreation
  <2> QED BY <1>2, <2>1, <2>2 DEF Created, OnlyOn
<1>5. CASE \E w \in Workers, l \in Letters : Edited(w, l)
  <2>1. PICK w \in Workers, l \in Letters : Edited(w, l)
    BY <1>5
  <2>2. overtaken = {} /\ UNCHANGED used /\ rows'[l] \in Row /\ rows'[l].ref = rows[l].ref
    BY <2>1 DEF Edited, Ends
  <2> QED BY <1>2, <2>1, <2>2, MarksAssumption DEF Edited, OnlyOn
<1>6. CASE \E w \in Workers, l \in Letters : Deleted(w, l)
  <2>1. PICK w \in Workers, l \in Letters : Deleted(w, l)
    BY <1>6
  <2>2. overtaken = {} /\ UNCHANGED used /\ rows[l].status \notin Public
    BY <2>1 DEF Deleted, Ends, Needs, Public
  <2> QED BY <1>2, <2>1, <2>2 DEF Deleted, OnlyOn
<1>7. CASE \E w \in Workers, l \in Letters : \E op \in Ops : Turned(w, op, l)
  <2>1. PICK w \in Workers, l \in Letters : \E op \in Ops : Turned(w, op, l)
    BY <1>7
  <2>2. overtaken = {} /\ UNCHANGED used /\ rows'[l] \in Row /\ rows'[l].ref = rows[l].ref
    BY <2>1 DEF Turned, Ends
  <2> QED BY <1>2, <2>1, <2>2, MarksAssumption DEF Turned, OnlyOn
<1>8. CASE \E w \in Workers, l \in Letters : Issued(w, l)
  <2>1. PICK w \in Workers, l \in Letters : Issued(w, l)
    BY <1>8
  <2> DEFINE n == rows'[l].ref
  <2>2. /\ overtaken = {} /\ rows[l].ref = 0
        /\ \A k \in Letters \ {l} : rows[k] # NoRow => rows[k].ref # n
    BY <2>1, IssueOfUnnumbered
  <2>3. used' = used \union {<<l, n>>} /\ rows'[l] # NoRow
    BY <2>1, MarksAssumption DEF Issued
  <2>4. \A u \in used : u[1] # l /\ u[2] # n /\ rows'[u[1]] = rows[u[1]]
    BY <1>2, <2>1, <2>2 DEF Issued, OnlyOn
  <2> HIDE DEF n
  <2>5. \A u \in used' : u \in used \/ (u[1] = l /\ u[2] = n)
    BY <2>3
  <2>6. \A u, v \in used' : u[1] = v[1] <=> u[2] = v[2]
    BY <1>2, <2>2, <2>4, <2>5
  <2>7. \A u \in used' : rows'[u[1]] # NoRow /\ rows'[u[1]].ref = u[2]
    BY <1>2, <2>2, <2>3, <2>4, <2>5 DEF n
  <2> QED BY <2>6, <2>7
<1> QED BY <1>3, <1>4, <1>5, <1>6, <1>7, <1>8, Steps

\* With each number issued the count grows, and no number is further from it than
\* the attempts that a request has.
LEMMA ReachStep == ASSUME IInv, Next PROVE NumbersInReach'
<1>1. TypeOK /\ NumbersAreIssued /\ NumbersInReach
  BY DEF IInv
<1>2. CASE UNCHANGED used
  BY <1>1, <1>2 DEF NumbersInReach
<1>3. CASE \E w \in Workers, l \in Letters : Issued(w, l)
  <2>1. PICK w \in Workers, l \in Letters : Issued(w, l)
    BY <1>3
  <2> DEFINE n == Numbered(w, l)
  <2>2. n \in Nat /\ n <= Cardinality(used) + MaxAttempts
    BY <2>1, NumberedIs
  <2>3. used' = used \union {<<l, n>>}
    BY <2>1 DEF Issued
  <2> HIDE DEF n
  <2>4. /\ Cardinality(used) \in Nat /\ Cardinality(used') \in Nat
        /\ Cardinality(used) <= Cardinality(used')
        /\ <<l, n>> \notin used => Cardinality(used') = Cardinality(used) + 1
    BY <1>1, <2>3, OneMore DEF NumbersAreIssued
  <2>5. MaxAttempts \in Nat
    BY LettersAssumption DEF LettersAssumption
  <2>6. ASSUME NEW u \in used PROVE u[2] <= Cardinality(used') + MaxAttempts - 1
    <3>1. u[2] \in Nat /\ u[2] <= Cardinality(used) + MaxAttempts - 1
      BY <1>1 DEF NumbersInReach, TypeOK
    <3> QED BY <2>4, <2>5, <3>1
  <2>7. <<l, n>> \notin used => n <= Cardinality(used') + MaxAttempts - 1
    BY <2>2, <2>4, <2>5
  <2> QED BY <2>3, <2>6, <2>7 DEF NumbersInReach
<1> QED BY <1>2, <1>3, Steps DEF Handled, Created, Edited, Deleted, Turned

-----------------------------------------------------------------------------
(* The theorems *)

\* The conjunction of all these is an invariant.
THEOREM Invariance == Spec => []IInv
<1>1. IInv /\ UNCHANGED lettersVars => IInv'
  <2> SUFFICES ASSUME IInv, UNCHANGED lettersVars PROVE IInv'
    OBVIOUS
  <2> USE DEF lettersVars
  <2>1. Taken' = Taken /\ (\A l \in Letters : Exists(l)' <=> Exists(l))
    BY DEF Taken, Exists
  <2>2. \A w \in Workers : req[w] # Idle => Served(req[w])'
    BY DEF IInv, RequestsServed, Served, Exists
  <2> QED BY <2>2 DEF IInv, TypeOK, RequestsServed, NothingBeforeCreation, NumbersAreIssued,
          SlotsMatchText, AwaitingHasSlots, IssuedIsSigned, DraftsHaveNoNumber, NumbersAreFinal,
          NumbersInReach, Exists
<1>2. IInv /\ Next => IInv'
  BY TypeStep, ServedStep, CreationStep, NumbersStep, TextStep, AwaitingStep, SignedStep,
     DraftsStep, FinalStep, ReachStep DEF IInv
<1> QED BY InitIInv, <1>1, <1>2, PTL DEF Spec

\* Every variable of the letters keeps its type.
THEOREM TypeCorrect == Spec => []TypeOK
<1>1. IInv => TypeOK
  BY DEF IInv
<1> QED BY <1>1, Invariance, PTL

\* Whoever is on a letter was put there with the text that it has.
THEOREM SignedWhatIsWritten == Spec => []SlotsMatchText
<1>1. IInv => SlotsMatchText
  BY DEF IInv
<1> QED BY <1>1, Invariance, PTL

\* A letter goes out numbered and with everybody's answer.
THEOREM IssuedWithSignatures == Spec => []IssuedIsSigned
<1>1. IInv => IssuedIsSigned
  BY DEF IInv
<1> QED BY <1>1, Invariance, PTL

\* Two letters never had one number, nor one letter two.
THEOREM OneNumberEach == Spec => []NumbersAreFinal
<1>1. IInv => NumbersAreFinal
  BY DEF IInv
<1> QED BY <1>1, Invariance, PTL

\* An issue that nobody races finds a number.
THEOREM AttemptsSuffice == Spec => []LastAttemptIsFree
<1>1. IInv => LastAttemptIsFree
  <2> SUFFICES ASSUME IInv, overtaken = {} PROVE Cardinality(Taken) + MaxAttempts \notin Taken
    BY DEF LastAttemptIsFree
  <2>1. Cardinality(Taken) = Cardinality(used)
    BY AllAreTaken
  <2>2. \A n \in Taken : \E u \in used : u[2] = n
    BY DEF Taken, IInv, NumbersAreIssued
  <2>3. \A n \in Taken : n \in Nat /\ n <= Cardinality(used) + MaxAttempts - 1
    BY <2>2 DEF IInv, TypeOK, NumbersInReach
  <2>4. Cardinality(used) \in Nat /\ MaxAttempts \in Nat
    BY FS_CardinalityType, LettersAssumption DEF IInv, NumbersAreIssued, LettersAssumption
  <2> QED BY <2>1, <2>3, <2>4
<1> QED BY <1>1, Invariance, PTL

\* What was revoked stays revoked.
THEOREM RevocationsStand == Spec => RevokedIsFinal
<1> DEFINE A == \A l \in Letters : Exists(l) /\ rows[l].status = "REVOKED" =>
                   \/ rows'[l] # NoRow /\ rows'[l].status = "REVOKED"
                   \/ l \in overtaken'
<1>1. IInv /\ Next => A
  <2> SUFFICES ASSUME IInv, Next, NEW k \in Letters, rows[k] # NoRow, rows[k].status = "REVOKED",
                      k \notin overtaken'
               PROVE  rows'[k] # NoRow /\ rows'[k].status = "REVOKED"
    BY DEF Exists
  <2>1. CASE \E w \in Workers : Handled(w)
    BY <2>1 DEF Handled
  <2>2. CASE \E l \in Letters : Created(l)
    BY <2>2 DEF Created, OnlyOn, IInv, NothingBeforeCreation, Exists
  <2>3. CASE \E w \in Workers, l \in Letters : Edited(w, l)
    BY <2>3 DEF Edited, OnlyOn, Ends, Needs
  <2>4. CASE \E w \in Workers, l \in Letters : Deleted(w, l)
    BY <2>4 DEF Deleted, OnlyOn, Ends, Needs
  <2>5. CASE \E w \in Workers, l \in Letters : \E op \in Ops : Turned(w, op, l)
    BY <2>5 DEF Turned, OnlyOn, Ends, Needs, SlotOps
  <2>6. CASE \E w \in Workers, l \in Letters : Issued(w, l)
    BY <2>6 DEF Issued, OnlyOn, Ends, Needs
  <2> QED BY <2>1, <2>2, <2>3, <2>4, <2>5, <2>6, Steps
<1>2. IInv /\ UNCHANGED lettersVars => A
  BY DEF Exists, lettersVars
<1> QED BY <1>1, <1>2, Invariance, PTL DEF Spec, RevokedIsFinal
=============================================================================
