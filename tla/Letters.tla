------------------------------- MODULE Letters -------------------------------
(***************************************************************************)
(* Official letters: LetterService in services/letter_service.py.  A       *)
(* letter is drafted, sent to its signatories, signed or declined by each  *)
(* from their own login or marked for signing on paper, issued under a     *)
(* reference number, and perhaps revoked.                                  *)
(*                                                                         *)
(* A handler loads the letter and then its signatories (two SELECTs),      *)
(* checks them, and commits; nothing locks the letter in between.  The     *)
(* commit writes the columns the handler changed in the rows it loaded, so *)
(* it may come after a change that its check would have refused.  Workers  *)
(* are the threads of the pool: each serves one request after the other,   *)
(* and a request may end at any point without a commit (refused by a check *)
(* left out here, failed in the database, or dead with its process).       *)
(*                                                                         *)
(* Left out: passwords, the images of signatures and of the seal,          *)
(* placeholders in the text, mails, and which login is which member's: at  *)
(* most they refuse a request.  The years of the reference numbers: all    *)
(* letters here are dated in one year.                                     *)
(***************************************************************************)
EXTENDS Naturals, FiniteSets

CONSTANTS Workers, Letters, Members,
          Asks,         \* Asks[l]: the operations that are asked for on letter l
          Panels,       \* Panels[l]: the sets of members it is given as signatories
          MaxAttempts,  \* 5 in the code
          LastEdition,  \* bound: times a letter is written, its creation included
          LastNumber,   \* bound: reference numbers
          NoRow, NoSlot, Nobody

\* Mutant: a revoked letter may be deleted.
NeedsForTidying == [update |-> "DRAFT", delete |-> "REVOKED", send |-> "DRAFT",
                    recall |-> "AWAITING", sign |-> "AWAITING", decline |-> "AWAITING",
                    paper |-> "AWAITING", issue |-> "AWAITING", revoke |-> "ISSUED"]

\* The status each operation requires.
Needs == [update |-> "DRAFT", delete |-> "DRAFT", send |-> "DRAFT", recall |-> "AWAITING",
          sign |-> "AWAITING", decline |-> "AWAITING", paper |-> "AWAITING",
          issue |-> "AWAITING", revoke |-> "ISSUED"]
Ops == DOMAIN Needs

ASSUME LettersAssumption ==
    /\ \A l \in Letters : Asks[l] \subseteq Ops /\ Panels[l] \subseteq SUBSET Members
    /\ MaxAttempts \in Nat \ {0}
    /\ LastEdition \in Nat /\ LastNumber \in Nat
    /\ Nobody \notin Members

Statuses == {"DRAFT", "AWAITING", "ISSUED", "REVOKED"}
Row == [status : Statuses, ref : Nat, text : Nat]
\* "made" stands for the id of a signatory: the edition that put it on the letter,
\* whose text was "text".
Slot == [made : Nat, text : Nat, status : {"PENDING", "SIGNED", "PAPER", "DECLINED"}]
Panel == [Members -> Slot \union {NoSlot}]

ASSUME MarksAssumption == NoRow \notin Row /\ NoSlot \notin Slot

VARIABLES
    rows,     \* the row of each letter in official_letters; ref 0 stands for None
    slots,    \* its signatories in letter_signatories, at most one for a member
    edition,  \* how often each letter has been written: the sequence of slot ids
    req,      \* the request each worker serves
    used,     \* history: every <<letter, number>> ever issued
    overtaken \* history: letters that a request was committed to although what it
              \* had checked no longer held

lettersVars == <<rows, slots, edition, req, used, overtaken>>

SlotOps == {"sign", "decline", "paper"}

Idle == [step |-> "idle"]
Request == [step : {"slots", "decided", "numbered", "again"}, op : Ops, letter : Letters,
            member : Members \union {Nobody}, status : Statuses, ref : Nat, slots : Panel,
            num : Nat, tries : Nat]

Exists(l) == rows[l] # NoRow
Empty == [m \in Members |-> NoSlot]
Done == {"SIGNED", "PAPER"}
AllDone(panel) == \A m \in Members : panel[m] # NoSlot => panel[m].status \in Done
HasSlots(panel) == \E m \in Members : panel[m] # NoSlot
SameSlot(s, t) == IF s = NoSlot \/ t = NoSlot THEN s = t ELSE s.made = t.made

Taken == {rows[l].ref : l \in {k \in Letters : Exists(k)}} \ {0}

Init == /\ rows = [l \in Letters |-> NoRow]
        /\ slots = [l \in Letters |-> Empty]
        /\ edition = [l \in Letters |-> 0]
        /\ req = [w \in Workers |-> Idle]
        /\ used = {}
        /\ overtaken = {}
-----------------------------------------------------------------------------
(* Loading and checking *)

\* Mutant: only those who have not answered are waited for.
PassesDeclined(op, m, panel) ==
    /\ op = "send" => HasSlots(panel)
    /\ op \in {"sign", "decline"} => panel[m] # NoSlot /\ panel[m].status = "PENDING"
    /\ op = "paper" => panel[m] # NoSlot /\ panel[m].status \in {"PENDING", "DECLINED"}
    /\ op = "issue" => \A k \in Members : panel[k] # NoSlot => panel[k].status # "PENDING"

\* What an operation checks of the signatories, beyond the status of the letter.
Passes(op, m, panel) ==
    /\ op = "send" => HasSlots(panel)
    /\ op \in {"sign", "decline"} => panel[m] # NoSlot /\ panel[m].status = "PENDING"
    /\ op = "paper" => panel[m] # NoSlot /\ panel[m].status \in {"PENDING", "DECLINED"}
    /\ op = "issue" => AllDone(panel)

\* The check of a request still holds of the rows.  (An edit replaces the
\* signatories that it has loaded, so it relies on there being no others.)
StillAllowed(w) ==
    LET r == req[w]
    IN /\ rows[r.letter].status = Needs[r.op]
       /\ Passes(r.op, r.member, slots[r.letter])
       /\ r.op = "update" => \A m \in Members : SameSlot(slots[r.letter][m], r.slots[m])

\* The first SELECT.  A request that fails its check ends without a trace, so
\* only those that pass are followed.
ReadLetter(w) == \E l \in Letters, m \in Members \union {Nobody} : \E op \in Asks[l] :
    /\ req[w] = Idle
    /\ Exists(l) /\ rows[l].status = Needs[op]
    /\ op \in SlotOps <=> m # Nobody
    /\ req' = [req EXCEPT ![w] = [step |-> "slots", op |-> op, letter |-> l, member |-> m,
                                  status |-> rows[l].status, ref |-> rows[l].ref,
                                  slots |-> Empty, num |-> 0, tries |-> 0]]
    /\ UNCHANGED <<rows, slots, edition, used, overtaken>>

\* What it needs of the signatories when it commits: their ids, or their answers.
Keeps(op, m, panel) == [k \in Members |->
    IF op \in {"update", "recall"} \/ k = m THEN panel[k] ELSE NoSlot]

\* The second one, and the rest of the check.
ReadSlots(w) ==
    /\ req[w].step = "slots"
    /\ Passes(req[w].op, req[w].member, slots[req[w].letter])
    /\ req' = [req EXCEPT ![w].step = "decided",
                          ![w].slots = Keeps(req[w].op, req[w].member, slots[req[w].letter])]
    /\ UNCHANGED <<rows, slots, edition, used, overtaken>>

\* Every other way for a request to end: a failed check, a failed commit (a row it
\* updates is gone, a member it adds is there already), a dead process.
Abandon(w) ==
    /\ req[w] # Idle
    /\ req' = [req EXCEPT ![w] = Idle]
    /\ UNCHANGED <<rows, slots, edition, used, overtaken>>
-----------------------------------------------------------------------------
(* Committing *)

\* A request of w for op is committed to letter l.
Commits(w, op, l) ==
    /\ req[w].step = (IF op = "issue" THEN "numbered" ELSE "decided")
    /\ req[w].op = op /\ req[w].letter = l
    /\ Exists(l)
    /\ req' = [req EXCEPT ![w] = Idle]
    /\ overtaken' = IF StillAllowed(w) THEN overtaken ELSE overtaken \union {l}

SetStatus(l, s) == rows' = [rows EXCEPT ![l].status = s]

\* The signatory that the request has loaded is still there.
Loaded(w, l, m) == req[w].slots[m] # NoSlot /\ slots[l][m] # NoSlot
                   /\ SameSlot(slots[l][m], req[w].slots[m])

\* An answer is written to the signatory that was loaded.
Answer(w, op, s) == \E l \in Letters :
    /\ Commits(w, op, l)
    /\ Loaded(w, l, req[w].member)
    /\ slots' = [slots EXCEPT ![l][req[w].member].status = s]
    /\ UNCHANGED <<rows, edition, used>>

\* The signatories a panel of members gets, written with edition n of the letter.
Fresh(panel, n, text) == [m \in Members |->
    IF m \in panel THEN [made |-> n, text |-> text, status |-> "PENDING"] ELSE NoSlot]

Create(w) == \E l \in Letters : \E panel \in Panels[l] :
    /\ req[w] = Idle
    /\ edition[l] = 0
    /\ edition' = [edition EXCEPT ![l] = 1]
    /\ rows' = [rows EXCEPT ![l] = [status |-> "DRAFT", ref |-> 0, text |-> 1]]
    /\ slots' = [slots EXCEPT ![l] = Fresh(panel, 1, 1)]
    /\ UNCHANGED <<req, used, overtaken>>

\* Mutant: an edit adds the signatories it names and keeps the others.
UpdateKeeping(w) == \E l \in Letters, rewritten \in BOOLEAN : \E panel \in Panels[l] :
    LET n == edition[l] + 1
        text == IF rewritten THEN n ELSE rows[l].text
    IN /\ Commits(w, "update", l)
       /\ n <= LastEdition
       /\ edition' = [edition EXCEPT ![l] = n]
       /\ rows' = [rows EXCEPT ![l].text = text]
       /\ slots' = [slots EXCEPT ![l] = [m \in Members |->
                       IF slots[l][m] # NoSlot THEN slots[l][m] ELSE Fresh(panel, n, text)[m]]]
       /\ UNCHANGED used

\* An edit, of the text or of the signatories alone.  The signatories it has
\* loaded are deleted, the new ones inserted; others stay, and must be none of its own.
Update(w) == \E l \in Letters, rewritten \in BOOLEAN : \E panel \in Panels[l] :
    LET n == edition[l] + 1
        text == IF rewritten THEN n ELSE rows[l].text
        kept == {m \in Members : slots[l][m] # NoSlot /\ ~Loaded(w, l, m)}
    IN /\ Commits(w, "update", l)
       /\ n <= LastEdition
       /\ panel \cap kept = {}
       /\ edition' = [edition EXCEPT ![l] = n]
       /\ rows' = [rows EXCEPT ![l].text = text]
       /\ slots' = [slots EXCEPT ![l] = [m \in Members |->
                       IF m \in kept THEN slots[l][m] ELSE Fresh(panel, n, text)[m]]]
       /\ UNCHANGED used

Delete(w) == \E l \in Letters :
    /\ Commits(w, "delete", l)
    /\ rows' = [rows EXCEPT ![l] = NoRow]
    /\ slots' = [slots EXCEPT ![l] = Empty]
    /\ UNCHANGED <<edition, used>>

Send(w) == \E l \in Letters :
    /\ Commits(w, "send", l)
    /\ SetStatus(l, "AWAITING")
    /\ UNCHANGED <<slots, edition, used>>

\* Back to draft.  The answers it has loaded are cleared; a signatory loaded as
\* PENDING is not written at all.
Recall(w) == \E l \in Letters :
    LET cleared == {m \in Members : req[w].slots[m] # NoSlot /\ req[w].slots[m].status # "PENDING"}
    IN /\ Commits(w, "recall", l)
       /\ \A m \in cleared : Loaded(w, l, m)
       /\ SetStatus(l, "DRAFT")
       /\ slots' = [slots EXCEPT ![l] = [m \in Members |->
                       IF m \in cleared THEN [slots[l][m] EXCEPT !.status = "PENDING"]
                       ELSE slots[l][m]]]
       /\ UNCHANGED <<edition, used>>

Sign(w) == Answer(w, "sign", "SIGNED")
Decline(w) == Answer(w, "decline", "DECLINED")
MarkPaper(w) == Answer(w, "paper", "PAPER")

\* Mutant: the first number is the count itself.
TakeCount(w) ==
    LET n == Cardinality(Taken) + req[w].tries
    IN /\ req[w].step = "decided" /\ req[w].op = "issue"
       /\ n <= LastNumber
       /\ req' = [req EXCEPT ![w].step = "numbered", ![w].num = n]
       /\ UNCHANGED <<rows, slots, edition, used, overtaken>>

\* Mutant: each failed attempt leaps twice as far.
TakeNumberLeaping(w) ==
    LET n == Cardinality(Taken) + 1 + 2 * req[w].tries
    IN /\ req[w].step = "decided" /\ req[w].op = "issue"
       /\ req' = [req EXCEPT ![w].step = "numbered", ![w].num = n]
       /\ UNCHANGED <<rows, slots, edition, used, overtaken>>

\* _next_reference: one more than there are numbered letters, and one more again
\* for each attempt that has failed.
TakeNumber(w) ==
    LET n == Cardinality(Taken) + 1 + req[w].tries
    IN /\ req[w].step = "decided" /\ req[w].op = "issue"
       /\ n <= LastNumber
       /\ req' = [req EXCEPT ![w].step = "numbered", ![w].num = n]
       /\ UNCHANGED <<rows, slots, edition, used, overtaken>>

\* Mutant: reference_number is not a unique column.
ClashUnseen(w) == FALSE

\* Another letter has the number.
Clash(w) == /\ req[w].num # req[w].ref
            /\ \E k \in Letters \ {req[w].letter} : Exists(k) /\ rows[k].ref = req[w].num

\* The columns that differ from the row as loaded are written.
Issue(w) == \E l \in Letters :
    LET r == req[w]
        ref == IF r.num = r.ref THEN rows[l].ref ELSE r.num
        status == IF r.status = "ISSUED" THEN rows[l].status ELSE "ISSUED"
    IN /\ Commits(w, "issue", l)
       /\ ~Clash(w)
       /\ rows' = [rows EXCEPT ![l].status = status, ![l].ref = ref]
       /\ used' = used \union {<<l, ref>>}
       /\ UNCHANGED <<slots, edition>>

\* IntegrityError: the next attempt, or a 409 after the last.
NumberTaken(w) ==
    LET failed == req[w].tries + 1
    IN /\ req[w].step = "numbered"
       /\ Clash(w)
       /\ req' = [req EXCEPT ![w] = IF failed = MaxAttempts THEN Idle
                                    ELSE [req[w] EXCEPT !.step = "again", !.tries = failed]]
       /\ UNCHANGED <<rows, slots, edition, used, overtaken>>

\* The letter is loaded again, and not checked again.
Reload(w) ==
    /\ req[w].step = "again"
    /\ Exists(req[w].letter)
    /\ req' = [req EXCEPT ![w].step = "decided", ![w].status = rows[req[w].letter].status,
                          ![w].ref = rows[req[w].letter].ref]
    /\ UNCHANGED <<rows, slots, edition, used, overtaken>>

Revoke(w) == \E l \in Letters :
    /\ Commits(w, "revoke", l)
    /\ SetStatus(l, "REVOKED")
    /\ UNCHANGED <<slots, edition, used>>

Next == \E w \in Workers :
    \/ ReadLetter(w) \/ ReadSlots(w) \/ Abandon(w)
    \/ Create(w) \/ Update(w) \/ Delete(w) \/ Send(w) \/ Recall(w)
    \/ Sign(w) \/ Decline(w) \/ MarkPaper(w)
    \/ TakeNumber(w) \/ Issue(w) \/ NumberTaken(w) \/ Reload(w) \/ Revoke(w)

Spec == Init /\ [][Next]_lettersVars
-----------------------------------------------------------------------------
(* Properties *)

\* Every variable keeps its type.
TypeOK ==
    /\ rows \in [Letters -> Row \union {NoRow}]
    /\ slots \in [Letters -> Panel]
    /\ edition \in [Letters -> Nat]
    /\ req \in [Workers -> Request \union {Idle}]
    /\ used \subseteq Letters \X (Nat \ {0})
    /\ overtaken \subseteq Letters

\* No signature survives a change of the text: the signatories of a letter are those
\* it got with the text it has, unless an overtaken request was committed to it.
SlotsMatchText == \A l \in Letters \ overtaken, m \in Members :
    Exists(l) /\ slots[l][m] # NoSlot => slots[l][m].text = rows[l].text

\* A letter that was issued, revoked or not, has a number, and, unless an overtaken
\* request was committed to it, signatories, and the answer of every one of them.
IssuedIsSigned == \A l \in Letters :
    Exists(l) /\ rows[l].status \in {"ISSUED", "REVOKED"} =>
        /\ rows[l].ref # 0
        /\ l \in overtaken \/ (HasSlots(slots[l]) /\ AllDone(slots[l]))

\* A letter has one number for good, and a number one letter, deleted ones and lost
\* races for a number included, as long as no overtaken request is committed.
NumbersAreFinal == overtaken = {} =>
    /\ \A u, v \in used : u[1] = v[1] <=> u[2] = v[2]
    /\ \A u \in used : Exists(u[1]) /\ rows[u[1]].ref = u[2]

\* Losers of a race for a number leave gaps behind, but never so that the next issue runs
\* out of attempts: the number of its last one is free, if nobody races it and no overtaken
\* request was ever committed.
LastAttemptIsFree == overtaken = {} => Cardinality(Taken) + MaxAttempts \notin Taken

\* A revoked letter stays revoked, unless an overtaken request is committed to it.
RevokedIsFinal == [][\A l \in Letters :
    Exists(l) /\ rows[l].status = "REVOKED" =>
        \/ rows'[l] # NoRow /\ rows'[l].status = "REVOKED"
        \/ l \in overtaken']_lettersVars

-----------------------------------------------------------------------------
(* The inductive invariant behind the properties above *)

Public == {"ISSUED", "REVOKED"}

\* Where a request stands, what it has loaded, and how far its number may reach.
Served(r) ==
    /\ edition[r.letter] # 0
    /\ r.tries < MaxAttempts
    /\ r.op \in SlotOps => r.member # Nobody
    /\ r.step \in {"numbered", "again"} => r.op = "issue"
    /\ r.step = "numbered" => r.num # 0 /\ r.num <= Cardinality(used) + MaxAttempts
    /\ r.op = "revoke" \/ r.status \in Public => r.ref # 0
    /\ r.ref # 0 /\ Exists(r.letter) => rows[r.letter].ref # 0
RequestsServed == \A w \in Workers : req[w] # Idle => Served(req[w])

\* Nothing is known of a letter before it is written.
NothingBeforeCreation == \A l \in Letters :
    edition[l] = 0 => ~Exists(l) /\ \A u \in used : u[1] # l

\* The number on a letter was issued to it.
NumbersAreIssued == /\ IsFiniteSet(used)
                    /\ \A l \in Letters : Exists(l) /\ rows[l].ref # 0 => <<l, rows[l].ref>> \in used

\* A letter waits for somebody, unless it was overtaken; it is numbered when it is issued.
AwaitingHasSlots == \A l \in Letters \ overtaken :
    Exists(l) /\ rows[l].status = "AWAITING" => HasSlots(slots[l])
DraftsHaveNoNumber == overtaken = {} => \A l \in Letters :
    Exists(l) /\ rows[l].status \notin Public => rows[l].ref = 0

\* No number runs further ahead of the count than the attempts of an issue reach.
NumbersInReach == \A u \in used : u[2] <= Cardinality(used) + MaxAttempts - 1

IInv == /\ TypeOK /\ RequestsServed /\ NothingBeforeCreation /\ NumbersAreIssued
        /\ SlotsMatchText /\ AwaitingHasSlots /\ IssuedIsSigned
        /\ DraftsHaveNoNumber /\ NumbersAreFinal /\ NumbersInReach

-----------------------------------------------------------------------------
(* What the repository says and the code does not do *)

\* models/letter.py:5 "Once everyone has signed, an admin issues it": an issued
\* letter waits for nobody's answer.
EveryoneHasSigned == \A l \in Letters :
    Exists(l) /\ rows[l].status = "ISSUED" => AllDone(slots[l])
=============================================================================
