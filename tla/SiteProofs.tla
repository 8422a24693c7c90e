------------------------------- MODULE SiteProofs -------------------------------
(***************************************************************************)
(* Theorems about what Site keeps, tells and shows: the signatures on      *)
(* file, the alert about deletions, the answers to the contact form, the   *)
(* photos of blessings and the public pages, for every set of people,      *)
(* requests and rows that satisfies SiteAssumption, whatever interleaves   *)
(* with what; and the types of all the parts together.                     *)
(***************************************************************************)
EXTENDS AccessProofs

-----------------------------------------------------------------------------
(* HANDS.  What is on file of a member whom nothing disturbed is for the   *)
(* login they have now, and whoever signed with it has that login          *)
(* (HandsOnFileServes); an image that is retired is not signed with again. *)

HandsUndisturbed == Members \ (interfered \union severed)

\* What is on file of a member serves the member's login.
HandsOnFileServes == \A m \in HandsUndisturbed : \A i \in Hands!OnFile(m) :
    /\ images[i].login \in {holder[m], None}
    /\ \A s \in signings : s.image = i => s.login = holder[m]

\* A signing took an image of its member.
HandsOwnImages == \A s \in signings : images[s.image].owner = s.member

\* What a request loaded: nobody holds the seal; a signing is by the login it found, with
\* one image of the member.
HandsServed(q, table) ==
    /\ q.op \in {"sign", "link"} => q.owner \in Members
    /\ q.owner = Seal => q.saw = None
    /\ q.op = "sign" => q.by = q.saw /\ q.by \in Logins
    /\ q.op = "sign" /\ q.step = "ready" =>
           \E i \in DOMAIN table : q.images = {i} /\ table[i].owner = q.owner
HandsRequestsServed == \A r \in Requests : signing[r] \in Hands!Busy => HandsServed(signing[r], images)

\* The inductive invariant.
HandsInv == /\ Hands!TypeOK /\ HandsRequestsServed /\ HandsOwnImages /\ HandsOnFileServes
            /\ Hands!SignaturesFollowLogins
-----------------------------------------------------------------------------
(* Images *)

\* A finite set of numbers has a greatest: the smallest of the sets of those that are
\* no less than one of them.
LEMMA Greatest ==
    ASSUME NEW S \in SUBSET Nat, IsFiniteSet(S), S # {}
    PROVE  \E n \in S : \A k \in S : n >= k
<1> DEFINE Up(m) == {j \in S : j >= m}
           T == {Up(n) : n \in S}
           R == StrictSubsetOrdering(S)
<1>1. IsWellFoundedOn(R, FiniteSubsetsOf(S))
  BY FS_StrictSubsetOrderingWellFounded
<1>2. \A n \in S : Up(n) \in FiniteSubsetsOf(S)
  BY FS_Subset DEF FiniteSubsetsOf
<1>3. T \subseteq FiniteSubsetsOf(S) /\ T # {}
  BY <1>2
<1>4. \E U \in T : \A V \in T : <<V, U>> \notin R
  <2> HIDE DEF T, R
  <2> QED BY <1>1, <1>3, WFMin
<1>5. PICK n \in S : \A k \in S : <<Up(k), Up(n)>> \notin R
  BY <1>4
<1>6. ASSUME NEW k \in S, k > n PROVE FALSE
  <2>1. Up(k) \subseteq Up(n) /\ n \in Up(n) /\ n \notin Up(k)
    <3>1. k \in Nat /\ n \in Nat /\ \A j \in S : j \in Nat
      OBVIOUS
    <3>2. \A j \in S : j >= k => j >= n
      BY <1>6, <3>1
    <3>3. n >= n /\ ~(n >= k)
      BY <1>6, <3>1
    <3> QED BY <3>2, <3>3
  <2>2. <<Up(k), Up(n)>> \in R
    <3>1. Up(k) \in SUBSET S /\ Up(n) \in SUBSET S /\ Up(k) # Up(n)
      BY <2>1
    <3> HIDE DEF Up
    <3> QED BY <2>1, <3>1 DEF StrictSubsetOrdering
  <2> QED BY <1>5, <2>2
<1>7. \A k \in S : n >= k
  BY <1>6
<1> QED BY <1>7

LEMMA HandsGreatest ==
    ASSUME NEW S \in SUBSET Nat, IsFiniteSet(S), S # {}
    PROVE  Hands!Max(S) \in S
BY Greatest DEF Hands!Max

LEMMA HandsMaxOfOne == ASSUME NEW i \in Nat PROVE Hands!Max({i}) = i
BY DEF Hands!Max

LEMMA HandsImagesType ==
    ASSUME Hands!TypeOK
    PROVE  /\ DOMAIN images = 1..Len(images) /\ Len(images) \in Nat
           /\ \A i \in DOMAIN images : images[i] \in Hands!Image /\ i \in Nat
BY DEF Hands!TypeOK

LEMMA HandsLatest ==
    ASSUME Hands!TypeOK, NEW o, Hands!OnFile(o) # {}
    PROVE  Hands!Max(Hands!OnFile(o)) \in Hands!OnFile(o)
<1>1. Hands!OnFile(o) \subseteq 1..Len(images) /\ Len(images) \in Nat
  BY HandsImagesType DEF Hands!OnFile
<1>2. Hands!OnFile(o) \in SUBSET Nat /\ IsFiniteSet(Hands!OnFile(o))
  <2>1. IsFiniteSet(1..Len(images)) /\ 1..Len(images) \subseteq Nat
    BY <1>1, FS_Interval
  <2> QED BY <1>1, <2>1, FS_Subset
<1> QED BY <1>2, HandsGreatest

\* Retiring changes nothing else.
LEMMA HandsRetiredImages ==
    ASSUME Hands!TypeOK, NEW ids
    PROVE  /\ Hands!Retired(ids) \in Seq(Hands!Image) /\ Len(Hands!Retired(ids)) = Len(images)
           /\ DOMAIN Hands!Retired(ids) = DOMAIN images
           /\ \A i \in DOMAIN images : /\ Hands!Retired(ids)[i].owner = images[i].owner
                                       /\ Hands!Retired(ids)[i].login = images[i].login
                                       /\ Hands!Retired(ids)[i].retired = (images[i].retired \/ i \in ids)
<1>1. \A i \in DOMAIN images : /\ images[i] \in Hands!Image
                               /\ Hands!Retired(ids)[i] = [images[i] EXCEPT !.retired = @ \/ i \in ids]
  BY HandsImagesType DEF Hands!Retired
<1>2. ASSUME NEW i \in DOMAIN images
      PROVE  /\ Hands!Retired(ids)[i] \in Hands!Image
             /\ Hands!Retired(ids)[i].owner = images[i].owner /\ Hands!Retired(ids)[i].login = images[i].login
             /\ Hands!Retired(ids)[i].retired = (images[i].retired \/ i \in ids)
  BY <1>1 DEF Hands!Image
<1>3. Hands!Retired(ids) \in [1..Len(images) -> Hands!Image] /\ Len(images) \in Nat
  BY <1>2, HandsImagesType DEF Hands!Retired
<1>4. Hands!Retired(ids) \in Seq(Hands!Image) /\ Len(Hands!Retired(ids)) = Len(images)
  BY <1>3
<1> QED BY <1>2, <1>3, <1>4, HandsImagesType
-----------------------------------------------------------------------------
(* What every step keeps *)

LEMMA HandsWaiting ==
    ASSUME HandsInv, NEW r \in Requests, signing[r].step \in {"loaded", "ready"}
    PROVE  signing[r] \in Hands!Busy /\ HandsServed(signing[r], images)
<1>1. signing[r] \in Hands!Busy
  BY DEF HandsInv, Hands!TypeOK, Hands!Idle, Hands!Over
<1> QED BY <1>1 DEF HandsInv, HandsRequestsServed

\* Images are never taken away, and keep their owner and login.
HandsGrown == \A i \in DOMAIN images : /\ i \in DOMAIN images' /\ images'[i].owner = images[i].owner
                                       /\ images'[i].login = images[i].login

LEMMA HandsOthersServed ==
    ASSUME HandsInv, NEW r \in Requests, NEW q \in {Hands!Idle, Hands!Over} \union Hands!Busy,
           signing' = [signing EXCEPT ![r] = q], q \in Hands!Busy => HandsServed(q, images'), HandsGrown
    PROVE  HandsRequestsServed' /\ signing' \in [Requests -> {Hands!Idle, Hands!Over} \union Hands!Busy]
<1>1. signing' \in [Requests -> {Hands!Idle, Hands!Over} \union Hands!Busy]
  BY DEF HandsInv, Hands!TypeOK
<1>2. ASSUME NEW s \in Requests, signing'[s] \in Hands!Busy PROVE HandsServed(signing'[s], images')
  <2>1. CASE s = r
    <3>1. signing'[s] = q
      BY <2>1 DEF HandsInv, Hands!TypeOK
    <3> QED BY <1>2, <3>1
  <2>2. CASE s # r
    <3>1. signing'[s] = signing[s] /\ HandsServed(signing[s], images)
      BY <1>2, <2>2 DEF HandsInv, Hands!TypeOK, HandsRequestsServed
    <3> QED BY <3>1 DEF HandsServed, HandsGrown
  <2> QED BY <2>1, <2>2
<1> QED BY <1>1, <1>2 DEF HandsRequestsServed

LEMMA HandsEndsStep ==
    ASSUME HandsInv, NEW r \in Requests, Hands!End(r), HandsGrown
    PROVE  HandsRequestsServed' /\ signing' \in [Requests -> {Hands!Idle, Hands!Over} \union Hands!Busy]
<1>1. Hands!Over \notin Hands!Busy /\ Hands!Over \in {Hands!Idle, Hands!Over} \union Hands!Busy
  BY DEF Hands!Over, Hands!Busy
<1> QED BY <1>1, HandsOthersServed DEF Hands!End

LEMMA HandsSameSignings ==
    ASSUME HandsInv, HandsGrown, UNCHANGED signings, interfered \subseteq interfered',
           severed \subseteq severed'
    PROVE  /\ HandsOwnImages' /\ Hands!SignaturesFollowLogins'
           /\ signings' \subseteq [member : Members, login : Logins, image : DOMAIN images']
<1>1. \A s \in signings : s.image \in DOMAIN images /\ s.member \in Members /\ s.login \in Logins
  BY DEF HandsInv, Hands!TypeOK
<1>2. HandsOwnImages'
  BY <1>1 DEF HandsInv, HandsOwnImages, HandsGrown
<1>3. Hands!SignaturesFollowLogins'
  BY <1>1 DEF HandsInv, Hands!SignaturesFollowLogins, HandsGrown
<1>4. DOMAIN images \subseteq DOMAIN images'
  BY DEF HandsGrown
<1> QED BY <1>2, <1>3, <1>4 DEF HandsInv, Hands!TypeOK

\* What is on file of an undisturbed member was on file before, and the member's login has
\* not changed.
LEMMA HandsSameFiles ==
    ASSUME HandsInv, HandsGrown, UNCHANGED signings,
           \A m \in HandsUndisturbed' : /\ m \in HandsUndisturbed
                                        /\ Hands!OnFile(m)' \subseteq Hands!OnFile(m)
                                        /\ Hands!OnFile(m)' # {} => holder'[m] = holder[m]
    PROVE  HandsOnFileServes'
<1> SUFFICES ASSUME NEW m \in HandsUndisturbed', NEW i \in Hands!OnFile(m)'
             PROVE  /\ images'[i].login \in {holder'[m], None}
                    /\ \A s \in signings : s.image = i => s.login = holder'[m]
  BY DEF HandsOnFileServes
<1>1. m \in HandsUndisturbed /\ i \in Hands!OnFile(m) /\ i \in DOMAIN images /\ holder'[m] = holder[m]
  BY DEF Hands!OnFile
<1> QED BY <1>1 DEF HandsInv, HandsOnFileServes, HandsGrown

\* A request goes on: nothing else changes.
LEMMA HandsHandledStep ==
    ASSUME HandsInv, NEW r \in Requests, NEW q \in Hands!Busy, HandsServed(q, images),
           signing' = [signing EXCEPT ![r] = q],
           UNCHANGED <<holder, logins, images, signings, interfered, severed>>
    PROVE  HandsInv'
<1>1. HandsGrown
  BY DEF HandsGrown
<1>2. HandsRequestsServed' /\ signing' \in [Requests -> {Hands!Idle, Hands!Over} \union Hands!Busy]
  BY <1>1, HandsOthersServed
<1>3. HandsOwnImages' /\ Hands!SignaturesFollowLogins'
  BY <1>1, HandsSameSignings
<1>4. HandsOnFileServes'
  <2>1. HandsUndisturbed' = HandsUndisturbed /\ \A m \in Members : Hands!OnFile(m)' = Hands!OnFile(m)
    BY DEF HandsUndisturbed, Hands!OnFile
  <2> QED BY <1>1, <2>1, HandsSameFiles DEF HandsUndisturbed
<1>5. Hands!TypeOK'
  BY <1>2 DEF HandsInv, Hands!TypeOK
<1> QED BY <1>2, <1>3, <1>4, <1>5 DEF HandsInv
-----------------------------------------------------------------------------
(* The actions *)

LEMMA HandsLoadStep ==
    ASSUME Hands!SignaturesAssumption, HandsInv, NEW r \in Requests,
           Hands!LoadToSign(r) \/ Hands!LoadToStore(r) \/ Hands!LoadToLink(r)
    PROVE  HandsInv'
<1>1. \A o \in Hands!Owners : Hands!Linked(o) \in Hands!Holder
  BY DEF Hands!Linked, Hands!Owners, Hands!Holder, HandsInv, Hands!TypeOK
<1>2. ASSUME NEW op \in {"sign", "store", "link"}, NEW o \in Hands!Owners, NEW by \in Hands!Holder,
             NEW to \in Hands!Holder,
             op \in {"sign", "link"} => o \in Members,
             op = "sign" => by = Hands!Linked(o) /\ by \in Logins,
             Hands!Start(r, Hands!Loaded(op, o, by, to))
      PROVE  HandsInv'
  <2> DEFINE saw == Hands!Linked(o)
             q == [step |-> "loaded", op |-> op, owner |-> o, saw |-> saw, by |-> by, to |-> to, images |-> {}]
  <2>1. /\ signing' = [signing EXCEPT ![r] = q]
        /\ UNCHANGED <<holder, logins, images, signings, interfered, severed>>
    BY <1>2 DEF Hands!Start, Hands!Loaded
  <2>2. saw \in Hands!Holder /\ {} \in SUBSET Nat
    BY <1>1
  <2>3. q \in Hands!Busy
    BY <1>2, <2>2 DEF Hands!Busy
  <2>4. HandsServed(q, images)
    BY <1>2 DEF HandsServed, Hands!Linked
  <2> HIDE DEF q
  <2> QED BY <2>1, <2>3, <2>4, HandsHandledStep
<1>3. CASE Hands!LoadToSign(r)
  <2>1. PICK m \in Members : holder[m] # None /\ Hands!Start(r, Hands!Loaded("sign", m, holder[m], None))
    BY <1>3 DEF Hands!LoadToSign
  <2>2. m \in Hands!Owners /\ holder[m] \in Logins /\ Hands!Linked(m) = holder[m] /\ holder[m] \in Hands!Holder
    BY <2>1 DEF Hands!Owners, Hands!Holder, HandsInv, Hands!TypeOK, Hands!Linked, Hands!SignaturesAssumption
  <2>3. None \in Hands!Holder
    BY DEF Hands!Holder
  <2> QED BY <1>2, <2>1, <2>2, <2>3
<1>4. CASE Hands!LoadToStore(r)
  <2>1. PICK o \in Hands!Owners : \E by \in {Hands!Linked(o), None} :
            Hands!Start(r, Hands!Loaded("store", o, by, None))
    BY <1>4 DEF Hands!LoadToStore
  <2>2. PICK by \in {Hands!Linked(o), None} : Hands!Start(r, Hands!Loaded("store", o, by, None))
    BY <2>1
  <2>3. by \in Hands!Holder /\ None \in Hands!Holder
    BY <1>1 DEF Hands!Holder
  <2> QED BY <1>2, <2>2, <2>3
<1>5. CASE Hands!LoadToLink(r)
  <2>1. PICK m \in Members, u \in logins \union {None} : Hands!Start(r, Hands!Loaded("link", m, None, u))
    BY <1>5 DEF Hands!LoadToLink
  <2>2. u \in Hands!Holder /\ None \in Hands!Holder /\ m \in Hands!Owners
    BY DEF Hands!Holder, Hands!Owners, HandsInv, Hands!TypeOK
  <2> QED BY <1>2, <2>1, <2>2
<1> QED BY <1>3, <1>4, <1>5

LEMMA HandsFindStep == ASSUME HandsInv, NEW r \in Requests, Hands!Find(r) PROVE HandsInv'
<1> DEFINE q == signing[r]
           found == IF q.op = "sign" THEN {Hands!Max(Hands!OnFile(q.owner))}
                     ELSE IF Hands!Retires(q) THEN Hands!OnFile(q.owner) ELSE {}
           p == [q EXCEPT !.step = "ready", !.images = found]
<1>1. q.step = "loaded" /\ (q.op = "sign" => Hands!OnFile(q.owner) # {})
      /\ UNCHANGED <<holder, logins, images, signings, interfered, severed>>
  BY DEF Hands!Find
<1>2. signing' = [signing EXCEPT ![r].step = "ready", ![r].images = found]
  BY DEF Hands!Find
<1>3. q \in Hands!Busy /\ HandsServed(q, images)
  BY <1>1, HandsWaiting
<1>4. signing' = [signing EXCEPT ![r] = p]
  BY <1>2 DEF HandsInv, Hands!TypeOK
<1>5. \A o : Hands!OnFile(o) \subseteq Nat
  BY HandsImagesType DEF Hands!OnFile, HandsInv
<1>6. q.op = "sign" => \E i \in DOMAIN images : found = {i} /\ images[i].owner = q.owner
  <2>1. q.op = "sign" => Hands!Max(Hands!OnFile(q.owner)) \in Hands!OnFile(q.owner)
                       /\ found = {Hands!Max(Hands!OnFile(q.owner))}
    BY <1>1, HandsLatest DEF HandsInv
  <2> QED BY <2>1 DEF Hands!OnFile
<1>7. found \in SUBSET Nat
  BY <1>5, <1>6, HandsImagesType DEF HandsInv
<1> HIDE DEF q, found
<1>8. p \in Hands!Busy /\ p.op = q.op /\ p.owner = q.owner /\ p.by = q.by /\ p.saw = q.saw /\ p.images = found
  BY <1>3, <1>7 DEF Hands!Busy
<1> HIDE DEF p
<1>9. HandsServed(p, images)
  BY <1>3, <1>6, <1>8 DEF HandsServed
<1> QED BY <1>1, <1>4, <1>8, <1>9, HandsHandledStep

LEMMA HandsCommitSignStep == ASSUME HandsInv, NEW r \in Requests, Hands!CommitSign(r) PROVE HandsInv'
<1> DEFINE q == signing[r]
           m == q.owner
           new == [member |-> m, login |-> q.by, image |-> Hands!Max(q.images)]
<1>1. /\ q.step = "ready" /\ q.op = "sign"
      /\ signings' = signings \union {new}
      /\ interfered' = IF holder[m] # q.saw \/ images[Hands!Max(q.images)].retired
                       THEN interfered \union {m} ELSE interfered
      /\ Hands!End(r) /\ UNCHANGED <<holder, logins, images, severed>>
  BY DEF Hands!CommitSign, Hands!Ready, Hands!Interferes
<1>2. q \in Hands!Busy /\ HandsServed(q, images)
  BY <1>1, HandsWaiting
<1>3. m \in Members /\ q.by = q.saw /\ q.by \in Logins
  BY <1>1, <1>2 DEF HandsServed
<1>4. PICK i \in DOMAIN images : q.images = {i} /\ images[i].owner = m
  BY <1>1, <1>2 DEF HandsServed
<1>5. Hands!Max(q.images) = i
  BY <1>4, HandsMaxOfOne, HandsImagesType DEF HandsInv
<1>6. new.member = m /\ new.login = q.by /\ new.image = i
  BY <1>5
<1>7. new \in [member : Members, login : Logins, image : DOMAIN images]
  BY <1>3, <1>5
<1> HIDE DEF new
<1>8. HandsGrown
  BY <1>1 DEF HandsGrown
<1>9. HandsRequestsServed' /\ signing' \in [Requests -> {Hands!Idle, Hands!Over} \union Hands!Busy]
  BY <1>1, <1>8, HandsEndsStep
<1> HIDE DEF q, m
<1>10. interfered \subseteq interfered' /\ interfered' \subseteq Members
  BY <1>1, <1>3 DEF HandsInv, Hands!TypeOK
<1>11. Hands!TypeOK'
  BY <1>1, <1>7, <1>9, <1>10 DEF HandsInv, Hands!TypeOK
<1>12. HandsOwnImages'
  BY <1>1, <1>4, <1>6 DEF HandsInv, HandsOwnImages
<1>13. ASSUME m \notin interfered' \union severed'
       PROVE  /\ holder[m] = q.by /\ images[i].login \in {q.by, None}
              /\ \A s \in signings : s.image = i => s.login = q.by
  <2>1. holder[m] = q.by /\ ~images[i].retired
    BY <1>1, <1>3, <1>5, <1>13
  <2>2. m \in HandsUndisturbed /\ i \in Hands!OnFile(m)
    BY <1>1, <1>3, <1>4, <1>10, <1>13, <2>1 DEF HandsUndisturbed, Hands!OnFile
  <2> QED BY <2>1, <2>2 DEF HandsInv, HandsOnFileServes
<1>14. HandsOnFileServes'
  <2> SUFFICES ASSUME NEW k \in Members, k \notin interfered' \union severed', NEW j \in Hands!OnFile(k)
               PROVE  /\ images[j].login \in {holder[k], None}
                      /\ \A s \in signings \union {new} : s.image = j => s.login = holder[k]
    BY <1>1 DEF HandsOnFileServes, HandsUndisturbed, Hands!OnFile
  <2>1. k \in HandsUndisturbed /\ images[j].owner = k
    BY <1>1, <1>10 DEF HandsUndisturbed, Hands!OnFile
  <2>2. images[j].login \in {holder[k], None} /\ \A s \in signings : s.image = j => s.login = holder[k]
    BY <2>1 DEF HandsInv, HandsOnFileServes
  <2>3. new.image = j => new.login = holder[k]
    BY <1>4, <1>6, <1>13, <2>1
  <2> QED BY <2>2, <2>3
<1>15. Hands!SignaturesFollowLogins'
  <2> SUFFICES ASSUME NEW s \in signings', NEW t \in signings', s.member \notin interfered' \union severed'
               PROVE  /\ images[s.image].login \in {s.login, None}
                      /\ s.image = t.image => s.login = t.login
    BY <1>1 DEF Hands!SignaturesFollowLogins
  <2>1. CASE s = new
    <3>1. s.member = m /\ s.login = q.by /\ s.image = i
      BY <1>6, <2>1
    <3>2. t = new \/ t \in signings
      BY <1>1
    <3> QED BY <1>6, <1>13, <3>1, <3>2
  <2>2. CASE s \in signings
    <3>1. s.member \notin interfered \union severed
      BY <1>1, <1>10
    <3>2. images[s.image].login \in {s.login, None} /\ \A u \in signings : s.image = u.image => s.login = u.login
      BY <2>2, <3>1 DEF HandsInv, Hands!SignaturesFollowLogins
    <3>3. CASE t \in signings
      BY <3>2, <3>3
    <3>4. CASE t = new
      <4>1. s.image = t.image => s.member = m
        BY <1>4, <1>6, <2>2, <3>4 DEF HandsInv, HandsOwnImages
      <4> QED BY <1>6, <1>13, <2>2, <3>2, <3>4, <4>1
    <3> QED BY <1>1, <3>3, <3>4
  <2> QED BY <1>1, <2>1, <2>2
<1> QED BY <1>9, <1>11, <1>12, <1>14, <1>15 DEF HandsInv

\* A new image is for the login the member had when it was loaded.
LEMMA HandsCommitStoreStep ==
    ASSUME Hands!SignaturesAssumption, HandsInv, NEW r \in Requests, Hands!CommitStore(r)
    PROVE  HandsInv'
<1> DEFINE q == signing[r]
           m == q.owner
           new == [owner |-> m, retired |-> FALSE, login |-> q.saw]
           old == Hands!Retired(q.images)
           n == Len(images) + 1
<1>1. /\ q.step = "ready" /\ q.op = "store"
      /\ images' = Append(old, new)
      /\ interfered' = IF Hands!Linked(m) # q.saw THEN interfered \union {m} ELSE interfered
      /\ Hands!End(r) /\ UNCHANGED <<holder, logins, signings, severed>>
  BY DEF Hands!CommitStore, Hands!Ready, Hands!Interferes
<1>2. q \in Hands!Busy
  BY <1>1, HandsWaiting
<1>3. m \in Hands!Owners /\ q.saw \in Hands!Holder
  BY <1>2 DEF Hands!Busy
<1>4. new \in Hands!Image /\ new.owner = m /\ new.login = q.saw
  BY <1>3 DEF Hands!Image
<1>5. /\ old \in Seq(Hands!Image) /\ Len(old) = Len(images) /\ DOMAIN old = DOMAIN images
      /\ \A i \in DOMAIN images : /\ old[i].owner = images[i].owner /\ old[i].login = images[i].login
                                  /\ old[i].retired = (images[i].retired \/ i \in q.images)
  BY HandsRetiredImages DEF HandsInv
<1>6. DOMAIN images = 1..Len(images) /\ Len(images) \in Nat
  BY HandsImagesType DEF HandsInv
<1> HIDE DEF new, old
<1>7. /\ images' \in Seq(Hands!Image) /\ DOMAIN images' = DOMAIN images \union {n} /\ n \notin DOMAIN images
      /\ images'[n] = new /\ \A i \in DOMAIN images : images'[i] = old[i]
  BY <1>1, <1>4, <1>5, <1>6
<1> HIDE DEF n
<1>8. HandsGrown
  BY <1>5, <1>7 DEF HandsGrown
<1>9. HandsRequestsServed' /\ signing' \in [Requests -> {Hands!Idle, Hands!Over} \union Hands!Busy]
  BY <1>1, <1>8, HandsEndsStep
<1>10. interfered \subseteq interfered' /\ severed \subseteq severed'
  BY <1>1
<1>11. HandsOwnImages' /\ Hands!SignaturesFollowLogins'
       /\ signings' \subseteq [member : Members, login : Logins, image : DOMAIN images']
  BY <1>1, <1>8, <1>10, HandsSameSignings
<1>12. interfered' \subseteq Members
  <2>1. m = Seal => q.saw = None
    BY <1>1, HandsWaiting DEF HandsServed
  <2>2. m \notin Members => interfered' = interfered
    BY <1>1, <1>3, <2>1 DEF Hands!Linked, Hands!Owners
  <2> QED BY <1>1, <2>2 DEF HandsInv, Hands!TypeOK
<1>13. Hands!TypeOK'
  BY <1>1, <1>7, <1>9, <1>11, <1>12 DEF HandsInv, Hands!TypeOK
<1>14. HandsOnFileServes'
  <2> SUFFICES ASSUME NEW k \in HandsUndisturbed', NEW i \in Hands!OnFile(k)'
               PROVE  /\ images'[i].login \in {holder[k], None}
                      /\ \A s \in signings : s.image = i => s.login = holder[k]
    BY <1>1 DEF HandsOnFileServes
  <2>1. k \in HandsUndisturbed /\ k \in Members /\ k \notin interfered' /\ k # Seal
    BY <1>10 DEF HandsUndisturbed, Hands!SignaturesAssumption
  <2>2. i \in DOMAIN images' /\ images'[i].owner = k /\ ~images'[i].retired
    BY DEF Hands!OnFile
  <2>3. CASE i = n
    <3>1. k = m /\ holder[k] = q.saw
      BY <1>1, <1>4, <1>7, <2>1, <2>2, <2>3 DEF Hands!Linked
    <3>2. \A s \in signings : s.image # i
      BY <1>7, <2>3 DEF HandsInv, Hands!TypeOK
    <3> QED BY <1>4, <1>7, <2>3, <3>1, <3>2
  <2>4. CASE i # n
    <3>1. i \in Hands!OnFile(k) /\ images'[i].login = images[i].login
      BY <1>5, <1>7, <2>2, <2>4 DEF Hands!OnFile
    <3> QED BY <2>1, <3>1 DEF HandsInv, HandsOnFileServes
  <2> QED BY <2>3, <2>4
<1> QED BY <1>9, <1>11, <1>13, <1>14 DEF HandsInv

\* A link that moves away from a login leaves nothing on file.
LEMMA HandsCommitLinkStep ==
    ASSUME Hands!SignaturesAssumption, HandsInv, NEW r \in Requests, Hands!CommitLink(r)
    PROVE  HandsInv'
<1> DEFINE q == signing[r]
           m == q.owner
           to == q.to
           moved == holder[m] # q.saw \/ (Hands!Retires(q) /\ ~(Hands!OnFile(m) \subseteq q.images))
<1>1. /\ q.step = "ready" /\ q.op = "link"
      /\ holder' = [holder EXCEPT ![m] = to]
      /\ images' = Hands!Retired(q.images)
      /\ interfered' = IF moved THEN interfered \union {m} ELSE interfered
      /\ Hands!End(r) /\ UNCHANGED <<logins, signings, severed>>
  BY DEF Hands!CommitLink, Hands!Ready, Hands!Interferes
<1>2. q \in Hands!Busy /\ HandsServed(q, images)
  BY <1>1, HandsWaiting
<1>3. m \in Members /\ to \in Hands!Holder
  BY <1>1, <1>2 DEF Hands!Busy, HandsServed
<1>4. /\ images' \in Seq(Hands!Image) /\ DOMAIN images' = DOMAIN images
      /\ \A i \in DOMAIN images : /\ images'[i].owner = images[i].owner /\ images'[i].login = images[i].login
                                  /\ images'[i].retired = (images[i].retired \/ i \in q.images)
  BY <1>1, HandsRetiredImages DEF HandsInv
<1>5. HandsGrown
  BY <1>4 DEF HandsGrown
<1>6. HandsRequestsServed' /\ signing' \in [Requests -> {Hands!Idle, Hands!Over} \union Hands!Busy]
  BY <1>1, <1>5, HandsEndsStep
<1>7. interfered \subseteq interfered' /\ severed \subseteq severed' /\ interfered' \subseteq Members
  BY <1>1, <1>3 DEF HandsInv, Hands!TypeOK
<1>8. HandsOwnImages' /\ Hands!SignaturesFollowLogins'
      /\ signings' \subseteq [member : Members, login : Logins, image : DOMAIN images']
  BY <1>1, <1>5, <1>7, HandsSameSignings
<1>9. holder' \in [Members -> Hands!Holder] /\ \A k \in Members \ {m} : holder'[k] = holder[k]
  BY <1>1, <1>3 DEF HandsInv, Hands!TypeOK
<1>10. Hands!TypeOK'
  BY <1>1, <1>4, <1>6, <1>7, <1>8, <1>9 DEF HandsInv, Hands!TypeOK
<1>11. HandsOnFileServes'
  <2> SUFFICES ASSUME NEW k \in HandsUndisturbed', NEW i \in Hands!OnFile(k)'
               PROVE  /\ images'[i].login \in {holder'[k], None}
                      /\ \A s \in signings : s.image = i => s.login = holder'[k]
    BY <1>1 DEF HandsOnFileServes
  <2>1. k \in HandsUndisturbed /\ k \in Members /\ k \notin interfered'
    BY <1>7 DEF HandsUndisturbed
  <2>2. i \in Hands!OnFile(k) /\ i \notin q.images /\ images'[i].login = images[i].login
    BY <1>4 DEF Hands!OnFile
  <2>3. /\ images[i].login \in {holder[k], None}
        /\ \A s \in signings : s.image = i => s.login = holder[k]
    BY <2>1, <2>2 DEF HandsInv, HandsOnFileServes
  <2>4. CASE k # m
    BY <1>9, <2>1, <2>2, <2>3, <2>4
  <2>5. CASE k = m
    <3>1. holder[m] = q.saw /\ ~Hands!Retires(q)
      BY <1>1, <2>1, <2>2, <2>5
    <3>2. holder[k] = None
      BY <2>5, <3>1 DEF Hands!Retires
    <3>3. \A s \in signings : s.login # None
      BY DEF HandsInv, Hands!TypeOK, Hands!SignaturesAssumption
    <3> QED BY <2>2, <2>3, <3>2, <3>3
  <2> QED BY <2>4, <2>5
<1> QED BY <1>6, <1>8, <1>10, <1>11 DEF HandsInv

LEMMA HandsRemoveStep == ASSUME HandsInv, Hands!Remove PROVE HandsInv'
<1>1. PICK o \in Hands!Owners : /\ images' = Hands!Retired(Hands!OnFile(o))
                                /\ UNCHANGED <<holder, logins, signing, signings, interfered, severed>>
  BY DEF Hands!Remove
<1>2. /\ images' \in Seq(Hands!Image) /\ DOMAIN images' = DOMAIN images
      /\ \A i \in DOMAIN images : /\ images'[i].owner = images[i].owner /\ images'[i].login = images[i].login
                                  /\ images'[i].retired = (images[i].retired \/ i \in Hands!OnFile(o))
  BY <1>1, HandsRetiredImages DEF HandsInv
<1>3. HandsGrown
  BY <1>2 DEF HandsGrown
<1>4. HandsOwnImages' /\ Hands!SignaturesFollowLogins'
      /\ signings' \subseteq [member : Members, login : Logins, image : DOMAIN images']
  BY <1>1, <1>3, HandsSameSignings
<1>5. HandsRequestsServed'
  BY <1>1, <1>2 DEF HandsInv, HandsRequestsServed, HandsServed
<1>6. Hands!TypeOK'
  BY <1>1, <1>2, <1>4 DEF HandsInv, Hands!TypeOK
<1>7. HandsOnFileServes'
  <2>1. HandsUndisturbed' = HandsUndisturbed /\ \A m \in Members : Hands!OnFile(m)' \subseteq Hands!OnFile(m)
    BY <1>1, <1>2 DEF HandsUndisturbed, Hands!OnFile
  <2> QED BY <1>1, <1>3, <2>1, HandsSameFiles DEF HandsUndisturbed
<1> QED BY <1>4, <1>5, <1>6, <1>7 DEF HandsInv

LEMMA HandsDeleteLoginStep == ASSUME HandsInv, Hands!DeleteLogin PROVE HandsInv'
<1>1. PICK u \in logins : Hands!DeleteLogin!(u)
  BY DEF Hands!DeleteLogin
<1> DEFINE cut == {m \in Members : holder[m] = u}
<1>2. /\ logins' = logins \ {u}
      /\ holder' = [m \in Members |-> IF m \in cut THEN None ELSE holder[m]]
      /\ severed' = severed \union {m \in cut : Hands!OnFile(m) # {}}
      /\ UNCHANGED <<images, signing, signings, interfered>>
  BY <1>1
<1>3. HandsGrown
  BY <1>2 DEF HandsGrown
<1>4. severed \subseteq severed' /\ severed' \subseteq Members
  BY <1>2 DEF HandsInv, Hands!TypeOK
<1>5. HandsOwnImages' /\ Hands!SignaturesFollowLogins'
      /\ signings' \subseteq [member : Members, login : Logins, image : DOMAIN images']
  BY <1>2, <1>3, <1>4, HandsSameSignings
<1>6. HandsRequestsServed'
  BY <1>2 DEF HandsInv, HandsRequestsServed, HandsServed
<1>7. Hands!TypeOK'
  <2>1. holder' \in [Members -> Hands!Holder]
    BY <1>2 DEF HandsInv, Hands!TypeOK, Hands!Holder
  <2> QED BY <1>2, <1>4, <1>5, <2>1 DEF HandsInv, Hands!TypeOK
<1>8. HandsOnFileServes'
  <2> SUFFICES ASSUME NEW m \in HandsUndisturbed'
               PROVE  /\ m \in HandsUndisturbed /\ Hands!OnFile(m)' \subseteq Hands!OnFile(m)
                      /\ Hands!OnFile(m)' # {} => holder'[m] = holder[m]
    BY <1>2, <1>3, HandsSameFiles
  <2>1. m \in HandsUndisturbed /\ m \in Members /\ m \notin severed'
    BY <1>2, <1>4 DEF HandsUndisturbed
  <2>2. Hands!OnFile(m)' = Hands!OnFile(m)
    BY <1>2 DEF Hands!OnFile
  <2> QED BY <1>2, <2>1, <2>2
<1> QED BY <1>5, <1>6, <1>7, <1>8 DEF HandsInv
-----------------------------------------------------------------------------
(* The theorems *)

LEMMA InitHandsInv == Hands!Init => HandsInv
<1> SUFFICES ASSUME Hands!Init PROVE HandsInv
  OBVIOUS
<1>1. images = <<>> /\ signings = {} /\ interfered = {} /\ severed = {} /\ logins = Logins
      /\ holder \in [Members -> Hands!Holder] /\ signing = [r \in Requests |-> Hands!Idle]
  BY DEF Hands!Init
<1>2. Hands!TypeOK
  BY <1>1 DEF Hands!TypeOK
<1>3. HandsRequestsServed
  BY <1>1 DEF HandsRequestsServed, Hands!Busy, Hands!Idle
<1>4. HandsOwnImages /\ Hands!SignaturesFollowLogins
  BY <1>1 DEF HandsOwnImages, Hands!SignaturesFollowLogins
<1>5. HandsOnFileServes
  <2>1. DOMAIN images = {}
    BY <1>1
  <2> QED BY <2>1 DEF HandsOnFileServes, Hands!OnFile
<1> QED BY <1>2, <1>3, <1>4, <1>5 DEF HandsInv

LEMMA StepHandsInv ==
    ASSUME Hands!SignaturesAssumption, HandsInv, [Hands!Next]_(Hands!signaturesVars)
    PROVE  HandsInv'
<1>1. CASE UNCHANGED Hands!signaturesVars
  BY <1>1 DEF Hands!signaturesVars, HandsInv, Hands!TypeOK, HandsRequestsServed, HandsServed, HandsOwnImages,
     HandsOnFileServes, HandsUndisturbed, Hands!OnFile,
              Hands!SignaturesFollowLogins
<1>2. CASE Hands!Next
  BY <1>2, HandsRemoveStep, HandsDeleteLoginStep, HandsLoadStep, HandsFindStep, HandsCommitSignStep,
     HandsCommitStoreStep, HandsCommitLinkStep
     DEF Hands!Next
<1> QED BY <1>1, <1>2
-----------------------------------------------------------------------------
(* DESK.  What a request knows of a message is true while nobody else has  *)
(* committed to it; then at most one closing of it waits to be told.       *)

LEMMA CountingDesk == \A S : Desk!Cardinality(S) = Cardinality(S)
BY DEF Desk!Cardinality, Cardinality

\* The status a message has was held; a request that loaded the message has the row as it
\* is, and one that updated it knows whether it closed it, where no other overlapped.
DeskStatusHeld == \A m \in Messages : messages[m] # NoRow => messages[m].status \in held[m]
DeskLoadedKnows == \A r \in Requests :
    answering[r].step = "loaded" /\ answering[r].message \notin overlapped =>
        messages[answering[r].message] = answering[r].saw
DeskUpdatedKnows == \A r \in Requests :
    answering[r].step = "updated" /\ answering[r].message \notin overlapped =>
        /\ messages[answering[r].message] # NoRow
        /\ answering[r].closed <=>
               messages[answering[r].message].status \in Desk!Final /\ ~answering[r].wasFinal
DeskUpdates(r, m) == answering[r].step = "updated" /\ answering[r].message = m
DeskOneUpdates == \A m \in Messages \ overlapped : \A r, p \in Requests :
    DeskUpdates(r, m) /\ DeskUpdates(p, m) => r = p

\* The inductive invariant.
DeskInv == /\ Desk!TypeOK /\ DeskStatusHeld /\ DeskLoadedKnows /\ DeskUpdatedKnows /\ DeskOneUpdates
           /\ Desk!ClosingToldOnce

LEMMA DeskSteps == Desk!Idle.step = "idle" /\ Desk!Over.step = "over"
BY DEF Desk!Idle, Desk!Over

LEMMA DeskShape ==
    ASSUME Desk!TypeOK, NEW r \in Requests
    PROVE  /\ answering[r].step = "loaded" => answering[r] \in Desk!Loaded
           /\ answering[r].step = "removing" => answering[r] \in Desk!Removing
           /\ answering[r].step = "updated" => answering[r] \in Desk!Updated
           /\ answering[r] \in {Desk!Idle, Desk!Over} => answering[r].step \notin {"loaded", "removing", "updated"}
BY DEF Desk!TypeOK, Desk!Idle, Desk!Over, Desk!Loaded, Desk!Removing, Desk!Updated

\* What is written over a row is a row; over the row that was seen, it is the new one.
LEMMA DeskWritten ==
    ASSUME NEW row \in Desk!Row, NEW saw \in Desk!Row, NEW new \in Desk!Row
    PROVE  /\ Desk!Written(row, saw, new) \in Desk!Row
           /\ row = saw => Desk!Written(row, saw, new) = new
<1>1. DOMAIN row = {"status", "notes"} /\ DOMAIN new = {"status", "notes"}
  BY DEF Desk!Row
<1>2. Desk!Written(row, saw, new) =
          [status |-> IF new.status = saw.status THEN row.status ELSE new.status,
           notes  |-> IF new.notes = saw.notes THEN row.notes ELSE new.notes]
  BY <1>1 DEF Desk!Written
<1>3. Desk!Written(row, saw, new) \in Desk!Row
  BY <1>2 DEF Desk!Row
<1>4. ASSUME row = saw PROVE Desk!Written(row, saw, new) = new
  BY <1>2, <1>4 DEF Desk!Row
<1> QED BY <1>3, <1>4

LEMMA DeskMerged ==
    ASSUME NEW row \in Desk!Row, NEW form \in Desk!ContactUpdate, None \notin Desk!Statuses
    PROVE  Desk!Merged(row, form) \in Desk!Row
BY DEF Desk!Row, Desk!ContactUpdate, Desk!Merged

\* A request that only moves between steps that tell nothing.
LEMMA DeskMoves ==
    ASSUME DeskInv, NEW r \in Requests, NEW q, answering' = [answering EXCEPT ![r] = q],
           UNCHANGED <<messages, held, closings, told, overlapped>>,
           q \in {Desk!Over} \union Desk!Loaded \union Desk!Removing,
           q.step = "loaded" => messages[q.message] = q.saw,
           answering[r].step = "updated" => answering[r].message \in overlapped
    PROVE  DeskInv'
<1>1. q.step # "updated" /\ answering'[r] = q /\ \A p \in Requests \ {r} : answering'[p] = answering[p]
  BY DEF DeskInv, Desk!TypeOK, Desk!Over, Desk!Loaded, Desk!Removing
<1>2. Desk!TypeOK'
  BY DEF DeskInv, Desk!TypeOK
<1>3. DeskStatusHeld' /\ DeskLoadedKnows' /\ DeskUpdatedKnows' /\ DeskOneUpdates'
  BY <1>1 DEF DeskInv, DeskStatusHeld, DeskLoadedKnows, DeskUpdatedKnows, DeskOneUpdates, DeskUpdates
<1>4. \A m \in Messages \ overlapped : Desk!AboutToTell(m)' = Desk!AboutToTell(m)
  BY <1>1 DEF Desk!AboutToTell
<1>5. Desk!ClosingToldOnce'
  BY <1>4 DEF DeskInv, Desk!ClosingToldOnce, Desk!Mails
<1> QED BY <1>2, <1>3, <1>5 DEF DeskInv

LEMMA DeskSubmitStep ==
    ASSUME DeskInv, NEW r \in Requests, Desk!Submit(r), NoRow \notin Desk!Row
    PROVE  DeskInv'
<1>1. PICK m \in Messages, bot \in BOOLEAN : Desk!Submit(r)!(m, bot)
  BY DEF Desk!Submit
<1>2. CASE bot
  BY <1>1, <1>2, DeskMoves, DeskSteps DEF Desk!To
<1>3. CASE ~bot
  <2>1. /\ answering[r] = Desk!Idle /\ held[m] = {}
        /\ messages' = [messages EXCEPT ![m] = Desk!Pending] /\ held' = [held EXCEPT ![m] = {"PENDING"}]
        /\ answering' = [answering EXCEPT ![r] = Desk!Over] /\ UNCHANGED <<closings, told, overlapped>>
    BY <1>1, <1>3 DEF Desk!To
  <2>2. Desk!Pending \in Desk!Row /\ Desk!Pending.status = "PENDING"
    BY DEF Desk!Pending, Desk!Row, Desk!Statuses
  <2>3. Desk!TypeOK'
    BY <2>1, <2>2 DEF DeskInv, Desk!TypeOK, Desk!Statuses
  <2>4. DeskStatusHeld'
    BY <2>1, <2>2 DEF DeskInv, DeskStatusHeld, Desk!TypeOK
  <2>5. messages[m] = NoRow
    BY <2>1 DEF DeskInv, DeskStatusHeld
  <2>6. \A p \in Requests : answering'[p] # answering[p] => answering'[p].step = "over"
    BY <2>1 DEF DeskInv, Desk!TypeOK, Desk!Over
  <2>7. \A p \in Requests : answering[p].step \in {"loaded", "updated"} /\ answering[p].message = m => m \in overlapped
    BY <2>5, DeskShape DEF DeskInv, DeskLoadedKnows, DeskUpdatedKnows, Desk!Loaded
  <2>8. DeskLoadedKnows' /\ DeskUpdatedKnows' /\ DeskOneUpdates'
    BY <2>1, <2>6, <2>7 DEF DeskInv, DeskLoadedKnows, DeskUpdatedKnows, DeskOneUpdates, DeskUpdates, Desk!TypeOK
  <2>9. \A x \in Messages : Desk!AboutToTell(x)' = Desk!AboutToTell(x)
    BY <2>1 DEF Desk!AboutToTell, DeskInv, Desk!TypeOK, Desk!Over, Desk!Idle
  <2>10. \A x \in Messages : held[x] \subseteq held'[x]
    BY <2>1 DEF DeskInv, Desk!TypeOK
  <2>11. Desk!ClosingToldOnce'
    BY <2>1, <2>9, <2>10 DEF DeskInv, Desk!ClosingToldOnce, Desk!Mails
  <2> QED BY <2>3, <2>4, <2>8, <2>11 DEF DeskInv
<1> QED BY <1>2, <1>3

LEMMA DeskLoadStep ==
    ASSUME DeskInv, NEW r \in Requests, Desk!Load(r), Updates \subseteq Desk!ContactUpdate
    PROVE  DeskInv'
<1>1. PICK m \in Messages, form \in Updates : Desk!Load(r)!(m, form)
  BY DEF Desk!Load
<1> DEFINE q == [step |-> "loaded", message |-> m, saw |-> messages[m], form |-> form]
<1>2. /\ answering[r].step = "idle" /\ messages[m] # NoRow
      /\ answering' = [answering EXCEPT ![r] = q] /\ UNCHANGED <<messages, held, closings, told, overlapped>>
  BY <1>1, DeskSteps DEF Desk!To
<1>3. q \in Desk!Loaded
  BY <1>2 DEF DeskInv, Desk!TypeOK, Desk!Loaded
<1>4. q.step = "loaded" /\ messages[q.message] = q.saw
  OBVIOUS
<1> HIDE DEF q
<1> QED BY <1>2, <1>3, <1>4, DeskMoves

LEMMA DeskRemoveStep ==
    ASSUME DeskInv, NEW r \in Requests, Desk!LoadToDelete(r)
    PROVE  DeskInv'
<1>1. PICK m \in Messages : Desk!LoadToDelete(r)!(m)
  BY DEF Desk!LoadToDelete
<1> DEFINE q == [step |-> "removing", message |-> m]
<1>2. /\ answering[r].step = "idle"
      /\ answering' = [answering EXCEPT ![r] = q] /\ UNCHANGED <<messages, held, closings, told, overlapped>>
  BY <1>1, DeskSteps DEF Desk!To
<1>3. q \in Desk!Removing /\ q.step = "removing"
  BY DEF Desk!Removing
<1> HIDE DEF q
<1> QED BY <1>2, <1>3, DeskMoves

LEMMA DeskFindGoneStep ==
    ASSUME DeskInv, NEW r \in Requests, Desk!FindGone(r)
    PROVE  DeskInv'
<1>1. /\ answering[r].step \in {"loaded", "updated"} /\ messages[answering[r].message] = NoRow
      /\ answering' = [answering EXCEPT ![r] = Desk!Over] /\ UNCHANGED <<messages, held, closings, told, overlapped>>
  BY DEF Desk!FindGone, Desk!To
<1>2. answering[r].step = "updated" => answering[r].message \in overlapped
  BY <1>1 DEF DeskInv, DeskUpdatedKnows
<1> QED BY <1>1, <1>2, DeskMoves, DeskSteps

\* A commit to a message of which no other request is under way leaves it undisturbed.
LEMMA DeskOverlap ==
    ASSUME DeskInv, NEW r \in Requests, NEW m \in Messages, Desk!NoteOverlap(r, m)
    PROVE  /\ overlapped \subseteq overlapped' /\ overlapped' \subseteq overlapped \union {m}
           /\ m \notin overlapped' => \A p \in Requests \ {r} :
                  answering[p].step \in {"loaded", "updated"} => answering[p].message # m
<1>1. overlapped' = overlapped \union {x \in {m} : Desk!Others(r, m) # {}}
  BY DEF Desk!NoteOverlap
<1>2. ASSUME m \notin overlapped', NEW p \in Requests \ {r}, answering[p].step \in {"loaded", "updated"},
             answering[p].message = m
      PROVE  FALSE
  <2>1. p \in Desk!Others(r, m)
    BY <1>2 DEF Desk!Others
  <2> QED BY <1>1, <1>2, <2>1
<1> QED BY <1>1, <1>2

LEMMA DeskDeleteStep ==
    ASSUME DeskInv, NEW r \in Requests, Desk!Delete(r)
    PROVE  DeskInv'
<1> DEFINE m == answering[r].message
<1>1. /\ answering[r].step = "removing" /\ messages' = [messages EXCEPT ![m] = NoRow] /\ Desk!NoteOverlap(r, m)
      /\ answering' = [answering EXCEPT ![r] = Desk!Over] /\ UNCHANGED <<held, closings, told>>
  BY DEF Desk!Delete, Desk!To
<1>2. m \in Messages
  BY <1>1, DeskShape DEF DeskInv, Desk!Removing
<1> HIDE DEF m
<1>3. /\ overlapped \subseteq overlapped' /\ overlapped' \subseteq overlapped \union {m}
      /\ m \notin overlapped' => \A p \in Requests \ {r} :
             answering[p].step \in {"loaded", "updated"} => answering[p].message # m
  BY <1>1, <1>2, DeskOverlap
<1>4. answering'[r].step = "over" /\ \A p \in Requests \ {r} : answering'[p] = answering[p]
  BY <1>1, DeskSteps DEF DeskInv, Desk!TypeOK
<1>5. \A x \in Messages \ {m} : messages'[x] = messages[x]
  BY <1>1 DEF DeskInv, Desk!TypeOK
<1>6. Desk!TypeOK'
  BY <1>1, <1>2, <1>3 DEF DeskInv, Desk!TypeOK
<1>7. DeskStatusHeld'
  BY <1>1, <1>2, <1>5 DEF DeskInv, DeskStatusHeld, Desk!TypeOK
<1>8. ASSUME NEW p \in Requests, answering'[p].step \in {"loaded", "updated"}, answering'[p].message \notin overlapped'
      PROVE  /\ answering'[p] = answering[p] /\ answering[p].message \notin overlapped
             /\ messages'[answering[p].message] = messages[answering[p].message]
  <2>1. p # r /\ answering'[p] = answering[p]
    BY <1>4, <1>8
  <2>2. answering[p].message \in Messages
    BY <1>8, <2>1, DeskShape DEF DeskInv, Desk!Loaded, Desk!Updated
  <2> QED BY <1>3, <1>5, <1>8, <2>1, <2>2
<1>9. DeskLoadedKnows' /\ DeskUpdatedKnows'
  BY <1>8 DEF DeskInv, DeskLoadedKnows, DeskUpdatedKnows
<1>10. DeskOneUpdates'
  BY <1>3, <1>4 DEF DeskInv, DeskOneUpdates, DeskUpdates
<1>11. \A x \in Messages : Desk!AboutToTell(x)' = Desk!AboutToTell(x)
  BY <1>1, <1>4 DEF Desk!AboutToTell
<1>12. Desk!ClosingToldOnce'
  BY <1>1, <1>3, <1>11 DEF DeskInv, Desk!ClosingToldOnce, Desk!Mails
<1> QED BY <1>6, <1>7, <1>9, <1>10, <1>12 DEF DeskInv

LEMMA DeskCommitStep ==
    ASSUME DeskInv, NEW r \in Requests, Desk!Commit(r), Desk!FrontDeskAssumption
    PROVE  DeskInv'
<1> DEFINE q == answering[r]
           m == q.message
           row == Desk!Written(messages[m], q.saw, Desk!Merged(q.saw, q.form))
           closed == row.status \in Desk!Final /\ messages[m].status \notin Desk!Final
           done == [step |-> "updated", message |-> m, wasFinal |-> Desk!WasFinal(q.saw), closed |-> closed]
<1>1. q.step = "loaded" /\ messages[m] # NoRow
  BY DEF Desk!Commit
<1>2. /\ messages' = [messages EXCEPT ![m] = row] /\ held' = [held EXCEPT ![m] = @ \union {row.status}]
      /\ closings' = [closings EXCEPT ![m] = IF closed THEN @ + 1 ELSE @]
      /\ answering' = [answering EXCEPT ![r] = done] /\ Desk!NoteOverlap(r, m) /\ UNCHANGED told
  BY DEF Desk!Commit, Desk!To
<1>3. q \in Desk!Loaded
  BY <1>1, DeskShape DEF DeskInv
<1>4. m \in Messages /\ q.saw \in Desk!Row /\ q.form \in Desk!ContactUpdate
  BY <1>3 DEF Desk!Loaded
<1>5. messages[m] \in Desk!Row /\ NoRow \notin Desk!Row /\ None \notin Desk!Statuses
  BY <1>1, <1>4 DEF DeskInv, Desk!TypeOK, Desk!FrontDeskAssumption
<1>6. row \in Desk!Row
  BY <1>4, <1>5, DeskMerged, DeskWritten
<1>7. row.status \in Desk!Statuses /\ row # NoRow
  BY <1>5, <1>6 DEF Desk!Row
<1>8. done \in Desk!Updated /\ done.step = "updated" /\ done.message = m /\ done.closed = closed
      /\ done.wasFinal = (q.saw.status \in Desk!Final)
  BY <1>4 DEF Desk!Updated, Desk!WasFinal
<1>9. m \notin overlapped => messages[m] = q.saw
  BY <1>1 DEF DeskInv, DeskLoadedKnows
<1> HIDE DEF row, done
<1>10. /\ overlapped \subseteq overlapped' /\ overlapped' \subseteq overlapped \union {m}
       /\ m \notin overlapped' => \A p \in Requests \ {r} :
              answering[p].step \in {"loaded", "updated"} => answering[p].message # m
  BY <1>2, <1>4, DeskOverlap
<1>11. answering'[r] = done /\ \A p \in Requests \ {r} : answering'[p] = answering[p]
  BY <1>2 DEF DeskInv, Desk!TypeOK
<1>12. messages'[m] = row /\ \A x \in Messages \ {m} : messages'[x] = messages[x]
  BY <1>2, <1>4 DEF DeskInv, Desk!TypeOK
<1>13. /\ held'[m] = held[m] \union {row.status} /\ \A x \in Messages : held[x] \subseteq held'[x]
       /\ closings[m] \in Nat /\ closings'[m] = (IF closed THEN closings[m] + 1 ELSE closings[m])
       /\ \A x \in Messages \ {m} : closings'[x] = closings[x]
  BY <1>2, <1>4 DEF DeskInv, Desk!TypeOK
<1>14. Desk!TypeOK'
  <2>1. messages' \in [Messages -> Desk!Row \union {NoRow}] /\ held' \in [Messages -> SUBSET Desk!Statuses]
    BY <1>2, <1>6, <1>7 DEF DeskInv, Desk!TypeOK
  <2>2. closings' \in [Messages -> Nat]
    <3> HIDE DEF m, closed
    <3>1. closings \in [Messages -> Nat] /\ m \in Messages
      BY <1>4 DEF DeskInv, Desk!TypeOK
    <3> QED BY <1>2, <3>1
  <2> QED BY <1>2, <1>4, <1>8, <1>10, <2>1, <2>2 DEF DeskInv, Desk!TypeOK
<1>15. DeskStatusHeld'
  BY <1>12, <1>13 DEF DeskInv, DeskStatusHeld
<1>16. ASSUME NEW p \in Requests \ {r}, answering'[p].step \in {"loaded", "updated"},
              answering'[p].message \notin overlapped'
       PROVE  /\ answering'[p] = answering[p] /\ answering[p].message \notin overlapped
              /\ messages'[answering[p].message] = messages[answering[p].message]
  <2>1. answering'[p] = answering[p]
    BY <1>11
  <2>2. answering[p].message \in Messages
    BY <1>16, <2>1, DeskShape DEF DeskInv, Desk!Loaded, Desk!Updated
  <2> QED BY <1>10, <1>12, <1>16, <2>1, <2>2
<1>17. DeskLoadedKnows'
  BY <1>8, <1>11, <1>16 DEF DeskInv, DeskLoadedKnows
<1>18. DeskUpdatedKnows'
  <2>1. m \notin overlapped' => closed = (row.status \in Desk!Final /\ ~done.wasFinal)
    BY <1>8, <1>9, <1>10
  <2>2. m \notin overlapped' =>
          /\ messages'[answering'[r].message] # NoRow
          /\ answering'[r].closed <=>
                 messages'[answering'[r].message].status \in Desk!Final /\ ~answering'[r].wasFinal
    BY <1>7, <1>8, <1>11, <1>12, <2>1
  <2> QED BY <1>8, <1>11, <1>16, <2>2 DEF DeskInv, DeskUpdatedKnows
<1>19. DeskOneUpdates'
  BY <1>8, <1>10, <1>11 DEF DeskInv, DeskOneUpdates, DeskUpdates
<1>20. \A x \in Messages \ {m} : Desk!AboutToTell(x)' = Desk!AboutToTell(x)
  BY <1>1, <1>8, <1>11 DEF Desk!AboutToTell
<1>21. ASSUME NEW x \in Messages, x = m, x \notin overlapped'
       PROVE  Desk!AboutToTell(x) = {} /\ Desk!AboutToTell(x)' = {p \in {r} : closed}
  <2>1. \A p \in Requests \ {r} : answering[p].step = "updated" => answering[p].message # x
    BY <1>10, <1>21
  <2>2. \A p \in Requests : ~(answering[p].step = "updated" /\ answering[p].message = x)
    BY <1>1, <2>1
  <2>3. Desk!AboutToTell(x) = {}
    BY <2>2 DEF Desk!AboutToTell
  <2>4. \A p \in Requests \ {r} : ~(answering'[p].step = "updated" /\ answering'[p].message = x)
    BY <1>11, <2>2
  <2>5. answering'[r].step = "updated" /\ answering'[r].message = x /\ answering'[r].closed = closed
    BY <1>8, <1>11, <1>21
  <2> HIDE DEF m, q, closed
  <2>6. Desk!AboutToTell(x)' = {p \in {r} : closed}
    BY <2>4, <2>5 DEF Desk!AboutToTell
  <2> QED BY <2>3, <2>6
<1>22. ASSUME NEW x \in Messages, x = m, x \notin overlapped'
       PROVE  Desk!Mails(x) + Cardinality(Desk!AboutToTell(x)') = closings'[x]
  <2>1. Desk!Mails(x) + Cardinality({}) = closings[x]
    BY <1>10, <1>21, <1>22, CountingDesk DEF DeskInv, Desk!ClosingToldOnce
  <2>2. Desk!Mails(x) \in Nat
    BY DEF DeskInv, Desk!TypeOK, Desk!Mails, Desk!Final
  <2>3. Desk!AboutToTell(x)' = (IF closed THEN {r} ELSE {})
    BY <1>21, <1>22
  <2>4. closings'[x] = (IF closed THEN closings[x] + 1 ELSE closings[x])
    BY <1>13, <1>22
  <2> HIDE DEF m, q, closed
  <2>5. Cardinality({}) = 0 /\ Cardinality({r}) = 1
    BY FS_EmptySet, FS_Singleton
  <2>6. CASE closed
    BY <2>1, <2>2, <2>3, <2>4, <2>5, <2>6
  <2>7. CASE ~closed
    BY <2>1, <2>2, <2>3, <2>4, <2>5, <2>7
  <2> QED BY <2>6, <2>7
<1>23. Desk!ClosingToldOnce'
  <2> SUFFICES ASSUME NEW x \in Messages
               PROVE  /\ x \notin overlapped' =>
                             Desk!Mails(x)' + Cardinality(Desk!AboutToTell(x)') = closings'[x]
                      /\ \A s \in Desk!Final : told'[x][s] > 0 => s \in held'[x]
    BY CountingDesk DEF Desk!ClosingToldOnce
  <2>1. /\ x \notin overlapped => Desk!Mails(x) + Cardinality(Desk!AboutToTell(x)) = closings[x]
        /\ \A s \in Desk!Final : told[x][s] > 0 => s \in held[x]
    BY CountingDesk DEF DeskInv, Desk!ClosingToldOnce
  <2>2. Desk!Mails(x)' = Desk!Mails(x)
    BY <1>2 DEF Desk!Mails
  <2>3. \A s \in Desk!Final : told'[x][s] > 0 => s \in held'[x]
    BY <1>2, <1>13, <2>1
  <2>4. CASE x = m
    BY <1>22, <2>2, <2>3, <2>4
  <2>5. CASE x # m
    BY <1>10, <1>13, <1>20, <2>1, <2>2, <2>3, <2>5
  <2> QED BY <2>4, <2>5
<1> QED BY <1>14, <1>15, <1>17, <1>18, <1>19, <1>23 DEF DeskInv

LEMMA DeskAnswerStep ==
    ASSUME DeskInv, NEW r \in Requests, Desk!Answer(r), NoRow \notin Desk!Row
    PROVE  DeskInv'
<1> DEFINE q == answering[r]
<1>1. PICK m \in Messages : m = q.message /\ q.step = "updated" /\ q \in Desk!Updated
  BY DeskShape DEF Desk!Answer, DeskInv, Desk!Updated
<1> DEFINE s == messages[m].status
           tells == s \in Desk!Final /\ ~q.wasFinal
<1>2. /\ messages[m] # NoRow
      /\ told' = (IF tells THEN [told EXCEPT ![m][s] = @ + 1] ELSE told)
      /\ answering' = [answering EXCEPT ![r] = Desk!Over] /\ UNCHANGED <<messages, held, closings, overlapped>>
  BY <1>1 DEF Desk!Answer, Desk!To
<1>3. s \in held[m]
  BY <1>2 DEF DeskInv, DeskStatusHeld
<1>4. m \notin overlapped => q.closed = tells
  BY <1>1 DEF DeskInv, DeskUpdatedKnows, Desk!Updated
<1>5. told \in [Messages -> [Desk!Final -> Nat]]
  BY DEF DeskInv, Desk!TypeOK
<1> HIDE DEF s, tells
<1>6. answering'[r].step = "over" /\ \A p \in Requests \ {r} : answering'[p] = answering[p]
  BY <1>2, DeskSteps DEF DeskInv, Desk!TypeOK
<1>7. told' \in [Messages -> [Desk!Final -> Nat]]
  <2>1. CASE tells
    <3>1. s \in Desk!Final
      BY <2>1 DEF tells
    <3> QED BY <1>2, <1>5, <2>1, <3>1
  <2> QED BY <1>2, <1>5, <2>1
<1>8. Desk!TypeOK'
  BY <1>2, <1>7 DEF DeskInv, Desk!TypeOK
<1>9. DeskStatusHeld' /\ DeskLoadedKnows' /\ DeskUpdatedKnows' /\ DeskOneUpdates'
  BY <1>2, <1>6 DEF DeskInv, DeskStatusHeld, DeskLoadedKnows, DeskUpdatedKnows, DeskOneUpdates, DeskUpdates
<1>10. \A x \in Messages \ {m} : Desk!AboutToTell(x)' = Desk!AboutToTell(x)
  BY <1>1, <1>6 DEF Desk!AboutToTell
<1>11. m \notin overlapped => Desk!AboutToTell(m) = (IF tells THEN {r} ELSE {}) /\ Desk!AboutToTell(m)' = {}
  BY <1>1, <1>4, <1>6 DEF Desk!AboutToTell, DeskInv, DeskOneUpdates, DeskUpdates
<1>12. \A x \in Messages \ {m} : told'[x] = told[x]
  BY <1>2, <1>5
<1>13. /\ Desk!Mails(m) \in Nat
       /\ Desk!Mails(m)' = (IF tells THEN Desk!Mails(m) + 1 ELSE Desk!Mails(m))
       /\ \A f \in Desk!Final : told'[m][f] > 0 => told[m][f] > 0 \/ f = s
  <2>1. told[m]["RESOLVED"] \in Nat /\ told[m]["REJECTED"] \in Nat
    BY <1>5 DEF Desk!Final
  <2>2. CASE tells
    <3>1. s \in {"RESOLVED", "REJECTED"}
      BY <2>2 DEF tells, Desk!Final
    <3>2. \A f \in Desk!Final : told'[m][f] = (IF f = s THEN told[m][f] + 1 ELSE told[m][f])
      BY <1>2, <1>5, <2>2
    <3>3. /\ told'[m]["RESOLVED"] = (IF s = "RESOLVED" THEN told[m]["RESOLVED"] + 1 ELSE told[m]["RESOLVED"])
          /\ told'[m]["REJECTED"] = (IF s = "REJECTED" THEN told[m]["REJECTED"] + 1 ELSE told[m]["REJECTED"])
      BY <3>2 DEF Desk!Final
    <3> QED BY <2>1, <2>2, <3>1, <3>2, <3>3 DEF Desk!Mails
  <2>3. CASE ~tells
    BY <1>2, <2>1, <2>3 DEF Desk!Mails
  <2> QED BY <2>2, <2>3
<1>14. Desk!ClosingToldOnce'
  <2> SUFFICES ASSUME NEW x \in Messages
               PROVE  /\ x \notin overlapped =>
                             Desk!Mails(x)' + Cardinality(Desk!AboutToTell(x)') = closings[x]
                      /\ \A f \in Desk!Final : told'[x][f] > 0 => f \in held[x]
    BY <1>2, CountingDesk DEF Desk!ClosingToldOnce
  <2>1. /\ x \notin overlapped => Desk!Mails(x) + Cardinality(Desk!AboutToTell(x)) = closings[x]
        /\ \A f \in Desk!Final : told[x][f] > 0 => f \in held[x]
    BY CountingDesk DEF DeskInv, Desk!ClosingToldOnce
  <2>2. CASE x = m
    <3>1. \A f \in Desk!Final : told'[x][f] > 0 => f \in held[x]
      BY <1>3, <1>13, <2>1, <2>2
    <3>2. ASSUME m \notin overlapped PROVE Desk!Mails(m)' + Cardinality(Desk!AboutToTell(m)') = closings[m]
      <4>1. Cardinality({}) = 0 /\ Cardinality({r}) = 1
        BY FS_EmptySet, FS_Singleton
      <4>2. Desk!Mails(m) + Cardinality(Desk!AboutToTell(m)) = closings[m]
        BY <2>1, <2>2, <3>2
      <4>3. CASE tells
        <5>1. Desk!AboutToTell(m) = {r} /\ Desk!AboutToTell(m)' = {} /\ Desk!Mails(m)' = Desk!Mails(m) + 1
          BY <1>11, <1>13, <3>2, <4>3
        <5> QED BY <1>13, <4>1, <4>2, <5>1
      <4>4. CASE ~tells
        <5>1. Desk!AboutToTell(m) = {} /\ Desk!AboutToTell(m)' = {} /\ Desk!Mails(m)' = Desk!Mails(m)
          BY <1>11, <1>13, <3>2, <4>4
        <5> QED BY <1>13, <4>1, <4>2, <5>1
      <4> QED BY <4>3, <4>4
    <3> QED BY <2>2, <3>1, <3>2
  <2>3. CASE x # m
    <3>1. Desk!Mails(x)' = Desk!Mails(x) /\ Desk!AboutToTell(x)' = Desk!AboutToTell(x)
      BY <1>10, <1>12, <2>3 DEF Desk!Mails
    <3> QED BY <1>12, <2>1, <2>3, <3>1
  <2> QED BY <2>2, <2>3
<1> QED BY <1>8, <1>9, <1>14 DEF DeskInv

LEMMA InitDeskInv ==
    ASSUME Desk!FrontDeskAssumption, Desk!Init
    PROVE  DeskInv
<1>1. /\ messages = [m \in Messages |-> IF m \in Unanswered THEN Desk!Pending ELSE NoRow]
      /\ answering = [r \in Requests |-> Desk!Idle]
      /\ held = [m \in Messages |-> IF m \in Unanswered THEN {"PENDING"} ELSE {}]
      /\ closings = [m \in Messages |-> 0] /\ told = [m \in Messages |-> [s \in Desk!Final |-> 0]] /\ overlapped = {}
  BY DEF Desk!Init
<1>2. Desk!Pending \in Desk!Row /\ Desk!Pending.status = "PENDING"
  BY DEF Desk!Pending, Desk!Row, Desk!Statuses
<1>3. Desk!TypeOK
  BY <1>1, <1>2 DEF Desk!TypeOK, Desk!Statuses
<1>4. \A r \in Requests : answering[r].step = "idle"
  BY <1>1, DeskSteps
<1>5. DeskStatusHeld /\ DeskLoadedKnows /\ DeskUpdatedKnows /\ DeskOneUpdates
  BY <1>1, <1>2, <1>4 DEF DeskStatusHeld, DeskLoadedKnows, DeskUpdatedKnows, DeskOneUpdates, DeskUpdates
<1>6. \A m \in Messages : Desk!AboutToTell(m) = {}
  BY <1>4 DEF Desk!AboutToTell
<1>7. Desk!ClosingToldOnce
  <2>1. \A m \in Messages : Desk!Mails(m) = 0 /\ closings[m] = 0 /\ \A s \in Desk!Final : told[m][s] = 0
    BY <1>1 DEF Desk!Mails, Desk!Final
  <2> QED BY <1>6, <2>1, FS_EmptySet, CountingDesk DEF Desk!ClosingToldOnce
<1> QED BY <1>3, <1>5, <1>7 DEF DeskInv

LEMMA StepDeskInv ==
    ASSUME Desk!FrontDeskAssumption, DeskInv, [Desk!Next]_(Desk!deskVars)
    PROVE  DeskInv'
<1>1. CASE UNCHANGED Desk!deskVars
  BY <1>1 DEF Desk!deskVars, DeskInv, Desk!TypeOK, DeskStatusHeld, DeskLoadedKnows, DeskUpdatedKnows,
              DeskOneUpdates, DeskUpdates, Desk!ClosingToldOnce, Desk!Mails, Desk!AboutToTell
<1>2. CASE Desk!Next
  BY <1>2, DeskSubmitStep, DeskLoadStep, DeskCommitStep, DeskAnswerStep, DeskRemoveStep, DeskDeleteStep,
     DeskFindGoneStep DEF Desk!Next, Desk!FrontDeskAssumption
<1> QED BY <1>1, <1>2
-----------------------------------------------------------------------------
(* TRAIL.  The deletions of an undisturbed actor are recorded in the order *)
(* of their times and counted one by one, so the count that a burst passes *)
(* the threshold with is not missed, and no later one repeats it.          *)

TrailDeletions(log, a) == {i \in DOMAIN log : log[i].actor = a /\ log[i].action = "DELETE"}

\* What a deletion is counted with: those before it that are young enough.
TrailBurst(log, a, i) == {j \in TrailDeletions(log, a) : j <= i /\ log[j].at + AlertWindow >= log[i].at}

\* A request that recorded a deletion knows its entry; of an undisturbed actor it is the
\* last one while it waits to be counted.
TrailKnown == \A r \in Requests : auditing[r].step \in {"recorded", "alerting"} =>
    /\ auditing[r].id \in TrailDeletions(entries, auditing[r].entry.actor)
    /\ entries[auditing[r].id] = auditing[r].entry
TrailLast == \A r \in Requests : auditing[r].step = "recorded" /\ auditing[r].entry.actor \notin disturbed =>
    \A j \in TrailDeletions(entries, auditing[r].entry.actor) : j <= auditing[r].id
TrailInTime == \A a \in Actors \ disturbed : \A i, j \in TrailDeletions(entries, a) :
    i <= j => entries[i].at <= entries[j].at

\* An alert is about a deletion that was counted at the threshold.
TrailAtThreshold(a, i) == i \in TrailDeletions(entries, a) /\ Cardinality(TrailBurst(entries, a, i)) = Threshold
TrailAlerts == \A r \in Requests : auditing[r].step = "alerting" /\ auditing[r].entry.actor \notin disturbed =>
    TrailAtThreshold(auditing[r].entry.actor, auditing[r].id)
TrailMails == \A m \in mails : m.actor \notin disturbed => TrailAtThreshold(m.actor, m.upto)

\* Of a deletion that was counted at the threshold or beyond, every super admin was told or
\* is about to be.
TrailTelling(r, a, to) == auditing[r].step = "alerting" /\ auditing[r].entry.actor = a /\ to \in auditing[r].left
TrailTold(a, to) == \/ \E m \in mails : m.actor = a /\ m.to = to
                    \/ \E r \in Requests : TrailTelling(r, a, to)
TrailCounted(i) == \A r \in Requests : auditing[r].step = "recorded" => auditing[r].id # i
TrailReported == \A a \in Actors \ disturbed : \A i \in TrailDeletions(entries, a) :
    TrailCounted(i) /\ Cardinality(TrailBurst(entries, a, i)) >= Threshold => \A to \in Recipients : TrailTold(a, to)

\* The inductive invariant.
TrailInv == /\ Trail!TypeOK /\ TrailKnown /\ TrailLast /\ TrailInTime /\ TrailAlerts /\ TrailMails /\ TrailReported

LEMMA CountingTrail == \A S : Trail!Cardinality(S) = Cardinality(S)
BY DEF Trail!Cardinality, Cardinality

LEMMA TrailBounds ==
    ASSUME Trail!AuditAlertAssumption
    PROVE  Threshold \in Nat \ {0} /\ AlertWindow \in Nat /\ LastHour \in Nat
BY DEF Trail!AuditAlertAssumption
-----------------------------------------------------------------------------
(* Deletions and bursts *)

LEMMA TrailFinite ==
    ASSUME NEW log \in Seq(Trail!Entry), NEW a, NEW S \in SUBSET TrailDeletions(log, a)
    PROVE  IsFiniteSet(S) /\ S \in SUBSET Nat /\ Cardinality(S) \in Nat
<1>1. S \subseteq 1..Len(log) /\ Len(log) \in Nat
  BY DEF TrailDeletions
<1>2. IsFiniteSet(1..Len(log))
  BY <1>1, FS_Interval
<1>3. IsFiniteSet(S)
  BY <1>1, <1>2, FS_Subset
<1>4. Cardinality(S) \in Nat
  BY <1>3, FS_CardinalityType
<1> QED BY <1>1, <1>3, <1>4

LEMMA TrailTyped ==
    ASSUME Trail!AuditAlertAssumption, NEW log \in Seq(Trail!Entry), NEW a, NEW i \in TrailDeletions(log, a)
    PROVE  /\ i \in 1..Len(log) /\ i \in Nat /\ log[i] \in Trail!Entry /\ log[i].at \in Nat
           /\ log[i].actor = a /\ log[i].action = "DELETE"
<1>1. i \in 1..Len(log) /\ log[i] \in Trail!Entry /\ log[i].actor = a /\ log[i].action = "DELETE"
  BY DEF TrailDeletions
<1> QED BY <1>1, TrailBounds DEF Trail!Entry

\* A new entry leaves the deletions before it, and what each was counted with.
LEMMA TrailGrows ==
    ASSUME Trail!AuditAlertAssumption, NEW log \in Seq(Trail!Entry), NEW e \in Trail!Entry, NEW a
    PROVE  LET n == Len(log) + 1
               new == Append(log, e)
           IN /\ new \in Seq(Trail!Entry) /\ n \in Nat /\ n \notin DOMAIN log /\ new[n] = e
              /\ \A i \in DOMAIN log : new[i] = log[i]
              /\ TrailDeletions(new, a) =
                     TrailDeletions(log, a) \union {i \in {n} : e.actor = a /\ e.action = "DELETE"}
              /\ \A i \in DOMAIN log : TrailBurst(new, a, i) = TrailBurst(log, a, i)
<1> DEFINE n == Len(log) + 1
           new == Append(log, e)
<1>1. Len(log) \in Nat /\ DOMAIN log = 1..Len(log) /\ n \in Nat /\ n \notin DOMAIN log
  OBVIOUS
<1>2. /\ new \in Seq(Trail!Entry) /\ DOMAIN new = 1..n /\ new[n] = e
      /\ \A i \in DOMAIN log : new[i] = log[i]
  OBVIOUS
<1>3. DOMAIN new = DOMAIN log \union {n}
  BY <1>1, <1>2
<1> HIDE DEF new
<1>4. TrailDeletions(new, a) = TrailDeletions(log, a) \union {i \in {n} : e.actor = a /\ e.action = "DELETE"}
  <2> HIDE DEF n
  <2> QED BY <1>1, <1>2, <1>3 DEF TrailDeletions
<1>5. ASSUME NEW i \in DOMAIN log PROVE TrailBurst(new, a, i) = TrailBurst(log, a, i)
  <2>1. \A j \in DOMAIN new : j <= i => j \in DOMAIN log
    BY <1>1, <1>2, <1>5
  <2>2. \A j \in DOMAIN log : j \in TrailDeletions(new, a) <=> j \in TrailDeletions(log, a)
    BY <1>2, <1>3 DEF TrailDeletions
  <2>3. TrailDeletions(new, a) \subseteq DOMAIN new /\ TrailDeletions(log, a) \subseteq DOMAIN log
    BY DEF TrailDeletions
  <2>4. new[i] = log[i] /\ \A j \in DOMAIN log : new[j] = log[j]
    BY <1>2, <1>5
  <2> HIDE DEF n
  <2> QED BY <2>1, <2>2, <2>3, <2>4 DEF TrailBurst
<1> QED BY <1>1, <1>2, <1>4, <1>5 DEF new

\* What is counted beyond the threshold had a deletion before it that reached it.
LEMMA TrailPassedThrough ==
    ASSUME Trail!AuditAlertAssumption, Trail!TypeOK, TrailInTime, NEW a \in Actors \ disturbed,
           NEW i \in TrailDeletions(entries, a), Cardinality(TrailBurst(entries, a, i)) > Threshold
    PROVE  \E p \in TrailDeletions(entries, a) : p < i /\ Cardinality(TrailBurst(entries, a, p)) >= Threshold
<1> DEFINE burst == TrailBurst(entries, a, i)
           rest == burst \ {i}
<1>1. entries \in Seq(Trail!Entry)
  BY DEF Trail!TypeOK
<1>2. burst \subseteq TrailDeletions(entries, a)
  BY DEF TrailBurst
<1>3. i \in burst
  <2>1. i \in Nat /\ entries[i].at \in Nat
    BY <1>1, TrailTyped
  <2>2. i <= i /\ entries[i].at + AlertWindow >= entries[i].at
    BY <2>1, TrailBounds
  <2> QED BY <2>2 DEF TrailBurst
<1>4. IsFiniteSet(burst) /\ Cardinality(burst) \in Nat /\ Cardinality(burst) > Threshold
  BY <1>1, <1>2, TrailFinite
<1> HIDE DEF burst
<1>5. IsFiniteSet(rest) /\ Cardinality(rest) = Cardinality(burst) - 1
  BY <1>3, <1>4, FS_RemoveElement
<1>6. Cardinality(rest) >= Threshold /\ Cardinality(rest) # 0
  BY <1>4, <1>5, TrailBounds
<1>7. rest # {} /\ rest \in SUBSET Nat
  <2>1. rest \in SUBSET TrailDeletions(entries, a)
    BY <1>2
  <2>2. rest \in SUBSET Nat
    BY <1>1, <2>1, TrailFinite
  <2> QED BY <1>6, <2>2, FS_EmptySet
<1>8. PICK p \in rest : \A k \in rest : p >= k
  <2> HIDE DEF rest
  <2> QED BY <1>5, <1>7, Greatest
<1>9. p \in TrailDeletions(entries, a) /\ p < i
  <2>1. p \in TrailDeletions(entries, a) /\ p <= i /\ p # i
    BY <1>2, <1>8 DEF burst, TrailBurst
  <2> QED BY <1>1, <2>1, TrailTyped
<1>10. rest \subseteq TrailBurst(entries, a, p)
  <2> SUFFICES ASSUME NEW j \in rest PROVE j \in TrailBurst(entries, a, p)
    OBVIOUS
  <2>1. j \in TrailDeletions(entries, a) /\ entries[j].at + AlertWindow >= entries[i].at /\ j \in Nat
    BY <1>1, <1>2, TrailTyped DEF burst, TrailBurst
  <2>2. j <= p
    BY <1>1, <1>8, <1>9, <2>1, TrailTyped
  <2>3. entries[p].at <= entries[i].at
    BY <1>1, <1>9, TrailTyped DEF TrailInTime
  <2>4. entries[j].at \in Nat /\ entries[i].at \in Nat /\ entries[p].at \in Nat
    BY <1>1, <1>9, <2>1, TrailTyped
  <2>5. entries[j].at + AlertWindow >= entries[p].at
    BY <2>1, <2>3, <2>4, TrailBounds
  <2> QED BY <2>1, <2>2, <2>5 DEF TrailBurst
<1>11. IsFiniteSet(TrailBurst(entries, a, p)) /\ Cardinality(TrailBurst(entries, a, p)) \in Nat
  <2>1. TrailBurst(entries, a, p) \in SUBSET TrailDeletions(entries, a)
    BY DEF TrailBurst
  <2> QED BY <1>1, <2>1, TrailFinite
<1>12. Cardinality(rest) <= Cardinality(TrailBurst(entries, a, p))
  <2> HIDE DEF rest
  <2> QED BY <1>10, <1>11, FS_Subset
<1>13. Cardinality(TrailBurst(entries, a, p)) >= Threshold
  BY <1>4, <1>5, <1>6, <1>11, <1>12, TrailBounds
<1> QED BY <1>9, <1>13
-----------------------------------------------------------------------------
(* Steps *)

LEMMA TrailSteps == Trail!Idle.step = "idle" /\ Trail!Over.step = "over"
BY DEF Trail!Idle, Trail!Over

LEMMA TrailShape ==
    ASSUME Trail!TypeOK, NEW r \in Requests, auditing[r].step \in {"changed", "recorded", "alerting"}
    PROVE  /\ auditing[r] \in Trail!Busy /\ auditing[r].entry \in Trail!Entry
           /\ auditing[r].entry.actor \in Actors /\ auditing[r].id \in Nat /\ auditing[r].left \in SUBSET Recipients
<1>1. auditing[r] \in Trail!Busy
  BY TrailSteps DEF Trail!TypeOK
<1> QED BY <1>1 DEF Trail!Busy, Trail!Entry

LEMMA TrailTickStep ==
    ASSUME Trail!AuditAlertAssumption, TrailInv, Trail!Tick
    PROVE  TrailInv'
<1>1. time' \in 0..LastHour /\ UNCHANGED <<entries, auditing, mails, disturbed>>
  BY TrailBounds DEF Trail!Tick, TrailInv, Trail!TypeOK
<1>2. Trail!TypeOK'
  BY <1>1 DEF TrailInv, Trail!TypeOK
<1>3. /\ TrailKnown' /\ TrailLast' /\ TrailInTime' /\ TrailAlerts' /\ TrailMails' /\ TrailReported'
  BY <1>1 DEF TrailInv, TrailKnown, TrailLast, TrailInTime, TrailAlerts, TrailMails, TrailReported,
              TrailAtThreshold, TrailTold, TrailTelling, TrailCounted
<1> QED BY <1>2, <1>3 DEF TrailInv

LEMMA TrailChangeStep ==
    ASSUME Trail!AuditAlertAssumption, TrailInv, NEW r \in Requests, Trail!Change(r)
    PROVE  TrailInv'
<1>1. PICK a \in Actors, action \in Trail!Actions : Trail!Change(r)!(a, action)
  BY DEF Trail!Change
<1> DEFINE q == [step |-> "changed", entry |-> [actor |-> a, action |-> action, at |-> time], id |-> 0, left |-> {}]
<1>2. /\ auditing[r] = Trail!Idle /\ auditing' = [auditing EXCEPT ![r] = q]
      /\ UNCHANGED <<time, entries, mails, disturbed>>
  BY <1>1 DEF Trail!To
<1>3. q \in Trail!Busy /\ q.step = "changed"
  BY DEF TrailInv, Trail!TypeOK, Trail!Busy, Trail!Entry
<1> HIDE DEF q
<1>4. /\ auditing[r].step = "idle" /\ auditing'[r].step = "changed"
      /\ \A p \in Requests \ {r} : auditing'[p] = auditing[p]
  BY <1>2, <1>3, TrailSteps DEF TrailInv, Trail!TypeOK
<1>5. Trail!TypeOK'
  BY <1>2, <1>3 DEF TrailInv, Trail!TypeOK
<1>6. TrailKnown' /\ TrailLast' /\ TrailInTime' /\ TrailAlerts' /\ TrailMails'
  BY <1>2, <1>4 DEF TrailInv, TrailKnown, TrailLast, TrailInTime, TrailAlerts, TrailMails, TrailAtThreshold
<1>7. TrailReported'
  BY <1>2, <1>4 DEF TrailInv, TrailReported, TrailTold, TrailTelling, TrailCounted
<1> QED BY <1>5, <1>6, <1>7 DEF TrailInv

LEMMA TrailFailStep ==
    ASSUME Trail!AuditAlertAssumption, TrailInv, NEW r \in Requests, Trail!Fail(r)
    PROVE  TrailInv'
<1> DEFINE a == auditing[r].entry.actor
<1>1. /\ auditing[r].step \in {"changed", "recorded", "alerting"} /\ disturbed' = disturbed \union {a}
      /\ auditing' = [auditing EXCEPT ![r] = Trail!Over] /\ UNCHANGED <<time, entries, mails>>
  BY DEF Trail!Fail, Trail!Disturb, Trail!To
<1>2. a \in Actors /\ \A b \in Actors \ disturbed' : b \in Actors \ disturbed /\ b # a
  BY <1>1, TrailShape DEF TrailInv
<1>3. auditing'[r].step = "over" /\ \A p \in Requests \ {r} : auditing'[p] = auditing[p]
  BY <1>1, TrailSteps DEF TrailInv, Trail!TypeOK
<1>4. Trail!TypeOK'
  BY <1>1, <1>2 DEF TrailInv, Trail!TypeOK
<1>5. TrailKnown' /\ TrailLast' /\ TrailAlerts' /\ TrailMails'
  BY <1>1, <1>3 DEF TrailInv, TrailKnown, TrailLast, TrailAlerts, TrailMails, TrailAtThreshold
<1>6. TrailInTime'
  BY <1>1, <1>2 DEF TrailInv, TrailInTime
<1>7. TrailReported'
  <2> SUFFICES ASSUME NEW b \in Actors \ disturbed', NEW i \in TrailDeletions(entries, b), TrailCounted(i)',
                      Cardinality(TrailBurst(entries, b, i)) >= Threshold, NEW to \in Recipients
               PROVE  TrailTold(b, to)'
    BY <1>1 DEF TrailReported
  <2>1. entries[i].actor = b /\ b # a /\ b \in Actors \ disturbed
    BY <1>2 DEF TrailDeletions
  <2>2. auditing[r].step = "recorded" => auditing[r].id # i
    BY <2>1 DEF TrailInv, TrailKnown
  <2>3. TrailCounted(i)
    BY <1>3, <2>2 DEF TrailCounted
  <2>4. TrailTold(b, to)
    BY <2>1, <2>3 DEF TrailInv, TrailReported
  <2> QED BY <1>1, <1>3, <2>1, <2>4 DEF TrailTold, TrailTelling
<1> QED BY <1>4, <1>5, <1>6, <1>7 DEF TrailInv

LEMMA TrailAlertStep ==
    ASSUME Trail!AuditAlertAssumption, TrailInv, NEW r \in Requests, Trail!Alert(r)
    PROVE  TrailInv'
<1>1. PICK to \in Recipients, sent \in BOOLEAN : Trail!Alert(r)!(to, sent)
  BY DEF Trail!Alert
<1>2. PICK q : q = auditing[r]
  OBVIOUS
<1> DEFINE a == q.entry.actor
           left == q.left \ {to}
           m == [actor |-> a, to |-> to, upto |-> q.id]
           p == [q EXCEPT !.left = left]
<1>3. /\ q.step = "alerting" /\ to \in q.left
      /\ mails' = (IF sent THEN mails \union {m} ELSE mails)
      /\ disturbed' = (IF sent THEN disturbed ELSE disturbed \union {a})
      /\ auditing' = [auditing EXCEPT ![r] = IF left = {} THEN Trail!Over ELSE p]
      /\ UNCHANGED <<time, entries>>
  BY <1>1, <1>2 DEF Trail!Disturb, Trail!To
<1>4. q \in Trail!Busy /\ a \in Actors /\ q.id \in Nat /\ q.left \in SUBSET Recipients
  BY <1>2, <1>3, TrailShape DEF TrailInv
<1>5. p \in Trail!Busy /\ p.step = "alerting" /\ p.entry = q.entry /\ p.id = q.id /\ p.left = left
  BY <1>3, <1>4 DEF Trail!Busy
<1>6. q.id \in TrailDeletions(entries, a) /\ entries[q.id] = q.entry
  BY <1>2, <1>3 DEF TrailInv, TrailKnown
<1>7. m \in [actor : Actors, to : Recipients, upto : 1..Len(entries)] /\ m.actor = a /\ m.to = to /\ m.upto = q.id
  <2>1. q.id \in 1..Len(entries)
    BY <1>6 DEF TrailInv, Trail!TypeOK, TrailDeletions
  <2> QED BY <1>4, <2>1
<1> HIDE DEF a, left, m, p
<1>8. /\ auditing'[r] = (IF left = {} THEN Trail!Over ELSE p)
      /\ \A s \in Requests \ {r} : auditing'[s] = auditing[s]
  BY <1>3 DEF TrailInv, Trail!TypeOK
<1>9. \A b \in Actors \ disturbed' : b \in Actors \ disturbed /\ (b = a => sent)
  BY <1>3
<1>10. Trail!TypeOK'
  <2>1. auditing' \in [Requests -> {Trail!Idle, Trail!Over} \union Trail!Busy]
    BY <1>3, <1>5 DEF TrailInv, Trail!TypeOK
  <2> QED BY <1>3, <1>4, <1>7, <2>1 DEF TrailInv, Trail!TypeOK
<1>11. \A s \in Requests : auditing'[s].step \in {"recorded", "alerting"} =>
          /\ auditing[s].step = auditing'[s].step /\ auditing[s].entry = auditing'[s].entry
          /\ auditing[s].id = auditing'[s].id
  BY <1>2, <1>3, <1>5, <1>8, TrailSteps
<1>12. TrailKnown' /\ TrailLast' /\ TrailInTime' /\ TrailAlerts'
  BY <1>3, <1>9, <1>11 DEF TrailInv, TrailKnown, TrailLast, TrailInTime, TrailAlerts, TrailAtThreshold
<1>13. TrailMails'
  <2> SUFFICES ASSUME NEW x \in mails', x.actor \notin disturbed' PROVE TrailAtThreshold(x.actor, x.upto)
    BY <1>3 DEF TrailMails, TrailAtThreshold
  <2>1. CASE x \in mails
    BY <1>3, <2>1 DEF TrailInv, TrailMails
  <2>2. CASE x = m
    <3>1. a \notin disturbed
      BY <1>3, <1>7, <2>2
    <3> QED BY <1>2, <1>3, <1>7, <2>2, <3>1 DEF a, TrailInv, TrailAlerts
  <2> QED BY <1>3, <2>1, <2>2
<1>14. TrailReported'
  <2> SUFFICES ASSUME NEW b \in Actors \ disturbed', NEW i \in TrailDeletions(entries, b), TrailCounted(i)',
                      Cardinality(TrailBurst(entries, b, i)) >= Threshold, NEW x \in Recipients
               PROVE  TrailTold(b, x)'
    BY <1>3 DEF TrailReported
  <2>1. TrailCounted(i)
    BY <1>2, <1>3, <1>8 DEF TrailCounted
  <2>2. TrailTold(b, x)
    BY <1>9, <2>1 DEF TrailInv, TrailReported
  <2>3. CASE \E y \in mails : y.actor = b /\ y.to = x
    BY <1>3, <2>3 DEF TrailTold
  <2>4. CASE \E s \in Requests \ {r} : TrailTelling(s, b, x)
    BY <1>8, <2>4 DEF TrailTold, TrailTelling
  <2>5. CASE TrailTelling(r, b, x)
    <3>1. b = a /\ x \in q.left /\ sent
      BY <1>2, <1>9, <2>5 DEF TrailTelling, a
    <3>2. CASE x = to
      BY <1>3, <1>7, <3>1, <3>2 DEF TrailTold
    <3>3. CASE x # to
      <4>1. x \in left
        BY <3>1, <3>3 DEF left
      <4>2. TrailTelling(r, b, x)'
        BY <1>5, <1>8, <3>1, <4>1 DEF TrailTelling, a
      <4> QED BY <4>2 DEF TrailTold
    <3> QED BY <3>2, <3>3
  <2> QED BY <2>2, <2>3, <2>4, <2>5 DEF TrailTold
<1> QED BY <1>10, <1>12, <1>13, <1>14 DEF TrailInv

LEMMA TrailCountStep ==
    ASSUME Trail!AuditAlertAssumption, TrailInv, NEW r \in Requests, Trail!Count(r)
    PROVE  TrailInv'
<1>1. PICK q : q = auditing[r]
  OBVIOUS
<1> DEFINE a == q.entry.actor
           recent == {i \in Trail!Deletions(a) : entries[i].at + AlertWindow >= time}
           p == [q EXCEPT !.step = "alerting", !.left = Recipients]
           reached == Cardinality(recent) = Threshold
<1>2. /\ q.step = "recorded"
      /\ auditing' = [auditing EXCEPT ![r] = IF reached THEN p ELSE Trail!Over]
      /\ disturbed' = (IF q.entry.at # time THEN disturbed \union {a} ELSE disturbed)
      /\ UNCHANGED <<time, entries, mails>>
  BY <1>1, CountingTrail DEF Trail!Count, Trail!Exactly, Trail!Disturb, Trail!To
<1>3. q \in Trail!Busy /\ q.entry \in Trail!Entry /\ a \in Actors /\ q.id \in Nat
  BY <1>1, <1>2, TrailShape DEF TrailInv
<1>4. q.id \in TrailDeletions(entries, a) /\ entries[q.id] = q.entry
  BY <1>1, <1>2 DEF TrailInv, TrailKnown
<1>5. p \in Trail!Busy /\ p.step = "alerting" /\ p.entry = q.entry /\ p.id = q.id /\ p.left = Recipients
  BY <1>2, <1>3 DEF Trail!Busy
<1>6. \A b \in Actors \ disturbed' : b \in Actors \ disturbed /\ (b = a => q.entry.at = time)
  BY <1>2
<1>7. a \notin disturbed' => recent = TrailBurst(entries, a, q.id)
  <2> SUFFICES ASSUME a \notin disturbed' PROVE recent = TrailBurst(entries, a, q.id)
    OBVIOUS
  <2>1. a \notin disturbed /\ entries[q.id].at = time
    BY <1>3, <1>4, <1>6
  <2>2. \A j \in TrailDeletions(entries, a) : j <= q.id
    BY <1>1, <1>2, <2>1 DEF TrailInv, TrailLast
  <2>3. Trail!Deletions(a) = TrailDeletions(entries, a)
    BY DEF Trail!Deletions, TrailDeletions
  <2> HIDE DEF a
  <2> QED BY <2>1, <2>2, <2>3 DEF TrailBurst
<1> HIDE DEF a, recent, p
<1>8. /\ auditing'[r] = (IF reached THEN p ELSE Trail!Over)
      /\ \A s \in Requests \ {r} : auditing'[s] = auditing[s]
  BY <1>2 DEF TrailInv, Trail!TypeOK
<1>9. Trail!TypeOK'
  <2>1. auditing' \in [Requests -> {Trail!Idle, Trail!Over} \union Trail!Busy]
    BY <1>2, <1>5 DEF TrailInv, Trail!TypeOK
  <2> QED BY <1>2, <1>3, <2>1 DEF TrailInv, Trail!TypeOK
<1>10. TrailKnown'
  BY <1>2, <1>4, <1>5, <1>8, TrailSteps DEF TrailInv, TrailKnown, a
<1>11. TrailLast' /\ TrailInTime'
  BY <1>2, <1>5, <1>6, <1>8, TrailSteps DEF TrailInv, TrailLast, TrailInTime
<1>12. TrailMails'
  BY <1>2, <1>6 DEF TrailInv, TrailMails, TrailAtThreshold
<1>13. a \notin disturbed' /\ reached => TrailAtThreshold(a, q.id)
  BY <1>4, <1>7 DEF TrailAtThreshold, reached
<1>14. TrailAlerts'
  <2> SUFFICES ASSUME NEW s \in Requests, auditing'[s].step = "alerting", auditing'[s].entry.actor \notin disturbed'
               PROVE  TrailAtThreshold(auditing'[s].entry.actor, auditing'[s].id)
    BY <1>2 DEF TrailAlerts, TrailAtThreshold
  <2>1. CASE s = r
    <3>1. reached /\ auditing'[s] = p
      BY <1>8, <2>1, TrailSteps
    <3> QED BY <1>5, <1>13, <3>1 DEF a
  <2>2. CASE s # r
    BY <1>2, <1>8, <2>2 DEF TrailInv, TrailAlerts
  <2> QED BY <2>1, <2>2
<1>15. ASSUME NEW b \in Actors, NEW x \in Recipients, TrailTold(b, x) PROVE TrailTold(b, x)'
  BY <1>1, <1>2, <1>8, <1>15 DEF TrailTold, TrailTelling
<1>16. TrailReported'
  <2> SUFFICES ASSUME NEW b \in Actors \ disturbed', NEW i \in TrailDeletions(entries, b), TrailCounted(i)',
                      Cardinality(TrailBurst(entries, b, i)) >= Threshold, NEW x \in Recipients
               PROVE  TrailTold(b, x)'
    BY <1>2 DEF TrailReported
  <2>1. b \in Actors \ disturbed
    BY <1>6
  <2>2. CASE i # q.id
    <3>1. TrailCounted(i)
      BY <1>1, <1>8, <2>2 DEF TrailCounted
    <3> QED BY <1>15, <2>1, <3>1 DEF TrailInv, TrailReported
  <2>3. CASE i = q.id
    <3>1. b = a /\ recent = TrailBurst(entries, b, i)
      BY <1>4, <1>7, <2>3 DEF TrailDeletions
    <3>2. CASE reached
      <4>1. TrailTelling(r, b, x)'
        BY <1>5, <1>8, <3>1, <3>2 DEF TrailTelling, a
      <4> QED BY <4>1 DEF TrailTold
    <3>3. CASE ~reached
      <4>1. Cardinality(TrailBurst(entries, b, i)) \in Nat
        <5>1. TrailBurst(entries, b, i) \in SUBSET TrailDeletions(entries, b) /\ entries \in Seq(Trail!Entry)
          BY DEF TrailBurst, TrailInv, Trail!TypeOK
        <5> QED BY <5>1, TrailFinite
      <4>2. Cardinality(TrailBurst(entries, b, i)) > Threshold
        BY <3>1, <3>3, <4>1, TrailBounds DEF reached
      <4>3. PICK prior \in TrailDeletions(entries, b) :
                prior < i /\ Cardinality(TrailBurst(entries, b, prior)) >= Threshold
        BY <2>1, <4>2, TrailPassedThrough DEF TrailInv
      <4>4. i \in Nat /\ prior \in Nat
        BY <4>3, TrailTyped DEF TrailInv, Trail!TypeOK
      <4>5. TrailCounted(prior)
        <5> SUFFICES ASSUME NEW s \in Requests, auditing[s].step = "recorded", auditing[s].id = prior PROVE FALSE
          BY DEF TrailCounted
        <5>1. entries[prior] = auditing[s].entry
          BY DEF TrailInv, TrailKnown
        <5>2. auditing[s].entry.actor = b
          BY <4>3, <5>1 DEF TrailDeletions
        <5>3. i <= prior
          BY <2>1, <5>2 DEF TrailInv, TrailLast
        <5> QED BY <4>3, <4>4, <5>3
      <4> QED BY <1>15, <2>1, <4>3, <4>5 DEF TrailInv, TrailReported
    <3> QED BY <3>2, <3>3
  <2> QED BY <2>2, <2>3
<1> QED BY <1>9, <1>10, <1>11, <1>12, <1>14, <1>16 DEF TrailInv

LEMMA TrailRecordStep ==
    ASSUME Trail!AuditAlertAssumption, TrailInv, NEW r \in Requests, Trail!Record(r)
    PROVE  TrailInv'
<1>1. PICK q, n, log : q = auditing[r] /\ n = Len(entries) + 1 /\ log = entries'
  OBVIOUS
<1> DEFINE a == q.entry.actor
           others == {p \in Requests \ {r} : auditing[p].step = "recorded" /\ auditing[p].entry.actor = a}
           older == \E i \in Trail!Deletions(a) : entries[i].at > q.entry.at
           deletes == q.entry.action = "DELETE"
           p == [q EXCEPT !.step = "recorded", !.id = n]
<1>2. /\ q.step = "changed" /\ log = Append(entries, q.entry)
      /\ auditing' = [auditing EXCEPT ![r] = IF deletes THEN p ELSE Trail!Over]
      /\ disturbed' = (IF deletes /\ (others # {} \/ older) THEN disturbed \union {a} ELSE disturbed)
      /\ UNCHANGED <<time, mails>>
  BY <1>1 DEF Trail!Record, Trail!Disturb, Trail!To
<1>3. q \in Trail!Busy /\ q.entry \in Trail!Entry /\ a \in Actors
  BY <1>1, <1>2, TrailShape DEF TrailInv
<1>4. entries \in Seq(Trail!Entry) /\ Len(entries) \in Nat /\ n \in Nat
  BY <1>1 DEF TrailInv, Trail!TypeOK
<1>5. p \in Trail!Busy /\ p.step = "recorded" /\ p.entry = q.entry /\ p.id = n
  BY <1>2, <1>3, <1>4 DEF Trail!Busy
<1>6. /\ log \in Seq(Trail!Entry) /\ n \notin DOMAIN entries /\ log[n] = q.entry
      /\ \A i \in DOMAIN entries : log[i] = entries[i]
  BY <1>1, <1>2, <1>3, <1>4, TrailGrows
<1>7. \A b : /\ TrailDeletions(log, b) =
                    TrailDeletions(entries, b) \union {i \in {n} : q.entry.actor = b /\ q.entry.action = "DELETE"}
             /\ \A i \in DOMAIN entries : TrailBurst(log, b, i) = TrailBurst(entries, b, i)
  BY <1>1, <1>2, <1>3, <1>4, TrailGrows
<1>8. \A b : TrailDeletions(entries, b) \subseteq DOMAIN entries
  BY DEF TrailDeletions
<1>9. \A b \in Actors \ disturbed' :
          /\ b \in Actors \ disturbed
          /\ b = a /\ deletes => others = {} /\ \A i \in TrailDeletions(entries, b) : ~(entries[i].at > q.entry.at)
  <2>1. Trail!Deletions(a) = TrailDeletions(entries, a)
    BY DEF Trail!Deletions, TrailDeletions
  <2> HIDE DEF others, a
  <2> QED BY <1>2, <2>1
<1> HIDE DEF a, deletes, p
<1>10. /\ auditing'[r] = (IF deletes THEN p ELSE Trail!Over)
       /\ \A s \in Requests \ {r} : auditing'[s] = auditing[s]
  BY <1>2 DEF TrailInv, Trail!TypeOK
<1>11. Trail!TypeOK'
  <2>1. auditing' \in [Requests -> {Trail!Idle, Trail!Over} \union Trail!Busy]
    BY <1>2, <1>5 DEF TrailInv, Trail!TypeOK
  <2>2. Len(log) = Len(entries) + 1
    BY <1>2, <1>3, <1>4
  <2>3. 1..Len(entries) \subseteq 1..Len(log)
    BY <1>4, <2>2
  <2>4. mails' \subseteq [actor : Actors, to : Recipients, upto : 1..Len(log)]
    BY <1>2, <2>3 DEF TrailInv, Trail!TypeOK
  <2> QED BY <1>1, <1>2, <1>3, <1>6, <2>1, <2>4 DEF TrailInv, Trail!TypeOK
<1>12. TrailKnown'
  <2> SUFFICES ASSUME NEW s \in Requests, auditing'[s].step \in {"recorded", "alerting"}
               PROVE  /\ auditing'[s].id \in TrailDeletions(log, auditing'[s].entry.actor)
                      /\ log[auditing'[s].id] = auditing'[s].entry
    BY <1>1 DEF TrailKnown
  <2>1. CASE s = r
    <3>1. deletes /\ auditing'[s] = p
      BY <1>10, <2>1, TrailSteps
    <3>2. n \in TrailDeletions(log, q.entry.actor)
      BY <1>7, <3>1 DEF deletes
    <3> QED BY <1>5, <1>6, <3>1, <3>2
  <2>2. CASE s # r
    BY <1>6, <1>7, <1>8, <1>10, <2>2 DEF TrailInv, TrailKnown
  <2> QED BY <2>1, <2>2
<1>13. TrailLast'
  <2> SUFFICES ASSUME NEW s \in Requests, auditing'[s].step = "recorded", auditing'[s].entry.actor \notin disturbed',
                      NEW j \in TrailDeletions(log, auditing'[s].entry.actor)
               PROVE  j <= auditing'[s].id
    BY <1>1 DEF TrailLast
  <2>1. CASE s = r
    <3>1. auditing'[s].id = n
      BY <1>5, <1>10, <2>1, TrailSteps
    <3>2. j \in 1..Len(log) /\ Len(log) = n
      BY <1>1, <1>2, <1>3, <1>4, <1>6 DEF TrailDeletions
    <3> QED BY <1>4, <3>1, <3>2
  <2>2. CASE s # r
    <3>1. auditing'[s] = auditing[s] /\ auditing[s].entry.actor \in Actors
      BY <1>10, <2>2, TrailShape DEF TrailInv
    <3>2. auditing[s].entry.actor = a => ~deletes
      <4>1. auditing[s].entry.actor = a => s \in others
        BY <2>2, <3>1
      <4> QED BY <1>9, <3>1, <4>1
    <3>3. j \in TrailDeletions(entries, auditing[s].entry.actor)
      BY <1>7, <3>1, <3>2 DEF a, deletes
    <3> QED BY <1>9, <3>1, <3>3 DEF TrailInv, TrailLast
  <2> QED BY <2>1, <2>2
<1>14. TrailInTime'
  <2> SUFFICES ASSUME NEW b \in Actors \ disturbed', NEW i \in TrailDeletions(log, b), NEW j \in TrailDeletions(log, b),
                      i <= j
               PROVE  log[i].at <= log[j].at
    BY <1>1 DEF TrailInTime
  <2>1. CASE i \in DOMAIN entries /\ j \in DOMAIN entries
    <3>1. i \in TrailDeletions(entries, b) /\ j \in TrailDeletions(entries, b) /\ i # n /\ j # n
      BY <1>6, <1>7, <2>1
    <3> QED BY <1>6, <1>9, <2>1, <3>1 DEF TrailInv, TrailInTime
  <2>2. CASE j = n /\ i \in DOMAIN entries
    <3>1. i \in TrailDeletions(entries, b) /\ b = a /\ deletes
      BY <1>6, <1>7, <1>8, <2>2 DEF a, deletes
    <3>2. ~(entries[i].at > q.entry.at) /\ entries[i].at \in Nat /\ log[j].at \in Nat
      BY <1>4, <1>6, <1>9, <3>1, TrailTyped
    <3> QED BY <1>6, <2>2, <3>2
  <2>3. CASE i = n
    <3>1. j \in 1..Len(log) /\ Len(log) = n
      BY <1>1, <1>2, <1>3, <1>4, <1>6 DEF TrailDeletions
    <3>2. j = i /\ log[j].at \in Nat
      BY <1>4, <1>6, <2>3, <3>1, TrailTyped
    <3> QED BY <3>2
  <2> QED BY <1>7, <1>8, <2>1, <2>2, <2>3
<1>15. ASSUME NEW b, NEW i, TrailAtThreshold(b, i)
       PROVE  i \in TrailDeletions(log, b) /\ Cardinality(TrailBurst(log, b, i)) = Threshold
  BY <1>7, <1>8, <1>15 DEF TrailAtThreshold
<1>16. TrailAlerts'
  <2> SUFFICES ASSUME NEW s \in Requests, auditing'[s].step = "alerting", auditing'[s].entry.actor \notin disturbed'
               PROVE  /\ auditing'[s].id \in TrailDeletions(log, auditing'[s].entry.actor)
                      /\ Cardinality(TrailBurst(log, auditing'[s].entry.actor, auditing'[s].id)) = Threshold
    BY <1>1 DEF TrailAlerts, TrailAtThreshold
  <2>1. s # r /\ auditing'[s] = auditing[s]
    BY <1>5, <1>10, TrailSteps
  <2>2. TrailAtThreshold(auditing[s].entry.actor, auditing[s].id)
    BY <1>2, <2>1 DEF TrailInv, TrailAlerts
  <2> QED BY <1>15, <2>1, <2>2
<1>17. TrailMails'
  <2> SUFFICES ASSUME NEW m \in mails, m.actor \notin disturbed'
               PROVE  m.upto \in TrailDeletions(log, m.actor) /\ Cardinality(TrailBurst(log, m.actor, m.upto)) = Threshold
    BY <1>1, <1>2 DEF TrailMails, TrailAtThreshold
  <2>1. TrailAtThreshold(m.actor, m.upto)
    BY <1>2 DEF TrailInv, TrailMails
  <2> QED BY <1>15, <2>1
<1>18. TrailReported'
  <2> SUFFICES ASSUME NEW b \in Actors \ disturbed', NEW i \in TrailDeletions(log, b), TrailCounted(i)',
                      Cardinality(TrailBurst(log, b, i)) >= Threshold, NEW x \in Recipients
               PROVE  TrailTold(b, x)'
    BY <1>1 DEF TrailReported
  <2>1. i # n
    <3> SUFFICES ASSUME i = n PROVE FALSE
      OBVIOUS
    <3>1. deletes
      BY <1>6, <1>7, <1>8 DEF deletes
    <3> QED BY <1>5, <1>10, <3>1 DEF TrailCounted
  <2>2. i \in TrailDeletions(entries, b) /\ TrailBurst(log, b, i) = TrailBurst(entries, b, i)
    BY <1>7, <1>8, <2>1
  <2>3. TrailCounted(i)
    BY <1>1, <1>2, <1>10 DEF TrailCounted
  <2>4. TrailTold(b, x)
    BY <1>9, <2>2, <2>3 DEF TrailInv, TrailReported
  <2> QED BY <1>1, <1>2, <1>10, <2>4 DEF TrailTold, TrailTelling
<1> QED BY <1>11, <1>12, <1>13, <1>14, <1>16, <1>17, <1>18 DEF TrailInv

LEMMA InitTrailInv ==
    ASSUME Trail!AuditAlertAssumption, Trail!Init
    PROVE  TrailInv
<1>1. /\ time = 0 /\ entries = <<>> /\ mails = {} /\ disturbed = {}
      /\ auditing = [r \in Requests |-> Trail!Idle]
  BY DEF Trail!Init
<1>2. \A a : TrailDeletions(entries, a) = {}
  BY <1>1 DEF TrailDeletions
<1>3. \A r \in Requests : auditing[r].step = "idle"
  BY <1>1, TrailSteps
<1>4. Trail!TypeOK
  BY <1>1, TrailBounds DEF Trail!TypeOK
<1>5. TrailKnown /\ TrailLast /\ TrailInTime /\ TrailAlerts /\ TrailMails /\ TrailReported
  BY <1>1, <1>2, <1>3 DEF TrailKnown, TrailLast, TrailInTime, TrailAlerts, TrailMails, TrailReported
<1> QED BY <1>4, <1>5 DEF TrailInv

LEMMA StepTrailInv ==
    ASSUME Trail!AuditAlertAssumption, TrailInv, [Trail!Next]_(Trail!auditVars)
    PROVE  TrailInv'
<1>1. CASE UNCHANGED Trail!auditVars
  BY <1>1 DEF Trail!auditVars, TrailInv, Trail!TypeOK, TrailKnown, TrailLast, TrailInTime, TrailAlerts, TrailMails,
              TrailReported, TrailAtThreshold, TrailTold, TrailTelling, TrailCounted
<1>2. CASE Trail!Next
  BY <1>2, TrailTickStep, TrailChangeStep, TrailRecordStep, TrailCountStep, TrailAlertStep, TrailFailStep
     DEF Trail!Next
<1> QED BY <1>1, <1>2

\* Who is quiet has had every burst reported, and what all fell into one window was
\* reported of one deletion only.
LEMMA TrailOnce ==
    ASSUME Trail!AuditAlertAssumption, TrailInv
    PROVE  Trail!AlertOnce
<1> SUFFICES ASSUME NEW a \in Actors \ disturbed, NEW to \in Recipients
             PROVE  /\ Trail!Quiet(a) /\ (\E t \in 0..time : Cardinality(Trail!Within(a, t)) >= Threshold)
                           => Trail!AboutTo(a, to) # {}
                    /\ (\E t \in 0..time : Trail!Deletions(a) = Trail!Within(a, t))
                           => Cardinality(Trail!AboutTo(a, to)) <= 1
                    /\ \A m \in Trail!AboutTo(a, to) :
                           Cardinality({i \in Trail!Deletions(a) : i <= m.upto}) >= Threshold
  BY CountingTrail DEF Trail!AlertOnce
<1> DEFINE dels == TrailDeletions(entries, a)
           alerts == Trail!AboutTo(a, to)
           First(i) == {j \in dels : j <= i}
<1>1. entries \in Seq(Trail!Entry) /\ time \in Nat /\ Trail!Deletions(a) = dels
  BY TrailBounds DEF TrailInv, Trail!TypeOK, Trail!Deletions, TrailDeletions
<1>2. \A t : Trail!Within(a, t) = {i \in dels : entries[i].at \in t..(t + AlertWindow)}
  BY <1>1 DEF Trail!Within
<1>3. \A i \in dels : i \in Nat /\ entries[i].at \in Nat
  BY <1>1, TrailTyped
<1>4. \A m \in alerts : m.upto \in dels /\ Cardinality(TrailBurst(entries, a, m.upto)) = Threshold
  BY DEF TrailInv, TrailMails, TrailAtThreshold, Trail!AboutTo
<1>5. \A S \in SUBSET dels : IsFiniteSet(S) /\ S \in SUBSET Nat /\ Cardinality(S) \in Nat
  BY <1>1, TrailFinite
<1>6. \A i : TrailBurst(entries, a, i) \in SUBSET First(i) /\ First(i) \in SUBSET dels
  BY DEF TrailBurst
<1> HIDE DEF dels, alerts
<1>7. ASSUME Trail!Quiet(a), NEW t \in 0..time, Cardinality(Trail!Within(a, t)) >= Threshold
      PROVE  alerts # {}
  <2> DEFINE W == Trail!Within(a, t)
  <2>1. W \in SUBSET dels /\ t \in Nat
    BY <1>1, <1>2
  <2>2. IsFiniteSet(W) /\ W \in SUBSET Nat /\ Cardinality(W) \in Nat
    BY <1>5, <2>1
  <2>3. W # {}
    <3>1. Cardinality(W) # 0
      BY <1>7, <2>2, TrailBounds
    <3> QED BY <3>1, FS_EmptySet
  <2>4. PICK i \in W : \A k \in W : i >= k
    <3> HIDE DEF W
    <3> QED BY <2>2, <2>3, Greatest
  <2>5. i \in dels /\ i \in Nat
    BY <1>3, <2>1, <2>4
  <2>6. W \subseteq TrailBurst(entries, a, i)
    <3> SUFFICES ASSUME NEW j \in W PROVE j \in TrailBurst(entries, a, i)
      OBVIOUS
    <3>1. j \in dels /\ entries[j].at \in t..(t + AlertWindow) /\ entries[i].at \in t..(t + AlertWindow)
      BY <1>2, <2>4
    <3>2. j <= i /\ entries[j].at + AlertWindow >= entries[i].at
      BY <1>3, <2>1, <2>4, <2>5, <3>1, TrailBounds
    <3> QED BY <3>1, <3>2 DEF TrailBurst, dels
  <2>7. IsFiniteSet(TrailBurst(entries, a, i)) /\ Cardinality(TrailBurst(entries, a, i)) \in Nat
    <3>1. TrailBurst(entries, a, i) \in SUBSET dels
      BY <1>6
    <3> QED BY <1>5, <3>1
  <2>8. Cardinality(W) <= Cardinality(TrailBurst(entries, a, i))
    <3> HIDE DEF W
    <3> QED BY <2>6, <2>7, FS_Subset
  <2>9. Cardinality(TrailBurst(entries, a, i)) >= Threshold
    BY <1>7, <2>2, <2>7, <2>8, TrailBounds
  <2>10. TrailCounted(i)
    <3> SUFFICES ASSUME NEW s \in Requests, auditing[s].step = "recorded", auditing[s].id = i PROVE FALSE
      BY DEF TrailCounted
    <3>1. auditing[s].entry.actor = a
      BY <2>5 DEF TrailInv, TrailKnown, TrailDeletions, dels
    <3> QED BY <1>7, <3>1 DEF Trail!Quiet
  <2>11. TrailTold(a, to)
    BY <2>5, <2>9, <2>10 DEF TrailInv, TrailReported, dels
  <2>12. \A s \in Requests : ~TrailTelling(s, a, to)
    BY <1>7 DEF Trail!Quiet, TrailTelling
  <2> QED BY <2>11, <2>12 DEF TrailTold, alerts, Trail!AboutTo
<1>8. ASSUME NEW t \in 0..time, dels = Trail!Within(a, t), NEW m \in alerts, NEW o \in alerts, m.upto < o.upto
      PROVE  FALSE
  <2>1. m.upto \in dels /\ o.upto \in dels /\ t \in Nat
    BY <1>1, <1>4
  <2>2. ASSUME NEW i \in dels PROVE TrailBurst(entries, a, i) = First(i)
    <3> SUFFICES ASSUME NEW j \in dels PROVE entries[j].at + AlertWindow >= entries[i].at
      BY DEF TrailBurst, dels
    <3>1. entries[j].at \in t..(t + AlertWindow) /\ entries[i].at \in t..(t + AlertWindow)
      BY <1>2, <1>8
    <3> QED BY <1>3, <2>1, <3>1, TrailBounds
  <2>3. Cardinality(First(m.upto)) = Threshold /\ Cardinality(First(o.upto)) = Threshold
    BY <1>4, <2>1, <2>2
  <2>4. IsFiniteSet(First(o.upto)) /\ First(m.upto) \in SUBSET First(o.upto)
    <3>1. \A j \in dels : j <= m.upto => j <= o.upto
      BY <1>3, <1>8, <2>1
    <3> QED BY <1>5, <3>1
  <2>5. First(o.upto) = First(m.upto)
    <3> HIDE DEF First
    <3> QED BY <2>3, <2>4, FS_Subset
  <2>6. o.upto \in First(o.upto) /\ o.upto \notin First(m.upto)
    BY <1>3, <1>8, <2>1
  <2> QED BY <2>5, <2>6
<1>9. ASSUME NEW t \in 0..time, dels = Trail!Within(a, t)
      PROVE  Cardinality(alerts) <= 1
  <2>1. ASSUME NEW m \in alerts, NEW o \in alerts PROVE m = o
    <3>1. m.upto \in Nat /\ o.upto \in Nat
      BY <1>3, <1>4
    <3>2. m.upto = o.upto
      BY <1>8, <1>9, <3>1
    <3>3. m.actor = a /\ o.actor = a /\ m.to = to /\ o.to = to
      BY DEF alerts, Trail!AboutTo
    <3>4. /\ m \in [actor : Actors, to : Recipients, upto : 1..Len(entries)]
          /\ o \in [actor : Actors, to : Recipients, upto : 1..Len(entries)]
      BY DEF alerts, Trail!AboutTo, TrailInv, Trail!TypeOK
    <3> QED BY <3>2, <3>3, <3>4
  <2>2. CASE alerts = {}
    BY <2>2, FS_EmptySet
  <2>3. CASE alerts # {}
    <3>1. PICK m \in alerts : alerts = {m}
      BY <2>1, <2>3
    <3>2. Cardinality({m}) = 1
      BY FS_Singleton
    <3> QED BY <3>1, <3>2
  <2> QED BY <2>2, <2>3
<1>10. ASSUME NEW m \in alerts PROVE Cardinality(First(m.upto)) >= Threshold
  <2>1. IsFiniteSet(First(m.upto)) /\ Cardinality(First(m.upto)) \in Nat
    BY <1>5, <1>6
  <2>2. Cardinality(TrailBurst(entries, a, m.upto)) <= Cardinality(First(m.upto))
    BY <1>6, <2>1, FS_Subset
  <2> QED BY <1>4, <2>1, <2>2, TrailBounds
<1> QED BY <1>1, <1>7, <1>9, <1>10 DEF alerts
-----------------------------------------------------------------------------
(* BLESSINGS.  While nobody decided on an outdated row, the rows that the  *)
(* requests under way loaded differ from the ticket's only if one of them  *)
(* is lost: it loaded other keys, and can only end in disturbing.          *)

PhotoFlying(q, t) == q.step \notin {"idle", "over"} /\ q.of = t
PhotoLost(q, row) == q.saw.key # row.key \/ q.saw.url # row.url
PhotoCopied(q) == q.approve /\ (q.step = "copied" \/ (q.step = "published" /\ q.url))
PhotoTakenBack(q) == ~q.approve /\ "public" \notin q.left

\* What a request does follows from the keys it loaded.
PhotoPlan(q) ==
    /\ q.approve /\ q.step \in {"loaded", "copied"} => q.saw.key
    /\ q.approve /\ q.step = "published" => q.saw.key \/ q.url = q.saw.url
    /\ ~q.approve => q.step = "loaded" /\ ("private" \in q.left => q.saw.key) /\ ("public" \in q.left => q.saw.url)
PhotoPlans == \A r \in Requests : reviewing[r].step \notin {"idle", "over"} => PhotoPlan(reviewing[r])

\* A row has one key; a public one, and APPROVED, come from an approval.
PhotoRow(row) == ~(row.key /\ row.url) /\ (row.url => row.review = "APPROVED")
PhotoRows == \A t \in Blessings!Existing \ unsettled :
    PhotoRow(ticket[t]) /\ (ticket[t].review = "APPROVED" => decided[t] = "approve")

\* No decision gives a row its private key back, or a public one that no request copied.
PhotoSeen == \A t \in Blessings!Existing \ unsettled, r \in Requests : PhotoFlying(reviewing[r], t) =>
    /\ PhotoRow(reviewing[r].saw)
    /\ ticket[t].key => reviewing[r].saw = ticket[t]
    /\ ticket[t].url => reviewing[r].saw.key \/ reviewing[r].saw.url

\* Before the decision, the public copy is of a request under way; afterwards, it is there
\* when the row says so and no request under way has taken it back.
PhotoShown == \A t \in Blessings!Existing \ unsettled :
    (\A r \in Requests : PhotoFlying(reviewing[r], t) => ~PhotoLost(reviewing[r], ticket[t])) =>
        (t \in public <=>
            IF ticket[t].key THEN \E r \in Requests : PhotoFlying(reviewing[r], t) /\ PhotoCopied(reviewing[r])
            ELSE ticket[t].url /\ \A r \in Requests : PhotoFlying(reviewing[r], t) => ~PhotoTakenBack(reviewing[r]))

\* The inductive invariant.
PhotoInv == Blessings!TypeOK /\ PhotoPlans /\ PhotoRows /\ PhotoSeen /\ PhotoShown
-----------------------------------------------------------------------------
(* Rows and requests *)

LEMMA PhotoSteps == Blessings!Idle.step = "idle" /\ Blessings!Over.step = "over"
BY DEF Blessings!Idle, Blessings!Over

LEMMA PhotoShape ==
    ASSUME Blessings!TypeOK, NEW r \in Requests, reviewing[r].step \notin {"idle", "over"}
    PROVE  /\ reviewing[r] \in Blessings!Busy /\ reviewing[r].of \in Tickets /\ reviewing[r].saw \in Blessings!Row
           /\ reviewing[r].step \in {"loaded", "copied", "published"} /\ reviewing[r].approve \in BOOLEAN
           /\ reviewing[r].left \in SUBSET {"private", "public"} /\ reviewing[r].url \in BOOLEAN
<1>1. reviewing[r] \in Blessings!Busy
  BY PhotoSteps DEF Blessings!TypeOK
<1> QED BY <1>1 DEF Blessings!Busy

LEMMA PhotoExists ==
    ASSUME Blessings!TypeOK, NoRow \notin Blessings!Row, NEW t \in Tickets
    PROVE  t \in Blessings!Existing <=> ticket[t] \in Blessings!Row
BY DEF Blessings!TypeOK, Blessings!Existing

\* What is written over a row is a row; over the row that was seen, it is the new one.
LEMMA PhotoWritten ==
    ASSUME NEW row \in Blessings!Row, NEW saw \in Blessings!Row, NEW new \in Blessings!Row
    PROVE  /\ Blessings!Written(row, saw, new) \in Blessings!Row
           /\ row = saw => Blessings!Written(row, saw, new) = new
<1>1. DOMAIN row = {"review", "key", "url", "show"} /\ DOMAIN new = {"review", "key", "url", "show"}
  BY DEF Blessings!Row
<1>2. Blessings!Written(row, saw, new) =
          [review |-> IF new.review = saw.review THEN row.review ELSE new.review,
           key    |-> IF new.key = saw.key THEN row.key ELSE new.key,
           url    |-> IF new.url = saw.url THEN row.url ELSE new.url,
           show   |-> IF new.show = saw.show THEN row.show ELSE new.show]
  BY <1>1 DEF Blessings!Written
<1>3. Blessings!Written(row, saw, new) \in Blessings!Row
  BY <1>2 DEF Blessings!Row
<1>4. ASSUME row = saw PROVE Blessings!Written(row, saw, new) = new
  BY <1>2, <1>4 DEF Blessings!Row
<1> QED BY <1>3, <1>4

\* A request that goes on with what it loaded: the copy that counts is there with the
\* request that copied it, or gone with the one that took it back.
LEMMA PhotoGoesOn ==
    ASSUME PhotoInv, Blessings!TypeOK', NEW r \in Requests, NEW q, NEW p, q = reviewing[r],
           q.step \notin {"idle", "over"}, p.step \notin {"idle", "over"},
           p.of = q.of, p.saw = q.saw, PhotoPlan(p),
           reviewing' = [reviewing EXCEPT ![r] = p], UNCHANGED <<ticket, decided>>, unsettled \subseteq unsettled',
           \A t \in Tickets \ {q.of} : t \in public' <=> t \in public,
           q.of \in Blessings!Existing \ unsettled' /\ ~PhotoLost(q, ticket[q.of]) =>
               IF ticket[q.of].key
               THEN \/ (q.of \in public' <=> q.of \in public) /\ (PhotoCopied(p) <=> PhotoCopied(q))
                    \/ q.of \in public' /\ PhotoCopied(p)
               ELSE \/ (q.of \in public' <=> q.of \in public) /\ (PhotoTakenBack(p) <=> PhotoTakenBack(q))
                    \/ q.of \notin public' /\ PhotoTakenBack(p)
    PROVE  PhotoInv'
<1>1. reviewing'[r] = p /\ \A s \in Requests \ {r} : reviewing'[s] = reviewing[s]
  BY DEF PhotoInv, Blessings!TypeOK
<1>2. /\ \A t \in Blessings!Existing' \ unsettled' : t \in Blessings!Existing \ unsettled /\ t \in Tickets
      /\ q.of \in Tickets
  BY PhotoShape DEF Blessings!Existing, PhotoInv
<1>3. PhotoPlans'
  BY <1>1 DEF PhotoInv, PhotoPlans
<1>4. PhotoRows'
  BY <1>2 DEF PhotoInv, PhotoRows
<1>5. \A t \in Tickets, s \in Requests :
          /\ PhotoFlying(reviewing'[s], t) <=> PhotoFlying(reviewing[s], t)
          /\ PhotoFlying(reviewing[s], t) => reviewing'[s].saw = reviewing[s].saw
  BY <1>1 DEF PhotoFlying
<1>6. PhotoSeen'
  BY <1>2, <1>5 DEF PhotoInv, PhotoSeen
<1>7. PhotoShown'
  <2> SUFFICES ASSUME NEW t \in Tickets, t \in Blessings!Existing \ unsettled, t \notin unsettled',
                      \A s \in Requests : PhotoFlying(reviewing'[s], t) => ~PhotoLost(reviewing'[s], ticket[t])
               PROVE  t \in public' <=>
                        IF ticket[t].key THEN \E s \in Requests : PhotoFlying(reviewing'[s], t) /\ PhotoCopied(reviewing'[s])
                        ELSE ticket[t].url /\ \A s \in Requests : PhotoFlying(reviewing'[s], t) => ~PhotoTakenBack(reviewing'[s])
    BY <1>2 DEF PhotoShown
  <2>1. \A s \in Requests : PhotoFlying(reviewing[s], t) => ~PhotoLost(reviewing[s], ticket[t])
    BY <1>5 DEF PhotoLost
  <2>2. t \in public <=>
          IF ticket[t].key THEN \E s \in Requests : PhotoFlying(reviewing[s], t) /\ PhotoCopied(reviewing[s])
          ELSE ticket[t].url /\ \A s \in Requests : PhotoFlying(reviewing[s], t) => ~PhotoTakenBack(reviewing[s])
    BY <2>1 DEF PhotoInv, PhotoShown
  <2>3. CASE t # q.of
    <3>1. \A s \in Requests : PhotoFlying(reviewing[s], t) => reviewing'[s] = reviewing[s]
      BY <1>1, <2>3 DEF PhotoFlying
    <3> QED BY <1>5, <2>2, <2>3, <3>1
  <2>4. CASE t = q.of
    <3>1. PhotoFlying(q, t) /\ PhotoFlying(p, t) /\ ~PhotoLost(q, ticket[t])
      BY <2>1, <2>4 DEF PhotoFlying
    <3>2. CASE ticket[t].key
      <4>1. \/ (t \in public' <=> t \in public) /\ (PhotoCopied(p) <=> PhotoCopied(q))
            \/ t \in public' /\ PhotoCopied(p)
        BY <2>4, <3>1, <3>2
      <4> QED BY <1>1, <1>5, <2>2, <3>1, <3>2, <4>1
    <3>3. CASE ~ticket[t].key
      <4>1. \/ (t \in public' <=> t \in public) /\ (PhotoTakenBack(p) <=> PhotoTakenBack(q))
            \/ t \notin public' /\ PhotoTakenBack(p)
        BY <2>4, <3>1, <3>3
      <4> QED BY <1>1, <1>5, <2>2, <3>1, <3>3, <4>1
    <3> QED BY <3>2, <3>3
  <2> QED BY <2>3, <2>4
<1> QED BY <1>3, <1>4, <1>6, <1>7 DEF PhotoInv

\* A request that ends without a decision: of a ticket that is disturbed by it, or gone.
LEMMA PhotoEnds ==
    ASSUME PhotoInv, Blessings!TypeOK', NEW r \in Requests, NEW q, q = reviewing[r],
           q.step \notin {"idle", "over"}, q.of \notin Blessings!Existing \/ q.of \in unsettled',
           reviewing' = [reviewing EXCEPT ![r] = Blessings!Over], UNCHANGED <<ticket, decided, public>>,
           unsettled \subseteq unsettled'
    PROVE  PhotoInv'
<1>1. reviewing'[r].step = "over" /\ \A s \in Requests \ {r} : reviewing'[s] = reviewing[s]
  BY PhotoSteps DEF PhotoInv, Blessings!TypeOK
<1>2. \A t \in Blessings!Existing' \ unsettled' : t \in Blessings!Existing \ unsettled /\ t # q.of
  BY DEF Blessings!Existing
<1>3. \A t \in Blessings!Existing' \ unsettled' : \A s \in Requests :
          /\ PhotoFlying(reviewing'[s], t) <=> PhotoFlying(reviewing[s], t)
          /\ PhotoFlying(reviewing[s], t) => reviewing'[s] = reviewing[s]
  BY <1>1, <1>2 DEF PhotoFlying
<1>4. PhotoPlans' /\ PhotoRows'
  BY <1>1, <1>2 DEF PhotoInv, PhotoPlans, PhotoRows
<1>5. PhotoSeen'
  BY <1>2, <1>3 DEF PhotoInv, PhotoSeen
<1>6. PhotoShown'
  BY <1>2, <1>3 DEF PhotoInv, PhotoShown
<1> QED BY <1>4, <1>5, <1>6 DEF PhotoInv

\* A decision made on the row as it is.
LEMMA PhotoDecides ==
    ASSUME PhotoInv, NoRow \notin Blessings!Row, NEW r \in Requests, NEW q, NEW new \in Blessings!Row,
           NEW decision \in {"approve", "reject"}, q = reviewing[r], q.step \notin {"idle", "over"},
           Blessings!Commit(r, new, decision),
           ~new.key, PhotoRow(new), new.review = "APPROVED" => decision = "approve",
           new.url <=> IF q.saw.key THEN PhotoCopied(q) ELSE q.saw.url /\ ~PhotoTakenBack(q)
    PROVE  PhotoInv'
<1>1. PICK t \in Tickets : t = q.of /\ q.saw \in Blessings!Row
  BY PhotoShape DEF PhotoInv
<1> DEFINE row == Blessings!Written(ticket[t], q.saw, new)
<1>2. /\ ticket[t] # NoRow /\ ticket' = [ticket EXCEPT ![t] = row] /\ decided' = [decided EXCEPT ![t] = decision]
      /\ unsettled' = (IF ticket[t] = q.saw THEN unsettled ELSE unsettled \union {t})
      /\ reviewing' = [reviewing EXCEPT ![r] = Blessings!Over] /\ UNCHANGED <<private, public, uploads, today>>
  BY <1>1 DEF Blessings!Commit, Blessings!To
<1>3. ticket[t] \in Blessings!Row
  BY <1>2 DEF PhotoInv, Blessings!TypeOK
<1>4. row \in Blessings!Row /\ (ticket[t] = q.saw => row = new)
  BY <1>1, <1>3, PhotoWritten
<1> HIDE DEF row
<1>5. Blessings!TypeOK'
  BY <1>2, <1>4 DEF PhotoInv, Blessings!TypeOK
<1>6. reviewing'[r].step = "over" /\ \A s \in Requests \ {r} : reviewing'[s] = reviewing[s]
  BY <1>2, PhotoSteps DEF PhotoInv, Blessings!TypeOK
<1>7. /\ ticket'[t] = row /\ decided'[t] = decision
      /\ \A x \in Tickets \ {t} : ticket'[x] = ticket[x] /\ decided'[x] = decided[x]
  BY <1>2 DEF PhotoInv, Blessings!TypeOK
<1>8. ASSUME NEW x \in Blessings!Existing' \ unsettled'
      PROVE  /\ x \in Tickets /\ x \in Blessings!Existing \ unsettled
             /\ x = t => ticket[t] = q.saw /\ ticket'[t] = new
  <2>1. x \in Tickets /\ ticket'[x] # NoRow /\ x \notin unsettled
    BY <1>2, <1>8 DEF Blessings!Existing
  <2>2. ticket[x] # NoRow
    BY <1>2, <1>7, <2>1
  <2> QED BY <1>2, <1>4, <1>7, <1>8, <2>1, <2>2 DEF Blessings!Existing
<1>9. PhotoPlans'
  BY <1>6 DEF PhotoInv, PhotoPlans
<1>10. PhotoRows'
  BY <1>7, <1>8 DEF PhotoInv, PhotoRows
<1>11. \A x \in Tickets, s \in Requests :
          /\ PhotoFlying(reviewing'[s], x) <=> PhotoFlying(reviewing[s], x) /\ s # r
          /\ PhotoFlying(reviewing'[s], x) => reviewing'[s] = reviewing[s]
  BY <1>6 DEF PhotoFlying
<1>12. t \in Blessings!Existing' \ unsettled' =>
          /\ PhotoFlying(q, t) /\ ~PhotoLost(q, ticket[t]) /\ PhotoRow(q.saw)
          /\ ticket[t].url => ~ticket[t].key
  <2> SUFFICES ASSUME t \in Blessings!Existing' \ unsettled'
               PROVE  PhotoFlying(q, t) /\ ~PhotoLost(q, ticket[t]) /\ PhotoRow(q.saw) /\ (ticket[t].url => ~ticket[t].key)
    OBVIOUS
  <2>1. t \in Blessings!Existing \ unsettled /\ ticket[t] = q.saw
    BY <1>8
  <2>2. PhotoRow(ticket[t])
    BY <2>1 DEF PhotoInv, PhotoRows
  <2> QED BY <1>1, <2>1, <2>2 DEF PhotoFlying, PhotoLost, PhotoRow
<1>13. ASSUME t \in Blessings!Existing' \ unsettled', NEW s \in Requests, PhotoFlying(reviewing'[s], t)
       PROVE  /\ PhotoFlying(reviewing[s], t) /\ s # r /\ reviewing'[s] = reviewing[s] /\ PhotoRow(reviewing[s].saw)
              /\ ticket[t].key => reviewing[s].saw.key
              /\ ticket[t].url => reviewing[s].saw.key \/ reviewing[s].saw.url
  <2>1. PhotoFlying(reviewing[s], t) /\ s # r /\ reviewing'[s] = reviewing[s]
    BY <1>1, <1>11, <1>13
  <2>2. t \in Blessings!Existing \ unsettled
    BY <1>8, <1>13
  <2> QED BY <2>1, <2>2 DEF PhotoInv, PhotoSeen
<1>14. PhotoSeen'
  <2> SUFFICES ASSUME NEW x \in Blessings!Existing' \ unsettled', NEW s \in Requests, PhotoFlying(reviewing'[s], x)
               PROVE  /\ PhotoRow(reviewing'[s].saw)
                      /\ ticket'[x].key => reviewing'[s].saw = ticket'[x]
                      /\ ticket'[x].url => reviewing'[s].saw.key \/ reviewing'[s].saw.url
    BY DEF PhotoSeen
  <2>1. CASE x # t
    BY <1>7, <1>8, <1>11, <2>1 DEF PhotoInv, PhotoSeen
  <2>2. CASE x = t
    <3>1. ticket'[t] = new /\ ticket[t] = q.saw
      BY <1>8, <2>2
    <3>2. new.url => ticket[t].key \/ ticket[t].url
      BY <3>1
    <3> QED BY <1>13, <2>2, <3>1, <3>2
  <2> QED BY <2>1, <2>2
<1>15. ASSUME t \in Blessings!Existing' \ unsettled',
              \A s \in Requests : PhotoFlying(reviewing'[s], t) => ~PhotoLost(reviewing'[s], new)
       PROVE  t \in public <=> new.url /\ \A s \in Requests : PhotoFlying(reviewing'[s], t) => ~PhotoTakenBack(reviewing'[s])
  <2>1. ticket[t] = q.saw /\ t \in Blessings!Existing \ unsettled
    BY <1>8, <1>15
  <2>2. \A s \in Requests : PhotoFlying(reviewing[s], t) <=> s = r \/ PhotoFlying(reviewing'[s], t)
    BY <1>1, <1>11, <1>12, <1>15
  <2>3. (\A s \in Requests : PhotoFlying(reviewing[s], t) => ~PhotoLost(reviewing[s], ticket[t])) =>
            (t \in public <=>
                IF ticket[t].key THEN \E s \in Requests : PhotoFlying(reviewing[s], t) /\ PhotoCopied(reviewing[s])
                ELSE ticket[t].url /\ \A s \in Requests : PhotoFlying(reviewing[s], t) => ~PhotoTakenBack(reviewing[s]))
    BY <2>1 DEF PhotoInv, PhotoShown
  <2>4. CASE ticket[t].key
    <3>1. \A s \in Requests : ~PhotoFlying(reviewing'[s], t)
      BY <1>13, <1>15, <2>4 DEF PhotoLost
    <3> QED BY <1>12, <1>15, <2>1, <2>2, <2>3, <2>4, <3>1
  <2>5. CASE ~ticket[t].key /\ (ticket[t].url <=> new.url)
    <3>1. \A s \in Requests : PhotoFlying(reviewing[s], t) => ~PhotoLost(reviewing[s], ticket[t])
      <4>1. ticket[t].key = new.key /\ ticket[t].url = new.url
        BY <1>3, <2>5 DEF Blessings!Row
      <4>2. ASSUME NEW s \in Requests, PhotoFlying(reviewing'[s], t) PROVE ~PhotoLost(reviewing[s], ticket[t])
        BY <1>13, <1>15, <4>1, <4>2 DEF PhotoLost
      <4> QED BY <1>12, <1>15, <2>2, <4>2
    <3> QED BY <1>13, <1>15, <2>1, <2>2, <2>3, <2>5, <3>1
  <2>6. CASE ~ticket[t].key /\ ticket[t].url /\ ~new.url
    <3>1. \A s \in Requests : ~PhotoFlying(reviewing'[s], t)
      <4> SUFFICES ASSUME NEW s \in Requests, PhotoFlying(reviewing'[s], t) PROVE FALSE
        OBVIOUS
      <4>1. ~PhotoLost(reviewing[s], new) /\ (reviewing[s].saw.key \/ reviewing[s].saw.url)
        BY <1>13, <1>15, <2>6
      <4> QED BY <2>6, <4>1 DEF PhotoLost
    <3> QED BY <1>12, <1>15, <2>1, <2>2, <2>3, <2>6, <3>1
  <2>7. CASE ~ticket[t].key /\ ~ticket[t].url /\ new.url
    BY <2>1, <2>7
  <2> QED BY <2>4, <2>5, <2>6, <2>7
<1>16. PhotoShown'
  <2> SUFFICES ASSUME NEW x \in Blessings!Existing' \ unsettled',
                      \A s \in Requests : PhotoFlying(reviewing'[s], x) => ~PhotoLost(reviewing'[s], ticket'[x])
               PROVE  x \in public <=>
                        IF ticket'[x].key THEN \E s \in Requests : PhotoFlying(reviewing'[s], x) /\ PhotoCopied(reviewing'[s])
                        ELSE ticket'[x].url /\ \A s \in Requests : PhotoFlying(reviewing'[s], x) => ~PhotoTakenBack(reviewing'[s])
    BY <1>2 DEF PhotoShown
  <2>1. CASE x = t
    BY <1>8, <1>15, <2>1
  <2>2. CASE x # t
    <3>1. x \in Blessings!Existing \ unsettled /\ ticket'[x] = ticket[x] /\ x \in Tickets
      BY <1>7, <1>8, <2>2
    <3>2. \A s \in Requests : PhotoFlying(reviewing'[s], x) <=> PhotoFlying(reviewing[s], x)
      <4>1. ~PhotoFlying(q, x)
        BY <1>1, <2>2 DEF PhotoFlying
      <4> QED BY <1>11, <3>1, <4>1
    <3> QED BY <1>11, <3>1, <3>2 DEF PhotoInv, PhotoShown
  <2> QED BY <2>1, <2>2
<1> QED BY <1>5, <1>9, <1>10, <1>14, <1>16 DEF PhotoInv
-----------------------------------------------------------------------------
(* Steps *)

\* Steps that leave the requests, the decisions and the public copies alone.
LEMMA PhotoElsewhereStep ==
    ASSUME PhotoInv, Blessings!BlessingReviewAssumption,
           Blessings!PassDay \/ \E t \in Tickets : Blessings!Upload(t) \/ Blessings!DeleteTicket(t)
    PROVE  PhotoInv'
<1>1. CASE Blessings!PassDay
  <2>1. today' \in 0..LastDate /\ UNCHANGED <<ticket, private, public, uploads, reviewing, decided, unsettled>>
    BY <1>1 DEF Blessings!PassDay, PhotoInv, Blessings!TypeOK, Blessings!BlessingReviewAssumption
  <2> QED BY <2>1 DEF PhotoInv, Blessings!TypeOK, PhotoPlans, PhotoRows, PhotoSeen, PhotoShown, Blessings!Existing
<1>2. ASSUME NEW t \in Tickets, Blessings!Upload(t) PROVE PhotoInv'
  <2>1. /\ t \in WithPhoto /\ uploads[t] < MaxUploads
        /\ private' = private \union {t} /\ uploads' = [uploads EXCEPT ![t] = @ + 1]
        /\ UNCHANGED <<ticket, public, today, reviewing, decided, unsettled>>
    BY <1>2 DEF Blessings!Upload
  <2>2. uploads' \in [Tickets -> 0..MaxUploads] /\ private' \subseteq WithPhoto
    BY <2>1 DEF PhotoInv, Blessings!TypeOK, Blessings!BlessingReviewAssumption
  <2> QED BY <2>1, <2>2 DEF PhotoInv, Blessings!TypeOK, PhotoPlans, PhotoRows, PhotoSeen, PhotoShown, Blessings!Existing
<1>3. ASSUME NEW t \in Tickets, Blessings!DeleteTicket(t) PROVE PhotoInv'
  <2>1. /\ ticket' = [ticket EXCEPT ![t] = NoRow]
        /\ UNCHANGED <<private, public, uploads, today, reviewing, decided, unsettled>>
    BY <1>3 DEF Blessings!DeleteTicket
  <2>2. \A x \in Blessings!Existing' : x \in Blessings!Existing /\ ticket'[x] = ticket[x]
    BY <2>1 DEF PhotoInv, Blessings!TypeOK, Blessings!Existing
  <2>3. Blessings!TypeOK'
    BY <2>1 DEF PhotoInv, Blessings!TypeOK
  <2>4. PhotoPlans' /\ PhotoRows' /\ PhotoSeen'
    BY <2>1, <2>2 DEF PhotoInv, PhotoPlans, PhotoRows, PhotoSeen
  <2>5. PhotoShown'
    BY <2>1, <2>2 DEF PhotoInv, PhotoShown
  <2> QED BY <2>3, <2>4, <2>5 DEF PhotoInv
<1> QED BY <1>1, <1>2, <1>3

LEMMA PhotoLoadStep ==
    ASSUME PhotoInv, NoRow \notin Blessings!Row, NEW r \in Requests, Blessings!Load(r)
    PROVE  PhotoInv'
<1>1. PICK t \in Blessings!Existing, approve \in BOOLEAN : Blessings!Load(r)!(t, approve)
  BY DEF Blessings!Load
<1> DEFINE row == ticket[t]
           keys == {k \in {"private", "public"} : IF k = "private" THEN row.key ELSE row.url}
           p == [step |-> IF approve /\ ~row.key THEN "published" ELSE "loaded", approve |-> approve, of |-> t,
                 saw |-> row, left |-> IF approve THEN {} ELSE keys, url |-> row.url]
<1>2. /\ reviewing[r] = Blessings!Idle /\ reviewing' = [reviewing EXCEPT ![r] = p]
      /\ UNCHANGED <<ticket, private, public, uploads, today, decided, unsettled>>
  BY <1>1 DEF Blessings!To
<1>3. t \in Tickets /\ row \in Blessings!Row
  BY PhotoExists DEF PhotoInv, Blessings!Existing
<1>4. /\ p.step = (IF approve /\ ~row.key THEN "published" ELSE "loaded") /\ p.approve = approve
      /\ p.of = t /\ p.saw = row /\ p.left = (IF approve THEN {} ELSE keys) /\ p.url = row.url
  OBVIOUS
<1>5. p \in Blessings!Busy
  BY <1>3 DEF Blessings!Busy, Blessings!Row
<1>6. /\ "private" \in keys => row.key
      /\ "public" \in keys <=> row.url
  BY <1>3 DEF Blessings!Row
<1> HIDE DEF p, row, keys
<1>7. Blessings!TypeOK'
  BY <1>2, <1>5 DEF PhotoInv, Blessings!TypeOK
<1>8. /\ reviewing[r].step = "idle" /\ reviewing'[r] = p
      /\ \A s \in Requests \ {r} : reviewing'[s] = reviewing[s]
  BY <1>2, PhotoSteps DEF PhotoInv, Blessings!TypeOK
<1>9. PhotoPlan(p)
  BY <1>4, <1>6 DEF PhotoPlan
<1>10. PhotoPlans' /\ PhotoRows'
  BY <1>2, <1>8, <1>9 DEF PhotoInv, PhotoPlans, PhotoRows, Blessings!Existing
<1>11. \A x : /\ PhotoFlying(p, x) <=> x = t
              /\ ~PhotoFlying(reviewing[r], x)
  BY <1>4, <1>8 DEF PhotoFlying
<1>12. PhotoSeen'
  <2> SUFFICES ASSUME NEW x \in Blessings!Existing \ unsettled, NEW s \in Requests, PhotoFlying(reviewing'[s], x)
               PROVE  /\ PhotoRow(reviewing'[s].saw)
                      /\ ticket[x].key => reviewing'[s].saw = ticket[x]
                      /\ ticket[x].url => reviewing'[s].saw.key \/ reviewing'[s].saw.url
    BY <1>2 DEF PhotoSeen, Blessings!Existing
  <2>1. CASE s = r
    BY <1>4, <1>8, <1>11, <2>1 DEF row, PhotoInv, PhotoRows
  <2>2. CASE s # r
    BY <1>8, <2>2 DEF PhotoInv, PhotoSeen
  <2> QED BY <2>1, <2>2
<1>13. PhotoShown'
  <2> SUFFICES ASSUME NEW x \in Blessings!Existing \ unsettled,
                      \A s \in Requests : PhotoFlying(reviewing'[s], x) => ~PhotoLost(reviewing'[s], ticket[x])
               PROVE  x \in public <=>
                        IF ticket[x].key THEN \E s \in Requests : PhotoFlying(reviewing'[s], x) /\ PhotoCopied(reviewing'[s])
                        ELSE ticket[x].url /\ \A s \in Requests : PhotoFlying(reviewing'[s], x) => ~PhotoTakenBack(reviewing'[s])
    BY <1>2 DEF PhotoShown, Blessings!Existing
  <2>1. \A s \in Requests : PhotoFlying(reviewing[s], x) => reviewing'[s] = reviewing[s]
    BY <1>8, <1>11
  <2>2. \A s \in Requests : PhotoFlying(reviewing'[s], x) => PhotoFlying(reviewing[s], x) \/ (s = r /\ x = t)
    BY <1>8, <1>11
  <2>3. x \in public <=>
          IF ticket[x].key THEN \E s \in Requests : PhotoFlying(reviewing[s], x) /\ PhotoCopied(reviewing[s])
          ELSE ticket[x].url /\ \A s \in Requests : PhotoFlying(reviewing[s], x) => ~PhotoTakenBack(reviewing[s])
    BY <2>1 DEF PhotoInv, PhotoShown
  <2>4. x = t => /\ ticket[x].key => ~PhotoCopied(p)
                 /\ ticket[x].url => ~PhotoTakenBack(p)
    BY <1>4, <1>6 DEF row, PhotoCopied, PhotoTakenBack
  <2>5. CASE ticket[x].key
    BY <1>8, <2>1, <2>2, <2>3, <2>4, <2>5
  <2>6. CASE ~ticket[x].key
    BY <1>8, <2>1, <2>2, <2>3, <2>4, <2>6
  <2> QED BY <2>5, <2>6
<1> QED BY <1>7, <1>10, <1>12, <1>13 DEF PhotoInv

LEMMA PhotoCopyStep ==
    ASSUME PhotoInv, NEW r \in Requests, Blessings!CopyPhoto(r)
    PROVE  PhotoInv'
<1>1. PICK q : q = reviewing[r]
  OBVIOUS
<1> DEFINE there == q.of \in private
           p == [q EXCEPT !.step = IF there THEN "copied" ELSE "published", !.url = FALSE]
<1>2. /\ q.step = "loaded" /\ q.approve /\ public' = (IF there THEN public \union {q.of} ELSE public)
      /\ reviewing' = [reviewing EXCEPT ![r] = p] /\ UNCHANGED <<private, unsettled, ticket, uploads, today, decided>>
  BY <1>1 DEF Blessings!CopyPhoto, Blessings!To, Blessings!NoDecision
<1>3. q \in Blessings!Busy /\ q.of \in Tickets
  BY <1>1, <1>2, PhotoShape DEF PhotoInv
<1>4. /\ p \in Blessings!Busy /\ p.step = (IF there THEN "copied" ELSE "published") /\ p.url = FALSE
      /\ p.approve = q.approve /\ p.of = q.of /\ p.saw = q.saw
  BY <1>3 DEF Blessings!Busy
<1> HIDE DEF p
<1>5. Blessings!TypeOK'
  BY <1>2, <1>4 DEF PhotoInv, Blessings!TypeOK
<1>6. q.saw.key
  BY <1>1, <1>2 DEF PhotoInv, PhotoPlans, PhotoPlan
<1>7. PhotoPlan(p)
  BY <1>2, <1>4, <1>6 DEF PhotoPlan
<1>8. ~PhotoLost(q, ticket[q.of]) => ticket[q.of].key
  BY <1>6 DEF PhotoLost
<1>9. \A t \in Tickets \ {q.of} : t \in public' <=> t \in public
  BY <1>2
<1>10. \/ (q.of \in public' <=> q.of \in public) /\ (PhotoCopied(p) <=> PhotoCopied(q))
       \/ q.of \in public' /\ PhotoCopied(p)
  BY <1>2, <1>4 DEF PhotoCopied
<1>11. p.step \notin {"idle", "over"}
  BY <1>4
<1> HIDE DEF there
<1> QED BY <1>1, <1>2, <1>4, <1>5, <1>7, <1>8, <1>9, <1>10, <1>11, PhotoGoesOn

LEMMA PhotoDeleteStep ==
    ASSUME PhotoInv, NEW r \in Requests, Blessings!DeletePrivate(r)
    PROVE  PhotoInv'
<1>1. PICK q : q = reviewing[r]
  OBVIOUS
<1> DEFINE p == [q EXCEPT !.step = "published", !.url = TRUE]
<1>2. /\ q.step = "copied" /\ private' = private \ {q.of}
      /\ reviewing' = [reviewing EXCEPT ![r] = p] /\ UNCHANGED <<public, unsettled, ticket, uploads, today, decided>>
  BY <1>1 DEF Blessings!DeletePrivate, Blessings!To, Blessings!NoDecision
<1>3. q \in Blessings!Busy /\ q.of \in Tickets /\ q.approve \in BOOLEAN
  BY <1>1, <1>2, PhotoShape DEF PhotoInv
<1>4. /\ p \in Blessings!Busy /\ p.step = "published" /\ p.url = TRUE
      /\ p.approve = q.approve /\ p.of = q.of /\ p.saw = q.saw
  BY <1>3 DEF Blessings!Busy
<1> HIDE DEF p
<1>5. Blessings!TypeOK'
  BY <1>2, <1>4 DEF PhotoInv, Blessings!TypeOK
<1>6. q.approve /\ q.saw.key
  BY <1>1, <1>2 DEF PhotoInv, PhotoPlans, PhotoPlan
<1>7. PhotoPlan(p)
  BY <1>4, <1>6 DEF PhotoPlan
<1>8. ~PhotoLost(q, ticket[q.of]) => ticket[q.of].key
  BY <1>6 DEF PhotoLost
<1>9. PhotoCopied(p) /\ PhotoCopied(q)
  BY <1>2, <1>4, <1>6 DEF PhotoCopied
<1> QED BY <1>1, <1>2, <1>4, <1>5, <1>7, <1>8, <1>9, PhotoGoesOn

LEMMA PhotoCleanStep ==
    ASSUME PhotoInv, NEW r \in Requests, Blessings!Clean(r)
    PROVE  PhotoInv'
<1>1. PICK done \in BOOLEAN : Blessings!Clean(r)!(done)
  BY DEF Blessings!Clean
<1>2. PICK q : q = reviewing[r]
  OBVIOUS
<1> DEFINE first == IF "private" \in q.left THEN "private" ELSE "public"
           p == [q EXCEPT !.left = @ \ {first}]
<1>3. /\ q.step = "loaded" /\ ~q.approve /\ q.left # {}
      /\ private' = (IF done /\ first = "private" THEN private \ {q.of} ELSE private)
      /\ public' = (IF done /\ first = "public" THEN public \ {q.of} ELSE public)
      /\ unsettled' = (IF done THEN unsettled ELSE unsettled \union {q.of})
      /\ reviewing' = [reviewing EXCEPT ![r] = p] /\ UNCHANGED <<ticket, uploads, today, decided>>
  BY <1>1, <1>2 DEF Blessings!ToDelete, Blessings!To, Blessings!NoDecision
<1>4. q \in Blessings!Busy /\ q.of \in Tickets /\ q.left \in SUBSET {"private", "public"} /\ q.saw \in Blessings!Row
  BY <1>2, <1>3, PhotoShape DEF PhotoInv
<1>5. /\ p \in Blessings!Busy /\ p.step = "loaded" /\ ~p.approve /\ p.left = q.left \ {first}
      /\ p.of = q.of /\ p.saw = q.saw
  BY <1>3, <1>4 DEF Blessings!Busy
<1> HIDE DEF p
<1>6. Blessings!TypeOK'
  BY <1>3, <1>4, <1>5 DEF PhotoInv, Blessings!TypeOK
<1>7. ("private" \in q.left => q.saw.key) /\ ("public" \in q.left => q.saw.url)
  BY <1>2, <1>3 DEF PhotoInv, PhotoPlans, PhotoPlan
<1>8. PhotoPlan(p)
  BY <1>5, <1>7 DEF PhotoPlan
<1>9. \A t \in Tickets \ {q.of} : t \in public' <=> t \in public
  BY <1>3
<1>10. unsettled \subseteq unsettled'
  BY <1>3
<1>11. ASSUME q.of \in Blessings!Existing \ unsettled', ~PhotoLost(q, ticket[q.of])
       PROVE  IF ticket[q.of].key
              THEN \/ (q.of \in public' <=> q.of \in public) /\ (PhotoCopied(p) <=> PhotoCopied(q))
                   \/ q.of \in public' /\ PhotoCopied(p)
              ELSE \/ (q.of \in public' <=> q.of \in public) /\ (PhotoTakenBack(p) <=> PhotoTakenBack(q))
                   \/ q.of \notin public' /\ PhotoTakenBack(p)
  <2>1. done /\ q.of \in Blessings!Existing \ unsettled
    BY <1>3, <1>11
  <2>2. PhotoRow(q.saw)
    BY <1>2, <1>3, <2>1 DEF PhotoInv, PhotoSeen, PhotoFlying
  <2>3. CASE ticket[q.of].key
    <3>1. q.saw.key /\ ~q.saw.url
      BY <1>11, <2>2, <2>3 DEF PhotoLost, PhotoRow
    <3>2. first = "private"
      BY <1>3, <1>4, <1>7, <3>1
    <3> QED BY <1>3, <1>5, <2>3, <3>2 DEF PhotoCopied
  <2>4. CASE ~ticket[q.of].key
    <3>1. ~q.saw.key
      BY <1>4, <1>11, <2>1, <2>4, PhotoExists DEF PhotoLost, PhotoInv, Blessings!Row
    <3>2. first = "public" /\ p.left = {}
      BY <1>3, <1>4, <1>5, <1>7, <3>1
    <3> QED BY <1>3, <1>5, <2>1, <2>4, <3>2 DEF PhotoTakenBack
  <2> QED BY <2>3, <2>4
<1> HIDE DEF first
<1> QED BY <1>2, <1>3, <1>5, <1>6, <1>8, <1>9, <1>10, <1>11, PhotoGoesOn

LEMMA PhotoFailStep ==
    ASSUME PhotoInv, NEW r \in Requests, Blessings!BucketFails(r) \/ Blessings!FindGone(r)
    PROVE  PhotoInv'
<1>1. PICK q : q = reviewing[r]
  OBVIOUS
<1>2. /\ q.step \in {"loaded", "copied", "published"} /\ reviewing' = [reviewing EXCEPT ![r] = Blessings!Over]
      /\ UNCHANGED <<private, public, ticket, uploads, today, decided>>
      /\ unsettled' \in {unsettled, unsettled \union {q.of}}
      /\ q.of \in unsettled' \/ ticket[q.of] = NoRow
  BY <1>1 DEF Blessings!BucketFails, Blessings!FindGone, Blessings!To, Blessings!NoDecision
<1>3. q.of \in Tickets
  BY <1>1, <1>2, PhotoShape DEF PhotoInv
<1>4. Blessings!TypeOK'
  BY <1>2, <1>3 DEF PhotoInv, Blessings!TypeOK
<1>5. q.of \notin Blessings!Existing \/ q.of \in unsettled'
  BY <1>2 DEF Blessings!Existing
<1> QED BY <1>1, <1>2, <1>4, <1>5, PhotoEnds

LEMMA PhotoDecideStep ==
    ASSUME PhotoInv, NoRow \notin Blessings!Row, NEW r \in Requests, Blessings!Approve(r) \/ Blessings!Reject(r)
    PROVE  PhotoInv'
<1>1. PICK q : q = reviewing[r]
  OBVIOUS
<1>2. CASE Blessings!Approve(r)
  <2> DEFINE new == [q.saw EXCEPT !.review = "APPROVED", !.key = FALSE, !.url = q.url]
  <2>1. q.step = "published" /\ Blessings!Commit(r, new, "approve")
    BY <1>1, <1>2 DEF Blessings!Approve
  <2>2. q.saw \in Blessings!Row /\ q.url \in BOOLEAN
    BY <1>1, <2>1, PhotoShape DEF PhotoInv
  <2>3. new \in Blessings!Row /\ ~new.key /\ new.review = "APPROVED" /\ new.url = q.url
    BY <2>2 DEF Blessings!Row
  <2>4. q.approve /\ (q.saw.key \/ q.url = q.saw.url)
    BY <1>1, <2>1 DEF PhotoInv, PhotoPlans, PhotoPlan
  <2>5. new.url <=> IF q.saw.key THEN PhotoCopied(q) ELSE q.saw.url /\ ~PhotoTakenBack(q)
    BY <2>1, <2>3, <2>4 DEF PhotoCopied, PhotoTakenBack
  <2>6. PhotoRow(new)
    BY <2>3 DEF PhotoRow
  <2> HIDE DEF new
  <2> QED BY <1>1, <2>1, <2>3, <2>5, <2>6, PhotoDecides
<1>3. CASE Blessings!Reject(r)
  <2> DEFINE new == [review |-> "REJECTED", key |-> FALSE, url |-> FALSE, show |-> FALSE]
  <2>1. q.step = "loaded" /\ ~q.approve /\ q.left = {} /\ Blessings!Commit(r, new, "reject")
    BY <1>1, <1>3 DEF Blessings!Reject, Blessings!ToDelete
  <2>2. new \in Blessings!Row /\ ~new.key /\ new.review # "APPROVED" /\ ~new.url
    BY DEF Blessings!Row
  <2>3. new.url <=> IF q.saw.key THEN PhotoCopied(q) ELSE q.saw.url /\ ~PhotoTakenBack(q)
    BY <2>1, <2>2 DEF PhotoCopied, PhotoTakenBack
  <2>4. PhotoRow(new)
    BY <2>2 DEF PhotoRow
  <2> HIDE DEF new
  <2> QED BY <1>1, <2>1, <2>2, <2>3, <2>4, PhotoDecides
<1> QED BY <1>2, <1>3

LEMMA InitPhotoInv ==
    ASSUME Blessings!BlessingReviewAssumption, Blessings!Init
    PROVE  PhotoInv
<1>1. /\ ticket = [t \in Tickets |-> [review |-> "PENDING", key |-> t \in WithPhoto, url |-> FALSE, show |-> t \in ShowsName]]
      /\ private = {} /\ public = {} /\ uploads = [t \in Tickets |-> 0] /\ today = 0
      /\ reviewing = [r \in Requests |-> Blessings!Idle]
      /\ decided = [t \in Tickets |-> "none"] /\ unsettled = {}
  BY DEF Blessings!Init
<1>2. \A t \in Tickets : ticket[t] \in Blessings!Row /\ ~ticket[t].url /\ ticket[t].review = "PENDING"
  BY <1>1 DEF Blessings!Row
<1>3. \A r \in Requests : reviewing[r].step = "idle"
  BY <1>1, PhotoSteps
<1>4. Blessings!TypeOK
  <2>1. ticket \in [Tickets -> Blessings!Row \union {NoRow}]
    BY <1>1, <1>2
  <2>2. uploads \in [Tickets -> 0..MaxUploads] /\ today \in 0..LastDate
    BY <1>1 DEF Blessings!BlessingReviewAssumption
  <2> QED BY <1>1, <2>1, <2>2 DEF Blessings!TypeOK
<1>5. PhotoPlans /\ PhotoSeen
  BY <1>3 DEF PhotoPlans, PhotoSeen, PhotoFlying
<1>6. PhotoRows
  BY <1>2 DEF PhotoRows, PhotoRow, Blessings!Existing
<1>7. PhotoShown
  BY <1>1, <1>2, <1>3 DEF PhotoShown, PhotoFlying, Blessings!Existing
<1> QED BY <1>4, <1>5, <1>6, <1>7 DEF PhotoInv

LEMMA StepPhotoInv ==
    ASSUME Blessings!BlessingReviewAssumption, PhotoInv, [Blessings!Next]_(Blessings!blessingVars)
    PROVE  PhotoInv'
<1>1. CASE UNCHANGED Blessings!blessingVars
  BY <1>1 DEF Blessings!blessingVars, PhotoInv, Blessings!TypeOK, PhotoPlans, PhotoRows, PhotoSeen, PhotoShown,
              Blessings!Existing
<1>2. CASE Blessings!Next
  <2>1. NoRow \notin Blessings!Row
    BY DEF Blessings!BlessingReviewAssumption
  <2>2. CASE Blessings!PassDay \/ \E t \in Tickets : Blessings!Upload(t) \/ Blessings!DeleteTicket(t)
    BY <2>2, PhotoElsewhereStep
  <2>3. ASSUME NEW r \in Requests, Blessings!Review(r) PROVE PhotoInv'
    BY <2>1, <2>3, PhotoLoadStep, PhotoCopyStep, PhotoDeleteStep, PhotoCleanStep, PhotoFailStep, PhotoDecideStep
       DEF Blessings!Review
  <2> QED BY <1>2, <2>2, <2>3 DEF Blessings!Next
<1> QED BY <1>1, <1>2

LEMMA PhotoFollows ==
    ASSUME PhotoInv
    PROVE  Blessings!PhotoFollowsDecision
<1> SUFFICES ASSUME NEW t \in Blessings!Existing \ unsettled
             PROVE  /\ Blessings!PhotoOfDay(t) \/ Blessings!PhotoOfPage(t) => decided[t] = "approve"
                    /\ ~Blessings!Underway(t) =>
                           /\ t \in public <=> ticket[t].url
                           /\ t \in public => decided[t] = "approve"
  BY DEF Blessings!PhotoFollowsDecision
<1>1. PhotoRow(ticket[t]) /\ (ticket[t].review = "APPROVED" => decided[t] = "approve")
  BY DEF PhotoInv, PhotoRows
<1>2. Blessings!PhotoOfDay(t) \/ Blessings!PhotoOfPage(t) => decided[t] = "approve"
  BY <1>1 DEF Blessings!PhotoOfDay, Blessings!PhotoOfPage, Blessings!Listed, Blessings!Approved
<1>3. ASSUME ~Blessings!Underway(t) PROVE t \in public <=> ticket[t].url
  <2>1. \A r \in Requests : ~PhotoFlying(reviewing[r], t)
    BY <1>3, PhotoSteps DEF Blessings!Underway, PhotoFlying
  <2> QED BY <1>1, <2>1 DEF PhotoInv, PhotoShown, PhotoRow
<1> QED BY <1>1, <1>2, <1>3 DEF PhotoRow
-----------------------------------------------------------------------------
(* PAGES.  A page in the cache is as old as its reader's look at the       *)
(* tables, and the row of a form as old as its load: the invariant says of *)
(* what every request carries at which commits it was so, and what became  *)
(* of it.                                                                  *)

PagesTable == [PageIds -> Content!Row \union {NoRow}]

\* What a row becomes: only timings and photos go, and every other keeps its table.
PagesHeir(old, new) == IF new = NoRow THEN old.table \in {"timings", "gallery"} ELSE new.table = old.table
PagesWas(i, row, all) == \E v \in DOMAIN all : all[v][i] = row
PagesPast == /\ Len(past) # 0 /\ past[Len(past)] = rows
             /\ \A v \in DOMAIN past : \A i \in PageIds : past[v][i] # NoRow => PagesHeir(past[v][i], rows[i])

\* No form names the source of a row.
PagesForms == \A f \in agenda : f.row.source = None

\* What a request has loaded was there, and passed its checks.
PagesLoaded(q, all) ==
    /\ q.form.op = "create" => Content!Valid(q.form.row)
    /\ q.saw = NoRow => q.form.op = "create" \/ q.form.row.table = "temple"
    /\ q.saw # NoRow => /\ q.saw.table = q.form.row.table /\ PagesWas(q.form.id, q.saw, all)
                        /\ q.saw.table = "temple" => q.saw.active
PagesListed(q, all) == \A i \in PageIds :
    q.list[i] # NoRow => q.list[i].table = "festivals" /\ PagesWas(i, q.list[i], all)
PagesDue(q) == /\ q.id \in PageIds /\ q.list[q.id] # NoRow /\ Content!IsDue(q.list[q.id])
               /\ q.saw # NoRow
PagesServed(q, all) ==
    /\ q.commit <= Len(all) /\ q.form.row.source = None
    /\ q.step \in {"loaded", "checked"} => PagesLoaded(q, all)
    /\ q.step \in {"listed", "due"} => PagesListed(q, all)
    /\ q.step = "due" => PagesDue(q)
PagesRequestsServed == \A r \in Requests : edit[r] \in Content!Busy => PagesServed(edit[r], past)

\* A reader whose page was not dropped since it looked has the page of some moment since
\* the last answer.
PagesSound(page, key, from, all) == \E v \in from..Len(all) : page = Content!Page(key, all[v])
PagesRead(q, drops, from, all) == q.step \in {"computing", "storing"} =>
    /\ q.drops <= drops
    /\ q.step = "storing" /\ q.drops = drops => PagesSound(q.page, q.form.key, from, all)
PagesReaders == \A r \in Requests : edit[r] \in Content!Busy =>
    PagesRead(edit[r], dropped[edit[r].worker][edit[r].form.key], answered[edit[r].worker][edit[r].form.key], past)
PagesAnswered == \A w \in Workers : \A k \in Content!Keys : answered[w][k] \in 1..Len(past)

\* The rules of the tables, pair by pair.
PagesValid == \A i \in PageIds \ overtaken : rows[i] # NoRow => Content!Valid(rows[i])
PagesAnnouncedOnce == \A f \in PageIds \ doubled : \A i, j \in PageIds :
    Content!Announces(rows[i], f) /\ Content!Announces(rows[j], f) => i = j
PagesOneProfile == Content!Profile \in doubled \/ \A i, j \in PageIds :
    Content!IsProfile(rows[i]) /\ Content!IsProfile(rows[j]) => i = j

PagesInv == /\ Content!TypeOK /\ PagesPast /\ PagesForms /\ PagesRequestsServed /\ PagesAnswered /\ PagesReaders
            /\ Content!FreshAfterEdit /\ PagesValid /\ PagesAnnouncedOnce /\ PagesOneProfile
-----------------------------------------------------------------------------
(* Shapes *)

LEMMA PagesSteps == /\ Content!Idle \notin Content!Busy /\ Content!Over \notin Content!Busy
                    /\ Content!Idle.step = "idle" /\ Content!Over.step = "over"
BY DEF Content!Idle, Content!Over, Content!Busy

\* A request at a step of its own is busy, and served as the invariant says.
LEMMA PagesBusy ==
    ASSUME PagesInv, NEW r \in Requests, edit[r].step \notin {"idle", "over"}
    PROVE  /\ edit[r] \in Content!Busy /\ PagesServed(edit[r], past)
           /\ PagesRead(edit[r], dropped[edit[r].worker][edit[r].form.key],
                        answered[edit[r].worker][edit[r].form.key], past)
<1>1. edit[r] \in {Content!Idle, Content!Over} \union Content!Busy
  BY DEF PagesInv, Content!TypeOK
<1>2. edit[r] \in Content!Busy
  BY <1>1, PagesSteps
<1> QED BY <1>2 DEF PagesInv, PagesRequestsServed, PagesReaders

LEMMA PagesForm ==
    ASSUME NEW q \in Content!Busy
    PROVE  /\ q.form \in Content!Form /\ q.worker \in Workers /\ q.saw \in Content!Row \union {NoRow}
           /\ q.drops \in Nat /\ q.page \subseteq PageIds \X Content!Row /\ q.commit \in Nat
           /\ q.list \in PagesTable /\ q.keys \subseteq DOMAIN Calendar /\ q.id \in PageIds \union {None}
           /\ q.form.id \in PageIds /\ q.form.row \in Content!Row /\ q.form.key \in Content!Keys
           /\ q.form.set \subseteq Content!Fields
<1>1. /\ q.form \in Content!Form /\ q.worker \in Workers /\ q.saw \in Content!Row \union {NoRow}
      /\ q.drops \in Nat /\ q.page \subseteq PageIds \X Content!Row /\ q.commit \in Nat
      /\ q.list \in PagesTable /\ q.keys \subseteq DOMAIN Calendar /\ q.id \in PageIds \union {None}
  BY DEF Content!Busy, PagesTable
<1>2. /\ q.form.id \in PageIds /\ q.form.row \in Content!Row /\ q.form.key \in Content!Keys
      /\ q.form.set \subseteq Content!Fields
  BY <1>1 DEF Content!Form
<1> QED BY <1>1, <1>2

LEMMA PagesColumns ==
    ASSUME NEW row \in Content!Row
    PROVE  /\ DOMAIN row = {"table", "name", "start", "end", "paid", "priced", "active", "flag", "source"}
           /\ row.table \in Content!Tables /\ row.active \in BOOLEAN /\ row.name \in Names
           /\ row.start \in Days \union {None} /\ row.end \in Days \union {None}
BY DEF Content!Row

LEMMA PagesTables ==
    ASSUME PagesInv
    PROVE  /\ rows \in PagesTable /\ past \in Seq(PagesTable) /\ DOMAIN past = 1..Len(past)
           /\ Len(past) \in Nat \ {0} /\ past[Len(past)] = rows /\ Len(past) \in DOMAIN past
           /\ \A v \in DOMAIN past : past[v] \in PagesTable
<1>1. rows \in PagesTable /\ past \in Seq(PagesTable)
  BY DEF PagesInv, Content!TypeOK, PagesTable
<1>2. Len(past) # 0 /\ past[Len(past)] = rows
  BY DEF PagesInv, PagesPast
<1> QED BY <1>1, <1>2
-----------------------------------------------------------------------------
(* Rows *)

\* The UPDATE keeps the table and the source, and writes the copy where nothing changed.
LEMMA PagesWritten ==
    ASSUME NEW now \in Content!Row, NEW saw \in Content!Row, NEW new \in Content!Row,
           new.table = saw.table, new.source = saw.source
    PROVE  /\ Content!Written(now, saw, new) \in Content!Row
           /\ Content!Written(now, saw, new).table = now.table
           /\ Content!Written(now, saw, new).source = now.source
           /\ Content!Written(now, saw, new).active =
                  IF new.active = saw.active THEN now.active ELSE new.active
           /\ now = saw => Content!Written(now, saw, new) = new
<1>1. DOMAIN now = {"table", "name", "start", "end", "paid", "priced", "active", "flag", "source"}
  BY DEF Content!Row
<1>2. Content!Written(now, saw, new) =
          [table  |-> now.table,
           name   |-> IF new.name = saw.name THEN now.name ELSE new.name,
           start  |-> IF new.start = saw.start THEN now.start ELSE new.start,
           end    |-> IF new.end = saw.end THEN now.end ELSE new.end,
           paid   |-> IF new.paid = saw.paid THEN now.paid ELSE new.paid,
           priced |-> IF new.priced = saw.priced THEN now.priced ELSE new.priced,
           active |-> IF new.active = saw.active THEN now.active ELSE new.active,
           flag   |-> IF new.flag = saw.flag THEN now.flag ELSE new.flag,
           source |-> now.source]
  BY <1>1 DEF Content!Written
<1>3. Content!Written(now, saw, new) \in Content!Row
  BY <1>2 DEF Content!Row
<1>4. ASSUME now = saw PROVE Content!Written(now, saw, new) = new
  BY <1>2, <1>4 DEF Content!Row
<1> QED BY <1>2, <1>3, <1>4

LEMMA PagesMerged ==
    ASSUME NEW saw \in Content!Row, NEW f \in Content!Form
    PROVE  /\ Content!Merged(saw, f) \in Content!Row
           /\ Content!Merged(saw, f).table = saw.table /\ Content!Merged(saw, f).source = saw.source
<1>1. /\ DOMAIN saw = {"table", "name", "start", "end", "paid", "priced", "active", "flag", "source"}
      /\ f.row \in Content!Row /\ f.set \subseteq Content!Fields
  BY DEF Content!Row, Content!Form
<1> DEFINE s == f.set
           n == f.row
<1>2. Content!Merged(saw, f) =
          [table  |-> saw.table,
           name   |-> IF "name" \in s THEN n.name ELSE saw.name,
           start  |-> IF "start" \in s THEN n.start ELSE saw.start,
           end    |-> IF "end" \in s THEN n.end ELSE saw.end,
           paid   |-> IF "paid" \in s THEN n.paid ELSE saw.paid,
           priced |-> IF "priced" \in s THEN n.priced ELSE saw.priced,
           active |-> IF "active" \in s THEN n.active ELSE saw.active,
           flag   |-> IF "flag" \in s THEN n.flag ELSE saw.flag,
           source |-> saw.source]
  BY <1>1 DEF Content!Merged, Content!Fields
<1> HIDE DEF s, n
<1>3. Content!Merged(saw, f) \in Content!Row
  <2>1. n \in Content!Row
    BY <1>1 DEF n
  <2> QED BY <1>2, <2>1 DEF Content!Row
<1> QED BY <1>2, <1>3

\* What is hidden is as valid as it was.
LEMMA PagesHidden ==
    ASSUME NEW row \in Content!Row, NEW new \in Content!Row, new.table = row.table, new.start = row.start,
           new.end = row.end, new.paid = row.paid, new.priced = row.priced, Content!Valid(row)
    PROVE  Content!Valid(new)
BY DEF Content!Valid, Content!PoojaValid, Content!FestivalValid, Content!AnnouncementValid, Content!TimingValid

\* What a row was before, its heir is too.
LEMMA PagesHeirs ==
    ASSUME PagesInv, NEW i \in PageIds, NEW row, PagesWas(i, row, past), row # NoRow
    PROVE  PagesHeir(row, rows[i])
BY DEF PagesInv, PagesPast, PagesWas

LEMMA PagesWasHere ==
    ASSUME PagesInv, NEW i \in PageIds
    PROVE  PagesWas(i, rows[i], past)
BY PagesTables DEF PagesWas

\* A commit leaves what was loaded before it.
LEMMA PagesAppended ==
    ASSUME PagesInv, NEW all \in PagesTable
    PROVE  /\ Append(past, all) \in Seq(PagesTable) /\ Len(Append(past, all)) = Len(past) + 1
           /\ DOMAIN Append(past, all) = 1..(Len(past) + 1) /\ Append(past, all)[Len(past) + 1] = all
           /\ \A v \in DOMAIN past : v \in DOMAIN Append(past, all) /\ Append(past, all)[v] = past[v]
BY PagesTables

LEMMA PagesServedOn ==
    ASSUME PagesInv, NEW all \in PagesTable, NEW q \in Content!Busy, PagesServed(q, past)
    PROVE  PagesServed(q, Append(past, all))
<1>1. \A i \in PageIds : \A row : PagesWas(i, row, past) => PagesWas(i, row, Append(past, all))
  BY PagesAppended DEF PagesWas
<1>2. q.commit \in Nat /\ Len(past) \in Nat /\ Len(Append(past, all)) = Len(past) + 1 /\ q.form.id \in PageIds
  BY PagesForm, PagesTables, PagesAppended
<1>3. q.commit <= Len(past) => q.commit <= Len(Append(past, all))
  BY <1>2
<1>4. PagesLoaded(q, past) => PagesLoaded(q, Append(past, all))
  BY <1>1, <1>2 DEF PagesLoaded
<1>5. PagesListed(q, past) => PagesListed(q, Append(past, all))
  BY <1>1 DEF PagesListed
<1> QED BY <1>3, <1>4, <1>5 DEF PagesServed
-----------------------------------------------------------------------------
(* Steps *)

\* A request that moves while the tables and the caches stay as they are.
LEMMA PagesMove ==
    ASSUME PagesInv, NEW r \in Requests, NEW q, edit' = [edit EXCEPT ![r] = q],
           UNCHANGED <<agenda, rows, cache, past, answered, dropped, tardy, overtaken, doubled>>,
           q \in {Content!Idle, Content!Over} \union Content!Busy,
           q \in Content!Busy =>
               /\ PagesServed(q, past)
               /\ PagesRead(q, dropped[q.worker][q.form.key], answered[q.worker][q.form.key], past)
    PROVE  PagesInv'
<1>1. edit'[r] = q /\ \A p \in Requests \ {r} : edit'[p] = edit[p]
  BY DEF PagesInv, Content!TypeOK
<1>2. Content!TypeOK'
  BY DEF PagesInv, Content!TypeOK
<1>3. PagesRequestsServed' /\ PagesReaders'
  BY <1>1 DEF PagesInv, PagesRequestsServed, PagesReaders
<1>4. PagesPast' /\ PagesForms' /\ PagesAnswered'
  BY DEF PagesInv, PagesPast, PagesForms, PagesAnswered
<1>5. Content!FreshAfterEdit'
  BY DEF PagesInv, Content!FreshAfterEdit
<1>6. PagesValid' /\ PagesAnnouncedOnce' /\ PagesOneProfile'
  BY DEF PagesInv, PagesValid, PagesAnnouncedOnce, PagesOneProfile
<1> QED BY <1>2, <1>3, <1>4, <1>5, <1>6 DEF PagesInv

\* A request that only gets to another step, or over.
LEMMA PagesGoesOn ==
    ASSUME PagesInv, NEW r \in Requests, NEW q \in Content!Busy, edit' = [edit EXCEPT ![r] = q],
           UNCHANGED <<agenda, rows, cache, past, answered, dropped, tardy, overtaken, doubled>>,
           PagesServed(q, past), q.step \notin {"computing", "storing"}
    PROVE  PagesInv'
BY PagesMove DEF PagesRead

LEMMA PagesEnds ==
    ASSUME PagesInv, NEW r \in Requests, edit' = [edit EXCEPT ![r] = Content!Over],
           UNCHANGED <<agenda, rows, cache, past, answered, dropped, tardy, overtaken, doubled>>
    PROVE  PagesInv'
BY PagesMove, PagesSteps

\* A row is written, and committed.
LEMMA PagesCommit ==
    ASSUME PagesInv, NEW r \in Requests, NEW q \in Content!Busy, edit' = [edit EXCEPT ![r] = q],
           PagesServed(q, Append(past, rows')), q.step \notin {"computing", "storing"},
           NEW i \in PageIds, NEW row \in Content!Row \union {NoRow},
           rows' = [rows EXCEPT ![i] = row], past' = Append(past, rows'),
           UNCHANGED <<agenda, cache, answered, dropped, tardy>>,
           overtaken \subseteq overtaken', overtaken' \subseteq PageIds,
           doubled \subseteq doubled', doubled' \subseteq PageIds \union {Content!Profile},
           rows[i] # NoRow => PagesHeir(rows[i], row),
           rows[i] = NoRow => row = NoRow \/ Content!Unused(i),
           i \in overtaken' \/ row = NoRow \/ Content!Valid(row),
           \A f \in PageIds \ doubled' : Content!Announces(row, f) =>
               \A j \in PageIds \ {i} : ~Content!Announces(rows[j], f),
           Content!Profile \in doubled' \/ (Content!IsProfile(row) =>
               \A j \in PageIds \ {i} : ~Content!IsProfile(rows[j]))
    PROVE  PagesInv'
<1>1. edit'[r] = q /\ \A p \in Requests \ {r} : edit'[p] = edit[p]
  BY DEF PagesInv, Content!TypeOK
<1>2. rows'[i] = row /\ rows' \in PagesTable /\ \A j \in PageIds \ {i} : rows'[j] = rows[j]
  BY PagesTables DEF PagesTable
<1>3. /\ past' \in Seq(PagesTable) /\ Len(past') = Len(past) + 1
      /\ DOMAIN past' = 1..(Len(past) + 1) /\ past'[Len(past) + 1] = rows'
      /\ DOMAIN past = 1..Len(past) /\ Len(past) \in Nat \ {0}
      /\ \A v \in DOMAIN past : v \in DOMAIN past' /\ past'[v] = past[v]
  BY PagesAppended, PagesTables, <1>2
<1>4. Content!TypeOK'
  BY <1>2, <1>3 DEF PagesInv, Content!TypeOK, PagesTable
<1>5. PagesPast'
  <2>1. Len(past') # 0 /\ past'[Len(past')] = rows'
    BY <1>3
  <2>2. ASSUME NEW v \in DOMAIN past', NEW j \in PageIds, past'[v][j] # NoRow
        PROVE  PagesHeir(past'[v][j], rows'[j])
    <3>1. CASE v = Len(past) + 1
      BY <3>1, <1>3, <2>2 DEF PagesHeir
    <3>2. CASE v # Len(past) + 1
      <4>1. v \in DOMAIN past /\ past[v][j] # NoRow
        BY <3>2, <1>3, <2>2
      <4>2. PagesHeir(past[v][j], rows[j])
        BY <4>1 DEF PagesInv, PagesPast
      <4>3. CASE j # i
        BY <4>1, <4>2, <4>3, <1>2, <1>3
      <4>4. CASE j = i
        <5>1. ~Content!Unused(i)
          BY <4>1, <4>4 DEF Content!Unused
        <5> QED BY <4>1, <4>2, <4>4, <5>1, <1>2, <1>3 DEF PagesHeir
      <4> QED BY <4>3, <4>4
    <3> QED BY <3>1, <3>2
  <2> QED BY <2>1, <2>2 DEF PagesPast
<1>6. PagesRequestsServed'
  <2>1. ASSUME NEW p \in Requests \ {r}, edit[p] \in Content!Busy PROVE PagesServed(edit[p], past')
    BY <2>1, <1>2, PagesServedOn DEF PagesInv, PagesRequestsServed
  <2> QED BY <1>1, <2>1 DEF PagesRequestsServed
<1>7. \A page, key, from : from \in Nat \ {0} =>
          (PagesSound(page, key, from, past) => PagesSound(page, key, from, past'))
  <2>1. ASSUME NEW from \in Nat \ {0}, NEW v \in from..Len(past)
        PROVE  v \in from..Len(past') /\ past'[v] = past[v]
    BY <1>3
  <2> QED BY <2>1 DEF PagesSound
<1>8. PagesReaders' /\ Content!FreshAfterEdit'
  <2>1. \A w \in Workers : \A k \in Content!Keys : answered[w][k] \in Nat \ {0}
    BY <1>3 DEF PagesInv, PagesAnswered
  <2>2. ASSUME NEW p \in Requests \ {r}, edit[p] \in Content!Busy
        PROVE  PagesRead(edit[p], dropped[edit[p].worker][edit[p].form.key],
                         answered[edit[p].worker][edit[p].form.key], past')
    <3>1. answered[edit[p].worker][edit[p].form.key] \in Nat \ {0}
      BY <2>1, <2>2, PagesForm
    <3> QED BY <2>2, <3>1, <1>7 DEF PagesInv, PagesReaders, PagesRead
  <2>3. PagesReaders'
    BY <1>1, <2>2 DEF PagesReaders, PagesRead
  <2>4. \A w \in Workers : \A k \in DOMAIN cache[w] :
            <<w, k>> \in tardy \/ PagesSound(cache[w][k], k, answered[w][k], past)
    BY DEF PagesInv, Content!FreshAfterEdit, PagesSound
  <2>5. \A w \in Workers : DOMAIN cache[w] \subseteq Content!Keys
    BY DEF PagesInv, Content!TypeOK
  <2>6. \A w \in Workers : \A k \in DOMAIN cache[w] :
            <<w, k>> \in tardy \/ PagesSound(cache[w][k], k, answered[w][k], past')
    BY <2>1, <2>4, <2>5, <1>7
  <2>7. Content!FreshAfterEdit'
    BY <2>6 DEF Content!FreshAfterEdit, PagesSound
  <2> QED BY <2>3, <2>7
<1>9. PagesForms' /\ PagesAnswered'
  BY <1>3 DEF PagesInv, PagesForms, PagesAnswered
<1>10. PagesValid' /\ PagesAnnouncedOnce' /\ PagesOneProfile'
  <2>1. PagesValid'
    BY <1>2 DEF PagesInv, PagesValid
  <2>2. PagesAnnouncedOnce'
    BY <1>2 DEF PagesInv, PagesAnnouncedOnce
  <2>3. PagesOneProfile'
    BY <1>2 DEF PagesInv, PagesOneProfile
  <2> QED BY <2>1, <2>2, <2>3
<1> QED BY <1>4, <1>5, <1>6, <1>8, <1>9, <1>10 DEF PagesInv
-----------------------------------------------------------------------------
(* Readers *)

LEMMA PagesFresh ==
    ASSUME PagesInv, NEW f \in Content!Form, f.row.source = None, NEW w \in Workers,
           NEW step \in {"loaded", "checked", "filling", "listed", "computing"}, NoRow \notin Content!Row
    PROVE  /\ Content!Fresh(f, w, step) \in Content!Busy
           /\ Content!Fresh(f, w, step).step = step /\ Content!Fresh(f, w, step).form = f
           /\ Content!Fresh(f, w, step).worker = w /\ Content!Fresh(f, w, step).commit = 0
           /\ Content!Fresh(f, w, step).saw = NoRow
           /\ step \in {"filling", "listed", "computing"} => PagesServed(Content!Fresh(f, w, step), past)
<1>1. /\ [i \in PageIds |-> NoRow] \in [PageIds -> Content!Row \union {NoRow}]
      /\ {} \in SUBSET (PageIds \X Content!Row) /\ {} \in SUBSET DOMAIN Calendar
  OBVIOUS
<1>2. Content!Fresh(f, w, step) \in Content!Busy
  BY <1>1 DEF Content!Fresh, Content!Busy
<1>3. 0 <= Len(past)
  BY PagesTables
<1> QED BY <1>2, <1>3 DEF Content!Fresh, PagesServed, PagesListed

LEMMA PagesAgenda ==
    ASSUME PagesInv, NEW f \in agenda
    PROVE  f \in Content!Form /\ f.row.source = None
BY DEF PagesInv, Content!TypeOK, PagesForms

\* What a query returns are rows.
LEMMA PagesShown ==
    ASSUME NEW all \in PagesTable, NEW table
    PROVE  /\ Content!Shown(all, table) \subseteq PageIds \X Content!Row
           /\ \A x \in Content!Shown(all, table) :
                  x[1] \in PageIds /\ x[2] = all[x[1]] /\ x[2] # NoRow /\ x[2].table = table /\ x[2].active
           /\ \A i \in PageIds : all[i] # NoRow /\ all[i].table = table /\ all[i].active =>
                  <<i, all[i]>> \in Content!Shown(all, table)
BY DEF Content!Shown, PagesTable

LEMMA PagesPage ==
    ASSUME NEW all \in PagesTable, NEW key \in Content!Keys
    PROVE  Content!Page(key, all) \subseteq PageIds \X Content!Row
<1>1. \A table : Content!Shown(all, table) \subseteq PageIds \X Content!Row
  BY PagesShown
<1>2. Content!Active(all) \subseteq PageIds \X Content!Row
  BY <1>1 DEF Content!Active
<1> QED BY <1>1, <1>2 DEF Content!Page, Content!Keys

LEMMA PagesLookUpStep ==
    ASSUME PagesInv, Content!PublicPagesAssumption, NEW r \in Requests, Content!LookUp(r)
    PROVE  PagesInv'
<1>1. PICK f \in agenda, w \in Workers : Content!LookUp(r)!(f, w)
  BY DEF Content!LookUp
<1>2. f \in Content!Form /\ f.row.source = None /\ f.key \in Content!Keys /\ NoRow \notin Content!Row
  BY PagesAgenda DEF Content!Form, Content!PublicPagesAssumption
<1>3. dropped[w][f.key] \in Nat /\ answered[w][f.key] \in Nat
  BY <1>2 DEF PagesInv, Content!TypeOK
<1>4. UNCHANGED <<agenda, rows, cache, past, answered, dropped, tardy, overtaken, doubled>>
  BY <1>1 DEF Content!Unseen
<1>5. CASE f.key \in DOMAIN cache[w]
  BY <1>1, <1>4, <1>5, PagesEnds DEF Content!To
<1>6. CASE f.key \notin DOMAIN cache[w]
  <2>1. PICK o : o = Content!Fresh(f, w, "computing")
    OBVIOUS
  <2>2. o \in Content!Busy /\ o.step = "computing" /\ o.form = f /\ o.worker = w /\ PagesServed(o, past)
    BY <2>1, <1>2, PagesFresh
  <2>3. PICK q : q = [o EXCEPT !.drops = dropped[w][f.key]]
    OBVIOUS
  <2>4. q \in Content!Busy
    BY <2>2, <2>3, <1>3 DEF Content!Busy
  <2>5. q.step = "computing" /\ q.form = f /\ q.worker = w /\ q.drops = dropped[w][f.key]
    BY <2>2, <2>3 DEF Content!Busy
  <2>6. PagesServed(q, past)
    <3>1. q.commit = o.commit /\ q.step = o.step /\ q.form = o.form
      BY <2>2, <2>3 DEF Content!Busy
    <3> QED BY <3>1, <2>2 DEF PagesServed
  <2>7. PagesRead(q, dropped[q.worker][q.form.key], answered[q.worker][q.form.key], past)
    BY <2>5, <1>3 DEF PagesRead
  <2>8. edit' = [edit EXCEPT ![r] = q]
    BY <1>1, <1>6, <2>1, <2>3 DEF Content!To
  <2> QED BY <2>4, <2>6, <2>7, <2>8, <1>4, PagesMove
<1> QED BY <1>5, <1>6

LEMMA PagesComputeStep ==
    ASSUME PagesInv, NEW r \in Requests, Content!Compute(r)
    PROVE  PagesInv'
<1>1. PICK o : o = edit[r]
  OBVIOUS
<1>2. o.step = "computing"
  BY <1>1 DEF Content!Compute
<1>3. o \in Content!Busy /\ PagesServed(o, past) /\ o.drops <= dropped[o.worker][o.form.key]
  BY <1>1, <1>2, PagesBusy DEF PagesRead
<1>4. PICK q : q = [o EXCEPT !.step = "storing", !.page = Content!Page(o.form.key, rows)]
  OBVIOUS
<1>5. Content!Page(o.form.key, rows) \in SUBSET (PageIds \X Content!Row)
  BY <1>3, PagesPage, PagesForm, PagesTables
<1>6. /\ q \in Content!Busy /\ q.step = "storing" /\ q.page = Content!Page(o.form.key, rows)
      /\ q.form = o.form /\ q.worker = o.worker /\ q.drops = o.drops /\ q.commit = o.commit
  <2> HIDE DEF Content!Page
  <2> QED BY <1>3, <1>4, <1>5 DEF Content!Busy
<1>7. PagesServed(q, past)
  BY <1>3, <1>6 DEF PagesServed
<1>8. PagesSound(q.page, q.form.key, answered[o.worker][o.form.key], past)
  <2>1. Len(past) \in answered[o.worker][o.form.key]..Len(past) /\ past[Len(past)] = rows
    <3>1. answered[o.worker][o.form.key] \in 1..Len(past) /\ Len(past) \in Nat /\ past[Len(past)] = rows
      BY <1>3, PagesForm, PagesTables DEF PagesInv, PagesAnswered
    <3> QED BY <3>1
  <2> QED BY <2>1, <1>6 DEF PagesSound
<1>9. edit' = [edit EXCEPT ![r] = q] /\
      UNCHANGED <<agenda, rows, cache, past, answered, dropped, tardy, overtaken, doubled>>
  BY <1>1, <1>4 DEF Content!Compute, Content!To, Content!Unseen
<1> QED BY <1>3, <1>6, <1>7, <1>8, <1>9, PagesMove DEF PagesRead
-----------------------------------------------------------------------------
\* What happens to the caches leaves the tables as they are.
LEMMA PagesCached ==
    ASSUME PagesInv, UNCHANGED <<agenda, rows, past, overtaken, doubled>>
    PROVE  PagesPast' /\ PagesForms' /\ PagesValid' /\ PagesAnnouncedOnce' /\ PagesOneProfile'
<1>1. PagesPast' /\ PagesForms'
  BY DEF PagesInv, PagesPast, PagesForms
<1>2. PagesValid' /\ PagesAnnouncedOnce' /\ PagesOneProfile'
  BY DEF PagesInv, PagesValid, PagesAnnouncedOnce, PagesOneProfile
<1> QED BY <1>1, <1>2

LEMMA PagesStoreStep ==
    ASSUME PagesInv, NEW r \in Requests, Content!Store(r)
    PROVE  PagesInv'
<1>1. PICK q : q = edit[r]
  OBVIOUS
<1>2. PICK w : w = q.worker
  OBVIOUS
<1>3. PICK key : key = q.form.key
  OBVIOUS
<1>4. /\ q.step = "storing"
      /\ cache' = [cache EXCEPT ![w] = [k \in DOMAIN cache[w] \union {key} |->
                       IF k = key THEN q.page ELSE cache[w][k]]]
      /\ tardy' = IF q.drops = dropped[w][key] THEN tardy \ {<<w, key>>} ELSE tardy \union {<<w, key>>}
      /\ edit' = [edit EXCEPT ![r] = Content!Over]
      /\ UNCHANGED <<agenda, rows, past, answered, dropped, overtaken, doubled>>
  BY <1>1, <1>2, <1>3 DEF Content!Store, Content!To, Content!Unseen
<1>5. /\ q \in Content!Busy /\ w \in Workers /\ key \in Content!Keys /\ q.page \subseteq PageIds \X Content!Row
      /\ q.drops = dropped[w][key] => PagesSound(q.page, key, answered[w][key], past)
  BY <1>1, <1>2, <1>3, <1>4, PagesBusy, PagesForm DEF PagesRead
<1>6. /\ edit'[r] = Content!Over /\ \A p \in Requests \ {r} : edit'[p] = edit[p]
      /\ \A p \in Requests : edit'[p] \in Content!Busy => edit[p] \in Content!Busy /\ edit'[p] = edit[p]
  BY <1>4, PagesSteps DEF PagesInv, Content!TypeOK
<1>7. /\ DOMAIN cache = Workers /\ DOMAIN cache' = Workers
      /\ cache'[w] = [k \in DOMAIN cache[w] \union {key} |-> IF k = key THEN q.page ELSE cache[w][k]]
      /\ \A v \in Workers \ {w} : cache'[v] = cache[v]
  BY <1>4, <1>5 DEF PagesInv, Content!TypeOK
<1>8. /\ DOMAIN cache'[w] = DOMAIN cache[w] \union {key} /\ cache'[w][key] = q.page
      /\ \A k \in DOMAIN cache[w] \ {key} : cache'[w][k] = cache[w][k]
  BY <1>7
<1>9. Content!TypeOK'
  <2>1. \A v \in Workers : DOMAIN cache[v] \subseteq Content!Keys /\
            \A k \in DOMAIN cache[v] : cache[v][k] \subseteq PageIds \X Content!Row
    BY DEF PagesInv, Content!TypeOK
  <2>2. \A v \in Workers : DOMAIN cache'[v] \subseteq Content!Keys /\
            \A k \in DOMAIN cache'[v] : cache'[v][k] \subseteq PageIds \X Content!Row
    BY <2>1, <1>5, <1>7, <1>8
  <2>3. tardy' \subseteq Workers \X Content!Keys
    BY <1>4, <1>5 DEF PagesInv, Content!TypeOK
  <2>4. edit' \in [Requests -> {Content!Idle, Content!Over} \union Content!Busy]
    BY <1>4 DEF PagesInv, Content!TypeOK
  <2> QED BY <1>4, <1>7, <2>2, <2>3, <2>4 DEF PagesInv, Content!TypeOK
<1>10. PagesRequestsServed' /\ PagesReaders' /\ PagesAnswered'
  BY <1>4, <1>6 DEF PagesInv, PagesRequestsServed, PagesReaders, PagesAnswered
<1>11. Content!FreshAfterEdit'
  <2>1. ASSUME NEW v \in Workers, NEW k \in DOMAIN cache'[v]
        PROVE  <<v, k>> \in tardy' \/ PagesSound(cache'[v][k], k, answered[v][k], past)
    <3>1. CASE v = w /\ k = key
      BY <3>1, <1>4, <1>5, <1>8
    <3>2. CASE ~(v = w /\ k = key)
      <4>1. k \in DOMAIN cache[v] /\ cache'[v][k] = cache[v][k] /\ (<<v, k>> \in tardy => <<v, k>> \in tardy')
        BY <3>2, <1>4, <1>7, <1>8, <2>1
      <4> QED BY <4>1 DEF PagesInv, Content!FreshAfterEdit, PagesSound
    <3> QED BY <3>1, <3>2
  <2> QED BY <2>1, <1>4 DEF Content!FreshAfterEdit, PagesSound
<1> QED BY <1>4, <1>9, <1>10, <1>11, PagesCached DEF PagesInv

LEMMA PagesExpireStep ==
    ASSUME PagesInv, Content!Expire
    PROVE  PagesInv'
<1>1. PICK w \in Workers : \E key \in DOMAIN cache[w] :
          cache' = [cache EXCEPT ![w] = [k \in DOMAIN cache[w] \ {key} |-> cache[w][k]]]
  BY DEF Content!Expire
<1>2. PICK key \in DOMAIN cache[w] :
          cache' = [cache EXCEPT ![w] = [k \in DOMAIN cache[w] \ {key} |-> cache[w][k]]]
  BY <1>1
<1>3. UNCHANGED <<agenda, rows, past, answered, dropped, overtaken, doubled, edit, tardy>>
  BY DEF Content!Expire, Content!Unseen
<1>4. /\ DOMAIN cache = Workers /\ DOMAIN cache' = Workers
      /\ \A v \in Workers : DOMAIN cache'[v] \subseteq DOMAIN cache[v] /\
             \A k \in DOMAIN cache'[v] : cache'[v][k] = cache[v][k]
  BY <1>2 DEF PagesInv, Content!TypeOK
<1>5. Content!TypeOK'
  <2>1. \A v \in Workers : DOMAIN cache'[v] \subseteq Content!Keys /\
            \A k \in DOMAIN cache'[v] : cache'[v][k] \subseteq PageIds \X Content!Row
    BY <1>4 DEF PagesInv, Content!TypeOK
  <2> QED BY <1>3, <1>4, <2>1 DEF PagesInv, Content!TypeOK
<1>6. PagesRequestsServed' /\ PagesReaders' /\ PagesAnswered'
  BY <1>3 DEF PagesInv, PagesRequestsServed, PagesReaders, PagesAnswered
<1>7. Content!FreshAfterEdit'
  <2>1. ASSUME NEW v \in Workers, NEW k \in DOMAIN cache'[v]
        PROVE  <<v, k>> \in tardy \/ PagesSound(cache'[v][k], k, answered[v][k], past)
    <3>1. k \in DOMAIN cache[v] /\ cache'[v][k] = cache[v][k]
      BY <1>4, <2>1
    <3> QED BY <3>1 DEF PagesInv, Content!FreshAfterEdit, PagesSound
  <2> QED BY <2>1, <1>3 DEF Content!FreshAfterEdit, PagesSound
<1> QED BY <1>3, <1>5, <1>6, <1>7, PagesCached DEF PagesInv
-----------------------------------------------------------------------------
(* Editors *)

\* The prefixes an answer drops are those of the table's pages.
LEMMA PagesAnswerStep ==
    ASSUME PagesInv, NEW r \in Requests, NEW table, NEW prefixes, Content!Answer(r, table, prefixes),
           Content!KeysOf(table) \subseteq UNION {Content!Under(p) : p \in prefixes}
    PROVE  PagesInv'
<1>1. PICK q : q = edit[r]
  OBVIOUS
<1>2. PICK w : w = q.worker
  OBVIOUS
<1>3. PICK keys : keys = UNION {Content!Under(p) : p \in prefixes}
  OBVIOUS
<1>4. PICK own : own = Content!KeysOf(table)
  OBVIOUS
<1>5. /\ q.step = "committed" /\ own \subseteq keys
      /\ cache' = [cache EXCEPT ![w] = [k \in DOMAIN cache[w] \ keys |-> cache[w][k]]]
      /\ dropped' = [dropped EXCEPT ![w] = [k \in Content!Keys |-> IF k \in keys THEN @[k] + 1 ELSE @[k]]]
      /\ answered' = [answered EXCEPT ![w] = [k \in Content!Keys |->
                          IF k \in own /\ q.commit > @[k] THEN q.commit ELSE @[k]]]
      /\ edit' = [edit EXCEPT ![r] = Content!Over]
      /\ UNCHANGED <<agenda, rows, past, tardy, overtaken, doubled>>
  BY <1>1, <1>2, <1>3, <1>4 DEF Content!Answer, Content!To
<1>6. q \in Content!Busy /\ w \in Workers /\ q.commit \in Nat /\ q.commit <= Len(past) /\ Len(past) \in Nat
  BY <1>1, <1>2, <1>5, PagesBusy, PagesForm, PagesTables DEF PagesServed
<1>7. \A p \in Requests : edit'[p] \in Content!Busy => edit[p] \in Content!Busy /\ edit'[p] = edit[p]
  BY <1>5, PagesSteps DEF PagesInv, Content!TypeOK
<1>8. /\ dropped \in [Workers -> [Content!Keys -> Nat]] /\ answered \in [Workers -> [Content!Keys -> Nat]]
      /\ DOMAIN cache = Workers /\ \A v \in Workers : DOMAIN cache[v] \subseteq Content!Keys
      /\ \A v \in Workers : \A k \in Content!Keys : answered[v][k] \in 1..Len(past)
  BY DEF PagesInv, Content!TypeOK, PagesAnswered
<1>9. \A v \in Workers, k \in Content!Keys :
          /\ dropped'[v][k] = IF v = w /\ k \in keys THEN dropped[v][k] + 1 ELSE dropped[v][k]
          /\ answered'[v][k] = IF v = w /\ k \in own /\ q.commit > answered[v][k] THEN q.commit ELSE answered[v][k]
  BY <1>5, <1>6, <1>8
<1>10. /\ DOMAIN cache' = Workers
       /\ \A v \in Workers : \A k \in DOMAIN cache'[v] :
              k \in DOMAIN cache[v] /\ cache'[v][k] = cache[v][k] /\ ~(v = w /\ k \in keys)
  BY <1>5, <1>6, <1>8
<1>11. Content!TypeOK'
  <2>1. dropped' \in [Workers -> [Content!Keys -> Nat]] /\ answered' \in [Workers -> [Content!Keys -> Nat]]
    BY <1>5, <1>6, <1>8
  <2>2. \A v \in Workers : DOMAIN cache'[v] \subseteq Content!Keys /\
            \A k \in DOMAIN cache'[v] : cache'[v][k] \subseteq PageIds \X Content!Row
    BY <1>10 DEF PagesInv, Content!TypeOK
  <2>3. edit' \in [Requests -> {Content!Idle, Content!Over} \union Content!Busy]
    BY <1>5 DEF PagesInv, Content!TypeOK
  <2> QED BY <1>5, <1>10, <2>1, <2>2, <2>3 DEF PagesInv, Content!TypeOK
<1>12. PagesRequestsServed' /\ PagesAnswered'
  <2>1. PagesRequestsServed'
    BY <1>5, <1>7 DEF PagesInv, PagesRequestsServed
  <2>2. ASSUME NEW v \in Workers, NEW k \in Content!Keys
        PROVE  answered'[v][k] \in 1..Len(past)
    <3>1. answered[v][k] \in 1..Len(past) /\ (q.commit > answered[v][k] => q.commit \in 1..Len(past))
      BY <1>6, <1>8
    <3> QED BY <3>1, <1>9
  <2>3. past' = past
    BY <1>5
  <2> QED BY <2>1, <2>2, <2>3 DEF PagesAnswered
<1>13. PagesReaders'
  <2>1. ASSUME NEW p \in Requests, edit'[p] \in Content!Busy
        PROVE  PagesRead(edit[p], dropped'[edit[p].worker][edit[p].form.key],
                         answered'[edit[p].worker][edit[p].form.key], past)
    <3>1. PICK v, k, o : v = o.worker /\ k = o.form.key /\ o = edit[p]
      OBVIOUS
    <3>2. o \in Content!Busy /\ v \in Workers /\ k \in Content!Keys /\ o.drops \in Nat
      BY <1>7, <2>1, <3>1, PagesForm
    <3>3. PagesRead(o, dropped[v][k], answered[v][k], past)
      BY <1>7, <2>1, <3>1 DEF PagesInv, PagesReaders
    <3>4. CASE v = w /\ k \in keys
      <4>1. dropped'[v][k] = dropped[v][k] + 1 /\ dropped[v][k] \in Nat
        BY <3>2, <3>4, <1>8, <1>9
      <4>2. o.drops <= dropped[v][k] => o.drops <= dropped'[v][k] /\ o.drops # dropped'[v][k]
        BY <4>1, <3>2
      <4> QED BY <3>1, <3>3, <4>2 DEF PagesRead
    <3>5. CASE ~(v = w /\ k \in keys)
      <4>1. dropped'[v][k] = dropped[v][k] /\ answered'[v][k] = answered[v][k]
        BY <3>2, <3>5, <1>5, <1>9
      <4> QED BY <3>1, <3>3, <4>1
    <3> QED BY <3>4, <3>5
  <2> QED BY <1>5, <1>7, <2>1 DEF PagesReaders
<1>14. Content!FreshAfterEdit'
  <2>1. ASSUME NEW v \in Workers, NEW k \in DOMAIN cache'[v]
        PROVE  <<v, k>> \in tardy \/ PagesSound(cache'[v][k], k, answered'[v][k], past)
    <3>1. k \in DOMAIN cache[v] /\ cache'[v][k] = cache[v][k] /\ answered'[v][k] = answered[v][k]
      BY <1>5, <1>8, <1>9, <1>10, <2>1
    <3> QED BY <3>1 DEF PagesInv, Content!FreshAfterEdit, PagesSound
  <2>2. past' = past /\ tardy' = tardy
    BY <1>5
  <2> QED BY <2>1, <2>2 DEF Content!FreshAfterEdit, PagesSound
<1> QED BY <1>5, <1>11, <1>12, <1>13, <1>14, PagesCached DEF PagesInv

\* The prefix of each editor covers the keys of its table.
LEMMA PagesPrefixes ==
    /\ Content!KeysOf("poojas") \subseteq UNION {Content!Under(p) : p \in {"poojas:"}}
    /\ Content!KeysOf("festivals") \subseteq UNION {Content!Under(p) : p \in {"festivals:"}}
    /\ Content!KeysOf("announcements") \subseteq UNION {Content!Under(p) : p \in {"announcements:"}}
    /\ Content!KeysOf("timings") \subseteq UNION {Content!Under(p) : p \in {"temple:timings"}}
    /\ Content!KeysOf("temple") \subseteq UNION {Content!Under(p) : p \in {"temple:profile", "temple:hundi_qr"}}
    /\ Content!KeysOf("gallery") \subseteq UNION {Content!Under(p) : p \in {"gallery:"}}
    /\ Content!KeysOf("members") \subseteq UNION {Content!Under(p) : p \in {}}
<1>1. /\ Content!Under("poojas:") = Content!KeysOf("poojas")
      /\ Content!Under("festivals:") = Content!KeysOf("festivals")
      /\ Content!Under("announcements:") = Content!KeysOf("announcements")
      /\ Content!Under("gallery:") = Content!KeysOf("gallery")
      /\ Content!Under("temple:timings") = Content!KeysOf("timings")
      /\ Content!Under("temple:profile") = {"temple:profile"}
      /\ Content!Under("temple:hundi_qr") = {"temple:hundi_qr", "temple:hundi_qr_print"}
  BY DEF Content!Under, Content!KeysOf, Content!Keys
<1>2. /\ Content!KeysOf("temple") = {"temple:profile", "temple:hundi_qr", "temple:hundi_qr_print"}
      /\ Content!KeysOf("members") = {}
  BY DEF Content!KeysOf
<1> QED BY <1>1, <1>2

LEMMA PagesAnswersStep ==
    ASSUME PagesInv, NEW r \in Requests,
           \/ Content!AnswerPooja(r) \/ Content!AnswerFestival(r) \/ Content!AnswerAnnouncement(r)
           \/ Content!AnswerTiming(r) \/ Content!AnswerPhoto(r) \/ Content!AnswerMember(r) \/ Content!AnswerProfile(r)
    PROVE  PagesInv'
<1>1. PICK table, prefixes : /\ Content!Answer(r, table, prefixes)
                             /\ Content!KeysOf(table) \subseteq UNION {Content!Under(p) : p \in prefixes}
  BY PagesPrefixes DEF Content!AnswerPooja, Content!AnswerFestival, Content!AnswerAnnouncement, Content!AnswerTiming,
         Content!AnswerPhoto, Content!AnswerMember, Content!AnswerProfile
<1> QED BY <1>1, PagesAnswerStep
-----------------------------------------------------------------------------
LEMMA PagesActive ==
    ASSUME PagesInv, NEW x \in Content!Active(rows)
    PROVE  x[1] \in PageIds /\ Content!IsProfile(rows[x[1]])
BY PagesTables, PagesShown DEF Content!Active, Content!IsProfile

LEMMA PagesLoadStep ==
    ASSUME PagesInv, Content!PublicPagesAssumption, NEW r \in Requests, Content!Load(r)
    PROVE  PagesInv'
<1>1. PICK f \in agenda, w \in Workers : Content!Load(r)!(f, w)
  BY DEF Content!Load
<1>2. f \in Content!Form /\ f.row.source = None /\ NoRow \notin Content!Row
  BY PagesAgenda DEF Content!PublicPagesAssumption
<1>3. PICK active : active = {x[1] : x \in Content!Active(rows)}
  OBVIOUS
<1>4. PICK id : id = IF f.row.table = "temple" /\ active # {} THEN CHOOSE i \in active : TRUE ELSE f.id
  OBVIOUS
<1>5. PICK found \in BOOLEAN : found = (/\ rows[id] # NoRow /\ rows[id].table = f.row.table
                                        /\ f.row.table = "temple" => rows[id].active)
  OBVIOUS
<1>6. PICK step : step = IF f.row.table \in {"poojas", "festivals"} THEN "loaded" ELSE "checked"
  OBVIOUS
<1>7. PICK o : o = Content!Fresh([f EXCEPT !.id = id], w, step)
  OBVIOUS
<1>8. PICK q : q = [o EXCEPT !.saw = IF f.op # "create" /\ found THEN rows[id] ELSE NoRow]
  OBVIOUS
<1>9. /\ f.op = "create" => Content!Valid(f.row)
      /\ edit' = [edit EXCEPT ![r] = IF f.op = "create" \/ found \/ f.row.table = "temple" THEN q ELSE Content!Over]
      /\ UNCHANGED <<agenda, rows, cache, past, answered, dropped, tardy, overtaken, doubled>>
  BY <1>1, <1>3, <1>4, <1>5, <1>6, <1>7, <1>8 DEF Content!To, Content!NoEdit
<1>10. CASE ~(f.op = "create" \/ found \/ f.row.table = "temple")
  BY <1>9, <1>10, PagesEnds
<1>11. CASE f.op = "create" \/ found \/ f.row.table = "temple"
  <2>1. id \in PageIds
    <3>1. active \subseteq PageIds
      BY <1>3, PagesActive
    <3>2. f.id \in PageIds
      BY <1>2 DEF Content!Form
    <3> QED BY <3>1, <3>2, <1>4
  <2>2. PICK g : g = [f EXCEPT !.id = id]
    OBVIOUS
  <2>3. g \in Content!Form /\ g.row = f.row /\ g.op = f.op /\ g.id = id
    BY <2>1, <2>2, <1>2 DEF Content!Form
  <2>4. o \in Content!Busy /\ o.step = step /\ o.form = g /\ o.commit = 0 /\ step \in {"loaded", "checked"}
    <3>1. step \in {"loaded", "checked"}
      BY <1>6
    <3>2. o = Content!Fresh(g, w, step)
      BY <1>7, <2>2
    <3> QED BY <3>1, <3>2, <2>3, <1>1, <1>2, PagesFresh
  <2>5. rows[id] \in Content!Row \union {NoRow}
    BY <2>1, PagesTables DEF PagesTable
  <2>6. q \in Content!Busy
    BY <2>4, <2>5, <1>8 DEF Content!Busy
  <2>7. /\ q.step = step /\ q.form = g /\ q.commit = 0
        /\ q.saw = IF f.op # "create" /\ found THEN rows[id] ELSE NoRow
    BY <2>4, <1>8 DEF Content!Busy
  <2>8. PagesLoaded(q, past)
    <3>1. f.op = "create" => Content!Valid(f.row)
      BY <1>9
    <3>2. q.saw = NoRow => f.op = "create" \/ f.row.table = "temple"
      BY <2>7, <1>5, <1>11
    <3>3. PagesWas(id, rows[id], past)
      BY <2>1, PagesWasHere
    <3>4. q.saw # NoRow => /\ q.saw = rows[id] /\ q.saw.table = f.row.table
                           /\ q.saw.table = "temple" => q.saw.active
      BY <2>7, <1>5
    <3> QED BY <2>3, <2>7, <3>1, <3>2, <3>3, <3>4 DEF PagesLoaded
  <2>9. PagesServed(q, past)
    <3>1. 0 <= Len(past)
      BY PagesTables
    <3> QED BY <2>3, <2>4, <2>7, <2>8, <3>1, <1>2 DEF PagesServed
  <2>10. edit' = [edit EXCEPT ![r] = q]
    BY <1>9, <1>11
  <2> QED BY <2>4, <2>6, <2>7, <2>9, <2>10, <1>9, PagesGoesOn
<1> QED BY <1>10, <1>11

LEMMA PagesCheckNameStep ==
    ASSUME PagesInv, NEW r \in Requests, Content!CheckName(r)
    PROVE  PagesInv'
<1>1. PICK o : o = edit[r]
  OBVIOUS
<1>2. PICK q : q = [o EXCEPT !.step = "checked"]
  OBVIOUS
<1>3. /\ o.step = "loaded"
      /\ edit' = [edit EXCEPT ![r] = Content!Over] \/ edit' = [edit EXCEPT ![r] = q]
      /\ UNCHANGED <<agenda, rows, cache, past, answered, dropped, tardy, overtaken, doubled>>
  BY <1>1, <1>2 DEF Content!CheckName, Content!To, Content!NoEdit
<1>4. o \in Content!Busy /\ PagesServed(o, past)
  BY <1>1, <1>3, PagesBusy
<1>5. /\ q \in Content!Busy /\ q.step = "checked"
      /\ q.form = o.form /\ q.saw = o.saw /\ q.commit = o.commit
  BY <1>2, <1>4 DEF Content!Busy
<1>6. PagesServed(q, past)
  BY <1>3, <1>4, <1>5 DEF PagesServed, PagesLoaded
<1> QED BY <1>3, <1>5, <1>6, PagesGoesOn, PagesEnds

LEMMA PagesFailStep ==
    ASSUME PagesInv, NEW r \in Requests, Content!Refused(r) \/ Content!FindGone(r)
    PROVE  PagesInv'
<1>1. /\ edit' = [edit EXCEPT ![r] = Content!Over]
      /\ UNCHANGED <<agenda, rows, cache, past, answered, dropped, tardy, overtaken, doubled>>
  BY DEF Content!Refused, Content!FindGone, Content!To, Content!NoEdit
<1> QED BY <1>1, PagesEnds
-----------------------------------------------------------------------------
(* Commits *)

\* An editor after its commit.
LEMMA PagesAfterCommit ==
    ASSUME PagesInv, NEW r \in Requests, edit[r].step = "checked", NEW all \in PagesTable,
           NEW q, q = [edit[r] EXCEPT !.step = "committed", !.commit = Len(past) + 1]
    PROVE  q \in Content!Busy /\ q.step = "committed" /\ PagesServed(q, Append(past, all))
<1>1. edit[r] \in Content!Busy /\ PagesServed(edit[r], past) /\ Len(past) + 1 \in Nat
  BY PagesBusy, PagesTables
<1>2. q \in Content!Busy /\ q.step = "committed" /\ q.commit = Len(past) + 1 /\ q.form = edit[r].form
  BY <1>1 DEF Content!Busy
<1>3. q.commit <= Len(Append(past, all)) /\ q.form.row.source = None
  BY <1>1, <1>2, PagesAppended DEF PagesServed
<1> QED BY <1>2, <1>3 DEF PagesServed

\* Nothing was in a row whose id is new.
LEMMA PagesNewId ==
    ASSUME PagesInv, NEW i \in PageIds, Content!NewId(i)
    PROVE  rows[i] = NoRow /\ Content!Unused(i)
BY PagesTables DEF Content!NewId, Content!Unused

LEMMA PagesInsertStep ==
    ASSUME PagesInv, Content!PublicPagesAssumption, NEW r \in Requests, edit[r].step = "checked",
           NEW row \in Content!Row, Content!Insert(r, row), Content!Valid(row), row.source = None,
           doubled \subseteq doubled', doubled' \subseteq PageIds \union {Content!Profile},
           Content!Profile \in doubled' \/ (Content!IsProfile(row) =>
               \A j \in PageIds : ~Content!IsProfile(rows[j]))
    PROVE  PagesInv'
<1>1. PICK i \in PageIds : Content!Insert(r, row)!(i)
  BY DEF Content!Insert
<1>2. PICK q : q = [edit[r] EXCEPT !.step = "committed", !.commit = Len(past) + 1]
  OBVIOUS
<1>3. /\ Content!NewId(i) /\ rows' = [rows EXCEPT ![i] = row] /\ past' = Append(past, rows')
      /\ edit' = [edit EXCEPT ![r] = q] /\ UNCHANGED <<agenda, cache, answered, dropped, tardy, overtaken>>
  BY <1>1, <1>2 DEF Content!Committed, Content!To
<1>4. rows' \in PagesTable
  BY <1>3, PagesTables DEF PagesTable
<1>5. q \in Content!Busy /\ q.step = "committed" /\ PagesServed(q, Append(past, rows'))
  BY <1>2, <1>4, PagesAfterCommit
<1>6. rows[i] = NoRow /\ Content!Unused(i)
  BY <1>3, PagesNewId
<1>7. \A f \in PageIds \ doubled' : ~Content!Announces(row, f)
  BY DEF Content!Announces, Content!PublicPagesAssumption
<1>8. overtaken \subseteq overtaken' /\ overtaken' \subseteq PageIds
  BY <1>3 DEF PagesInv, Content!TypeOK
<1>9. UNCHANGED <<agenda, cache, answered, dropped, tardy>>
  BY <1>3
<1> QED BY <1>3, <1>5, <1>6, <1>7, <1>8, <1>9, PagesCommit

\* An UPDATE of a row that has not changed keeps the rules if its copy does.
LEMMA PagesChangeStep ==
    ASSUME PagesInv, Content!PublicPagesAssumption, NEW r \in Requests, edit[r].step = "checked",
           edit[r].saw # NoRow, NEW row \in Content!Row, Content!Change(r, row),
           row.table = edit[r].saw.table, row.source = edit[r].saw.source,
           Content!Valid(edit[r].saw) => Content!Valid(row)
    PROVE  PagesInv'
<1>1. PICK o : o = edit[r]
  OBVIOUS
<1>2. o \in Content!Busy /\ PagesServed(o, past) /\ PagesLoaded(o, past) /\ o.saw # NoRow
  BY <1>1, PagesBusy DEF PagesServed
<1>3. PICK i \in PageIds : i = o.form.id
  BY <1>2, PagesForm
<1>4. PICK saw \in Content!Row : saw = o.saw
  BY <1>2, PagesForm
<1>5. PICK new : new = Content!Written(rows[i], saw, row)
  OBVIOUS
<1>6. PICK q : q = [edit[r] EXCEPT !.step = "committed", !.commit = Len(past) + 1]
  OBVIOUS
<1>7. /\ rows[i] # NoRow /\ rows' = [rows EXCEPT ![i] = new] /\ past' = Append(past, rows')
      /\ edit' = [edit EXCEPT ![r] = q] /\ UNCHANGED <<agenda, cache, answered, dropped, tardy, doubled>>
      /\ overtaken' = IF rows[i] = saw THEN overtaken ELSE overtaken \union {i}
  BY <1>1, <1>3, <1>4, <1>5, <1>6 DEF Content!Change, Content!Committed, Content!To
<1>8. saw # NoRow /\ PagesHeir(saw, rows[i]) /\ (saw.table = "temple" => saw.active)
  BY <1>2, <1>3, <1>4, PagesHeirs DEF PagesLoaded
<1>9. rows[i] \in Content!Row /\ rows[i].table = saw.table
  BY <1>7, <1>8, PagesTables DEF PagesTable, PagesHeir
<1>10. /\ new \in Content!Row /\ new.table = rows[i].table /\ new.source = rows[i].source
       /\ new.active = (IF row.active = saw.active THEN rows[i].active ELSE row.active)
       /\ rows[i] = saw => new = row
  BY <1>1, <1>4, <1>5, <1>9, PagesWritten
<1>11. rows' \in PagesTable
  BY <1>7, <1>10, PagesTables DEF PagesTable
<1>12. q \in Content!Busy /\ q.step = "committed" /\ PagesServed(q, Append(past, rows'))
  BY <1>6, <1>11, PagesAfterCommit
<1>13. NoRow \notin Content!Row
  BY DEF Content!PublicPagesAssumption
<1>14. PagesHeir(rows[i], new)
  BY <1>10, <1>13 DEF PagesHeir
<1>15. i \in overtaken' \/ Content!Valid(new)
  <2>1. CASE rows[i] # saw
    BY <2>1, <1>7
  <2>2. CASE rows[i] = saw
    <3>1. i \in overtaken \/ Content!Valid(saw)
      BY <2>2, <1>7 DEF PagesInv, PagesValid
    <3> QED BY <2>2, <3>1, <1>1, <1>4, <1>7, <1>10
  <2> QED BY <2>1, <2>2
<1>16. /\ \A f : Content!Announces(new, f) => Content!Announces(rows[i], f)
       /\ Content!IsProfile(new) => Content!IsProfile(rows[i])
  <2>1. \A f : Content!Announces(new, f) => Content!Announces(rows[i], f)
    BY <1>7, <1>10 DEF Content!Announces
  <2>2. ASSUME Content!IsProfile(new) PROVE Content!IsProfile(rows[i])
    <3>1. saw.active /\ new.table = "temple" /\ new.active
      BY <2>2, <1>8, <1>9, <1>10 DEF Content!IsProfile
    <3>2. row.active \in BOOLEAN /\ saw.active \in BOOLEAN
      BY PagesColumns
    <3>3. rows[i].active
      BY <3>1, <3>2, <1>10
    <3> QED BY <3>1, <3>3, <1>7, <1>10 DEF Content!IsProfile
  <2> QED BY <2>1, <2>2
<1>17. /\ overtaken \subseteq overtaken' /\ overtaken' \subseteq PageIds
       /\ doubled \subseteq doubled' /\ doubled' \subseteq PageIds \union {Content!Profile}
  BY <1>7 DEF PagesInv, Content!TypeOK
<1>18. \A f \in PageIds \ doubled' : Content!Announces(new, f) =>
           \A j \in PageIds \ {i} : ~Content!Announces(rows[j], f)
  BY <1>7, <1>16 DEF PagesInv, PagesAnnouncedOnce
<1>19. Content!Profile \in doubled' \/ (Content!IsProfile(new) =>
           \A j \in PageIds \ {i} : ~Content!IsProfile(rows[j]))
  BY <1>7, <1>16 DEF PagesInv, PagesOneProfile
<1>20. UNCHANGED <<agenda, cache, answered, dropped, tardy>>
  BY <1>7
<1> QED BY <1>7, <1>10, <1>12, <1>14, <1>15, <1>17, <1>18, <1>19, <1>20, PagesCommit
-----------------------------------------------------------------------------
LEMMA PagesEraseStep ==
    ASSUME PagesInv, Content!PublicPagesAssumption, NEW r \in Requests, Content!Erase(r),
           NEW table \in {"timings", "gallery"}, Content!Asked(r, table, "delete")
    PROVE  PagesInv'
<1>1. PICK o : o = edit[r]
  OBVIOUS
<1>2. o.step = "checked" /\ o.form.op = "delete" /\ o.form.row.table = table
  BY <1>1 DEF Content!Asked
<1>3. o \in Content!Busy /\ PagesLoaded(o, past)
  BY <1>1, <1>2, PagesBusy DEF PagesServed
<1>4. PICK i \in PageIds : i = o.form.id
  BY <1>3, PagesForm
<1>5. PICK q : q = [edit[r] EXCEPT !.step = "committed", !.commit = Len(past) + 1]
  OBVIOUS
<1>6. /\ rows' = [rows EXCEPT ![i] = NoRow] /\ past' = Append(past, rows')
      /\ edit' = [edit EXCEPT ![r] = q]
      /\ UNCHANGED <<agenda, cache, answered, dropped, tardy, overtaken, doubled>>
  BY <1>1, <1>4, <1>5 DEF Content!Erase, Content!Committed, Content!To
<1>7. o.saw # NoRow /\ o.saw.table = table /\ PagesHeir(o.saw, rows[i])
  BY <1>2, <1>3, <1>4, PagesHeirs DEF PagesLoaded
<1>8. rows[i] # NoRow => PagesHeir(rows[i], NoRow)
  BY <1>7 DEF PagesHeir
<1>9. rows' \in PagesTable
  BY <1>6, PagesTables DEF PagesTable
<1>10. q \in Content!Busy /\ q.step = "committed" /\ PagesServed(q, Append(past, rows'))
  BY <1>1, <1>2, <1>5, <1>9, PagesAfterCommit
<1>11. /\ overtaken \subseteq overtaken' /\ overtaken' \subseteq PageIds
       /\ doubled \subseteq doubled' /\ doubled' \subseteq PageIds \union {Content!Profile}
  BY <1>6 DEF PagesInv, Content!TypeOK
<1>12. (\A f : ~Content!Announces(NoRow, f)) /\ ~Content!IsProfile(NoRow)
  BY DEF Content!Announces, Content!IsProfile
<1>13. UNCHANGED <<agenda, cache, answered, dropped, tardy>>
  BY <1>6
<1> QED BY <1>6, <1>8, <1>10, <1>11, <1>12, <1>13, PagesCommit

LEMMA PagesCreateStep ==
    ASSUME PagesInv, Content!PublicPagesAssumption, NEW r \in Requests, NEW table, table # "temple",
           Content!Create(r, table)
    PROVE  PagesInv'
<1>1. PICK row : row = edit[r].form.row
  OBVIOUS
<1>2. /\ edit[r].step = "checked" /\ edit[r].form.op = "create" /\ row.table = table
      /\ Content!Insert(r, row) /\ doubled' = doubled
  BY <1>1 DEF Content!Create, Content!Asked
<1>3. edit[r] \in Content!Busy /\ PagesLoaded(edit[r], past) /\ row.source = None
  BY <1>1, <1>2, PagesBusy DEF PagesServed
<1>4. row \in Content!Row /\ Content!Valid(row)
  BY <1>1, <1>2, <1>3, PagesForm DEF PagesLoaded
<1>5. ~Content!IsProfile(row)
  BY <1>2 DEF Content!IsProfile
<1>6. doubled \subseteq doubled' /\ doubled' \subseteq PageIds \union {Content!Profile}
  BY <1>2 DEF PagesInv, Content!TypeOK
<1> QED BY <1>2, <1>3, <1>4, <1>5, <1>6, PagesInsertStep

LEMMA PagesUpdateStep ==
    ASSUME PagesInv, Content!PublicPagesAssumption, NEW r \in Requests, NEW table,
           Content!Update(r, table), edit[r].saw # NoRow
    PROVE  PagesInv'
<1>1. PICK saw : saw = edit[r].saw
  OBVIOUS
<1>2. PICK f : f = edit[r].form
  OBVIOUS
<1>3. /\ edit[r].step = "checked" /\ Content!Valid(Content!Merged(saw, f))
      /\ Content!Change(r, Content!Merged(saw, f))
  BY <1>1, <1>2 DEF Content!Update, Content!Asked, Content!Checked
<1>4. saw \in Content!Row /\ f \in Content!Form
  BY <1>1, <1>2, <1>3, PagesBusy, PagesForm
<1>5. /\ Content!Merged(saw, f) \in Content!Row
      /\ Content!Merged(saw, f).table = saw.table /\ Content!Merged(saw, f).source = saw.source
  BY <1>4, PagesMerged
<1> QED BY <1>1, <1>3, <1>5, PagesChangeStep

LEMMA PagesHideStep ==
    ASSUME PagesInv, Content!PublicPagesAssumption, NEW r \in Requests, NEW table, table # "temple",
           Content!Asked(r, table, "delete"), NEW row,
           row \in {[edit[r].saw EXCEPT !.active = FALSE], [edit[r].saw EXCEPT !.active = FALSE, !.flag = FALSE]},
           Content!Change(r, row)
    PROVE  PagesInv'
<1>1. PICK saw : saw = edit[r].saw
  OBVIOUS
<1>2. edit[r].step = "checked" /\ edit[r].form.op = "delete" /\ edit[r].form.row.table = table
  BY DEF Content!Asked
<1>3. edit[r] \in Content!Busy /\ PagesLoaded(edit[r], past)
  BY <1>2, PagesBusy DEF PagesServed
<1>4. saw # NoRow /\ saw \in Content!Row
  BY <1>1, <1>2, <1>3, PagesForm DEF PagesLoaded
<1>5. row \in Content!Row
  BY <1>1, <1>4 DEF Content!Row
<1>6. /\ row.table = saw.table /\ row.source = saw.source /\ row.start = saw.start /\ row.end = saw.end
      /\ row.paid = saw.paid /\ row.priced = saw.priced
  BY <1>1, <1>4 DEF Content!Row
<1>7. Content!Valid(saw) => Content!Valid(row)
  BY <1>4, <1>5, <1>6, PagesHidden
<1> QED BY <1>1, <1>2, <1>4, <1>5, <1>6, <1>7, PagesChangeStep

\* The commits of an editor, but for the profile's.
LEMMA PagesCommitsStep ==
    ASSUME PagesInv, Content!PublicPagesAssumption, NEW r \in Requests,
           \/ Content!CommitPooja(r) \/ Content!CommitFestival(r) \/ Content!CommitAnnouncement(r)
           \/ Content!CommitTiming(r) \/ Content!CommitPhoto(r) \/ Content!CommitMember(r)
    PROVE  PagesInv'
<1>1. PICK table : /\ table # "temple"
                   /\ \/ Content!Create(r, table) \/ Content!Update(r, table) \/ Content!Hide(r, table)
                      \/ /\ table \in {"timings", "gallery"} /\ Content!Asked(r, table, "delete")
                         /\ Content!Erase(r)
                      \/ /\ Content!Asked(r, table, "delete")
                         /\ Content!Change(r, [edit[r].saw EXCEPT !.active = FALSE, !.flag = FALSE])
  <2>1. "poojas" # "temple" /\ "festivals" # "temple" /\ "announcements" # "temple" /\ "timings" # "temple"
        /\ "gallery" # "temple" /\ "members" # "temple"
    OBVIOUS
  <2> QED BY <2>1 DEF Content!CommitPooja, Content!CommitFestival, Content!CommitAnnouncement,
                 Content!CommitTiming, Content!CommitPhoto, Content!CommitMember
<1>2. CASE Content!Create(r, table)
  BY <1>1, <1>2, PagesCreateStep
<1>3. CASE Content!Update(r, table)
  <2>1. edit[r].step = "checked" /\ edit[r].form.op = "update" /\ edit[r].form.row.table = table
    BY <1>3 DEF Content!Update, Content!Asked
  <2>2. edit[r].saw # NoRow
    BY <1>1, <2>1, PagesBusy DEF PagesServed, PagesLoaded
  <2> QED BY <1>3, <2>2, PagesUpdateStep
<1>4. CASE Content!Hide(r, table)
  BY <1>1, <1>4, PagesHideStep DEF Content!Hide
<1>5. CASE table \in {"timings", "gallery"} /\ Content!Asked(r, table, "delete") /\ Content!Erase(r)
  BY <1>5, PagesEraseStep
<1>6. CASE /\ Content!Asked(r, table, "delete")
           /\ Content!Change(r, [edit[r].saw EXCEPT !.active = FALSE, !.flag = FALSE])
  BY <1>1, <1>6, PagesHideStep
<1> QED BY <1>1, <1>2, <1>3, <1>4, <1>5, <1>6
-----------------------------------------------------------------------------
\* A set of ids has a smallest.
LEMMA PagesSmallest ==
    ASSUME NEW S \in SUBSET Nat, NEW n \in S
    PROVE  \E m \in S : \A k \in S : m <= k
<1> DEFINE Below == {j \in 0..n : n - j \in S}
<1>1. n \in Nat
  OBVIOUS
<1>2. n - 0 = n /\ 0 \in 0..n /\ 0..n \subseteq Nat
  BY <1>1
<1>3. 0 \in Below /\ Below \in SUBSET Nat /\ Below \subseteq 0..n
  BY <1>2
<1>4. IsFiniteSet(Below)
  <2>1. IsFiniteSet(0..n)
    BY <1>1, FS_Interval
  <2> QED BY <1>3, <2>1, FS_Subset
<1>5. PICK j \in Below : \A k \in Below : j >= k
  <2> HIDE DEF Below
  <2> QED BY <1>3, <1>4, Greatest
<1>6. j \in Nat /\ n - j \in S /\ n - j \in Nat
  BY <1>3, <1>5
<1>7. ASSUME NEW k \in S, k < n - j PROVE FALSE
  <2>1. k \in Nat /\ n - k \in 0..n /\ n - (n - k) = k /\ n - k > j
    BY <1>1, <1>6, <1>7
  <2>2. n - k \in Below
    BY <2>1
  <2>3. j >= n - k
    BY <1>5, <2>2
  <2> QED BY <1>1, <1>6, <2>1, <2>3
<1>8. \A k \in S : n - j <= k
  BY <1>6, <1>7
<1> QED BY <1>6, <1>8

\* Where the lookup finds no profile there is none.
LEMMA PagesNoProfile ==
    ASSUME PagesInv, Content!PublicPagesAssumption, Content!Active(rows) = {}, NEW j \in PageIds
    PROVE  ~Content!IsProfile(rows[j])
<1> SUFFICES ASSUME Content!IsProfile(rows[j]) PROVE FALSE
  OBVIOUS
<1>1. PICK S : S = {i \in PageIds : Content!IsProfile(rows[i])}
  OBVIOUS
<1>2. j \in S /\ S \in SUBSET Nat
  BY <1>1 DEF Content!PublicPagesAssumption
<1>3. PICK m \in S : \A k \in S : m <= k
  BY <1>2, PagesSmallest
<1>4. <<m, rows[m]>> \in Content!Shown(rows, "temple")
  BY <1>1, <1>3, PagesTables, PagesShown DEF Content!IsProfile
<1>5. \A y \in Content!Shown(rows, "temple") : y[1] \in S
  BY <1>1, PagesTables, PagesShown DEF Content!IsProfile
<1>6. \A y \in Content!Shown(rows, "temple") : <<m, rows[m]>>[1] <= y[1]
  BY <1>3, <1>5
<1> QED BY <1>4, <1>6 DEF Content!Active

LEMMA PagesProfileStep ==
    ASSUME PagesInv, Content!PublicPagesAssumption, NEW r \in Requests, Content!CommitProfile(r)
    PROVE  PagesInv'
<1>1. CASE edit[r].saw # NoRow /\ Content!Update(r, "temple")
  BY <1>1, PagesUpdateStep
<1>2. CASE /\ edit[r].saw = NoRow
           /\ Content!Insert(r, [edit[r].form.row EXCEPT !.active = TRUE])
           /\ doubled' = IF Content!Active(rows) = {} THEN doubled ELSE doubled \union {Content!Profile}
  <2>1. edit[r].step = "checked" /\ edit[r].form.row.table = "temple"
    BY DEF Content!CommitProfile, Content!Asked
  <2>2. edit[r] \in Content!Busy /\ edit[r].form.row.source = None
    BY <2>1, PagesBusy DEF PagesServed
  <2>3. PICK old \in Content!Row : old = edit[r].form.row
    BY <2>2, PagesForm
  <2>4. PICK row : row = [old EXCEPT !.active = TRUE]
    OBVIOUS
  <2>5. row \in Content!Row /\ row.table = "temple" /\ row.source = None
    BY <2>1, <2>2, <2>3, <2>4 DEF Content!Row
  <2>6. Content!Valid(row)
    BY <2>5 DEF Content!Valid
  <2>7. doubled \subseteq doubled' /\ doubled' \subseteq PageIds \union {Content!Profile}
    BY <1>2 DEF PagesInv, Content!TypeOK
  <2>8. Content!Profile \in doubled' \/ \A j \in PageIds : ~Content!IsProfile(rows[j])
    BY <1>2, PagesNoProfile
  <2> QED BY <1>2, <2>1, <2>3, <2>4, <2>5, <2>6, <2>7, <2>8, PagesInsertStep
<1> QED BY <1>1, <1>2 DEF Content!CommitProfile
-----------------------------------------------------------------------------
(* The calendar and the job *)

LEMMA PagesListMissingStep ==
    ASSUME PagesInv, Content!PublicPagesAssumption, NEW r \in Requests, Content!ListMissing(r)
    PROVE  PagesInv'
<1>1. PICK f \in agenda, w \in Workers : Content!ListMissing(r)!(f, w)
  BY DEF Content!ListMissing
<1>2. f \in Content!Form /\ f.row.source = None /\ NoRow \notin Content!Row
  BY PagesAgenda DEF Content!PublicPagesAssumption
<1>3. PICK o : o = Content!Fresh(f, w, "filling")
  OBVIOUS
<1>4. o \in Content!Busy /\ o.step = "filling" /\ PagesServed(o, past)
  BY <1>1, <1>2, <1>3, PagesFresh
<1>5. PICK q : q = [o EXCEPT !.keys = DOMAIN Calendar \ Content!SourceKeys]
  OBVIOUS
<1>6. q \in Content!Busy /\ q.step = "filling" /\ q.form = o.form /\ q.commit = o.commit
  <2>1. DOMAIN Calendar \ Content!SourceKeys \in SUBSET DOMAIN Calendar
    OBVIOUS
  <2> QED BY <1>4, <1>5, <2>1 DEF Content!Busy
<1>7. PagesServed(q, past)
  BY <1>4, <1>6 DEF PagesServed
<1>8. /\ edit' = [edit EXCEPT ![r] = q]
      /\ UNCHANGED <<agenda, rows, cache, past, answered, dropped, tardy, overtaken, doubled>>
  BY <1>1, <1>3, <1>5 DEF Content!To, Content!NoEdit
<1> QED BY <1>6, <1>7, <1>8, PagesGoesOn

LEMMA PagesAddFestivalStep ==
    ASSUME PagesInv, Content!PublicPagesAssumption, NEW r \in Requests, Content!AddFestival(r)
    PROVE  PagesInv'
<1>1. PICK k \in DOMAIN Calendar, i \in PageIds : Content!AddFestival(r)!(k, i)
  BY DEF Content!AddFestival
<1>2. PICK o : o = edit[r]
  OBVIOUS
<1>3. PICK row : row = Calendar[k]
  OBVIOUS
<1>4. PICK q : q = [o EXCEPT !.keys = @ \ {k}, !.commit = Len(past) + 1]
  OBVIOUS
<1>5. /\ o.step = "filling" /\ Content!NewId(i)
      /\ rows' = [rows EXCEPT ![i] = row] /\ past' = Append(past, rows') /\ edit' = [edit EXCEPT ![r] = q]
      /\ UNCHANGED <<agenda, cache, answered, dropped, tardy, overtaken, doubled>>
  BY <1>1, <1>2, <1>3, <1>4 DEF Content!To
<1>6. row \in Content!Row /\ row.table = "festivals" /\ Content!Valid(row)
  BY <1>3 DEF Content!PublicPagesAssumption
<1>7. rows' \in PagesTable
  BY <1>5, <1>6, PagesTables DEF PagesTable
<1>8. o \in Content!Busy /\ PagesServed(o, past) /\ Len(past) + 1 \in Nat
  BY <1>2, <1>5, PagesBusy, PagesTables
<1>9. q \in Content!Busy /\ q.step = "filling" /\ q.form = o.form /\ q.commit = Len(past) + 1
  <2>1. o.keys \ {k} \in SUBSET DOMAIN Calendar
    BY <1>8, PagesForm
  <2> QED BY <1>4, <1>5, <1>8, <2>1 DEF Content!Busy
<1>10. PagesServed(q, Append(past, rows'))
  <2>1. q.commit <= Len(Append(past, rows'))
    BY <1>7, <1>8, <1>9, PagesAppended
  <2> QED BY <1>8, <1>9, <2>1 DEF PagesServed
<1>11. rows[i] = NoRow /\ Content!Unused(i)
  BY <1>5, PagesNewId
<1>12. (\A f : ~Content!Announces(row, f)) /\ ~Content!IsProfile(row)
  BY <1>6 DEF Content!Announces, Content!IsProfile
<1>13. /\ overtaken \subseteq overtaken' /\ overtaken' \subseteq PageIds
       /\ doubled \subseteq doubled' /\ doubled' \subseteq PageIds \union {Content!Profile}
  BY <1>5 DEF PagesInv, Content!TypeOK
<1>14. UNCHANGED <<agenda, cache, answered, dropped, tardy>>
  BY <1>5
<1> QED BY <1>5, <1>6, <1>9, <1>10, <1>11, <1>12, <1>13, <1>14, PagesCommit

LEMMA PagesEndFillStep ==
    ASSUME PagesInv, NEW r \in Requests, Content!EndFill(r)
    PROVE  PagesInv'
<1>1. PICK o : o = edit[r]
  OBVIOUS
<1>2. PICK q : q = [o EXCEPT !.step = "committed"]
  OBVIOUS
<1>3. /\ o.step = "filling"
      /\ edit' = [edit EXCEPT ![r] = Content!Over] \/ edit' = [edit EXCEPT ![r] = q]
      /\ UNCHANGED <<agenda, rows, cache, past, answered, dropped, tardy, overtaken, doubled>>
  BY <1>1, <1>2 DEF Content!EndFill, Content!To, Content!NoEdit
<1>4. o \in Content!Busy /\ PagesServed(o, past)
  BY <1>1, <1>3, PagesBusy
<1>5. q \in Content!Busy /\ q.step = "committed" /\ q.form = o.form /\ q.commit = o.commit
  BY <1>2, <1>4 DEF Content!Busy
<1>6. PagesServed(q, past)
  BY <1>4, <1>5 DEF PagesServed
<1> QED BY <1>3, <1>5, <1>6, PagesGoesOn, PagesEnds

LEMMA PagesListFestivalsStep ==
    ASSUME PagesInv, Content!PublicPagesAssumption, NEW r \in Requests, Content!ListFestivals(r)
    PROVE  PagesInv'
<1>1. PICK f \in agenda, w \in Workers : Content!ListFestivals(r)!(f, w)
  BY DEF Content!ListFestivals
<1>2. f \in Content!Form /\ f.row.source = None /\ NoRow \notin Content!Row
  BY PagesAgenda DEF Content!PublicPagesAssumption
<1>3. PICK due : due = {i \in PageIds : /\ rows[i] # NoRow /\ rows[i].table = "festivals"
                                        /\ rows[i].active /\ rows[i].flag /\ rows[i].start # None}
  OBVIOUS
<1>4. PICK list : list = [i \in PageIds |-> IF i \in due THEN rows[i] ELSE NoRow]
  OBVIOUS
<1>5. PICK o : o = Content!Fresh(f, w, "listed")
  OBVIOUS
<1>6. o \in Content!Busy /\ o.step = "listed" /\ PagesServed(o, past)
  BY <1>1, <1>2, <1>5, PagesFresh
<1>7. PICK q : q = [o EXCEPT !.list = list]
  OBVIOUS
<1>8. list \in [PageIds -> Content!Row \union {NoRow}]
  BY <1>4, PagesTables DEF PagesTable
<1>9. q \in Content!Busy /\ q.step = "listed" /\ q.form = o.form /\ q.commit = o.commit /\ q.list = list
  BY <1>6, <1>7, <1>8 DEF Content!Busy
<1>10. PagesListed(q, past)
  BY <1>3, <1>4, <1>9, PagesWasHere DEF PagesListed
<1>11. PagesServed(q, past)
  BY <1>6, <1>9, <1>10 DEF PagesServed
<1>12. /\ edit' = [edit EXCEPT ![r] = q]
       /\ UNCHANGED <<agenda, rows, cache, past, answered, dropped, tardy, overtaken, doubled>>
  BY <1>1, <1>3, <1>4, <1>5, <1>7 DEF Content!To, Content!NoEdit
<1> QED BY <1>9, <1>11, <1>12, PagesGoesOn

LEMMA PagesCheckFestivalStep ==
    ASSUME PagesInv, Content!PublicPagesAssumption, NEW r \in Requests, Content!CheckFestival(r)
    PROVE  PagesInv'
<1>1. PICK i \in PageIds : Content!CheckFestival(r)!(i)
  BY DEF Content!CheckFestival
<1>2. PICK o : o = edit[r]
  OBVIOUS
<1>3. PICK festival : festival = IF o.commit = 0 THEN o.list[i] ELSE rows[i]
  OBVIOUS
<1>4. PICK yes : yes = [o EXCEPT !.step = "due", !.id = i, !.list = [@ EXCEPT ![i] = festival],
                            !.saw = IF Content!Announced(i) THEN NoRow ELSE festival]
  OBVIOUS
<1>5. PICK no : no = [o EXCEPT !.list = [@ EXCEPT ![i] = NoRow]]
  OBVIOUS
<1>6. /\ o.step = "listed" /\ o.list[i] # NoRow
      /\ edit' = [edit EXCEPT ![r] = IF Content!IsDue(festival) /\ ~Content!Announced(i) THEN yes ELSE no]
      /\ UNCHANGED <<agenda, rows, cache, past, answered, dropped, tardy, overtaken, doubled>>
  BY <1>1, <1>2, <1>3, <1>4, <1>5 DEF Content!To, Content!NoEdit, Content!Missing
<1>7. o \in Content!Busy /\ PagesServed(o, past) /\ PagesListed(o, past) /\ o.list \in PagesTable
  BY <1>2, <1>6, PagesBusy, PagesForm DEF PagesServed
<1>8. o.list[i].table = "festivals" /\ PagesHeir(o.list[i], rows[i]) /\ PagesWas(i, o.list[i], past)
  BY <1>6, <1>7, PagesHeirs DEF PagesListed
<1>9. rows[i] # NoRow /\ rows[i].table = "festivals"
  BY <1>8 DEF PagesHeir
<1>10. /\ festival \in Content!Row \union {NoRow} /\ festival # NoRow /\ festival.table = "festivals"
       /\ PagesWas(i, festival, past)
  BY <1>3, <1>6, <1>7, <1>8, <1>9, PagesWasHere, PagesTables DEF PagesTable
<1>11. CASE ~(Content!IsDue(festival) /\ ~Content!Announced(i))
  <2>1. PICK list : list = [o.list EXCEPT ![i] = NoRow]
    OBVIOUS
  <2>2. list \in [PageIds -> Content!Row \union {NoRow}]
    BY <2>1, <1>7 DEF PagesTable
  <2>3. no \in Content!Busy /\ no.step = "listed" /\ no.form = o.form /\ no.commit = o.commit /\ no.list = list
    BY <2>1, <2>2, <1>5, <1>6, <1>7 DEF Content!Busy
  <2>4. PagesListed(no, past)
    BY <2>1, <2>3, <1>7 DEF PagesListed, PagesTable
  <2>5. PagesServed(no, past)
    BY <2>3, <2>4, <1>7 DEF PagesServed
  <2> QED BY <2>3, <2>5, <1>6, <1>11, PagesGoesOn
<1>12. CASE Content!IsDue(festival) /\ ~Content!Announced(i)
  <2>1. PICK list : list = [o.list EXCEPT ![i] = festival]
    OBVIOUS
  <2>2. list \in [PageIds -> Content!Row \union {NoRow}]
    BY <2>1, <1>7, <1>10 DEF PagesTable
  <2>3. /\ yes \in Content!Busy /\ yes.step = "due" /\ yes.form = o.form /\ yes.commit = o.commit
        /\ yes.list = list /\ yes.id = i /\ yes.saw = festival
    BY <2>1, <2>2, <1>4, <1>7, <1>10, <1>12 DEF Content!Busy
  <2>4. list[i] = festival /\ \A j \in PageIds \ {i} : list[j] = o.list[j]
    BY <2>1, <1>7 DEF PagesTable
  <2>5. PagesListed(yes, past)
    BY <2>3, <2>4, <1>7, <1>10 DEF PagesListed
  <2>6. PagesDue(yes)
    BY <2>3, <2>4, <1>10, <1>12 DEF PagesDue
  <2>7. PagesServed(yes, past)
    BY <2>3, <2>5, <2>6, <1>7 DEF PagesServed
  <2> QED BY <2>3, <2>7, <1>6, <1>12, PagesGoesOn
<1> QED BY <1>11, <1>12

LEMMA PagesAnnounceStep ==
    ASSUME PagesInv, Content!PublicPagesAssumption, NEW r \in Requests, Content!Announce(r)
    PROVE  PagesInv'
<1>1. PICK j \in PageIds : Content!Announce(r)!(j)
  BY DEF Content!Announce
<1>2. PICK o : o = edit[r]
  OBVIOUS
<1>3. o.step = "due" /\ Content!NewId(j)
  BY <1>1, <1>2
<1>4. /\ o \in Content!Busy /\ PagesServed(o, past) /\ PagesListed(o, past) /\ PagesDue(o)
      /\ o.list \in PagesTable /\ Len(past) + 1 \in Nat
  BY <1>2, <1>3, PagesBusy, PagesForm, PagesTables DEF PagesServed
<1>5. PICK i \in PageIds : i = o.id
  BY <1>4 DEF PagesDue
<1>6. PICK festival \in Content!Row : festival = o.list[i] /\ Content!IsDue(festival)
  BY <1>4, <1>5 DEF PagesDue, PagesTable
<1>7. PICK row : row = [table |-> "announcements", name |-> festival.name, start |-> Today,
                        end |-> Content!LastDay(festival), paid |-> FALSE, priced |-> FALSE, active |-> TRUE,
                        flag |-> FALSE, source |-> i]
  OBVIOUS
<1>8. PICK list : list = [o.list EXCEPT ![i] = NoRow]
  OBVIOUS
<1>9. PICK q : q = [o EXCEPT !.step = "listed", !.id = None, !.commit = Len(past) + 1, !.list = list]
  OBVIOUS
<1>10. /\ rows' = [rows EXCEPT ![j] = row] /\ past' = Append(past, rows') /\ edit' = [edit EXCEPT ![r] = q]
       /\ doubled' = IF o.saw # NoRow /\ Content!Announced(i) THEN doubled \union {i} ELSE doubled
       /\ UNCHANGED <<agenda, cache, answered, dropped, tardy, overtaken>>
  BY <1>1, <1>2, <1>5, <1>6, <1>7, <1>8, <1>9 DEF Content!To
<1>11. /\ Today \in Nat /\ Today \in Days /\ festival.start \in Days /\ Content!LastDay(festival) \in Days
       /\ Content!LastDay(festival) \in Nat /\ Today <= Content!LastDay(festival) /\ None \notin PageIds
  <2>1. Today \in Days /\ Days \subseteq Nat /\ None \notin PageIds
    BY DEF Content!PublicPagesAssumption
  <2>2. festival.start # None /\ Today <= Content!LastDay(festival)
    BY <1>6 DEF Content!IsDue
  <2> QED BY <2>1, <2>2, PagesColumns DEF Content!LastDay
<1>12. row \in Content!Row
  BY <1>7, <1>11, PagesColumns DEF Content!Row, Content!Tables
<1>13. Content!Valid(row)
  BY <1>7, <1>11 DEF Content!Valid, Content!AnnouncementValid, Content!Before
<1>14. rows' \in PagesTable
  BY <1>10, <1>12, PagesTables DEF PagesTable
<1>15. list \in PagesTable /\ list[i] = NoRow /\ \A k \in PageIds \ {i} : list[k] = o.list[k]
  BY <1>4, <1>8 DEF PagesTable
<1>16. q \in Content!Busy /\ q.step = "listed" /\ q.form = o.form /\ q.commit = Len(past) + 1 /\ q.list = list
  BY <1>4, <1>9, <1>15 DEF Content!Busy, PagesTable
<1>17. PagesServed(q, Append(past, rows'))
  <2>1. q.commit <= Len(Append(past, rows'))
    BY <1>4, <1>14, <1>16, PagesAppended
  <2>2. PagesServed(o, Append(past, rows'))
    BY <1>4, <1>14, PagesServedOn
  <2>3. PagesListed(q, Append(past, rows'))
    BY <2>2, <1>3, <1>15, <1>16 DEF PagesServed, PagesListed
  <2> QED BY <2>1, <2>2, <2>3, <1>16 DEF PagesServed
<1>18. rows[j] = NoRow /\ Content!Unused(j)
  BY <1>3, PagesNewId
<1>19. /\ overtaken \subseteq overtaken' /\ overtaken' \subseteq PageIds
       /\ doubled \subseteq doubled' /\ doubled' \subseteq PageIds \union {Content!Profile}
  BY <1>10 DEF PagesInv, Content!TypeOK
<1>20. \A f \in PageIds \ doubled' : Content!Announces(row, f) =>
           \A k \in PageIds \ {j} : ~Content!Announces(rows[k], f)
  <2>1. \A f : Content!Announces(row, f) => f = i
    BY <1>7 DEF Content!Announces
  <2>2. o.saw # NoRow
    BY <1>4 DEF PagesDue
  <2>3. i \in doubled' \/ ~Content!Announced(i)
    BY <2>2, <1>10
  <2> QED BY <2>1, <2>3 DEF Content!Announced
<1>21. ~Content!IsProfile(row)
  BY <1>7 DEF Content!IsProfile
<1>22. UNCHANGED <<agenda, cache, answered, dropped, tardy>>
  BY <1>10
<1> QED BY <1>10, <1>12, <1>13, <1>16, <1>17, <1>18, <1>19, <1>20, <1>21, <1>22, PagesCommit
-----------------------------------------------------------------------------
(* The inductive invariant holds *)

LEMMA InitPagesInv ==
    ASSUME Content!PublicPagesAssumption, Content!Init
    PROVE  PagesInv
<1>1. PICK a \in Agendas : Content!Init!(a)
  BY DEF Content!Init
<1>2. /\ agenda = a.forms /\ rows = a.rows /\ past = <<a.rows>>
      /\ cache = [w \in Workers |-> <<>>] /\ edit = [r \in Requests |-> Content!Idle]
      /\ answered = [w \in Workers |-> [k \in Content!Keys |-> 1]]
      /\ dropped = [w \in Workers |-> [k \in Content!Keys |-> 0]]
      /\ tardy = {} /\ overtaken = {} /\ doubled = {}
  BY <1>1
<1>3. /\ a.rows \in PagesTable /\ Content!InOrder(a.rows)
      /\ a.forms \subseteq Content!Form /\ \A f \in a.forms : f.row.source = None
  BY DEF Content!PublicPagesAssumption, PagesTable
<1>4. past \in Seq(PagesTable) /\ Len(past) = 1 /\ DOMAIN past = {1} /\ past[1] = rows
  BY <1>2, <1>3
<1>5. \A w \in Workers : DOMAIN cache[w] = {}
  BY <1>2
<1>6. Content!TypeOK
  <2>1. /\ DOMAIN cache = Workers
        /\ edit \in [Requests -> {Content!Idle, Content!Over} \union Content!Busy]
    BY <1>2
  <2>2. answered \in [Workers -> [Content!Keys -> Nat]] /\ dropped \in [Workers -> [Content!Keys -> Nat]]
    BY <1>2
  <2> QED BY <1>2, <1>3, <1>4, <1>5, <2>1, <2>2 DEF Content!TypeOK, PagesTable
<1>7. PagesPast /\ PagesForms
  BY <1>2, <1>3, <1>4 DEF PagesPast, PagesForms, PagesHeir
<1>8. PagesRequestsServed /\ PagesReaders
  BY <1>2, PagesSteps DEF PagesRequestsServed, PagesReaders
<1>9. PagesAnswered
  BY <1>2, <1>4 DEF PagesAnswered
<1>10. Content!FreshAfterEdit
  BY <1>5 DEF Content!FreshAfterEdit
<1>11. PagesValid /\ PagesAnnouncedOnce /\ PagesOneProfile
  BY <1>2, <1>3 DEF Content!InOrder, PagesValid, PagesAnnouncedOnce, PagesOneProfile
<1> QED BY <1>6, <1>7, <1>8, <1>9, <1>10, <1>11 DEF PagesInv

LEMMA StepPagesInv ==
    ASSUME Content!PublicPagesAssumption, PagesInv, [Content!Next]_(Content!pagesVars)
    PROVE  PagesInv'
<1>1. CASE UNCHANGED Content!pagesVars
  <2>1. UNCHANGED <<agenda, rows, cache, edit, past, answered, dropped, tardy, overtaken, doubled>>
    BY <1>1 DEF Content!pagesVars
  <2>2. Content!TypeOK'
    BY <2>1 DEF PagesInv, Content!TypeOK
  <2>3. PagesRequestsServed' /\ PagesReaders' /\ PagesAnswered'
    BY <2>1 DEF PagesInv, PagesRequestsServed, PagesReaders, PagesAnswered
  <2>4. Content!FreshAfterEdit'
    BY <2>1 DEF PagesInv, Content!FreshAfterEdit
  <2> QED BY <2>1, <2>2, <2>3, <2>4, PagesCached DEF PagesInv
<1>2. CASE Content!Expire
  BY <1>2, PagesExpireStep
<1>3. ASSUME NEW r \in Requests, Content!Serve(r) PROVE PagesInv'
  <2>1. CASE Content!LookUp(r) \/ Content!Compute(r) \/ Content!Store(r)
    BY <2>1, PagesLookUpStep, PagesComputeStep, PagesStoreStep
  <2>2. CASE Content!Load(r) \/ Content!CheckName(r) \/ Content!Refused(r) \/ Content!FindGone(r)
    BY <2>2, PagesLoadStep, PagesCheckNameStep, PagesFailStep
  <2>3. CASE \/ Content!CommitPooja(r) \/ Content!CommitFestival(r) \/ Content!CommitAnnouncement(r)
             \/ Content!CommitTiming(r) \/ Content!CommitPhoto(r) \/ Content!CommitMember(r)
    BY <2>3, PagesCommitsStep
  <2>4. CASE Content!CommitProfile(r)
    BY <2>4, PagesProfileStep
  <2>5. CASE \/ Content!AnswerPooja(r) \/ Content!AnswerFestival(r) \/ Content!AnswerAnnouncement(r)
             \/ Content!AnswerTiming(r) \/ Content!AnswerPhoto(r) \/ Content!AnswerMember(r)
             \/ Content!AnswerProfile(r)
    BY <2>5, PagesAnswersStep
  <2>6. CASE \/ Content!ListMissing(r) \/ Content!AddFestival(r) \/ Content!EndFill(r)
             \/ Content!ListFestivals(r) \/ Content!CheckFestival(r) \/ Content!Announce(r)
    BY <2>6, PagesListMissingStep, PagesAddFestivalStep, PagesEndFillStep, PagesListFestivalsStep,
       PagesCheckFestivalStep, PagesAnnounceStep
  <2> QED BY <1>3, <2>1, <2>2, <2>3, <2>4, <2>5, <2>6 DEF Content!Serve
<1> QED BY <1>1, <1>2, <1>3 DEF Content!Next

LEMMA PagesRun == Spec => Content!Spec
<1>1. Init => Content!Init
  BY DEF Init
<1>2. [Next]_siteVars => [Content!Next]_(Content!pagesVars)
  BY DEF Next, Visit, Verify, Limit, Publish, Audit, Review, Answer, Sign, siteVars, pagesVars,
         Content!pagesVars
<1> QED BY <1>1, <1>2, PTL DEF Spec, Content!Spec

LEMMA CountingPages == \A S : Content!Cardinality(S) = Cardinality(S)
BY DEF Content!Cardinality, Cardinality

LEMMA PagesAtMostOne ==
    ASSUME NEW S, \A x, y \in S : x = y
    PROVE  Content!Cardinality(S) <= 1
<1>1. CASE S = {}
  BY <1>1, FS_EmptySet, CountingPages
<1>2. CASE S # {}
  <2>1. PICK x \in S : S = {x}
    BY <1>2
  <2>2. Cardinality({x}) = 1
    BY FS_Singleton
  <2> QED BY <2>1, <2>2, CountingPages
<1> QED BY <1>1, <1>2

\* Pair by pair, the tables keep their rules.
LEMMA PagesRowsInOrder ==
    ASSUME PagesInv
    PROVE  Content!RowsInOrder
<1>1. \A i \in PageIds \ overtaken : rows[i] # NoRow => Content!Valid(rows[i])
  BY DEF PagesInv, PagesValid
<1>2. ASSUME NEW i \in PageIds \ doubled
      PROVE  Content!Cardinality({j \in PageIds : Content!Announces(rows[j], i)}) <= 1
  <2>1. \A x, y \in {j \in PageIds : Content!Announces(rows[j], i)} : x = y
    BY DEF PagesInv, PagesAnnouncedOnce
  <2> QED BY <2>1, PagesAtMostOne
<1>3. ASSUME Content!Profile \notin doubled
      PROVE  Content!Cardinality(Content!Shown(rows, "temple")) <= 1
  <2>1. \A i, j \in PageIds : Content!IsProfile(rows[i]) /\ Content!IsProfile(rows[j]) => i = j
    BY <1>3 DEF PagesInv, PagesOneProfile
  <2>2. ASSUME NEW x \in Content!Shown(rows, "temple")
        PROVE  x = <<x[1], rows[x[1]]>> /\ x[1] \in PageIds /\ Content!IsProfile(rows[x[1]])
    BY <2>2, PagesTables, PagesShown DEF Content!IsProfile
  <2>3. \A x, y \in Content!Shown(rows, "temple") : x = y
    BY <2>1, <2>2
  <2> QED BY <2>3, PagesAtMostOne
<1> QED BY <1>1, <1>2, <1>3 DEF Content!RowsInOrder
-----------------------------------------------------------------------------
(* SITE: from one part, the steps of the others are stuttering *)

LEMMA TrailRun == Spec => Trail!Spec
<1>1. Init => Trail!Init
  BY DEF Init
<1>2. [Next]_siteVars => [Trail!Next]_(Trail!auditVars)
  BY DEF Next, Visit, Verify, Limit, Publish, Audit, Review, Answer, Sign, siteVars, auditVars,
         Trail!auditVars
<1> QED BY <1>1, <1>2, PTL DEF Spec, Trail!Spec

LEMMA BlessingsRun == Spec => Blessings!Spec
<1>1. Init => Blessings!Init
  BY DEF Init
<1>2. [Next]_siteVars => [Blessings!Next]_(Blessings!blessingVars)
  BY DEF Next, Visit, Verify, Limit, Publish, Audit, Review, Answer, Sign, siteVars, blessingVars,
         Blessings!blessingVars
<1> QED BY <1>1, <1>2, PTL DEF Spec, Blessings!Spec

LEMMA DeskRun == Spec => Desk!Spec
<1>1. Init => Desk!Init
  BY DEF Init
<1>2. [Next]_siteVars => [Desk!Next]_(Desk!deskVars)
  BY DEF Next, Visit, Verify, Limit, Publish, Audit, Review, Answer, Sign, siteVars, deskVars,
         Desk!deskVars
<1> QED BY <1>1, <1>2, PTL DEF Spec, Desk!Spec

LEMMA HandsRun == Spec => Hands!Spec
<1>1. Init => Hands!Init
  BY DEF Init
<1>2. [Next]_siteVars => [Hands!Next]_(Hands!signaturesVars)
  BY DEF Next, Visit, Verify, Limit, Publish, Audit, Review, Answer, Sign, siteVars, signaturesVars,
         Hands!signaturesVars
<1> QED BY <1>1, <1>2, PTL DEF Spec, Hands!Spec
-----------------------------------------------------------------------------
(* Theorems *)

\* What is on file serves its member's login, and what the requests loaded is so, throughout.
THEOREM HandsInvariance == Spec => []HandsInv
<1>1. Hands!Init => HandsInv
  BY InitHandsInv
<1>2. HandsInv /\ [Hands!Next]_(Hands!signaturesVars) => HandsInv'
  BY StepHandsInv, SiteAssumption DEF SiteAssumption
<1> QED BY <1>1, <1>2, HandsRun, PTL DEF Hands!Spec

\* A signature on file serves the login it was put on file for and no other
\* (letter_service.py:301), except where requests overtook each other or the login was deleted.
THEOREM OneLoginEach == Spec => []SignaturesFollowLogins
<1>1. HandsInv => SignaturesFollowLogins
  BY DEF HandsInv, SignaturesFollowLogins
<1> QED BY <1>1, HandsInvariance, PTL

\* What audit_service knows of the deletions it counted holds throughout.
THEOREM TrailInvariance == Spec => []TrailInv
<1>1. Trail!Init => TrailInv
  BY InitTrailInv, SiteAssumption DEF SiteAssumption
<1>2. TrailInv /\ [Trail!Next]_(Trail!auditVars) => TrailInv'
  BY StepTrailInv, SiteAssumption DEF SiteAssumption
<1> QED BY <1>1, <1>2, TrailRun, PTL DEF Trail!Spec

\* What contact_service knows of a message between its commit and its mail holds throughout.
THEOREM DeskInvariance == Spec => []DeskInv
<1>1. Desk!Init => DeskInv
  BY InitDeskInv, SiteAssumption DEF SiteAssumption
<1>2. DeskInv /\ [Desk!Next]_(Desk!deskVars) => DeskInv'
  BY StepDeskInv, SiteAssumption DEF SiteAssumption
<1> QED BY <1>1, <1>2, DeskRun, PTL DEF Desk!Spec

\* A burst of deletions is reported to every super admin, and once where it all falls into
\* one window (_maybe_alert_on_repeated_deletions); the sender of a message is told of each
\* closing once (update_message).  Both where nothing overlapped or failed.
THEOREM ToldOnce == Spec => []MailedOnce
<1>1. TrailInv /\ DeskInv => MailedOnce
  BY TrailOnce, SiteAssumption DEF MailedOnce, DeskInv, SiteAssumption
<1> QED BY <1>1, TrailInvariance, DeskInvariance, PTL

\* What blessing_service relies on between the bucket and the row holds throughout.
THEOREM PhotosInvariance == Spec => []PhotoInv
<1>1. Blessings!Init => PhotoInv
  BY InitPhotoInv, SiteAssumption DEF SiteAssumption
<1>2. PhotoInv /\ [Blessings!Next]_(Blessings!blessingVars) => PhotoInv'
  BY StepPhotoInv, SiteAssumption DEF SiteAssumption
<1> QED BY <1>1, <1>2, BlessingsRun, PTL DEF Blessings!Spec

\* The site shows a photo only of what was approved last, and, once no review of a ticket is
\* under way, the bucket has a public copy exactly when the row has its address and the last
\* decision was an approval; where no decision was made on an outdated row and no call of the
\* bucket failed (review, publish, _reject).  Private objects are not spoken of.
THEOREM PhotosFollowDecisions == Spec => []PhotoFollowsDecision
<1>1. PhotoInv => PhotoFollowsDecision
  BY PhotoFollows DEF PhotoFollowsDecision
<1> QED BY <1>1, PhotosInvariance, PTL

\* What a request for the public pages has loaded, and what became of it, is known throughout.
THEOREM PagesInvariance == Spec => []PagesInv
<1>1. Content!Init => PagesInv
  BY InitPagesInv, SiteAssumption DEF SiteAssumption
<1>2. PagesInv /\ [Content!Next]_(Content!pagesVars) => PagesInv'
  BY StepPagesInv, SiteAssumption DEF SiteAssumption
<1> QED BY <1>1, <1>2, PagesRun, PTL DEF Content!Spec

\* A worker that answered an editor serves no page older than the edit (cache.invalidate),
\* where no reader stored a page it had begun before the drop.
THEOREM PagesAreFresh == Spec => []FreshAfterEdit
<1>1. PagesInv => FreshAfterEdit
  BY DEF PagesInv, FreshAfterEdit
<1> QED BY <1>1, PagesInvariance, PTL

\* Windows end after they start and fees have amounts, though edits send some of the columns
\* (validate_schedule and the services' checks of the merged row), where no edit was committed
\* to a row that had changed; a festival is announced once and the profile is one row, where
\* no two created it at once.
THEOREM TablesInOrder == Spec => []RowsInOrder
<1>1. PagesInv => RowsInOrder
  BY PagesRowsInOrder DEF RowsInOrder
<1> QED BY <1>1, PagesInvariance, PTL

\* Every column of the site's tables and every field of a request holds a value it can hold.
THEOREM SiteTypes == Spec => []TypeOK
<1>1. /\ PeopleInv => People!TypeOK
      /\ CodesInv => Codes!TypeOK
      /\ LimitsInv => Limits!TypeOK
  BY DEF PeopleInv, CodesInv, LimitsInv
<1>2. /\ PagesInv => Content!TypeOK
      /\ TrailInv => Trail!TypeOK
      /\ PhotoInv => Blessings!TypeOK
  BY DEF PagesInv, TrailInv, PhotoInv
<1>3. /\ DeskInv => Desk!TypeOK
      /\ HandsInv => Hands!TypeOK
  BY DEF DeskInv, HandsInv
<1>4. PeopleInv /\ CodesInv /\ LimitsInv /\ PagesInv /\ TrailInv /\ PhotoInv /\ DeskInv /\ HandsInv => TypeOK
  BY <1>1, <1>2, <1>3 DEF TypeOK
<1> QED BY <1>4, PeopleInvariance, CodesInvariance, LimitsInvariance, PagesInvariance, TrailInvariance,
       PhotosInvariance, DeskInvariance, HandsInvariance, PTL
=============================================================================
