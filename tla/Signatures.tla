------------------------------ MODULE Signatures ------------------------------
(***************************************************************************)
(* The signatures and the seal on file, and the logins that sign with      *)
(* them: services/letter_service.py, and the deletion of a login in        *)
(* services/auth_service.py.                                               *)
(*                                                                         *)
(* A committee member signs from the login linked to their record, with    *)
(* the image on file.  A new image retires the one before; so does moving  *)
(* the link away from a login.  A handler loads the member, retires with   *)
(* one UPDATE, and commits; nothing orders it with another.  The rows that *)
(* two of them retire are locked by the first, which excludes no order in  *)
(* which they could commit, so the locks are left out.  A request that     *)
(* fails or dies stays where it is.                                        *)
(*                                                                         *)
(* The letter that is signed, and the seal's way onto it, are module       *)
(* Letters'.  Inactive logins and members count as absent; the members     *)
(* stay.                                                                   *)
(***************************************************************************)
EXTENDS Naturals, Sequences, FiniteSetsExt

CONSTANTS Requests, Members, Logins,
          MaxImages,   \* bound: images ever stored
          Seal,        \* the owner of the images of kind SEAL
          Nobody       \* no login; as the actor of a request, one of the staff

SignaturesAssumption == MaxImages \in Nat /\ Seal \notin Members /\ Nobody \notin Logins

Owners == Members \union {Seal}
Holder == Logins \union {Nobody}

VARIABLES
    holder,     \* user_id of each member
    logins,     \* the logins that exist
    images,     \* letter_images in the order of the ids; "login" is history: whose it was when stored
    request,    \* where each request is
    signings,   \* history: who signed as which member with which image
    interfered, \* history: members for whom a request was committed after what it had loaded changed
    severed     \* history: members whose login was deleted while a signature was on file

signaturesVars == <<holder, logins, images, request, signings, interfered, severed>>

Idle == [step |-> "idle"]
Over == [step |-> "over"]
Image == [owner : Owners, retired : BOOLEAN, login : Holder]
Busy == [step : {"loaded", "ready"}, op : {"sign", "store", "link"}, owner : Owners, saw : Holder,
         by : Holder, to : Holder, images : SUBSET Nat]

\* Another member has the login.
LinkedElsewhere(u, m) == u # Nobody /\ \E k \in Members \ {m} : holder[k] = u

\* Logins may be linked already.
Init == /\ holder \in [Members -> Holder] /\ \A m \in Members : ~LinkedElsewhere(holder[m], m)
        /\ logins = Logins /\ images = <<>>
        /\ request = [r \in Requests |-> Idle]
        /\ signings = {} /\ interfered = {} /\ severed = {}
-----------------------------------------------------------------------------
Linked(o) == IF o = Seal THEN Nobody ELSE holder[o]
OnFile(o) == {i \in DOMAIN images : images[i].owner = o /\ ~images[i].retired}
Retired(ids) == [i \in DOMAIN images |-> [images[i] EXCEPT !.retired = @ \/ i \in ids]]
Interferes(m, changed) == interfered' = IF changed THEN interfered \union {m} ELSE interfered

Start(r, fields) ==
    /\ request[r] = Idle
    /\ request' = [request EXCEPT ![r] = fields]
    /\ UNCHANGED <<holder, logins, images, signings, interfered, severed>>
Loaded(op, o, by, to) ==
    [step |-> "loaded", op |-> op, owner |-> o, saw |-> Linked(o), by |-> by, to |-> to, images |-> {}]
Ready(r, op) == request[r].step = "ready" /\ request[r].op = op
End(r) == request' = [request EXCEPT ![r] = Over]

\* _my_slot
LoadToSign(r) == \E m \in Members :
    /\ holder[m] # Nobody
    /\ Start(r, Loaded("sign", m, holder[m], Nobody))

\* upload_my_signature by the linked login; upload_signature, upload_seal by the staff.
LoadToStore(r) == \E o \in Owners : \E by \in {Linked(o), Nobody} : Start(r, Loaded("store", o, by, Nobody))

\* link_login and its checks
LoadToLink(r) == \E m \in Members, u \in logins \union {Nobody} :
    /\ holder[m] # u /\ ~LinkedElsewhere(u, m)
    /\ Start(r, Loaded("link", m, Nobody, u))

\* Mutant: a link that moves leaves the signature on file.
RetiresUploads(q) == q.op = "store"

Retires(q) == q.op = "store" \/ q.saw # Nobody

\* The image a signing finds on file, or the images that a handler retires.
Find(r) ==
    LET q == request[r]
        found == IF q.op = "sign" THEN {Max(OnFile(q.owner))} ELSE IF Retires(q) THEN OnFile(q.owner) ELSE {}
    IN /\ q.step = "loaded"
       /\ q.op = "sign" => OnFile(q.owner) # {}
       /\ request' = [request EXCEPT ![r].step = "ready", ![r].images = found]
       /\ UNCHANGED <<holder, logins, images, signings, interfered, severed>>

CommitSign(r) ==
    LET q == request[r]
        i == Max(q.images)
    IN
    /\ Ready(r, "sign") /\ q.by \in logins
    /\ signings' = signings \union {[member |-> q.owner, login |-> q.by, image |-> i]}
    /\ Interferes(q.owner, holder[q.owner] # q.saw \/ images[i].retired)
    /\ End(r)
    /\ UNCHANGED <<holder, logins, images, severed>>

CommitStore(r) ==
    LET q == request[r] IN
    /\ Ready(r, "store") /\ q.by \in logins \union {Nobody}
    /\ Len(images) < MaxImages
    /\ images' = Append(Retired(q.images), [owner |-> q.owner, retired |-> FALSE, login |-> q.saw])
    /\ Interferes(q.owner, Linked(q.owner) # q.saw)
    /\ End(r)
    /\ UNCHANGED <<holder, logins, signings, severed>>

\* The login still exists, and the column is unique.
CommitLink(r) ==
    LET q == request[r] IN
    /\ Ready(r, "link") /\ q.to \in logins \union {Nobody} /\ ~LinkedElsewhere(q.to, q.owner)
    /\ holder' = [holder EXCEPT ![q.owner] = q.to]
    /\ images' = Retired(q.images)
    /\ Interferes(q.owner, holder[q.owner] # q.saw \/ (Retires(q) /\ ~(OnFile(q.owner) \subseteq q.images)))
    /\ End(r)
    /\ UNCHANGED <<logins, signings, severed>>

\* remove_signature, remove_seal
Remove == \E o \in Owners :
    /\ OnFile(o) # {} /\ images' = Retired(OnFile(o))
    /\ UNCHANGED <<holder, logins, request, signings, interfered, severed>>

\* _unlink_and_delete: the link goes, the signature stays.
DeleteLogin == \E u \in logins :
    LET cut == {m \in Members : holder[m] = u} IN
    /\ logins' = logins \ {u}
    /\ holder' = [m \in Members |-> IF m \in cut THEN Nobody ELSE holder[m]]
    /\ severed' = severed \union {m \in cut : OnFile(m) # {}}
    /\ UNCHANGED <<images, request, signings, interfered>>

Next == \/ Remove \/ DeleteLogin
        \/ \E r \in Requests :
               LoadToSign(r) \/ LoadToStore(r) \/ LoadToLink(r) \/ Find(r)
                 \/ CommitSign(r) \/ CommitStore(r) \/ CommitLink(r)
Spec == Init /\ [][Next]_signaturesVars
-----------------------------------------------------------------------------
(* Properties *)

\* Every variable has the values its columns can hold.
TypeOK ==
    /\ holder \in [Members -> Holder] /\ logins \subseteq Logins
    /\ images \in Seq(Image)
    /\ request \in [Requests -> {Idle, Over} \union Busy]
    /\ signings \subseteq [member : Members, login : Logins, image : DOMAIN images]
    /\ interfered \subseteq Members /\ severed \subseteq Members

\* A signature on file serves one login only, the one it was put on file for if there was
\* one, however the links move; except where requests overtook each other, or after the
\* deletion of the login.
SignaturesFollowLogins == \A s, t \in signings : s.member \notin interfered \union severed =>
    /\ images[s.image].login \in {s.login, Nobody}
    /\ s.image = t.image => s.login = t.login
-----------------------------------------------------------------------------
(* What the repository says and the code does not do *)

\* letter_service.py:301 "so whoever holds the new login can't sign with a signature that was
\* put on file for someone else", deleted logins included.
SignsWithOwnSignature == \A s \in signings : s.member \notin interfered =>
    images[s.image].login \in {s.login, Nobody}
=============================================================================
