---------------------------- MODULE SlotRegister ----------------------------
(***************************************************************************)
(* What the booking of sevas promises a devotee, with nothing of how it is *)
(* done: a register of slots in which a request is entered by one atomic   *)
(* step, at most once, and only while the slot has room.  The paper        *)
(* register of models/pooja.py ("like the paper register").                *)
(***************************************************************************)
EXTENDS Naturals, FiniteSets

CONSTANTS Requests, \* booking requests, online and counter alike
          Sevas, Dates,
          Limits     \* the limits staff may set on a seva; 0 is no limit

VARIABLES booked,   \* booked[<<s, d>>]: the requests that hold a slot of seva s on date d
          served,   \* the requests that were ever entered
          ceiling   \* ceiling[s]: most bookings a date of s may hold

registerVars == <<booked, served, ceiling>>

Init == /\ booked = [slot \in Sevas \X Dates |-> {}]
        /\ served = {}
        /\ ceiling \in [Sevas -> Limits]

\* One request takes one slot, in one step.
Book(r, s, d) ==
    /\ r \notin served
    /\ ceiling[s] # 0 => Cardinality(booked[<<s, d>>]) < ceiling[s]
    /\ booked' = [booked EXCEPT ![<<s, d>>] = @ \union {r}]
    /\ served' = served \union {r}
    /\ UNCHANGED ceiling

\* A deleted ticket gives its slot back.
Free(r, s, d) ==
    /\ r \in booked[<<s, d>>]
    /\ booked' = [booked EXCEPT ![<<s, d>>] = @ \ {r}]
    /\ UNCHANGED <<served, ceiling>>

\* Staff loosen the limit.  (A tighter one takes no booked slot away.)
Loosen(s, c) ==
    /\ c = 0 \/ (ceiling[s] # 0 /\ ceiling[s] <= c)
    /\ ceiling' = [ceiling EXCEPT ![s] = c]
    /\ UNCHANGED <<booked, served>>

Next == \E s \in Sevas :
           \/ \E r \in Requests, d \in Dates : Book(r, s, d) \/ Free(r, s, d)
           \/ \E c \in Limits : Loosen(s, c)

Spec == Init /\ [][Next]_registerVars
=============================================================================
