----------------------------- MODULE MCInventory -----------------------------
(***************************************************************************)
(* An instance of Inventory for TLC: a consumable in stock, a valuable,    *)
(* and room for one new item.                                              *)
(***************************************************************************)
EXTENDS Inventory, TLC

CONSTANTS ghee, lamp, other, nGhee, nLamp

Blank == [op |-> "usage", item |-> ghee, name |-> nGhee, kind |-> "CONSUMABLE", active |-> TRUE,
          quantity |-> 1, worth |-> 0, day |-> 1, condition |-> "GOOD", set |-> {}]
MCStocked == {[Blank EXCEPT !.op = "create", !.worth = 2],
              [Blank EXCEPT !.op = "create", !.item = lamp, !.name = nLamp, !.kind = "ASSET"]}
MCForms ==
    {[Blank EXCEPT !.op = "create", !.name = n, !.quantity = 0] : n \in {nGhee, nLamp}}
      \union {[Blank EXCEPT !.op = "update", !.set = {"active"}, !.active = a] : a \in BOOLEAN}
      \union {[Blank EXCEPT !.op = "update", !.item = lamp, !.set = {"name"}],
              [Blank EXCEPT !.op = "purchase", !.quantity = 2, !.worth = 7],
              [Blank EXCEPT !.op = "adjustment", !.quantity = 3],
              [Blank EXCEPT !.op = "donation", !.worth = 1]}
      \union {[Blank EXCEPT !.op = o, !.item = lamp] : o \in {"writeoff", "usage"}}
      \union {[Blank EXCEPT !.op = "verify", !.item = lamp, !.day = d] : d \in 1..2}
      \union {[Blank EXCEPT !.op = o, !.item = other] : o \in {"delete", "donation"}}
      \union {Blank}
Symmetry == Permutations(Requests)
=============================================================================
