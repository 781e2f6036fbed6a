------------------------------ MODULE Lending ------------------------------
(***************************************************************************)
(* What the closet promises its borrowers, with no transactions, locks or  *)
(* tables: every unit is in exactly one place, a loan moves a whole cart   *)
(* from the shelf to one member, and a member who still has something      *)
(* cannot leave.  Custody.tla is the program's way of keeping the promise; *)
(* its runs check that it implements this module.                          *)
(***************************************************************************)
CONSTANTS Assets, People

VARIABLES
    place,     \* place[a]: "gone", "shelf", "away" or the member who has a
    members    \* who may borrow

lendingVars == <<place, members>>

Places == {"gone", "shelf", "away"} \cup People

LendingType ==
    /\ place \in [Assets -> Places]
    /\ members \in SUBSET People

LendingInit ==
    /\ place = [a \in Assets |-> "shelf"]
    /\ members = People

Out(a) == place[a] \in People

Move(S, where) == place' = [a \in Assets |-> IF a \in S THEN where ELSE place[a]]

\* A whole cart, every unit of it from the shelf, goes to one member.
Lend(S, p) ==
    /\ S # {}
    /\ \A a \in S : place[a] = "shelf"
    /\ p \in members
    /\ Move(S, p)
    /\ UNCHANGED members

\* A unit that is out comes back to the shelf, or never comes back.
GiveBack(a) == Out(a) /\ Move({a}, "shelf") /\ UNCHANGED members
WriteOff(a) == Out(a) /\ Move({a}, "away") /\ UNCHANGED members

\* Stock work, on units nobody has.
Withdraw(a) == place[a] = "shelf" /\ Move({a}, "away") /\ UNCHANGED members
Restock(a)  == place[a] = "away" /\ Move({a}, "shelf") /\ UNCHANGED members
Discard(a)  == place[a] \in {"shelf", "away"} /\ Move({a}, "gone") /\ UNCHANGED members
Acquire(a)  == place[a] = "gone" /\ Move({a}, "shelf") /\ UNCHANGED members

\* Nobody leaves with something in their bag.
Leave(p) ==
    /\ p \in members
    /\ \A a \in Assets : place[a] # p
    /\ members' = members \ {p}
    /\ UNCHANGED place

Join(p) == p \notin members /\ members' = members \cup {p} /\ UNCHANGED place

LendingNext ==
    \/ \E S \in SUBSET Assets, p \in People : Lend(S, p)
    \/ \E a \in Assets :
          \/ GiveBack(a) \/ WriteOff(a)
          \/ Withdraw(a) \/ Restock(a) \/ Discard(a) \/ Acquire(a)
    \/ \E p \in People : Leave(p) \/ Join(p)

LendingSpec == LendingInit /\ [][LendingNext]_lendingVars
=============================================================================
