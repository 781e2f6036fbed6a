----------------------------- MODULE MCCustody -----------------------------
(* Instances of Custody for TLC. *)
EXTENDS Custody, TLC

CONSTANTS adm, stu, oth, r1, r2, r3, e1, e2, e3, e4, k1

\* Units are numbers because the cart locks them in id order.
OneUnit == {1}
TwoUnits == {1, 2}

\* Only carts and returns are going on.
CartsNext == \E r \in Requests :
    \/ CheckOutAssets(r) \/ CheckInAssetVia(r)
    \/ ShareCustodian(r) \/ CheckOverdue(r) \/ BeginCart(r) \/ LockCartAsset(r) \/ CommitCart(r)
    \/ LockUnit(r) \/ ReadUnit(r) \/ CommitReturn(r) \/ Abandon(r)
CartsSpec == Init /\ [][CartsNext]_vars /\ Fairness

\* Requests and custody ids are interchangeable.
Interchangeable == Permutations(Requests) \cup Permutations(Events)
=============================================================================
