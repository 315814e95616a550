--------------------------- MODULE MCStateStores ---------------------------
(* Instances of StateStores for TLC: w1 and w2 are threads of one process. *)
EXTENDS StateStores, Naturals, TLC

CONSTANTS w1, w2, w3, p1, p2, k1, k2

MCProcessOf == w1 :> p1 @@ w2 :> p1 @@ w3 :> p2

Code(w) == (IF key[w] = k1 THEN 0 ELSE 2) + (IF kind[w] = "cas" THEN 0 ELSE 1)

(* Of scenarios that differ by the names of the keys, or of the two        *)
(* threads of one process, one is explored.  Delta, whose calls take more  *)
(* steps, has w1 and w2 on one key and a third writer that compares, on    *)
(* either key; on the other one it meets the two only in the table's       *)
(* creation.                                                               *)
MCInit ==
    /\ Init
    /\ key[w1] = k1
    /\ Code(w1) <= Code(w2)
    /\ backend = "delta" =>
          /\ key[w2] = k1
          /\ kind[w3] = "cas"
          /\ key[w3] = k2 => kind[w1] = "cas"

MCSpec ==
    /\ MCInit
    /\ [][Next]_vars
    /\ \A w \in Writers : WF_vars(Proceeds(w) \/ Rejected(w))
=============================================================================
