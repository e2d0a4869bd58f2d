----------------------------- MODULE MCDelivery -----------------------------
(***************************************************************************)
(* Small instances of Delivery for TLC.                                    *)
(***************************************************************************)
EXTENDS Delivery, TLC

CONSTANTS c1, c2, c3, t1, t2

\* c1: a record with another tag, then one with two rows; c2: a record on
\* which enrichment fails, then one with one row; c3: a record whose session
\* document Elasticsearch may reject.
MCFrame ==
    c1 :> << [enrichable |-> FALSE, raises |-> FALSE, rows |-> 1],
             [enrichable |-> TRUE,  raises |-> FALSE, rows |-> 2] >>
    @@
    c2 :> << [enrichable |-> TRUE,  raises |-> TRUE,  rows |-> 0],
             [enrichable |-> TRUE,  raises |-> FALSE, rows |-> 1] >>
    @@
    c3 :> << [enrichable |-> TRUE,  raises |-> TRUE,  rows |-> 0] >>

MCRejected == {<<c3, 1, 1>>}
=============================================================================
