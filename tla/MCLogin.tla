------------------------------ MODULE MCLogin ------------------------------
EXTENDS Login, TLC

\* The file denies one combination and then allows all, in an entry that an
\* earlier one denied; a comment and a line cut short are passed over.
MCLines ==
    << [form |-> "comment", rule |-> "all", policy |-> FALSE],
       [form |-> "rule", rule |-> "none", policy |-> FALSE],
       [form |-> "rule", rule |-> "a", policy |-> FALSE],
       [form |-> "rule", rule |-> "all", policy |-> FALSE],
       [form |-> "short", rule |-> "none", policy |-> TRUE],
       [form |-> "rule", rule |-> "all", policy |-> TRUE] >>
MCMatches == [none |-> {}, a |-> {"a"}, all |-> Creds]
\* Addresses are interchangeable: the first connection comes from the first.
MCAddressesOf == 1 :> {"i1"} @@ 2 :> {"i1", "i2"}
=============================================================================
