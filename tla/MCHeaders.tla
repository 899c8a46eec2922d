------------------------------ MODULE MCHeaders ------------------------------
(***************************************************************************)
(* Constants for the run of Headers.                                       *)
(***************************************************************************)
EXTENDS Headers

Header(name, s, key) == [name |-> name, secret |-> s, key |-> key]

\* User and password from one Secret around a token of another; a plain header and the
\* token.
Lists == {<<Header("user", "s1", "k1"), Header("token", "s2", "k1"), Header("password", "s1", "k2")>>,
          <<Header("accept", Literal, ""), Header("token", "s2", "k2")>>}

==============================================================================
