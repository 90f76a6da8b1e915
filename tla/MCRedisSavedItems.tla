------------------------- MODULE MCRedisSavedItems -------------------------
(* Small instances of RedisSavedItems for TLC. *)
EXTENDS RedisSavedItems, TLC

CONSTANTS u1, u2, n1, n2, o1

Stored(id, name, of, at) == [id |-> id, name |-> name, body |-> {}, of |-> of, at |-> at]

\* Two rows of one name, one of them under an old id and one more than the limit, and an entry that does not open.
OwnStarts == {[rows |-> {Stored(n1, n1, u1, 1), Stored(o1, n1, u1, 1)}, junk |-> {n2}]}

\* A shared query, or a group, of one account; the other account manages both.
SharedStarts == {[rows |-> {Stored(n1, n1, u1, 1)}, junk |-> {}]}
Managers == [u \in Users |-> IF u = u1 THEN {u1} ELSE Users]

\* Nothing tells one request from another.
Symmetric == Permutations(Requests)

=============================================================================
