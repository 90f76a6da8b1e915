-------------------------- MODULE MCRedisSessions --------------------------
(* Small instances of RedisSessions for TLC. *)
EXTENDS RedisSessions, TLC

CONSTANTS s1, s2, r1, p1

\* Each request is sent to a replica of its own.
Apart == [r \in Requests |-> IF r = r1 THEN {p1} ELSE Replicas \ {p1}]

Session(at, opens) == [at |-> at, payload |-> TRUE, opens |-> opens]
Leftover(at) == [at |-> at, payload |-> FALSE, opens |-> FALSE]
Start(one, other) == [hash |-> [s \in Old |-> IF s = s1 THEN one ELSE other], clock |-> Ttl]

\* Beside a session that is gone: one of now, one about to expire, a corrupt one, and what a sign-out left of one
\* in an older version.
SomeStarts == {Start(Session(Ttl, TRUE), None), Start(Session(0, TRUE), None), Start(Session(Ttl, FALSE), None),
               Start(None, Leftover(Ttl))}

=============================================================================
