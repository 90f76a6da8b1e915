------------------------------ MODULE ItemOps ------------------------------
(***************************************************************************)
(* The saved items of one owner (an account, or a whole server for shared  *)
(* items) and one kind, as a set of rows, and what a save makes of it:     *)
(* which row a name stands for, what is replaced, which rows the cap       *)
(* drops.                                                                  *)
(*                                                                         *)
(* A row's text is the set of requests whose change it holds.  Rows are    *)
(* ordered by the time they were written, and two of one millisecond in    *)
(* either order.                                                           *)
(***************************************************************************)
EXTENDS Integers, FiniteSets

CONSTANTS
    Requests,   \* the calls of save, update and remove
    Users,      \* the accounts a shared row can belong to
    Names,
    OldIds,     \* ids drawn by chance, of rows an earlier version stored
    None,
    Limit       \* rows kept per owner and kind

\* idFor: a row's id follows from its name (under one owner and kind).
IdFor(name) == name

Ids == Names \cup OldIds

Row == [id : Ids, name : Names, body : SUBSET Requests, of : Users, at : Nat]

ASSUME ItemAssumption ==
    /\ None \notin Requests /\ None \notin Users /\ None \notin Names /\ None \notin OldIds
    /\ None \notin Row
    /\ Names \cap OldIds = {}
    /\ Limit \in Nat \ {0}

IdsOf(S) == {x.id : x \in S}

\* What find by name makes of a list sorted newest first.
Named(S, name) == {x \in S : x.name = name}
Newest(S, name) == {x \in Named(S, name) : \A y \in Named(S, name) : y.at <= x.at}

\* now(): no earlier than any row was written, perhaps in the same millisecond as the last.
Times(S) ==
    {t \in {x.at : x \in S} \cup {x.at + 1 : x \in S} \cup {1} : \A x \in S : x.at <= t}

\* The rows to drop so that at most keep are left, oldest first.
OverCap(S, keep) ==
    {V \in SUBSET S : /\ Cardinality(S \ V) = IF Cardinality(S) < keep THEN Cardinality(S) ELSE keep
                      /\ \A v \in V, x \in S \ V : v.at <= x.at}

(* What a save decides from the rows it reads: the row to write and the    *)
(* ids to drop.  A name that is there keeps its id and makes nothing else  *)
(* go but the row it replaces; a new one has an id of fresh and makes room *)
(* under the cap.                                                          *)
Replacing(S, e, replaces, body, of) ==
    {[row |-> [id |-> e.id, name |-> e.name, body |-> body, of |-> of, at |-> t],
      drop |-> {x \in IdsOf(S) : x = replaces /\ x # e.id}] : t \in Times(S)}

Adding(S, name, replaces, body, of, fresh) ==
    LET others == {x \in S : x.id # replaces} IN
    {[row |-> [id |-> i, name |-> name, body |-> body, of |-> of, at |-> t],
      drop |-> IdsOf(S \ others) \cup IdsOf(V)] :
        i \in fresh, t \in Times(S), V \in OverCap(others, Limit - 1)}

Plans(S, name, replaces, body, of, fresh) ==
    IF Named(S, name) = {} THEN Adding(S, name, replaces, body, of, fresh)
    ELSE UNION {Replacing(S, e, replaces, body, of) : e \in Newest(S, name)}

\* The rows once a plan is carried out.
Carried(S, plan) == {x \in S : x.id # plan.row.id /\ x.id \notin plan.drop} \cup {plan.row}

============================================================================
