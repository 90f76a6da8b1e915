---------------------------- MODULE SavedItems ----------------------------
(***************************************************************************)
(* What the store of saved items promises (SavedItems in session/store.ts) *)
(* and the SQLite store does in one transaction: every save, update and    *)
(* removal is applied once, to the rows there are at that moment.          *)
(***************************************************************************)
EXTENDS ItemOps

VARIABLES
    rows,   \* the rows that can be read
    effect  \* the requests that have taken effect

vars == <<rows, effect>>

\* The text an update makes of the row it finds, or the text a save brings.
Texts(S, name, r) == {{r}} \cup {x.body \cup {r} : x \in Newest(S, name)}

Saved(S, T, r) ==
    \E name \in Names, replaces \in Ids \cup {None}, of \in Users :
    \E body \in Texts(S, name, r) :
    \E plan \in Plans(S, name, replaces, body, of, Ids \ IdsOf(S)) : T = Carried(S, plan)

Removed(S, T) == \E id \in IdsOf(S) : T = {x \in S : x.id # id}

\* More than the limit, from an earlier version: cut back.
Trimmed(S, T) == \E V \in OverCap(S, Limit) : T = S \ V

Init ==
    /\ rows \in SUBSET Row
    /\ effect = {}

Apply(r) ==
    /\ r \notin effect /\ effect' = effect \cup {r}
    /\ Saved(rows, rows', r) \/ Removed(rows, rows')

Next ==
    \/ \E r \in Requests : Apply(r)
    \/ Trimmed(rows, rows') /\ effect' = effect

Spec == Init /\ [][Next]_vars

===========================================================================
