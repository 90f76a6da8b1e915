--------------------------- MODULE MCPreviewFlow ---------------------------
(* Small instances of PreviewFlow for TLC. *)
EXTENDS PreviewFlow

CONSTANTS o1, o2

Statements(op, kinds) == [i \in 1..Len(kinds) |-> [op |-> op, kind |-> kinds[i]]]

\* A change of which a part is a transaction, and a build that a stop can leave half done.
Scripts ==
    [b \in Ops \X BOOLEAN |->
        IF b[1] = o1 THEN Statements(o1, <<"plain", "begin", "plain", "commit">>)
        ELSE IF b[2] THEN Statements(o2, <<"drop", "build">>)
        ELSE Statements(o2, <<"build">>)]
=============================================================================
