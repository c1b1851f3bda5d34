------------------------------- MODULE MCSlots -------------------------------
(***************************************************************************)
(* Small instances of Slots: entries that exclude each other, and a first  *)
(* one as large as two others, whose admission ends two children.          *)
(***************************************************************************)
EXTENDS Slots

Estimates2 == <<1, 1>>
Estimates3 == <<2, 1, 1>>

\* Nothing readable, and a child found to hold more than its estimate.
Unread == [resident |-> None, device |-> None]
Grown == [resident |-> 2, device |-> None]
JustUnread == {Unread}
UnreadOrGrown == {Unread, Grown}

RequestSymmetry == Permutations(Requests)
==============================================================================
