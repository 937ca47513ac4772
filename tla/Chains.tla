------------------------------- MODULE Chains -------------------------------
(***************************************************************************)
(* The intrusive singly linked lists of the server (a room's occupants,    *)
(* the waiting list, the combat list, the descriptor list) as sequences,   *)
(* head first, without their pointers.                                     *)
(***************************************************************************)
EXTENDS Integers, Sequences

Members(s) == {s[i] : i \in 1..Len(s)}

\* No element is met twice by a walk from the head.
Distinct(s) == \A i, j \in 1..Len(s) : s[i] = s[j] => i = j

\* i is where a search from the head first meets c.
FoundAt(s, c, i) == s[i] = c /\ \A j \in 1..(i - 1) : s[j] # c

\* Mutant: the last element is moved into the hole.
UnlinkedBySwap(s, i) ==
    [j \in 1..(Len(s) - 1) |-> IF j = i THEN s[Len(s)] ELSE s[j]]

\* s without its element at position i.
Unlinked(s, i) == [j \in 1..(Len(s) - 1) |-> IF j < i THEN s[j] ELSE s[j + 1]]

\* s without c, if c is in it.
Without(s, c) ==
    IF c \in Members(s)
    THEN Unlinked(s, CHOOSE i \in 1..Len(s) : FoundAt(s, c, i))
    ELSE s

\* The element whose link follows c, if there is one.
HasSuccessor(s, c) == \E i \in 1..(Len(s) - 1) : s[i] = c

Successor(s, c) == s[(CHOOSE i \in 1..(Len(s) - 1) : s[i] = c) + 1]

\* c is met before d.
Before(s, c, d) == \E i, j \in 1..Len(s) : i < j /\ s[i] = c /\ s[j] = d
=============================================================================
