----------------------------- MODULE Selections ------------------------------
(***************************************************************************)
(* Parts of a sequence.  SelectSeq of Sequences has no definition that a   *)
(* proof could expand; the one here says the same.                         *)
(***************************************************************************)
LOCAL INSTANCE Naturals
LOCAL INSTANCE Sequences

\* The elements of s at these places, in their order.
Picked(s, places) ==
    LET taken[i \in 0 .. Len(s)] ==
            IF i = 0 THEN <<>>
            ELSE IF i \in places THEN Append(taken[i - 1], s[i]) ELSE taken[i - 1]
    IN  taken[Len(s)]

\* The elements of s that pass the test.
Selected(s, test(_)) == Picked(s, {i \in DOMAIN s : test(s[i])})
=============================================================================
