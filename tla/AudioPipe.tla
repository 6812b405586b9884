----------------------------- MODULE AudioPipe -----------------------------
(***************************************************************************)
(* What an audio path promises, the operator's voice on its way to the     *)
(* radio and the band on its way to a listener: chunks may be lost, but    *)
(* what is heard is heard once and in the order in which it was spoken.    *)
(***************************************************************************)
EXTENDS Naturals, Sequences

CONSTANT Chunks

VARIABLES transit, heard

\* What is left when the chunks from i to j are lost.
Without(i, j) == SubSeq(transit, 1, i - 1) \o SubSeq(transit, j + 1, Len(transit))

\* The whole, or the whole without a run of chunks.
Kept == {transit} \cup {Without(i, j) : i, j \in DOMAIN transit}

Lose == transit' \in Kept /\ UNCHANGED heard

Put ==
  /\ \E k \in Kept, x \in Chunks : transit' = Append(k, x)
  /\ UNCHANGED heard

Hear ==
  /\ transit # <<>>
  /\ heard' = Head(transit) /\ transit' = Tail(transit)

Next == Put \/ Hear \/ Lose

Init == transit = <<>>

Spec == Init /\ [][Next]_<<transit, heard>>
=============================================================================
