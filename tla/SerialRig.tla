------------------------------ MODULE SerialRig ------------------------------
(***************************************************************************)
(* What the single queue in front of the serial port promises (radio.h,    *)
(* Enqueue and EnqueueTask): the radio behaves as if every request were    *)
(* applied at once, whole, and in the order in which it was queued.        *)
(***************************************************************************)
EXTENDS Naturals, Sequences

CONSTANTS Requests, MaxQueue

VARIABLES pending, rig

\* Every field is what the last write to it says.
Apply(writes, r) ==
  [f \in DOMAIN r |->
     LET on == {i \in DOMAIN writes : writes[i][1] = f}
     IN IF on = {} THEN r[f] ELSE writes[CHOOSE i \in on : \A j \in on : j <= i][2]]

Submit ==
  /\ Len(pending) < MaxQueue
  /\ \E r \in Requests : pending' = Append(pending, r)
  /\ UNCHANGED rig

Serve ==
  /\ pending # <<>>
  /\ rig' = Apply(Head(pending), rig)
  /\ pending' = Tail(pending)

\* The operator at the radio and the watchdog change TX and nothing else.
Ptt ==
  /\ \E tx \in BOOLEAN : rig' = [rig EXCEPT !.TX = tx]
  /\ UNCHANGED pending

Next == Submit \/ Serve \/ Ptt

Spec == pending = <<>> /\ [][Next]_<<pending, rig>>
=============================================================================
