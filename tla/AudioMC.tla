------------------------------ MODULE AudioMC ------------------------------
(***************************************************************************)
(* The two audio paths for TLC: they share no state, so a behaviour is one *)
(* of the transmit path or one of the receive path, and the other rests.   *)
(***************************************************************************)
EXTENDS TxBuffer, RxStream

VARIABLE path

Init == path \in {"tx", "rx"} /\ TxInit /\ RxInit

Next ==
  \/ path = "tx" /\ TxNext /\ UNCHANGED <<path, rxVars>>
  \/ path = "rx" /\ RxNext /\ UNCHANGED <<path, txVars>>

vars == <<path, txVars, rxVars>>

\* The pump's thread, the codec's clock and the sender's thread run, and a
\* write that is stuck fails.  No fairness for operators or listeners.
Spec ==
  /\ Init /\ [][Next]_vars
  /\ WF_vars(path = "tx" /\ Pump /\ UNCHANGED <<path, rxVars>>)
  /\ WF_vars(path = "tx" /\ Plays /\ UNCHANGED <<path, rxVars>>)
  /\ WF_vars(path = "tx" /\ RunsDry /\ UNCHANGED <<path, rxVars>>)
  /\ WF_vars(path = "rx" /\ Sender /\ UNCHANGED <<path, txVars>>)

\* The types of both paths.
TypeOK == TxTypeOK /\ RxTypeOK
=============================================================================
