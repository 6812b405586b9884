----------------------------- MODULE AccountsMC -----------------------------
(***************************************************************************)
(* Small instances of Accounts for TLC.  A behaviour is about              *)
(*   one  one admin request at a time, in full;                            *)
(*   two  two at once, on a file that cannot be written, while the process *)
(*        runs and no session ends.  Two that save race on cfg->web_users  *)
(*        and on the temporary file; nothing is said of the file then.     *)
(***************************************************************************)
EXTENDS Accounts, TLC

CONSTANTS ann, bob

VARIABLE regime

accountsModelVars == <<vars, regime>>

HashesAndWorkers == Permutations(Hashes) \cup Permutations(Workers)

Busy == {w \in Workers : work[w].pc # "idle"}

AccountsInit == Init /\ regime \in {"one", "two"}

AccountsNext ==
  /\ \/ regime = "one" /\ Next /\ Cardinality(Busy') <= 1
     \/ /\ regime = "two"
        /\ (\E l \in Logins : LoginStep(l)) \/ (\E w \in Workers : AdminStep(w))
        /\ \A w \in Workers :
             work'[w].req.op \in {"none", "add", "remove", "set"} /\ work'[w].pc # "rename"
  /\ UNCHANGED regime

AccountsSpec == AccountsInit /\ [][AccountsNext]_accountsModelVars

\* What AckedIsSaved says of one admin request at a time.
FileKeepsAcked == regime = "one" => AckedIsSaved
=============================================================================
