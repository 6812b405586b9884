------------------------------- MODULE Pusher -------------------------------
(***************************************************************************)
(* The Wavelog pusher (src/pusher/hamdeck_pusher): one pass of Runner.tick *)
(* step by step, PushPolicy's decision, the HostClient session it shares   *)
(* with the Stream Deck's threads, and the host's answer to                *)
(* /api/remote/status (src/src/api.cpp, src/src/auth.cpp).                 *)
(*                                                                         *)
(* A reading is a frequency and a mode, one Key.  Time passes between the  *)
(* passes; the policy's two clocks count it up to the limits they are held *)
(* to.                                                                     *)
(***************************************************************************)
EXTENDS Naturals

CONSTANTS
  Keys,        \* readings
  Empty,       \* no reading
  Settle,      \* settle_seconds
  Heartbeat,   \* heartbeat_seconds
  MaxGhosts    \* bound on the sessions earlier logins left behind

VARIABLES
  rig,        \* what the radio is on, and whether the host's reading of it is
              \* connected, not stale and not 0 Hz
  op,         \* the operator at another client: one long idle counts as away
  up,         \* the host answers
  wavelog,    \* Wavelog accepts
  mine,       \* _token: none, live, or dead on the host
  ghosts,     \* live sessions of this user, recently active, that are not ours
  pc,         \* where the pass is
  pass,       \* its reading, its answer to "is somebody else operating", and a
              \* ghost: op when that was answered
  policy,     \* _candidate, _published (State.published_freq and _mode
              \* move with it) and the time since each was set
  row,        \* the radio's row in Wavelog
  late,       \* a post given up on that Wavelog may still apply
  rewritten   \* ghost: such a post has overwritten the row since the last success

worldVars == <<rig, op, up, wavelog>>
sessionVars == <<mine, ghosts>>
passVars == <<pc, pass>>
logVars == <<row, late, rewritten>>
pushVars == <<worldVars, sessionVars, passVars, policy, logVars>>

ASSUME PushAssumption ==
  /\ Empty \notin Keys
  /\ Settle \in Nat \ {0} /\ Heartbeat \in Nat \ {0} /\ MaxGhosts \in Nat

Least(m, n) == IF m < n THEN m ELSE n

Readings == [key : Keys, good : BOOLEAN]
NoPass == [seen |-> Empty, remote |-> FALSE, was |-> "away"]
Maybe == Keys \cup {Empty}

PushTypeOK ==
  /\ rig \in Readings
  /\ {op, pass.was} \subseteq {"away", "listening", "talking"}
  /\ {up, wavelog, pass.remote, rewritten} \subseteq BOOLEAN
  /\ mine \in {"none", "live", "dead"} /\ ghosts \in 0 .. MaxGhosts
  /\ pc \in {"wait", "start", "relogin", "retry", "remote", "reloginRemote", "retryRemote",
             "decide", "post"}
  /\ pass.seen \in Readings \cup {Empty}
  /\ policy \in [candidate : Maybe, held : 0 .. Settle,
                 published : Maybe, age : 0 .. Heartbeat]
  /\ {row, late} \subseteq Maybe

----------------------------------------------------------------------------
(* The host's side of a request. *)

Answers == up /\ mine = "live"
Rejects == up /\ mine # "live"

\* login: a token that was still live stays on the host as a ghost.
Login ==
  /\ mine' = "live"
  /\ ghosts' = IF mine = "live" /\ ghosts < MaxGhosts THEN ghosts + 1 ELSE ghosts

\* Mutant: client_connected of /api/tx-audio/status, the holder alone.
RemoteActiveHolder == op = "talking"

\* /api/remote/status, ActiveSessionsExcluding and Runner._remote_active:
\* another's session that is recently active, or the transmitter held.
RemoteActive ==
  LET others == ghosts + (IF op = "listening" THEN 1 ELSE 0)
      active == others > 0 \/ op = "talking"
  IN  active /\ (op = "talking" \/ others - ghosts > 0)

----------------------------------------------------------------------------
(* Runner.tick. *)

\* status, and Reading.from_status.
ReadStatus ==
  /\ pc \in {"start", "retry"} /\ Answers
  /\ pc' = "remote" /\ pass' = [pass EXCEPT !.seen = rig]
  /\ UNCHANGED <<worldVars, sessionVars, policy, logVars>>

\* _json: a 401 is answered by one login and one retry.
Rejected ==
  /\ pc \in {"start", "remote"} /\ Rejects
  /\ pc' = IF pc = "start" THEN "relogin" ELSE "reloginRemote"
  /\ UNCHANGED <<worldVars, sessionVars, pass, policy, logVars>>

\* A Stream Deck thread may have logged in since the 401.
Relogin ==
  /\ pc \in {"relogin", "reloginRemote"} /\ up
  /\ Login
  /\ pc' = IF pc = "relogin" THEN "retry" ELSE "retryRemote"
  /\ UNCHANGED <<worldVars, pass, policy, logVars>>

\* HostError: nobody answers, or the retry is rejected too.
HostFails ==
  /\ \/ pc \in {"start", "relogin", "remote", "reloginRemote"} /\ ~up
     \/ pc \in {"retry", "retryRemote"} /\ ~Answers
  /\ pc' = "wait" /\ pass' = NoPass
  /\ UNCHANGED <<worldVars, sessionVars, policy, logVars>>

AskRemote ==
  /\ pc \in {"remote", "retryRemote"} /\ Answers
  /\ pc' = "decide" /\ pass' = [pass EXCEPT !.remote = RemoteActive, !.was = op]
  /\ UNCHANGED <<worldVars, sessionVars, policy, logVars>>

\* evaluate.  A refusal leaves the candidate alone; a deferral does not.
Candidate ==
  IF pass.seen.key = policy.candidate
  THEN policy ELSE [policy EXCEPT !.candidate = pass.seen.key, !.held = 0]

\* Mutant: the change test only, no heartbeat.
DueOnChange ==
  pass.seen.key # policy.published /\ Candidate.held >= Settle

Due ==
  IF pass.seen.key # policy.published
  THEN Candidate.held >= Settle
  ELSE policy.age >= Heartbeat

Publishes == pass.seen.good /\ ~pass.remote /\ Due

Decide ==
  /\ pc = "decide"
  /\ policy' = IF pass.seen.good THEN Candidate ELSE policy
  /\ pc' = IF Publishes THEN "post" ELSE "wait"
  /\ pass' = IF Publishes THEN pass ELSE NoPass
  /\ UNCHANGED <<worldVars, sessionVars, logVars>>

\* record_published and record_push, of a post that succeeded.
Recorded ==
  policy' = [policy EXCEPT !.published = pass.seen.key, !.age = 0]

PostAccepted ==
  /\ pc = "post" /\ wavelog
  /\ row' = pass.seen.key /\ rewritten' = FALSE
  /\ Recorded
  /\ pc' = "wait" /\ pass' = NoPass
  /\ UNCHANGED <<worldVars, sessionVars, late>>

\* Mutant: the attempt is recorded.
PostFailsRecorded ==
  /\ pc = "post" /\ ~wavelog
  /\ Recorded
  /\ pc' = "wait" /\ pass' = NoPass
  /\ \/ UNCHANGED <<row, late>>
     \/ row' = pass.seen.key /\ UNCHANGED late
     \/ late = Empty /\ late' = pass.seen.key /\ UNCHANGED row
  /\ rewritten' = (rewritten \/ row' # row)
  /\ UNCHANGED <<worldVars, sessionVars>>

\* Refused, or no answer in time; what was sent then is lost, applied, or
\* still on its way.
PostFails ==
  /\ pc = "post" /\ ~wavelog
  /\ pc' = "wait" /\ pass' = NoPass
  /\ \/ UNCHANGED <<row, late>>
     \/ row' = pass.seen.key /\ UNCHANGED late
     \/ late = Empty /\ late' = pass.seen.key /\ UNCHANGED row
  /\ rewritten' = (rewritten \/ row' # row)
  /\ UNCHANGED <<worldVars, sessionVars, policy>>

LateApplied ==
  /\ late # Empty
  /\ row' = late /\ late' = Empty /\ rewritten' = TRUE
  /\ UNCHANGED <<worldVars, sessionVars, passVars, policy>>

----------------------------------------------------------------------------
(* What happens around it. *)

\* The wait between two passes, poll_seconds and what the last pass took.
Elapse ==
  /\ pc = "wait" /\ pc' = "start"
  /\ \E n \in 1 .. Heartbeat :
       policy' = [policy EXCEPT !.held = Least(@ + n, Settle), !.age = Least(@ + n, Heartbeat)]
  /\ UNCHANGED <<worldVars, sessionVars, pass, logVars>>

\* A button's thread: passthrough, with its own login on a 401.
DeckPress ==
  /\ Rejects /\ Login
  /\ UNCHANGED <<worldVars, passVars, policy, logVars>>

\* The session ages out or is killed; a leftover one ages out.
SessionDies ==
  /\ mine = "live" /\ mine' = "dead"
  /\ UNCHANGED <<worldVars, ghosts, passVars, policy, logVars>>

GhostFades ==
  /\ ghosts > 0 /\ ghosts' = ghosts - 1
  /\ UNCHANGED <<worldVars, mine, passVars, policy, logVars>>

NewPolicy == [candidate |-> Empty, held |-> 0, published |-> Empty, age |-> 0]

\* The program ends and starts again.  A stop logs out, a crash does not.
Restarts ==
  /\ policy' = NewPolicy
  /\ mine' = "none" /\ pc' = "wait" /\ pass' = NoPass
  /\ ghosts' \in {ghosts, IF mine = "live" /\ ghosts < MaxGhosts THEN ghosts + 1 ELSE ghosts}
  /\ UNCHANGED <<worldVars, logVars>>

\* The radio, the other operator, the host and Wavelog.
World ==
  /\ \/ /\ rig' \in Readings
        /\ UNCHANGED <<op, up, wavelog>>
     \/ op' \in {"away", "listening", "talking"} /\ UNCHANGED <<rig, up, wavelog>>
     \/ up' = ~up /\ UNCHANGED <<rig, op, wavelog>>
     \/ wavelog' = ~wavelog /\ UNCHANGED <<rig, op, up>>
  /\ UNCHANGED <<sessionVars, passVars, policy, logVars>>

----------------------------------------------------------------------------

PushInit ==
  /\ rig \in [key : Keys, good : {TRUE}]
  /\ op = "away" /\ up = TRUE /\ wavelog = TRUE
  /\ mine = "none" /\ ghosts = 0
  /\ pc = "wait" /\ pass = NoPass
  /\ policy = NewPolicy
  /\ row = Empty /\ late = Empty /\ rewritten = FALSE

Tick ==
  \/ ReadStatus \/ Rejected \/ Relogin \/ HostFails \/ AskRemote \/ Decide
  \/ PostAccepted \/ PostFails

PushNext ==
  \/ Tick \/ LateApplied \/ Elapse \/ DeckPress \/ SessionDies \/ GhostFades
  \/ Restarts \/ World

----------------------------------------------------------------------------

Operating(o) == o \in {"listening", "talking"}

\* Nothing is published over an operator who was at the station when the
\* pass asked, listening only or in an over long enough for the session to
\* look idle; and standing down is always for somebody - a pusher that comes
\* back finds its own earlier sessions on the host and does not wait for them.
StandsDown ==
  /\ pc = "post" => ~Operating(pass.was)
  /\ pc = "decide" /\ pass.remote => Operating(pass.was)

\* What the pusher shows as published is in Wavelog, short of a post it gave
\* up on that Wavelog applied all the same.
PublishedIsThere ==
  policy.published # Empty /\ ~rewritten => row = policy.published

\* While passes go on, with the radio left alone, the host and Wavelog there,
\* nobody else operating and no session or program cut short for good, the row
\* ends up with what the radio is on, whatever posts were lost, refused or late.
Steady == rig.good /\ ~Operating(op) /\ up /\ wavelog
LogCatchesUp ==
  []<>(pc = "start") /\ <>[]Steady /\ <>[][rig' = rig /\ ~SessionDies /\ ~Restarts]_pushVars
    => <>[](row = rig.key)
=============================================================================
