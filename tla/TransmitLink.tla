---------------------------- MODULE TransmitLink ----------------------------
(***************************************************************************)
(* Who may feed the transmitter, and what happens when a client goes: the  *)
(* /ws/tx routes and /api/admin/unkey (src/src/api.cpp), the claim and the *)
(* frame clock of TxAudioReceiver (src/src/tx_audio.cpp), the dead-link    *)
(* check in the poll callback (src/src/main.cpp), and what the Qt client   *)
(* does on its side (client/src/backend.cpp, client/src/tx_audio.cpp).     *)
(*                                                                         *)
(* The poll thread is RadioPoller's with every task one step; the line     *)
(* loses nothing here and the watchdog does not act.  Of the audio only    *)
(* the arrival is kept (queue_ is TxBuffer's).  A frame sets clock and     *)
(* armed flag without the receiver's lock, a release clears them in the    *)
(* other order under it; each store is a step of its own.                  *)
(***************************************************************************)
EXTENDS Integers, Sequences, FiniteSets

CONSTANTS
  Conns,      \* /ws/tx connections; a client that reconnects is a new one
  Users,      \* the names claims are made under
  None,       \* the empty holder
  UserOf,     \* the account each connection logged in with
  Denied,     \* connections of accounts without can_transmit
  Asked,      \* what other callers ask of the rig: "key", "unkey", "remote"
  Tunes,      \* whether the amplifier or the tuner may be tuned
  Timeout,    \* tx_link_timeout_ms in ticks, 0 disables the check
  MaxGap,     \* longest time from one dead-link check to the next
  MaxQueue    \* bound on the requests callers queue

ASSUME UsersAssumption == UserOf \in [Conns -> Users] /\ None \notin Users
ASSUME DeniedAssumption == Denied \subseteq Conns
ASSUME AskedAssumption == Asked \subseteq {"key", "unkey", "remote"}
ASSUME TunesAssumption == Tunes \in BOOLEAN
ASSUME TimeAssumption == Timeout \in Nat /\ MaxGap \in Nat \ {0} /\ MaxQueue \in Nat

VARIABLES
  conn,      \* what has happened to each connection
  alive,     \* the connections whose network still carries data
  sees,      \* the clients that know the rig is keyed (was_tx_, keyed_)
  holder,    \* holder_
  armed,     \* link_armed_
  silence,   \* MsSinceFrame() in ticks, -1 while last_frame_ms_ is 0
  stamping,  \* the connections whose Accept is between its two stores
  tasks,     \* RadioPoller's tasks_
  rig,       \* keyed; left set up for a remote operator (power, MOD SOURCE)
  pc,        \* where the poll thread is
  s,         \* the TX this cycle has read
  who,       \* the holder the dead-link check is about to release
  snapTx,    \* the published TX
  tuning,    \* how far a tune is; it is active from "begun" to "ended"
  killing,   \* how far an /api/admin/unkey handler is
  victim,    \* the holder that handler is about to release
  since,     \* ticks since the last dead-link check
  overAge    \* ticks the rig has been keyed outside a tune

connVars == <<conn, alive, sees>>
linkVars == <<holder, armed, silence, stamping>>
pollVars == <<pc, s, who, snapTx>>
timeVars == <<since, overAge>>
adminVars == <<killing, victim>>
others == <<tuning, adminVars>>
vars == <<connVars, linkVars, tasks, rig, pollVars, others, timeVars>>

\* claimed: Claim has succeeded, claims not yet written.  open: in claims.
\* releasing, zeroing, handing: the close handler has erased the claim / is
\* inside Release / is past it.
ConnStates ==
  {"new", "claimed", "open", "refused", "releasing", "zeroing", "handing", "closed"}

Tasks == {"key", "unkey", "remote", "handback"}

\* Ages are counted up to the first value past every bound they are held to;
\* with the check disabled there is none.
Old == IF Timeout = 0 THEN 0 ELSE Timeout + 3 * MaxGap + 1
Older(n) == IF n < Old THEN n + 1 ELSE Old

TypeOK ==
  /\ conn \in [Conns -> ConnStates]
  /\ alive \subseteq Conns /\ sees \subseteq Conns /\ stamping \subseteq Conns
  /\ {holder, who, victim} \subseteq Users \cup {None}
  /\ {armed, s, snapTx} \subseteq BOOLEAN
  /\ tuning \in {"idle", "begun", "keyed", "ended"}
  /\ killing \in {"no", "waiting", "releasing", "zeroing"}
  /\ silence \in -1 .. Old /\ overAge \in 0 .. Old /\ since \in 0 .. MaxGap
  /\ tasks \in Seq(Tasks)
  /\ rig \in [tx : BOOLEAN, remote : BOOLEAN]
  /\ pc \in {"drain", "check", "who", "release", "zero", "publish"}

Init ==
  /\ conn = [c \in Conns |-> "new"] /\ alive = Conns /\ sees = {}
  /\ holder = None /\ armed = FALSE /\ silence = -1 /\ stamping = {}
  /\ tasks = <<>> /\ rig = [tx |-> FALSE, remote |-> FALSE]
  /\ pc = "drain" /\ s = FALSE /\ who = None /\ snapTx = FALSE
  /\ tuning = "idle" /\ killing = "no" /\ victim = None
  /\ since = 0 /\ overAge = 0

----------------------------------------------------------------------------
(* TxAudioReceiver. *)

\* mu_ is held from one step to the next only inside a Release; Claim, Holder
\* and other releases wait.
Locked ==
  \/ pc = "zero" \/ killing = "zeroing"
  \/ \E c \in Conns : conn[c] = "zeroing"

CanClaim(u) == holder \in {None, u}

\* Release, first half: the claim goes and the check is disarmed.  Nothing
\* happens, and there is no second half, if somebody else holds the claim.
Release(u) ==
  /\ ~Locked
  /\ IF holder = u THEN holder' = None /\ armed' = FALSE ELSE UNCHANGED <<holder, armed>>
  /\ UNCHANGED <<silence, stamping>>

\* Second half: the clock is zeroed and the lock given back.
Zero == silence' = -1 /\ UNCHANGED <<holder, armed, stamping>>

\* Accept stamps the arrival and then arms the check, both without the lock.
Stamp(c) ==
  /\ c \notin stamping
  /\ silence' = 0 /\ stamping' = stamping \cup {c}
  /\ UNCHANGED <<holder, armed>>

Arm(c) ==
  /\ c \in stamping
  /\ armed' = TRUE /\ stamping' = stamping \ {c}
  /\ UNCHANGED <<holder, silence>>

----------------------------------------------------------------------------
(* /ws/tx on the host. *)

Become(c, from, to) == conn[c] = from /\ conn' = [conn EXCEPT ![c] = to]

OpenClaims(c) ==
  /\ c \notin Denied /\ ~Locked /\ CanClaim(UserOf[c])
  /\ Become(c, "new", "claimed")
  /\ holder' = UserOf[c]
  /\ UNCHANGED <<alive, sees, armed, silence, stamping, tasks, rig, pollVars,
                 others, timeVars>>

OpenRecorded(c) ==
  /\ Become(c, "claimed", "open")
  /\ UNCHANGED <<alive, sees, linkVars, tasks, rig, pollVars, others, timeVars>>

\* The error is sent; the socket stays until the client closes it.
OpenRefused(c) ==
  /\ c \in Denied \/ (~Locked /\ ~CanClaim(UserOf[c]))
  /\ Become(c, "new", "refused")
  /\ UNCHANGED <<alive, sees, linkVars, tasks, rig, pollVars, others, timeVars>>

\* on_close, in the thread that reads the connection's frames.  A connection
\* that is not in claims is left at that.
CloseUnclaimed(c) ==
  /\ c \notin stamping
  /\ Become(c, "refused", "closed")
  /\ UNCHANGED <<alive, sees, linkVars, tasks, rig, pollVars, others, timeVars>>

CloseErases(c) ==
  /\ c \notin stamping
  /\ Become(c, "open", "releasing")
  /\ UNCHANGED <<alive, sees, linkVars, tasks, rig, pollVars, others, timeVars>>

\* Mutant: the close handler forgets the release.
CloseKeepsClaim(c) ==
  /\ Become(c, "releasing", "handing")
  /\ UNCHANGED <<alive, sees, linkVars, tasks, rig, pollVars, others, timeVars>>

CloseReleases(c) ==
  /\ Become(c, "releasing", IF holder = UserOf[c] THEN "zeroing" ELSE "handing")
  /\ Release(UserOf[c])
  /\ UNCHANGED <<alive, sees, tasks, rig, pollVars, others, timeVars>>

CloseZeroes(c) ==
  /\ Become(c, "zeroing", "handing")
  /\ Zero
  /\ UNCHANGED <<alive, sees, tasks, rig, pollVars, others, timeVars>>

CloseHandsBack(c) ==
  /\ Become(c, "handing", "closed")
  /\ tasks' = Append(tasks, "handback")
  /\ UNCHANGED <<alive, sees, linkVars, rig, pollVars, others, timeVars>>

\* on_data does not ask who holds the claim.  The client sends only while the
\* host's status says the rig is keyed; one that was refused until it has read
\* so.
Frame(c) ==
  /\ c \in alive \cap sees
  /\ conn[c] \in {"open", "refused"}
  /\ Stamp(c)
  /\ UNCHANGED <<connVars, tasks, rig, pollVars, others, timeVars>>

FrameArms(c) ==
  /\ Arm(c)
  /\ UNCHANGED <<connVars, tasks, rig, pollVars, others, timeVars>>

----------------------------------------------------------------------------
(* The client, its network, and the other callers of the host. *)

StatusPoll(c) ==
  /\ c \in alive /\ conn[c] # "closed"
  /\ sees' = IF snapTx THEN sees \cup {c} ELSE sees \ {c}
  /\ UNCHANGED <<conn, alive, linkVars, tasks, rig, pollVars, others, timeVars>>

\* No FIN: the socket looks healthy and nothing comes down it any more.
LinkDies(c) ==
  /\ c \in alive
  /\ alive' = alive \ {c}
  /\ UNCHANGED <<conn, sees, linkVars, tasks, rig, pollVars, others, timeVars>>

\* /api/ptt/on, /api/ptt/off, /api/remote-tx/on.
Request(t) ==
  /\ Len(tasks) < MaxQueue
  /\ tasks' = Append(tasks, t)
  /\ UNCHANGED <<connVars, linkVars, rig, pollVars, others, timeVars>>

\* /api/admin/unkey queues an unkey, waits two seconds at most for it to have
\* run, and then releases the claim of whoever holds it by that time.
AdminUnkey ==
  /\ killing = "no" /\ Len(tasks) < MaxQueue
  /\ killing' = "waiting"
  /\ tasks' = Append(tasks, "unkey")
  /\ UNCHANGED <<connVars, linkVars, rig, pollVars, tuning, victim, timeVars>>

AdminReads ==
  /\ killing = "waiting" /\ ~Locked
  /\ killing' = IF holder = None THEN "no" ELSE "releasing"
  /\ victim' = holder
  /\ UNCHANGED <<connVars, linkVars, tasks, rig, pollVars, tuning, timeVars>>

AdminRelease ==
  /\ killing = "releasing"
  /\ Release(victim)
  /\ killing' = IF holder = victim THEN "zeroing" ELSE "no"
  /\ victim' = None
  /\ UNCHANGED <<connVars, tasks, rig, pollVars, tuning, timeVars>>

AdminZeroes ==
  /\ killing = "zeroing"
  /\ Zero
  /\ killing' = "no"
  /\ UNCHANGED <<connVars, tasks, rig, pollVars, tuning, victim, timeVars>>

Admin == AdminUnkey \/ AdminReads \/ AdminRelease \/ AdminZeroes

----------------------------------------------------------------------------
(* A tune, as far as the check can tell: it is active before its carrier is  *)
(* asked for and until after that has been ended, or is stopped before it    *)
(* keys.  An over is no tune's, so its age begins anew at either end.        *)

TuneMoves(from, to) == Tunes /\ tuning = from /\ tuning' = to

TuneStarts ==
  /\ TuneMoves("idle", "begun")
  /\ overAge' = 0
  /\ UNCHANGED <<connVars, linkVars, tasks, rig, pollVars, adminVars, since>>

TuneAsks(from, to, t) ==
  /\ TuneMoves(from, to) /\ Len(tasks) < MaxQueue
  /\ tasks' = Append(tasks, t)
  /\ UNCHANGED <<connVars, linkVars, rig, pollVars, adminVars, timeVars>>

TuneKeys   == TuneAsks("begun", "keyed", "key")
TuneUnkeys == TuneAsks("keyed", "ended", "unkey")

TuneEnds ==
  /\ \E from \in {"begun", "ended"} : TuneMoves(from, "idle")
  /\ overAge' = 0
  /\ UNCHANGED <<connVars, linkVars, tasks, rig, pollVars, adminVars, since>>

Tune == TuneStarts \/ TuneKeys \/ TuneUnkeys \/ TuneEnds

Tuning == tuning # "idle"

----------------------------------------------------------------------------
(* The poll thread. *)

\* Mutant: the close restores power and microphone and does not unkey, as the
\* handler once did.
AfterKeyed(t) ==
  CASE t = "key"      -> [rig EXCEPT !.tx = TRUE]
    [] t = "unkey"    -> [rig EXCEPT !.tx = FALSE]
    [] t = "remote"   -> [rig EXCEPT !.remote = TRUE]
    [] t = "handback" -> [rig EXCEPT !.remote = FALSE]

\* What a task leaves the rig in; handing back unkeys first, then restores
\* the local power cap and the microphone.
After(t) ==
  CASE t = "key"      -> [rig EXCEPT !.tx = TRUE]
    [] t = "unkey"    -> [rig EXCEPT !.tx = FALSE]
    [] t = "remote"   -> [rig EXCEPT !.remote = TRUE]
    [] t = "handback" -> [tx |-> FALSE, remote |-> FALSE]

DrainOne ==
  /\ pc = "drain" /\ tasks # <<>>
  /\ rig' = After(Head(tasks))
  /\ overAge' = IF rig'.tx THEN overAge ELSE 0
  /\ tasks' = Tail(tasks)
  /\ UNCHANGED <<connVars, linkVars, pollVars, others, since>>

PollRead ==
  /\ pc = "drain" /\ tasks = <<>>
  /\ s' = rig.tx
  /\ pc' = "check"
  /\ UNCHANGED <<connVars, linkVars, tasks, rig, who, snapTx, others, timeVars>>

\* Mutant: the check looks after a stream only while somebody holds the claim.
DeadIfHeld == Timeout > 0 /\ s /\ ~Tuning /\ armed /\ silence > Timeout /\ holder # None

Dead == Timeout > 0 /\ s /\ ~Tuning /\ armed /\ silence > Timeout

LinkFine ==
  /\ pc = "check" /\ ~Dead
  /\ pc' = "publish"
  /\ since' = 0
  /\ UNCHANGED <<connVars, linkVars, tasks, rig, s, who, snapTx, others, overAge>>

LinkDead ==
  /\ pc = "check" /\ Dead
  /\ tasks' = Append(tasks, "unkey")
  /\ pc' = "who"
  /\ since' = 0
  /\ UNCHANGED <<connVars, linkVars, rig, s, who, snapTx, others, overAge>>

\* Holder() is asked after the unkey is queued.
DeadReads ==
  /\ pc = "who" /\ ~Locked
  /\ who' = holder
  /\ pc' = IF holder = None THEN "publish" ELSE "release"
  /\ UNCHANGED <<connVars, linkVars, tasks, rig, s, snapTx, others, timeVars>>

DeadRelease ==
  /\ pc = "release"
  /\ Release(who)
  /\ pc' = IF holder = who THEN "zero" ELSE "publish"
  /\ who' = None
  /\ UNCHANGED <<connVars, tasks, rig, s, snapTx, others, timeVars>>

DeadZeroes ==
  /\ pc = "zero"
  /\ Zero
  /\ pc' = "publish"
  /\ UNCHANGED <<connVars, tasks, rig, s, who, snapTx, others, timeVars>>

Publish ==
  /\ pc = "publish"
  /\ snapTx' = s
  /\ pc' = "drain"
  /\ UNCHANGED <<connVars, linkVars, tasks, rig, s, who, others, timeVars>>

\* Timing assumption: the few instructions between two stores take no time
\* the clock of the check could tell.
Tick ==
  /\ Timeout > 0 /\ since < MaxGap
  /\ stamping = {} /\ ~Locked
  /\ since' = since + 1
  /\ silence' = IF silence < 0 THEN silence ELSE Older(silence)
  /\ overAge' = IF rig.tx /\ ~Tuning THEN Older(overAge) ELSE 0
  /\ UNCHANGED <<connVars, holder, armed, stamping, tasks, rig, pollVars, others>>

----------------------------------------------------------------------------

Poller ==
  \/ DrainOne \/ PollRead \/ LinkFine \/ LinkDead
  \/ DeadReads \/ DeadRelease \/ DeadZeroes \/ Publish

CloseStep(c) ==
  CloseErases(c) \/ CloseReleases(c) \/ CloseZeroes(c) \/ CloseHandsBack(c)

Connection(c) ==
  \/ OpenClaims(c) \/ OpenRecorded(c) \/ OpenRefused(c)
  \/ CloseUnclaimed(c) \/ CloseStep(c)
  \/ Frame(c) \/ FrameArms(c) \/ StatusPoll(c) \/ LinkDies(c)

Next ==
  \/ \E c \in Conns : Connection(c)
  \/ \E t \in Asked : Request(t)
  \/ Admin \/ Tune \/ Poller \/ Tick

Spec == Init /\ [][Next]_vars

----------------------------------------------------------------------------
(* Properties. *)

\* A claim never outlives the connections it was made for: whoever holds the
\* transmitter is connected or in the close handler, so a client that went
\* away cannot lock the next one out.
HolderIsConnected ==
  holder # None =>
    \E c \in Conns : UserOf[c] = holder /\ conn[c] \in {"claimed", "open", "releasing"}

\* The phone in the tunnel: outside a tune, a keyed rig whose armed stream has
\* stopped is not left keyed for longer than the timeout and three checks (one
\* that came too early, one that acts, one whose drain runs the unkey).  That
\* is a stream with a clock: a frame that crosses a Release can leave the
\* check armed with last_frame_ms_ 0, and then nothing bounds the carrier
\* until the next frame.
DeadCarrierBounded ==
  Timeout > 0 /\ rig.tx /\ armed /\ silence >= 0 =>
    overAge <= Timeout + 3 * MaxGap \/ silence <= Timeout + 3 * MaxGap

\* A client that held the transmitter and goes leaves the station safe: the
\* hand-back its close queues reaches the rig and unkeys it.
HandsBack(c) == conn[c] = "releasing" ~> (~rig.tx /\ ~rig.remote)

\* The dead-link check unkeys only a stream that stopped while keyed: the
\* silence it acts on is silence of this over.
OverSurvives == pc = "who" => overAge > Timeout
=============================================================================
