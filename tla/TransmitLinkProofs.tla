------------------------- MODULE TransmitLinkProofs -------------------------
(***************************************************************************)
(* Theorems about TransmitLink for every set of connections and accounts,  *)
(* every timeout and every length of the queue.                            *)
(***************************************************************************)
EXTENDS TransmitLink, TLAPS

\* The assumptions on the constants, in the form the steps cite them.
LEMMA Constants ==
  /\ UserOf \in [Conns -> Users] /\ None \notin Users
  /\ Asked \subseteq Tasks
  /\ Timeout \in Nat /\ MaxGap \in Nat \ {0} /\ Old \in Nat
BY UsersAssumption, AskedAssumption, TimeAssumption DEF Tasks, Old

\* Ages stay ages.
LEMMA OlderType == ASSUME NEW n \in 0 .. Old PROVE Older(n) \in 0 .. Old
BY Constants DEF Older

\* A connection that has moved on is in one of the places there are.
LEMMA BecomeType ==
  ASSUME TypeOK, NEW c \in Conns, NEW from, NEW to \in ConnStates, Become(c, from, to)
  PROVE  conn' \in [Conns -> ConnStates]
BY DEF TypeOK, Become

\* A release leaves the receiver empty or as it was.
LEMMA ReleaseType ==
  ASSUME TypeOK, NEW u, Release(u) \/ Zero
  PROVE  /\ holder' \in Users \cup {None} /\ armed' \in BOOLEAN
         /\ silence' \in -1 .. Old /\ stamping' \subseteq Conns
<1>1. -1 \in -1 .. Old
  BY Constants
<1>2. CASE Release(u)
  BY <1>2 DEF TypeOK, Release
<1>3. CASE Zero
  BY <1>1, <1>3 DEF TypeOK, Zero
<1> QED
  BY <1>2, <1>3

\* The initial state is well typed.
LEMMA InitType == Init => TypeOK
<1> SUFFICES ASSUME Init PROVE TypeOK
  OBVIOUS
<1>1. conn \in [Conns -> ConnStates]
  BY DEF Init, ConnStates
<1>2. rig \in [tx : BOOLEAN, remote : BOOLEAN] /\ tasks \in Seq(Tasks)
  BY DEF Init
<1>3. 0 \in 0 .. Old /\ 0 \in 0 .. MaxGap /\ -1 \in -1 .. Old
  BY Constants
<1> QED
  BY <1>1, <1>2, <1>3 DEF Init, TypeOK

----------------------------------------------------------------------------
(* Every action keeps the types. *)

\* What happens on and to one connection.
LEMMA ConnectionType ==
  ASSUME TypeOK, NEW c \in Conns, Connection(c) PROVE TypeOK'
<1> USE DEF connVars, linkVars, pollVars, timeVars, others, adminVars
<1>1. CASE OpenClaims(c)
  <2>1. UserOf[c] \in Users /\ conn' \in [Conns -> ConnStates]
    BY <1>1, BecomeType, Constants DEF OpenClaims, ConnStates
  <2> QED
    BY <1>1, <2>1 DEF TypeOK, OpenClaims
<1>2. CASE OpenRecorded(c)
  <2>1. conn' \in [Conns -> ConnStates]
    BY <1>2, BecomeType DEF OpenRecorded, ConnStates
  <2> QED
    BY <1>2, <2>1 DEF TypeOK, OpenRecorded
<1>3. CASE OpenRefused(c)
  <2>1. conn' \in [Conns -> ConnStates]
    BY <1>3, BecomeType DEF OpenRefused, ConnStates
  <2> QED
    BY <1>3, <2>1 DEF TypeOK, OpenRefused
<1>4. CASE CloseUnclaimed(c)
  <2>1. conn' \in [Conns -> ConnStates]
    BY <1>4, BecomeType DEF CloseUnclaimed, ConnStates
  <2> QED
    BY <1>4, <2>1 DEF TypeOK, CloseUnclaimed
<1>5. CASE CloseErases(c)
  <2>1. conn' \in [Conns -> ConnStates]
    BY <1>5, BecomeType DEF CloseErases, ConnStates
  <2> QED
    BY <1>5, <2>1 DEF TypeOK, CloseErases
<1>6. CASE CloseReleases(c) \/ CloseZeroes(c)
  <2>1. conn' \in [Conns -> ConnStates]
    BY <1>6, BecomeType DEF CloseReleases, CloseZeroes, ConnStates
  <2>2. /\ holder' \in Users \cup {None} /\ armed' \in BOOLEAN
        /\ silence' \in -1 .. Old /\ stamping' \subseteq Conns
    BY <1>6, ReleaseType DEF CloseReleases, CloseZeroes
  <2> QED
    BY <1>6, <2>1, <2>2 DEF TypeOK, CloseReleases, CloseZeroes
<1>7. CASE CloseHandsBack(c)
  <2>1. conn' \in [Conns -> ConnStates]
    BY <1>7, BecomeType DEF CloseHandsBack, ConnStates
  <2>2. tasks' \in Seq(Tasks)
    BY <1>7 DEF TypeOK, CloseHandsBack, Tasks
  <2> QED
    BY <1>7, <2>1, <2>2 DEF TypeOK, CloseHandsBack
<1>8. CASE Frame(c) \/ FrameArms(c)
  <2>1. 0 \in -1 .. Old
    BY Constants
  <2> QED
    BY <1>8, <2>1 DEF TypeOK, Frame, FrameArms, Stamp, Arm
<1>9. CASE StatusPoll(c)
  BY <1>9 DEF TypeOK, StatusPoll
<1>10. CASE LinkDies(c)
  BY <1>10 DEF TypeOK, LinkDies
<1> QED
  BY <1>1, <1>2, <1>3, <1>4, <1>5, <1>6, <1>7, <1>8, <1>9, <1>10
     DEF Connection, CloseStep

\* The other callers of the host, tunes and time.
LEMMA CallersType ==
  ASSUME TypeOK, (\E t \in Asked : Request(t)) \/ Admin \/ Tune \/ Tick
  PROVE  TypeOK'
<1> USE DEF connVars, linkVars, pollVars, timeVars, others, adminVars
<1>1. ASSUME NEW t \in Asked, Request(t) PROVE TypeOK'
  <2>1. tasks' \in Seq(Tasks)
    BY <1>1, Constants DEF TypeOK, Request
  <2> QED
    BY <1>1, <2>1 DEF TypeOK, Request
<1>2. CASE AdminUnkey
  <2>1. tasks' \in Seq(Tasks)
    BY <1>2 DEF TypeOK, AdminUnkey, Tasks
  <2> QED
    BY <1>2, <2>1 DEF TypeOK, AdminUnkey
<1>3. CASE AdminReads
  BY <1>3 DEF TypeOK, AdminReads
<1>4. CASE AdminRelease \/ AdminZeroes
  <2>1. /\ holder' \in Users \cup {None} /\ armed' \in BOOLEAN
        /\ silence' \in -1 .. Old /\ stamping' \subseteq Conns
    BY <1>4, ReleaseType DEF AdminRelease, AdminZeroes
  <2> QED
    BY <1>4, <2>1 DEF TypeOK, AdminRelease, AdminZeroes
<1>5. CASE TuneStarts \/ TuneEnds
  <2>1. 0 \in 0 .. Old
    BY Constants
  <2> QED
    BY <1>5, <2>1 DEF TypeOK, TuneStarts, TuneEnds, TuneMoves
<1>6. CASE TuneKeys \/ TuneUnkeys
  <2>1. tasks' \in Seq(Tasks)
    BY <1>6 DEF TypeOK, TuneKeys, TuneUnkeys, TuneAsks, Tasks
  <2>2. tuning' \in {"keyed", "ended"}
    BY <1>6 DEF TuneKeys, TuneUnkeys, TuneAsks, TuneMoves
  <2> QED
    BY <1>6, <2>1, <2>2 DEF TypeOK, TuneKeys, TuneUnkeys, TuneAsks
<1>7. CASE Tick
  <2>1. since' \in 0 .. MaxGap /\ 0 \in 0 .. Old
    BY <1>7, Constants DEF TypeOK, Tick
  <2>2. silence' \in -1 .. Old
    <3>1. CASE silence < 0
      BY <1>7, <3>1 DEF TypeOK, Tick
    <3>2. CASE ~(silence < 0)
      <4>1. silence \in 0 .. Old
        BY <3>2, Constants DEF TypeOK
      <4>2. Older(silence) \in -1 .. Old
        BY <4>1, OlderType, Constants
      <4> QED
        BY <1>7, <3>2, <4>2 DEF Tick
    <3> QED
      BY <3>1, <3>2
  <2>3. overAge' \in 0 .. Old
    BY <1>7, <2>1, OlderType DEF TypeOK, Tick
  <2> QED
    BY <1>7, <2>1, <2>2, <2>3 DEF TypeOK, Tick
<1> QED
  BY <1>1, <1>2, <1>3, <1>4, <1>5, <1>6, <1>7 DEF Admin, Tune

\* The poll thread.
LEMMA PollerType ==
  ASSUME TypeOK, Poller PROVE TypeOK'
<1> USE DEF connVars, linkVars, pollVars, timeVars, others, adminVars
<1>1. 0 \in 0 .. Old /\ 0 \in 0 .. MaxGap
  BY Constants
<1>2. CASE DrainOne
  <2>1. tasks' \in Seq(Tasks) /\ Head(tasks) \in Tasks
    BY <1>2 DEF TypeOK, DrainOne
  <2>2. rig' \in [tx : BOOLEAN, remote : BOOLEAN]
    BY <1>2, <2>1 DEF TypeOK, DrainOne, After, Tasks
  <2> QED
    BY <1>1, <1>2, <2>1, <2>2 DEF TypeOK, DrainOne
<1>3. CASE PollRead
  BY <1>3 DEF TypeOK, PollRead
<1>4. CASE LinkFine
  BY <1>1, <1>4 DEF TypeOK, LinkFine
<1>5. CASE LinkDead
  <2>1. tasks' \in Seq(Tasks)
    BY <1>5 DEF TypeOK, LinkDead, Tasks
  <2> QED
    BY <1>1, <1>5, <2>1 DEF TypeOK, LinkDead
<1>6. CASE DeadReads
  BY <1>6 DEF TypeOK, DeadReads
<1>7. CASE DeadRelease \/ DeadZeroes
  <2>1. /\ holder' \in Users \cup {None} /\ armed' \in BOOLEAN
        /\ silence' \in -1 .. Old /\ stamping' \subseteq Conns
    BY <1>7, ReleaseType DEF DeadRelease, DeadZeroes
  <2> QED
    BY <1>7, <2>1 DEF TypeOK, DeadRelease, DeadZeroes
<1>8. CASE Publish
  BY <1>8 DEF TypeOK, Publish
<1> QED
  BY <1>2, <1>3, <1>4, <1>5, <1>6, <1>7, <1>8 DEF Poller

\* Type correctness: whoever connects, claims, goes silent or is thrown out, the
\* receiver's holder, its clock and the rig hold values of their kind.
THEOREM TypeCorrect == Spec => []TypeOK
<1>1. TypeOK /\ [Next]_vars => TypeOK'
  <2> SUFFICES ASSUME TypeOK, [Next]_vars PROVE TypeOK'
    OBVIOUS
  <2>1. CASE UNCHANGED vars
    BY <2>1 DEF TypeOK, vars, connVars, linkVars, pollVars, timeVars, others, adminVars
  <2> QED
    BY <2>1, ConnectionType, CallersType, PollerType DEF Next
<1> QED
  BY InitType, <1>1, PTL DEF Spec

----------------------------------------------------------------------------
(***************************************************************************)
(* The claim.  HolderIsConnected is inductive by itself: a claim is made   *)
(* by a connection on its way to "open", and a connection leaves the three *)
(* places the property names in CloseReleases only.                        *)
(***************************************************************************)

Connected(c) == conn[c] \in {"claimed", "open", "releasing"}

\* A connection that moves leaves the others where they are.
LEMMA BecomeMoves ==
  ASSUME TypeOK, NEW c \in Conns, NEW from, NEW to, Become(c, from, to)
  PROVE  /\ conn[c] = from /\ conn'[c] = to
         /\ \A d \in Conns : d # c => conn'[d] = conn[d]
BY DEF TypeOK, Become

\* The claim stays with somebody connected if nobody connected goes.
LEMMA StaysConnected ==
  ASSUME HolderIsConnected, holder' \in {holder, None},
         \A c \in Conns : Connected(c) => Connected(c)'
  PROVE  HolderIsConnected'
BY DEF HolderIsConnected, Connected

\* Releasing a claim gives it to nobody.
LEMMA ReleaseHolder ==
  ASSUME NEW u, Release(u)
  PROVE  holder' \in {holder, None} /\ (u # None => holder' # u)
BY DEF Release

\* What happens on and to one connection keeps the claim with somebody.
LEMMA ConnectionHolds ==
  ASSUME TypeOK, HolderIsConnected, NEW c \in Conns, Connection(c)
  PROVE  HolderIsConnected'
<1>1. CASE OpenClaims(c)
  <2>1. conn'[c] = "claimed" /\ holder' = UserOf[c]
    BY <1>1, BecomeMoves DEF OpenClaims
  <2> QED
    BY <2>1 DEF HolderIsConnected
<1>2. CASE OpenRecorded(c) \/ OpenRefused(c) \/ CloseUnclaimed(c) \/ CloseErases(c)
  <2>1. holder' = holder
    BY <1>2 DEF OpenRecorded, OpenRefused, CloseUnclaimed, CloseErases, linkVars
  <2>2. /\ Connected(c) => Connected(c)'
        /\ \A d \in Conns : d # c => conn'[d] = conn[d]
    BY <1>2, BecomeMoves
       DEF OpenRecorded, OpenRefused, CloseUnclaimed, CloseErases, Connected
  <2> QED
    BY <2>1, <2>2, StaysConnected DEF Connected
<1>3. CASE CloseReleases(c)
  <2>1. \A d \in Conns : d # c => conn'[d] = conn[d]
    BY <1>3, BecomeMoves DEF CloseReleases
  <2>2. holder' \in {holder, None} /\ holder' # UserOf[c]
    BY <1>3, ReleaseHolder, Constants DEF CloseReleases
  <2>3. SUFFICES ASSUME holder' # None
                 PROVE  \E d \in Conns : UserOf[d] = holder' /\ Connected(d)'
    BY DEF HolderIsConnected, Connected
  <2>4. PICK d \in Conns : UserOf[d] = holder /\ Connected(d)
    BY <2>2, <2>3 DEF HolderIsConnected, Connected
  <2>5. d # c /\ holder' = holder
    BY <2>2, <2>3, <2>4
  <2>6. Connected(d)'
    BY <2>1, <2>4, <2>5 DEF Connected
  <2> QED
    BY <2>4, <2>5, <2>6
<1>4. CASE CloseZeroes(c) \/ CloseHandsBack(c)
  <2>1. holder' = holder
    BY <1>4 DEF CloseZeroes, CloseHandsBack, Zero, linkVars
  <2>2. /\ ~Connected(c)
        /\ \A d \in Conns : d # c => conn'[d] = conn[d]
    BY <1>4, BecomeMoves DEF CloseZeroes, CloseHandsBack, Connected
  <2> QED
    BY <2>1, <2>2, StaysConnected DEF Connected
<1>5. CASE Frame(c) \/ FrameArms(c) \/ StatusPoll(c) \/ LinkDies(c)
  BY <1>5 DEF Frame, FrameArms, Stamp, Arm, StatusPoll, LinkDies, HolderIsConnected,
              connVars, linkVars
<1> QED
  BY <1>1, <1>2, <1>3, <1>4, <1>5 DEF Connection, CloseStep

\* So does everything else: it takes claims away and leaves connections alone.
LEMMA OthersHold ==
  ASSUME TypeOK, HolderIsConnected,
         (\E t \in Asked : Request(t)) \/ Admin \/ Tune \/ Poller \/ Tick
  PROVE  HolderIsConnected'
<1>1. conn' = conn
  BY DEF Request, Admin, AdminUnkey, AdminReads, AdminRelease, AdminZeroes, Tune,
         TuneStarts, TuneKeys, TuneUnkeys, TuneAsks, TuneEnds, Tick, Poller, DrainOne,
         PollRead, LinkFine, LinkDead, DeadReads, DeadRelease, DeadZeroes, Publish, connVars
<1>2. CASE AdminRelease \/ DeadRelease
  <2>1. holder' \in {holder, None}
    BY <1>2, ReleaseHolder DEF AdminRelease, DeadRelease
  <2> QED
    BY <1>1, <2>1, StaysConnected DEF Connected
<1>3. CASE ~(AdminRelease \/ DeadRelease)
  <2>1. holder' = holder
    BY <1>3
       DEF Request, Admin, AdminUnkey, AdminReads, AdminZeroes, Tune, TuneStarts, TuneKeys,
           TuneUnkeys, TuneAsks, TuneEnds, Tick, Poller, DrainOne, PollRead, LinkFine,
           LinkDead, DeadReads, DeadZeroes, Zero, Publish, linkVars
  <2> QED
    BY <1>1, <2>1, StaysConnected DEF Connected
<1> QED
  BY <1>2, <1>3

\* HolderIsConnected: whoever holds the transmitter is connected or in the close
\* handler, for any number of operators and connections.
THEOREM ClaimDiesWithConnection == Spec => []HolderIsConnected
<1>1. Init => HolderIsConnected
  BY DEF Init, HolderIsConnected
<1>2. TypeOK /\ HolderIsConnected /\ [Next]_vars => HolderIsConnected'
  <2> SUFFICES ASSUME TypeOK, HolderIsConnected, [Next]_vars PROVE HolderIsConnected'
    OBVIOUS
  <2>1. CASE UNCHANGED vars
    BY <2>1 DEF HolderIsConnected, vars, connVars, linkVars
  <2> QED
    BY <2>1, ConnectionHolds, OthersHold DEF Next
<1> QED
  BY <1>1, <1>2, TypeCorrect, PTL DEF Spec

----------------------------------------------------------------------------
(***************************************************************************)
(* The dead-link check.  Either the over or the silence is no older than   *)
(* the last check allowed, or the check has put an unkey into the queue    *)
(* and the poll thread, which drains before it reads, has still to run it. *)
(***************************************************************************)

Recent(n) == overAge <= n \/ silence <= n
Unkeying == \E i \in DOMAIN tasks : tasks[i] \in {"unkey", "handback"}

\* An over is as old as the carrier outside a tune; the reading the check acts
\* on is what the rig does, since only the poll thread's drain keys it; a frame
\* that is about to arm the check has just been stamped, or its stamp zeroed.
LinkInv ==
  /\ ~rig.tx \/ Tuning => overAge = 0
  /\ pc = "check" => s = rig.tx
  /\ stamping # {} => silence <= 0
  /\ Timeout > 0 /\ rig.tx /\ armed =>
       \/ Recent(Timeout + since)
       \/ pc # "check" /\ Unkeying /\ Recent(Timeout + MaxGap + since)

\* What the arithmetic needs to know of the types.
LEMMA Ages ==
  ASSUME TypeOK
  PROVE  /\ overAge \in Nat /\ silence \in Int /\ since \in Nat /\ since <= MaxGap
         /\ tasks \in Seq(Tasks)
BY Constants DEF TypeOK

\* A request behind an unkey does not remove it.
LEMMA AppendKeepsUnkey ==
  ASSUME TypeOK, NEW t \in Tasks, tasks' = Append(tasks, t)
  PROVE  Unkeying => Unkeying'
<1>1. tasks \in Seq(Tasks)
  BY Ages
<1> QED
  BY <1>1 DEF Unkeying

\* An unkey behind the task that runs stays in the queue.
LEMMA TailKeepsUnkey ==
  ASSUME TypeOK, tasks # <<>>, tasks' = Tail(tasks),
         Head(tasks) \notin {"unkey", "handback"}
  PROVE  Unkeying => Unkeying'
<1>1. tasks \in Seq(Tasks)
  BY Ages
<1> SUFFICES ASSUME Unkeying PROVE Unkeying'
  OBVIOUS
<1>2. PICK i \in DOMAIN tasks : tasks[i] \in {"unkey", "handback"}
  BY DEF Unkeying
<1>3. i # 1 /\ i - 1 \in DOMAIN tasks' /\ tasks'[i - 1] = tasks[i]
  BY <1>1, <1>2
<1> QED
  BY <1>2, <1>3 DEF Unkeying

\* A step that leaves rig, check and ages alone, stamps or zeroes the clock, or
\* arms the check behind such a step, and at most lengthens the queue, keeps the
\* invariant.
LEMMA BystandersKeep ==
  ASSUME TypeOK, LinkInv, UNCHANGED <<rig, s, tuning, overAge, since>>,
         Unkeying => Unkeying', pc' = pc,
         \/ silence' \in {-1, 0}
         \/ silence' = silence /\ stamping' = stamping /\ (armed' => armed)
  PROVE  LinkInv'
BY Ages, Constants DEF LinkInv, Recent, Tuning

\* Connections and callers are bystanders.
LEMMA ConnectionKeeps ==
  ASSUME TypeOK, LinkInv,
         (\E c \in Conns : Connection(c)) \/ (\E t \in Asked : Request(t)) \/ Admin
  PROVE  LinkInv'
<1> USE DEF Connection, CloseStep, OpenClaims, OpenRecorded, OpenRefused, CloseUnclaimed,
            CloseErases, CloseReleases, CloseZeroes, CloseHandsBack, Frame, FrameArms,
            StatusPoll, LinkDies, Request, Admin, AdminUnkey, AdminReads, AdminRelease,
            AdminZeroes
<1>1. UNCHANGED <<rig, s, tuning, overAge, since, pc>>
  BY DEF pollVars, others, timeVars
<1>2. \/ silence' \in {-1, 0}
      \/ silence' = silence /\ stamping' = stamping /\ (armed' => armed)
  <2>1. silence \in Int /\ (stamping # {} => silence \in {-1, 0})
    BY Constants DEF TypeOK, LinkInv
  <2> QED
    BY <2>1 DEF Stamp, Arm, Release, Zero, linkVars
<1>3. tasks' = tasks \/ \E t \in Tasks : tasks' = Append(tasks, t)
  BY Constants DEF Tasks
<1>4. Unkeying => Unkeying'
  BY <1>3, AppendKeepsUnkey DEF Unkeying
<1> QED
  BY <1>1, <1>2, <1>4, BystandersKeep

\* The poll thread: the drain runs the unkey, the check starts the wait again.
LEMMA PollerKeeps ==
  ASSUME TypeOK, LinkInv, Poller PROVE LinkInv'
<1> USE Ages, Constants
<1>1. CASE DrainOne
  <2>1. Head(tasks) \in Tasks
    BY <1>1 DEF DrainOne
  <2>2. UNCHANGED <<pc, s, tuning, since, armed, silence, stamping>> /\ pc = "drain"
    BY <1>1 DEF DrainOne, pollVars, others, linkVars
  <2>3. overAge' = IF rig'.tx THEN overAge ELSE 0
    BY <1>1 DEF DrainOne
  <2>4. CASE Head(tasks) \in {"unkey", "handback"}
    <3>1. ~rig'.tx
      BY <1>1, <2>4 DEF DrainOne, After, TypeOK
    <3> QED
      BY <2>2, <2>3, <3>1 DEF LinkInv
  <2>5. CASE Head(tasks) \notin {"unkey", "handback"}
    <3>1. Unkeying => Unkeying'
      BY <1>1, <2>5, TailKeepsUnkey DEF DrainOne
    <3>2. Head(tasks) = "key" \/ (Head(tasks) = "remote" /\ rig'.tx = rig.tx)
      BY <1>1, <2>1, <2>5 DEF DrainOne, After, Tasks, TypeOK
    <3>3. rig'.tx => rig.tx \/ overAge = 0
      BY DEF LinkInv
    <3>4. ~rig'.tx \/ Tuning => overAge' = 0
      BY <2>3 DEF LinkInv
    <3> QED
      BY <2>2, <2>3, <3>1, <3>3, <3>4 DEF LinkInv, Recent, Tuning
  <2> QED
    BY <2>4, <2>5
<1>2. CASE PollRead
  <2>1. ~Unkeying /\ tasks' = tasks
    BY <1>2 DEF PollRead, Unkeying
  <2> QED
    BY <1>2, <2>1 DEF PollRead, LinkInv, Recent, Tuning, linkVars, others, timeVars
<1>3. CASE LinkFine
  BY <1>3 DEF LinkFine, Dead, LinkInv, Recent, Tuning, linkVars, others
<1>4. CASE LinkDead
  <2>1. Unkeying'
    <3>1. tasks' = Append(tasks, "unkey")
      BY <1>4 DEF LinkDead
    <3>2. Len(tasks) + 1 \in DOMAIN tasks' /\ tasks'[Len(tasks) + 1] = "unkey"
      BY <3>1 DEF Tasks
    <3> QED
      BY <3>2 DEF Unkeying
  <2>2. Timeout > 0 /\ rig.tx /\ armed => Recent(Timeout + since)
    BY <1>4 DEF LinkDead, LinkInv
  <2> QED
    BY <1>4, <2>1, <2>2 DEF LinkDead, LinkInv, Recent, Tuning, linkVars, others
<1>5. CASE DeadReads
  BY <1>5 DEF DeadReads, LinkInv, Recent, Unkeying, Tuning, linkVars, others, timeVars
<1>6. CASE DeadRelease \/ DeadZeroes
  <2>1. \/ silence' = -1 /\ stamping' = stamping
        \/ silence' = silence /\ stamping' = stamping /\ (armed' => armed)
    BY <1>6 DEF DeadRelease, DeadZeroes, Release, Zero
  <2> QED
    BY <1>6, <2>1
       DEF DeadRelease, DeadZeroes, LinkInv, Recent, Unkeying, Tuning, others, timeVars
<1>7. CASE Publish
  BY <1>7 DEF Publish, LinkInv, Recent, Unkeying, Tuning, linkVars, others, timeVars
<1> QED
  BY <1>1, <1>2, <1>3, <1>4, <1>5, <1>6, <1>7 DEF Poller

\* A tick ages over and silence by at most as much as the time since the check.
LEMMA TickKeeps ==
  ASSUME TypeOK, LinkInv, Tick PROVE LinkInv'
<1> USE Ages, Constants
<1>1. UNCHANGED <<rig, s, tuning, pc, tasks, armed>> /\ since' = since + 1 /\ stamping' = {}
  BY DEF Tick, pollVars, others
<1>2. overAge' <= overAge + 1 /\ silence' <= silence + 1
  BY DEF Tick, Older
<1>3. overAge' \in Nat /\ silence' \in Int
  BY DEF Tick, Older
<1>4. ~rig.tx \/ Tuning => overAge' = 0
  BY DEF Tick
<1>5. Unkeying' = Unkeying
  BY <1>1 DEF Unkeying
<1>6. ASSUME NEW n \in Nat, Recent(n + since) PROVE Recent(n + since)'
  BY <1>1, <1>2, <1>3, <1>6 DEF Recent
<1>7. /\ Recent(Timeout + since) => Recent(Timeout + since)'
      /\ Recent(Timeout + MaxGap + since) => Recent(Timeout + MaxGap + since)'
  BY <1>6
<1> QED
  BY <1>1, <1>4, <1>5, <1>7 DEF LinkInv, Tuning

\* Either end of a tune begins an over anew; its requests lengthen the queue.
LEMMA TuneKeeps ==
  ASSUME TypeOK, LinkInv, Tune PROVE LinkInv'
<1> USE Ages, Constants
<1>1. CASE TuneStarts \/ TuneEnds
  BY <1>1 DEF TuneStarts, TuneEnds, LinkInv, Recent, Unkeying, Tuning, pollVars, linkVars
<1>2. CASE TuneKeys \/ TuneUnkeys
  <2>1. /\ UNCHANGED <<rig, s, pc, overAge, since, armed, silence, stamping>>
        /\ Tuning /\ Tuning'
    BY <1>2 DEF TuneKeys, TuneUnkeys, TuneAsks, TuneMoves, Tuning, pollVars, linkVars, timeVars
  <2>2. \E t \in Tasks : tasks' = Append(tasks, t)
    BY <1>2 DEF TuneKeys, TuneUnkeys, TuneAsks, Tasks
  <2>3. Unkeying => Unkeying'
    BY <2>2, AppendKeepsUnkey
  <2> QED
    BY <2>1, <2>3 DEF LinkInv, Recent
<1> QED
  BY <1>1, <1>2 DEF Tune

\* The invariant of the dead-link check holds in every reachable state.
THEOREM LinkInvariant == Spec => []LinkInv
<1>1. Init => LinkInv
  BY DEF Init, LinkInv
<1>2. TypeOK /\ LinkInv /\ [Next]_vars => LinkInv'
  <2> SUFFICES ASSUME TypeOK, LinkInv, [Next]_vars PROVE LinkInv'
    OBVIOUS
  <2>1. CASE UNCHANGED vars
    BY <2>1
       DEF vars, linkVars, pollVars, timeVars, others, LinkInv, Recent, Unkeying, Tuning
  <2> QED
    BY <2>1, ConnectionKeeps, PollerKeeps, TickKeeps, TuneKeeps DEF Next
<1> QED
  BY <1>1, <1>2, TypeCorrect, PTL DEF Spec

\* DeadCarrierBounded: the phone in the tunnel is unkeyed in bounded time, for
\* every timeout and whatever connects, asks, tunes or is released meanwhile,
\* the stores of frames and releases in any order; an armed check whose clock
\* such an order has zeroed is excepted, in the property itself.
THEOREM DeadCarrierEnds == Spec => []DeadCarrierBounded
<1>1. TypeOK /\ LinkInv => DeadCarrierBounded
  BY Ages, Constants DEF LinkInv, Recent, DeadCarrierBounded
<1> QED
  BY <1>1, TypeCorrect, LinkInvariant, PTL
=============================================================================
