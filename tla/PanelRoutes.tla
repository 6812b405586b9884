---------------------------- MODULE PanelRoutes ----------------------------
(***************************************************************************)
(* The routes a client works the radio with (InstallRoutes in              *)
(* src/src/api.cpp), the gates in front of them (src/src/http.cpp), what   *)
(* the host remembers between them (HostState in src/src/api.h), and the   *)
(* radio they reach, as the simulator answers for it (src/src/cat_sim.cpp).*)
(*                                                                         *)
(* Every request has a thread of its own.  Its handler queues jobs for the *)
(* poll thread, one by one, and reads the published snapshot; RadioPoller  *)
(* has the poll thread's own steps, here it runs a job whole.  Frequencies *)
(* are in kHz; volumes and the other values a command carries are small    *)
(* numbers; one flag (NB) stands for every switch the routes set, and PA   *)
(* for what they step round: preamplifier, AGC, antenna.                   *)
(***************************************************************************)
EXTENDS Integers, Sequences, FiniteSets

CONSTANTS
  Clients,    \* who sends requests, one at a time each
  Trusted,    \* those on the loopback listener
  Desks,      \* what may be pressed: the routes in use, and the line's health
  Loud,       \* the top of the AF gain
  MaxJobs,    \* bound on the length of the poll thread's queue
  MaxPresses  \* bound on the requests of one behaviour

ASSUME TrustedAssumption == Trusted \subseteq Clients
ASSUME LoudAssumption == Loud \in Nat \ {0, 1}
ASSUME PanelBounds == {MaxJobs, MaxPresses} \subseteq Nat

VARIABLES
  desk,     \* the member of Desks this behaviour is about
  call,     \* the request of each client
  mayTx,    \* can_transmit of the account behind each client
  host,     \* HostState: freq_buffer, pre_mute_af, vfo_locked
  mutex,    \* who holds HostState's mu across several steps
  jobs,     \* RadioPoller's tasks_
  radio,
  cache,    \* the published snapshot
  presses,  \* requests sent so far
  stepped,  \* ghost: the sum of the steps answered with "ok"
  told      \* ghost: the last answer read from the radio, and the truth

panelVars == <<desk, call, mayTx, host, mutex, jobs, radio, cache, presses,
               stepped, told>>

Nobody == "nobody"
NoCall == [at |-> "idle", go |-> "none", x |-> 0, todo |-> <<>>]

LSB == 1
USB == 2
CW == 3

\* The routes, in families.
RouteNames ==
  {"mode", "swap", "on", "off", "toggle", "cycle", "volume", "recall", "louder", "softer",
   "set", "up", "down", "a2b", "b2a", "quick", "key", "keytoggle", "unkey", "tune", "cw",
   "play", "cwstop", "remote", "status", "mute", "unmute", "mutetoggle", "digit", "erase",
   "send", "lock", "unlock", "locktoggle"}

\* What a panel sends a route: no negative number (the client's frequencies and
\* steps are none, though stoll would take them), a digit for a digit, a level
\* between the bottom and the top, where the handler would bring it anyway.
Fits(go, x) ==
  /\ go \in RouteNames /\ x \in Nat
  /\ go = "mode" => x \in {LSB, USB, CW}
  /\ go = "digit" => x \in 0 .. 9
  /\ go = "volume" => x \in 0 .. Loud
  /\ go = "remote" => x \in {0, 1}

ASSUME NobodyAssumption == Nobody \notin Clients
ASSUME DesksAssumption ==
  \A d \in Desks : d.lossy \in BOOLEAN /\ \A r \in d.routes : Fits(r.go, r.x)

Radio0 == [FA |-> 7200, FB |-> 7200, MD |-> LSB, VS |-> 0, ST |-> 0, TX |-> 0,
           NB |-> 0, PA |-> 0, AG |-> Loud, KM |-> 0, KY |-> 0,
           rear |-> 0, usb |-> 0]

\* A RigSnapshot in which nothing has been read.
NothingRead == [FA |-> 0, NB |-> 0, PA |-> 0, AG |-> 0, TX |-> 0]
Shown(r) == [FA |-> r.FA, NB |-> r.NB, PA |-> r.PA, AG |-> r.AG, TX |-> r.TX]

PanelInit ==
  /\ desk \in Desks
  /\ call = [c \in Clients |-> NoCall]
  /\ mayTx = [c \in Clients |-> TRUE]
  /\ host = [typed |-> <<>>, pre |-> Loud \div 2, locked |-> FALSE]
  /\ mutex = Nobody
  /\ jobs = <<>>
  /\ radio = Radio0 /\ cache = Shown(Radio0)
  /\ presses = 0
  /\ stepped = 0 /\ told = [said |-> "unknown", truth |-> "no"]

----------------------------------------------------------------------------
(* The radio. *)

\* SimulatedRig::Send.  A memory recall (MC) and the internal tuner (AC) are
\* not in the simulator: the first moves the dial, the second keys for a
\* while, as KY does.
Obeyed(cmd, r) ==
  CASE cmd[1] = "SV" -> [r EXCEPT !.FA = r.FB, !.FB = r.FA]
    [] cmd[1] = "MC" -> [r EXCEPT !.FA = cmd[2]]
    [] cmd[1] = "AC" -> [r EXCEPT !.KY = 1]
    [] OTHER -> [r EXCEPT ![cmd[1]] = cmd[2]]

\* The carrier of a tune or of the keyer ends by itself.
KeyerEnds ==
  /\ radio.KY = 1
  /\ radio' = [radio EXCEPT !.KY = 0]
  /\ UNCHANGED <<desk, call, mayTx, host, mutex, jobs, cache, presses,
                 stepped, told>>

----------------------------------------------------------------------------
(* Jobs: what a handler leaves for the poll thread. *)

Job(c, do, cmd) == [who |-> c, do |-> do, cmd |-> cmd]

\* ModeForFrequency.
ModeFor(khz) ==
  IF khz \in 5300 .. 5500 THEN USB
  ELSE IF khz \in 10100 .. 10150 THEN CW
  ELSE IF khz < 10000 THEN LSB ELSE USB

\* The two commands of every route that names a frequency.
Pair(c, khz) == <<Job(c, "write", <<"MD", ModeFor(khz)>>), Job(c, "write", <<"FA", khz>>)>>

Offset == 5

Bit(b) == IF b = 1 THEN "yes" ELSE "no"

\* What an Exchange may give back for the value v.
Reads(v) == {v} \cup (IF desk.lossy THEN {"lost"} ELSE {})

\* A line or a radio that is not well leaves a job's writes out: the reply the
\* job begins with is lost, or a menu write is ignored.
Dropped(r) == IF desk.lossy THEN {r} ELSE {}

\* Mutant: the new frequency is computed from the snapshot.
StepsFrom(r, khz) == {[r EXCEPT !.FA = IF cache.FA + khz < 0 THEN 0 ELSE cache.FA + khz]}

\* EnqueueTask's closures, from the first Exchange to the last Send.
Steps(r, khz) == {[r EXCEPT !.FA = IF @ + khz < 0 THEN 0 ELSE @ + khz]} \cup Dropped(r)

Copies(r, to) == {[r EXCEPT ![to] = IF to = "FB" THEN r.FA ELSE r.FB]} \cup Dropped(r)

QuickSplits(r) ==
  LET selected == Obeyed(<<"VS", 1>>, r)
      moved == Obeyed(<<"FA", r.FA + Offset>>, selected)
      back == Obeyed(<<"VS", 0>>, moved)
  IN {Obeyed(<<"ST", 1>>, back)} \cup Dropped(r)

\* The menu writes of remote-tx, each of which the radio may ignore.
Routes(r, on) ==
  {[r EXCEPT !.rear = a, !.usb = b] :
     a \in {on} \cup (IF desk.lossy THEN {r.rear} ELSE {}),
     b \in (IF on = 1 THEN {1} ELSE {r.usb}) \cup (IF desk.lossy THEN {r.usb} ELSE {})}

RadiosAfter(job, r) ==
  CASE job.do = "step"  -> Steps(r, job.cmd[2])
    [] job.do = "copy"  -> Copies(r, job.cmd[1])
    [] job.do = "quick" -> QuickSplits(r)
    [] job.do = "route" -> Routes(r, job.cmd[2])
    [] job.do = "ask"   -> {r}
    [] OTHER            -> {Obeyed(job.cmd, r)}

\* remote-tx answers whether the radio is as asked, and only if both items
\* were read; the status routes answer what was read.
Said(job, reads) ==
  IF job.do = "ask" THEN IF reads[1] = "lost" THEN "unknown" ELSE reads[1]
  ELSE IF "lost" \in {reads[1], reads[2]} THEN "unknown"
  ELSE IF job.cmd[2] = 1 THEN IF "no" \in {reads[1], reads[2]} THEN "no" ELSE "yes"
                         ELSE IF reads[1] = "yes" THEN "no" ELSE "yes"

Truth(job, r) ==
  IF job.do = "ask" THEN Bit(r.KY)
  ELSE Bit(IF job.cmd[2] = 1 THEN r.rear * r.usb ELSE 1 - r.rear)

Items(job, r) == IF job.do = "ask" THEN <<Bit(r.KY), Bit(r.KY)>> ELSE <<Bit(r.rear), Bit(r.usb)>>

Asking(job) == job.do \in {"route", "ask"}

\* DrainQueue runs the first job whole.  A handler that is still waiting for
\* what it read answers with that and with nothing else.
Serve ==
  /\ jobs # <<>>
  /\ jobs' = Tail(jobs)
  /\ LET job == Head(jobs) IN
     \E r \in RadiosAfter(job, radio) :
       /\ radio' = r
       /\ IF Asking(job) /\ job.who # Nobody
          THEN \E a \in Reads(Items(job, r)[1]), b \in Reads(Items(job, r)[2]) :
                 /\ told' = [said |-> Said(job, <<a, b>>), truth |-> Truth(job, r)]
                 /\ call' = [call EXCEPT ![job.who] = NoCall]
          ELSE UNCHANGED <<told, call>>
  /\ UNCHANGED <<desk, mayTx, host, mutex, cache, presses, stepped>>

\* PollOnce, when the queue has been drained.
Polls ==
  /\ jobs = <<>>
  /\ cache' \in {Shown(radio)} \cup (IF desk.lossy THEN {NothingRead} ELSE {})
  /\ UNCHANGED <<desk, call, mayTx, host, mutex, jobs, radio, presses, stepped, told>>

----------------------------------------------------------------------------
(* The gates, in GenericHandler's order.  Every client here has a session, *)
(* or needs none, so the first gate lets it pass.                          *)

Arrives(c, r) ==
  /\ call[c].at = "idle" /\ presses < MaxPresses
  /\ presses' = presses + 1
  /\ call' = [call EXCEPT ![c] = [at |-> "lock", go |-> r.go, x |-> r.x, todo |-> <<>>]]
  /\ UNCHANGED <<desk, mayTx, host, mutex, jobs, radio, cache, stepped, told>>

Goes(c, at) == call' = [call EXCEPT ![c].at = at]

\* Mutant: the step routes were left out of the prefixes.
BlockedUnstepped(go) == go \in {"send", "erase", "swap", "quick", "set", "digit"}

\* kVfoLockBlockedExact and kVfoLockBlockedPrefix: the copies between the VFOs
\* and the memory recall are in neither.
Blocked(go) == go \in {"send", "erase", "swap", "quick", "set", "digit", "up", "down"}

LockGate(c) ==
  /\ call[c].at = "lock" /\ mutex = Nobody
  /\ IF host.locked /\ Blocked(call[c].go)
     THEN call' = [call EXCEPT ![c] = NoCall] ELSE Goes(c, "rights")
  /\ UNCHANGED <<desk, mayTx, host, mutex, jobs, radio, cache, presses, stepped, told>>

\* Mutant: the tuners are not in the list.
IsTransmitRouteUntuned(go) == go \in {"key", "keytoggle", "cw", "play"}

\* Mutant: all of /api/ptt is in the list.
IsTransmitRoutePtt(go) == go \in {"key", "keytoggle", "unkey", "tune", "cw", "play"}

IsTransmitRoute(go) == go \in {"key", "keytoggle", "tune", "cw", "play"}

RightsGate(c) ==
  /\ call[c].at = "rights"
  /\ IF c \notin Trusted /\ IsTransmitRoute(call[c].go) /\ ~mayTx[c]
     THEN call' = [call EXCEPT ![c] = NoCall] ELSE Goes(c, "handler")
  /\ UNCHANGED <<desk, mayTx, host, mutex, jobs, radio, cache, presses, stepped, told>>

\* An administrator takes the right away; the live session has it no longer.
\* Nothing but the transmit routes looks at it.
Revokes(c) ==
  /\ mayTx[c] /\ \E r \in desk.routes : IsTransmitRoute(r.go)
  /\ mayTx' = [mayTx EXCEPT ![c] = FALSE]
  /\ UNCHANGED <<desk, call, host, mutex, jobs, radio, cache, presses, stepped, told>>

----------------------------------------------------------------------------
(* The handlers.  Handles(c) is the part of a handler up to its first      *)
(* Enqueue: it reads the cache and HostState and fixes what is queued.     *)

\* What typing means: up to three digits are MHz, the last three of more are kHz.
Number(ds) ==
  LET Value[i \in 0 .. Len(ds)] == IF i = 0 THEN 0 ELSE 10 * Value[i - 1] + ds[i]
  IN Value[Len(ds)]
Typed(ds) == IF Len(ds) <= 3 THEN Number(ds) * 1000 ELSE Number(ds)

\* Mutant: the top of the range is not looked at.
WithinBelow(v) == IF v < 0 THEN 0 ELSE v

Within(v) == IF v < 0 THEN 0 ELSE IF v > Loud THEN Loud ELSE v

\* What a route queues, by family; nothing for a route of another one.  These
\* name a mode or exchange the VFOs.
Selects(c, go, x) ==
  CASE go = "mode" -> <<Job(c, "write", <<"MD", x>>)>>
    [] go = "swap" -> <<Job(c, "write", <<"SV", 0>>)>>
    [] OTHER       -> <<>>

\* A switch is set, or turned round from the snapshot, as old as it is.
Switches(c, go) ==
  CASE go = "on"     -> <<Job(c, "write", <<"NB", 1>>)>>
    [] go = "off"    -> <<Job(c, "write", <<"NB", 0>>)>>
    [] go = "toggle" -> <<Job(c, "write", <<"NB", 1 - cache.NB>>)>>
    [] OTHER         -> <<>>

Cycles(c, go) ==
  IF go = "cycle" THEN <<Job(c, "write", <<"PA", (cache.PA + 1) % 3>>)>> ELSE <<>>

\* A value comes with the request, or from the snapshot.
Values(c, go, x) ==
  CASE go = "volume" -> <<Job(c, "write", <<"AG", x>>)>>
    [] go = "recall" -> <<Job(c, "write", <<"MC", x>>)>>
    [] OTHER         -> <<>>

Nudges(c, go) ==
  CASE go = "louder" -> <<Job(c, "write", <<"AG", Within(cache.AG + 1)>>)>>
    [] go = "softer" -> <<Job(c, "write", <<"AG", Within(cache.AG - 1)>>)>>
    [] OTHER         -> <<>>

\* A frequency or a band, and a step from wherever the dial is.
Dials(c, go, x) == IF go = "set" THEN Pair(c, x) ELSE <<>>

Turns(c, go, x) ==
  CASE go = "up"   -> <<Job(c, "step", <<"FA", x>>)>>
    [] go = "down" -> <<Job(c, "step", <<"FA", 0 - x>>)>>
    [] OTHER       -> <<>>

Compounds(c, go) ==
  CASE go = "a2b"   -> <<Job(c, "copy", <<"FB", 0>>)>>
    [] go = "b2a"   -> <<Job(c, "copy", <<"FA", 0>>)>>
    [] go = "quick" -> <<Job(c, "quick", <<"FA", 0>>)>>
    [] OTHER        -> <<>>

\* The toggle keys or unkeys as the snapshot has it.
Ptt(c, go) ==
  IF go = "unkey" \/ (go = "keytoggle" /\ cache.TX = 1)
  THEN <<Job(c, "unkey", <<"TX", 0>>)>>
  ELSE IF go \in {"key", "keytoggle"} THEN <<Job(c, "write", <<"TX", 1>>)>> ELSE <<>>

InternalTune(c, go) == IF go = "tune" THEN <<Job(c, "write", <<"AC", 0>>)>> ELSE <<>>

\* A text is put into memory 1 and that memory is played; or one is played.
Keyer(c, go, x) ==
  CASE go = "cw"     -> <<Job(c, "write", <<"KM", x>>), Job(c, "write", <<"KY", 1>>)>>
    [] go = "play"   -> <<Job(c, "write", <<"KY", 1>>)>>
    [] go = "cwstop" -> <<Job(c, "write", <<"KY", 0>>)>>
    [] OTHER         -> <<>>

RemoteTx(c, go, x) == IF go = "remote" THEN <<Job(c, "route", <<"EX", x>>)>> ELSE <<>>

AsksRadio(c, go) == IF go = "status" THEN <<Job(c, "ask", <<"EX", 0>>)>> ELSE <<>>

Queueing(c, todo) == call' = [call EXCEPT ![c].at = "queue", ![c].todo = todo]

Handles(c) ==
  /\ call[c].at = "handler"
  /\ LET go == call[c].go
         x == call[c].x
         todo == Selects(c, go, x) \o Switches(c, go) \o Cycles(c, go) \o Values(c, go, x)
                 \o Nudges(c, go) \o Dials(c, go, x) \o Turns(c, go, x) \o Compounds(c, go)
                 \o Ptt(c, go) \o InternalTune(c, go) \o Keyer(c, go, x) \o RemoteTx(c, go, x)
                 \o AsksRadio(c, go)
     IN todo # <<>> /\ Queueing(c, todo)
  /\ UNCHANGED <<desk, mayTx, host, mutex, jobs, radio, cache, presses, stepped, told>>

\* The level a mute keeps for the unmute.
Remembers == IF cache.AG > 0 THEN cache.AG ELSE host.pre

\* mute_group's set holds the lock from the snapshot to the Enqueue; toggle
\* takes it after it has decided, and set reads the snapshot again.
Decides(c) ==
  /\ call[c].at = "handler" /\ call[c].go = "mutetoggle"
  /\ call' = [call EXCEPT ![c].go = IF cache.AG = 0 THEN "unmute" ELSE "mute"]
  /\ UNCHANGED <<desk, mayTx, host, mutex, jobs, radio, cache, presses, stepped, told>>

Mutes(c) ==
  /\ call[c].at = "handler" /\ call[c].go \in {"mute", "unmute"} /\ mutex = Nobody
  /\ mutex' = c
  /\ host' = [host EXCEPT !.pre = IF call[c].go = "mute" THEN Remembers ELSE @]
  /\ Queueing(c, <<Job(c, "write", <<"AG", IF call[c].go = "mute" THEN 0 ELSE host.pre>>)>>)
  /\ UNCHANGED <<desk, mayTx, jobs, radio, cache, presses, stepped, told>>

Done(c) == call' = [call EXCEPT ![c] = NoCall]

\* The routes that only change what the host remembers.
Keeps(c) ==
  /\ call[c].at = "handler" /\ mutex = Nobody
  /\ \/ call[c].go = "digit" /\ host' = [host EXCEPT !.typed = Append(@, call[c].x)]
     \/ call[c].go = "erase"
        /\ host' \in {[host EXCEPT !.typed = <<>>],
                      [host EXCEPT !.typed = IF @ = <<>> THEN @ ELSE SubSeq(@, 1, Len(@) - 1)]}
     \/ call[c].go = "lock" /\ host' = [host EXCEPT !.locked = TRUE]
     \/ call[c].go = "unlock" /\ host' = [host EXCEPT !.locked = FALSE]
     \/ call[c].go = "locktoggle" /\ host' = [host EXCEPT !.locked = ~@]
  /\ Done(c)
  /\ UNCHANGED <<desk, mayTx, mutex, jobs, radio, cache, presses, stepped, told>>

\* freq/send reads the buffer here and clears it when the pair is queued.
SendsTyped(c) ==
  /\ call[c].at = "handler" /\ call[c].go = "send" /\ mutex = Nobody
  /\ IF host.typed = <<>> THEN Done(c) ELSE Queueing(c, Pair(c, Typed(host.typed)))
  /\ UNCHANGED <<desk, mayTx, host, mutex, jobs, radio, cache, presses, stepped, told>>

ClearsTyped(c) ==
  /\ call[c].at = "clear" /\ mutex = Nobody
  /\ host' = [host EXCEPT !.typed = <<>>]
  /\ Done(c)
  /\ UNCHANGED <<desk, mayTx, mutex, jobs, radio, cache, presses, stepped, told>>

\* One Enqueue; after the last one the handler answers, clears what was sent,
\* or waits for what the job reads.
Queues(c) ==
  /\ call[c].at = "queue" /\ Len(jobs) < MaxJobs
  /\ LET job == Head(call[c].todo)  rest == Tail(call[c].todo) IN
     /\ jobs' = Append(jobs, job)
     /\ stepped' = stepped + (IF job.do = "step" THEN job.cmd[2] ELSE 0)
     /\ IF rest # <<>> THEN call' = [call EXCEPT ![c].todo = rest]
        ELSE call' = [call EXCEPT ![c] =
               IF @.go = "send" THEN [NoCall EXCEPT !.at = "clear", !.go = "send"]
               ELSE IF Asking(job) THEN [NoCall EXCEPT !.at = "wait", !.go = call[c].go]
               ELSE NoCall]
  /\ mutex' = IF mutex = c THEN Nobody ELSE mutex
  /\ UNCHANGED <<desk, mayTx, host, radio, cache, presses, told>>

\* Three seconds, or 800 ms.  The job stays queued and runs; what it reads is
\* for nobody.
GivesUpWaiting(c) ==
  /\ call[c].at = "wait"
  /\ jobs' = [i \in DOMAIN jobs |->
                IF jobs[i].who = c /\ Asking(jobs[i]) THEN [jobs[i] EXCEPT !.who = Nobody]
                ELSE jobs[i]]
  /\ told' = [told EXCEPT !.said = "unknown"]
  /\ Done(c)
  /\ UNCHANGED <<desk, mayTx, host, mutex, radio, cache, presses, stepped>>

----------------------------------------------------------------------------

Handler(c) ==
  \/ LockGate(c) \/ RightsGate(c)
  \/ Handles(c) \/ Decides(c) \/ Mutes(c) \/ Keeps(c) \/ SendsTyped(c) \/ ClearsTyped(c)
  \/ Queues(c) \/ GivesUpWaiting(c)

PanelNext ==
  \/ \E c \in Clients : (\E r \in desk.routes : Arrives(c, r)) \/ Handler(c) \/ Revokes(c)
  \/ Serve \/ Polls \/ KeyerEnds

----------------------------------------------------------------------------
(* Properties. *)

PanelTypeOK ==
  /\ desk \in Desks
  /\ \A c \in Clients :
       /\ call[c].at \in {"idle", "lock", "rights", "handler", "queue", "clear", "wait"}
       /\ (call[c].at = "queue") = (call[c].todo # <<>>)
  /\ mayTx \in [Clients -> BOOLEAN]
  /\ host.pre \in 0 .. Loud /\ host.locked \in BOOLEAN /\ host.typed \in Seq(0 .. 9)
  /\ mutex \in Clients \cup {Nobody}
  /\ Len(jobs) <= MaxJobs
  /\ radio.AG \in 0 .. Loud /\ radio.FA \in Nat /\ radio.MD \in {LSB, USB, CW}
  /\ mutex # Nobody => call[mutex].at = "queue"

\* The routes that move the dial.
Tuning == {"send", "swap", "quick", "set", "up", "down"}
Moving(job) ==
  \/ job.do \in {"step", "quick"}
  \/ job.do = "write" /\ job.cmd[1] \in {"FA", "SV"}

\* The lock is on, and what was on its way when it was put on has arrived.
LockSettled ==
  /\ host.locked
  /\ \A c \in Clients : call[c].go \in Tuning => call[c].at = "lock"
  /\ \A i \in DOMAIN jobs : ~Moving(jobs[i])

\* The software VFO lock (SetSecondGate): once it has settled the dial stays
\* where it is, whoever presses what, until somebody unlocks; a copy of B to A
\* and a memory recall are the two ways round it.
LockHolds ==
  [][LockSettled /\ host'.locked
       => /\ LockSettled'
          /\ radio'.FA # radio.FA => Head(jobs).do = "copy" \/ Head(jobs).cmd[1] = "MC"]_panelVars

Keying(job) == job.do = "write" /\ job.cmd \in {<<"TX", 1>>, <<"AC", 0>>, <<"KY", 1>>}

\* An account whose transmit right is gone, with nothing of its own on the way.
Silenced(c) ==
  /\ ~mayTx[c] /\ c \notin Trusted
  /\ \A i \in DOMAIN jobs : jobs[i].who = c => ~Keying(jobs[i])
  /\ \A i \in DOMAIN call[c].todo : ~Keying(call[c].todo[i])
  /\ call[c].go \in {"key", "keytoggle", "tune", "cw", "play"} => call[c].at \in {"lock", "rights"}

\* IsTransmitRoute and the rights gate: an account without the transmit right
\* puts no carrier on the air by any of the routes that key - once what it had
\* on its way has run, nothing of its own starts one.
RightToTransmit == [][\A c \in Clients : Silenced(c) => Silenced(c)']_panelVars

\* The unkey routes are refused to nobody, with or without the right and while
\* the dial is locked: after a press the transmitter stops.
UnkeyIsObeyed == (\E c \in Clients : call[c].go = "unkey") ~> radio.TX = 0

StepsAddUp ==
  ~desk.lossy /\ (\A r \in desk.routes : r.go \in {"up", "down"}) /\ jobs = <<>>
    => radio.FA = Radio0.FA + stepped

AnswersAreTrue == told.said \in {"unknown", told.truth}

UnmuteIsHeard == host.pre > 0

\* A press does what it says, though handlers decide from a cache that is a
\* cycle old.  Steps are read, changed and written on the poll thread, so
\* clicks that arrive faster than it polls are all counted; what remote-tx and
\* the status routes say was so on the radio when it was read, or they say
\* that they do not know; and unmuting gives a level that can be heard,
\* however often mute was pressed before.
PanelKeepsWord == StepsAddUp /\ AnswersAreTrue /\ UnmuteIsHeard
=============================================================================
