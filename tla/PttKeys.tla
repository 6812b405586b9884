------------------------------ MODULE PttKeys ------------------------------
(***************************************************************************)
(* The operator's PTT key in the Qt client: the key in the window          *)
(* (client/src/ptt_hotkey.cpp), the same key system-wide                   *)
(* (client/src/global_hotkey.cpp), the on-screen toggle, and the requests  *)
(* Backend makes of them (client/src/backend.cpp).                         *)
(*                                                                         *)
(* Each request has a connection of its own and is not sent again, so it   *)
(* may overtake others or be lost, and so may its answer.  The host's      *)
(* watchdog behind all this is left out.  A carrier is known by what keyed *)
(* it.                                                                     *)
(***************************************************************************)
EXTENDS Naturals, SequencesExt

CONSTANTS
  HotKeys,    \* the keys of PttHotkeyChoices
  Nobody,     \* no key, and no one transmitting
  Meddles,    \* the PTT settings are also changed while a key is down
  MaxCalls    \* presses stop while this many requests are in flight

VARIABLES
  platform,   \* where the panel runs
  down,       \* the key the operator has a finger on
  focus,      \* the window is active
  win,        \* PttHotkey: key_, mode_, held_, toggled_on_
  glob,       \* GlobalHotkey: armed_, key_down_, hold_capable_; hold_limit_
  calls,      \* requests on their way to the host, the oldest first
  asks,       \* answers to togglePtt's read on their way back
  stray,      \* ghost: an unkey was lost or overtook its key, and none has
              \* put that right since
  keyed,      \* the rig: what keyed it, or Nobody
  snapTx      \* the TX the host last polled

keyVars == <<platform, down, focus>>
panelVars == <<win, glob>>
hostVars == <<keyed, snapTx>>
pttVars == <<keyVars, panelVars, calls, asks, stray, hostVars>>

Who == {"window", "global", "toggle"}
ASSUME PttAssumption ==
  Nobody \notin HotKeys \cup Who /\ Meddles \in BOOLEAN /\ MaxCalls \in Nat

\* An unkey and a read are the same whoever makes them.
Calls == [path : {"on", "off", "read"}, by : Who]

PttTypeOK ==
  /\ platform \in {"windows", "macos", "other"}
  /\ down \in HotKeys \cup {Nobody} /\ focus \in BOOLEAN
  /\ win \in [key : HotKeys, mode : {"hold", "toggle"}, held : BOOLEAN, latched : BOOLEAN]
  /\ glob \in [armed : BOOLEAN, down : BOOLEAN, hold : BOOLEAN, limit : BOOLEAN]
  /\ calls \in Seq(Calls) /\ asks \in Seq(BOOLEAN) /\ stray \in BOOLEAN
  /\ keyed \in Who \cup {Nobody} /\ snapTx \in BOOLEAN

----------------------------------------------------------------------------
(* Requests. *)

Sent(more) == calls' = calls \o more

\* Bound: no press while MaxCalls requests are in flight.
Room == Len(calls) + Len(asks) < MaxCalls

NoCall == <<>>
Key(who) == <<[path |-> "on", by |-> who]>>
Unkey == <<[path |-> "off", by |-> "toggle"]>>
Read == <<[path |-> "read", by |-> "toggle"]>>

\* PttHotkey::SetKey and SetMode say nothing about a key that is down.
AtRest == down = Nobody /\ ~win.held /\ ~glob.down

----------------------------------------------------------------------------
(* GlobalHotkey and its two slots in Backend. *)

\* Backend on Pressed.
Pressed ==
  /\ glob' = [glob EXCEPT !.down = TRUE, !.limit = @ \/ glob.hold]
  /\ Sent(IF glob.hold THEN Key("global") ELSE Read)

\* Mutant: the release is not passed on.
ReleasedSilent(hold) == NoCall

\* Backend on Released, with what the platform knows of releases by then.
Released(hold) == IF hold THEN Unkey ELSE NoCall
AfterRelease(g) == [g EXCEPT !.down = FALSE, !.limit = FALSE]

\* Unregister: a key held while the registration goes is said to go up.
Unregistered == IF glob.down THEN AfterRelease(glob) ELSE glob
Unregisters == IF glob.down THEN Released(glob.hold) ELSE NoCall

\* Apply on each platform; whether the key can be had is not ours to say.
Applied(g, ok) ==
  CASE platform = "windows" -> [g EXCEPT !.armed = ok, !.hold = @ \/ ok]
    [] platform = "macos"   -> [g EXCEPT !.armed = ok, !.hold = FALSE]
    [] OTHER                -> [g EXCEPT !.armed = FALSE, !.hold = FALSE]

\* The poll that stands for the release edge on Windows.
PollKeyState ==
  /\ platform = "windows" /\ glob.down /\ down = Nobody
  /\ glob' = AfterRelease(glob)
  /\ Sent(Released(glob.hold))
  /\ UNCHANGED <<keyVars, win, asks, stray, hostVars>>

\* hold_limit_, 150 s after the press.
LimitFires ==
  /\ glob.limit
  /\ glob' = [glob EXCEPT !.limit = FALSE]
  /\ Sent(Unkey)
  /\ UNCHANGED <<keyVars, win, asks, stray, hostVars>>

----------------------------------------------------------------------------
(* PttHotkey. *)

WindowPress ==
  IF win.mode = "hold"
  THEN /\ win' = [win EXCEPT !.held = TRUE]
       /\ Sent(IF win.held THEN NoCall ELSE Key("window"))
  ELSE /\ win' = [win EXCEPT !.latched = ~@]
       /\ Sent(IF win.latched THEN Unkey ELSE Key("window"))

EndsHold(k) == k = win.key /\ win.mode = "hold" /\ win.held
WindowRelease(k) == IF EndsHold(k) THEN [win EXCEPT !.held = FALSE] ELSE win
SaysRelease(k) == IF EndsHold(k) THEN Unkey ELSE NoCall

----------------------------------------------------------------------------
(* The operator. *)

\* The system takes a registered key before any window sees it.
PressAnywhere ==
  /\ Room /\ down = Nobody /\ glob.armed
  /\ down' = win.key
  /\ Pressed
  /\ UNCHANGED <<platform, focus, win, asks, stray, hostVars>>

PressInWindow ==
  /\ Room /\ down = Nobody /\ ~glob.armed /\ focus
  /\ down' = win.key
  /\ WindowPress
  /\ UNCHANGED <<platform, focus, glob, asks, stray, hostVars>>

\* The key comes up; a window without focus is not told.
KeyUp ==
  /\ down # Nobody
  /\ down' = Nobody
  /\ win' = IF focus THEN WindowRelease(down) ELSE win
  /\ Sent(IF focus THEN SaysRelease(down) ELSE NoCall)
  /\ UNCHANGED <<platform, focus, glob, asks, stray, hostVars>>

\* On macOS the system may report it, and the first report makes the key a
\* hold key.
KeyUpReported ==
  /\ platform = "macos" /\ down # Nobody /\ glob.armed
  /\ down' = Nobody
  /\ glob' = [Unregistered EXCEPT !.hold = TRUE]
  /\ Sent(IF glob.down THEN Released(TRUE) ELSE NoCall)
  /\ UNCHANGED <<platform, focus, win, asks, stray, hostVars>>

\* Mutant: only a held key counts.
LosesFocusHeld ==
  /\ focus /\ focus' = FALSE
  /\ win' = [win EXCEPT !.held = FALSE]
  /\ Sent(IF win.held THEN Unkey ELSE NoCall)
  /\ UNCHANGED <<platform, down, glob, asks, stray, hostVars>>

\* FocusLost.
LosesFocus ==
  /\ focus /\ focus' = FALSE
  /\ LET latch == win.mode = "toggle" /\ win.latched IN
       /\ win' = [win EXCEPT !.held = FALSE, !.latched = @ /\ ~latch]
       /\ Sent((IF win.held THEN Unkey ELSE NoCall)
                 \o (IF latch THEN Unkey ELSE NoCall))
  /\ UNCHANGED <<platform, down, glob, asks, stray, hostVars>>

GainsFocus ==
  /\ ~focus /\ focus' = TRUE
  /\ UNCHANGED <<platform, down, panelVars, calls, asks, stray, hostVars>>

\* togglePtt, from the button.
PressButton ==
  /\ Room /\ focus /\ Sent(Read)
  /\ UNCHANGED <<keyVars, panelVars, asks, stray, hostVars>>

\* setHotkeyIndex: both scopes, the registration anew.  The choosers are in the
\* window.
setHotkeyIndex(k) ==
  /\ focus /\ (Meddles \/ AtRest)
  /\ win' = [win EXCEPT !.key = k]
  /\ \E ok \in BOOLEAN : glob' = Applied(Unregistered, ok)
  /\ Sent(Unregisters)
  /\ UNCHANGED <<keyVars, asks, stray, hostVars>>

\* A latch that is on stays on.
setHotkeyHold(mode) ==
  /\ focus /\ (Meddles \/ AtRest)
  /\ win' = [win EXCEPT !.mode = mode]
  /\ UNCHANGED <<keyVars, glob, calls, asks, stray, hostVars>>

----------------------------------------------------------------------------
(* The host, and togglePtt's answer. *)

Obeys(c) ==
  /\ keyed' = CASE c.path = "off" -> Nobody
                [] c.path = "on" /\ keyed = Nobody -> c.by
                [] OTHER -> keyed
  /\ asks' = IF c.path = "read" THEN Append(asks, snapTx) ELSE asks

\* A key made before the i-th request is still on its way.
Overtakes(i) == \E j \in 1 .. i - 1 : calls[j].path = "on"

\* An unkey with no key left behind it ends whatever is up.
Strays(i) ==
  IF calls[i].path = "off"
  THEN /\ \E j \in 1 .. Len(calls) : calls[j].path = "on"
       /\ stray \/ Overtakes(i)
  ELSE stray

CallServed(i) ==
  /\ Obeys(calls[i]) /\ calls' = RemoveAt(calls, i) /\ stray' = Strays(i)
  /\ UNCHANGED <<keyVars, panelVars, snapTx>>

CallLost(i) ==
  /\ calls' = RemoveAt(calls, i) /\ stray' = (stray \/ calls[i].path = "off")
  /\ UNCHANGED <<keyVars, panelVars, asks, hostVars>>

CallLeaves(i) == CallServed(i) \/ CallLost(i)
OldestLeaves == calls # <<>> /\ CallLeaves(1)

HostPolls ==
  /\ snapTx' = (keyed # Nobody)
  /\ UNCHANGED <<keyVars, panelVars, calls, asks, stray, keyed>>

\* A read that failed is not acted on.
togglePtt(i) ==
  /\ asks' = RemoveAt(asks, i)
  /\ calls' \in {calls, calls \o (IF asks[i] THEN Unkey ELSE Key("toggle"))}
  /\ UNCHANGED <<keyVars, panelVars, stray, hostVars>>

----------------------------------------------------------------------------

PttInit ==
  /\ platform \in {"windows", "macos", "other"}
  /\ down = Nobody /\ focus = TRUE
  /\ win \in [key : HotKeys, mode : {"hold", "toggle"}, held : {FALSE}, latched : {FALSE}]
  /\ \E ok \in BOOLEAN :
       glob = Applied([armed |-> FALSE, down |-> FALSE, hold |-> FALSE, limit |-> FALSE], ok)
  /\ calls = <<>> /\ asks = <<>> /\ stray = FALSE /\ keyed = Nobody /\ snapTx = FALSE

PttNext ==
  \/ PressAnywhere \/ PressInWindow \/ KeyUp \/ KeyUpReported
  \/ LosesFocus \/ GainsFocus \/ PressButton
  \/ \E k \in HotKeys : setHotkeyIndex(k)
  \/ \E mode \in {"hold", "toggle"} : setHotkeyHold(mode)
  \/ PollKeyState \/ LimitFires \/ HostPolls
  \/ \E i \in 1 .. Len(calls) : CallLeaves(i)
  \/ \E i \in 1 .. Len(asks) : togglePtt(i)

----------------------------------------------------------------------------

\* A carrier a key put up has somebody who ends it: when the host has had
\* every request it is one the panel still means to end, the window's key held
\* or latched in its books, the system-wide one with its limit running.  Only
\* an unkey that was lost or that overtook its key leaves one behind, until the
\* next unkey is served.
SomeoneEndsIt ==
  calls = <<>> /\ ~stray =>
    /\ keyed = "window" => win.held \/ win.latched
    /\ keyed = "global" => glob.limit

\* The latch was on when the key was made a hold key: FocusLost looks at the
\* mode and leaves it.
Orphan == win.latched /\ win.mode = "hold"

HoldsEnd ==
  <>[](down = Nobody /\ ~win.latched /\ ~stray) => <>[](keyed \notin {"window", "global"})

UnfocusedUnkeys == <>[](~focus /\ ~Orphan /\ ~stray) => <>[](keyed # "window")

\* While no unkey is lost or overtakes its key, a carrier a key put up ends
\* without the host's watchdog.  A hold ends when the finger leaves the key,
\* whether or not the platform reports the release and wherever the focus goes;
\* and nothing the key in the window put up, a latch included, goes on behind a
\* window without the focus, unless the key was made a hold key meanwhile.
KeysEnd == HoldsEnd /\ UnfocusedUnkeys
=============================================================================
