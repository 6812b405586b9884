# HamDeck verification

TLA+ models of HamDeck, with the TLC runs that check them and the TLAPS proofs
about them. HamDeck is a station host in C++ (`src/src`) that shares one FTDX-101
radio between a local panel, remote clients (`src/client`, Qt), a logger over TCP
and a Wavelog helper (`src/pusher`, Python). It keys a transmitter that nobody may
be standing next to, so most of what is worth verifying is about one bit: is the
rig transmitting, who asked for that, and what will end it.

Paths below are relative to the repository root, where the host's own sources are
in `src/`, the client's in `client/src/`, the helper's in `pusher/`.

## 1. Inventory

### Threads and how they interact

| thread | code | talks to |
|---|---|---|
| poll thread | `RadioPoller::PollLoop` (`radio.cpp`) | the only one on the serial port; calls the `OnPoll` callback (recorder, dead-link check, statistics) |
| HTTP workers | `api.cpp`, `http.cpp` | push tasks on the poller's queue, read its snapshot, call `TxAudioReceiver`, `Recorder`, `AuthService` |
| `/ws/tx`, `/ws` connection threads | `api.cpp` | `TxAudioReceiver`, `RxAudioStream` |
| tuner workers | `amp_tuner.cpp`, `tgxl.cpp` | push tasks, read the snapshot |
| CAT proxy clients | `cat_proxy.cpp` | push tasks and wait up to 3 s for the reply |
| RX capture and RX sender | `audio.cpp` | feed the recorder and the clients |
| TX pump | `tx_audio.cpp` | empties the transmit queue into the sound device |
| main | `main.cpp` | starts all of this; at a signal stops it in order and unkeys |

Handlers never wait for the rig except where they say so (`/api/ptt/off` sleeps as
a task, `/api/admin/unkey` waits two seconds, the proxy and remote-tx three).
Everything that reads the rig reads the poller's cached snapshot, which is up to a
cycle old; a failed cycle publishes a blank one. The client and the helper are
programs of their own: they see the host's answers, which may be late, lost or
overtaken.

### Components

| component | state | operations | what makes it correct | module |
|---|---|---|---|---|
| Rig poller and CAT queue (`radio.cpp`) | `tasks_`, `full_dirty_`, `cycle_`, `snap_`, `was_tx_`, `keyed_since_` | Enqueue, EnqueueTask, DrainQueue, PollOnce, PollFull, CheckWatchdog, Stop | one thread on the port; requests whole and in order; every carrier ends; slow fields are re-read | `RadioPoller`, `SerialRig` |
| Shutdown (`main.cpp:480-511`, `UnkeyAndConfirm`) | `was_keyed`, the deadline | stop listeners, stop poller, unkey, confirm | a confirmation is true; it ends | `HostShutdown` |
| Transmit link (`tx_audio.cpp`, `/ws/tx`, `main.cpp:353-383`) | `holder_`, `queue_`, `link_armed_`, `last_frame_ms_`, `claims` | open, data, close, claim, release, dead-link check, `/api/admin/unkey` | a claim dies with its connection; a dead client's carrier ends; a close hands the station back | `TransmitLink` |
| Tuners (`amp_tuner.cpp`, `tgxl.cpp`) | `active_`, `stop_`, the worker's saved settings | press to start, press to stop, worker | every exit unkeys and restores | `Tuners` |
| Recorder (`recorder.cpp`, `qso_record.cpp`) | `file_`, `overs_`, provenance; `active_`, `deadline_`, `start_freq_` | Start, Stop, Feed, NoteOver, Observe | a recording has an owner, ends, and its sidecar says the truth | `Recording` |
| Accounts (`auth.cpp`, admin routes, `config.cpp` Save and Load) | users, sessions, the mirror, the file | Login, Validate, logout, the admin routes, save, restart | no session of an account that is gone or changed; an administrator is left; a process that dies leaves a file that holds what was acknowledged | `Accounts` |
| HTTP routes and gates (`api.cpp`, `transmit_routes.cpp`, `http.cpp`) | `HostState`, the lists of routes | some 150 routes | gates in their order; the lock holds; nobody without the right keys; answers are true | `PanelRoutes` |
| CAT proxy (`cat_proxy.cpp`) | the pending text, the promise, client threads | accept, split, forward, time out, Stop | a command runs once and in order, its answer is its own; Stop ends | `CatProxy` |
| Serial exchange (`serial_cat.cpp`) | the line's backlog | flush, send, match | a reply is never that of another command | `SerialExchange` |
| TX buffering (`tx_audio.cpp` Pump, `alsa_audio.cpp`) | target, pre-roll, queue, device | Accept, Pump, underrun, failure | what arrives in order goes out in order; never silent for ever | `TxBuffer`, `AudioPipe` |
| RX fan-out (`audio.cpp`, `http.cpp`) | bounded queue, clients | produce, send, add, remove | order, bounded delay, one slow client | `RxStream`, `AudioPipe` |
| Session statistics (`session_stats.cpp`) | counters, edges | Observe, Reset, report | counts follow the rig | `SessionStats` |
| Client keys (`ptt_hotkey.cpp`, `global_hotkey.cpp`, `backend.cpp`) | `held_`, `toggled_on_`, the limit | press, release, focus, toggle, settings | what was keyed is ended | `PttKeys` |
| Client drive test (`backend.cpp`, `tx_audio.cpp`) | the test, gain, source, `keyed_`, `was_tx_` | status, arm, sweep, voice check, unkey and verify | a test ends, unkeyed, with the settings put back | `DriveTest` |
| Wavelog helper (`pusher`) | candidate, published, clocks, session | tick, decide, post, log in | only settled readings, never against an operator, and the log catches up | `Pusher` |
| Simulator, ALSA capture, calibration, CW text, log, admin page, client shell, tests, packaging | | | | see section 8 |

The hazards, each at its line, with the property that would catch it or the reason
none does, are in `PROJECT.json`. They are of these kinds: HTTP workers and the poll
thread on cached state (stale reads before a save, a toggle, a shutdown); claims and
releases that cross; lost, late and overtaken commands, replies and posts; silence
that looks like health (no FIN); early returns that skip a step; two thresholds of
which one is never reached; and exits that depend on another thread ending.

## 2. Modules

| module | models | composes |
|---|---|---|
| `SerialRig` | abstract: what the single queue promises, requests whole and in order | |
| `RadioPoller` | the poll thread, its queue, the watchdog, the line | implements `SerialRig` |
| `HostShutdown` | the end of `main` and `UnkeyAndConfirm` | `RadioPoller` |
| `RigMC` | three instances of the two | `HostShutdown` |
| `TransmitLink` | `/ws/tx`, the claim, the dead-link check, the hand-back | a coarse poll thread of its own |
| `Tuners` | both tune workers | a coarse poll thread of its own |
| `Recording` | the recorder, `QsoRecorder`, the record routes | what a poll reports, as an input |
| `Accounts` | users, sessions, admin routes, mirror, file, start | |
| `PanelRoutes` | the routes, their gates, `HostState`, what the radio does | jobs run whole |
| `SerialExchange` | one exchange on a line whose answers come late or never | |
| `CatProxy` | the proxy's threads and `Stop` | `SerialExchange`, a coarse poll thread |
| `AudioPipe` | abstract: a pipe that may drop and neither reorders nor repeats | |
| `TxBuffer`, `RxStream` | the transmit and the receive audio path | each refines `AudioPipe` |
| `PttKeys`, `DriveTest` | the client's keys and its drive test | a coarse host |
| `Pusher`, `SessionStats` | the helper; the statistics | |
| `*MC` | instances for TLC | `DoorsMC`, `AudioMC`, `ClientMC`, `ObserversMC` put two modules side by side; `ClientOwnMC` puts the drive test next to somebody else's over |
| `*Proofs` | the theorems about the module they are named for | |

Where two modules share no state, one MC module runs either: a behaviour picks one at
the start and the other rests in a single initial state, so that one run asks all
questions about a side of the system without multiplying their states. `RigMC` and
`TransmitLinkMC` do the same with instances of one module that differ in their constants
(`regime`): a reliable line for the watchdog's bound, one that loses replies for the
order of tasks; claims, a stream that dies, tunes. In `AccountsMC` the regimes are one
request in full, or two at once. `Tuners` has its circumstances in a variable of its
own, which no step changes.

Definitions marked `\* Mutant:` are plausible bugs of the definition that follows
them; the specification does not use them. Replacing the definition by its mutant
makes TLC report the property that `PROJECT.json` names beside it.

### RadioPoller

`pc` follows `PollLoop`: `drain` (DrainQueue, one step for each pop and for each
CAT write, so that the radio's operator, callers and time come between), `id`,
`fast`, `slow`, `watchdog`, `publish`, `sleep`. `Enqueue` and `MarkDirty` are two
steps because the code pushes under `queue_mu_` and stores `full_dirty_` after the
lock is released. `PollIdLost` is the early return of a cycle in which `ID;` is not
answered: it publishes a blank snapshot, skips the watchdog and does not count as a
cycle. `Scheduled`/`PollFull`/`CarryForward` keep the short-circuit of
`cycle_ % kFullEveryNCycles == 0 || full_dirty_.exchange(false)`: a scheduled cycle
leaves the flag set.

Four fields stand for the sixty of a snapshot: `TX`; `FA` and `FB`, fast fields that
compound tasks change together; `NB` for the slow set. A read that gets no answer
leaves the field's default, never the old value; a lost command leaves the rig as it
was. `LossyReads`, `LossyWrites` and `MissedPolls` (a whole cycle unanswered) switch
these on. Times are kept as ages in ticks (`carrier`, `held`, `gap`), not dates.

`Queue` is the refinement mapping to `SerialRig`: the abstract rig is the real one with
what is left of the task in hand already applied (`Line!Apply(task, rig)`), so that a
task takes effect whole when it is popped, and `ServesInOrder` is `Queue!Spec`.

### HostShutdown

`main`'s steps in their order, over `RadioPoller` unchanged. `HostCallers` are the
handlers, until the listeners have stopped, and the tuner workers and proxy threads
(`LateRequests`), which outlive them. `restVars` says what the main thread's own
writes to the rig leave alone. The watchdog and time are left out (`Limit = 0`): the
question here is order, and the sequence takes seconds against a limit of minutes.

### TransmitLink

A connection is followed through the two steps of `on_open` (the claim succeeds, the
`claims` map is written) and those of `on_close` (the entry is erased, the claim
released, the hand-back queued), since each is under a lock of its own. Frames are
accepted as the code does: from any connection, without asking who holds the claim.
`Accept` stores the clock and then the armed flag without the receiver's lock
(`Frame`, `FrameArms`; `stamping`), and a `Release` clears the flag and then the clock
under it (`CloseReleases`, `CloseZeroes` and their like; `Locked`), so that the two may
cross. Time stands still between the two stores of either (`Tick`).
`sees` is what the Qt client knows of the rig; it sends frames only while its last
status said keyed (`client/src/backend.cpp:42`). `LinkDies` is a network that goes
without a FIN. Of a tune only what the check can tell is here: it is active
(`amp.IsActive() || tgxl.IsActive()`) before it queues its key and until after it has
queued its unkey, or is stopped before it keys; its inside is in `Tuners`. Every task is
one step of the poll thread.

### Tuners

One worker for each tuner with the union of their steps: `Save`, `SetPower`,
`SetMode`, `CheckStop`, `Connect` (TGXL only), `KeyUp`, `CarrierEnds`, `KeyDown`,
`PowerBack`, `ModeBack`, `Done`. How long the carrier stays and which answer of the
antenna tuner ends it are abstracted to "it ends"; `kOverallLimitMs` and `kCarrierMs`
bound it. `home` is a ghost: the settings a tune is to leave behind, which the amplifier
tune changes to 100 W. `ModeName` and `ModeCode` are translated as they are,
not as each other's inverse.

### Recording

`Observe` is split where it takes the recorder's mutex: the start, the noting of an
over, the stop. In between the audio thread may feed and close the file at the
ceiling, and a handler may start and stop. Each cycle reports any reading the poller
can produce, a failed one being `(false, 0, false)`. `quiet` is the time since
`deadline_` was pushed out; `StartFails` is the early return that does not note
the over.

### Accounts

A password is the hash made of it, and every hash is new (salts). A login is three
steps, as `Login` gives the lock up while it derives: `LoginReads`, then
`LoginOvertaken` or `LoginIssues`/`LoginUnlucky`. An admin request goes through the
administrator's session, the look at the target and the count of administrators (`Look`,
`Count`: two locks), the change (a third), then the save: the mirror is cleared and
filled row by row (`List`, `Row`), the temporary file is written, then renamed over the
old one. `Restart` may come at any step: it loads what is on disk and adds the account
of `HAMDECK_ADMIN_HASH`. It stands for a process that dies and not for a power cut: the
file is what the running system shows. `typed` is a name that came in another case than
it is stored in, which `ListUsers` is searched for as it is and `RemoveUser` and the
setters lower. `acked`, `failed` and `sole` are ghosts: the users of the last change
that was answered "ok", whether one was answered otherwise, and whether no other request
has changed an account since this one's look; a session's `by` is what it was opened
with.

### PanelRoutes

A request goes through the VFO lock's gate (`lock`), the rights gate (`rights`), its
handler, and then queues its jobs one by one (`queue`), since every `Enqueue` takes the
queue's lock anew; `wait` is the future remote-tx and the status routes wait for.
`mutex` is `HostState::mu` for the handlers that hold it. `Serve` is the poll thread
running one job whole, `Obeyed` what the radio does with a command, translated from
the simulator. `Polls` is a poll: until then handlers see the old snapshot. A desk is
a group of routes pressed together (tuning, splits, typing, PTT, CW, toggles, remote,
mute); nine of them cover every route of the model. One switch stands for the thirty
that differ in their two letters.

### SerialExchange and CatProxy

A reply is known by the command it answers. The radio owes answers and gives them in
order, when it likes or never. `Ask` throws away what has arrived; what arrives
later is still there for the next search, which goes by the letters. A logger's bytes
come in two pieces, the second with the `;`. A client thread that has queued its
command waits for the promise or the time-out; the task stays in the queue either way,
and fulfils a promise nobody may be waiting for.

### TxBuffer, RxStream, AudioPipe

`Pump` is one pass of the pump thread: the adaptive target after an underrun (`Grow`)
or a quiet spell (`Decay`), the pre-roll after a dry device, the moves up to the
target. The device plays once it holds its own `Threshold`, may run dry, and may
fail, which leaves the null sink. `RxStream` has the producer with its queue that
drops the oldest, the sender's copy of the client list and its sends one by one, and
a client's open, config frame, stall, close and removal as the threads of `http.cpp`
make them. Both are shown to implement `AudioPipe`: `Transit` (`InTransit`) is what is
on its way, oldest first, and a step may drop any of it, append one, or let the listener hear
the next. `Accept` takes a frame of any connection at any time, with or without a claim,
and `Release` empties the queue but neither the pump's hand nor the device: the pipe is
about order, and does not tell speakers apart.

### PttKeys and DriveTest

`PttKeys` has the window's key (`PttHotkey`), the system-wide one (`GlobalHotkey`, on a
platform that reports releases and on one where `PollKeyState` looks), the button,
focus, the limit of a hold, and the requests. Each travels on a connection of its own
and is not sent again (`api_client.cpp:76`), so it may overtake others or be lost
(`CallLeaves`), and so may an answer to `togglePtt`'s read. `stray` is a ghost: an unkey
was lost, or was served before a key made earlier, and none has been served since with
no key behind it. `down` is what the operator's finger really does. `DriveTest` has the
status handler (`StatusUpdated`), arming, the microphone, the sweep (`startToneSweep`,
`TickSweep`), the voice check, `EndDriveTest` with all its callers, and
`UnkeyAndVerify`; requests are a bag, so they may be lost and overtake one another. The
microphone may be refused (`Opened`) and stays open over a link that is lost. What feeds
the link (`sources`) is settled when it opens, with `Arm` and the host's config taken as
one step, and a change of the tone flag later leaves it as it is; `GoesOut` is what goes
out while keyed. `rearmed` is a ghost: the link that is up was opened while a sweep ran.
The operator's own tone flag comes from the command line and does not change.

### Pusher and SessionStats

`Pusher` follows `Runner.tick`: log in if needed, read the status, read
`/api/remote/status`, decide, post. A ghost is a session of an earlier login of the
pusher itself, which the host still lists. A post may be refused, lost, or time out
and be applied later (`late`). `SessionStats` is one action for each of `Observe`
(connected or not), `Reset` and the tick of the clock.

## 3. Runs

Each `.cfg` is checked by `tlc -config X.cfg M`. "pass" runs finish with no error.

| run | instance | shows |
|---|---|---|
| `rig` | a reliable line keyed by callers and by hand (limit 2, a check every 2 ticks); compound and slow-field tasks with cycles that go unanswered; a lossy line while the host ends | `CarrierBounded`: no carrier outlives the limit by more than three periods. `NoHalfApplied`, `RereadOnSchedule`: snapshots are whole and slow fields come. `ServesInOrder`: the queue implements `SerialRig`. `UnkeyServed`: an unkey in it is run. `ConfirmedIsOff`, `ShutdownEnds` |
| `link` | two operators and one claim, check disabled; one connection that may go silent, timeout 1, with `/api/admin/unkey` or with tunes | `HolderIsConnected`: nobody is locked out by a client that has gone. `DeadCarrierBounded`: the phone in the tunnel is unkeyed within the timeout and three checks, while its stream has a clock. `HandedBack`: a close leaves the rig unkeyed and local |
| `tunes` | two regimes: both tuners at any time, polls that fail, on a host where a worker's sleep outlasts a poll cycle; and one tune at a time from a current cache, two voice settings, sleeps of any length | `LeftUnkeyed`; `NoTunedOver`: no poll reports a tune as an over. `PutBack`: the operator's power and mode come back. `CarrierGoes` |
| `recording` | three frequencies, a ceiling, idle 1 | `OversBracketed`: the overs in the sidecar are the operator's. `AutoEnds` |
| `accounts` | two accounts, three hashes, one session, a login; one admin request at a time with failing saves and restarts, or two at once that add, remove and demote | `SessionsCurrent`: no session keeps a password or a right its account has lost. `AdminLeft`: the last administrator goes only in the ways it names. `FileKeepsAcked`: with one request at a time (`AckedIsSaved`) the file loads and holds what was acknowledged, wherever the process dies |
| `doors` | a logger with two commands against the poll thread, two answers late at a time; two clients, one without the transmit right, three presses on nine desks, lost replies | `ReplyIsOwn`, `ServedInOrder`, `StopJoins` for the logger; `LockHolds`, `RightToTransmit`, `UnkeyIsObeyed`, `PanelKeepsWord` for the panel |
| `audio` | two operators who come and go, frames at any time, target 2 to 4 chunks, device of 3 with threshold 2; two listeners, a queue of 2 | `TxInOrder`, `RxInOrder`: both paths implement `AudioPipe`, and a listener is greeted first and stays live. `NeverSilent`, `NeverDeaf` |
| `client` | one key, two presses in flight; a ladder of two steps, two tests; lost and overtaken requests in both | `SomeoneEndsIt`, `KeysEnd`: a carrier a key raised has an end in the panel's books, and ends, until an unkey is lost or overtakes its key. `AudioAsChosen`: a test puts the settings back, and outside sweeps only the chosen source goes out, unless the link was opened in a sweep. `LeftUnkeyedOrTold`, `TestsEnd`: a test leaves no carrier of its own unsaid, and ends |
| `observers` | two readings, a ghost, a post that comes late; a dial with two bands, six cycles of half a second | `StandsDown`, `PublishedIsThere`, `LogCatchesUp`; `StatsAreTrue` |

`doors` checks the types of its modules as well (`DoorsTypeOK`); the type invariants of
the others are proved for every instance and not run (section 7). The runs take
from half a minute to two minutes each and visit between 280,000 (`rig`) and
2,300,000 states (`recording`).

The three others are places where the code and its own comments disagree; TLC finds
the property violated.

| run | property | what happens |
|---|---|---|
| `shutdown_carrier` | `NoCarrierLeft` | `was_keyed` is read from the snapshot before the poll thread has drained for the last time. A `TX1;` still queued is sent after it, `was_keyed` is false, and the host exits with the rig keyed; main.cpp:496-498 says this is what the sequence is for. |
| `second_over` | `OverSurvives` | tx_audio.h:87-89 says the check re-arms with the next over. The claim, and with it the armed clock, lasts as long as the connection: an over begun later than the timeout after the last frame is unkeyed at its first poll. |
| `own_carrier` | `OwnCarrierOnly` | client/src/backend.cpp:985-986 says the sweep only unkeys what it keyed, so that one started during somebody else's over cannot drop their carrier. `startToneSweep` sets `drive_keyed_by_us_` whether or not the rig was keyed (`:1037`): a sweep begun while the panel shows that over unkeys it when it ends. The property is about an over that was up, and shown, when the sweep began and is still the same when the unkey is served (`during`); with a test of the status before the key it holds. |

## 4. Disagreements no run states

Found while translating. They are modelled as the code has them, so that the
properties above are stated for the circumstances under which they are true; each is
worth a look by whoever owns the code.

**Watchdog.** Three things start its clock again or keep it from running, and each
costs another full limit or more. The trip sends one `TX0;` and forgets the over
(`radio.cpp:97-101`), so a lost command is noticed only when a new limit has passed,
while SECURITY.md:46-47 says that a forgotten carrier ends. A `TX;` reply that is lost
reads as receiving (`:135`) and ends the over in its books. A cycle in which `ID;` is
not answered returns before the check (`:120`). Hence `CarrierBounded` is for a line
that loses nothing. It also needs drains that end (`BoundedDrain`): `DrainQueue` runs
until the queue is empty, and the check comes after it (`:71`, `:83-85`).

**Dirty flag.** The comment at `radio.cpp:49-51` promises a re-read at the next cycle. A
command queued while a poll is past its drain sets the flag for the poll under way,
which consumes it before the command has run (`:148`); the schedule is what remains.

**Voices.** `tx_audio.h:67-68` promises one voice. `Claim` is granted again to the same
account, and `on_data` asks nobody: two devices of one account, or a connection whose
claim was taken by an administrator, feed the same carrier. The close handler releases
the claim before it queues the hand-back (`api.cpp:1943`, `:1958`), which may so
reach the next holder. A backlog is trimmed by one frame for each one added, not
emptied "the moment the operator unkeys" (`tx_audio.cpp:87-97`). `Release` empties the
queue so as "never [to] carry one operator's audio into another's over" (`:22`); what the
pump holds or the device has queued goes on the air all the same.

**Frame clock.** A frame sets the clock and then the armed flag (`tx_audio.cpp:53-55`), a
release clears the flag and then the clock (`:26-27`), and only the release holds the
lock. A frame that comes round a release in this way leaves the check armed with
`last_frame_ms_` 0, so that `MsSinceFrame` says -1 and the check never fires: a carrier
keyed then is bounded by the watchdog alone until the next frame sets the clock. A client
that dies between its key and its first frame has no armed clock either. Hence
`DeadCarrierBounded` speaks of an armed stream with a clock.

**Tuners.** `active_` is cleared right after the restore is queued; a press before the
next poll saves CW as the operator's mode. Overlapping tunes save each other's
settings, a failed poll leaves a blank cache to save. `ModeCode` maps RTTY-L, CW-R,
DATA-L and RTTY-U to 0, which the rig does not obey. Hence `PutBack` is stated for one
tune at a time, from a cache that is current, in a voice mode.

**Recorder.** The ceiling closes a file without a sidecar (`recorder.cpp:112`, against
README.md:61). The stop of an automatic recording closes whatever is open, a manual
file too (`qso_record.cpp:64`). A start that is refused returns before the over is
noted (`:31`). The deadline moves at key-down only (`:46`), so a long over may be cut. A
lost `FA;` reply reads 0 and does not count as QSY, one that follows a wrong start may.

**Accounts.** The comment at `api.cpp:2141` says that the last administrator cannot be
removed. There are three ways: two requests that both see two administrators, as the
look, the count and the change take the lock one after the other (`:2149`); a name typed
in another case, which the look compares as it is (`:2146`) and `RemoveUser` lowers; and
`user/add` over the account, which counts nobody. `AdminLeft` names them, and a restart
from a file without an administrator. Two saves at a time share the mirror and the
temporary file (`:2018`). A removal between `ListUsers` and `PasswordHashOf` saves a row
with an empty hash, which the next start refuses. `user/add` over a name that exists
(`auth.cpp:99`) leaves that account's sessions with the rights and the password they had;
`SessionsCurrent` leaves them out. `lockdown` answers "ok" if its save failed. The
account of `HAMDECK_ADMIN_HASH` is written to the file. `admin_only_login` is read by no
route.

The comment at `config.cpp:213` speaks of a crash. For the process dying, temporary file
and rename are enough, and that is what the model has. Neither the file nor the directory
is synced, so a power cut may leave an empty or an older file under the name, although
an "ok" was sent. The stream is checked before it is closed: what the close would still
have to write is at most its last buffer, in practice the final newline, since
libstdc++ hands a string as long as a configuration through without buffering it.

**Routes.** Copies of B to A and memory recall are in neither list of the VFO lock
(comment at `api.cpp:76-78`). What a toggle, a nudge or a cycle decides from is a
snapshot up to a cycle old: two presses within it count as one, `/api/ptt/toggle`
(`:1147`) included. `freq/send` drops digits typed between its read and its clear.
Unmuting without a mute before sets 128; a mute within a cycle of a volume change
restores the older level; the mute toggle on a blank snapshot unmutes. Pairs of
commands of two clients (`MD` and `FA`, `KM` and `KY`) interleave. Quick-split moves A,
its comment (`:1301`) says B. The comment at `:1158` says vfo-copy is not implemented,
`:1313` implements it.

**Proxy.** `Stop` waits for a logger that stays connected and silent: nothing shuts its
socket (`cat_proxy.cpp:96`). An answer that arrives between the flush and the write's
own reply is taken for it if the letters are the same; `ReplyIsOwn` says exactly that
much, for two late answers as for one.

**Client.** `ptt/off` is sent once, on a connection of its own (`api_client.cpp:76`). If
it is lost, or is served before the `ptt/on` it was to end, the rig stays keyed and
nothing in the panel's books says so: it ends with the next unkey, or by the host's
dead-link check or watchdog. `SomeoneEndsIt` and `KeysEnd` are stated until that happens
(`stray`). A latch that is on when the operator changes from toggle to hold outlives the
loss of focus, which looks at the mode first (`ptt_hotkey.cpp:99`; `Orphan`). A mode or
key changed while the key is held loses the release and the focus handler with it
(`ptt_hotkey.h:89`; `Meddles = TRUE` shows it).

The source of the transmit audio is settled when the link opens (`tx_audio.cpp:153`) and
the sweep only changes the flag. So a sweep started with the microphone armed sends the
microphone at the sweep's gains, though the panel says that it is transmitting a test
tone; and a link opened during a sweep keeps the tone's timer afterwards, so that the
tone goes out in the operator's next over, against `backend.cpp:987-990`.
`AudioAsChosen` leaves the second case out (`rearmed`). Disarming clears `keyed_` and
leaves `was_tx_`, so arming again within an over sends no audio (`Fiddles = TRUE`).
`togglePtt` reads the host's cache, though `backend.cpp:453` says that it "cannot act on
a belief older than the tap". `UnkeyAndVerify` after a disconnect reads a status that
has been cleared. The warning that the rig is still transmitting is a line of the panel,
which a voice check started meanwhile writes over with its first tick: `told` means
shown since the last sweep began.

**Helper.** An operator who is logged in under the helper's own name is subtracted as a
ghost. `stop()` can race a tick that logs in again; two threads may both log in again
(`runner.py:33`).

## 5. Bounds, and why they are enough

Every bound is a constant of its module and named in its `.cfg`.

- Queues (`MaxQueue`, `MaxJobs`, `MaxCalls`): 1 to 3. The code's queues are unbounded;
  what matters is that something is queued before, behind and between. Two tasks
  make every order there is, a third is needed where one caller queues a pair.
- `Horizon = 10` lets the carrier grow beyond `Limit + 3 * MaxGap = 8`, so that the
  bound could be missed. `MaxGap = 2` puts a tick before and one after each step.
- `FullEvery = 3`: scheduled, not scheduled twice. `Old` in `TransmitLink` is one more
  than any age that is compared.
- One connection per operator in `link`, as `claims` keys by connection and the claim by
  account: two of them make a claim, a refusal, a take-over and a crossing close. One
  connection is enough for a frame that crosses the release of its own claim, by
  `/api/admin/unkey` or by the check.
- `recording`: three frequencies a threshold of 1 apart make a move within it, one
  beyond, and a creep in small steps. `Ceiling = 1` closes a file after its first frame.
- `accounts`: three hashes make a change and a change back to something else. Two
  administrators are enough to remove each other; two requests at once run on a file that
  cannot be written, as two that save share the mirror. `Grants` has the one right that
  the count is about.
- `doors`: two commands of a logger make one that is overtaken and one that overtakes.
  `MaxOwed = 2` lets an answer be owed when the next command asks, and that one's come
  behind it.
  Three presses make two that interleave and one that observes.
- `audio`: the queue (6) is longer than the highest target (4), which is longer than the
  device's buffer (3), as in the code; two kinds of chunks suffice for order, since a
  pipe that reorders or repeats does so with two.
- `client`: a press that crosses a release is the second of the two in flight; more keys
  than one matter only while the choice changes under a finger, which `Meddles` leaves
  out. Two steps of the ladder make
  a first, a last and a best one in between or not.
- `observers`: two readings make a change and a change back within the settle time;
  `MaxClock = 6` half seconds make overs across a second's boundary and a reset within.

Symmetry is used for the hashes and the workers of `accounts` only, which no property
compares in order and which has no liveness property.

## 6. Fairness, and why the code justifies it

Weak fairness: the poll thread, the clock, a caller between its push and its
`MarkDirty`, close handlers that have begun, the proxy's threads and HTTP handlers, the
pump, the codec and the sender, the client's timers and the delivery of its requests,
the helper's tick and its wait. Each is a thread or a timer of the program that
nothing can disable for ever. Strong fairness: `GiveUp`, the deadline of
`UnkeyAndConfirm`, which passes in real time though each answer disables it for a
moment; and the tuner's workers, which the model's bound on the queue could starve and
the code does not bound. `ShutdownEnds` has the premise that every drain ends
(`[]<>(pc # "drain")`): tuners and loggers still queue at shutdown, and a drain that
callers keep refilling is not over. None is assumed of operators, loggers, listeners,
the radio, the caller of `Stop`, or the signal. `LogCatchesUp` and `NeverSilent` state
in their antecedents what of the world they need.

## 7. What is proved

The theorems hold for every value of the constants that satisfies the `ASSUME`s of
their module, and for behaviours of any length; `tlapm <module>.tla` checks them.

| module | theorem | says | argument |
|---|---|---|---|
| `RigProofs` | `TypeCorrect`, `WatchdogInvariant`, `WatchdogBound` | `CarrierBounded`, on a line that loses nothing, if drains end and nobody stops the poller | `WatchdogInv`: an over the watchdog knows of is at most two periods older than the clock it runs; one it does not know of is younger than two periods; one just read as absent is younger than the period |
| | `SlowSetReread` | `RereadOnSchedule`, if no reply is lost | `ScheduleInv` ties the age of a change to the cycles since the last scheduled one, and follows the read through the check to the snapshot |
| | `CompoundTasksWhole` | `NoHalfApplied`, on any line, if every request that moves the dial moves both | `WholeInv`: outside a task `FA` and `FB` agree; inside, the rest of the task makes them |
| | `QueueIsSerial`, `QueueIsSerialToTheEnd` | `ServesInOrder`, without and with the shutdown, for any requests and queue, where what a lossy line can cut are requests that write `TX` alone (`WholeOnLine`) | a refinement, step by step: each field is what the last write to it says, so applying a list is applying its first write and then the rest; a key-up, hand microphone or unkey that goes past the queue changes `TX` of the abstract rig and nothing else, also behind a task in hand |
| | `OneThread`, `ConfirmedUnkey`, `HostTypeCorrect` | main talks to the port when the poll thread has ended; a confirmation is true | `ShutdownInv`: after the join `pc = "stopped"`, and then only main writes |
| `TransmitLinkProofs` | `TypeCorrect`, `ClaimDiesWithConnection`, `DeadCarrierEnds` | `HolderIsConnected`, `DeadCarrierBounded` | `LinkInv`: while the rig is keyed and a stream with a clock is armed, either one of the two ages is within the timeout and the time since the last check, or the unkey that the check queued is still in the queue |
| `TunersProofs` | `TypeCorrect`, `TunesEndUnkeyed` | `LeftUnkeyed` | `TunersInv`: a rig that transmits, with no tuner active, has its unkey in the queue behind every key-up; each worker is active from its start to its last step |
| | `TunesAreNotOvers` | `NoTunedOver`, which is about hosts whose sleeps outlast a cycle (`Settles`) | a poll that has read the rig with a carrier up has not published yet, and until a cycle has ended its worker is asleep and active |
| | `TunesPutBack` | `PutBack`, where tunes are `Undisturbed`, and homes in modes 1 to 5 | at each step of a worker the rig's settings after everything queued are those the worker still has to put back, or what it saved; `ModeCode` undoes `ModeName` on these five |
| `RecordingProofs` | `TypeCorrect`, `AutoRecordingOwned`, `FiledNearStart`, `OversFollowKey`, `TriggersAreTrue`, `AutoBounded` | a recording's owner, place, overs, reason and end | `RecordingInv` says at each place of `Observe` what the other threads may have done to the file since the last one |
| `AccountsProofs` | `TypeCorrect`, `SessionsStayCurrent` | `SessionsCurrent`, for any number of logins and requests at once | `AccountsInv`: a change of an account takes its sessions along under one lock, and a login issues on what the account is then |
| | `AdministratorLeft` | `AdminLeft`, for any number of requests at once | `CountedInv`: what a removal or a demotion has seen and counted still holds when it acts, as long as its name is the stored one and no other request has changed an account |
| | `FileHoldsAcknowledged` | `AckedIsSaved`, with one admin request at a time (`OneAtATime`) | `SavedInv`: from the change to the rename, the mirror and the rows still to come are the users; the file is always one an earlier rename left |
| `DoorsProofs` | `RepliesAreOwn` | `ReplyIsOwn`, for any loggers, commands and number of answers owed | `LineInv`: during an exchange every answer that has come or may come is either asked by it or excused by what the radio owed when it asked; every step of the proxy is a step of the line or leaves it alone |
| | `LoggersServedInOrder` | `ServedInOrder`, for any loggers, commands and cuts of the stream | `ServedInv`: what a logger has unparsed and unread spells the commands it sent that were not queued yet; the queue holds those that have not run, in order; a promise and an answer are of the command that is waited for |
| | `ProxyTypes`, `PanelTypes`, `DoorsTypes` | `DoorsTypeOK`, for any loggers, clients, desks and number of requests, whatever is typed | `PanelInv`: a handler queues jobs of its own client and its route's kind; a request that waits has its job last in the queue and no other; `HostState`'s lock is held by a handler with something to queue; the dial is a natural number whatever runs |
| | `LockKeepsTheDial` | `LockHolds` | `PanelInv`, and `Still`: with the lock on, no request that moves the dial is past the lock's gate and none is queued |
| | `RightIsKept` | `RightToTransmit` | `Quiet`: a client without the right has no request past the rights gate that could key and no such job in the queue; every handler but those of the transmit routes queues jobs that start nothing |
| | `PanelKeepsItsWord` | `PanelKeepsWord`, for steps that together stay above the bottom of the dial | `Steady`: through the queue there is a course of the dial, from what it is to where the answered steps bring it, and room below it for the presses left; an answer is read from what was read when the task ran; a mute never remembers silence |
| `AudioProofs` | `AudioTypeCorrect`, `VoiceInOrder`, `BandInOrder` | the types, `TxInOrder`, `RxInOrder`: step by step, each path implements `AudioPipe`, for any thresholds, operators, frames of whatever connection, and listeners | `AudioInv`: a chunk is in the pump's hand exactly while it writes and a device that is gone holds none; a queued chunk is as old as those behind it are many; no client is twice in the list or in the sender's copy, and those in them have had their config frame. What leaves or enters a path is a cut or an append of `InTransit` |
| `ClientsProofs` | `ClientTypeCorrect`, `CarriersHaveAnEnd` | `SomeoneEndsIt`, for any keys and number of requests in flight, served in any order or lost, where PTT settings rest while a key is down (`~Meddles`); it is stated until an unkey is lost or overtakes its key | `KeysInv`: as long as nothing has gone astray, what the requests in flight can leave keyed is already held, latched or under the limit of a hold, or has its unkey behind it; a held key is under the finger, in a window with the focus; the limit runs only for a key that is down |
| | `AudioIsAsChosen` | `AudioAsChosen`, for any ladder and gains, where the operator leaves the gain and the arming alone during a sweep or an over (`~Fiddles`) | `DriveInv`: during a sweep what is set aside is what was chosen, outside it the choice is in use; what feeds a link that was opened outside a sweep is the source chosen (`SourcesKnown`); the audio's and the handler's notion of keyed are both the panel's last status |
| | `SweepsLeaveNoCarrier` | `LeftUnkeyedOrTold`, whatever the operator does | `CarrierWatched`: while a sweep's carrier is up, or its key on the way, the test runs, a verification is pending, or the operator has been told; a status polled since the rig last moved shows the carrier |
| | `ReportsAddUp`, `ReportsAddUpBeside` | `StatsAreTrue`, for bands that lie two QSY thresholds apart (`StatsAssumption`; the bands of `BandFor` do) | `StatsInv`: the overs counted and the one in progress fit into the session one after the other; there are no more visits than moves, or one more, and then the dial is still within a threshold of where that visit was counted |
| | `ObserversTypeCorrect` | `TypeOK`, the bound on the counters included | `CountInv`: each cycle is observed once, so nothing is counted more often than cycles have been observed |
| | `PusherStandsDown`, `PublishedIsInWavelog` | `StandsDown`, `PublishedIsThere`, for any readings, waits and ghosts | `PushInv`: a pass that asks has a reading, the host's answer to it is whether somebody was operating when it asked, and only a pass told that nobody was posts |

In general the strengthening says, of each program counter, what the other actors may
have done since the last one. The proofs have one lemma for each group of actions and
a step for each action.

Some hypotheses are narrower than the code's circumstances, and section 4 says what
happens outside of most of them: `OneAtATime` (an admin request at a time, for the file
only), `Undisturbed` for `PutBack`, modes whose name leads back to their code,
`~Meddles` and `~Fiddles` in the client. `WholeOnLine` is the promise's own limit: a
command lost on the line takes its part out of a task that has begun, which no queue can
mend; `SerialRig` lets only `TX` move by itself. `Settles` is how the host is timed:
after the key-down a worker sleeps 400 ms (`kPttDropMs`), and the poll thread 200 ms
between cycles (`kPollIntervalMs`). A cycle whose reads time out takes longer than that;
then `active_` may be cleared before the carrier's last reading is published, and that
reading is taken for an over. `PanelKeepsItsWord` takes steps of at most `M` with `M *
MaxPresses` no more than where the dial starts: below that a step down is cut off at
zero (`api.cpp:1715`), and the next one up does not undo it. `DesksAssumption` has
panels send no negative numbers, which the client never does (`backend.cpp:906-914`,
`Main.qml:732`) and `stoll` would let pass.

Only model-checked:

- everything under fairness (`UnkeyServed`, `ShutdownEnds`, `HandedBack`, `CarrierGoes`,
  `StopJoins`, `UnkeyIsObeyed`, `NeverSilent`, `NeverDeaf`, `KeysEnd`, `TestsEnd`,
  `LogCatchesUp`), which is out of the prover's reach. The safety properties of the
  passing runs are all stated by a theorem, `FileKeepsAcked` as `AckedIsSaved`.

## 8. Not modelled

- Meter calibration and CW text: pure functions over floats and strings, each with a
  table-driven test of its own.
- Log and admin page: formatting. Client shell (windows, settings, tray, single
  instance) and the helper's window: user interface.
- `SaveReplay`, the replay ring and the WAV header: one thread, file I/O.
- ALSA capture and device enumeration; resampling, gain and peaks of the RX path.
- The order in which `main` builds the components and binds their ports.
- The TGXL's line protocol, beyond how the wait for it ends.
- The login throttle (a refusal in the model may have any reason), the parsing of the
  configuration, registration of keys with each window system, reconnection and
  log-in of the client.
- The rig watchdog service (a shell script under a systemd timer), tests, tools and
  packaging.

## 9. Plan

The order in which the project grew and goes on: the poller and shutdown, the link,
tuners and the recorder, accounts, the two doors, audio, the client, the observers.
Next are a model of start-up and of the client's reconnection, and the replay ring.
