------------------------------ MODULE TxBuffer ------------------------------
(***************************************************************************)
(* The operator's voice between the socket and the codec: the queue and    *)
(* the pump of TxAudioReceiver (src/src/tx_audio.cpp) in front of an ALSA  *)
(* device (src/src/alsa_audio.cpp) or of the null sink.                    *)
(*                                                                         *)
(* All lengths are in chunks of 20 ms.  One chunk at a time is marked:     *)
(* where it comes among the others tells whether any order was lost.  Who  *)
(* spoke it is not kept: frames are taken from every open connection, with *)
(* or without the claim, and a release empties the queue but neither the   *)
(* pump's hand nor the device.                                             *)
(***************************************************************************)
EXTENDS Naturals, Sequences

CONSTANTS
  Operators,    \* the names claims are made under
  None,         \* nobody
  Floor, Start, Ceil,   \* kTargetFloorMs, kTargetStartMs, kTargetCeilMs
  Grow, Decay,          \* kXrunGrowMs, kDecayStepMs
  Capacity,     \* kMaxQueuedChunks
  Buffer,       \* what the device can hold
  Threshold,    \* what it must hold before it starts
  MaxChunks,    \* Pump's max_chunks
  MaxQueue      \* bound on the queue of a keyed operator

VARIABLES
  holder,     \* holder_
  queue,      \* queue_
  pc,         \* where the pump is
  fed,        \* chunks written in this call of Pump
  hand,       \* the chunk it has popped
  target,     \* target_ms_
  prerolled,  \* prerolled_
  fresh,      \* the sink counts more underruns than last_xruns_
  quiet,      \* last_xrun_at_ is set
  sink,       \* "null", or what the device is doing
  device,     \* what is queued on it
  heard       \* ghost: the last chunk that was played

hostVars == <<holder, queue>>
pumpVars == <<pc, fed, hand, target, prerolled, fresh, quiet>>
deviceVars == <<sink, device, heard>>
txVars == <<hostVars, pumpVars, deviceVars>>

ASSUME TxAssumption ==
  /\ None \notin Operators
  /\ {Floor, Start, Ceil, Grow, Decay, Capacity, Buffer, Threshold, MaxChunks} \subseteq Nat \ {0}
  /\ Threshold <= Floor /\ Floor <= Start /\ Start <= Ceil
  /\ Threshold <= Buffer /\ MaxQueue \in Nat /\ MaxQueue > Capacity

Chunk == {"plain", "marked"}
NoChunk == "no chunk"

TxTypeOK ==
  /\ holder \in Operators \cup {None}
  /\ queue \in Seq(Chunk) /\ Len(queue) <= MaxQueue
  /\ pc \in {"sleep", "feed", "write"} /\ fed \in 0 .. MaxChunks
  /\ hand \in Chunk \cup {NoChunk}
  /\ target \in Floor .. Ceil
  /\ prerolled \in BOOLEAN /\ fresh \in BOOLEAN /\ quiet \in BOOLEAN
  /\ sink \in {"null", "prepared", "running", "dry", "gone"}
  /\ device \in Seq(Chunk) /\ Len(device) <= Buffer
  /\ heard \in Chunk \cup {NoChunk}

TxInit ==
  /\ holder = None /\ queue = <<>>
  /\ pc = "sleep" /\ fed = 0 /\ hand = NoChunk
  /\ target = Start /\ prerolled = FALSE /\ fresh = FALSE /\ quiet = FALSE
  /\ sink \in {"null", "prepared"} /\ device = <<>> /\ heard = NoChunk

Least(a, b) == IF a < b THEN a ELSE b

----------------------------------------------------------------------------
(* The claim and the queue. *)

Claim(o) ==
  /\ holder = None
  /\ holder' = o
  /\ UNCHANGED <<queue, pumpVars, deviceVars>>

Release ==
  /\ holder # None
  /\ holder' = None /\ queue' = <<>>
  /\ UNCHANGED <<pumpVars, deviceVars>>

InHand == IF hand = NoChunk THEN <<>> ELSE <<hand>>
Transit == device \o InHand \o queue

\* Bound: one marked chunk on its way.
Said(x) ==
  /\ x = "marked" => \A i \in DOMAIN Transit : Transit[i] # "marked"
  /\ Len(queue') <= MaxQueue
  /\ UNCHANGED <<holder, pumpVars, deviceVars>>

\* Mutant: in a full queue the new chunk takes the place of the oldest.
AcceptInPlace(keyed, x) ==
  /\ queue' = IF Len(queue) >= Capacity /\ ~keyed THEN <<x>> \o Tail(queue)
              ELSE Append(queue, x)
  /\ Said(x)

\* A full queue loses its oldest chunk, but not while the rig is keyed.  Who
\* holds the claim is not asked.  A frame that is no whole number of samples is
\* refused and changes nothing.
Accept(keyed, x) ==
  /\ queue' = IF Len(queue) >= Capacity /\ ~keyed THEN Append(Tail(queue), x)
              ELSE Append(queue, x)
  /\ Said(x)

----------------------------------------------------------------------------
(* Pump. *)

\* QueuedMs: the depth of the device, or that it cannot be told.
Unknown == sink \in {"null", "dry", "gone"}

\* What the pre-roll waits for: the new target, but never more than the queue
\* can hold.
Need == Least(target', (Capacity * 3) \div 4)

\* The target follows the underruns: up with each, down after a quiet while.
Retarget ==
  IF fresh
  THEN target' = Least(target + Grow, Ceil) /\ fresh' = FALSE /\ quiet' = TRUE
  ELSE /\ UNCHANGED <<fresh, quiet>>
       /\ \/ UNCHANGED target
          \/ quiet /\ target' = (IF target > Floor + Decay THEN target - Decay ELSE Floor)

\* The pump starts a round; a sink that cannot tell its depth is not fed
\* before the queue holds the pre-roll.
PumpBegins ==
  /\ pc = "sleep"
  /\ Retarget
  /\ LET rolled == prerolled /\ ~fresh
         held == Len(queue) >= Need IN
     IF ~rolled /\ Unknown
     THEN prerolled' = held /\ pc' = IF held THEN "feed" ELSE "sleep"
     ELSE prerolled' = rolled /\ pc' = "feed"
  /\ fed' = 0
  /\ UNCHANGED <<hand, hostVars, deviceVars>>

\* Mutant: the pump stops one chunk short of the target.
OneShort == ~Unknown /\ Len(device) + 1 >= target

Filled == ~Unknown /\ Len(device) >= target

PumpPops ==
  /\ pc = "feed" /\ fed < MaxChunks /\ ~Filled /\ queue # <<>>
  /\ hand' = Head(queue) /\ queue' = Tail(queue)
  /\ pc' = "write"
  /\ UNCHANGED <<holder, fed, target, prerolled, fresh, quiet, deviceVars>>

PumpEnds ==
  /\ pc = "feed" /\ (fed = MaxChunks \/ Filled \/ queue = <<>>)
  /\ pc' = "sleep" /\ fed' = 0
  /\ UNCHANGED <<hand, target, prerolled, fresh, quiet, hostVars, deviceVars>>

Written == hand' = NoChunk /\ fed' = fed + 1 /\ pc' = "feed"

WriteNull ==
  /\ pc = "write" /\ sink = "null"
  /\ Written /\ heard' = hand
  /\ UNCHANGED <<target, prerolled, fresh, quiet, hostVars, sink, device>>

\* The device takes the chunk once it has room, and starts when it holds
\* enough.
WriteDevice ==
  /\ pc = "write" /\ sink \in {"prepared", "running"} /\ Len(device) < Buffer
  /\ device' = Append(device, hand)
  /\ sink' = IF Len(device') >= Threshold THEN "running" ELSE sink
  /\ Written
  /\ UNCHANGED <<target, prerolled, fresh, quiet, hostVars, heard>>

\* EPIPE: the device ran dry.  It is prepared again and the write repeated.
WriteRecovers ==
  /\ pc = "write" /\ sink = "dry"
  /\ sink' = "prepared" /\ fresh' = TRUE
  /\ UNCHANGED <<pc, fed, hand, target, prerolled, quiet, hostVars, device, heard>>

\* The write fails, the chunk is gone and the round is over.
WriteFails ==
  /\ pc = "write" /\ sink = "gone"
  /\ hand' = NoChunk /\ fed' = 0 /\ pc' = "sleep"
  /\ UNCHANGED <<target, prerolled, fresh, quiet, hostVars, deviceVars>>

----------------------------------------------------------------------------
(* The device. *)

Plays ==
  /\ sink = "running" /\ device # <<>>
  /\ heard' = Head(device) /\ device' = Tail(device)
  /\ UNCHANGED <<sink, hostVars, pumpVars>>

RunsDry ==
  /\ sink = "running" /\ device = <<>>
  /\ sink' = "dry"
  /\ UNCHANGED <<device, heard, hostVars, pumpVars>>

Unplugged ==
  /\ sink \in {"prepared", "running", "dry"}
  /\ sink' = "gone" /\ device' = <<>>
  /\ UNCHANGED <<heard, hostVars, pumpVars>>

----------------------------------------------------------------------------

Speaks == \E keyed \in BOOLEAN, x \in Chunk : Accept(keyed, x)

Pump ==
  PumpBegins \/ PumpPops \/ PumpEnds \/ WriteNull \/ WriteDevice \/ WriteRecovers \/ WriteFails

TxNext ==
  \/ (\E o \in Operators : Claim(o)) \/ Release \/ Speaks \/ Pump
  \/ Plays \/ RunsDry \/ Unplugged

----------------------------------------------------------------------------
(* Properties. *)

\* The path is an AudioPipe: whatever underruns, trims, handovers and failed
\* writes do, what goes on the air is heard once and in the order in which it
\* arrived.
TxPipe == INSTANCE AudioPipe
          WITH Chunks <- Chunk, transit <- Transit
TxInOrder == TxPipe!Spec

\* An operator who goes on speaking goes on being heard: no combination of
\* target, pre-roll, start threshold and queue size leaves the audio waiting
\* for ever, whatever the underruns have made of the target.
NeverSilent ==
  (<>[](sink # "gone" /\ holder # None) /\ []<><<Speaks>>_txVars)
    => []<>(<<Plays \/ WriteNull>>_txVars)
=============================================================================
