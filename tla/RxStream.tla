------------------------------ MODULE RxStream ------------------------------
(***************************************************************************)
(* The band on its way to the listeners: the producer, the bounded queue,  *)
(* the one sender and the /ws clients of RxAudioStream (src/src/audio.cpp, *)
(* the /ws routes of src/src/api.cpp, WsConnection in src/src/http.cpp).   *)
(*                                                                         *)
(* A chunk is a member of Chunks and its age, the chunks captured since.   *)
(***************************************************************************)
EXTENDS Naturals, Sequences

CONSTANTS
  Clients,    \* connections to /ws; a client that comes back is a new one
  Chunks,     \* what a chunk may hold
  Nothing,    \* no chunk
  Config,     \* the config frame
  Max         \* kMaxQueuedChunks

VARIABLES
  source,    \* "live", or the capture has ended
  rxQueue,   \* queue_
  clients,   \* clients_, in the order they were added
  rxPc,      \* where the sender is
  rxHand,    \* the chunk it has popped
  targets,   \* its copy of clients_
  conn,      \* where each connection is
  stalled,   \* connections whose network carries nothing
  got        \* ghost: the last frame each client was sent

streamVars == <<source, rxQueue>>
senderVars == <<rxPc, rxHand, targets>>
clientVars == <<clients, conn, stalled, got>>
rxVars == <<streamVars, senderVars, clientVars>>

ASSUME RxAssumption ==
  Max \in Nat \ {0} /\ {Nothing, Config} \cap Chunks = {} /\ Nothing # Config

NoFrame == [what |-> Nothing, age |-> 0]

\* ready: in the READY callback, config not sent.  greeted: not in clients_
\* yet.  deaf: open_ is false, the connection is still in clients_.
RxTypeOK ==
  /\ source \in {"live", "ended"}
  /\ rxQueue \in Seq([what : Chunks, age : Nat]) /\ Len(rxQueue) <= Max
  /\ clients \in Seq(Clients) /\ targets \in Seq(Clients)
  /\ rxPc \in {"pop", "copy", "send"}
  /\ rxHand.what \in Chunks \cup {Nothing}
  /\ conn \in [Clients -> {"new", "ready", "greeted", "open", "deaf", "gone"}]
  /\ stalled \subseteq Clients
  /\ got \in [Clients -> Chunks \cup {Nothing, Config}]

RxInit ==
  /\ source = "live" /\ rxQueue = <<>>
  /\ clients = <<>> /\ rxPc = "pop" /\ rxHand = NoFrame /\ targets = <<>>
  /\ conn = [c \in Clients |-> "new"] /\ stalled = {}
  /\ got = [c \in Clients |-> Nothing]

----------------------------------------------------------------------------
(* The producer. *)

Aged(q) == [i \in DOMAIN q |-> [q[i] EXCEPT !.age = @ + 1]]

\* A full queue loses its oldest.
Push(q, x) == Append(IF Len(q) < Max THEN Aged(q) ELSE Tail(Aged(q)), x)

\* ProduceLoop.  What goes to the recorder is Recording's Feed.
Produce ==
  /\ source = "live"
  /\ \E x \in Chunks : rxQueue' = Push(rxQueue, [what |-> x, age |-> 0])
  /\ UNCHANGED <<source, senderVars, clientVars>>

CaptureEnds ==
  /\ source = "live"
  /\ source' = "ended"
  /\ UNCHANGED <<rxQueue, senderVars, clientVars>>

----------------------------------------------------------------------------
(* The sender. *)

\* Mutant: the newest first.
PopsNewest ==
  /\ rxPc = "pop" /\ rxQueue # <<>>
  /\ rxHand' = rxQueue[Len(rxQueue)] /\ rxQueue' = SubSeq(rxQueue, 1, Len(rxQueue) - 1)
  /\ rxPc' = "copy"
  /\ UNCHANGED <<source, targets, clientVars>>

Pops ==
  /\ rxPc = "pop" /\ rxQueue # <<>>
  /\ rxHand' = Head(rxQueue) /\ rxQueue' = Tail(rxQueue)
  /\ rxPc' = "copy"
  /\ UNCHANGED <<source, targets, clientVars>>

Copies ==
  /\ rxPc = "copy"
  /\ targets' = clients
  /\ rxPc' = "send"
  /\ UNCHANGED <<rxHand, streamVars, clientVars>>

Served == targets' = Tail(targets)

\* SendBinary goes through.
SendsTo(c) ==
  /\ rxPc = "send" /\ targets # <<>> /\ c = Head(targets)
  /\ conn[c] = "open" /\ c \notin stalled
  /\ got' = [got EXCEPT ![c] = rxHand.what]
  /\ Served
  /\ UNCHANGED <<rxPc, rxHand, clients, conn, stalled, streamVars>>

\* Mutant: a client that is not there ends the round.
RoundEndsAt(c) ==
  /\ rxPc = "send" /\ targets # <<>> /\ c = Head(targets)
  /\ conn[c] # "open"
  /\ targets' = <<>>
  /\ UNCHANGED <<rxPc, rxHand, clientVars, streamVars>>

\* It has closed since clients_ was copied, or a write to it has failed.
Skips(c) ==
  /\ rxPc = "send" /\ targets # <<>> /\ c = Head(targets)
  /\ conn[c] # "open"
  /\ Served
  /\ UNCHANGED <<rxPc, rxHand, clientVars, streamVars>>

\* The write to a client whose network is stalled holds the sender, and fails
\* in the end.
WriteTimesOut(c) ==
  /\ rxPc = "send" /\ targets # <<>> /\ c = Head(targets)
  /\ conn[c] = "open" /\ c \in stalled
  /\ conn' = [conn EXCEPT ![c] = "deaf"]
  /\ Served
  /\ UNCHANGED <<rxPc, rxHand, clients, stalled, got, streamVars>>

SendDone ==
  /\ rxPc = "send" /\ targets = <<>>
  /\ rxPc' = "pop" /\ rxHand' = NoFrame
  /\ UNCHANGED <<targets, streamVars, clientVars>>

----------------------------------------------------------------------------
(* The connections, each on a thread of the server. *)

\* Past the gate, which saw a session.
Opens(c) ==
  /\ conn[c] = "new"
  /\ conn' = [conn EXCEPT ![c] = "ready"]
  /\ UNCHANGED <<clients, stalled, got, streamVars, senderVars>>

\* on_open: the config frame, then AddClient.
Greets(c) ==
  /\ conn[c] = "ready"
  /\ got' = [got EXCEPT ![c] = Config]
  /\ conn' = [conn EXCEPT ![c] = "greeted"]
  /\ UNCHANGED <<clients, stalled, streamVars, senderVars>>

Joins(c) ==
  /\ conn[c] = "greeted"
  /\ clients' = Append(clients, c)
  /\ conn' = [conn EXCEPT ![c] = "open"]
  /\ UNCHANGED <<stalled, got, streamVars, senderVars>>

Stalls(c) ==
  /\ conn[c] = "open" /\ c \notin stalled
  /\ stalled' = stalled \cup {c}
  /\ UNCHANGED <<clients, conn, got, streamVars, senderVars>>

Recovers(c) ==
  /\ conn[c] = "open" /\ c \in stalled
  /\ stalled' = stalled \ {c}
  /\ UNCHANGED <<clients, conn, got, streamVars, senderVars>>

\* The CLOSE callback marks the connection, then RemoveClient erases it from
\* clients_, where it is once.
Closes(c) ==
  /\ conn[c] = "open"
  /\ conn' = [conn EXCEPT ![c] = "deaf"]
  /\ UNCHANGED <<clients, stalled, got, streamVars, senderVars>>

Leaves(c) ==
  /\ conn[c] = "deaf"
  /\ \E i \in DOMAIN clients :
       /\ clients[i] = c
       /\ clients' = SubSeq(clients, 1, i - 1) \o SubSeq(clients, i + 1, Len(clients))
  /\ conn' = [conn EXCEPT ![c] = "gone"]
  /\ UNCHANGED <<stalled, got, streamVars, senderVars>>

----------------------------------------------------------------------------

Sender ==
  \/ Pops \/ Copies \/ SendDone
  \/ \E c \in Clients : SendsTo(c) \/ Skips(c) \/ WriteTimesOut(c)

Client(c) ==
  \/ Opens(c) \/ Greets(c) \/ Joins(c) \/ Stalls(c) \/ Recovers(c) \/ Closes(c) \/ Leaves(c)

RxNext == Produce \/ CaptureEnds \/ Sender \/ \E c \in Clients : Client(c)

----------------------------------------------------------------------------
(* Properties. *)

\* What is on its way to a client, and what it heard last.
Sending(c) ==
  IF rxHand = NoFrame \/ (rxPc = "send" /\ \A i \in DOMAIN targets : targets[i] # c)
  THEN <<>> ELSE <<rxHand.what>>
InTransit(c) == Sending(c) \o [i \in DOMAIN rxQueue |-> rxQueue[i].what]
Heard(c) == IF got[c] = Config THEN Nothing ELSE got[c]

\* The path to each client is an AudioPipe: it may miss chunks, it never hears
\* one twice or out of order.  No audio reaches it before its config frame,
\* though the sender and the callback that opens the connection run side by
\* side, and what is queued is never older than the queue is long, so one who
\* falls behind rejoins at the present.
RxPipe(c) == INSTANCE AudioPipe WITH transit <- InTransit(c), heard <- Heard(c)
RxInOrder ==
  /\ \A c \in Clients : RxPipe(c)!Init
  /\ [][/\ \A c \in Clients : [RxPipe(c)!Next]_<<InTransit(c), Heard(c)>>
        /\ \A c \in Clients : got'[c] \in Chunks => got[c] # Nothing
        /\ \A i \in DOMAIN rxQueue' : rxQueue'[i].age < Max]_rxVars

\* A client that is there hears the band as long as there is any, whatever
\* the others do: stall, close between the copy and the send, or go deaf and
\* stay in clients_.
NeverDeaf ==
  \A c \in Clients :
    (<>[](conn[c] = "open" /\ c \notin stalled) /\ []<><<Produce>>_rxVars)
      => []<><<SendsTo(c)>>_rxVars
=============================================================================
