---------------------------- MODULE DoorsProofs ----------------------------
(***************************************************************************)
(* The two doors to the radio.  The CAT proxy: no reply is taken for       *)
(* another's, and what a logger sends is run whole, once and in order, for *)
(* any commands, any loggers and any number of answers owed.  The panel's  *)
(* routes: the lock holds, the right to transmit is kept and a press does  *)
(* what it says, for any clients, any desks and any number of requests.    *)
(***************************************************************************)
EXTENDS DoorsMC, Integers, WellFoundedInduction, FiniteSetTheorems, SequenceTheorems, TLAPS

ProxySpec == ProxyInit /\ [][ProxyNext]_proxyVars

\* An answer the exchange in progress may meet: asked by it, or excused by
\* what the radio owed when it asked.
Rightful(a) ==
  /\ a \in Answer
  /\ a.now => a.to = asked.cmd
  /\ ~a.now /\ Verb[a.to] = Verb[asked.cmd] => asked.excused

\* While an exchange is in progress every answer that has come or will come is
\* one of those; outside of it nothing is waited for.
LineInv ==
  /\ owed \in Seq(Answer) /\ line \in Seq(Answer)
  /\ asked # NotAsked =>
       /\ \A i \in DOMAIN line : Rightful(line[i])
       /\ \A i \in DOMAIN owed : Rightful(owed[i])

\* The steps of the line, whoever takes them.
LineStep ==
  \/ \E cmd \in Queries : Ask(cmd)
  \/ \E cmd : Send(cmd)
  \/ \E a \in ToSet(line) : Receives(a)
  \/ Discards \/ GivesUp \/ Answers \/ Ignores
  \/ UNCHANGED lineVars

LEMMA InitHolds == LineInit => LineInv /\ ReplyIsOwn
BY DEF LineInit, LineInv, ReplyIsOwn

LEMMA EarlierHolds ==
  ASSUME NEW s \in Seq(Answer)
  PROVE  /\ Earlier(s) \in Seq(Answer) /\ Len(Earlier(s)) = Len(s)
         /\ \A i \in 1 .. Len(s) : Earlier(s)[i].now = FALSE /\ Earlier(s)[i].to = s[i].to
<1>1. \A a \in Answer : \A k \in BOOLEAN :
        /\ [a EXCEPT !.now = k] \in Answer
        /\ [a EXCEPT !.now = k].now = k /\ [a EXCEPT !.now = k].to = a.to
  BY DEF Answer
<1>2. DOMAIN s = 1 .. Len(s) /\ Len(s) \in Nat /\ \A i \in 1 .. Len(s) : s[i] \in Answer
  OBVIOUS
<1> DEFINE past(i) == [s[i] EXCEPT !.now = FALSE]
<1>3. \A i \in 1 .. Len(s) : past(i) \in Answer /\ past(i).now = FALSE /\ past(i).to = s[i].to
  BY <1>1, <1>2
<1>4. Earlier(s) = [i \in 1 .. Len(s) |-> past(i)] BY <1>2 DEF Earlier
<1> HIDE DEF past
<1>5. Earlier(s) \in Seq(Answer) /\ Len(Earlier(s)) = Len(s) BY <1>2, <1>3, <1>4
<1>6. \A i \in 1 .. Len(s) : Earlier(s)[i] = past(i) BY <1>4
<1> QED BY <1>3, <1>5, <1>6

LEMMA AskKeeps ==
  ASSUME LineInv, NEW cmd \in Queries, Ask(cmd) PROVE LineInv' /\ UNCHANGED got
<1>1. line' = <<>> /\ line' \in Seq(Answer) BY DEF Ask
<1>2. /\ Earlier(owed) \in Seq(Answer) /\ Len(Earlier(owed)) = Len(owed)
      /\ \A i \in 1 .. Len(owed) : Earlier(owed)[i].now = FALSE /\ Earlier(owed)[i].to = owed[i].to
  BY EarlierHolds DEF LineInv
<1>3. owed' = Append(Earlier(owed), [to |-> cmd, now |-> TRUE]) BY DEF Ask, Owing
<1>4. asked'.cmd = cmd /\ asked'.excused = (\E a \in ToSet(owed) : Verb[a.to] = Verb[cmd])
  BY DEF Ask
<1>5. [to |-> cmd, now |-> TRUE] \in Answer BY DEF Answer
<1>6. owed' \in Seq(Answer) BY <1>2, <1>3, <1>5
<1>7. ASSUME NEW i \in DOMAIN owed' PROVE Rightful(owed[i])'
  <2>1. CASE i = Len(owed) + 1
    <3>1. owed'[i] = [to |-> cmd, now |-> TRUE] BY <1>2, <1>3, <2>1
    <3> QED BY <1>4, <1>5, <3>1 DEF Rightful
  <2>2. CASE i # Len(owed) + 1
    <3>1. i \in 1 .. Len(owed) /\ owed'[i] = Earlier(owed)[i]
      BY <1>2, <1>3, <1>7, <2>2 DEF LineInv
    <3>2. owed'[i].now = FALSE /\ owed'[i].to = owed[i].to BY <1>2, <3>1
    <3>3. owed[i] \in ToSet(owed) BY <3>1 DEF ToSet, LineInv
    <3>4. Verb[owed'[i].to] = Verb[asked'.cmd] => asked'.excused BY <1>4, <3>2, <3>3
    <3> QED BY <1>6, <1>7, <3>2, <3>4 DEF Rightful
  <2> QED BY <2>1, <2>2
<1>8. UNCHANGED got BY DEF Ask
<1> QED BY <1>1, <1>6, <1>7, <1>8 DEF LineInv

LEMMA SendKeeps ==
  ASSUME LineInv, NEW cmd, Send(cmd) PROVE LineInv' /\ UNCHANGED got
<1>1. owed' \in Seq(Answer)
  <2>1. cmd \in Queries => [to |-> cmd, now |-> TRUE] \in Answer BY DEF Answer
  <2> QED BY <2>1 DEF LineInv, Send, Owing
<1> QED BY <1>1 DEF LineInv, Send

LEMMA ReceivesKeeps ==
  ASSUME LineInv, NEW a, Receives(a) PROVE LineInv' /\ ReplyIsOwn'
<1>1. PICK i \in DOMAIN line : line[i] = a /\ Matches(a) BY DEF Receives
<1>2. Rightful(a) BY <1>1 DEF LineInv, Receives
<1>3. got' = [reply |-> a, to |-> asked.cmd, excused |-> asked.excused] BY DEF Receives
<1>4. /\ Verb[a.to] = Verb[asked.cmd]
      /\ a.now \/ asked.excused
      /\ a.now => a.to = asked.cmd
  BY <1>1, <1>2 DEF Rightful, Matches
<1>5. ReplyIsOwn' BY <1>3, <1>4 DEF ReplyIsOwn
<1> QED BY <1>5 DEF LineInv, Receives

LEMMA RadioKeeps ==
  ASSUME LineInv, Answers \/ Ignores PROVE LineInv' /\ UNCHANGED got
<1>1. /\ owed # <<>> /\ owed' = Tail(owed) /\ UNCHANGED <<asked, got>>
      /\ line' = Append(line, Head(owed)) \/ line' = line
  BY DEF Answers, Ignores
<1>2. Head(owed) \in Answer /\ Tail(owed) \in Seq(Answer) /\ line' \in Seq(Answer)
  BY <1>1 DEF LineInv
<1>3. ASSUME asked # NotAsked
      PROVE  /\ \A i \in DOMAIN line' : Rightful(line'[i])
             /\ \A i \in DOMAIN owed' : Rightful(owed'[i])
  <2>1. \A i \in DOMAIN owed' : i + 1 \in DOMAIN owed /\ owed'[i] = owed[i + 1]
    BY <1>1 DEF LineInv
  <2>2. Rightful(Head(owed)) BY <1>1, <1>3 DEF LineInv
  <2>3. ASSUME NEW i \in DOMAIN line' PROVE Rightful(line'[i])
    <3>1. (i \in DOMAIN line /\ line'[i] = line[i]) \/ line'[i] = Head(owed)
      BY <1>1, <2>3 DEF LineInv
    <3> QED BY <1>3, <2>2, <3>1 DEF LineInv
  <2> QED BY <1>3, <2>1, <2>3 DEF LineInv
<1>4. \A a : Rightful(a)' <=> Rightful(a) BY <1>1 DEF Rightful
<1> QED BY <1>1, <1>2, <1>3, <1>4 DEF LineInv

\* Every step of the line keeps the invariant, and the reply returned last is
\* replaced by one it allows or is left.
LEMMA LineStepKeeps ==
  ASSUME LineInv, ReplyIsOwn, LineStep PROVE LineInv' /\ ReplyIsOwn'
<1>1. UNCHANGED got => ReplyIsOwn' BY DEF ReplyIsOwn
<1>2. CASE \E cmd \in Queries : Ask(cmd) BY <1>1, <1>2, AskKeeps
<1>3. CASE \E cmd : Send(cmd) BY <1>1, <1>3, SendKeeps
<1>4. CASE \E a \in ToSet(line) : Receives(a) BY <1>4, ReceivesKeeps
<1>5. CASE Discards BY <1>1, <1>5 DEF Discards, LineInv, Rightful
<1>6. CASE GivesUp BY <1>1, <1>6 DEF GivesUp, LineInv
<1>7. CASE Answers \/ Ignores BY <1>1, <1>7, RadioKeeps
<1>8. CASE UNCHANGED lineVars BY <1>1, <1>8 DEF lineVars, LineInv, Rightful
<1> QED BY <1>2, <1>3, <1>4, <1>5, <1>6, <1>7, <1>8 DEF LineStep

----------------------------------------------------------------------------
(* The proxy. *)

\* Whatever the loggers, the proxy and the poll thread do, the line takes one
\* of its own steps or none.
LEMMA ProxyStepsTheLine ==
  ASSUME [ProxyNext]_proxyVars PROVE LineStep
<1>1. CASE \E c \in Loggers : Logger(c) \/ Accept(c) \/ ClientThread(c)
  <2>1. PICK c \in Loggers : Logger(c) \/ Accept(c) \/ ClientThread(c) BY <1>1
  <2>2. UNCHANGED lineVars
    BY <2>1 DEF Logger, Accept, ClientThread, Connects, Sends, HangsUp, Recv, RecvClosed,
                Forward, ParseDone, Replies, TimesOut
  <2> QED BY <2>2 DEF LineStep
<1>2. CASE PollThread
  <2>1. CASE RunQuery BY <2>1 DEF RunQuery, IsQuery, LineStep
  <2>2. CASE RunSet
    <3>1. CASE ~Whole(Head(tasks).text) BY <2>2, <3>1 DEF RunSet, LineStep
    <3>2. CASE Whole(Head(tasks).text)
      <4>1. Send(Head(tasks).text[1].cmd) BY <2>2, <3>2 DEF RunSet
      <4> QED BY <4>1 DEF LineStep
    <3> QED BY <3>1, <3>2
  <2>3. CASE QueryAnswered BY <2>3 DEF QueryAnswered, LineStep
  <2>4. CASE QueryLost BY <2>4 DEF QueryLost, LineStep
  <2>5. CASE PollAsks BY <2>5, LoggersAssumption DEF PollAsks, LineStep
  <2>6. CASE PollEnds BY <2>6 DEF PollEnds, LineStep
  <2>7. CASE ReadsOn BY <2>7 DEF ReadsOn, LineStep
  <2> QED BY <1>2, <2>1, <2>2, <2>3, <2>4, <2>5, <2>6, <2>7 DEF PollThread
<1>3. CASE Radio BY <1>3 DEF Radio, LineStep
<1>4. CASE AcceptEnds \/ StopAsked \/ StopReturns
  BY <1>4 DEF AcceptEnds, StopAsked, StopReturns, LineStep
<1>5. CASE UNCHANGED proxyVars BY <1>5 DEF proxyVars, LineStep
<1> QED BY <1>1, <1>2, <1>3, <1>4, <1>5 DEF ProxyNext

\* A meter is never read as a frequency: a reply an exchange returns has the
\* letters of its command, is the answer to that command when it was asked by
\* it, and was asked by an earlier one only when the radio still owed such an
\* answer - whatever the loggers send, and however late the radio is.
THEOREM RepliesAreOwn == ProxySpec => []ReplyIsOwn
<1>1. ProxyInit => LineInv /\ ReplyIsOwn BY InitHolds DEF ProxyInit
<1>2. LineInv /\ ReplyIsOwn /\ [ProxyNext]_proxyVars => (LineInv /\ ReplyIsOwn)'
  BY ProxyStepsTheLine, LineStepKeeps
<1> QED BY <1>1, <1>2, PTL DEF ProxySpec

----------------------------------------------------------------------------
(* What a logger sends is run once, whole and in order. *)

Task == [from : Loggers, text : Seq(Piece), n : Nat]
Promise == [n : Nat, of : Nat, reply : Queries \cup {Absent}]

ServedType ==
  /\ wire \in [Loggers -> Seq(Piece)] /\ pending \in [Loggers -> Seq(Piece)]
  /\ sent \in [Loggers -> 0 .. MaxSent]
  /\ tasks \in Seq(Task) /\ (task # NoTask => task \in Task)
  /\ promise \in [Loggers -> Promise] /\ answered \in [Loggers -> Promise]
  /\ ran \in [Loggers -> Seq([n : Nat, whole : BOOLEAN])]

\* Piece p is the k-th of a text that begins with the command numbered f.
Spells(p, f, k) == k = 2 * (p.n - f) + (IF p.last THEN 2 ELSE 1)

\* What is unread and unparsed is the text of the commands from f on.
Unparsed(c, f) ==
  /\ f \in 1 .. sent[c] + 1
  /\ Len(pending[c]) + Len(wire[c]) = 2 * (sent[c] + 1 - f)
  /\ \A k \in 1 .. Len(pending[c]) : Spells(pending[c][k], f, k)
  /\ \A k \in 1 .. Len(wire[c]) : Spells(wire[c][k], f, Len(pending[c]) + k)

\* The two pieces of a command are of the same command.
OfOneCommand(c) ==
  \A p, q \in ToSet(pending[c]) \cup ToSet(wire[c]) : p.n = q.n => p.cmd = q.cmd

\* The queue holds, in their order, the commands before f that have not run.
Queued(c, f) ==
  /\ Len(ran[c]) < f
  /\ \A i \in 1 .. Len(tasks) : tasks[i].from = c =>
       Len(ran[c]) < tasks[i].n /\ tasks[i].n < f /\ Whole(tasks[i].text)
  /\ \A i, j \in 1 .. Len(tasks) :
       i < j /\ tasks[i].from = c /\ tasks[j].from = c => tasks[i].n < tasks[j].n
  /\ \A n \in Nat : Len(ran[c]) < n /\ n < f =>
       \E i \in 1 .. Len(tasks) : tasks[i].from = c /\ tasks[i].n = n

Served(c) ==
  /\ \A i \in 1 .. Len(ran[c]) : ran[c][i].whole /\ ran[c][i].n = i
  /\ OfOneCommand(c)
  /\ \E f \in Nat : Unparsed(c, f) /\ Queued(c, f)

\* A future is given the result of its own command.
OwnResult(c) ==
  /\ promise[c].of \in {0, promise[c].n}
  /\ answered[c].of = answered[c].n

ServedInv == ServedType /\ \A c \in Loggers : Served(c) /\ OwnResult(c)

\* The queue when a logger's next command joins it.
LEMMA QueueJoined ==
  ASSUME ServedType, NEW t \in Task, tasks' = Append(tasks, t), UNCHANGED ran,
         NEW d \in Loggers, NEW f \in Nat, Queued(d, f)
  PROVE  /\ t.from # d => Queued(d, f)'
         /\ t.from = d /\ t.n = f /\ Whole(t.text) => Queued(d, f + 1)'
<1> DEFINE N == Len(tasks)
<1>1. /\ N \in Nat /\ Len(tasks') = N + 1 /\ tasks'[N + 1] = t
      /\ \A i \in 1 .. N : tasks'[i] = tasks[i] /\ tasks[i] \in Task
      /\ \A i \in 1 .. N + 1 : i \in 1 .. N \/ i = N + 1
      /\ Len(ran[d]) \in Nat /\ ran' = ran
  <2>1. tasks \in Seq(Task) /\ ran[d] \in Seq([n : Nat, whole : BOOLEAN])
    BY DEF ServedType
  <2>2. N \in Nat /\ Len(tasks') = N + 1 /\ tasks'[N + 1] = t
    BY <2>1
  <2>3. \A i \in 1 .. N : tasks'[i] = tasks[i] /\ tasks[i] \in Task
    BY <2>1
  <2>4. \A i \in 1 .. N + 1 : i \in 1 .. N \/ i = N + 1
    BY <2>2
  <2>5. Len(ran[d]) \in Nat
    BY <2>1
  <2> QED BY <2>2, <2>3, <2>4, <2>5
<1> HIDE DEF N
<1>2. \A i \in 1 .. N : i < N + 1 /\ tasks[i].n \in Nat
  BY <1>1 DEF Task
<1>3. ASSUME t.from # d PROVE Queued(d, f)'
  BY <1>1, <1>2, <1>3 DEF Queued, N
<1>4. ASSUME t.from = d, t.n = f, Whole(t.text) PROVE Queued(d, f + 1)'
  <2>1. Len(ran'[d]) < f + 1
    BY <1>1 DEF Queued
  <2>2. \A i \in 1 .. Len(tasks') : tasks'[i].from = d =>
          Len(ran'[d]) < tasks'[i].n /\ tasks'[i].n < f + 1 /\ Whole(tasks'[i].text)
    BY <1>1, <1>2, <1>4 DEF Queued, N
  <2>3. \A i, j \in 1 .. Len(tasks') :
          i < j /\ tasks'[i].from = d /\ tasks'[j].from = d => tasks'[i].n < tasks'[j].n
    BY <1>1, <1>2, <1>4 DEF Queued, N
  <2>4. ASSUME NEW n \in Nat, Len(ran'[d]) < n, n < f + 1
        PROVE  \E i \in 1 .. Len(tasks') : tasks'[i].from = d /\ tasks'[i].n = n
    <3>1. CASE n = f
      BY <1>1, <1>4, <3>1
    <3>2. CASE n < f
      BY <1>1, <2>4, <3>2 DEF Queued, N
    <3> QED BY <2>4, <3>1, <3>2
  <2> QED BY <2>1, <2>2, <2>3, <2>4 DEF Queued
<1> QED BY <1>3, <1>4

\* The head of the queue is its logger's next command, and the rest is in order.
LEMMA QueueServed ==
  ASSUME ServedType, tasks # <<>>, tasks' = Tail(tasks), Ran(Head(tasks)),
         NEW d \in Loggers, NEW f \in Nat, Queued(d, f)
  PROVE  /\ Queued(d, f)'
         /\ Head(tasks).from = d =>
              /\ Head(tasks).n = Len(ran[d]) + 1 /\ Whole(Head(tasks).text)
              /\ ran'[d] = Append(ran[d], [n |-> Len(ran[d]) + 1, whole |-> TRUE])
         /\ Head(tasks).from # d => ran'[d] = ran[d]
<1> DEFINE t == Head(tasks)
<1> DEFINE N == Len(tasks)
<1>1. /\ N \in Nat /\ N > 0 /\ t = tasks[1] /\ t \in Task /\ Len(tasks') = N - 1
      /\ \A i \in 1 .. N - 1 : i + 1 \in 1 .. N /\ tasks'[i] = tasks[i + 1]
      /\ \A i \in 1 .. N : tasks[i] \in Task /\ (i # 1 => i - 1 \in 1 .. N - 1)
      /\ Len(ran[d]) \in Nat /\ 1 \in 1 .. N
  BY DEF ServedType
<1>2. \A i \in 1 .. N : tasks[i].n \in Nat
  BY <1>1 DEF Task
<1>3. /\ ran' = [ran EXCEPT ![t.from] = Append(@, [n |-> t.n, whole |-> Whole(t.text)])]
      /\ t.from \in Loggers
  BY <1>1 DEF Ran, Task
<1> HIDE DEF N, t
<1>4. CASE t.from = d
  <2>1. Len(ran[d]) < t.n /\ t.n < f /\ Whole(t.text)
    BY <1>1, <1>4 DEF Queued, N
  <2>2. t.n = Len(ran[d]) + 1
    <3> DEFINE n == Len(ran[d]) + 1
    <3>a. n \in Nat /\ Len(ran[d]) < n /\ n < f
      BY <1>1, <1>2, <2>1
    <3> HIDE DEF n
    <3>b. PICK i \in 1 .. N : tasks[i].from = d /\ tasks[i].n = n
      BY <3>a DEF Queued, N
    <3>1. tasks[i].from = d /\ tasks[i].n = Len(ran[d]) + 1
      BY <3>b DEF n
    <3>2. i = 1 \/ tasks[1].n < tasks[i].n
      BY <1>1, <1>4, <3>1 DEF Queued, N
    <3> QED BY <1>1, <1>2, <2>1, <3>1, <3>2
  <2>3. ran'[d] = Append(ran[d], [n |-> Len(ran[d]) + 1, whole |-> TRUE])
    BY <1>3, <1>4, <2>1, <2>2 DEF ServedType
  <2>4. Len(ran'[d]) = t.n
    BY <2>2, <2>3 DEF ServedType
  <2>5. \A i \in 1 .. Len(tasks') : tasks'[i].from = d =>
          Len(ran'[d]) < tasks'[i].n /\ tasks'[i].n < f /\ Whole(tasks'[i].text)
    BY <1>1, <1>4, <2>4 DEF Queued, N
  <2>6. \A i, j \in 1 .. Len(tasks') :
          i < j /\ tasks'[i].from = d /\ tasks'[j].from = d => tasks'[i].n < tasks'[j].n
    BY <1>1 DEF Queued, N
  <2>7. ASSUME NEW n \in Nat, Len(ran'[d]) < n, n < f
        PROVE  \E i \in 1 .. Len(tasks') : tasks'[i].from = d /\ tasks'[i].n = n
    <3>1. PICK i \in 1 .. N : tasks[i].from = d /\ tasks[i].n = n
      BY <1>1, <1>2, <2>1, <2>4, <2>7 DEF Queued, N
    <3>2. i # 1
      BY <1>1, <1>2, <2>4, <2>7, <3>1
    <3>3. i - 1 \in 1 .. Len(tasks') /\ tasks'[i - 1] = tasks[i]
      BY <1>1, <3>2
    <3> QED BY <3>1, <3>3
  <2>8. Queued(d, f)'
    BY <2>1, <2>4, <2>5, <2>6, <2>7 DEF Queued
  <2> QED BY <1>4, <2>1, <2>2, <2>3, <2>8 DEF t
<1>5. CASE t.from # d
  <2>1. ran'[d] = ran[d]
    BY <1>3, <1>5 DEF ServedType
  <2>2. ASSUME NEW n \in Nat, Len(ran'[d]) < n, n < f
        PROVE  \E i \in 1 .. Len(tasks') : tasks'[i].from = d /\ tasks'[i].n = n
    <3>1. PICK i \in 1 .. N : tasks[i].from = d /\ tasks[i].n = n
      BY <2>1, <2>2 DEF Queued, N
    <3>2. i # 1
      BY <1>1, <1>5, <3>1
    <3>3. i - 1 \in 1 .. Len(tasks') /\ tasks'[i - 1] = tasks[i]
      BY <1>1, <3>2
    <3> QED BY <3>1, <3>3
  <2>3. Queued(d, f)'
    BY <1>1, <2>1, <2>2 DEF Queued, N
  <2> QED BY <1>5, <2>1, <2>3 DEF t
<1> QED BY <1>4, <1>5

\* The elements of a sequence are those at its places.
LEMMA Elements ==
  ASSUME NEW S, NEW s \in Seq(S)
  PROVE  \A q : q \in ToSet(s) <=> \E i \in 1 .. Len(s) : s[i] = q
<1>1. DOMAIN s = 1 .. Len(s)
  OBVIOUS
<1> QED BY <1>1, Zenon DEF ToSet

LEMMA PieceType ==
  ASSUME NEW p \in Piece
  PROVE  p.n \in Nat /\ p.last \in BOOLEAN
BY SentAssumption DEF Piece, Numbers

LEMMA Arithmetic ==
  ASSUME NEW n \in Int, NEW f \in Int, NEW k \in Int, NEW e \in {1, 2},
         k = 2 * (n - f) + e
  PROVE  /\ k = 1 => n = f /\ e = 1
         /\ k = 2 => n = f /\ e = 2
         /\ e = 2 /\ k >= 1 => k >= 2
         /\ \A m \in Int : k <= 2 * (m - f) => n < m
<1>1. ASSUME NEW m \in Int, k <= 2 * (m - f) PROVE n < m
  BY <1>1
<1> QED BY <1>1

\* The place of a piece gives its number and whether it is the last, and bounds
\* its number.
LEMMA Placed ==
  ASSUME NEW p \in Piece, NEW f \in Nat, NEW k \in Nat, Spells(p, f, k)
  PROVE  /\ k = 1 => p.n = f /\ ~p.last
         /\ k = 2 => p.n = f /\ p.last
         /\ p.last /\ k >= 1 => k >= 2
         /\ \A m \in Int : k <= 2 * (m - f) => p.n < m
<1>1. PICK e \in {1, 2} : k = 2 * (p.n - f) + e /\ (p.last <=> e = 2)
  BY PieceType DEF Spells
<1>2. p.n \in Int /\ f \in Int /\ k \in Int
  BY PieceType
<1> QED BY <1>1, <1>2, Arithmetic

\* What type correctness says of a logger's texts.
LEMMA StreamType ==
  ASSUME ServedType, NEW c \in Loggers
  PROVE  /\ wire[c] \in Seq(Piece) /\ pending[c] \in Seq(Piece) /\ sent[c] \in Nat
         /\ Len(wire[c]) \in Nat /\ Len(pending[c]) \in Nat
<1>1. wire[c] \in Seq(Piece) /\ pending[c] \in Seq(Piece)
  BY DEF ServedType
<1>2. sent[c] \in Nat
  BY SentAssumption DEF ServedType
<1> QED BY <1>1, <1>2

\* The first command of an unparsed text, if it has come whole, is number f.
LEMMA FirstCommand ==
  ASSUME ServedType, NEW c \in Loggers, NEW f \in Nat, Unparsed(c, f), OfOneCommand(c),
         NEW k \in CommandEnds(c), \A j \in CommandEnds(c) : k <= j
  PROVE  /\ k = 2 /\ Len(pending[c]) >= 2 /\ f <= sent[c]
         /\ SubSeq(pending[c], 1, k)[k].n = f /\ Whole(SubSeq(pending[c], 1, k))
<1> DEFINE p == pending[c]
<1>1. /\ p \in Seq(Piece) /\ Len(p) \in Nat /\ DOMAIN p = 1 .. Len(p)
      /\ \A i \in 1 .. Len(p) : p[i] \in Piece /\ p[i].n \in Nat /\ p[i].last \in BOOLEAN
      /\ k \in 1 .. Len(p) /\ p[k].last
      /\ sent[c] \in Nat /\ Len(wire[c]) \in Nat
  <2>1. p \in Seq(Piece) /\ sent[c] \in Nat /\ Len(wire[c]) \in Nat
    BY StreamType
  <2>2. DOMAIN p = 1 .. Len(p) /\ Len(p) \in Nat /\ \A i \in 1 .. Len(p) : p[i] \in Piece
    BY <2>1
  <2>3. k \in 1 .. Len(p) /\ p[k].last
    BY <2>2 DEF CommandEnds
  <2> QED BY <2>1, <2>2, <2>3, PieceType
<1>2. \A i \in 1 .. Len(p) : Spells(p[i], f, i)
  BY DEF Unparsed
<1> HIDE DEF p
<1>3. k >= 2
  BY <1>1, <1>2, Placed
<1>4. 1 \in 1 .. Len(p) /\ 2 \in 1 .. Len(p)
  BY <1>1, <1>3
<1>5. p[1].n = f /\ ~p[1].last /\ p[2].n = f /\ p[2].last
  BY <1>1, <1>2, <1>4, Placed
<1>6. k = 2
  BY <1>1, <1>3, <1>4, <1>5 DEF CommandEnds, p
<1>7. SubSeq(p, 1, 2) \in Seq(Piece) /\ Len(SubSeq(p, 1, 2)) = 2
      /\ SubSeq(p, 1, 2)[1] = p[1] /\ SubSeq(p, 1, 2)[2] = p[2]
  BY <1>1, <1>4
<1>8. p[1].cmd = p[2].cmd
  <2>1. p \in Seq(Piece) /\ p[1] \in ToSet(p) /\ p[2] \in ToSet(p)
    BY <1>1, <1>4, Elements
  <2> QED BY <1>1, <1>5, <2>1 DEF OfOneCommand, p
<1>9. f <= sent[c]
  <2>1. Len(p) + Len(wire[c]) = 2 * (sent[c] + 1 - f)
    BY DEF Unparsed, p
  <2> QED BY <1>1, <1>4, <2>1
<1> QED BY <1>1, <1>3, <1>4, <1>5, <1>6, <1>7, <1>8, <1>9 DEF Whole, p

\* The steps of a logger and of its connection up to a command it has parsed.
LEMMA StreamServed ==
  ASSUME ServedInv, NEW c \in Loggers,
         \/ Connects(c) \/ (\E cmd \in Wanted : Sends(c, cmd)) \/ HangsUp(c) \/ Accept(c)
         \/ Recv(c) \/ RecvClosed(c) \/ ParseDone(c) \/ Replies(c) \/ TimesOut(c)
  PROVE  ServedInv'
<1>1. /\ ServedType /\ UNCHANGED <<tasks, task, ran, promise>>
      /\ \A d \in Loggers : Served(d) /\ OwnResult(d)
      /\ wire[c] \in Seq(Piece) /\ pending[c] \in Seq(Piece) /\ sent[c] \in Nat
      /\ Len(wire[c]) \in Nat /\ Len(pending[c]) \in Nat
  <2>1. ServedType /\ \A d \in Loggers : Served(d) /\ OwnResult(d)
    BY DEF ServedInv
  <2>2. UNCHANGED <<tasks, task, ran, promise>>
    BY DEF Connects, Sends, HangsUp, Accept, Recv, RecvClosed, ParseDone, Replies, TimesOut,
           queueVars
  <2> QED BY <2>1, <2>2, StreamType
<1>2. \A d \in Loggers : \A f \in Nat : Queued(d, f)' <=> Queued(d, f)
  BY <1>1 DEF Queued
<1>3. ASSUME UNCHANGED <<wire, pending, sent>>
      PROVE  \A d \in Loggers : Served(d)'
  <2>1. \A d \in Loggers : \A f \in Nat : Unparsed(d, f)' <=> Unparsed(d, f)
    BY <1>3 DEF Unparsed
  <2> QED BY <1>1, <1>2, <1>3, <2>1 DEF Served, OfOneCommand
<1>4. ASSUME UNCHANGED <<wire, pending, sent, answered>>
      PROVE  ServedInv'
  <2>1. ServedType' /\ \A d \in Loggers : OwnResult(d)'
    BY <1>1, <1>4 DEF ServedType, OwnResult
  <2> QED BY <1>3, <1>4, <2>1 DEF ServedInv
<1>5. ASSUME UNCHANGED answered, wire' \in [Loggers -> Seq(Piece)],
             pending' \in [Loggers -> Seq(Piece)], sent' \in [Loggers -> 0 .. MaxSent],
             \A d \in Loggers \ {c} : /\ wire'[d] = wire[d] /\ pending'[d] = pending[d]
                                      /\ sent'[d] = sent[d],
             OfOneCommand(c)', \A f \in Nat : Unparsed(c, f) => Unparsed(c, f)'
      PROVE  ServedInv'
  <2>1. ServedType' /\ \A d \in Loggers : OwnResult(d)'
    BY <1>1, <1>5 DEF ServedType, OwnResult
  <2>2. ASSUME NEW d \in Loggers, NEW f \in Nat, Unparsed(d, f) PROVE Unparsed(d, f)'
    <3>1. CASE d = c
      BY <1>5, <2>2, <3>1
    <3>2. CASE d # c
      <4>1. wire'[d] = wire[d] /\ pending'[d] = pending[d] /\ sent'[d] = sent[d]
        BY <1>5, <3>2
      <4> QED BY <2>2, <4>1 DEF Unparsed
    <3> QED BY <3>1, <3>2
  <2>a. ASSUME NEW d \in Loggers PROVE OfOneCommand(d)'
    <3>1. CASE d = c
      BY <1>5, <3>1
    <3>2. CASE d # c
      <4>1. wire'[d] = wire[d] /\ pending'[d] = pending[d] /\ OfOneCommand(d)
        BY <1>1, <1>5, <3>2 DEF Served
      <4> QED BY <4>1 DEF OfOneCommand
    <3> QED BY <3>1, <3>2
  <2>3. ASSUME NEW d \in Loggers PROVE Served(d)'
    <3>1. PICK f \in Nat : Unparsed(d, f) /\ Queued(d, f)
      BY <1>1 DEF Served
    <3> QED BY <1>1, <1>2, <2>2, <2>a, <3>1 DEF Served
  <2> QED BY <2>1, <2>3 DEF ServedInv
<1>6. CASE Connects(c) \/ HangsUp(c) \/ Accept(c) \/ RecvClosed(c) \/ ParseDone(c) \/ TimesOut(c)
  BY <1>4, <1>6 DEF Connects, HangsUp, Accept, RecvClosed, ParseDone, TimesOut
<1>7. CASE Replies(c)
  <2>1. answered' = answered \/ answered' = [answered EXCEPT ![c] = promise[c]]
    BY <1>7 DEF Replies
  <2>2. promise[c].of = promise[c].n /\ promise[c] \in Promise
    BY <1>1, <1>7 DEF Replies, OwnResult, ServedType
  <2>3. answered' \in [Loggers -> Promise] /\ \A d \in Loggers : OwnResult(d)'
    BY <1>1, <2>1, <2>2 DEF ServedType, OwnResult
  <2>4. ServedType' /\ \A d \in Loggers : Served(d)'
    BY <1>1, <1>3, <1>7, <2>3 DEF Replies, ServedType
  <2> QED BY <2>3, <2>4 DEF ServedInv
<1>8. ASSUME NEW cmd \in Wanted, Sends(c, cmd) PROVE ServedInv'
  <2> DEFINE n == sent[c] + 1
  <2> DEFINE a == [cmd |-> cmd, n |-> n, last |-> FALSE]
  <2> DEFINE b == [cmd |-> cmd, n |-> n, last |-> TRUE]
  <2>1. /\ sent' = [sent EXCEPT ![c] = @ + 1] /\ sent[c] < MaxSent /\ n \in Numbers
        /\ UNCHANGED <<pending, answered>>
    BY <1>1, <1>8, SentAssumption DEF Sends, Numbers
  <2>2. sent'[c] = n /\ sent' \in [Loggers -> 0 .. MaxSent]
    BY <1>1, <2>1, SentAssumption DEF ServedType, Numbers
  <2>3. wire' = [wire EXCEPT ![c] = @ \o <<a, b>>]
    BY <1>8, <2>2 DEF Sends
  <2>4. a \in Piece /\ b \in Piece
    BY <2>1, LoggersAssumption DEF Piece
  <2>5. /\ wire'[c] \in Seq(Piece) /\ Len(wire'[c]) = Len(wire[c]) + 2
        /\ \A k \in 1 .. Len(wire[c]) : wire'[c][k] = wire[c][k]
        /\ wire'[c][Len(wire[c]) + 1] = a /\ wire'[c][Len(wire[c]) + 2] = b
    BY <1>1, <2>3, <2>4 DEF ServedType
  <2>6. wire' \in [Loggers -> Seq(Piece)]
    BY <1>1, <2>3, <2>5 DEF ServedType
  <2>7. a.n = n /\ b.n = n /\ ~a.last /\ b.last /\ a.cmd = b.cmd
    OBVIOUS
  <2> HIDE DEF a, b
  <2>8. ASSUME NEW f \in Nat, Unparsed(c, f) PROVE Unparsed(c, f)'
    <3>1. PICK P \in Nat, W \in Nat, m \in Nat :
            P = Len(pending[c]) /\ W = Len(wire[c]) /\ m = sent[c]
      BY <1>1
    <3>2. P + W = 2 * (m + 1 - f) /\ f \in 1 .. m + 1
      BY <2>8, <3>1 DEF Unparsed
    <3>3. /\ P + (W + 1) = 2 * (m + 1 - f) + 1 /\ P + (W + 2) = 2 * (m + 1 - f) + 2
          /\ P + (W + 2) = 2 * (m + 1 + 1 - f) /\ f \in 1 .. m + 1 + 1
      BY <3>2
    <3>4. Spells(a, f, P + (W + 1)) /\ Spells(b, f, P + (W + 2))
      <4>1. a.n = m + 1 /\ b.n = m + 1
        BY <2>7, <3>1
      <4>2. /\ P + (W + 1) = 2 * (a.n - f) + 1
            /\ P + (W + 2) = 2 * (b.n - f) + 2
        BY <3>3, <4>1
      <4> QED BY <2>7, <4>2 DEF Spells
    <3>5. ASSUME NEW k \in 1 .. W + 2 PROVE Spells(wire'[c][k], f, P + k)
      <4>1. k \in 1 .. W \/ k = W + 1 \/ k = W + 2
        OBVIOUS
      <4>2. CASE k \in 1 .. W
        BY <2>5, <2>8, <3>1, <4>2 DEF Unparsed
      <4>3. CASE k = W + 1
        BY <2>5, <3>1, <3>4, <4>3
      <4>4. CASE k = W + 2
        BY <2>5, <3>1, <3>4, <4>4
      <4> QED BY <4>1, <4>2, <4>3, <4>4
    <3>6. Len(wire'[c]) = W + 2 /\ pending'[c] = pending[c] /\ sent'[c] = m + 1
      BY <2>1, <2>2, <2>5, <3>1
    <3>7. \A k \in 1 .. P : Spells(pending[c][k], f, k)
      BY <2>8, <3>1 DEF Unparsed
    <3> QED BY <3>1, <3>3, <3>5, <3>6, <3>7 DEF Unparsed
  <2>9. \A q \in ToSet(wire'[c]) : q \in ToSet(wire[c]) \/ q = a \/ q = b
    <3>1. ASSUME NEW k \in 1 .. Len(wire'[c])
          PROVE  wire'[c][k] \in ToSet(wire[c]) \/ wire'[c][k] \in {a, b}
      <4>1. k \in 1 .. Len(wire[c]) \/ k = Len(wire[c]) + 1 \/ k = Len(wire[c]) + 2
        BY <1>1, <2>5
      <4> QED BY <1>1, <2>5, <4>1, Elements
    <3> QED BY <2>5, <3>1, Elements
  <2>10. PICK f \in Nat : Unparsed(c, f)
    BY <1>1 DEF Served
  <2>11. \A q \in ToSet(pending[c]) \cup ToSet(wire[c]) : q.n < n
    <3>0. PICK P \in Nat, W \in Nat, m \in Nat :
            P = Len(pending[c]) /\ W = Len(wire[c]) /\ m = sent[c]
      BY <1>1
    <3>1. P + W = 2 * (m + 1 - f) /\ n = m + 1
      BY <2>10, <3>0 DEF Unparsed
    <3> HIDE DEF n
    <3>a. n \in Int /\ P + W = 2 * (n - f)
      BY <3>1
    <3>b. \A q \in Piece : \A k \in Nat : k <= P + W /\ Spells(q, f, k) => q.n < n
      BY <3>a, Placed
    <3>c. ASSUME NEW k \in 1 .. Len(pending[c]) PROVE pending[c][k].n < n
      <4>a. pending[c][k] \in Piece /\ k \in Nat /\ k <= P
        BY <1>1, <3>0
      <4>1. pending[c][k] \in Piece /\ k \in Nat /\ k <= P + W
        BY <4>a
      <4> QED BY <2>10, <3>b, <4>1 DEF Unparsed
    <3>2. ASSUME NEW k \in 1 .. Len(wire[c]) PROVE wire[c][k].n < n
      <4>a. wire[c][k] \in Piece /\ k \in Nat /\ k <= W
        BY <1>1, <3>0
      <4>1. P + k \in Nat /\ P + k <= P + W
        BY <4>a
      <4> QED BY <2>10, <3>0, <3>b, <4>a, <4>1 DEF Unparsed
    <3> QED BY <1>1, <3>c, <3>2, Elements
  <2>12. OfOneCommand(c)'
    <3>1. n \in Nat
      BY <1>1
    <3>2. \A q \in ToSet(pending'[c]) \cup ToSet(wire'[c]) :
            q \in ToSet(pending[c]) \cup ToSet(wire[c]) \/ q = a \/ q = b
      BY <2>1, <2>9
    <3>3. \A q \in ToSet(pending[c]) \cup ToSet(wire[c]) : q.n # n
      BY <2>11, <3>1
    <3> HIDE DEF n
    <3> QED BY <1>1, <2>7, <3>2, <3>3 DEF OfOneCommand, Served
  <2> QED BY <1>1, <1>5, <2>1, <2>2, <2>3, <2>6, <2>8, <2>12 DEF ServedType
<1>9. CASE Recv(c)
  <2>1. PICK k \in 1 .. Len(wire[c]) :
          /\ pending' = [pending EXCEPT ![c] = @ \o SubSeq(wire[c], 1, k)]
          /\ wire' = [wire EXCEPT ![c] = SubSeq(@, k + 1, Len(@))]
    BY <1>9 DEF Recv
  <2>2. /\ SubSeq(wire[c], 1, k) \in Seq(Piece) /\ Len(SubSeq(wire[c], 1, k)) = k
        /\ \A i \in 1 .. k : SubSeq(wire[c], 1, k)[i] = wire[c][i]
    BY <1>1, <2>1
  <2>3. /\ wire'[c] \in Seq(Piece) /\ Len(wire'[c]) = Len(wire[c]) - k
        /\ \A i \in 1 .. Len(wire[c]) - k : wire'[c][i] = wire[c][k + i]
    <3>1. wire'[c] = SubSeq(wire[c], k + 1, Len(wire[c]))
      BY <1>1, <2>1 DEF ServedType
    <3>2. \A i \in k + 1 .. Len(wire[c]) : wire[c][i] \in Piece
      BY <1>1
    <3>3. k + 1 \in Int /\ Len(wire[c]) \in Int
      BY <1>1
    <3> QED BY <1>1, <3>1, <3>2, <3>3, SubSeqProperties
  <2>4. /\ pending'[c] \in Seq(Piece) /\ Len(pending'[c]) = Len(pending[c]) + k
        /\ \A i \in 1 .. Len(pending[c]) : pending'[c][i] = pending[c][i]
        /\ \A i \in 1 .. k : pending'[c][Len(pending[c]) + i] = wire[c][i]
    <3>1. pending'[c] = pending[c] \o SubSeq(wire[c], 1, k)
      BY <1>1, <2>1 DEF ServedType
    <3> QED BY <1>1, <2>2, <3>1
  <2>5. /\ wire' \in [Loggers -> Seq(Piece)] /\ pending' \in [Loggers -> Seq(Piece)]
        /\ UNCHANGED <<sent, answered>>
    BY <1>1, <1>9, <2>1, <2>3, <2>4 DEF ServedType, Recv
  <2>6. ASSUME NEW f \in Nat, Unparsed(c, f) PROVE Unparsed(c, f)'
    <3>1. ASSUME NEW i \in 1 .. Len(pending'[c]) PROVE Spells(pending'[c][i], f, i)
      <4>1. CASE i \in 1 .. Len(pending[c])
        BY <2>4, <2>6, <4>1 DEF Unparsed
      <4>2. CASE i \notin 1 .. Len(pending[c])
        <5> DEFINE j == i - Len(pending[c])
        <5>1. j \in 1 .. k /\ j \in 1 .. Len(wire[c]) /\ i = Len(pending[c]) + j
          BY <1>1, <2>4, <4>2
        <5> HIDE DEF j
        <5> QED BY <2>4, <2>6, <5>1 DEF Unparsed
      <4> QED BY <4>1, <4>2
    <3>2. ASSUME NEW i \in 1 .. Len(wire'[c])
          PROVE  Spells(wire'[c][i], f, Len(pending'[c]) + i)
      <4>1. k + i \in 1 .. Len(wire[c]) /\ wire'[c][i] = wire[c][k + i]
        BY <1>1, <2>3
      <4>2. PICK P \in Nat, Q \in Nat, h \in Nat, j \in Nat :
              P = Len(pending[c]) /\ Q = Len(pending'[c]) /\ h = k /\ j = i /\ Q = P + h
        BY <1>1, <2>3, <2>4
      <4>3. (P + h) + j = P + (h + j)
        OBVIOUS
      <4>4. Spells(wire[c][k + i], f, P + (h + j))
        BY <2>6, <4>1, <4>2 DEF Unparsed
      <4> QED BY <4>1, <4>2, <4>3, <4>4
    <3>3. Len(pending'[c]) + Len(wire'[c]) = Len(pending[c]) + Len(wire[c])
      <4>1. PICK P \in Nat, W \in Nat, h \in Nat :
              P = Len(pending[c]) /\ W = Len(wire[c]) /\ h = k
        BY <1>1
      <4>2. Len(pending'[c]) = P + h /\ Len(wire'[c]) = W - h
        BY <2>3, <2>4, <4>1
      <4>3. (P + h) + (W - h) = P + W
        OBVIOUS
      <4> QED BY <4>1, <4>2, <4>3
    <3> QED BY <2>5, <2>6, <3>1, <3>2, <3>3 DEF Unparsed
  <2>7. OfOneCommand(c)'
    <3>1. ToSet(wire'[c]) \subseteq ToSet(wire[c])
      <4>1. ASSUME NEW i \in 1 .. Len(wire'[c]) PROVE wire'[c][i] \in ToSet(wire[c])
        <5>1. k + i \in 1 .. Len(wire[c]) /\ wire'[c][i] = wire[c][k + i]
          BY <1>1, <2>3
        <5> QED BY <1>1, <5>1, Elements
      <4>2. \A q : q \in ToSet(wire'[c]) <=> \E i \in 1 .. Len(wire'[c]) : wire'[c][i] = q
        BY <2>3, Elements
      <4> QED BY <4>1, <4>2, Zenon
    <3>2. ToSet(pending'[c]) \subseteq ToSet(pending[c]) \cup ToSet(wire[c])
      <4>1. ASSUME NEW i \in 1 .. Len(pending'[c])
            PROVE  pending'[c][i] \in ToSet(pending[c]) \cup ToSet(wire[c])
        <5>1. CASE i \in 1 .. Len(pending[c])
          BY <1>1, <2>4, <5>1, Elements
        <5>2. CASE i \notin 1 .. Len(pending[c])
          <6> DEFINE j == i - Len(pending[c])
          <6>1. j \in 1 .. k /\ j \in 1 .. Len(wire[c]) /\ i = Len(pending[c]) + j
            BY <1>1, <2>4, <5>2
          <6> HIDE DEF j
          <6> QED BY <1>1, <2>4, <6>1, Elements
        <5> QED BY <5>1, <5>2
      <4>2. \A q : q \in ToSet(pending'[c])
                     <=> \E i \in 1 .. Len(pending'[c]) : pending'[c][i] = q
        BY <2>4, Elements
      <4> QED BY <4>1, <4>2
    <3> QED BY <1>1, <3>1, <3>2 DEF Served, OfOneCommand
  <2> QED BY <1>1, <1>5, <2>1, <2>5, <2>6, <2>7 DEF ServedType
<1> QED BY <1>6, <1>7, <1>8, <1>9

\* A command that has come whole is the first two pieces.
LEMMA FirstEnds ==
  ASSUME ServedType, NEW c \in Loggers, NEW f \in Nat, Unparsed(c, f), CommandEnds(c) # {}
  PROVE  2 \in CommandEnds(c) /\ \A j \in CommandEnds(c) : j \in Nat /\ 2 <= j
<1> DEFINE p == pending[c]
<1>1. p \in Seq(Piece) /\ Len(p) \in Nat /\ DOMAIN p = 1 .. Len(p)
  BY StreamType
<1>2. \A i \in 1 .. Len(p) : p[i] \in Piece /\ Spells(p[i], f, i)
  BY <1>1 DEF Unparsed
<1>3. \A j : j \in CommandEnds(c) <=> j \in 1 .. Len(p) /\ p[j].last
  BY <1>1 DEF CommandEnds
<1> HIDE DEF p
<1>4. \A j \in CommandEnds(c) : j \in Nat /\ 2 <= j
  <2>1. ASSUME NEW j \in CommandEnds(c) PROVE j \in Nat /\ 2 <= j
    <3>1. j \in 1 .. Len(p) /\ p[j].last /\ j \in Nat /\ j >= 1 /\ p[j] \in Piece
      BY <1>1, <1>2, <1>3
    <3>2. Spells(p[j], f, j)
      BY <1>2, <3>1
    <3> QED BY <3>1, <3>2, Placed
  <2> QED BY <2>1
<1>5. 2 \in 1 .. Len(p)
  <2>1. PICK j \in CommandEnds(c) : TRUE
    OBVIOUS
  <2> QED BY <1>1, <1>3, <1>4, <2>1
<1>6. p[2].last
  BY <1>2, <1>5, Placed
<1> QED BY <1>3, <1>4, <1>5, <1>6

\* A logger's texts and commands that nothing has touched.
LEMMA ServedKept ==
  ASSUME NEW d \in Loggers, Served(d), tasks' = tasks, ran'[d] = ran[d],
         wire'[d] = wire[d], pending'[d] = pending[d], sent'[d] = sent[d]
  PROVE  Served(d)'
<1>1. PICK f \in Nat : Unparsed(d, f) /\ Queued(d, f)
  BY DEF Served
<1>2. Unparsed(d, f)'
  BY <1>1 DEF Unparsed
<1>3. Queued(d, f)'
  BY <1>1 DEF Queued
<1>4. OfOneCommand(d)'
  BY DEF Served, OfOneCommand
<1>5. \A i \in 1 .. Len(ran'[d]) : ran'[d][i].whole /\ ran'[d][i].n = i
  BY DEF Served
<1> QED BY <1>1, <1>2, <1>3, <1>4, <1>5 DEF Served

\* A result is given to the future of its own command.
LEMMA FulfilledOwn ==
  ASSUME ServedType, \A d \in Loggers : OwnResult(d), UNCHANGED answered,
         NEW t, t.from \in Loggers, t.n \in Nat, NEW r \in Queries \cup {Absent},
         promise' = promise \/ Fulfils(t, r)
  PROVE  promise' \in [Loggers -> Promise] /\ \A d \in Loggers : OwnResult(d)'
<1>1. CASE promise' = promise
  BY <1>1 DEF ServedType, OwnResult
<1>2. CASE promise' # promise
  <2> DEFINE c == t.from
  <2>1. /\ promise[c].n = t.n
        /\ promise' = [promise EXCEPT ![c] = [@ EXCEPT !.of = t.n, !.reply = r]]
    BY <1>2 DEF Fulfils
  <2>2. promise[c] \in Promise
    BY DEF ServedType
  <2> DEFINE of(q) == [q EXCEPT !.of = t.n, !.reply = r]
  <2>3. \A q \in Promise : of(q) \in Promise /\ of(q).n = q.n /\ of(q).of = t.n
    BY DEF Promise
  <2>4. promise' = [promise EXCEPT ![c] = of(promise[c])]
    BY <2>1
  <2> HIDE DEF of
  <2>5. promise' \in [Loggers -> Promise]
    BY <2>2, <2>3, <2>4 DEF ServedType
  <2>6. \A d \in Loggers : promise'[d].of \in {0, promise'[d].n}
    BY <2>1, <2>2, <2>3, <2>4 DEF ServedType, OwnResult
  <2> QED BY <2>5, <2>6 DEF OwnResult
<1> QED BY <1>1, <1>2

\* A command that has come whole is queued, as the logger's next.
LEMMA ForwardServed ==
  ASSUME ServedInv, NEW c \in Loggers, Forward(c)
  PROVE  ServedInv'
<1> DEFINE k == CHOOSE i \in CommandEnds(c) : \A j \in CommandEnds(c) : i <= j
<1> DEFINE text == SubSeq(pending[c], 1, k)
<1> DEFINE t == [from |-> c, text |-> text, n |-> text[k].n]
<1>1. /\ ServedType /\ \A d \in Loggers : Served(d) /\ OwnResult(d)
      /\ wire[c] \in Seq(Piece) /\ pending[c] \in Seq(Piece) /\ sent[c] \in Nat
      /\ Len(wire[c]) \in Nat /\ Len(pending[c]) \in Nat
  BY StreamType DEF ServedInv
<1>2. /\ tasks' = Append(tasks, t)
      /\ promise' = [promise EXCEPT ![c] = [NoPromise EXCEPT !.n = text[k].n]]
      /\ pending' = [pending EXCEPT ![c] = SubSeq(@, k + 1, Len(@))]
      /\ UNCHANGED <<wire, sent, answered, task, ran>> /\ CommandEnds(c) # {}
  BY DEF Forward
<1>3. k \in CommandEnds(c) /\ \A j \in CommandEnds(c) : k <= j
  <2>1. PICK f \in Nat : Unparsed(c, f)
    BY <1>1 DEF Served
  <2>2. 2 \in CommandEnds(c) /\ \A j \in CommandEnds(c) : 2 <= j
    BY <1>1, <1>2, <2>1, FirstEnds
  <2> QED BY <2>2
<1> HIDE DEF k
<1>4. PICK f \in Nat : Unparsed(c, f) /\ Queued(c, f)
  BY <1>1 DEF Served
<1>5. k = 2 /\ Len(pending[c]) >= 2 /\ f <= sent[c] /\ text[k].n = f /\ Whole(text)
  BY <1>1, <1>3, <1>4, FirstCommand DEF Served
<1>6. t \in Task /\ t.from = c /\ t.n = f /\ t.text = text
  <2>1. text \in Seq(Piece)
    BY <1>1, <1>5
  <2> QED BY <1>5, <2>1 DEF Task
<1>7. /\ pending'[c] \in Seq(Piece) /\ Len(pending'[c]) = Len(pending[c]) - 2
      /\ \A i \in 1 .. Len(pending[c]) - 2 : pending'[c][i] = pending[c][2 + i]
  <2>1. pending'[c] = SubSeq(pending[c], 3, Len(pending[c]))
    BY <1>1, <1>2, <1>5 DEF ServedType
  <2>2. \A i \in 3 .. Len(pending[c]) : pending[c][i] \in Piece
    BY <1>1
  <2> QED BY <1>1, <1>5, <2>1, <2>2, SubSeqProperties
<1> HIDE DEF t
<1>8. ServedType'
  <2>1. tasks' \in Seq(Task)
    BY <1>1, <1>2, <1>6 DEF ServedType
  <2>2. promise' \in [Loggers -> Promise]
    BY <1>1, <1>2, <1>4, <1>5 DEF ServedType, Promise, NoPromise
  <2>3. pending' \in [Loggers -> Seq(Piece)]
    BY <1>1, <1>2, <1>7 DEF ServedType
  <2> QED BY <1>1, <1>2, <2>1, <2>2, <2>3 DEF ServedType
<1>9. \A d \in Loggers : OwnResult(d)'
  BY <1>1, <1>2 DEF ServedType, OwnResult, NoPromise
<1>10. Unparsed(c, f + 1)'
  <2>1. PICK P \in Nat, W \in Nat, m \in Nat :
          P = Len(pending[c]) /\ W = Len(wire[c]) /\ m = sent[c]
    BY <1>1
  <2>2. P + W = 2 * (m + 1 - f) /\ P >= 2 /\ f <= m
    BY <1>4, <1>5, <2>1 DEF Unparsed
  <2>3. f + 1 \in 1 .. m + 1 /\ (P - 2) + W = 2 * (m + 1 - (f + 1)) /\ P - 2 \in Nat
    BY <2>2
  <2>4. ASSUME NEW p \in Piece, NEW i \in Nat, Spells(p, f, 2 + i) PROVE Spells(p, f + 1, i)
    <3>1. PICK e \in {1, 2} : 2 + i = 2 * (p.n - f) + e /\ e = (IF p.last THEN 2 ELSE 1)
      BY <2>4, PieceType DEF Spells
    <3>2. PICK x \in Nat : x = p.n
      BY PieceType
    <3>3. i = 2 * (x - (f + 1)) + e
      BY <3>1, <3>2
    <3> QED BY <3>1, <3>2, <3>3 DEF Spells
  <2>5. ASSUME NEW i \in 1 .. P - 2 PROVE Spells(pending'[c][i], f + 1, i)
    <3>1. 2 + i \in 1 .. P /\ i \in Nat
      BY <2>3
    <3>2. pending'[c][i] = pending[c][2 + i] /\ pending[c][2 + i] \in Piece
      BY <1>1, <1>7, <2>1, <3>1
    <3>3. Spells(pending[c][2 + i], f, 2 + i)
      BY <1>4, <2>1, <3>1 DEF Unparsed
    <3> QED BY <2>4, <3>1, <3>2, <3>3
  <2>6. ASSUME NEW i \in 1 .. W PROVE Spells(wire[c][i], f + 1, (P - 2) + i)
    <3>1. 2 + ((P - 2) + i) = P + i /\ (P - 2) + i \in Nat
      BY <2>3
    <3>2. wire[c][i] \in Piece
      BY <1>1, <2>1
    <3>3. Spells(wire[c][i], f, P + i)
      BY <1>4, <2>1 DEF Unparsed
    <3> QED BY <2>4, <3>1, <3>2, <3>3
  <2>7. Len(pending'[c]) = P - 2 /\ wire'[c] = wire[c] /\ sent'[c] = m
    BY <1>2, <1>7, <2>1
  <2> QED BY <2>1, <2>3, <2>5, <2>6, <2>7 DEF Unparsed
<1>11. OfOneCommand(c)'
  <2>1. ASSUME NEW i \in 1 .. Len(pending'[c]) PROVE pending'[c][i] \in ToSet(pending[c])
    <3>1. 2 + i \in 1 .. Len(pending[c]) /\ pending'[c][i] = pending[c][2 + i]
      BY <1>1, <1>7
    <3> QED BY <1>1, <3>1, Elements
  <2>2. ToSet(pending'[c]) \subseteq ToSet(pending[c])
    BY <1>7, <2>1, Elements
  <2> QED BY <1>1, <1>2, <2>2 DEF Served, OfOneCommand
<1>12. Queued(c, f + 1)' /\ \A d \in Loggers \ {c} : \A g \in Nat : Queued(d, g) => Queued(d, g)'
  BY <1>1, <1>2, <1>4, <1>5, <1>6, QueueJoined
<1>13. ASSUME NEW d \in Loggers PROVE Served(d)'
  <2>1. CASE d = c
    <3>1. \A i \in 1 .. Len(ran'[c]) : ran'[c][i].whole /\ ran'[c][i].n = i
      BY <1>1, <1>2 DEF Served
    <3>2. f + 1 \in Nat
      OBVIOUS
    <3> QED BY <1>10, <1>11, <1>12, <2>1, <3>1, <3>2 DEF Served
  <2>2. CASE d # c
    <3>1. PICK g \in Nat : Unparsed(d, g) /\ Queued(d, g)
      BY <1>1 DEF Served
    <3>2. wire'[d] = wire[d] /\ pending'[d] = pending[d] /\ sent' = sent /\ ran' = ran
      BY <1>1, <1>2, <2>2 DEF ServedType
    <3>3. Unparsed(d, g)'
      BY <3>1, <3>2 DEF Unparsed
    <3>4. OfOneCommand(d)'
      BY <1>1, <3>2 DEF OfOneCommand, Served
    <3>5. Queued(d, g)'
      BY <1>12, <2>2, <3>1
    <3>6. \A i \in 1 .. Len(ran'[d]) : ran'[d][i].whole /\ ran'[d][i].n = i
      BY <1>1, <3>2 DEF Served
    <3> QED BY <3>3, <3>4, <3>5, <3>6 DEF Served
  <2> QED BY <2>1, <2>2
<1> QED BY <1>8, <1>9, <1>13 DEF ServedInv

\* The poll thread takes the head of the queue.
LEMMA RunServed ==
  ASSUME ServedInv, RunQuery \/ RunSet
  PROVE  ServedInv'
<1> DEFINE t == Head(tasks)
<1>1. /\ ServedType /\ \A d \in Loggers : Served(d) /\ OwnResult(d)
      /\ tasks # <<>> /\ tasks' = Tail(tasks) /\ Ran(t)
      /\ UNCHANGED <<wire, sent, pending, answered>>
  BY DEF ServedInv, RunQuery, RunSet, clientVars
<1>2. t \in Task /\ tasks' \in Seq(Task) /\ t.from \in Loggers /\ t.n \in Nat
  <2>1. tasks \in Seq(Task) /\ tasks # <<>>
    BY <1>1 DEF ServedType
  <2>2. t \in Task /\ tasks' \in Seq(Task)
    BY <1>1, <2>1
  <2> QED BY <2>2 DEF Task
<1> HIDE DEF t
<1>3. /\ task' = task \/ task' = t
      /\ promise' = promise \/ Fulfils(t, Absent)
  BY DEF RunQuery, RunSet, clientVars, t
<1>4. ASSUME NEW d \in Loggers PROVE Served(d)' /\ ran'[d] \in Seq([n : Nat, whole : BOOLEAN])
  <2>1. PICK f \in Nat : Unparsed(d, f) /\ Queued(d, f)
    BY <1>1 DEF Served
  <2>2. /\ Queued(d, f)'
        /\ \/ ran'[d] = ran[d]
           \/ ran'[d] = Append(ran[d], [n |-> Len(ran[d]) + 1, whole |-> TRUE])
    BY <1>1, <2>1, QueueServed DEF t
  <2>3. ran[d] \in Seq([n : Nat, whole : BOOLEAN]) /\ Len(ran[d]) \in Nat
        /\ \A i \in 1 .. Len(ran[d]) : ran[d][i].whole /\ ran[d][i].n = i
    <3>1. ran[d] \in Seq([n : Nat, whole : BOOLEAN])
      BY <1>1 DEF ServedType
    <3>2. \A i \in 1 .. Len(ran[d]) : ran[d][i].whole /\ ran[d][i].n = i
      BY <1>1 DEF Served
    <3> QED BY <3>1, <3>2
  <2>4. /\ ran'[d] \in Seq([n : Nat, whole : BOOLEAN])
        /\ \A i \in 1 .. Len(ran'[d]) : ran'[d][i].whole /\ ran'[d][i].n = i
    <3>1. CASE ran'[d] = ran[d]
      BY <2>3, <3>1
    <3>2. CASE ran'[d] = Append(ran[d], [n |-> Len(ran[d]) + 1, whole |-> TRUE])
      <4> DEFINE L == Len(ran[d])
      <4> DEFINE e == [n |-> L + 1, whole |-> TRUE]
      <4>1. e \in [n : Nat, whole : BOOLEAN] /\ e.n = L + 1 /\ e.whole
        BY <2>3
      <4> HIDE DEF e
      <4>2. ran'[d] = Append(ran[d], e)
        BY <3>2 DEF e
      <4>3. /\ ran'[d] \in Seq([n : Nat, whole : BOOLEAN]) /\ Len(ran'[d]) = L + 1
            /\ ran'[d][L + 1] = e /\ \A i \in 1 .. L : ran'[d][i] = ran[d][i]
        BY <2>3, <4>1, <4>2
      <4>4. \A i \in 1 .. L + 1 : i \in 1 .. L \/ i = L + 1
        BY <2>3
      <4> QED BY <2>3, <4>1, <4>3, <4>4
    <3> QED BY <2>2, <3>1, <3>2
  <2>5. Unparsed(d, f)'
    BY <1>1, <2>1 DEF Unparsed
  <2>6. OfOneCommand(d)'
    BY <1>1 DEF OfOneCommand, Served
  <2> QED BY <2>2, <2>4, <2>5, <2>6 DEF Served
<1>5. promise' \in [Loggers -> Promise] /\ \A d \in Loggers : OwnResult(d)'
  BY <1>1, <1>2, <1>3, FulfilledOwn
<1>6. ServedType'
  <2>1. ran' \in [Loggers -> Seq([n : Nat, whole : BOOLEAN])]
    BY <1>1, <1>4 DEF ServedType, Ran
  <2> QED BY <1>1, <1>2, <1>3, <1>5, <2>1 DEF ServedType
<1> QED BY <1>4, <1>5, <1>6 DEF ServedInv

\* The exchange of a query ends, with a reply or without.
LEMMA ResultServed ==
  ASSUME ServedInv, LineInv, QueryAnswered \/ QueryLost
  PROVE  ServedInv'
<1>1. /\ ServedType /\ \A d \in Loggers : Served(d) /\ OwnResult(d)
      /\ UNCHANGED <<wire, sent, pending, answered, tasks, ran>> /\ task' = NoTask
      /\ task \in Task
  BY DEF ServedInv, ServedType, QueryAnswered, QueryLost
<1>2. PICK r \in Queries \cup {Absent} : Fulfils(task, r)
  <2>1. CASE QueryLost
    BY <2>1 DEF QueryLost
  <2>2. CASE QueryAnswered
    <3>1. PICK a \in ToSet(line) : Fulfils(task, a.to)
      BY <2>2 DEF QueryAnswered
    <3>2. a \in Answer
      BY <3>1, Elements DEF LineInv
    <3> QED BY <3>1, <3>2 DEF Answer
  <2> QED BY <2>1, <2>2
<1>3. promise' \in [Loggers -> Promise] /\ \A d \in Loggers : OwnResult(d)'
  <2>1. task.from \in Loggers /\ task.n \in Nat
    BY <1>1 DEF Task
  <2> QED BY <1>1, <1>2, <2>1, FulfilledOwn
<1>4. ServedType'
  BY <1>1, <1>3 DEF ServedType
<1>5. ASSUME NEW d \in Loggers PROVE Served(d)'
  BY <1>1, ServedKept
<1> QED BY <1>3, <1>4, <1>5 DEF ServedInv

\* What leaves the texts, the queue and the results alone.
LEMMA UntouchedServed ==
  ASSUME ServedInv, UNCHANGED <<wire, sent, pending, promise, answered, tasks, task, ran>>
  PROVE  ServedInv'
<1>1. ServedType' /\ \A d \in Loggers : OwnResult(d)'
  BY DEF ServedInv, ServedType, OwnResult
<1>2. ASSUME NEW d \in Loggers PROVE Served(d)'
  BY ServedKept DEF ServedInv
<1> QED BY <1>1, <1>2 DEF ServedInv

LEMMA InitServed == ProxyInit => ServedInv
<1> SUFFICES ASSUME ProxyInit PROVE ServedInv
  OBVIOUS
<1>1. ServedType
  BY SentAssumption DEF ProxyInit, ServedType, Promise, NoPromise
<1>2. ASSUME NEW c \in Loggers PROVE Served(c) /\ OwnResult(c)
  <2>1. /\ wire[c] = <<>> /\ pending[c] = <<>> /\ sent[c] = 0 /\ ran[c] = <<>> /\ tasks = <<>>
        /\ promise[c] = NoPromise /\ answered[c] = NoPromise
    BY DEF ProxyInit
  <2>2. Unparsed(c, 1)
    BY <2>1 DEF Unparsed
  <2>3. Queued(c, 1)
    BY <2>1 DEF Queued
  <2>4. OfOneCommand(c)
    BY <2>1 DEF OfOneCommand, ToSet
  <2> QED BY <2>1, <2>2, <2>3, <2>4 DEF Served, OwnResult, NoPromise
<1> QED BY <1>1, <1>2 DEF ServedInv

\* The inductive invariant of the proxy: what is unparsed and unread spells the
\* commands that were not queued yet, and the queue holds in order those that
\* have not run.
THEOREM ServedInvariant == ProxySpec => []ServedInv
<1>1. ProxyInit => ServedInv /\ LineInv /\ ReplyIsOwn
  BY InitServed, InitHolds DEF ProxyInit
<1>2. ASSUME ServedInv, LineInv, ReplyIsOwn, [ProxyNext]_proxyVars
      PROVE  ServedInv' /\ LineInv' /\ ReplyIsOwn'
  <2>1. LineInv' /\ ReplyIsOwn'
    BY <1>2, ProxyStepsTheLine, LineStepKeeps
  <2>2. ASSUME NEW c \in Loggers, Logger(c) \/ Accept(c) \/ ClientThread(c) PROVE ServedInv'
    <3>1. CASE Forward(c)
      BY <1>2, <3>1, ForwardServed
    <3>2. CASE ~Forward(c)
      <4>1. \/ Connects(c) \/ (\E cmd \in Wanted : Sends(c, cmd)) \/ HangsUp(c) \/ Accept(c)
            \/ Recv(c) \/ RecvClosed(c) \/ ParseDone(c) \/ Replies(c) \/ TimesOut(c)
        BY <2>2, <3>2 DEF Logger, ClientThread
      <4> QED BY <1>2, <4>1, StreamServed
    <3> QED BY <3>1, <3>2
  <2> DEFINE same == UNCHANGED <<wire, sent, pending, promise, answered, tasks, task, ran>>
  <2>3. ASSUME PollThread PROVE ServedInv'
    <3>1. CASE RunQuery \/ RunSet
      BY <1>2, <3>1, RunServed
    <3>2. CASE QueryAnswered \/ QueryLost
      BY <1>2, <3>2, ResultServed
    <3>3. CASE PollAsks \/ PollEnds \/ ReadsOn
      <4>1. UNCHANGED <<clientVars, queueVars>>
        BY <3>3, Zenon DEF PollAsks, PollEnds, ReadsOn
      <4>2. same
        BY <4>1 DEF clientVars, queueVars
      <4> QED BY <1>2, <4>2, UntouchedServed
    <3> QED BY <2>3, <3>1, <3>2, <3>3 DEF PollThread
  <2>4. ASSUME Radio \/ StopAsked \/ StopReturns \/ UNCHANGED proxyVars PROVE ServedInv'
    <3>1. UNCHANGED <<clientVars, queueVars>>
      BY <2>4, Zenon DEF Radio, StopAsked, StopReturns, proxyVars
    <3>2. same
      BY <3>1 DEF clientVars, queueVars
    <3> QED BY <1>2, <3>2, UntouchedServed
  <2>5. ASSUME AcceptEnds PROVE ServedInv'
    <3>1. same
      BY <2>5 DEF AcceptEnds, queueVars
    <3> QED BY <1>2, <3>1, UntouchedServed
  <2> QED BY <1>2, <2>1, <2>2, <2>3, <2>4, <2>5 DEF ProxyNext
<1> QED BY <1>1, <1>2, PTL DEF ProxySpec

\* HandleClient, Forward and the queue: the commands of a logger reach the radio
\* whole, once and in the order it sent them, and it is answered with the result
\* of the command it waits for, for any number of loggers and commands, however
\* the stream is cut and whichever answers come late.
THEOREM LoggersServedInOrder == ProxySpec => []ServedInOrder
<1>1. ServedInv => ServedInOrder
  <2> SUFFICES ASSUME ServedInv, NEW c \in Loggers
               PROVE  /\ answered[c].of = answered[c].n
                      /\ \A i \in DOMAIN ran[c] : ran[c][i].whole /\ ran[c][i].n = i
    BY DEF ServedInOrder, AnswersOwnCommand, RunsOnceInOrder
  <2>1. Served(c) /\ OwnResult(c) /\ DOMAIN ran[c] = 1 .. Len(ran[c])
    BY DEF ServedInv, ServedType
  <2> QED BY <2>1 DEF Served, OwnResult
<1> QED BY <1>1, ServedInvariant, PTL
----------------------------------------------------------------------------
(* The types of the proxy. *)

LineTyped ==
  /\ asked \in [cmd : Commands \cup {Absent}, excused : BOOLEAN]
  /\ asked # NotAsked => asked.cmd \in Commands
  /\ got \in [reply : Answer, to : Commands, excused : BOOLEAN] \cup {NoReply}

ThreadsTyped ==
  /\ hung \in [Loggers -> BOOLEAN]
  /\ conn \in [Loggers -> {"away", "backlog", "recv", "parse", "wait", "ended"}]
  /\ listener \in {"open", "closed"} /\ accepting \in BOOLEAN
  /\ stop \in {"no", "asked", "joined"}

PromiseTyped == \A c \in Loggers : promise[c].n \in 0 .. MaxSent

LEMMA LineStaysTyped ==
  ASSUME LineInv, LineTyped, LineStep PROVE LineTyped'
<1>1. CASE \E cmd \in Queries : Ask(cmd)
  <2>1. PICK cmd \in Queries : Ask(cmd)
    BY <1>1
  <2>2. cmd \in Commands
    BY CommandsAssumption
  <2>3. asked' = [cmd |-> cmd, excused |-> \E a \in ToSet(owed) : Verb[a.to] = Verb[cmd]]
    BY <2>1 DEF Ask
  <2> QED BY <2>1, <2>2, <2>3 DEF Ask, LineTyped
<1>2. CASE \E a \in ToSet(line) : Receives(a)
  <2>1. PICK a \in ToSet(line) : Receives(a)
    BY <1>2
  <2>2. a \in Answer
    BY <2>1 DEF LineInv, Receives
  <2>3. [reply |-> a, to |-> asked.cmd, excused |-> asked.excused]
          \in [reply : Answer, to : Commands, excused : BOOLEAN]
    BY <2>1, <2>2 DEF Receives, LineTyped
  <2>4. NotAsked \in [cmd : Commands \cup {Absent}, excused : BOOLEAN]
    BY DEF NotAsked
  <2> QED BY <2>1, <2>3, <2>4 DEF Receives, LineTyped
<1>3. CASE GivesUp
  <2>1. NotAsked \in [cmd : Commands \cup {Absent}, excused : BOOLEAN]
    BY DEF NotAsked
  <2> QED BY <1>3, <2>1 DEF GivesUp, LineTyped
<1>4. CASE (\E cmd : Send(cmd)) \/ Discards \/ Answers \/ Ignores \/ UNCHANGED lineVars
  <2>1. UNCHANGED <<asked, got>>
    BY <1>4 DEF Send, Discards, Answers, Ignores, lineVars
  <2> QED BY <2>1 DEF LineTyped
<1> QED BY <1>1, <1>2, <1>3, <1>4 DEF LineStep

LEMMA ThreadsStayTyped ==
  ASSUME ThreadsTyped, [ProxyNext]_proxyVars PROVE ThreadsTyped'
<1>1. ASSUME NEW c \in Loggers, Logger(c) \/ Accept(c) \/ ClientThread(c) PROVE ThreadsTyped'
  <2>1. UNCHANGED stopVars
    BY <1>1 DEF Logger, Accept, ClientThread, Connects, Sends, HangsUp, Recv, RecvClosed,
                Forward, ParseDone, Replies, TimesOut
  <2>2. hung' \in [Loggers -> BOOLEAN]
    BY <1>1 DEF Logger, Accept, ClientThread, Connects, Sends, HangsUp, Recv, RecvClosed,
                Forward, ParseDone, Replies, TimesOut, ThreadsTyped
  <2>3. UNCHANGED conn \/ \E at \in {"backlog", "recv", "parse", "wait", "ended"} :
                            conn' = [conn EXCEPT ![c] = at]
    BY <1>1 DEF Logger, Accept, ClientThread, Connects, Sends, HangsUp, Recv, RecvClosed,
                Forward, ParseDone, Replies, TimesOut
  <2> QED BY <2>1, <2>2, <2>3 DEF ThreadsTyped, stopVars
<1>2. CASE PollThread \/ Radio \/ UNCHANGED proxyVars
  <2>1. UNCHANGED <<hung, conn, stopVars>>
    BY <1>2 DEF PollThread, RunQuery, RunSet, QueryAnswered, QueryLost, PollAsks, PollEnds,
                ReadsOn, Radio, clientVars, proxyVars
  <2> QED BY <2>1 DEF ThreadsTyped, stopVars
<1>3. CASE AcceptEnds
  BY <1>3 DEF AcceptEnds, ThreadsTyped
<1>4. CASE StopAsked \/ StopReturns
  BY <1>4 DEF StopAsked, StopReturns, ThreadsTyped, clientVars
<1> QED BY <1>1, <1>2, <1>3, <1>4 DEF ProxyNext

LEMMA PromisesStayTyped ==
  ASSUME ServedInv, PromiseTyped, [ProxyNext]_proxyVars PROVE PromiseTyped'
<1>0. ServedType /\ promise \in [Loggers -> Promise] /\ pending \in [Loggers -> Seq(Piece)]
  BY DEF ServedInv, ServedType
<1>1. CASE UNCHANGED promise
  BY <1>1 DEF PromiseTyped
<1>2. ASSUME NEW c \in Loggers, Forward(c) PROVE PromiseTyped'
  <2> DEFINE k == CHOOSE i \in CommandEnds(c) : \A j \in CommandEnds(c) : i <= j
             text == SubSeq(pending[c], 1, k)
  <2>1. promise' = [promise EXCEPT ![c] = [NoPromise EXCEPT !.n = text[k].n]]
        /\ CommandEnds(c) # {}
    BY <1>2 DEF Forward
  <2>2. PICK f \in Nat : Unparsed(c, f)
    BY DEF ServedInv, Served
  <2>3. k \in CommandEnds(c)
    <3>1. 2 \in CommandEnds(c) /\ \A j \in CommandEnds(c) : 2 <= j
      BY <1>0, <2>1, <2>2, FirstEnds
    <3> QED BY <3>1
  <2> HIDE DEF k
  <2>4. k \in 1 .. Len(pending[c]) /\ pending[c] \in Seq(Piece)
    BY <1>0, <2>3 DEF CommandEnds
  <2>5. text[k] = pending[c][k] /\ pending[c][k] \in Piece
    BY <2>4
  <2>6. text[k].n \in 0 .. MaxSent
    <3>1. pending[c][k].n \in Numbers
      BY <2>5 DEF Piece
    <3>2. Numbers \subseteq 0 .. MaxSent
      BY SentAssumption DEF Numbers
    <3> HIDE DEF text
    <3> QED BY <2>5, <3>1, <3>2
  <2> HIDE DEF text
  <2> QED BY <1>0, <2>1, <2>6 DEF NoPromise, PromiseTyped
<1>3. ASSUME NEW t, NEW reply, Fulfils(t, reply) PROVE PromiseTyped'
  <2>1. ASSUME NEW c \in Loggers PROVE promise'[c].n = promise[c].n
    <3> DEFINE p == [promise[c] EXCEPT !.of = t.n, !.reply = reply]
    <3>1. p.n = promise[c].n
      BY <1>0 DEF Promise
    <3>2. promise'[c] \in {promise[c], p}
      BY <1>0, <1>3 DEF Fulfils
    <3> HIDE DEF p
    <3> QED BY <3>1, <3>2
  <2> QED BY <2>1 DEF PromiseTyped
<1>4. CASE \E c \in Loggers : Logger(c) \/ Accept(c) \/ ClientThread(c)
  <2>1. PICK c \in Loggers : Logger(c) \/ Accept(c) \/ ClientThread(c)
    BY <1>4
  <2>2. CASE ~Forward(c)
    <3>1. UNCHANGED promise
      BY <2>1, <2>2 DEF Logger, Accept, ClientThread, Connects, Sends, HangsUp, Recv,
                        RecvClosed, ParseDone, Replies, TimesOut
    <3> QED BY <1>1, <3>1
  <2> QED BY <1>2, <2>2
<1>5. CASE PollThread
  <2>1. \/ UNCHANGED promise
        \/ \E t, reply : Fulfils(t, reply)
    <3>1. CASE RunSet \/ QueryAnswered \/ QueryLost
      BY <3>1 DEF RunSet, QueryAnswered, QueryLost
    <3>2. CASE RunQuery \/ PollAsks \/ PollEnds \/ ReadsOn
      BY <3>2, Zenon DEF RunQuery, PollAsks, PollEnds, ReadsOn, clientVars
    <3> QED BY <1>5, <3>1, <3>2 DEF PollThread
  <2> QED BY <1>1, <1>3, <2>1
<1>6. CASE Radio \/ AcceptEnds \/ StopAsked \/ StopReturns \/ UNCHANGED proxyVars
  <2>1. UNCHANGED promise
    BY <1>6, Zenon DEF Radio, AcceptEnds, StopAsked, StopReturns, clientVars, proxyVars
  <2> QED BY <1>1, <2>1
<1> QED BY <1>4, <1>5, <1>6 DEF ProxyNext

\* The line, the threads and the queue of the proxy keep their types; a future
\* waits for a command that was sent.
THEOREM ProxyTypes == ProxySpec => []ProxyTypeOK
<1> DEFINE WellTyped == LineTyped /\ ThreadsTyped /\ PromiseTyped
<1>1. ProxyInit => LineInv /\ WellTyped
  <2>1. ProxyInit => LineInv
    BY InitHolds DEF ProxyInit
  <2>2. ProxyInit => LineTyped
    BY DEF ProxyInit, LineInit, LineTyped, NotAsked
  <2>3. ProxyInit => ThreadsTyped
    BY DEF ProxyInit, ThreadsTyped
  <2>4. ProxyInit => PromiseTyped
    BY SentAssumption DEF ProxyInit, PromiseTyped, NoPromise
  <2> QED BY <2>1, <2>2, <2>3, <2>4
<1>2. ServedInv /\ ReplyIsOwn /\ LineInv /\ WellTyped /\ [ProxyNext]_proxyVars
        => LineInv' /\ WellTyped'
  <2> SUFFICES ASSUME ServedInv, ReplyIsOwn, LineInv, WellTyped, [ProxyNext]_proxyVars
               PROVE  LineInv' /\ WellTyped'
    OBVIOUS
  <2>1. LineStep
    BY ProxyStepsTheLine
  <2> QED BY <2>1, LineStepKeeps, LineStaysTyped, ThreadsStayTyped, PromisesStayTyped
<1>3. ServedInv /\ LineInv /\ WellTyped => ProxyTypeOK
  <2> SUFFICES ASSUME ServedInv, LineInv, WellTyped PROVE ProxyTypeOK
    OBVIOUS
  <2>1. LineTypeOK
    BY DEF LineInv, LineTyped, LineTypeOK
  <2>2. /\ \A i \in DOMAIN tasks : tasks[i].from \in Loggers
        /\ task.from \in Loggers \cup {Absent}
    <3>1. \A i \in 1 .. Len(tasks) : tasks[i] \in Task
      BY DEF ServedInv, ServedType
    <3>2. DOMAIN tasks = 1 .. Len(tasks)
      BY DEF ServedInv, ServedType
    <3>3. NoTask.from = Absent
      BY DEF NoTask
    <3> QED BY <3>1, <3>2, <3>3 DEF ServedInv, ServedType, Task
  <2> QED BY <2>1, <2>2 DEF ServedInv, ServedType, ThreadsTyped, PromiseTyped, ProxyTypeOK
<1> HIDE DEF WellTyped
<1> QED BY <1>1, <1>2, <1>3, ServedInvariant, RepliesAreOwn, PTL DEF ProxySpec

----------------------------------------------------------------------------
(* The panel: what has been typed is a number. *)

\* A nonempty set of naturals has a least member.
LEMMA Least ==
  ASSUME NEW T \in SUBSET Nat, T # {} PROVE \E x \in T : \A y \in T : ~ (y < x)
<1> DEFINE R == {ss \in Nat \X Nat : ss[1] < ss[2]}
<1>1. R = OpToRel(<, Nat)
  BY DEF OpToRel
<1>2. IsWellFoundedOn(R, Nat)
  BY <1>1, NatLessThanWellFounded
<1> HIDE DEF R
<1>3. PICK x \in T : \A y \in T : <<y, x>> \notin R
  BY <1>2, WFMin
<1>4. ASSUME NEW y \in T, y < x PROVE FALSE
  <2>1. <<y, x>> \in R
    BY <1>4 DEF R
  <2> QED BY <1>3, <2>1
<1> QED BY <1>4

\* The digits of freq/send, of any length.
LEMMA TypedIsNumber ==
  ASSUME NEW ds \in Seq(0 .. 9) PROVE Number(ds) \in Nat
<1> DEFINE Adds(g, n) == g = [i \in 0 .. n |-> IF i = 0 THEN 0 ELSE 10 * g[i - 1] + ds[i]]
           Fit == {n \in 0 .. Len(ds) : \E g \in [0 .. n -> Nat] : Adds(g, n)}
           V == CHOOSE g : Adds(g, Len(ds))
<1>1. Fit = 0 .. Len(ds)
  <2> SUFFICES ASSUME Fit # 0 .. Len(ds) PROVE FALSE
    OBVIOUS
  <2>1. PICK n \in 0 .. Len(ds) : n \notin Fit /\ \A m \in 0 .. Len(ds) : m < n => m \in Fit
    <3>1. (0 .. Len(ds)) \ Fit \in SUBSET Nat /\ (0 .. Len(ds)) \ Fit # {}
      OBVIOUS
    <3> HIDE DEF Fit
    <3> QED BY <3>1, Least
  <2>2. n # 0
    <3>1. Adds([i \in 0 .. 0 |-> 0], 0)
      OBVIOUS
    <3>2. [i \in 0 .. 0 |-> 0] \in [0 .. 0 -> Nat]
      OBVIOUS
    <3> HIDE DEF Adds
    <3> QED BY <2>1, <3>1, <3>2
  <2>3. PICK g \in [0 .. n - 1 -> Nat] : Adds(g, n - 1)
    <3>1. n - 1 \in 0 .. Len(ds) /\ n - 1 < n
      BY <2>1, <2>2
    <3>2. n - 1 \in Fit
      BY <2>1, <3>1
    <3> HIDE DEF Adds
    <3> QED BY <3>2
  <2> DEFINE h == [i \in 0 .. n |-> IF i = n THEN 10 * g[n - 1] + ds[n] ELSE g[i]]
  <2>4. ds[n] \in Nat /\ n \in Nat \ {0}
    <3>1. n \in 1 .. Len(ds)
      BY <2>1, <2>2
    <3> QED BY <3>1
  <2>5. h \in [0 .. n -> Nat]
    BY <2>3, <2>4
  <2>6. ASSUME NEW i \in 0 .. n PROVE h[i] = IF i = 0 THEN 0 ELSE 10 * h[i - 1] + ds[i]
    <3>1. CASE i = n
      <4>1. h[i] = 10 * g[n - 1] + ds[n] /\ h[n - 1] = g[n - 1]
        BY <2>4, <3>1
      <4> QED BY <2>4, <3>1, <4>1
    <3>2. CASE i # n
      <4>1. h[i] = g[i] /\ (i # 0 => h[i - 1] = g[i - 1])
        BY <2>4, <3>2
      <4>2. g[i] = IF i = 0 THEN 0 ELSE 10 * g[i - 1] + ds[i]
        BY <2>3, <2>4, <3>2
      <4> QED BY <4>1, <4>2
    <3> QED BY <3>1, <3>2
  <2>7. Adds(h, n)
    <3>1. h = [i \in 0 .. n |-> h[i]]
      OBVIOUS
    <3> HIDE DEF h
    <3> QED BY <2>6, <3>1
  <2> HIDE DEF h, Adds
  <2> QED BY <2>1, <2>5, <2>7
<1>2. PICK g \in [0 .. Len(ds) -> Nat] : Adds(g, Len(ds))
  <2>1. Len(ds) \in Fit
    BY <1>1
  <2> QED BY <2>1
<1>3. Adds(V, Len(ds))
  <2> HIDE DEF Adds
  <2> QED BY <1>2
<1>4. Number(ds) = V[Len(ds)]
  BY DEF Number
<1> HIDE DEF V
<1>5. \A i \in 0 .. Len(ds) : V[i] \in Nat
  <2> DEFINE Odd == {i \in 0 .. Len(ds) : V[i] \notin Nat}
  <2> SUFFICES ASSUME Odd # {} PROVE FALSE
    OBVIOUS
  <2>1. PICK n \in Odd : \A m \in Odd : ~ (m < n)
    <3>1. Odd \in SUBSET Nat
      OBVIOUS
    <3> HIDE DEF Odd
    <3> QED BY <3>1, Least
  <2>2. n \in 0 .. Len(ds) /\ V[n] = IF n = 0 THEN 0 ELSE 10 * V[n - 1] + ds[n]
    BY <1>3, <2>1
  <2>3. n # 0 => V[n - 1] \in Nat /\ ds[n] \in Nat
    BY <2>1, <2>2
  <2> QED BY <2>1, <2>2, <2>3
<1> QED BY <1>4, <1>5

----------------------------------------------------------------------------
(* The panel: types. *)

PanelSpec == PanelInit /\ [][PanelNext]_panelVars

Modes == {LSB, USB, CW}
Someone == Clients \cup {Nobody}

\* What the routes write, and the other jobs they leave for the poll thread.
Writes ==
  ({"FA", "MC"} \X Nat) \cup ({"MD"} \X Modes) \cup ({"AG"} \X (0 .. Loud))
  \cup ({"SV", "NB", "PA", "TX", "AC", "KM", "KY", "VS", "ST"} \X Int)

Jobs ==
  [who : Someone, do : {"write"}, cmd : Writes]
  \cup [who : Someone, do : {"unkey"}, cmd : {<<"TX", 0>>}]
  \cup [who : Someone, do : {"step"}, cmd : {"FA"} \X Int]
  \cup [who : Someone, do : {"copy"}, cmd : {"FA", "FB"} \X {0}]
  \cup [who : Someone, do : {"quick"}, cmd : {<<"FA", 0>>}]
  \cup [who : Someone, do : {"route"}, cmd : {"EX"} \X {0, 1}]
  \cup [who : Someone, do : {"ask"}, cmd : {<<"EX", 0>>}]

Radios ==
  [FA : Nat, FB : Nat, MD : Modes, VS : Int, ST : Int, TX : Int, NB : Int, PA : Int,
   AG : 0 .. Loud, KM : Int, KY : Int, rear : {0, 1}, usb : {0, 1}]

Caches == [FA : Nat, NB : Int, PA : Int, AG : 0 .. Loud, TX : Int]

Places == {"idle", "lock", "rights", "handler", "queue", "clear", "wait"}
Names == RouteNames \cup {"none"}
Calls == [at : Places, go : Names, x : Nat, todo : Seq(Jobs)]

Asks == {"remote", "status"}

\* The dial is moved by the tuning routes only, and a carrier started by the
\* transmit routes only.
Carriers == {<<"TX", 1>>, <<"AC", 0>>, <<"KY", 1>>}
Allowed(j, go) ==
  /\ Moving(j) => go \in Tuning
  /\ j.do = "write" /\ j.cmd \in Carriers => IsTransmitRoute(go)

\* What a handler still has to queue is its own client's and of its own kind; a
\* job that is waited for is the last one.
TodoFits(c, go, q) ==
  \A i \in 1 .. Len(q) :
    /\ q[i].who = c
    /\ Allowed(q[i], go)
    /\ Asking(q[i]) => i = Len(q) /\ go \in Asks

CallFits(c, k) ==
  /\ k \in Calls
  /\ k.at = "queue" <=> k.todo # <<>>
  /\ k.at \in {"lock", "rights", "handler"} => Fits(k.go, k.x)
  /\ k.at = "idle" => k.go = "none"
  /\ k.at = "clear" => k.go = "send"
  /\ k.at = "wait" => k.go \in Asks
  /\ TodoFits(c, k.go, k.todo)

CallsFit == call \in [Clients -> Calls] /\ \A c \in Clients : CallFits(c, call[c])

\* A job that asks for a client is the only one, and the client waits for it.
JobsFit ==
  /\ jobs \in Seq(Jobs) /\ Len(jobs) <= MaxJobs
  /\ \A i \in 1 .. Len(jobs) : Asking(jobs[i]) /\ jobs[i].who # Nobody =>
       /\ call[jobs[i].who].at = "wait"
       /\ \A j \in 1 .. Len(jobs) : Asking(jobs[j]) /\ jobs[j].who = jobs[i].who => j = i

MutexHeld == mutex \in Someone /\ (mutex # Nobody => call[mutex].at = "queue")

HostKeeps ==
  /\ host \in [typed : Seq(0 .. 9), pre : 0 .. Loud, locked : BOOLEAN]
  /\ UnmuteIsHeard

ToldTrue ==
  /\ told \in [said : {"unknown", "yes", "no"}, truth : {"yes", "no"}]
  /\ AnswersAreTrue

PanelInv ==
  /\ desk \in Desks /\ mayTx \in [Clients -> BOOLEAN] /\ presses \in 0 .. MaxPresses
  /\ stepped \in Int
  /\ radio \in Radios /\ cache \in Caches
  /\ HostKeeps /\ ToldTrue /\ CallsFit /\ JobsFit /\ MutexHeld

LEMMA Boundaries ==
  /\ Loud \in Nat /\ Loud > 1 /\ MaxJobs \in Nat /\ MaxPresses \in Nat /\ Nobody \notin Clients
BY LoudAssumption, PanelBounds, NobodyAssumption

LEMMA NoCallFits == ASSUME NEW c \in Clients PROVE CallFits(c, NoCall)
<1>1. NoCall \in Calls
  <2>1. <<>> \in Seq(Jobs)
    OBVIOUS
  <2>2. "none" \in Names
    BY DEF Names
  <2>3. 0 \in Nat /\ "idle" \in Places
    BY DEF Places
  <2> QED BY <2>1, <2>2, <2>3 DEF NoCall, Calls
<1>2. Len(NoCall.todo) = 0
  BY DEF NoCall
<1> QED BY <1>1, <1>2 DEF CallFits, NoCall, TodoFits

\* One client's request moves on, with nothing queued and the lock kept as it
\* was.
LEMMA CallMoves ==
  ASSUME PanelInv, NEW c \in Clients, NEW k, CallFits(c, k),
         call' = [call EXCEPT ![c] = k], UNCHANGED jobs,
         call[c].at \notin {"wait", "queue"}
  PROVE  CallsFit' /\ JobsFit' /\ (mutex' = mutex => MutexHeld')
<1>0. call \in [Clients -> Calls] /\ \A d \in Clients : CallFits(d, call[d])
  BY DEF PanelInv, CallsFit
<1>1. \A d \in Clients : call'[d] = IF d = c THEN k ELSE call[d]
  BY <1>0
<1>2. CallsFit'
  <2>1. call' \in [Clients -> Calls]
    BY <1>0 DEF CallFits
  <2> QED BY <1>0, <1>1, <2>1 DEF CallsFit
<1>3. \A d \in Clients : call[d].at \in {"wait", "queue"} => call'[d] = call[d]
  BY <1>1
<1>4. JobsFit'
  <2>1. ASSUME NEW i \in 1 .. Len(jobs), Asking(jobs[i]), jobs[i].who # Nobody
        PROVE  jobs[i].who \in Clients
    <3>1. jobs[i] \in Jobs
      BY DEF PanelInv, JobsFit
    <3> QED BY <2>1, <3>1 DEF Jobs, Someone
  <2> QED BY <1>3, <2>1 DEF PanelInv, JobsFit
<1>5. mutex' = mutex => MutexHeld'
  BY <1>3 DEF PanelInv, MutexHeld, Someone
<1> QED BY <1>2, <1>4, <1>5

----------------------------------------------------------------------------
(* The panel: what a handler queues. *)

\* Jobs of one client and of its route's kind, that nobody waits for.
Plain(c, go, q) ==
  /\ q \in Seq(Jobs)
  /\ \A i \in 1 .. Len(q) : q[i].who = c /\ ~Asking(q[i]) /\ Allowed(q[i], go)

LEMMA PlainNone == ASSUME NEW c, NEW go PROVE Plain(c, go, <<>>)
BY DEF Plain

LEMMA PlainOne ==
  ASSUME NEW c, NEW go, NEW j \in Jobs, j.who = c, ~Asking(j), Allowed(j, go)
  PROVE  Plain(c, go, <<j>>)
<1> DEFINE q == <<j>>
<1>1. q \in Seq(Jobs) /\ Len(q) = 1 /\ q[1] = j
  OBVIOUS
<1> HIDE DEF q
<1>2. \A i \in 1 .. Len(q) : q[i] = j
  BY <1>1
<1> QED BY <1>1, <1>2 DEF Plain, q

LEMMA PlainTwo ==
  ASSUME NEW c, NEW go, NEW j, NEW k, Plain(c, go, <<j>>), Plain(c, go, <<k>>)
  PROVE  Plain(c, go, <<j, k>>)
<1> DEFINE q == <<j, k>>
<1>1. j \in Jobs /\ k \in Jobs
  <2>1. <<j>> \in Seq(Jobs) /\ <<k>> \in Seq(Jobs)
    BY DEF Plain
  <2> QED BY <2>1
<1>2. /\ j.who = c /\ ~Asking(j) /\ Allowed(j, go)
      /\ k.who = c /\ ~Asking(k) /\ Allowed(k, go)
  <2> DEFINE a == <<j>>
             b == <<k>>
  <2>1. 1 \in 1 .. Len(a) /\ 1 \in 1 .. Len(b) /\ a[1] = j /\ b[1] = k
    OBVIOUS
  <2>2. Plain(c, go, a) /\ Plain(c, go, b)
    OBVIOUS
  <2> HIDE DEF a, b
  <2> QED BY <2>1, <2>2 DEF Plain
<1>3. q \in Seq(Jobs) /\ Len(q) = 2 /\ q[1] = j /\ q[2] = k
  BY <1>1
<1> HIDE DEF q
<1>4. \A i \in 1 .. Len(q) : q[i] = j \/ q[i] = k
  BY <1>3
<1> QED BY <1>2, <1>3, <1>4 DEF Plain, q

LEMMA PlainJoined ==
  ASSUME NEW c, NEW go, NEW p, NEW q, Plain(c, go, p), Plain(c, go, q)
  PROVE  Plain(c, go, p \o q)
<1>1. p \in Seq(Jobs) /\ q \in Seq(Jobs)
  BY DEF Plain
<1>2. p \o q \in Seq(Jobs) /\ Len(p \o q) = Len(p) + Len(q)
  BY <1>1
<1>3. ASSUME NEW i \in 1 .. Len(p \o q)
      PROVE  \/ i \in 1 .. Len(p) /\ (p \o q)[i] = p[i]
             \/ i - Len(p) \in 1 .. Len(q) /\ (p \o q)[i] = q[i - Len(p)]
  BY <1>1, <1>2
<1>4. \A i \in 1 .. Len(p \o q) :
        \/ \E k \in 1 .. Len(p) : (p \o q)[i] = p[k]
        \/ \E k \in 1 .. Len(q) : (p \o q)[i] = q[k]
  BY <1>3
<1> QED BY <1>2, <1>4 DEF Plain

\* One command of a route, or the end of a transmission.
LEMMA WriteFits ==
  ASSUME NEW c \in Clients, NEW w \in Writes, NEW go, NEW do \in {"write", "unkey"},
         do = "write" /\ w[1] \in {"FA", "SV"} => go \in Tuning,
         do = "write" /\ w \in Carriers => IsTransmitRoute(go),
         do = "unkey" => w = <<"TX", 0>>
  PROVE  /\ Job(c, do, w) \in Jobs
         /\ Plain(c, go, <<Job(c, do, w)>>)
<1> DEFINE j == Job(c, do, w)
<1>1. j \in Jobs
  BY DEF Job, Jobs, Someone
<1>2. j.who = c /\ j.do = do /\ j.cmd = w
  BY DEF Job
<1> HIDE DEF j
<1>3. ~Asking(j) /\ Allowed(j, go)
  BY <1>2 DEF Asking, Moving, Allowed
<1>4. Plain(c, go, <<j>>)
  BY <1>1, <1>2, <1>3, PlainOne
<1> QED BY <1>1, <1>4 DEF j

LEMMA ModesFor == ASSUME NEW khz PROVE ModeFor(khz) \in Modes
BY DEF ModeFor, Modes

LEMMA PairFits ==
  ASSUME NEW c \in Clients, NEW khz \in Nat, NEW go \in Tuning
  PROVE  Plain(c, go, Pair(c, khz)) /\ Pair(c, khz) # <<>>
<1> DEFINE m == Job(c, "write", <<"MD", ModeFor(khz)>>)
           f == Job(c, "write", <<"FA", khz>>)
<1>1. <<"MD", ModeFor(khz)>> \in Writes /\ <<"FA", khz>> \in Writes
  BY ModesFor DEF Writes
<1>2. /\ m \in Jobs /\ Plain(c, go, <<m>>)
      /\ f \in Jobs /\ Plain(c, go, <<f>>)
  <2>1. <<"MD", ModeFor(khz)>> \notin Carriers /\ <<"FA", khz>> \notin Carriers
    BY DEF Carriers
  <2> QED BY <1>1, <2>1, WriteFits
<1>3. Pair(c, khz) = <<m, f>>
  BY DEF Pair
<1> HIDE DEF m, f
<1>4. Pair(c, khz) # <<>>
  BY <1>3
<1> QED BY <1>2, <1>3, <1>4, PlainTwo

\* The families of routes whose jobs nobody waits for.
LEMMA FamiliesFit ==
  ASSUME PanelInv, NEW c \in Clients, NEW go, NEW x, Fits(go, x)
  PROVE  /\ Plain(c, go, Selects(c, go, x)) /\ Plain(c, go, Switches(c, go))
         /\ Plain(c, go, Cycles(c, go)) /\ Plain(c, go, Values(c, go, x))
         /\ Plain(c, go, Nudges(c, go)) /\ Plain(c, go, Dials(c, go, x))
         /\ Plain(c, go, Turns(c, go, x)) /\ Plain(c, go, Compounds(c, go))
         /\ Plain(c, go, Ptt(c, go)) /\ Plain(c, go, InternalTune(c, go))
         /\ Plain(c, go, Keyer(c, go, x))
<1>0. Plain(c, go, <<>>)
  BY PlainNone
<1> DEFINE One(w) == Plain(c, go, <<Job(c, "write", w)>>)
<1>a. ASSUME NEW w \in Writes, w[1] \notin {"FA", "SV"},
             w \in Carriers => IsTransmitRoute(go)
      PROVE  One(w)
  BY <1>a, WriteFits
<1>d. ASSUME NEW w, w[1] \notin {"TX", "AC", "KY"} PROVE w \notin Carriers
  BY <1>d DEF Carriers
<1>b. cache.NB \in Int /\ cache.PA \in Int /\ cache.AG \in 0 .. Loud
  BY DEF PanelInv, Caches
<1>c. x \in Nat /\ Loud \in Nat
  BY Boundaries DEF Fits
<1>1. Plain(c, go, Selects(c, go, x))
  <2>1. CASE go = "mode"
    <3>1. <<"MD", x>> \in Writes /\ <<"MD", x>>[1] = "MD"
      BY <2>1 DEF Fits, Writes, Modes
    <3> HIDE DEF One
    <3>2. One(<<"MD", x>>)
      BY <1>a, <1>d, <3>1
    <3> QED BY <2>1, <3>2 DEF Selects, One
  <2>2. CASE go = "swap"
    <3>1. <<"SV", 0>> \in Writes /\ go \in Tuning /\ <<"SV", 0>> \notin Carriers
      BY <2>2 DEF Writes, Tuning, Carriers
    <3> QED BY <2>2, <3>1, WriteFits DEF Selects
  <2> QED BY <1>0, <2>1, <2>2 DEF Selects
<1> HIDE DEF One
<1>2. Plain(c, go, Switches(c, go))
  <2>1. ASSUME NEW b \in Int PROVE One(<<"NB", b>>)
    <3>1. <<"NB", b>> \in Writes /\ <<"NB", b>>[1] = "NB"
      BY DEF Writes
    <3> QED BY <1>a, <1>d, <3>1
  <2>2. One(<<"NB", 1>>) /\ One(<<"NB", 0>>) /\ One(<<"NB", 1 - cache.NB>>)
    BY <1>b, <2>1
  <2> QED BY <1>0, <2>2 DEF Switches, One
<1>3. Plain(c, go, Cycles(c, go))
  <2>1. <<"PA", (cache.PA + 1) % 3>> \in Writes /\ <<"PA", (cache.PA + 1) % 3>>[1] = "PA"
    BY <1>b DEF Writes
  <2> QED BY <1>0, <1>a, <1>d, <2>1 DEF Cycles, One
<1>4. Plain(c, go, Values(c, go, x))
  <2>1. CASE go = "volume"
    <3>1. <<"AG", x>> \in Writes /\ <<"AG", x>>[1] = "AG"
      BY <2>1 DEF Fits, Writes
    <3> QED BY <1>a, <1>d, <2>1, <3>1 DEF Values, One
  <2>2. CASE go = "recall"
    <3>1. <<"MC", x>> \in Writes /\ <<"MC", x>>[1] = "MC"
      BY <1>c DEF Writes
    <3> QED BY <1>a, <1>d, <2>2, <3>1 DEF Values, One
  <2> QED BY <1>0, <2>1, <2>2 DEF Values
<1>5. Plain(c, go, Nudges(c, go))
  <2>1. ASSUME NEW v \in Int PROVE One(<<"AG", Within(v)>>)
    <3>1. Within(v) \in 0 .. Loud
      BY <1>c DEF Within
    <3>2. <<"AG", Within(v)>> \in Writes /\ <<"AG", Within(v)>>[1] = "AG"
      BY <3>1 DEF Writes
    <3> QED BY <1>a, <1>d, <3>2
  <2>2. One(<<"AG", Within(cache.AG + 1)>>) /\ One(<<"AG", Within(cache.AG - 1)>>)
    BY <1>b, <1>c, <2>1
  <2> QED BY <1>0, <2>2 DEF Nudges, One
<1>6. Plain(c, go, Dials(c, go, x))
  <2>1. go = "set" => go \in Tuning
    BY DEF Tuning
  <2> QED BY <1>0, <1>c, <2>1, PairFits DEF Dials
<1>7. Plain(c, go, Turns(c, go, x))
  <2>1. ASSUME NEW s \in Int, go \in Tuning PROVE Plain(c, go, <<Job(c, "step", <<"FA", s>>)>>)
    <3>1. Job(c, "step", <<"FA", s>>) \in Jobs
      BY DEF Job, Jobs, Someone
    <3>2. Job(c, "step", <<"FA", s>>).who = c /\ ~Asking(Job(c, "step", <<"FA", s>>))
      BY DEF Job, Asking
    <3>3. Allowed(Job(c, "step", <<"FA", s>>), go)
      BY <2>1 DEF Job, Allowed
    <3> QED BY <3>1, <3>2, <3>3, PlainOne
  <2>2. go \in {"up", "down"} => go \in Tuning
    BY DEF Tuning
  <2>3. go \in {"up", "down"} => Plain(c, go, <<Job(c, "step", <<"FA", x>>)>>)
                                 /\ Plain(c, go, <<Job(c, "step", <<"FA", 0 - x>>)>>)
    BY <1>c, <2>1, <2>2
  <2> QED BY <1>0, <2>3 DEF Turns
<1>8. Plain(c, go, Compounds(c, go))
  <2>1. ASSUME NEW do \in {"copy", "quick"}, NEW w, Job(c, do, w) \in Jobs,
               do = "quick" => go \in Tuning
        PROVE  Plain(c, go, <<Job(c, do, w)>>)
    <3>1. Job(c, do, w).who = c /\ Job(c, do, w).do = do
      BY DEF Job
    <3>2. ~Asking(Job(c, do, w)) /\ Allowed(Job(c, do, w), go)
      BY <2>1, <3>1 DEF Asking, Moving, Allowed
    <3> QED BY <2>1, <3>1, <3>2, PlainOne
  <2>2. /\ Job(c, "copy", <<"FB", 0>>) \in Jobs /\ Job(c, "copy", <<"FA", 0>>) \in Jobs
        /\ Job(c, "quick", <<"FA", 0>>) \in Jobs
    BY DEF Job, Jobs, Someone
  <2>3. /\ Plain(c, go, <<Job(c, "copy", <<"FB", 0>>)>>)
        /\ Plain(c, go, <<Job(c, "copy", <<"FA", 0>>)>>)
        /\ go = "quick" => Plain(c, go, <<Job(c, "quick", <<"FA", 0>>)>>)
    BY <2>1, <2>2 DEF Tuning
  <2> QED BY <1>0, <2>3 DEF Compounds
<1>9. Plain(c, go, Ptt(c, go))
  <2>1. <<"TX", 1>> \in Writes /\ <<"TX", 1>>[1] = "TX" /\ <<"TX", 0>> \in Writes
    BY DEF Writes
  <2>2. Plain(c, go, <<Job(c, "unkey", <<"TX", 0>>)>>)
    BY <2>1, WriteFits
  <2>3. go \in {"key", "keytoggle"} => One(<<"TX", 1>>)
    BY <1>a, <2>1 DEF IsTransmitRoute
  <2> QED BY <1>0, <2>2, <2>3 DEF Ptt, One
<1>10. Plain(c, go, InternalTune(c, go))
  <2>1. <<"AC", 0>> \in Writes /\ <<"AC", 0>>[1] = "AC"
    BY DEF Writes
  <2>2. go = "tune" => One(<<"AC", 0>>)
    BY <1>a, <2>1 DEF IsTransmitRoute
  <2> QED BY <1>0, <2>2 DEF InternalTune, One
<1>11. Plain(c, go, Keyer(c, go, x))
  <2>1. ASSUME NEW s \in {"KM", "KY"}, NEW v \in Int,
               <<s, v>> \in Carriers => IsTransmitRoute(go)
        PROVE  One(<<s, v>>)
    <3>1. <<s, v>> \in Writes /\ <<s, v>>[1] = s
      BY DEF Writes
    <3> QED BY <1>a, <2>1, <3>1
  <2>2. /\ One(<<"KM", x>>) /\ One(<<"KY", 0>>)
        /\ go \in {"cw", "play"} => One(<<"KY", 1>>)
    <3>1. <<"KM", x>> \notin Carriers /\ <<"KY", 0>> \notin Carriers
      BY DEF Carriers
    <3>2. go \in {"cw", "play"} => IsTransmitRoute(go)
      BY DEF IsTransmitRoute
    <3> QED BY <1>c, <2>1, <3>1, <3>2
  <2>3. go = "cw" => Plain(c, go, <<Job(c, "write", <<"KM", x>>), Job(c, "write", <<"KY", 1>>)>>)
    BY <2>2, PlainTwo DEF One
  <2> QED BY <1>0, <2>2, <2>3 DEF Keyer, One
<1> QED BY <1>1, <1>2, <1>3, <1>4, <1>5, <1>6, <1>7, <1>8, <1>9, <1>10, <1>11

\* All that a handler queues: the job it waits for, if any, comes last.
LEMMA TodoFit ==
  ASSUME NEW c, NEW go, NEW p, Plain(c, go, p), NEW r, NEW a,
         r = <<>> \/ (go = "remote" /\ \E j \in Jobs : r = <<j>> /\ j.who = c /\ j.do = "route"),
         a = <<>> \/ (go = "status" /\ \E j \in Jobs : a = <<j>> /\ j.who = c /\ j.do = "ask")
  PROVE  p \o r \o a \in Seq(Jobs) /\ TodoFits(c, go, p \o r \o a)
<1>1. p \in Seq(Jobs)
  BY DEF Plain
<1>2. ASSUME NEW j \in Jobs, j.who = c, j.do \in {"route", "ask"}, go \in Asks
      PROVE  p \o <<j>> \in Seq(Jobs) /\ TodoFits(c, go, p \o <<j>>)
  <2>1. Append(p, j) = p \o <<j>>
    BY <1>1, AppendIsConcat
  <2> DEFINE q == Append(p, j)
  <2>2. /\ q \in Seq(Jobs) /\ Len(q) = Len(p) + 1 /\ q[Len(p) + 1] = j
        /\ \A i \in 1 .. Len(p) : q[i] = p[i]
    BY <1>1
  <2>3. \A i \in 1 .. Len(q) : i \in 1 .. Len(p) \/ i = Len(q)
    BY <1>1, <2>2
  <2>4. Allowed(j, go)
    BY <1>2 DEF Moving, Allowed
  <2> HIDE DEF q
  <2>5. TodoFits(c, go, q)
    BY <1>2, <2>2, <2>3, <2>4 DEF Plain, TodoFits
  <2> QED BY <2>1, <2>2, <2>5 DEF q
<1>3. p \in Seq(Jobs) /\ TodoFits(c, go, p)
  BY <1>1 DEF Plain, TodoFits
<1>4. p \o <<>> = p
  BY <1>1, ConcatEmptySeq
<1>5. CASE r = <<>>
  <2>1. p \o r \o a = p \o a
    BY <1>4, <1>5
  <2>2. CASE a = <<>>
    BY <1>3, <1>4, <2>1, <2>2
  <2>3. CASE a # <<>>
    BY <1>2, <2>1, <2>3 DEF Asks
  <2> QED BY <2>2, <2>3
<1>6. CASE r # <<>>
  <2>1. a = <<>>
    BY <1>6
  <2>2. PICK j \in Jobs : r = <<j>> /\ j.who = c /\ j.do = "route" /\ go = "remote"
    BY <1>6
  <2>3. p \o r \in Seq(Jobs) /\ TodoFits(c, go, p \o r)
    BY <1>2, <2>2 DEF Asks
  <2>4. (p \o r) \o a = p \o r
    BY <2>1, <2>3, ConcatEmptySeq
  <2> QED BY <2>3, <2>4
<1> QED BY <1>5, <1>6

\* A client's request goes on to the next gate or to its handler.
LEMMA GoesOn ==
  ASSUME PanelInv, NEW c \in Clients, NEW at \in {"lock", "rights", "handler"},
         call[c].at \in {"lock", "rights", "handler"}
  PROVE  CallFits(c, [call[c] EXCEPT !.at = at])
<1>1. call[c] \in Calls /\ CallFits(c, call[c])
  BY DEF PanelInv, CallsFit
<1> DEFINE k == [call[c] EXCEPT !.at = at]
<1>2. /\ k \in Calls /\ k.at = at
      /\ k.go = call[c].go /\ k.x = call[c].x /\ k.todo = call[c].todo
  BY <1>1 DEF Calls, Places
<1> HIDE DEF k
<1>3. CallFits(c, k)
  BY <1>1, <1>2 DEF CallFits
<1> QED BY <1>3 DEF k

\* A handler has fixed what it queues.
LEMMA QueuesUp ==
  ASSUME PanelInv, NEW c \in Clients, call[c].at = "handler",
         NEW q \in Seq(Jobs), q # <<>>, TodoFits(c, call[c].go, q)
  PROVE  CallFits(c, [call[c] EXCEPT !.at = "queue", !.todo = q])
<1>1. call[c] \in Calls
  BY DEF PanelInv, CallsFit
<1> DEFINE k == [call[c] EXCEPT !.at = "queue", !.todo = q]
<1>2. /\ k \in Calls /\ k.at = "queue"
      /\ k.go = call[c].go /\ k.x = call[c].x /\ k.todo = q
  BY <1>1 DEF Calls, Places
<1> HIDE DEF k
<1>3. CallFits(c, k)
  BY <1>2 DEF CallFits
<1> QED BY <1>3 DEF k

----------------------------------------------------------------------------
(* The panel: the steps of a request. *)

\* A step of a request that touches nothing but the requests and the lock.
LEMMA RequestStep ==
  ASSUME PanelInv, UNCHANGED <<desk, mayTx, host, radio, cache, presses, stepped, told>>,
         CallsFit', JobsFit', MutexHeld'
  PROVE  PanelInv'
<1>1. /\ desk' \in Desks /\ mayTx' \in [Clients -> BOOLEAN] /\ presses' \in 0 .. MaxPresses
      /\ stepped' \in Int /\ radio' \in Radios /\ cache' \in Caches
  BY DEF PanelInv
<1>2. HostKeeps' /\ ToldTrue'
  BY DEF PanelInv, HostKeeps, ToldTrue, UnmuteIsHeard, AnswersAreTrue
<1> QED BY <1>1, <1>2 DEF PanelInv

LEMMA ArrivesKeeps ==
  ASSUME PanelInv, NEW c \in Clients, NEW r \in desk.routes, Arrives(c, r)
  PROVE  PanelInv'
<1> DEFINE k == [at |-> "lock", go |-> r.go, x |-> r.x, todo |-> <<>>]
<1>1. call' = [call EXCEPT ![c] = k] /\ call[c].at = "idle"
  BY DEF Arrives
<1>2. CallFits(c, k)
  <2>1. Fits(r.go, r.x)
    BY DesksAssumption DEF PanelInv
  <2>2. r.go \in Names /\ r.x \in Nat /\ "lock" \in Places /\ <<>> \in Seq(Jobs)
    BY <2>1 DEF Fits, Names, Places
  <2>3. k \in Calls
    BY <2>2 DEF Calls
  <2>4. k.at = "lock" /\ k.go = r.go /\ k.x = r.x /\ k.todo = <<>> /\ Len(k.todo) = 0
    OBVIOUS
  <2> HIDE DEF k
  <2>5. TodoFits(c, k.go, k.todo)
    BY <2>4 DEF TodoFits
  <2> QED BY <2>1, <2>3, <2>4, <2>5 DEF CallFits
<1> HIDE DEF k
<1>3. CallsFit' /\ JobsFit' /\ MutexHeld'
  BY <1>1, <1>2, CallMoves DEF Arrives
<1>4. presses' \in 0 .. MaxPresses
  BY Boundaries DEF PanelInv, Arrives
<1>5. HostKeeps' /\ ToldTrue'
  BY DEF PanelInv, HostKeeps, ToldTrue, UnmuteIsHeard, AnswersAreTrue, Arrives
<1> QED BY <1>3, <1>4, <1>5 DEF PanelInv, Arrives

\* The gates let a request through or refuse it.
LEMMA GatesKeep ==
  ASSUME PanelInv, NEW c \in Clients, LockGate(c) \/ RightsGate(c)
  PROVE  PanelInv'
<1>1. PICK k : call' = [call EXCEPT ![c] = k] /\ CallFits(c, k)
  <2>1. CASE call' = [call EXCEPT ![c] = NoCall]
    BY <2>1, NoCallFits
  <2>2. CASE \E at \in {"rights", "handler"} : Goes(c, at)
    <3>1. PICK at \in {"rights", "handler"} : Goes(c, at)
      BY <2>2
    <3>2. call' = [call EXCEPT ![c] = [call[c] EXCEPT !.at = at]]
      BY <3>1 DEF Goes
    <3>3. call[c].at \in {"lock", "rights"}
      BY DEF LockGate, RightsGate
    <3> QED BY <3>2, <3>3, GoesOn
  <2> QED BY <2>1, <2>2 DEF LockGate, RightsGate
<1>2. /\ UNCHANGED <<desk, mayTx, host, radio, cache, presses, stepped, told, jobs, mutex>>
      /\ call[c].at \notin {"wait", "queue"}
  BY DEF LockGate, RightsGate
<1>3. CallsFit' /\ JobsFit' /\ MutexHeld'
  BY <1>1, <1>2, CallMoves
<1> QED BY <1>2, <1>3, RequestStep

LEMMA HandlesKeeps ==
  ASSUME PanelInv, NEW c \in Clients, Handles(c)
  PROVE  PanelInv'
<1> DEFINE go == call[c].go
           x == call[c].x
           p == Selects(c, go, x) \o Switches(c, go) \o Cycles(c, go) \o Values(c, go, x)
                 \o Nudges(c, go) \o Dials(c, go, x) \o Turns(c, go, x) \o Compounds(c, go)
                 \o Ptt(c, go) \o InternalTune(c, go) \o Keyer(c, go, x)
           todo == p \o RemoteTx(c, go, x) \o AsksRadio(c, go)
<1>1. call[c].at = "handler" /\ todo # <<>> /\ Queueing(c, todo)
  BY DEF Handles
<1>2. call[c] \in Calls /\ Fits(go, x)
  BY <1>1 DEF PanelInv, CallsFit, CallFits
<1>3. Plain(c, go, p)
  <2> HIDE DEF go, x
  <2>1. Plain(c, go, Selects(c, go, x) \o Switches(c, go))
    BY <1>2, FamiliesFit, PlainJoined
  <2> DEFINE p1 == Selects(c, go, x) \o Switches(c, go)
             p2 == p1 \o Cycles(c, go)
             p3 == p2 \o Values(c, go, x)
             p4 == p3 \o Nudges(c, go)
             p5 == p4 \o Dials(c, go, x)
             p6 == p5 \o Turns(c, go, x)
             p7 == p6 \o Compounds(c, go)
             p8 == p7 \o Ptt(c, go)
             p9 == p8 \o InternalTune(c, go)
  <2> HIDE DEF p1
  <2>2. Plain(c, go, p2)
    BY <1>2, <2>1, FamiliesFit, PlainJoined DEF p1
  <2> HIDE DEF p2
  <2>3. Plain(c, go, p3)
    BY <1>2, <2>2, FamiliesFit, PlainJoined
  <2> HIDE DEF p3
  <2>4. Plain(c, go, p4)
    BY <1>2, <2>3, FamiliesFit, PlainJoined
  <2> HIDE DEF p4
  <2>5. Plain(c, go, p5)
    BY <1>2, <2>4, FamiliesFit, PlainJoined
  <2> HIDE DEF p5
  <2>6. Plain(c, go, p6)
    BY <1>2, <2>5, FamiliesFit, PlainJoined
  <2> HIDE DEF p6
  <2>7. Plain(c, go, p7)
    BY <1>2, <2>6, FamiliesFit, PlainJoined
  <2> HIDE DEF p7
  <2>8. Plain(c, go, p8)
    BY <1>2, <2>7, FamiliesFit, PlainJoined
  <2> HIDE DEF p8
  <2>9. Plain(c, go, p9)
    BY <1>2, <2>8, FamiliesFit, PlainJoined
  <2> HIDE DEF p9
  <2>10. Plain(c, go, p9 \o Keyer(c, go, x))
    BY <1>2, <2>9, FamiliesFit, PlainJoined
  <2> QED BY <2>10 DEF p9, p8, p7, p6, p5, p4, p3, p2, p1
<1> HIDE DEF p
<1>4. todo \in Seq(Jobs) /\ TodoFits(c, go, todo)
  <2> DEFINE r == RemoteTx(c, go, x)
             a == AsksRadio(c, go)
  <2>1. r = <<>> \/ (go = "remote" /\ \E j \in Jobs : r = <<j>> /\ j.who = c /\ j.do = "route")
    <3>1. go = "remote" => Job(c, "route", <<"EX", x>>) \in Jobs
      BY <1>2 DEF Fits, Job, Jobs, Someone
    <3>2. Job(c, "route", <<"EX", x>>).who = c /\ Job(c, "route", <<"EX", x>>).do = "route"
      BY DEF Job
    <3> HIDE DEF go, x
    <3> QED BY <3>1, <3>2 DEF RemoteTx
  <2>2. a = <<>> \/ (go = "status" /\ \E j \in Jobs : a = <<j>> /\ j.who = c /\ j.do = "ask")
    <3>1. Job(c, "ask", <<"EX", 0>>) \in Jobs
      BY DEF Job, Jobs, Someone
    <3>2. Job(c, "ask", <<"EX", 0>>).who = c /\ Job(c, "ask", <<"EX", 0>>).do = "ask"
      BY DEF Job
    <3> HIDE DEF go
    <3> QED BY <3>1, <3>2 DEF AsksRadio
  <2> HIDE DEF r, a, go, x
  <2>3. p \o r \o a \in Seq(Jobs) /\ TodoFits(c, go, p \o r \o a)
    BY <1>3, <2>1, <2>2, TodoFit
  <2> QED BY <2>3 DEF r, a
<1> HIDE DEF todo
<1> DEFINE k == [call[c] EXCEPT !.at = "queue", !.todo = todo]
<1>5. CallFits(c, k)
  BY <1>1, <1>4, QueuesUp
<1>6. call' = [call EXCEPT ![c] = k]
  BY <1>1 DEF Queueing
<1> HIDE DEF k
<1>7. UNCHANGED <<desk, mayTx, host, radio, cache, presses, stepped, told, jobs, mutex>>
  BY DEF Handles
<1>8. CallsFit' /\ JobsFit' /\ MutexHeld'
  BY <1>1, <1>5, <1>6, <1>7, CallMoves
<1> QED BY <1>7, <1>8, RequestStep

\* The handlers that queue without reading HostState under its lock first.
LEMMA DecidesKeeps ==
  ASSUME PanelInv, NEW c \in Clients, Decides(c)
  PROVE  PanelInv'
<1> DEFINE k == [call[c] EXCEPT !.go = IF cache.AG = 0 THEN "unmute" ELSE "mute"]
<1>1. call' = [call EXCEPT ![c] = k] /\ call[c].at = "handler"
  BY DEF Decides
<1>2. CallFits(c, k)
  <2>1. call[c] \in Calls /\ CallFits(c, call[c]) /\ call[c].todo = <<>>
    BY <1>1 DEF PanelInv, CallsFit, CallFits
  <2>2. k.go \in {"mute", "unmute"} /\ k.go \in Names
    BY <2>1 DEF Calls, Names, RouteNames
  <2>3. k \in Calls /\ k.at = "handler" /\ k.x = call[c].x /\ k.todo = <<>>
    BY <1>1, <2>1, <2>2 DEF Calls
  <2> HIDE DEF k
  <2>4. Fits(k.go, k.x)
    BY <2>1, <2>2, <2>3 DEF Fits, RouteNames, Calls
  <2>5. TodoFits(c, k.go, k.todo)
    <3>1. Len(k.todo) = 0
      BY <2>3
    <3> QED BY <3>1 DEF TodoFits
  <2> QED BY <2>3, <2>4, <2>5 DEF CallFits
<1> HIDE DEF k
<1>3. UNCHANGED <<desk, mayTx, host, radio, cache, presses, stepped, told, jobs, mutex>>
  BY DEF Decides
<1>4. CallsFit' /\ JobsFit' /\ MutexHeld'
  BY <1>1, <1>2, <1>3, CallMoves
<1> QED BY <1>3, <1>4, RequestStep

LEMMA PlainFits ==
  ASSUME NEW c, NEW go, NEW q, Plain(c, go, q)
  PROVE  q \in Seq(Jobs) /\ TodoFits(c, go, q)
BY DEF Plain, TodoFits

LEMMA SendsTypedKeeps ==
  ASSUME PanelInv, NEW c \in Clients, SendsTyped(c)
  PROVE  PanelInv'
<1>1. PICK k : call' = [call EXCEPT ![c] = k] /\ CallFits(c, k)
  <2>1. CASE host.typed = <<>>
    BY <2>1, NoCallFits DEF SendsTyped, Done
  <2>2. CASE host.typed # <<>>
    <3> DEFINE q == Pair(c, Typed(host.typed))
    <3>1. host.typed \in Seq(0 .. 9)
      BY DEF PanelInv, HostKeeps
    <3>2. Typed(host.typed) \in Nat
      BY <3>1, TypedIsNumber DEF Typed
    <3>3. call[c].at = "handler" /\ call[c].go \in Tuning /\ Queueing(c, q)
      BY <2>2 DEF SendsTyped, Tuning
    <3>4. Plain(c, call[c].go, q) /\ q # <<>>
      BY <3>2, <3>3, PairFits
    <3> HIDE DEF q
    <3>5. q \in Seq(Jobs) /\ TodoFits(c, call[c].go, q)
      BY <3>4, PlainFits
    <3>6. CallFits(c, [call[c] EXCEPT !.at = "queue", !.todo = q])
      BY <3>3, <3>4, <3>5, QueuesUp
    <3> QED BY <3>3, <3>6 DEF Queueing
  <2> QED BY <2>1, <2>2
<1>2. /\ UNCHANGED <<desk, mayTx, host, radio, cache, presses, stepped, told, jobs, mutex>>
      /\ call[c].at = "handler"
  BY DEF SendsTyped
<1>3. CallsFit' /\ JobsFit' /\ MutexHeld'
  BY <1>1, <1>2, CallMoves
<1> QED BY <1>2, <1>3, RequestStep

\* A mute and an unmute take HostState's lock until their command is queued.
LEMMA MutesKeeps ==
  ASSUME PanelInv, NEW c \in Clients, Mutes(c)
  PROVE  PanelInv'
<1> DEFINE v == IF call[c].go = "mute" THEN 0 ELSE host.pre
           q == <<Job(c, "write", <<"AG", v>>)>>
           k == [call[c] EXCEPT !.at = "queue", !.todo = q]
<1>1. call[c].at = "handler" /\ mutex' = c /\ Queueing(c, q)
  BY DEF Mutes
<1>2. host \in [typed : Seq(0 .. 9), pre : 0 .. Loud, locked : BOOLEAN] /\ host.pre > 0
      /\ cache.AG \in 0 .. Loud /\ Loud \in Nat
  BY Boundaries DEF PanelInv, HostKeeps, UnmuteIsHeard, Caches
<1>3. v \in 0 .. Loud
  BY <1>2
<1>4. <<"AG", v>> \in Writes /\ <<"AG", v>>[1] = "AG"
  <2> HIDE DEF v
  <2> QED BY <1>3 DEF Writes
<1> HIDE DEF v
<1>5. Plain(c, call[c].go, q) /\ q # <<>>
  <2>1. <<"AG", v>> \notin Carriers
    BY DEF Carriers
  <2> QED BY <1>4, <2>1, WriteFits
<1> HIDE DEF q
<1>6. CallFits(c, k)
  BY <1>1, <1>5, PlainFits, QueuesUp
<1>7. call' = [call EXCEPT ![c] = k] /\ k.at = "queue" /\ k \in Calls
  <2>1. call[c] \in Calls /\ k \in Calls
    BY <1>6 DEF PanelInv, CallsFit, CallFits
  <2>2. k.at = "queue"
    BY <2>1 DEF Calls
  <2>3. call' = [call EXCEPT ![c] = k]
    BY <1>1 DEF Queueing
  <2> QED BY <2>1, <2>2, <2>3
<1> HIDE DEF k
<1>8. CallsFit' /\ JobsFit'
  BY <1>1, <1>6, <1>7, CallMoves DEF Mutes
<1>9. MutexHeld'
  BY <1>1, <1>7 DEF MutexHeld, Someone, PanelInv, CallsFit
<1>10. HostKeeps'
  <2>1. host' = [host EXCEPT !.pre = IF call[c].go = "mute" THEN Remembers ELSE @]
    BY DEF Mutes
  <2>2. Remembers \in 0 .. Loud /\ Remembers > 0
    BY <1>2 DEF Remembers
  <2> QED BY <1>2, <2>1, <2>2 DEF HostKeeps, UnmuteIsHeard
<1>11. ToldTrue'
  BY DEF PanelInv, ToldTrue, AnswersAreTrue, Mutes
<1> QED BY <1>8, <1>9, <1>10, <1>11 DEF PanelInv, Mutes

\* The routes that only change what the host remembers.
LEMMA KeepsKeeps ==
  ASSUME PanelInv, NEW c \in Clients, Keeps(c) \/ ClearsTyped(c)
  PROVE  PanelInv'
<1>1. call' = [call EXCEPT ![c] = NoCall] /\ call[c].at \in {"handler", "clear"}
  BY DEF Keeps, ClearsTyped, Done
<1>2. UNCHANGED <<desk, mayTx, mutex, jobs, radio, cache, presses, stepped, told>>
  BY DEF Keeps, ClearsTyped
<1>3. CallsFit' /\ JobsFit' /\ MutexHeld'
  BY <1>1, <1>2, NoCallFits, CallMoves
<1>4. HostKeeps'
  <2>1. /\ host \in [typed : Seq(0 .. 9), pre : 0 .. Loud, locked : BOOLEAN] /\ host.pre > 0
        /\ host.typed \in Seq(0 .. 9)
    BY DEF PanelInv, HostKeeps, UnmuteIsHeard
  <2>2. host'.pre = host.pre => host'.pre > 0
    BY <2>1
  <2>3. ASSUME NEW t \in Seq(0 .. 9), host' = [host EXCEPT !.typed = t] PROVE HostKeeps'
    BY <2>1, <2>3 DEF HostKeeps, UnmuteIsHeard
  <2>4. ASSUME NEW b \in BOOLEAN, host' = [host EXCEPT !.locked = b] PROVE HostKeeps'
    BY <2>1, <2>4 DEF HostKeeps, UnmuteIsHeard
  <2>5. <<>> \in Seq(0 .. 9)
    OBVIOUS
  <2>6. CASE ClearsTyped(c)
    BY <2>3, <2>5, <2>6 DEF ClearsTyped
  <2>7. CASE Keeps(c)
    <3>1. CASE call[c].go = "digit" /\ host' = [host EXCEPT !.typed = Append(@, call[c].x)]
      <4>1. call[c].x \in 0 .. 9
        BY <2>7, <3>1 DEF Keeps, PanelInv, CallsFit, CallFits, Fits
      <4>2. Append(host.typed, call[c].x) \in Seq(0 .. 9)
        BY <2>1, <4>1
      <4> QED BY <2>3, <3>1, <4>2
    <3>2. CASE host' \in {[host EXCEPT !.typed = <<>>],
                [host EXCEPT !.typed = IF @ = <<>> THEN @ ELSE SubSeq(@, 1, Len(@) - 1)]}
      <4>1. host.typed # <<>> => SubSeq(host.typed, 1, Len(host.typed) - 1) \in Seq(0 .. 9)
        BY <2>1
      <4>2. \E t \in Seq(0 .. 9) : host' = [host EXCEPT !.typed = t]
        BY <2>1, <2>5, <3>2, <4>1
      <4> QED BY <2>3, <4>2
    <3>3. CASE host' = [host EXCEPT !.locked = TRUE]
      BY <2>4, <3>3
    <3>4. CASE host' = [host EXCEPT !.locked = FALSE]
      BY <2>4, <3>4
    <3>5. CASE host' = [host EXCEPT !.locked = ~@]
      <4>1. (~host.locked) \in BOOLEAN
        BY <2>1
      <4> QED BY <2>4, <3>5, <4>1
    <3> QED BY <2>7, <3>1, <3>2, <3>3, <3>4, <3>5 DEF Keeps
  <2> QED BY <2>6, <2>7
<1>5. ToldTrue'
  BY <1>2 DEF PanelInv, ToldTrue, AnswersAreTrue
<1> QED BY <1>2, <1>3, <1>4, <1>5 DEF PanelInv

\* One Enqueue: a client that waits has its only such job in the queue.
LEMMA QueuesKeeps ==
  ASSUME PanelInv, NEW c \in Clients, Queues(c)
  PROVE  PanelInv'
<1> DEFINE job == Head(call[c].todo)
           rest == Tail(call[c].todo)
<1>1. /\ call[c] \in Calls /\ call[c].at = "queue" /\ call[c].todo \in Seq(Jobs)
      /\ call[c].todo # <<>> /\ TodoFits(c, call[c].go, call[c].todo)
  BY DEF Queues, PanelInv, CallsFit, CallFits, Calls
<1>2. /\ job \in Jobs /\ rest \in Seq(Jobs) /\ Len(rest) = Len(call[c].todo) - 1
      /\ job = call[c].todo[1] /\ \A i \in 1 .. Len(rest) : rest[i] = call[c].todo[i + 1]
      /\ 1 \in 1 .. Len(call[c].todo)
      /\ \A i \in 1 .. Len(rest) : i + 1 \in 1 .. Len(call[c].todo)
  <2> DEFINE q == call[c].todo
  <2>1. q \in Seq(Jobs) /\ q # <<>>
    BY <1>1
  <2> HIDE DEF q
  <2>2. /\ Head(q) \in Jobs /\ Tail(q) \in Seq(Jobs) /\ Len(Tail(q)) = Len(q) - 1
        /\ Head(q) = q[1] /\ \A i \in 1 .. Len(Tail(q)) : Tail(q)[i] = q[i + 1]
        /\ 1 \in 1 .. Len(q) /\ \A i \in 1 .. Len(Tail(q)) : i + 1 \in 1 .. Len(q)
    BY <2>1
  <2> QED BY <2>2 DEF q
<1>3. job.who = c /\ (Asking(job) => rest = <<>> /\ call[c].go \in Asks)
  <2>1. job.who = c /\ (Asking(job) => 1 = Len(call[c].todo) /\ call[c].go \in Asks)
    BY <1>1, <1>2 DEF TodoFits
  <2>2. 1 = Len(call[c].todo) => rest = <<>>
    <3>1. rest \in Seq(Jobs) /\ (1 = Len(call[c].todo) => Len(rest) = 0)
      BY <1>2
    <3> HIDE DEF rest
    <3> QED BY <3>1, EmptySeq
  <2> QED BY <2>1, <2>2
<1> DEFINE k == IF rest # <<>> THEN [call[c] EXCEPT !.todo = rest]
                ELSE IF call[c].go = "send" THEN [NoCall EXCEPT !.at = "clear", !.go = "send"]
                ELSE IF Asking(job) THEN [NoCall EXCEPT !.at = "wait", !.go = call[c].go]
                ELSE NoCall
<1>4. /\ jobs' = Append(jobs, job) /\ Len(jobs) < MaxJobs
      /\ stepped' = stepped + (IF job.do = "step" THEN job.cmd[2] ELSE 0)
      /\ call' = [call EXCEPT ![c] = k]
      /\ mutex' = IF mutex = c THEN Nobody ELSE mutex
      /\ UNCHANGED <<desk, mayTx, host, radio, cache, presses, told>>
  <2>1. call' = [call EXCEPT ![c] = k]
    <3>1. CASE rest # <<>>
      BY <3>1 DEF Queues
    <3>2. CASE rest = <<>>
      BY <3>2 DEF Queues
    <3> QED BY <3>1, <3>2
  <2> QED BY <2>1 DEF Queues
<1>5. CallFits(c, k)
  <2>1. CASE rest # <<>>
    <3>1. k = [call[c] EXCEPT !.todo = rest]
      BY <2>1
    <3>2. k \in Calls /\ k.at = "queue" /\ k.go = call[c].go /\ k.todo = rest
      BY <1>1, <1>2, <3>1 DEF Calls
    <3> HIDE DEF k
    <3>3. TodoFits(c, k.go, k.todo)
      <4>1. \A i \in 1 .. Len(rest) : i = Len(rest) <=> i + 1 = Len(call[c].todo)
        BY <1>2
      <4> QED BY <1>1, <1>2, <3>2, <4>1 DEF TodoFits
    <3> QED BY <2>1, <3>2, <3>3 DEF CallFits
  <2>2. ASSUME NEW at \in {"clear", "wait"}, NEW go \in Names,
               at = "clear" => go = "send", at = "wait" => go \in Asks
        PROVE  CallFits(c, [NoCall EXCEPT !.at = at, !.go = go])
    <3> DEFINE m == [NoCall EXCEPT !.at = at, !.go = go]
    <3>1. NoCall \in Calls /\ NoCall.todo = <<>>
      BY NoCallFits DEF CallFits, NoCall
    <3>2. m \in Calls /\ m.at = at /\ m.go = go /\ m.todo = <<>>
      BY <3>1 DEF Calls, Places
    <3> HIDE DEF m
    <3>3. TodoFits(c, m.go, m.todo)
      <4>1. Len(m.todo) = 0
        BY <3>2
      <4> QED BY <4>1 DEF TodoFits
    <3>4. CallFits(c, m)
      BY <2>2, <3>2, <3>3 DEF CallFits
    <3> QED BY <3>4 DEF m
  <2>3. call[c].go \in Names
    BY <1>1 DEF Calls
  <2>4. CASE rest = <<>> /\ call[c].go = "send"
    <3>1. k = [NoCall EXCEPT !.at = "clear", !.go = "send"]
      BY <2>4
    <3> QED BY <2>2, <2>3, <2>4, <3>1
  <2>5. CASE rest = <<>> /\ call[c].go # "send" /\ Asking(job)
    <3>1. k = [NoCall EXCEPT !.at = "wait", !.go = call[c].go]
      BY <2>5
    <3> QED BY <1>3, <2>2, <2>3, <2>5, <3>1
  <2>6. CASE rest = <<>> /\ call[c].go # "send" /\ ~Asking(job)
    BY <2>6, NoCallFits
  <2> QED BY <2>1, <2>4, <2>5, <2>6
<1>6. Asking(job) => k.at = "wait"
  <2>1. ASSUME Asking(job) PROVE k.at = "wait"
    <3>1. call[c].go # "send"
      BY <1>3, <2>1 DEF Asks
    <3>2. k = [NoCall EXCEPT !.at = "wait", !.go = call[c].go]
      BY <1>3, <2>1, <3>1
    <3> HIDE DEF k
    <3> QED BY <3>2 DEF NoCall
  <2> QED BY <2>1
<1> HIDE DEF k, job, rest
<1>7. call \in [Clients -> Calls] /\ \A d \in Clients : CallFits(d, call[d])
  BY DEF PanelInv, CallsFit
<1>8. /\ call' \in [Clients -> Calls] /\ call'[c] = k
      /\ \A d \in Clients : d # c => call'[d] = call[d]
  BY <1>4, <1>5, <1>7 DEF CallFits
<1>9. CallsFit'
  BY <1>5, <1>7, <1>8 DEF CallsFit
<1>10. MutexHeld'
  BY <1>4, <1>8 DEF PanelInv, MutexHeld, Someone
<1>11. JobsFit'
  <2>1. jobs \in Seq(Jobs) /\ Len(jobs) <= MaxJobs
    BY DEF PanelInv, JobsFit
  <2>2. /\ jobs' \in Seq(Jobs) /\ Len(jobs') = Len(jobs) + 1 /\ Len(jobs) \in Nat
        /\ jobs'[Len(jobs')] = job
        /\ \A i \in 1 .. Len(jobs) : jobs'[i] = jobs[i] /\ jobs[i] \in Jobs
    BY <1>2, <1>4, <2>1
  <2>3. \A i \in 1 .. Len(jobs') : i \in 1 .. Len(jobs) \/ i = Len(jobs')
    BY <2>2
  <2>4. Len(jobs') <= MaxJobs
    BY <1>4, <2>2, Boundaries
  <2>5. ASSUME NEW i \in 1 .. Len(jobs), Asking(jobs[i]), jobs[i].who # Nobody
        PROVE  /\ jobs[i].who \in Clients \ {c} /\ call[jobs[i].who].at = "wait"
               /\ \A j \in 1 .. Len(jobs) : Asking(jobs[j]) /\ jobs[j].who = jobs[i].who => j = i
    <3>1. jobs[i].who \in Clients
      BY <2>2, <2>5 DEF Jobs, Someone
    <3>2. /\ call[jobs[i].who].at = "wait"
          /\ \A j \in 1 .. Len(jobs) : Asking(jobs[j]) /\ jobs[j].who = jobs[i].who => j = i
      BY <2>5 DEF PanelInv, JobsFit
    <3> QED BY <1>1, <3>1, <3>2
  <2>6. ASSUME NEW i \in 1 .. Len(jobs'), Asking(jobs'[i]), jobs'[i].who # Nobody
        PROVE  /\ call'[jobs'[i].who].at = "wait"
               /\ \A j \in 1 .. Len(jobs') :
                    Asking(jobs'[j]) /\ jobs'[j].who = jobs'[i].who => j = i
    <3>1. CASE i \in 1 .. Len(jobs)
      BY <1>3, <1>8, <2>2, <2>3, <2>5, <2>6, <3>1
    <3>2. CASE i = Len(jobs')
      BY <1>3, <1>6, <1>8, <2>2, <2>3, <2>5, <2>6, <3>2
    <3> QED BY <2>3, <3>1, <3>2
  <2> QED BY <2>2, <2>4, <2>6 DEF JobsFit
<1>12. stepped' \in Int
  <2>1. job.do = "step" => job.cmd[2] \in Int
    BY <1>2 DEF Jobs
  <2> QED BY <1>4, <2>1 DEF PanelInv
<1>13. HostKeeps' /\ ToldTrue'
  BY <1>4 DEF PanelInv, HostKeeps, ToldTrue, UnmuteIsHeard, AnswersAreTrue
<1> QED BY <1>4, <1>9, <1>10, <1>11, <1>12, <1>13 DEF PanelInv

\* The handler answers without the job; nobody waits for it any more.
LEMMA GivesUpKeeps ==
  ASSUME PanelInv, NEW c \in Clients, GivesUpWaiting(c)
  PROVE  PanelInv'
<1>1. /\ call[c].at = "wait" /\ call' = [call EXCEPT ![c] = NoCall]
      /\ told' = [told EXCEPT !.said = "unknown"]
      /\ UNCHANGED <<desk, mayTx, host, mutex, radio, cache, presses, stepped>>
  BY DEF GivesUpWaiting, Done
<1>2. jobs \in Seq(Jobs) /\ Len(jobs) <= MaxJobs /\ DOMAIN jobs = 1 .. Len(jobs)
  BY DEF PanelInv, JobsFit
<1>3. \A i \in 1 .. Len(jobs) :
        jobs'[i] = IF jobs[i].who = c /\ Asking(jobs[i]) THEN [jobs[i] EXCEPT !.who = Nobody]
                   ELSE jobs[i]
  BY <1>2 DEF GivesUpWaiting
<1>4. ASSUME NEW i \in 1 .. Len(jobs)
      PROVE  /\ jobs'[i] \in Jobs
             /\ jobs'[i].do = jobs[i].do
             /\ Asking(jobs[i]) /\ jobs[i].who = c => jobs'[i].who = Nobody
             /\ ~(Asking(jobs[i]) /\ jobs[i].who = c) => jobs'[i].who = jobs[i].who
  <2>1. jobs[i] \in Jobs
    BY <1>2
  <2>2. [jobs[i] EXCEPT !.who = Nobody] \in Jobs
    BY <2>1 DEF Jobs, Someone
  <2>3. /\ [jobs[i] EXCEPT !.who = Nobody].do = jobs[i].do
        /\ [jobs[i] EXCEPT !.who = Nobody].who = Nobody
    BY <2>1 DEF Jobs
  <2> QED BY <1>3, <2>1, <2>2, <2>3
<1>5. jobs' \in Seq(Jobs) /\ Len(jobs') = Len(jobs)
  <2>1. jobs' = [i \in 1 .. Len(jobs) |-> jobs'[i]]
    BY <1>2 DEF GivesUpWaiting
  <2>2. jobs' \in [1 .. Len(jobs) -> Jobs]
    BY <1>4, <2>1
  <2> QED BY <1>2, <2>2
<1>6. /\ call' \in [Clients -> Calls] /\ call'[c] = NoCall
      /\ \A d \in Clients : d # c => call'[d] = call[d]
  BY <1>1, NoCallFits DEF PanelInv, CallsFit, CallFits
<1>7. CallsFit'
  BY <1>6, NoCallFits DEF PanelInv, CallsFit
<1>8. MutexHeld'
  BY <1>1, <1>6 DEF PanelInv, MutexHeld, Someone
<1>9. JobsFit'
  <2>1. \A i \in 1 .. Len(jobs) : Asking(jobs'[i]) <=> Asking(jobs[i])
    BY <1>4 DEF Asking
  <2>2. ASSUME NEW i \in 1 .. Len(jobs), Asking(jobs'[i]), jobs'[i].who # Nobody
        PROVE  /\ call'[jobs'[i].who].at = "wait"
               /\ \A j \in 1 .. Len(jobs) :
                    Asking(jobs'[j]) /\ jobs'[j].who = jobs'[i].who => j = i
    <3>1. jobs[i] \in Jobs /\ jobs'[i].who = jobs[i].who /\ jobs[i].who # c /\ Asking(jobs[i])
      BY <1>2, <1>4, <2>1, <2>2
    <3>2. jobs[i].who \in Clients
      BY <2>2, <3>1 DEF Jobs, Someone
    <3>3. /\ call[jobs[i].who].at = "wait"
          /\ \A j \in 1 .. Len(jobs) : Asking(jobs[j]) /\ jobs[j].who = jobs[i].who => j = i
      BY <2>2, <3>1 DEF PanelInv, JobsFit
    <3> QED BY <1>4, <1>6, <2>1, <2>2, <3>1, <3>2, <3>3
  <2> QED BY <1>2, <1>5, <2>2 DEF JobsFit
<1>10. HostKeeps' /\ ToldTrue'
  BY <1>1 DEF PanelInv, HostKeeps, ToldTrue, UnmuteIsHeard, AnswersAreTrue
<1> QED BY <1>1, <1>7, <1>8, <1>9, <1>10 DEF PanelInv

----------------------------------------------------------------------------
(* The panel: the poll thread and the radio. *)

LEMMA RadioFields ==
  ASSUME NEW r \in Radios
  PROVE  /\ r.FA \in Nat /\ r.FB \in Nat /\ r.MD \in Modes /\ r.AG \in 0 .. Loud
         /\ r.rear \in {0, 1} /\ r.usb \in {0, 1}
         /\ r.VS \in Int /\ r.ST \in Int /\ r.TX \in Int /\ r.NB \in Int /\ r.PA \in Int
         /\ r.KM \in Int /\ r.KY \in Int
BY DEF Radios

\* A command the radio obeys.  The dial is moved by FA, MC and the exchange.
LEMMA ObeyedFits ==
  ASSUME NEW r \in Radios, NEW w \in Writes
  PROVE  /\ Obeyed(w, r) \in Radios
         /\ w[1] \notin {"FA", "SV", "MC"} => Obeyed(w, r).FA = r.FA
<1>0. /\ r.FA \in Nat /\ r.FB \in Nat
  BY RadioFields
<1>1. CASE w \in {"FA", "MC"} \X Nat
  <2>1. w[1] \in {"FA", "MC"} /\ w[2] \in Nat
    BY <1>1
  <2>2. Obeyed(w, r) = [r EXCEPT !.FA = w[2]]
    BY <2>1 DEF Obeyed, Radios
  <2> QED BY <2>1, <2>2 DEF Radios
<1>2. CASE w \in {"MD"} \X Modes
  <2>1. w[1] = "MD" /\ w[2] \in Modes
    BY <1>2
  <2>2. Obeyed(w, r) = [r EXCEPT !.MD = w[2]]
    BY <2>1 DEF Obeyed, Radios
  <2> QED BY <2>1, <2>2 DEF Radios
<1>3. CASE w \in {"AG"} \X (0 .. Loud)
  <2>1. w[1] = "AG" /\ w[2] \in 0 .. Loud
    BY <1>3
  <2>2. Obeyed(w, r) = [r EXCEPT !.AG = w[2]]
    BY <2>1 DEF Obeyed, Radios
  <2> QED BY <2>1, <2>2 DEF Radios
<1>4. CASE w \in {"SV", "NB", "PA", "TX", "AC", "KM", "KY", "VS", "ST"} \X Int
  <2>1. w[1] \in {"SV", "NB", "PA", "TX", "AC", "KM", "KY", "VS", "ST"} /\ w[2] \in Int
    BY <1>4
  <2>2. CASE w[1] = "SV"
    <3>1. Obeyed(w, r) = [r EXCEPT !.FA = r.FB, !.FB = r.FA]
      BY <2>2 DEF Obeyed
    <3> QED BY <1>0, <2>2, <3>1 DEF Radios
  <2>3. CASE w[1] = "AC"
    <3>1. Obeyed(w, r) = [r EXCEPT !.KY = 1]
      BY <2>3 DEF Obeyed
    <3> QED BY <3>1 DEF Radios
  <2>4. CASE w[1] \in {"NB", "PA", "TX", "KM", "KY", "VS", "ST"}
    <3>1. Obeyed(w, r) = [r EXCEPT ![w[1]] = w[2]]
      BY <2>4 DEF Obeyed
    <3> QED BY <2>1, <2>4, <3>1 DEF Radios
  <2> QED BY <2>1, <2>2, <2>3, <2>4
<1> QED BY <1>1, <1>2, <1>3, <1>4 DEF Writes

\* A job leaves a radio, and only some leave the dial elsewhere.
LEMMA RadiosFit ==
  ASSUME NEW job \in Jobs, NEW r \in Radios, NEW s \in RadiosAfter(job, r)
  PROVE  /\ s \in Radios
         /\ ~Moving(job) => s.FA = r.FA \/ job.do = "copy" \/ job.cmd[1] = "MC"
<1>0. /\ r.FA \in Nat /\ r.FB \in Nat /\ r.rear \in {0, 1} /\ r.usb \in {0, 1}
  BY RadioFields
<1>1. CASE job.do \in {"write", "unkey"}
  <2>1. job.cmd \in Writes
    <3>1. job.cmd \in Writes \/ job.cmd = <<"TX", 0>>
      BY <1>1 DEF Jobs
    <3>2. <<"TX", 0>> \in Writes
      BY DEF Writes
    <3> QED BY <3>1, <3>2
  <2>2. s = Obeyed(job.cmd, r)
    BY <1>1 DEF RadiosAfter
  <2>3. s \in Radios /\ (job.cmd[1] \notin {"FA", "SV", "MC"} => s.FA = r.FA)
    BY <2>1, <2>2, ObeyedFits
  <2>4. job.do = "unkey" => job.cmd = <<"TX", 0>> /\ job.cmd[1] \notin {"FA", "SV", "MC"}
    BY DEF Jobs
  <2> QED BY <1>1, <2>3, <2>4 DEF Moving
<1>2. CASE job.do = "step"
  <2>1. s \in Steps(r, job.cmd[2]) /\ job.cmd[2] \in Int
    BY <1>2 DEF RadiosAfter, Jobs
  <2>2. s = r \/ \E f \in Nat : s = [r EXCEPT !.FA = f]
    BY <1>0, <2>1 DEF Steps, Dropped
  <2>3. s \in Radios
    BY <2>2 DEF Radios
  <2> QED BY <1>2, <2>3 DEF Moving
<1>3. CASE job.do = "copy"
  <2>1. s \in Copies(r, job.cmd[1]) /\ job.cmd[1] \in {"FA", "FB"}
    BY <1>3 DEF RadiosAfter, Jobs
  <2>2. s = r \/ \E f \in Nat : s = [r EXCEPT !.FA = f] \/ s = [r EXCEPT !.FB = f]
    BY <1>0, <2>1 DEF Copies, Dropped
  <2>3. s \in Radios
    BY <2>2 DEF Radios
  <2> QED BY <1>3, <2>3
<1>4. CASE job.do = "quick"
  <2>1. s \in QuickSplits(r)
    BY <1>4 DEF RadiosAfter
  <2> DEFINE selected == Obeyed(<<"VS", 1>>, r)
             moved == Obeyed(<<"FA", r.FA + Offset>>, selected)
             back == Obeyed(<<"VS", 0>>, moved)
  <2>2. /\ <<"VS", 1>> \in Writes /\ <<"VS", 0>> \in Writes /\ <<"ST", 1>> \in Writes
        /\ <<"FA", r.FA + Offset>> \in Writes
    BY <1>0 DEF Writes, Offset
  <2>3. selected \in Radios
    BY <2>2, ObeyedFits
  <2>4. moved \in Radios
    BY <2>2, <2>3, ObeyedFits
  <2>5. back \in Radios
    BY <2>2, <2>4, ObeyedFits
  <2>6. Obeyed(<<"ST", 1>>, back) \in Radios
    BY <2>2, <2>5, ObeyedFits
  <2>7. s = r \/ s = Obeyed(<<"ST", 1>>, back)
    BY <2>1 DEF QuickSplits, Dropped
  <2> QED BY <1>4, <2>6, <2>7 DEF Moving
<1>5. CASE job.do = "route"
  <2>1. s \in Routes(r, job.cmd[2]) /\ job.cmd[2] \in {0, 1}
    BY <1>5 DEF RadiosAfter, Jobs
  <2>2. \E a, b \in {0, 1} : s = [r EXCEPT !.rear = a, !.usb = b]
    <3> DEFINE on == job.cmd[2]
               A == {on} \cup (IF desk.lossy THEN {r.rear} ELSE {})
               B == (IF on = 1 THEN {1} ELSE {r.usb}) \cup (IF desk.lossy THEN {r.usb} ELSE {})
               F(a, b) == [r EXCEPT !.rear = a, !.usb = b]
    <3>0. Routes(r, on) = {F(a, b) : a \in A, b \in B}
      BY DEF Routes
    <3>a. A \subseteq {0, 1} /\ B \subseteq {0, 1}
      BY <1>0, <2>1
    <3> HIDE DEF A, B, F
    <3>1. PICK a \in A, b \in B : s = F(a, b)
      BY <2>1, <3>0
    <3>2. a \in {0, 1} /\ b \in {0, 1}
      BY <3>1, <3>a
    <3> QED BY <3>1, <3>2 DEF F
  <2>3. s \in Radios /\ s.FA = r.FA
    BY <2>2 DEF Radios
  <2> QED BY <2>3
<1>6. CASE job.do = "ask"
  BY <1>6 DEF RadiosAfter
<1>7. job.do \in {"write", "unkey", "step", "copy", "quick", "route", "ask"}
  BY DEF Jobs
<1> QED BY <1>1, <1>2, <1>3, <1>4, <1>5, <1>6, <1>7

\* What is said of what was read is so, or nothing is said.
LEMMA SaidIsTrue ==
  ASSUME NEW job \in Jobs, Asking(job), NEW r \in Radios,
         NEW a \in Reads(Items(job, r)[1]), NEW b \in Reads(Items(job, r)[2])
  PROVE  /\ Said(job, <<a, b>>) \in {"unknown", Truth(job, r)}
         /\ Truth(job, r) \in {"yes", "no"}
<1>1. r.rear \in {0, 1} /\ r.usb \in {0, 1}
  BY RadioFields
<1>2. CASE job.do = "ask"
  <2>1. a \in {Bit(r.KY), "lost"}
    BY <1>2 DEF Items, Reads
  <2>2. Bit(r.KY) \in {"yes", "no"}
    BY DEF Bit
  <2>3. Said(job, <<a, b>>) = (IF a = "lost" THEN "unknown" ELSE a) /\ Truth(job, r) = Bit(r.KY)
    BY <1>2 DEF Said, Truth
  <2> QED BY <2>1, <2>2, <2>3
<1>3. CASE job.do = "route"
  <2>1. a \in {Bit(r.rear), "lost"} /\ b \in {Bit(r.usb), "lost"} /\ job.cmd[2] \in {0, 1}
    BY <1>3 DEF Items, Reads, Jobs
  <2>2. Bit(0) = "no" /\ Bit(1) = "yes"
    BY DEF Bit
  <2>3. CASE job.cmd[2] = 1
    <3>1. Truth(job, r) = Bit(r.rear * r.usb)
      BY <1>3, <2>3 DEF Truth
    <3>2. r.rear * r.usb = IF r.rear = 1 /\ r.usb = 1 THEN 1 ELSE 0
      BY <1>1
    <3>3. Said(job, <<a, b>>) = IF "lost" \in {a, b} THEN "unknown"
                                ELSE IF "no" \in {a, b} THEN "no" ELSE "yes"
      BY <1>3, <2>3 DEF Said
    <3> QED BY <1>1, <2>1, <2>2, <3>1, <3>2, <3>3
  <2>4. CASE job.cmd[2] = 0
    <3>1. Truth(job, r) = Bit(1 - r.rear)
      BY <1>3, <2>4 DEF Truth
    <3>2. 1 - r.rear = IF r.rear = 1 THEN 0 ELSE 1
      BY <1>1
    <3>3. Said(job, <<a, b>>) = IF "lost" \in {a, b} THEN "unknown"
                                ELSE IF a = "yes" THEN "no" ELSE "yes"
      BY <1>3, <2>4 DEF Said
    <3> QED BY <1>1, <2>1, <2>2, <3>1, <3>2, <3>3
  <2> QED BY <2>1, <2>3, <2>4
<1> QED BY <1>2, <1>3 DEF Asking

\* DrainQueue runs a job; its client, if it still waits, has no other in the
\* queue.
LEMMA ServeKeeps ==
  ASSUME PanelInv, Serve
  PROVE  PanelInv'
<1> DEFINE job == Head(jobs)
<1>1. /\ jobs # <<>> /\ jobs' = Tail(jobs)
      /\ UNCHANGED <<desk, mayTx, host, mutex, cache, presses, stepped>>
  BY DEF Serve
<1>2. /\ jobs \in Seq(Jobs) /\ Len(jobs) <= MaxJobs /\ MaxJobs \in Nat
  BY Boundaries DEF PanelInv, JobsFit
<1>3. /\ job \in Jobs /\ job = jobs[1] /\ jobs' \in Seq(Jobs) /\ Len(jobs') = Len(jobs) - 1
      /\ \A i \in 1 .. Len(jobs') : jobs'[i] = jobs[i + 1]
      /\ \A i \in 1 .. Len(jobs') : i + 1 \in 1 .. Len(jobs) /\ i + 1 # 1
      /\ 1 \in 1 .. Len(jobs) /\ Len(jobs') <= MaxJobs
  BY <1>1, <1>2
<1>4. PICK r \in RadiosAfter(job, radio) :
        /\ radio' = r
        /\ \/ /\ Asking(job) /\ job.who # Nobody
              /\ \E a \in Reads(Items(job, r)[1]), b \in Reads(Items(job, r)[2]) :
                   told' = [said |-> Said(job, <<a, b>>), truth |-> Truth(job, r)]
              /\ call' = [call EXCEPT ![job.who] = NoCall]
           \/ ~(Asking(job) /\ job.who # Nobody) /\ UNCHANGED <<told, call>>
  BY DEF Serve
<1> HIDE DEF job
<1>5. radio' \in Radios
  <2>1. radio \in Radios
    BY DEF PanelInv
  <2> QED BY <1>3, <1>4, <2>1, RadiosFit
<1>6. ASSUME NEW i \in 1 .. Len(jobs), Asking(jobs[i]), jobs[i].who # Nobody
      PROVE  /\ jobs[i].who \in Clients /\ call[jobs[i].who].at = "wait"
             /\ \A j \in 1 .. Len(jobs) : Asking(jobs[j]) /\ jobs[j].who = jobs[i].who => j = i
  <2>1. jobs[i] \in Jobs
    BY <1>2
  <2>2. jobs[i].who \in Clients
    BY <1>6, <2>1 DEF Jobs, Someone
  <2> QED BY <1>6, <2>2 DEF PanelInv, JobsFit
<1>7. ToldTrue'
  <2>1. CASE UNCHANGED told
    BY <2>1 DEF PanelInv, ToldTrue, AnswersAreTrue
  <2>2. CASE /\ Asking(job)
             /\ \E a \in Reads(Items(job, radio')[1]), b \in Reads(Items(job, radio')[2]) :
               told' = [said |-> Said(job, <<a, b>>), truth |-> Truth(job, radio')]
    <3>1. PICK a \in Reads(Items(job, radio')[1]), b \in Reads(Items(job, radio')[2]) :
            told' = [said |-> Said(job, <<a, b>>), truth |-> Truth(job, radio')]
      BY <2>2
    <3>2. /\ Said(job, <<a, b>>) \in {"unknown", Truth(job, radio')}
          /\ Truth(job, radio') \in {"yes", "no"}
      BY <1>3, <1>5, <2>2, <3>1, SaidIsTrue
    <3> QED BY <3>1, <3>2 DEF ToldTrue, AnswersAreTrue
  <2> QED BY <1>4, <2>1, <2>2
<1>8. CallsFit' /\ JobsFit' /\ MutexHeld'
  <2>1. CASE UNCHANGED call
    <3>1. CallsFit' /\ MutexHeld'
      BY <1>1, <2>1 DEF PanelInv, CallsFit, MutexHeld
    <3>2. ASSUME NEW i \in 1 .. Len(jobs'), Asking(jobs'[i]), jobs'[i].who # Nobody
          PROVE  /\ call'[jobs'[i].who].at = "wait"
                 /\ \A j \in 1 .. Len(jobs') :
                      Asking(jobs'[j]) /\ jobs'[j].who = jobs'[i].who => j = i
      <4>1. i + 1 \in 1 .. Len(jobs) /\ jobs'[i] = jobs[i + 1]
        BY <1>3
      <4>2. ASSUME NEW j \in 1 .. Len(jobs'), Asking(jobs'[j]), jobs'[j].who = jobs'[i].who
            PROVE  j = i
        <5>1. j + 1 \in 1 .. Len(jobs) /\ jobs'[j] = jobs[j + 1]
          BY <1>3
        <5>2. j + 1 = i + 1
          BY <1>6, <3>2, <4>1, <4>2, <5>1
        <5> QED BY <5>2
      <4> QED BY <1>6, <2>1, <3>2, <4>1, <4>2
    <3> QED BY <1>3, <3>1, <3>2 DEF JobsFit
  <2>2. CASE Asking(job) /\ job.who # Nobody /\ call' = [call EXCEPT ![job.who] = NoCall]
    <3> DEFINE c == job.who
    <3>1. /\ c \in Clients /\ call[c].at = "wait"
          /\ \A j \in 1 .. Len(jobs) : Asking(jobs[j]) /\ jobs[j].who = c => j = 1
      BY <1>3, <1>6, <2>2
    <3> HIDE DEF c
    <3>2. /\ call \in [Clients -> Calls] /\ \A d \in Clients : CallFits(d, call[d])
          /\ CallFits(c, NoCall) /\ NoCall \in Calls
      BY <3>1, NoCallFits DEF PanelInv, CallsFit, CallFits
    <3>3. /\ call' \in [Clients -> Calls] /\ call'[c] = NoCall
          /\ \A d \in Clients : d # c => call'[d] = call[d]
      BY <2>2, <3>1, <3>2 DEF c
    <3>4. CallsFit'
      BY <3>2, <3>3 DEF CallsFit
    <3>5. MutexHeld'
      BY <1>1, <3>1, <3>3 DEF PanelInv, MutexHeld, Someone
    <3>6. ASSUME NEW i \in 1 .. Len(jobs'), Asking(jobs'[i]), jobs'[i].who # Nobody
          PROVE  /\ call'[jobs'[i].who].at = "wait"
                 /\ \A j \in 1 .. Len(jobs') :
                      Asking(jobs'[j]) /\ jobs'[j].who = jobs'[i].who => j = i
      <4>1. i + 1 \in 1 .. Len(jobs) /\ jobs'[i] = jobs[i + 1] /\ i + 1 # 1
        BY <1>3
      <4>2. ASSUME NEW j \in 1 .. Len(jobs'), Asking(jobs'[j]), jobs'[j].who = jobs'[i].who
            PROVE  j = i
        <5>1. j + 1 \in 1 .. Len(jobs) /\ jobs'[j] = jobs[j + 1]
          BY <1>3
        <5>2. j + 1 = i + 1
          BY <1>6, <3>6, <4>1, <4>2, <5>1
        <5> QED BY <5>2
      <4>3. jobs'[i].who # c /\ jobs'[i].who \in Clients /\ call[jobs'[i].who].at = "wait"
        BY <1>6, <3>1, <3>6, <4>1
      <4> QED BY <3>3, <4>2, <4>3
    <3> QED BY <1>3, <3>4, <3>5, <3>6 DEF JobsFit
  <2> QED BY <1>4, <2>1, <2>2
<1>9. HostKeeps'
  BY <1>1 DEF PanelInv, HostKeeps, UnmuteIsHeard
<1> QED BY <1>1, <1>5, <1>7, <1>8, <1>9 DEF PanelInv

\* Steps that leave the requests, the queue and the lock alone.
LEMMA OutsideKeeps ==
  ASSUME PanelInv, Polls \/ KeyerEnds \/ (\E c \in Clients : Revokes(c)) \/ UNCHANGED panelVars
  PROVE  PanelInv'
<1>1. UNCHANGED <<desk, call, host, mutex, jobs, presses, stepped, told>>
  BY DEF Polls, KeyerEnds, Revokes, panelVars
<1>2. CallsFit' /\ JobsFit' /\ MutexHeld' /\ HostKeeps' /\ ToldTrue'
  BY <1>1 DEF PanelInv, CallsFit, JobsFit, MutexHeld, HostKeeps, ToldTrue, UnmuteIsHeard,
              AnswersAreTrue
<1>3. radio' \in Radios /\ cache' \in Caches /\ mayTx' \in [Clients -> BOOLEAN]
  <2>0. radio \in Radios /\ cache \in Caches /\ mayTx \in [Clients -> BOOLEAN]
    BY DEF PanelInv
  <2>1. CASE Polls
    <3>1. Shown(radio) \in Caches
      BY <2>0, RadioFields DEF Shown, Caches
    <3>2. NothingRead \in Caches
      BY Boundaries DEF NothingRead, Caches
    <3> QED BY <2>0, <2>1, <3>1, <3>2 DEF Polls
  <2>2. CASE KeyerEnds
    <3>1. [radio EXCEPT !.KY = 0] \in Radios
      BY <2>0 DEF Radios
    <3> QED BY <2>0, <2>2, <3>1 DEF KeyerEnds
  <2>3. CASE \E c \in Clients : Revokes(c)
    BY <2>0, <2>3 DEF Revokes
  <2>4. CASE UNCHANGED panelVars
    BY <2>0, <2>4 DEF panelVars
  <2> QED BY <2>1, <2>2, <2>3, <2>4
<1> QED BY <1>1, <1>2, <1>3 DEF PanelInv

LEMMA InitPanel == PanelInit => PanelInv
<1> SUFFICES ASSUME PanelInit PROVE PanelInv
  OBVIOUS
<1>0. /\ Loud \in Nat /\ Loud > 1 /\ MaxJobs \in Nat /\ MaxPresses \in Nat
  BY Boundaries
<1>1. radio \in Radios
  BY <1>0 DEF PanelInit, Radio0, Radios, Modes
<1>2. cache \in Caches
  BY <1>1, RadioFields DEF PanelInit, Shown, Caches
<1>3. HostKeeps
  <2>1. Loud \div 2 \in 0 .. Loud /\ Loud \div 2 > 0
    BY <1>0
  <2>2. <<>> \in Seq(0 .. 9)
    OBVIOUS
  <2> QED BY <2>1, <2>2 DEF PanelInit, HostKeeps, UnmuteIsHeard
<1>4. ToldTrue
  BY DEF PanelInit, ToldTrue, AnswersAreTrue
<1>5. CallsFit
  <2>1. \A c \in Clients : CallFits(c, NoCall) /\ NoCall \in Calls
    BY NoCallFits DEF CallFits
  <2> QED BY <2>1 DEF PanelInit, CallsFit
<1>6. JobsFit
  <2>1. jobs = <<>> /\ Len(jobs) = 0 /\ jobs \in Seq(Jobs)
    BY DEF PanelInit
  <2> QED BY <1>0, <2>1 DEF JobsFit
<1>7. MutexHeld
  BY DEF PanelInit, MutexHeld, Someone
<1> QED BY <1>0, <1>1, <1>2, <1>3, <1>4, <1>5, <1>6, <1>7 DEF PanelInit, PanelInv

LEMMA PanelStep == ASSUME PanelInv, [PanelNext]_panelVars PROVE PanelInv'
<1>1. ASSUME NEW c \in Clients, NEW r \in desk.routes, Arrives(c, r) PROVE PanelInv'
  BY <1>1, ArrivesKeeps
<1>2. ASSUME NEW c \in Clients, Handler(c) PROVE PanelInv'
  BY <1>2, GatesKeep, HandlesKeeps, DecidesKeeps, MutesKeeps, KeepsKeeps, SendsTypedKeeps,
     QueuesKeeps, GivesUpKeeps DEF Handler
<1> QED BY <1>1, <1>2, ServeKeeps, OutsideKeeps DEF PanelNext

\* The inductive invariant of the panel: a handler queues jobs of its own
\* client, of its own route's kind; one that waits has its job last and alone;
\* HostState's lock is held by a handler that has something to queue.
THEOREM PanelInvariant == PanelSpec => []PanelInv
<1>1. PanelInit => PanelInv
  BY InitPanel
<1>2. PanelInv /\ [PanelNext]_panelVars => PanelInv'
  BY PanelStep
<1> QED BY <1>1, <1>2, PTL DEF PanelSpec

----------------------------------------------------------------------------
(* The panel: the lock. *)

\* No request that moves the dial is beyond the first gate, and none of what
\* is queued moves it.
Still ==
  /\ \A c \in Clients : call[c].go \in Tuning => call[c].at = "lock"
  /\ \A i \in 1 .. Len(jobs) : ~Moving(jobs[i])

LEMMA SettledIsStill == ASSUME PanelInv PROVE LockSettled <=> host.locked /\ Still
<1>1. DOMAIN jobs = 1 .. Len(jobs)
  BY DEF PanelInv, JobsFit
<1> QED BY <1>1 DEF LockSettled, Still

\* One request moves on, with nothing queued.
LEMMA StillMoves ==
  ASSUME PanelInv, Still, NEW c \in Clients, NEW k, call' = [call EXCEPT ![c] = k],
         k.go \in Tuning => k.at = "lock", UNCHANGED jobs
  PROVE  Still'
<1>1. \A d \in Clients : call'[d] = IF d = c THEN k ELSE call[d]
  BY DEF PanelInv, CallsFit
<1> QED BY <1>1 DEF Still

LEMMA NoTuning == ASSUME NEW go, go = "none" \/ go = "mute" \/ go = "unmute" PROVE go \notin Tuning
BY DEF Tuning

LEMMA HandlerStill ==
  ASSUME PanelInv, host.locked, Still, NEW c \in Clients, Handler(c)
  PROVE  Still'
<1>0. NoCall.go \notin Tuning
  BY DEF NoCall, Tuning
<1>1. call[c] \in Calls /\ TodoFits(c, call[c].go, call[c].todo)
  BY DEF PanelInv, CallsFit, CallFits
<1>2. CASE LockGate(c)
  <2>1. CASE Blocked(call[c].go)
    BY <1>0, <1>2, <2>1, StillMoves DEF LockGate
  <2>2. CASE ~Blocked(call[c].go)
    <3>1. call[c].go \notin Tuning
      BY <2>2 DEF Tuning, Blocked
    <3> DEFINE k == [call[c] EXCEPT !.at = "rights"]
    <3>2. call' = [call EXCEPT ![c] = k] /\ k.go = call[c].go
      BY <1>1, <1>2, <2>2 DEF LockGate, Goes, Calls
    <3> HIDE DEF k
    <3> QED BY <1>2, <3>1, <3>2, StillMoves DEF LockGate
  <2> QED BY <2>1, <2>2
<1>3. CASE call[c].at # "lock" /\ UNCHANGED jobs /\ call' = [call EXCEPT ![c] = NoCall]
  BY <1>0, <1>3, StillMoves
<1>4. CASE RightsGate(c)
  <2>1. CASE call' = [call EXCEPT ![c] = NoCall]
    BY <1>0, <1>4, <2>1, StillMoves DEF RightsGate
  <2>2. CASE Goes(c, "handler")
    <3> DEFINE k == [call[c] EXCEPT !.at = "handler"]
    <3>1. call' = [call EXCEPT ![c] = k] /\ k.go = call[c].go
      BY <1>1, <2>2 DEF Goes, Calls
    <3>2. call[c].go \notin Tuning
      BY <1>4 DEF RightsGate, Still
    <3> HIDE DEF k
    <3> QED BY <1>4, <3>1, <3>2, StillMoves DEF RightsGate
  <2> QED BY <1>4, <2>1, <2>2 DEF RightsGate
<1>5. CASE call[c].at = "handler" /\ UNCHANGED jobs /\ \E q : Queueing(c, q)
  <2>1. PICK q : Queueing(c, q)
    BY <1>5
  <2> DEFINE k == [call[c] EXCEPT !.at = "queue", !.todo = q]
  <2>2. call' = [call EXCEPT ![c] = k] /\ k.go = call[c].go
    BY <1>1, <2>1 DEF Queueing, Calls
  <2>3. call[c].go \notin Tuning
    BY <1>5 DEF Still
  <2> HIDE DEF k
  <2> QED BY <1>5, <2>2, <2>3, StillMoves
<1>6. CASE Decides(c)
  <2> DEFINE k == [call[c] EXCEPT !.go = IF cache.AG = 0 THEN "unmute" ELSE "mute"]
  <2>1. call' = [call EXCEPT ![c] = k] /\ UNCHANGED jobs
    BY <1>6 DEF Decides
  <2>2. k.go \notin Tuning
    <3>1. k.go = IF cache.AG = 0 THEN "unmute" ELSE "mute"
      BY <1>1 DEF Calls
    <3> HIDE DEF k
    <3> QED BY <3>1 DEF Tuning
  <2> HIDE DEF k
  <2> QED BY <2>1, <2>2, StillMoves
<1>7. CASE Queues(c)
  <2> DEFINE job == Head(call[c].todo)
             rest == Tail(call[c].todo)
  <2>1. /\ call[c].todo \in Seq(Jobs) /\ call[c].todo # <<>> /\ call[c].go \notin Tuning
        /\ call[c].at = "queue"
    BY <1>1, <1>7 DEF PanelInv, CallsFit, CallFits, Calls, Queues, Still
  <2>2. job \in Jobs /\ job = call[c].todo[1] /\ 1 \in 1 .. Len(call[c].todo)
    BY <2>1
  <2>3. ~Moving(job)
    BY <1>1, <2>1, <2>2 DEF TodoFits, Allowed
  <2>4. PICK k : call' = [call EXCEPT ![c] = k] /\ k.go \notin Tuning
    <3>1. CASE rest # <<>>
      <4> DEFINE k == [call[c] EXCEPT !.todo = rest]
      <4>1. call' = [call EXCEPT ![c] = k] /\ k.go = call[c].go
        BY <1>1, <1>7, <3>1 DEF Queues, Calls
      <4> HIDE DEF k
      <4> QED BY <2>1, <4>1
    <3>2. CASE rest = <<>>
      <4>1. call[c].go # "send"
        BY <2>1 DEF Tuning
      <4> DEFINE k == IF Asking(job) THEN [NoCall EXCEPT !.at = "wait", !.go = call[c].go]
                      ELSE NoCall
      <4>2. call' = [call EXCEPT ![c] = k]
        BY <1>7, <3>2, <4>1 DEF Queues
      <4>3. k.go \in {call[c].go, NoCall.go}
        BY DEF NoCall
      <4> HIDE DEF k
      <4> QED BY <1>0, <2>1, <4>2, <4>3
    <3> QED BY <3>1, <3>2
  <2>5. jobs' = Append(jobs, job) /\ jobs \in Seq(Jobs)
    BY <1>7 DEF Queues, PanelInv, JobsFit
  <2> HIDE DEF job
  <2>6. /\ Len(jobs') = Len(jobs) + 1 /\ jobs'[Len(jobs) + 1] = job
        /\ \A i \in 1 .. Len(jobs) : jobs'[i] = jobs[i]
        /\ \A i \in 1 .. Len(jobs) + 1 : i \in 1 .. Len(jobs) \/ i = Len(jobs) + 1
    BY <2>2, <2>5
  <2>7. \A i \in 1 .. Len(jobs') : ~Moving(jobs'[i])
    BY <2>3, <2>6 DEF Still
  <2>8. \A d \in Clients : call'[d] = call[d] \/ call'[d].go \notin Tuning
    BY <2>4 DEF PanelInv, CallsFit
  <2> QED BY <2>7, <2>8 DEF Still
<1>8. CASE GivesUpWaiting(c)
  <2>1. call' = [call EXCEPT ![c] = NoCall]
    BY <1>8 DEF GivesUpWaiting, Done
  <2>2. \A d \in Clients : call'[d] = call[d] \/ call'[d].go \notin Tuning
    BY <1>0, <2>1 DEF PanelInv, CallsFit
  <2>3. jobs \in Seq(Jobs) /\ DOMAIN jobs = 1 .. Len(jobs)
    BY DEF PanelInv, JobsFit
  <2>4. /\ DOMAIN jobs' = DOMAIN jobs
        /\ \A i \in 1 .. Len(jobs) : jobs'[i] \in {[jobs[i] EXCEPT !.who = Nobody], jobs[i]}
    BY <1>8, <2>3 DEF GivesUpWaiting
  <2>5. Len(jobs') = Len(jobs)
    <3>1. PanelInv'
      BY <1>8, GivesUpKeeps
    <3>2. jobs' \in Seq(Jobs)
      BY <3>1 DEF PanelInv, JobsFit
    <3>3. 1 .. Len(jobs') = 1 .. Len(jobs) /\ Len(jobs') \in Nat /\ Len(jobs) \in Nat
      BY <2>3, <2>4, <3>2
    <3>4. ASSUME NEW a \in Nat, NEW b \in Nat, 1 .. a = 1 .. b PROVE a = b
      <4>1. a > 0 => a \in 1 .. b
        BY <3>4
      <4>2. b > 0 => b \in 1 .. a
        BY <3>4
      <4> QED BY <4>1, <4>2
    <3> QED BY <3>3, <3>4
  <2>6. ASSUME NEW i \in 1 .. Len(jobs) PROVE ~Moving(jobs'[i])
    <3>1. jobs[i] \in Jobs
      BY <2>3
    <3>2. jobs'[i].do = jobs[i].do /\ jobs'[i].cmd = jobs[i].cmd
      BY <2>4, <3>1 DEF Jobs
    <3>3. ~Moving(jobs[i])
      BY DEF Still
    <3> QED BY <3>2, <3>3 DEF Moving
  <2> QED BY <2>2, <2>5, <2>6 DEF Still
<1>9. CASE Handles(c) \/ Mutes(c)
  BY <1>5, <1>9 DEF Handles, Mutes
<1>10. CASE Keeps(c) \/ ClearsTyped(c)
  BY <1>3, <1>10 DEF Keeps, ClearsTyped, Done
<1>11. CASE SendsTyped(c)
  <2>1. CASE Done(c)
    BY <1>3, <1>11, <2>1 DEF SendsTyped, Done
  <2>2. CASE ~Done(c)
    BY <1>5, <1>11, <2>2 DEF SendsTyped
  <2> QED BY <2>1, <2>2
<1> QED BY <1>2, <1>4, <1>6, <1>7, <1>8, <1>9, <1>10, <1>11 DEF Handler

\* With the lock settled, the poll thread moves the dial by a copy or a recall
\* only.
LEMMA ServeStill ==
  ASSUME PanelInv, Still, Serve
  PROVE  /\ Still'
         /\ radio'.FA # radio.FA => Head(jobs).do = "copy" \/ Head(jobs).cmd[1] = "MC"
<1> DEFINE job == Head(jobs)
<1>1. jobs \in Seq(Jobs) /\ jobs # <<>> /\ jobs' = Tail(jobs) /\ radio \in Radios
  BY DEF Serve, PanelInv, JobsFit
<1>2. /\ job \in Jobs /\ job = jobs[1] /\ 1 \in 1 .. Len(jobs) /\ Len(jobs') = Len(jobs) - 1
      /\ \A i \in 1 .. Len(jobs') : i + 1 \in 1 .. Len(jobs) /\ jobs'[i] = jobs[i + 1]
  BY <1>1
<1>3. radio' \in RadiosAfter(job, radio)
  BY DEF Serve
<1>4. ~Moving(job)
  BY <1>2 DEF Still
<1> HIDE DEF job
<1>5. radio'.FA = radio.FA \/ job.do = "copy" \/ job.cmd[1] = "MC"
  BY <1>1, <1>2, <1>3, <1>4, RadiosFit
<1>6. \A c \in Clients : call'[c] = call[c] \/ call'[c].go \notin Tuning
  <2>1. UNCHANGED call \/ call' = [call EXCEPT ![job.who] = NoCall]
    BY DEF Serve, job
  <2>2. NoCall.go \notin Tuning
    BY DEF NoCall, Tuning
  <2> QED BY <2>1, <2>2 DEF PanelInv, CallsFit
<1>7. Still'
  BY <1>2, <1>6 DEF Still
<1> QED BY <1>5, <1>7 DEF job

LEMMA OthersStill ==
  ASSUME PanelInv, Still, 
         \/ \E c \in Clients, r \in desk.routes : Arrives(c, r)
         \/ Polls \/ KeyerEnds \/ (\E c \in Clients : Revokes(c))
  PROVE  Still' /\ radio'.FA = radio.FA
<1>1. CASE \E c \in Clients, r \in desk.routes : Arrives(c, r)
  <2>1. PICK c \in Clients, r \in desk.routes : Arrives(c, r)
    BY <1>1
  <2> DEFINE k == [at |-> "lock", go |-> r.go, x |-> r.x, todo |-> <<>>]
  <2>2. call' = [call EXCEPT ![c] = k] /\ k.at = "lock" /\ UNCHANGED <<jobs, radio>>
    BY <2>1 DEF Arrives
  <2> HIDE DEF k
  <2> QED BY <2>2, StillMoves
<1>2. CASE Polls \/ KeyerEnds \/ (\E c \in Clients : Revokes(c))
  <2>1. UNCHANGED <<call, jobs>>
    BY <1>2 DEF Polls, KeyerEnds, Revokes
  <2>2. radio'.FA = radio.FA
    <3>1. UNCHANGED radio \/ radio' = [radio EXCEPT !.KY = 0]
      BY <1>2 DEF Polls, KeyerEnds, Revokes
    <3> QED BY <3>1 DEF PanelInv, Radios
  <2> QED BY <2>1, <2>2 DEF Still
<1> QED BY <1>1, <1>2

LEMMA HandlerLeavesRadio == ASSUME NEW c \in Clients, Handler(c) PROVE UNCHANGED radio
<1>1. ASSUME LockGate(c) \/ RightsGate(c) \/ Handles(c) \/ Decides(c) \/ Mutes(c)
      PROVE  UNCHANGED radio
  BY <1>1, Zenon DEF LockGate, RightsGate, Handles, Decides, Mutes
<1>2. ASSUME \/ Keeps(c) \/ SendsTyped(c) \/ ClearsTyped(c) \/ Queues(c) \/ GivesUpWaiting(c)
      PROVE  UNCHANGED radio
  BY <1>2, Zenon DEF Keeps, SendsTyped, ClearsTyped, Queues, GivesUpWaiting
<1> QED BY <1>1, <1>2 DEF Handler

\* kVfoLockBlockedExact, kVfoLockBlockedPrefix and SetSecondGate: for any
\* clients, any routes and any number of requests the lock, once what was under
\* way has arrived, keeps the dial where it is until it is taken off; only a
\* copy from the other VFO and a memory recall pass it.
THEOREM LockKeepsTheDial == PanelSpec => LockHolds
<1>1. ASSUME PanelInv, [PanelNext]_panelVars
      PROVE  [LockSettled /\ host'.locked
                => /\ LockSettled'
                   /\ radio'.FA # radio.FA
                        => Head(jobs).do = "copy" \/ Head(jobs).cmd[1] = "MC"]_panelVars
  <2> SUFFICES ASSUME PanelNext, LockSettled, host'.locked
               PROVE  /\ LockSettled'
                      /\ radio'.FA # radio.FA
                           => Head(jobs).do = "copy" \/ Head(jobs).cmd[1] = "MC"
    BY <1>1
  <2>1. PanelInv' /\ host.locked /\ Still
    BY <1>1, PanelStep, SettledIsStill
  <2>2. /\ Still'
        /\ radio'.FA # radio.FA => Head(jobs).do = "copy" \/ Head(jobs).cmd[1] = "MC"
    <3>1. CASE \E c \in Clients : Handler(c)
      BY <1>1, <2>1, <3>1, HandlerStill, HandlerLeavesRadio
    <3>2. CASE Serve
      BY <1>1, <2>1, <3>2, ServeStill
    <3>3. CASE \/ \E c \in Clients, r \in desk.routes : Arrives(c, r)
               \/ Polls \/ KeyerEnds \/ (\E c \in Clients : Revokes(c))
      BY <1>1, <2>1, <3>3, OthersStill
    <3> QED BY <3>1, <3>2, <3>3 DEF PanelNext
  <2>3. LockSettled'
    <3>1. (LockSettled <=> host.locked /\ Still)'
      BY <2>1, SettledIsStill, PTL
    <3> QED BY <2>2, <3>1
  <2> QED BY <2>2, <2>3
<1> QED BY <1>1, PanelInvariant, PTL DEF LockHolds, PanelSpec

----------------------------------------------------------------------------
(* The panel: the right to transmit. *)

\* What would start a carrier: none of it is the client's, and no route of its
\* that keys is beyond the second gate.
Starts(j) == j.do = "write" /\ j.cmd \in Carriers
Early(k) == IsTransmitRoute(k.go) => k.at \in {"lock", "rights"}
Quiet(c) ==
  /\ \A i \in 1 .. Len(jobs) : jobs[i].who = c => ~Starts(jobs[i])
  /\ Early(call[c])

LEMMA SilencedIsQuiet ==
  ASSUME PanelInv, NEW c \in Clients
  PROVE  Silenced(c) <=> ~mayTx[c] /\ c \notin Trusted /\ Quiet(c)
<1>1. /\ DOMAIN jobs = 1 .. Len(jobs) /\ call[c] \in Calls /\ CallFits(c, call[c])
      /\ call[c].todo \in Seq(Jobs) /\ DOMAIN call[c].todo = 1 .. Len(call[c].todo)
  BY DEF PanelInv, JobsFit, CallsFit, Calls
<1>2. \A j : Keying(j) <=> Starts(j)
  BY DEF Keying, Starts, Carriers
<1>3. Early(call[c]) <=> (call[c].go \in {"key", "keytoggle", "tune", "cw", "play"}
                            => call[c].at \in {"lock", "rights"})
  BY DEF Early, IsTransmitRoute
<1>4. ASSUME Early(call[c]), NEW i \in 1 .. Len(call[c].todo) PROVE ~Starts(call[c].todo[i])
  <2>1. call[c].todo # <<>>
    BY <1>1
  <2>2. call[c].at = "queue" /\ Allowed(call[c].todo[i], call[c].go)
    BY <1>1, <2>1 DEF CallFits, TodoFits
  <2> QED BY <1>4, <2>2 DEF Early, Starts, Allowed
<1> QED BY <1>1, <1>2, <1>3, <1>4 DEF Silenced, Quiet

LEMMA NoCallIsEarly ==
  /\ Early(NoCall)
  /\ Early([NoCall EXCEPT !.at = "clear", !.go = "send"])
  /\ \A go : ~IsTransmitRoute(go) => Early([NoCall EXCEPT !.at = "wait", !.go = go])
BY DEF Early, NoCall, IsTransmitRoute

\* A handler moves its own request; past the second gate without the right it
\* is no transmit route's.
LEMMA HandlerIsEarly ==
  ASSUME PanelInv, NEW c \in Clients, Handler(c)
  PROVE  \E k : /\ call' = [call EXCEPT ![c] = k]
                /\ ~mayTx[c] /\ c \notin Trusted /\ Early(call[c]) => Early(k)
<1>1. call[c] \in Calls
  BY DEF PanelInv, CallsFit
<1>2. CASE call' = [call EXCEPT ![c] = NoCall]
  BY <1>2, NoCallIsEarly
<1>3. ASSUME NEW at \in {"rights", "handler"}, Goes(c, at), call[c].at \in {"lock", "rights"},
             at = "handler" => c \in Trusted \/ ~IsTransmitRoute(call[c].go) \/ mayTx[c]
      PROVE  \E k : /\ call' = [call EXCEPT ![c] = k]
                    /\ ~mayTx[c] /\ c \notin Trusted /\ Early(call[c]) => Early(k)
  <2> DEFINE k == [call[c] EXCEPT !.at = at]
  <2>1. call' = [call EXCEPT ![c] = k] /\ k.at = at /\ k.go = call[c].go
    BY <1>1, <1>3 DEF Goes, Calls
  <2> HIDE DEF k
  <2>2. ~mayTx[c] /\ c \notin Trusted => Early(k)
    BY <1>3, <2>1 DEF Early
  <2> QED BY <2>1, <2>2
<1>4. CASE LockGate(c)
  BY <1>2, <1>3, <1>4 DEF LockGate
<1>5. CASE RightsGate(c)
  BY <1>2, <1>3, <1>5 DEF RightsGate
<1>6. ASSUME call[c].at = "handler", NEW q, Queueing(c, q)
      PROVE  \E k : call' = [call EXCEPT ![c] = k] /\ (Early(call[c]) => Early(k))
  <2> DEFINE k == [call[c] EXCEPT !.at = "queue", !.todo = q]
  <2>1. call' = [call EXCEPT ![c] = k] /\ k.go = call[c].go
    BY <1>1, <1>6 DEF Queueing, Calls
  <2> HIDE DEF k
  <2>2. Early(call[c]) => Early(k)
    BY <1>6, <2>1 DEF Early
  <2> QED BY <2>1, <2>2
<1>7. CASE Decides(c)
  <2> DEFINE k == [call[c] EXCEPT !.go = IF cache.AG = 0 THEN "unmute" ELSE "mute"]
  <2>1. call' = [call EXCEPT ![c] = k] /\ k.go \in {"mute", "unmute"}
    BY <1>1, <1>7 DEF Decides, Calls
  <2> HIDE DEF k
  <2>2. Early(k)
    BY <2>1 DEF Early, IsTransmitRoute
  <2> QED BY <2>1, <2>2
<1>8. CASE Handles(c) \/ Mutes(c)
  <2>1. call[c].at = "handler" /\ \E q : Queueing(c, q)
    BY <1>8 DEF Handles, Mutes
  <2> QED BY <1>6, <2>1
<1>9. CASE SendsTyped(c)
  <2>1. CASE Done(c)
    BY <1>2, <2>1 DEF Done
  <2>2. CASE ~Done(c)
    <3>1. call[c].at = "handler" /\ \E q : Queueing(c, q)
      BY <1>9, <2>2 DEF SendsTyped
    <3> QED BY <1>6, <3>1
  <2> QED BY <2>1, <2>2
<1>10. CASE Keeps(c) \/ ClearsTyped(c) \/ GivesUpWaiting(c)
  BY <1>2, <1>10 DEF Keeps, ClearsTyped, GivesUpWaiting, Done
<1>11. CASE Queues(c)
  <2> DEFINE job == Head(call[c].todo)
             rest == Tail(call[c].todo)
  <2>0. call[c].at = "queue"
    BY <1>11 DEF Queues
  <2>1. CASE rest # <<>>
    <3> DEFINE k == [call[c] EXCEPT !.todo = rest]
    <3>1. call' = [call EXCEPT ![c] = k] /\ k.go = call[c].go /\ k.at = call[c].at
      BY <1>1, <1>11, <2>1 DEF Queues, Calls
    <3> HIDE DEF k
    <3>2. Early(call[c]) => Early(k)
      BY <3>1 DEF Early
    <3> QED BY <3>1, <3>2
  <2>2. CASE rest = <<>>
    <3> DEFINE k == IF call[c].go = "send" THEN [NoCall EXCEPT !.at = "clear", !.go = "send"]
                    ELSE IF Asking(job) THEN [NoCall EXCEPT !.at = "wait", !.go = call[c].go]
                    ELSE NoCall
    <3>1. call' = [call EXCEPT ![c] = k]
      BY <1>11, <2>2 DEF Queues
    <3>2. Early(call[c]) => Early(k)
      <4>1. Early(call[c]) => ~IsTransmitRoute(call[c].go)
        BY <2>0 DEF Early
      <4> QED BY <4>1, NoCallIsEarly
    <3> QED BY <3>1, <3>2
  <2> QED BY <2>1, <2>2
<1> QED BY <1>4, <1>5, <1>7, <1>8, <1>9, <1>10, <1>11 DEF Handler

\* A handler queues what is its own client's, and starts a carrier only for a
\* route that keys.
LEMMA HandlerQueues ==
  ASSUME PanelInv, NEW d \in Clients, Handler(d), NEW c \in Clients, Quiet(c)
  PROVE  \A i \in 1 .. Len(jobs') : jobs'[i].who = c => ~Starts(jobs'[i])
<1>1. jobs \in Seq(Jobs) /\ DOMAIN jobs = 1 .. Len(jobs)
  BY DEF PanelInv, JobsFit
<1>2. CASE UNCHANGED jobs
  BY <1>2 DEF Quiet
<1>3. CASE Queues(d)
  <2> DEFINE job == Head(call[d].todo)
  <2>1. /\ call[d].todo \in Seq(Jobs) /\ call[d].todo # <<>> /\ call[d].at = "queue"
        /\ TodoFits(d, call[d].go, call[d].todo)
    BY <1>3 DEF PanelInv, CallsFit, CallFits, Calls, Queues
  <2>2. job \in Jobs /\ job = call[d].todo[1] /\ 1 \in 1 .. Len(call[d].todo)
    BY <2>1
  <2>3. job.who = d /\ Allowed(job, call[d].go)
    BY <2>1, <2>2 DEF TodoFits
  <2>4. job.who = c => ~Starts(job)
    BY <2>1, <2>3 DEF Quiet, Early, Starts, Allowed
  <2>5. jobs' = Append(jobs, job)
    BY <1>3 DEF Queues
  <2> HIDE DEF job
  <2>6. /\ Len(jobs') = Len(jobs) + 1 /\ jobs'[Len(jobs) + 1] = job
        /\ \A i \in 1 .. Len(jobs) : jobs'[i] = jobs[i]
        /\ \A i \in 1 .. Len(jobs) + 1 : i \in 1 .. Len(jobs) \/ i = Len(jobs) + 1
    BY <1>1, <2>2, <2>5
  <2> QED BY <2>4, <2>6 DEF Quiet
<1>4. CASE GivesUpWaiting(d)
  <2>1. PanelInv'
    BY <1>4, GivesUpKeeps
  <2>2. DOMAIN jobs' = DOMAIN jobs /\ DOMAIN jobs' = 1 .. Len(jobs')
    BY <1>4, <2>1 DEF GivesUpWaiting, PanelInv, JobsFit
  <2>3. ASSUME NEW i \in 1 .. Len(jobs'), jobs'[i].who = c PROVE ~Starts(jobs'[i])
    <3>1. i \in 1 .. Len(jobs) /\ jobs[i] \in Jobs
      BY <1>1, <2>2
    <3>2. jobs'[i] \in {[jobs[i] EXCEPT !.who = Nobody], jobs[i]}
      BY <1>1, <1>4, <3>1 DEF GivesUpWaiting
    <3>3. [jobs[i] EXCEPT !.who = Nobody].who = Nobody
      BY <3>1 DEF Jobs
    <3>4. jobs'[i] = jobs[i]
      BY <2>3, <3>2, <3>3, Boundaries
    <3> QED BY <2>3, <3>1, <3>4 DEF Quiet
  <2> QED BY <2>3
<1>5. CASE LockGate(d) \/ RightsGate(d) \/ Handles(d) \/ Decides(d) \/ Mutes(d)
  <2>1. UNCHANGED jobs
    BY <1>5, Zenon DEF LockGate, RightsGate, Handles, Decides, Mutes
  <2> QED BY <1>2, <2>1
<1>6. CASE Keeps(d) \/ SendsTyped(d) \/ ClearsTyped(d)
  <2>1. UNCHANGED jobs
    BY <1>6, Zenon DEF Keeps, SendsTyped, ClearsTyped
  <2> QED BY <1>2, <2>1
<1> QED BY <1>3, <1>4, <1>5, <1>6 DEF Handler

LEMMA HandlerLeavesRights == ASSUME NEW c \in Clients, Handler(c) PROVE UNCHANGED mayTx
<1>1. ASSUME LockGate(c) \/ RightsGate(c) \/ Handles(c) \/ Decides(c) \/ Mutes(c)
      PROVE  UNCHANGED mayTx
  BY <1>1, Zenon DEF LockGate, RightsGate, Handles, Decides, Mutes
<1>2. ASSUME \/ Keeps(c) \/ SendsTyped(c) \/ ClearsTyped(c) \/ Queues(c) \/ GivesUpWaiting(c)
      PROVE  UNCHANGED mayTx
  BY <1>2, Zenon DEF Keeps, SendsTyped, ClearsTyped, Queues, GivesUpWaiting
<1> QED BY <1>1, <1>2 DEF Handler

\* The other steps queue nothing and let no request through.
LEMMA OthersQuiet ==
  ASSUME PanelInv, NEW c \in Clients, Quiet(c), ~mayTx[c],
         \/ \E d \in Clients, r \in desk.routes : Arrives(d, r)
         \/ Serve \/ Polls \/ KeyerEnds \/ (\E d \in Clients : Revokes(d)) \/ UNCHANGED panelVars
  PROVE  Quiet(c)' /\ ~mayTx'[c]
<1>0. jobs \in Seq(Jobs) /\ call \in [Clients -> Calls] /\ mayTx \in [Clients -> BOOLEAN]
  BY DEF PanelInv, JobsFit, CallsFit
<1>1. ~mayTx'[c]
  <2>1. CASE \E d \in Clients : Revokes(d)
    BY <1>0, <2>1 DEF Revokes
  <2>2. CASE ~\E d \in Clients : Revokes(d)
    BY <2>2 DEF Arrives, Serve, Polls, KeyerEnds, panelVars
  <2> QED BY <2>1, <2>2
<1>2. \/ UNCHANGED jobs
      \/ /\ Len(jobs') = Len(jobs) - 1
         /\ \A i \in 1 .. Len(jobs') : i + 1 \in 1 .. Len(jobs) /\ jobs'[i] = jobs[i + 1]
  <2>1. CASE Serve
    <3>1. jobs # <<>> /\ jobs' = Tail(jobs)
      BY <2>1 DEF Serve
    <3> QED BY <1>0, <3>1
  <2>2. CASE ~Serve
    BY <2>2 DEF Arrives, Polls, KeyerEnds, Revokes, panelVars
  <2> QED BY <2>1, <2>2
<1>3. \A i \in 1 .. Len(jobs') : jobs'[i].who = c => ~Starts(jobs'[i])
  BY <1>2 DEF Quiet
<1>4. Early(call'[c])
  <2>1. CASE \E d \in Clients, r \in desk.routes : Arrives(d, r)
    <3>1. PICK d \in Clients, r \in desk.routes : Arrives(d, r)
      BY <2>1
    <3> DEFINE k == [at |-> "lock", go |-> r.go, x |-> r.x, todo |-> <<>>]
    <3>2. call' = [call EXCEPT ![d] = k] /\ k.at = "lock"
      BY <3>1 DEF Arrives
    <3> HIDE DEF k
    <3>3. Early(k)
      BY <3>2 DEF Early
    <3> QED BY <1>0, <3>2, <3>3 DEF Quiet
  <2>2. CASE Serve
    <3>1. UNCHANGED call \/ \E d : call' = [call EXCEPT ![d] = NoCall]
      BY <2>2 DEF Serve
    <3> QED BY <1>0, <3>1, NoCallIsEarly DEF Quiet
  <2>3. CASE Polls \/ KeyerEnds \/ (\E d \in Clients : Revokes(d)) \/ UNCHANGED panelVars
    <3>1. UNCHANGED call
      BY <2>3 DEF Polls, KeyerEnds, Revokes, panelVars
    <3> QED BY <3>1 DEF Quiet
  <2> QED BY <2>1, <2>2, <2>3
<1> QED BY <1>1, <1>3, <1>4 DEF Quiet

\* IsTransmitRoute and the rights gate: for any clients, any routes and any
\* number of requests, a client whose transmit right is gone and whose requests
\* under way have run starts no carrier any more, by any of the routes.
THEOREM RightIsKept == PanelSpec => RightToTransmit
<1>1. ASSUME PanelInv, [PanelNext]_panelVars, NEW c \in Clients, Silenced(c) PROVE Silenced(c)'
  <2>1. ~mayTx[c] /\ c \notin Trusted /\ Quiet(c)
    BY <1>1, SilencedIsQuiet
  <2>2. ~mayTx'[c] /\ Quiet(c)'
    <3>1. CASE \E d \in Clients : Handler(d)
      <4>1. PICK d \in Clients : Handler(d)
        BY <3>1
      <4>2. PICK k : /\ call' = [call EXCEPT ![d] = k]
                     /\ ~mayTx[d] /\ d \notin Trusted /\ Early(call[d]) => Early(k)
        BY <1>1, <4>1, HandlerIsEarly
      <4>3. call'[c] = IF c = d THEN k ELSE call[c]
        BY <1>1, <4>2 DEF PanelInv, CallsFit
      <4>4. Early(call'[c])
        BY <2>1, <4>2, <4>3 DEF Quiet
      <4>5. \A i \in 1 .. Len(jobs') : jobs'[i].who = c => ~Starts(jobs'[i])
        BY <1>1, <2>1, <4>1, HandlerQueues
      <4>6. UNCHANGED mayTx
        BY <4>1, HandlerLeavesRights
      <4> QED BY <2>1, <4>4, <4>5, <4>6 DEF Quiet
    <3>2. CASE ~\E d \in Clients : Handler(d)
      BY <1>1, <2>1, <3>2, OthersQuiet DEF PanelNext
    <3> QED BY <3>1, <3>2
  <2>3. PanelInv'
    BY <1>1, PanelStep
  <2>4. (Silenced(c) <=> ~mayTx[c] /\ c \notin Trusted /\ Quiet(c))'
    BY <2>3, SilencedIsQuiet, PTL
  <2> QED BY <2>1, <2>2, <2>4
<1>2. PanelInv /\ [PanelNext]_panelVars
        => [\A c \in Clients : Silenced(c) => Silenced(c)']_panelVars
  BY <1>1
<1> QED BY <1>2, PanelInvariant, PTL DEF RightToTransmit, PanelSpec

----------------------------------------------------------------------------
(* The panel: every step counts. *)

\* The desks with nothing but step routes, on a line that is well.
Stepping(d) == ~d.lossy /\ \A r \in d.routes : r.go \in {"up", "down"}

Busy == {c \in Clients : call[c].at # "idle"}

\* A step job of at most M.
StepJob(j, M) == j.do = "step" /\ j.cmd[2] \in -M .. M

\* A request that has been sent, or one of a step of at most M.
Turning(k, M) ==
  /\ k.at \in {"idle", "lock", "rights", "handler", "queue"}
  /\ k.at # "idle" => k.go \in {"up", "down"} /\ k.x <= M
  /\ Len(k.todo) <= 1 /\ \A i \in 1 .. Len(k.todo) : StepJob(k.todo[i], M)

\* Where the dial is and where each queued step will bring it: S[i] after the
\* i-th.  Nowhere is it below m.
Course(S, m) ==
  /\ S \in [0 .. Len(jobs) -> Int]
  /\ S[0] = radio.FA /\ S[Len(jobs)] = Radio0.FA + stepped
  /\ \A i \in 1 .. Len(jobs) : S[i] = S[i - 1] + jobs[i].cmd[2]
  /\ \A i \in 0 .. Len(jobs) : S[i] >= m

\* At most so many presses are to come or on their way, each of at most M.
Left(n) == n \in Nat /\ n + presses >= MaxPresses + Cardinality(Busy)

Steady(M) ==
  /\ IsFiniteSet(Busy)
  /\ \A c \in Clients : Turning(call[c], M)
  /\ \A i \in 1 .. Len(jobs) : StepJob(jobs[i], M)
  /\ \E n \in Nat : Left(n) /\ \E S \in [0 .. Len(jobs) -> Int] : Course(S, M * n)

LEMMA Once ==
  ASSUME NEW M \in Nat, NEW n \in Nat
  PROVE  M * n \in Nat /\ M * (n + 1) = M * n + M
OBVIOUS

\* A step route queues its step and nothing else.
LEMMA TurnsQueue ==
  ASSUME PanelInv, NEW c \in Clients, NEW M \in Nat, Handles(c), Turning(call[c], M)
  PROVE  \E q : Queueing(c, q) /\ Len(q) = 1 /\ StepJob(q[1], M)
<1> DEFINE go == call[c].go
           x == call[c].x
           q == Turns(c, go, x)
<1>1. go \in {"up", "down"} /\ x \in Nat /\ x <= M
  BY DEF Handles, Turning, PanelInv, CallsFit, CallFits, Fits
<1>2. q \in {<<Job(c, "step", <<"FA", x>>)>>, <<Job(c, "step", <<"FA", 0 - x>>)>>}
  BY <1>1 DEF Turns
<1> HIDE DEF go, x
<1>3. ASSUME NEW s \in -M .. M PROVE LET j == Job(c, "step", <<"FA", s>>) IN
                 /\ j \in Jobs /\ StepJob(j, M)
  BY DEF Job, Jobs, Someone, StepJob
<1>4. x \in -M .. M /\ 0 - x \in -M .. M
  BY <1>1
<1>5. q \in Seq(Jobs) /\ Len(q) = 1 /\ StepJob(q[1], M)
  <2>1. PICK s \in -M .. M : q = <<Job(c, "step", <<"FA", s>>)>>
    BY <1>2, <1>4
  <2> DEFINE j == Job(c, "step", <<"FA", s>>)
  <2>2. j \in Jobs /\ StepJob(j, M) /\ q = <<j>>
    BY <1>3, <2>1
  <2> HIDE DEF j, q
  <2> QED BY <2>2
<1>6. /\ Selects(c, go, x) = <<>> /\ Switches(c, go) = <<>> /\ Cycles(c, go) = <<>>
      /\ Values(c, go, x) = <<>> /\ Nudges(c, go) = <<>> /\ Dials(c, go, x) = <<>>
      /\ Compounds(c, go) = <<>> /\ Ptt(c, go) = <<>> /\ InternalTune(c, go) = <<>>
      /\ Keyer(c, go, x) = <<>> /\ RemoteTx(c, go, x) = <<>> /\ AsksRadio(c, go) = <<>>
  <2>1. /\ Selects(c, go, x) = <<>> /\ Switches(c, go) = <<>> /\ Cycles(c, go) = <<>>
        /\ Values(c, go, x) = <<>> /\ Nudges(c, go) = <<>> /\ Dials(c, go, x) = <<>>
    BY <1>1 DEF Selects, Switches, Cycles, Values, Nudges, Dials
  <2>2. /\ Compounds(c, go) = <<>> /\ Ptt(c, go) = <<>> /\ InternalTune(c, go) = <<>>
        /\ Keyer(c, go, x) = <<>> /\ RemoteTx(c, go, x) = <<>> /\ AsksRadio(c, go) = <<>>
    BY <1>1 DEF Compounds, Ptt, InternalTune, Keyer, RemoteTx, AsksRadio
  <2> QED BY <2>1, <2>2
<1> HIDE DEF q
<1>7. /\ <<>> \o <<>> = <<>> /\ <<>> \o q = q /\ q \o <<>> = q
  <2>1. <<>> \in Seq(Jobs)
    OBVIOUS
  <2> QED BY <1>5, <2>1, ConcatEmptySeq
<1>8. Selects(c, go, x) \o Switches(c, go) \o Cycles(c, go) \o Values(c, go, x)
      \o Nudges(c, go) \o Dials(c, go, x) \o q \o Compounds(c, go) \o Ptt(c, go)
      \o InternalTune(c, go) \o Keyer(c, go, x) \o RemoteTx(c, go, x) \o AsksRadio(c, go) = q
  <2>1. Selects(c, go, x) \o Switches(c, go) \o Cycles(c, go) \o Values(c, go, x)
        \o Nudges(c, go) \o Dials(c, go, x) = <<>>
    BY <1>6, <1>7
  <2>2. q \o Compounds(c, go) \o Ptt(c, go) \o InternalTune(c, go) \o Keyer(c, go, x)
        \o RemoteTx(c, go, x) \o AsksRadio(c, go) = q
    BY <1>6, <1>7
  <2> QED BY <1>7, <2>1, <2>2
<1>9. Queueing(c, q)
  BY <1>8, Zenon DEF Handles, go, x, q
<1> QED BY <1>5, <1>9

\* A request goes on or is refused, and nothing is queued.
LEMMA TurningMoves ==
  ASSUME PanelInv, NEW M \in Nat, Steady(M), NEW c \in Busy, NEW k, Turning(k, M),
         call' = [call EXCEPT ![c] = k], UNCHANGED <<jobs, radio, stepped, presses>>
  PROVE  Steady(M)'
<1>1. /\ call \in [Clients -> Calls] /\ c \in Clients
      /\ \A d \in Clients : call'[d] = IF d = c THEN k ELSE call[d]
  BY DEF PanelInv, CallsFit, Busy
<1>2. Busy' \subseteq Busy
  BY <1>1 DEF Busy
<1>3. IsFiniteSet(Busy) /\ Cardinality(Busy) \in Nat
  BY FS_CardinalityType DEF Steady
<1>4. IsFiniteSet(Busy') /\ Cardinality(Busy') <= Cardinality(Busy) /\ Cardinality(Busy') \in Nat
  BY <1>2, <1>3, FS_Subset, FS_CardinalityType
<1>5. PICK n \in Nat, S \in [0 .. Len(jobs) -> Int] : Left(n) /\ Course(S, M * n)
  BY DEF Steady
<1>6. Left(n)'
  BY <1>3, <1>4, <1>5, Boundaries DEF Left, PanelInv
<1>7. Course(S, M * n)'
  BY <1>5 DEF Course
<1>8. \A d \in Clients : Turning(call'[d], M)
  BY <1>1 DEF Steady
<1>9. \A i \in 1 .. Len(jobs') : StepJob(jobs'[i], M)
  BY DEF Steady
<1> QED BY <1>4, <1>5, <1>6, <1>7, <1>8, <1>9 DEF Steady

LEMMA IdleTurns == ASSUME NEW M PROVE Turning(NoCall, M)
<1>1. NoCall.at = "idle" /\ NoCall.todo = <<>> /\ Len(NoCall.todo) = 0
  BY DEF NoCall
<1> QED BY <1>1 DEF Turning

\* Another press.
LEMMA ArrivesSteady ==
  ASSUME PanelInv, NEW M \in Nat, Steady(M), NEW c \in Clients, NEW r \in desk.routes,
         r.go \in {"up", "down"}, r.x <= M, Arrives(c, r)
  PROVE  Steady(M)'
<1> DEFINE k == [at |-> "lock", go |-> r.go, x |-> r.x, todo |-> <<>>]
<1>1. /\ call' = [call EXCEPT ![c] = k] /\ call[c].at = "idle" /\ presses' = presses + 1
      /\ UNCHANGED <<jobs, radio, stepped>>
  BY DEF Arrives
<1>2. Turning(k, M)
  <2>1. k.at = "lock" /\ k.go = r.go /\ k.x = r.x /\ k.todo = <<>> /\ Len(k.todo) = 0
    OBVIOUS
  <2> HIDE DEF k
  <2> QED BY <2>1 DEF Turning
<1>3. k.at = "lock"
  OBVIOUS
<1> HIDE DEF k
<1>4. \A d \in Clients : call'[d] = IF d = c THEN k ELSE call[d]
  BY <1>1 DEF PanelInv, CallsFit
<1>5. Busy' = Busy \cup {c} /\ c \notin Busy
  BY <1>1, <1>3, <1>4 DEF Busy
<1>6. /\ IsFiniteSet(Busy) /\ Cardinality(Busy) \in Nat
      /\ IsFiniteSet(Busy') /\ Cardinality(Busy') = Cardinality(Busy) + 1
  BY <1>5, FS_AddElement, FS_CardinalityType DEF Steady
<1>7. PICK n \in Nat, S \in [0 .. Len(jobs) -> Int] : Left(n) /\ Course(S, M * n)
  BY DEF Steady
<1>8. Left(n)'
  BY <1>1, <1>6, <1>7, Boundaries DEF Left, PanelInv
<1>9. Course(S, M * n)'
  BY <1>1, <1>7 DEF Course
<1>10. \A d \in Clients : Turning(call'[d], M)
  BY <1>2, <1>4 DEF Steady
<1>11. \A i \in 1 .. Len(jobs') : StepJob(jobs'[i], M)
  BY <1>1 DEF Steady
<1> QED BY <1>1, <1>6, <1>7, <1>8, <1>9, <1>10, <1>11 DEF Steady

\* The step of a request joins the queue.
LEMMA QueuesSteady ==
  ASSUME PanelInv, NEW M \in Nat, Steady(M), NEW c \in Clients, Queues(c)
  PROVE  Steady(M)'
<1> DEFINE job == Head(call[c].todo)
<1>0. PICK L \in Nat : L = Len(jobs)
  BY DEF PanelInv, JobsFit
<1>1. /\ call[c] \in Calls /\ call[c].at = "queue" /\ call[c].todo \in Seq(Jobs)
      /\ call[c].todo # <<>> /\ Turning(call[c], M)
      /\ jobs \in Seq(Jobs)
      /\ stepped \in Int /\ presses \in 0 .. MaxPresses /\ MaxPresses \in Nat
  BY Boundaries DEF Queues, PanelInv, CallsFit, CallFits, Calls, JobsFit, Steady
<1>2. job \in Jobs /\ StepJob(job, M) /\ Tail(call[c].todo) = <<>>
  <2>1. Len(call[c].todo) = 1
    <3>1. Len(call[c].todo) \in Nat \ {0}
      BY <1>1, EmptySeq
    <3>2. Len(call[c].todo) <= 1
      BY <1>1 DEF Turning
    <3>3. PICK k \in Nat \ {0} : k = Len(call[c].todo)
      BY <3>1
    <3>4. k <= 1
      BY <3>2, <3>3
    <3>5. k = 1
      BY <3>4
    <3> QED BY <3>3, <3>5
  <2>2. job = call[c].todo[1] /\ job \in Jobs /\ Tail(call[c].todo) \in Seq(Jobs)
        /\ Len(Tail(call[c].todo)) = 0
    BY <1>1, <2>1
  <2>3. Tail(call[c].todo) = <<>>
    BY <2>2, EmptySeq
  <2> QED BY <1>1, <2>1, <2>2, <2>3 DEF Turning
<1>3. PICK s \in -M .. M : s = job.cmd[2]
  BY <1>2 DEF StepJob
<1>4. /\ jobs' = Append(jobs, job) /\ stepped' = stepped + s
      /\ call' = [call EXCEPT ![c] = NoCall] /\ UNCHANGED <<radio, presses>>
  <2>1. job.do = "step" /\ ~Asking(job) /\ call[c].go # "send"
    BY <1>1, <1>2 DEF StepJob, Asking, Turning
  <2>2. call' = [call EXCEPT ![c] = NoCall]
    BY <1>2, <2>1 DEF Queues
  <2>3. stepped' = stepped + s
    BY <1>3, <2>1 DEF Queues
  <2> QED BY <2>2, <2>3 DEF Queues
<1> HIDE DEF job
<1>5. /\ \A d \in Clients : call'[d] = IF d = c THEN NoCall ELSE call[d]
      /\ NoCall.at = "idle"
  BY <1>4 DEF PanelInv, CallsFit, NoCall
<1>6. Busy' = Busy \ {c} /\ c \in Busy
  BY <1>1, <1>5 DEF Busy
<1>7. /\ IsFiniteSet(Busy) /\ Cardinality(Busy) \in Nat /\ Cardinality(Busy') \in Nat
      /\ IsFiniteSet(Busy') /\ Cardinality(Busy') = Cardinality(Busy) - 1
  BY <1>6, FS_RemoveElement, FS_CardinalityType DEF Steady
<1>8. PICK n \in Nat, S \in [0 .. L -> Int] : Left(n) /\ Course(S, M * n)
  BY <1>0 DEF Steady
<1>9. n - 1 \in Nat /\ Left(n - 1)'
  <2>1. PICK b \in Nat : b = Cardinality(Busy) /\ Cardinality(Busy') = b - 1 /\ b - 1 \in Nat
    BY <1>7
  <2>2. n + presses >= MaxPresses + b
    BY <1>8, <2>1 DEF Left
  <2>3. n - 1 \in Nat /\ (n - 1) + presses >= MaxPresses + (b - 1)
    BY <1>1, <2>1, <2>2
  <2>4. presses' = presses
    BY <1>4
  <2> QED BY <2>1, <2>3, <2>4 DEF Left
<1>10. PICK m \in Nat, low \in Nat : m = M * n /\ low = M * (n - 1) /\ m = low + M
  <2>1. M * (n - 1) \in Nat /\ M * ((n - 1) + 1) = M * (n - 1) + M
    BY <1>9, Once
  <2>2. (n - 1) + 1 = n
    BY <1>8
  <2> QED BY <2>1, <2>2
<1>11. /\ jobs' \in Seq(Jobs) /\ Len(jobs') = L + 1 /\ jobs'[L + 1] = job
       /\ \A i \in 1 .. L : jobs'[i] = jobs[i]
       /\ \A i \in 1 .. L + 1 : i \in 1 .. L \/ i = L + 1
  BY <1>0, <1>1, <1>2, <1>4
<1>12. /\ S[0] = radio.FA /\ S[L] = Radio0.FA + stepped
       /\ \A i \in 1 .. L : S[i] = S[i - 1] + jobs[i].cmd[2]
       /\ \A i \in 0 .. L : S[i] >= m /\ S[i] \in Int
  BY <1>0, <1>8, <1>10 DEF Course
<1>t. PICK T : T = [i \in 0 .. L + 1 |-> IF i = L + 1 THEN S[L] + s ELSE S[i]]
  OBVIOUS
<1>13. T \in [0 .. Len(jobs') -> Int] /\ Course(T, low)'
  <2>1. /\ T \in [0 .. L + 1 -> Int] /\ T[L + 1] = S[L] + s /\ \A i \in 0 .. L : T[i] = S[i]
    <3>1. L \in 0 .. L /\ L + 1 \in 0 .. L + 1 /\ S[L] + s \in Int
      BY <1>12
    <3>2. \A i \in 0 .. L : i \in 0 .. L + 1 /\ i # L + 1
      OBVIOUS
    <3>3. \A i \in 0 .. L + 1 : (IF i = L + 1 THEN S[L] + s ELSE S[i]) \in Int
      <4>1. \A i \in 0 .. L + 1 : i = L + 1 \/ i \in 0 .. L
        OBVIOUS
      <4> QED BY <1>12, <3>1, <4>1
    <3> QED BY <1>t, <3>1, <3>2, <3>3
  <2>2. T[0] = radio'.FA
    BY <1>1, <1>4, <1>12, <2>1
  <2>3. T[L + 1] = Radio0.FA + stepped'
    <3>1. Radio0.FA \in Int
      BY DEF Radio0
    <3>2. S[L] = Radio0.FA + stepped /\ stepped' = stepped + s /\ T[L + 1] = S[L] + s
      BY <1>4, <1>12, <2>1
    <3> QED BY <1>1, <3>1, <3>2
  <2>4. ASSUME NEW i \in 1 .. L + 1 PROVE T[i] = T[i - 1] + jobs'[i].cmd[2]
    <3>1. CASE i \in 1 .. L
      <4>1. i \in 0 .. L /\ i - 1 \in 0 .. L /\ jobs'[i] = jobs[i]
        BY <1>1, <1>11, <3>1
      <4> QED BY <1>12, <2>1, <3>1, <4>1
    <3>2. CASE i = L + 1
      <4>1. L \in 0 .. L /\ i - 1 = L
        BY <3>2
      <4> QED BY <1>3, <1>11, <2>1, <3>2, <4>1
    <3> QED BY <1>11, <3>1, <3>2
  <2>5. ASSUME NEW i \in 0 .. L + 1 PROVE T[i] >= low
    <3>1. L \in 0 .. L /\ (i \in 0 .. L \/ i = L + 1)
      OBVIOUS
    <3>2. S[L] >= m /\ S[L] \in Int
      BY <1>12, <3>1
    <3>3. S[L] + s >= low
      <4>1. PICK e \in Int : e = S[L]
        BY <3>2
      <4>2. e >= m
        BY <3>2, <4>1
      <4>3. e + s >= low
        BY <1>3, <1>10, <4>2
      <4> QED BY <4>1, <4>3
    <3>4. \A k \in 0 .. L : S[k] >= low
      BY <1>10, <1>12
    <3> QED BY <2>1, <3>1, <3>3, <3>4
  <2>6. Len(jobs') = L + 1
    BY <1>11
  <2> QED BY <2>1, <2>2, <2>3, <2>4, <2>5, <2>6 DEF Course
<1>14. \A d \in Clients : Turning(call'[d], M)
  BY <1>5, IdleTurns DEF Steady
<1>15. \A i \in 1 .. Len(jobs') : StepJob(jobs'[i], M)
  BY <1>0, <1>2, <1>11 DEF Steady
<1>16. \E k \in Nat : Left(k)' /\ \E R \in [0 .. Len(jobs') -> Int] : Course(R, M * k)'
  BY <1>9, <1>10, <1>13
<1> QED BY <1>7, <1>16, <1>14, <1>15 DEF Steady

\* DrainQueue turns the dial from where it is, and never below its end.
LEMMA ServeSteady ==
  ASSUME PanelInv, NEW M \in Nat, Steady(M), ~desk.lossy, Serve
  PROVE  Steady(M)'
<1> DEFINE job == Head(jobs)
<1>0. PICK L \in Nat : L = Len(jobs)
  BY DEF PanelInv, JobsFit
<1>1. /\ jobs \in Seq(Jobs) /\ jobs # <<>> /\ jobs' = Tail(jobs) /\ radio \in Radios
      /\ UNCHANGED <<stepped, presses>>
  BY DEF Serve, PanelInv, JobsFit
<1>2. /\ job = jobs[1] /\ 1 \in 1 .. L /\ L \in Nat /\ Len(jobs') = L - 1 /\ L - 1 \in Nat
      /\ \A i \in 1 .. L - 1 : i + 1 \in 1 .. L /\ jobs'[i] = jobs[i + 1]
      /\ jobs' \in Seq(Jobs)
  BY <1>0, <1>1
<1>3. StepJob(job, M)
  BY <1>0, <1>2 DEF Steady
<1>4. PICK s \in -M .. M : s = job.cmd[2]
  BY <1>3 DEF StepJob
<1>5. PICK n \in Nat, S \in [0 .. L -> Int] : Left(n) /\ Course(S, M * n)
  BY <1>0 DEF Steady
<1>6. PICK m \in Nat : m = M * n
  BY Once
<1>7. /\ S[0] = radio.FA /\ S[L] = Radio0.FA + stepped
      /\ \A i \in 1 .. L : S[i] = S[i - 1] + jobs[i].cmd[2]
      /\ \A i \in 0 .. L : S[i] >= m /\ S[i] \in Int
  BY <1>0, <1>5, <1>6 DEF Course
<1>8. radio.FA \in Nat /\ S[1] = radio.FA + s /\ S[1] >= 0
  <2>1. S[1] = S[1 - 1] + job.cmd[2] /\ 1 \in 0 .. L
    <3>1. 1 \in 1 .. L /\ job = jobs[1]
      BY <1>2
    <3>2. \A i \in 1 .. L : S[i] = S[i - 1] + jobs[i].cmd[2]
      BY <1>7
    <3>3. S[1] = S[1 - 1] + jobs[1].cmd[2]
      BY <3>1, <3>2
    <3> HIDE DEF job
    <3> QED BY <3>1, <3>3
  <2>2. S[1 - 1] = radio.FA
    <3>1. 1 - 1 = 0
      OBVIOUS
    <3> QED BY <1>7, <3>1
  <2>3. radio.FA \in Nat /\ S[1] = radio.FA + s
    BY <1>1, <1>4, <2>1, <2>2, RadioFields
  <2>4. S[1] >= m
    BY <1>7, <2>1
  <2>5. S[1] >= 0
    BY <1>6, <2>3, <2>4
  <2> QED BY <2>3, <2>5
<1>9. radio'.FA = S[1] /\ UNCHANGED call
  <2>1. job.do = "step" /\ ~Asking(job)
    BY <1>3 DEF StepJob, Asking
  <2>2. radio' \in Steps(radio, s) /\ UNCHANGED call
    BY <1>4, <2>1 DEF Serve, RadiosAfter
  <2>3. radio' = [radio EXCEPT !.FA = IF radio.FA + s < 0 THEN 0 ELSE radio.FA + s]
    BY <2>2 DEF Steps, Dropped
  <2>4. radio'.FA = IF radio.FA + s < 0 THEN 0 ELSE radio.FA + s
    BY <1>1, <2>3 DEF Radios
  <2> QED BY <1>4, <1>8, <2>2, <2>4
<1> HIDE DEF job
<1>t. PICK T : T = [i \in 0 .. L - 1 |-> S[i + 1]]
  OBVIOUS
<1>10. T \in [0 .. Len(jobs') -> Int] /\ Course(T, m)'
  <2>1. \A i \in 0 .. L - 1 : i + 1 \in 1 .. L /\ i + 1 \in 0 .. L
    BY <1>2
  <2>2. T \in [0 .. L - 1 -> Int] /\ \A i \in 0 .. L - 1 : T[i] = S[i + 1]
    BY <1>t, <1>5, <2>1
  <2>3. T[0] = radio'.FA
    BY <1>2, <1>9, <2>2
  <2>4. T[L - 1] = Radio0.FA + stepped'
    BY <1>1, <1>2, <1>7, <2>2
  <2>5. ASSUME NEW i \in 1 .. L - 1 PROVE T[i] = T[i - 1] + jobs'[i].cmd[2]
    <3>1. /\ i \in 0 .. L - 1 /\ i - 1 \in 0 .. L - 1 /\ (i - 1) + 1 = i /\ i + 1 \in 1 .. L
          /\ (i + 1) - 1 = i
      BY <1>2
    <3>2. T[i] = S[i + 1] /\ T[i - 1] = S[i] /\ jobs'[i] = jobs[i + 1]
      BY <1>2, <2>2, <3>1
    <3>3. S[i + 1] = S[(i + 1) - 1] + jobs[i + 1].cmd[2]
      BY <1>7, <3>1
    <3> QED BY <3>1, <3>2, <3>3
  <2>6. \A i \in 0 .. L - 1 : T[i] >= m
    BY <1>7, <2>1, <2>2
  <2>7. Len(jobs') = L - 1
    BY <1>2
  <2> QED BY <2>2, <2>3, <2>4, <2>5, <2>6, <2>7 DEF Course
<1>11. Busy' = Busy
  BY <1>9 DEF Busy
<1>12. Left(n)'
  BY <1>1, <1>5, <1>11 DEF Left
<1>13. \A i \in 1 .. Len(jobs') : StepJob(jobs'[i], M)
  BY <1>0, <1>2 DEF Steady
<1>14. IsFiniteSet(Busy') /\ \A d \in Clients : Turning(call'[d], M)
  BY <1>9, <1>11 DEF Steady
<1>15. \E k \in Nat : Left(k)' /\ \E R \in [0 .. Len(jobs') -> Int] : Course(R, M * k)'
  BY <1>5, <1>6, <1>10, <1>12
<1> QED BY <1>13, <1>14, <1>15 DEF Steady

\* A handler's own steps.
LEMMA HandlerSteady ==
  ASSUME PanelInv, NEW M \in Nat, Steady(M), NEW c \in Clients, Handler(c)
  PROVE  Steady(M)'
<1>1. call[c] \in Calls /\ Turning(call[c], M)
  BY DEF PanelInv, CallsFit, CallFits, Steady
<1>2. call[c].at # "idle"
  <2>1. ASSUME LockGate(c) \/ RightsGate(c) \/ Handles(c) \/ Decides(c) \/ Mutes(c)
        PROVE  call[c].at # "idle"
    BY <2>1 DEF LockGate, RightsGate, Handles, Decides, Mutes
  <2>2. ASSUME \/ Keeps(c) \/ SendsTyped(c) \/ ClearsTyped(c) \/ Queues(c) \/ GivesUpWaiting(c)
        PROVE  call[c].at # "idle"
    BY <2>2 DEF Keeps, SendsTyped, ClearsTyped, Queues, GivesUpWaiting
  <2> QED BY <2>1, <2>2 DEF Handler
<1>3. /\ c \in Busy /\ call[c].go \in {"up", "down"}
      /\ call[c].at \in {"lock", "rights", "handler", "queue"}
  BY <1>1, <1>2 DEF Busy, Turning
<1>4. ASSUME NEW at \in {"rights", "handler"} PROVE Turning([call[c] EXCEPT !.at = at], M)
  <2> DEFINE k == [call[c] EXCEPT !.at = at]
  <2>1. k.at = at /\ k.go = call[c].go /\ k.x = call[c].x /\ k.todo = call[c].todo
    BY <1>1 DEF Calls
  <2> HIDE DEF k
  <2>2. Turning(k, M)
    BY <1>1, <1>2, <2>1 DEF Turning
  <2> QED BY <2>2 DEF k
<1>5. CASE LockGate(c) \/ RightsGate(c)
  <2>1. PICK k : call' = [call EXCEPT ![c] = k] /\ Turning(k, M)
    <3>1. CASE call' = [call EXCEPT ![c] = NoCall]
      BY <3>1, IdleTurns
    <3>2. CASE \E at \in {"rights", "handler"} : Goes(c, at)
      <4>1. PICK at \in {"rights", "handler"} : Goes(c, at)
        BY <3>2
      <4>2. call' = [call EXCEPT ![c] = [call[c] EXCEPT !.at = at]]
        BY <4>1 DEF Goes
      <4> QED BY <1>4, <4>2
    <3> QED BY <1>5, <3>1, <3>2 DEF LockGate, RightsGate
  <2>2. UNCHANGED <<jobs, radio, stepped, presses>>
    BY <1>5 DEF LockGate, RightsGate
  <2> QED BY <1>3, <2>1, <2>2, TurningMoves
<1>6. CASE Handles(c)
  <2>1. PICK q : Queueing(c, q) /\ Len(q) = 1 /\ StepJob(q[1], M)
    BY <1>1, <1>6, TurnsQueue
  <2> DEFINE k == [call[c] EXCEPT !.at = "queue", !.todo = q]
  <2>2. k.at = "queue" /\ k.go = call[c].go /\ k.x = call[c].x /\ k.todo = q
    BY <1>1 DEF Calls
  <2>3. call' = [call EXCEPT ![c] = k]
    BY <2>1 DEF Queueing
  <2> HIDE DEF k
  <2>4. Turning(k, M)
    <3>1. \A i \in 1 .. Len(q) : i = 1
      BY <2>1
    <3>2. Len(k.todo) <= 1 /\ \A i \in 1 .. Len(k.todo) : StepJob(k.todo[i], M)
      <4>1. Len(q) <= 1
        BY <2>1
      <4>2. ASSUME NEW i \in 1 .. Len(q) PROVE StepJob(q[i], M)
        <5>1. i = 1
          BY <3>1
        <5> QED BY <2>1, <5>1
      <4> QED BY <2>2, <4>1, <4>2
    <3>3. k.go \in {"up", "down"} /\ k.x <= M
      BY <1>1, <1>2, <2>2 DEF Turning
    <3> QED BY <2>2, <3>2, <3>3 DEF Turning
  <2>5. UNCHANGED <<jobs, radio, stepped, presses>>
    BY <1>6 DEF Handles
  <2> QED BY <1>3, <2>3, <2>4, <2>5, TurningMoves
<1>7. ~(Decides(c) \/ Mutes(c) \/ Keeps(c) \/ SendsTyped(c))
  BY <1>3 DEF Decides, Mutes, Keeps, SendsTyped
<1>8. ~(ClearsTyped(c) \/ GivesUpWaiting(c))
  BY <1>3 DEF ClearsTyped, GivesUpWaiting
<1> QED BY <1>5, <1>6, <1>7, <1>8, QueuesSteady DEF Handler

\* Steps that leave the requests, the queue and the dial alone.
LEMMA OthersSteady ==
  ASSUME PanelInv, NEW M \in Nat, Steady(M),
         UNCHANGED <<call, jobs, presses, stepped>>, radio'.FA = radio.FA
  PROVE  Steady(M)'
<1>1. Busy' = Busy
  BY DEF Busy
<1>2. PICK n \in Nat, S \in [0 .. Len(jobs) -> Int] : Left(n) /\ Course(S, M * n)
  BY DEF Steady
<1>3. Left(n)'
  BY <1>1, <1>2 DEF Left
<1>4. Course(S, M * n)'
  BY <1>2 DEF Course
<1>5. /\ IsFiniteSet(Busy') /\ \A d \in Clients : Turning(call'[d], M)
      /\ \A i \in 1 .. Len(jobs') : StepJob(jobs'[i], M)
  BY <1>1 DEF Steady
<1> QED BY <1>2, <1>3, <1>4, <1>5 DEF Steady

LEMMA DeskStays == ASSUME [PanelNext]_panelVars PROVE desk' = desk
<1>1. ASSUME NEW c \in Clients, Handler(c) PROVE desk' = desk
  <2>1. ASSUME LockGate(c) \/ RightsGate(c) \/ Handles(c) \/ Decides(c) \/ Mutes(c)
        PROVE  desk' = desk
    BY <2>1, Zenon DEF LockGate, RightsGate, Handles, Decides, Mutes
  <2>2. ASSUME \/ Keeps(c) \/ SendsTyped(c) \/ ClearsTyped(c) \/ Queues(c) \/ GivesUpWaiting(c)
        PROVE  desk' = desk
    BY <2>2, Zenon DEF Keeps, SendsTyped, ClearsTyped, Queues, GivesUpWaiting
  <2> QED BY <1>1, <2>1, <2>2 DEF Handler
<1>2. ASSUME NEW c \in Clients, Revokes(c) \/ \E r \in desk.routes : Arrives(c, r)
      PROVE  desk' = desk
  BY <1>2 DEF Revokes, Arrives
<1>3. ASSUME Serve \/ Polls \/ KeyerEnds \/ UNCHANGED panelVars PROVE desk' = desk
  BY <1>3, Zenon DEF Serve, Polls, KeyerEnds, panelVars
<1> QED BY <1>1, <1>2, <1>3 DEF PanelNext

\* Steps of at most M, and no more of them than the dial has room for.
Reach(M) == \A d \in Desks : Stepping(d) => \A r \in d.routes : r.x <= M

LEMMA InitSteady ==
  ASSUME NEW M \in Nat, M * MaxPresses <= Radio0.FA, PanelInit
  PROVE  Steady(M)
<1>1. \A c \in Clients : call[c] = NoCall /\ call[c].at = "idle"
  BY DEF PanelInit, NoCall
<1>2. Busy = {} /\ IsFiniteSet(Busy) /\ Cardinality(Busy) = 0
  BY <1>1, FS_EmptySet DEF Busy
<1>3. /\ jobs = <<>> /\ Len(jobs) = 0 /\ presses = 0 /\ stepped = 0 /\ radio.FA = Radio0.FA
      /\ Radio0.FA \in Int /\ MaxPresses \in Nat
  BY Boundaries DEF PanelInit, Radio0
<1>4. Left(MaxPresses)
  BY <1>2, <1>3 DEF Left
<1>5. PICK S : S = [i \in 0 .. 0 |-> Radio0.FA]
  OBVIOUS
<1>6. S \in [0 .. Len(jobs) -> Int] /\ Course(S, M * MaxPresses)
  <2>1. 0 .. 0 = {0}
    OBVIOUS
  <2>2. S \in [0 .. 0 -> Int] /\ S[0] = Radio0.FA /\ \A i \in 0 .. 0 : S[i] = Radio0.FA
    BY <1>3, <1>5, <2>1
  <2>3. \A i \in 0 .. 0 : S[i] >= M * MaxPresses
    BY <1>3, <2>2
  <2>4. 1 .. 0 = {} /\ Radio0.FA + stepped = Radio0.FA
    BY <1>3
  <2> QED BY <1>3, <2>2, <2>3, <2>4 DEF Course
<1>7. \A c \in Clients : Turning(call[c], M)
  BY <1>1, IdleTurns
<1>8. \A i \in 1 .. Len(jobs) : StepJob(jobs[i], M)
  BY <1>3
<1> QED BY <1>2, <1>3, <1>4, <1>6, <1>7, <1>8 DEF Steady

LEMMA SteadyStep ==
  ASSUME PanelInv, NEW M \in Nat, Reach(M), Stepping(desk), Steady(M), [PanelNext]_panelVars
  PROVE  Steady(M)'
<1>1. ASSUME NEW c \in Clients, NEW r \in desk.routes, Arrives(c, r) PROVE Steady(M)'
  <2>1. r.go \in {"up", "down"} /\ r.x <= M
    BY DEF Stepping, Reach, PanelInv
  <2> QED BY <1>1, <2>1, ArrivesSteady
<1>2. ASSUME NEW c \in Clients, Handler(c) PROVE Steady(M)'
  BY <1>2, HandlerSteady
<1>3. ASSUME Serve PROVE Steady(M)'
  BY <1>3, ServeSteady DEF Stepping
<1>4. ASSUME Polls \/ KeyerEnds \/ (\E c \in Clients : Revokes(c)) \/ UNCHANGED panelVars
      PROVE  Steady(M)'
  <2>1. UNCHANGED <<call, jobs, presses, stepped>>
    BY <1>4 DEF Polls, KeyerEnds, Revokes, panelVars
  <2>2. radio'.FA = radio.FA
    <3>1. UNCHANGED radio \/ radio' = [radio EXCEPT !.KY = 0]
      BY <1>4 DEF Polls, KeyerEnds, Revokes, panelVars
    <3> QED BY <3>1 DEF PanelInv, Radios
  <2> QED BY <2>1, <2>2, OthersSteady
<1> QED BY <1>1, <1>2, <1>3, <1>4 DEF PanelNext

\* EnqueueTask's step closures, remote-tx's and the status routes' answers, the
\* mute group.  For any clients, and any steps that together stay above the
\* bottom of the dial: once the queue is empty the dial is where all the steps
\* that were answered with "ok" bring it, no answer read from the radio is
\* wrong, and an unmute can be heard.
THEOREM PanelKeepsItsWord ==
  ASSUME NEW M \in Nat, M * MaxPresses <= Radio0.FA, Reach(M)
  PROVE  PanelSpec => []PanelKeepsWord
<1> DEFINE Inv == Stepping(desk) => Steady(M)
<1>1. PanelInit => Inv
  BY InitSteady
<1>2. PanelInv /\ Inv /\ [PanelNext]_panelVars => Inv'
  BY SteadyStep, DeskStays
<1>3. PanelInv /\ Inv => PanelKeepsWord
  <2> SUFFICES ASSUME PanelInv, Inv PROVE PanelKeepsWord
    OBVIOUS
  <2>1. StepsAddUp
    <3> SUFFICES ASSUME ~desk.lossy, \A r \in desk.routes : r.go \in {"up", "down"}, jobs = <<>>
                 PROVE  radio.FA = Radio0.FA + stepped
      BY DEF StepsAddUp
    <3>1. Steady(M) /\ Len(jobs) = 0
      BY DEF Stepping
    <3>2. PICK n \in Nat, S \in [0 .. Len(jobs) -> Int] : Course(S, M * n)
      BY <3>1 DEF Steady
    <3> QED BY <3>1, <3>2 DEF Course
  <2> QED BY <2>1 DEF PanelInv, HostKeeps, ToldTrue, PanelKeepsWord
<1> HIDE DEF Inv
<1> QED BY <1>1, <1>2, <1>3, PanelInvariant, PTL DEF PanelSpec

\* The handlers, the poll thread and the radio keep their types; whoever holds
\* HostState's lock has something to queue.
THEOREM PanelTypes == PanelSpec => []PanelTypeOK
<1>1. PanelInv => PanelTypeOK
  <2> SUFFICES ASSUME PanelInv PROVE PanelTypeOK
    OBVIOUS
  <2>1. \A c \in Clients : call[c].at \in Places /\ (call[c].at = "queue") = (call[c].todo # <<>>)
    BY DEF PanelInv, CallsFit, CallFits, Calls
  <2>2. radio.AG \in 0 .. Loud /\ radio.FA \in Nat /\ radio.MD \in {LSB, USB, CW}
    BY DEF PanelInv, Radios, Modes
  <2>3. host.pre \in 0 .. Loud /\ host.locked \in BOOLEAN /\ host.typed \in Seq(0 .. 9)
    BY DEF PanelInv, HostKeeps
  <2>4. mutex \in Clients \cup {Nobody} /\ (mutex # Nobody => call[mutex].at = "queue")
    BY DEF PanelInv, MutexHeld, Someone
  <2> QED BY <2>1, <2>2, <2>3, <2>4 DEF PanelInv, JobsFit, PanelTypeOK, Places
<1> QED BY <1>1, PanelInvariant, PTL
----------------------------------------------------------------------------
(* Both doors. *)

\* Whichever door a behaviour is about, the proxy takes its own steps or none,
\* and so do the routes.
LEMMA DoorsStep ==
  ASSUME [DoorsNext]_doorsVars PROVE [ProxyNext]_proxyVars /\ [PanelNext]_panelVars
<1>1. CASE Proxy(ProxyNext)
  BY <1>1 DEF Proxy
<1>2. CASE Panel(PanelNext)
  BY <1>2 DEF Panel
<1>3. CASE UNCHANGED doorsVars
  BY <1>3 DEF doorsVars
<1> QED BY <1>1, <1>2, <1>3 DEF DoorsNext

LEMMA DoorsAreTheirs == DoorsSpec => ProxySpec /\ PanelSpec
<1>1. DoorsInit => ProxyInit /\ PanelInit
  BY DEF DoorsInit
<1> QED BY <1>1, DoorsStep, PTL DEF DoorsSpec, ProxySpec, PanelSpec

\* The proxy and the routes side by side keep the types of each.
THEOREM DoorsTypes == DoorsSpec => []DoorsTypeOK
BY DoorsAreTheirs, ProxyTypes, PanelTypes, PTL DEF DoorsTypeOK
=============================================================================
