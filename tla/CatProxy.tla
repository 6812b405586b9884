------------------------------ MODULE CatProxy ------------------------------
(***************************************************************************)
(* The TCP CAT proxy (src/src/cat_proxy.cpp) in front of the poller's      *)
(* queue and the serial line: every logger has a thread that cuts its      *)
(* stream into commands, queues each one and waits a bounded time for the  *)
(* answer.  Stop closes the listener and joins every thread.               *)
(*                                                                         *)
(* A command arrives in two pieces, the second with the ';'.  The commands *)
(* of a logger are numbered in the order it sends them.                    *)
(***************************************************************************)
EXTENDS SerialExchange

CONSTANTS
  Loggers,      \* connections, one per program that connects
  PollQueries,  \* what the poll thread asks between tasks
  Wanted,       \* bound: the commands loggers send
  MaxSent       \* bound: how many a logger sends

ASSUME LoggersAssumption == /\ Absent \notin Loggers
                            /\ PollQueries \subseteq Queries
                            /\ Wanted \subseteq Commands
ASSUME SentAssumption == MaxSent \in Nat

VARIABLES
  wire,      \* pieces on their way to the proxy
  sent,      \* ghost: commands each logger has sent
  hung,      \* the logger has closed its end
  conn,      \* where each client thread is
  pending,   \* its unfinished text
  promise,   \* the number it waits for, and what came
  answered,  \* ghost: the last reply sent to each logger
  tasks,     \* tasks_: the poller's queue
  task,      \* the task whose exchange is in progress, or NoTask
  ran,       \* ghost: numbers of the commands of each logger that were run
  listener,  \* "open", "closed"
  accepting, \* the accept thread
  stop       \* "no", "asked", "joined": Stop has returned

clientVars == <<wire, sent, hung, conn, pending, promise, answered>>
queueVars == <<tasks, task, ran>>
stopVars == <<listener, accepting, stop>>
proxyVars == <<lineVars, clientVars, queueVars, stopVars>>

Numbers == 1 .. MaxSent
Piece == [cmd : Commands, n : Numbers, last : BOOLEAN]
NoTask == [from |-> Absent, text |-> <<>>, n |-> 0]

ProxyTypeOK ==
  /\ LineTypeOK
  /\ wire \in [Loggers -> Seq(Piece)] /\ pending \in [Loggers -> Seq(Piece)]
  /\ sent \in [Loggers -> 0 .. MaxSent]
  /\ hung \in [Loggers -> BOOLEAN]
  /\ conn \in [Loggers -> {"away", "backlog", "recv", "parse", "wait", "ended"}]
  /\ \A c \in Loggers : promise[c].n \in 0 .. MaxSent
  /\ \A i \in DOMAIN tasks : tasks[i].from \in Loggers
  /\ task.from \in Loggers \cup {Absent}
  /\ listener \in {"open", "closed"} /\ accepting \in BOOLEAN
  /\ stop \in {"no", "asked", "joined"}

\* n: the command it waits for.  of: the command whose result it was given.
NoPromise == [n |-> 0, of |-> 0, reply |-> Absent]

ProxyInit ==
  /\ LineInit
  /\ wire = [c \in Loggers |-> <<>>] /\ sent = [c \in Loggers |-> 0]
  /\ hung = [c \in Loggers |-> FALSE] /\ conn = [c \in Loggers |-> "away"]
  /\ pending = [c \in Loggers |-> <<>>] /\ promise = [c \in Loggers |-> NoPromise]
  /\ answered = [c \in Loggers |-> NoPromise]
  /\ tasks = <<>> /\ task = NoTask /\ ran = [c \in Loggers |-> <<>>]
  /\ listener = "open" /\ accepting = TRUE /\ stop = "no"

----------------------------------------------------------------------------
(* A logger. *)

Connects(c) ==
  /\ conn[c] = "away" /\ listener = "open"
  /\ conn' = [conn EXCEPT ![c] = "backlog"]
  /\ UNCHANGED <<lineVars, wire, sent, hung, pending, promise, answered, queueVars, stopVars>>

\* Bound: MaxSent commands.
Sends(c, cmd) ==
  /\ conn[c] \in {"backlog", "recv", "parse", "wait"} /\ ~hung[c] /\ sent[c] < MaxSent
  /\ sent' = [sent EXCEPT ![c] = @ + 1]
  /\ wire' = [wire EXCEPT ![c] = @ \o
                << [cmd |-> cmd, n |-> sent'[c], last |-> FALSE],
                   [cmd |-> cmd, n |-> sent'[c], last |-> TRUE] >>]
  /\ UNCHANGED <<lineVars, hung, conn, pending, promise, answered, queueVars, stopVars>>

HangsUp(c) ==
  /\ conn[c] \in {"backlog", "recv", "parse", "wait"} /\ ~hung[c]
  /\ hung' = [hung EXCEPT ![c] = TRUE]
  /\ UNCHANGED <<lineVars, wire, sent, conn, pending, promise, answered, queueVars, stopVars>>

----------------------------------------------------------------------------
(* AcceptLoop and HandleClient. *)

Accept(c) ==
  /\ accepting /\ listener = "open" /\ conn[c] = "backlog"
  /\ conn' = [conn EXCEPT ![c] = "recv"]
  /\ UNCHANGED <<lineVars, wire, sent, hung, pending, promise, answered, queueVars, stopVars>>

\* accept() fails once the listener is closed, and a connection that was not
\* accepted is reset.
AcceptEnds ==
  /\ accepting /\ listener = "closed"
  /\ accepting' = FALSE
  /\ conn' = [c \in Loggers |-> IF conn[c] = "backlog" THEN "ended" ELSE conn[c]]
  /\ UNCHANGED <<lineVars, wire, sent, hung, pending, promise, answered, queueVars,
                 listener, stop>>

\* A read returns any part of what was sent.
Recv(c) ==
  /\ conn[c] = "recv" /\ wire[c] # <<>>
  /\ \E k \in 1 .. Len(wire[c]) :
       /\ pending' = [pending EXCEPT ![c] = @ \o SubSeq(wire[c], 1, k)]
       /\ wire' = [wire EXCEPT ![c] = SubSeq(@, k + 1, Len(@))]
  /\ conn' = [conn EXCEPT ![c] = "parse"]
  /\ UNCHANGED <<lineVars, sent, hung, promise, answered, queueVars, stopVars>>

\* recv returns 0.
RecvClosed(c) ==
  /\ conn[c] = "recv" /\ wire[c] = <<>> /\ hung[c]
  /\ conn' = [conn EXCEPT ![c] = "ended"]
  /\ UNCHANGED <<lineVars, wire, sent, hung, pending, promise, answered, queueVars, stopVars>>

CommandEnds(c) == {i \in DOMAIN pending[c] : pending[c][i].last}

\* Forward: the task is pushed, the future is waited for.
Forward(c) ==
  /\ conn[c] = "parse" /\ CommandEnds(c) # {}
  /\ LET k == CHOOSE i \in CommandEnds(c) : \A j \in CommandEnds(c) : i <= j
         text == SubSeq(pending[c], 1, k)
         n == text[k].n IN
     /\ tasks' = Append(tasks, [from |-> c, text |-> text, n |-> n])
     /\ promise' = [promise EXCEPT ![c] = [NoPromise EXCEPT !.n = n]]
     /\ pending' = [pending EXCEPT ![c] = SubSeq(@, k + 1, Len(@))]
  /\ conn' = [conn EXCEPT ![c] = "wait"]
  /\ UNCHANGED <<lineVars, wire, sent, hung, answered, task, ran, stopVars>>

\* The text that is left waits for the next read; the loop looks at stop_.
ParseDone(c) ==
  /\ conn[c] = "parse" /\ CommandEnds(c) = {}
  /\ conn' = [conn EXCEPT ![c] = IF stop = "no" THEN "recv" ELSE "ended"]
  /\ UNCHANGED <<lineVars, wire, sent, hung, pending, promise, answered, queueVars, stopVars>>

\* The future is ready.  Only a reply that is not empty is sent.
Replies(c) ==
  /\ conn[c] = "wait" /\ promise[c].of # 0
  /\ answered' = IF promise[c].reply = Absent THEN answered
                 ELSE [answered EXCEPT ![c] = promise[c]]
  /\ conn' = [conn EXCEPT ![c] = "parse"]
  /\ UNCHANGED <<lineVars, wire, sent, hung, pending, promise, queueVars, stopVars>>

\* Three seconds: the task stays in the queue and will run.
TimesOut(c) ==
  /\ conn[c] = "wait" /\ promise[c].of = 0
  /\ conn' = [conn EXCEPT ![c] = "parse"]
  /\ UNCHANGED <<lineVars, wire, sent, hung, pending, promise, answered, queueVars, stopVars>>

----------------------------------------------------------------------------
(* The poll thread: DrainQueue, then its own queries. *)

\* The text is a command when both its pieces are there; the radio ignores
\* anything else.
Whole(text) ==
  Len(text) = 2 /\ ~text[1].last /\ text[1].cmd = text[2].cmd /\ text[1].n = text[2].n

Ran(t) == ran' = [ran EXCEPT ![t.from] = Append(@, [n |-> t.n, whole |-> Whole(t.text)])]

\* Mutant: one promise for a logger, not one for a command.
FulfilsAny(t, reply) ==
  promise' = [promise EXCEPT ![t.from] = [@ EXCEPT !.of = t.n, !.reply = reply]]

\* set_value reaches whoever still holds the future of this very command.
Fulfils(t, reply) ==
  promise' = IF promise[t.from].n = t.n
             THEN [promise EXCEPT ![t.from] = [@ EXCEPT !.of = t.n, !.reply = reply]]
             ELSE promise

IsQuery(t) == Whole(t.text) /\ t.text[1].cmd \in Queries

\* A query is asked, its result is set when the exchange is over.
RunQuery ==
  /\ task = NoTask /\ tasks # <<>> /\ IsQuery(Head(tasks))
  /\ Ask(Head(tasks).text[1].cmd)
  /\ task' = Head(tasks) /\ tasks' = Tail(tasks)
  /\ Ran(Head(tasks))
  /\ UNCHANGED <<clientVars, stopVars>>

\* Anything else is sent, and its result is empty at once.
RunSet ==
  /\ task = NoTask /\ tasks # <<>> /\ ~IsQuery(Head(tasks))
  /\ IF Whole(Head(tasks).text) THEN Send(Head(tasks).text[1].cmd)
                                ELSE asked = NotAsked /\ UNCHANGED lineVars
  /\ Fulfils(Head(tasks), Absent)
  /\ tasks' = Tail(tasks)
  /\ Ran(Head(tasks))
  /\ UNCHANGED <<wire, sent, hung, conn, pending, answered, task, stopVars>>

QueryAnswered ==
  /\ task # NoTask
  /\ \E a \in ToSet(line) : Receives(a) /\ Fulfils(task, a.to)
  /\ task' = NoTask
  /\ UNCHANGED <<wire, sent, hung, conn, pending, answered, tasks, ran, stopVars>>

QueryLost ==
  /\ task # NoTask
  /\ GivesUp /\ Fulfils(task, Absent)
  /\ task' = NoTask
  /\ UNCHANGED <<wire, sent, hung, conn, pending, answered, tasks, ran, stopVars>>

\* The queue is empty: PollOnce asks something of its own.
PollAsks ==
  /\ task = NoTask /\ tasks = <<>>
  /\ \E q \in PollQueries : Ask(q)
  /\ UNCHANGED <<clientVars, queueVars, stopVars>>

PollEnds ==
  /\ task = NoTask
  /\ (\E a \in ToSet(line) : Receives(a)) \/ GivesUp
  /\ UNCHANGED <<clientVars, queueVars, stopVars>>

ReadsOn == Discards /\ UNCHANGED <<clientVars, queueVars, stopVars>>

Radio == (Answers \/ Ignores) /\ UNCHANGED <<clientVars, queueVars, stopVars>>

----------------------------------------------------------------------------
(* Stop. *)

\* Mutant: the listener stays open.
StopKeepsListener ==
  /\ stop = "no"
  /\ stop' = "asked" /\ listener' = "open"
  /\ UNCHANGED <<lineVars, clientVars, queueVars, accepting>>

StopAsked ==
  /\ stop = "no"
  /\ stop' = "asked" /\ listener' = "closed"
  /\ UNCHANGED <<lineVars, clientVars, queueVars, accepting>>

\* The accept thread is joined, then every client thread.
StopReturns ==
  /\ stop = "asked" /\ ~accepting
  /\ \A c \in Loggers : conn[c] \in {"away", "ended"}
  /\ stop' = "joined"
  /\ UNCHANGED <<lineVars, clientVars, queueVars, listener, accepting>>

----------------------------------------------------------------------------

Logger(c) == Connects(c) \/ (\E cmd \in Wanted : Sends(c, cmd)) \/ HangsUp(c)

ClientThread(c) ==
  Recv(c) \/ RecvClosed(c) \/ Forward(c) \/ ParseDone(c) \/ Replies(c) \/ TimesOut(c)

PollThread ==
  RunQuery \/ RunSet \/ QueryAnswered \/ QueryLost \/ PollAsks \/ PollEnds \/ ReadsOn

ProxyNext ==
  \/ \E c \in Loggers : Logger(c) \/ Accept(c) \/ ClientThread(c)
  \/ PollThread \/ Radio
  \/ AcceptEnds \/ StopAsked \/ StopReturns

----------------------------------------------------------------------------
(* Properties. *)

AnswersOwnCommand == \A c \in Loggers : answered[c].of = answered[c].n

RunsOnceInOrder ==
  \A c \in Loggers :
    \A i \in DOMAIN ran[c] :
      /\ ran[c][i].whole
      /\ ran[c][i].n = i

\* Every command of a logger reaches the radio whole, at most once and in the
\* order in which it was sent - a key-down that timed out and runs late runs
\* before the key-up that follows it - and a logger is never given the answer
\* to another command than the one it is waiting for, however late the answer
\* to one that timed out comes.
ServedInOrder == RunsOnceInOrder /\ AnswersOwnCommand

\* Stop returns once every logger has hung up.  A logger that stays connected
\* and silent keeps it waiting: nothing closes its socket.
StopJoins == (stop = "asked" /\ \A c \in Loggers : hung[c] \/ conn[c] = "away") ~> stop = "joined"
=============================================================================
