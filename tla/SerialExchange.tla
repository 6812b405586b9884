--------------------------- MODULE SerialExchange ---------------------------
(***************************************************************************)
(* One CAT exchange over the serial line (src/src/serial_cat.cpp): what is *)
(* unread is thrown away, the command is written, and what arrives within  *)
(* the timeout is searched for a reply that starts with the letters of the *)
(* command.                                                                *)
(*                                                                         *)
(* A reply is known by the command it answers.  The radio answers in the   *)
(* order it was asked, when it likes, and sometimes not at all.            *)
(***************************************************************************)
EXTENDS Naturals, Sequences, SequencesExt

CONSTANTS
  Commands,   \* CAT commands
  Queries,    \* those the radio answers
  Verb,       \* the leading letters of each command
  Absent,       \* no command
  MaxOwed     \* bound: answers the radio may owe at one time

ASSUME CommandsAssumption ==
  /\ Queries \subseteq Commands /\ Absent \notin Commands
  /\ DOMAIN Verb = Commands
ASSUME OwedAssumption == MaxOwed \in Nat \ {0}

VARIABLES
  owed,    \* what the radio was asked and has not answered
  line,    \* answers that have arrived and are unread
  asked,   \* the command of the exchange in progress, or Absent
  got      \* ghost: the last reply an exchange returned

lineVars == <<owed, line, asked, got>>

\* now: asked by the exchange in progress, not by an earlier one.
Answer == [to : Queries, now : BOOLEAN]

\* excused: when the command was written the radio still owed an answer that
\* starts with the same letters.
NoReply == [reply |-> [to |-> Absent, now |-> FALSE], to |-> Absent, excused |-> FALSE]

LineTypeOK ==
  /\ owed \in Seq(Answer) /\ line \in Seq(Answer)
  /\ asked \in [cmd : Commands \cup {Absent}, excused : BOOLEAN]
  /\ got \in [reply : Answer, to : Commands, excused : BOOLEAN] \cup {NoReply}

NotAsked == [cmd |-> Absent, excused |-> FALSE]

LineInit == owed = <<>> /\ line = <<>> /\ asked = NotAsked /\ got = NoReply

Earlier(answers) == [i \in DOMAIN answers |-> [answers[i] EXCEPT !.now = FALSE]]

Owing(cmd, answers) == IF cmd \in Queries THEN Append(answers, [to |-> cmd, now |-> TRUE])
                       ELSE answers

\* Mutant: what is unread is kept.
AskUnflushed(cmd) ==
  /\ asked = NotAsked /\ (cmd \in Queries => Len(owed) < MaxOwed)
  /\ line' = Earlier(line)
  /\ owed' = Owing(cmd, Earlier(owed))
  /\ asked' = [cmd |-> cmd, excused |-> \E a \in ToSet(owed) : Verb[a.to] = Verb[cmd]]
  /\ UNCHANGED got

\* tcflush, then the write.  What is unread is gone, what is owed is not.
Ask(cmd) ==
  /\ asked = NotAsked /\ (cmd \in Queries => Len(owed) < MaxOwed)
  /\ line' = <<>>
  /\ owed' = Owing(cmd, Earlier(owed))
  /\ asked' = [cmd |-> cmd, excused |-> \E a \in ToSet(owed) : Verb[a.to] = Verb[cmd]]
  /\ UNCHANGED got

Matches(a) == Verb[a.to] = Verb[asked.cmd]

\* A read returns all that has arrived; replies of other commands are dropped,
\* and so is all that follows the one that matches.
Receives(a) ==
  /\ asked # NotAsked
  /\ \E i \in DOMAIN line :
       /\ line[i] = a /\ Matches(a)
       /\ \A j \in 1 .. i - 1 : ~Matches(line[j])
  /\ line' = <<>>
  /\ got' = [reply |-> a, to |-> asked.cmd, excused |-> asked.excused]
  /\ asked' = NotAsked
  /\ UNCHANGED owed

Discards ==
  /\ asked # NotAsked /\ line # <<>>
  /\ \A a \in ToSet(line) : ~Matches(a)
  /\ line' = <<>>
  /\ UNCHANGED <<owed, asked, got>>

\* The time is up, or the read failed: no reply is made up.
GivesUp ==
  /\ asked # NotAsked
  /\ asked' = NotAsked
  /\ UNCHANGED <<owed, line, got>>

\* A command that is sent only: nothing is flushed, nothing is waited for.
Send(cmd) ==
  /\ asked = NotAsked /\ (cmd \in Queries => Len(owed) < MaxOwed)
  /\ owed' = Owing(cmd, owed)
  /\ UNCHANGED <<line, asked, got>>

\* The radio.
Answers ==
  /\ owed # <<>>
  /\ line' = Append(line, Head(owed))
  /\ owed' = Tail(owed)
  /\ UNCHANGED <<asked, got>>

Ignores ==
  /\ owed # <<>>
  /\ owed' = Tail(owed)
  /\ UNCHANGED <<line, asked, got>>

\* A reply that was asked for by an earlier command is taken for the answer
\* to this one only when the radio still owed an answer with the same letters
\* at the moment of asking: a late answer never shifts the exchanges that
\* follow once the radio has caught up, and a meter is never read as a
\* frequency.
ReplyIsOwn ==
  got # NoReply =>
    /\ Verb[got.reply.to] = Verb[got.to]
    /\ got.reply.now \/ got.excused
    /\ got.reply.now => got.reply.to = got.to
=============================================================================
