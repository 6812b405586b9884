--------------------------- MODULE AccountsProofs ---------------------------
(***************************************************************************)
(* Proofs about Accounts, for any number of logins and admin requests at   *)
(* once: its types, that no session outlives or exceeds its account, and   *)
(* by which ways alone the last administrator can go; and, with one admin  *)
(* request at a time, that the file holds what was acknowledged.           *)
(***************************************************************************)
EXTENDS Accounts, FiniteSetTheorems, TLAPS

\* A request brings a hash where it sets one, and to set a right it names one.
Asked(req) ==
  /\ req.op \in {"add", "password"} => req.hash # None
  /\ req.op = "set" => \E g \in Grants : req.rights = {g}

WellAsked == \A w \in Workers : Asked(work[w].req)

AccountsInv == TypeOK /\ WellAsked /\ SessionsCurrent

Work == [pc : {"idle", "look", "count", "act", "list", "row", "open", "rename"},
         req : Request, target : BOOLEAN, sole : BOOLEAN, todo : SUBSET Rows]

SessionsType ==
  /\ sessions \in [Tokens -> Session]
  /\ \A t \in Tokens : sessions[t].user = None => sessions[t] = NoSession

\* The rows of a well-typed user list are rows.
LEMMA RowsOfType ==
  ASSUME users \in [Users -> Account]
  PROVE  RowsOf(users) \subseteq Rows
  BY NamesAssumption DEF RowsOf, Rows, Account

\* What is loaded from rows is a well-typed user list.
LEMMA LoadedType ==
  ASSUME NEW rows \in SUBSET Rows
  PROVE  Loaded(rows) \in [Users -> Account]
<1> SUFFICES ASSUME NEW u \in Users
             PROVE  Loaded(rows)[u] \in Account
  BY Zenon DEF Loaded
<1>1. CASE u = Admin /\ EnvHash # None
  BY <1>1, NamesAssumption DEF Loaded, Account
<1>2. CASE ~(u = Admin /\ EnvHash # None) /\ \E r \in rows : r.name = u
  <2> DEFINE r == CHOOSE x \in rows : x.name = u
  <2>1. r \in Rows
    BY <1>2
  <2>2. Loaded(rows)[u] = [hash |-> r.hash, rights |-> r.rights]
    BY <1>2 DEF Loaded
  <2> QED BY <2>1, <2>2 DEF Rows, Account
<1>3. CASE ~(u = Admin /\ EnvHash # None) /\ ~(\E r \in rows : r.name = u)
  BY <1>3 DEF Loaded, Account, NoAccount
<1> QED BY <1>1, <1>2, <1>3

\* Every request that arrives is one, and brings what it needs.
LEMMA AsksType ==
  ASSUME NEW w \in Workers, NEW t \in Tokens, NEW u \in Users, Asks(w, t, u)
  PROVE  \E req \in Request : Begin(w, t, req) /\ Asked(req)
<1>1. ASSUME NEW h \in Hashes, NEW r \in SUBSET (Grants \ {"station"})
      PROVE  /\ Req("add", u, h, r, FALSE, FALSE) \in Request
             /\ Asked(Req("add", u, h, r, FALSE, FALSE))
  <2>1. h \in Hashes \cup {None} /\ r \in SUBSET Grants /\ h # None
    BY NamesAssumption
  <2> QED BY <2>1 DEF Req, Request, Asked
<1>2. ASSUME NEW h \in Hashes
      PROVE  /\ Req("password", u, h, {}, FALSE, FALSE) \in Request
             /\ Asked(Req("password", u, h, {}, FALSE, FALSE))
  <2>1. h \in Hashes \cup {None} /\ {} \in SUBSET Grants /\ h # None
    BY NamesAssumption
  <2> QED BY <2>1 DEF Req, Request, Asked
<1>3. ASSUME NEW op \in {"remove", "kick", "lockdown"}, NEW y \in BOOLEAN
      PROVE  /\ Req(op, u, None, {}, FALSE, y) \in Request
             /\ Asked(Req(op, u, None, {}, FALSE, y))
  <2>1. None \in Hashes \cup {None} /\ {} \in SUBSET Grants
    OBVIOUS
  <2>2. op \in {"add", "password", "remove", "set", "kick", "lockdown"} /\ op # "add"
        /\ op # "password" /\ op # "set"
    OBVIOUS
  <2> QED BY <2>1, <2>2 DEF Req, Request, Asked
<1>4. ASSUME NEW g \in Grants, NEW b \in BOOLEAN, NEW y \in BOOLEAN
      PROVE  /\ Req("set", u, None, {g}, b, y) \in Request
             /\ Asked(Req("set", u, None, {g}, b, y))
  <2>1. None \in Hashes \cup {None} /\ {g} \in SUBSET Grants
    OBVIOUS
  <2> QED BY <2>1 DEF Req, Request, Asked
<1>5. CASE AsksToAdd(w, t, u)
  BY <1>1, <1>5 DEF AsksToAdd
<1>6. CASE AsksPassword(w, t, u)
  BY <1>2, <1>6 DEF AsksPassword
<1>7. CASE AsksToRemove(w, t, u) \/ AsksToKick(w, t, u) \/ AsksLockdown(w, t, u)
  BY <1>3, <1>7 DEF AsksToRemove, AsksToKick, AsksLockdown
<1>8. CASE AsksToSet(w, t, u)
  BY <1>4, <1>8 DEF AsksToSet
<1> QED BY <1>5, <1>6, <1>7, <1>8 DEF Asks

----------------------------------------------------------------------------
(* What the helpers do to the sessions. *)

\* Clearing a name's sessions clears them, and leaves the others.
LEMMA ClearedSessions ==
  ASSUME SessionsType, NEW u \in Users, sessions' = WithoutSessionsOf(u)
  PROVE  /\ SessionsType'
         /\ \A t \in Tokens : sessions[t].user = u => sessions'[t] = NoSession
         /\ \A t \in Tokens : sessions[t].user # u => sessions'[t] = sessions[t]
  BY NamesAssumption DEF SessionsType, WithoutSessionsOf, Session, NoSession

\* A right given or taken is a right of the same sessions.
LEMMA RegrantedSessions ==
  ASSUME SessionsType, NEW u \in Users, NEW g \in Grants, NEW on \in BOOLEAN,
         sessions' = WithRight(u, g, on)
  PROVE  /\ SessionsType'
         /\ \A t \in Tokens : sessions[t].user # u => sessions'[t] = sessions[t]
         /\ \A t \in Tokens : sessions[t].user = u =>
              sessions'[t] = [sessions[t] EXCEPT !.rights = Regrant(@, g, on)]
<1>1. \A r \in SUBSET Grants : Regrant(r, g, on) \in SUBSET Grants
  BY DEF Regrant
<1> QED BY <1>1, NamesAssumption DEF SessionsType, WithRight, Session, NoSession

\* A purge leaves a session as it was, or none.
LEMMA PurgedSessions ==
  ASSUME SessionsType
  PROVE  /\ Purged \in [Tokens -> Session]
         /\ \A t \in Tokens : Purged[t].user = None => Purged[t] = NoSession
         /\ \A t \in Tokens : Purged[t] = NoSession \/ Purged[t] = sessions[t]
  BY NamesAssumption DEF SessionsType, Purged, Session, NoSession

\* An answered request, one that moves on and one that changes an account is a
\* request still.
LEMMA AnsweredWork ==
  ASSUME work \in [Workers -> Work], WellAsked, NEW w \in Workers, Answered(w)
  PROVE  work' \in [Workers -> Work] /\ WellAsked'
<1>1. NoWork \in Work /\ NoWork.req.op = "none"
  BY NamesAssumption DEF Work, NoWork, NoRequest, Request
<1> QED BY <1>1 DEF Answered, WellAsked, Asked

LEMMA SteppedWork ==
  ASSUME work \in [Workers -> Work], WellAsked, NEW w \in Workers,
         NEW pc \in {"idle", "look", "count", "act", "list", "row", "open", "rename"},
         NextStep(w, pc)
  PROVE  work' \in [Workers -> Work] /\ WellAsked'
  BY DEF NextStep, WellAsked, Asked, Work

LEMMA ChangedWork ==
  ASSUME work \in [Workers -> Work], NEW w \in Workers, Changed(w)
  PROVE  /\ work' \in [Workers -> Work]
         /\ \A v \in Workers : work'[v].req = work[v].req
         /\ work'[w].pc = "list"
         /\ \A v \in Workers \ {w} : ~work'[v].sole
  BY DEF Changed, Work

----------------------------------------------------------------------------
(* The invariant. *)

LEMMA InitInv == Init => AccountsInv
<1> SUFFICES ASSUME Init PROVE AccountsInv
  OBVIOUS
<1>1. disk \in [rows : SUBSET Rows, whole : BOOLEAN]
  BY NamesAssumption DEF Init, Rows
<1>2. users \in [Users -> Account]
  BY <1>1, LoadedType DEF Init
<1>3. SessionsType /\ SessionsCurrent
  BY NamesAssumption DEF Init, SessionsType, SessionsCurrent, Session, NoSession
<1>4. /\ login \in [Logins -> [user : Users, stored : Hashes \cup {None}]]
      /\ mirror \in SUBSET Rows /\ acked \in SUBSET Rows /\ failed \in BOOLEAN
  BY <1>1, NamesAssumption DEF Init, NoLogin
<1>5. work \in [Workers -> Work]
  BY NamesAssumption DEF Init, NoWork, NoRequest, Request, Work
<1>6. WellAsked
  BY DEF Init, WellAsked, Asked, NoWork, NoRequest
<1> QED BY <1>1, <1>2, <1>3, <1>4, <1>5, <1>6 DEF AccountsInv, TypeOK, SessionsType, Work

\* What a login does.
LEMMA LoginKeeps ==
  ASSUME AccountsInv, NEW l \in Logins, LoginStep(l)
  PROVE  AccountsInv'
<1> USE NamesAssumption DEF AccountsInv
<1>1. ASSUME NEW u \in Users, LoginReads(l, u) PROVE AccountsInv'
  BY <1>1 DEF LoginReads, TypeOK, WellAsked, SessionsCurrent, Account, Exists, authVars, fileVars
<1>2. CASE LoginOvertaken(l)
  BY <1>2
  DEF LoginOvertaken, NoLogin, TypeOK, WellAsked, SessionsCurrent, Exists, authVars, fileVars
<1>3. CASE LoginIssues(l)
  <2>1. SessionsType
    BY DEF TypeOK, SessionsType
  <2>2. /\ login[l].user \in Users /\ login[l].stored \in Hashes
        /\ users[login[l].user].hash = login[l].stored
        /\ users[login[l].user].rights \in SUBSET Grants
    BY <1>3 DEF LoginIssues, Overtaken, TypeOK, Account
  <2>3. PICK t \in Tokens :
          sessions' = [Purged EXCEPT ![t] =
                        [user |-> login[l].user, rights |-> users[login[l].user].rights,
                         by |-> login[l].stored, expired |-> FALSE]]
    BY <1>3 DEF LoginIssues, Issues
  <2>4. SessionsType'
    BY <2>1, <2>2, <2>3, PurgedSessions DEF SessionsType, Session
  <2>5. users' = users
    BY <1>3 DEF LoginIssues
  <2>6. SessionsCurrent'
    BY <2>1, <2>2, <2>3, <2>5, PurgedSessions DEF SessionsCurrent, Exists, NoSession
  <2> QED
    BY <1>3, <2>4, <2>6 DEF LoginIssues, NoLogin, TypeOK, SessionsType, WellAsked, fileVars
<1>4. CASE LoginUnlucky(l)
  <2>1. SessionsType
    BY DEF TypeOK, SessionsType
  <2>2. SessionsType'
    BY <1>4, <2>1, PurgedSessions DEF LoginUnlucky, SessionsType
  <2>3. SessionsCurrent'
    BY <1>4, <2>1, PurgedSessions DEF LoginUnlucky, SessionsCurrent, Exists, NoSession
  <2> QED
    BY <1>4, <2>2, <2>3 DEF LoginUnlucky, NoLogin, TypeOK, SessionsType, WellAsked, fileVars
<1> QED BY <1>1, <1>2, <1>3, <1>4 DEF LoginStep

\* What the admin routes do to the users and the sessions.
LEMMA ChangeKeeps ==
  ASSUME AccountsInv, NEW w \in Workers,
         Add(w) \/ ChangePassword(w) \/ RemoveUser(w) \/ SetRight(w) \/ Kick(w)
  PROVE  AccountsInv'
<1> DEFINE req == work[w].req
<1> USE NamesAssumption DEF AccountsInv
<1>1. /\ work \in [Workers -> Work] /\ SessionsType
      /\ req \in Request
  BY DEF TypeOK, SessionsType, Work
<1>2. work' \in [Workers -> Work] /\ WellAsked'
  <2>1. CASE Changed(w)
    BY <1>1, <2>1, ChangedWork DEF WellAsked
  <2>2. CASE Answered(w)
    BY <1>1, <2>2, AnsweredWork
  <2> QED BY <2>1, <2>2 DEF Add, ChangePassword, RemoveUser, SetRight, Kick
<1>3. /\ login' = login /\ mirror' = mirror /\ disk' = disk /\ acked' = acked
      /\ failed' = failed
  BY DEF Add, ChangePassword, RemoveUser, SetRight, Kick, fileVars
<1>4. ASSUME users' \in [Users -> Account], SessionsType', SessionsCurrent'
      PROVE  AccountsInv'
  BY <1>2, <1>3, <1>4 DEF TypeOK, SessionsType, Work
<1>5. CASE Add(w)
  <2>1. req.user \in Users /\ req.hash # None /\ req.hash \in Hashes \cup {None}
        /\ req.rights \in SUBSET Grants
    BY <1>1, <1>5 DEF Add, WellAsked, Asked, Request
  <2>2. /\ users \in [Users -> Account]
        /\ users' = [users EXCEPT ![req.user] = [hash |-> req.hash, rights |-> req.rights]]
        /\ sessions' = [t \in Tokens |-> IF sessions[t].user = req.user
                                         THEN [sessions[t] EXCEPT !.by = None]
                                         ELSE sessions[t]]
    BY <1>5 DEF Add, TypeOK
  <2> HIDE DEF req
  <2>3. users' \in [Users -> Account]
    BY <2>1, <2>2 DEF Account
  <2>4. SessionsType'
    BY <1>1, <2>1, <2>2 DEF SessionsType, Session, NoSession
  <2>5. ASSUME NEW t \in Tokens, sessions'[t].user # None
        PROVE  /\ users'[sessions'[t].user].hash # None
               /\ sessions'[t].by # None =>
                    /\ sessions'[t].by = users'[sessions'[t].user].hash
                    /\ sessions'[t].rights = users'[sessions'[t].user].rights
    <3>1. CASE sessions[t].user = req.user
      <4>1. sessions'[t].user = req.user /\ sessions'[t].by = None
        BY <1>1, <2>2, <3>1 DEF SessionsType, Session
      <4> QED BY <2>1, <2>2, <4>1
    <3>2. CASE sessions[t].user # req.user
      <4>1. sessions'[t] = sessions[t]
        BY <2>2, <3>2
      <4>2. sessions[t].user \in Users
        BY <1>1, <2>5, <4>1 DEF SessionsType, Session
      <4>3. users'[sessions[t].user] = users[sessions[t].user]
        BY <2>2, <3>2, <4>2
      <4> QED BY <2>5, <4>1, <4>3 DEF SessionsCurrent, Exists
    <3> QED BY <3>1, <3>2
  <2>6. SessionsCurrent'
    BY <2>5 DEF SessionsCurrent, Exists
  <2> QED BY <1>4, <2>3, <2>4, <2>6
<1>6. CASE ChangePassword(w)
  <2>1. req.user \in Users /\ sessions' = WithoutSessionsOf(req.user)
    BY <1>1, <1>6 DEF ChangePassword, Request
  <2>a. users \in [Users -> Account] /\ req.hash \in Hashes \cup {None}
        /\ users' = [users EXCEPT ![req.user].hash = req.hash]
    BY <1>1, <1>6 DEF ChangePassword, TypeOK, Request
  <2>2. users' \in [Users -> Account]
    <3>1. users[req.user] \in Account
      BY <2>1, <2>a
    <3>2. [users[req.user] EXCEPT !.hash = req.hash] \in Account
      BY <2>a, <3>1 DEF Account
    <3> QED BY <2>a, <3>2
  <2>3. SessionsCurrent'
    BY <1>1, <1>6, <2>1, ClearedSessions
       DEF ChangePassword, TypeOK, SessionsCurrent, SessionsType, Session, NoSession, Exists
  <2> QED BY <1>1, <1>4, <2>1, <2>2, <2>3, ClearedSessions
<1>7. CASE RemoveUser(w)
  <2>1. req.user \in Users /\ sessions' = WithoutSessionsOf(req.user)
    BY <1>1, <1>7 DEF RemoveUser, Request
  <2>2. users' \in [Users -> Account]
    BY <1>1, <1>7 DEF RemoveUser, TypeOK, Account, NoAccount, Request
  <2>3. SessionsCurrent'
    BY <1>1, <1>7, <2>1, ClearedSessions
       DEF RemoveUser, TypeOK, SessionsCurrent, SessionsType, Session, NoSession, Exists
  <2> QED BY <1>1, <1>4, <2>1, <2>2, <2>3, ClearedSessions
<1>8. CASE SetRight(w)
  <2> DEFINE g == CHOOSE x \in req.rights : TRUE
  <2>1. g \in Grants /\ req.on \in BOOLEAN /\ req.user \in Users
    BY <1>1, <1>8 DEF SetRight, WellAsked, Asked, Request
  <2>2. /\ sessions' = WithRight(req.user, g, req.on)
        /\ users' = [users EXCEPT ![req.user].rights = Regrant(@, g, req.on)]
    BY <1>8 DEF SetRight
  <2> HIDE DEF g
  <2>3. ASSUME NEW r \in SUBSET Grants
        PROVE  Regrant(r, g, req.on) \in SUBSET Grants
    BY <2>1 DEF Regrant
  <2>4. users \in [Users -> Account]
    BY DEF TypeOK
  <2> DEFINE old == users[req.user]
  <2>a. old \in Account
    BY <2>1, <2>4
  <2>b. [old EXCEPT !.rights = Regrant(@, g, req.on)] =
          [hash |-> old.hash, rights |-> Regrant(old.rights, g, req.on)]
    BY <2>a DEF Account
  <2>5. /\ users' = [users EXCEPT ![req.user] =
                       [hash |-> users[req.user].hash,
                        rights |-> Regrant(users[req.user].rights, g, req.on)]]
        /\ users[req.user].rights \in SUBSET Grants
    BY <2>1, <2>2, <2>4, <2>a, <2>b, Zenon DEF Account
  <2>6. users' \in [Users -> Account]
    BY <2>1, <2>3, <2>4, <2>5 DEF Account
  <2>7. \A u \in Users : users'[u].hash = users[u].hash
    BY <2>1, <2>4, <2>5 DEF Account
  <2>8. /\ \A u \in Users \ {req.user} : users'[u].rights = users[u].rights
        /\ users'[req.user].rights = Regrant(users[req.user].rights, g, req.on)
    BY <2>1, <2>4, <2>5 DEF Account
  <2>9. ASSUME NEW t \in Tokens, sessions'[t].user # None
        PROVE  /\ users'[sessions'[t].user].hash # None
               /\ sessions'[t].by # None =>
                    /\ sessions'[t].by = users'[sessions'[t].user].hash
                    /\ sessions'[t].rights = users'[sessions'[t].user].rights
    <3>1. CASE sessions[t].user = req.user
      <4>1. sessions'[t] = [sessions[t] EXCEPT !.rights = Regrant(@, g, req.on)]
        BY <1>1, <2>1, <2>2, <3>1, RegrantedSessions
      <4>2. /\ sessions'[t].user = req.user /\ sessions'[t].by = sessions[t].by
            /\ sessions'[t].rights = Regrant(sessions[t].rights, g, req.on)
        BY <1>1, <3>1, <4>1 DEF SessionsType, Session
      <4>3. sessions[t].user # None
        BY <2>1, <3>1, NamesAssumption
      <4> QED BY <2>1, <2>7, <2>8, <3>1, <4>2, <4>3 DEF SessionsCurrent, Exists
    <3>2. CASE sessions[t].user # req.user
      <4>1. sessions'[t] = sessions[t]
        BY <1>1, <2>1, <2>2, <3>2, RegrantedSessions
      <4>2. sessions[t].user \in Users
        BY <1>1, <2>9, <4>1 DEF SessionsType, Session
      <4> QED BY <2>7, <2>8, <2>9, <3>2, <4>1, <4>2 DEF SessionsCurrent, Exists
    <3> QED BY <3>1, <3>2
  <2>10. SessionsCurrent'
    BY <2>9 DEF SessionsCurrent, Exists
  <2> QED BY <1>1, <1>4, <2>1, <2>2, <2>6, <2>10, RegrantedSessions
<1>9. CASE Kick(w)
  <2>1. req.user \in Users /\ sessions' = WithoutSessionsOf(req.user) /\ users' = users
    BY <1>1, <1>9 DEF Kick, Request
  <2>2. SessionsCurrent'
    BY <1>1, <2>1, ClearedSessions DEF SessionsCurrent, SessionsType, Session, NoSession, Exists
  <2> QED BY <1>1, <1>4, <2>1, <2>2, ClearedSessions DEF TypeOK
<1> QED BY <1>5, <1>6, <1>7, <1>8, <1>9

\* What a request does before and after it changes the users.
LEMMA AroundKeeps ==
  ASSUME AccountsInv, NEW w \in Workers,
         \/ \E t \in Tokens, u \in Users : Asks(w, t, u)
         \/ Look(w) \/ Count(w) \/ Unknown(w) \/ Lockdown(w)
         \/ List(w) \/ Row(w) \/ Listed(w) \/ WriteTemp(w) \/ Replace(w) \/ SaveFails(w)
  PROVE  AccountsInv'
<1>1. /\ work \in [Workers -> Work] /\ users \in [Users -> Account]
      /\ mirror \in SUBSET Rows /\ disk \in [rows : SUBSET Rows, whole : BOOLEAN]
      /\ acked \in SUBSET Rows /\ failed \in BOOLEAN
  <2>1. TypeOK
    BY DEF AccountsInv
  <2> QED BY <2>1 DEF TypeOK, Work
<1>2. users' = users /\ sessions' = sessions /\ login' = login
  <2>1. ASSUME NEW t \in Tokens, NEW u \in Users, Asks(w, t, u)
        PROVE  UNCHANGED <<users, sessions, login>>
    <3>1. PICK req : Begin(w, t, req)
      BY <2>1, AsksType
    <3> QED BY <3>1 DEF Begin, authVars
  <2>2. ASSUME Look(w) \/ Count(w) \/ Unknown(w) \/ Lockdown(w)
        PROVE  UNCHANGED <<users, sessions, login>>
    BY <2>2 DEF Look, Count, Unknown, Lockdown, authVars
  <2>3. ASSUME \/ List(w) \/ Row(w) \/ Listed(w) \/ WriteTemp(w) \/ Replace(w)
               \/ SaveFails(w)
        PROVE  UNCHANGED <<users, sessions, login>>
    BY <2>3 DEF List, Row, Listed, WriteTemp, Replace, SaveFails, authVars
  <2> QED BY <2>1, <2>2, <2>3
<1> USE NamesAssumption DEF AccountsInv
<1>3. ASSUME work' \in [Workers -> Work], WellAsked', mirror' \in SUBSET Rows,
             disk' \in [rows : SUBSET Rows, whole : BOOLEAN],
             acked' \in SUBSET Rows, failed' \in BOOLEAN
      PROVE  AccountsInv'
  BY <1>2, <1>3 DEF TypeOK, SessionsCurrent, Exists, Work
<1>4. ASSUME NEW t \in Tokens, NEW u \in Users, Asks(w, t, u) PROVE AccountsInv'
  <2>1. PICK req \in Request : Begin(w, t, req) /\ Asked(req)
    BY <1>4, AsksType
  <2>2. work' \in [Workers -> Work] /\ work'[w].req = req
        /\ \A v \in Workers \ {w} : work'[v] = work[v]
    BY <1>1, <2>1 DEF Begin, NoWork, Work
  <2> QED BY <1>1, <1>3, <2>1, <2>2 DEF Begin, WellAsked, fileVars
<1>5. CASE Look(w)
  <2>1. CASE Answered(w)
    BY <1>1, <1>3, <1>5, <2>1, AnsweredWork DEF Look, fileVars
  <2>2. CASE ~Answered(w)
    <3> DEFINE found == Found(work[w].req) /\ work[w].req.user \in Admins
    <3> DEFINE next == [NoWork EXCEPT !.pc = "count", !.req = work[w].req, !.sole = TRUE,
                              !.target = found]
    <3>1. work' = [work EXCEPT ![w] = next]
      BY <1>5, <2>2 DEF Look
    <3>2. found \in BOOLEAN /\ work[w].req \in Request
      BY <1>1 DEF Found, Work
    <3> HIDE DEF found
    <3>3. next \in Work /\ next.req = work[w].req
      BY <3>2 DEF NoWork, Work
    <3> HIDE DEF next
    <3>4. work' \in [Workers -> Work]
      BY <1>1, <3>1, <3>3
    <3>5. \A v \in Workers : work'[v].req = work[v].req
      BY <1>1, <3>1, <3>3
    <3>6. WellAsked'
      BY <3>5 DEF WellAsked
    <3> QED BY <1>1, <1>3, <1>5, <3>4, <3>6 DEF Look, fileVars
  <2> QED BY <2>1, <2>2
<1>6. CASE Count(w) \/ Unknown(w) \/ Lockdown(w) \/ Listed(w) \/ WriteTemp(w)
  <2>1. work' \in [Workers -> Work] /\ WellAsked'
    BY <1>1, <1>6, AnsweredWork, SteppedWork
       DEF Count, Unknown, Lockdown, Listed, WriteTemp, NextStep
  <2> QED BY <1>1, <1>3, <1>6, <2>1 DEF Count, Unknown, Lockdown, Listed, WriteTemp, fileVars
<1>7. CASE List(w)
  <2> DEFINE next == [NoWork EXCEPT !.pc = "row", !.req = work[w].req, !.todo = RowsOf(users)]
  <2>1. work' = [work EXCEPT ![w] = next]
    BY <1>7 DEF List
  <2>2. next \in Work /\ next.req = work[w].req
    <3>1. RowsOf(users) \in SUBSET Rows /\ work[w].req \in Request
      BY <1>1, RowsOfType DEF Work
    <3> QED BY <3>1 DEF NoWork, Work
  <2> HIDE DEF next
  <2>3. work' \in [Workers -> Work]
    BY <1>1, <2>1, <2>2
  <2>4. \A v \in Workers : work'[v].req = work[v].req
    BY <1>1, <2>1, <2>2
  <2>5. WellAsked'
    BY <2>4 DEF WellAsked
  <2> QED BY <1>1, <1>3, <1>7, <2>3, <2>5 DEF List
<1>8. CASE Row(w)
  <2>1. PICK r \in work[w].todo :
          /\ mirror' = mirror \cup {[r EXCEPT !.hash = users[r.name].hash]}
          /\ work' = [work EXCEPT ![w].todo = @ \ {r}]
    BY <1>8 DEF Row
  <2>2. r \in Rows
    BY <1>1 DEF Work
  <2>3. [r EXCEPT !.hash = users[r.name].hash] \in Rows
    BY <1>1, <2>2 DEF Rows, Account
  <2>4. work' \in [Workers -> Work] /\ WellAsked'
    BY <1>1, <2>1 DEF Work, WellAsked
  <2> QED BY <1>1, <1>3, <1>8, <2>1, <2>3, <2>4 DEF Row
<1>9. CASE Replace(w)
  <2>1. work' \in [Workers -> Work] /\ WellAsked'
    BY <1>1, <1>9, AnsweredWork DEF Replace
  <2> QED BY <1>1, <1>3, <1>9, <2>1, RowsOfType DEF Replace
<1>10. CASE SaveFails(w)
  <2>1. work' \in [Workers -> Work] /\ WellAsked'
    BY <1>1, <1>10, AnsweredWork DEF SaveFails
  <2> QED BY <1>1, <1>3, <1>10, <2>1 DEF SaveFails
<1> QED BY <1>4, <1>5, <1>6, <1>7, <1>8, <1>9, <1>10

\* What happens to sessions by themselves, and a restart.
LEMMA OthersKeep ==
  ASSUME AccountsInv, (\E t \in Tokens : Expires(t) \/ Ends(t)) \/ Restart
  PROVE  AccountsInv'
<1> USE NamesAssumption DEF AccountsInv
<1>1. ASSUME NEW t \in Tokens, Expires(t) PROVE AccountsInv'
  <2>1. /\ sessions \in [Tokens -> Session] /\ users' = users /\ sessions[t].user # None
        /\ sessions' = [sessions EXCEPT ![t].expired = TRUE]
    BY <1>1 DEF Expires, Live, TypeOK
  <2>a. /\ sessions' \in [Tokens -> Session]
        /\ \A s \in Tokens \ {t} : sessions'[s] = sessions[s]
        /\ sessions'[t].user = sessions[t].user /\ sessions'[t].by = sessions[t].by
        /\ sessions'[t].rights = sessions[t].rights
    BY <2>1 DEF Session
  <2>2. SessionsType'
    BY <2>1, <2>a DEF TypeOK, SessionsType
  <2>3. SessionsCurrent'
    BY <2>1, <2>a, Zenon DEF SessionsCurrent, Exists
  <2> QED BY <1>1, <2>2, <2>3 DEF Expires, TypeOK, SessionsType, WellAsked, fileVars
<1>2. ASSUME NEW t \in Tokens, Ends(t) PROVE AccountsInv'
  <2>1. SessionsType'
    BY <1>2 DEF Ends, TypeOK, SessionsType, Session, NoSession
  <2>2. SessionsCurrent'
    BY <1>2 DEF Ends, TypeOK, SessionsCurrent, NoSession, Exists
  <2> QED BY <1>2, <2>1, <2>2 DEF Ends, TypeOK, SessionsType, WellAsked, fileVars
<1>3. CASE Restart
  <2>1. users' \in [Users -> Account]
    BY <1>3, LoadedType DEF Restart, TypeOK
  <2>2. SessionsType' /\ SessionsCurrent'
    BY <1>3 DEF Restart, SessionsType, SessionsCurrent, Session, NoSession
  <2>3. login' \in [Logins -> [user : Users, stored : Hashes \cup {None}]]
    BY <1>3 DEF Restart, NoLogin
  <2>4. work' \in [Workers -> Work] /\ WellAsked'
    BY <1>3 DEF Restart, WellAsked, Asked, Work, NoWork, NoRequest, Request
  <2>5. /\ mirror' \in SUBSET Rows /\ acked' \in SUBSET Rows
        /\ disk' \in [rows : SUBSET Rows, whole : BOOLEAN] /\ failed' \in BOOLEAN
    BY <1>3 DEF Restart, TypeOK
  <2> QED BY <2>1, <2>2, <2>3, <2>4, <2>5 DEF TypeOK, SessionsType, Work
<1> QED BY <1>1, <1>2, <1>3

\* The invariant: types, requests that bring what they need, and every session
\* its account's, whatever admin requests and logins overlap.
THEOREM AccountsInvariant == Spec => []AccountsInv
<1>1. Init => AccountsInv
  BY InitInv
<1>2. AccountsInv /\ [Next]_vars => AccountsInv'
  <2> SUFFICES ASSUME AccountsInv, [Next]_vars PROVE AccountsInv'
    OBVIOUS
  <2>1. ASSUME NEW l \in Logins, LoginStep(l) PROVE AccountsInv'
    BY <2>1, LoginKeeps
  <2>2. ASSUME NEW w \in Workers, AdminStep(w) PROVE AccountsInv'
    BY <2>2, ChangeKeeps, AroundKeeps DEF AdminStep
  <2>3. CASE (\E t \in Tokens : Expires(t) \/ Ends(t)) \/ Restart
    BY <2>3, OthersKeep
  <2>4. CASE UNCHANGED vars
    BY <2>4 DEF AccountsInv, TypeOK, WellAsked, SessionsCurrent, Exists, vars, authVars, fileVars
  <2> QED BY <2>1, <2>2, <2>3, <2>4 DEF Next
<1> QED BY <1>1, <1>2, PTL DEF Spec

\* Every variable has its type, a free session is blank.
THEOREM TypeCorrect == Spec => []TypeOK
  BY AccountsInvariant, PTL DEF AccountsInv

\* No session outlives or exceeds its account.
THEOREM SessionsStayCurrent == Spec => []SessionsCurrent
  BY AccountsInvariant, PTL DEF AccountsInv

----------------------------------------------------------------------------
(* The last administrator, whatever requests overlap. *)

Demotes(req) == req.op = "remove" \/ (req.op = "set" /\ req.rights = {"admin"} /\ ~req.on)

\* What a removal or a demotion has seen and counted holds as long as its name
\* is the stored one and no other request has changed an account.
Counted(w) ==
  LET req == work[w].req
      holds == work[w].sole /\ ~req.typed IN
  /\ work[w].pc \in {"look", "count"} => Looks(req)
  /\ work[w].pc = "count" /\ holds => (work[w].target <=> req.user \in Admins)
  /\ work[w].pc = "act" /\ holds /\ Demotes(req) /\ req.user \in Admins =>
       Cardinality(Admins) > 1

CountedInv == \A w \in Workers : Counted(w)

\* Of more than one administrator, one is left without any given account.
LEMMA OneMore ==
  ASSUME NEW u, Cardinality(Admins) > 1
  PROVE  Admins \ {u} # {}
<1> SUFFICES ASSUME Admins \ {u} = {} PROVE FALSE
  OBVIOUS
<1>1. IsFiniteSet({u}) /\ Cardinality({u}) = 1
  BY FS_Singleton
<1>2. Cardinality(Admins) <= 1
  BY <1>1, FS_Subset
<1>3. Cardinality(Admins) \in Nat
  BY NamesAssumption, FS_Subset, FS_CardinalityType DEF Admins
<1> QED BY <1>2, <1>3

\* What leaves the users and the requests alone keeps what was counted.
LEMMA UntouchedCounted ==
  ASSUME CountedInv, UNCHANGED <<users, work>>
  PROVE  CountedInv' /\ Admins' = Admins
<1>1. Admins' = Admins
  BY DEF Admins, Exists
<1> QED BY <1>1 DEF CountedInv, Counted, Looks, Demotes

\* So does a step of one request that leaves the users alone and keeps its own
\* count.
LEMMA OneCounted ==
  ASSUME CountedInv, NEW w \in Workers, users' = users, Counted(w)',
         \A v \in Workers \ {w} : work'[v] = work[v]
  PROVE  CountedInv' /\ Admins' = Admins
<1>1. Admins' = Admins
  BY DEF Admins, Exists
<1>2. \A v \in Workers \ {w} : Counted(v)'
  BY <1>1 DEF CountedInv, Counted, Looks, Demotes
<1> QED BY <1>1, <1>2 DEF CountedInv

\* A request that has changed the users has no count to keep, and voids the
\* others'.
LEMMA ChangedCounted ==
  ASSUME work \in [Workers -> Work], CountedInv, NEW w \in Workers, Changed(w)
  PROVE  CountedInv'
<1> SUFFICES ASSUME NEW v \in Workers PROVE Counted(v)'
  BY DEF CountedInv
<1>1. CASE v = w
  BY <1>1, ChangedWork DEF Counted
<1>2. CASE v # w
  <2>1. work'[v] = [work[v] EXCEPT !.sole = FALSE]
    BY <1>2 DEF Changed
  <2>2. work'[v].pc = work[v].pc /\ work'[v].req = work[v].req /\ ~work'[v].sole
    BY <2>1 DEF Work
  <2> QED BY <2>2 DEF CountedInv, Counted, Looks
<1> QED BY <1>1, <1>2

\* A request begins, looks its account up and counts the administrators.
LEMMA CountKeeps ==
  ASSUME AccountsInv, CountedInv, NEW w \in Workers,
         (\E t \in Tokens, u \in Users : Asks(w, t, u)) \/ Look(w) \/ Count(w) \/ Unknown(w)
  PROVE  CountedInv' /\ Admins' = Admins
<1> DEFINE req == work[w].req
<1>1. work \in [Workers -> Work] /\ Counted(w)
  <2>1. TypeOK
    BY DEF AccountsInv
  <2> QED BY <2>1 DEF TypeOK, Work, CountedInv
<1>2. ASSUME Answered(w), users' = users PROVE CountedInv' /\ Admins' = Admins
  <2>1. work'[w] = NoWork /\ \A v \in Workers \ {w} : work'[v] = work[v]
    BY <1>1, <1>2 DEF Answered
  <2>2. Counted(w)'
    BY <2>1 DEF Counted, NoWork
  <2> QED BY <1>2, <2>1, <2>2, OneCounted
<1>3. ASSUME NEW t \in Tokens, NEW u \in Users, Asks(w, t, u)
      PROVE  CountedInv' /\ Admins' = Admins
  <2>1. PICK r \in Request : Begin(w, t, r) /\ Asked(r)
    BY <1>3, AsksType
  <2>2. work'[w] = [NoWork EXCEPT !.pc = IF Looks(r) THEN "look" ELSE "act", !.req = r]
        /\ users' = users /\ \A v \in Workers \ {w} : work'[v] = work[v]
    BY <1>1, <2>1 DEF Begin, authVars
  <2>3. /\ work'[w].pc = IF Looks(r) THEN "look" ELSE "act"
        /\ work'[w].req = r /\ ~work'[w].sole
    BY <2>2 DEF NoWork
  <2>4. Counted(w)'
    BY <2>3 DEF Counted, Looks
  <2> QED BY <2>2, <2>4, OneCounted
<1>4. CASE Look(w)
  <2>1. users' = users
    BY <1>4 DEF Look, authVars
  <2>2. CASE req.op = "set" /\ ~Found(req)
    BY <1>2, <1>4, <2>1, <2>2 DEF Look
  <2>3. CASE ~(req.op = "set" /\ ~Found(req))
    <3> DEFINE found == Found(req) /\ req.user \in Admins
    <3>1. work' = [work EXCEPT ![w] = [NoWork EXCEPT !.pc = "count", !.req = req,
                                                     !.sole = TRUE, !.target = found]]
      BY <1>4, <2>3 DEF Look
    <3>2. ~req.typed => (found <=> req.user \in Admins)
      BY DEF Found, Admins
    <3> HIDE DEF found
    <3>3. /\ work'[w].pc = "count" /\ work'[w].req = req /\ work'[w].target = found
          /\ \A v \in Workers \ {w} : work'[v] = work[v]
      BY <1>1, <3>1 DEF NoWork
    <3>4. Admins' = Admins
      BY <2>1 DEF Admins, Exists
    <3>5. Counted(w)'
      BY <1>1, <1>4, <3>2, <3>3, <3>4 DEF Look, Counted, Looks
    <3> QED BY <2>1, <3>3, <3>5, OneCounted
  <2> QED BY <2>2, <2>3
<1>5. CASE Count(w)
  <2>1. users' = users
    BY <1>5 DEF Count, authVars
  <2>2. CASE Refused(w)
    BY <1>2, <1>5, <2>1, <2>2 DEF Count
  <2>3. CASE ~Refused(w)
    <3>1. work' = [work EXCEPT ![w].pc = "act"]
      BY <1>5, <2>3 DEF Count
    <3>2. /\ work'[w].pc = "act" /\ work'[w].req = req /\ work'[w].sole = work[w].sole
          /\ \A v \in Workers \ {w} : work'[v] = work[v]
      BY <1>1, <3>1 DEF Work
    <3>3. work[w].sole /\ ~req.typed /\ Demotes(req) /\ req.user \in Admins =>
            Cardinality(Admins) > 1
      <4>1. Cardinality(Admins) \in Nat
        BY NamesAssumption, FS_Subset, FS_CardinalityType DEF Admins
      <4> QED BY <1>1, <1>5, <2>3, <4>1 DEF Count, Refused, Counted, Demotes
    <3>4. Admins' = Admins
      BY <2>1 DEF Admins, Exists
    <3>5. Counted(w)'
      BY <3>2, <3>3, <3>4 DEF Counted, Demotes
    <3> QED BY <2>1, <3>2, <3>5, OneCounted
  <2> QED BY <2>2, <2>3
<1>6. CASE Unknown(w)
  BY <1>2, <1>6 DEF Unknown, authVars
<1> QED BY <1>3, <1>4, <1>5, <1>6

\* What a request does that neither looks nor changes an account.
LEMMA SaveCounted ==
  ASSUME AccountsInv, CountedInv, NEW w \in Workers,
         \/ Kick(w) \/ Lockdown(w)
         \/ List(w) \/ Row(w) \/ Listed(w) \/ WriteTemp(w) \/ Replace(w) \/ SaveFails(w)
  PROVE  CountedInv' /\ Admins' = Admins
<1>1. work \in [Workers -> Work]
  <2>1. TypeOK
    BY DEF AccountsInv
  <2> QED BY <2>1 DEF TypeOK, Work
<1>2. users' = users
  BY DEF Kick, Lockdown, List, Row, Listed, WriteTemp, Replace, SaveFails, authVars, fileVars
<1>3. /\ \A v \in Workers \ {w} : work'[v] = work[v]
      /\ work'[w].pc \in {"idle", "row", "open", "rename"}
  <2>1. ASSUME Answered(w)
        PROVE  work'[w].pc = "idle" /\ \A v \in Workers \ {w} : work'[v] = work[v]
    BY <1>1, <2>1 DEF Answered, NoWork
  <2>2. ASSUME NEW pc \in {"open", "rename"}, NextStep(w, pc)
        PROVE  work'[w].pc = pc /\ \A v \in Workers \ {w} : work'[v] = work[v]
    BY <1>1, <2>2 DEF NextStep, Work
  <2>3. CASE Kick(w) \/ Replace(w) \/ SaveFails(w)
    BY <2>1, <2>3 DEF Kick, Replace, SaveFails
  <2>4. CASE Lockdown(w) \/ Listed(w) \/ WriteTemp(w)
    BY <2>2, <2>4 DEF Lockdown, Listed, WriteTemp
  <2>5. CASE List(w)
    <3> DEFINE next == [NoWork EXCEPT !.pc = "row", !.req = work[w].req, !.todo = RowsOf(users)]
    <3>1. work' = [work EXCEPT ![w] = next]
      BY <2>5 DEF List
    <3>2. next.pc = "row"
      BY DEF NoWork
    <3> HIDE DEF next
    <3> QED BY <1>1, <3>1, <3>2
  <2>6. CASE Row(w)
    BY <1>1, <2>6 DEF Row, Work
  <2> QED BY <2>3, <2>4, <2>5, <2>6
<1>4. Counted(w)'
  BY <1>3 DEF Counted
<1> QED BY <1>2, <1>3, <1>4, OneCounted

\* A change of an account that does not come by one of the ways round the count
\* leaves an administrator.
LEMMA ChangeCounted ==
  ASSUME AccountsInv, CountedInv, NEW w \in Workers,
         Add(w) \/ ChangePassword(w) \/ RemoveUser(w) \/ SetRight(w)
  PROVE  /\ CountedInv'
         /\ Admins # {} => Admins' # {} \/ (Uncounted(w) /\ work'[w].pc = "list")
<1> DEFINE req == work[w].req
<1>1. /\ work \in [Workers -> Work] /\ users \in [Users -> Account]
      /\ req \in Request /\ req.user \in Users /\ Asked(req) /\ Counted(w)
  <2>1. TypeOK
    BY DEF AccountsInv
  <2> QED BY <2>1 DEF TypeOK, Work, Request, AccountsInv, WellAsked, CountedInv
<1>2. Changed(w) /\ work[w].pc = "act"
  BY DEF Add, ChangePassword, RemoveUser, SetRight
<1>3. CountedInv'
  BY <1>1, <1>2, ChangedCounted
<1>4. work'[w].pc = "list"
  BY <1>1, <1>2, ChangedWork
<1> SUFFICES ASSUME Admins # {}, ~Uncounted(w) PROVE Admins' # {}
  BY <1>3, <1>4
<1>5. CASE Add(w)
  BY <1>5 DEF Add, Uncounted
<1>6. CASE ChangePassword(w)
  <2>1. users' = [users EXCEPT ![req.user].hash = req.hash] /\ req.hash # None
    BY <1>1, <1>6 DEF ChangePassword, Asked
  <2>2. \A u \in Users : users'[u].rights = users[u].rights
                         /\ (users[u].hash # None => users'[u].hash # None)
    BY <1>1, <2>1 DEF Account
  <2> QED BY <2>2 DEF Admins, Exists
<1>7. CASE RemoveUser(w)
  <2>1. users' = [users EXCEPT ![req.user] = NoAccount] /\ Demotes(req)
    BY <1>7 DEF RemoveUser, Demotes
  <2>2. PICK u \in Admins : u # req.user
    BY <1>1, <1>2, <2>1, OneMore DEF Counted, Uncounted
  <2>3. users'[u] = users[u]
    BY <1>1, <2>1, <2>2 DEF Admins
  <2> QED BY <2>2, <2>3 DEF Admins, Exists
<1>8. CASE SetRight(w)
  <2> DEFINE g == CHOOSE x \in req.rights : TRUE
  <2>1. req.rights = {g} /\ users' = [users EXCEPT ![req.user].rights = Regrant(@, g, req.on)]
    <3>1. PICK h \in Grants : req.rights = {h}
      BY <1>1, <1>8 DEF SetRight, Asked
    <3> QED BY <1>8, <3>1 DEF SetRight
  <2> HIDE DEF g
  <2>2. \A u \in Users \ {req.user} : users'[u] = users[u]
    BY <1>1, <2>1
  <2>3. /\ users'[req.user].hash = users[req.user].hash
        /\ users'[req.user].rights = Regrant(users[req.user].rights, g, req.on)
    BY <1>1, <2>1 DEF Account
  <2>4. CASE Demotes(req) /\ req.user \in Admins
    <3>1. PICK u \in Admins : u # req.user
      BY <1>1, <1>2, <2>4, OneMore DEF Counted, Uncounted
    <3> QED BY <2>2, <3>1 DEF Admins, Exists
  <2>5. CASE ~(Demotes(req) /\ req.user \in Admins)
    <3>1. PICK u \in Admins : TRUE
      OBVIOUS
    <3>2. CASE u = req.user
      <4>1. "admin" \in Regrant(users[u].rights, g, req.on)
        BY <1>8, <2>1, <2>5, <3>1, <3>2 DEF SetRight, Demotes, Regrant, Admins
      <4> QED BY <2>3, <3>1, <3>2, <4>1 DEF Admins, Exists
    <3>3. CASE u # req.user
      BY <2>2, <3>1, <3>3 DEF Admins, Exists
    <3> QED BY <3>2, <3>3
  <2> QED BY <2>4, <2>5
<1> QED BY <1>5, <1>6, <1>7, <1>8

\* No step takes the last administrator but by one of the ways round the count.
LEMMA StepCounted ==
  ASSUME AccountsInv, CountedInv, [Next]_vars
  PROVE  /\ CountedInv'
         /\ Admins # {} /\ Admins' = {} =>
              Restart \/ \E w \in Workers : Uncounted(w) /\ work'[w].pc = "list"
<1>1. ASSUME NEW l \in Logins, LoginStep(l) PROVE CountedInv' /\ Admins' = Admins
  BY <1>1, UntouchedCounted
     DEF LoginStep, LoginReads, LoginOvertaken, LoginIssues, LoginUnlucky, authVars
<1>2. ASSUME NEW w \in Workers, AdminStep(w)
      PROVE  /\ CountedInv'
             /\ Admins # {} => Admins' # {} \/ (Uncounted(w) /\ work'[w].pc = "list")
  BY <1>2, CountKeeps, SaveCounted, ChangeCounted DEF AdminStep
<1>3. ASSUME NEW t \in Tokens, Expires(t) \/ Ends(t) PROVE CountedInv' /\ Admins' = Admins
  BY <1>3, UntouchedCounted DEF Expires, Ends
<1>4. CASE Restart
  <2>1. \A w \in Workers : work'[w] = NoWork
    BY <1>4 DEF Restart
  <2> QED BY <1>4, <2>1 DEF CountedInv, Counted, NoWork
<1>5. CASE UNCHANGED vars
  BY <1>5, UntouchedCounted DEF vars, authVars
<1> QED BY <1>1, <1>2, <1>3, <1>4, <1>5 DEF Next

\* The last administrator is neither removed nor demoted, whatever requests
\* overlap, but by user/add over the account, by a name typed in another case,
\* by a change between the look and the act, or by a restart.
THEOREM AdministratorLeft == Spec => AdminLeft
<1>1. Init => CountedInv
  BY DEF Init, CountedInv, Counted, NoWork
<1>2. AccountsInv /\ CountedInv /\ [Next]_vars => CountedInv'
  BY StepCounted
<1>3. Spec => []CountedInv
  BY <1>1, <1>2, AccountsInvariant, PTL DEF Spec
<1>4. AccountsInv /\ CountedInv /\ [Next]_vars =>
        [ Admins # {} /\ Admins' = {} =>
            Restart \/ \E w \in Workers : Uncounted(w) /\ work'[w].pc = "list" ]_vars
  BY StepCounted
<1> QED BY <1>3, <1>4, AccountsInvariant, PTL DEF Spec, AdminLeft

----------------------------------------------------------------------------
(* What is in the file, with one admin request at a time. *)

\* A file a start can load.
Sound(rows) == \A r \in rows : r.hash # None

\* The mirror is what was acknowledged, or what is about to be.
Mirrored(w) ==
  LET locks == work[w].req.op = "lockdown" IN
  /\ work[w].pc \in {"list", "row"} => ~locks
  /\ work[w].pc = "row" => mirror \cup work[w].todo = RowsOf(users)
  /\ work[w].pc \in {"open", "rename"} /\ ~locks => mirror = RowsOf(users)
  /\ work[w].pc # "row" => Sound(mirror)
  /\ work[w].pc \in {"idle", "look", "count", "act"} \/ locks =>
       (~failed => mirror = acked)

SavedInv ==
  /\ disk.whole /\ Sound(disk.rows) /\ (~failed => disk.rows = acked)
  /\ \A w \in Workers : Mirrored(w)

\* A user list makes rows that are sound.
LEMMA RowsOfSound == Sound(RowsOf(users))
<1> DEFINE row(u) == [name |-> u, hash |-> users[u].hash, rights |-> users[u].rights]
<1>1. RowsOf(users) = {row(u) : u \in {v \in Users : users[v].hash # None}}
  BY DEF RowsOf
<1>2. \A u \in Users : row(u).hash = users[u].hash
  OBVIOUS
<1> HIDE DEF row
<1> QED BY <1>1, <1>2 DEF Sound

\* One admin request at a time.
OneAtATime == \A v, w \in Workers : v = w

\* What leaves the users, the requests and the files alone keeps the invariant.
LEMMA UntouchedSaved ==
  ASSUME SavedInv, UNCHANGED <<users, work, fileVars>>
  PROVE  SavedInv'
<1>1. RowsOf(users)' = RowsOf(users)
  BY DEF RowsOf
<1> QED BY <1>1 DEF SavedInv, Mirrored, Sound, fileVars

\* What a request does before it saves, the change included.
LEMMA BeforeSaved ==
  ASSUME OneAtATime, AccountsInv, SavedInv, NEW w \in Workers,
         \/ \E t \in Tokens, u \in Users : Asks(w, t, u)
         \/ Look(w) \/ Count(w) \/ Unknown(w)
         \/ Add(w) \/ ChangePassword(w) \/ RemoveUser(w) \/ SetRight(w) \/ Kick(w)
         \/ Lockdown(w)
  PROVE  SavedInv'
<1> DEFINE req == work[w].req
<1>1. work \in [Workers -> Work] /\ Mirrored(w)
  <2>1. TypeOK /\ SavedInv
    BY DEF AccountsInv
  <2>2. work \in [Workers -> Work]
    BY <2>1 DEF TypeOK, Work
  <2> QED BY <2>1, <2>2 DEF SavedInv
<1>2. ASSUME UNCHANGED fileVars, work[w].pc \in {"idle", "look", "count", "act"},
             \/ work'[w].pc \in {"idle", "look", "count", "act"}
             \/ work'[w].pc = "list" /\ work'[w].req.op # "lockdown"
             \/ work'[w].pc = "open" /\ work'[w].req.op = "lockdown"
      PROVE  SavedInv'
  <2>1. Sound(mirror) /\ (~failed => mirror = acked)
    BY <1>1, <1>2 DEF Mirrored
  <2>2. Mirrored(w)'
    BY <1>2, <2>1 DEF Mirrored, Sound, fileVars
  <2> QED BY <1>2, <2>2 DEF SavedInv, OneAtATime, Sound, fileVars
<1>3. ASSUME Answered(w) PROVE work'[w].pc = "idle"
  BY <1>1, <1>3 DEF Answered, NoWork
<1>4. ASSUME NEW t \in Tokens, NEW u \in Users, Asks(w, t, u) PROVE SavedInv'
  <2>1. PICK r \in Request : Begin(w, t, r) /\ Asked(r)
    BY <1>4, AsksType
  <2>2. work'[w].pc = IF Looks(r) THEN "look" ELSE "act"
    BY <1>1, <2>1 DEF Begin, NoWork
  <2> QED BY <1>2, <2>1, <2>2 DEF Begin
<1>5. CASE Look(w)
  <2>1. work'[w].pc \in {"idle", "count"}
    BY <1>1, <1>3, <1>5 DEF Look, NoWork
  <2> QED BY <1>2, <1>5, <2>1 DEF Look
<1>6. CASE Count(w)
  <2>1. work'[w].pc \in {"idle", "act"}
    BY <1>1, <1>3, <1>6 DEF Count, Work
  <2> QED BY <1>2, <1>6, <2>1 DEF Count
<1>7. CASE Unknown(w) \/ Kick(w)
  BY <1>2, <1>3, <1>7 DEF Unknown, Kick, fileVars
<1>8. CASE Add(w) \/ ChangePassword(w) \/ RemoveUser(w) \/ SetRight(w)
  <2>1. Changed(w) /\ UNCHANGED fileVars /\ work[w].pc = "act" /\ req.op # "lockdown"
    BY <1>8 DEF Add, ChangePassword, RemoveUser, SetRight
  <2>2. work'[w].pc = "list" /\ work'[w].req = req
    BY <1>1, <2>1, ChangedWork
  <2> QED BY <1>2, <2>1, <2>2
<1>9. CASE Lockdown(w)
  <2>1. work'[w].pc = "open" /\ work'[w].req = req /\ req.op = "lockdown"
    BY <1>1, <1>9 DEF Lockdown, NextStep, Work
  <2> QED BY <1>2, <1>9, <2>1 DEF Lockdown
<1> QED BY <1>4, <1>5, <1>6, <1>7, <1>8, <1>9

\* The users are listed row by row into the mirror, and the mirror is saved.
LEMMA SaveSaved ==
  ASSUME OneAtATime, AccountsInv, SavedInv, NEW w \in Workers,
         \/ List(w) \/ Row(w) \/ Listed(w) \/ WriteTemp(w) \/ Replace(w) \/ SaveFails(w)
  PROVE  SavedInv'
<1> DEFINE req == work[w].req
<1>1. /\ work \in [Workers -> Work] /\ users \in [Users -> Account]
      /\ Mirrored(w)
  BY DEF AccountsInv, TypeOK, SavedInv, Work
<1>2. /\ users' = users
      /\ work[w].pc \in {"list", "row", "open", "rename"}
  BY DEF List, Row, Listed, WriteTemp, Replace, SaveFails, authVars, fileVars
<1>3. RowsOf(users)' = RowsOf(users) /\ Sound(RowsOf(users))
  BY <1>1, <1>2, RowsOfSound DEF RowsOf
<1>4. ASSUME Mirrored(w)', UNCHANGED <<disk, acked, failed>>
      PROVE  SavedInv'
  BY <1>3, <1>4 DEF SavedInv, OneAtATime, Sound
<1>5. CASE List(w)
  <2>1. work'[w] = [NoWork EXCEPT !.pc = "row", !.req = work[w].req, !.todo = RowsOf(users)]
        /\ mirror' = {}
    BY <1>1, <1>5 DEF List
  <2>2. work'[w].pc = "row" /\ work'[w].req = req /\ work'[w].todo = RowsOf(users)
    BY <2>1 DEF NoWork
  <2>3. Mirrored(w)'
    BY <1>1, <1>3, <1>5, <2>1, <2>2 DEF List, Mirrored
  <2> QED BY <1>4, <1>5, <2>3 DEF List
<1>6. CASE Row(w)
  <2>1. PICK r \in work[w].todo :
          /\ mirror' = mirror \cup {[r EXCEPT !.hash = users[r.name].hash]}
          /\ work' = [work EXCEPT ![w].todo = @ \ {r}]
    BY <1>6 DEF Row
  <2>2. /\ work'[w].pc = "row" /\ work'[w].req = req /\ work'[w].todo = work[w].todo \ {r}
        /\ work[w].pc = "row" /\ mirror \cup work[w].todo = RowsOf(users)
    BY <1>1, <1>6, <2>1 DEF Row, Work, Mirrored
  <2>3. PICK u \in Users : r = [name |-> u, hash |-> users[u].hash, rights |-> users[u].rights]
    BY <2>2 DEF RowsOf
  <2>4. [r EXCEPT !.hash = users[r.name].hash] = r
    BY <2>3
  <2>5. Mirrored(w)'
    BY <1>1, <1>3, <2>1, <2>2, <2>4 DEF Mirrored
  <2> QED BY <1>4, <1>6, <2>5 DEF Row
<1>7. CASE Listed(w)
  <2>1. /\ work'[w].pc = "open" /\ work'[w].req = req /\ mirror' = mirror
        /\ mirror = RowsOf(users) /\ req.op # "lockdown"
    BY <1>1, <1>7 DEF Listed, NextStep, Work, Mirrored, fileVars
  <2>2. Mirrored(w)'
    BY <1>1, <1>3, <2>1 DEF Mirrored
  <2> QED BY <1>4, <1>7, <2>2 DEF Listed, fileVars
<1>8. CASE WriteTemp(w)
  <2>1. /\ work'[w].pc = "rename" /\ work'[w].req = req /\ work[w].pc = "open"
        /\ UNCHANGED <<mirror, acked, failed>>
    BY <1>1, <1>8 DEF WriteTemp, NextStep, Work, fileVars
  <2>2. Mirrored(w)'
    BY <1>1, <1>3, <2>1 DEF Mirrored, Sound
  <2> QED BY <1>4, <1>8, <2>2 DEF WriteTemp, fileVars
<1>9. CASE Replace(w)
  <2>1. /\ work'[w] = NoWork /\ mirror' = mirror /\ work[w].pc = "rename"
        /\ disk' = [rows |-> mirror, whole |-> TRUE] /\ Sound(mirror)
    BY <1>1, <1>9 DEF Replace, Answered, Mirrored
  <2>2. ~failed' => mirror = acked'
    BY <1>1, <1>9 DEF Replace, Mirrored
  <2>3. disk'.rows = mirror /\ disk'.whole
    BY <2>1
  <2>4. Mirrored(w)'
    BY <2>1, <2>2 DEF Mirrored, NoWork, NoRequest, Sound
  <2> QED BY <1>3, <2>1, <2>2, <2>3, <2>4 DEF SavedInv, OneAtATime, Sound
<1>10. CASE SaveFails(w)
  <2>1. /\ work'[w] = NoWork /\ UNCHANGED <<mirror, disk>> /\ Sound(mirror)
        /\ ~failed' => req.op = "lockdown" /\ UNCHANGED <<acked, failed>>
    BY <1>1, <1>10 DEF SaveFails, Answered, Mirrored
  <2>2. /\ ~failed' => mirror = acked'
        /\ ~failed' => disk.rows = acked'
    BY <1>1, <2>1 DEF Mirrored, SavedInv
  <2>3. Mirrored(w)'
    BY <2>1, <2>2 DEF Mirrored, NoWork, NoRequest, Sound
  <2> QED BY <1>3, <2>1, <2>2, <2>3 DEF SavedInv, OneAtATime, Sound
<1> QED BY <1>5, <1>6, <1>7, <1>8, <1>9, <1>10

\* The inductive invariant behind the file: with one admin request at a time,
\* the mirror is what was acknowledged or is about to be.
THEOREM SavedInvariant == OneAtATime => (Spec => []SavedInv)
<1> SUFFICES ASSUME OneAtATime PROVE Spec => []SavedInv
  OBVIOUS
<1>1. Init => SavedInv
  <2> SUFFICES ASSUME Init PROVE SavedInv
    OBVIOUS
  <2>1. PICK h \in Hashes \ {EnvHash} :
          disk = [rows |-> {[name |-> Admin, hash |-> h, rights |-> {"admin"}]},
                  whole |-> TRUE]
    BY DEF Init
  <2> DEFINE row == [name |-> Admin, hash |-> h, rights |-> {"admin"}]
  <2>2. disk.whole /\ disk.rows = {row}
    BY <2>1
  <2>3. row.hash # None
    BY NamesAssumption
  <2> HIDE DEF row
  <2>4. Sound(disk.rows)
    BY <2>2, <2>3 DEF Sound
  <2> QED BY <2>2, <2>4 DEF Init, SavedInv, Mirrored, NoWork, NoRequest
<1>2. AccountsInv /\ SavedInv /\ [Next]_vars => SavedInv'
  <2> SUFFICES ASSUME AccountsInv, SavedInv, [Next]_vars PROVE SavedInv'
    OBVIOUS
  <2>1. ASSUME NEW l \in Logins, LoginStep(l) PROVE SavedInv'
    BY <2>1, UntouchedSaved
       DEF LoginStep, LoginReads, LoginOvertaken, LoginIssues, LoginUnlucky, authVars
  <2>2. ASSUME NEW w \in Workers, AdminStep(w) PROVE SavedInv'
    BY <2>2, BeforeSaved, SaveSaved DEF AdminStep
  <2>3. ASSUME NEW t \in Tokens, Expires(t) \/ Ends(t) PROVE SavedInv'
    BY <2>3, UntouchedSaved DEF Expires, Ends
  <2>4. CASE Restart
    <3>1. \A w \in Workers : work'[w] = NoWork
      BY <2>4 DEF Restart
    <3>2. disk' = disk /\ mirror' = disk.rows /\ acked' = disk.rows
      BY <2>4 DEF Restart
    <3>3. \A w \in Workers : Mirrored(w)'
      BY <3>1, <3>2 DEF SavedInv, Mirrored, NoWork, NoRequest, Sound
    <3> QED BY <3>2, <3>3 DEF SavedInv, Sound
  <2>5. CASE UNCHANGED vars
    BY <2>5, UntouchedSaved DEF vars, authVars
  <2> QED BY <2>1, <2>2, <2>3, <2>4, <2>5 DEF Next
<1> QED BY <1>1, <1>2, AccountsInvariant, PTL DEF Spec

\* Config::Save: the file can be loaded whenever the process dies, and holds
\* what was last acknowledged, while admin requests do not overlap.
THEOREM FileHoldsAcknowledged == OneAtATime => (Spec => []AckedIsSaved)
<1>1. SavedInv => AckedIsSaved
  BY DEF SavedInv, Sound, AckedIsSaved, Loads
<1> QED BY <1>1, SavedInvariant, PTL
=============================================================================
