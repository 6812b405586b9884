------------------------------ MODULE Accounts ------------------------------
(***************************************************************************)
(* Who may use the station: the users and sessions of AuthService          *)
(* (src/src/auth.cpp), the /api/admin routes that change them              *)
(* (src/src/api.cpp), the mirror of the users in the configuration, the    *)
(* file it is saved to (src/src/config.cpp) and what main loads from it.   *)
(*                                                                         *)
(* A password is known by the hash made of it; every HashPassword has a    *)
(* salt of its own, so a new hash is one that nothing in the state holds.  *)
(* The file is what the running system shows: a process that is killed and *)
(* started again finds it, a machine that loses its power may not, since   *)
(* nothing is synced.                                                      *)
(***************************************************************************)
EXTENDS Naturals, FiniteSets

CONSTANTS
  Users,     \* account names as they are stored, trimmed and in lower case
  Admin,     \* the name the HAMDECK_ADMIN_HASH override is added under
  Hashes,    \* password hashes
  EnvHash,   \* HAMDECK_ADMIN_HASH, or None
  None,      \* no account, no session, no hash
  Tokens,    \* bound: the sessions there are at one time
  Grants,    \* the rights granted one by one: "admin", "tx", "station"
  Logins,    \* HTTP workers in /api/auth/login
  Workers    \* HTTP workers in /api/admin

ASSUME NamesAssumption ==
  /\ IsFiniteSet(Users) /\ Admin \in Users /\ None \notin Users \cup Hashes
  /\ EnvHash \in Hashes \cup {None}
  /\ Grants \subseteq {"admin", "tx", "station"} /\ "admin" \in Grants

VARIABLES
  users,     \* users_
  sessions,  \* sessions_
  login,     \* what each login that is deriving a hash has read
  work,      \* where each admin request is, and what it has read
  mirror,    \* cfg->web_users
  disk,      \* the configuration file, as a process that opens it reads it
  acked,     \* ghost: the users of the last change that was answered "ok"
  failed     \* ghost: a change since then was answered with an error

authVars == <<users, sessions>>
fileVars == <<mirror, disk, acked, failed>>
vars == <<authVars, login, work, fileVars>>

Account == [hash : Hashes \cup {None}, rights : SUBSET Grants]
NoAccount == [hash |-> None, rights |-> {}]

\* expired: idle for longer than session_timeout_minutes_.  by is a ghost, the
\* hash the session was opened with, or None once user/add has replaced the
\* account under it.
Session == [user : Users \cup {None}, rights : SUBSET Grants,
            by : Hashes \cup {None}, expired : BOOLEAN]
NoSession == [user |-> None, rights |-> {}, by |-> None, expired |-> FALSE]

Rows == [name : Users, hash : Hashes \cup {None}, rights : SUBSET Grants]

\* The rows of a user list, and the users a list of rows is loaded as.
RowsOf(us) == {[name |-> u, hash |-> us[u].hash, rights |-> us[u].rights] :
                 u \in {v \in Users : us[v].hash # None}}

\* With the override of the environment, which is not a station account.
Loaded(rows) ==
  [u \in Users |->
     IF u = Admin /\ EnvHash # None
     THEN [hash |-> EnvHash, rights |-> Grants \ {"station"}]
     ELSE IF \E r \in rows : r.name = u
          THEN LET r == CHOOSE r \in rows : r.name = u
               IN [hash |-> r.hash, rights |-> r.rights]
          ELSE NoAccount]

Exists(u) == users[u].hash # None
Admins == {u \in Users : Exists(u) /\ "admin" \in users[u].rights}

Live(t) == sessions[t].user # None /\ ~sessions[t].expired

Fresh(h) ==
  /\ \A u \in Users : users[u].hash # h
  /\ \A r \in mirror \cup disk.rows : r.hash # h
  /\ \A l \in Logins : login[l].stored # h
  /\ \A w \in Workers : work[w].req.hash # h

Request == [op : {"add", "password", "remove", "set", "kick", "lockdown", "none"},
            user : Users, hash : Hashes \cup {None}, rights : SUBSET Grants,
            on : BOOLEAN, typed : BOOLEAN]

TypeOK ==
  /\ users \in [Users -> Account]
  /\ sessions \in [Tokens -> Session]
  /\ \A t \in Tokens : sessions[t].user = None => sessions[t] = NoSession
  /\ login \in [Logins -> [user : Users, stored : Hashes \cup {None}]]
  /\ work \in [Workers -> [pc : {"idle", "look", "count", "act", "list", "row",
                                 "open", "rename"},
                           req : Request, target : BOOLEAN, sole : BOOLEAN,
                           todo : SUBSET Rows]]
  /\ mirror \in SUBSET Rows /\ disk \in [rows : SUBSET Rows, whole : BOOLEAN]
  /\ acked \in SUBSET Rows /\ failed \in BOOLEAN

NoLogin == [user |-> Admin, stored |-> None]
NoRequest == [op |-> "none", user |-> Admin, hash |-> None, rights |-> {},
              on |-> FALSE, typed |-> FALSE]

\* typed: the name came in another case than it is stored in.  target: it was
\* found, as it was typed, to be an administrator's.  sole is a ghost: no other
\* request has changed an account since then.
NoWork == [pc |-> "idle", req |-> NoRequest, target |-> FALSE, sole |-> FALSE, todo |-> {}]

\* main loads the file the operator wrote, with one administrator.
Init ==
  /\ \E h \in Hashes \ {EnvHash} :
       disk = [rows |-> {[name |-> Admin, hash |-> h, rights |-> {"admin"}]},
               whole |-> TRUE]
  /\ users = Loaded(disk.rows)
  /\ sessions = [t \in Tokens |-> NoSession]
  /\ login = [l \in Logins |-> NoLogin]
  /\ work = [w \in Workers |-> NoWork]
  /\ mirror = disk.rows
  /\ acked = disk.rows /\ failed = FALSE

----------------------------------------------------------------------------
(* Login.  The stored hash is read under the mutex, the derivation that     *)
(* follows holds nothing, the outcome is recorded under the mutex again.   *)
(* Bound: a login that the throttle refuses, or whose password does not    *)
(* verify against what was read, changes the throttle only and is left out. *)

LoginReads(l, u) ==
  /\ login[l].stored = None /\ Exists(u)
  /\ login' = [login EXCEPT ![l] = [user |-> u, stored |-> users[u].hash]]
  /\ UNCHANGED <<authVars, work, fileVars>>

\* The account went, or its password changed, while the hash was derived.
Overtaken(l) == users[login[l].user].hash # login[l].stored

LoginOvertaken(l) ==
  /\ login[l].stored # None /\ Overtaken(l)
  /\ login' = [login EXCEPT ![l] = NoLogin]
  /\ UNCHANGED <<authVars, work, fileVars>>

Purged == [t \in Tokens |-> IF sessions[t].expired THEN NoSession ELSE sessions[t]]

Issues(l) ==
  \E t \in Tokens :
    /\ Purged[t].user = None
    /\ sessions' = [Purged EXCEPT ![t] =
                      [user |-> login[l].user, rights |-> users[login[l].user].rights,
                       by |-> login[l].stored, expired |-> FALSE]]

\* Mutant: a session is issued on what was read before the derivation.
IssuesUnread(l) ==
  /\ login[l].stored # None
  /\ Issues(l)
  /\ login' = [login EXCEPT ![l] = NoLogin]
  /\ UNCHANGED <<users, work, fileVars>>

LoginIssues(l) ==
  /\ login[l].stored # None /\ ~Overtaken(l)
  /\ Issues(l)
  /\ login' = [login EXCEPT ![l] = NoLogin]
  /\ UNCHANGED <<users, work, fileVars>>

\* RAND_bytes failed: no token.
LoginUnlucky(l) ==
  /\ login[l].stored # None /\ ~Overtaken(l)
  /\ sessions' = Purged
  /\ login' = [login EXCEPT ![l] = NoLogin]
  /\ UNCHANGED <<users, work, fileVars>>

----------------------------------------------------------------------------
(* Sessions. *)

Expires(t) ==
  /\ Live(t)
  /\ sessions' = [sessions EXCEPT ![t].expired = TRUE]
  /\ UNCHANGED <<users, login, work, fileVars>>

\* ValidateSession on a token that has timed out, or Logout.
Ends(t) ==
  /\ sessions[t].user # None
  /\ sessions' = [sessions EXCEPT ![t] = NoSession]
  /\ UNCHANGED <<users, login, work, fileVars>>

WithoutSessionsOf(u) ==
  [t \in Tokens |-> IF sessions[t].user = u THEN NoSession ELSE sessions[t]]

Regrant(rights, g, on) == IF on THEN rights \cup {g} ELSE rights \ {g}

WithRight(u, g, on) ==
  [t \in Tokens |-> IF sessions[t].user = u
                    THEN [sessions[t] EXCEPT !.rights = Regrant(@, g, on)]
                    ELSE sessions[t]]

----------------------------------------------------------------------------
(* The admin routes.  Each call into AuthService takes the mutex anew.     *)

Req(op, u, h, r, b, y) ==
  [op |-> op, user |-> u, hash |-> h, rights |-> r, on |-> b, typed |-> y]

Looks(req) == req.op = "remove" \/ (req.op = "set" /\ req.rights = {"admin"})

\* The admin gate has let the request through on a session that is live.
Begin(w, t, req) ==
  /\ work[w].pc = "idle"
  /\ Live(t) /\ "admin" \in sessions[t].rights
  /\ work' = [work EXCEPT ![w] = [NoWork EXCEPT !.pc = IF Looks(req) THEN "look" ELSE "act",
                                                !.req = req]]
  /\ UNCHANGED <<authVars, login, fileVars>>

\* The routes, one operator each.
AsksToAdd(w, t, u) ==
  \E h \in Hashes, r \in SUBSET (Grants \ {"station"}) :
    Fresh(h) /\ Begin(w, t, Req("add", u, h, r, FALSE, FALSE))

AsksPassword(w, t, u) ==
  \E h \in Hashes : Fresh(h) /\ Begin(w, t, Req("password", u, h, {}, FALSE, FALSE))

AsksToRemove(w, t, u) ==
  \E y \in BOOLEAN : Begin(w, t, Req("remove", u, None, {}, FALSE, y))

\* user/tx, user/admin and user/station, enable or disable.
AsksToSet(w, t, u) ==
  \E g \in Grants, b \in BOOLEAN, y \in BOOLEAN :
    Begin(w, t, Req("set", u, None, {g}, b, y))

AsksToKick(w, t, u) == Begin(w, t, Req("kick", u, None, {}, FALSE, FALSE))

AsksLockdown(w, t, u) == Begin(w, t, Req("lockdown", u, None, {}, FALSE, FALSE))

Asks(w, t, u) ==
  \/ AsksToAdd(w, t, u) \/ AsksPassword(w, t, u) \/ AsksToRemove(w, t, u)
  \/ AsksToSet(w, t, u) \/ AsksToKick(w, t, u) \/ AsksLockdown(w, t, u)

Answered(w) == work' = [work EXCEPT ![w] = NoWork]

\* ListUsers is searched for the name as it was typed.
Found(req) == Exists(req.user) /\ ~req.typed

Look(w) ==
  LET req == work[w].req IN
  /\ work[w].pc = "look"
  /\ IF req.op = "set" /\ ~Found(req)
     THEN Answered(w)
     ELSE work' = [work EXCEPT ![w] =
                     [NoWork EXCEPT !.pc = "count", !.req = req, !.sole = TRUE,
                                    !.target = Found(req) /\ req.user \in Admins]]
  /\ UNCHANGED <<authVars, login, fileVars>>

\* Mutant: the last administrator may be demoted, only not removed.
RefusedRemoval(w) == work[w].req.op = "remove" /\ work[w].target /\ Cardinality(Admins) <= 1

Refused(w) ==
  /\ work[w].target /\ Cardinality(Admins) <= 1
  /\ work[w].req.op = "remove" \/ ~work[w].req.on

Count(w) ==
  /\ work[w].pc = "count"
  /\ IF Refused(w) THEN Answered(w) ELSE work' = [work EXCEPT ![w].pc = "act"]
  /\ UNCHANGED <<authVars, login, fileVars>>

NextStep(w, pc) == work' = [work EXCEPT ![w].pc = pc]

\* The request has changed an account; no other is alone any more.
Changed(w) ==
  work' = [v \in Workers |-> IF v = w THEN [work[w] EXCEPT !.pc = "list"]
                             ELSE [work[v] EXCEPT !.sole = FALSE]]

\* An account of that name is replaced, whoever's it was; its sessions stay as
\* they are.
Add(w) ==
  LET req == work[w].req IN
  /\ work[w].pc = "act" /\ req.op = "add"
  /\ users' = [users EXCEPT ![req.user] = [hash |-> req.hash, rights |-> req.rights]]
  /\ sessions' = [t \in Tokens |-> IF sessions[t].user = req.user
                                   THEN [sessions[t] EXCEPT !.by = None] ELSE sessions[t]]
  /\ Changed(w)
  /\ UNCHANGED <<login, fileVars>>

\* No such user: 404.
Unknown(w) ==
  LET req == work[w].req IN
  /\ work[w].pc = "act" /\ req.op \in {"password", "remove", "set"} /\ ~Exists(req.user)
  /\ Answered(w)
  /\ UNCHANGED <<authVars, login, fileVars>>

ChangePassword(w) ==
  LET req == work[w].req IN
  /\ work[w].pc = "act" /\ req.op = "password" /\ Exists(req.user)
  /\ users' = [users EXCEPT ![req.user].hash = req.hash]
  /\ sessions' = WithoutSessionsOf(req.user)
  /\ Changed(w)
  /\ UNCHANGED <<login, fileVars>>

RemoveUser(w) ==
  LET req == work[w].req IN
  /\ work[w].pc = "act" /\ req.op = "remove" /\ Exists(req.user)
  /\ users' = [users EXCEPT ![req.user] = NoAccount]
  /\ sessions' = WithoutSessionsOf(req.user)
  /\ Changed(w)
  /\ UNCHANGED <<login, fileVars>>

SetRight(w) ==
  LET req == work[w].req
      g == CHOOSE x \in req.rights : TRUE IN
  /\ work[w].pc = "act" /\ req.op = "set" /\ Exists(req.user)
  /\ users' = [users EXCEPT ![req.user].rights = Regrant(@, g, req.on)]
  /\ sessions' = WithRight(req.user, g, req.on)
  /\ Changed(w)
  /\ UNCHANGED <<login, fileVars>>

Kick(w) ==
  /\ work[w].pc = "act" /\ work[w].req.op = "kick"
  /\ sessions' = WithoutSessionsOf(work[w].req.user)
  /\ Answered(w)
  /\ UNCHANGED <<users, login, fileVars>>

\* The configuration is saved as it stands, the users not mirrored anew.  The
\* flag itself, admin_only_login, is read by no route and left out.
Lockdown(w) ==
  /\ work[w].pc = "act" /\ work[w].req.op = "lockdown"
  /\ NextStep(w, "open")
  /\ UNCHANGED <<authVars, login, fileVars>>

----------------------------------------------------------------------------
(* persist_users and Config::Save.  Bound: one request at a time is between *)
(* List and its answer; two at once race on cfg->web_users.                *)

Saving(w) == work[w].pc \in {"row", "open", "rename"}

List(w) ==
  /\ work[w].pc = "list" /\ \A v \in Workers : ~Saving(v)
  /\ mirror' = {}
  /\ work' = [work EXCEPT ![w] = [NoWork EXCEPT !.pc = "row", !.req = work[w].req,
                                                !.todo = RowsOf(users)]]
  /\ UNCHANGED <<authVars, login, disk, acked, failed>>

\* The rights are those that were listed, the hash is asked for row by row.
Row(w) ==
  /\ work[w].pc = "row" /\ work[w].todo # {}
  /\ \E r \in work[w].todo :
       /\ mirror' = mirror \cup {[r EXCEPT !.hash = users[r.name].hash]}
       /\ work' = [work EXCEPT ![w].todo = @ \ {r}]
  /\ UNCHANGED <<authVars, login, disk, acked, failed>>

Listed(w) ==
  /\ work[w].pc = "row" /\ work[w].todo = {}
  /\ NextStep(w, "open")
  /\ UNCHANGED <<authVars, login, fileVars>>

\* Mutant: the file is written in place.
WriteInPlace(w) ==
  /\ work[w].pc = "open"
  /\ disk' = [disk EXCEPT !.whole = FALSE]
  /\ NextStep(w, "rename")
  /\ UNCHANGED <<authVars, login, mirror, acked, failed>>

\* The temporary file, which nothing reads, is written first; a stream that has
\* gone bad is noticed before the rename.  Nothing is synced.
WriteTemp(w) ==
  /\ work[w].pc = "open"
  /\ NextStep(w, "rename")
  /\ UNCHANGED <<authVars, login, fileVars>>

Replace(w) ==
  /\ work[w].pc = "rename"
  /\ disk' = [rows |-> mirror, whole |-> TRUE]
  /\ IF work[w].req.op = "lockdown" THEN UNCHANGED <<acked, failed>>
     ELSE acked' = RowsOf(users) /\ failed' = FALSE
  /\ Answered(w)
  /\ UNCHANGED <<authVars, login, mirror>>

\* The temporary file cannot be written or cannot replace the old one: the
\* answer is an error, except to lockdown, which does not look.
SaveFails(w) ==
  /\ work[w].pc \in {"open", "rename"}
  /\ IF work[w].req.op = "lockdown" THEN UNCHANGED <<acked, failed>>
     ELSE acked' = {} /\ failed' = TRUE
  /\ Answered(w)
  /\ UNCHANGED <<authVars, login, mirror, disk>>

\* A file that does not load stops the host from starting.
Loads == disk.whole /\ \A r \in disk.rows : r.hash # None

Restart ==
  /\ Loads
  /\ users' = Loaded(disk.rows)
  /\ sessions' = [t \in Tokens |-> NoSession]
  /\ login' = [l \in Logins |-> NoLogin]
  /\ work' = [w \in Workers |-> NoWork]
  /\ mirror' = disk.rows
  /\ acked' = disk.rows /\ failed' = FALSE
  /\ UNCHANGED disk

----------------------------------------------------------------------------

LoginStep(l) ==
  \/ \E u \in Users : LoginReads(l, u)
  \/ LoginOvertaken(l) \/ LoginIssues(l) \/ LoginUnlucky(l)

AdminStep(w) ==
  \/ \E t \in Tokens, u \in Users : Asks(w, t, u)
  \/ Look(w) \/ Count(w) \/ Unknown(w)
  \/ Add(w) \/ ChangePassword(w) \/ RemoveUser(w) \/ SetRight(w) \/ Kick(w) \/ Lockdown(w)
  \/ List(w) \/ Row(w) \/ Listed(w) \/ WriteTemp(w) \/ Replace(w) \/ SaveFails(w)

Next ==
  \/ \E l \in Logins : LoginStep(l)
  \/ \E w \in Workers : AdminStep(w)
  \/ \E t \in Tokens : Expires(t) \/ Ends(t)
  \/ Restart

Spec == Init /\ [][Next]_vars

----------------------------------------------------------------------------
(* Properties. *)

\* A session never outlives its account nor exceeds it: it was opened with the
\* password the account has now and has the rights the account has now, however
\* the admin routes and the logins that are still deriving a hash come between
\* one another.  Only the sessions of an account that user/add has replaced
\* keep what they had.
SessionsCurrent ==
  \A t \in Tokens :
    LET s == sessions[t] IN
    s.user # None =>
      /\ Exists(s.user)
      /\ s.by # None => s.by = users[s.user].hash /\ s.rights = users[s.user].rights

\* The ways round the count of administrators: user/add over an account, a name
\* typed in another case, and another request between the look and the act.
Uncounted(w) ==
  work[w].pc = "act" /\ (work[w].req.op = "add" \/ work[w].req.typed \/ ~work[w].sole)

\* The last administrator is neither removed nor demoted, but in one of those
\* ways, or by a restart from a file that names none.
AdminLeft ==
  [][ Admins # {} /\ Admins' = {} =>
        Restart \/ \E w \in Workers : Uncounted(w) /\ work'[w].pc = "list" ]_vars

\* The file can be loaded whenever the process dies, and while no change has
\* been answered with an error it holds exactly the users that were last
\* acknowledged: a crash between a change and its answer, or a save of
\* something else, neither loses one of them nor keeps a user that was said to
\* be gone.
AckedIsSaved == Loads /\ (~failed => disk.rows = acked)
=============================================================================
