------------------------------- MODULE SignIn -------------------------------
(***************************************************************************)
(* Signing in and what ends a sign-in: internal/stockroom/auth.go,         *)
(* sessions.go and failsafe.go, with the handlers of users.go that change  *)
(* an account under its sessions.  The accounts are rows in Postgres; the  *)
(* sessions are a map in the server's memory, under a mutex of its own.    *)
(* No lock spans the two: a handler reads or writes one, then the other.   *)
(*                                                                         *)
(* A step is one statement, one call of the session store, or one          *)
(* transaction: each transaction here writes a single row and its log row, *)
(* so it happens at its commit or not at all.  LoginGuard has the lockout  *)
(* of typed passwords; here a password typed is the right one or is not.   *)
(***************************************************************************)
EXTENDS FiniteSets

CONSTANTS
    People,     \* accounts, as profile ids
    Admins,     \* those that are admins at the start
    Unset,      \* those that have no password at the start
    Failsafe,   \* the account ADMIN_STUDENT_NUMBER names, or None
    Tokens,     \* session tokens; one may be drawn again once nothing holds it
    Requests,   \* handlers running at once
    Calls,      \* the calls an instance exercises
    None

SignIns == {"scan", "typed"}
AdminCalls == {"promote", "demote", "reset", "archive", "unarchive", "delete"}
OwnCalls == {"first", "logout"}
Dropping == {"reset", "archive", "delete"}
TakingPlace == {"demote", "archive", "delete"}

ASSUME AccountsFit ==
    /\ Admins \subseteq People /\ Unset \subseteq People
    /\ Failsafe \in People \cup {None}
    /\ Calls \subseteq SignIns \cup AdminCalls \cup OwnCalls
    /\ None \notin People \cup Tokens

VARIABLES
    account,    \* profiles: [state, admin, password]
    live,       \* Sessions.sessions: the session of a token, or None
    job         \* each request's local variables and program counter

signVars == <<account, live, job>>

Account == [state : {"open", "archived", "gone"}, admin : BOOLEAN, password : BOOLEAN]

\* What the code keeps of a session, and three marks it does not: logged, that
\* its sign-in row is written and its client told the token; and whether, when
\* the account was last reset, archived or deleted, it was in the store
\* (present) or still being opened from what had been read before (early).
Session == [of : People, limited : BOOLEAN, logged : BOOLEAN,
            present : BOOLEAN, early : BOOLEAN]

ASSUME NoneIsNoSession == None \notin Session

Job == [pc : {"idle", "read", "open", "log", "get", "load", "act", "upgrade", "drop"},
        op : SignIns \cup AdminCalls \cup OwnCalls \cup {"none"},
        token : Tokens \cup {None},     \* the caller's, or the one being opened
        who : People \cup {None},       \* the account signing in, or the caller's
        on : People \cup {None},        \* the account an admin changes
        limited : BOOLEAN,
        early : BOOLEAN]                \* as in Session

Idle == [pc |-> "idle", op |-> "none", token |-> None, who |-> None, on |-> None,
         limited |-> FALSE, early |-> FALSE]

SignInTypeOK ==
    /\ account \in [People -> Account]
    /\ live \in [Tokens -> Session \cup {None}]
    /\ job \in [Requests -> Job]

SignInInit ==
    /\ account = [p \in People |-> [state |-> "open", admin |-> p \in Admins,
                                    password |-> p \notin Unset]]
    /\ live = [t \in Tokens |-> None]
    /\ job = [r \in Requests |-> Idle]

-----------------------------------------------------------------------------
Live == {t \in Tokens : live[t] # None}
SessionsOf(p) == {t \in Live : live[t].of = p}
At(pc) == {r \in Requests : job[r].pc = pc}

Becomes(r, j) == job' = [job EXCEPT ![r] = j]
Go(r, pc) == Becomes(r, [job[r] EXCEPT !.pc = pc])
Answer(r) == Becomes(r, Idle)

Remove(ts) == live' = [t \in Tokens |-> IF t \in ts THEN None ELSE live[t]]

-----------------------------------------------------------------------------
(* Signing in.                                                              *)

SignIn(r, way, p) ==
    /\ way \in Calls \cap SignIns
    /\ job[r].pc = "idle"
    /\ Becomes(r, [Idle EXCEPT !.pc = "read", !.op = way, !.who = p])
    /\ UNCHANGED <<account, live>>

\* A card opens a session for a student, limited while there is no password; an
\* admin is asked for the password instead.  An archived or unknown number is
\* refused.
ReadForScan(r) ==
    LET p == job[r].who IN
    /\ job[r].pc = "read" /\ job[r].op = "scan"
    /\ \/ /\ account[p].state = "open" /\ ~account[p].admin
          /\ Becomes(r, [job[r] EXCEPT !.pc = "open", !.limited = ~account[p].password])
       \/ /\ account[p].state # "open" \/ account[p].admin
          /\ Answer(r)
    /\ UNCHANGED <<account, live>>

\* The hash is compared with the profile as it was read.  The wrong password
\* ends here too.
ReadForPassword(r) ==
    LET p == job[r].who IN
    /\ job[r].pc = "read" /\ job[r].op = "typed"
    /\ \/ /\ account[p].state = "open" /\ account[p].password
          /\ Go(r, "open")
       \/ Answer(r)
    /\ UNCHANGED <<account, live>>

\* openSession: the overdue query has answered, and the store gets the session.
OpenSession(r, t) ==
    /\ job[r].pc = "open"
    /\ t \notin Live /\ \A q \in Requests : job[q].token # t
    /\ live' = [live EXCEPT ![t] = [of |-> job[r].who, limited |-> job[r].limited,
                                    logged |-> FALSE, present |-> FALSE,
                                    early |-> job[r].early]]
    /\ Becomes(r, [job[r] EXCEPT !.pc = "log", !.token = t])
    /\ UNCHANGED account

\* The sign-in is complete once it is in the log.
LogSignIn(r) ==
    LET t == job[r].token IN
    /\ job[r].pc = "log"
    /\ live' = [live EXCEPT ![t] = IF @ = None THEN None ELSE [@ EXCEPT !.logged = TRUE]]
    /\ Answer(r)
    /\ UNCHANGED account

\* Bug: the error is returned and the session stays.
LogFails_SessionStays(r) ==
    /\ job[r].pc = "log"
    /\ Answer(r)
    /\ UNCHANGED <<account, live>>

LogFails(r) ==
    /\ job[r].pc = "log"
    /\ Remove({job[r].token})
    /\ Answer(r)
    /\ UNCHANGED account

-----------------------------------------------------------------------------
(* Calls of a signed-in client.  A token the store no longer has is refused *)
(* and changes nothing, so calls start from tokens it has.                  *)

Call(r, op, t, p) ==
    /\ op \in Calls \ SignIns
    /\ job[r].pc = "idle"
    /\ t \in Live /\ live[t].logged
    /\ p # None <=> op \in AdminCalls
    /\ Becomes(r, [Idle EXCEPT !.pc = "get", !.op = op, !.token = t, !.on = p])
    /\ UNCHANGED <<account, live>>

\* Resolve: the session, from the store.
GetSession(r) ==
    LET t == job[r].token IN
    /\ job[r].pc = "get"
    /\ \/ /\ t \in Live
          /\ Becomes(r, [job[r] EXCEPT !.pc = "load", !.who = live[t].of,
                                       !.limited = live[t].limited])
       \/ t \notin Live /\ Answer(r)
    /\ UNCHANGED <<account, live>>

\* A limited session may set its password and log out, and so may any other; only a
\* full admin may change accounts; and nobody may take away their own place.
\* Bug: an admin may.
Allowed_Oneself(j) ==
    \/ j.op \in OwnCalls
    \/ ~j.limited /\ account[j.who].admin

Allowed(j) ==
    \/ j.op \in OwnCalls
    \/ ~j.limited /\ account[j.who].admin /\ (j.on = j.who => j.op \notin TakingPlace)

\* Resolve: the profile, from the database; then the handler's own gate.
LoadProfile(r) ==
    LET j == job[r]
        p == j.who IN
    /\ j.pc = "load"
    /\ \/ /\ account[p].state # "open"
          /\ Remove({j.token})
          /\ Answer(r)
       \/ /\ account[p].state = "open"
          /\ IF Allowed(j) THEN Go(r, "act") ELSE Answer(r)
          /\ UNCHANGED live
    /\ UNCHANGED account

Logout(r) ==
    /\ job[r].pc = "act" /\ job[r].op = "logout"
    /\ Remove({job[r].token})
    /\ Answer(r)
    /\ UNCHANGED account

\* Bug: a second first password replaces the first.
SetInitialPassword_Again(r) ==
    LET p == job[r].who IN
    /\ job[r].pc = "act" /\ job[r].op = "first"
    /\ account[p].state # "gone"
    /\ account' = [account EXCEPT ![p].password = TRUE]
    /\ Go(r, "upgrade")
    /\ UNCHANGED live

\* Bug: zero rows updated is taken as success.
SetInitialPassword_Unchecked(r) ==
    LET p == job[r].who IN
    /\ job[r].pc = "act" /\ job[r].op = "first"
    /\ account' = [account EXCEPT ![p].password = @ \/ account[p].state # "gone"]
    /\ Go(r, "upgrade")
    /\ UNCHANGED live

\* The first password of an account that still has none.
SetInitialPassword(r) ==
    LET p == job[r].who IN
    /\ job[r].pc = "act" /\ job[r].op = "first"
    /\ account[p].state # "gone" /\ ~account[p].password
    /\ account' = [account EXCEPT ![p].password = TRUE]
    /\ Go(r, "upgrade")
    /\ UNCHANGED live

Upgrade(r) ==
    LET t == job[r].token IN
    /\ job[r].pc = "upgrade"
    /\ live' = [live EXCEPT ![t] = IF @ = None THEN None ELSE [@ EXCEPT !.limited = FALSE]]
    /\ Answer(r)
    /\ UNCHANGED account

-----------------------------------------------------------------------------
(* What an admin changes.                                                   *)

\* Bookkeeping for the properties: everything already open or opening for p.
MarkSessions(p) == live' = [t \in Tokens |-> IF t \in SessionsOf(p)
                                             THEN [live[t] EXCEPT !.present = TRUE]
                                             ELSE live[t]]

Opening(q, p) == job[q].pc = "open" /\ job[q].who = p

MarkOpening(r, p, pc) ==
    job' = [q \in Requests |-> IF q = r THEN [job[r] EXCEPT !.pc = pc]
                               ELSE IF Opening(q, p) THEN [job[q] EXCEPT !.early = TRUE]
                               ELSE job[q]]

\* UpdateUser, as far as the admin flag goes.
SetAdmin(r) ==
    LET p == job[r].on IN
    /\ job[r].pc = "act" /\ job[r].op \in {"promote", "demote"}
    /\ account[p].state # "gone"
    /\ account' = [account EXCEPT ![p].admin = (job[r].op = "promote")]
    /\ Answer(r)
    /\ UNCHANGED live

Unarchive(r) ==
    LET p == job[r].on IN
    /\ job[r].pc = "act" /\ job[r].op = "unarchive"
    /\ account[p].state # "gone"
    /\ account' = [account EXCEPT ![p].state = "open"]
    /\ Answer(r)
    /\ UNCHANGED live

After(op, a) ==
    CASE op = "reset"   -> [a EXCEPT !.password = TRUE]
      [] op = "archive" -> [a EXCEPT !.state = "archived"]
      [] op = "delete"  -> [a EXCEPT !.state = "gone"]

\* Bug: the sessions are left to find out by themselves.
ChangeAccount_SessionsStay(r) ==
    LET p == job[r].on IN
    /\ job[r].pc = "act" /\ job[r].op \in Dropping
    /\ account[p].state # "gone"
    /\ account' = [account EXCEPT ![p] = After(job[r].op, @)]
    /\ MarkSessions(p)
    /\ MarkOpening(r, p, "idle")

\* The transaction of SetUserPassword, SetUserArchived or DeleteUser.
ChangeAccount(r) ==
    LET p == job[r].on IN
    /\ job[r].pc = "act" /\ job[r].op \in Dropping
    /\ account[p].state # "gone"
    /\ account' = [account EXCEPT ![p] = After(job[r].op, @)]
    /\ MarkSessions(p)
    /\ MarkOpening(r, p, "drop")

\* DeleteForProfile.
DropSessions(r) ==
    /\ job[r].pc = "drop"
    /\ Remove(SessionsOf(job[r].on))
    /\ Answer(r)
    /\ UNCHANGED account

-----------------------------------------------------------------------------
\* A statement refused, failing or cancelled before its commit: nothing of it is
\* left.  What follows a commit is in memory and cannot fail.
Abandon(r) ==
    /\ job[r].pc \in {"read", "open", "load", "act"}
    /\ Answer(r)
    /\ UNCHANGED <<account, live>>

\* A session idle too long, found by the next Get, Create or sweep.
Expire(t) ==
    /\ t \in Live
    /\ Remove({t})
    /\ UNCHANGED <<account, job>>

\* The server stops at any point and starts again: no session survives, and the
\* failsafe account is put back.  One that had been deleted comes back under a
\* new id; as nothing in memory remembers the old one, it is the same here.
Restart ==
    /\ live' = [t \in Tokens |-> None]
    /\ job' = [r \in Requests |-> Idle]
    /\ account' = [p \in People |->
                     IF p = Failsafe THEN [state |-> "open", admin |-> TRUE, password |-> TRUE]
                     ELSE account[p]]

Steps(r) ==
    \/ ReadForScan(r) \/ ReadForPassword(r) \/ LogSignIn(r) \/ LogFails(r)
    \/ \E t \in Tokens : OpenSession(r, t)
    \/ GetSession(r) \/ LoadProfile(r) \/ Logout(r) \/ SetInitialPassword(r) \/ Upgrade(r)
    \/ SetAdmin(r) \/ Unarchive(r) \/ ChangeAccount(r) \/ DropSessions(r) \/ Abandon(r)

SignInNext ==
    \/ \E r \in Requests :
          \/ \E way \in SignIns, p \in People : SignIn(r, way, p)
          \/ \E op \in Calls, t \in Tokens, p \in People \cup {None} : Call(r, op, t, p)
          \/ Steps(r)
    \/ \E t \in Tokens : Expire(t)
    \/ Restart

SignInSpec == SignInInit /\ [][SignInNext]_signVars

-----------------------------------------------------------------------------
(* What must hold.                                                          *)

\* Resetting, archiving or deleting an account ends every session that was in
\* the store at that moment, by the time the admin is answered, whatever else
\* opens, expires or is upgraded meanwhile.
SessionsThereAreDropped ==
    \A t \in Live : live[t].present => \E r \in At("drop") : job[r].on = live[t].of

\* No session is in the store without its sign-in row, unless the request that
\* opens it is still writing one: a sign-in that failed or was cancelled leaves
\* none behind.
SignInsAreLogged ==
    \A t \in Live : live[t].logged \/ \E r \in At("log") : job[r].token = t

\* Two people at two cards of one account without a password: one of them sets
\* it, the other is told it is set.
FirstPasswordIsSetOnce ==
    \A r, q \in At("upgrade") : job[r].who = job[q].who => r = q

\* A session that is not limited, or is about to be upgraded, belongs to an
\* account that has a password, however scans, first passwords and resets
\* interleave.
FullMeansPassword ==
    /\ \A t \in Live : ~live[t].limited => account[live[t].of].password
    /\ \A r \in At("upgrade") : account[job[r].who].password

\* The last admin who can sign in is demoted, archived or deleted only by a
\* request whose own caller has lost their place since Resolve read it: nobody
\* takes it from themselves, so the panel closes only when two cross.
AdminsLeft == {p \in People : account[p].state = "open" /\ account[p].admin}

LastAdminFallsToAStaleOne ==
    [][AdminsLeft # {} /\ AdminsLeft' = {}
         => \E r \in At("act") : /\ job[r].op \in TakingPlace
                                /\ job'[r] # job[r]
                                /\ job[r].who \notin AdminsLeft]_signVars

\* users.go:231 of the reset, and users.go:268 of archiving: no session opened
\* with what the account was before outlives the change.
NoneOutlivesTheReset ==
    \A t \in Live : live[t].logged /\ (live[t].present \/ live[t].early)
                        => \E r \in At("drop") : job[r].on = live[t].of

-----------------------------------------------------------------------------
(* Why: a request that has met its session still means the same account by  *)
(* its token, and one that opens a full session has read a password.  One   *)
(* that takes a place away was checked against taking its caller's.         *)

TokensKeepTheirAccount ==
    \A r \in Requests :
        /\ job[r].pc \notin {"idle", "get"} => job[r].who # None
        /\ job[r].op \in AdminCalls => job[r].on # None
        /\ job[r].pc \in {"log", "load", "act", "upgrade"} =>
              /\ job[r].token # None
              /\ job[r].token \in Live => live[job[r].token].of = job[r].who
        /\ job[r].pc = "get" => job[r].token # None
        /\ job[r].pc = "drop" => job[r].op \in AdminCalls
        /\ job[r].pc = "act" /\ job[r].op \in TakingPlace => job[r].on # job[r].who

ReadsKeepTheirPassword ==
    \A r \in At("open") \cup At("log") : ~job[r].limited => account[job[r].who].password

SignInInductive ==
    /\ SignInTypeOK
    /\ TokensKeepTheirAccount
    /\ ReadsKeepTheirPassword
    /\ SessionsThereAreDropped
    /\ SignInsAreLogged
    /\ FirstPasswordIsSetOnce
    /\ FullMeansPassword
=============================================================================
