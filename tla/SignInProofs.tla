---------------------------- MODULE SignInProofs ----------------------------
(***************************************************************************)
(* Proofs about SignIn, for any accounts, tokens and requests at once.     *)
(***************************************************************************)
EXTENDS SignIn, TLAPS

\* What SignInInductive asks of one request's variables.
Fits(j) ==
    /\ j.pc \notin {"idle", "get"} => j.who # None
    /\ j.op \in AdminCalls => j.on # None
    /\ j.pc \in {"log", "load", "act", "upgrade"} =>
          /\ j.token # None
          /\ j.token \in Live => live[j.token].of = j.who
    /\ j.pc = "get" => j.token # None
    /\ j.pc = "drop" => j.op \in AdminCalls
    /\ j.pc = "act" /\ j.op \in TakingPlace => j.on # j.who

\* Every request fits it.
LEMMA EveryJobFits ==
    ASSUME SignInInductive, NEW r \in Requests
    PROVE  job[r] \in Job /\ Fits(job[r])
BY DEF SignInInductive, SignInTypeOK, TokensKeepTheirAccount, Fits

\* A request that goes on, and perhaps writes its row: sessions stay as they
\* are, no password goes, and only a first password leads to an upgrade.
LEMMA JobStepKeeps ==
    ASSUME SignInInductive, NEW r \in Requests, NEW j \in Job,
           job' = [job EXCEPT ![r] = j],
           live' = live,
           account' \in [People -> Account],
           \A p \in People : account[p].password => account'[p].password,
           Fits(j),
           job[r].pc \notin {"log", "drop"},
           j.pc \notin {"log", "drop"},
           j.pc = "open" /\ ~j.limited => account[j.who].password,
           j.pc = "upgrade" => ~account[j.who].password /\ account'[j.who].password
    PROVE  SignInInductive'
<1>1. /\ job \in [Requests -> Job] /\ None \notin People
      /\ live \in [Tokens -> Session \cup {None}]
      /\ account \in [People -> Account]
    BY AccountsFit DEF SignInInductive, SignInTypeOK
<1>2. \A q \in Requests : job'[q] = IF q = r THEN j ELSE job[q]
    BY <1>1
<1>3. Live' = Live
    BY DEF Live
<1>4. \A q \in Requests : job[q] \in Job /\ Fits(job[q]) /\ job'[q] \in Job
    BY <1>2, EveryJobFits
<1>5. \A q \in Requests : job[q].pc \notin {"idle", "get"} => job[q].who \in People
    BY <1>4 DEF Fits, Job
<1>6. j.pc \notin {"idle", "get"} => j.who \in People
    BY DEF Fits, Job
<1>7. SignInTypeOK'
    BY <1>1, <1>2, <1>4 DEF SignInTypeOK
<1>8. TokensKeepTheirAccount'
    BY <1>2, <1>3, <1>4 DEF TokensKeepTheirAccount, Fits
<1>9. ReadsKeepTheirPassword'
    BY <1>2, <1>5, <1>6 DEF SignInInductive, ReadsKeepTheirPassword, At
<1>10. SessionsThereAreDropped'
  <2> SUFFICES ASSUME NEW t \in Live, live[t].present
               PROVE  \E q \in Requests : job'[q].pc = "drop" /\ job'[q].on = live[t].of
      BY <1>3 DEF SessionsThereAreDropped, At
  <2>1. PICK q \in Requests : job[q].pc = "drop" /\ job[q].on = live[t].of
      BY DEF SignInInductive, SessionsThereAreDropped, At
  <2> QED
      BY <1>2, <2>1
<1>11. SignInsAreLogged'
  <2> SUFFICES ASSUME NEW t \in Live, ~live[t].logged
               PROVE  \E q \in Requests : job'[q].pc = "log" /\ job'[q].token = t
      BY <1>3 DEF SignInsAreLogged, At
  <2>1. PICK q \in Requests : job[q].pc = "log" /\ job[q].token = t
      BY DEF SignInInductive, SignInsAreLogged, At
  <2> QED
      BY <1>2, <2>1
<1>12. FullMeansPassword'
    BY <1>1, <1>2, <1>3, <1>5, <1>6 DEF SignInInductive, FullMeansPassword, At, Live, Session
<1>13. FirstPasswordIsSetOnce'
    BY <1>2 DEF SignInInductive, FirstPasswordIsSetOnce, FullMeansPassword, At
<1> QED
    BY <1>7, <1>8, <1>9, <1>10, <1>11, <1>12, <1>13 DEF SignInInductive

\* Sessions end and requests are answered: a request answered before it wrote
\* its sign-in row takes its session with it, one answered before it dropped an
\* account's sessions drops them.
LEMMA RemovalKeeps ==
    ASSUME SignInInductive, NEW ts, NEW rs,
           Remove(ts),
           job' = [q \in Requests |-> IF q \in rs THEN Idle ELSE job[q]],
           UNCHANGED account,
           \A q \in rs \cap At("log") : job[q].token \in ts,
           \A q \in rs \cap At("drop") : SessionsOf(job[q].on) \subseteq ts
    PROVE  SignInInductive'
<1>1. /\ live \in [Tokens -> Session \cup {None}] /\ job \in [Requests -> Job]
      /\ Idle \in Job /\ Idle.pc = "idle" /\ Idle.op = "none" /\ None \notin People
    BY AccountsFit DEF SignInInductive, SignInTypeOK, Idle, Job
<1>2. /\ Live' = Live \ ts
      /\ \A t \in Live' : live'[t] = live[t]
    BY <1>1 DEF Remove, Live
<1>3. \A q \in Requests : job'[q] = IF q \in rs THEN Idle ELSE job[q]
    OBVIOUS
<1>4. SignInTypeOK'
    BY <1>1 DEF SignInInductive, SignInTypeOK, Remove
<1>5. TokensKeepTheirAccount'
    BY <1>1, <1>2, <1>3 DEF SignInInductive, TokensKeepTheirAccount, AdminCalls
<1>6. ReadsKeepTheirPassword'
    BY <1>1, <1>3 DEF SignInInductive, ReadsKeepTheirPassword, At
<1>7. SessionsThereAreDropped'
  <2> SUFFICES ASSUME NEW t \in Live', live[t].present
               PROVE  \E q \in Requests : job'[q].pc = "drop" /\ job'[q].on = live[t].of
      BY <1>2 DEF SessionsThereAreDropped, At
  <2>1. PICK q \in Requests : job[q].pc = "drop" /\ job[q].on = live[t].of
      BY <1>2 DEF SignInInductive, SessionsThereAreDropped, At
  <2>2. q \notin rs
      BY <1>2, <2>1 DEF At, SessionsOf
  <2> QED
      BY <1>3, <2>1, <2>2
<1>8. SignInsAreLogged'
  <2> SUFFICES ASSUME NEW t \in Live', ~live[t].logged
               PROVE  \E q \in Requests : job'[q].pc = "log" /\ job'[q].token = t
      BY <1>2 DEF SignInsAreLogged, At
  <2>1. PICK q \in Requests : job[q].pc = "log" /\ job[q].token = t
      BY <1>2 DEF SignInInductive, SignInsAreLogged, At
  <2>2. q \notin rs
      BY <1>2, <2>1 DEF At
  <2> QED
      BY <1>3, <2>1, <2>2
<1>9. FirstPasswordIsSetOnce'
    BY <1>1, <1>3 DEF SignInInductive, FirstPasswordIsSetOnce, At
<1>10. FullMeansPassword'
    BY <1>1, <1>2, <1>3 DEF SignInInductive, FullMeansPassword, At
<1> QED
    BY <1>4, <1>5, <1>6, <1>7, <1>8, <1>9, <1>10 DEF SignInInductive

\* A request answered as sessions end.
LEMMA AnswerRemovingKeeps ==
    ASSUME SignInInductive, NEW r \in Requests, NEW ts, Remove(ts), Answer(r),
           UNCHANGED account,
           job[r].pc = "log" => job[r].token \in ts,
           job[r].pc = "drop" => SessionsOf(job[r].on) \subseteq ts
    PROVE  SignInInductive'
<1>1. PICK rs : rs = {r}
    OBVIOUS
<1>2. job' = [q \in Requests |-> IF q \in rs THEN Idle ELSE job[q]]
    BY <1>1 DEF SignInInductive, SignInTypeOK, Answer, Becomes
<1>3. \A q \in rs \cap At("log") : job[q].token \in ts
    BY <1>1 DEF At
<1>4. \A q \in rs \cap At("drop") : SessionsOf(job[q].on) \subseteq ts
    BY <1>1 DEF At
<1> QED
    BY <1>2, <1>3, <1>4, RemovalKeeps

\* A handler that is not running fits.
LEMMA IdleFits ==
    Idle \in Job /\ Fits(Idle) /\ Idle.pc = "idle" /\ Idle.op = "none" /\ ~Idle.early
BY DEF Idle, Job, Fits, AdminCalls

\* A request answered before it had a session or a row to see to.
LEMMA AnswerKeeps ==
    ASSUME SignInInductive, NEW r \in Requests, Answer(r),
           UNCHANGED live,
           account' \in [People -> Account],
           \A p \in People : account[p].password => account'[p].password,
           job[r].pc \notin {"log", "drop"}
    PROVE  SignInInductive'
<1>1. job' = [job EXCEPT ![r] = Idle]
    BY DEF Answer, Becomes
<1> QED
    BY <1>1, IdleFits, JobStepKeeps

-----------------------------------------------------------------------------
\* A sign-in arrives.
LEMMA SignInKeeps ==
    ASSUME SignInInductive, NEW r \in Requests, NEW way \in SignIns, NEW p \in People,
           SignIn(r, way, p)
    PROVE  SignInInductive'
<1> DEFINE j == [Idle EXCEPT !.pc = "read", !.op = way, !.who = p]
<1>1. j \in Job /\ Fits(j) /\ j.pc = "read"
    BY AccountsFit DEF Idle, Job, Fits, SignIns, AdminCalls
<1>2. job' = [job EXCEPT ![r] = j] /\ live' = live /\ account' = account /\ job[r].pc = "idle"
    BY DEF SignIn, Becomes
<1>3. account \in [People -> Account]
    BY DEF SignInInductive, SignInTypeOK
<1> HIDE DEF j
<1> QED
    BY <1>1, <1>2, <1>3, JobStepKeeps

\* A card is scanned: a full session needs a password as it was read.
LEMMA ReadForScanKeeps ==
    ASSUME SignInInductive, NEW r \in Requests, ReadForScan(r)
    PROVE  SignInInductive'
<1> DEFINE p == job[r].who
           j == [job[r] EXCEPT !.pc = "open", !.limited = ~account[p].password]
<1>1. account \in [People -> Account] /\ job[r] \in Job /\ Fits(job[r])
    BY EveryJobFits DEF SignInInductive, SignInTypeOK
<1>2. job[r].pc = "read" /\ live' = live /\ account' = account
    BY DEF ReadForScan
<1>3. CASE Answer(r)
    BY <1>1, <1>2, <1>3, AnswerKeeps
<1>4. CASE job' = [job EXCEPT ![r] = j]
  <2>1. p \in People
      BY <1>1, <1>2 DEF Fits, Job
  <2>2. account[p].password \in BOOLEAN
      BY <1>1, <2>1 DEF Account
  <2>3. j \in Job /\ Fits(j) /\ j.pc = "open" /\ j.who = p
      BY <1>1, <1>2, <2>2 DEF Fits, Job
  <2>4. ~j.limited => account[p].password
      BY <1>1, <2>2 DEF Job
  <2> HIDE DEF j
  <2> QED
      BY <1>1, <1>2, <1>4, <2>3, <2>4, JobStepKeeps
<1> QED
    BY <1>3, <1>4 DEF ReadForScan, Becomes

\* A typed password was right.
LEMMA ReadForPasswordKeeps ==
    ASSUME SignInInductive, NEW r \in Requests, ReadForPassword(r)
    PROVE  SignInInductive'
<1> DEFINE p == job[r].who
           j == [job[r] EXCEPT !.pc = "open"]
<1>1. account \in [People -> Account] /\ job[r] \in Job /\ Fits(job[r])
    BY EveryJobFits DEF SignInInductive, SignInTypeOK
<1>2. job[r].pc = "read" /\ live' = live /\ account' = account
    BY DEF ReadForPassword
<1>3. CASE Answer(r)
    BY <1>1, <1>2, <1>3, AnswerKeeps
<1>4. CASE account[p].password /\ job' = [job EXCEPT ![r] = j]
  <2>1. j \in Job /\ Fits(j) /\ j.pc = "open" /\ j.who = p
      BY <1>1, <1>2 DEF Fits, Job
  <2> HIDE DEF j
  <2> QED
      BY <1>1, <1>2, <1>4, <2>1, JobStepKeeps
<1> QED
    BY <1>3, <1>4 DEF ReadForPassword, Go, Becomes

\* A call arrives.
LEMMA CallKeeps ==
    ASSUME SignInInductive, NEW r \in Requests, NEW op \in Calls, NEW t \in Tokens,
           NEW p \in People \cup {None}, Call(r, op, t, p)
    PROVE  SignInInductive'
<1> DEFINE j == [Idle EXCEPT !.pc = "get", !.op = op, !.token = t, !.on = p]
<1>1. (p # None <=> op \in AdminCalls) /\ op \in AdminCalls \cup OwnCalls
    BY AccountsFit DEF Call
<1>2. j \in Job /\ Fits(j) /\ j.pc = "get"
    BY <1>1, AccountsFit DEF Idle, Job, Fits
<1>3. job' = [job EXCEPT ![r] = j] /\ live' = live /\ account' = account /\ job[r].pc = "idle"
    BY DEF Call, Becomes
<1>4. account \in [People -> Account]
    BY DEF SignInInductive, SignInTypeOK
<1> HIDE DEF j
<1> QED
    BY <1>2, <1>3, <1>4, JobStepKeeps

\* The session is found.
LEMMA GetSessionKeeps ==
    ASSUME SignInInductive, NEW r \in Requests, GetSession(r)
    PROVE  SignInInductive'
<1> DEFINE t == job[r].token
           j == [job[r] EXCEPT !.pc = "load", !.who = live[t].of, !.limited = live[t].limited]
<1>1. account \in [People -> Account] /\ job[r] \in Job /\ Fits(job[r])
    BY EveryJobFits DEF SignInInductive, SignInTypeOK
<1>2. job[r].pc = "get" /\ live' = live /\ account' = account
    BY DEF GetSession
<1>3. CASE Answer(r)
    BY <1>1, <1>2, <1>3, AnswerKeeps
<1>4. CASE t \in Live /\ job' = [job EXCEPT ![r] = j]
  <2>1. live[t] \in Session
      BY <1>4 DEF SignInInductive, SignInTypeOK, Live
  <2>2. j \in Job /\ Fits(j) /\ j.pc = "load"
      BY <1>1, <1>2, <2>1, AccountsFit DEF Fits, Job, Session
  <2> HIDE DEF j
  <2> QED
      BY <1>1, <1>2, <1>4, <2>2, JobStepKeeps
<1> QED
    BY <1>3, <1>4 DEF GetSession, Becomes

\* The profile is found, and the call is allowed or not.
LEMMA LoadProfileKeeps ==
    ASSUME SignInInductive, NEW r \in Requests, LoadProfile(r)
    PROVE  SignInInductive'
<1> DEFINE j == [job[r] EXCEPT !.pc = "act"]
<1>1. account \in [People -> Account] /\ job[r] \in Job /\ Fits(job[r])
    BY EveryJobFits DEF SignInInductive, SignInTypeOK
<1>2. job[r].pc = "load" /\ account' = account
    BY DEF LoadProfile
<1>3. CASE Remove({job[r].token}) /\ Answer(r)
    BY <1>2, <1>3, AnswerRemovingKeeps
<1>4. CASE Answer(r) /\ live' = live
    BY <1>1, <1>2, <1>4, AnswerKeeps
<1>5. CASE Allowed(job[r]) /\ job' = [job EXCEPT ![r] = j] /\ live' = live
  <2>1. j \in Job /\ Fits(j) /\ j.pc = "act"
      BY <1>1, <1>2, <1>5 DEF Fits, Job, Allowed, OwnCalls, TakingPlace
  <2> HIDE DEF j
  <2> QED
      BY <1>1, <1>2, <1>5, <2>1, JobStepKeeps
<1> QED
    BY <1>3, <1>4, <1>5 DEF LoadProfile, Go, Becomes

\* A session is given up.
LEMMA LogoutKeeps ==
    ASSUME SignInInductive, NEW r \in Requests, Logout(r)
    PROVE  SignInInductive'
<1>1. Remove({job[r].token}) /\ Answer(r) /\ account' = account /\ job[r].pc = "act"
    BY DEF Logout
<1> QED
    BY <1>1, AnswerRemovingKeeps

\* A sign-in whose row could not be written takes its session with it.
LEMMA LogFailsKeeps ==
    ASSUME SignInInductive, NEW r \in Requests, LogFails(r)
    PROVE  SignInInductive'
<1>1. Remove({job[r].token}) /\ Answer(r) /\ account' = account /\ job[r].pc = "log"
    BY DEF LogFails
<1> QED
    BY <1>1, AnswerRemovingKeeps

\* An account's sessions are dropped.
LEMMA DropSessionsKeeps ==
    ASSUME SignInInductive, NEW r \in Requests, DropSessions(r)
    PROVE  SignInInductive'
<1>1. Remove(SessionsOf(job[r].on)) /\ Answer(r) /\ account' = account /\ job[r].pc = "drop"
    BY DEF DropSessions
<1> QED
    BY <1>1, AnswerRemovingKeeps

\* A session was idle too long.
LEMMA ExpireKeeps ==
    ASSUME SignInInductive, NEW t \in Tokens, Expire(t)
    PROVE  SignInInductive'
<1>1. PICK rs : rs = {}
    OBVIOUS
<1>2. job' = [q \in Requests |-> IF q \in rs THEN Idle ELSE job[q]]
    BY <1>1 DEF SignInInductive, SignInTypeOK, Expire
<1>3. Remove({t}) /\ account' = account
    BY DEF Expire
<1>4. rs \cap At("log") = {} /\ rs \cap At("drop") = {}
    BY <1>1
<1> QED
    BY <1>2, <1>3, <1>4, RemovalKeeps

\* A statement fails before its commit.
LEMMA AbandonKeeps ==
    ASSUME SignInInductive, NEW r \in Requests, Abandon(r)
    PROVE  SignInInductive'
<1>1. account \in [People -> Account]
    BY DEF SignInInductive, SignInTypeOK
<1> QED
    BY <1>1, AnswerKeeps DEF Abandon

\* The admin flag and the archived mark take no password.
LEMMA SetAdminKeeps ==
    ASSUME SignInInductive, NEW r \in Requests, SetAdmin(r) \/ Unarchive(r)
    PROVE  SignInInductive'
<1>1. account \in [People -> Account]
    BY DEF SignInInductive, SignInTypeOK
<1>2. \/ account' = [account EXCEPT ![job[r].on].admin = (job[r].op = "promote")]
      \/ account' = [account EXCEPT ![job[r].on].state = "open"]
    BY DEF SetAdmin, Unarchive
<1>3. PICK b \in BOOLEAN : b = (job[r].op = "promote")
    OBVIOUS
<1>4. /\ account' \in [People -> Account]
      /\ \A p \in People : account'[p].password = account[p].password
  <2>1. CASE account' = [account EXCEPT ![job[r].on].admin = b]
      BY <1>1, <2>1 DEF Account
  <2>2. CASE account' = [account EXCEPT ![job[r].on].state = "open"]
      BY <1>1, <2>2 DEF Account
  <2> QED
      BY <1>2, <1>3, <2>1, <2>2
<1>5. Answer(r) /\ live' = live /\ job[r].pc = "act"
    BY DEF SetAdmin, Unarchive
<1> QED
    BY <1>4, <1>5, AnswerKeeps

\* A first password is stored: nobody else was about to upgrade a session of the account.
LEMMA SetInitialPasswordKeeps ==
    ASSUME SignInInductive, NEW r \in Requests, SetInitialPassword(r)
    PROVE  SignInInductive'
<1> DEFINE p == job[r].who
           j == [job[r] EXCEPT !.pc = "upgrade"]
<1>1. /\ job[r].pc = "act" /\ live' = live /\ ~account[p].password
      /\ account' = [account EXCEPT ![p].password = TRUE]
      /\ job' = [job EXCEPT ![r] = j]
    BY DEF SetInitialPassword, Go, Becomes
<1>2. account \in [People -> Account] /\ job[r] \in Job /\ Fits(job[r])
    BY EveryJobFits DEF SignInInductive, SignInTypeOK
<1>3. p \in People
    BY <1>1, <1>2 DEF Fits, Job
<1>4. j \in Job /\ Fits(j) /\ j.pc = "upgrade" /\ j.who = p
    BY <1>1, <1>2 DEF Fits, Job
<1>5. /\ account' \in [People -> Account] /\ account'[p].password
      /\ \A x \in People : account[x].password => account'[x].password
    BY <1>1, <1>2, <1>3 DEF Account
<1> HIDE DEF j
<1> QED
    BY <1>1, <1>4, <1>5, JobStepKeeps

\* A new session: its token was nobody's, so no request means another account by
\* it; it was not there at any reset; its row is being written.
LEMMA OpenSessionKeeps ==
    ASSUME SignInInductive, NEW r \in Requests, NEW t \in Tokens, OpenSession(r, t)
    PROVE  SignInInductive'
<1> DEFINE new == [of |-> job[r].who, limited |-> job[r].limited, logged |-> FALSE,
                   present |-> FALSE, early |-> job[r].early]
           j == [job[r] EXCEPT !.pc = "log", !.token = t]
<1>1. /\ live \in [Tokens -> Session \cup {None}] /\ job \in [Requests -> Job]
      /\ None \notin People /\ None \notin Tokens
    BY AccountsFit DEF SignInInductive, SignInTypeOK
<1>2. /\ job[r].pc = "open" /\ t \notin Live /\ \A q \in Requests : job[q].token # t
      /\ live' = [live EXCEPT ![t] = new] /\ job' = [job EXCEPT ![r] = j] /\ account' = account
    BY DEF OpenSession, Becomes
<1>3. \A q \in Requests : job[q] \in Job /\ Fits(job[q])
    BY EveryJobFits
<1>4. job[r].who \in People
    BY <1>2, <1>3 DEF Fits, Job
<1>5. new \in Session /\ new # None
  <2>1. job[r].limited \in BOOLEAN /\ job[r].early \in BOOLEAN
      BY <1>3 DEF Job
  <2>2. new \in Session
      BY <1>4, <2>1 DEF Session
  <2> QED
      BY <2>2, NoneIsNoSession
<1>6. j \in Job /\ j.pc = "log" /\ j.who = job[r].who /\ j.token = t /\ j.op = job[r].op
      /\ j.on = job[r].on /\ j.limited = job[r].limited
    BY <1>3, <1>4 DEF Job
<1>7. new.of = job[r].who /\ ~new.logged /\ ~new.present /\ new.limited = job[r].limited
    OBVIOUS
<1> HIDE DEF new, j
<1>8. Live' = Live \cup {t} /\ \A x \in Tokens : live'[x] = IF x = t THEN new ELSE live[x]
    BY <1>1, <1>2, <1>5 DEF Live
<1>9. \A q \in Requests : job'[q] = IF q = r THEN j ELSE job[q]
    BY <1>1, <1>2
<1>10. SignInTypeOK'
    BY <1>1, <1>2, <1>5, <1>6 DEF SignInInductive, SignInTypeOK
<1>11. TokensKeepTheirAccount'
    BY <1>1, <1>2, <1>3, <1>4, <1>6, <1>7, <1>8, <1>9 DEF TokensKeepTheirAccount, Fits
<1>12. ReadsKeepTheirPassword'
    BY <1>2, <1>6, <1>9 DEF SignInInductive, ReadsKeepTheirPassword, At
<1>13. SessionsThereAreDropped'
  <2> SUFFICES ASSUME NEW x \in Live, live[x].present, x # t
               PROVE  \E q \in Requests : job'[q].pc = "drop" /\ job'[q].on = live[x].of
      BY <1>1, <1>2, <1>7, <1>8 DEF SessionsThereAreDropped, At, Live
  <2>1. PICK q \in Requests : job[q].pc = "drop" /\ job[q].on = live[x].of
      BY DEF SignInInductive, SessionsThereAreDropped, At
  <2> QED
      BY <1>2, <1>9, <2>1
<1>14. SignInsAreLogged'
  <2> SUFFICES ASSUME NEW x \in Live \cup {t}, x = t \/ ~live[x].logged
               PROVE  \E q \in Requests : job'[q].pc = "log" /\ job'[q].token = x
      BY <1>1, <1>8 DEF SignInsAreLogged, At, Live
  <2>1. CASE x = t
      BY <1>6, <1>9, <2>1
  <2>2. CASE x # t
    <3>1. PICK q \in Requests : job[q].pc = "log" /\ job[q].token = x
        BY <2>2 DEF SignInInductive, SignInsAreLogged, At
    <3> QED
        BY <1>2, <1>9, <3>1
  <2> QED
      BY <2>1, <2>2
<1>15. FirstPasswordIsSetOnce'
    BY <1>6, <1>9 DEF SignInInductive, FirstPasswordIsSetOnce, At
<1>16. FullMeansPassword'
  <2>1. ~job[r].limited => account[job[r].who].password
      BY <1>2 DEF SignInInductive, ReadsKeepTheirPassword, At
  <2> QED
      BY <1>1, <1>2, <1>6, <1>7, <1>8, <1>9, <2>1 DEF SignInInductive, FullMeansPassword, At, Live
<1> QED
    BY <1>10, <1>11, <1>12, <1>13, <1>14, <1>15, <1>16 DEF SignInInductive

\* A session rewritten in place, if it is still there, and the request answered.
LEMMA SessionStepKeeps ==
    ASSUME SignInInductive, NEW r \in Requests, NEW t \in Tokens,
           NEW new \in Session,
           live' = [live EXCEPT ![t] = IF @ = None THEN None ELSE new],
           Answer(r), UNCHANGED account,
           t \in Live => /\ new.of = live[t].of /\ new.present = live[t].present
                         /\ live[t].logged => new.logged
                         /\ ~new.limited /\ live[t].limited => account[new.of].password,
           job[r].pc # "drop",
           job[r].pc = "log" => job[r].token = t /\ new.logged
    PROVE  SignInInductive'
<1>1. /\ live \in [Tokens -> Session \cup {None}] /\ job \in [Requests -> Job]
      /\ None \notin Session
    BY NoneIsNoSession DEF SignInInductive, SignInTypeOK
<1>2. \A q \in Requests : job'[q] = IF q = r THEN Idle ELSE job[q]
    BY <1>1 DEF Answer, Becomes
<1>3. \A x \in Tokens : live'[x] = IF x = t /\ t \in Live THEN new ELSE live[x]
    BY <1>1 DEF Live
<1>4. Live' = Live
    BY <1>1, <1>3 DEF Live
<1>5. \A x \in Live : /\ x \in Tokens /\ live'[x].of = live[x].of /\ live'[x].present = live[x].present
                      /\ live[x].logged => live'[x].logged
    BY <1>3 DEF Live
<1>6. SignInTypeOK'
  <2>1. live' \in [Tokens -> Session \cup {None}]
      BY <1>1
  <2>2. job' \in [Requests -> Job]
      BY <1>1, IdleFits DEF Answer, Becomes
  <2> QED
      BY <2>1, <2>2 DEF SignInInductive, SignInTypeOK
<1>7. TokensKeepTheirAccount'
    BY <1>2, <1>4, <1>5, IdleFits DEF SignInInductive, TokensKeepTheirAccount, AdminCalls
<1>8. ReadsKeepTheirPassword'
    BY <1>2, IdleFits DEF SignInInductive, ReadsKeepTheirPassword, At
<1>9. SessionsThereAreDropped'
  <2> SUFFICES ASSUME NEW x \in Live, live[x].present
               PROVE  \E q \in Requests : job'[q].pc = "drop" /\ job'[q].on = live[x].of
      BY <1>4, <1>5 DEF SessionsThereAreDropped, At
  <2>1. PICK q \in Requests : job[q].pc = "drop" /\ job[q].on = live[x].of
      BY DEF SignInInductive, SessionsThereAreDropped, At
  <2> QED
      BY <1>2, <2>1
<1>10. SignInsAreLogged'
  <2> SUFFICES ASSUME NEW x \in Live, ~live'[x].logged
               PROVE  \E q \in Requests : job'[q].pc = "log" /\ job'[q].token = x
      BY <1>4 DEF SignInsAreLogged, At
  <2>1. PICK q \in Requests : job[q].pc = "log" /\ job[q].token = x
      BY <1>5 DEF SignInInductive, SignInsAreLogged, At
  <2>2. q # r
      BY <1>3, <1>5, <2>1
  <2> QED
      BY <1>2, <2>1, <2>2
<1>11. FirstPasswordIsSetOnce'
    BY <1>2, IdleFits DEF SignInInductive, FirstPasswordIsSetOnce, At
<1>12. FullMeansPassword'
  <2>1. \A x \in Live : ~live'[x].limited => account[live[x].of].password
    <3>1. SUFFICES ASSUME NEW x \in Live, ~live'[x].limited
                   PROVE  account[live[x].of].password
        OBVIOUS
    <3>2. CASE ~live[x].limited
        BY <3>2 DEF SignInInductive, FullMeansPassword
    <3>3. CASE live[x].limited
        BY <1>3, <1>5, <3>1, <3>3
    <3> QED
        BY <3>2, <3>3
  <2> QED
      BY <1>2, <1>4, <1>5, <2>1, IdleFits DEF SignInInductive, FullMeansPassword, At
<1> QED
    BY <1>6, <1>7, <1>8, <1>9, <1>10, <1>11, <1>12 DEF SignInInductive

\* The log row is written: the request means its own session by its token.
LEMMA LogSignInKeeps ==
    ASSUME SignInInductive, NEW r \in Requests, LogSignIn(r)
    PROVE  SignInInductive'
<1>1. PICK t : t = job[r].token
    OBVIOUS
<1>2. /\ job[r].pc = "log" /\ Answer(r) /\ account' = account
      /\ live' = [live EXCEPT ![t] = IF @ = None THEN None ELSE [@ EXCEPT !.logged = TRUE]]
    BY <1>1 DEF LogSignIn
<1>3. t \in Tokens
    BY <1>1, <1>2, EveryJobFits DEF Fits, Job
<1>4. live \in [Tokens -> Session \cup {None}]
    BY DEF SignInInductive, SignInTypeOK
<1>5. CASE t \in Live
  <2>1. PICK new : new = [live[t] EXCEPT !.logged = TRUE]
      OBVIOUS
  <2>2. live[t] \in Session
      BY <1>4, <1>5 DEF Live
  <2>3. /\ new \in Session /\ new.of = live[t].of /\ new.present = live[t].present
        /\ new.logged /\ new.limited = live[t].limited
      BY <2>1, <2>2 DEF Session
  <2>4. live' = [live EXCEPT ![t] = IF @ = None THEN None ELSE new]
      BY <1>2, <2>1
  <2> QED
      BY <1>1, <1>2, <1>3, <2>3, <2>4, SessionStepKeeps
<1>6. CASE t \notin Live
  <2>1. Remove({t})
      BY <1>2, <1>3, <1>4, <1>6 DEF Live, Remove
  <2> QED
      BY <1>1, <1>2, <2>1, AnswerRemovingKeeps
<1> QED
    BY <1>5, <1>6

\* The first password was stored, so the session may be full.
LEMMA UpgradeKeeps ==
    ASSUME SignInInductive, NEW r \in Requests, Upgrade(r)
    PROVE  SignInInductive'
<1>1. PICK t : t = job[r].token
    OBVIOUS
<1>2. /\ job[r].pc = "upgrade" /\ Answer(r) /\ account' = account
      /\ live' = [live EXCEPT ![t] = IF @ = None THEN None ELSE [@ EXCEPT !.limited = FALSE]]
    BY <1>1 DEF Upgrade
<1>3. t \in Tokens /\ (t \in Live => live[t].of = job[r].who)
    BY <1>1, <1>2, EveryJobFits DEF Fits, Job
<1>4. live \in [Tokens -> Session \cup {None}] /\ account[job[r].who].password
    BY <1>2 DEF SignInInductive, SignInTypeOK, FullMeansPassword, At
<1>5. CASE t \in Live
  <2>1. PICK new : new = [live[t] EXCEPT !.limited = FALSE]
      OBVIOUS
  <2>2. live[t] \in Session
      BY <1>4, <1>5 DEF Live
  <2>3. /\ new \in Session /\ new.of = live[t].of /\ new.present = live[t].present
        /\ new.logged = live[t].logged
      BY <2>1, <2>2 DEF Session
  <2>4. live' = [live EXCEPT ![t] = IF @ = None THEN None ELSE new]
      BY <1>2, <2>1
  <2>5. account[new.of].password
      BY <1>3, <1>4, <1>5, <2>3
  <2>6. live[t].logged => new.logged
      BY <2>3
  <2>7. job[r].pc # "drop" /\ job[r].pc # "log"
      BY <1>2
  <2> QED
      BY <1>2, <1>3, <2>3, <2>4, <2>5, <2>6, <2>7, SessionStepKeeps
<1>6. CASE t \notin Live
  <2>1. Remove({t})
      BY <1>2, <1>3, <1>4, <1>6 DEF Live, Remove
  <2> QED
      BY <1>2, <2>1, AnswerRemovingKeeps
<1> QED
    BY <1>5, <1>6

\* A reset, an archiving or a deletion commits: every session of the account is
\* marked as there, and its request is now the one that will drop them.
LEMMA ChangeAccountKeeps ==
    ASSUME SignInInductive, NEW r \in Requests, ChangeAccount(r)
    PROVE  SignInInductive'
<1>1. PICK p : p = job[r].on
    OBVIOUS
<1>2. /\ job[r].pc = "act" /\ job[r].op \in Dropping
      /\ account' = [account EXCEPT ![p] = After(job[r].op, @)]
      /\ MarkSessions(p) /\ MarkOpening(r, p, "drop")
    BY <1>1 DEF ChangeAccount
<1>3. /\ live \in [Tokens -> Session \cup {None}] /\ job \in [Requests -> Job]
      /\ account \in [People -> Account] /\ None \notin Session
    BY NoneIsNoSession DEF SignInInductive, SignInTypeOK
<1>4. \A q \in Requests : job[q] \in Job /\ Fits(job[q])
    BY EveryJobFits
<1>5. p \in People
    BY <1>1, <1>2, <1>4 DEF Fits, Job, Dropping, AdminCalls
<1>6. \A q \in Requests : /\ job'[q].pc = IF q = r THEN "drop" ELSE job[q].pc
                          /\ job'[q].op = job[q].op /\ job'[q].token = job[q].token
                          /\ job'[q].who = job[q].who /\ job'[q].on = job[q].on
                          /\ job'[q].limited = job[q].limited
                          /\ job'[q] \in Job
  <2> TAKE q \in Requests
  <2>1. q = r => job'[q] = [job[r] EXCEPT !.pc = "drop"]
      BY <1>2 DEF MarkOpening
  <2>2. CASE q = r
      BY <1>3, <2>1, <2>2 DEF Job
  <2>3. CASE q # r
    <3>1. job'[q] \in {[job[q] EXCEPT !.early = TRUE], job[q]}
        BY <1>2, <2>3 DEF MarkOpening
    <3>2. job[q] \in Job
        BY <1>3
    <3> QED
        BY <2>3, <3>1, <3>2 DEF Job
  <2> QED
      BY <2>2, <2>3
<1>7. Live' = Live
    BY <1>2, <1>3 DEF MarkSessions, SessionsOf, Live, Session
<1>8. \A t \in Live : /\ live'[t] \in Session /\ live[t] \in Session
                      /\ live'[t].of = live[t].of
                      /\ live'[t].logged = live[t].logged
                      /\ live'[t].limited = live[t].limited
                      /\ live'[t].present => live[t].present \/ live[t].of = p
  <2> TAKE t \in Live
  <2>1. t \in Tokens /\ live[t] \in Session
      BY <1>3 DEF Live
  <2>2. CASE live[t].of = p
    <3>1. live'[t] = [live[t] EXCEPT !.present = TRUE]
        BY <1>2, <2>1, <2>2 DEF MarkSessions, SessionsOf
    <3> QED
        BY <2>1, <2>2, <3>1 DEF Session
  <2>3. CASE live[t].of # p
    <3>1. live'[t] = live[t]
        BY <1>2, <2>1, <2>3 DEF MarkSessions, SessionsOf
    <3> QED
        BY <2>1, <3>1
  <2> QED
      BY <2>2, <2>3
<1>9. /\ account' \in [People -> Account]
      /\ \A x \in People : account[x].password => account'[x].password
  <2>1. PICK a \in Account : account' = [account EXCEPT ![p] = a]
                             /\ (account[p].password => a.password)
    <3>1. account[p] \in Account
        BY <1>3, <1>5
    <3>2. /\ After(job[r].op, account[p]) \in Account
          /\ account[p].password => After(job[r].op, account[p]).password
      <4>1. CASE job[r].op = "reset"
          BY <3>1, <4>1 DEF After, Account
      <4>2. CASE job[r].op = "archive"
          BY <3>1, <4>2 DEF After, Account
      <4>3. CASE job[r].op = "delete"
          BY <3>1, <4>3 DEF After, Account
      <4> QED
          BY <1>2, <4>1, <4>2, <4>3 DEF Dropping
    <3> QED
        BY <1>2, <3>2
  <2> QED
      BY <1>3, <1>5, <2>1
<1>10. SignInTypeOK'
  <2>1. live' \in [Tokens -> Session \cup {None}]
    <3>1. \A t \in Tokens : live'[t] \in Session \cup {None}
        BY <1>2, <1>3, <1>7, <1>8 DEF Live
    <3>2. live' = [t \in Tokens |-> live'[t]]
        BY <1>2 DEF MarkSessions
    <3> QED
        BY <3>1, <3>2
  <2>2. job' \in [Requests -> Job]
    <3>1. job' = [q \in Requests |-> job'[q]]
        BY <1>2 DEF MarkOpening
    <3> QED
        BY <1>6, <3>1
  <2> QED
      BY <1>9, <2>1, <2>2 DEF SignInTypeOK
<1>11. TokensKeepTheirAccount'
  <2> SUFFICES ASSUME NEW q \in Requests PROVE Fits(job[q])'
      BY DEF TokensKeepTheirAccount, Fits
  <2>1. CASE q = r
      BY <1>2, <1>4, <1>6, <2>1 DEF Fits, Dropping, AdminCalls
  <2>2. CASE q # r
      BY <1>4, <1>6, <1>7, <1>8, <2>2 DEF Fits
  <2> QED
      BY <2>1, <2>2
<1>12. \A q \in Requests : job[q].pc \in {"open", "log", "upgrade"} => job[q].who \in People
    BY <1>4 DEF Fits, Job
<1>13. ReadsKeepTheirPassword'
    BY <1>2, <1>6, <1>9, <1>12 DEF SignInInductive, ReadsKeepTheirPassword, At
<1>14. SessionsThereAreDropped'
  <2> SUFFICES ASSUME NEW t \in Live, live'[t].present
               PROVE  \E q \in Requests : job'[q].pc = "drop" /\ job'[q].on = live[t].of
      BY <1>7, <1>8 DEF SessionsThereAreDropped, At
  <2>1. CASE live[t].of = p
      BY <1>1, <1>6, <2>1
  <2>2. CASE live[t].present
    <3>1. PICK q \in Requests : job[q].pc = "drop" /\ job[q].on = live[t].of
        BY <2>2 DEF SignInInductive, SessionsThereAreDropped, At
    <3> QED
        BY <1>2, <1>6, <3>1
  <2> QED
      BY <1>8, <2>1, <2>2
<1>15. SignInsAreLogged'
  <2> SUFFICES ASSUME NEW t \in Live, ~live[t].logged
               PROVE  \E q \in Requests : job'[q].pc = "log" /\ job'[q].token = t
      BY <1>7, <1>8 DEF SignInsAreLogged, At
  <2>1. PICK q \in Requests : job[q].pc = "log" /\ job[q].token = t
      BY DEF SignInInductive, SignInsAreLogged, At
  <2> QED
      BY <1>2, <1>6, <2>1
<1>16. FirstPasswordIsSetOnce'
    BY <1>2, <1>6 DEF SignInInductive, FirstPasswordIsSetOnce, At
<1>17. FullMeansPassword'
  <2>1. \A t \in Live : live[t].of \in People
      BY <1>8 DEF Session
  <2>2. \A t \in Live' : ~live'[t].limited => account'[live'[t].of].password
      BY <1>7, <1>8, <1>9, <2>1 DEF SignInInductive, FullMeansPassword
  <2>3. \A q \in Requests : job'[q].pc = "upgrade" => account'[job'[q].who].password
      BY <1>6, <1>9, <1>12 DEF SignInInductive, FullMeansPassword, At
  <2> QED
      BY <2>2, <2>3 DEF FullMeansPassword, At
<1> QED
    BY <1>10, <1>11, <1>13, <1>14, <1>15, <1>16, <1>17 DEF SignInInductive

\* The server starts again: no session is left to see to, and the failsafe
\* account has a password.
LEMMA RestartKeeps ==
    ASSUME SignInInductive, Restart
    PROVE  SignInInductive'
<1>1. /\ Live' = {} /\ live' \in [Tokens -> Session \cup {None}]
      /\ \A r \in Requests : job'[r] = Idle
      /\ job' \in [Requests -> Job]
    BY IdleFits DEF Restart, Live
<1>2. account' \in [People -> Account]
    BY DEF SignInInductive, SignInTypeOK, Restart, Account
<1>3. SignInTypeOK'
    BY <1>1, <1>2 DEF SignInTypeOK
<1>4. TokensKeepTheirAccount' /\ ReadsKeepTheirPassword' /\ FirstPasswordIsSetOnce'
    BY <1>1, IdleFits DEF TokensKeepTheirAccount, ReadsKeepTheirPassword,
                          FirstPasswordIsSetOnce, At, AdminCalls
<1>5. SessionsThereAreDropped' /\ SignInsAreLogged' /\ FullMeansPassword'
    BY <1>1, IdleFits DEF SessionsThereAreDropped, SignInsAreLogged, FullMeansPassword, At
<1> QED
    BY <1>3, <1>4, <1>5 DEF SignInInductive

-----------------------------------------------------------------------------
(* The invariant.                                                           *)

\* A server just started has no session and no request.
LEMMA SignInStarts == SignInInit => SignInInductive
<1> SUFFICES ASSUME SignInInit PROVE SignInInductive
    OBVIOUS
<1>1. /\ Live = {} /\ live \in [Tokens -> Session \cup {None}]
      /\ \A r \in Requests : job[r] = Idle
      /\ job \in [Requests -> Job]
    BY IdleFits DEF SignInInit, Live
<1>2. account \in [People -> Account]
    BY DEF SignInInit, Account
<1>3. SignInTypeOK
    BY <1>1, <1>2 DEF SignInTypeOK
<1>4. TokensKeepTheirAccount /\ ReadsKeepTheirPassword /\ FirstPasswordIsSetOnce
    BY <1>1, IdleFits DEF TokensKeepTheirAccount, ReadsKeepTheirPassword,
                          FirstPasswordIsSetOnce, At, AdminCalls
<1>5. SessionsThereAreDropped /\ SignInsAreLogged /\ FullMeansPassword
    BY <1>1, IdleFits DEF SessionsThereAreDropped, SignInsAreLogged, FullMeansPassword, At
<1> QED
    BY <1>3, <1>4, <1>5 DEF SignInInductive

\* One step of a request keeps it.
LEMMA StepsKeep ==
    ASSUME SignInInductive, NEW r \in Requests, Steps(r)
    PROVE  SignInInductive'
<1>1. ASSUME NEW t \in Tokens, OpenSession(r, t) PROVE SignInInductive'
    BY <1>1, OpenSessionKeeps
<1>2. CASE ReadForScan(r) \/ ReadForPassword(r)
    BY <1>2, ReadForScanKeeps, ReadForPasswordKeeps
<1>3. CASE LogSignIn(r) \/ LogFails(r)
    BY <1>3, LogSignInKeeps, LogFailsKeeps
<1>4. CASE GetSession(r) \/ LoadProfile(r)
    BY <1>4, GetSessionKeeps, LoadProfileKeeps
<1>5. CASE Logout(r) \/ SetInitialPassword(r) \/ Upgrade(r)
    BY <1>5, LogoutKeeps, SetInitialPasswordKeeps, UpgradeKeeps
<1>6. CASE SetAdmin(r) \/ Unarchive(r) \/ ChangeAccount(r)
    BY <1>6, SetAdminKeeps, ChangeAccountKeeps
<1>7. CASE DropSessions(r) \/ Abandon(r)
    BY <1>7, DropSessionsKeeps, AbandonKeeps
<1> QED
    BY <1>1, <1>2, <1>3, <1>4, <1>5, <1>6, <1>7 DEF Steps

\* Every step of the system keeps it.
LEMMA NextKeeps ==
    ASSUME SignInInductive, [SignInNext]_signVars
    PROVE  SignInInductive'
<1>1. ASSUME NEW r \in Requests, NEW way \in SignIns, NEW p \in People, SignIn(r, way, p)
      PROVE  SignInInductive'
    BY <1>1, SignInKeeps
<1>2. ASSUME NEW r \in Requests, NEW op \in Calls, NEW t \in Tokens,
             NEW p \in People \cup {None}, Call(r, op, t, p)
      PROVE  SignInInductive'
    BY <1>2, CallKeeps
<1>3. ASSUME NEW r \in Requests, Steps(r) PROVE SignInInductive'
    BY <1>3, StepsKeep
<1>4. ASSUME NEW t \in Tokens, Expire(t) PROVE SignInInductive'
    BY <1>4, ExpireKeeps
<1>5. CASE Restart
    BY <1>5, RestartKeeps
<1>6. CASE UNCHANGED signVars
    BY <1>6 DEF signVars, SignInInductive, SignInTypeOK, TokensKeepTheirAccount,
                ReadsKeepTheirPassword, SessionsThereAreDropped, SignInsAreLogged,
                FirstPasswordIsSetOnce, FullMeansPassword, At, Live
<1> QED
    BY <1>1, <1>2, <1>3, <1>4, <1>5, <1>6 DEF SignInNext

\* In every state the server reaches, its requests still mean by their tokens
\* the accounts they read, and all of the safety properties hold at once.
THEOREM SignInInvariant == SignInSpec => []SignInInductive
<1>1. SignInInit => SignInInductive
    BY SignInStarts
<1>2. SignInInductive /\ [SignInNext]_signVars => SignInInductive'
    BY NextKeeps
<1> QED
    BY <1>1, <1>2, PTL DEF SignInSpec

\* Accounts, sessions and requests are always what their types say.
THEOREM SignInTypes == SignInSpec => []SignInTypeOK
<1>1. SignInInductive => SignInTypeOK
    BY DEF SignInInductive
<1> QED
    BY <1>1, SignInInvariant, PTL

\* Once an admin is answered that an account was reset, archived or deleted
\* (SetUserPassword, SetUserArchived, DeleteUser), no session that was in the
\* store at the commit is still there.
THEOREM ResetDropsSessions == SignInSpec => []SessionsThereAreDropped
<1>1. SignInInductive => SessionsThereAreDropped
    BY DEF SignInInductive
<1> QED
    BY <1>1, SignInInvariant, PTL

\* Every session openSession leaves in the store has its row in the log.
THEOREM SessionsHaveTheirRow == SignInSpec => []SignInsAreLogged
<1>1. SignInInductive => SignInsAreLogged
    BY DEF SignInInductive
<1> QED
    BY <1>1, SignInInvariant, PTL

\* Of two first passwords for one account at once (SetInitialPassword), one is
\* set.
THEOREM OneFirstPassword == SignInSpec => []FirstPasswordIsSetOnce
<1>1. SignInInductive => FirstPasswordIsSetOnce
    BY DEF SignInInductive
<1> QED
    BY <1>1, SignInInvariant, PTL

\* A session that may do everything belongs to an account that has a password,
\* whatever LoginByScan, SetInitialPassword and Upgrade read before others wrote.
THEOREM FullSessionsHavePasswords == SignInSpec => []FullMeansPassword
<1>1. SignInInductive => FullMeansPassword
    BY DEF SignInInductive
<1> QED
    BY <1>1, SignInInvariant, PTL
-----------------------------------------------------------------------------
(* Who takes an admin's place.                                              *)

\* A row nobody writes, or one written with its flag and state as they were or
\* better, stays an admin's: the place goes only by a demotion, an archiving or
\* a deletion of that very account, which takes nobody else's.
LEMMA OnlyTakersTakeAPlace ==
    ASSUME SignInInductive, SignInNext, NEW p \in AdminsLeft, p \notin AdminsLeft'
    PROVE  \E r \in At("act") : /\ job[r].op \in TakingPlace /\ job[r].on = p
                                /\ job'[r] # job[r]
                                /\ \A x \in AdminsLeft : x # p => x \in AdminsLeft'
<1>1. /\ account \in [People -> Account] /\ job \in [Requests -> Job] /\ p \in People
      /\ account[p].state = "open" /\ account[p].admin
    BY DEF SignInInductive, SignInTypeOK, AdminsLeft
<1>2. account'[p] # account[p]
    BY <1>1 DEF AdminsLeft
<1>3. ~Restart
    BY <1>1 DEF Restart, AdminsLeft
<1>4. PICK r \in Requests : SetInitialPassword(r) \/ SetAdmin(r) \/ Unarchive(r) \/ ChangeAccount(r)
    BY <1>2, <1>3 DEF SignInNext, SignIn, Call, Expire, Steps, ReadForScan, ReadForPassword,
                      LogSignIn, LogFails, OpenSession, GetSession, LoadProfile, Logout,
                      Upgrade, DropSessions, Abandon
<1>5. account[p] \in Account /\ job[r] \in Job /\ Idle.pc = "idle"
    BY <1>1, IdleFits
<1>6. ~SetInitialPassword(r) /\ ~Unarchive(r)
  <2>1. ASSUME NEW q, \/ account' = [account EXCEPT ![q].password = TRUE]
                      \/ account' = [account EXCEPT ![q].state = "open"]
        PROVE  p \in AdminsLeft'
      BY <1>1, <2>1 DEF AdminsLeft, Account
  <2> QED
      BY <2>1 DEF SetInitialPassword, Unarchive
<1>7. CASE SetAdmin(r)
  <2>1. PICK q : q = job[r].on
      OBVIOUS
  <2>2. PICK b \in BOOLEAN : b = (job[r].op = "promote")
      OBVIOUS
  <2>3. account' = [account EXCEPT ![q].admin = b]
      BY <1>7, <2>1, <2>2 DEF SetAdmin
  <2>4. q = p /\ ~b
      BY <1>1, <2>3 DEF AdminsLeft, Account
  <2>5. job[r].pc = "act" /\ job[r].op = "demote" /\ job'[r] = Idle
      BY <1>1, <1>7, <2>2, <2>4 DEF SetAdmin, Answer, Becomes
  <2>6. \A x \in AdminsLeft : x # p => x \in AdminsLeft'
      BY <1>1, <2>3, <2>4 DEF AdminsLeft
  <2> QED
      BY <1>5, <2>1, <2>4, <2>5, <2>6 DEF At, TakingPlace
<1>8. CASE ChangeAccount(r)
  <2>1. PICK q : q = job[r].on
      OBVIOUS
  <2>2. /\ job[r].pc = "act" /\ job[r].op \in Dropping
        /\ account' = [account EXCEPT ![q] = After(job[r].op, @)]
        /\ job'[r] = [job[r] EXCEPT !.pc = "drop"]
      BY <1>8, <2>1 DEF ChangeAccount, MarkOpening
  <2>3. q = p
      BY <1>1, <1>2, <2>2
  <2>4. job[r].op # "reset"
    <3>1. SUFFICES ASSUME job[r].op = "reset" PROVE FALSE
        OBVIOUS
    <3>2. account'[p] = [account[p] EXCEPT !.password = TRUE]
        BY <1>1, <2>2, <2>3, <3>1 DEF After
    <3> QED
        BY <1>1, <1>5, <3>2 DEF AdminsLeft, Account
  <2>5. job'[r].pc = "drop"
      BY <1>5, <2>2 DEF Job
  <2>6. \A x \in AdminsLeft : x # p => x \in AdminsLeft'
      BY <1>1, <2>2, <2>3 DEF AdminsLeft
  <2> QED
      BY <2>1, <2>2, <2>3, <2>4, <2>5, <2>6 DEF At, TakingPlace, Dropping
<1> QED
    BY <1>4, <1>6, <1>7, <1>8

\* Nobody takes their own place (UpdateUser, DeleteUser and SetUserArchived
\* refuse it), so when the last admin falls, the caller was one no longer.
THEOREM StaleCallersAlone == SignInSpec => LastAdminFallsToAStaleOne
<1> DEFINE Stale == AdminsLeft # {} /\ AdminsLeft' = {}
                      => \E r \in At("act") : /\ job[r].op \in TakingPlace
                                             /\ job'[r] # job[r]
                                             /\ job[r].who \notin AdminsLeft
<1>1. SignInInductive /\ [SignInNext]_signVars => [Stale]_signVars
  <2> SUFFICES ASSUME SignInInductive, SignInNext, AdminsLeft # {}, AdminsLeft' = {}
               PROVE  \E r \in At("act") : /\ job[r].op \in TakingPlace
                                           /\ job'[r] # job[r]
                                           /\ job[r].who \notin AdminsLeft
      OBVIOUS
  <2>1. PICK p \in AdminsLeft : p \notin AdminsLeft'
      OBVIOUS
  <2>2. PICK r \in At("act") : /\ job[r].op \in TakingPlace /\ job[r].on = p
                              /\ job'[r] # job[r]
                              /\ \A x \in AdminsLeft : x # p => x \in AdminsLeft'
      BY <2>1, OnlyTakersTakeAPlace
  <2>3. job[r].who # p
      BY <2>2, EveryJobFits DEF Fits, At
  <2> QED
      BY <2>2, <2>3
<1>2. SignInSpec => [][Stale]_signVars
  <2> HIDE DEF Stale
  <2> QED
      BY <1>1, SignInInvariant, PTL DEF SignInSpec
<1> QED
    BY <1>2 DEF LastAdminFallsToAStaleOne
=============================================================================
