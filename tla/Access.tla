-------------------------------- MODULE Access --------------------------------
(***************************************************************************)
(* Who gets in: logins, the sessions they open, changes of the password,   *)
(* and the throttle that counts the failed logins of an address.  A        *)
(* handler is a sequence of queries and of calls of the throttle; checking *)
(* a password takes a thread of its own and long enough for others to come *)
(* between, and for its client to leave: then the handler is dropped where *)
(* it waits.  There is one user, the one that ensure_admin creates.        *)
(*                                                                         *)
(* Times are kept as ages and as what is left, so that the clock needs no  *)
(* bound: a lock with nothing left has expired.  A hash stands for the     *)
(* password it was made of.                                                *)
(***************************************************************************)
EXTENDS Integers, FiniteSets

CONSTANTS
  Handlers,         \* concurrent requests
  Addresses,        \* addresses they come from
  Passwords,
  Tokens,           \* bound: sessions at a time
  None,
  MaxFailures,      \* MAX_FAILURES
  Window, Lockout,  \* WINDOW, LOCKOUT, in ticks
  MaxTracked,       \* MAX_TRACKED
  SessionTtl        \* SESSION_TTL_SECONDS, in ticks

Steps == {"find", "failed", "purge", "create", "succeeded", "update", "delete"}

ASSUME AccessAssumption ==
  /\ {MaxFailures, Window, Lockout, SessionTtl} \subseteq Nat \ {0} /\ MaxTracked \in Nat
  /\ MaxFailures > 1 /\ Window <= Lockout
  /\ IsFiniteSet(Handlers) /\ None \notin Nat \union Steps \union Passwords \union Addresses

VARIABLES
  throttle,  \* LoginThrottle.inner
  password,  \* users.password_hash
  sessions,  \* the table sessions
  tasks,     \* what each handler is about to do
  guesses,   \* ghost: of each address, wrong passwords that were counted, and may have been
             \* answered, since its last success, in the last age + 1 ticks
  lapsed     \* ghost: a change of the password did not get to delete the sessions

db == <<password, sessions, lapsed>>
vars == <<throttle, db, tasks, guesses>>

Entries == [failures : 1..(MaxFailures + Cardinality(Handlers) - 1), age : 0..Window, left : 0..Lockout \union {None}]
Idle == [step |-> None, ip |-> None, given |-> None, left |-> 0, stale |-> FALSE]

TypeOK ==
  /\ DOMAIN throttle \subseteq Addresses /\ \A ip \in DOMAIN throttle : throttle[ip] \in Entries
  /\ password \in Passwords
  /\ DOMAIN sessions \subseteq Tokens
  /\ \A s \in DOMAIN sessions : sessions[s] \in [proof : Passwords, left : 0..SessionTtl, stale : BOOLEAN]
  /\ tasks \in [Handlers -> [step : Steps \union {None}, ip : Addresses \union {None}, given : Passwords \union {None},
                             left : 0..SessionTtl, stale : BOOLEAN]]
  /\ guesses \in [Addresses -> [0..(Window - 1) -> Nat]]
  /\ lapsed \in BOOLEAN

NoGuesses == [age \in 0..(Window - 1) |-> 0]

\* ensure_admin has made the account, or found it.
Init ==
  /\ throttle = <<>> /\ password \in Passwords /\ sessions = <<>>
  /\ tasks = [h \in Handlers |-> Idle]
  /\ guesses = [ip \in Addresses |-> NoGuesses] /\ lapsed = FALSE

Without(f, K) == [k \in DOMAIN f \ K |-> f[k]]
Put(f, k, value) == [j \in DOMAIN f \union {k} |-> IF j = k THEN value ELSE f[j]]
At(h, step) == tasks[h].step = step
Go(h, task) == tasks' = [tasks EXCEPT ![h] = task]
End(h) == Go(h, Idle)

-----------------------------------------------------------------------------
(* The throttle *)

LockedAt(ip, left) == ip \in DOMAIN throttle /\ throttle[ip].left \in left

\* Mutant of Locked: check looks at no lock.
LockedNever(ip) == LockedAt(ip, {})

Locked(ip) == LockedAt(ip, 1..Lockout)

\* check forgets a lock that has expired, and the failures with it.
Checked(ip) == IF LockedAt(ip, {0}) THEN Without(throttle, {ip}) ELSE throttle

\* Mutant of Worth: an entry is worth keeping for as long as its window, whatever its lock.
WorthWindow(e) == e.age < Window

Worth(e) == IF e.left = None THEN e.age < Window ELSE e.left > 0
Retained ==
  IF Cardinality(DOMAIN throttle) > MaxTracked
  THEN Without(throttle, {ip \in DOMAIN throttle : ~Worth(throttle[ip])}) ELSE throttle

\* Mutant of Counted: one failure more.
CountedLate(e) ==
  LET failures == IF e.age = Window THEN 1 ELSE e.failures + 1
  IN [failures |-> failures, age |-> IF e.age = Window THEN 0 ELSE e.age,
      left |-> IF failures > MaxFailures THEN Lockout ELSE e.left]

\* One failure more, in a new window if the last one is over; the lock stays as it is.
Counted(e) ==
  LET failures == IF e.age = Window THEN 1 ELSE e.failures + 1
  IN [failures |-> failures, age |-> IF e.age = Window THEN 0 ELSE e.age,
      left |-> IF failures >= MaxFailures THEN Lockout ELSE e.left]

FailedOnce(ip) ==
  Put(Retained, ip, Counted(IF ip \in DOMAIN Retained THEN Retained[ip]
                            ELSE [failures |-> 0, age |-> 0, left |-> None]))

-----------------------------------------------------------------------------
(* login *)

GuessedOnce(tried) == [age \in 0..(Window - 1) |-> tried[age] + 1]

\* check: a locked address is turned away, which changes nothing.
Login(h, ip, given) ==
  /\ At(h, None) /\ ~Locked(ip)
  /\ throttle' = Checked(ip)
  /\ Go(h, [Idle EXCEPT !.step = "find", !.ip = ip, !.given = given])
  /\ UNCHANGED <<db, guesses>>

\* find_by_username, and the thread that verifies against the hash found.
VerifyPassword(h) ==
  /\ At(h, "find")
  /\ IF tasks[h].given = password THEN Go(h, [tasks[h] EXCEPT !.step = "purge"])
     ELSE Go(h, [Idle EXCEPT !.step = "failed", !.ip = tasks[h].ip])
  /\ UNCHANGED <<throttle, db, guesses>>

\* The answer comes after this.
RecordFailure(h) ==
  /\ At(h, "failed")
  /\ throttle' = FailedOnce(tasks[h].ip)
  /\ guesses' = [guesses EXCEPT ![tasks[h].ip] = GuessedOnce(@)]
  /\ End(h) /\ UNCHANGED db

\* The session's time starts here; deleting the expired ones may fail.
Purge(h) ==
  /\ At(h, "purge")
  /\ \/ sessions' = Without(sessions, {s \in DOMAIN sessions : sessions[s].left = 0})
     \/ UNCHANGED sessions
  /\ Go(h, [tasks[h] EXCEPT !.step = "create", !.left = SessionTtl])
  /\ UNCHANGED <<throttle, password, lapsed, guesses>>

CreateSession(h) ==
  /\ At(h, "create")
  /\ \E s \in Tokens \ DOMAIN sessions :
       sessions' = Put(sessions, s, [proof |-> tasks[h].given, left |-> tasks[h].left, stale |-> tasks[h].stale])
  /\ Go(h, [Idle EXCEPT !.step = "succeeded", !.ip = tasks[h].ip])
  /\ UNCHANGED <<throttle, password, lapsed, guesses>>

RecordSuccess(h) ==
  /\ At(h, "succeeded")
  /\ throttle' = Without(throttle, {tasks[h].ip})
  /\ guesses' = [guesses EXCEPT ![tasks[h].ip] = NoGuesses]
  /\ End(h) /\ UNCHANGED db

-----------------------------------------------------------------------------
(* Requests with a token *)

\* find_user_by_session
Alive(s) == s \in DOMAIN sessions /\ sessions[s].left > 0

\* The token was alive when require_auth looked; the session may have expired since.
Logout(s) ==
  /\ s \in DOMAIN sessions
  /\ sessions' = Without(sessions, {s})
  /\ UNCHANGED <<throttle, password, lapsed, guesses, tasks>>

\* The user row that require_auth read is the one the old password is verified against; a
\* wrong one, or a new one that is too short, is refused and not counted.
ChangePassword(h) ==
  /\ At(h, None) /\ \E s \in Tokens : Alive(s)
  /\ Go(h, [Idle EXCEPT !.step = "update"])
  /\ UNCHANGED <<throttle, db, guesses>>

\* A login that verified a password and has no session yet is stale from now on.
UpdatePassword(h, new) ==
  /\ At(h, "update")
  /\ password' = new
  /\ tasks' = [g \in Handlers |->
                 IF g = h THEN [tasks[g] EXCEPT !.step = "delete"]
                 ELSE [tasks[g] EXCEPT !.stale = @ \/ tasks[g].step \in {"purge", "create"}]]
  /\ UNCHANGED <<throttle, sessions, lapsed, guesses>>

\* Mutant of Revoked: the expired sessions.
RevokedExpired == {s \in DOMAIN sessions : sessions[s].left = 0}

\* delete_user_sessions: all of them, the one of the request too.
Revoked == DOMAIN sessions
DeleteUserSessions(h) ==
  /\ At(h, "delete")
  /\ sessions' = Without(sessions, Revoked) /\ lapsed' = FALSE
  /\ End(h) /\ UNCHANGED <<throttle, password, guesses>>

-----------------------------------------------------------------------------

\* A handler ends early: a query fails (at "purge" that is nothing, at "failed" and "succeeded"
\* there is none), or the client leaves and the handler is dropped at whatever it awaits, the
\* thread that verifies included.  The throttle hears nothing of it.
Abandon(h) ==
  /\ ~At(h, None)
  /\ lapsed' = (lapsed \/ At(h, "delete"))
  /\ End(h) /\ UNCHANGED <<throttle, password, sessions, guesses>>

\* The throttle is in memory, the sessions are not.
Restart ==
  /\ throttle' = <<>> /\ guesses' = [ip \in Addresses |-> NoGuesses]
  /\ lapsed' = (lapsed \/ \E h \in Handlers : At(h, "delete"))
  /\ tasks' = [h \in Handlers |-> Idle]
  /\ UNCHANGED <<password, sessions>>

Less(left) == IF left \in {0, None} THEN left ELSE left - 1
Tick ==
  /\ throttle' = [ip \in DOMAIN throttle |->
       [throttle[ip] EXCEPT !.age = IF @ < Window THEN @ + 1 ELSE @, !.left = Less(@)]]
  /\ sessions' = [s \in DOMAIN sessions |-> [sessions[s] EXCEPT !.left = Less(@)]]
  /\ tasks' = [h \in Handlers |-> [tasks[h] EXCEPT !.left = Less(@)]]
  /\ guesses' = [ip \in Addresses |->
       [age \in 0..(Window - 1) |-> IF age = 0 THEN 0 ELSE guesses[ip][age - 1]]]
  /\ UNCHANGED <<password, lapsed>>

Next ==
  \/ \E h \in Handlers :
       \/ \E ip \in Addresses, given \in Passwords : Login(h, ip, given)
       \/ VerifyPassword(h) \/ RecordFailure(h) \/ Purge(h) \/ CreateSession(h) \/ RecordSuccess(h)
       \/ ChangePassword(h)
       \/ \E new \in Passwords : UpdatePassword(h, new)
       \/ DeleteUserSessions(h) \/ Abandon(h)
  \/ \E s \in Tokens : Logout(s)
  \/ Restart \/ Tick

Spec == Init /\ [][Next]_vars
-----------------------------------------------------------------------------
(* Properties *)

\* The throttle against guessing: within any Window, however windows, locks and logins in
\* flight fall, the wrong passwords that an address gets an answer to without a success stay
\* below three windows' worth and one more for each handler.  It can take three: logins that
\* were let in before a lock outlast it and fill the windows around its end, and the check
\* that forgets the lock opens another.  Of the passwords of clients that do not wait for the
\* answer nothing is said: nobody counts them.
GuessesBounded ==
  \A ip \in Addresses : guesses[ip][Window - 1] <= 3 * (MaxFailures - 1) - 1 + Cardinality(Handlers)

\* An address that was locked out stays out for Lockout, also when the table is swept or
\* late failures come in, unless a login of it that had been let in before succeeds or the
\* process restarts.
LockHolds ==
  [][\A ip \in Addresses : Locked(ip) /\ ~Locked(ip)' =>
       \/ Restart \/ (Tick /\ throttle[ip].left = 1)
       \/ \E h \in Handlers : tasks[h].ip = ip /\ RecordSuccess(h)]_vars

\* "Password changed. Please log in again." (api/auth.rs): once a change is through, every
\* session comes from a login with the new password, unless the login had verified the old
\* one while it changed, or the handler did not get to delete the sessions: then the change was
\* reported failed, or to nobody.
OldSessionsEnd ==
  lapsed \/ (\E h \in Handlers : At(h, "delete")) \/
    \A s \in DOMAIN sessions : sessions[s].proof = password \/ sessions[s].stale
=============================================================================
