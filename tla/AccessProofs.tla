----------------------------- MODULE AccessProofs -----------------------------
(***************************************************************************)
(* Proofs about Access, for any handlers, addresses, passwords and limits. *)
(***************************************************************************)
EXTENDS Access, FiniteSetTheorems, TLAPS

\* Logins from an address that were let in and may still be counted as failures.
Flying(ip) == {h \in Handlers : tasks[h].step \in {"find", "failed"} /\ tasks[h].ip = ip}

TaskInv ==
  \A h \in Handlers :
    /\ tasks[h].step \in {"find", "failed", "purge", "create", "succeeded"} => tasks[h].ip \in Addresses
    /\ tasks[h].step \in {"find", "purge", "create"} => tasks[h].given \in Passwords

\* Once an address has reached the limit, it stays locked as long as its window lasts, and
\* only the logins that were in flight then can still be counted.
Capped(e, ip) ==
  e.failures >= MaxFailures /\ e.age < Window =>
    /\ e.left # None /\ e.left + e.age >= Window
    /\ e.failures + Cardinality(Flying(ip)) <= MaxFailures - 1 + Cardinality(Handlers)
CountInv == \A ip \in DOMAIN throttle : Capped(throttle[ip], ip)

\* Where the wrong passwords of the last Window are counted, g by age.  Those of the entry's own
\* window are its failures.  Without a lock the entry has followed on at most two windows that
\* did not fill.  Behind a lock no failure is counted but of the q logins that were let in before
\* it, and the last of those that reached the limit renewed it.
NoEntryBound(g) == g[Window - 1] <= 2 * (MaxFailures - 1) - 1
WindowBound(g, e) == \A a \in 0..(Window - 1) : a < e.age => g[a] <= e.failures - 1
OpenBound(g, e) == e.left = None => g[Window - 1] <= 2 * (MaxFailures - 1) - 1 + e.failures
LockBound(g, e) ==
  e.left # None => \A a \in 0..(Window - 1) : a < Lockout - e.left =>
    g[a] <= IF e.failures >= MaxFailures THEN 0 ELSE MaxFailures - 2 + e.failures
AllBound(g, q, e) == e.left # None => g[Window - 1] + q <= 3 * (MaxFailures - 1) - 1 + Cardinality(Handlers)

\* Of more ticks there are not fewer.
Grows(g) == \A a \in 1..(Window - 1) : g[a - 1] <= g[a]
EntryBound(g, q, e) ==
  /\ e.failures >= MaxFailures => e.left # None
  /\ WindowBound(g, e) /\ OpenBound(g, e) /\ LockBound(g, e) /\ AllBound(g, q, e)

FlyingCount(ip) == Cardinality(Flying(ip))
GuessOk(ip) ==
  /\ Grows(guesses[ip])
  /\ IF ip \in DOMAIN throttle THEN EntryBound(guesses[ip], FlyingCount(ip), throttle[ip])
     ELSE NoEntryBound(guesses[ip])
GuessInv == \A ip \in Addresses : GuessOk(ip)

\* A login that has verified a password that is not the current one is stale.
LoginInv ==
  \A h \in Handlers : tasks[h].step \in {"purge", "create"} => tasks[h].given = password \/ tasks[h].stale

IInv == TypeOK /\ TaskInv /\ CountInv /\ LoginInv /\ OldSessionsEnd

Tasks == [step : Steps \union {None}, ip : Addresses \union {None}, given : Passwords \union {None},
          left : 0..SessionTtl, stale : BOOLEAN]

\* The limits are positive numbers, one failure is let pass, and None is no number.
LEMMA Limits ==
  /\ MaxFailures \in Nat /\ MaxFailures > 1 /\ Window \in Nat /\ Window > 0
  /\ Lockout \in Nat /\ Window <= Lockout /\ SessionTtl \in Nat /\ SessionTtl > 0
  /\ None \notin Nat /\ None \notin Steps /\ None \notin Addresses /\ None \notin Passwords
BY AccessAssumption

\* There are finitely many handlers, and at most all of them are logging in.
LEMMA HandlersCount ==
  /\ Cardinality(Handlers) \in Nat
  /\ \A ip : IsFiniteSet(Flying(ip)) /\ Cardinality(Flying(ip)) \in Nat /\ Cardinality(Flying(ip)) <= Cardinality(Handlers)
<1>1. IsFiniteSet(Handlers)
  BY AccessAssumption
<1>2. ASSUME NEW ip PROVE IsFiniteSet(Flying(ip)) /\ Cardinality(Flying(ip)) \in Nat /\ Cardinality(Flying(ip)) <= Cardinality(Handlers)
  <2>1. Flying(ip) \subseteq Handlers
    BY DEF Flying
  <2>2. QED
    BY <1>1, <2>1, FS_Subset, FS_CardinalityType
<1>3. QED
  BY <1>1, <1>2, FS_CardinalityType

\* A handler of an address leaves the flight: it gets smaller by one.
LEMMA Landing ==
  ASSUME NEW ip, NEW h \in Flying(ip), Flying(ip)' = Flying(ip) \ {h}
  PROVE  Cardinality(Flying(ip)') = Cardinality(Flying(ip)) - 1
BY HandlersCount, FS_RemoveElement

\* What may not be counted any more does not raise the count.
LEMMA CountKept ==
  ASSUME TypeOK, CountInv, UNCHANGED throttle, \A ip : Flying(ip)' \subseteq Flying(ip)
  PROVE  CountInv'
<1> SUFFICES ASSUME NEW ip \in DOMAIN throttle PROVE Capped(throttle[ip], ip)'
  BY DEF CountInv
<1>1. Cardinality(Flying(ip)') \in Nat /\ Cardinality(Flying(ip)') <= Cardinality(Flying(ip)) /\ Cardinality(Flying(ip)) \in Nat
  BY HandlersCount, FS_Subset, FS_CardinalityType
<1>2. Capped(throttle[ip], ip) /\ throttle[ip].failures \in Nat
  BY HandlersCount, Limits DEF CountInv, TypeOK, Entries
<1>3. QED
  BY <1>1, <1>2, Limits, HandlersCount DEF Capped

\* What happens to one handler does not happen to the others.
LEMMA OneTask ==
  ASSUME TypeOK, NEW h \in Handlers, NEW t, Go(h, t)
  PROVE  tasks'[h] = t /\ \A g \in Handlers \ {h} : tasks'[g] = tasks[g]
BY DEF Go, TypeOK

\* The variables one by one.
EntryTypes == DOMAIN throttle \subseteq Addresses /\ \A ip \in DOMAIN throttle : throttle[ip] \in Entries
Sessions == [proof : Passwords, left : 0..SessionTtl, stale : BOOLEAN]
SessionTypes == DOMAIN sessions \subseteq Tokens /\ \A s \in DOMAIN sessions : sessions[s] \in Sessions
Guesses == [Addresses -> [0..(Window - 1) -> Nat]]

LEMMA TypeParts ==
  TypeOK <=> /\ EntryTypes /\ SessionTypes /\ tasks \in [Handlers -> Tasks]
             /\ password \in Passwords /\ guesses \in Guesses /\ lapsed \in BOOLEAN
BY DEF TypeOK, EntryTypes, Sessions, SessionTypes, Tasks, Guesses

LEMMA TypeNext ==
  TypeOK' <=> /\ EntryTypes' /\ SessionTypes' /\ tasks' \in [Handlers -> Tasks]
              /\ password' \in Passwords /\ guesses' \in Guesses /\ lapsed' \in BOOLEAN
BY DEF TypeOK, EntryTypes, Sessions, SessionTypes, Tasks, Guesses

LEMMA IdleType == Idle \in Tasks /\ Idle.step = None
BY Limits DEF Idle, Tasks, Steps

\* One guess more.
LEMMA OneMore ==
  ASSUME NEW g \in [0..(Window - 1) -> Nat]
  PROVE  GuessedOnce(g) \in [0..(Window - 1) -> Nat]
BY DEF GuessedOnce

\* What one handler does next is of no matter to the others.  Of the new task it only has to
\* be known that its fields are filled.
Filled(t) ==
  /\ t \in Tasks
  /\ t.step \in {"find", "failed", "purge", "create", "succeeded"} => t.ip \in Addresses
  /\ t.step \in {"find", "purge", "create"} => t.given \in Passwords
LEMMA Moved ==
  ASSUME IInv, NEW h \in Handlers, NEW t, Filled(t), Go(h, t)
  PROVE  /\ tasks' \in [Handlers -> Tasks] /\ TaskInv'
         /\ tasks'[h] = t /\ \A g \in Handlers \ {h} : tasks'[g] = tasks[g]
         /\ t.step \notin {"find", "failed"} => \A ip : Flying(ip)' = Flying(ip) \ {h}
         /\ password' = password /\ (t.step \in {"purge", "create"} => t.given = password \/ t.stale) => LoginInv'
<1>1. tasks \in [Handlers -> Tasks] /\ TaskInv /\ LoginInv
  BY TypeParts DEF IInv
<1>2. tasks' \in [Handlers -> Tasks] /\ tasks'[h] = t /\ \A g \in Handlers \ {h} : tasks'[g] = tasks[g]
  BY <1>1 DEF Go, Filled
<1>3. TaskInv'
  BY <1>1, <1>2 DEF TaskInv, Filled
<1>4. t.step \notin {"find", "failed"} => \A ip : Flying(ip)' = Flying(ip) \ {h}
  BY <1>2 DEF Flying
<1>5. password' = password /\ (t.step \in {"purge", "create"} => t.given = password \/ t.stale) => LoginInv'
  BY <1>1, <1>2 DEF LoginInv
<1>6. QED
  BY <1>2, <1>3, <1>4, <1>5

\* The new tasks of the handlers: Idle, and Idle or the old task with some fields set.
LEMMA UpdateTask ==
  LET t == [Idle EXCEPT !.step = "update"] IN Filled(t) /\ t.step = "update"
BY IdleType DEF Filled, Tasks, Steps

LEMMA CreateTask ==
  ASSUME NEW old \in Tasks, old.given \in Passwords, old.ip \in Addresses
  PROVE  LET t == [old EXCEPT !.step = "create", !.left = SessionTtl]
         IN Filled(t) /\ t.step = "create" /\ t.given = old.given /\ t.stale = old.stale
<1>1. SessionTtl \in 0..SessionTtl
  BY Limits
<1>2. QED
  BY <1>1 DEF Filled, Tasks, Steps

LEMMA NewTasks ==
  ASSUME NEW old \in Tasks, NEW ip \in Addresses, NEW given \in Passwords
  PROVE  /\ Filled([Idle EXCEPT !.step = "find", !.ip = ip, !.given = given])
         /\ Filled([Idle EXCEPT !.step = "failed", !.ip = ip])
         /\ Filled([Idle EXCEPT !.step = "succeeded", !.ip = ip])
         /\ old.given \in Passwords /\ old.ip \in Addresses => Filled([old EXCEPT !.step = "purge"])
<1>1. Filled([Idle EXCEPT !.step = "find", !.ip = ip, !.given = given])
  BY IdleType DEF Filled, Tasks, Steps
<1>2. Filled([Idle EXCEPT !.step = "failed", !.ip = ip])
  BY IdleType DEF Filled, Tasks, Steps
<1>3. Filled([Idle EXCEPT !.step = "succeeded", !.ip = ip])
  BY IdleType DEF Filled, Tasks, Steps
<1>4. old.given \in Passwords /\ old.ip \in Addresses => Filled([old EXCEPT !.step = "purge"])
  BY DEF Filled, Tasks, Steps
<1>5. QED
  BY <1>1, <1>2, <1>3, <1>4

\* As long as nothing happens to the password or the sessions, and nobody who is to delete
\* them leaves, old sessions end as they did.
LEMMA OldSessionsKept ==
  ASSUME IInv, NEW h \in Handlers, NEW t, Filled(t), Go(h, t), tasks[h].step # "delete", UNCHANGED db
  PROVE  OldSessionsEnd'
<1>1. \A g \in Handlers \ {h} : tasks'[g] = tasks[g]
  BY Moved
<1>2. QED
  BY <1>1 DEF IInv, OldSessionsEnd, At, db

\* Taking an address out of the table of the throttle, and putting one in.
LEMMA TakenOut ==
  ASSUME EntryTypes, NEW K, throttle' = Without(throttle, K)
  PROVE  /\ EntryTypes'
         /\ \A ip \in DOMAIN throttle' : ip \notin K /\ ip \in DOMAIN throttle /\ throttle'[ip] = throttle[ip]
BY DEF EntryTypes, Without, Entries

\* One lemma for each action: it keeps the inductive invariant.
\* check lets the login in: its address has no lock, or one that has expired and is forgotten.
LEMMA LoginKeeps ==
  ASSUME IInv, NEW h \in Handlers, NEW ip \in Addresses, NEW given \in Passwords, Login(h, ip, given)
  PROVE  IInv'
<1> DEFINE t == [Idle EXCEPT !.step = "find", !.ip = ip, !.given = given]
<1>1. Filled(t) /\ t.step = "find" /\ t.ip = ip /\ Go(h, t) /\ tasks[h].step = None
  BY NewTasks, IdleType DEF Login, At, Tasks
<1> HIDE DEF t
<1>2. tasks' \in [Handlers -> Tasks] /\ TaskInv' /\ LoginInv' /\ tasks'[h] = t /\ \A g \in Handlers \ {h} : tasks'[g] = tasks[g]
  BY <1>1, Moved DEF Login, db
<1>3. EntryTypes' /\ \A a \in DOMAIN throttle' : a \in DOMAIN throttle /\ throttle'[a] = throttle[a] /\ (a = ip => ~LockedAt(ip, {0}))
  <2>1. CASE LockedAt(ip, {0})
    <3>1. throttle' = Without(throttle, {ip})
      BY <2>1 DEF Login, Checked
    <3>2. QED
      BY <3>1, TakenOut, TypeParts DEF IInv
  <2>2. CASE ~LockedAt(ip, {0})
    BY <2>2, TypeParts DEF IInv, Login, Checked, EntryTypes
  <2>3. QED
    BY <2>1, <2>2
<1>4. TypeOK'
  BY <1>2, <1>3, TypeParts, TypeNext DEF IInv, Login, db, SessionTypes, Guesses
<1>5. CountInv'
  <2> SUFFICES ASSUME NEW a \in DOMAIN throttle' PROVE Capped(throttle[a], a)'
    BY DEF CountInv
  <2>1. a \in DOMAIN throttle /\ throttle'[a] = throttle[a] /\ throttle[a] \in Entries /\ Capped(throttle[a], a)
    BY <1>3, TypeParts DEF IInv, EntryTypes, CountInv
  <2>2. CASE a # ip
    <3>1. Flying(a)' = Flying(a)
      BY <1>1, <1>2, <2>2, Limits DEF Flying, Steps
    <3>2. QED
      BY <2>1, <3>1 DEF Capped
  <2>3. CASE a = ip
    <3>1. throttle[a].left \notin 0..Lockout
      BY <1>3, <2>1, <2>3, Limits DEF Login, Locked, LockedAt
    <3>2. throttle[a].left = None
      BY <2>1, <3>1 DEF Entries
    <3>3. QED
      BY <2>1, <3>2 DEF Capped
  <2>4. QED
    BY <2>2, <2>3
<1>6. OldSessionsEnd'
  BY <1>1, OldSessionsKept, Limits DEF Login, Steps
<1>7. QED
  BY <1>2, <1>4, <1>5, <1>6 DEF IInv

\* The password is verified: right, and not stale, or wrong, and still to be counted.
LEMMA VerifyPasswordKeeps ==
  ASSUME IInv, NEW h \in Handlers, VerifyPassword(h)
  PROVE  IInv'
<1>1. tasks[h] \in Tasks /\ tasks[h].step = "find" /\ tasks[h].ip \in Addresses /\ tasks[h].given \in Passwords
  BY TypeParts DEF IInv, TaskInv, VerifyPassword, At
<1>2. \E t : /\ Filled(t) /\ Go(h, t) /\ t.step \in {"purge", "failed"}
             /\ t.step = "failed" => t.ip = tasks[h].ip
             /\ t.step = "purge" => t.given = password
  <2>1. CASE tasks[h].given = password
    <3> DEFINE t == [tasks[h] EXCEPT !.step = "purge"]
    <3>1. Filled(t) /\ Go(h, t) /\ t.step = "purge" /\ t.given = password
      BY <1>1, <2>1, NewTasks DEF VerifyPassword, Tasks
    <3>2. QED
      BY <3>1
  <2>2. CASE tasks[h].given # password
    <3> DEFINE t == [Idle EXCEPT !.step = "failed", !.ip = tasks[h].ip]
    <3>1. Filled(t) /\ Go(h, t) /\ t.step = "failed" /\ t.ip = tasks[h].ip
      BY <1>1, <2>2, NewTasks, IdleType DEF VerifyPassword, Tasks
    <3>2. QED
      BY <3>1
  <2>3. QED
    BY <2>1, <2>2
<1>3. PICK t : /\ Filled(t) /\ Go(h, t) /\ t.step \in {"purge", "failed"}
               /\ t.step = "failed" => t.ip = tasks[h].ip
               /\ t.step = "purge" => t.given = password
  BY <1>2
<1>4. tasks' \in [Handlers -> Tasks] /\ TaskInv' /\ LoginInv' /\ tasks'[h] = t /\ \A g \in Handlers \ {h} : tasks'[g] = tasks[g]
  BY <1>3, Moved DEF VerifyPassword, db
<1>5. TypeOK'
  BY <1>4, TypeParts, TypeNext DEF IInv, VerifyPassword, db, EntryTypes, SessionTypes, Guesses
<1>6. \A ip : Flying(ip)' \subseteq Flying(ip)
  BY <1>1, <1>3, <1>4 DEF Flying
<1>7. CountInv'
  BY <1>6, CountKept DEF IInv, VerifyPassword
<1>8. OldSessionsEnd'
  BY <1>1, <1>3, OldSessionsKept DEF VerifyPassword
<1>9. QED
  BY <1>4, <1>5, <1>7, <1>8 DEF IInv

\* A failure is counted: one more of the address, one less in flight.
LEMMA RecordFailureKeeps ==
  ASSUME IInv, NEW h \in Handlers, RecordFailure(h)
  PROVE  IInv'
<1> DEFINE all == Cardinality(Handlers)
<1>0. PICK ip, kept :
        /\ ip = tasks[h].ip
        /\ kept = IF ip \in DOMAIN Retained THEN Retained[ip] ELSE [failures |-> 0, age |-> 0, left |-> None]
  OBVIOUS
<1>1. tasks[h].step = "failed" /\ ip \in Addresses /\ Filled(Idle) /\ Go(h, Idle)
  BY <1>0, TypeParts, IdleType, Limits DEF IInv, TaskInv, RecordFailure, At, End, Filled, Steps
<1>2. tasks' \in [Handlers -> Tasks] /\ TaskInv' /\ LoginInv' /\ \A a : Flying(a)' = Flying(a) \ {h}
  BY <1>1, Moved, IdleType, Limits DEF RecordFailure, db, Steps
<1>3. DOMAIN Retained \subseteq DOMAIN throttle /\ \A a \in DOMAIN Retained : Retained[a] = throttle[a]
  BY DEF Retained, Without
<1>4. EntryTypes /\ CountInv /\ h \in Flying(ip)
  BY <1>0, <1>1, TypeParts DEF IInv, Flying
<1>5. Cardinality(Flying(ip)') = Cardinality(Flying(ip)) - 1 /\ Cardinality(Flying(ip)) \in 1..all /\ all \in Nat
  <2>1. Flying(ip)' = Flying(ip) \ {h}
    BY <1>2
  <2>2. IsFiniteSet(Flying(ip)) /\ Cardinality(Flying(ip)) \in Nat /\ Cardinality(Flying(ip)) <= all /\ all \in Nat
    BY HandlersCount
  <2>3. Cardinality(Flying(ip) \ {h}) = Cardinality(Flying(ip)) - 1 /\ Cardinality(Flying(ip) \ {h}) \in Nat
    BY <1>4, <2>2, FS_RemoveElement, FS_CardinalityType
  <2>4. QED
    BY <2>1, <2>2, <2>3
<1>6. /\ kept.failures \in 0..(MaxFailures + all - 1) /\ kept.age \in 0..Window /\ kept.left \in 0..Lockout \union {None}
      /\ Capped(kept, ip)
  <2>1. CASE ip \in DOMAIN Retained
    BY <1>0, <1>3, <1>4, <1>5, <2>1, Limits DEF EntryTypes, CountInv, Entries
  <2>2. CASE ip \notin DOMAIN Retained
    BY <1>0, <1>5, <2>2, Limits DEF Capped
  <2>3. QED
    BY <2>1, <2>2
<1>7. Counted(kept) \in Entries /\ Capped(Counted(kept), ip)'
  <2>1. CASE kept.age = Window
    BY <1>5, <1>6, <2>1, Limits DEF Counted, Entries, Capped, all
  <2>2. CASE kept.age # Window
    BY <1>5, <1>6, <2>2, Limits DEF Counted, Entries, Capped, all
  <2>3. QED
    BY <2>1, <2>2
<1>8. /\ DOMAIN throttle' = DOMAIN Retained \union {ip} /\ throttle'[ip] = Counted(kept)
      /\ \A a \in DOMAIN throttle' \ {ip} : a \in DOMAIN throttle /\ throttle'[a] = throttle[a]
  BY <1>0, <1>3 DEF RecordFailure, FailedOnce, Put
<1>9. TypeOK'
  <2>1. EntryTypes'
    BY <1>1, <1>3, <1>4, <1>7, <1>8 DEF EntryTypes, Entries
  <2>2. guesses' \in Guesses
    <3>1. guesses \in Guesses
      BY TypeParts DEF IInv
    <3>2. PICK g \in [0..(Window - 1) -> Nat] : g = guesses[ip]
      BY <1>1, <3>1 DEF Guesses
    <3>3. GuessedOnce(g) \in [0..(Window - 1) -> Nat]
      BY OneMore
    <3>4. guesses' = [guesses EXCEPT ![ip] = GuessedOnce(g)]
      BY <1>0, <3>2 DEF RecordFailure
    <3>5. QED
      BY <3>1, <3>3, <3>4 DEF Guesses
  <2>3. QED
    BY <1>2, <2>1, <2>2, TypeParts, TypeNext DEF IInv, RecordFailure, db, SessionTypes
<1>10. CountInv'
  <2> SUFFICES ASSUME NEW a \in DOMAIN throttle' PROVE Capped(throttle[a], a)'
    BY DEF CountInv
  <2>1. CASE a = ip
    BY <1>7, <1>8, <2>1 DEF Capped
  <2>2. CASE a # ip
    <3>1. Flying(a)' = Flying(a)
      BY <1>0, <1>2, <2>2 DEF Flying
    <3>2. QED
      BY <1>4, <1>8, <2>2, <3>1 DEF CountInv, Capped
  <2>3. QED
    BY <2>1, <2>2
<1>11. OldSessionsEnd'
  BY <1>1, OldSessionsKept DEF RecordFailure
<1>12. QED
  BY <1>2, <1>9, <1>10, <1>11 DEF IInv

\* The expired sessions are deleted, or not: the rest stays.
LEMMA PurgeKeeps ==
  ASSUME IInv, NEW h \in Handlers, Purge(h)
  PROVE  IInv'
<1> DEFINE t == [tasks[h] EXCEPT !.step = "create", !.left = SessionTtl]
<1>1. tasks[h] \in Tasks /\ tasks[h].step = "purge" /\ tasks[h].given \in Passwords /\ tasks[h].ip \in Addresses
  BY TypeParts DEF IInv, TaskInv, Purge, At
<1>2. Filled(t) /\ t.step = "create" /\ t.given = tasks[h].given /\ t.stale = tasks[h].stale /\ Go(h, t)
  BY <1>1, CreateTask DEF Purge
<1> HIDE DEF t
<1>3. tasks[h].given = password \/ tasks[h].stale
  BY <1>1 DEF IInv, LoginInv
<1>4. tasks' \in [Handlers -> Tasks] /\ TaskInv' /\ LoginInv' /\ tasks'[h] = t
      /\ (\A g \in Handlers \ {h} : tasks'[g] = tasks[g]) /\ \A ip : Flying(ip)' = Flying(ip) \ {h}
  BY <1>2, <1>3, Moved DEF Purge
<1>5. DOMAIN sessions' \subseteq DOMAIN sessions /\ \A s \in DOMAIN sessions' : sessions'[s] = sessions[s]
  BY DEF Purge, Without
<1>6. TypeOK'
  BY <1>4, <1>5, TypeParts, TypeNext DEF IInv, Purge, EntryTypes, SessionTypes
<1>7. CountInv'
  BY <1>4, CountKept DEF IInv, Purge
<1>8. OldSessionsEnd'
  BY <1>1, <1>4, <1>5 DEF IInv, OldSessionsEnd, Purge, At
<1>9. QED
  BY <1>4, <1>6, <1>7, <1>8 DEF IInv

\* A session is opened by a login with the current password, or by a stale one.
LEMMA CreateSessionKeeps ==
  ASSUME IInv, NEW h \in Handlers, CreateSession(h)
  PROVE  IInv'
<1> DEFINE t == [Idle EXCEPT !.step = "succeeded", !.ip = tasks[h].ip]
<1>1. tasks[h] \in Tasks /\ tasks[h].step = "create" /\ tasks[h].ip \in Addresses /\ tasks[h].given \in Passwords
  BY TypeParts DEF IInv, TaskInv, CreateSession, At
<1>2. Filled(t) /\ t.step = "succeeded" /\ Go(h, t)
  BY <1>1, NewTasks, IdleType DEF CreateSession, Tasks
<1> HIDE DEF t
<1>3. tasks' \in [Handlers -> Tasks] /\ TaskInv' /\ LoginInv' /\ tasks'[h] = t
      /\ (\A g \in Handlers \ {h} : tasks'[g] = tasks[g]) /\ \A ip : Flying(ip)' = Flying(ip) \ {h}
  BY <1>2, Moved DEF CreateSession
<1>4. PICK s \in Tokens \ DOMAIN sessions :
        sessions' = Put(sessions, s, [proof |-> tasks[h].given, left |-> tasks[h].left, stale |-> tasks[h].stale])
  BY DEF CreateSession
<1>5. /\ DOMAIN sessions' = DOMAIN sessions \union {s}
      /\ sessions'[s] \in Sessions /\ sessions'[s].proof = tasks[h].given /\ sessions'[s].stale = tasks[h].stale
      /\ \A r \in DOMAIN sessions : sessions'[r] = sessions[r]
  BY <1>1, <1>4 DEF Put, Tasks, Sessions
<1>6. TypeOK'
  BY <1>3, <1>4, <1>5, TypeParts, TypeNext DEF IInv, CreateSession, EntryTypes, SessionTypes
<1>7. CountInv'
  BY <1>3, CountKept DEF IInv, CreateSession
<1>8. OldSessionsEnd'
  BY <1>1, <1>3, <1>5 DEF IInv, OldSessionsEnd, LoginInv, CreateSession, At
<1>9. QED
  BY <1>3, <1>6, <1>7, <1>8 DEF IInv

\* A success forgets the failures of the address.
LEMMA RecordSuccessKeeps ==
  ASSUME IInv, NEW h \in Handlers, RecordSuccess(h)
  PROVE  IInv'
<1>0. PICK ip : ip = tasks[h].ip
  OBVIOUS
<1>1. tasks[h].step = "succeeded" /\ ip \in Addresses /\ Filled(Idle) /\ Go(h, Idle)
  BY <1>0, IdleType, Limits DEF IInv, TaskInv, RecordSuccess, At, End, Filled, Steps
<1>2. tasks' \in [Handlers -> Tasks] /\ TaskInv' /\ LoginInv' /\ \A a : Flying(a)' = Flying(a) \ {h}
  BY <1>1, Moved, IdleType, Limits DEF RecordSuccess, db, Steps
<1>3. EntryTypes' /\ \A a \in DOMAIN throttle' : a \in DOMAIN throttle /\ throttle'[a] = throttle[a]
  BY TakenOut, TypeParts DEF IInv, RecordSuccess
<1>4. guesses' \in Guesses
  <2>1. guesses \in Guesses /\ NoGuesses \in [0..(Window - 1) -> Nat]
    BY TypeParts DEF IInv, NoGuesses
  <2>2. QED
    BY <2>1 DEF RecordSuccess, Guesses
<1>5. TypeOK'
  BY <1>2, <1>3, <1>4, TypeParts, TypeNext DEF IInv, RecordSuccess, db, SessionTypes
<1>6. CountInv'
  <2> SUFFICES ASSUME NEW a \in DOMAIN throttle' PROVE Capped(throttle[a], a)'
    BY DEF CountInv
  <2>1. Flying(a)' = Flying(a)
    BY <1>1, <1>2 DEF Flying
  <2>2. QED
    BY <1>3, <2>1 DEF IInv, CountInv, Capped
<1>7. OldSessionsEnd'
  BY <1>1, OldSessionsKept DEF RecordSuccess
<1>8. QED
  BY <1>2, <1>5, <1>6, <1>7 DEF IInv

\* A change of the password is let in.
LEMMA ChangePasswordKeeps ==
  ASSUME IInv, NEW h \in Handlers, ChangePassword(h)
  PROVE  IInv'
<1> DEFINE t == [Idle EXCEPT !.step = "update"]
<1>1. Filled(t) /\ t.step = "update" /\ Go(h, t) /\ tasks[h].step = None
  BY UpdateTask DEF ChangePassword, At
<1> HIDE DEF t
<1>2. tasks' \in [Handlers -> Tasks] /\ TaskInv' /\ LoginInv' /\ \A ip : Flying(ip)' = Flying(ip) \ {h}
  BY <1>1, Moved DEF ChangePassword, db
<1>3. TypeOK'
  BY <1>2, TypeParts, TypeNext DEF IInv, ChangePassword, db, EntryTypes, SessionTypes
<1>4. CountInv'
  BY <1>2, CountKept DEF IInv, ChangePassword
<1>5. OldSessionsEnd'
  BY <1>1, OldSessionsKept, Limits DEF ChangePassword, Steps
<1>6. QED
  BY <1>2, <1>3, <1>4, <1>5 DEF IInv

\* The password changes: whoever verified the old one is stale, and this handler deletes sessions.
LEMMA UpdatePasswordKeeps ==
  ASSUME IInv, NEW h \in Handlers, NEW new \in Passwords, UpdatePassword(h, new)
  PROVE  IInv'
<1>1. tasks \in [Handlers -> Tasks] /\ tasks[h].step = "update" /\ TaskInv
  BY TypeParts DEF IInv, UpdatePassword, At
<1>2. \A g \in Handlers \ {h} :
        tasks'[g] \in Tasks /\ tasks'[g].step = tasks[g].step /\ tasks'[g].ip = tasks[g].ip /\ tasks'[g].given = tasks[g].given
        /\ (tasks[g].step \in {"purge", "create"} => tasks'[g].stale)
  BY <1>1 DEF UpdatePassword, Tasks
<1>3. tasks'[h] \in Tasks /\ tasks'[h].step = "delete"
  BY <1>1 DEF UpdatePassword, Tasks, Steps
<1>4. tasks' \in [Handlers -> Tasks]
  BY <1>2, <1>3 DEF UpdatePassword
<1>5. TaskInv' /\ LoginInv'
  BY <1>1, <1>2, <1>3 DEF TaskInv, LoginInv
<1>6. \A ip : Flying(ip)' \subseteq Flying(ip)
  BY <1>2, <1>3 DEF Flying
<1>7. TypeOK'
  BY <1>4, TypeParts, TypeNext DEF IInv, UpdatePassword, EntryTypes, SessionTypes
<1>8. CountInv'
  BY <1>6, CountKept DEF IInv, UpdatePassword
<1>9. OldSessionsEnd'
  BY <1>3 DEF OldSessionsEnd, At
<1>10. QED
  BY <1>5, <1>7, <1>8, <1>9 DEF IInv

\* Every session is deleted.
LEMMA DeleteUserSessionsKeeps ==
  ASSUME IInv, NEW h \in Handlers, DeleteUserSessions(h)
  PROVE  IInv'
<1>1. tasks[h].step = "delete" /\ Filled(Idle) /\ Go(h, Idle)
  BY IdleType, Limits DEF DeleteUserSessions, At, End, Filled, Steps
<1>2. tasks' \in [Handlers -> Tasks] /\ TaskInv' /\ LoginInv' /\ \A ip : Flying(ip)' = Flying(ip) \ {h}
  BY <1>1, Moved, IdleType, Limits DEF DeleteUserSessions, Steps
<1>3. DOMAIN sessions' = {}
  BY DEF DeleteUserSessions, Revoked, Without
<1>4. TypeOK'
  BY <1>2, <1>3, TypeParts, TypeNext DEF IInv, DeleteUserSessions, EntryTypes, SessionTypes
<1>5. CountInv'
  BY <1>2, CountKept DEF IInv, DeleteUserSessions
<1>6. OldSessionsEnd'
  BY <1>3 DEF OldSessionsEnd
<1>7. QED
  BY <1>2, <1>4, <1>5, <1>6 DEF IInv

\* A handler gives up; one that was to delete the sessions leaves the mark.
LEMMA AbandonKeeps ==
  ASSUME IInv, NEW h \in Handlers, Abandon(h)
  PROVE  IInv'
<1>1. Filled(Idle) /\ Go(h, Idle)
  BY IdleType, Limits DEF Abandon, End, Filled, Steps
<1>2. tasks' \in [Handlers -> Tasks] /\ TaskInv' /\ LoginInv'
      /\ (\A g \in Handlers \ {h} : tasks'[g] = tasks[g]) /\ \A ip : Flying(ip)' = Flying(ip) \ {h}
  BY <1>1, Moved, IdleType, Limits DEF Abandon, Steps
<1>3. lapsed' \in BOOLEAN
  BY TypeParts DEF IInv, Abandon, At
<1>4. TypeOK'
  BY <1>2, <1>3, TypeParts, TypeNext DEF IInv, Abandon, EntryTypes, SessionTypes
<1>5. CountInv'
  BY <1>2, CountKept DEF IInv, Abandon
<1>6. OldSessionsEnd'
  BY <1>2 DEF IInv, OldSessionsEnd, Abandon, At
<1>7. QED
  BY <1>2, <1>4, <1>5, <1>6 DEF IInv

\* One session less.
LEMMA LogoutKeeps ==
  ASSUME IInv, NEW s \in Tokens, Logout(s)
  PROVE  IInv'
<1>1. UNCHANGED <<throttle, password, lapsed, guesses, tasks>>
  BY DEF Logout
<1>2. DOMAIN sessions' \subseteq DOMAIN sessions /\ \A r \in DOMAIN sessions' : sessions'[r] = sessions[r]
  BY DEF Logout, Without
<1>3. TypeOK'
  BY <1>1, <1>2, TypeParts, TypeNext DEF IInv, EntryTypes, SessionTypes
<1>4. CountInv'
  BY <1>1, CountKept DEF IInv, Flying
<1>5. TaskInv' /\ LoginInv' /\ OldSessionsEnd'
  BY <1>1, <1>2 DEF IInv, TaskInv, LoginInv, OldSessionsEnd, At
<1>6. QED
  BY <1>3, <1>4, <1>5 DEF IInv

\* The process starts again: the sessions are still there, the failures are not.
LEMMA RestartKeeps ==
  ASSUME IInv, Restart
  PROVE  IInv'
<1>1. tasks' \in [Handlers -> Tasks] /\ DOMAIN throttle' = {} /\ UNCHANGED <<password, sessions>> /\ lapsed' \in BOOLEAN
  BY IdleType, TypeParts DEF IInv, Restart, At
<1>2. guesses' \in Guesses
  BY DEF Restart, Guesses, NoGuesses
<1>3. TypeOK'
  BY <1>1, <1>2, TypeParts, TypeNext DEF IInv, EntryTypes, SessionTypes
<1>4. \A h \in Handlers : tasks'[h].step \notin Steps
  BY IdleType, Limits DEF Restart
<1>5. TaskInv' /\ LoginInv' /\ CountInv'
  BY <1>1, <1>4 DEF TaskInv, LoginInv, CountInv, Steps
<1>6. OldSessionsEnd'
  BY <1>1 DEF IInv, OldSessionsEnd, Restart, At
<1>7. QED
  BY <1>3, <1>5, <1>6 DEF IInv

\* Time passes: what is left gets less, windows get older, and a lock outlasts its window.
LEMMA TickKeeps ==
  ASSUME IInv, Tick
  PROVE  IInv'
<1>1. \A n \in Nat : \A left \in 0..n : Less(left) \in 0..n
  BY Limits DEF Less
<1>2. /\ DOMAIN sessions' = DOMAIN sessions
      /\ \A s \in DOMAIN sessions : sessions'[s] \in Sessions /\ sessions'[s].proof = sessions[s].proof /\ sessions'[s].stale = sessions[s].stale
  BY <1>1, TypeParts, Limits DEF IInv, Tick, SessionTypes, Sessions
<1>3. /\ tasks' \in [Handlers -> Tasks]
      /\ \A h \in Handlers : /\ tasks'[h].step = tasks[h].step /\ tasks'[h].ip = tasks[h].ip
                             /\ tasks'[h].given = tasks[h].given /\ tasks'[h].stale = tasks[h].stale
  BY <1>1, TypeParts, Limits DEF IInv, Tick, Tasks
<1>4. \A ip : Flying(ip)' = Flying(ip)
  BY <1>3 DEF Flying
<1>5. DOMAIN throttle' = DOMAIN throttle /\ \A ip \in DOMAIN throttle : throttle'[ip] \in Entries /\ Capped(throttle[ip], ip)'
  <2> SUFFICES ASSUME NEW ip \in DOMAIN throttle PROVE throttle'[ip] \in Entries /\ Capped(throttle[ip], ip)'
    BY DEF Tick
  <2>1. throttle[ip] \in Entries /\ Capped(throttle[ip], ip)
    BY TypeParts DEF IInv, EntryTypes, CountInv
  <2>2. throttle'[ip] = [throttle[ip] EXCEPT !.age = IF @ < Window THEN @ + 1 ELSE @, !.left = Less(@)]
    BY DEF Tick
  <2>3. /\ throttle'[ip].failures = throttle[ip].failures
        /\ throttle'[ip].age = IF throttle[ip].age < Window THEN throttle[ip].age + 1 ELSE throttle[ip].age
        /\ throttle'[ip].left = Less(throttle[ip].left)
        /\ throttle'[ip] = [failures |-> throttle'[ip].failures, age |-> throttle'[ip].age, left |-> throttle'[ip].left]
    BY <2>1, <2>2 DEF Entries
  <2>4. throttle'[ip].left \in 0..Lockout \union {None}
    BY <1>1, <2>1, <2>3, Limits DEF Entries, Less
  <2>5. throttle'[ip].age \in 0..Window
    BY <2>1, <2>3, Limits DEF Entries
  <2>6. throttle'[ip] \in Entries
    BY <2>1, <2>3, <2>4, <2>5 DEF Entries
  <2>7. Capped(throttle[ip], ip)'
    BY <1>4, <2>1, <2>3, Limits DEF Capped, Entries, Less
  <2>8. QED
    BY <2>6, <2>7
<1>6. guesses' \in Guesses
  <2>1. ASSUME NEW ip \in Addresses
        PROVE  [age \in 0..(Window - 1) |-> IF age = 0 THEN 0 ELSE guesses[ip][age - 1]] \in [0..(Window - 1) -> Nat]
    <3>1. guesses[ip] \in [0..(Window - 1) -> Nat]
      BY TypeParts DEF IInv, Guesses
    <3>2. ASSUME NEW age \in 0..(Window - 1), age # 0 PROVE age - 1 \in 0..(Window - 1)
      BY <3>2, Limits
    <3>3. QED
      BY <3>1, <3>2
  <2>2. QED
    BY <2>1 DEF Tick, Guesses
<1>7. TypeOK'
  BY <1>2, <1>3, <1>5, <1>6, TypeParts, TypeNext DEF IInv, Tick, EntryTypes, SessionTypes
<1>8. CountInv'
  BY <1>5 DEF CountInv
<1>9. TaskInv'
  BY <1>3 DEF IInv, TaskInv
<1>10. LoginInv'
  BY <1>3 DEF IInv, Tick, LoginInv
<1>11. OldSessionsEnd'
  <2>1. UNCHANGED <<password, lapsed>>
    BY DEF Tick
  <2>2. QED
    BY <1>2, <1>3, <2>1 DEF IInv, OldSessionsEnd, At
<1>12. QED
  BY <1>7, <1>8, <1>9, <1>10, <1>11 DEF IInv

\* Every step keeps the inductive invariant.
LEMMA InvKept == IInv /\ [Next]_vars => IInv'
<1> SUFFICES ASSUME IInv, [Next]_vars PROVE IInv'
  OBVIOUS
<1>1. CASE UNCHANGED vars
  <2>1. TypeOK' /\ CountInv'
    BY <1>1, CountKept, TypeParts, TypeNext DEF IInv, vars, db, EntryTypes, SessionTypes, Flying
  <2>2. TaskInv' /\ LoginInv' /\ OldSessionsEnd'
    BY <1>1 DEF IInv, vars, db, TaskInv, LoginInv, OldSessionsEnd, At
  <2>3. QED
    BY <2>1, <2>2 DEF IInv
<1>2. CASE Next
  BY <1>2, LoginKeeps, VerifyPasswordKeeps, RecordFailureKeeps, PurgeKeeps, CreateSessionKeeps,
     RecordSuccessKeeps, ChangePasswordKeeps, UpdatePasswordKeeps, DeleteUserSessionsKeeps,
     AbandonKeeps, LogoutKeeps, RestartKeeps, TickKeeps DEF Next
<1>3. QED
  BY <1>1, <1>2

LEMMA InvHolds == Spec => []IInv
<1>1. Init => IInv
  <2> SUFFICES ASSUME Init PROVE IInv
    OBVIOUS
  <2>1. TypeOK
    <3>1. NoGuesses \in [0..(Window - 1) -> Nat]
      BY DEF NoGuesses
    <3>2. guesses \in Guesses
      BY <3>1 DEF Init, Guesses
    <3>3. EntryTypes /\ SessionTypes
      BY DEF Init, EntryTypes, SessionTypes
    <3>4. QED
      BY <3>2, <3>3, IdleType, TypeParts DEF Init
  <2>2. \A h \in Handlers : tasks[h].step \notin Steps
    BY IdleType, Limits DEF Init
  <2>3. TaskInv /\ CountInv /\ LoginInv /\ OldSessionsEnd
    BY <2>2 DEF Init, TaskInv, CountInv, LoginInv, OldSessionsEnd, Steps
  <2>4. QED
    BY <2>1, <2>3 DEF IInv
<1>2. QED
  BY <1>1, InvKept, PTL DEF Spec

-----------------------------------------------------------------------------
(* The bound on the guesses: what the bounds on one address do to each other *)

Tried == [0..(Window - 1) -> Nat]
Kept == [failures : 0..(MaxFailures + Cardinality(Handlers)), age : 0..Window, left : 0..Lockout \union {None}]

\* What has been tried is counted by numbers, the last ticks of a window too.
LEMMA TriedIsNumber ==
  ASSUME NEW g \in Tried
  PROVE  Window - 1 \in 0..(Window - 1) /\ \A a \in 0..(Window - 1) : g[a] \in Nat
BY Limits DEF Tried

\* A login less that may be counted loosens the bounds.
LEMMA FewerFlying ==
  ASSUME NEW g \in Tried, NEW q \in Nat, NEW r \in Nat, r <= q, NEW e \in Kept,
         EntryBound(g, q, e)
  PROVE  EntryBound(g, r, e)
<1>1. AllBound(g, r, e)
  BY TriedIsNumber, Limits, HandlersCount DEF EntryBound, AllBound
<1>2. QED
  BY <1>1 DEF EntryBound

\* An entry that is not worth keeping can be forgotten: the failures of a window that is over
\* are few, and behind a lock that has expired little was tried.
LEMMA Forgotten ==
  ASSUME NEW g \in Tried, NEW q \in Nat, NEW e \in Kept, EntryBound(g, q, e), ~Worth(e)
  PROVE  NoEntryBound(g)
<1>1. CASE e.left = None
  <2>1. e.age = Window /\ e.failures \in 0..(MaxFailures - 1)
    BY <1>1, Limits, HandlersCount DEF EntryBound, Worth, Kept
  <2>2. g[Window - 1] <= e.failures - 1
    BY <2>1, TriedIsNumber, Limits DEF EntryBound, WindowBound
  <2>3. QED
    BY <2>1, <2>2, TriedIsNumber, Limits DEF NoEntryBound
<1>2. CASE e.left # None
  <2>1. e.left = 0
    BY <1>2, Limits DEF Worth, Kept
  <2>2. g[Window - 1] <= IF e.failures >= MaxFailures THEN 0 ELSE MaxFailures - 2 + e.failures
    BY <1>2, <2>1, TriedIsNumber, Limits DEF EntryBound, LockBound
  <2>3. QED
    BY <2>2, TriedIsNumber, Limits, HandlersCount DEF NoEntryBound, Kept
<1>3. QED
  BY <1>1, <1>2

\* A failure is counted: one more, in the window it falls into or as the first of a new one.
LEMMA CountedBound ==
  ASSUME NEW g \in Tried, NEW q \in Nat, q < Cardinality(Handlers),
         NEW e \in Kept, e.failures > 0, EntryBound(g, q + 1, e)
  PROVE  EntryBound(GuessedOnce(g), q, Counted(e))
<1> DEFINE c == Counted(e)
           f == GuessedOnce(g)
<1>1. /\ c.failures = IF e.age = Window THEN 1 ELSE e.failures + 1
      /\ c.age = IF e.age = Window THEN 0 ELSE e.age
      /\ c.left = IF c.failures >= MaxFailures THEN Lockout ELSE e.left
  BY DEF Counted
<1>2. e.failures \in Nat /\ e.age \in 0..Window /\ e.left \in 0..Lockout \union {None}
  BY HandlersCount, Limits DEF Kept
<1>3. c.failures >= MaxFailures => e.age # Window /\ c.left = Lockout /\ c.left # None
  BY <1>1, <1>2, Limits
<1>4. f \in Tried /\ \A a \in 0..(Window - 1) : f[a] = g[a] + 1 /\ g[a] \in Nat
  BY OneMore, TriedIsNumber DEF Tried, GuessedOnce
<1> HIDE DEF c, f
<1>5. WindowBound(f, c)
  BY <1>1, <1>2, <1>4, TriedIsNumber, Limits DEF EntryBound, WindowBound
<1>6. OpenBound(f, c)
  <2> SUFFICES ASSUME c.left = None PROVE f[Window - 1] <= 2 * (MaxFailures - 1) - 1 + c.failures
    BY DEF OpenBound
  <2>1. e.left = None /\ e.failures < MaxFailures
    BY <1>1, <1>2, <1>3, Limits DEF EntryBound
  <2>2. CASE e.age = Window
    <3>1. g[Window - 1] <= e.failures - 1
      BY <2>2, TriedIsNumber, Limits DEF EntryBound, WindowBound
    <3>2. QED
      BY <1>1, <1>2, <1>4, <2>1, <2>2, <3>1, TriedIsNumber, Limits
  <2>3. CASE e.age # Window
    BY <1>1, <1>2, <1>4, <2>1, <2>3, TriedIsNumber, Limits DEF EntryBound, OpenBound
  <2>4. QED
    BY <2>2, <2>3
<1>7. LockBound(f, c)
  <2> SUFFICES ASSUME c.left # None, NEW a \in 0..(Window - 1), a < Lockout - c.left
               PROVE  f[a] <= IF c.failures >= MaxFailures THEN 0 ELSE MaxFailures - 2 + c.failures
    BY DEF LockBound
  <2>1. c.failures < MaxFailures /\ c.left = e.left /\ c.failures \in Nat
    BY <1>1, <1>2, <1>3, Limits
  <2>2. g[a] <= IF e.failures >= MaxFailures THEN 0 ELSE MaxFailures - 2 + e.failures
    BY <2>1 DEF EntryBound, LockBound
  <2>3. CASE e.age = Window
    <3>1. g[a] <= e.failures - 1
      BY <1>2, <2>3, TriedIsNumber, Limits DEF EntryBound, WindowBound
    <3>2. QED
      BY <1>1, <1>2, <1>4, <2>1, <2>2, <2>3, <3>1, TriedIsNumber, Limits
  <2>4. CASE e.age # Window
    BY <1>1, <1>2, <1>4, <2>1, <2>2, <2>4, TriedIsNumber, Limits
  <2>5. QED
    BY <2>3, <2>4
<1>8. AllBound(f, q, c)
  <2> SUFFICES ASSUME c.left # None PROVE f[Window - 1] + q <= 3 * (MaxFailures - 1) - 1 + Cardinality(Handlers)
    BY DEF AllBound
  <2>1. CASE e.left # None
    BY <1>4, <2>1, TriedIsNumber, Limits, HandlersCount DEF EntryBound, AllBound
  <2>2. CASE e.left = None
    <3>1. e.failures < MaxFailures /\ g[Window - 1] <= 2 * (MaxFailures - 1) - 1 + e.failures
      BY <1>2, <2>2, Limits DEF EntryBound, OpenBound
    <3>2. QED
      BY <1>2, <1>4, <3>1, TriedIsNumber, Limits, HandlersCount
  <2>3. QED
    BY <2>1, <2>2
<1>9. QED
  BY <1>3, <1>5, <1>6, <1>7, <1>8 DEF EntryBound, c, f

\* The first failure of an address that has no entry.
LEMMA FirstBound ==
  ASSUME NEW g \in Tried, NEW q \in Nat, NoEntryBound(g)
  PROVE  EntryBound(GuessedOnce(g), q, Counted([failures |-> 0, age |-> 0, left |-> None]))
<1>1. Counted([failures |-> 0, age |-> 0, left |-> None]) = [failures |-> 1, age |-> 0, left |-> None]
  BY Limits DEF Counted
<1>2. GuessedOnce(g)[Window - 1] = g[Window - 1] + 1
  BY TriedIsNumber DEF GuessedOnce
<1>3. QED
  BY <1>1, <1>2, TriedIsNumber, Limits DEF EntryBound, NoEntryBound, WindowBound, OpenBound, LockBound, AllBound

\* One failure more is one more of all ticks.
LEMMA GrowsOnce ==
  ASSUME NEW g \in Tried, Grows(g)
  PROVE  GuessedOnce(g) \in Tried /\ Grows(GuessedOnce(g))
<1>1. GuessedOnce(g) \in Tried /\ \A a \in 0..(Window - 1) : GuessedOnce(g)[a] = g[a] + 1
  BY OneMore DEF Tried, GuessedOnce
<1>2. QED
  BY <1>1, TriedIsNumber, Limits DEF Grows

\* A tick: everything gets older.
Older(g) == [age \in 0..(Window - 1) |-> IF age = 0 THEN 0 ELSE g[age - 1]]
LEMMA OlderBound ==
  ASSUME NEW g \in Tried, NEW q \in Nat, Grows(g)
  PROVE  /\ Older(g) \in Tried /\ Grows(Older(g))
         /\ NoEntryBound(g) => NoEntryBound(Older(g))
         /\ \A e, d \in Kept :
              /\ EntryBound(g, q, e) /\ e.failures > 0 /\ d.failures = e.failures
              /\ d.age = (IF e.age < Window THEN e.age + 1 ELSE e.age) /\ d.left = Less(e.left)
              => EntryBound(Older(g), q, d)
<1> DEFINE o == Older(g)
<1>1. o[0] = 0 /\ \A a \in 1..(Window - 1) : o[a] = g[a - 1] /\ a - 1 \in 0..(Window - 1)
  BY Limits DEF Older
<1>2. o \in Tried
  BY TriedIsNumber, Limits DEF Older, Tried
<1> HIDE DEF o
<1>3. Grows(o)
  BY <1>1, <1>2, TriedIsNumber, Limits DEF Grows
<1>4. o[Window - 1] <= g[Window - 1]
  <2>1. CASE Window = 1
    BY <1>1, <2>1, TriedIsNumber
  <2>2. CASE Window # 1
    BY <1>1, <2>2, TriedIsNumber, Limits DEF Grows
  <2>3. QED
    BY <2>1, <2>2
<1>5. NoEntryBound(g) => NoEntryBound(o)
  BY <1>2, <1>4, TriedIsNumber, Limits DEF NoEntryBound
<1>6. ASSUME NEW e \in Kept, NEW d \in Kept, EntryBound(g, q, e), e.failures > 0, d.failures = e.failures,
             d.age = (IF e.age < Window THEN e.age + 1 ELSE e.age), d.left = Less(e.left)
      PROVE  EntryBound(o, q, d)
  <2>1. e.failures \in Nat /\ e.age \in 0..Window /\ e.left \in 0..Lockout \union {None}
    BY HandlersCount, Limits DEF Kept
  <2>2. /\ d.left = None <=> e.left = None
        /\ e.left # None => d.left \in 0..Lockout /\ e.left \in 0..Lockout /\ e.left <= d.left + 1
    BY <1>6, <2>1, Limits DEF Less
  <2>3. WindowBound(o, d)
    <3> SUFFICES ASSUME NEW a \in 0..(Window - 1), a < d.age PROVE o[a] <= d.failures - 1
      BY DEF WindowBound
    <3>1. CASE a = 0
      BY <1>1, <1>6, <2>1, <3>1
    <3>2. CASE a # 0
      <4>1. a - 1 \in 0..(Window - 1) /\ a - 1 < e.age /\ o[a] = g[a - 1]
        BY <1>1, <1>6, <2>1, <3>2, Limits
      <4>2. QED
        BY <1>6, <4>1 DEF EntryBound, WindowBound
    <3>3. QED
      BY <3>1, <3>2
  <2>4. OpenBound(o, d)
    BY <1>2, <1>4, <1>6, <2>1, <2>2, TriedIsNumber, Limits DEF EntryBound, OpenBound
  <2>5. LockBound(o, d)
    <3> SUFFICES ASSUME d.left # None, NEW a \in 0..(Window - 1), a < Lockout - d.left
                 PROVE  o[a] <= IF d.failures >= MaxFailures THEN 0 ELSE MaxFailures - 2 + d.failures
      BY DEF LockBound
    <3>1. CASE a = 0
      BY <1>1, <1>6, <2>1, <3>1, Limits
    <3>2. CASE a # 0
      <4>1. a - 1 \in 0..(Window - 1) /\ a - 1 < Lockout - e.left /\ o[a] = g[a - 1] /\ e.left # None
        BY <1>1, <2>2, <3>2, Limits
      <4>2. QED
        BY <1>6, <4>1 DEF EntryBound, LockBound
    <3>3. QED
      BY <3>1, <3>2
  <2>6. AllBound(o, q, d)
    BY <1>2, <1>4, <1>6, <2>2, TriedIsNumber, Limits, HandlersCount DEF EntryBound, AllBound
  <2>7. QED
    BY <1>6, <2>2, <2>3, <2>4, <2>5, <2>6 DEF EntryBound
<1>7. QED
  BY <1>2, <1>3, <1>5, <1>6 DEF o

-----------------------------------------------------------------------------
(* The bound on the guesses: what the actions do to it *)

\* The logins of an address that may be counted are not more than the handlers.
LEMMA FlightCount ==
  ASSUME NEW ip
  PROVE  IsFiniteSet(Flying(ip)) /\ FlyingCount(ip) \in Nat /\ FlyingCount(ip) <= Cardinality(Handlers)
BY HandlersCount DEF FlyingCount

\* The values that the bound on one address is about.
LEMMA GuessTypes ==
  ASSUME IInv, NEW ip \in Addresses
  PROVE  guesses[ip] \in Tried /\ (ip \in DOMAIN throttle => throttle[ip] \in Kept /\ throttle[ip].failures > 0)
BY TypeParts, Limits, HandlersCount DEF IInv, Guesses, Tried, EntryTypes, Entries, Kept

\* If nothing of an address changes but that fewer logins may be counted, its bound holds.
LEMMA GuessSame ==
  ASSUME IInv, NEW ip \in Addresses, GuessOk(ip),
         guesses'[ip] = guesses[ip], Flying(ip)' \subseteq Flying(ip),
         ip \in DOMAIN throttle' <=> ip \in DOMAIN throttle, ip \in DOMAIN throttle => throttle'[ip] = throttle[ip]
  PROVE  GuessOk(ip)'
<1>1. FlyingCount(ip) \in Nat /\ FlyingCount(ip)' \in Nat /\ FlyingCount(ip)' <= FlyingCount(ip)
  BY FlightCount, FS_Subset, FS_CardinalityType DEF FlyingCount
<1>2. QED
  BY <1>1, GuessTypes, FewerFlying DEF GuessOk

\* One handler leaves those that may be counted, or none does.
LEMMA GuessStill ==
  ASSUME IInv, GuessInv, UNCHANGED <<throttle, guesses>>, \A ip : Flying(ip)' \subseteq Flying(ip)
  PROVE  GuessInv'
BY GuessSame DEF GuessInv

\* A handler takes up something else than a login, or ends.
LEMMA GuessMoved ==
  ASSUME IInv, GuessInv, NEW h \in Handlers, NEW t, Go(h, t), t.step \notin {"find", "failed"},
         UNCHANGED <<throttle, guesses>>
  PROVE  GuessInv'
<1>1. \A ip : Flying(ip)' \subseteq Flying(ip)
  BY OneTask DEF IInv, Flying
<1>2. QED
  BY <1>1, GuessStill

\* A login is let in: its address is not locked, and a lock that has expired is forgotten.
LEMMA LoginGuess ==
  ASSUME IInv, GuessInv, NEW h \in Handlers, NEW ip \in Addresses, NEW given \in Passwords, Login(h, ip, given)
  PROVE  GuessInv'
<1> DEFINE t == [Idle EXCEPT !.step = "find", !.ip = ip, !.given = given]
<1>1. t.step = "find" /\ t.ip = ip /\ Go(h, t) /\ tasks[h].step = None
  BY NewTasks, IdleType DEF Login, At, Tasks, Filled
<1> HIDE DEF t
<1>2. tasks'[h] = t /\ \A g \in Handlers \ {h} : tasks'[g] = tasks[g]
  BY <1>1, OneTask DEF IInv
<1>3. \A a : a # ip => Flying(a)' = Flying(a)
  BY <1>1, <1>2, Limits DEF Flying, Steps
<1> SUFFICES ASSUME NEW a \in Addresses PROVE GuessOk(a)'
  BY DEF GuessInv
<1>4. GuessOk(a) /\ guesses'[a] = guesses[a]
  BY DEF GuessInv, Login
<1>5. CASE a # ip
  <2>1. (a \in DOMAIN throttle' <=> a \in DOMAIN throttle) /\ (a \in DOMAIN throttle => throttle'[a] = throttle[a])
    BY <1>5 DEF Login, Checked, Without
  <2>2. QED
    BY <1>3, <1>4, <1>5, <2>1, GuessSame
<1>6. CASE a = ip
  <2>0. FlyingCount(a) \in Nat
    BY FlightCount
  <2>1. CASE a \notin DOMAIN throttle
    <3>1. a \notin DOMAIN throttle'
      BY <1>6, <2>1 DEF Login, Checked, LockedAt
    <3>2. QED
      BY <1>4, <2>1, <3>1 DEF GuessOk
  <2>2. CASE LockedAt(a, {0})
    <3>1. a \notin DOMAIN throttle'
      BY <1>6, <2>2 DEF Login, Checked, Without
    <3>2. a \in DOMAIN throttle /\ ~Worth(throttle[a])
      BY <2>2, Limits DEF LockedAt, Worth
    <3>3. NoEntryBound(guesses[a])
      BY <1>4, <2>0, <3>2, GuessTypes, Forgotten DEF GuessOk
    <3>4. QED
      BY <1>4, <3>1, <3>3 DEF GuessOk
  <2>3. CASE a \in DOMAIN throttle /\ ~LockedAt(a, {0})
    <3>1. throttle' = throttle
      BY <1>6, <2>3 DEF Login, Checked
    <3>2. throttle[a].left = None
      BY <1>6, <2>3, GuessTypes, Limits DEF Login, Locked, LockedAt, Kept
    <3>3. QED
      BY <1>4, <2>3, <3>1, <3>2 DEF GuessOk, EntryBound, AllBound
  <2>4. QED
    BY <2>1, <2>2, <2>3
<1>7. QED
  BY <1>5, <1>6

\* A password is verified: there is something else to do, or still a failure to count.
LEMMA VerifyPasswordGuess ==
  ASSUME IInv, GuessInv, NEW h \in Handlers, VerifyPassword(h)
  PROVE  GuessInv'
<1>1. tasks[h] \in Tasks /\ tasks[h].step = "find" /\ UNCHANGED <<throttle, guesses>>
  BY TypeParts DEF IInv, VerifyPassword, At
<1>2. \E t : Go(h, t) /\ (t.step = "failed" => t.ip = tasks[h].ip) /\ t.step # "find"
  <2>1. CASE tasks[h].given = password
    <3> DEFINE t == [tasks[h] EXCEPT !.step = "purge"]
    <3>1. Go(h, t) /\ t.step = "purge"
      BY <1>1, <2>1 DEF VerifyPassword, Tasks
    <3>2. QED
      BY <3>1
  <2>2. CASE tasks[h].given # password
    <3> DEFINE t == [Idle EXCEPT !.step = "failed", !.ip = tasks[h].ip]
    <3>1. Go(h, t) /\ t.step = "failed" /\ t.ip = tasks[h].ip
      BY <1>1, <2>2, IdleType DEF VerifyPassword, Tasks
    <3>2. QED
      BY <3>1
  <2>3. QED
    BY <2>1, <2>2
<1>3. \A ip : Flying(ip)' \subseteq Flying(ip)
  BY <1>1, <1>2, OneTask DEF IInv, Flying
<1>4. QED
  BY <1>1, <1>3, GuessStill

\* A failure is counted, and other addresses may be forgotten.
LEMMA RecordFailureGuess ==
  ASSUME IInv, GuessInv, NEW h \in Handlers, RecordFailure(h)
  PROVE  GuessInv'
<1>0. PICK ip : ip = tasks[h].ip
  OBVIOUS
<1>1. tasks[h].step = "failed" /\ ip \in Addresses /\ Go(h, Idle) /\ Idle.step = None
  BY <1>0, IdleType DEF IInv, TaskInv, RecordFailure, At, End
<1>2. \A a : a # ip => Flying(a)' = Flying(a)
  BY <1>0, <1>1, OneTask, Limits DEF IInv, Flying, Steps
<1>3. Flying(ip)' = Flying(ip) \ {h} /\ h \in Flying(ip)
  BY <1>0, <1>1, OneTask, Limits DEF IInv, Flying, Steps
<1>4. FlyingCount(ip) = FlyingCount(ip)' + 1 /\ FlyingCount(ip)' \in Nat /\ FlyingCount(ip)' < Cardinality(Handlers)
  <2>1. IsFiniteSet(Flying(ip)) /\ FlyingCount(ip) \in Nat /\ FlyingCount(ip) <= Cardinality(Handlers)
    BY FlightCount
  <2>2. Cardinality(Flying(ip) \ {h}) = Cardinality(Flying(ip)) - 1 /\ Cardinality(Flying(ip) \ {h}) \in Nat
    BY <1>3, <2>1, FS_RemoveElement, FS_CardinalityType
  <2>3. QED
    BY <1>3, <2>1, <2>2, HandlersCount DEF FlyingCount
<1>5. guesses'[ip] = GuessedOnce(guesses[ip]) /\ \A a \in Addresses \ {ip} : guesses'[a] = guesses[a]
  BY <1>0, <1>1, TypeParts DEF IInv, RecordFailure, Guesses
<1>6. /\ DOMAIN Retained \subseteq DOMAIN throttle /\ \A a \in DOMAIN Retained : Retained[a] = throttle[a]
      /\ \A a \in DOMAIN throttle \ DOMAIN Retained : ~Worth(throttle[a])
  BY DEF Retained, Without
<1>7. ASSUME NEW a \in Addresses, a \notin DOMAIN Retained
      PROVE  NoEntryBound(guesses[a])
  <2>1. GuessOk(a)
    BY DEF GuessInv
  <2>2. CASE a \in DOMAIN throttle
    BY <1>6, <1>7, <2>1, <2>2, FlightCount, GuessTypes, Forgotten DEF GuessOk
  <2>3. CASE a \notin DOMAIN throttle
    BY <2>1, <2>3 DEF GuessOk
  <2>4. QED
    BY <2>2, <2>3
<1>8. ASSUME NEW a \in DOMAIN Retained, a \in Addresses
      PROVE  EntryBound(guesses[a], FlyingCount(a), Retained[a]) /\ Retained[a] \in Kept /\ Retained[a].failures > 0
  BY <1>6, <1>8, GuessTypes DEF GuessInv, GuessOk
<1> SUFFICES ASSUME NEW a \in Addresses PROVE GuessOk(a)'
  BY DEF GuessInv
<1>9. guesses[a] \in Tried /\ Grows(guesses[a])
  BY GuessTypes DEF GuessInv, GuessOk
<1>10. CASE a # ip
  <2>1. /\ a \in DOMAIN throttle' <=> a \in DOMAIN Retained
        /\ a \in DOMAIN Retained => throttle'[a] = Retained[a]
    BY <1>0, <1>10 DEF RecordFailure, FailedOnce, Put
  <2>2. FlyingCount(a)' = FlyingCount(a) /\ guesses'[a] = guesses[a]
    BY <1>2, <1>5, <1>10 DEF FlyingCount
  <2>3. QED
    BY <1>7, <1>8, <1>9, <2>1, <2>2 DEF GuessOk
<1>11. CASE a = ip
  <2>1. ip \in DOMAIN throttle'
        /\ throttle'[ip] = Counted(IF ip \in DOMAIN Retained THEN Retained[ip] ELSE [failures |-> 0, age |-> 0, left |-> None])
    BY <1>0 DEF RecordFailure, FailedOnce, Put
  <2>2. Grows(GuessedOnce(guesses[a]))
    BY <1>9, GrowsOnce
  <2>3. CASE ip \in DOMAIN Retained
    <3>1. EntryBound(GuessedOnce(guesses[a]), FlyingCount(ip)', Counted(Retained[a]))
      BY <1>4, <1>8, <1>9, <1>11, <2>3, CountedBound
    <3>2. QED
      BY <1>5, <1>11, <2>1, <2>2, <2>3, <3>1 DEF GuessOk
  <2>4. CASE ip \notin DOMAIN Retained
    <3>1. EntryBound(GuessedOnce(guesses[a]), FlyingCount(ip)', Counted([failures |-> 0, age |-> 0, left |-> None]))
      BY <1>4, <1>7, <1>9, <1>11, <2>4, FirstBound
    <3>2. QED
      BY <1>5, <1>11, <2>1, <2>2, <2>4, <3>1 DEF GuessOk
  <2>5. QED
    BY <2>3, <2>4
<1>12. QED
  BY <1>10, <1>11

\* An address with no guesses and no entry is within the bound.
LEMMA NoGuessesBound ==
  ASSUME NEW ip, guesses[ip] = NoGuesses, ip \notin DOMAIN throttle
  PROVE  GuessOk(ip)
<1>1. NoGuesses \in Tried /\ \A a \in 0..(Window - 1) : NoGuesses[a] = 0
  BY DEF NoGuesses, Tried
<1>2. Grows(NoGuesses)
  BY <1>1, Limits DEF Grows
<1>3. NoEntryBound(NoGuesses)
  BY <1>1, Limits DEF NoEntryBound
<1>4. QED
  BY <1>2, <1>3 DEF GuessOk

\* A success: the guesses of the address are over, and its entry is gone.
LEMMA RecordSuccessGuess ==
  ASSUME IInv, GuessInv, NEW h \in Handlers, RecordSuccess(h)
  PROVE  GuessInv'
<1>0. PICK ip : ip = tasks[h].ip
  OBVIOUS
<1>1. tasks[h].step = "succeeded" /\ ip \in Addresses /\ Go(h, Idle) /\ Idle.step = None
  BY <1>0, IdleType DEF IInv, TaskInv, RecordSuccess, At, End
<1>2. \A a : Flying(a)' = Flying(a)
  BY <1>1, OneTask, Limits DEF IInv, Flying, Steps
<1>3. guesses'[ip] = NoGuesses /\ \A a \in Addresses \ {ip} : guesses'[a] = guesses[a]
  BY <1>0, <1>1, TypeParts DEF IInv, RecordSuccess, Guesses
<1>4. DOMAIN throttle' = DOMAIN throttle \ {ip} /\ \A a \in DOMAIN throttle' : throttle'[a] = throttle[a]
  BY <1>0 DEF RecordSuccess, Without
<1>5. GuessOk(ip)'
  <2>1. NoGuesses \in Tried /\ \A a \in 0..(Window - 1) : NoGuesses[a] = 0
    BY DEF NoGuesses, Tried
  <2>2. Grows(NoGuesses)
    BY <2>1, Limits DEF Grows
  <2>3. NoEntryBound(NoGuesses)
    BY <2>1, Limits DEF NoEntryBound
  <2>4. QED
    BY <1>3, <1>4, <2>2, <2>3 DEF GuessOk
<1> SUFFICES ASSUME NEW a \in Addresses \ {ip} PROVE GuessOk(a)'
  BY <1>5 DEF GuessInv
<1>6. QED
  BY <1>2, <1>3, <1>4, GuessSame DEF GuessInv

\* The process starts again, and counts nothing any more.
LEMMA RestartGuess ==
  ASSUME Restart
  PROVE  GuessInv'
<1> SUFFICES ASSUME NEW ip \in Addresses PROVE GuessOk(ip)'
  BY DEF GuessInv
<1>1. guesses'[ip] = NoGuesses /\ ip \notin DOMAIN throttle'
  BY DEF Restart
<1>2. NoGuesses \in Tried /\ \A a \in 0..(Window - 1) : NoGuesses[a] = 0
  BY DEF NoGuesses, Tried
<1>3. Grows(NoGuesses) /\ NoEntryBound(NoGuesses)
  BY <1>2, Limits DEF Grows, NoEntryBound
<1>4. QED
  BY <1>1, <1>3 DEF GuessOk

\* Time passes.
LEMMA TickGuess ==
  ASSUME IInv, IInv', GuessInv, Tick
  PROVE  GuessInv'
<1> SUFFICES ASSUME NEW ip \in Addresses PROVE GuessOk(ip)'
  BY DEF GuessInv
<1>1. guesses'[ip] = Older(guesses[ip])
  BY DEF Tick, Older
<1>2. \A h \in Handlers : tasks'[h].step = tasks[h].step /\ tasks'[h].ip = tasks[h].ip
  BY TypeParts DEF IInv, Tick, Tasks
<1>3. Flying(ip)' = Flying(ip)
  BY <1>2 DEF Flying
<1>4. FlyingCount(ip)' = FlyingCount(ip) /\ FlyingCount(ip) \in Nat
  BY <1>3, FlightCount DEF FlyingCount
<1>5. GuessOk(ip) /\ guesses[ip] \in Tried
  BY GuessTypes DEF GuessInv
<1>6. CASE ip \in DOMAIN throttle
  <2>1. throttle[ip] \in Kept /\ throttle[ip].failures > 0
    BY <1>6, GuessTypes
  <2>2. ip \in DOMAIN throttle' /\ throttle'[ip] = [throttle[ip] EXCEPT !.age = IF @ < Window THEN @ + 1 ELSE @, !.left = Less(@)]
    BY <1>6 DEF Tick
  <2>3. throttle'[ip] \in Kept
    <3>1. throttle'[ip] \in Entries
      BY <2>2, TypeNext DEF IInv, EntryTypes
    <3>2. QED
      BY <3>1, Limits, HandlersCount DEF Entries, Kept
  <2>4. /\ throttle'[ip].failures = throttle[ip].failures
        /\ throttle'[ip].age = (IF throttle[ip].age < Window THEN throttle[ip].age + 1 ELSE throttle[ip].age)
        /\ throttle'[ip].left = Less(throttle[ip].left)
    BY <2>1, <2>2 DEF Kept
  <2>5. QED
    <3>1. EntryBound(guesses[ip], FlyingCount(ip), throttle[ip]) /\ Grows(guesses[ip])
      BY <1>5, <1>6 DEF GuessOk
    <3>2. EntryBound(Older(guesses[ip]), FlyingCount(ip), throttle'[ip]) /\ Grows(Older(guesses[ip]))
      BY <1>4, <1>5, <2>1, <2>3, <2>4, <3>1, OlderBound
    <3>3. QED
      BY <1>1, <1>4, <2>2, <3>2 DEF GuessOk
<1>7. CASE ip \notin DOMAIN throttle
  <2>1. ip \notin DOMAIN throttle'
    BY <1>7 DEF Tick
  <2>2. QED
    BY <1>1, <1>4, <1>5, <1>7, <2>1, OlderBound DEF GuessOk
<1>8. QED
  BY <1>6, <1>7

\* Every step keeps the bounds.
LEMMA GuessKept == IInv /\ IInv' /\ GuessInv /\ [Next]_vars => GuessInv'
<1> SUFFICES ASSUME IInv, IInv', GuessInv, [Next]_vars PROVE GuessInv'
  OBVIOUS
<1>1. CASE UNCHANGED vars
  BY <1>1, GuessStill DEF vars, Flying
<1>2. ASSUME NEW h \in Handlers, Purge(h) PROVE GuessInv'
  <2> DEFINE t == [tasks[h] EXCEPT !.step = "create", !.left = SessionTtl]
  <2>1. t.step = "create" /\ tasks[h].step = "purge"
    BY <1>2, TypeParts DEF IInv, Purge, At, Tasks
  <2> HIDE DEF t
  <2>2. Go(h, t) /\ UNCHANGED <<throttle, guesses>>
    BY <1>2 DEF Purge, t
  <2>3. QED
    BY <2>1, <2>2, GuessMoved
<1>3. ASSUME NEW h \in Handlers, CreateSession(h) PROVE GuessInv'
  <2> DEFINE t == [Idle EXCEPT !.step = "succeeded", !.ip = tasks[h].ip]
  <2>1. t.step = "succeeded" /\ tasks[h].step = "create"
    BY <1>3, IdleType DEF CreateSession, At, Tasks
  <2> HIDE DEF t
  <2>2. Go(h, t) /\ UNCHANGED <<throttle, guesses>>
    BY <1>3 DEF CreateSession, t
  <2>3. QED
    BY <2>1, <2>2, GuessMoved
<1>4. ASSUME NEW h \in Handlers, ChangePassword(h) PROVE GuessInv'
  <2> DEFINE t == [Idle EXCEPT !.step = "update"]
  <2>1. t.step = "update" /\ tasks[h].step = None /\ Go(h, t) /\ UNCHANGED <<throttle, guesses>>
    BY <1>4, UpdateTask DEF ChangePassword, At
  <2> HIDE DEF t
  <2>2. QED
    BY <2>1, GuessMoved, Limits DEF Steps
<1>5. ASSUME NEW h \in Handlers, NEW new \in Passwords, UpdatePassword(h, new) PROVE GuessInv'
  <2>1. tasks \in [Handlers -> Tasks] /\ tasks[h].step = "update"
    BY <1>5, TypeParts DEF IInv, UpdatePassword, At
  <2>2. /\ tasks'[h].step = "delete"
        /\ \A g \in Handlers \ {h} : tasks'[g].step = tasks[g].step /\ tasks'[g].ip = tasks[g].ip
    BY <1>5, <2>1 DEF UpdatePassword, Tasks
  <2>3. \A ip : Flying(ip)' = Flying(ip)
    BY <2>1, <2>2 DEF Flying
  <2>4. QED
    BY <1>5, <2>3, GuessStill DEF UpdatePassword
<1>6. ASSUME NEW h \in Handlers, DeleteUserSessions(h) \/ Abandon(h) PROVE GuessInv'
  <2>1. Go(h, Idle) /\ Idle.step = None /\ UNCHANGED <<throttle, guesses>>
    BY <1>6, IdleType DEF DeleteUserSessions, Abandon, At, End
  <2>2. QED
    BY <2>1, GuessMoved, Limits DEF Steps
<1>7. ASSUME NEW s \in Tokens, Logout(s) PROVE GuessInv'
  BY <1>7, GuessStill DEF Logout, Flying
<1>8. CASE Next
  BY <1>2, <1>3, <1>4, <1>5, <1>6, <1>7, <1>8, LoginGuess, VerifyPasswordGuess, RecordFailureGuess,
     RecordSuccessGuess, RestartGuess, TickGuess DEF Next
<1>9. QED
  BY <1>1, <1>8

-----------------------------------------------------------------------------
(* The theorems *)

\* The tables and what the handlers carry keep their types.  In particular no address is
\* ever charged with more failures than the limit and one for each other handler, however
\* the logins in flight and the windows fall (record_failure).
THEOREM TypeCorrect == Spec => []TypeOK
<1>1. IInv => TypeOK
  BY DEF IInv
<1>2. QED
  BY <1>1, InvHolds, PTL

\* A change of the password that went through has ended every session that comes from an
\* older password, but for those of logins that had verified it before (change_password).
THEOREM OldSessionsEndHolds == Spec => []OldSessionsEnd
<1>1. IInv => OldSessionsEnd
  BY DEF IInv
<1>2. QED
  BY <1>1, InvHolds, PTL

\* Nothing but time, a restart or a success of the address itself ends a lock: neither the
\* sweep of the table nor a later failure (check, record_failure, record_success).
THEOREM LockHoldsAlways == Spec => LockHolds
<1> DEFINE Unlocks(ip) == \/ Restart \/ (Tick /\ throttle[ip].left = 1)
                          \/ \E h \in Handlers : tasks[h].ip = ip /\ RecordSuccess(h)
<1>1. ASSUME IInv, Next, NEW ip \in Addresses, Locked(ip), ~Locked(ip)', ~Unlocks(ip)
      PROVE  FALSE
  <2>1. ip \in DOMAIN throttle /\ throttle[ip].left \in 1..Lockout /\ throttle[ip] \in Entries /\ throttle[ip].left # None
    BY <1>1, TypeParts, Limits DEF IInv, EntryTypes, Locked, LockedAt
  <2>2. throttle' # throttle
    BY <1>1 DEF Locked, LockedAt
  <2>3. ASSUME NEW h \in Handlers, NEW i \in Addresses, NEW given \in Passwords, Login(h, i, given) PROVE FALSE
    <3>1. ip \in DOMAIN throttle' /\ throttle'[ip] = throttle[ip]
      BY <2>1, <2>3 DEF Login, Checked, LockedAt, Without
    <3>2. QED
      BY <1>1, <2>1, <3>1 DEF Locked, LockedAt
  <2>4. ASSUME NEW h \in Handlers, RecordFailure(h) PROVE FALSE
    <3>1. ip \in DOMAIN Retained /\ Retained[ip] = throttle[ip]
      BY <2>1 DEF Retained, Without, Worth
    <3>2. ip \in DOMAIN throttle' /\ throttle'[ip] \in {throttle[ip], Counted(throttle[ip])}
      BY <2>4, <3>1 DEF RecordFailure, FailedOnce, Put
    <3>3. Counted(throttle[ip]).left \in {throttle[ip].left, Lockout}
      BY DEF Counted
    <3>4. QED
      BY <1>1, <2>1, <3>2, <3>3, Limits DEF Locked, LockedAt
  <2>5. ASSUME NEW h \in Handlers, RecordSuccess(h) PROVE FALSE
    <3>1. tasks[h].ip # ip
      BY <1>1, <2>5
    <3>2. ip \in DOMAIN throttle' /\ throttle'[ip] = throttle[ip]
      BY <2>1, <2>5, <3>1 DEF RecordSuccess, Without
    <3>3. QED
      BY <1>1, <2>1, <3>2 DEF Locked, LockedAt
  <2>6. ASSUME Tick PROVE FALSE
    <3>1. throttle[ip].left \in 2..Lockout
      BY <1>1, <2>1, <2>6, Limits
    <3>2. ip \in DOMAIN throttle' /\ throttle'[ip].left = Less(throttle[ip].left)
      BY <2>1, <2>6 DEF Tick, Entries
    <3>3. Less(throttle[ip].left) \in 1..Lockout
      BY <2>1, <3>1, Limits DEF Less
    <3>4. QED
      BY <1>1, <3>2, <3>3 DEF Locked, LockedAt
  <2>7. QED
    BY <1>1, <2>2, <2>3, <2>4, <2>5, <2>6 DEF Next, VerifyPassword, Purge, CreateSession, ChangePassword,
       UpdatePassword, DeleteUserSessions, Abandon, Logout
<1>2. IInv /\ [Next]_vars => [\A ip \in Addresses : Locked(ip) /\ ~Locked(ip)' => Unlocks(ip)]_vars
  BY <1>1
<1>3. QED
  BY <1>2, InvHolds, PTL DEF Spec, LockHolds

\* However logins in flight, windows, locks, the sweep of the table and clients that leave fall,
\* within any Window an address gets an answer to no more wrong passwords without a success than
\* three windows' worth and one for each handler (check, record_failure, record_success).
THEOREM GuessesBoundedHolds == Spec => []GuessesBounded
<1>1. Init => GuessInv
  <2> SUFFICES ASSUME Init, NEW ip \in Addresses PROVE GuessOk(ip)
    BY DEF GuessInv
  <2>1. guesses[ip] = NoGuesses /\ ip \notin DOMAIN throttle
    BY DEF Init
  <2>2. QED
    BY <2>1, NoGuessesBound
<1>2. IInv /\ GuessInv => GuessesBounded
  <2> SUFFICES ASSUME IInv, GuessInv, NEW ip \in Addresses
               PROVE  guesses[ip][Window - 1] <= 3 * (MaxFailures - 1) - 1 + Cardinality(Handlers)
    BY DEF GuessesBounded
  <2>1. guesses[ip][Window - 1] \in Nat /\ FlyingCount(ip) \in Nat
    BY GuessTypes, TriedIsNumber, FlightCount
  <2>2. CASE ip \notin DOMAIN throttle
    BY <2>1, <2>2, Limits, HandlersCount DEF GuessInv, GuessOk, NoEntryBound
  <2>3. CASE ip \in DOMAIN throttle
    <3> DEFINE e == throttle[ip]
    <3>1. EntryBound(guesses[ip], FlyingCount(ip), e) /\ e.failures \in Nat
      BY <2>3, GuessTypes, Limits, HandlersCount DEF GuessInv, GuessOk, Kept
    <3> HIDE DEF e
    <3>2. CASE e.left = None
      <4>1. e.failures < MaxFailures /\ guesses[ip][Window - 1] <= 2 * (MaxFailures - 1) - 1 + e.failures
        BY <3>1, <3>2, Limits DEF EntryBound, OpenBound
      <4>2. QED
        BY <2>1, <3>1, <4>1, Limits, HandlersCount
    <3>3. CASE e.left # None
      BY <2>1, <3>1, <3>3, Limits, HandlersCount DEF EntryBound, AllBound
    <3>4. QED
      BY <3>2, <3>3
  <2>4. QED
    BY <2>2, <2>3
<1>3. QED
  BY <1>1, <1>2, InvHolds, GuessKept, PTL DEF Spec

===============================================================================
