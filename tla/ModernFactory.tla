---------------------------- MODULE ModernFactory ----------------------------
(***************************************************************************)
(* The pool of modern sessions (ModernFactory in src/gateway/cm/modern.py) *)
(* and the connections that ask it for one.                                *)
(*                                                                         *)
(* Each connection is a coroutine of src/gateway/cm/translator.py that     *)
(* calls get() at most once, from its ClientLogon handler.  get() holds    *)
(* one asyncio.Lock for the whole factory across `await session.start()`,  *)
(* so every other logon and close() queue behind it.  asyncio.Lock is      *)
(* FIFO: a task that finds the lock free but the queue not empty waits.    *)
(* Between two awaits a coroutine runs without interruption, so each       *)
(* action below is one such stretch.                                       *)
(*                                                                         *)
(* The session that connection c creates is named c: a get() creates at    *)
(* most one.  BootSession is the session started at boot for the account   *)
(* in the configuration; the factory may be built with it as its preset.   *)
(***************************************************************************)
EXTENDS ModernSession

CONSTANTS
  Accounts,    \* user names
  Conns,       \* connections, over the whole run of the gateway
  Closer,      \* the task that runs close()
  BootSession, \* the session main.py starts when an account is configured
  BootAccount, \* that account
  None

ASSUME FactoryAssumption ==
  /\ None \notin Sessions \cup Accounts \cup {Closer}
  /\ Closer \notin Conns
  /\ BootSession \notin Conns
  /\ Sessions = Conns \cup {BootSession}
  /\ BootAccount \in Accounts

VARIABLES
  preset,      \* self.preset: BootSession or None, fixed by the constructor
  pool,        \* _sessions: the session cached for an account, or None
  lock,        \* who holds _lock, or None
  waiters,     \* the tasks queued on _lock, first come first served
  phase,       \* where the connection stands in its logon
  account,     \* the user name in the connection's ClientLogon, or None
  modern,      \* the session get() returned to the connection, or None
  closed       \* close() has run to its end

poolVars == <<preset, pool, lock, waiters, phase, account, modern, closed>>
vars     == <<sessionVars, poolVars>>

Tasks  == Conns \cup {Closer}
Phases == {"idle", "queued", "starting", "active", "refused"}

TypeOK ==
  /\ SessionTypeOK
  /\ preset  \in {BootSession, None}
  /\ pool    \in [Accounts -> Conns \cup {None}]
  /\ lock    \in Conns \cup {None}
  /\ waiters \in Seq(Tasks)
  /\ phase   \in [Conns -> Phases]
  /\ account \in [Conns -> Accounts \cup {None}]
  /\ modern  \in [Conns -> Sessions \cup {None}]
  /\ closed  \in BOOLEAN

\* A preset has been started, and has logged on, before the factory is built.
Init ==
  /\ preset   \in {BootSession, None}
  /\ ready    = [s \in Sessions |-> IF s = preset THEN "result" ELSE "unset"]
  /\ thread   = [s \in Sessions |-> IF s = preset THEN "keepalive" ELSE "none"]
  /\ posted   = [s \in Sessions |-> <<>>]
  /\ loggedOn = [s \in Sessions |-> s = preset]
  /\ stopped  = [s \in Sessions |-> FALSE]
  /\ pool     = [a \in Accounts |-> None]
  /\ lock     = None
  /\ waiters  = <<>>
  /\ phase    = [c \in Conns |-> "idle"]
  /\ account  = [c \in Conns |-> None]
  /\ modern   = [c \in Conns |-> preset]
  /\ closed   = FALSE

(***************************************************************************)
(* get() and what the logon handler does with its result.                  *)
(***************************************************************************)

\* A logon with a preset: no get(), the one account that was configured is
\* served on the preset and every other one is refused.
LogonOnPreset(c, a) ==
  /\ phase[c] = "idle"
  /\ preset # None /\ IsReady(preset)
  /\ account' = [account EXCEPT ![c] = a]
  /\ phase'   = [phase EXCEPT ![c] = IF a = BootAccount THEN "active"
                                                        ELSE "refused"]
  /\ UNCHANGED <<sessionVars, preset, pool, lock, waiters, modern, closed>>

\* get() returns s to the handler, which goes ACTIVE only if s is ready.
Answer(c, s) ==
  /\ modern' = [modern EXCEPT ![c] = s]
  /\ phase'  = [phase EXCEPT ![c] = IF s # None /\ IsReady(s) THEN "active"
                                                              ELSE "refused"]

\* Slip: get() and close() without `async with self._lock`.
NoLock == TRUE

LockIsFree == lock = None /\ waiters = <<>>

\* Slip: the look-up is not keyed by the user name.
ReuseAny(c, a) ==
  /\ \E b \in Accounts : pool[b] # None /\ Answer(c, pool[b])
  /\ UNCHANGED <<sessionVars, pool, lock>>

\* The body of `async with self._lock`, for account a, up to its next await:
\* a cached session is returned at once; otherwise one is created and started
\* with the lock held.
Reuse(c, a) ==
  /\ pool[a] # None
  /\ Answer(c, pool[a])
  /\ UNCHANGED <<sessionVars, pool, lock>>

StartHolding(c) ==
  /\ StartSession(c)
  /\ lock'  = c
  /\ phase' = [phase EXCEPT ![c] = "starting"]
  /\ UNCHANGED <<pool, modern>>

\* Slip: the cache is not looked up again once the lock is held.
CreateAlways(c, a) == StartHolding(c)

Create(c, a) == pool[a] = None /\ StartHolding(c)

\* The session's constructor asks for a Steam Guard code on the console, which
\* stops the whole event loop, and raises when the console is at its end.  That
\* is outside get()'s try: the lock is released and the handler refuses.
PromptRaises(c, a) ==
  /\ pool[a] = None
  /\ phase' = [phase EXCEPT ![c] = "refused"]
  /\ UNCHANGED <<sessionVars, pool, lock, modern>>

GetLocked(c, a) == Reuse(c, a) \/ Create(c, a) \/ PromptRaises(c, a)

GetNow(c, a) ==
  /\ phase[c] = "idle"
  /\ preset = None
  /\ LockIsFree
  /\ account' = [account EXCEPT ![c] = a]
  /\ GetLocked(c, a)
  /\ UNCHANGED <<preset, waiters, closed>>

GetQueues(c, a) ==
  /\ phase[c] = "idle"
  /\ preset = None
  /\ ~LockIsFree
  /\ account' = [account EXCEPT ![c] = a]
  /\ phase'   = [phase EXCEPT ![c] = "queued"]
  /\ waiters' = Append(waiters, c)
  /\ UNCHANGED <<sessionVars, preset, pool, lock, modern, closed>>

IsNext(t) == lock = None /\ waiters # <<>> /\ Head(waiters) = t

\* The lock was released and the first waiter runs.
GetResumes(c) ==
  /\ phase[c] = "queued"
  /\ IsNext(c)
  /\ waiters' = Tail(waiters)
  /\ GetLocked(c, account[c])
  /\ UNCHANGED <<preset, account, closed>>

\* `await session.start()` returns: cache the session and release the lock.
StartReturns(c) ==
  /\ phase[c] = "starting"
  /\ ready[c] = "result"
  /\ pool' = [pool EXCEPT ![account[c]] = c]
  /\ lock' = None
  /\ Answer(c, c)
  /\ UNCHANGED <<sessionVars, preset, waiters, account, closed>>

\* Slip: the session is cached before start() is known to have succeeded.
StartRaisesCached(c) ==
  /\ phase[c] = "starting"
  /\ ready[c] = "exception"
  /\ pool' = [pool EXCEPT ![account[c]] = c]
  /\ lock' = None
  /\ Answer(c, None)
  /\ UNCHANGED <<sessionVars, preset, waiters, account, closed>>

\* Slip: acquire() and release() written out, without a finally.
StartRaisesLocked(c) ==
  /\ phase[c] = "starting"
  /\ ready[c] = "exception"
  /\ Answer(c, None)
  /\ UNCHANGED <<sessionVars, preset, pool, lock, waiters, account, closed>>

\* start() raises: nothing is cached, get() returns None.
StartRaises(c) ==
  /\ phase[c] = "starting"
  /\ ready[c] = "exception"
  /\ lock' = None
  /\ Answer(c, None)
  /\ UNCHANGED <<sessionVars, preset, pool, waiters, account, closed>>

(***************************************************************************)
(* close(): stop the preset and every pooled session.                      *)
(***************************************************************************)

Pooled == {pool[a] : a \in Accounts} \ {None}

\* Collect under the lock and stop one after the other: stop() never suspends,
\* so nothing runs in between and the lock is free again when close() is done.
StopAll ==
  /\ stopped' = [s \in Sessions |-> stopped[s] \/ s = preset \/ s \in Pooled]
  /\ closed'  = TRUE
  /\ UNCHANGED <<ready, thread, posted, loggedOn,
                 preset, pool, lock, phase, account, modern>>

CloserWaits == \E i \in 1..Len(waiters) : waiters[i] = Closer

\* Slip: the pool is collected without waiting for the lock.
CloseUnlocked == ~closed /\ StopAll /\ UNCHANGED waiters

CloseNow == ~closed /\ LockIsFree /\ StopAll /\ UNCHANGED waiters

CloseQueues ==
  /\ ~closed /\ ~CloserWaits /\ ~LockIsFree
  /\ waiters' = Append(waiters, Closer)
  /\ UNCHANGED <<sessionVars, preset, pool, lock, phase, account, modern, closed>>

\* Slip: close() goes on suspending with the lock held.
CloseHolding ==
  /\ IsNext(Closer)
  /\ lock'    = Closer
  /\ waiters' = Tail(waiters)
  /\ UNCHANGED <<sessionVars, preset, pool, phase, account, modern, closed>>

CloseResumes ==
  /\ IsNext(Closer)
  /\ waiters' = Tail(waiters)
  /\ StopAll

(***************************************************************************)
(* The specification.                                                      *)
(***************************************************************************)

Logon(c) ==
  \E a \in Accounts : LogonOnPreset(c, a) \/ GetNow(c, a) \/ GetQueues(c, a)

ConnResumes(c) == GetResumes(c) \/ StartReturns(c) \/ StartRaises(c)

Close == CloseNow \/ CloseQueues \/ CloseResumes

InSession(step) == step /\ UNCHANGED poolVars

Next ==
  \/ \E c \in Conns : Logon(c) \/ ConnResumes(c)
  \/ \E s \in Sessions : InSession(SessionStep(s))
  \/ Close

Spec == Init /\ [][Next]_vars

\* The loop runs every task that can run and drains its callbacks, and the OS
\* runs every thread.  client.login has a timeout of its own and comes back;
\* nothing obliges Steam to answer, a client to log on, or anyone to close.
Fairness ==
  /\ \A c \in Conns : WF_vars(ConnResumes(c))
  /\ WF_vars(CloseResumes)
  /\ \A s \in Sessions :
       /\ WF_vars(InSession(RunCallback(s)))
       /\ WF_vars(InSession(ImportFails(s) \/ ImportSucceeds(s)))
       /\ WF_vars(InSession(HandlerMissing(s) \/ HandlersRegistered(s)))
       /\ WF_vars(InSession(LoginReturns(s) \/ LoginRaises(s)))
       /\ WF_vars(InSession(ThreadExits(s)))

FairSpec == Spec /\ Fairness

(***************************************************************************)
(* Properties.                                                             *)
(***************************************************************************)

\* One modern login per account: two connections never have, for one account,
\* two sessions of which each is still being started or is ready.  (The
\* factory promises that two machines on one account share a single login;
\* what makes it hard is the await between the look-up and the caching.)
OneLoginPerAccount ==
  \A c, d \in Conns :
    /\ account[c] # None /\ account[c] = account[d]
    /\ ready[c] \in {"pending", "result"}
    /\ ready[d] \in {"pending", "result"}
    => c = d

\* A connection that went ACTIVE rides on a session logged on as its own
\* account, whoever created it: the preset only for the configured account,
\* a pooled session only for the account that session was created for.
RidesOwnAccount ==
  \A c \in Conns : phase[c] = "active" =>
    /\ modern[c] # None /\ loggedOn[modern[c]]
    /\ account[c] = IF modern[c] = BootSession THEN BootAccount
                                               ELSE account[modern[c]]

\* A failed login is never cached: the pool holds only sessions that are
\* ready, each under the account it logged on as.
PoolHoldsReadySessions ==
  \A a \in Accounts :
    pool[a] # None => IsReady(pool[a]) /\ account[pool[a]] = a

\* A cached session stays: no later logon replaces it, so connections that
\* share an account keep sharing one session.
CachedForGood ==
  [][\A a \in Accounts : pool[a] # None => pool'[a] = pool[a]]_vars

\* close() stops all that connections use or wait for: at the moment it ends,
\* every session whose start() is awaited or has returned has been told to stop.
\* (It waits for the lock, so it cannot collect the pool while a login is half
\* done.)  A session whose start() raised is in no pool any more: get() drops it
\* without a stop(), and its thread, which Steam may log on yet, goes on.
CloseStopsAllInUse ==
  [][~closed /\ closed' =>
       \A s \in Sessions : ready[s] \in {"pending", "result"} => stopped'[s]]_vars

\* A logon waits for its own account's session only: one that found the lock
\* taken, which is always by another connection's login, gets its turn.
QueuedGetsTurn ==
  \A c \in Conns : (phase[c] = "queued") ~> (phase[c] # "queued")

(***************************************************************************)
(* The promise it implements.                                              *)
(***************************************************************************)

\* The account that is being logged in is the lock holder's.
attempt == [a \in Accounts |-> IF lock # None /\ account[lock] = a THEN lock ELSE None]
used    == {c \in Conns : ready[c] # "unset"}
riding  == [c \in Conns |->
              IF phase[c] = "active"
              THEN [account |-> account[c], session |-> modern[c]]
              ELSE [account |-> None, session |-> None]]

Pool == INSTANCE SessionPool WITH served <- pool

\* The factory keeps its promise to connections: whatever the threads do and in
\* whichever order the lock is passed on, get() and the logon handler only ever
\* begin, finish, abandon or join the login of an account as SessionPool says.
KeepsPromise == Pool!Spec
===============================================================================
