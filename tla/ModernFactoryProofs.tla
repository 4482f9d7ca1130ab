------------------------- MODULE ModernFactoryProofs -------------------------
(***************************************************************************)
(* ModernFactory, for any number of accounts and connections and whatever  *)
(* way a session's thread goes: one login per account, every connection on *)
(* its own account's session, and no failed login in the pool.             *)
(*                                                                         *)
(* The three rest on one inductive invariant.  Its heart is PoolInv: a     *)
(* session that is being started or is ready is either the one whose       *)
(* creator holds the lock, and then its account is not cached yet, or the  *)
(* cached one.                                                             *)
(***************************************************************************)
EXTENDS ModernFactory, SequenceTheorems, TLAPS

\* What the thread has posted is true, and only a started session has a thread.
SessionInv ==
  \A s \in Sessions :
    /\ ready[s] = "result" => loggedOn[s]
    /\ \A i \in 1..Len(posted[s]) : posted[s][i] = "result" => loggedOn[s]
    /\ ready[s] = "unset" => thread[s] = "none" /\ posted[s] = <<>>

\* The lock is held exactly while its holder awaits start().
LockInv == \A c \in Conns : phase[c] = "starting" <=> lock = c

\* A connection has named its account when it has asked, and has created no
\* session before it starts one.
PhaseInv ==
  \A c \in Conns :
    /\ phase[c] # "idle" => account[c] \in Accounts
    /\ phase[c] \in {"idle", "queued"} => ready[c] = "unset"
    /\ ready[c] = "pending" => phase[c] = "starting"

PoolInv ==
  /\ \A a \in Accounts :
       pool[a] # None => ready[pool[a]] = "result" /\ account[pool[a]] = a
  /\ \A c \in Conns : phase[c] = "starting" => pool[account[c]] = None
  /\ \A c \in Conns :
       ready[c] = "result" => phase[c] = "starting" \/ pool[account[c]] = c

\* An active connection rides on the preset or on its account's cached session.
RideInv ==
  /\ preset # None => ready[preset] = "result"
  /\ \A c \in Conns : phase[c] = "active" =>
       \/ preset # None /\ modern[c] = preset /\ account[c] = BootAccount
       \/ pool[account[c]] # None /\ modern[c] = pool[account[c]]

\* The preset is fixed from the start, and every connection has it.  (Of the whole
\* process this is not so: Gateway chooses the preset when the boot is over.)
FixedInv ==
  /\ preset = None => ready[BootSession] = "unset"
  /\ \A c \in Conns : preset # None /\ phase[c] = "idle" => modern[c] = preset

IInv == TypeOK /\ SessionInv /\ LockInv /\ PhaseInv /\ PoolInv /\ RideInv

-------------------------------------------------------------------------------

\* Nobody has asked for anything and only a preset has been started.
LEMMA InitInv == Init => IInv /\ FixedInv
<1> SUFFICES ASSUME Init PROVE IInv /\ FixedInv
  OBVIOUS
<1> USE FactoryAssumption DEF Init
<1>1. TypeOK
  <2>1. SessionTypeOK
    <3>1. ready \in [Sessions -> ReadyStates]
      BY DEF ReadyStates
    <3>2. thread \in [Sessions -> ThreadStates]
      BY DEF ThreadStates
    <3>3. posted \in [Sessions -> Seq(Outcomes)]
      OBVIOUS
    <3>4. /\ loggedOn \in [Sessions -> BOOLEAN]
          /\ stopped  \in [Sessions -> BOOLEAN]
      OBVIOUS
    <3> QED
      BY <3>1, <3>2, <3>3, <3>4 DEF SessionTypeOK
  <2>2. waiters \in Seq(Tasks)
    OBVIOUS
  <2>3. /\ phase   \in [Conns -> Phases]
        /\ account \in [Conns -> Accounts \cup {None}]
        /\ modern  \in [Conns -> Sessions \cup {None}]
    BY DEF Phases
  <2>4. preset \in {BootSession, None} /\ closed \in BOOLEAN
    OBVIOUS
  <2>5. lock \in Conns \cup {None} /\ pool \in [Accounts -> Conns \cup {None}]
    OBVIOUS
  <2> QED
    BY <2>1, <2>2, <2>3, <2>4, <2>5 DEF TypeOK
<1>2. SessionInv
  <2> SUFFICES ASSUME NEW s \in Sessions
               PROVE  /\ ready[s] = "result" => loggedOn[s]
                      /\ \A i \in 1..Len(posted[s]) :
                           posted[s][i] = "result" => loggedOn[s]
                      /\ ready[s] = "unset" => thread[s] = "none" /\ posted[s] = <<>>
    BY DEF SessionInv
  <2>1. posted[s] = <<>> /\ Len(<<>>) = 0
    OBVIOUS
  <2>2. /\ ready[s] = "result" => loggedOn[s]
        /\ ready[s] = "unset" => thread[s] = "none"
    OBVIOUS
  <2> QED
    BY <2>1, <2>2
<1>3. LockInv /\ PhaseInv /\ PoolInv /\ RideInv /\ FixedInv
  BY DEF LockInv, PhaseInv, PoolInv, RideInv, FixedInv
<1> QED
  BY <1>1, <1>2, <1>3 DEF IInv

-------------------------------------------------------------------------------

\* What the thread of a session posts keeps the session's types, and posts a
\* result only when the session is logged on.
LEMMA PostKeeps ==
  ASSUME TypeOK, SessionInv, NEW s \in Sessions, NEW o \in Outcomes, Post(s, o),
         loggedOn' \in [Sessions -> BOOLEAN],
         \A t \in Sessions : loggedOn[t] => loggedOn'[t],
         o = "result" => loggedOn'[s]
  PROVE  /\ posted' \in [Sessions -> Seq(Outcomes)]
         /\ \A t \in Sessions : t # s => posted'[t] = posted[t]
         /\ \A t \in Sessions : \A i \in 1..Len(posted'[t]) :
              posted'[t][i] = "result" => loggedOn'[t]
<1>1. CASE Done(s)
  BY <1>1 DEF Post, TypeOK, SessionTypeOK, SessionInv
<1>2. CASE ~Done(s)
  <2>1. posted' = [posted EXCEPT ![s] = Append(posted[s], o)]
    BY <1>2 DEF Post
  <2>2. posted[s] \in Seq(Outcomes) /\ posted \in [Sessions -> Seq(Outcomes)]
    BY DEF TypeOK, SessionTypeOK
  <2>3. Append(posted[s], o) \in Seq(Outcomes)
    BY <2>2
  <2>4. posted' \in [Sessions -> Seq(Outcomes)]
    BY <2>1, <2>2, <2>3
  <2>5. \A i \in 1..Len(posted'[s]) : posted'[s][i] = "result" => loggedOn'[s]
    <3>1. posted'[s] = Append(posted[s], o)
      BY <2>1, <2>2
    <3>2. \A i \in 1..Len(posted[s]) : posted[s][i] = "result" => loggedOn'[s]
      BY DEF SessionInv
    <3> QED
      BY <3>1, <3>2, <2>2
  <2>6. \A t \in Sessions : t # s => posted'[t] = posted[t]
    BY <2>1, <2>2
  <2> QED
    BY <2>4, <2>5, <2>6 DEF SessionInv
<1> QED
  BY <1>1, <1>2

\* The effect of a step of one session on its creator's side: a future that is
\* pending may be resolved, and nothing else that the pool looks at changes.
Resolves ==
  \A t \in Sessions :
    \/ ready'[t] = ready[t]
    \/ ready[t] = "pending" /\ ready'[t] \in Outcomes

\* The loop resolves a session's future with what the thread posted.
LEMMA RunCallbackKeeps ==
  ASSUME TypeOK, SessionInv, NEW s \in Sessions, RunCallback(s)
  PROVE  SessionTypeOK' /\ SessionInv' /\ Resolves
<1> USE DEF RunCallback
<1>1. posted[s] \in Seq(Outcomes) /\ posted[s] # <<>>
  BY DEF TypeOK, SessionTypeOK
<1>2. /\ Head(posted[s]) \in Outcomes
      /\ Tail(posted[s]) \in Seq(Outcomes)
      /\ Head(posted[s]) = posted[s][1] /\ 1 \in 1..Len(posted[s])
      /\ Len(Tail(posted[s])) = Len(posted[s]) - 1
      /\ \A i \in 1..Len(Tail(posted[s])) :
           Tail(posted[s])[i] = posted[s][i+1] /\ i+1 \in 1..Len(posted[s])
  BY <1>1
<1>3. ready[s] # "unset"
  BY <1>1 DEF SessionInv
<1>4. Resolves
  BY <1>2, <1>3 DEF Resolves, Done, Outcomes, ReadyStates, TypeOK, SessionTypeOK
<1>5. SessionTypeOK'
  <2>1. ready' \in [Sessions -> ReadyStates]
    BY <1>2 DEF TypeOK, SessionTypeOK, ReadyStates, Outcomes
  <2>2. posted' \in [Sessions -> Seq(Outcomes)]
    BY <1>2 DEF TypeOK, SessionTypeOK
  <2> QED
    BY <2>1, <2>2 DEF TypeOK, SessionTypeOK
<1>6. SessionInv'
  <2> SUFFICES ASSUME NEW t \in Sessions
               PROVE  /\ ready'[t] = "result" => loggedOn'[t]
                      /\ \A i \in 1..Len(posted'[t]) :
                           posted'[t][i] = "result" => loggedOn'[t]
                      /\ ready'[t] = "unset" => thread'[t] = "none" /\ posted'[t] = <<>>
    BY DEF SessionInv
  <2>1. CASE t # s
    <3>1. posted'[t] = posted[t] /\ ready'[t] = ready[t]
      BY <2>1 DEF TypeOK, SessionTypeOK
    <3> QED
      BY <3>1 DEF SessionInv
  <2>2. CASE t = s
    <3>1. posted'[s] = Tail(posted[s])
      BY DEF TypeOK, SessionTypeOK
    <3>2. ready'[s] # "unset"
      BY <1>2, <1>3 DEF TypeOK, SessionTypeOK, Outcomes
    <3>3. ready'[s] = "result" => loggedOn'[s]
      BY <1>2 DEF SessionInv, TypeOK, SessionTypeOK
    <3>4. \A i \in 1..Len(posted'[s]) : posted'[s][i] = "result" => loggedOn'[s]
      BY <1>2, <3>1 DEF SessionInv
    <3> QED
      BY <2>2, <3>2, <3>3, <3>4
  <2> QED
    BY <2>1, <2>2
<1> QED
  BY <1>4, <1>5, <1>6

\* The thread moves on, posting an outcome or not.
LEMMA ThreadKeeps ==
  ASSUME TypeOK, SessionInv, NEW s \in Sessions, ThreadStep(s)
  PROVE  SessionTypeOK' /\ SessionInv' /\ Resolves
<1>1. /\ ready' = ready
      /\ stopped' = stopped
      /\ thread[s] # "none"
  BY DEF ThreadStep, ImportFails, ImportSucceeds, HandlerMissing, HandlersRegistered,
         LoggedOn, LoginReturns, LoginRaises, ThreadExits, MoveThread
<1>2. /\ thread' \in [Sessions -> ThreadStates]
      /\ \A t \in Sessions : t # s => thread'[t] = thread[t]
  BY DEF ThreadStep, ImportFails, ImportSucceeds, HandlerMissing, HandlersRegistered,
         LoggedOn, LoginReturns, LoginRaises, ThreadExits, MoveThread,
         TypeOK, SessionTypeOK, ThreadStates
<1>3. /\ loggedOn' \in [Sessions -> BOOLEAN]
      /\ \A t \in Sessions : loggedOn[t] => loggedOn'[t]
  BY DEF ThreadStep, ImportFails, ImportSucceeds, HandlerMissing, HandlersRegistered,
         LoggedOn, LoginReturns, LoginRaises, ThreadExits, TypeOK, SessionTypeOK
<1>4. \/ posted' = posted
      \/ Post(s, "exception")
      \/ Post(s, "result") /\ loggedOn'[s]
  BY DEF ThreadStep, ImportFails, ImportSucceeds, HandlerMissing, HandlersRegistered,
         LoggedOn, LoginReturns, LoginRaises, ThreadExits, TypeOK, SessionTypeOK
<1>5. /\ posted' \in [Sessions -> Seq(Outcomes)]
      /\ \A t \in Sessions : t # s => posted'[t] = posted[t]
      /\ \A t \in Sessions : \A i \in 1..Len(posted'[t]) :
           posted'[t][i] = "result" => loggedOn'[t]
  <2>1. CASE posted' = posted
    BY <2>1, <1>3 DEF TypeOK, SessionTypeOK, SessionInv
  <2>2. CASE Post(s, "exception")
    BY <2>2, <1>3, PostKeeps, "exception" \in Outcomes DEF Outcomes
  <2>3. CASE Post(s, "result") /\ loggedOn'[s]
    BY <2>3, <1>3, PostKeeps, "result" \in Outcomes DEF Outcomes
  <2> QED
    BY <1>4, <2>1, <2>2, <2>3
<1>6. SessionTypeOK'
  BY <1>1, <1>2, <1>3, <1>5 DEF TypeOK, SessionTypeOK
<1>7. ready[s] # "unset"
  BY <1>1 DEF SessionInv
<1>8. SessionInv'
  BY <1>1, <1>2, <1>3, <1>5, <1>7 DEF SessionInv
<1> QED
  BY <1>1, <1>6, <1>8 DEF Resolves

\* A step of a session, seen from the pool, at most resolves its future.
LEMMA SessionStepKeeps ==
  ASSUME IInv, NEW s \in Sessions, InSession(SessionStep(s))
  PROVE  IInv'
<1>1. /\ SessionTypeOK' /\ SessionInv' /\ Resolves
      /\ UNCHANGED poolVars
  BY RunCallbackKeeps, ThreadKeeps DEF IInv, InSession, SessionStep
<1>2. TypeOK'
  BY <1>1 DEF IInv, TypeOK, poolVars
<1>3. LockInv'
  BY <1>1 DEF IInv, LockInv, poolVars
<1> USE FactoryAssumption
<1>4. PhaseInv'
  BY <1>1 DEF IInv, PhaseInv, poolVars, Resolves, Outcomes
<1>5. PoolInv'
  <2>1. \A c \in Conns : c \in Sessions
    OBVIOUS
  <2>2. \A a \in Accounts : pool[a] # None => pool[a] \in Sessions
    BY <2>1 DEF IInv, TypeOK
  <2>3. \A a \in Accounts :
          pool[a] # None => ready'[pool[a]] = "result" /\ account[pool[a]] = a
    BY <1>1, <2>2 DEF IInv, PoolInv, Resolves
  <2>4. \A c \in Conns :
          ready'[c] = "result" => phase[c] = "starting" \/ pool[account[c]] = c
    BY <1>1, <2>1 DEF IInv, PoolInv, PhaseInv, Resolves
  <2> QED
    BY <1>1, <2>3, <2>4 DEF IInv, PoolInv, poolVars
<1>6. RideInv'
  <2>1. preset # None => ready'[preset] = "result"
    BY <1>1 DEF IInv, RideInv, TypeOK, Resolves
  <2> QED
    BY <1>1, <2>1 DEF IInv, RideInv, poolVars
<1> QED
  BY <1>1, <1>2, <1>3, <1>4, <1>5, <1>6 DEF IInv

-------------------------------------------------------------------------------

\* Connections are sessions, and None is neither, nor an account.
LEMMA Names ==
  /\ None \notin Conns /\ None \notin Sessions /\ None \notin Accounts
  /\ BootSession \in Sessions /\ BootSession # None /\ BootSession \notin Conns
  /\ \A c \in Conns : c \in Sessions
  BY FactoryAssumption

\* SessionInv is about session variables only.
LEMMA SessionsUntouched ==
  ASSUME IInv, UNCHANGED sessionVars
  PROVE  SessionTypeOK' /\ SessionInv'
BY DEF IInv, TypeOK, SessionTypeOK, SessionInv, sessionVars

\* A logon on the preset.
LEMMA LogonOnPresetKeeps ==
  ASSUME IInv, NEW c \in Conns, NEW a \in Accounts, LogonOnPreset(c, a),
         modern[c] = preset
  PROVE  IInv'
<1> USE Names DEF LogonOnPreset
<1>1. SessionTypeOK' /\ SessionInv'
  BY SessionsUntouched
<1>2. TypeOK'
  BY <1>1 DEF IInv, TypeOK, Phases
<1>3. LockInv'
  BY DEF IInv, TypeOK, LockInv
<1>4. PhaseInv'
  BY DEF IInv, TypeOK, PhaseInv, sessionVars
<1>5. PoolInv'
  <2>1. \A b \in Accounts : pool[b] # c
    BY DEF IInv, PoolInv, PhaseInv
  <2>2. ready[c] # "result"
    BY DEF IInv, PhaseInv
  <2> QED
    BY <2>1, <2>2 DEF IInv, TypeOK, PoolInv, sessionVars
<1>6. RideInv'
  BY DEF IInv, TypeOK, RideInv, sessionVars
<1> QED
  BY <1>1, <1>2, <1>3, <1>4, <1>5, <1>6 DEF IInv

\* get() finds its account cached, whether it waited for the lock or not.
LEMMA ReuseKeeps ==
  ASSUME IInv, NEW c \in Conns, NEW a \in Accounts, Reuse(c, a),
         phase[c] \in {"idle", "queued"}, lock = None,
         account' = [account EXCEPT ![c] = a],
         waiters' \in Seq(Tasks), UNCHANGED <<preset, closed>>
  PROVE  IInv'
<1> USE Names DEF Reuse, Answer
<1>1. SessionTypeOK' /\ SessionInv'
  BY SessionsUntouched
<1>2. /\ pool[a] \in Conns /\ pool[a] # None
      /\ phase' = [phase EXCEPT ![c] = "active"]
  <2>1. pool[a] \in Conns /\ pool[a] # None
    BY DEF IInv, TypeOK
  <2>2. IsReady(pool[a])
    BY <2>1 DEF IInv, PoolInv, IsReady
  <2> QED
    BY <2>1, <2>2
<1>3. TypeOK'
  BY <1>1, <1>2 DEF IInv, TypeOK, Phases
<1>4. LockInv'
  BY <1>2 DEF IInv, TypeOK, LockInv
<1>5. PhaseInv'
  BY <1>2 DEF IInv, TypeOK, PhaseInv, sessionVars
<1>6. PoolInv'
  <2>1. \A b \in Accounts : pool[b] # c
    BY DEF IInv, PoolInv, PhaseInv
  <2>2. ready[c] # "result"
    BY DEF IInv, PhaseInv
  <2> QED
    BY <1>2, <2>1, <2>2 DEF IInv, TypeOK, PoolInv, sessionVars
<1>7. RideInv'
  BY <1>2 DEF IInv, TypeOK, RideInv, sessionVars
<1> QED
  BY <1>1, <1>3, <1>4, <1>5, <1>6, <1>7 DEF IInv

\* get() does not, and starts a session with the lock held.
LEMMA CreateKeeps ==
  ASSUME IInv, NEW c \in Conns, NEW a \in Accounts, Create(c, a),
         phase[c] \in {"idle", "queued"}, lock = None,
         account' = [account EXCEPT ![c] = a],
         waiters' \in Seq(Tasks), UNCHANGED <<preset, closed>>
  PROVE  IInv'
<1> USE Names DEF Create, StartHolding, StartSession
<1>1. SessionTypeOK'
  <2>1. ready' \in [Sessions -> ReadyStates] /\ thread' \in [Sessions -> ThreadStates]
    BY DEF IInv, TypeOK, SessionTypeOK, ReadyStates, ThreadStates
  <2> QED
    BY <2>1 DEF IInv, TypeOK, SessionTypeOK
<1>2. SessionInv'
  <2>1. \A t \in Sessions :
          IF t = c THEN ready'[t] = "pending"
                   ELSE ready'[t] = ready[t] /\ thread'[t] = thread[t]
    BY DEF IInv, TypeOK, SessionTypeOK
  <2> QED
    BY <2>1 DEF IInv, SessionInv
<1>3. TypeOK'
  BY <1>1 DEF IInv, TypeOK, Phases
<1>4. LockInv'
  BY DEF IInv, TypeOK, LockInv
<1>5. /\ ready'[c] = "pending" /\ ready[c] = "unset"
      /\ \A t \in Sessions : t # c => ready'[t] = ready[t]
      /\ \A b \in Accounts : pool[b] # c
  <2>1. c # None /\ ready[c] = "unset" /\ ready \in [Sessions -> ReadyStates]
    BY DEF IInv, TypeOK, SessionTypeOK
  <2>2. \A b \in Accounts : pool[b] # c
    BY <2>1 DEF IInv, PoolInv
  <2> QED
    BY <2>1, <2>2
<1>6. PhaseInv'
  BY <1>5 DEF IInv, TypeOK, PhaseInv
<1>7. PoolInv'
  <2>1. \A b \in Accounts : pool'[b] # None =>
          ready'[pool'[b]] = "result" /\ account'[pool'[b]] = b
    BY <1>5 DEF IInv, TypeOK, PoolInv
  <2>2. \A d \in Conns : phase'[d] = "starting" => pool'[account'[d]] = None
    BY DEF IInv, TypeOK, LockInv, PoolInv
  <2>3. \A d \in Conns : ready'[d] = "result" =>
          phase'[d] = "starting" \/ pool'[account'[d]] = d
    BY <1>5 DEF IInv, TypeOK, PoolInv
  <2> QED
    BY <2>1, <2>2, <2>3 DEF PoolInv
<1>8. RideInv'
  BY <1>5 DEF IInv, TypeOK, SessionTypeOK, RideInv
<1> QED
  BY <1>2, <1>3, <1>4, <1>6, <1>7, <1>8 DEF IInv

\* get() raises before anything is started.
LEMMA PromptRaisesKeeps ==
  ASSUME IInv, NEW c \in Conns, NEW a \in Accounts, PromptRaises(c, a),
         phase[c] \in {"idle", "queued"}, lock = None,
         account' = [account EXCEPT ![c] = a],
         waiters' \in Seq(Tasks), UNCHANGED <<preset, closed>>
  PROVE  IInv'
<1> USE Names DEF PromptRaises
<1>1. SessionTypeOK' /\ SessionInv'
  BY SessionsUntouched
<1>2. TypeOK'
  BY <1>1 DEF IInv, TypeOK, Phases
<1>3. LockInv'
  BY DEF IInv, TypeOK, LockInv
<1>4. PhaseInv'
  BY DEF IInv, TypeOK, PhaseInv, sessionVars
<1>5. PoolInv'
  <2>1. \A b \in Accounts : pool[b] # c
    BY DEF IInv, PoolInv, PhaseInv
  <2>2. ready[c] # "result"
    BY DEF IInv, PhaseInv
  <2> QED
    BY <2>1, <2>2 DEF IInv, TypeOK, PoolInv, sessionVars
<1>6. RideInv'
  BY DEF IInv, TypeOK, RideInv, sessionVars
<1> QED
  BY <1>1, <1>2, <1>3, <1>4, <1>5, <1>6 DEF IInv

\* The body of get() under the lock, in the three ways it can go.
LEMMA GetLockedKeeps ==
  ASSUME IInv, NEW c \in Conns, NEW a \in Accounts, GetLocked(c, a),
         phase[c] \in {"idle", "queued"}, lock = None,
         account' = [account EXCEPT ![c] = a],
         waiters' \in Seq(Tasks), UNCHANGED <<preset, closed>>
  PROVE  IInv'
BY ReuseKeeps, CreateKeeps, PromptRaisesKeeps DEF GetLocked

\* get() finds the lock taken.
LEMMA GetQueuesKeeps ==
  ASSUME IInv, NEW c \in Conns, NEW a \in Accounts, GetQueues(c, a)
  PROVE  IInv'
<1> USE Names DEF GetQueues
<1>1. SessionTypeOK' /\ SessionInv'
  BY SessionsUntouched
<1>2. waiters' \in Seq(Tasks)
  BY DEF IInv, TypeOK, Tasks
<1>3. TypeOK'
  BY <1>1, <1>2 DEF IInv, TypeOK, Phases
<1>4. LockInv'
  BY DEF IInv, TypeOK, LockInv
<1>5. PhaseInv'
  BY DEF IInv, TypeOK, PhaseInv, sessionVars
<1>6. PoolInv'
  <2>1. \A b \in Accounts : pool[b] # c
    BY DEF IInv, PoolInv, PhaseInv
  <2>2. ready[c] # "result"
    BY DEF IInv, PhaseInv
  <2> QED
    BY <2>1, <2>2 DEF IInv, TypeOK, PoolInv, sessionVars
<1>7. RideInv'
  BY DEF IInv, TypeOK, RideInv, sessionVars
<1> QED
  BY <1>1, <1>3, <1>4, <1>5, <1>6, <1>7 DEF IInv

-------------------------------------------------------------------------------

\* start() returned: the session is cached, and its account was not before.
LEMMA StartReturnsKeeps ==
  ASSUME IInv, NEW c \in Conns, StartReturns(c)
  PROVE  IInv'
<1> USE Names DEF StartReturns, Answer, IsReady
<1>1. SessionTypeOK' /\ SessionInv'
  BY SessionsUntouched
<1>2. /\ account[c] \in Accounts /\ pool[account[c]] = None
      /\ phase' = [phase EXCEPT ![c] = "active"]
      /\ lock = c
  BY DEF IInv, PhaseInv, PoolInv, LockInv
<1>3. TypeOK'
  BY <1>1, <1>2 DEF IInv, TypeOK, Phases
<1>4. LockInv'
  BY <1>2 DEF IInv, TypeOK, LockInv
<1>5. PhaseInv'
  BY <1>2 DEF IInv, TypeOK, PhaseInv, sessionVars
<1>6. PoolInv'
  BY <1>2 DEF IInv, TypeOK, PoolInv, LockInv, sessionVars
<1>7. RideInv'
  BY <1>2 DEF IInv, TypeOK, RideInv, PhaseInv, sessionVars
<1> QED
  BY <1>1, <1>3, <1>4, <1>5, <1>6, <1>7 DEF IInv

\* start() raised: nothing is cached.
LEMMA StartRaisesKeeps ==
  ASSUME IInv, NEW c \in Conns, StartRaises(c)
  PROVE  IInv'
<1> USE Names DEF StartRaises, Answer
<1>1. SessionTypeOK' /\ SessionInv'
  BY SessionsUntouched
<1>2. phase' = [phase EXCEPT ![c] = "refused"] /\ lock = c
  BY DEF IInv, LockInv
<1>3. TypeOK'
  BY <1>1, <1>2 DEF IInv, TypeOK, Phases
<1>4. LockInv'
  BY <1>2 DEF IInv, TypeOK, LockInv
<1>5. PhaseInv'
  BY <1>2 DEF IInv, TypeOK, PhaseInv, sessionVars
<1>6. PoolInv'
  BY <1>2 DEF IInv, TypeOK, PoolInv, sessionVars
<1>7. RideInv'
  BY <1>2 DEF IInv, TypeOK, RideInv, sessionVars
<1> QED
  BY <1>1, <1>3, <1>4, <1>5, <1>6, <1>7 DEF IInv

\* close() touches the stop events, the queue and nothing else.
LEMMA CloseKeeps ==
  ASSUME IInv, Close
  PROVE  IInv'
<1>1. /\ UNCHANGED <<ready, thread, posted, loggedOn,
                     preset, pool, lock, phase, account, modern>>
      /\ stopped' \in [Sessions -> BOOLEAN]
      /\ closed' \in BOOLEAN
  BY DEF Close, CloseNow, CloseQueues, CloseResumes, StopAll, sessionVars,
         IInv, TypeOK, SessionTypeOK
<1>2. waiters' \in Seq(Tasks)
  <2>1. waiters \in Seq(Tasks) /\ Closer \in Tasks
    BY DEF IInv, TypeOK, Tasks
  <2>2. CASE CloseNow
    BY <2>1, <2>2 DEF CloseNow
  <2>3. CASE CloseQueues
    BY <2>1, <2>3 DEF CloseQueues
  <2>4. CASE CloseResumes
    <3>1. waiters # <<>> /\ waiters' = Tail(waiters)
      BY <2>4 DEF CloseResumes, IsNext
    <3> QED
      BY <2>1, <3>1
  <2> QED
    BY <2>2, <2>3, <2>4 DEF Close
<1>3. TypeOK'
  BY <1>1, <1>2 DEF IInv, TypeOK, SessionTypeOK
<1> QED
  BY <1>1, <1>3 DEF IInv, SessionInv, LockInv, PhaseInv, PoolInv, RideInv

-------------------------------------------------------------------------------

\* A logon, in the three ways it can begin.
LEMMA LogonKeeps ==
  ASSUME IInv, NEW c \in Conns, Logon(c), preset # None => modern[c] = preset
  PROVE  IInv'
<1>1. PICK a \in Accounts : LogonOnPreset(c, a) \/ GetNow(c, a) \/ GetQueues(c, a)
  BY DEF Logon
<1>2. CASE LogonOnPreset(c, a)
  BY <1>2, LogonOnPresetKeeps DEF LogonOnPreset
<1>3. CASE GetNow(c, a)
  <2>1. /\ phase[c] \in {"idle", "queued"} /\ lock = None
        /\ account' = [account EXCEPT ![c] = a]
        /\ UNCHANGED <<preset, closed>>
    BY <1>3 DEF GetNow, LockIsFree
  <2>2. waiters' \in Seq(Tasks)
    BY <1>3 DEF GetNow, IInv, TypeOK
  <2>3. GetLocked(c, a)
    BY <1>3 DEF GetNow
  <2> QED
    BY <2>1, <2>2, <2>3, GetLockedKeeps
<1>4. CASE GetQueues(c, a)
  BY <1>4, GetQueuesKeeps
<1> QED
  BY <1>1, <1>2, <1>3, <1>4

\* A connection that was waiting goes on.
LEMMA ConnResumesKeeps ==
  ASSUME IInv, NEW c \in Conns, ConnResumes(c)
  PROVE  IInv'
<1>1. CASE GetResumes(c)
  <2>1. account[c] \in Accounts
    BY <1>1 DEF GetResumes, IInv, PhaseInv
  <2>2. /\ phase[c] \in {"idle", "queued"} /\ lock = None
        /\ account' = [account EXCEPT ![c] = account[c]]
        /\ UNCHANGED <<preset, closed>>
    BY <1>1 DEF GetResumes, IsNext, IInv, TypeOK
  <2>3. waiters' \in Seq(Tasks)
    <3>1. waiters \in Seq(Tasks) /\ waiters # <<>> /\ waiters' = Tail(waiters)
      BY <1>1 DEF GetResumes, IsNext, IInv, TypeOK
    <3> QED
      BY <3>1
  <2>4. GetLocked(c, account[c])
    BY <1>1 DEF GetResumes
  <2> QED
    BY <2>1, <2>2, <2>3, <2>4, GetLockedKeeps
<1>2. CASE StartReturns(c)
  BY <1>2, StartReturnsKeeps
<1>3. CASE StartRaises(c)
  BY <1>3, StartRaisesKeeps
<1> QED
  BY <1>1, <1>2, <1>3 DEF ConnResumes

\* get() leaves the preset alone, and starts no session but its connection's.
LEMMA GetLockedFixes ==
  ASSUME IInv, FixedInv, NEW c \in Conns, NEW a \in Accounts, GetLocked(c, a),
         preset = None, preset' = preset
  PROVE  FixedInv'
<1>1. ready'[BootSession] = ready[BootSession]
  BY Names DEF GetLocked, Reuse, Create, PromptRaises, StartHolding, StartSession,
               sessionVars, IInv, TypeOK, SessionTypeOK
<1> QED
  BY <1>1 DEF FixedInv

\* Every action leaves it so.
LEMMA FixedKeeps == IInv /\ FixedInv /\ [Next]_vars => FixedInv'
<1> SUFFICES ASSUME IInv, FixedInv, [Next]_vars PROVE FixedInv'
  OBVIOUS
<1>1. ASSUME NEW c \in Conns, Logon(c) PROVE FixedInv'
  <2>1. PICK a \in Accounts : LogonOnPreset(c, a) \/ GetNow(c, a) \/ GetQueues(c, a)
    BY <1>1 DEF Logon
  <2>2. CASE LogonOnPreset(c, a) \/ GetQueues(c, a)
    <3>1. UNCHANGED <<preset, ready, modern>> /\ \A d \in Conns : phase'[d] = "idle" => phase[d] = "idle"
      BY <2>2 DEF LogonOnPreset, GetQueues, sessionVars, IInv, TypeOK
    <3> QED
      BY <3>1 DEF FixedInv
  <2>3. CASE GetNow(c, a)
    BY <2>3, GetLockedFixes DEF GetNow
  <2> QED
    BY <2>1, <2>2, <2>3
<1>2. ASSUME NEW c \in Conns, ConnResumes(c) PROVE FixedInv'
  <2>1. CASE GetResumes(c)
    <3>1. account[c] \in Accounts /\ GetLocked(c, account[c]) /\ preset' = preset
      BY <2>1 DEF GetResumes, IInv, PhaseInv
    <3>2. CASE preset = None
      BY <3>1, <3>2, GetLockedFixes
    <3>3. CASE preset # None
      <4>1. \A d \in Conns : phase'[d] = "idle" => phase[d] = "idle" /\ modern'[d] = modern[d]
        BY <2>1, <3>1 DEF GetLocked, Reuse, Create, PromptRaises, StartHolding, Answer,
                          GetResumes, IInv, TypeOK
      <4> QED
        BY <3>1, <3>3, <4>1 DEF FixedInv
    <3> QED
      BY <3>2, <3>3
  <2>2. CASE StartReturns(c) \/ StartRaises(c)
    <3>1. UNCHANGED <<preset, ready>>
          /\ \A d \in Conns : phase'[d] = "idle" => phase[d] = "idle" /\ modern'[d] = modern[d]
      BY <2>2 DEF StartReturns, StartRaises, Answer, sessionVars, IInv, TypeOK
    <3> QED
      BY <3>1 DEF FixedInv
  <2> QED
    BY <1>2, <2>1, <2>2 DEF ConnResumes
<1>3. ASSUME NEW s \in Sessions, InSession(SessionStep(s)) PROVE FixedInv'
  <2>1. Resolves /\ UNCHANGED poolVars
    BY <1>3, RunCallbackKeeps, ThreadKeeps DEF IInv, InSession, SessionStep
  <2> QED
    BY <2>1, Names DEF FixedInv, Resolves, poolVars
<1>4. CASE Close
  BY <1>4 DEF Close, CloseNow, CloseQueues, CloseResumes, StopAll, sessionVars, FixedInv
<1>5. CASE UNCHANGED vars
  BY <1>5 DEF vars, sessionVars, poolVars, FixedInv
<1> QED
  BY <1>1, <1>2, <1>3, <1>4, <1>5 DEF Next

\* Every step, and a stutter, keeps the invariant.
LEMMA NextKeeps == IInv /\ FixedInv /\ [Next]_vars => IInv'
<1> SUFFICES ASSUME IInv, FixedInv, [Next]_vars PROVE IInv'
  OBVIOUS
<1>1. ASSUME NEW c \in Conns, Logon(c) PROVE IInv'
  <2>1. phase[c] = "idle"
    BY <1>1 DEF Logon, LogonOnPreset, GetNow, GetQueues
  <2>2. preset # None => modern[c] = preset
    BY <2>1 DEF FixedInv
  <2> QED
    BY <1>1, <2>2, LogonKeeps
<1>2. ASSUME NEW c \in Conns, ConnResumes(c) PROVE IInv'
  BY <1>2, ConnResumesKeeps
<1>3. ASSUME NEW s \in Sessions, InSession(SessionStep(s)) PROVE IInv'
  BY <1>3, SessionStepKeeps
<1>4. CASE Close
  BY <1>4, CloseKeeps
<1>5. CASE UNCHANGED vars
  BY <1>5 DEF vars, sessionVars, poolVars, IInv, TypeOK, SessionTypeOK, SessionInv,
              LockInv, PhaseInv, PoolInv, RideInv
<1> QED
  BY <1>1, <1>2, <1>3, <1>4, <1>5 DEF Next

\* The inductive invariant holds throughout.
THEOREM Invariance == Spec => [](IInv /\ FixedInv)
  BY InitInv, NextKeeps, FixedKeeps, PTL DEF Spec

-------------------------------------------------------------------------------

\* Every variable keeps its type, whatever the sessions and the tasks do.
THEOREM TypesHold == Spec => []TypeOK
<1>1. IInv => TypeOK
  BY DEF IInv
<1> QED
  BY <1>1, Invariance, PTL

\* Two sessions for one account, each pending or ready, are one.
LEMMA OneLoginNow == IInv => OneLoginPerAccount
<1> SUFFICES ASSUME IInv, NEW c \in Conns, NEW d \in Conns,
                    account[c] # None, account[c] = account[d],
                    ready[c] \in {"pending", "result"},
                    ready[d] \in {"pending", "result"}
             PROVE  c = d
  BY DEF OneLoginPerAccount
<1>1. /\ phase[c] = "starting" \/ pool[account[c]] = c
      /\ phase[d] = "starting" \/ pool[account[d]] = d
  BY DEF IInv, PhaseInv, PoolInv
<1>2. phase[c] = "starting" /\ phase[d] = "starting" => c = d
  BY DEF IInv, LockInv
<1>3. /\ phase[c] = "starting" => pool[account[c]] = None
      /\ phase[d] = "starting" => pool[account[d]] = None
  BY DEF IInv, PoolInv
<1> QED
  BY <1>1, <1>2, <1>3, Names

\* One modern login per account: if two connections' sessions for one account
\* are each pending or ready, they are both the lock holder's, or both the
\* cached one, or one is cached while the other's creator holds the lock, which
\* PoolInv excludes.
THEOREM OneLogin == Spec => []OneLoginPerAccount
BY OneLoginNow, Invariance, PTL

\* A result is only ever that of a session that Steam has logged on.
LEMMA ReadyNow == IInv => ReadyMeansLoggedOn
BY DEF IInv, SessionInv, ReadyMeansLoggedOn, IsReady

\* is_ready() is true only of a session that Steam has logged on.
THEOREM ReadyIsLoggedOn == Spec => []ReadyMeansLoggedOn
BY ReadyNow, Invariance, PTL

\* The pool holds what PoolInv says.
LEMMA PoolNow == IInv => PoolHoldsReadySessions
BY DEF IInv, PoolInv, PoolHoldsReadySessions, IsReady

\* A failed login is never in the pool, and none is there under another account.
THEOREM PoolIsReady == Spec => []PoolHoldsReadySessions
BY PoolNow, Invariance, PTL

\* Both kinds of session that RideInv leaves an active connection are its own.
LEMMA RidesNow == IInv => RidesOwnAccount
<1> SUFFICES ASSUME IInv, NEW c \in Conns, phase[c] = "active"
             PROVE  /\ modern[c] # None /\ loggedOn[modern[c]]
                    /\ account[c] = IF modern[c] = BootSession
                                    THEN BootAccount ELSE account[modern[c]]
  BY DEF RidesOwnAccount
<1>1. account[c] \in Accounts
  BY DEF IInv, PhaseInv
<1>2. CASE preset # None /\ modern[c] = preset /\ account[c] = BootAccount
  <2>1. preset = BootSession /\ ready[preset] = "result"
    BY <1>2 DEF IInv, TypeOK, RideInv
  <2> QED
    BY <1>2, <2>1, Names DEF IInv, SessionInv
<1>3. CASE pool[account[c]] # None /\ modern[c] = pool[account[c]]
  <2>1. /\ modern[c] \in Conns /\ ready[modern[c]] = "result"
        /\ account[modern[c]] = account[c]
    BY <1>1, <1>3 DEF IInv, TypeOK, PoolInv
  <2> QED
    BY <1>3, <2>1, Names DEF IInv, SessionInv
<1> QED
  BY <1>2, <1>3 DEF IInv, RideInv

\* No connection is ever active on another account's session.
THEOREM RidesOwn == Spec => []RidesOwnAccount
BY RidesNow, Invariance, PTL

-------------------------------------------------------------------------------

\* No step of the factory replaces a cached session.
LEMMA CachedStep ==
  IInv /\ [Next]_vars =>
    [\A a \in Accounts : pool[a] # None => pool'[a] = pool[a]]_vars
<1> SUFFICES ASSUME IInv, [Next]_vars, NEW a \in Accounts, pool[a] # None
             PROVE  pool'[a] = pool[a]
  OBVIOUS
<1>1. ASSUME NEW c \in Conns, NEW b \in Accounts, GetLocked(c, b)
      PROVE  pool' = pool
  BY <1>1 DEF GetLocked, Reuse, Create, PromptRaises, StartHolding
<1>2. ASSUME NEW c \in Conns, Logon(c) PROVE pool' = pool
  BY <1>1, <1>2 DEF Logon, LogonOnPreset, GetNow, GetQueues
<1>3. ASSUME NEW c \in Conns, ConnResumes(c) PROVE pool'[a] = pool[a]
  <2>1. CASE GetResumes(c)
    <3>1. account[c] \in Accounts
      BY <2>1 DEF GetResumes, IInv, PhaseInv
    <3> QED
      BY <1>1, <2>1, <3>1 DEF GetResumes
  <2>2. CASE StartReturns(c)
    <3>1. pool[account[c]] = None
      BY <2>2 DEF StartReturns, IInv, PoolInv
    <3> QED
      BY <2>2, <3>1 DEF StartReturns, IInv, TypeOK
  <2>3. CASE StartRaises(c)
    BY <2>3 DEF StartRaises
  <2> QED
    BY <1>3, <2>1, <2>2, <2>3 DEF ConnResumes
<1>4. ASSUME NEW s \in Sessions, InSession(SessionStep(s)) PROVE pool' = pool
  BY <1>4 DEF InSession, poolVars
<1>5. CASE Close
  BY <1>5 DEF Close, CloseNow, CloseQueues, CloseResumes, StopAll
<1>6. CASE UNCHANGED vars
  BY <1>6 DEF vars, poolVars
<1> QED
  BY <1>2, <1>3, <1>4, <1>5, <1>6 DEF Next

\* A cached session stays: only start() returning writes the pool, and the
\* account of the lock holder is not cached.
THEOREM CachedStays == Spec => CachedForGood
BY CachedStep, Invariance, PTL DEF Spec, CachedForGood

\* When close() ends, nobody holds the lock: no session is being started, and
\* the ready ones are the preset and the pool, which it has just stopped.
THEOREM CloseStopsAll == Spec => CloseStopsAllInUse
<1>1. IInv /\ FixedInv /\ [Next]_vars =>
        [~closed /\ closed' =>
           \A s \in Sessions : ready[s] \in {"pending", "result"} => stopped'[s]]_vars
  <2> SUFFICES ASSUME IInv, FixedInv, [Next]_vars, ~closed, closed',
                      NEW s \in Sessions, ready[s] \in {"pending", "result"}
               PROVE  stopped'[s]
    OBVIOUS
  <2>1. StopAll /\ lock = None
    <3>1. ASSUME NEW c \in Conns, Logon(c) PROVE FALSE
      BY <3>1 DEF Logon, LogonOnPreset, GetNow, GetQueues
    <3>2. ASSUME NEW c \in Conns, ConnResumes(c) PROVE FALSE
      BY <3>2 DEF ConnResumes, GetResumes, StartReturns, StartRaises
    <3>3. ASSUME NEW t \in Sessions, InSession(SessionStep(t)) PROVE FALSE
      BY <3>3 DEF InSession, poolVars
    <3>4. ~ UNCHANGED vars
      BY DEF vars, poolVars
    <3>5. Close => StopAll /\ lock = None
      BY DEF Close, CloseNow, CloseQueues, CloseResumes, LockIsFree, IsNext
    <3> QED
      BY <3>1, <3>2, <3>3, <3>4, <3>5 DEF Next
  <2>2. CASE s = BootSession
    <3>1. s = preset
      BY <2>2 DEF IInv, TypeOK, FixedInv
    <3> QED
      BY <2>1, <3>1 DEF StopAll
  <2>3. CASE s \in Conns
    <3>1. phase[s] # "starting"
      BY <2>1, <2>3, Names DEF IInv, LockInv
    <3>2. ready[s] = "result" /\ pool[account[s]] = s /\ account[s] \in Accounts
      BY <2>3, <3>1 DEF IInv, PhaseInv, PoolInv, TypeOK, Phases
    <3>3. s \in Pooled
      BY <2>3, <3>2, Names DEF Pooled
    <3> QED
      BY <2>1, <3>3 DEF StopAll
  <2> QED
    BY <2>2, <2>3, FactoryAssumption
<1> QED
  BY <1>1, Invariance, PTL DEF Spec, CloseStopsAllInUse

\* No step of the factory changes a future that is done.
LEMMA FirstStep ==
  IInv /\ [Next]_vars =>
    [\A s \in Sessions : Done(s) => ready'[s] = ready[s]]_sessionVars
<1> SUFFICES ASSUME IInv, [Next]_vars, NEW s \in Sessions, Done(s)
             PROVE  ready'[s] = ready[s]
  OBVIOUS
<1>1. ASSUME NEW c \in Conns, NEW b \in Accounts, GetLocked(c, b)
      PROVE  ready'[s] = ready[s]
  BY <1>1 DEF GetLocked, Reuse, Create, PromptRaises, StartHolding, StartSession,
              sessionVars,
              Done, Outcomes, IInv, TypeOK, SessionTypeOK
<1>2. ASSUME NEW c \in Conns, Logon(c) PROVE ready'[s] = ready[s]
  BY <1>1, <1>2 DEF Logon, LogonOnPreset, GetNow, GetQueues, sessionVars
<1>3. ASSUME NEW c \in Conns, ConnResumes(c) PROVE ready'[s] = ready[s]
  <2>1. CASE GetResumes(c)
    <3>1. account[c] \in Accounts
      BY <2>1 DEF GetResumes, IInv, PhaseInv
    <3> QED
      BY <1>1, <2>1, <3>1 DEF GetResumes
  <2> QED
    BY <1>3, <2>1 DEF ConnResumes, StartReturns, StartRaises, sessionVars
<1>4. ASSUME NEW t \in Sessions, InSession(SessionStep(t)) PROVE ready'[s] = ready[s]
  <2>1. Resolves
    BY <1>4, RunCallbackKeeps, ThreadKeeps DEF IInv, InSession, SessionStep
  <2> QED
    BY <2>1 DEF Resolves, Done, Outcomes
<1>5. CASE Close
  BY <1>5 DEF Close, CloseNow, CloseQueues, CloseResumes, StopAll, sessionVars
<1>6. CASE UNCHANGED vars
  BY <1>6 DEF vars, sessionVars
<1> QED
  BY <1>2, <1>3, <1>4, <1>5, <1>6 DEF Next

\* A future that is done never changes: only a fresh one is set by start(),
\* and only a pending one is resolved.
THEOREM FirstWins == Spec => FirstOutcomeWins
BY FirstStep, Invariance, PTL DEF Spec, FirstOutcomeWins

\* A queue that something was appended to is not empty.
LEMMA AppendNotEmpty ==
  ASSUME NEW S, NEW q \in Seq(S), NEW x \in S
  PROVE  Append(q, x) # <<>>
<1>1. Len(Append(q, x)) = Len(q) + 1 /\ Len(q) \in Nat
  OBVIOUS
<1> QED
  BY <1>1

\* No step of the factory loses a login on its way to the loop.
LEMMA LogonStep == LogonNotLost /\ IInv /\ [Next]_vars => LogonNotLost'
<1> SUFFICES ASSUME LogonNotLost, IInv, [Next]_vars,
                    NEW s \in Sessions, loggedOn'[s]
             PROVE  ready'[s] \in Outcomes \/ posted'[s] # <<>>
  BY DEF LogonNotLost, Done
<1> DEFINE Kept == /\ loggedOn'[s] = loggedOn[s] /\ posted'[s] = posted[s]
                   /\ Done(s) => ready'[s] = ready[s]
<1>1. Kept => ready'[s] \in Outcomes \/ posted'[s] # <<>>
  BY DEF LogonNotLost, Done
<1>2. ASSUME NEW c \in Conns, NEW b \in Accounts, GetLocked(c, b)
      PROVE  Kept
  BY <1>2 DEF GetLocked, Reuse, Create, PromptRaises, StartHolding, StartSession,
              sessionVars,
              Done, Outcomes, IInv, TypeOK, SessionTypeOK
<1>3. ASSUME NEW c \in Conns, Logon(c) PROVE Kept
  BY <1>2, <1>3 DEF Logon, LogonOnPreset, GetNow, GetQueues, sessionVars
<1>4. ASSUME NEW c \in Conns, ConnResumes(c) PROVE Kept
  <2>1. CASE GetResumes(c)
    <3>1. account[c] \in Accounts
      BY <2>1 DEF GetResumes, IInv, PhaseInv
    <3> QED
      BY <1>2, <2>1, <3>1 DEF GetResumes
  <2> QED
    BY <1>4, <2>1 DEF ConnResumes, StartReturns, StartRaises, sessionVars
<1>5. Close => UNCHANGED <<ready, posted, loggedOn>>
  BY DEF Close, CloseNow, CloseQueues, CloseResumes, StopAll, sessionVars
<1>6. UNCHANGED vars => UNCHANGED <<ready, posted, loggedOn>>
  BY DEF vars, sessionVars
<1>7. ASSUME NEW t \in Sessions, RunCallback(t)
      PROVE  ready'[s] \in Outcomes \/ posted'[s] # <<>>
  <2>1. CASE s = t
    <3>1. Head(posted[t]) \in Outcomes
      BY <1>7 DEF RunCallback, IInv, TypeOK, SessionTypeOK
    <3> QED
      BY <1>7, <2>1, <3>1 DEF RunCallback, Done, IInv, TypeOK, SessionTypeOK
  <2>2. CASE s # t
    BY <1>7, <2>2 DEF RunCallback, LogonNotLost, Done, IInv, TypeOK, SessionTypeOK
  <2> QED
    BY <2>1, <2>2
<1>8. ASSUME NEW t \in Sessions, ThreadStep(t)
      PROVE  ready'[s] \in Outcomes \/ posted'[s] # <<>>
  <2>1. /\ ready' = ready
        /\ Post(t, "exception") \/ Post(t, "result") \/ posted' = posted
    BY <1>8 DEF ThreadStep, ImportFails, ImportSucceeds, HandlerMissing,
                HandlersRegistered, LoggedOn, LoginReturns, LoginRaises, ThreadExits
  <2>2. posted[s] # <<>> => posted'[s] # <<>>
    <3>1. \A o \in Outcomes : Append(posted[t], o) # <<>>
      BY AppendNotEmpty DEF IInv, TypeOK, SessionTypeOK
    <3> QED
      BY <2>1, <3>1 DEF Post, Outcomes, IInv, TypeOK, SessionTypeOK
  <2>3. \/ loggedOn'[s] = loggedOn[s]
        \/ s = t /\ Post(t, "result")
    BY <1>8 DEF ThreadStep, ImportFails, ImportSucceeds, HandlerMissing,
                HandlersRegistered, LoggedOn, LoginReturns, LoginRaises, ThreadExits,
                IInv, TypeOK, SessionTypeOK
  <2>4. CASE s = t /\ Post(t, "result")
    <3>1. Append(posted[s], "result") # <<>>
      BY AppendNotEmpty DEF IInv, TypeOK, SessionTypeOK, Outcomes
    <3> QED
      BY <2>1, <2>4, <3>1 DEF Post, Done, IInv, TypeOK, SessionTypeOK
  <2> QED
    BY <2>1, <2>2, <2>3, <2>4 DEF LogonNotLost, Done
<1> QED
  BY <1>1, <1>3, <1>4, <1>5, <1>6, <1>7, <1>8 DEF Next, InSession, SessionStep

\* Only a preset is logged on when the factory is built.
LEMMA LogonInit == Init => LogonNotLost
<1> SUFFICES ASSUME Init, NEW s \in Sessions, loggedOn[s]
             PROVE  ready[s] = "result"
  BY DEF LogonNotLost, Done, Outcomes
<1>1. s = preset
  BY DEF Init
<1> QED
  BY <1>1 DEF Init

\* A login is not lost on its way to the loop: the thread posts the result
\* unless the future is done, and only the future's resolution takes it away.
THEOREM LogonStays == Spec => []LogonNotLost
BY LogonInit, LogonStep, Invariance, PTL DEF Spec

-------------------------------------------------------------------------------
(***************************************************************************)
(* The queue of the lock.                                                  *)
(***************************************************************************)

In(q, t)       == \E i \in 1..Len(q) : q[i] = t
OnlyLast(q, t) == \A i \in 1..Len(q) : q[i] = t => i = Len(q)
Once(q)        == \A i, j \in 1..Len(q) : q[i] = q[j] => i = j

\* Who is in a queue after another came, and who is last.
LEMMA PutInQueue ==
  ASSUME NEW S, NEW q \in Seq(S), NEW x \in S
  PROVE  /\ \A t : In(Append(q, x), t) <=> In(q, t) \/ t = x
         /\ \A t : ~In(q, t) => OnlyLast(Append(q, x), t)
         /\ Once(q) /\ ~In(q, x) => Once(Append(q, x))
<1> DEFINE p == Append(q, x)
<1>1. /\ Len(q) \in Nat /\ Len(p) = Len(q) + 1
      /\ \A i \in 1..Len(q) : p[i] = q[i]
      /\ p[Len(q) + 1] = x
  BY AppendProperties, LenProperties
<1> HIDE DEF p
<1>2. Len(q) + 1 \in 1..Len(p) /\ 1..Len(q) \subseteq 1..Len(p)
      /\ \A i \in 1..Len(p) : i \in 1..Len(q) \/ i = Len(p)
  BY <1>1
<1>3. \A t : In(p, t) <=> In(q, t) \/ t = x
  BY <1>1, <1>2 DEF In
<1>4. \A t : ~In(q, t) => OnlyLast(p, t)
  BY <1>1, <1>2 DEF In, OnlyLast
<1>5. ASSUME Once(q), ~In(q, x) PROVE Once(p)
  <2> SUFFICES ASSUME NEW i \in 1..Len(p), NEW j \in 1..Len(p), p[i] = p[j] PROVE i = j
    BY DEF Once
  <2>1. i \in 1..Len(q) /\ j \in 1..Len(q) => i = j
    BY <1>1, <1>5 DEF Once
  <2>2. /\ i \in 1..Len(q) => p[i] # x
        /\ j \in 1..Len(q) => p[j] # x
    BY <1>1, <1>5 DEF In
  <2> QED
    BY <1>1, <1>2, <2>1, <2>2
<1> QED
  BY <1>3, <1>4, <1>5 DEF p

\* Who is in a queue after the first has left.
LEMMA TakeFromQueue ==
  ASSUME NEW S, NEW q \in Seq(S), q # <<>>
  PROVE  /\ \A t : In(Tail(q), t) => In(q, t)
         /\ \A t : In(q, t) /\ t # Head(q) => In(Tail(q), t)
         /\ \A t : OnlyLast(q, t) => OnlyLast(Tail(q), t)
         /\ \A t : OnlyLast(q, t) /\ t = Head(q) => Tail(q) = <<>>
         /\ In(q, Head(q))
         /\ Once(q) => Once(Tail(q)) /\ ~In(Tail(q), Head(q))
<1> DEFINE p == Tail(q)
<1>1. /\ p \in Seq(S) /\ Head(q) = q[1] /\ Len(q) \in Nat /\ Len(q) # 0
      /\ Len(p) = Len(q) - 1
      /\ \A i \in 1..Len(p) : p[i] = q[i + 1]
  BY HeadTailProperties, LenProperties
<1> HIDE DEF p
<1>2. /\ 1 \in 1..Len(q)
      /\ \A i \in 1..Len(p) : i + 1 \in 1..Len(q)
      /\ \A i \in 1..Len(q) : i # 1 => i - 1 \in 1..Len(p) /\ p[i - 1] = q[i]
  <2>1. ASSUME NEW i \in 1..Len(q), i # 1 PROVE i - 1 \in 1..Len(p) /\ (i - 1) + 1 = i
    BY <1>1, <2>1
  <2> QED
    BY <1>1, <2>1
<1>3. \A t : In(p, t) => In(q, t)
  BY <1>1, <1>2 DEF In
<1>4. ASSUME NEW t, In(q, t), t # Head(q) PROVE In(p, t)
  BY <1>1, <1>2, <1>4 DEF In
<1>5. ASSUME NEW t, OnlyLast(q, t), NEW i \in 1..Len(p), p[i] = t PROVE i = Len(p)
  <2>1. i + 1 \in 1..Len(q) /\ q[i + 1] = t
    BY <1>1, <1>2, <1>5
  <2>2. i + 1 = Len(q)
    BY <1>5, <2>1 DEF OnlyLast
  <2> QED
    BY <1>1, <2>2
<1>6. ASSUME NEW t, OnlyLast(q, t), t = Head(q) PROVE p = <<>>
  <2>1. Len(q) = 1
    BY <1>1, <1>2, <1>6 DEF OnlyLast
  <2>2. Len(p) = 0
    BY <1>1, <2>1
  <2> QED
    BY <1>1, <2>2, EmptySeq
<1>7. In(q, Head(q))
  BY <1>1, <1>2 DEF In
<1>8. ASSUME Once(q) PROVE Once(p) /\ ~In(p, Head(q))
  <2>1. ASSUME NEW i \in 1..Len(p), NEW j \in 1..Len(p), p[i] = p[j] PROVE i = j
    <3>1. i + 1 = j + 1
      BY <1>1, <1>2, <1>8, <2>1 DEF Once
    <3> QED
      BY <1>1, <3>1
  <2>2. ASSUME NEW i \in 1..Len(p), p[i] = Head(q) PROVE FALSE
    <3>1. i + 1 = 1
      BY <1>1, <1>2, <1>8, <2>2 DEF Once
    <3> QED
      BY <1>1, <3>1
  <2> QED
    BY <2>1, <2>2 DEF Once, In
<1> QED
  BY <1>3, <1>4, <1>5, <1>6, <1>7, <1>8 DEF OnlyLast, p

\* Nobody waits in an empty queue.
LEMMA EmptyQueue == Once(<<>>) /\ \A t : ~In(<<>>, t) /\ OnlyLast(<<>>, t)
BY DEF In, OnlyLast, Once

\* The connections in the queue are the ones that wait, each in one place, and
\* close() is in it at most until it has run.
QueueInv ==
  /\ \A c \in Conns : phase[c] = "queued" <=> In(waiters, c)
  /\ Once(waiters)
  /\ In(waiters, Closer) => ~closed

\* The lock is handed on: it is held only by a connection that awaits start(),
\* which releases it however that ends; free, it is the first waiter's, and that
\* one is still there to take it (a GetResumes or a CloseResumes); and nobody
\* waits outside the queue.
LockHandedOn ==
  /\ lock # None => phase[lock] = "starting"
  /\ lock = None /\ waiters # <<>> =>
       \/ Head(waiters) = Closer /\ ~closed
       \/ Head(waiters) \in Conns /\ phase[Head(waiters)] = "queued"
  /\ \A c \in Conns : phase[c] = "queued" => In(waiters, c)

\* Nobody has queued yet.
LEMMA QueueInit == Init => QueueInv
<1> SUFFICES ASSUME Init PROVE QueueInv
  OBVIOUS
<1>1. waiters = <<>> /\ \A c \in Conns : phase[c] # "queued"
  BY DEF Init
<1> QED
  BY <1>1, EmptyQueue DEF QueueInv

\* The body of get() queues nobody.
LEMMA GetLockedQueue ==
  ASSUME IInv, NEW c \in Conns, NEW a \in Accounts, GetLocked(c, a)
  PROVE  phase'[c] # "queued" /\ \A d \in Conns : d # c => phase'[d] = phase[d]
BY DEF GetLocked, Reuse, Create, PromptRaises, StartHolding, Answer, IInv, TypeOK

\* A log-on that waits goes to the end of the queue, where it was not yet.
LEMMA LogonQueue ==
  ASSUME IInv, QueueInv, NEW c \in Conns, Logon(c)
  PROVE  QueueInv'
<1>0. PICK a \in Accounts : LogonOnPreset(c, a) \/ GetNow(c, a) \/ GetQueues(c, a)
  BY DEF Logon
<1>1. closed' = closed /\ ~In(waiters, c)
  BY <1>0 DEF LogonOnPreset, GetNow, GetQueues, QueueInv
<1>2. CASE LogonOnPreset(c, a) \/ GetNow(c, a)
  <2>1. waiters' = waiters /\ phase'[c] # "queued"
        /\ \A d \in Conns : d # c => phase'[d] = phase[d]
    BY <1>2, GetLockedQueue DEF LogonOnPreset, GetNow, IInv, TypeOK
  <2> QED
    BY <1>1, <2>1 DEF QueueInv
<1>3. CASE GetQueues(c, a)
  <2>1. waiters' = Append(waiters, c) /\ phase'[c] = "queued"
        /\ \A d \in Conns : d # c => phase'[d] = phase[d]
    BY <1>3 DEF GetQueues, IInv, TypeOK
  <2>2. waiters \in Seq(Tasks) /\ c \in Tasks /\ c # Closer
    BY FactoryAssumption DEF IInv, TypeOK, Tasks
  <2>3. /\ \A t : In(waiters', t) <=> In(waiters, t) \/ t = c
        /\ Once(waiters')
    BY <1>1, <2>1, <2>2, PutInQueue DEF QueueInv
  <2> QED
    BY <1>1, <2>1, <2>2, <2>3 DEF QueueInv
<1> QED
  BY <1>0, <1>2, <1>3

\* A connection leaves the queue as the first, and with it its one place.
LEMMA ResumesQueue ==
  ASSUME IInv, QueueInv, NEW c \in Conns, ConnResumes(c)
  PROVE  QueueInv'
<1>1. closed' = closed
  BY DEF ConnResumes, GetResumes, StartReturns, StartRaises
<1>2. CASE GetResumes(c)
  <2>1. /\ waiters \in Seq(Tasks) /\ waiters # <<>> /\ Head(waiters) = c
        /\ waiters' = Tail(waiters)
    BY <1>2 DEF GetResumes, IsNext, IInv, TypeOK
  <2>2. phase'[c] # "queued" /\ \A d \in Conns : d # c => phase'[d] = phase[d]
    <3>1. account[c] \in Accounts /\ GetLocked(c, account[c])
      BY <1>2 DEF GetResumes, IInv, PhaseInv
    <3> QED
      BY <3>1, GetLockedQueue
  <2>3. /\ \A t : In(waiters', t) => In(waiters, t)
        /\ \A t : In(waiters, t) /\ t # c => In(waiters', t)
        /\ Once(waiters') /\ ~In(waiters', c)
    BY <2>1, TakeFromQueue DEF QueueInv
  <2> QED
    BY <1>1, <2>2, <2>3 DEF QueueInv
<1>3. CASE StartReturns(c) \/ StartRaises(c)
  <2>1. waiters' = waiters /\ phase[c] # "queued" /\ phase'[c] # "queued"
        /\ \A d \in Conns : d # c => phase'[d] = phase[d]
    BY <1>3 DEF StartReturns, StartRaises, Answer, IInv, TypeOK
  <2> QED
    BY <1>1, <2>1 DEF QueueInv
<1> QED
  BY <1>2, <1>3 DEF ConnResumes

\* close() queues once, and is gone from the queue when it has run.
LEMMA CloseQueue ==
  ASSUME IInv, QueueInv, Close
  PROVE  QueueInv'
<1>0. phase' = phase /\ waiters \in Seq(Tasks) /\ Closer \in Tasks /\ Closer \notin Conns
  BY FactoryAssumption DEF Close, CloseNow, CloseQueues, CloseResumes, StopAll, IInv, TypeOK,
                           Tasks
<1>1. CASE CloseNow
  BY <1>0, <1>1, EmptyQueue DEF CloseNow, LockIsFree, QueueInv
<1>2. CASE CloseQueues
  <2>1. waiters' = Append(waiters, Closer) /\ closed' = closed /\ ~closed
        /\ ~In(waiters, Closer)
    BY <1>2 DEF CloseQueues, CloserWaits, In
  <2>2. /\ \A t : In(waiters', t) <=> In(waiters, t) \/ t = Closer
        /\ Once(waiters')
    BY <1>0, <2>1, PutInQueue DEF QueueInv
  <2> QED
    BY <1>0, <2>1, <2>2 DEF QueueInv
<1>3. CASE CloseResumes
  <2>1. waiters # <<>> /\ Head(waiters) = Closer /\ waiters' = Tail(waiters)
    BY <1>3 DEF CloseResumes, IsNext
  <2>2. /\ \A t : In(waiters', t) => In(waiters, t)
        /\ \A t : In(waiters, t) /\ t # Closer => In(waiters', t)
        /\ Once(waiters') /\ ~In(waiters', Closer)
    BY <1>0, <2>1, TakeFromQueue DEF QueueInv
  <2> QED
    BY <1>0, <2>2 DEF QueueInv
<1> QED
  BY <1>1, <1>2, <1>3 DEF Close

\* Who waits is in the queue, and who is first in it waits.
LEMMA QueueNow == IInv /\ QueueInv => LockHandedOn
<1> SUFFICES ASSUME IInv, QueueInv PROVE LockHandedOn
  OBVIOUS
<1>1. lock # None => phase[lock] = "starting"
  BY DEF IInv, TypeOK, LockInv
<1>2. ASSUME waiters # <<>>
      PROVE  \/ Head(waiters) = Closer /\ ~closed
             \/ Head(waiters) \in Conns /\ phase[Head(waiters)] = "queued"
  <2>1. waiters \in Seq(Tasks) /\ In(waiters, Head(waiters))
    BY <1>2, TakeFromQueue DEF IInv, TypeOK
  <2>2. Head(waiters) \in Tasks
    BY <1>2, <2>1, HeadTailProperties
  <2> QED
    BY <2>1, <2>2 DEF QueueInv, Tasks
<1> QED
  BY <1>1, <1>2 DEF LockHandedOn, QueueInv

\* Every action of the factory keeps the queue so.
LEMMA QueueStep == QueueInv /\ IInv /\ [Next]_vars => QueueInv'
<1> SUFFICES ASSUME QueueInv, IInv, [Next]_vars PROVE QueueInv'
  OBVIOUS
<1>1. ASSUME NEW s \in Sessions, InSession(SessionStep(s)) PROVE QueueInv'
  BY <1>1 DEF InSession, poolVars, QueueInv
<1>2. CASE UNCHANGED vars
  BY <1>2 DEF vars, poolVars, QueueInv
<1> QED
  BY <1>1, <1>2, LogonQueue, ResumesQueue, CloseQueue DEF Next

\* The factory's lock is never left without somebody who can take it or give it
\* up, whoever waits for it (`async with self._lock` in get() and close()).
THEOREM LockMoves == Spec => []LockHandedOn
BY QueueStep, QueueInit, QueueNow, Invariance, PTL DEF Spec

-------------------------------------------------------------------------------

\* With a preset nobody asks for the lock.
PresetInv == preset # None => \A c \in Conns : phase[c] # "queued"

\* The preset session, once set, stays.
LEMMA PresetKept == Spec => []PresetInv
<1>1. Init => PresetInv
  BY DEF Init, PresetInv
<1>2. PresetInv /\ IInv /\ [Next]_vars => PresetInv'
  <2> SUFFICES ASSUME PresetInv, IInv, [Next]_vars, NEW d \in Conns
               PROVE  /\ preset' = preset
                      /\ preset # None => phase'[d] # "queued"
    BY DEF PresetInv
  <2> DEFINE Kept == preset' = preset /\ (preset # None => phase'[d] # "queued")
  <2>1. preset # None => phase[d] # "queued"
    BY DEF PresetInv
  <2>2. ASSUME NEW c \in Conns, Logon(c) PROVE Kept
    <3>1. ASSUME NEW a \in Accounts, LogonOnPreset(c, a) PROVE Kept
      BY <2>1, <3>1 DEF LogonOnPreset, IInv, TypeOK
    <3>2. ASSUME NEW a \in Accounts, GetNow(c, a) \/ GetQueues(c, a) PROVE Kept
      BY <3>2 DEF GetNow, GetQueues
    <3> QED
      BY <2>2, <3>1, <3>2 DEF Logon
  <2>3. ASSUME NEW c \in Conns, ConnResumes(c) PROVE Kept
    <3>1. CASE GetResumes(c)
      BY <3>1 DEF GetResumes, PresetInv
    <3>2. CASE StartReturns(c) \/ StartRaises(c)
      BY <2>1, <3>2 DEF StartReturns, StartRaises, Answer, IInv, TypeOK
    <3> QED
      BY <2>3, <3>1, <3>2 DEF ConnResumes
  <2>4. ASSUME NEW s \in Sessions, InSession(SessionStep(s)) PROVE Kept
    BY <2>1, <2>4 DEF InSession, poolVars
  <2>5. Close => Kept
    BY <2>1 DEF Close, CloseNow, CloseQueues, CloseResumes, StopAll
  <2>6. UNCHANGED vars => Kept
    BY <2>1 DEF vars, poolVars
  <2> QED
    BY <2>2, <2>3, <2>4, <2>5, <2>6 DEF Next
<1> QED
  BY <1>1, <1>2, Invariance, PTL DEF Spec

\* What the promise sees of a state; a step that changes none of it stutters.
Unseen == UNCHANGED <<preset, pool, attempt, used, riding>>

\* The body of get() under the lock joins a session, begins a login, or, when
\* the prompt raises, does nothing the promise can see.
LEMMA GetLockedMaps ==
  ASSUME IInv, NEW c \in Conns, NEW a \in Accounts, GetLocked(c, a),
         phase[c] \in {"idle", "queued"}, lock = None, preset = None,
         account' = [account EXCEPT ![c] = a], preset' = preset
  PROVE  Pool!Join(c, a) \/ Pool!Begin(c, a) \/ Unseen
<1> USE Names
<1>1. attempt = [b \in Accounts |-> None]
  BY DEF attempt
<1>2. ready[c] = "unset" /\ c \notin used
  BY DEF IInv, PhaseInv, used
<1>3. riding[c] = [account |-> None, session |-> None]
  BY DEF riding
<1>4. CASE Reuse(c, a)
  <2>1. /\ pool[a] \in Conns /\ pool[a] # None /\ IsReady(pool[a])
        /\ UNCHANGED <<ready, pool, lock>>
    BY <1>4 DEF Reuse, sessionVars, IInv, TypeOK, PoolInv, IsReady
  <2>2. /\ phase'  = [phase EXCEPT ![c] = "active"]
        /\ modern' = [modern EXCEPT ![c] = pool[a]]
    BY <1>4, <2>1 DEF Reuse, Answer
  <2>3. riding' = [riding EXCEPT ![c] = [account |-> a, session |-> pool[a]]]
    BY <2>2 DEF riding, IInv, TypeOK
  <2>4. attempt' = attempt /\ used' = used
    BY <2>1, <1>1 DEF attempt, used
  <2> QED
    BY <1>3, <2>1, <2>3, <2>4 DEF Pool!Join, Pool!Ride, Pool!NoRide
<1>5. CASE Create(c, a)
  <2>1. /\ pool[a] = None /\ lock' = c /\ UNCHANGED <<pool, modern>>
        /\ phase' = [phase EXCEPT ![c] = "starting"]
        /\ ready' = [ready EXCEPT ![c] = "pending"]
    BY <1>5 DEF Create, StartHolding, StartSession
  <2>2. attempt' = [attempt EXCEPT ![a] = c]
    <3>1. lock' # None /\ account'[lock'] = a
      BY <2>1 DEF IInv, TypeOK
    <3> QED
      BY <1>1, <2>1, <3>1 DEF attempt
  <2>3. used' = used \cup {c}
    BY <2>1 DEF used, IInv, TypeOK, SessionTypeOK
  <2>4. riding' = riding
    BY <2>1 DEF riding, IInv, TypeOK
  <2> QED
    BY <1>1, <1>2, <2>1, <2>2, <2>3, <2>4 DEF Pool!Begin
<1>6. CASE PromptRaises(c, a)
  <2>1. /\ UNCHANGED <<ready, pool, lock, modern>>
        /\ phase' = [phase EXCEPT ![c] = "refused"]
    BY <1>6 DEF PromptRaises, sessionVars
  <2>2. riding' = riding
    BY <2>1 DEF riding, IInv, TypeOK
  <2> QED
    BY <1>1, <2>1, <2>2 DEF Unseen, attempt, used
<1> QED
  BY <1>4, <1>5, <1>6 DEF GetLocked

\* A logon on the preset joins it; one that is refused there, or queues, has
\* not been seen yet.
LEMMA LogonMaps ==
  ASSUME IInv, NEW c \in Conns, preset # None /\ phase[c] = "idle" => modern[c] = preset,
         Logon(c)
  PROVE  Pool!Next \/ Unseen
<1> USE Names
<1>1. PICK a \in Accounts : LogonOnPreset(c, a) \/ GetNow(c, a) \/ GetQueues(c, a)
  BY DEF Logon
<1>2. ASSUME phase[c] = "idle", lock' = lock, ready' = ready,
             account' = [account EXCEPT ![c] = a]
      PROVE  attempt' = attempt /\ used' = used
  <2>1. lock # c
    BY <1>2 DEF IInv, LockInv
  <2> QED
    BY <1>2, <2>1 DEF attempt, used, IInv, TypeOK
<1>3. CASE LogonOnPreset(c, a)
  <2>1. /\ phase[c] = "idle" /\ preset # None /\ modern[c] = preset
        /\ UNCHANGED <<ready, preset, pool, lock, modern>>
        /\ account' = [account EXCEPT ![c] = a]
        /\ phase' = [phase EXCEPT ![c] = IF a = BootAccount THEN "active"
                                                            ELSE "refused"]
    BY <1>3 DEF LogonOnPreset, sessionVars
  <2>2. attempt' = attempt /\ used' = used
    BY <1>2, <2>1
  <2>3. CASE a = BootAccount
    <3>1. riding' = [riding EXCEPT ![c] = [account |-> BootAccount,
                                           session |-> preset]]
      BY <2>1, <2>3 DEF riding, IInv, TypeOK
    <3>2. Pool!JoinPreset(c)
      BY <2>1, <2>2, <3>1 DEF riding, Pool!JoinPreset, Pool!Ride, Pool!NoRide
    <3> QED
      BY <3>2 DEF Pool!Next
  <2>4. CASE a # BootAccount
    <3>1. riding' = riding
      BY <2>1, <2>4 DEF riding, IInv, TypeOK
    <3> QED
      BY <2>1, <2>2, <3>1 DEF Unseen
  <2> QED
    BY <2>3, <2>4
<1>4. CASE GetNow(c, a)
  BY <1>4, GetLockedMaps DEF GetNow, LockIsFree, Pool!Next
<1>5. CASE GetQueues(c, a)
  <2>1. /\ phase[c] = "idle" /\ UNCHANGED <<ready, preset, pool, lock, modern>>
        /\ account' = [account EXCEPT ![c] = a]
        /\ phase' = [phase EXCEPT ![c] = "queued"]
    BY <1>5 DEF GetQueues, sessionVars
  <2>2. riding' = riding
    BY <2>1 DEF riding, IInv, TypeOK
  <2> QED
    BY <1>2, <2>1, <2>2 DEF Unseen
<1> QED
  BY <1>1, <1>3, <1>4, <1>5

\* A login that start() ends, either way, is the lock holder's attempt.
LEMMA ConnResumesMaps ==
  ASSUME IInv, PresetInv, NEW c \in Conns, ConnResumes(c)
  PROVE  Pool!Next \/ Unseen
<1> USE Names
<1>1. CASE GetResumes(c)
  <2>1. /\ account[c] \in Accounts /\ preset = None /\ lock = None
        /\ phase[c] \in {"idle", "queued"}
        /\ account' = [account EXCEPT ![c] = account[c]] /\ preset' = preset
        /\ GetLocked(c, account[c])
    BY <1>1 DEF GetResumes, IsNext, IInv, TypeOK, PhaseInv, PresetInv
  <2> QED
    BY <2>1, GetLockedMaps DEF Pool!Next
<1>2. ASSUME phase[c] = "starting", lock' = None, account' = account
      PROVE  /\ account[c] \in Accounts /\ attempt[account[c]] = c
             /\ attempt' = [attempt EXCEPT ![account[c]] = None]
  <2>1. lock = c /\ account[c] \in Accounts
    BY <1>2 DEF IInv, LockInv, PhaseInv
  <2> QED
    BY <1>2, <2>1 DEF attempt
<1>3. CASE StartReturns(c)
  <2>1. /\ phase[c] = "starting" /\ lock' = None
        /\ UNCHANGED <<ready, preset, account>>
        /\ pool'   = [pool EXCEPT ![account[c]] = c]
        /\ modern' = [modern EXCEPT ![c] = c]
        /\ phase'  = [phase EXCEPT ![c] = "active"]
    BY <1>3 DEF StartReturns, Answer, IsReady, sessionVars
  <2>2. riding' = [riding EXCEPT ![c] = [account |-> account[c], session |-> c]]
    BY <2>1 DEF riding, IInv, TypeOK
  <2>3. used' = used
    BY <2>1 DEF used
  <2>4. Pool!Succeed(account[c])
    BY <1>2, <2>1, <2>2, <2>3 DEF Pool!Succeed, Pool!Ride
  <2> QED
    BY <1>2, <2>1, <2>4 DEF Pool!Next
<1>4. CASE StartRaises(c)
  <2>1. /\ phase[c] = "starting" /\ lock' = None
        /\ UNCHANGED <<ready, preset, pool, account>>
        /\ modern' = [modern EXCEPT ![c] = None]
        /\ phase'  = [phase EXCEPT ![c] = "refused"]
    BY <1>4 DEF StartRaises, Answer, sessionVars
  <2>2. riding' = riding
    BY <2>1 DEF riding, IInv, TypeOK
  <2>3. used' = used
    BY <2>1 DEF used
  <2>4. Pool!Fail(account[c])
    BY <1>2, <2>1, <2>2, <2>3 DEF Pool!Fail
  <2> QED
    BY <1>2, <2>1, <2>4 DEF Pool!Next
<1> QED
  BY <1>1, <1>3, <1>4 DEF ConnResumes

\* A session's thread or callback resolves a pending future at most, and no
\* future becomes fresh again.
LEMMA SessionStepUnseen ==
  ASSUME IInv, NEW s \in Sessions, InSession(SessionStep(s))
  PROVE  Unseen
<1>1. Resolves /\ UNCHANGED poolVars
  BY RunCallbackKeeps, ThreadKeeps DEF IInv, InSession, SessionStep
<1>2. used' = used
  BY <1>1, Names DEF used, Resolves, Outcomes
<1> QED
  BY <1>1, <1>2 DEF Unseen, poolVars, attempt, riding

\* The factory implements the pool: whatever the threads do and however the
\* lock is passed on, a connection only ever begins, finishes, abandons or
\* joins the login of its account, as SessionPool says.
THEOREM ImplementsPool == Spec => KeepsPromise
<1>1. Init => Pool!Init
  BY Names DEF Init, Pool!Init, Pool!NoRide, Pool!Ride, attempt, used, riding
<1>2. IInv /\ FixedInv /\ PresetInv /\ [Next]_vars => [Pool!Next]_(Pool!poolVars)
  <2> SUFFICES ASSUME IInv, FixedInv, PresetInv, [Next]_vars PROVE Pool!Next \/ Unseen
    BY DEF Unseen, Pool!poolVars
  <2>1. ASSUME NEW c \in Conns, Logon(c) \/ ConnResumes(c)
        PROVE  Pool!Next \/ Unseen
    BY <2>1, LogonMaps, ConnResumesMaps DEF FixedInv
  <2>2. ASSUME NEW s \in Sessions, InSession(SessionStep(s)) PROVE Unseen
    BY <2>2, SessionStepUnseen
  <2>3. Close => Unseen
    BY DEF Close, CloseNow, CloseQueues, CloseResumes, StopAll, sessionVars,
           Unseen, attempt, used, riding
  <2>4. UNCHANGED vars => Unseen
    BY DEF vars, sessionVars, poolVars, Unseen, attempt, used, riding
  <2> QED
    BY <2>1, <2>2, <2>3, <2>4 DEF Next
<1> QED
  BY <1>1, <1>2, Invariance, PresetKept, PTL DEF Spec, KeepsPromise, Pool!Spec
===============================================================================
