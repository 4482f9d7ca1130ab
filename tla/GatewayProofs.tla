---------------------------- MODULE GatewayProofs ----------------------------
(***************************************************************************)
(* Gateway, for any number of connections and accounts and a signal at any *)
(* time: an orderly exit leaves no session running, and a gateway that is  *)
(* configured for one account serves no other, unless its boot failed.     *)
(*                                                                         *)
(* The factory's invariant IInv holds of the process too (its lemmas are   *)
(* about single steps).  ProcessInv adds what the stages of _run_services  *)
(* mean for the connections and the preset, StopInv what the shutdown has  *)
(* achieved: once wait_closed() has waited, nobody joins the queue behind  *)
(* close().                                                                *)
(***************************************************************************)
EXTENDS Gateway, ModernFactoryProofs

Running == {"serving", "closing", "stopping", "exited"}

ProcessInv ==
  /\ \A c \in Conns :
       /\ phase[c] # "idle" => link[c] # "none"
       /\ link[c] # "none" => stage \in Running
       /\ link[c] # "none" /\ phase[c] = "idle" => modern[c] = preset
  /\ stage = "boot" => ready[BootSession] = "unset"
  /\ stage \in {"boot", "starting"} => preset = None
  /\ stage \in Running /\ preset = None => ready[BootSession] \in {"unset", "exception"}
  /\ preset # None =>
       /\ \A a \in Accounts : pool[a] = None
       /\ \A c \in Conns : phase[c] \notin {"queued", "starting"}

StopInv ==
  /\ closed \/ In(waiters, Closer) => stage \in {"stopping", "exited"}
  /\ stage = "exited" => closed
  /\ waits /\ stage \in {"stopping", "exited"} => \A c \in Conns : ~Attached(c)
  /\ \A c \in Conns : phase[c] = "queued" => In(waiters, c)
  /\ waits => OnlyLast(waiters, Closer)
  /\ waits /\ closed =>
       /\ lock = None /\ waiters = <<>>
       /\ \A s \in Sessions : ready[s] \in {"pending", "result"} => stopped[s]

GInv == GatewayTypeOK /\ IInv /\ ProcessInv /\ StopInv

-------------------------------------------------------------------------------
(***************************************************************************)
(* What the factory's steps change of what the process looks at.           *)
(***************************************************************************)

\* The body of get() under the lock.
LEMMA GetLockedSeen ==
  ASSUME IInv, NEW c \in Conns, NEW a \in Accounts, GetLocked(c, a)
  PROVE  /\ ready'[BootSession] = ready[BootSession] /\ pool' = pool
         /\ phase'[c] \in {"active", "refused", "starting"}
         /\ \A d \in Conns : d # c => phase'[d] = phase[d] /\ modern'[d] = modern[d]
<1> USE Names
<1>1. ready'[BootSession] = ready[BootSession] /\ pool' = pool
  BY DEF GetLocked, Reuse, Create, PromptRaises, StartHolding, StartSession,
         sessionVars, IInv, TypeOK, SessionTypeOK
<1>2. /\ phase'[c] \in {"active", "refused", "starting"}
      /\ \A d \in Conns : d # c => phase'[d] = phase[d] /\ modern'[d] = modern[d]
  BY DEF GetLocked, Reuse, Create, PromptRaises, StartHolding, Answer, IInv, TypeOK
<1> QED
  BY <1>1, <1>2

\* What the gateway sees of a log-on: one connection moves, and the preset is as it was.
LEMMA LogonSeen ==
  ASSUME IInv, NEW c \in Conns, Logon(c)
  PROVE  /\ phase[c] = "idle" /\ phase'[c] # "idle"
         /\ \A d \in Conns : d # c => phase'[d] = phase[d] /\ modern'[d] = modern[d]
         /\ UNCHANGED <<preset, pool, closed>> /\ ready'[BootSession] = ready[BootSession]
         /\ preset # None => phase'[c] \notin {"queued", "starting"}
         /\ \/ waiters' = waiters /\ phase'[c] # "queued"
            \/ waiters' = Append(waiters, c)
<1> USE Names
<1>1. PICK a \in Accounts : LogonOnPreset(c, a) \/ GetNow(c, a) \/ GetQueues(c, a)
  BY DEF Logon
<1>2. CASE LogonOnPreset(c, a)
  BY <1>2 DEF LogonOnPreset, sessionVars, IInv, TypeOK
<1>3. CASE GetNow(c, a)
  BY <1>3, GetLockedSeen DEF GetNow
<1>4. CASE GetQueues(c, a)
  BY <1>4 DEF GetQueues, sessionVars, IInv, TypeOK
<1> QED
  BY <1>1, <1>2, <1>3, <1>4

\* What it sees of a connection that got the lock.
LEMMA ResumesSeen ==
  ASSUME IInv, NEW c \in Conns, ConnResumes(c)
  PROVE  /\ phase[c] \in {"queued", "starting"} /\ phase'[c] \notin {"idle", "queued"}
         /\ \A d \in Conns : d # c => phase'[d] = phase[d] /\ modern'[d] = modern[d]
         /\ UNCHANGED <<preset, closed>> /\ ready'[BootSession] = ready[BootSession]
         /\ \/ waiters' = waiters
            \/ waiters # <<>> /\ Head(waiters) = c /\ waiters' = Tail(waiters)
<1> USE Names
<1>1. CASE GetResumes(c)
  <2>1. account[c] \in Accounts /\ GetLocked(c, account[c])
    BY <1>1 DEF GetResumes, IInv, PhaseInv
  <2> QED
    BY <1>1, <2>1, GetLockedSeen DEF GetResumes, IsNext
<1>2. CASE StartReturns(c) \/ StartRaises(c)
  BY <1>2 DEF StartReturns, StartRaises, Answer, IsReady, sessionVars, IInv, TypeOK
<1> QED
  BY <1>1, <1>2 DEF ConnResumes

-------------------------------------------------------------------------------
(***************************************************************************)
(* The boot.                                                               *)
(***************************************************************************)

\* Before the boot.
LEMMA InitGInv == GatewayInit => GInv
<1> SUFFICES ASSUME GatewayInit PROVE GInv
  OBVIOUS
<1>1. IInv
  BY InitInv DEF GatewayInit
<1>2. GatewayTypeOK
  <2>1. stage \in Stages /\ signalled \in BOOLEAN /\ waits \in BOOLEAN
        /\ link \in [Conns -> Links]
    BY DEF GatewayInit, Stages, Links
  <2> QED
    BY <1>1, <2>1 DEF GatewayTypeOK, IInv
<1>3. ProcessInv
  BY Names DEF GatewayInit, Init, ProcessInv, Running
<1>4. StopInv
  BY EmptyQueue DEF GatewayInit, Init, StopInv
<1> QED
  BY <1>1, <1>2, <1>3, <1>4 DEF GInv

\* Before the listeners are up nobody has asked for anything.
LEMMA BeforeService ==
  ASSUME GInv, stage \in {"boot", "starting"}
  PROVE  /\ ~closed /\ ~In(waiters, Closer) /\ preset = None
         /\ \A c \in Conns : link[c] = "none" /\ phase[c] = "idle"
         /\ \A a \in Accounts : pool[a] = None
<1>1. ~closed /\ ~In(waiters, Closer) /\ preset = None
  BY DEF GInv, StopInv, ProcessInv
<1>2. \A c \in Conns : link[c] = "none" /\ phase[c] = "idle"
  BY DEF GInv, ProcessInv, Running
<1>3. \A a \in Accounts : pool[a] = None
  BY <1>2 DEF GInv, IInv, TypeOK, PhaseInv, PoolInv
<1> QED
  BY <1>1, <1>2, <1>3

\* The factory gets its preset, and the services bind their ports.
LEMMA ListenKeeps ==
  ASSUME GInv, stage \in {"boot", "starting"}, NEW p \in {None, BootSession}, Listen(p),
         p = None => ready[BootSession] \in {"unset", "exception"},
         p # None => ready[p] = "result"
  PROVE  GInv'
<1>0. /\ preset' = p /\ stage' \in {"serving", "crashed"}
      /\ UNCHANGED <<sessionVars, pool, lock, waiters, phase, account, modern, closed,
                     signalled, waits, link>>
  BY DEF Listen
<1>1. SessionTypeOK' /\ SessionInv'
  BY <1>0, SessionsUntouched DEF GInv
<1>2. TypeOK'
  BY <1>0, <1>1 DEF GInv, IInv, TypeOK
<1>3. LockInv' /\ PhaseInv' /\ PoolInv'
  BY <1>0 DEF GInv, IInv, LockInv, PhaseInv, PoolInv, sessionVars
<1>4. RideInv'
  BY <1>0, BeforeService DEF RideInv, sessionVars
<1>5. GatewayTypeOK'
  BY <1>0, <1>2 DEF GInv, GatewayTypeOK, Stages
<1>6. ProcessInv'
  BY <1>0, BeforeService DEF ProcessInv, Running, sessionVars
<1>7. StopInv'
  BY <1>0, BeforeService DEF GInv, StopInv
<1> QED
  BY <1>1, <1>2, <1>3, <1>4, <1>5, <1>6, <1>7 DEF GInv, IInv

\* The boot session starts, or fails.
LEMMA BootKeeps ==
  ASSUME GInv, Boot
  PROVE  GInv'
<1>1. CASE BootMultiUser
  <2>1. stage = "boot" /\ Listen(None) /\ ready[BootSession] = "unset"
    BY <1>1 DEF BootMultiUser, GInv, ProcessInv
  <2> QED
    BY <2>1, ListenKeeps
<1>2. CASE BootConfigured
  <2>1. /\ stage = "boot" /\ stage' = "starting" /\ StartSession(BootSession)
        /\ UNCHANGED <<preset, pool, lock, waiters, phase, account, modern, closed>>
        /\ UNCHANGED <<signalled, waits, link>>
    BY <1>2 DEF BootConfigured, poolVars
  <2>2. /\ ready' \in [Sessions -> ReadyStates] /\ thread' \in [Sessions -> ThreadStates]
        /\ UNCHANGED <<posted, loggedOn, stopped>>
    BY <2>1, Names DEF StartSession, GInv, IInv, TypeOK, SessionTypeOK, ReadyStates,
                       ThreadStates
  <2>3. /\ ready'[BootSession] = "pending"
        /\ \A t \in Sessions : t # BootSession => ready'[t] = ready[t] /\ thread'[t] = thread[t]
    BY <2>1, Names DEF StartSession, GInv, IInv, TypeOK, SessionTypeOK
  <2>4. SessionTypeOK'
    BY <2>2 DEF GInv, IInv, TypeOK, SessionTypeOK
  <2>5. SessionInv'
    BY <2>2, <2>3 DEF GInv, IInv, SessionInv
  <2>6. \A c \in Conns : ready'[c] = ready[c]
    BY <2>3, Names
  <2>7. TypeOK'
    BY <2>1, <2>4 DEF GInv, IInv, TypeOK
  <2>8. LockInv' /\ PhaseInv' /\ PoolInv'
    BY <2>1, <2>6, BeforeService, Names DEF GInv, IInv, LockInv, PhaseInv, PoolInv
  <2>9. RideInv'
    BY <2>1, BeforeService DEF RideInv
  <2>10. GatewayTypeOK'
    BY <2>1, <2>7 DEF GInv, GatewayTypeOK, Stages
  <2>11. ProcessInv'
    BY <2>1, BeforeService DEF ProcessInv, Running
  <2>12. StopInv'
    BY <2>1, BeforeService DEF GInv, StopInv
  <2> QED
    BY <2>5, <2>7, <2>8, <2>9, <2>10, <2>11, <2>12 DEF GInv, IInv
<1>3. CASE BootPromptRaises
  <2>1. stage = "boot" /\ stage' = "crashed" /\ UNCHANGED <<vars, signalled, waits, link>>
    BY <1>3 DEF BootPromptRaises
  <2>2. UNCHANGED <<sessionVars, preset, pool, lock, waiters, phase, account, modern, closed>>
    BY <2>1 DEF vars, poolVars
  <2>3. IInv'
    BY <2>2 DEF GInv, IInv, TypeOK, SessionTypeOK, SessionInv, LockInv, PhaseInv, PoolInv,
                RideInv, sessionVars
  <2>4. GatewayTypeOK'
    BY <2>1, <2>3 DEF IInv, GInv, GatewayTypeOK, Stages
  <2>5. ProcessInv'
    BY <2>1, <2>2, BeforeService DEF ProcessInv, Running
  <2>6. StopInv'
    BY <2>1, <2>2, BeforeService DEF GInv, StopInv
  <2> QED
    BY <2>3, <2>4, <2>5, <2>6 DEF GInv
<1>4. CASE BootStarted
  BY <1>4, ListenKeeps, Names DEF BootStarted
<1>5. CASE BootFailed
  BY <1>5, ListenKeeps DEF BootFailed
<1> QED
  BY <1>1, <1>2, <1>3, <1>4, <1>5 DEF Boot

-------------------------------------------------------------------------------
(***************************************************************************)
(* The connections.                                                        *)
(***************************************************************************)

\* Nothing of the factory changes.
LEMMA FactorySame == GInv /\ UNCHANGED vars => IInv'
BY DEF GInv, IInv, TypeOK, SessionTypeOK, SessionInv, LockInv, PhaseInv, PoolInv, RideInv,
       vars, sessionVars, poolVars

\* A connection comes in.
LEMMA AcceptKeeps ==
  ASSUME GInv, NEW c \in Conns, Accept(c)
  PROVE  GInv'
<1>1. /\ stage = "serving" /\ link[c] = "none" /\ link' = [link EXCEPT ![c] = "open"]
      /\ modern' = [modern EXCEPT ![c] = preset]
      /\ UNCHANGED <<sessionVars, preset, pool, lock, waiters, phase, account, closed>>
      /\ UNCHANGED <<stage, signalled, waits>>
  BY DEF Accept, SetLink
<1>2. phase[c] = "idle"
  BY <1>1 DEF GInv, ProcessInv
<1>3. SessionTypeOK' /\ SessionInv'
  BY <1>1, SessionsUntouched DEF GInv
<1>4. TypeOK'
  BY <1>1, <1>3, Names DEF GInv, IInv, TypeOK
<1>5. LockInv' /\ PhaseInv' /\ PoolInv'
  BY <1>1 DEF GInv, IInv, LockInv, PhaseInv, PoolInv, sessionVars
<1>6. RideInv'
  BY <1>1, <1>2 DEF GInv, IInv, TypeOK, RideInv, sessionVars
<1>7. GatewayTypeOK'
  <2>1. link' \in [Conns -> Links]
    BY <1>1 DEF GInv, GatewayTypeOK, Links
  <2> QED
    BY <1>1, <1>4, <2>1 DEF GInv, GatewayTypeOK
<1>8. ProcessInv'
  <2>1. /\ link'[c] = "open" /\ modern'[c] = preset
        /\ \A d \in Conns : d # c => link'[d] = link[d] /\ modern'[d] = modern[d]
    BY <1>1 DEF GInv, GatewayTypeOK, TypeOK
  <2> QED
    BY <1>1, <2>1 DEF GInv, ProcessInv, Running, sessionVars
<1>9. StopInv'
  BY <1>1, Names DEF GInv, StopInv, sessionVars
<1> QED
  BY <1>3, <1>4, <1>5, <1>6, <1>7, <1>8, <1>9 DEF GInv, IInv

\* A connection changes hands, and never back to being attached.
LEMMA LinkKeeps ==
  ASSUME GInv, NEW c \in Conns, NEW from, NEW to \in Links,
         SetLink(c, from, to), UNCHANGED vars, "none" \notin from, to # "none",
         to \in {"open", "left"} => from \subseteq {"open", "left"}
  PROVE  GInv'
<1>1. /\ link[c] \in from /\ link' = [link EXCEPT ![c] = to]
      /\ UNCHANGED <<stage, signalled, waits>>
  BY DEF SetLink
<1>2. UNCHANGED <<sessionVars, preset, pool, lock, waiters, phase, account, modern, closed>>
  BY DEF vars, poolVars
<1>3. IInv'
  BY FactorySame
<1>4. /\ link' \in [Conns -> Links] /\ link'[c] = to
      /\ \A d \in Conns : d # c => link'[d] = link[d]
  BY <1>1 DEF GInv, GatewayTypeOK
<1>5. GatewayTypeOK'
  BY <1>1, <1>3, <1>4 DEF GInv, GatewayTypeOK, IInv
<1>6. ProcessInv'
  <2>1. \A d \in Conns : link'[d] # "none" <=> link[d] # "none"
    BY <1>1, <1>4
  <2> QED
    BY <1>1, <1>2, <2>1 DEF GInv, ProcessInv, sessionVars
<1>7. StopInv'
  <2>1. \A d \in Conns : Attached(d)' => Attached(d)
    BY <1>1, <1>4 DEF Attached
  <2> QED
    BY <1>1, <1>2, <2>1 DEF GInv, StopInv, sessionVars
<1> QED
  BY <1>3, <1>5, <1>6, <1>7 DEF GInv

\* A connection's log-on is read.
LEMMA ReadsLogonKeeps ==
  ASSUME GInv, NEW c \in Conns, ReadsLogon(c)
  PROVE  GInv'
<1>1. /\ link[c] \in {"open", "left"} /\ Logon(c) /\ Up
      /\ UNCHANGED <<stage, signalled, waits, link>>
  BY DEF ReadsLogon, processVars
<1>2. /\ phase[c] = "idle" /\ phase'[c] # "idle"
      /\ \A d \in Conns : d # c => phase'[d] = phase[d] /\ modern'[d] = modern[d]
      /\ UNCHANGED <<preset, pool, closed>> /\ ready'[BootSession] = ready[BootSession]
      /\ preset # None => phase'[c] \notin {"queued", "starting"}
      /\ \/ waiters' = waiters /\ phase'[c] # "queued"
         \/ waiters' = Append(waiters, c)
  BY <1>1, LogonSeen DEF GInv
<1>3. IInv'
  <2>1. modern[c] = preset
    BY <1>1, <1>2 DEF GInv, ProcessInv
  <2> QED
    BY <1>1, <2>1, LogonKeeps DEF GInv
<1>4. GatewayTypeOK'
  BY <1>1, <1>3 DEF GInv, GatewayTypeOK, IInv
<1>5. ProcessInv'
  BY <1>1, <1>2 DEF GInv, ProcessInv
<1>6. StopInv'
  <2>1. ~(waits /\ stage \in {"stopping", "exited"})
    BY <1>1 DEF GInv, StopInv, Attached
  <2>2. ~(waits /\ (closed \/ In(waiters, Closer)))
    BY <2>1 DEF GInv, StopInv
  <2>3. waiters \in Seq(Tasks) /\ c \in Tasks /\ c # Closer
    BY FactoryAssumption DEF GInv, IInv, TypeOK, Tasks
  <2>4. /\ \A t : In(waiters', t) <=> In(waiters, t) \/ (t = c /\ waiters' # waiters)
                                        \/ (t = c /\ In(waiters', c))
        /\ waits => OnlyLast(waiters', Closer)
        /\ waiters' = Append(waiters, c) => In(waiters', c)
    <3>1. CASE waiters' = waiters
      <4>1. waiters' = Append(waiters, c) => In(waiters', c)
        BY <2>3, PutInQueue
      <4> QED
        BY <3>1, <4>1 DEF GInv, StopInv
    <3>2. CASE waiters' = Append(waiters, c)
      BY <2>2, <2>3, <3>2, PutInQueue
    <3> QED
      BY <1>2, <3>1, <3>2
  <2>5. In(waiters', Closer) => In(waiters, Closer)
    BY <2>3, <2>4
  <2>6. \A d \in Conns : phase'[d] = "queued" => In(waiters', d)
    BY <1>2, <2>4 DEF GInv, StopInv
  <2>7. ~(waits /\ closed) /\ (closed \/ In(waiters, Closer) => stage \in {"stopping", "exited"})
        /\ (stage = "exited" => closed)
    BY <2>2 DEF GInv, StopInv
  <2>8. waits' /\ stage' \in {"stopping", "exited"} => \A d \in Conns : ~Attached(d)'
    BY <1>1, <2>1
  <2> QED
    BY <1>1, <1>2, <2>4, <2>5, <2>6, <2>7, <2>8 DEF StopInv
<1> QED
  BY <1>3, <1>4, <1>5, <1>6 DEF GInv

\* A connection that waited goes on.
LEMMA ResumesKeeps ==
  ASSUME GInv, NEW c \in Conns, Resumes(c)
  PROVE  GInv'
<1>1. /\ Up /\ ConnResumes(c) /\ UNCHANGED <<stage, signalled, waits, link>>
  BY DEF Resumes, processVars
<1>2. /\ phase[c] \in {"queued", "starting"} /\ phase'[c] \notin {"idle", "queued"}
      /\ \A d \in Conns : d # c => phase'[d] = phase[d] /\ modern'[d] = modern[d]
      /\ UNCHANGED <<preset, closed>> /\ ready'[BootSession] = ready[BootSession]
      /\ \/ waiters' = waiters
         \/ waiters # <<>> /\ Head(waiters) = c /\ waiters' = Tail(waiters)
  BY <1>1, ResumesSeen DEF GInv
<1>3. IInv'
  BY <1>1, ConnResumesKeeps DEF GInv
<1>4. GatewayTypeOK'
  BY <1>1, <1>3 DEF GInv, GatewayTypeOK, IInv
<1>5. preset = None /\ link[c] # "none"
  BY <1>2 DEF GInv, ProcessInv
<1>6. ProcessInv'
  BY <1>1, <1>2, <1>5 DEF GInv, ProcessInv
<1>7. StopInv'
  <2>1. ~(waits /\ closed)
    <3>1. ASSUME waits, closed PROVE FALSE
      <4>1. lock = None /\ ~In(waiters, c)
        BY <3>1, EmptyQueue DEF GInv, StopInv
      <4> QED
        BY <1>2, <4>1, Names DEF GInv, StopInv, IInv, LockInv
    <3> QED
      BY <3>1
  <2>2. /\ \A t : In(waiters', t) => In(waiters, t)
        /\ \A t : In(waiters, t) /\ t # c => In(waiters', t)
        /\ waits => OnlyLast(waiters', Closer)
    BY <1>2, TakeFromQueue DEF GInv, StopInv, IInv, TypeOK
  <2>3. \A d \in Conns : phase'[d] = "queued" => In(waiters', d)
    BY <1>2, <2>2 DEF GInv, StopInv
  <2> QED
    BY <1>1, <1>2, <2>1, <2>2, <2>3 DEF GInv, StopInv, Attached
<1> QED
  BY <1>3, <1>4, <1>6, <1>7 DEF GInv

\* A session is ready, or dies.
LEMMA SessionRunsKeeps ==
  ASSUME GInv, NEW s \in Sessions, SessionRuns(SessionStep(s))
  PROVE  GInv'
<1>1. InSession(SessionStep(s)) /\ UNCHANGED <<stage, signalled, waits, link>>
  BY DEF SessionRuns, processVars
<1>2. IInv'
  BY <1>1, SessionStepKeeps DEF GInv
<1>3. Resolves /\ stopped' = stopped
      /\ UNCHANGED <<preset, pool, lock, waiters, phase, account, modern, closed>>
  <2>1. Resolves /\ UNCHANGED poolVars
    BY <1>1, RunCallbackKeeps, ThreadKeeps DEF GInv, IInv, InSession, SessionStep
  <2>2. stopped' = stopped
    BY <1>1 DEF InSession, SessionStep, RunCallback, ThreadStep, ImportFails, ImportSucceeds,
                HandlerMissing, HandlersRegistered, LoggedOn, LoginReturns, LoginRaises,
                ThreadExits
  <2> QED
    BY <2>1, <2>2 DEF poolVars
<1>4. GatewayTypeOK'
  BY <1>1, <1>2 DEF GInv, GatewayTypeOK, IInv
<1>5. \A t \in Sessions : /\ ready[t] \in {"unset", "exception"} => ready'[t] = ready[t]
                          /\ ready'[t] \in {"pending", "result"} => ready[t] \in {"pending", "result"}
  BY <1>3 DEF Resolves, Outcomes
<1>6. ProcessInv'
  BY <1>1, <1>3, <1>5, Names DEF GInv, ProcessInv
<1>7. StopInv'
  BY <1>1, <1>3, <1>5 DEF GInv, StopInv, Attached
<1> QED
  BY <1>2, <1>4, <1>6, <1>7 DEF GInv

-------------------------------------------------------------------------------
(***************************************************************************)
(* The shutdown.                                                           *)
(***************************************************************************)

\* A step of the process alone.
LEMMA StageKeeps ==
  ASSUME GInv, UNCHANGED vars, link' = link, Signal \/ CloseListeners \/ WaitClosed \/ Exit
  PROVE  GInv'
<1>1. UNCHANGED <<sessionVars, preset, pool, lock, waiters, phase, account, modern, closed>>
  BY DEF vars, poolVars
<1>2. IInv'
  BY FactorySame
<1>3. /\ stage' \in Stages /\ signalled' \in BOOLEAN /\ waits' \in BOOLEAN
      /\ stage \in {"boot", "starting"} => stage' = stage
      /\ stage' \in Running <=> stage \in Running
  BY DEF Signal, CloseListeners, WaitClosed, Exit, GoTo, GInv, GatewayTypeOK, Stages, Running
<1>4. GatewayTypeOK'
  BY <1>2, <1>3 DEF GInv, GatewayTypeOK, IInv
<1>5. stage' \in {"boot", "starting"} => stage' = stage
  BY DEF Signal, CloseListeners, WaitClosed, Exit, GoTo
<1>6. ProcessInv'
  BY <1>1, <1>3, <1>5 DEF GInv, ProcessInv, sessionVars
<1>7. StopInv'
  <2>1. CASE Signal
    BY <1>1, <2>1 DEF Signal, GInv, StopInv, Attached, sessionVars
  <2>2. CASE CloseListeners
    <3>1. stage = "serving" /\ stage' = "closing" /\ ~closed /\ ~In(waiters, Closer)
      BY <2>2 DEF CloseListeners, GInv, StopInv
    <3>2. OnlyLast(waiters, Closer)
      BY <3>1 DEF In, OnlyLast
    <3> QED
      BY <1>1, <3>1, <3>2 DEF GInv, StopInv
  <2>3. CASE WaitClosed
    BY <1>1, <2>3 DEF WaitClosed, GoTo, GInv, StopInv, Attached, sessionVars
  <2>4. CASE Exit
    BY <1>1, <2>4 DEF Exit, GoTo, GInv, StopInv, Attached, sessionVars
  <2> QED
    BY <2>1, <2>2, <2>3, <2>4
<1> QED
  BY <1>2, <1>4, <1>6, <1>7 DEF GInv

\* The shutdown is in ModernSessionFactory.close().
LEMMA CloseFactoryKeeps ==
  ASSUME GInv, CloseFactory
  PROVE  GInv'
<1>1. stage = "stopping" /\ Close /\ UNCHANGED <<stage, signalled, waits, link>>
  BY DEF CloseFactory, processVars
<1>2. IInv'
  BY <1>1, CloseKeeps DEF GInv
<1>3. UNCHANGED <<ready, thread, posted, loggedOn, preset, pool, lock, phase, account, modern>>
  BY <1>1 DEF Close, CloseNow, CloseQueues, CloseResumes, StopAll, sessionVars
<1>4. GatewayTypeOK'
  BY <1>1, <1>2 DEF GInv, GatewayTypeOK, IInv
<1>5. ProcessInv'
  BY <1>1, <1>3 DEF GInv, ProcessInv
<1>6. StopInv'
  <2> DEFINE AllStopped == \A s \in Sessions : ready[s] \in {"pending", "result"} => stopped'[s]
  <2>0. /\ waiters \in Seq(Tasks) /\ Closer \in Tasks
        /\ \A c \in Conns : c # Closer
    BY FactoryAssumption DEF GInv, IInv, TypeOK, Tasks
  <2>1. StopAll /\ lock = None => AllStopped
    <3> SUFFICES ASSUME StopAll, lock = None, NEW s \in Sessions,
                        ready[s] \in {"pending", "result"}
                 PROVE  stopped'[s]
      OBVIOUS
    <3>1. CASE s = BootSession
      <4>1. preset = s
        BY <1>1, <3>1 DEF GInv, ProcessInv, Running, IInv, TypeOK
      <4> QED
        BY <4>1 DEF StopAll
    <3>2. CASE s \in Conns
      <4>1. phase[s] # "starting"
        BY <3>2, Names DEF GInv, IInv, LockInv
      <4>2. ready[s] = "result" /\ pool[account[s]] = s /\ account[s] \in Accounts
        BY <3>2, <4>1 DEF GInv, IInv, PhaseInv, PoolInv, TypeOK, Phases
      <4>3. s \in Pooled
        BY <3>2, <4>2, Names DEF Pooled
      <4> QED
        BY <4>3 DEF StopAll
    <3> QED
      BY <3>1, <3>2, FactoryAssumption
  <2>2. CASE CloseNow
    <3>1. lock = None /\ waiters = <<>> /\ waiters' = waiters /\ StopAll /\ closed'
      BY <2>2 DEF CloseNow, LockIsFree, StopAll
    <3> QED
      BY <1>1, <1>3, <2>1, <3>1 DEF GInv, StopInv, Attached
  <2>3. CASE CloseQueues
    <3>1. ~closed /\ ~In(waiters, Closer) /\ waiters' = Append(waiters, Closer)
          /\ closed' = closed
      BY <2>3 DEF CloseQueues, CloserWaits, In
    <3>2. /\ \A t : In(waiters, t) => In(waiters', t)
          /\ OnlyLast(waiters', Closer)
      BY <2>0, <3>1, PutInQueue
    <3> QED
      BY <1>1, <1>3, <3>1, <3>2 DEF GInv, StopInv, Attached
  <2>4. CASE CloseResumes
    <3>1. lock = None /\ waiters # <<>> /\ Head(waiters) = Closer /\ waiters' = Tail(waiters)
          /\ StopAll /\ closed'
      BY <2>4 DEF CloseResumes, IsNext, StopAll
    <3>2. /\ \A t : In(waiters, t) /\ t # Closer => In(waiters', t)
          /\ waits => OnlyLast(waiters', Closer) /\ waiters' = <<>>
      BY <2>0, <3>1, TakeFromQueue DEF GInv, StopInv
    <3> QED
      BY <1>1, <1>3, <2>0, <2>1, <3>1, <3>2 DEF GInv, StopInv, Attached
  <2> QED
    BY <1>1, <2>2, <2>3, <2>4 DEF Close
<1> QED
  BY <1>2, <1>4, <1>5, <1>6 DEF GInv

-------------------------------------------------------------------------------

\* Every action, by its lemma.
LEMMA GatewayKeeps == GInv /\ [GatewayNext]_gatewayVars => GInv'
<1> SUFFICES ASSUME GInv, [GatewayNext]_gatewayVars PROVE GInv'
  OBVIOUS
<1>1. CASE ProcessStep
  <2>1. CASE CloseListeners \/ WaitClosed \/ Exit
    <3>1. UNCHANGED vars /\ link' = link
      BY <2>1 DEF CloseListeners, WaitClosed, Exit, GoTo
    <3> QED
      BY <2>1, <3>1, StageKeeps
  <2> QED
    BY <1>1, <2>1, BootKeeps, CloseFactoryKeeps DEF ProcessStep
<1>2. ASSUME NEW c \in Conns, ClientLeaves(c) \/ ClientResets(c) \/ ReadLoopEnds(c)
      PROVE  GInv'
  <2>1. CASE ClientLeaves(c)
    <3>1. SetLink(c, {"open"}, "left") /\ UNCHANGED vars
      BY <2>1 DEF ClientLeaves
    <3> QED
      BY <3>1, LinkKeeps DEF Links
  <2>2. CASE ClientResets(c)
    <3>1. SetLink(c, {"open", "left"}, "lost") /\ UNCHANGED vars
      BY <2>2 DEF ClientResets
    <3> QED
      BY <3>1, LinkKeeps DEF Links
  <2>3. CASE ReadLoopEnds(c)
    <3>1. SetLink(c, {"open", "left", "lost"}, "ended") /\ UNCHANGED vars
      BY <2>3 DEF ReadLoopEnds
    <3> QED
      BY <3>1, LinkKeeps DEF Links
  <2> QED
    BY <1>2, <2>1, <2>2, <2>3
<1>3. ASSUME NEW c \in Conns, Accept(c) \/ ReadsLogon(c) \/ Resumes(c)
      PROVE  GInv'
  BY <1>3, AcceptKeeps, ReadsLogonKeeps, ResumesKeeps
<1>4. ASSUME NEW s \in Sessions, SessionRuns(SessionStep(s))
      PROVE  GInv'
  BY <1>4, SessionRunsKeeps
<1>5. CASE Signal
  <2>1. UNCHANGED vars /\ link' = link
    BY <1>5 DEF Signal
  <2> QED
    BY <1>5, <2>1, StageKeeps
<1>6. CASE UNCHANGED gatewayVars
  <2>1. UNCHANGED vars /\ UNCHANGED <<stage, signalled, waits, link>>
    BY <1>6 DEF gatewayVars, processVars
  <2>2. UNCHANGED <<sessionVars, preset, pool, lock, waiters, phase, account, modern, closed>>
    BY <2>1 DEF vars, poolVars
  <2>3. IInv'
    BY <2>1, FactorySame
  <2> QED
    BY <2>1, <2>2, <2>3
       DEF GInv, IInv, GatewayTypeOK, ProcessInv, StopInv, Attached, sessionVars
<1> QED
  BY <1>1, <1>2, <1>3, <1>4, <1>5, <1>6 DEF GatewayNext

\* The factory's invariant and what the process adds to it, in every state.
THEOREM GatewayInvariance == GatewaySpec => []GInv
BY InitGInv, GatewayKeeps, PTL DEF GatewaySpec

\* Every variable of the process and of its factory keeps its type.
THEOREM GatewayTypesHold == GatewaySpec => []GatewayTypeOK
<1>1. GInv => GatewayTypeOK
  BY DEF GInv
<1> QED
  BY <1>1, GatewayInvariance, PTL

\* At an orderly exit of _run_services every session that is ready or being started
\* has been told to stop, whatever logons raced with the shutdown, if wait_closed()
\* waited for the connections: then nobody queues behind close() on the factory's lock.
THEOREM ExitStopsInUse == GatewaySpec => []ExitStopsSessions
<1>1. GInv => ExitStopsSessions
  BY DEF GInv, StopInv, ExitStopsSessions
<1> QED
  BY <1>1, GatewayInvariance, PTL

\* With a configured account that booted, every other account's logon is refused,
\* however its connections come and go (the preset in _on_ClientLogon).
THEOREM OthersRefused == GatewaySpec => []OthersOnlyAfterFailedBoot
<1>1. GInv => OthersOnlyAfterFailedBoot
  <2> SUFFICES ASSUME GInv, NEW c \in Conns, phase[c] = "active", account[c] # BootAccount
               PROVE  ready[BootSession] \in {"unset", "exception"}
    BY DEF OthersOnlyAfterFailedBoot
  <2>1. stage \in Running /\ account[c] \in Accounts
    BY DEF GInv, ProcessInv, IInv, PhaseInv
  <2>2. preset = None
    BY <2>1 DEF GInv, ProcessInv, IInv, RideInv
  <2> QED
    BY <2>1, <2>2 DEF GInv, ProcessInv
<1> QED
  BY <1>1, GatewayInvariance, PTL
-------------------------------------------------------------------------------
(***************************************************************************)
(* What the factory promises, in the whole process.                        *)
(***************************************************************************)

\* A step of the process is one of the factory, or gives it its preset, or starts
\* the session that may become the preset, or lets a connection in.
LEMMA StepKinds ==
  ASSUME [GatewayNext]_gatewayVars
  PROVE  \/ [Next]_vars
         \/ BootConfigured
         \/ \E p \in {None, BootSession} : stage \in {"boot", "starting"} /\ Listen(p)
         \/ \E c \in Conns : Accept(c)
<1>1. CASE ProcessStep
  <2>1. CloseListeners \/ WaitClosed \/ Exit \/ BootPromptRaises => UNCHANGED vars
    BY DEF CloseListeners, WaitClosed, Exit, BootPromptRaises, GoTo
  <2>2. CloseFactory => Next
    BY DEF CloseFactory, Next
  <2> QED
    BY <1>1, <2>1, <2>2 DEF ProcessStep, Boot, BootMultiUser, BootStarted, BootFailed
<1>2. ASSUME NEW c \in Conns, ClientLeaves(c) \/ ClientResets(c) \/ ReadLoopEnds(c) \/ Signal
      PROVE  UNCHANGED vars
  BY <1>2 DEF ClientLeaves, ClientResets, ReadLoopEnds, Signal
<1>3. ASSUME NEW c \in Conns, ReadsLogon(c) \/ Resumes(c) PROVE Next
  BY <1>3 DEF ReadsLogon, Resumes, Next
<1>4. ASSUME NEW s \in Sessions, SessionRuns(SessionStep(s)) PROVE Next
  BY <1>4 DEF SessionRuns, Next
<1>5. Signal => UNCHANGED vars
  BY DEF Signal
<1>6. UNCHANGED gatewayVars => UNCHANGED vars
  BY DEF gatewayVars
<1> QED
  BY <1>1, <1>2, <1>3, <1>4, <1>5, <1>6 DEF GatewayNext

\* What the boot and a new connection leave of the factory.
LEMMA OutsideFactory ==
  ASSUME GInv,
         \/ BootConfigured
         \/ \E p \in {None, BootSession} : stage \in {"boot", "starting"} /\ Listen(p)
         \/ \E c \in Conns : Accept(c)
  PROVE  /\ UNCHANGED <<pool, lock, waiters, phase, closed, account, posted, loggedOn>>
         /\ \A c \in Conns : ready'[c] = ready[c] /\ (phase[c] # "idle" => modern'[c] = modern[c])
         /\ \A s \in Sessions : ready'[s] # ready[s] => s = BootSession /\ ready[s] = "unset"
<1> USE Names
<1>1. CASE BootConfigured
  <2>1. UNCHANGED <<pool, lock, waiters, phase, closed, account, modern, posted, loggedOn>>
        /\ ready' = [ready EXCEPT ![BootSession] = "pending"]
    BY <1>1 DEF BootConfigured, StartSession, poolVars
  <2>2. ready[BootSession] = "unset"
    BY <1>1 DEF BootConfigured, GInv, ProcessInv
  <2> QED
    BY <2>1, <2>2 DEF GInv, IInv, TypeOK, SessionTypeOK
<1>2. CASE \E p \in {None, BootSession} : stage \in {"boot", "starting"} /\ Listen(p)
  BY <1>2 DEF Listen, sessionVars
<1>3. CASE \E c \in Conns : Accept(c)
  <2>1. PICK c \in Conns : Accept(c)
    BY <1>3
  <2>2. /\ UNCHANGED <<sessionVars, pool, lock, waiters, phase, closed, account>>
        /\ modern' = [modern EXCEPT ![c] = preset] /\ phase[c] = "idle"
    BY <2>1 DEF Accept, SetLink, GInv, ProcessInv
  <2> QED
    BY <2>2 DEF sessionVars, GInv, IInv, TypeOK
<1> QED
  BY <1>1, <1>2, <1>3

\* In the whole process, too, there is one login per account, every connection rides
\* on its own account's session, and neither the pool nor is_ready() lies.
THEOREM FactoryIsSafe ==
  GatewaySpec => [](/\ OneLoginPerAccount
                    /\ RidesOwnAccount
                    /\ PoolHoldsReadySessions
                    /\ ReadyMeansLoggedOn)
<1>1. GInv => /\ OneLoginPerAccount
              /\ RidesOwnAccount
              /\ PoolHoldsReadySessions
              /\ ReadyMeansLoggedOn
  BY OneLoginNow, RidesNow, PoolNow, ReadyNow DEF GInv
<1> QED
  BY <1>1, GatewayInvariance, PTL

\* The boot loses no login, either.
THEOREM ProcessLosesNoLogon == GatewaySpec => []LogonNotLost
<1>1. GatewayInit => LogonNotLost
  BY LogonInit DEF GatewayInit
<1>2. LogonNotLost /\ GInv /\ [GatewayNext]_gatewayVars => LogonNotLost'
  <2> SUFFICES ASSUME LogonNotLost, GInv, [GatewayNext]_gatewayVars PROVE LogonNotLost'
    OBVIOUS
  <2>1. CASE [Next]_vars
    BY <2>1, LogonStep DEF GInv
  <2>2. CASE ~[Next]_vars
    <3>1. /\ UNCHANGED <<posted, loggedOn>>
          /\ \A s \in Sessions : ready'[s] # ready[s] => ready[s] = "unset"
      BY <2>2, StepKinds, OutsideFactory
    <3> QED
      BY <3>1 DEF LogonNotLost, Done, Outcomes
  <2> QED
    BY <2>1, <2>2
<1> QED
  BY <1>1, <1>2, GatewayInvariance, PTL DEF GatewaySpec

\* Nor does it replace what is cached, or change a future that is done.
THEOREM ProcessUndoesNothing == GatewaySpec => CachedForGood /\ FirstOutcomeWins
<1>1. GInv /\ [GatewayNext]_gatewayVars =>
        /\ [\A a \in Accounts : pool[a] # None => pool'[a] = pool[a]]_vars
        /\ [\A s \in Sessions : Done(s) => ready'[s] = ready[s]]_sessionVars
  <2> SUFFICES ASSUME GInv, [GatewayNext]_gatewayVars
               PROVE  /\ [\A a \in Accounts : pool[a] # None => pool'[a] = pool[a]]_vars
                      /\ [\A s \in Sessions : Done(s) => ready'[s] = ready[s]]_sessionVars
    OBVIOUS
  <2>1. CASE [Next]_vars
    BY <2>1, CachedStep, FirstStep DEF GInv
  <2>2. CASE ~[Next]_vars
    <3>1. /\ pool' = pool
          /\ \A s \in Sessions : ready'[s] # ready[s] => ready[s] = "unset"
      BY <2>2, StepKinds, OutsideFactory
    <3> QED
      BY <3>1 DEF Done, Outcomes
  <2> QED
    BY <2>1, <2>2
<1> QED
  BY <1>1, GatewayInvariance, PTL DEF GatewaySpec, CachedForGood, FirstOutcomeWins

\* And its lock, at every stage of the process, is somebody's to take or to give up:
\* a log-on behind a hanging login, and the shutdown behind it, wait for that login
\* alone.
THEOREM ProcessLockMoves == GatewaySpec => []LockHandedOn
<1>1. GatewayInit => QueueInv
  BY QueueInit DEF GatewayInit
<1>2. QueueInv /\ GInv /\ [GatewayNext]_gatewayVars => QueueInv'
  <2> SUFFICES ASSUME QueueInv, GInv, [GatewayNext]_gatewayVars PROVE QueueInv'
    OBVIOUS
  <2>1. CASE [Next]_vars
    BY <2>1, QueueStep DEF GInv
  <2>2. CASE ~[Next]_vars
    BY <2>2, StepKinds, OutsideFactory DEF QueueInv
  <2> QED
    BY <2>1, <2>2
<1>3. GInv /\ QueueInv => LockHandedOn
  BY QueueNow DEF GInv
<1> QED
  BY <1>1, <1>2, <1>3, GatewayInvariance, PTL DEF GatewaySpec

\* The process decides late what SessionPool knows from the start: whether there is a
\* preset.  Nobody has asked for anything when it does.
Configured ==
  /\ preset = None /\ preset' = BootSession
  /\ used = {}
  /\ UNCHANGED <<pool, attempt, used, riding>>

ProcessKeepsPromise == Pool!Init /\ [][Pool!Next \/ Configured]_(Pool!poolVars)

\* The whole process implements the pool: with connections that come and go, a boot
\* that may fail, a signal and a shutdown, a logon still only ever begins, finishes,
\* abandons or joins the login of its account as SessionPool says.
THEOREM ProcessImplementsPool == GatewaySpec => ProcessKeepsPromise
<1>1. GatewayInit => Pool!Init
  BY Names DEF GatewayInit, Init, Pool!Init, Pool!NoRide, Pool!Ride, attempt, used, riding
<1>2. GInv /\ [GatewayNext]_gatewayVars => [Pool!Next \/ Configured]_(Pool!poolVars)
  <2> SUFFICES ASSUME GInv, [GatewayNext]_gatewayVars
               PROVE  Pool!Next \/ Configured \/ Unseen
    BY DEF Unseen, Pool!poolVars
  <2>1. ASSUME NEW c \in Conns, ReadsLogon(c) PROVE Pool!Next \/ Unseen
    <3>1. Logon(c) /\ (preset # None /\ phase[c] = "idle" => modern[c] = preset)
      BY <2>1 DEF ReadsLogon, GInv, ProcessInv
    <3> QED
      BY <3>1, LogonMaps DEF GInv
  <2>2. ASSUME NEW c \in Conns, Resumes(c) PROVE Pool!Next \/ Unseen
    <3>1. ConnResumes(c) /\ PresetInv
      BY <2>2 DEF Resumes, GInv, ProcessInv, PresetInv
    <3> QED
      BY <3>1, ConnResumesMaps DEF GInv
  <2>3. ASSUME NEW s \in Sessions, SessionRuns(SessionStep(s)) PROVE Unseen
    BY <2>3, SessionStepUnseen DEF SessionRuns, GInv
  <2>4. Close => Unseen
    BY DEF Close, CloseNow, CloseQueues, CloseResumes, StopAll, sessionVars,
           Unseen, attempt, used, riding
  <2>5. UNCHANGED vars => Unseen
    BY DEF vars, sessionVars, poolVars, Unseen, attempt, used, riding
  <2>6. ASSUME \/ BootConfigured
               \/ \E p \in {None, BootSession} : stage \in {"boot", "starting"} /\ Listen(p)
               \/ \E c \in Conns : Accept(c)
        PROVE  Configured \/ Unseen
    <3>1. UNCHANGED <<pool, attempt, used, riding>>
      BY <2>6, OutsideFactory DEF attempt, used, riding
    <3>2. CASE preset' = preset
      BY <3>1, <3>2 DEF Unseen
    <3>3. CASE preset' # preset
      <4>1. PICK p \in {None, BootSession} : stage \in {"boot", "starting"} /\ Listen(p)
        BY <2>6, <3>3 DEF BootConfigured, poolVars, Accept
      <4>2. preset' = p /\ preset = None
        BY <4>1, BeforeService DEF Listen
      <4>3. used = {}
        BY <4>1, BeforeService DEF GInv, IInv, PhaseInv, used
      <4> QED
        BY <3>1, <3>3, <4>2, <4>3 DEF Configured
    <3> QED
      BY <3>2, <3>3
  <2>7. CASE ProcessStep
    <3>1. CASE CloseFactory
      BY <2>4, <3>1 DEF CloseFactory
    <3>2. CASE CloseListeners \/ WaitClosed \/ Exit \/ BootPromptRaises
      BY <2>5, <3>2 DEF CloseListeners, WaitClosed, Exit, BootPromptRaises, GoTo
    <3>3. CASE BootMultiUser \/ BootConfigured \/ BootStarted \/ BootFailed
      BY <2>6, <3>3 DEF BootMultiUser, BootStarted, BootFailed
    <3> QED
      BY <2>7, <3>1, <3>2, <3>3 DEF ProcessStep, Boot
  <2>8. ASSUME NEW c \in Conns, Accept(c) PROVE Configured \/ Unseen
    BY <2>6, <2>8
  <2>9. ASSUME NEW c \in Conns, ClientLeaves(c) \/ ClientResets(c) \/ ReadLoopEnds(c)
        PROVE  Unseen
    BY <2>5, <2>9 DEF ClientLeaves, ClientResets, ReadLoopEnds
  <2>10. Signal \/ UNCHANGED gatewayVars => Unseen
    BY <2>5 DEF Signal, gatewayVars
  <2> QED
    BY <2>1, <2>2, <2>3, <2>7, <2>8, <2>9, <2>10 DEF GatewayNext
<1> QED
  BY <1>1, <1>2, GatewayInvariance, PTL DEF GatewaySpec, ProcessKeepsPromise

===============================================================================
