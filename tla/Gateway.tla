------------------------------- MODULE Gateway -------------------------------
(***************************************************************************)
(* The life of the gateway process (_run_services in src/gateway/main.py): *)
(* boot, the CM listeners and their connections, the signal, the shutdown. *)
(*                                                                         *)
(* ModernFactory lets close() come at any time and its connections exist   *)
(* from the start.  Here the process decides: the preset is what booting   *)
(* the configured account's session yields, connections come and go, and   *)
(* close() runs once, after the listeners' wait_closed().  Only the CM     *)
(* listeners are followed; the connections of the other two services hold  *)
(* wait_closed() up in the same way, and have modules of their own.        *)
(***************************************************************************)
EXTENDS ModernFactory

VARIABLES
  stage,     \* where _run_services stands
  signalled, \* the stop event, set by SIGINT or SIGTERM
  waits,     \* Server.wait_closed() waits for the open connections, as it does
             \* from Python 3.12 on; before, it returns at once (told apart only
             \* when it is called)
  link       \* the TCP connection under a translator's coroutine

processVars == <<stage, signalled, waits, link>>
gatewayVars == <<vars, processVars>>

Stages ==
  {"boot",     \* before the configured account is looked at
   "starting", \* `await modern.start()` for that account
   "serving",  \* `await stop.wait()`
   "closing",  \* the listeners are closed, wait_closed() not yet returned
   "stopping", \* `await factory.close()`
   "exited", "crashed"}

\* "left": the client has closed its side, the transport is still attached to
\* the server; "lost": reset, the transport is gone; "ended": the handler is.
Links == {"none", "open", "left", "lost", "ended"}

GatewayTypeOK ==
  /\ TypeOK
  /\ stage     \in Stages
  /\ signalled \in BOOLEAN
  /\ waits     \in BOOLEAN
  /\ link      \in [Conns -> Links]

GatewayInit ==
  /\ Init /\ preset = None
  /\ stage     = "boot"
  /\ signalled = FALSE
  /\ waits     = TRUE
  /\ link      = [c \in Conns |-> "none"]

Up == stage \notin {"exited", "crashed"}

(***************************************************************************)
(* Boot.                                                                   *)
(***************************************************************************)

\* Slip: the stop event is made once the boot is over.
ListenAfresh(p) ==
  /\ preset' = p
  /\ stage' \in {"serving", "crashed"}
  /\ signalled' = FALSE
  /\ UNCHANGED <<sessionVars, pool, lock, waiters, phase, account, modern,
                 closed, waits, link>>

\* The factory gets its preset and the services bind their ports; a port that
\* is taken ends the process.
Listen(p) ==
  /\ preset' = p
  /\ stage' \in {"serving", "crashed"}
  /\ UNCHANGED <<sessionVars, pool, lock, waiters, phase, account, modern,
                 closed, signalled, waits, link>>

BootMultiUser == stage = "boot" /\ Listen(None)

BootConfigured ==
  /\ stage = "boot"
  /\ stage' = "starting"
  /\ StartSession(BootSession)
  /\ UNCHANGED <<poolVars, signalled, waits, link>>

\* The session's constructor asks for a guard code; the console is at its end.
BootPromptRaises ==
  /\ stage = "boot"
  /\ stage' = "crashed"
  /\ UNCHANGED <<vars, signalled, waits, link>>

\* Slip: `preset=modern` is not passed to the factory.
BootStartedNoPreset == stage = "starting" /\ ready[BootSession] = "result" /\ Listen(None)

BootStarted == stage = "starting" /\ ready[BootSession] = "result" /\ Listen(BootSession)

\* The error is logged, and the factory has no preset.
BootFailed == stage = "starting" /\ ready[BootSession] = "exception" /\ Listen(None)

Boot == BootMultiUser \/ BootConfigured \/ BootPromptRaises \/ BootStarted \/ BootFailed

(***************************************************************************)
(* Connections.                                                            *)
(***************************************************************************)

SetLink(c, from, to) ==
  /\ Up /\ link[c] \in from
  /\ link' = [link EXCEPT ![c] = to]
  /\ UNCHANGED <<stage, signalled, waits>>

\* A connection is given the preset when it is accepted.
Accept(c) ==
  /\ stage = "serving"
  /\ SetLink(c, {"none"}, "open")
  /\ modern' = [modern EXCEPT ![c] = preset]
  /\ UNCHANGED <<sessionVars, preset, pool, lock, waiters, phase, account, closed>>

ClientLeaves(c) == SetLink(c, {"open"}, "left") /\ UNCHANGED vars
ClientResets(c) == SetLink(c, {"open", "left"}, "lost") /\ UNCHANGED vars

\* A logon the client sent before it closed its side is still read; after a
\* reset every read raises.
ReadsLogon(c) ==
  /\ Up /\ link[c] \in {"open", "left"}
  /\ Logon(c)
  /\ UNCHANGED processVars

Resumes(c) == Up /\ ConnResumes(c) /\ UNCHANGED processVars

\* The read loop ends: the client is gone, is silent for 180 s, or sends what
\* is no frame.  A handler inside get() does not read.
ReadLoopEnds(c) ==
  /\ phase[c] \notin {"queued", "starting"}
  /\ SetLink(c, {"open", "left", "lost"}, "ended")
  /\ UNCHANGED vars

SessionRuns(step) == Up /\ InSession(step) /\ UNCHANGED processVars

(***************************************************************************)
(* Shutdown.                                                               *)
(***************************************************************************)

Signal ==
  /\ Up /\ ~signalled
  /\ signalled' = TRUE
  /\ UNCHANGED <<vars, stage, waits, link>>

GoTo(from, to) ==
  /\ stage = from /\ stage' = to
  /\ UNCHANGED <<vars, signalled, waits, link>>

CloseListeners ==
  /\ signalled /\ stage = "serving"
  /\ stage' = "closing"
  /\ waits' \in BOOLEAN
  /\ UNCHANGED <<vars, signalled, link>>

Attached(c) == link[c] \in {"open", "left"}

\* Slip: the listeners are closed, but not waited for.
ListenersGone == GoTo("closing", "stopping")

WaitClosed == (waits => \A c \in Conns : ~Attached(c)) /\ GoTo("closing", "stopping")

CloseFactory == stage = "stopping" /\ Close /\ UNCHANGED processVars

\* asyncio.run cancels what is left: a get() inside start() is not told to stop
\* its session, and the threads are daemons.  Until then the loop may still have
\* run a task that close() woke when it released the lock.
Exit == closed /\ GoTo("stopping", "exited")

ProcessStep == Boot \/ CloseListeners \/ WaitClosed \/ CloseFactory \/ Exit

GatewayNext ==
  \/ ProcessStep
  \/ \E c \in Conns :
       \/ Accept(c) \/ ClientLeaves(c) \/ ClientResets(c)
       \/ ReadsLogon(c) \/ Resumes(c) \/ ReadLoopEnds(c)
  \/ \E s \in Sessions : SessionRuns(SessionStep(s))
  \/ Signal

\* What a session's thread does unless it is killed: everything but the event
\* that Steam sends, and the exit when it is told to stop.
ThreadRuns(s) ==
  \/ ImportFails(s) \/ ImportSucceeds(s)
  \/ HandlerMissing(s) \/ HandlersRegistered(s)
  \/ LoginReturns(s) \/ LoginRaises(s)

\* As in ModernFactory, and the process itself goes on when it can; a handler
\* notices that its client has gone, but nobody has to go, or to send a signal.
\* Each task takes finitely many of these steps, so fairness to a group of tasks
\* is fairness to every one of them.
GatewayFairness ==
  /\ WF_gatewayVars(ProcessStep)
  /\ WF_gatewayVars(\E c \in Conns : Resumes(c))
  /\ WF_gatewayVars(\E c \in Conns : link[c] \in {"left", "lost"} /\ ReadLoopEnds(c))
  /\ WF_gatewayVars(\E s \in Sessions : SessionRuns(RunCallback(s)))
  /\ WF_gatewayVars(\E s \in Sessions : SessionRuns(ThreadRuns(s)))

GatewaySpec == GatewayInit /\ [][GatewayNext]_gatewayVars /\ GatewayFairness

(***************************************************************************)
(* Properties.                                                             *)
(***************************************************************************)

\* start() waits for this session, whose thread has done all it does of its own
\* accord: it died on the missing handler, or login() returned and Steam has
\* not (or not yet) logged the session on.
Stuck(s) ==
  /\ ready[s] = "pending" /\ posted[s] = <<>>
  /\ thread[s] \in {"keepalive", "dead"}

SomeoneStuck ==
  \/ lock # None /\ Stuck(lock)
  \/ stage = "starting" /\ Stuck(BootSession)

\* Whatever a login's outcome, everybody who waits for one is answered, in every
\* run in which no login hangs for good: a failed boot, a failed or raising
\* logon, a client that left its place in the queue, a shutdown on the way do
\* not leave the lock taken.  That a hanging login is the only obstacle is what
\* the lock's scope makes doubtful.  (A connection waits at most once, so it is
\* enough that in the end nobody does.)
AnsweredUnlessStuck ==
  []<>~SomeoneStuck =>
    <>[](Up => \A c \in Conns : phase[c] \notin {"queued", "starting"})

\* A signal, sent at any moment of the boot or later, ends the process, in every
\* run in which clients go away eventually and no login hangs for good: nothing
\* between the stop event and the last await waits for anything else.
ShutdownEnds ==
  []<>~SomeoneStuck /\ <>[](\A c \in Conns : link[c] # "open")
    => (signalled ~> ~Up)

\* The shutdown stops what is in use: when the process exits in order, every
\* session that is ready or is being started has been told to stop, also those
\* of logons that raced with the shutdown, provided wait_closed() waited for
\* the connections.  (Before Python 3.12 a logon can queue behind close() on the
\* lock, and its session is never stopped.  One whose start() raised never is.)
ExitStopsSessions ==
  stage = "exited" /\ waits =>
    \A s \in Sessions : ready[s] \in {"pending", "result"} => stopped[s]

\* A gateway with a configured account serves nobody else, unless that account's
\* session failed at boot: then, and only then, it is open to every account.
OthersOnlyAfterFailedBoot ==
  \A c \in Conns :
    phase[c] = "active" /\ account[c] # BootAccount =>
      ready[BootSession] \in {"unset", "exception"}
===============================================================================
