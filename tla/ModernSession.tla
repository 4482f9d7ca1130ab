---------------------------- MODULE ModernSession ----------------------------
(***************************************************************************)
(* The modern back-end sessions of src/gateway/cm/modern.py.               *)
(*                                                                         *)
(* A ModernSession runs a SteamClient in a thread of its own and hands the *)
(* outcome of the login back to the event loop: the thread posts a         *)
(* callback with call_soon_threadsafe, and the callback resolves the       *)
(* future `_ready` that start() awaits.  The model keeps the race between  *)
(* the two sides: the thread tests `fut.done()` when it posts, the loop    *)
(* resolves the future later, so two outcomes can be in flight at once.    *)
(*                                                                         *)
(* The event queue `_events` is left out: nothing in the gateway reads it. *)
(***************************************************************************)
EXTENDS Naturals, Sequences, FiniteSets

CONSTANTS
  Sessions,   \* ModernSession objects, each started at most once
  RunPaths    \* the ways _run can go in the modelled installation:
              \*   "no_steam"   `from steam import SteamClient` fails
              \*   "no_handler" self._on_error is not an attribute of the
              \*                object, as in the class as it is written (the
              \*                method stands under ModernFactory)
              \*   "login"      the handlers exist and the login is tried, which
              \*                the session doubles of the tests stand for

ASSUME RunPathsAssumption == RunPaths \subseteq {"no_steam", "no_handler", "login"}

VARIABLES
  ready,      \* _ready: "unset" | "pending" | "result" | "exception"
  thread,     \* where the thread stands in _run
  posted,     \* callbacks posted to the loop and not yet run, oldest first
  loggedOn,   \* history: the SteamClient has emitted "logged_on"
  stopped     \* the _stop event

sessionVars == <<ready, thread, posted, loggedOn, stopped>>

ReadyStates  == {"unset", "pending", "result", "exception"}
ThreadStates == {"none", "import", "register", "login", "keepalive", "dead"}
Outcomes     == {"result", "exception"}

SessionTypeOK ==
  /\ ready    \in [Sessions -> ReadyStates]
  /\ thread   \in [Sessions -> ThreadStates]
  /\ posted   \in [Sessions -> Seq(Outcomes)]
  /\ loggedOn \in [Sessions -> BOOLEAN]
  /\ stopped  \in [Sessions -> BOOLEAN]

Done(s)    == ready[s] \in Outcomes

\* Slip: is_ready() without the test of the future's exception.
IsDone(s) == Done(s)

IsReady(s) == ready[s] = "result"

(***************************************************************************)
(* Event loop side.                                                        *)
(***************************************************************************)

\* start() up to `await self._ready`: a fresh future and a running thread.
StartSession(s) ==
  /\ ready[s] = "unset"
  /\ ready'  = [ready EXCEPT ![s] = "pending"]
  /\ thread' = [thread EXCEPT ![s] = "import"]
  /\ UNCHANGED <<posted, loggedOn, stopped>>

\* Slip: the outcome is a plain attribute that every callback sets.
RunCallbackLastWins(s) ==
  /\ posted[s] # <<>>
  /\ posted' = [posted EXCEPT ![s] = Tail(@)]
  /\ ready'  = [ready EXCEPT ![s] = Head(posted[s])]
  /\ UNCHANGED <<thread, loggedOn, stopped>>

\* The loop runs the oldest posted callback.  A future that is already done
\* rejects the second outcome: InvalidStateError, which the loop only logs.
RunCallback(s) ==
  /\ posted[s] # <<>>
  /\ posted' = [posted EXCEPT ![s] = Tail(@)]
  /\ ready'  = IF Done(s) THEN ready
                          ELSE [ready EXCEPT ![s] = Head(posted[s])]
  /\ UNCHANGED <<thread, loggedOn, stopped>>

(***************************************************************************)
(* Thread side.                                                            *)
(***************************************************************************)

\* _resolve_ready and _fail: post the outcome unless the future is done.
Post(s, outcome) ==
  posted' = IF Done(s) THEN posted
                       ELSE [posted EXCEPT ![s] = Append(@, outcome)]

MoveThread(s, from, to) ==
  /\ thread[s] = from
  /\ thread' = [thread EXCEPT ![s] = to]

\* The import fails: the session fails fast and the thread returns.
ImportFails(s) ==
  /\ "no_steam" \in RunPaths
  /\ MoveThread(s, "import", "dead")
  /\ Post(s, "exception")
  /\ UNCHANGED <<ready, loggedOn, stopped>>

ImportSucceeds(s) ==
  /\ RunPaths # {"no_steam"}
  /\ MoveThread(s, "import", "register")
  /\ UNCHANGED <<ready, posted, loggedOn, stopped>>

\* client.on(..., self._on_x) for a handler the object does not have raises
\* AttributeError outside any try: the thread dies and posts nothing.
HandlerMissing(s) ==
  /\ "no_handler" \in RunPaths
  /\ MoveThread(s, "register", "dead")
  /\ UNCHANGED <<ready, posted, loggedOn, stopped>>

HandlersRegistered(s) ==
  /\ "login" \in RunPaths
  /\ MoveThread(s, "register", "login")
  /\ UNCHANGED <<ready, posted, loggedOn, stopped>>

\* Slip: the handler emits the event but does not resolve the future.
LoggedOnEmitOnly(s) ==
  /\ thread[s] \in {"login", "keepalive"}
  /\ ~loggedOn[s]
  /\ loggedOn' = [loggedOn EXCEPT ![s] = TRUE]
  /\ UNCHANGED <<ready, thread, posted, stopped>>

\* The SteamClient emits "logged_on", once per login call, during the call or
\* from a greenlet after it.
LoggedOn(s) ==
  /\ thread[s] \in {"login", "keepalive"}
  /\ ~loggedOn[s]
  /\ loggedOn' = [loggedOn EXCEPT ![s] = TRUE]
  /\ Post(s, "result")
  /\ UNCHANGED <<ready, thread, stopped>>

\* client.login returns.  Its result code is ignored, and the "error" and
\* "disconnect" handlers only queue an event: neither resolves the future.
LoginReturns(s) ==
  /\ MoveThread(s, "login", "keepalive")
  /\ UNCHANGED <<ready, posted, loggedOn, stopped>>

LoginRaises(s) ==
  /\ MoveThread(s, "login", "keepalive")
  /\ Post(s, "exception")
  /\ UNCHANGED <<ready, loggedOn, stopped>>

\* The keep-alive loop sees the stop event, disconnects and returns.
ThreadExits(s) ==
  /\ stopped[s]
  /\ MoveThread(s, "keepalive", "dead")
  /\ UNCHANGED <<ready, posted, loggedOn, stopped>>

\* Everything the thread does of its own accord.
ThreadStep(s) ==
  \/ ImportFails(s)
  \/ ImportSucceeds(s)
  \/ HandlerMissing(s)
  \/ HandlersRegistered(s)
  \/ LoggedOn(s)
  \/ LoginReturns(s)
  \/ LoginRaises(s)
  \/ ThreadExits(s)

SessionStep(s) == RunCallback(s) \/ ThreadStep(s)

(***************************************************************************)
(* Properties.                                                             *)
(***************************************************************************)

\* is_ready() is true only of a session that Steam has logged on: neither an
\* import failure nor a login that raises can leave a session that looks ready
\* (is_ready tests the future's exception, not just that it is done).
ReadyMeansLoggedOn ==
  \A s \in Sessions : IsReady(s) => loggedOn[s]

\* The first outcome delivered to the event loop wins: once start() has been
\* told that the session is ready, or that it failed, a second outcome that
\* was already in flight cannot change what is_ready() answers.
FirstOutcomeWins ==
  [][\A s \in Sessions : Done(s) => ready'[s] = ready[s]]_sessionVars

\* A successful login is never lost between the thread and the loop: from the
\* moment Steam logs the session on, start() has an outcome or one is in flight.
\* (The thread reads fut.done() while the loop may be about to resolve it.)
LogonNotLost ==
  \A s \in Sessions : loggedOn[s] => Done(s) \/ posted[s] # <<>>
===============================================================================
