---------------------------- MODULE ContentOrigin ----------------------------
(***************************************************************************)
(* The content origin: the keep-alive loop of src/gateway/minihttp.py, the *)
(* request handler and the preload of content/bridge.py, and the depot     *)
(* locks and the downloader of content/fetcher.py, over the cache          *)
(* directory of content/cache.py.                                          *)
(*                                                                         *)
(* A depot is an (app, depot id) pair: its directory in the cache.  Only a *)
(* manifest request and the preload wait for anything: for the depot's     *)
(* asyncio.Lock (FIFO) and for the downloader process run under it.  All   *)
(* else is answered without an await, so one action reads and answers it.  *)
(* What a response says is left out: that there is one, and to what, is not. *)
(***************************************************************************)
EXTENDS Naturals, Sequences, FiniteSets

CONSTANTS
  Conns,       \* connections to the origin, one coroutine each
  Preloader,   \* the task that runs warm_preload()
  Depots,      \* directories the cache may have: [app |-> , id |-> ]
  Preload,     \* content.preload: a sequence of depots
  None,
  MaxRequests  \* bound: requests per connection

Tasks == Conns \cup {Preloader}

ASSUME ContentAssumption ==
  /\ Preloader \notin Conns /\ None \notin Tasks \cup Depots
  /\ Preload \in Seq(Depots) /\ MaxRequests \in Nat

VARIABLES
  setup,     \* the downloader: "absent" (no path, or no account), "broken" (the
             \* path cannot be executed) or "works"
  dirs,      \* the depots whose directory exists
  manifest,  \* those with a manifest file, put there by the operator: the code
             \* has store_manifest() but never calls it
  holder,    \* who holds the depot's lock
  queue,     \* the tasks queued on it
  proc,      \* the depot that a task's downloader process is writing, or None
  at,        \* where a task stands
  wants,     \* the depot it waits for, or None
  visited,   \* how many entries of Preload are dealt with
  client,    \* "there" or "gone"
  last,      \* the request being served asked to close the connection
  read,      \* how many requests of the connection were read
  replies    \* the numbers of the requests that were answered, in that order

cacheVars == <<setup, dirs, manifest>>
lockVars  == <<holder, queue, proc>>
httpVars  == <<client, last, read, replies>>
vars      == <<cacheVars, lockVars, at, wants, visited, httpVars>>

TypeOK ==
  /\ setup \in {"absent", "broken", "works"}
  /\ manifest \subseteq dirs /\ dirs \subseteq Depots
  /\ holder  \in [Depots -> Tasks \cup {None}]
  /\ queue   \in [Depots -> Seq(Tasks)]
  /\ proc    \in [Tasks -> Depots \cup {None}]
  /\ at      \in [Tasks -> {"reading", "body", "queued", "fetching", "closed",
                            "next", "done", "died"}]
  /\ wants   \in [Tasks -> Depots \cup {None}]
  /\ visited \in 0..Len(Preload)
  /\ client  \in [Conns -> {"there", "gone"}]
  /\ last    \in [Conns -> BOOLEAN]
  /\ read    \in [Conns -> 0..MaxRequests]
  /\ replies \in [Conns -> Seq(1..MaxRequests)]

\* Any cache an earlier run may have left.
Init ==
  /\ setup   \in {"absent", "broken", "works"}
  /\ dirs    \in SUBSET Depots
  /\ manifest \in SUBSET dirs
  /\ holder  = [d \in Depots |-> None]
  /\ queue   = [d \in Depots |-> <<>>]
  /\ proc    = [t \in Tasks |-> None]
  /\ at      = [t \in Tasks |-> IF t = Preloader THEN "next" ELSE "reading"]
  /\ wants   = [t \in Tasks |-> None]
  /\ visited = 0
  /\ client  = [c \in Conns |-> "there"]
  /\ last    = [c \in Conns |-> FALSE]
  /\ read    = [c \in Conns |-> 0]
  /\ replies = [c \in Conns |-> <<>>]

(***************************************************************************)
(* What a task does when its wait, if any, is over.                        *)
(***************************************************************************)

\* Slip: the response is that of the request before.
RespondToPrevious(c) ==
  /\ replies' = [replies EXCEPT ![c] = Append(@, read[c])]
  /\ at' = [at EXCEPT ![c] = IF client[c] = "gone" \/ last'[c] THEN "closed" ELSE "reading"]
  /\ UNCHANGED visited

\* Write a response.  To a client that has gone this raises, and so does the
\* second attempt, with a 500: the loop ends.
Respond(c) ==
  /\ replies' = IF client[c] = "there" THEN [replies EXCEPT ![c] = Append(@, read'[c])]
                                       ELSE replies
  /\ at' = [at EXCEPT ![c] = IF client[c] = "gone" \/ last'[c] THEN "closed" ELSE "reading"]
  /\ UNCHANGED visited

NextEntry ==
  /\ visited' = visited + 1
  /\ at' = [at EXCEPT ![Preloader] = IF visited' = Len(Preload) THEN "done" ELSE "next"]
  /\ UNCHANGED replies

Die == at' = [at EXCEPT ![Preloader] = "died"] /\ UNCHANGED <<visited, replies>>

\* Slip: a depot that could not be fetched ends the preload.
ReturnOrDie(t, ok) == IF t # Preloader THEN Respond(t) ELSE IF ok THEN NextEntry ELSE Die

\* ensure_depot returns whether it succeeded: nobody looks at that.
Return(t, ok) == IF t = Preloader THEN NextEntry ELSE Respond(t)

\* Slip: the error of a handler ends the loop.
RaiseAndDrop(t) ==
  IF t = Preloader THEN Die
  ELSE at' = [at EXCEPT ![t] = "closed"] /\ UNCHANGED <<visited, replies>>

\* ensure_depot raises: a 500 for a request, the end of the preload task.
Raise(t) == IF t = Preloader THEN Die ELSE Respond(t)

(***************************************************************************)
(* ensure_depot.                                                           *)
(***************************************************************************)

\* Slip: each call makes a lock of its own.
OwnLock(d) == TRUE

LockIsFree(d) == holder[d] = None /\ queue[d] = <<>>

\* With the lock, up to the next await.  Looking for the manifest creates the
\* directory.
WithLock(t, d) ==
  /\ dirs' = dirs \cup {d}
  /\ UNCHANGED <<setup, manifest>>
  /\ \/ /\ d \in manifest \/ setup = "absent"
        /\ Return(t, d \in manifest)
        /\ UNCHANGED <<holder, proc, wants>>
     \/ /\ d \notin manifest /\ setup = "broken"
        /\ Raise(t)
        /\ UNCHANGED <<holder, proc, wants>>
     \/ /\ d \notin manifest /\ setup = "works"
        /\ holder' = [holder EXCEPT ![d] = t]
        /\ proc'   = [proc EXCEPT ![t] = d]
        /\ wants'  = [wants EXCEPT ![t] = d]
        /\ at'     = [at EXCEPT ![t] = "fetching"]
        /\ UNCHANGED <<visited, replies>>

EnsureDepot(t, d) ==
  IF LockIsFree(d)
  THEN WithLock(t, d) /\ UNCHANGED queue
  ELSE /\ queue' = [queue EXCEPT ![d] = Append(@, t)]
       /\ at'    = [at EXCEPT ![t] = "queued"]
       /\ wants' = [wants EXCEPT ![t] = d]
       /\ UNCHANGED <<cacheVars, holder, proc, visited, replies>>

GetsLock(t) ==
  /\ at[t] = "queued"
  /\ UNCHANGED <<client, last, read>>
  /\ LET d == wants[t]
     IN /\ holder[d] = None /\ Head(queue[d]) = t
        /\ queue' = [queue EXCEPT ![d] = Tail(@)]
        /\ WithLock(t, d)

\* The process is over and ensure_depot returns, releasing the lock.
FetchEnds(t, ok) ==
  /\ UNCHANGED <<setup, dirs, manifest, queue, wants, client, last, read>>
  /\ proc'   = [proc EXCEPT ![t] = None]
  /\ holder' = [holder EXCEPT ![wants[t]] = None]
  /\ Return(t, ok)

\* It exits of its own accord, with code 0 or not.
DownloaderExits(t) == proc[t] # None /\ \E ok \in BOOLEAN : FetchEnds(t, ok)

\* Slip: communicate() without a limit.
WaitsForEver(t) == FALSE

\* After an hour it is killed.
DownloaderKilled(t) == proc[t] # None /\ FetchEnds(t, FALSE)

(***************************************************************************)
(* Connections.                                                            *)
(***************************************************************************)

\* A whole head was read; `Connection: close`, or HTTP/1.0, makes it the last.
ReadHead(c, final) ==
  /\ at[c] \in {"reading", "body"}
  /\ IF at[c] = "body" THEN UNCHANGED <<read, last>>
     ELSE /\ read[c] < MaxRequests
          /\ read' = [read EXCEPT ![c] = @ + 1]
          /\ last' = [last EXCEPT ![c] = final]
  /\ UNCHANGED client

\* The body is awaited without a limit.
AwaitBody(c, final) ==
  /\ at[c] = "reading" /\ ReadHead(c, final)
  /\ at' = [at EXCEPT ![c] = "body"]
  /\ UNCHANGED <<cacheVars, lockVars, wants, visited, replies>>

RefuseBody(c) ==
  /\ at[c] = "reading" /\ ReadHead(c, TRUE)
  /\ Respond(c)
  /\ UNCHANGED <<cacheVars, lockVars, wants>>

\* Chunks, files (from any directory of that depot id, complete or not), other
\* methods and unknown paths: 200, 404, 405, or 500 for a file that cannot be read.
AnswerNow(c, final) ==
  /\ ReadHead(c, final)
  /\ Respond(c)
  /\ UNCHANGED <<cacheVars, lockVars, wants>>

\* A manifest request names the app: the first directory found under it is the
\* depot that is meant.
ManifestRequest(c, app, final) ==
  LET candidates == {d \in dirs : d.app = app}
  IN /\ ReadHead(c, final)
     /\ IF candidates = {}
        THEN Respond(c) /\ UNCHANGED <<cacheVars, lockVars, wants>>
        ELSE \E d \in candidates : EnsureDepot(c, d)

Request(c) ==
  \/ RefuseBody(c)
  \/ \E final \in BOOLEAN :
       \/ AwaitBody(c, final) \/ AnswerNow(c, final)
       \/ \E app \in {d.app : d \in Depots} : ManifestRequest(c, app, final)

\* 30 s without a head, a malformed one (whatever its body), or the end of the
\* stream.
ReadingEnds(c) ==
  /\ \/ at[c] = "reading"
     \/ at[c] = "body" /\ client[c] = "gone"
  /\ at' = [at EXCEPT ![c] = "closed"]
  /\ UNCHANGED <<cacheVars, lockVars, wants, visited, httpVars>>

\* A handler that waits does not notice.
ClientGoes(c) ==
  /\ client[c] = "there" /\ at[c] # "closed"
  /\ client' = [client EXCEPT ![c] = "gone"]
  /\ UNCHANGED <<cacheVars, lockVars, at, wants, visited, last, read, replies>>

PreloadNext ==
  /\ at[Preloader] = "next"
  /\ UNCHANGED <<client, last, read>>
  /\ IF Preload = <<>>
     THEN /\ at' = [at EXCEPT ![Preloader] = "done"]
          /\ UNCHANGED <<cacheVars, lockVars, wants, visited, replies>>
     ELSE EnsureDepot(Preloader, Preload[visited + 1])

(***************************************************************************)
(* The specification.                                                      *)
(***************************************************************************)

Next ==
  \/ PreloadNext
  \/ \E t \in Tasks :
       GetsLock(t) \/ DownloaderExits(t) \/ DownloaderKilled(t)
  \/ \E c \in Conns : Request(c) \/ ReadingEnds(c) \/ ClientGoes(c)

\* The loop runs what can run, and an hour passes; the downloader need not do
\* anything, and no client has to send or to leave.
Fairness ==
  /\ WF_vars(PreloadNext)
  /\ \A t \in Tasks : WF_vars(GetsLock(t)) /\ WF_vars(DownloaderKilled(t))

Spec == Init /\ [][Next]_vars /\ Fairness

(***************************************************************************)
(* Properties.                                                             *)
(***************************************************************************)

\* One downloader per depot: however many requests and the preload ask for it,
\* before, during or after a run that failed, never do two processes write one
\* depot's directory.
OneDownloader ==
  \A t, u \in Tasks : proc[t] # None /\ proc[t] = proc[u] => t = u

\* The responses of a connection are those of its requests, one each and in
\* order, also across a failed download, an executable that is missing, or a
\* file that cannot be read: the client, as long as it is there, has got one for
\* every request but the one being served.
OneReplyEach ==
  \A c \in Conns :
    /\ \A i \in 1..Len(replies[c]) : replies[c][i] = i
    /\ client[c] = "there" =>
         read[c] = Len(replies[c]) + IF at[c] \in {"body", "queued", "fetching"} THEN 1 ELSE 0

\* Whoever waits for a depot gets through: a download that fails or hangs, a
\* client that went away in the queue or in the middle of its download, and the
\* preload leave the depot's lock to the next one.
EveryoneGetsThrough ==
  \A t \in Tasks :
    (at[t] \in {"queued", "fetching"}) ~> (at[t] \notin {"queued", "fetching"})

\* One depot that cannot be fetched does not keep the preload from the others:
\* it visits them all, unless the downloader cannot even be started.
PreloadVisitsAll ==
  setup # "broken" =>
    <>(at[Preloader] = "done" /\ \A i \in 1..Len(Preload) : Preload[i] \in dirs)
===============================================================================
