# Verification of steam-legacy-gateway

TLA+ models of the gateway and of the commands that set it up, checked with TLC on
small instances, and proofs of their safety for all instances, checked with TLAPS.
Line numbers are those of the sources under `src/`.

## 1. The system

The gateway stands between a 2015-era Steam client and today's Steam network.
It is one asyncio event loop plus one thread per modern session.

| Part | State | Operations | Talks to |
|---|---|---|---|
| CM server (`cm/server.py`) | one coroutine per client connection | read a frame, hand it to the translator, end the connection | translator |
| Translator (`cm/translator.py`) | protocol state, session key, the connection's sentry store, the modern session | one handler per message, the welcome sequence | client, factory, sentry store |
| Factory (`cm/modern.py`, `ModernFactory`) | pool of sessions by user name, one lock, an optional preset | `get`, `close` | translator, main, sessions |
| Modern session (`cm/modern.py`, `ModernSession`) | a future, a stop event, a SteamClient in a thread | `start`, `stop`, the thread's `_run` and its callbacks | factory, Steam |
| Sentry store (`cm/machineauth.py`) | a dictionary in memory, one JSON file | `put`, `get`, `sha_for`, `load`, `save` | translator |
| Framing, protobuf, crypto (`cm/framing.py`, `proto.py`, `crypto.py`) | none | codecs | translator |
| TLS forwarder (`tls_proxy.py`, `routes.py`) | per connection: two transports, two pumps | route the first request, copy both ways, give up in time | client, upstream hosts, content origin |
| HTTP server (`minihttp.py`) | one keep-alive loop per connection | read a request, hand it on, answer errors | content origin |
| Content origin (`content/*`) | a cache directory, a lock per depot, downloader processes | serve, fetch a depot, preload | DepotDownloader |
| Main (`main.py`) | the services, the stop event | boot, wait for a signal, shut down | everything |
| Client patcher (`scripts/patch_client.py`) | a client binary, its backup, the gateway's key | patch, swap the key, restore, verify | - |
| Hosts file (`hosts.py`, `install_hosts.sh`) | one block in the user's file, a backup | apply, remove | - |
| Certificates (`certs.py`) | two pairs of files | make once, reuse | TLS forwarder |
| Configuration, analysis scripts | - | one-shot | - |

What is hard: a lock held across a login that another thread completes; outcomes
posted from that thread to the loop; a shutdown that waits for connections and
the lock; handlers that await in the middle of a protocol exchange while the
client goes on sending; pumps that close each other's transports; processes under
a lock; one file behind several in-memory copies; kills in the middle of a write,
and commands given again after them.  `PROJECT.json` lists each place as a hazard,
with the properties that watch it.

What makes each part correct:

* *factory* - one login per account, nobody on another account's session, no
  failed login cached, no session that is waited for or used survives close();
* *process* - a hanging login is the only thing that can keep a logon or the
  shutdown from its end; the exit stops every session that is being started or
  ready; a configured account is nobody else's, unless its session failed to boot;
* *session* - the first outcome wins, ready means logged on, no login is lost
  between thread and loop;
* *translator* - ends that share a key agree which frames are encrypted, one logon per
  connection, each request answered once and in turn, each logon answered;
* *sentry store* - what a client was told is on disk, entries never mix two
  files, a confirmed sentry stays;
* *codec* - what was written is read, what is cut short is not misread;
* *forwarder* - bytes in order, complete responses whole, both connections closed
  in the end, whatever the ends do;
* *content* - one downloader per depot, one reply per request, nobody waits for
  ever, the preload visits everything;
* *set-up* - a backup is from before the tool that made it, an accepted key is the
  only one, the user's lines survive, there is one block, certificates match keys.

## 2. Modules

| Module | Models | Checked by |
|---|---|---|
| `ModernSession` | `ModernSession`: the future, the thread, the callbacks in flight | through `ModernFactory` |
| `ModernFactory` (extends it) | `ModernFactory` and the connections' logon handlers | `factory_logons`, `factory_hang` |
| `SessionPool` | abstract: an account is absent, being logged in, or served by one session | `factory_logons` (as the property `KeepsPromise`), TLAPS |
| `ModernFactoryProofs` | the theorems about `ModernFactory` | TLAPS |
| `Gateway` (extends `ModernFactory`) | `_run_services`: boot, listeners, connections, signal, shutdown | `gateway` |
| `Translator` | one CM connection: read loop, state machine, client | `translator_session`, `translator_batch` |
| `Conversation` | abstract: the messages a connection has said, in the order of a logon, and whether it is over | `translator_session` (as the property `KeepsToScript`), TLAPS |
| `Codec` | the wire format and the machine-auth messages | `translator_session` |
| `SentinelStore` | the stores of all connections over one file, and their handlers | `sentry_sequential`, `sentry_faults`, `sentry_overlap`, `sentry_crash` |
| `TlsProxy` | one forwarded connection | `tls` |
| `ContentOrigin` | HTTP loop, request handler, depot locks, downloader | `content` |
| `LocalFiles` | files, commands as lists of writes, interruptions | `setup` |
| `ClientPatcher`, `HostsFile`, `Certificates` (extend it) | the commands on the binary, the hosts file, the certificates | `setup` |
| `Setup` (extends the three) | all commands in any order | `setup` |
| `GatewayProofs`, `TranslatorProofs`, `CodecProofs`, `SentinelStoreProofs`, `TlsProxyProofs`, `ContentOriginProofs`, `SetupProofs` | the theorems about the module each is named after | TLAPS |
| `MC*` | the instances: symmetry, small tables, one constraint | |

Bodies marked *Slip* in the modules are plausible errors; no behaviour uses them.
`PROJECT.json` ("mutants") says which definition each one replaces to see its
property fail.

### ModernSession and ModernFactory

`ready[s]` is the future `_ready`; `thread[s]` the place in `_run`; `posted[s]`
what `call_soon_threadsafe` has queued.  The thread's test of `fut.done()` and
the loop's resolution of the future are separate steps.  A coroutine runs
without interruption between two awaits, so one such stretch is one action:
`GetNow` and `GetResumes` are `get()` up to `await session.start()` (with the
look-up, the console prompt that may raise, and the thread started);
`StartReturns` and `StartRaises` are the rest, with what the logon handler does
with the result.  `lock` and `waiters` are asyncio's FIFO lock.

`RunPaths` says which way a session's thread can go.  In an installation without
the `steam` package it is `{"no_steam"}`.  With the package, `_run` looks up
`self._on_error`, a method that stands under `ModernFactory`, and the class as
written can only go `"no_handler"`.  `"login"` is the path the code is written
for, with the handlers in place; the tests reach what lies behind it with
doubles of the session.  `factory_logons` and the proofs allow all three, so
their safety results hold for each.

`SessionPool` is what the class's docstring promises a connection, with no lock,
thread or future.  `KeepsPromise` in `ModernFactory` states the refinement: `pool`
is what serves an account, the lock holder is the attempt for its account, a
connection whose future is no longer unset has used its session, and an active
connection rides on `modern`.  `Create` begins, `StartReturns` succeeds,
`StartRaises` fails, `Reuse` and `LogonOnPreset` join; queueing, closing and the
threads stutter.  `SessionPool` lets several accounts log in at once, which the
factory's single lock does not: the promise is weaker on purpose.

A session whose `start()` raised is dropped, and its thread goes on: Steam may log it
on yet (`LoggedOn`), but no future, no pool and so no `close()` knows of it.
`CloseStopsAllInUse` and `ExitStopsSessions` are about the sessions whose `start()` is
awaited or has returned, and say nothing of such a thread, which is a finding.

The event queue `_events` has no reader and `wait_ready` no caller; both are left
out.  `stop()` joins the thread for up to 3 s, which only delays the loop.

### Gateway

`stage` is where `_run_services` stands, `link[c]` the TCP connection under a
translator's coroutine.  The module reuses `ModernFactory`'s actions for logons and
sessions, and adds what that one leaves free: `preset` is what booting the configured
account yields, `close()` runs once and only after `wait_closed()`, and connections
come and go.  `waits` says whether `wait_closed()` waits for open connections:
it does from Python 3.12 on, which the Dockerfile installs, and did not before;
`ExitStopsSessions` holds only if it does.  A client may half-close, be reset, or
leave its handler waiting in the queue for the lock, where it does not notice.

### Translator

One frame at a time: `task`, `outbox` and `said` are what the handler awaits, has
still to send, and has sent.  `armed` is `_session_key`; `filter` is the client's
end.  A handler that sends several frames suspends at each (`SendNext`), and the
peer may leave between any two (`SendFails`).  A frame encrypted under a key the
connection does not have decodes to garbage, one in the clear on an armed
connection is handled as it stands or, by chance of its padding, is garbage too.
A gateway with a key decrypts any blob it is sent.  If that was not encrypted to its
key, the result is nothing or random bytes that can have a session key's length (the
implicit rejection of the crypto library that `requirements.txt` asks for), whether
the client encrypts to another key (`"foreign"`) or stays in the clear (`"plain"`).
`Shared` says that the ends have a key in common or do not encrypt; `FiltersAgree` and
`JobsConserved` are about those; a gateway that armed a key its client does not have
is a finding.
`ResultFails` is a drain that raises between the 1305 and the change of state.  The client is the simulator of `sim_client.py`,
made freer: it may send any message at any time, and several in a Multi.  A
client that encrypts is tracked by job only for requests it sends once its own
filter is armed.  What the factory and the store decide is a free choice.

`Conversation` is what one connection promises any client, with no protocol state, no
keys and no awaits: which step of a logon may be said behind which, what rules what
out, and that nothing is said when it is over.  A connection may end after any of
them.  `told` is `said`, and it is over when the handler's task is closed
(`Script`); every step of a handler that sends nothing stutters.  `OneLogon` says part
of this of a state and is left to its theorem.

### Codec

Functions on sequences of bytes, translated from `proto.py` and the builders and
parsers of `machineauth.py`.  `Group`, `Width` and `FixedBytes` are 7, 64 and 8 in the
code; the run has 3, 8 and 2, which keep what matters (a byte is a group and a bit,
the last group of a varint may run past the width, a fixed field is the width) and
let TLC try every number.  A message is parsed whole, cut at every length, and with
texts that read as keys.  `CodecKeepsMeaning` adds that the job ids of the requests
the client of `Translator` has open come out of a header as they went in.  The
theorems of `CodecProofs` are about any width, so about the code's own.

### SentinelStore

`disk` is the file, `mem[m]` the copy of machine m's connection.  A handler of
the store has no await before its put, so it is one action, and its reply is
queued in the same one.  A blob and its SHA-1 are one number.  `updated_at`
serves only to find an account's last entry, which `latest` records; two puts in
the same microsecond are not modelled.  `Restart` kills the gateway: only the
file is left.  `SaveFaults` adds a save that leaves the file torn, or fails.
In `agreed`, the history of what a client last confirmed, the model keeps what
the client and the gateway may both rely on.

### TlsProxy

Bytes are numbered pieces.  A side has a transport, a reader's buffer and an end of
stream; closing a transport discards what has not arrived.  A pump ends by closing
its *writer*, and with it the transport the other pump reads: the interplay the
module is about.  `stage` follows `_handle`; time limits are steps that may come at
any moment of the stage they limit.

### ContentOrigin

A depot's `asyncio.Lock` is `holder` and `queue`; `proc[t]` is the downloader that
task t runs.  What is answered without an await is one action.  The cache directory
may have anything an earlier run left; a manifest file can only come from the
operator, since nothing calls `store_manifest`.  A process that was killed writes
nothing more.

### LocalFiles, ClientPatcher, HostsFile, Certificates, Setup

A command reads what it needs, then makes its writes one by one; a kill (or a full
disk) comes before a write or inside one, and leaves a beginning of the file.
`sed -i` replaces a file at once, an append keeps what was there.  `harmed` records
what an interrupted write lost, as no command can restore that; properties speak
of the rest.  A binary is the sequence of its address and key slots with the room
each has; a hosts file is a sequence of lines, a block a header, one entry and a
footer; a certificate is its key and its issuer's.

The user edits the hosts file too: a line of the user's own, before or behind the rest
(`UserAdds`), or the block that `install_hosts.sh --print` printed (`UserPastes`).  A
pasted header reads like the script's, and both tools treat it so; the model gives it
a name of its own to tell who put it there.  `saved` is what the script was to copy
when it found no copy, so that `CopyIsFromBefore` can say that the copy is that text, or
a beginning of it where the cp was interrupted, and has nothing the script wrote.  A
block of the Python tool's or a pasted one may be in it: the script's comment calls
the file "pristine", which is a finding.

## 3. Runs

| Run | Instance | States | Shows |
|---|---|---|---|
| `factory_logons` | 3 connections, 2 accounts, all three run paths, preset or not, close at any time | 460,000 | the safety and action properties hold, and the factory implements `SessionPool` |
| `factory_hang` | the same, `{"no_handler"}`, fair | | *violated*: a logon for another account waits for ever |
| `gateway` | 2 connections, 2 accounts, configured or not, the two run paths with the package installed, a signal at any time, fair | 585,000 | who waits is answered unless a login hangs, a signal ends the process once the clients go, the exit stops every session being started or ready, strangers only after a failed boot |
| `sentry_sequential` | 3 machines, 2 of one account; one connection at a time; 4 blobs | 477,000 | what was told is on disk, sentries survive, no needless push |
| `sentry_faults` | 2 machines of one account connected at once, torn and failed saves, 2 blobs | 1,916,000 | entries never mix files |
| `sentry_overlap` | two connections at a time | | *violated*: a confirmed sentry is replaced |
| `sentry_crash` | torn saves | | *violated*: an account's sentry is lost |
| `translator_session` | each kind of client, 3 free messages, fair; the codec over 8-bit numbers | 527,000 | encryption agreed where a key is shared, one logon and its steps in order, jobs conserved, logon answered; the codec's laws |
| `translator_batch` | plain client, 2 messages in one Multi | | *violated*: the second request gets no reply |
| `tls` | one connection, both listeners, all route kinds, a request of 3 pieces and a response of 4, fair | 58,000 | order, wholeness, both sides closed, always an end |
| `content` | 2 connections of 2 requests, the preload, 2 depots of one app, fair | 129,000 | one downloader, one reply each, no wait for ever, preload complete |
| `setup` | 5 commands on the binary, or 5 on the hosts file, or 1 + 1 + 3 with the certificates; 2 interruptions | 3,159,000 | backups, keys, hosts lines, certificates |

**Bounds.**  Three connections are a lock holder, one that queues for the same
account and one for another; two accounts are the configured one and another.
In `gateway` two connections are enough for a holder and a waiter, and the booted
session makes a third; they are accepted in order (`AcceptedInOrder`), which loses
nothing as they are interchangeable.  It leaves out the path without the package,
which fails as `"login"` may.  Three machines are two that share an account and one
that does not; a blob, its successor, and a bystander's need three of `MaxSentries`,
and `sentry_sequential` has four.  `MaxQueue` limits what is in flight when a client
sends a request, enough for an upload or a read to cross the push.  Three free
messages (`MaxSends`) on top of the client's own reactions are a repeated handshake
message, a logon and a request; `MaxBatch` is the number of messages in a Multi.
Three and four pieces put one piece each in the head, in flight and in a buffer.
Two depots and three tasks give a queue of two behind a lock, and a second lock;
`MaxRequests` is one request after another on a connection.  Five commands are a patch, a swap, an interrupted one, a restore and a fifth; two
kills are a kill and one in its repair; two addresses are one that fits every slot and
one that does not; the binary has two tables, each with Valve's key.  `MaxPairs`
allows every key pair the budget can ask for.  Connections are symmetric where no
liveness is checked; accounts are not.

**Fairness.**  Event-loop tasks that can run do run, callbacks are drained, the OS
runs every thread, and `client.login` returns or raises.  Nothing is assumed of Steam
(it may never log a session on), of whoever sends a signal or calls `close`, or of
clients: where a client has to go for the shutdown to end, `ShutdownEnds` says so.
`gateway` has fairness for groups of tasks; as each task takes finitely many of these
steps, that is the same as fairness to each.  `translator_session` assumes in addition
that the factory answers, which is what `AnsweredUnlessStuck` gives short of a hanging
login, and `factory_hang` shows what one does.  `tls` assumes that the proxy's own
steps go on, which includes its timers and that an attempt to connect comes back
(the OS gives up); `content` that an hour passes, after which the downloader is
killed.  `setup` and the `sentry_*` runs are about safety only.

**Deadlock** is not checked: answered connections, a process that has exited, a
closed connection, a finished preload or spent bounds are proper ends.

## 4. Findings

1. A session's thread dies on a missing handler and the factory's lock is never
   released (`factory_hang`, `modern.py:125`, `220-224`).
2. Each connection has its own copy of the sentry store and overwrites the others'
   (`sentry_overlap`, `translator.py:169`).
3. The sentry file is rewritten in place; a kill in between loses every account's
   sentry (`sentry_crash`, `machineauth.py:392`).
4. Of the messages in a Multi only the first is handled (`translator_batch`,
   `translator.py:546`, `framing.py:95-132`).

These the models have too, and the properties leave them out by the conditions they
name:

5. A session whose `start()` raised is dropped without a `stop()`: its thread runs on,
   the account's next logon starts another, and `close()` finds neither it nor the
   SteamClient it holds (`modern.py:200-203`; not in `CloseStopsAllInUse`).
6. A key blob that was not encrypted to the bridge's key may decrypt to random bytes of
   a session key's length, which the gateway arms, instead of plaintext mode
   (`translator.py:225-228`; `Shared` in `FiltersAgree`).
7. A refused logon leaves the connection open, and every further one is dropped
   (`translator.py:262-266`; `LogonAnswered` is about a logon that is taken up).
8. `sha_for()` answers with the entry put last under any name: after an upload under
   another name a client with the gateway's own, stored sentry is pushed a new one
   (`machineauth.py:362-369`; `agreed` in `NoNeedlessPush`).
9. The script's copy of the "pristine" hosts file has a block if the Python tool or a
   paste came first, and stays short if the cp was cut (`install_hosts.sh:62-66`;
   `CopyIsFromBefore` allows both).

Further disagreements between text and code that were met while modelling are in
`PROJECT.json`, each with its lines.  In short: `decrypt_payload` says it drops a frame
and returns it; a comment puts the arming of the key after 1305; a configured account
that fails at boot leaves the gateway open to every account; a client that half-closes
loses the rest of its response, the forwarder's "idle" limit is a total one, and a
connection is not closed after one request; manifests are never stored, files are
served while they are being written; a patch that skipped slots reports success,
`--verify-key --all-binaries` swaps, a regenerated key is never swapped in, a backup
cut short is trusted; the two hosts tools do not know each other's blocks.

Two more that no text contradicts: `await writer.close()` in `tls_proxy.py:97,106`
raises a `TypeError`, so each refusal is logged as a proxy error (the connection is
closed all the same); and a key file cut short by a kill (`cm-rsa.key`, the CA's, the
leaf's) is reused, and fails to load, until somebody removes it.

## 5. Proofs

Every safety invariant, every action property and both refinements that the passing
runs check are also theorems, for every value of the constants that the named
assumptions allow.  `PROJECT.json`
("theorems") lists the results with the property each one states.

| Module | Theorems | Assumptions and hypotheses |
|---|---|---|
| `ModernFactoryProofs` | `TypesHold`, `OneLogin`, `RidesOwn`, `PoolIsReady`, `ReadyIsLoggedOn`, `LogonStays`, `CloseStopsAll`, `ImplementsPool`; of no run: `CachedStays`, `FirstWins`, `LockMoves` | `FactoryAssumption` |
| `GatewayProofs` | `GatewayTypesHold`, `ExitStopsInUse`, `OthersRefused`; the factory's in the whole process: `FactoryIsSafe`, `ProcessLosesNoLogon`, `ProcessUndoesNothing`, `ProcessLockMoves`, `ProcessImplementsPool` | `FactoryAssumption` |
| `TranslatorProofs` | `TypesHold`, `SharedKeyInStep`, `ScriptIsKept`; `JobsAreConserved`; of no run: `LoggedOnOnce`, `LogonStaysInHand` | `TranslatorAssumption`; `JobsAreConserved`: `MaxBatch = 1` |
| `CodecProofs` | `CodecIsFaithful`; of no run: `VarintsSurvive`, `MessagesSurvive`, `FieldAtForward` | `CodecAssumption`; the first also `TranslatorAssumption`, `MCAssumption` |
| `SentinelStoreProofs` | `TypesHold`, `DataAndShaAgree`; `SentriesSurvive`, `ViewStaysDisk`, `NoPushWithoutNeed` | `StoreAssumption`, `MarkAssumption`; the last three: `MaxLive = 1`; the first of them no torn saves, the other two no failed ones either |
| `TlsProxyProofs` | `TypesHold`, `BytesInOrder`, `ResponseWhole`, `AllClosed` | `ProxyAssumption` |
| `ContentOriginProofs` | `TypesHold`, `OneDownloaderPerDepot`, `RepliesInOrder`; of no run: `DepotLocksMove`, `PreloadIsComplete` | `ContentAssumption` |
| `SetupProofs` | `TypesHold`, `BackupsStay`, `AcceptedKeyIsTheOnlyOne`, `UserLinesStay`, `OneBlockOnly`, `CertificatesStayMatched`; of no run: `BackupStaysOriginal`, `SlotsKeep`, the parts of two of them | `PatcherAssumption`, `AbsentAssumption`, `KillsAssumption` |

The assumptions say of the constants what the code takes for granted: names that are
distinct, marks (`None`, `Torn`, `Absent`) that are no values, bounds that are numbers,
an account for each machine, a binary made of slots each with its room, keys of
Valve's that nobody else has, a fixed field as wide as a number, whose seven bits or
more hold the keys of the messages.  TLC evaluates each of them on the runs.

Each proof is laid out alike: lemmas about the sequences and files a step handles, one
lemma per action that the inductive invariant is preserved, with one step per
conjunct the action can disturb, and the theorems.  What each invariant adds to the
properties, none of which is inductive:

**ModernFactory.**  `OneLoginPerAccount` speaks of two sessions' futures; what keeps
them apart is the lock and the cache, so `IInv` adds

* `SessionInv` - what is posted is true, and a session not started has no thread;
* `LockInv` - the lock is held exactly by the connection awaiting `start()`;
* `PhaseInv` - a connection that waits has created no session yet, and a pending
  session's creator is still awaiting it;
* `PoolInv` - the lock holder's account is not cached; a ready session is the lock
  holder's or its account's cached one; a cached session is ready;
* `RideInv` - an active connection rides on the preset or on its account's cached
  session.

`FixedInv` adds that a factory without a preset never starts its session and that a
connection is born with the preset; it is apart because `Gateway` boots the preset
first, where it does not hold.  `ImplementsPool` needs `PresetInv` besides: with a
preset nobody queues for the lock.  Its lemmas map each action to a step of
`SessionPool`, or to none.  A step of a session's thread or callback is summed up by
`Resolves`: at most a pending future is resolved.

`LockMoves` is what `AnsweredUnlessStuck` has to trust: the lock is held only by a
connection that awaits `start()`, free it is the first waiter's, who is there to take
it, and nobody waits outside the queue.  `QueueInv` adds that the queue has each
waiter once.

**Gateway.**  The factory's lemmas are about single steps, so `IInv` carries over, and
with it what the factory promises: each of its properties is a theorem of the whole
process too, where connections come and go, the preset is booted first and `close()`
is called once.  `ProcessImplementsPool` allows the pool one step more than
`SessionPool` has, `Configured`: the preset is set once, before any session is used.
`ProcessInv` says what the stages of `_run_services` mean for connections and preset.
`StopInv` is the argument for the shutdown: once `wait_closed()` has waited, no
connection is attached, so none can enter `get()`; asyncio's lock is first come first
served, so `close()` is last in its queue, and when it runs nobody is left to start a
session behind it.

**Translator.**  `KeyInv` relates the keys of ends that share one to the frames between
them: the frames to the client are encrypted exactly from the handshake's result on, and as long
as the client has not armed, that result is on its way.  `TalkInv` relates the
protocol state to what was said and is still to be said; `ServerInv` says what the
client's frames can be.  `ScriptInv`, for the refinement, looks at what is still to be
said: the messages of the outbox may be said in that order behind what was said, the
handshake's result is out exactly if the state has moved on, and before a logon is
taken up nothing that comes behind one is said or waiting.  `LogonStaysInHand` is the
safety half of `LogonAnswered`: no step drops a logon, so that only the handler's and
the factory's progress, which is fairness, is left to TLC.  `JobInv` says that the
open requests are exactly those in the frames to the gateway, in the answer being sent
and in the frames to the client, each of these ahead of the one before.  It needs
clients that put one message in a frame: `translator_batch` shows what the code does
with two.

**Codec.**  The model's functions recur over positions, and the prover has no induction
for data, so the module begins with its own: `SetInduction`, from the pigeonhole lemma
of the library, and `Recursion`, that a rule which looks only downwards has a function
that obeys it.  Then upwards.  `Spells` says which bytes are a number's varint,
`Encodes` which are a field, `Heard` what a search finds in a message: each for any
data in which the bytes stand, any place in it, and any place within them where the
data ends, so that a part's law can be used in front of any other part (`SaysBoth`).
What cutting does is said once, of a field: behind a complete one the search goes on,
in an incomplete one it meets an error, bytes that cannot be unpacked, or a beginning
of the text.  `FieldAtForward` is about any bytes, not only those the gateway
writes.

**SentinelStore.**  `DataMatchesSha` is safe from acknowledgements because of
`MsgInv`: one logon per connection, hence one push, and what comes back is the SHA-1
of the sentry pushed.  It holds for any overlap of connections, torn and failed saves
and restarts.  The other three need one connection at a time and the saves they
depend on: `sentry_overlap` shows a confirmed sentry replaced with two connections,
`sentry_crash` a sentry lost with a torn save.  Every
step either leaves the store alone, loads it, or puts an entry in it (`StepKinds`),
and the three follow from that.

**TlsProxy.**  `BufferInv`: what waits in a reader continues what its pump has passed
on, and reaches the last piece sent while the transport is open.  `ResponseInv`
follows the response from there: as long as the client does nothing but send, only
the response's end or a reset ends the pump that carries it.  `StageInv` says what is
open at each stage of `_handle`.

**ContentOrigin.**  `HolderInv`: a task with a process holds that depot's lock.
`QueueInv`: a task that waits wants a depot, and is in its lock's queue.
`DepotLocksMove` is to `EveryoneGetsThrough` what `LockMoves` is to the factory's
liveness: who holds a depot's lock runs a downloader, and a free lock is the first
waiter's.  `PreloadIsComplete` says of the preload that it passes over no entry.

**Setup.**  The invariant is about the files and the writes that the running command
still has before it, since a kill leaves a beginning of what they would make.
`ClientWrites`: the binary is written only behind its backup, and with a good binary
(each slot of its kind and in its room, one key in Valve's slots).  `CertJob`: what is
left of `ensure_bundle_cert` is one of four tails of one plan, and the files before it
match.  `HostsWrites`: what is written has the shape it should, the script's copy
comes before its first block and is of what it found (`saved`).  `KeyWrites`: keys in writes are keys that were made.

A hosts file has its shape (`InShape`) when it is the user's lines with at most one
block in between them, of which the last lines may be missing, at the end of the
file only.  The first sections of `SetupProofs` show that each tool's edit of such a text gives such a
text, with the same user's lines.  The edits keep the lines at some places, which
`LinesAt` defines by counting; its first lemmas turn counts into positions, and
cutting a text around a block into two `SubSeq`s.  `UserLinesStay` and `OneBlockOnly`
have the conditions of their properties: the Python tool has met no block with the
script's header and none was pasted behind another (`mixed`), and no kill has lost what was there (`harmed`).

**Not proved.**  Liveness (`AnsweredUnlessStuck`, `ShutdownEnds`, `LogonAnswered`,
`ConnectionEnds`, `EveryoneGetsThrough`, `PreloadVisitsAll`) rests on
fairness and `ENABLED`, which the prover does not handle, and stays with TLC.  Of three
of them the part that is a safety property is proved: `LockMoves`, `ProcessLockMoves`,
`DepotLocksMove` and `PreloadIsComplete`.

## 6. Not modelled

`PROJECT.json` gives the reason for each component.  Not at all: the configuration
(merged once at start), the analysis and download scripts, packaging and CI.  Of the
modelled ones: the framing's header bytes and Multi's decompression, the ciphers, the
TLS settings, steam ids, tokens and login keys beyond their wire form, what responses
say, file names in a request, validity dates, logging and captures.  `Gateway` follows
the CM listeners only.  `SentinelStore` follows only connections whose logon succeeds.
`ClientPatcher` follows one binary; the others get the same swap.

## 7. Plan

What is left:

1. `Conversation`: which reply answers which request; it lets any reply come at any
   place, and `JobsConserved` says the rest.
2. `SentinelStoreProofs`: what overlapping connections still guarantee each other.
