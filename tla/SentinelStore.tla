---------------------------- MODULE SentinelStore ----------------------------
(***************************************************************************)
(* The Steam Guard sentry store of src/gateway/cm/machineauth.py and the   *)
(* handlers of src/gateway/cm/translator.py that use it.                   *)
(*                                                                         *)
(* There is one file but not one store: every connection builds its own    *)
(* SentinelStore, which loads the file when the connection is accepted,    *)
(* answers from memory, and on each put() rewrites the whole file with     *)
(* what it has in memory.  Messages between a machine and the gateway are  *)
(* FIFO (one TCP connection per machine at a time).                        *)
(*                                                                         *)
(* A sentry blob is a number, which also stands for its SHA-1; NoSha is    *)
(* the empty string.  `updated_at` is only ever compared for the maximum   *)
(* of an account, so a store keeps which entry of an account was put last. *)
(* delete() is left out: the gateway never calls it.                       *)
(***************************************************************************)
EXTENDS Naturals, Sequences, FiniteSets

CONSTANTS
  Machines,      \* client machines
  Accounts,
  AccountOf,     \* the account each machine logs on with
  Filenames,     \* sentry file names
  SentryName,    \* sentry_filename(account), the name the gateway chooses
  MaxSentries,   \* bound: sentry blobs the gateway generates
  MaxQueue,      \* bound: messages in flight when a client sends a request
  MaxLive,       \* how many connections the environment keeps open at once
  SaveFaults,    \* what may go wrong in save(): a subset of {"torn", "skipped"}
  Torn,          \* a file that does not parse
  None

ASSUME StoreAssumption ==
  /\ AccountOf \in [Machines -> Accounts]
  /\ SentryName \in Filenames
  /\ MaxSentries \in Nat /\ MaxQueue \in Nat /\ MaxLive \in Nat
  /\ SaveFaults \subseteq {"torn", "skipped"}

VARIABLES
  disk,       \* the file: a store, or Torn
  mem,        \* _entries of the connection's own SentinelStore
  link,       \* the machine's connection: "down" | "up" | "logon sent"
  toServer,   \* client messages not yet handled
  toClient,   \* gateway messages not yet received
  held,       \* the sentry file on the machine's disk, or NoSha
  minted,     \* how many sentry blobs the gateway has generated
  agreed      \* history: the sentry a client of the account last confirmed,
              \* NoSha once the gateway or an upload has replaced it

vars == <<disk, mem, link, toServer, toClient, held, minted, agreed>>

NoSha == 0
Shas  == 0..MaxSentries

Entries == [sha : Shas, data : Shas]
Shelf   == [entry : [Filenames -> Entries \cup {None}],
            latest : Filenames \cup {None}]
Stores  == [Accounts -> Shelf]

\* No entry, and a file that does not parse, are not entries or stores.
ASSUME MarkAssumption == None \notin Filenames /\ None \notin Entries /\ Torn \notin Stores

ClientMsgs == [type : {"logon", "ack", "upload", "read"},
               file : Filenames, sha : Shas]
ServerMsgs == [type : {"push", "sentry"}, sha : Shas, data : Shas]

TypeOK ==
  /\ disk     \in Stores \cup {Torn}
  /\ mem      \in [Machines -> Stores]
  /\ link     \in [Machines -> {"down", "up", "logon sent"}]
  /\ toServer \in [Machines -> Seq(ClientMsgs)]
  /\ toClient \in [Machines -> Seq(ServerMsgs)]
  /\ held     \in [Machines -> Shas]
  /\ minted   \in Shas
  /\ agreed   \in [Accounts -> Shas]

(***************************************************************************)
(* The store.                                                              *)
(***************************************************************************)

Empty == [a \in Accounts |-> [entry  |-> [f \in Filenames |-> None],
                              latest |-> None]]

Put(store, a, f, e) ==
  [store EXCEPT ![a] = [entry |-> [@.entry EXCEPT ![f] = e], latest |-> f]]

ShaFor(store, a) ==
  IF store[a].latest = None THEN NoSha
                            ELSE store[a].entry[store[a].latest].sha

HasSentry(store, a) == store # Torn /\ store[a].latest # None

\* load(): a file that is missing or does not parse is an empty store.
Load(file) == IF file = Torn THEN Empty ELSE file

\* Slip: the entry is updated in memory and never written.
ForgetSave(store) == disk' = disk

\* save(): write_text truncates the file and rewrites it in place; a kill or an
\* OSError between the two leaves it torn, an OSError before leaves it alone.
\* The connection goes on with what it has in memory.
Save(store) ==
  \/ disk' = store
  \/ "torn" \in SaveFaults /\ disk' = Torn
  \/ "skipped" \in SaveFaults /\ disk' = disk

PutAndSave(m, f, e) ==
  LET store == Put(mem[m], AccountOf[m], f, e) IN
  /\ mem' = [mem EXCEPT ![m] = store]
  /\ Save(store)

(***************************************************************************)
(* The environment: machines connect, talk and go; the gateway restarts.   *)
(***************************************************************************)

Init ==
  /\ disk     = Empty
  /\ mem      = [m \in Machines |-> Empty]
  /\ link     = [m \in Machines |-> "down"]
  /\ toServer = [m \in Machines |-> <<>>]
  /\ toClient = [m \in Machines |-> <<>>]
  /\ held     = [m \in Machines |-> NoSha]
  /\ minted   = 0
  /\ agreed   = [a \in Accounts |-> NoSha]

Live == {m \in Machines : link[m] # "down"}

\* Slip: the file is loaded only when its name is first configured.
ConnectEmpty(m) ==
  /\ link[m] = "down" /\ Cardinality(Live) < MaxLive
  /\ link' = [link EXCEPT ![m] = "up"]
  /\ mem'  = [mem EXCEPT ![m] = Empty]
  /\ UNCHANGED <<disk, toServer, toClient, held, minted, agreed>>

\* The connection is accepted: TranslatorSession builds its SentinelStore.
Connect(m) ==
  /\ link[m] = "down" /\ Cardinality(Live) < MaxLive
  /\ link' = [link EXCEPT ![m] = "up"]
  /\ mem'  = [mem EXCEPT ![m] = Load(disk)]
  /\ UNCHANGED <<disk, toServer, toClient, held, minted, agreed>>

Drop(ms) ==
  /\ link'     = [m \in Machines |-> IF m \in ms THEN "down" ELSE link[m]]
  /\ mem'      = [m \in Machines |-> IF m \in ms THEN Empty  ELSE mem[m]]
  /\ toServer' = [m \in Machines |-> IF m \in ms THEN <<>>   ELSE toServer[m]]
  /\ toClient' = [m \in Machines |-> IF m \in ms THEN <<>>   ELSE toClient[m]]

\* The connection ends, with messages in flight either way.
Disconnect(m) ==
  /\ link[m] # "down"
  /\ Drop({m})
  /\ UNCHANGED <<disk, held, minted, agreed>>

\* The gateway is killed and started again: only the file is left.
Restart ==
  /\ Live # {}
  /\ Drop(Machines)
  /\ UNCHANGED <<disk, held, minted, agreed>>

Send(m, type, file, sha) ==
  toServer' = [toServer EXCEPT ![m] =
                 Append(@, [type |-> type, file |-> file, sha |-> sha])]

\* The client presents sha_sentryfile, if it has a sentry file.
SendLogon(m) ==
  /\ link[m] = "up"
  /\ link' = [link EXCEPT ![m] = "logon sent"]
  /\ Send(m, "logon", SentryName, held[m])
  /\ UNCHANGED <<disk, mem, toClient, held, minted, agreed>>

CanSend(m) ==
  /\ link[m] = "logon sent"
  /\ Len(toServer[m]) + Len(toClient[m]) < MaxQueue

\* ClientRequestMachineAuth: the metadata of the sentry the client has.
SendUpload(m) ==
  /\ CanSend(m) /\ held[m] # NoSha
  /\ \E f \in Filenames : Send(m, "upload", f, held[m])
  /\ UNCHANGED <<disk, mem, link, toClient, held, minted, agreed>>

SendRead(m) ==
  /\ CanSend(m)
  /\ \E f \in Filenames : Send(m, "read", f, NoSha)
  /\ UNCHANGED <<disk, mem, link, toClient, held, minted, agreed>>

\* The client writes the pushed sentry file and confirms with the SHA-1 of what
\* it wrote, or with an empty one when it could not write.
WriteSentry(m) ==
  /\ toClient[m] # <<>> /\ Head(toClient[m]).type = "push"
  /\ toClient' = [toClient EXCEPT ![m] = Tail(@)]
  /\ \E wrote \in {Head(toClient[m]).sha, NoSha} :
       /\ held' = [held EXCEPT ![m] = wrote]
       /\ Send(m, "ack", SentryName, wrote)
  /\ UNCHANGED <<disk, mem, link, minted, agreed>>

\* The client receives the sentry it asked for.
TakeSentry(m) ==
  /\ toClient[m] # <<>> /\ Head(toClient[m]).type = "sentry"
  /\ toClient' = [toClient EXCEPT ![m] = Tail(@)]
  /\ UNCHANGED <<disk, mem, link, toServer, held, minted, agreed>>

(***************************************************************************)
(* The handlers of a connection.                                           *)
(***************************************************************************)

Handles(m, type) ==
  /\ toServer[m] # <<>> /\ Head(toServer[m]).type = type
  /\ toServer' = [toServer EXCEPT ![m] = Tail(@)]

Reply(m, type, sha, data) ==
  toClient' = [toClient EXCEPT ![m] =
                 Append(@, [type |-> type, sha |-> sha, data |-> data])]

\* The end of _send_logon_success, when the client presented the sentry the
\* store has: nothing is pushed.
LogonKnown(m) ==
  LET shown == Head(toServer[m]).sha IN
  /\ Handles(m, "logon")
  /\ shown # NoSha /\ shown = ShaFor(mem[m], AccountOf[m])
  /\ UNCHANGED <<disk, mem, link, toClient, held, minted, agreed>>

\* ... and when it did not: _send_update_machine_auth stores a fresh blob under
\* the account's own file name, saves, and only then sends it.
LogonPushes(m) ==
  LET shown == Head(toServer[m]).sha
      blob  == minted + 1
  IN
  /\ Handles(m, "logon")
  /\ shown = NoSha \/ shown # ShaFor(mem[m], AccountOf[m])
  /\ minted < MaxSentries
  /\ minted' = blob
  /\ PutAndSave(m, SentryName, [sha |-> blob, data |-> blob])
  /\ Reply(m, "push", blob, blob)
  /\ agreed' = [agreed EXCEPT ![AccountOf[m]] = NoSha]
  /\ UNCHANGED <<link, held>>

\* _on_ClientUpdateMachineAuthResponse: the client's SHA-1 replaces ours, unless
\* it is empty; the data stays.
HandleAck(m) ==
  LET msg == Head(toServer[m])
      old == mem[m][AccountOf[m]].entry[msg.file]
      new == [old EXCEPT !.sha = IF msg.sha = NoSha THEN @ ELSE msg.sha]
  IN
  /\ Handles(m, "ack")
  /\ IF old = None THEN UNCHANGED <<mem, disk>> ELSE PutAndSave(m, msg.file, new)
  /\ agreed' = [agreed EXCEPT ![AccountOf[m]] = msg.sha]
  /\ UNCHANGED <<link, toClient, held, minted>>

\* Slip: the upload carries no bytes, so those of the old entry are kept.
UploadKeepingData(m) ==
  LET msg == Head(toServer[m])
      old == mem[m][AccountOf[m]].entry[msg.file]
  IN
  /\ Handles(m, "upload")
  /\ PutAndSave(m, msg.file,
       [sha |-> msg.sha, data |-> IF old = None THEN NoSha ELSE old.data])
  /\ agreed' = [agreed EXCEPT ![AccountOf[m]] = NoSha]
  /\ UNCHANGED <<link, toClient, held, minted>>

\* _on_ClientRequestMachineAuth: a new entry with the client's metadata and no
\* data replaces the one of that name.
HandleUpload(m) ==
  LET msg == Head(toServer[m]) IN
  /\ Handles(m, "upload")
  /\ PutAndSave(m, msg.file, [sha |-> msg.sha, data |-> NoSha])
  /\ agreed' = [agreed EXCEPT ![AccountOf[m]] = NoSha]
  /\ UNCHANGED <<link, toClient, held, minted>>

\* Slip: the fields of a missing entry are sent as they are.
ReadMissAsNone(m) ==
  LET msg == Head(toServer[m])
      e   == mem[m][AccountOf[m]].entry[msg.file]
  IN
  /\ Handles(m, "read")
  /\ IF e = None THEN Reply(m, "sentry", None, None)
                 ELSE Reply(m, "sentry", e.sha, e.data)
  /\ UNCHANGED <<disk, mem, link, held, minted, agreed>>

\* _on_ClientReadMachineAuth: serve the entry of that name, or a miss.
HandleRead(m) ==
  LET msg == Head(toServer[m])
      e   == mem[m][AccountOf[m]].entry[msg.file]
  IN
  /\ Handles(m, "read")
  /\ IF e = None THEN Reply(m, "sentry", NoSha, NoSha)
                 ELSE Reply(m, "sentry", e.sha, e.data)
  /\ UNCHANGED <<disk, mem, link, held, minted, agreed>>

Environment(m) ==
  \/ Connect(m) \/ Disconnect(m)
  \/ SendLogon(m) \/ SendUpload(m) \/ SendRead(m)
  \/ WriteSentry(m) \/ TakeSentry(m)

Handler(m) ==
  \/ LogonKnown(m) \/ LogonPushes(m)
  \/ HandleAck(m) \/ HandleUpload(m) \/ HandleRead(m)

Next == Restart \/ \E m \in Machines : Environment(m) \/ Handler(m)

Spec == Init /\ [][Next]_vars

(***************************************************************************)
(* Properties.                                                             *)
(***************************************************************************)

\* What a live connection answers from is what is on disk: nothing it has told
\* a client would be forgotten by a restart.
ViewIsDisk == \A m \in Live : mem[m] = Load(disk)

Sound(store) ==
  \A a \in Accounts, f \in Filenames :
    LET e == store[a].entry[f] IN
    e # None => e.data \in {NoSha, e.sha}

\* Wherever an entry holds the bytes of a sentry, its SHA-1 is theirs, so a
\* ReadMachineAuth hit never hands out a file under another file's hash.
DataMatchesSha == Sound(Load(disk)) /\ \A m \in Machines : Sound(mem[m])

\* The store survives restarts: an account that has a sentry on disk has one
\* after every step, whoever else saves and whenever the gateway is killed.
StoreKeeps ==
  [][\A a \in Accounts : HasSentry(disk, a) => HasSentry(disk', a)]_vars

\* The account's sentry stays stable across sessions: a client that logs on
\* with the sentry it confirmed, which nothing has replaced since, is not given
\* another one.
NoNeedlessPush ==
  [][\A m \in Machines :
       LogonPushes(m) =>
         LET shown == Head(toServer[m]).sha IN
         shown = NoSha \/ shown # agreed[AccountOf[m]]]_vars
===============================================================================
