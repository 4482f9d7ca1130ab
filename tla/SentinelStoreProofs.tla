------------------------ MODULE SentinelStoreProofs ------------------------
(***************************************************************************)
(* SentinelStore, for any machines, accounts and file names.  Whatever     *)
(* goes wrong, an entry's bytes are those of its SHA-1.  That the view of  *)
(* a connection is the file, that sentries survive and that none is pushed *)
(* needlessly hold with one connection at a time only, and only as long as *)
(* the saves they depend on complete: these are hypotheses of the last     *)
(* three theorems, and the runs without them show what happens otherwise.  *)
(*                                                                         *)
(* MsgInv says why an acknowledgement is safe to apply: what comes back is *)
(* the SHA-1 of the sentry that this connection pushed, and there is one   *)
(* push per connection, since there is one logon.                          *)
(***************************************************************************)
EXTENDS SentinelStore, SequenceTheorems, FiniteSetTheorems, TLAPS

\* The logon comes first in a client's queue q, before any answer in r and any
\* acknowledgement.
LogonFirst(q, r) ==
  \A i \in 1..Len(q) : q[i].type = "logon" =>
    i = 1 /\ r = <<>> /\ \A j \in 1..Len(q) : q[j].type # "ack"

\* A shelf has an entry for the sentry that was pushed, and no other bytes.
Echo(shelf, sha) ==
  LET e == shelf.entry[SentryName]
  IN  e # None /\ e.data \in {NoSha, sha}

PushesEcho(r, shelf) ==
  \A i \in 1..Len(r) : r[i].type = "push" => Echo(shelf, r[i].sha)

AcksEcho(q, shelf) ==
  \A i \in 1..Len(q) : q[i].type = "ack" =>
    q[i].file = SentryName /\ (q[i].sha = NoSha \/ Echo(shelf, q[i].sha))

MsgInv ==
  \A m \in Machines :
    LET shelf == mem[m][AccountOf[m]]
    IN  /\ LogonFirst(toServer[m], toClient[m])
        /\ PushesEcho(toClient[m], shelf) /\ AcksEcho(toServer[m], shelf)
        \* before its logon and after its end a connection has nothing in flight
        /\ link[m] # "logon sent" => toServer[m] = <<>> /\ toClient[m] = <<>>

IInv == TypeOK /\ MsgInv /\ DataMatchesSha

-------------------------------------------------------------------------------

\* Joining a queue: what was there stays where it was.
LEMMA AppendAll ==
  ASSUME NEW S, NEW q \in Seq(S), NEW x \in S
  PROVE  /\ Append(q, x) \in Seq(S) /\ Len(q) \in Nat /\ Len(Append(q, x)) = Len(q) + 1
         /\ \A i \in 1..(Len(q) + 1) :
              Append(q, x)[i] = IF i <= Len(q) THEN q[i] ELSE x
<1>1. /\ Append(q, x) \in Seq(S) /\ Len(q) \in Nat /\ Len(Append(q, x)) = Len(q) + 1
      /\ \A i \in 1..Len(q) : Append(q, x)[i] = q[i]
      /\ Append(q, x)[Len(q) + 1] = x
  BY AppendProperties, LenProperties
<1> QED
  BY <1>1

\* Leaving a queue: what was second is first now.
LEMMA TailAll ==
  ASSUME NEW S, NEW q \in Seq(S), q # <<>>
  PROVE  /\ Tail(q) \in Seq(S) /\ Head(q) \in S /\ Head(q) = q[1]
         /\ Len(q) \in Nat /\ 1 \in 1..Len(q)
         /\ \A i \in 1..Len(Tail(q)) : i + 1 \in 2..Len(q) /\ Tail(q)[i] = q[i + 1]
<1>1. /\ Tail(q) \in Seq(S) /\ Head(q) \in S /\ Head(q) = q[1]
      /\ Len(q) \in Nat /\ Len(q) # 0 /\ Len(Tail(q)) = Len(q) - 1
      /\ \A i \in 1..Len(Tail(q)) : Tail(q)[i] = q[i + 1]
  BY HeadTailProperties, LenProperties
<1> QED
  BY <1>1

\* The empty store: sound, and without a sentry.
LEMMA EmptyIsStore ==
  /\ Empty \in Stores /\ Sound(Empty)
  /\ \A a \in Accounts : ~HasSentry(Empty, a) /\ ShaFor(Empty, a) = NoSha
<1>1. Empty \in Stores
  BY DEF Empty, Stores, Shelf
<1>2. \A a \in Accounts : /\ Empty[a].latest = None
                          /\ \A f \in Filenames : Empty[a].entry[f] = None
  BY DEF Empty
<1> QED
  BY <1>1, <1>2 DEF Sound, HasSentry, ShaFor

\* Whatever the file holds, SentinelStore._load makes a store of it.
LEMMA LoadIsStore == \A file \in Stores \cup {Torn} : Load(file) \in Stores
BY EmptyIsStore DEF Load

\* The empty file, and nobody connected.
LEMMA InitInv == Init => IInv
<1> SUFFICES ASSUME Init PROVE IInv
  OBVIOUS
<1> USE DEF Init
<1>1. TypeOK
  BY EmptyIsStore, StoreAssumption DEF TypeOK, Shas, NoSha
<1>2. MsgInv
  BY DEF MsgInv, LogonFirst, PushesEcho, AcksEcho
<1>3. DataMatchesSha
  BY EmptyIsStore DEF DataMatchesSha, Load
<1> QED
  BY <1>1, <1>2, <1>3 DEF IInv

-------------------------------------------------------------------------------

\* What put() makes of a store.
LEMMA PutIsStore ==
  ASSUME NEW store \in Stores, NEW a \in Accounts, NEW f \in Filenames, NEW e \in Entries
  PROVE  /\ Put(store, a, f, e) \in Stores
         /\ Put(store, a, f, e)[a].latest = f
         /\ Put(store, a, f, e)[a].entry[f] = e
         /\ \A g \in Filenames \ {f} : Put(store, a, f, e)[a].entry[g] = store[a].entry[g]
         /\ \A b \in Accounts \ {a} : Put(store, a, f, e)[b] = store[b]
         /\ HasSentry(Put(store, a, f, e), a) /\ ShaFor(Put(store, a, f, e), a) = e.sha
<1> DEFINE shelf == [entry |-> [store[a].entry EXCEPT ![f] = e], latest |-> f]
<1>1. store[a].entry \in [Filenames -> Entries \cup {None}]
  BY DEF Stores, Shelf
<1>2. shelf \in Shelf
  BY <1>1 DEF Shelf
<1>3. Put(store, a, f, e) = [store EXCEPT ![a] = shelf]
  BY DEF Put
<1>4. Put(store, a, f, e) \in Stores /\ Put(store, a, f, e)[a] = shelf
  BY <1>2, <1>3 DEF Stores
<1>5. \A b \in Accounts \ {a} : Put(store, a, f, e)[b] = store[b]
  BY <1>3 DEF Stores
<1>6. /\ shelf.latest = f /\ shelf.entry[f] = e
      /\ \A g \in Filenames \ {f} : shelf.entry[g] = store[a].entry[g]
  BY <1>1
<1>7. f # None /\ Put(store, a, f, e) # Torn
  BY <1>4, MarkAssumption
<1> QED
  BY <1>4, <1>5, <1>6, <1>7 DEF HasSentry, ShaFor

\* A store stays sound when an entry is put whose data, if it has some, hashes to its sha.
LEMMA PutIsSound ==
  ASSUME NEW store \in Stores, NEW a \in Accounts, NEW f \in Filenames, NEW e \in Entries,
         Sound(store), e.data \in {NoSha, e.sha}
  PROVE  Sound(Put(store, a, f, e))
<1> DEFINE new == Put(store, a, f, e)
<1>1. /\ new[a].entry[f] = e
      /\ \A g \in Filenames \ {f} : new[a].entry[g] = store[a].entry[g]
      /\ \A b \in Accounts \ {a} : new[b] = store[b]
  <2>1. new[a].entry[f] = e
    BY PutIsStore
  <2>2. \A g \in Filenames \ {f} : new[a].entry[g] = store[a].entry[g]
    BY PutIsStore
  <2>3. \A b \in Accounts \ {a} : new[b] = store[b]
    BY PutIsStore
  <2> QED
    BY <2>1, <2>2, <2>3
<1>2. ASSUME NEW b \in Accounts, NEW g \in Filenames, new[b].entry[g] # None
      PROVE  new[b].entry[g].data \in {NoSha, new[b].entry[g].sha}
  <2>1. CASE b = a /\ g = f
    BY <1>1, <2>1
  <2>2. CASE ~(b = a /\ g = f)
    <3>1. new[b].entry[g] = store[b].entry[g]
      BY <1>1, <2>2
    <3> QED
      BY <1>2, <3>1 DEF Sound
  <2> QED
    BY <2>1, <2>2
<1> QED
  BY <1>2 DEF Sound

\* What a handler that puts leaves behind.
LEMMA PutAndSaveKeeps ==
  ASSUME TypeOK, DataMatchesSha, NEW m \in Machines, NEW f \in Filenames, NEW e \in Entries,
         e.data \in {NoSha, e.sha}, PutAndSave(m, f, e)
  PROVE  /\ disk' \in Stores \cup {Torn} /\ mem' \in [Machines -> Stores]
         /\ mem'[m] = Put(mem[m], AccountOf[m], f, e)
         /\ \A n \in Machines \ {m} : mem'[n] = mem[n]
         /\ DataMatchesSha'
<1> DEFINE store == Put(mem[m], AccountOf[m], f, e)
<1>1. mem[m] \in Stores /\ AccountOf[m] \in Accounts /\ Sound(mem[m]) /\ Sound(Load(disk))
  BY StoreAssumption DEF TypeOK, DataMatchesSha
<1>2. store \in Stores /\ Sound(store) /\ Load(store) = store
  <2>1. store \in Stores
    BY <1>1, PutIsStore
  <2>2. Sound(store)
    BY <1>1, PutIsSound
  <2> QED
    BY <2>1, <2>2, MarkAssumption DEF Load
<1>3. mem' = [mem EXCEPT ![m] = store] /\ disk' \in {store, Torn, disk}
  BY DEF PutAndSave, Save
<1>4. Sound(Load(Torn))
  BY EmptyIsStore DEF Load
<1>5. disk' \in Stores \cup {Torn} /\ Sound(Load(disk'))
  BY <1>1, <1>2, <1>3, <1>4 DEF TypeOK
<1>6. /\ mem' \in [Machines -> Stores] /\ mem'[m] = store
      /\ \A n \in Machines \ {m} : mem'[n] = mem[n]
  BY <1>2, <1>3 DEF TypeOK
<1>7. \A n \in Machines : Sound(mem'[n])
  BY <1>2, <1>6 DEF DataMatchesSha
<1> QED
  BY <1>5, <1>6, <1>7 DEF DataMatchesSha

-------------------------------------------------------------------------------

\* The queues: what an Append and a Tail keep.
LEMMA AppendServer ==
  ASSUME NEW q \in Seq(ClientMsgs), NEW r, NEW shelf, NEW msg \in ClientMsgs,
         LogonFirst(q, r), AcksEcho(q, shelf), msg.type # "logon",
         msg.type = "ack" =>
           r # <<>> /\ msg.file = SentryName /\ (msg.sha = NoSha \/ Echo(shelf, msg.sha))
  PROVE  /\ Append(q, msg) \in Seq(ClientMsgs)
         /\ LogonFirst(Append(q, msg), r) /\ AcksEcho(Append(q, msg), shelf)
<1> DEFINE p == Append(q, msg)
<1>1. /\ p \in Seq(ClientMsgs) /\ Len(q) \in Nat /\ Len(p) = Len(q) + 1
      /\ \A i \in 1..(Len(q) + 1) : p[i] = IF i <= Len(q) THEN q[i] ELSE msg
  BY AppendAll
<1> HIDE DEF p
<1>2. \A i \in 1..Len(p) : p[i] = msg \/ (i \in 1..Len(q) /\ p[i] = q[i])
  BY <1>1
<1>3. ASSUME NEW i \in 1..Len(p), p[i].type = "logon"
      PROVE  i = 1 /\ r = <<>> /\ \A j \in 1..Len(p) : p[j].type # "ack"
  <2>1. i \in 1..Len(q) /\ q[i].type = "logon"
    BY <1>2, <1>3
  <2>2. i = 1 /\ r = <<>> /\ \A j \in 1..Len(q) : q[j].type # "ack"
    BY <2>1 DEF LogonFirst
  <2> QED
    BY <1>2, <2>2
<1>4. AcksEcho(p, shelf)
  BY <1>2 DEF AcksEcho
<1> QED
  BY <1>1, <1>3, <1>4 DEF LogonFirst, p

\* The bridge takes a client's first message: the rest echo as before.
LEMMA TailServer ==
  ASSUME NEW q \in Seq(ClientMsgs), q # <<>>, NEW r, NEW r2, NEW shelf,
         LogonFirst(q, r), AcksEcho(q, shelf)
  PROVE  /\ Tail(q) \in Seq(ClientMsgs) /\ Head(q) \in ClientMsgs
         /\ LogonFirst(Tail(q), r2) /\ AcksEcho(Tail(q), shelf)
         /\ Head(q).type = "ack" =>
              Head(q).file = SentryName /\ (Head(q).sha = NoSha \/ Echo(shelf, Head(q).sha))
         /\ Head(q).type = "logon" => r = <<>> /\ \A s : AcksEcho(Tail(q), s)
<1> DEFINE p == Tail(q)
<1>1. /\ p \in Seq(ClientMsgs) /\ Head(q) \in ClientMsgs /\ Head(q) = q[1] /\ 1 \in 1..Len(q)
      /\ \A i \in 1..Len(p) : i + 1 \in 2..Len(q) /\ p[i] = q[i + 1]
  BY TailAll
<1> HIDE DEF p
<1>2. \A i \in 1..Len(p) : \E j \in 1..Len(q) : j # 1 /\ p[i] = q[j]
  BY <1>1
<1>3. \A i \in 1..Len(p) : p[i].type # "logon"
  BY <1>2 DEF LogonFirst
<1>4. AcksEcho(p, shelf)
  BY <1>2 DEF AcksEcho
<1>5. ASSUME Head(q).type = "logon" PROVE r = <<>> /\ \A i \in 1..Len(p) : p[i].type # "ack"
  <2>1. r = <<>> /\ \A j \in 1..Len(q) : q[j].type # "ack"
    BY <1>1, <1>5 DEF LogonFirst
  <2> QED
    BY <1>2, <2>1
<1>6. Head(q).type = "ack" =>
        Head(q).file = SentryName /\ (Head(q).sha = NoSha \/ Echo(shelf, Head(q).sha))
  BY <1>1 DEF AcksEcho
<1> QED
  BY <1>1, <1>3, <1>4, <1>5, <1>6 DEF LogonFirst, AcksEcho, p

\* The bridge sends one more message.
LEMMA AppendClient ==
  ASSUME NEW r \in Seq(ServerMsgs), NEW shelf, NEW msg \in ServerMsgs,
         PushesEcho(r, shelf), msg.type = "push" => Echo(shelf, msg.sha)
  PROVE  Append(r, msg) \in Seq(ServerMsgs) /\ PushesEcho(Append(r, msg), shelf)
<1> DEFINE p == Append(r, msg)
<1>1. /\ p \in Seq(ServerMsgs) /\ Len(r) \in Nat /\ Len(p) = Len(r) + 1
      /\ \A i \in 1..(Len(r) + 1) : p[i] = IF i <= Len(r) THEN r[i] ELSE msg
  BY AppendAll
<1> HIDE DEF p
<1>2. \A i \in 1..Len(p) : p[i] = msg \/ (i \in 1..Len(r) /\ p[i] = r[i])
  BY <1>1
<1>3. PushesEcho(p, shelf)
  BY <1>2 DEF PushesEcho
<1> QED
  BY <1>1, <1>3 DEF p

\* The client takes the first message.
LEMMA TailClient ==
  ASSUME NEW r \in Seq(ServerMsgs), NEW shelf, r # <<>>, PushesEcho(r, shelf)
  PROVE  /\ Tail(r) \in Seq(ServerMsgs) /\ PushesEcho(Tail(r), shelf)
         /\ Head(r) \in ServerMsgs
         /\ Head(r).type = "push" => Echo(shelf, Head(r).sha)
<1> DEFINE p == Tail(r)
<1>1. /\ p \in Seq(ServerMsgs) /\ Head(r) \in ServerMsgs /\ Head(r) = r[1] /\ 1 \in 1..Len(r)
      /\ \A i \in 1..Len(p) : i + 1 \in 2..Len(r) /\ p[i] = r[i + 1]
  BY TailAll
<1> HIDE DEF p
<1>2. \A i \in 1..Len(p) : \E j \in 1..Len(r) : p[i] = r[j]
  BY <1>1
<1>3. PushesEcho(p, shelf)
  BY <1>2 DEF PushesEcho
<1> QED
  BY <1>1, <1>3 DEF PushesEcho, p

\* Echoes survive what leaves an entry's bytes alone or drops them.
LEMMA EchoKept ==
  ASSUME NEW old, NEW new, NEW q, NEW r, AcksEcho(q, old), PushesEcho(r, old),
         LET e  == old.entry[SentryName]
             e2 == new.entry[SentryName]
         IN  e2 = e \/ (e2 # None /\ e2.data \in {NoSha, e.data})
  PROVE  /\ AcksEcho(q, new) /\ PushesEcho(r, new)
         /\ \A sha : Echo(old, sha) => Echo(new, sha)
<1>1. \A sha : Echo(old, sha) => Echo(new, sha)
  BY DEF Echo
<1> QED
  BY <1>1 DEF AcksEcho, PushesEcho

-------------------------------------------------------------------------------

\* A step of one machine's connection.
LEMMA OneMoves ==
  ASSUME MsgInv, NEW m \in Machines,
         \A n \in Machines \ {m} : /\ link'[n] = link[n] /\ mem'[n] = mem[n]
                                   /\ toServer'[n] = toServer[n] /\ toClient'[n] = toClient[n],
         LogonFirst(toServer'[m], toClient'[m]),
         PushesEcho(toClient'[m], mem'[m][AccountOf[m]]),
         AcksEcho(toServer'[m], mem'[m][AccountOf[m]]),
         link'[m] # "logon sent" => toServer'[m] = <<>> /\ toClient'[m] = <<>>
  PROVE  MsgInv'
BY DEF MsgInv

\* What the invariant says of one machine.
LEMMA MachineTypes ==
  ASSUME IInv, NEW m \in Machines
  PROVE  /\ toServer[m] \in Seq(ClientMsgs) /\ toClient[m] \in Seq(ServerMsgs)
         /\ mem[m] \in Stores /\ AccountOf[m] \in Accounts /\ held[m] \in Shas
         /\ LogonFirst(toServer[m], toClient[m])
         /\ PushesEcho(toClient[m], mem[m][AccountOf[m]])
         /\ AcksEcho(toServer[m], mem[m][AccountOf[m]])
         /\ link[m] # "logon sent" => toServer[m] = <<>> /\ toClient[m] = <<>>
BY StoreAssumption DEF IInv, TypeOK, MsgInv

\* Nothing is wrong with empty queues.
LEMMA EmptyQueues ==
  \A shelf : LogonFirst(<<>>, <<>>) /\ PushesEcho(<<>>, shelf) /\ AcksEcho(<<>>, shelf)
BY DEF LogonFirst, PushesEcho, AcksEcho

\* No sha is among the shas.
LEMMA ShaTypes == NoSha \in Shas /\ MaxSentries \in Nat
BY StoreAssumption DEF Shas, NoSha

\* A connection loads the store.
LEMMA ConnectKeeps ==
  ASSUME IInv, NEW m \in Machines, Connect(m)
  PROVE  IInv'
<1>1. /\ link[m] = "down" /\ link' = [link EXCEPT ![m] = "up"]
      /\ mem' = [mem EXCEPT ![m] = Load(disk)]
      /\ UNCHANGED <<disk, toServer, toClient, held, minted, agreed>>
  BY DEF Connect
<1>2. Load(disk) \in Stores
  BY LoadIsStore DEF IInv, TypeOK
<1>3. TypeOK'
  BY <1>1, <1>2 DEF IInv, TypeOK
<1>4. toServer'[m] = <<>> /\ toClient'[m] = <<>>
  BY <1>1, MachineTypes
<1>5. \A n \in Machines \ {m} : link'[n] = link[n] /\ mem'[n] = mem[n]
  BY <1>1 DEF IInv, TypeOK
<1>6. MsgInv'
  BY <1>1, <1>4, <1>5, EmptyQueues, OneMoves DEF IInv
<1>7. DataMatchesSha'
  BY <1>1 DEF IInv, TypeOK, DataMatchesSha
<1> QED
  BY <1>3, <1>6, <1>7 DEF IInv

\* A connection goes, and with it what was under way.
LEMMA DropKeeps ==
  ASSUME IInv, NEW ms, ms \subseteq Machines, Drop(ms), UNCHANGED <<disk, held, minted, agreed>>
  PROVE  IInv'
<1>1. TypeOK'
  <2>1. <<>> \in Seq(ClientMsgs) /\ <<>> \in Seq(ServerMsgs)
    OBVIOUS
  <2>2. link' \in [Machines -> {"down", "up", "logon sent"}] /\ mem' \in [Machines -> Stores]
    BY EmptyIsStore DEF IInv, TypeOK, Drop
  <2>3. toServer' \in [Machines -> Seq(ClientMsgs)] /\ toClient' \in [Machines -> Seq(ServerMsgs)]
    BY <2>1 DEF IInv, TypeOK, Drop
  <2> QED
    BY <2>2, <2>3 DEF IInv, TypeOK
<1>2. \A m \in ms : /\ mem'[m] = Empty /\ toServer'[m] = <<>> /\ toClient'[m] = <<>>
  BY DEF Drop
<1>3. \A m \in Machines \ ms : /\ link'[m] = link[m] /\ mem'[m] = mem[m]
                               /\ toServer'[m] = toServer[m] /\ toClient'[m] = toClient[m]
  BY DEF Drop
<1>4. MsgInv'
  BY <1>2, <1>3, EmptyQueues DEF IInv, MsgInv
<1>5. DataMatchesSha'
  BY <1>2, <1>3, EmptyIsStore DEF IInv, DataMatchesSha
<1> QED
  BY <1>1, <1>4, <1>5 DEF IInv

\* The message that Send puts into the queue.
LEMMA SendQueues ==
  ASSUME IInv, NEW m \in Machines, NEW type, NEW file \in Filenames, NEW sha \in Shas,
         type \in {"logon", "ack", "upload", "read"}, Send(m, type, file, sha)
  PROVE  LET msg == [type |-> type, file |-> file, sha |-> sha]
         IN  /\ msg \in ClientMsgs
             /\ toServer' \in [Machines -> Seq(ClientMsgs)]
             /\ toServer'[m] = Append(toServer[m], msg)
             /\ \A n \in Machines \ {m} : toServer'[n] = toServer[n]
<1> DEFINE msg == [type |-> type, file |-> file, sha |-> sha]
<1>1. msg \in ClientMsgs
  BY DEF ClientMsgs
<1>2. toServer[m] \in Seq(ClientMsgs) /\ toServer \in [Machines -> Seq(ClientMsgs)]
  BY DEF IInv, TypeOK
<1>3. toServer' = [toServer EXCEPT ![m] = Append(toServer[m], msg)]
  BY DEF Send
<1> HIDE DEF msg
<1>4. Append(toServer[m], msg) \in Seq(ClientMsgs)
  BY <1>1, <1>2, AppendAll
<1>5. /\ toServer' \in [Machines -> Seq(ClientMsgs)]
      /\ toServer'[m] = Append(toServer[m], msg)
      /\ \A n \in Machines \ {m} : toServer'[n] = toServer[n]
  BY <1>2, <1>3, <1>4
<1> QED
  BY <1>1, <1>5 DEF msg

\* The client logs on with the sha that it has.
LEMMA SendLogonKeeps ==
  ASSUME IInv, NEW m \in Machines, SendLogon(m)
  PROVE  IInv'
<1> DEFINE msg == [type |-> "logon", file |-> SentryName, sha |-> held[m]]
<1>1. /\ link[m] = "up" /\ link' = [link EXCEPT ![m] = "logon sent"]
      /\ Send(m, "logon", SentryName, held[m])
      /\ UNCHANGED <<disk, mem, toClient, held, minted, agreed>>
  BY DEF SendLogon
<1>2. /\ toServer[m] = <<>> /\ toClient[m] = <<>> /\ held[m] \in Shas
  BY <1>1, MachineTypes
<1>3. /\ msg \in ClientMsgs /\ toServer' \in [Machines -> Seq(ClientMsgs)]
      /\ toServer'[m] = Append(toServer[m], msg)
      /\ \A n \in Machines \ {m} : toServer'[n] = toServer[n]
  BY <1>1, <1>2, SendQueues, StoreAssumption
<1>4. toServer'[m] = <<msg>> /\ msg.type = "logon"
  BY <1>2, <1>3
<1> HIDE DEF msg
<1>5. LogonFirst(toServer'[m], toClient'[m]) /\ AcksEcho(toServer'[m], mem'[m][AccountOf[m]])
  <2>1. /\ Len(<<msg>>) = 1 /\ <<msg>>[1] = msg
        /\ \A i \in 1..1 : i = 1
    OBVIOUS
  <2>2. \A i \in 1..Len(<<msg>>) : i = 1 /\ <<msg>>[i].type = "logon"
    BY <1>4, <2>1
  <2> QED
    BY <1>1, <1>2, <1>4, <2>2 DEF LogonFirst, AcksEcho
<1>6. TypeOK'
  BY <1>1, <1>3 DEF IInv, TypeOK
<1>7. link'[m] = "logon sent" /\ \A n \in Machines \ {m} : link'[n] = link[n]
  BY <1>1 DEF IInv, TypeOK
<1>8. MsgInv'
  BY <1>1, <1>2, <1>3, <1>5, <1>7, EmptyQueues, OneMoves DEF IInv
<1>9. DataMatchesSha'
  BY <1>1 DEF IInv, DataMatchesSha
<1> QED
  BY <1>6, <1>8, <1>9 DEF IInv

\* An upload, a read, or the acknowledgement of a push that was just received.
LEMMA SendKeeps ==
  ASSUME IInv, NEW m \in Machines, NEW type \in {"ack", "upload", "read"},
         NEW file \in Filenames, NEW sha \in Shas, Send(m, type, file, sha),
         link[m] = "logon sent", held' \in [Machines -> Shas],
         UNCHANGED <<disk, mem, link, minted, agreed>>,
         \/ type # "ack" /\ toClient' = toClient
         \/ /\ type = "ack" /\ file = SentryName
            /\ toClient[m] # <<>> /\ Head(toClient[m]).type = "push"
            /\ sha \in {Head(toClient[m]).sha, NoSha}
            /\ toClient' = [toClient EXCEPT ![m] = Tail(@)]
  PROVE  IInv'
<1> DEFINE msg   == [type |-> type, file |-> file, sha |-> sha]
           shelf == mem[m][AccountOf[m]]
           q     == toServer[m]
           r     == toClient[m]
<1>1. /\ msg \in ClientMsgs /\ toServer' \in [Machines -> Seq(ClientMsgs)]
      /\ toServer'[m] = Append(q, msg)
      /\ \A n \in Machines \ {m} : toServer'[n] = toServer[n]
  <2>1. type \in {"logon", "ack", "upload", "read"}
    OBVIOUS
  <2>2. Send(m, type, file, sha)
    OBVIOUS
  <2> QED
    BY <2>1, <2>2, SendQueues
<1>2. /\ q \in Seq(ClientMsgs) /\ r \in Seq(ServerMsgs)
      /\ LogonFirst(q, r) /\ PushesEcho(r, shelf) /\ AcksEcho(q, shelf)
  BY MachineTypes
<1>3. msg.type = "ack" =>
        r # <<>> /\ msg.file = SentryName /\ (msg.sha = NoSha \/ Echo(shelf, msg.sha))
  BY <1>2, TailClient
<1>4. msg.type # "logon"
  OBVIOUS
<1> HIDE DEF msg
<1>5. LogonFirst(Append(q, msg), r) /\ AcksEcho(Append(q, msg), shelf)
  BY <1>1, <1>2, <1>3, <1>4, AppendServer
<1>6. /\ toClient' \in [Machines -> Seq(ServerMsgs)]
      /\ \A n \in Machines \ {m} : toClient'[n] = toClient[n]
      /\ PushesEcho(toClient'[m], shelf) /\ toClient'[m] \in {r, Tail(r)}
      /\ r = <<>> => toClient'[m] = <<>>
  <2>1. r # <<>> => Tail(r) \in Seq(ServerMsgs) /\ PushesEcho(Tail(r), shelf)
    BY <1>2, TailClient
  <2>2. toClient \in [Machines -> Seq(ServerMsgs)]
    BY DEF IInv, TypeOK
  <2> QED
    BY <1>2, <2>1, <2>2
<1>7. LogonFirst(Append(q, msg), toClient'[m])
  BY <1>5, <1>6 DEF LogonFirst
<1>8. MsgInv'
  BY <1>1, <1>5, <1>6, <1>7, OneMoves DEF IInv
<1>9. TypeOK'
  BY <1>1, <1>6 DEF IInv, TypeOK
<1>10. DataMatchesSha'
  BY DEF IInv, DataMatchesSha
<1> QED
  BY <1>8, <1>9, <1>10 DEF IInv

\* What a machine does: it comes, talks and goes.
LEMMA EnvironmentKeeps ==
  ASSUME IInv, NEW m \in Machines, Environment(m)
  PROVE  IInv'
<1>1. CASE Connect(m)
  BY <1>1, ConnectKeeps
<1>2. CASE Disconnect(m)
  BY <1>2, DropKeeps DEF Disconnect
<1>3. CASE SendLogon(m)
  BY <1>3, SendLogonKeeps
<1>4. CASE SendUpload(m)
  <2>1. held' \in [Machines -> Shas] /\ held[m] \in Shas
    BY <1>4 DEF IInv, TypeOK, SendUpload
  <2>2. PICK f \in Filenames : Send(m, "upload", f, held[m])
    BY <1>4 DEF SendUpload
  <2>3. UNCHANGED <<disk, mem, link, minted, agreed, toClient>> /\ link[m] = "logon sent"
    BY <1>4 DEF SendUpload, CanSend
  <2> QED
    BY <2>1, <2>2, <2>3, SendKeeps
<1>5. CASE SendRead(m)
  <2>1. held' \in [Machines -> Shas]
    BY <1>5 DEF IInv, TypeOK, SendRead
  <2>2. PICK f \in Filenames : Send(m, "read", f, NoSha)
    BY <1>5 DEF SendRead
  <2>3. UNCHANGED <<disk, mem, link, minted, agreed, toClient>> /\ link[m] = "logon sent"
    BY <1>5 DEF SendRead, CanSend
  <2> QED
    BY <2>1, <2>2, <2>3, ShaTypes, SendKeeps
<1>6. CASE WriteSentry(m)
  <2>1. PICK wrote \in {Head(toClient[m]).sha, NoSha} :
          held' = [held EXCEPT ![m] = wrote] /\ Send(m, "ack", SentryName, wrote)
    BY <1>6 DEF WriteSentry
  <2>2. /\ toClient[m] # <<>> /\ Head(toClient[m]).type = "push"
        /\ toClient' = [toClient EXCEPT ![m] = Tail(@)]
        /\ UNCHANGED <<disk, mem, link, minted, agreed>>
    BY <1>6 DEF WriteSentry
  <2>3. Head(toClient[m]) \in ServerMsgs /\ link[m] = "logon sent"
    BY <2>2, MachineTypes, TailClient
  <2>4. wrote \in Shas
    BY <2>1, <2>3, ShaTypes DEF ServerMsgs
  <2>5. held' \in [Machines -> Shas]
    BY <2>1, <2>4 DEF IInv, TypeOK
  <2> QED
    BY <2>1, <2>2, <2>3, <2>4, <2>5, StoreAssumption, SendKeeps
<1>7. CASE TakeSentry(m)
  <2>1. /\ toClient[m] # <<>> /\ toClient' = [toClient EXCEPT ![m] = Tail(@)]
        /\ UNCHANGED <<disk, mem, link, toServer, held, minted, agreed>>
    BY <1>7 DEF TakeSentry
  <2>2. /\ Tail(toClient[m]) \in Seq(ServerMsgs)
        /\ PushesEcho(Tail(toClient[m]), mem[m][AccountOf[m]])
        /\ LogonFirst(toServer[m], toClient[m]) /\ AcksEcho(toServer[m], mem[m][AccountOf[m]])
        /\ link[m] = "logon sent"
    BY <2>1, MachineTypes, TailClient
  <2>3. /\ toClient' \in [Machines -> Seq(ServerMsgs)] /\ toClient'[m] = Tail(toClient[m])
        /\ \A n \in Machines \ {m} : toClient'[n] = toClient[n]
    BY <2>1, <2>2 DEF IInv, TypeOK
  <2>4. LogonFirst(toServer'[m], toClient'[m])
    BY <2>1, <2>2 DEF LogonFirst
  <2>5. MsgInv'
    BY <2>1, <2>2, <2>3, <2>4, OneMoves DEF IInv
  <2>6. TypeOK' /\ DataMatchesSha'
    BY <2>1, <2>3 DEF IInv, TypeOK, DataMatchesSha
  <2> QED
    BY <2>5, <2>6 DEF IInv
<1> QED
  BY <1>1, <1>2, <1>3, <1>4, <1>5, <1>6, <1>7 DEF Environment

-------------------------------------------------------------------------------

\* A handler, from what it makes of the store and of the answers.
LEMMA HandleKeeps ==
  ASSUME IInv, NEW m \in Machines, NEW type, Handles(m, type), UNCHANGED <<link, held>>,
         disk' \in Stores \cup {Torn}, mem' \in [Machines -> Stores],
         \A n \in Machines \ {m} : mem'[n] = mem[n],
         minted' \in Shas, agreed' \in [Accounts -> Shas], DataMatchesSha',
         toClient' \in [Machines -> Seq(ServerMsgs)],
         \A n \in Machines \ {m} : toClient'[n] = toClient[n],
         AcksEcho(Tail(toServer[m]), mem'[m][AccountOf[m]]),
         PushesEcho(toClient'[m], mem'[m][AccountOf[m]])
  PROVE  IInv'
<1> DEFINE q == toServer[m]
<1>1. q # <<>> /\ toServer' = [toServer EXCEPT ![m] = Tail(q)]
  BY DEF Handles
<1>2. /\ q \in Seq(ClientMsgs) /\ LogonFirst(q, toClient[m]) /\ AcksEcho(q, mem[m][AccountOf[m]])
      /\ link[m] = "logon sent"
  BY <1>1, MachineTypes
<1>3. Tail(q) \in Seq(ClientMsgs) /\ LogonFirst(Tail(q), toClient'[m])
  BY <1>1, <1>2, TailServer
<1>4. /\ toServer' \in [Machines -> Seq(ClientMsgs)] /\ toServer'[m] = Tail(q)
      /\ \A n \in Machines \ {m} : toServer'[n] = toServer[n]
  BY <1>1, <1>3 DEF IInv, TypeOK
<1>5. MsgInv'
  BY <1>2, <1>3, <1>4, OneMoves DEF IInv
<1>6. TypeOK'
  BY <1>4 DEF IInv, TypeOK
<1> QED
  BY <1>5, <1>6 DEF IInv

\* What the handler finds at the head of the queue.
LEMMA HandledMsg ==
  ASSUME IInv, NEW m \in Machines, NEW type, Handles(m, type)
  PROVE  LET q     == toServer[m]
             shelf == mem[m][AccountOf[m]]
         IN  /\ Head(q) \in ClientMsgs /\ Head(q).type = type
             /\ Head(q).file \in Filenames /\ Head(q).sha \in Shas
             /\ AcksEcho(Tail(q), shelf)
             /\ type = "ack" =>
                  Head(q).file = SentryName /\ (Head(q).sha = NoSha \/ Echo(shelf, Head(q).sha))
             /\ type = "logon" => toClient[m] = <<>> /\ \A s : AcksEcho(Tail(q), s)
             /\ link[m] = "logon sent"
<1> DEFINE q     == toServer[m]
           shelf == mem[m][AccountOf[m]]
<1>1. /\ q \in Seq(ClientMsgs) /\ q # <<>> /\ Head(q).type = type
      /\ LogonFirst(q, toClient[m]) /\ AcksEcho(q, shelf) /\ link[m] = "logon sent"
  BY MachineTypes DEF Handles
<1>2. /\ Head(q) \in ClientMsgs /\ AcksEcho(Tail(q), shelf)
      /\ Head(q).type = "ack" =>
           Head(q).file = SentryName /\ (Head(q).sha = NoSha \/ Echo(shelf, Head(q).sha))
      /\ Head(q).type = "logon" => toClient[m] = <<>> /\ \A s : AcksEcho(Tail(q), s)
  BY <1>1, TailServer
<1>3. Head(q).file \in Filenames /\ Head(q).sha \in Shas
  BY <1>2 DEF ClientMsgs
<1> QED
  BY <1>1, <1>2, <1>3

\* A reply joins the messages to one client.
LEMMA ReplyQueues ==
  ASSUME IInv, NEW m \in Machines, NEW type \in {"push", "sentry"},
         NEW sha \in Shas, NEW data \in Shas, NEW shelf, Reply(m, type, sha, data),
         PushesEcho(toClient[m], shelf), type = "push" => Echo(shelf, sha)
  PROVE  /\ toClient' \in [Machines -> Seq(ServerMsgs)]
         /\ \A n \in Machines \ {m} : toClient'[n] = toClient[n]
         /\ PushesEcho(toClient'[m], shelf)
<1> DEFINE msg == [type |-> type, sha |-> sha, data |-> data]
           r   == toClient[m]
<1>1. msg \in ServerMsgs /\ msg.type = type /\ msg.sha = sha
  BY DEF ServerMsgs
<1>2. r \in Seq(ServerMsgs) /\ toClient' = [toClient EXCEPT ![m] = Append(r, msg)]
  BY MachineTypes DEF Reply
<1> HIDE DEF msg
<1>3. Append(r, msg) \in Seq(ServerMsgs) /\ PushesEcho(Append(r, msg), shelf)
  BY <1>1, <1>2, AppendClient
<1> QED
  BY <1>2, <1>3 DEF IInv, TypeOK

\* put() under the sentry's name with the bytes that are there, or none, or
\* under another name.
LEMMA PutEchoes ==
  ASSUME NEW store \in Stores, NEW a \in Accounts, NEW f \in Filenames, NEW e \in Entries,
         f = SentryName => e.data \in {NoSha, store[a].entry[SentryName].data},
         NEW q, NEW r, AcksEcho(q, store[a]), PushesEcho(r, store[a])
  PROVE  AcksEcho(q, Put(store, a, f, e)[a]) /\ PushesEcho(r, Put(store, a, f, e)[a])
<1> DEFINE new == Put(store, a, f, e)[a]
<1>1. new.entry[f] = e /\ \A g \in Filenames \ {f} : new.entry[g] = store[a].entry[g]
  BY PutIsStore
<1>2. e # None
  BY MarkAssumption
<1> HIDE DEF new
<1>3. \/ new.entry[SentryName] = store[a].entry[SentryName]
      \/ /\ new.entry[SentryName] # None
         /\ new.entry[SentryName].data \in {NoSha, store[a].entry[SentryName].data}
  BY <1>1, <1>2, StoreAssumption
<1>4. AcksEcho(q, new) /\ PushesEcho(r, new)
  BY <1>3, EchoKept
<1> QED
  BY <1>4 DEF new

\* The client has the sentry that the bridge has.
LEMMA LogonKnownKeeps ==
  ASSUME IInv, NEW m \in Machines, LogonKnown(m)
  PROVE  IInv'
<1>1. Handles(m, "logon") /\ UNCHANGED <<disk, mem, link, toClient, held, minted, agreed>>
  BY DEF LogonKnown
<1>2. /\ AcksEcho(Tail(toServer[m]), mem[m][AccountOf[m]])
      /\ PushesEcho(toClient[m], mem[m][AccountOf[m]])
  BY <1>1, HandledMsg, MachineTypes
<1>3. DataMatchesSha'
  BY <1>1 DEF IInv, DataMatchesSha
<1> QED
  BY <1>1, <1>2, <1>3, HandleKeeps DEF IInv, TypeOK

\* The steps that put an entry.
LEMMA LogonPushesPuts ==
  ASSUME IInv, NEW m \in Machines, LogonPushes(m)
  PROVE  \E e \in Entries : e.data = e.sha /\ PutAndSave(m, SentryName, e)
<1> DEFINE blob == minted + 1
           e    == [sha |-> blob, data |-> blob]
<1>1. minted < MaxSentries /\ PutAndSave(m, SentryName, e)
  BY DEF LogonPushes
<1>2. blob \in Shas
  <2>1. minted \in Shas
    BY DEF IInv, TypeOK
  <2> QED
    BY <1>1, <2>1, ShaTypes DEF Shas
<1>3. e \in Entries /\ e.data = e.sha
  BY <1>2 DEF Entries
<1> QED
  BY <1>1, <1>3

\* The bridge makes a sentry and pushes it.
LEMMA LogonPushesKeeps ==
  ASSUME IInv, NEW m \in Machines, LogonPushes(m)
  PROVE  IInv'
<1> DEFINE blob == minted + 1
           e    == [sha |-> blob, data |-> blob]
           a    == AccountOf[m]
<1>1. /\ Handles(m, "logon") /\ minted < MaxSentries /\ minted' = blob
      /\ PutAndSave(m, SentryName, e) /\ Reply(m, "push", blob, blob)
      /\ agreed' = [agreed EXCEPT ![a] = NoSha]
      /\ UNCHANGED <<link, held>>
  BY DEF LogonPushes
<1>2. blob \in Shas
  <2>1. minted \in Shas
    BY DEF IInv, TypeOK
  <2> QED
    BY <1>1, <2>1, ShaTypes DEF Shas
<1>3. e \in Entries /\ e.data = blob /\ e.sha = blob /\ SentryName \in Filenames
  BY <1>2, StoreAssumption DEF Entries
<1>4. /\ mem[m] \in Stores /\ a \in Accounts
  BY MachineTypes
<1> HIDE DEF e
<1>5. /\ disk' \in Stores \cup {Torn} /\ mem' \in [Machines -> Stores]
      /\ mem'[m] = Put(mem[m], a, SentryName, e)
      /\ \A n \in Machines \ {m} : mem'[n] = mem[n]
      /\ DataMatchesSha'
  BY <1>1, <1>3, PutAndSaveKeeps DEF IInv
<1>6. mem'[m][a].entry[SentryName] = e
  BY <1>3, <1>4, <1>5, PutIsStore
<1>7. Echo(mem'[m][a], blob)
  BY <1>3, <1>6, MarkAssumption DEF Echo
<1>8. toClient[m] = <<>> /\ AcksEcho(Tail(toServer[m]), mem'[m][a])
  BY <1>1, HandledMsg
<1>9. PushesEcho(toClient[m], mem'[m][a])
  BY <1>8, EmptyQueues
<1>10. /\ toClient' \in [Machines -> Seq(ServerMsgs)]
       /\ \A n \in Machines \ {m} : toClient'[n] = toClient[n]
       /\ PushesEcho(toClient'[m], mem'[m][a])
  BY <1>1, <1>2, <1>7, <1>9, ReplyQueues
<1>11. agreed' \in [Accounts -> Shas]
  BY <1>1, ShaTypes DEF IInv, TypeOK
<1> QED
  BY <1>1, <1>2, <1>5, <1>8, <1>10, <1>11, HandleKeeps

\* What an acknowledgement puts.
LEMMA AckEntry ==
  ASSUME IInv, NEW m \in Machines, HandleAck(m)
  PROVE  LET msg == Head(toServer[m])
             old == mem[m][AccountOf[m]].entry[SentryName]
         IN  /\ Handles(m, "ack") /\ msg.file = SentryName /\ msg.sha \in Shas
             /\ UNCHANGED <<link, toClient, held, minted>>
             /\ agreed' = [agreed EXCEPT ![AccountOf[m]] = msg.sha]
             /\ \/ old = None /\ msg.sha = NoSha /\ UNCHANGED <<mem, disk>>
                \/ \E e \in Entries : /\ e.data = old.data /\ e.data \in {NoSha, e.sha}
                                      /\ msg.sha # NoSha => e.sha = msg.sha
                                      /\ PutAndSave(m, SentryName, e)
<1> DEFINE msg == Head(toServer[m])
           a   == AccountOf[m]
           old == mem[m][a].entry[msg.file]
           new == [old EXCEPT !.sha = IF msg.sha = NoSha THEN @ ELSE msg.sha]
<1>1. /\ Handles(m, "ack") /\ UNCHANGED <<link, toClient, held, minted>>
      /\ agreed' = [agreed EXCEPT ![a] = msg.sha]
      /\ IF old = None THEN UNCHANGED <<mem, disk>> ELSE PutAndSave(m, msg.file, new)
  BY DEF HandleAck
<1>2. /\ msg.file = SentryName /\ msg.sha \in Shas
      /\ msg.sha = NoSha \/ Echo(mem[m][a], msg.sha)
  BY <1>1, HandledMsg
<1>3. CASE old = None
  BY <1>1, <1>2, <1>3 DEF Echo
<1>4. CASE old # None
  <2>1. mem[m] \in Stores /\ a \in Accounts
    BY MachineTypes
  <2>2. old \in Entries
    BY <1>2, <1>4, <2>1, StoreAssumption DEF Stores, Shelf
  <2>3. old.data \in {NoSha, old.sha}
    BY <1>2, <1>4, <2>1, StoreAssumption DEF IInv, DataMatchesSha, Sound
  <2>4. /\ new \in Entries /\ new.data = old.data
        /\ msg.sha = NoSha => new.sha = old.sha
        /\ msg.sha # NoSha => new.sha = msg.sha
    BY <1>2, <2>2 DEF Entries
  <2>5. msg.sha # NoSha => old.data \in {NoSha, msg.sha}
    BY <1>2 DEF Echo
  <2>6. new.data \in {NoSha, new.sha}
    BY <2>3, <2>4, <2>5
  <2>7. PutAndSave(m, SentryName, new)
    BY <1>1, <1>2, <1>4
  <2> HIDE DEF new
  <2> QED
    BY <1>1, <1>2, <2>4, <2>6, <2>7
<1> QED
  BY <1>3, <1>4

\* The client's answer to a push is handled.
LEMMA HandleAckKeeps ==
  ASSUME IInv, NEW m \in Machines, HandleAck(m)
  PROVE  IInv'
<1> DEFINE a   == AccountOf[m]
           old == mem[m][a].entry[SentryName]
           sha == Head(toServer[m]).sha
<1>1. /\ Handles(m, "ack") /\ sha \in Shas
      /\ UNCHANGED <<link, toClient, held, minted>>
      /\ agreed' = [agreed EXCEPT ![a] = sha]
      /\ \/ UNCHANGED <<mem, disk>>
         \/ \E e \in Entries : /\ e.data = old.data /\ e.data \in {NoSha, e.sha}
                               /\ PutAndSave(m, SentryName, e)
  BY AckEntry
<1>2. /\ mem[m] \in Stores /\ a \in Accounts /\ SentryName \in Filenames
      /\ AcksEcho(Tail(toServer[m]), mem[m][a]) /\ PushesEcho(toClient[m], mem[m][a])
  BY <1>1, HandledMsg, MachineTypes, StoreAssumption
<1>3. /\ disk' \in Stores \cup {Torn} /\ mem' \in [Machines -> Stores]
      /\ \A n \in Machines \ {m} : mem'[n] = mem[n]
      /\ DataMatchesSha'
      /\ AcksEcho(Tail(toServer[m]), mem'[m][a]) /\ PushesEcho(toClient[m], mem'[m][a])
  <2>1. CASE UNCHANGED <<mem, disk>>
    BY <1>2, <2>1 DEF IInv, TypeOK, DataMatchesSha
  <2>2. ASSUME NEW e \in Entries, e.data = old.data, e.data \in {NoSha, e.sha},
               PutAndSave(m, SentryName, e)
        PROVE  /\ disk' \in Stores \cup {Torn} /\ mem' \in [Machines -> Stores]
               /\ \A n \in Machines \ {m} : mem'[n] = mem[n]
               /\ DataMatchesSha'
               /\ AcksEcho(Tail(toServer[m]), mem'[m][a]) /\ PushesEcho(toClient[m], mem'[m][a])
    <3>1. /\ disk' \in Stores \cup {Torn} /\ mem' \in [Machines -> Stores]
          /\ mem'[m] = Put(mem[m], a, SentryName, e)
          /\ \A n \in Machines \ {m} : mem'[n] = mem[n]
          /\ DataMatchesSha'
      BY <1>2, <2>2, PutAndSaveKeeps DEF IInv
    <3>2. AcksEcho(Tail(toServer[m]), mem'[m][a]) /\ PushesEcho(toClient[m], mem'[m][a])
      BY <1>2, <2>2, <3>1, PutEchoes
    <3> QED
      BY <3>1, <3>2
  <2> QED
    BY <1>1, <2>1, <2>2
<1>4. agreed' \in [Accounts -> Shas] /\ minted' \in Shas
  BY <1>1 DEF IInv, TypeOK
<1>5. toClient' \in [Machines -> Seq(ServerMsgs)] /\ toClient' = toClient
  BY <1>1 DEF IInv, TypeOK
<1> QED
  BY <1>1, <1>3, <1>4, <1>5, HandleKeeps

\* A sentry that the client uploads is stored.
LEMMA HandleUploadKeeps ==
  ASSUME IInv, NEW m \in Machines, HandleUpload(m)
  PROVE  IInv'
<1> DEFINE a   == AccountOf[m]
           msg == Head(toServer[m])
           e   == [sha |-> msg.sha, data |-> NoSha]
<1>1. /\ Handles(m, "upload") /\ PutAndSave(m, msg.file, e)
      /\ agreed' = [agreed EXCEPT ![a] = NoSha]
      /\ UNCHANGED <<link, toClient, held, minted>>
  BY DEF HandleUpload
<1>2. /\ mem[m] \in Stores /\ a \in Accounts /\ msg.file \in Filenames /\ msg.sha \in Shas
      /\ AcksEcho(Tail(toServer[m]), mem[m][a]) /\ PushesEcho(toClient[m], mem[m][a])
  BY <1>1, HandledMsg, MachineTypes
<1>3. e \in Entries /\ e.data = NoSha
  BY <1>2, ShaTypes DEF Entries
<1> HIDE DEF e
<1>4. /\ disk' \in Stores \cup {Torn} /\ mem' \in [Machines -> Stores]
      /\ mem'[m] = Put(mem[m], a, msg.file, e)
      /\ \A n \in Machines \ {m} : mem'[n] = mem[n]
      /\ DataMatchesSha'
  BY <1>1, <1>2, <1>3, PutAndSaveKeeps DEF IInv
<1>5. AcksEcho(Tail(toServer[m]), mem'[m][a]) /\ PushesEcho(toClient[m], mem'[m][a])
  BY <1>2, <1>3, <1>4, PutEchoes
<1>6. agreed' \in [Accounts -> Shas] /\ minted' \in Shas
  BY <1>1, ShaTypes DEF IInv, TypeOK
<1>7. toClient' \in [Machines -> Seq(ServerMsgs)] /\ toClient' = toClient
  BY <1>1 DEF IInv, TypeOK
<1> QED
  BY <1>1, <1>4, <1>5, <1>6, <1>7, HandleKeeps

\* The client asks for its sentry.
LEMMA HandleReadKeeps ==
  ASSUME IInv, NEW m \in Machines, HandleRead(m)
  PROVE  IInv'
<1> DEFINE a   == AccountOf[m]
           msg == Head(toServer[m])
           e   == mem[m][a].entry[msg.file]
<1>1. /\ Handles(m, "read") /\ UNCHANGED <<disk, mem, link, held, minted, agreed>>
      /\ IF e = None THEN Reply(m, "sentry", NoSha, NoSha) ELSE Reply(m, "sentry", e.sha, e.data)
  BY DEF HandleRead
<1>2. /\ mem[m] \in Stores /\ a \in Accounts /\ msg.file \in Filenames
      /\ AcksEcho(Tail(toServer[m]), mem[m][a]) /\ PushesEcho(toClient[m], mem[m][a])
  BY <1>1, HandledMsg, MachineTypes
<1>3. e = None \/ (e.sha \in Shas /\ e.data \in Shas)
  <2>1. mem[m][a] \in Shelf
    BY <1>2 DEF Stores
  <2>2. e \in Entries \cup {None}
    BY <1>2, <2>1 DEF Shelf
  <2> QED
    BY <2>2 DEF Entries
<1>4. \E sha, data \in Shas : Reply(m, "sentry", sha, data)
  BY <1>1, <1>3, ShaTypes
<1>5. /\ toClient' \in [Machines -> Seq(ServerMsgs)]
      /\ \A n \in Machines \ {m} : toClient'[n] = toClient[n]
      /\ PushesEcho(toClient'[m], mem[m][a])
  BY <1>2, <1>4, ReplyQueues
<1>6. DataMatchesSha'
  BY <1>1 DEF IInv, DataMatchesSha
<1> QED
  BY <1>1, <1>2, <1>5, <1>6, HandleKeeps DEF IInv, TypeOK

\* Every step keeps the invariant.
LEMMA NextKeeps == IInv /\ [Next]_vars => IInv'
<1> SUFFICES ASSUME IInv, [Next]_vars PROVE IInv'
  OBVIOUS
<1>1. CASE Restart
  BY <1>1, DropKeeps DEF Restart
<1>2. ASSUME NEW m \in Machines, Environment(m) PROVE IInv'
  BY <1>2, EnvironmentKeeps
<1>3. ASSUME NEW m \in Machines, Handler(m) PROVE IInv'
  BY <1>3, LogonKnownKeeps, LogonPushesKeeps, HandleAckKeeps, HandleUploadKeeps,
     HandleReadKeeps DEF Handler
<1>4. CASE UNCHANGED vars
  BY <1>4 DEF vars, IInv, TypeOK, MsgInv, DataMatchesSha
<1> QED
  BY <1>1, <1>2, <1>3, <1>4 DEF Next

\* The invariant holds of every behaviour.
LEMMA Inductive == Spec => []IInv
BY InitInv, NextKeeps, PTL DEF Spec

\* The stores, the file and the messages are what they should be, however many
\* connections there are and whatever goes wrong with a save.
THEOREM TypesHold == Spec => []TypeOK
<1>1. IInv => TypeOK
  BY DEF IInv
<1> QED
  BY <1>1, Inductive, PTL

\* However connections overlap, restart and fail to save, an entry that holds the
\* bytes of a sentry holds their SHA-1: what a client acknowledges, and what it
\* uploads, never puts a hash beside other bytes.
THEOREM DataAndShaAgree == Spec => []DataMatchesSha
<1>1. IInv => DataMatchesSha
  BY DEF IInv
<1> QED
  BY <1>1, Inductive, PTL

-------------------------------------------------------------------------------
(***************************************************************************)
(* One connection at a time.                                               *)
(***************************************************************************)

\* What a step may do to the file and to the connections that use it.
Rests ==
  /\ disk' = disk /\ Live' \subseteq Live
  /\ \A m \in Live' : mem'[m] = mem[m]
  /\ \A a \in Accounts : agreed'[a] \in {agreed[a], NoSha}

Connects(m) ==
  /\ disk' = disk /\ agreed' = agreed
  /\ Cardinality(Live) < MaxLive /\ Live' = Live \cup {m}
  /\ mem'[m] = Load(disk) /\ \A n \in Live : n # m => mem'[n] = mem[n]

Puts(m, f, e) ==
  /\ PutAndSave(m, f, e) /\ m \in Live /\ Live' = Live
  /\ agreed'[AccountOf[m]] \in {NoSha, e.sha}
  /\ \A a \in Accounts \ {AccountOf[m]} : agreed'[a] = agreed[a]

\* A step leaves the store alone, loads it, or puts an entry in it.
LEMMA StepKinds ==
  ASSUME IInv, [Next]_vars
  PROVE  \/ Rests
         \/ \E m \in Machines : Connects(m)
         \/ \E m \in Machines, f \in Filenames, e \in Entries : Puts(m, f, e)
<1>1. ASSUME UNCHANGED <<disk, mem, link, agreed>> PROVE Rests
  BY <1>1 DEF Rests, Live
<1>2. ASSUME NEW ms, Drop(ms), UNCHANGED <<disk, agreed>> PROVE Rests
  BY <1>2 DEF Rests, Live, Drop
<1>3. ASSUME NEW m \in Machines, Connect(m) PROVE Connects(m)
  <2>1. /\ link[m] = "down" /\ Cardinality(Live) < MaxLive
        /\ link' = [link EXCEPT ![m] = "up"] /\ mem' = [mem EXCEPT ![m] = Load(disk)]
        /\ UNCHANGED <<disk, agreed>>
    BY <1>3 DEF Connect
  <2>2. link \in [Machines -> {"down", "up", "logon sent"}] /\ mem \in [Machines -> Stores]
    BY DEF IInv, TypeOK
  <2>3. Live' = Live \cup {m}
    BY <2>1, <2>2 DEF Live
  <2>4. mem'[m] = Load(disk) /\ \A n \in Live : n # m => mem'[n] = mem[n]
    BY <2>1, <2>2 DEF Live
  <2> QED
    BY <2>1, <2>3, <2>4 DEF Connects
<1>4. ASSUME NEW m \in Machines, SendLogon(m) PROVE Rests
  <2>1. Live' = Live
    BY <1>4 DEF SendLogon, Live, IInv, TypeOK
  <2> QED
    BY <1>4, <2>1 DEF SendLogon, Rests
<1>5. ASSUME NEW m \in Machines, NEW type, Handles(m, type) PROVE m \in Live
  BY <1>5, HandledMsg DEF Live
<1>6. ASSUME NEW m \in Machines, NEW f \in Filenames, NEW e \in Entries, NEW type,
             NEW sha \in {NoSha, e.sha},
             Handles(m, type), PutAndSave(m, f, e), link' = link,
             agreed' = [agreed EXCEPT ![AccountOf[m]] = sha]
      PROVE  Puts(m, f, e)
  <2>1. agreed \in [Accounts -> Shas] /\ AccountOf[m] \in Accounts
    BY StoreAssumption DEF IInv, TypeOK
  <2>2. Live' = Live
    BY <1>6 DEF Live
  <2> QED
    BY <1>5, <1>6, <2>1, <2>2 DEF Puts
<1>7. ASSUME NEW m \in Machines, LogonPushes(m)
      PROVE  \E f \in Filenames, e \in Entries : Puts(m, f, e)
  <2>1. PICK e \in Entries : PutAndSave(m, SentryName, e)
    BY <1>7, LogonPushesPuts
  <2>2. Handles(m, "logon") /\ agreed' = [agreed EXCEPT ![AccountOf[m]] = NoSha] /\ link' = link
    BY <1>7 DEF LogonPushes
  <2> QED
    BY <1>6, <2>1, <2>2, StoreAssumption
<1>8. ASSUME NEW m \in Machines, HandleUpload(m)
      PROVE  \E f \in Filenames, e \in Entries : Puts(m, f, e)
  <2> DEFINE msg == Head(toServer[m])
             e   == [sha |-> msg.sha, data |-> NoSha]
  <2>1. /\ Handles(m, "upload") /\ agreed' = [agreed EXCEPT ![AccountOf[m]] = NoSha]
        /\ link' = link /\ PutAndSave(m, msg.file, e)
    BY <1>8 DEF HandleUpload
  <2>2. msg.file \in Filenames /\ msg.sha \in Shas
    BY <2>1, HandledMsg
  <2>3. e \in Entries
    BY <2>2, ShaTypes DEF Entries
  <2> HIDE DEF e
  <2> QED
    BY <1>6, <2>1, <2>2, <2>3
<1>9. ASSUME NEW m \in Machines, HandleAck(m)
      PROVE  Rests \/ \E f \in Filenames, e \in Entries : Puts(m, f, e)
  <2> DEFINE sha == Head(toServer[m]).sha
  <2>1. /\ Handles(m, "ack") /\ link' = link
        /\ agreed' = [agreed EXCEPT ![AccountOf[m]] = sha]
        /\ \/ sha = NoSha /\ UNCHANGED <<mem, disk>>
           \/ \E e \in Entries : /\ sha # NoSha => e.sha = sha
                                 /\ PutAndSave(m, SentryName, e)
    BY <1>9, AckEntry
  <2>2. CASE sha = NoSha /\ UNCHANGED <<mem, disk>>
    <3>1. \A a \in Accounts : agreed'[a] \in {agreed[a], NoSha}
      BY <2>1, <2>2 DEF IInv, TypeOK
    <3> QED
      BY <2>1, <2>2, <3>1 DEF Rests, Live
  <2>3. ASSUME NEW e \in Entries, sha # NoSha => e.sha = sha, PutAndSave(m, SentryName, e)
        PROVE  Puts(m, SentryName, e)
    <3>1. sha \in {NoSha, e.sha}
      BY <2>3
    <3> QED
      BY <1>6, <2>1, <2>3, <3>1, StoreAssumption
  <2> QED
    BY <2>1, <2>2, <2>3, StoreAssumption
<1>10. CASE UNCHANGED vars
  BY <1>1, <1>10 DEF vars
<1>11. CASE Restart
  BY <1>2, <1>11 DEF Restart
<1>12. ASSUME NEW m \in Machines, Environment(m) PROVE Rests \/ Connects(m)
  <2>1. SendUpload(m) \/ SendRead(m) \/ WriteSentry(m) \/ TakeSentry(m) =>
          UNCHANGED <<disk, mem, link, agreed>>
    BY DEF SendUpload, SendRead, WriteSentry, TakeSentry
  <2>2. Disconnect(m) => Rests
    BY <1>2 DEF Disconnect
  <2> QED
    BY <1>1, <1>3, <1>4, <1>12, <2>1, <2>2 DEF Environment
<1>13. ASSUME NEW m \in Machines, Handler(m)
       PROVE  Rests \/ \E f \in Filenames, e \in Entries : Puts(m, f, e)
  <2>1. LogonKnown(m) \/ HandleRead(m) => UNCHANGED <<disk, mem, link, agreed>>
    BY DEF LogonKnown, HandleRead
  <2> QED
    BY <1>1, <1>7, <1>8, <1>9, <1>13, <2>1 DEF Handler
<1> QED
  BY <1>10, <1>11, <1>12, <1>13 DEF Next

OneLive == \A m, n \in Live : m = n

\* With MaxLive = 1, nobody is live when a connection is accepted.
LEMMA NobodyLive ==
  ASSUME MaxLive = 1, OneLive, Cardinality(Live) < MaxLive
  PROVE  Live = {}
<1>1. SUFFICES ASSUME NEW m \in Live PROVE FALSE
  OBVIOUS
<1>2. Live = {m}
  BY DEF OneLive
<1>3. Cardinality({m}) = 1
  BY FS_Singleton
<1> QED
  BY <1>2, <1>3

\* The connection has all that the file has.
ViewHasDisk == \A m \in Live, a \in Accounts : HasSentry(disk, a) => HasSentry(mem[m], a)

\* With one connection at a time, what it sees is what the file holds.
LEMMA SequentialStep ==
  ASSUME MaxLive = 1, IInv, OneLive, [Next]_vars
  PROVE  /\ OneLive'
         /\ "torn" \notin SaveFaults /\ ViewHasDisk =>
              ViewHasDisk' /\ \A a \in Accounts : HasSentry(disk, a) => HasSentry(disk', a)
         /\ SaveFaults = {} /\ ViewIsDisk => ViewIsDisk'
<1>1. CASE Rests
  BY <1>1 DEF Rests, OneLive, ViewHasDisk, ViewIsDisk
<1>2. ASSUME NEW m \in Machines, Connects(m) 
      PROVE  /\ OneLive' /\ disk' = disk /\ ViewIsDisk' /\ ViewHasDisk'
  <2>1. Live = {}
    BY <1>2, NobodyLive DEF Connects
  <2>2. Live' = {m} /\ disk' = disk /\ mem'[m] = Load(disk)
    BY <1>2, <2>1 DEF Connects
  <2> QED
    BY <2>2 DEF OneLive, ViewIsDisk, ViewHasDisk, HasSentry, Load
<1>3. ASSUME NEW m \in Machines, NEW f \in Filenames, NEW e \in Entries, Puts(m, f, e)
      PROVE  /\ OneLive'
             /\ "torn" \notin SaveFaults /\ ViewHasDisk =>
                  ViewHasDisk' /\ \A a \in Accounts : HasSentry(disk, a) => HasSentry(disk', a)
             /\ SaveFaults = {} /\ ViewIsDisk => ViewIsDisk'
  <2> DEFINE store == Put(mem[m], AccountOf[m], f, e)
  <2>1. mem[m] \in Stores /\ AccountOf[m] \in Accounts /\ Live = {m} /\ Live' = {m}
    BY <1>3, MachineTypes DEF Puts, OneLive
  <2>2. mem'[m] = store /\ Save(store)
    BY <1>3 DEF Puts, PutAndSave, IInv, TypeOK
  <2>3. /\ store \in Stores /\ HasSentry(store, AccountOf[m])
        /\ \A b \in Accounts \ {AccountOf[m]} : store[b] = mem[m][b]
    BY <2>1, PutIsStore
  <2> HIDE DEF store
  <2>4. \A a \in Accounts : HasSentry(mem[m], a) => HasSentry(store, a)
    BY <2>3, MarkAssumption DEF HasSentry
  <2>5. ASSUME "torn" \notin SaveFaults, ViewHasDisk
        PROVE  ViewHasDisk' /\ \A a \in Accounts : HasSentry(disk, a) => HasSentry(disk', a)
    <3>1. disk' = store \/ disk' = disk
      BY <2>2, <2>5 DEF Save
    <3>2. \A a \in Accounts : HasSentry(disk, a) => HasSentry(store, a)
      BY <2>1, <2>4, <2>5 DEF ViewHasDisk
    <3> QED
      BY <2>1, <2>2, <3>1, <3>2 DEF ViewHasDisk
  <2>6. ASSUME SaveFaults = {} PROVE ViewIsDisk'
    <3>1. disk' = store /\ Load(store) = store
      BY <2>2, <2>3, <2>6, MarkAssumption DEF Save, Load
    <3> QED
      BY <2>1, <2>2, <3>1 DEF ViewIsDisk
  <2> QED
    BY <2>1, <2>5, <2>6 DEF OneLive
<1> QED
  BY <1>1, <1>2, <1>3, StepKinds

\* One connection at a time, and no step that leaves the file torn: every
\* account that has a sentry in the file keeps one, through every restart and
\* every save that fails before it begins.
THEOREM SentriesSurvive ==
  ASSUME MaxLive = 1, "torn" \notin SaveFaults
  PROVE  Spec => StoreKeeps
<1>1. Init => OneLive /\ ViewHasDisk
  BY DEF Init, OneLive, ViewHasDisk, Live
<1>2. IInv /\ OneLive /\ ViewHasDisk /\ [Next]_vars => OneLive' /\ ViewHasDisk'
  BY SequentialStep
<1>3. IInv /\ OneLive /\ ViewHasDisk /\ [Next]_vars =>
        [\A a \in Accounts : HasSentry(disk, a) => HasSentry(disk', a)]_vars
  BY SequentialStep
<1> QED
  BY <1>1, <1>2, <1>3, Inductive, PTL DEF Spec, StoreKeeps

\* One connection at a time, and saves that complete: what the connection
\* answers from is what a restart would find in the file.
THEOREM ViewStaysDisk ==
  ASSUME MaxLive = 1, SaveFaults = {}
  PROVE  Spec => []ViewIsDisk
<1>1. Init => OneLive /\ ViewIsDisk
  BY DEF Init, OneLive, ViewIsDisk, Live
<1>2. IInv /\ OneLive /\ ViewIsDisk /\ [Next]_vars => OneLive' /\ ViewIsDisk'
  BY SequentialStep
<1> QED
  BY <1>1, <1>2, Inductive, PTL DEF Spec

\* What was agreed on is what the file has.
AgreedIsOnDisk ==
  \A a \in Accounts : agreed[a] # NoSha => ShaFor(Load(disk), a) = agreed[a]

\* And what client and bridge agreed on is in the file.
LEMMA AgreedStep ==
  ASSUME MaxLive = 1, SaveFaults = {}, IInv, OneLive, ViewIsDisk, AgreedIsOnDisk, [Next]_vars
  PROVE  AgreedIsOnDisk'
<1>1. CASE Rests
  BY <1>1 DEF Rests, AgreedIsOnDisk
<1>2. ASSUME NEW m \in Machines, Connects(m) PROVE AgreedIsOnDisk'
  BY <1>2 DEF Connects, AgreedIsOnDisk
<1>3. ASSUME NEW m \in Machines, NEW f \in Filenames, NEW e \in Entries, Puts(m, f, e)
      PROVE  AgreedIsOnDisk'
  <2> DEFINE b     == AccountOf[m]
             store == Put(mem[m], b, f, e)
  <2>1. mem[m] \in Stores /\ b \in Accounts /\ mem[m] = Load(disk)
    BY <1>3, MachineTypes DEF Puts, ViewIsDisk
  <2>2. disk' = store
    BY <1>3 DEF Puts, PutAndSave, Save
  <2>3. /\ store \in Stores /\ ShaFor(store, b) = e.sha
        /\ \A a \in Accounts \ {b} : store[a] = mem[m][a]
    BY <2>1, PutIsStore
  <2> HIDE DEF store
  <2>4. Load(disk') = store
    BY <2>2, <2>3, MarkAssumption DEF Load
  <2>5. \A a \in Accounts \ {b} : ShaFor(store, a) = ShaFor(Load(disk), a)
    BY <2>1, <2>3 DEF ShaFor
  <2> QED
    BY <1>3, <2>1, <2>3, <2>4, <2>5 DEF Puts, AgreedIsOnDisk
<1> QED
  BY <1>1, <1>2, <1>3, StepKinds

\* One connection at a time, and saves that complete: a client that logs on with
\* the sentry it confirmed, which nothing has replaced since, is pushed no other
\* one, also across restarts.
THEOREM NoPushWithoutNeed ==
  ASSUME MaxLive = 1, SaveFaults = {}
  PROVE  Spec => NoNeedlessPush
<1>1. Init => OneLive /\ ViewIsDisk /\ AgreedIsOnDisk
  BY DEF Init, OneLive, ViewIsDisk, Live, AgreedIsOnDisk
<1>2. IInv /\ OneLive /\ ViewIsDisk /\ AgreedIsOnDisk /\ [Next]_vars =>
        OneLive' /\ ViewIsDisk' /\ AgreedIsOnDisk'
  BY SequentialStep, AgreedStep
<1>3. ASSUME IInv, ViewIsDisk, AgreedIsOnDisk, NEW m \in Machines, LogonPushes(m)
      PROVE  LET shown == Head(toServer[m]).sha
             IN  shown = NoSha \/ shown # agreed[AccountOf[m]]
  <2>1. Handles(m, "logon") /\ LET shown == Head(toServer[m]).sha
                               IN  shown = NoSha \/ shown # ShaFor(mem[m], AccountOf[m])
    BY <1>3 DEF LogonPushes
  <2>2. m \in Live /\ AccountOf[m] \in Accounts
    BY <1>3, <2>1, HandledMsg, MachineTypes DEF Live
  <2> QED
    BY <1>3, <2>1, <2>2 DEF ViewIsDisk, AgreedIsOnDisk
<1>4. IInv /\ ViewIsDisk /\ AgreedIsOnDisk /\ [Next]_vars =>
        [\A m \in Machines :
           LogonPushes(m) =>
             LET shown == Head(toServer[m]).sha IN
             shown = NoSha \/ shown # agreed[AccountOf[m]]]_vars
  BY <1>3
<1> QED
  BY <1>1, <1>2, <1>4, Inductive, PTL DEF Spec, NoNeedlessPush

===============================================================================
