------------------------ MODULE ContentOriginProofs ------------------------
(***************************************************************************)
(* ContentOrigin, for any number of connections, requests and depots: at   *)
(* most one downloader writes a depot's directory, and every request of a  *)
(* connection gets one response, in order.                                 *)
(*                                                                         *)
(* HolderInv is what keeps two from one depot: a task with a process holds *)
(* that depot's lock.  QueueInv says that a task that waits wants a depot, *)
(* and is in the queue of its lock.                                        *)
(***************************************************************************)
EXTENDS ContentOrigin, SequenceTheorems, TLAPS

States == {"reading", "body", "queued", "fetching", "closed", "next", "done", "died"}

LockTypes ==
  /\ setup \in {"absent", "broken", "works"}
  /\ manifest \subseteq dirs /\ dirs \subseteq Depots
  /\ holder \in [Depots -> Tasks \cup {None}]
  /\ queue  \in [Depots -> Seq(Tasks)]
  /\ proc   \in [Tasks -> Depots \cup {None}]
  /\ wants  \in [Tasks -> Depots \cup {None}]

HttpTypes ==
  /\ at      \in [Tasks -> States]
  /\ visited \in 0..Len(Preload)
  /\ client  \in [Conns -> {"there", "gone"}]
  /\ last    \in [Conns -> BOOLEAN]
  /\ read    \in [Conns -> 0..MaxRequests]
  /\ replies \in [Conns -> Seq(1..MaxRequests)]

\* Who has a process holds that depot's lock.
HolderInv ==
  \A t \in Tasks : proc[t] # None =>
    /\ proc[t] \in Depots /\ holder[proc[t]] = t
    /\ wants[t] = proc[t] /\ at[t] = "fetching"

\* Who is queued is in a queue.
QueueInv ==
  \A t \in Tasks : at[t] = "queued" =>
    /\ wants[t] \in Depots
    /\ \E i \in 1..Len(queue[wants[t]]) : queue[wants[t]][i] = t

\* The preload has an entry left while it is at work on one.
PreloadInv ==
  /\ at[Preloader] \in {"queued", "fetching"} => visited < Len(Preload)
  /\ at[Preloader] = "next" => visited < Len(Preload) \/ Preload = <<>>

IInv == LockTypes /\ HttpTypes /\ HolderInv /\ QueueInv /\ PreloadInv /\ OneReplyEach

\* The type invariant, in the parts that the actions change.
LEMMA TypesSplit == TypeOK <=> LockTypes /\ HttpTypes
BY DEF TypeOK, LockTypes, HttpTypes, States

\* No task is two things.
LEMMA Distinct ==
  /\ Preloader \in Tasks /\ Conns \subseteq Tasks
  /\ \A t \in Tasks : t # None /\ (t # Preloader => t \in Conns)
  /\ \A c \in Conns : c # Preloader
  /\ \A d \in Depots : d # None
  /\ Preload \in Seq(Depots) /\ Len(Preload) \in Nat /\ MaxRequests \in Nat
BY ContentAssumption, LenProperties DEF Tasks

\* Any cache, nobody at work.
LEMMA InitInv == Init => IInv
<1> SUFFICES ASSUME Init PROVE IInv
  OBVIOUS
<1> USE DEF Init
<1>1. LockTypes
  BY DEF LockTypes
<1>2. HttpTypes
  BY Distinct DEF HttpTypes, States
<1>3. HolderInv /\ QueueInv
  BY DEF HolderInv, QueueInv
<1>4. PreloadInv
  <2>1. Preload # <<>> => Len(Preload) > 0
    BY Distinct, EmptySeq, LenProperties
  <2> QED
    BY <2>1, Distinct DEF PreloadInv
<1>5. OneReplyEach
  BY Distinct DEF OneReplyEach
<1> QED
  BY <1>1, <1>2, <1>3, <1>4, <1>5 DEF IInv

-------------------------------------------------------------------------------

\* A task that stands where a response, or the next entry, may follow: after
\* reading a head, or at work on what it read before.
Serving(t) ==
  /\ client' = client /\ last' \in [Conns -> BOOLEAN]
  /\ read' \in [Conns -> 0..MaxRequests]
  /\ \A c \in Conns : c # t => read'[c] = read[c]
  /\ t \in Conns /\ client[t] = "there" => read'[t] = Len(replies[t]) + 1
  /\ t = Preloader => visited < Len(Preload)

\* It finishes with that.
Leaves(t) == IF t = Preloader THEN NextEntry \/ Die ELSE Respond(t)

\* It waits for a body, a lock or a process.
Waits(t) ==
  /\ \E s \in {"body", "queued", "fetching"} :
       at' = [at EXCEPT ![t] = s] /\ (t = Preloader => s # "body")
  /\ UNCHANGED <<visited, replies>>

\* It may be Respond, NextEntry or a death: the types and the replies' order stay.
LEMMA LeavesKeeps ==
  ASSUME HttpTypes, PreloadInv, OneReplyEach, NEW t \in Tasks, Serving(t), Leaves(t)
  PROVE  /\ HttpTypes' /\ PreloadInv' /\ OneReplyEach'
         /\ \E s \in {"reading", "closed", "next", "done", "died"} : at' = [at EXCEPT ![t] = s]
<1>1. CASE t = Preloader
  <2>1. /\ \E s \in {"next", "done", "died"} : at' = [at EXCEPT ![t] = s]
        /\ UNCHANGED replies
        /\ \/ visited' = visited + 1 /\ (at'[Preloader] = "next" => visited' # Len(Preload))
           \/ visited' = visited /\ at'[Preloader] = "died"
        /\ at'[Preloader] \in {"next", "done", "died"}
    BY <1>1 DEF Leaves, NextEntry, Die, HttpTypes
  <2>2. client' = client /\ read' = read /\ last' \in [Conns -> BOOLEAN] /\ visited < Len(Preload)
    BY <1>1, Distinct DEF Serving, HttpTypes
  <2>3. HttpTypes'
    BY <2>1, <2>2, Distinct DEF HttpTypes, States
  <2>4. PreloadInv'
    BY <2>1, <2>2, Distinct DEF HttpTypes, PreloadInv
  <2>5. \A c \in Conns : at'[c] = at[c]
    BY <1>1, <2>1, Distinct DEF HttpTypes
  <2>6. OneReplyEach'
    BY <2>1, <2>2, <2>5 DEF OneReplyEach
  <2> QED
    BY <2>1, <2>3, <2>4, <2>6
<1>2. CASE t \in Conns
  <2> DEFINE r == read'[t]
  <2>1. /\ \E s \in {"reading", "closed"} : at' = [at EXCEPT ![t] = s]
        /\ replies' = IF client[t] = "there" THEN [replies EXCEPT ![t] = Append(@, r)] ELSE replies
        /\ UNCHANGED visited
        /\ at'[t] \in {"reading", "closed"}
        /\ \A u \in Tasks : u # t => at'[u] = at[u]
    BY <1>2, Distinct DEF Leaves, Respond, HttpTypes
  <2>2. ASSUME client[t] = "there"
        PROVE  /\ Append(replies[t], r) \in Seq(1..MaxRequests)
               /\ Len(replies[t]) \in Nat /\ Len(Append(replies[t], r)) = Len(replies[t]) + 1
               /\ \A i \in 1..Len(replies[t]) : Append(replies[t], r)[i] = replies[t][i]
               /\ Append(replies[t], r)[Len(replies[t]) + 1] = r
    <3>0. replies[t] \in Seq(1..MaxRequests) /\ Len(replies[t]) \in Nat
      BY <1>2, LenProperties DEF HttpTypes
    <3>1. r \in 1..MaxRequests
      BY <1>2, <2>2, <3>0, Distinct DEF Serving
    <3> QED
      BY <3>0, <3>1, AppendProperties
  <2>3. HttpTypes'
    BY <1>2, <2>1, <2>2 DEF HttpTypes, Serving, States
  <2>4. PreloadInv'
    BY <1>2, <2>1, Distinct DEF PreloadInv
  <2>5. ASSUME NEW c \in Conns
        PROVE  /\ \A i \in 1..Len(replies'[c]) : replies'[c][i] = i
               /\ client'[c] = "there" =>
                    read'[c] = Len(replies'[c])
                               + IF at'[c] \in {"body", "queued", "fetching"} THEN 1 ELSE 0
    <3>1. CASE c # t
      <4>1. replies'[c] = replies[c] /\ at'[c] = at[c] /\ client'[c] = client[c] /\ read'[c] = read[c]
        BY <1>2, <2>1, <3>1, Distinct DEF HttpTypes, Serving
      <4> QED
        BY <4>1 DEF OneReplyEach
    <3>2. CASE c = t /\ client[t] = "there"
      <4>1. replies'[t] = Append(replies[t], r) /\ r = Len(replies[t]) + 1 /\ r \in Nat
        BY <1>2, <2>1, <3>2 DEF HttpTypes, Serving
      <4>2. \A i \in 1..Len(replies[t]) : replies[t][i] = i
        BY <1>2 DEF OneReplyEach
      <4>3. \A i \in 1..Len(replies'[t]) : replies'[t][i] = i
        BY <2>2, <4>1, <4>2
      <4>4. read'[t] = Len(replies'[t]) + 0
        BY <2>2, <4>1
      <4>5. at'[t] \notin {"body", "queued", "fetching"}
        BY <2>1
      <4> QED
        BY <3>2, <4>3, <4>4, <4>5
    <3>3. CASE c = t /\ client[t] # "there"
      BY <1>2, <2>1, <3>3 DEF OneReplyEach, Serving
    <3> QED
      BY <3>1, <3>2, <3>3
  <2> QED
    BY <2>1, <2>3, <2>4, <2>5 DEF OneReplyEach
<1> QED
  BY <1>1, <1>2, Distinct

\* It stands somewhere else, and nothing is said.
LEMMA WaitsKeeps ==
  ASSUME HttpTypes, PreloadInv, OneReplyEach, NEW t \in Tasks, Serving(t), Waits(t)
  PROVE  HttpTypes' /\ PreloadInv' /\ OneReplyEach'
<1>1. PICK s \in {"body", "queued", "fetching"} :
        at' = [at EXCEPT ![t] = s] /\ (t = Preloader => s # "body")
  BY DEF Waits
<1>2. UNCHANGED <<visited, replies, client>>
  BY DEF Waits, Serving
<1>3. HttpTypes'
  BY <1>1, <1>2 DEF HttpTypes, Serving, States
<1>4. PreloadInv'
  BY <1>1, <1>2, Distinct DEF PreloadInv, HttpTypes, Serving
<1>5. ASSUME NEW c \in Conns
      PROVE  /\ \A i \in 1..Len(replies'[c]) : replies'[c][i] = i
             /\ client'[c] = "there" =>
                  read'[c] = Len(replies'[c])
                             + IF at'[c] \in {"body", "queued", "fetching"} THEN 1 ELSE 0
  <2>1. CASE c # t
    BY <1>1, <1>2, <2>1, Distinct DEF HttpTypes, Serving, OneReplyEach
  <2>2. CASE c = t
    BY <1>1, <1>2, <2>2 DEF HttpTypes, Serving, OneReplyEach
  <2> QED
    BY <2>1, <2>2
<1> QED
  BY <1>3, <1>4, <1>5 DEF OneReplyEach

\* What it takes to leave the lock's invariants alone.
LEMMA LocksUntouched ==
  ASSUME LockTypes, HttpTypes, HolderInv, QueueInv, NEW t \in Tasks, at[t] # "fetching",
         NEW s \in States \ {"queued"}, at' = [at EXCEPT ![t] = s],
         UNCHANGED <<holder, queue, proc, wants>>
  PROVE  HolderInv' /\ QueueInv'
BY DEF LockTypes, HttpTypes, HolderInv, QueueInv

\* The queue is still one for everybody but t, who may have been its head.
QueueKept(t) ==
  /\ queue' \in [Depots -> Seq(Tasks)]
  /\ \A u \in Tasks \ {t} : at[u] = "queued" =>
       \E i \in 1..Len(queue'[wants[u]]) : queue'[wants[u]][i] = u

\* What a task does that has a depot's lock.
LEMMA WithLockKeeps ==
  ASSUME IInv, NEW t \in Tasks, NEW d \in Depots, Serving(t), at[t] # "fetching",
         holder[d] = None, QueueKept(t), WithLock(t, d)
  PROVE  IInv'
<1> USE DEF IInv
<1>1. /\ dirs' = dirs \cup {d} /\ UNCHANGED <<setup, manifest>>
      /\ queue' \in [Depots -> Seq(Tasks)]
  BY DEF WithLock, QueueKept
<1>2. CASE Leaves(t) /\ UNCHANGED <<holder, proc, wants>>
  <2>1. /\ HttpTypes' /\ PreloadInv' /\ OneReplyEach'
        /\ \E s \in {"reading", "closed", "next", "done", "died"} : at' = [at EXCEPT ![t] = s]
    BY <1>2, LeavesKeeps
  <2>2. at'[t] \notin {"queued", "fetching"} /\ \A u \in Tasks \ {t} : at'[u] = at[u]
    BY <2>1 DEF HttpTypes
  <2>3. LockTypes'
    BY <1>1, <1>2 DEF LockTypes
  <2>4. HolderInv'
    BY <1>2, <2>2 DEF HolderInv
  <2>5. QueueInv'
    BY <1>2, <2>2 DEF QueueInv, QueueKept
  <2> QED
    BY <2>1, <2>3, <2>4, <2>5
<1>3. CASE /\ holder' = [holder EXCEPT ![d] = t]
           /\ proc'   = [proc EXCEPT ![t] = d]
           /\ wants'  = [wants EXCEPT ![t] = d]
           /\ at'     = [at EXCEPT ![t] = "fetching"]
           /\ UNCHANGED <<visited, replies>>
  <2>1. Waits(t)
    BY <1>3 DEF Waits
  <2>2. HttpTypes' /\ PreloadInv' /\ OneReplyEach'
    BY <2>1, WaitsKeeps
  <2>3. LockTypes'
    BY <1>1, <1>3 DEF LockTypes
  <2>4. HolderInv'
    BY <1>3, Distinct DEF HolderInv, LockTypes, HttpTypes
  <2>5. QueueInv'
    BY <1>3 DEF QueueInv, QueueKept, LockTypes, HttpTypes
  <2> QED
    BY <2>2, <2>3, <2>4, <2>5
<1> QED
  BY <1>2, <1>3, Distinct DEF WithLock, Return, Raise, Leaves

\* _ensure_depot takes the depot's lock, or queues for it.
LEMMA EnsureDepotKeeps ==
  ASSUME IInv, NEW t \in Tasks, NEW d \in Depots, Serving(t),
         at[t] \notin {"queued", "fetching"}, EnsureDepot(t, d)
  PROVE  IInv'
<1> USE DEF IInv
<1>1. CASE LockIsFree(d)
  <2>1. QueueKept(t)
    BY <1>1 DEF EnsureDepot, QueueKept, QueueInv, LockTypes
  <2> QED
    BY <1>1, <2>1, WithLockKeeps DEF EnsureDepot, LockIsFree
<1>2. CASE ~LockIsFree(d)
  <2>1. /\ queue' = [queue EXCEPT ![d] = Append(@, t)]
        /\ at'    = [at EXCEPT ![t] = "queued"]
        /\ wants' = [wants EXCEPT ![t] = d]
        /\ UNCHANGED <<setup, dirs, manifest, holder, proc, visited, replies>>
    BY <1>2 DEF EnsureDepot, cacheVars
  <2>2. /\ Append(queue[d], t) \in Seq(Tasks) /\ Len(queue[d]) \in Nat
        /\ Len(Append(queue[d], t)) = Len(queue[d]) + 1
        /\ \A i \in 1..Len(queue[d]) : Append(queue[d], t)[i] = queue[d][i]
        /\ Append(queue[d], t)[Len(queue[d]) + 1] = t
    <3>1. queue[d] \in Seq(Tasks)
      BY DEF LockTypes
    <3> QED
      BY <3>1, AppendProperties, LenProperties
  <2>3. Waits(t)
    BY <2>1 DEF Waits
  <2>4. HttpTypes' /\ PreloadInv' /\ OneReplyEach'
    BY <2>3, WaitsKeeps
  <2>5. LockTypes'
    BY <2>1, <2>2 DEF LockTypes
  <2>6. HolderInv'
    BY <2>1 DEF HolderInv, LockTypes, HttpTypes
  <2>7. ASSUME NEW u \in Tasks, at'[u] = "queued"
        PROVE  /\ wants'[u] \in Depots
               /\ \E i \in 1..Len(queue'[wants'[u]]) : queue'[wants'[u]][i] = u
    <3>1. CASE u = t
      <4>1. wants'[u] = d /\ queue'[d] = Append(queue[d], t)
        BY <2>1, <3>1 DEF LockTypes
      <4>2. Len(queue[d]) + 1 \in 1..Len(queue'[d])
        BY <2>2, <4>1
      <4> QED
        BY <2>2, <3>1, <4>1, <4>2
    <3>2. CASE u # t
      <4>1. wants'[u] = wants[u] /\ at[u] = "queued"
        BY <2>1, <2>7, <3>2 DEF LockTypes, HttpTypes
      <4>2. wants[u] \in Depots /\ \E i \in 1..Len(queue[wants[u]]) : queue[wants[u]][i] = u
        BY <4>1 DEF QueueInv
      <4>3. CASE wants[u] = d
        <5>1. queue'[d] = Append(queue[d], t)
          BY <2>1 DEF LockTypes
        <5>2. 1..Len(queue[d]) \subseteq 1..Len(queue'[d])
          BY <2>2, <5>1
        <5> QED
          BY <2>2, <4>1, <4>2, <4>3, <5>1, <5>2
      <4>4. CASE wants[u] # d
        BY <2>1, <4>1, <4>2, <4>4 DEF LockTypes
      <4> QED
        BY <4>3, <4>4
    <3> QED
      BY <3>1, <3>2
  <2> QED
    BY <2>4, <2>5, <2>6, <2>7 DEF QueueInv
<1> QED
  BY <1>1, <1>2

\* The first in a lock's queue gets it.
LEMMA GetsLockKeeps ==
  ASSUME IInv, NEW t \in Tasks, GetsLock(t)
  PROVE  IInv'
<1> USE DEF IInv
<1> DEFINE d == wants[t]
           q == queue[d]
<1>1. /\ at[t] = "queued" /\ UNCHANGED <<client, last, read>>
      /\ holder[d] = None /\ Head(q) = t
      /\ queue' = [queue EXCEPT ![d] = Tail(@)]
      /\ WithLock(t, d)
  BY DEF GetsLock
<1>2. d \in Depots /\ q \in Seq(Tasks) /\ q # <<>> /\ Len(q) \in Nat
  <2>1. d \in Depots /\ \E i \in 1..Len(q) : q[i] = t
    BY <1>1 DEF QueueInv
  <2>2. q \in Seq(Tasks) /\ Len(q) \in Nat
    BY <2>1, LenProperties DEF LockTypes
  <2>3. Len(<<>>) = 0
    OBVIOUS
  <2> QED
    BY <2>1, <2>2, <2>3
<1>3. /\ Tail(q) \in Seq(Tasks) /\ Len(Tail(q)) = Len(q) - 1
      /\ \A i \in 1..Len(Tail(q)) : Tail(q)[i] = q[i + 1]
      /\ q[1] = t
  BY <1>1, <1>2, HeadTailProperties
<1>4. QueueKept(t)
  <2>1. ASSUME NEW u \in Tasks \ {t}, at[u] = "queued"
        PROVE  \E i \in 1..Len(queue'[wants[u]]) : queue'[wants[u]][i] = u
    <3>1. wants[u] \in Depots
      BY <2>1 DEF QueueInv
    <3>2. PICK i \in 1..Len(queue[wants[u]]) : queue[wants[u]][i] = u
      BY <2>1 DEF QueueInv
    <3>3. CASE wants[u] = d
      <4>1. queue'[d] = Tail(q)
        BY <1>1, <1>2 DEF LockTypes
      <4>2. i # 1 /\ i \in 1..Len(q)
        BY <1>3, <2>1, <3>2, <3>3
      <4>3. i - 1 \in 1..Len(Tail(q)) /\ (i - 1) + 1 = i
        BY <1>2, <1>3, <4>2
      <4>4. Tail(q)[i - 1] = u
        BY <1>3, <3>2, <3>3, <4>3
      <4> QED
        BY <3>3, <4>1, <4>3, <4>4
    <3>4. CASE wants[u] # d
      BY <1>1, <3>1, <3>2, <3>4 DEF LockTypes
    <3> QED
      BY <3>3, <3>4
  <2>2. queue' \in [Depots -> Seq(Tasks)]
    BY <1>1, <1>2, <1>3 DEF LockTypes
  <2> QED
    BY <2>1, <2>2 DEF QueueKept
<1>5. Serving(t)
  <2>1. client' = client /\ last' = last /\ read' = read
    BY <1>1
  <2>2. ASSUME t \in Conns
        PROVE  /\ client[t] = "there" => read[t] = Len(replies[t]) + 1
    BY <1>1, <2>2 DEF OneReplyEach
  <2> QED
    BY <1>1, <2>1, <2>2 DEF Serving, HttpTypes, PreloadInv
<1> QED
  BY <1>1, <1>2, <1>4, <1>5, WithLockKeeps

\* DepotDownloader ends, well or badly.
LEMMA FetchEndsKeeps ==
  ASSUME IInv, NEW t \in Tasks, NEW ok \in BOOLEAN, proc[t] # None, FetchEnds(t, ok)
  PROVE  IInv'
<1> USE DEF IInv
<1>1. /\ UNCHANGED <<setup, dirs, manifest, queue, wants, client, last, read>>
      /\ proc'   = [proc EXCEPT ![t] = None]
      /\ holder' = [holder EXCEPT ![wants[t]] = None]
      /\ Leaves(t)
  BY DEF FetchEnds, Return, Leaves
<1>2. at[t] = "fetching" /\ wants[t] = proc[t] /\ proc[t] \in Depots /\ holder[proc[t]] = t
  BY DEF HolderInv
<1>3. Serving(t)
  <2>1. ASSUME t \in Conns, client[t] = "there" PROVE read[t] = Len(replies[t]) + 1
    BY <1>2, <2>1 DEF OneReplyEach
  <2> QED
    BY <1>1, <1>2, <2>1 DEF Serving, HttpTypes, PreloadInv
<1>4. /\ HttpTypes' /\ PreloadInv' /\ OneReplyEach'
      /\ \E s \in {"reading", "closed", "next", "done", "died"} : at' = [at EXCEPT ![t] = s]
  BY <1>1, <1>3, LeavesKeeps
<1>5. at'[t] \notin {"queued", "fetching"} /\ \A u \in Tasks \ {t} : at'[u] = at[u]
  BY <1>4 DEF HttpTypes
<1>6. LockTypes'
  BY <1>1, <1>2 DEF LockTypes
<1>7. HolderInv'
  BY <1>1, <1>2, <1>5 DEF HolderInv, LockTypes
<1>8. QueueInv'
  BY <1>1, <1>5 DEF QueueInv
<1> QED
  BY <1>4, <1>6, <1>7, <1>8

\* A head that was read is served next.
LEMMA HeadIsServed ==
  ASSUME IInv, NEW c \in Conns, NEW final \in BOOLEAN, ReadHead(c, final)
  PROVE  Serving(c) /\ at[c] \notin {"queued", "fetching"} /\ c \in Tasks
<1> USE DEF IInv
<1>1. at[c] \in {"reading", "body"} /\ client' = client /\ c \in Tasks /\ c # Preloader
  BY Distinct DEF ReadHead
<1>2. CASE at[c] = "body"
  <2>1. read' = read /\ last' = last
    BY <1>2 DEF ReadHead
  <2>2. client[c] = "there" => read[c] = Len(replies[c]) + 1
    BY <1>2 DEF OneReplyEach
  <2> QED
    BY <1>1, <2>1, <2>2 DEF Serving, HttpTypes
<1>3. CASE at[c] = "reading"
  <2>1. /\ read[c] < MaxRequests
        /\ read' = [read EXCEPT ![c] = @ + 1] /\ last' = [last EXCEPT ![c] = final]
    BY <1>3 DEF ReadHead
  <2>2. client[c] = "there" => read[c] = Len(replies[c]) + 0
    BY <1>3 DEF OneReplyEach
  <2>3. replies[c] \in Seq(1..MaxRequests) /\ Len(replies[c]) \in Nat
    BY LenProperties DEF HttpTypes
  <2>4. read[c] + 1 \in 0..MaxRequests /\ read'[c] = read[c] + 1
    BY <2>1, Distinct DEF HttpTypes
  <2>5. read' \in [Conns -> 0..MaxRequests] /\ \A u \in Conns : u # c => read'[u] = read[u]
    BY <2>1, <2>4 DEF HttpTypes
  <2>6. last' \in [Conns -> BOOLEAN]
    BY <2>1 DEF HttpTypes
  <2>7. client[c] = "there" => read'[c] = Len(replies[c]) + 1
    BY <2>2, <2>3, <2>4
  <2> QED
    BY <1>1, <2>5, <2>6, <2>7 DEF Serving
<1> QED
  BY <1>1, <1>2, <1>3

\* A request that needs no lock.
LEMMA AnswerKeeps ==
  ASSUME IInv, NEW c \in Conns, NEW final \in BOOLEAN, ReadHead(c, final),
         Respond(c), UNCHANGED <<cacheVars, lockVars, wants>>
  PROVE  IInv'
<1> USE DEF IInv
<1>1. Serving(c) /\ at[c] \notin {"queued", "fetching"} /\ c \in Tasks /\ Leaves(c)
  BY HeadIsServed, Distinct DEF Leaves
<1>2. /\ HttpTypes' /\ PreloadInv' /\ OneReplyEach'
      /\ \E s \in {"reading", "closed", "next", "done", "died"} : at' = [at EXCEPT ![c] = s]
  BY <1>1, LeavesKeeps
<1>3. UNCHANGED <<setup, dirs, manifest, holder, queue, proc, wants>>
  BY DEF cacheVars, lockVars
<1>4. LockTypes'
  BY <1>3 DEF LockTypes
<1>5. HolderInv' /\ QueueInv'
  BY <1>1, <1>2, <1>3, LocksUntouched DEF States
<1> QED
  BY <1>2, <1>4, <1>5

\* A request's body is still to come.
LEMMA AwaitBodyKeeps ==
  ASSUME IInv, NEW c \in Conns, NEW final \in BOOLEAN, AwaitBody(c, final)
  PROVE  IInv'
<1> USE DEF IInv
<1>1. ReadHead(c, final) /\ at' = [at EXCEPT ![c] = "body"]
  BY DEF AwaitBody
<1>2. UNCHANGED <<setup, dirs, manifest, holder, queue, proc, wants, visited, replies>>
  BY DEF AwaitBody, cacheVars, lockVars
<1>3. Serving(c) /\ at[c] \notin {"queued", "fetching"} /\ c \in Tasks /\ Waits(c)
  BY <1>1, <1>2, HeadIsServed, Distinct DEF Waits
<1>4. HttpTypes' /\ PreloadInv' /\ OneReplyEach'
  BY <1>3, WaitsKeeps
<1>5. LockTypes'
  BY <1>2 DEF LockTypes
<1>6. HolderInv' /\ QueueInv'
  BY <1>1, <1>2, <1>3, LocksUntouched DEF States
<1> QED
  BY <1>4, <1>5, <1>6

\* A request's head is read, and routed.
LEMMA RequestKeeps ==
  ASSUME IInv, NEW c \in Conns, Request(c)
  PROVE  IInv'
<1>1. CASE RefuseBody(c)
  BY <1>1, AnswerKeeps DEF RefuseBody
<1>2. ASSUME NEW final \in BOOLEAN, AwaitBody(c, final) PROVE IInv'
  BY <1>2, AwaitBodyKeeps
<1>3. ASSUME NEW final \in BOOLEAN, AnswerNow(c, final) PROVE IInv'
  BY <1>3, AnswerKeeps DEF AnswerNow
<1>4. ASSUME NEW final \in BOOLEAN, NEW app \in {d.app : d \in Depots},
             ManifestRequest(c, app, final)
      PROVE  IInv'
  <2>1. ReadHead(c, final)
    BY <1>4 DEF ManifestRequest
  <2>2. CASE Respond(c) /\ UNCHANGED <<cacheVars, lockVars, wants>>
    BY <2>1, <2>2, AnswerKeeps
  <2>3. ASSUME NEW d \in dirs, EnsureDepot(c, d) PROVE IInv'
    <3>1. d \in Depots
      BY DEF IInv, LockTypes
    <3> QED
      BY <2>1, <2>3, <3>1, HeadIsServed, EnsureDepotKeeps
  <2> QED
    BY <1>4, <2>2, <2>3 DEF ManifestRequest
<1> QED
  BY <1>1, <1>2, <1>3, <1>4 DEF Request

\* No further request comes of a connection.
LEMMA ReadingEndsKeeps ==
  ASSUME IInv, NEW c \in Conns, ReadingEnds(c)
  PROVE  IInv'
<1> USE DEF IInv
<1>1. /\ at[c] = "reading" \/ (at[c] = "body" /\ client[c] = "gone")
      /\ at' = [at EXCEPT ![c] = "closed"]
      /\ UNCHANGED <<setup, dirs, manifest, holder, queue, proc, wants,
                     visited, client, last, read, replies>>
      /\ c \in Tasks /\ c # Preloader
  BY Distinct DEF ReadingEnds, cacheVars, lockVars, httpVars
<1>2. LockTypes' /\ HttpTypes'
  BY <1>1 DEF LockTypes, HttpTypes, States
<1>3. HolderInv' /\ QueueInv'
  BY <1>1, LocksUntouched DEF States
<1>4. PreloadInv'
  BY <1>1 DEF PreloadInv, HttpTypes
<1>5. OneReplyEach'
  BY <1>1, Distinct DEF OneReplyEach, HttpTypes
<1> QED
  BY <1>2, <1>3, <1>4, <1>5

\* A client goes, and takes nobody's reply.
LEMMA ClientGoesKeeps ==
  ASSUME IInv, NEW c \in Conns, ClientGoes(c)
  PROVE  IInv'
<1> USE DEF IInv
<1>1. /\ client' = [client EXCEPT ![c] = "gone"]
      /\ UNCHANGED <<setup, dirs, manifest, holder, queue, proc, wants,
                     at, visited, last, read, replies>>
  BY DEF ClientGoes, cacheVars, lockVars
<1>2. LockTypes' /\ HttpTypes'
  BY <1>1 DEF LockTypes, HttpTypes
<1>3. HolderInv' /\ QueueInv' /\ PreloadInv'
  BY <1>1 DEF HolderInv, QueueInv, PreloadInv
<1>4. OneReplyEach'
  BY <1>1 DEF OneReplyEach, HttpTypes
<1> QED
  BY <1>2, <1>3, <1>4

\* The preload takes its next entry, or has none.
LEMMA PreloadNextKeeps ==
  ASSUME IInv, PreloadNext
  PROVE  IInv'
<1> USE DEF IInv
<1>1. at[Preloader] = "next" /\ UNCHANGED <<client, last, read>>
  BY DEF PreloadNext
<1>2. CASE Preload = <<>>
  <2>1. /\ at' = [at EXCEPT ![Preloader] = "done"]
        /\ UNCHANGED <<setup, dirs, manifest, holder, queue, proc, wants,
                       visited, client, last, read, replies>>
    BY <1>2 DEF PreloadNext, cacheVars, lockVars
  <2>2. LockTypes' /\ HttpTypes'
    BY <2>1, Distinct DEF LockTypes, HttpTypes, States
  <2>3. HolderInv' /\ QueueInv'
    BY <1>1, <2>1, Distinct, LocksUntouched DEF States
  <2>4. PreloadInv' /\ OneReplyEach'
    BY <2>1, Distinct DEF PreloadInv, OneReplyEach, HttpTypes
  <2> QED
    BY <2>2, <2>3, <2>4
<1>3. CASE Preload # <<>>
  <2>1. visited < Len(Preload) /\ visited + 1 \in 1..Len(Preload)
    BY <1>1, <1>3, Distinct DEF PreloadInv, HttpTypes
  <2>2. Preload[visited + 1] \in Depots
    BY <2>1, Distinct, ElementOfSeq
  <2>3. Serving(Preloader)
    BY <1>1, <2>1, Distinct DEF Serving, HttpTypes
  <2> QED
    BY <1>1, <1>3, <2>2, <2>3, Distinct, EnsureDepotKeeps DEF PreloadNext
<1> QED
  BY <1>2, <1>3

\* Every step keeps the invariant.
LEMMA NextKeeps == IInv /\ [Next]_vars => IInv'
<1> SUFFICES ASSUME IInv, [Next]_vars PROVE IInv'
  OBVIOUS
<1>1. CASE PreloadNext
  BY <1>1, PreloadNextKeeps
<1>2. ASSUME NEW t \in Tasks, GetsLock(t) PROVE IInv'
  BY <1>2, GetsLockKeeps
<1>3. ASSUME NEW t \in Tasks, DownloaderExits(t) \/ DownloaderKilled(t) PROVE IInv'
  BY <1>3, FetchEndsKeeps DEF DownloaderExits, DownloaderKilled
<1>4. ASSUME NEW c \in Conns, Request(c) \/ ReadingEnds(c) \/ ClientGoes(c) PROVE IInv'
  BY <1>4, RequestKeeps, ReadingEndsKeeps, ClientGoesKeeps
<1>5. CASE UNCHANGED vars
  <2>1. UNCHANGED <<setup, dirs, manifest, holder, queue, proc, at, wants, visited,
                    client, last, read, replies>>
    BY <1>5 DEF vars, cacheVars, lockVars, httpVars
  <2> QED
    BY <2>1 DEF IInv, LockTypes, HttpTypes, HolderInv, QueueInv, PreloadInv, OneReplyEach
<1> QED
  BY <1>1, <1>2, <1>3, <1>4, <1>5 DEF Next

\* The invariant holds of every behaviour.
LEMMA Inductive == Spec => []IInv
BY InitInv, NextKeeps, PTL DEF Spec

\* The origin's state is well formed: a queue of tasks at every depot's lock,
\* a count of requests and the numbers of those that were answered.
THEOREM TypesHold == Spec => []TypeOK
<1>1. IInv => TypeOK
  BY TypesSplit DEF IInv
<1> QED
  BY <1>1, Inductive, PTL

\* ensure_depot runs the downloader under the depot's lock only: never do two
\* processes write one directory, whichever requests wait, fail or go away.
THEOREM OneDownloaderPerDepot == Spec => []OneDownloader
<1>1. IInv => OneDownloader
  BY DEF IInv, HolderInv, OneDownloader
<1> QED
  BY <1>1, Inductive, PTL

\* The loop of a connection writes one response to each request it reads, in
\* their order, whatever a handler runs into.
THEOREM RepliesInOrder == Spec => []OneReplyEach
<1>1. IInv => OneReplyEach
  BY DEF IInv
<1> QED
  BY <1>1, Inductive, PTL

-------------------------------------------------------------------------------
(***************************************************************************)
(* Nobody waits in vain, and the preload passes no depot over: what the    *)
(* liveness properties rest on.                                            *)
(***************************************************************************)

Once(q) == \A i, j \in 1..Len(q) : q[i] = q[j] => i = j

\* A depot's lock is held by a task whose downloader is running there, and its
\* queue is made of tasks that wait for it, each in one place.
WaitInv ==
  \A d \in Depots :
    /\ holder[d] # None => proc[holder[d]] = d
    /\ Once(queue[d])
    /\ \A i \in 1..Len(queue[d]) : at[queue[d][i]] = "queued" /\ wants[queue[d][i]] = d

\* The preload is at work on the entry behind those it has dealt with, and what it
\* dealt with has a directory.
PassInv ==
  /\ \A i \in 1..visited : Preload[i] \in dirs
  /\ at[Preloader] = "died" => setup = "broken"
  /\ at[Preloader] = "done" => visited = Len(Preload)
  /\ at[Preloader] \in {"queued", "fetching"} => wants[Preloader] = Preload[visited + 1]
  /\ at[Preloader] = "fetching" => wants[Preloader] \in dirs

\* A depot's lock is handed on: the one who has it runs a downloader, which ends or
\* is killed; free, it is the first waiter's, who is there to take it (GetsLock); and
\* nobody waits outside the queue of the depot that it wants.
LocksHandedOn ==
  /\ \A d \in Depots :
       /\ holder[d] # None => holder[d] \in Tasks /\ proc[holder[d]] = d
       /\ holder[d] = None /\ queue[d] # <<>> =>
            Head(queue[d]) \in Tasks /\ at[Head(queue[d])] = "queued" /\ wants[Head(queue[d])] = d
  /\ \A t \in Tasks : at[t] = "queued" =>
       wants[t] \in Depots /\ \E i \in 1..Len(queue[wants[t]]) : queue[wants[t]][i] = t

\* warm_preload leaves no entry out: those behind it have their directory, it is done
\* when all are, and nothing ends it before but a downloader that cannot be executed.
PreloadLeavesNoneOut ==
  /\ \A i \in 1..visited : Preload[i] \in dirs
  /\ at[Preloader] = "done" => \A i \in 1..Len(Preload) : Preload[i] \in dirs
  /\ at[Preloader] = "died" => setup = "broken"

\* A queue that another task has joined.
LEMMA OnceMore ==
  ASSUME NEW q \in Seq(Tasks), NEW t \in Tasks, Once(q), \A i \in 1..Len(q) : q[i] # t
  PROVE  /\ Once(Append(q, t))
         /\ \A i \in 1..Len(Append(q, t)) :
              Append(q, t)[i] = t \/ \E j \in 1..Len(q) : Append(q, t)[i] = q[j]
<1> DEFINE p == Append(q, t)
<1>1. /\ Len(q) \in Nat /\ Len(p) = Len(q) + 1 /\ p[Len(q) + 1] = t
      /\ \A i \in 1..Len(q) : p[i] = q[i]
  BY AppendProperties, LenProperties
<1> HIDE DEF p
<1>2. \A i \in 1..Len(p) : i \in 1..Len(q) \/ i = Len(q) + 1
  BY <1>1
<1>3. ASSUME NEW i \in 1..Len(p), NEW j \in 1..Len(p), p[i] = p[j] PROVE i = j
  <2>1. i \in 1..Len(q) /\ j \in 1..Len(q) => i = j
    BY <1>1, <1>3 DEF Once
  <2>2. /\ i \in 1..Len(q) => p[i] # t
        /\ j \in 1..Len(q) => p[j] # t
    BY <1>1
  <2> QED
    BY <1>1, <1>2, <1>3, <2>1, <2>2
<1>4. \A i \in 1..Len(p) : p[i] = t \/ \E j \in 1..Len(q) : p[i] = q[j]
  BY <1>1, <1>2
<1> QED
  BY <1>3, <1>4 DEF Once, p

\* A queue that its first has left.
LEMMA OnceLess ==
  ASSUME NEW q \in Seq(Tasks), q # <<>>, Once(q)
  PROVE  /\ Once(Tail(q))
         /\ \A i \in 1..Len(Tail(q)) :
              Tail(q)[i] # Head(q) /\ \E j \in 1..Len(q) : Tail(q)[i] = q[j]
<1> DEFINE p == Tail(q)
<1>1. /\ Len(q) \in Nat \ {0} /\ Len(p) = Len(q) - 1 /\ Head(q) = q[1]
      /\ \A i \in 1..Len(p) : p[i] = q[i + 1]
  BY HeadTailProperties, LenProperties
<1> HIDE DEF p
<1>2. 1 \in 1..Len(q) /\ \A i \in 1..Len(p) : i + 1 \in 1..Len(q) /\ i + 1 # 1
  BY <1>1
<1>3. ASSUME NEW i \in 1..Len(p), NEW j \in 1..Len(p), p[i] = p[j] PROVE i = j
  <2>1. i + 1 = j + 1
    BY <1>1, <1>2, <1>3 DEF Once
  <2> QED
    BY <1>1, <2>1
<1>4. ASSUME NEW i \in 1..Len(p)
      PROVE  p[i] # Head(q) /\ \E j \in 1..Len(q) : p[i] = q[j]
  BY <1>1, <1>2 DEF Once
<1> QED
  BY <1>3, <1>4 DEF Once, p

\* Only the task that acts moves.
LEMMA OthersStay ==
  ASSUME LockTypes, HttpTypes, NEW t \in Tasks, NEW d, NEW ok,
         WithLock(t, d) \/ Return(t, ok)
  PROVE  \A u \in Tasks \ {t} : at'[u] = at[u]
BY DEF WithLock, Return, Raise, Respond, NextEntry, Die, LockTypes, HttpTypes

\* What the preload has done when it has done with an entry.
LEMMA EntryPasses ==
  ASSUME IInv, PassInv, NEW t \in Tasks, NEW ok, Return(t, ok), NEW d, d \in dirs',
         t = Preloader => d = Preload[visited + 1], dirs \subseteq dirs',
         setup' = setup, UNCHANGED wants
  PROVE  PassInv'
<1>1. CASE t = Preloader
  <2>1. visited' = visited + 1 /\ at'[Preloader] = IF visited' = Len(Preload) THEN "done" ELSE "next"
    BY <1>1 DEF Return, NextEntry, IInv, HttpTypes
  <2>2. \A i \in 1..(visited + 1) : i \in 1..visited \/ i = visited + 1
    BY DEF IInv, HttpTypes
  <2>3. \A i \in 1..visited' : Preload[i] \in dirs'
    BY <1>1, <2>1, <2>2 DEF PassInv
  <2> QED
    BY <2>1, <2>3 DEF PassInv
<1>2. CASE t # Preloader
  <2>1. visited' = visited /\ at'[Preloader] = at[Preloader]
    BY <1>2, Distinct DEF Return, Respond, IInv, HttpTypes
  <2> QED
    BY <2>1 DEF PassInv
<1> QED
  BY <1>1, <1>2

\* The lock's invariant, for the task that has got a depot's lock.
LEMMA WithLockWaits ==
  ASSUME IInv, NEW t \in Tasks, NEW d \in Depots, at[t] # "fetching", WithLock(t, d),
         \A e \in Depots :
           /\ holder[e] # None => proc[holder[e]] = e
           /\ Once(queue'[e])
           /\ \A i \in 1..Len(queue'[e]) :
                /\ queue'[e][i] \in Tasks \ {t}
                /\ at[queue'[e][i]] = "queued" /\ wants[queue'[e][i]] = e
  PROVE  WaitInv'
<1>1. \A u \in Tasks \ {t} : at'[u] = at[u]
  BY OthersStay DEF IInv
<1>2. proc[t] = None
  BY DEF IInv, HolderInv
<1>3. CASE UNCHANGED <<holder, proc, wants>>
  BY <1>1, <1>3 DEF WaitInv
<1>4. CASE /\ holder' = [holder EXCEPT ![d] = t]
           /\ proc'   = [proc EXCEPT ![t] = d]
           /\ wants'  = [wants EXCEPT ![t] = d]
  <2>1. \A u \in Tasks \ {t} : proc'[u] = proc[u] /\ wants'[u] = wants[u]
    BY <1>4 DEF IInv, LockTypes
  <2>2. \A e \in Depots : holder'[e] # None => proc'[holder'[e]] = e
    BY <1>2, <1>4, <2>1, Distinct DEF IInv, LockTypes
  <2> QED
    BY <1>1, <2>1, <2>2 DEF WaitInv
<1> QED
  BY <1>3, <1>4 DEF WithLock

\* And the preload's, if it was its own entry.
LEMMA WithLockPasses ==
  ASSUME IInv, PassInv, NEW t \in Tasks, NEW d \in Depots, WithLock(t, d),
         t = Preloader => d = Preload[visited + 1]
  PROVE  PassInv'
<1>1. dirs' = dirs \cup {d} /\ setup' = setup
  BY DEF WithLock
<1>2. ASSUME Return(t, d \in manifest), UNCHANGED wants PROVE PassInv'
  BY <1>1, <1>2, EntryPasses
<1>3. ASSUME Raise(t), setup = "broken", UNCHANGED wants PROVE PassInv'
  <2>1. CASE t = Preloader
    <3>1. at'[Preloader] = "died" /\ visited' = visited
      BY <1>3, <2>1 DEF Raise, Die, IInv, HttpTypes
    <3> QED
      BY <1>1, <1>3, <3>1 DEF PassInv
  <2>2. CASE t # Preloader
    <3>1. visited' = visited /\ at'[Preloader] = at[Preloader]
      BY <1>3, <2>2, Distinct DEF Raise, Respond, IInv, HttpTypes
    <3> QED
      BY <1>1, <1>3, <3>1 DEF PassInv
  <2> QED
    BY <2>1, <2>2
<1>4. ASSUME /\ wants' = [wants EXCEPT ![t] = d]
             /\ at'    = [at EXCEPT ![t] = "fetching"]
             /\ visited' = visited
      PROVE  PassInv'
  BY <1>1, <1>4, Distinct DEF PassInv, IInv, LockTypes, HttpTypes
<1> QED
  BY <1>2, <1>3, <1>4 DEF WithLock

\* ensure_depot, up to its first await.
LEMMA EnsureDepotWaits ==
  ASSUME IInv, WaitInv, PassInv, NEW t \in Tasks, NEW d \in Depots,
         at[t] \notin {"queued", "fetching"}, EnsureDepot(t, d),
         t = Preloader => d = Preload[visited + 1]
  PROVE  WaitInv' /\ PassInv'
<1>1. \A e \in Depots : /\ queue[e] \in Seq(Tasks)
                        /\ \A i \in 1..Len(queue[e]) : queue[e][i] \in Tasks \ {t}
  <2>1. \A e \in Depots : queue[e] \in Seq(Tasks)
    BY DEF IInv, LockTypes
  <2> QED
    BY <2>1, ElementOfSeq DEF WaitInv
<1>2. CASE LockIsFree(d)
  <2>1. WithLock(t, d) /\ queue' = queue
    BY <1>2 DEF EnsureDepot
  <2>2. WaitInv'
    BY <1>1, <2>1, WithLockWaits DEF WaitInv
  <2> QED
    BY <2>1, <2>2, WithLockPasses
<1>3. CASE ~LockIsFree(d)
  <2>1. /\ queue' = [queue EXCEPT ![d] = Append(queue[d], t)]
        /\ at'    = [at EXCEPT ![t] = "queued"]
        /\ wants' = [wants EXCEPT ![t] = d]
        /\ UNCHANGED <<setup, dirs, manifest, holder, proc, visited, replies>>
    BY <1>3 DEF EnsureDepot, cacheVars
  <2>2. /\ \A u \in Tasks \ {t} : at'[u] = at[u] /\ wants'[u] = wants[u]
        /\ at'[t] = "queued" /\ wants'[t] = d
    BY <2>1 DEF IInv, LockTypes, HttpTypes
  <2>3. ASSUME NEW e \in Depots
        PROVE  /\ Once(queue'[e])
               /\ \A i \in 1..Len(queue'[e]) : at'[queue'[e][i]] = "queued" /\ wants'[queue'[e][i]] = e
    <3>1. CASE e = d
      <4>1. queue'[e] = Append(queue[d], t)
        BY <2>1, <3>1 DEF IInv, LockTypes
      <4>2. /\ Once(queue'[e])
            /\ \A i \in 1..Len(queue'[e]) :
                 queue'[e][i] = t \/ \E j \in 1..Len(queue[d]) : queue'[e][i] = queue[d][j]
        BY <1>1, <4>1, OnceMore DEF WaitInv
      <4> QED
        BY <1>1, <2>2, <3>1, <4>2 DEF WaitInv
    <3>2. CASE e # d
      <4>1. queue'[e] = queue[e]
        BY <2>1, <3>2 DEF IInv, LockTypes
      <4> QED
        BY <1>1, <2>2, <4>1 DEF WaitInv
    <3> QED
      BY <3>1, <3>2
  <2>4. WaitInv'
    BY <2>1, <2>3 DEF WaitInv
  <2>5. PassInv'
    BY <2>1, <2>2, Distinct DEF PassInv
  <2> QED
    BY <2>4, <2>5
<1> QED
  BY <1>2, <1>3

\* The first in the queue gets the lock.
LEMMA GetsLockWaits ==
  ASSUME IInv, WaitInv, PassInv, NEW t \in Tasks, GetsLock(t)
  PROVE  WaitInv' /\ PassInv'
<1> DEFINE d == wants[t]
<1>1. /\ at[t] = "queued" /\ holder[d] = None /\ Head(queue[d]) = t
      /\ queue' = [queue EXCEPT ![d] = Tail(queue[d])] /\ WithLock(t, d)
  BY DEF GetsLock
<1>2. d \in Depots /\ queue[d] \in Seq(Tasks) /\ queue[d] # <<>>
  <2>1. d \in Depots /\ \E i \in 1..Len(queue[d]) : queue[d][i] = t
    BY <1>1 DEF IInv, QueueInv
  <2>2. queue[d] \in Seq(Tasks)
    BY <2>1 DEF IInv, LockTypes
  <2>3. Len(<<>>) = 0
    OBVIOUS
  <2> QED
    BY <2>1, <2>2, <2>3
<1> HIDE DEF d
<1>3. ASSUME NEW e \in Depots
      PROVE  /\ Once(queue'[e])
             /\ \A i \in 1..Len(queue'[e]) :
                  /\ queue'[e][i] \in Tasks \ {t}
                  /\ at[queue'[e][i]] = "queued" /\ wants[queue'[e][i]] = e
  <2>1. queue[e] \in Seq(Tasks) /\ \A i \in 1..Len(queue[e]) : queue[e][i] \in Tasks
    <3>1. queue[e] \in Seq(Tasks)
      BY DEF IInv, LockTypes
    <3> QED
      BY <3>1, ElementOfSeq
  <2>2. CASE e = d
    <3>1. queue'[e] = Tail(queue[d])
      BY <1>1, <1>2, <2>2 DEF IInv, LockTypes
    <3>2. /\ Once(queue'[e])
          /\ \A i \in 1..Len(queue'[e]) :
               queue'[e][i] # t /\ \E j \in 1..Len(queue[d]) : queue'[e][i] = queue[d][j]
      <4>1. Once(queue[d]) /\ Head(queue[d]) = t
        BY <1>1, <1>2 DEF WaitInv
      <4> QED
        BY <1>2, <3>1, <4>1, OnceLess
    <3> QED
      BY <2>1, <2>2, <3>2 DEF WaitInv
  <2>3. CASE e # d
    <3>1. queue'[e] = queue[e]
      BY <1>1, <2>3 DEF IInv, LockTypes
    <3>2. \A i \in 1..Len(queue[e]) : queue[e][i] # t
      BY <2>3 DEF WaitInv, d
    <3> QED
      BY <2>1, <3>1, <3>2 DEF WaitInv
  <2> QED
    BY <2>2, <2>3
<1>4. WaitInv'
  <2>1. at[t] # "fetching"
    BY <1>1
  <2>2. \A e \in Depots :
          /\ holder[e] # None => proc[holder[e]] = e
          /\ Once(queue'[e])
          /\ \A i \in 1..Len(queue'[e]) :
               /\ queue'[e][i] \in Tasks \ {t}
               /\ at[queue'[e][i]] = "queued" /\ wants[queue'[e][i]] = e
    BY <1>3 DEF WaitInv
  <2>3. WithLock(t, d)
    BY <1>1
  <2> QED
    BY <1>2, <2>1, <2>2, <2>3, WithLockWaits
<1>5. t = Preloader => d = Preload[visited + 1]
  BY <1>1 DEF PassInv, d
<1> QED
  BY <1>1, <1>2, <1>4, <1>5, WithLockPasses

\* A download is over.
LEMMA FetchEndsWaits ==
  ASSUME IInv, WaitInv, PassInv, NEW t \in Tasks, NEW ok, proc[t] # None, FetchEnds(t, ok)
  PROVE  WaitInv' /\ PassInv'
<1>1. /\ UNCHANGED <<setup, dirs, manifest, queue, wants, client, last, read>>
      /\ proc'   = [proc EXCEPT ![t] = None]
      /\ holder' = [holder EXCEPT ![wants[t]] = None]
      /\ Return(t, ok)
  BY DEF FetchEnds
<1>2. at[t] = "fetching" /\ wants[t] = proc[t] /\ proc[t] \in Depots /\ holder[proc[t]] = t
  BY DEF IInv, HolderInv
<1>3. \A u \in Tasks \ {t} : at'[u] = at[u]
  BY <1>1, OthersStay DEF IInv
<1>4. WaitInv'
  <2>1. ASSUME NEW e \in Depots, holder'[e] # None PROVE proc'[holder'[e]] = e
    <3>1. e # wants[t] /\ holder'[e] = holder[e] /\ holder[e] \in Tasks
      BY <1>1, <2>1 DEF IInv, LockTypes
    <3>2. proc[holder[e]] = e /\ holder[e] # t
      BY <1>2, <2>1, <3>1 DEF WaitInv
    <3> QED
      BY <1>1, <3>1, <3>2 DEF IInv, LockTypes
  <2>2. ASSUME NEW e \in Depots, NEW i \in 1..Len(queue[e]) PROVE at'[queue[e][i]] = "queued"
    <3>1. queue[e][i] \in Tasks /\ at[queue[e][i]] = "queued"
      <4>1. queue[e] \in Seq(Tasks)
        BY DEF IInv, LockTypes
      <4> QED
        BY <4>1, ElementOfSeq DEF WaitInv
    <3> QED
      BY <1>2, <1>3, <3>1
  <2> QED
    BY <1>1, <2>1, <2>2 DEF WaitInv
<1>5. CASE t = Preloader
  <2>1. Preload[visited + 1] \in dirs
    BY <1>2, <1>5 DEF PassInv
  <2> QED
    BY <1>1, <1>4, <1>5, <2>1, EntryPasses
<1>6. CASE t # Preloader
  <2>1. visited' = visited /\ at'[Preloader] = at[Preloader]
    BY <1>1, <1>6, Distinct DEF Return, Respond, IInv, HttpTypes
  <2> QED
    BY <1>1, <1>4, <2>1 DEF PassInv
<1> QED
  BY <1>5, <1>6

\* A connection that asks for no depot.
LEMMA OtherWaits ==
  ASSUME IInv, WaitInv, PassInv, NEW c \in Conns, at[c] \notin {"queued", "fetching"},
         \E s \in States : at' = [at EXCEPT ![c] = s],
         UNCHANGED <<cacheVars, lockVars, wants, visited>>
  PROVE  WaitInv' /\ PassInv'
<1>1. UNCHANGED <<setup, dirs, holder, queue, proc>> /\ c # Preloader /\ c \in Tasks
  BY Distinct DEF cacheVars, lockVars
<1>2. \A u \in Tasks \ {c} : at'[u] = at[u]
  BY DEF IInv, HttpTypes
<1>3. \A e \in Depots : \A i \in 1..Len(queue[e]) : queue[e][i] \in Tasks \ {c}
  <2>1. \A e \in Depots : queue[e] \in Seq(Tasks)
    BY DEF IInv, LockTypes
  <2> QED
    BY <2>1, ElementOfSeq DEF WaitInv
<1>4. WaitInv'
  BY <1>1, <1>2, <1>3 DEF WaitInv
<1> QED
  BY <1>1, <1>2, <1>4, Distinct DEF PassInv

\* A request.
LEMMA RequestWaits ==
  ASSUME IInv, WaitInv, PassInv, NEW c \in Conns, Request(c)
  PROVE  WaitInv' /\ PassInv'
<1>0. at[c] \in {"reading", "body"}
  BY DEF Request, RefuseBody, AwaitBody, AnswerNow, ManifestRequest, ReadHead
<1>1. ASSUME Respond(c), UNCHANGED <<cacheVars, lockVars, wants>> PROVE WaitInv' /\ PassInv'
  <2>1. (\E s \in States : at' = [at EXCEPT ![c] = s]) /\ UNCHANGED visited
    BY <1>1 DEF Respond, States
  <2> QED
    BY <1>0, <1>1, <2>1, OtherWaits
<1>2. ASSUME NEW final \in BOOLEAN, AwaitBody(c, final) PROVE WaitInv' /\ PassInv'
  BY <1>0, <1>2, OtherWaits DEF AwaitBody, States
<1>3. ASSUME NEW d \in dirs, EnsureDepot(c, d) PROVE WaitInv' /\ PassInv'
  <2>1. d \in Depots /\ c \in Tasks /\ c # Preloader
    BY Distinct DEF IInv, LockTypes
  <2> QED
    BY <1>0, <1>3, <2>1, EnsureDepotWaits
<1> QED
  BY <1>1, <1>2, <1>3 DEF Request, RefuseBody, AnswerNow, ManifestRequest

\* The preload's next entry.
LEMMA PreloadWaits ==
  ASSUME IInv, WaitInv, PassInv, PreloadNext
  PROVE  WaitInv' /\ PassInv'
<1>1. at[Preloader] = "next" /\ Preloader \in Tasks
  BY Distinct DEF PreloadNext
<1>2. CASE Preload = <<>>
  <2>1. /\ at' = [at EXCEPT ![Preloader] = "done"]
        /\ UNCHANGED <<setup, dirs, holder, queue, proc, wants, visited>>
    BY <1>2 DEF PreloadNext, cacheVars, lockVars
  <2>2. at'[Preloader] = "done" /\ \A u \in Tasks : at[u] = "queued" => at'[u] = "queued"
    BY <1>1, <2>1 DEF IInv, HttpTypes
  <2>3. \A e \in Depots : \A i \in 1..Len(queue[e]) : queue[e][i] \in Tasks
    <3>1. \A e \in Depots : queue[e] \in Seq(Tasks)
      BY DEF IInv, LockTypes
    <3> QED
      BY <3>1, ElementOfSeq
  <2>4. WaitInv'
    BY <2>1, <2>2, <2>3 DEF WaitInv
  <2>5. visited = Len(Preload)
    <3>1. Len(Preload) = 0 /\ visited \in 0..Len(Preload)
      BY <1>2 DEF IInv, HttpTypes
    <3> QED
      BY <3>1
  <2> QED
    BY <2>1, <2>2, <2>4, <2>5 DEF PassInv
<1>3. CASE Preload # <<>>
  <2>1. visited < Len(Preload) /\ visited + 1 \in 1..Len(Preload)
    BY <1>1, <1>3, Distinct DEF IInv, PreloadInv, HttpTypes
  <2>2. Preload[visited + 1] \in Depots
    BY <2>1, Distinct, ElementOfSeq
  <2> QED
    BY <1>1, <1>3, <2>2, EnsureDepotWaits DEF PreloadNext
<1> QED
  BY <1>2, <1>3

\* At the start nobody waits and nothing has been preloaded.
LEMMA WaitsInit == Init => WaitInv /\ PassInv
<1> SUFFICES ASSUME Init PROVE WaitInv /\ PassInv
  OBVIOUS
<1>1. WaitInv
  BY DEF Init, WaitInv, Once
<1>2. PassInv
  BY Distinct DEF Init, PassInv
<1> QED
  BY <1>1, <1>2

\* Every step keeps the lock's and the preload's invariants.
LEMMA WaitsKept == IInv /\ WaitInv /\ PassInv /\ [Next]_vars => WaitInv' /\ PassInv'
<1> SUFFICES ASSUME IInv, WaitInv, PassInv, [Next]_vars PROVE WaitInv' /\ PassInv'
  OBVIOUS
<1>1. ASSUME NEW t \in Tasks, DownloaderExits(t) \/ DownloaderKilled(t)
      PROVE  WaitInv' /\ PassInv'
  BY <1>1, FetchEndsWaits DEF DownloaderExits, DownloaderKilled
<1>2. ASSUME NEW c \in Conns, ReadingEnds(c) PROVE WaitInv' /\ PassInv'
  <2>1. at[c] \notin {"queued", "fetching"} /\ at' = [at EXCEPT ![c] = "closed"]
        /\ UNCHANGED <<cacheVars, lockVars, wants, visited>>
    BY <1>2 DEF ReadingEnds
  <2> QED
    BY <2>1, OtherWaits DEF States
<1>3. ASSUME UNCHANGED <<cacheVars, lockVars, at, wants, visited>> PROVE WaitInv' /\ PassInv'
  BY <1>3 DEF cacheVars, lockVars, WaitInv, PassInv
<1>4. ASSUME NEW c \in Conns, ClientGoes(c) PROVE WaitInv' /\ PassInv'
  BY <1>3, <1>4 DEF ClientGoes
<1>5. CASE UNCHANGED vars
  BY <1>3, <1>5 DEF vars
<1> QED
  BY <1>1, <1>2, <1>4, <1>5, GetsLockWaits, RequestWaits, PreloadWaits DEF Next

\* ensure_depot's locks are never left without a task that can take or give them up,
\* whoever waits, has gone, or has failed.
THEOREM DepotLocksMove == Spec => []LocksHandedOn
<1>1. IInv /\ WaitInv => LocksHandedOn
  <2> SUFFICES ASSUME IInv, WaitInv PROVE LocksHandedOn
    OBVIOUS
  <2>1. ASSUME NEW d \in Depots, queue[d] # <<>>
        PROVE  Head(queue[d]) \in Tasks /\ at[Head(queue[d])] = "queued" /\ wants[Head(queue[d])] = d
    <3>1. queue[d] \in Seq(Tasks)
      BY DEF IInv, LockTypes
    <3>2. Head(queue[d]) = queue[d][1] /\ 1 \in 1..Len(queue[d]) /\ Head(queue[d]) \in Tasks
      BY <2>1, <3>1, HeadTailProperties, LenProperties
    <3> QED
      BY <3>2 DEF WaitInv
  <2> QED
    BY <2>1 DEF LocksHandedOn, WaitInv, IInv, LockTypes, QueueInv
<1> QED
  BY <1>1, WaitsInit, WaitsKept, Inductive, PTL DEF Spec

\* The preload visits its depots in order and leaves out none, whatever fails.
THEOREM PreloadIsComplete == Spec => []PreloadLeavesNoneOut
<1>1. PassInv => PreloadLeavesNoneOut
  BY DEF PassInv, PreloadLeavesNoneOut
<1> QED
  BY <1>1, WaitsInit, WaitsKept, Inductive, PTL DEF Spec

===============================================================================
