-------------------------- MODULE TranslatorProofs --------------------------
(***************************************************************************)
(* Translator, for any number and order of client messages: ends that      *)
(* share a key switch to it at the same frame, a connection is welcomed    *)
(* once, and (of a client that packs one message into a frame) replies go  *)
(* to the jobs that asked, in their order.                                 *)
(*                                                                         *)
(* KeyInv relates the two ends' keys to the frames on the way; TalkInv the *)
(* state to what was said and is still to be said; ServerInv says what the *)
(* client's frames may be.                                                 *)
(***************************************************************************)
EXTENDS Translator, SequenceTheorems, TLAPS

Session == {"SessionToken", "AccountInfo", "CMList", "UpdateMachineAuth", "NewLoginKey"}

ServerFrames == [enc : BOOLEAN, parts : Seq(Messages(FromClient))]
ClientFrames == [enc : BOOLEAN, parts : Seq(Messages(FromServer))]

\* A frame of the client: only requests have a job, and of a client that
\* encrypts only those sent encrypted; nothing is encrypted too early.
ServerFrame(f, who, a) ==
  /\ f.parts # <<>>
  /\ \A k \in 1..Len(f.parts) :
       f.parts[k].job # NoJob => f.parts[k].msg \in Requests /\ (who = "keyed" => f.enc)
  /\ who # "foreign" /\ f.enc => a /\ who = "keyed"

ServerInv == \A i \in 1..Len(toServer) : ServerFrame(toServer[i], kind, armed)

\* A frame of the gateway: one message, and only replies have a job.
ClientFrame(f) ==
  Len(f.parts) = 1 /\ (f.parts[1].job # NoJob => f.parts[1].msg = "Reply")

\* Some frame of q is the result of the handshake.
Answered(q) == \E i \in 1..Len(q) : IsResult(q[i])

\* The frames are encrypted from the first result on, or from the start.
Agree(q, already, keyed) ==
  \A i \in 1..Len(q) :
    q[i].enc = (already \/ (keyed /\ \E j \in 1..(i-1) : IsResult(q[j])))

KeyInv ==
  /\ \A i \in 1..Len(toClient) : ClientFrame(toClient[i])
  /\ kind = "plain" => ~filter
  /\ state = "await_encrypt" /\ armed => task = "closed"
  /\ Shared =>
       /\ armed => kind = "keyed"
       /\ kind = "keyed" /\ state # "await_encrypt" => armed
       /\ filter => armed
       /\ state = "await_encrypt" => ~filter /\ ~Answered(toClient)
       /\ kind = "keyed" /\ armed /\ ~filter /\ peer = "open" => Answered(toClient)
       /\ Agree(toClient, filter, kind = "keyed")

\* What a handler leaves to be sent.
OutMsg(x, s) ==
  /\ x.msg # "EncryptResult"
  /\ x.job # NoJob => x.msg = "Reply"
  /\ x.msg \in {"LogOnOK"} \cup Session => s = "active"

Welcomed(q) == \E i \in 1..Len(q) : q[i] = "LogOnOK"

\* Welcomed once, and session data after that.
Once(q) ==
  /\ \A i, j \in 1..Len(q) : q[i] = "LogOnOK" /\ q[j] = "LogOnOK" => i = j
  /\ \A i \in 1..Len(q) : q[i] \in Session => \E j \in 1..Len(q) : q[j] = "LogOnOK" /\ j < i

TalkInv ==
  /\ \A k \in 1..Len(outbox) : OutMsg(outbox[k], state)
  /\ task = "modern" => outbox = <<>> /\ state = "authenticating"
  /\ \A k \in 1..Len(outbox) : outbox[k].msg = "LogOnOK" => k = 1 /\ ~Welcomed(said)
  /\ \A k \in 1..Len(outbox) : outbox[k].msg \in Session =>
       outbox[1].msg = "LogOnOK" \/ Welcomed(said)
  /\ state # "active" => ~Welcomed(said)
  /\ Once(said)

IInv == TypeOK /\ ServerInv /\ KeyInv /\ TalkInv

-------------------------------------------------------------------------------

\* Joining a queue: what was there stays where it was.
LEMMA AppendAll ==
  ASSUME NEW S, NEW q \in Seq(S), NEW x \in S
  PROVE  /\ Append(q, x) \in Seq(S) /\ Len(q) \in Nat /\ Len(Append(q, x)) = Len(q) + 1
         /\ \A i \in 1..Len(q) : Append(q, x)[i] = q[i]
         /\ Append(q, x)[Len(q) + 1] = x
         /\ \A i \in 1..(Len(q) + 1) : i \in 1..Len(q) \/ i = Len(q) + 1
<1>1. /\ Append(q, x) \in Seq(S) /\ Len(q) \in Nat /\ Len(Append(q, x)) = Len(q) + 1
      /\ \A i \in 1..Len(q) : Append(q, x)[i] = q[i]
      /\ Append(q, x)[Len(q) + 1] = x
  BY AppendProperties, LenProperties
<1> QED
  BY <1>1

\* Leaving a queue: what was second is first now.
LEMMA TailAll ==
  ASSUME NEW S, NEW q \in Seq(S), q # <<>>
  PROVE  /\ Tail(q) \in Seq(S) /\ Head(q) \in S /\ Head(q) = q[1]
         /\ Len(q) \in Nat /\ 1 \in 1..Len(q) /\ Len(Tail(q)) = Len(q) - 1
         /\ \A i \in 1..Len(Tail(q)) : i + 1 \in 1..Len(q) /\ i + 1 # 1 /\ Tail(q)[i] = q[i + 1]
<1>1. /\ Tail(q) \in Seq(S) /\ Head(q) \in S /\ Head(q) = q[1]
      /\ Len(q) \in Nat /\ Len(q) # 0 /\ Len(Tail(q)) = Len(q) - 1
      /\ \A i \in 1..Len(Tail(q)) : Tail(q)[i] = q[i + 1]
  BY HeadTailProperties, LenProperties
<1> QED
  BY <1>1

\* A frame with one message.
LEMMA OneMessage ==
  ASSUME NEW e \in BOOLEAN, NEW names, NEW x \in Messages(names)
  PROVE  /\ Frame(e, <<x>>) \in [enc : BOOLEAN, parts : Seq(Messages(names))]
         /\ Frame(e, <<x>>).enc = e /\ Frame(e, <<x>>).parts = <<x>>
         /\ <<x>> # <<>> /\ Len(<<x>>) = 1 /\ <<x>>[1] = x /\ Head(<<x>>) = x
         /\ \A k \in 1..Len(<<x>>) : k = 1
<1> USE DEF Frame
<1>1. <<x>> \in Seq(Messages(names)) /\ Len(<<x>>) = 1 /\ <<x>>[1] = x /\ Head(<<x>>) = x
  OBVIOUS
<1> QED
  BY <1>1

\* What TalkInv says of the answers is what OneLogon does.
LEMMA OneLogonIsOnce == Once(said) => OneLogon
BY DEF Once, OneLogon, Session

\* The invariant has FiltersAgree as a part.
LEMMA FiltersFollow == IInv => FiltersAgree
BY DEF IInv, KeyInv, ServerInv, ServerFrame, Agree, FiltersAgree, Shared

\* The frames on the way to the client.
LEMMA AppendAgree ==
  ASSUME NEW q \in Seq(ClientFrames), NEW already, NEW keyed, NEW f \in ClientFrames,
         Agree(q, already, keyed), f.enc = (already \/ (keyed /\ Answered(q)))
  PROVE  /\ Agree(Append(q, f), already, keyed)
         /\ Answered(Append(q, f)) <=> Answered(q) \/ IsResult(f)
<1> DEFINE p == Append(q, f)
<1>1. /\ p \in Seq(ClientFrames) /\ Len(q) \in Nat /\ Len(p) = Len(q) + 1
      /\ \A i \in 1..Len(q) : p[i] = q[i]
      /\ p[Len(q) + 1] = f
      /\ \A i \in 1..(Len(q) + 1) : i \in 1..Len(q) \/ i = Len(q) + 1
  BY AppendAll
<1> HIDE DEF p
<1>2. ASSUME NEW i \in 1..Len(p)
      PROVE  p[i].enc = (already \/ (keyed /\ \E j \in 1..(i-1) : IsResult(p[j])))
  <2>1. CASE i \in 1..Len(q)
    <3>1. 1..(i-1) \subseteq 1..Len(q) /\ p[i] = q[i]
      BY <1>1, <2>1
    <3> QED
      BY <1>1, <2>1, <3>1 DEF Agree
  <2>2. CASE i = Len(q) + 1
    <3>1. 1..(i-1) = 1..Len(q) /\ p[i] = f
      BY <1>1, <2>2
    <3> QED
      BY <1>1, <3>1 DEF Answered
  <2> QED
    BY <1>1, <2>1, <2>2
<1>3. Answered(p) <=> Answered(q) \/ IsResult(f)
  <2>1. Len(q) + 1 \in 1..Len(p) /\ 1..Len(q) \subseteq 1..Len(p)
    BY <1>1
  <2> QED
    BY <1>1, <2>1 DEF Answered
<1> QED
  BY <1>2, <1>3 DEF Agree, p

\* The client reads the next frame: what is left still agrees with what it knows.
LEMMA TailAgree ==
  ASSUME NEW q \in Seq(ClientFrames), q # <<>>, NEW already \in BOOLEAN, NEW keyed \in BOOLEAN,
         Agree(q, already, keyed), already => keyed
  PROVE  /\ Agree(Tail(q), IF IsResult(Head(q)) THEN keyed ELSE already, keyed)
         /\ Answered(q) => IsResult(Head(q)) \/ Answered(Tail(q))
         /\ Answered(Tail(q)) => Answered(q)
<1> DEFINE p == Tail(q)
<1>1. /\ p \in Seq(ClientFrames) /\ Head(q) = q[1] /\ Len(q) \in Nat /\ Len(p) = Len(q) - 1
      /\ 1 \in 1..Len(q)
      /\ \A i \in 1..Len(p) : i + 1 \in 1..Len(q) /\ i + 1 # 1 /\ p[i] = q[i + 1]
  BY TailAll
<1> HIDE DEF p
<1>2. \A i \in 1..Len(q) : i = 1 \/ (i - 1 \in 1..Len(p) /\ p[i - 1] = q[i])
  <2>1. ASSUME NEW i \in 1..Len(q), i # 1 PROVE i - 1 \in 1..Len(p) /\ (i - 1) + 1 = i
    BY <1>1, <2>1
  <2> QED
    BY <1>1, <2>1
<1>3. ASSUME NEW i \in 1..Len(p)
      PROVE  p[i].enc = ((IF IsResult(Head(q)) THEN keyed ELSE already)
                           \/ (keyed /\ \E j \in 1..(i-1) : IsResult(p[j])))
  <2>1. p[i].enc = (already \/ (keyed /\ \E j \in 1..i : IsResult(q[j])))
    <3>1. i + 1 \in 1..Len(q) /\ (i + 1) - 1 = i /\ p[i] = q[i + 1]
      BY <1>1
    <3> QED
      BY <3>1 DEF Agree
  <2>2. CASE IsResult(Head(q))
    <3>1. 1 \in 1..i /\ IsResult(q[1])
      BY <1>1, <2>2
    <3> QED
      BY <2>1, <2>2, <3>1
  <2>3. CASE ~IsResult(Head(q))
    <3>1. (\E j \in 1..i : IsResult(q[j])) <=> \E j \in 1..(i-1) : IsResult(p[j])
      <4>1. ASSUME NEW j \in 1..i, IsResult(q[j]) PROVE \E l \in 1..(i-1) : IsResult(p[l])
        <5>1. j # 1 /\ j - 1 \in 1..(i-1) /\ j \in 1..Len(q)
          BY <1>1, <2>3, <4>1
        <5> QED
          BY <1>2, <4>1, <5>1
      <4>2. ASSUME NEW j \in 1..(i-1), IsResult(p[j]) PROVE \E l \in 1..i : IsResult(q[l])
        <5>1. j \in 1..Len(p) /\ j + 1 \in 1..i
          BY <1>1
        <5> QED
          BY <1>1, <4>2, <5>1
      <4> QED
        BY <4>1, <4>2
    <3> QED
      BY <2>1, <2>3, <3>1
  <2> QED
    BY <2>2, <2>3
<1>4. Answered(q) => IsResult(Head(q)) \/ Answered(p)
  BY <1>1, <1>2 DEF Answered
<1>5. Answered(p) => Answered(q)
  BY <1>1 DEF Answered
<1> QED
  BY <1>3, <1>4, <1>5 DEF Agree, p

\* What is said.
LEMMA SaysNext ==
  ASSUME NEW S, NEW q \in Seq(S), NEW x \in S, Once(q),
         x = "LogOnOK" => ~Welcomed(q),
         x \in Session => Welcomed(q)
  PROVE  Once(Append(q, x)) /\ (Welcomed(Append(q, x)) <=> Welcomed(q) \/ x = "LogOnOK")
<1> DEFINE p == Append(q, x)
<1>1. /\ Len(q) \in Nat /\ Len(p) = Len(q) + 1
      /\ \A i \in 1..Len(q) : p[i] = q[i]
      /\ p[Len(q) + 1] = x
      /\ \A i \in 1..(Len(q) + 1) : i \in 1..Len(q) \/ i = Len(q) + 1
  BY AppendAll
<1> HIDE DEF p
<1>2. Len(q) + 1 \in 1..Len(p) /\ 1..Len(q) \subseteq 1..Len(p) /\ \A i \in 1..Len(q) : i < Len(q) + 1
  BY <1>1
<1>3. Welcomed(p) <=> Welcomed(q) \/ x = "LogOnOK"
  BY <1>1, <1>2 DEF Welcomed
<1>4. ASSUME NEW i \in 1..Len(p), NEW j \in 1..Len(p), p[i] = "LogOnOK", p[j] = "LogOnOK"
      PROVE  i = j
  BY <1>1, <1>4 DEF Once, Welcomed
<1>5. ASSUME NEW i \in 1..Len(p), p[i] \in Session
      PROVE  \E j \in 1..Len(p) : p[j] = "LogOnOK" /\ j < i
  <2>1. CASE i \in 1..Len(q)
    BY <1>1, <1>2, <1>5, <2>1 DEF Once
  <2>2. CASE i = Len(q) + 1
    BY <1>1, <1>2, <1>5, <2>2 DEF Welcomed
  <2> QED
    BY <1>1, <2>1, <2>2
<1> QED
  BY <1>3, <1>4, <1>5 DEF Once, p

-------------------------------------------------------------------------------
(***************************************************************************)
(* What the steps do to the queues.                                        *)
(***************************************************************************)

\* The client puts a frame on its way to the bridge.
LEMMA ServerSends ==
  ASSUME TypeOK, ServerInv, KeyInv, NEW ms \in Seq(Messages(FromClient)), ms # <<>>,
         \A k \in 1..Len(ms) :
           ms[k].job # NoJob => ms[k].msg \in Requests /\ (kind = "keyed" => filter),
         ClientSends(ms), UNCHANGED <<kind, armed>>
  PROVE  toServer' \in Seq(ServerFrames) /\ ServerInv'
<1> DEFINE f == Frame(filter, ms)
<1>1. f \in ServerFrames /\ f.enc = filter /\ f.parts = ms
  BY DEF TypeOK, ServerFrames, Frame
<1>2. filter /\ kind # "foreign" => armed /\ kind = "keyed"
  BY TranslatorAssumption DEF KeyInv, Shared, TypeOK, ClientKinds
<1>3. ServerFrame(f, kind, armed)
  <2> HIDE DEF f
  <2> QED
    BY <1>1, <1>2 DEF ServerFrame
<1>4. toServer \in Seq(ServerFrames) /\ toServer' = Append(toServer, f)
  BY DEF TypeOK, ServerFrames, ClientSends
<1> HIDE DEF f
<1>5. /\ toServer' \in Seq(ServerFrames)
      /\ \A i \in 1..Len(toServer') : ServerFrame(toServer'[i], kind, armed)
  BY <1>1, <1>3, <1>4, AppendAll DEF ServerInv
<1> QED
  BY <1>5 DEF ServerInv, ServerFrame

\* The bridge takes the first frame.
LEMMA ServerReads ==
  ASSUME TypeOK, ServerInv, toServer # <<>>, toServer' = Tail(toServer), kind' = kind,
         armed /\ kind = "keyed" => armed'
  PROVE  toServer' \in Seq(ServerFrames) /\ ServerInv'
<1>1. toServer \in Seq(ServerFrames)
  BY DEF TypeOK, ServerFrames
<1>2. /\ toServer' \in Seq(ServerFrames)
      /\ \A i \in 1..Len(toServer') : ServerFrame(toServer'[i], kind, armed)
  BY <1>1, TailAll DEF ServerInv
<1>3. \A i \in 1..Len(toServer') : ServerFrame(toServer'[i], kind, armed')
  BY <1>2 DEF ServerFrame
<1> QED
  BY <1>2, <1>3 DEF ServerInv

\* A step that leaves the frames to the bridge alone.
LEMMA ServerSame ==
  ASSUME ServerInv, UNCHANGED <<toServer, kind, armed>>
  PROVE  ServerInv'
BY DEF ServerInv, ServerFrame

\* What the bridge reads next, and the message it handles of it.
LEMMA HeadOfServer ==
  ASSUME TypeOK, ServerInv, toServer # <<>>
  PROVE  /\ Wire \in ServerFrames /\ ServerFrame(Wire, kind, armed)
         /\ Message \in Messages(FromClient)
         /\ Message.msg \in FromClient /\ Message.job \in 0..MaxSends
<1>1. toServer \in Seq(ServerFrames)
  BY DEF TypeOK, ServerFrames
<1>2. Wire \in ServerFrames /\ ServerFrame(Wire, kind, armed)
  BY <1>1, TailAll DEF ServerInv, Wire
<1>3. Wire.parts \in Seq(Messages(FromClient)) /\ Wire.parts # <<>>
  BY <1>2 DEF ServerFrames, ServerFrame
<1>4. Message \in Messages(FromClient)
  BY <1>3, TailAll DEF Message
<1> QED
  BY <1>2, <1>4 DEF Messages

\* Nothing that concerns the keys changes.
LEMMA KeySame ==
  ASSUME KeyInv, UNCHANGED <<armed, kind, filter, peer, toClient>>,
         state' = "await_encrypt" <=> state = "await_encrypt",
         task = "closed" => task' = "closed"
  PROVE  KeyInv'
BY DEF KeyInv, Shared, ClientFrame, Answered, Agree, IsResult

\* A message other than the result goes out under the gateway's key.
LEMMA KeySend ==
  ASSUME TypeOK, KeyInv, NEW x \in Messages(FromServer),
         x.msg # "EncryptResult", x.job # NoJob => x.msg = "Reply",
         Deliver(Frame(armed, <<x>>)), UNCHANGED <<state, armed, task, kind, filter, peer>>
  PROVE  toClient' \in Seq(ClientFrames) /\ KeyInv'
<1> DEFINE f == Frame(armed, <<x>>)
<1>0. armed \in BOOLEAN /\ toClient \in Seq(ClientFrames)
  BY DEF TypeOK, ClientFrames
<1>1. f \in ClientFrames /\ f.enc = armed /\ f.parts = <<x>> /\ ClientFrame(f) /\ ~IsResult(f)
  <2>1. f \in ClientFrames /\ f.enc = armed /\ f.parts = <<x>>
        /\ Len(<<x>>) = 1 /\ <<x>>[1] = x /\ Head(<<x>>) = x
    <3>1. armed \in BOOLEAN
      BY <1>0
    <3> QED
      BY <3>1, OneMessage DEF ClientFrames
  <2> HIDE DEF f
  <2> QED
    BY <2>1 DEF ClientFrame, IsResult
<1>2. toClient' = IF peer = "open" THEN Append(toClient, f) ELSE toClient
  BY DEF Deliver
<1> HIDE DEF f
<1>3. CASE peer = "open"
  <2>1. toClient' = Append(toClient, f)
    BY <1>2, <1>3
  <2>2. toClient' \in Seq(ClientFrames) /\ \A i \in 1..Len(toClient') : ClientFrame(toClient'[i])
    BY <1>0, <1>1, <2>1, AppendAll DEF KeyInv
  <2>3. CASE Shared
    <3>1. f.enc = (filter \/ (kind = "keyed" /\ Answered(toClient)))
      BY <1>0, <1>1, <1>3, <2>3 DEF KeyInv, Shared, TypeOK
    <3>2. Agree(toClient, filter, kind = "keyed")
      BY <2>3 DEF KeyInv
    <3>3. /\ Agree(toClient', filter, kind = "keyed")
          /\ Answered(toClient') <=> Answered(toClient)
      BY <1>0, <1>1, <2>1, <3>1, <3>2, AppendAgree
    <3> QED
      BY <2>2, <2>3, <3>3 DEF KeyInv, Shared
  <2> QED
    BY <2>2, <2>3 DEF KeyInv, Shared
<1>4. CASE peer # "open"
  BY <1>0, <1>2, <1>4, KeySame
<1> QED
  BY <1>3, <1>4

\* The result goes out in the clear, after the gateway's key is set.
LEMMA KeyResult ==
  ASSUME TypeOK, KeyInv, state = "await_encrypt", state' = "channel_open", task # "closed",
         armed' \in Decrypted, SendResult, UNCHANGED <<kind, filter, peer>>
  PROVE  toClient' \in Seq(ClientFrames) /\ KeyInv' /\ armed' \in BOOLEAN
<1> DEFINE x == Msg("EncryptResult")
           f == Frame(FALSE, <<x>>)
<1>0. toClient \in Seq(ClientFrames) /\ armed' \in BOOLEAN
  BY DEF TypeOK, ClientFrames, Decrypted
<1>1. x \in Messages(FromServer) /\ x.msg = "EncryptResult" /\ x.job = NoJob
  BY TranslatorAssumption DEF Messages, Msg, FromServer, NoJob
<1>2. f \in ClientFrames /\ f.enc = FALSE /\ ClientFrame(f) /\ IsResult(f)
  <2> HIDE DEF x
  <2>1. f \in ClientFrames /\ f.enc = FALSE /\ f.parts = <<x>>
        /\ Len(<<x>>) = 1 /\ <<x>>[1] = x /\ Head(<<x>>) = x
    BY <1>1, OneMessage DEF ClientFrames
  <2> HIDE DEF f
  <2> QED
    BY <1>1, <2>1 DEF ClientFrame, IsResult
<1>3. toClient' = Append(toClient, f)
  BY DEF SendResult, SendClear
<1> HIDE DEF f
<1>4. toClient' \in Seq(ClientFrames) /\ \A i \in 1..Len(toClient') : ClientFrame(toClient'[i])
  BY <1>0, <1>2, <1>3, AppendAll DEF KeyInv
<1>5. CASE kind # "foreign"
  <2>0. Shared
    BY <1>5, TranslatorAssumption DEF KeyInv, Shared, TypeOK, ClientKinds
  <2>1. ~filter /\ ~Answered(toClient) /\ Agree(toClient, filter, kind = "keyed")
    BY <2>0 DEF KeyInv
  <2>2. f.enc = (filter \/ (kind = "keyed" /\ Answered(toClient)))
    BY <1>2, <2>1 DEF TypeOK
  <2>3. Agree(toClient', filter, kind = "keyed") /\ Answered(toClient')
    BY <1>0, <1>2, <1>3, <2>1, <2>2, AppendAgree
  <2>4. kind = "keyed" => armed'
    BY DEF Decrypted
  <2> QED
    BY <1>0, <1>4, <2>1, <2>3, <2>4 DEF KeyInv, Shared
<1>6. CASE kind = "foreign"
  BY <1>0, <1>4, <1>6 DEF KeyInv, Shared
<1> QED
  BY <1>5, <1>6

\* The client takes a frame, and arms on the result.
LEMMA KeyReceive ==
  ASSUME TypeOK, KeyInv, toClient # <<>>, toClient' = Tail(toClient),
         filter' = IF IsResult(Head(toClient)) THEN kind # "plain" ELSE filter,
         UNCHANGED <<state, armed, task, kind, peer>>
  PROVE  toClient' \in Seq(ClientFrames) /\ KeyInv'
<1>0. toClient \in Seq(ClientFrames) /\ filter \in BOOLEAN
  BY DEF TypeOK, ClientFrames
<1>1. toClient' \in Seq(ClientFrames) /\ \A i \in 1..Len(toClient') : ClientFrame(toClient'[i])
  BY <1>0, TailAll DEF KeyInv
<1>2. CASE Shared
  <2>1. kind # "plain" <=> kind = "keyed"
    BY <1>2 DEF Shared
  <2>2. Agree(toClient, filter, kind = "keyed") /\ (filter => kind = "keyed")
    BY <1>2 DEF KeyInv
  <2>3. /\ Agree(Tail(toClient), IF IsResult(Head(toClient)) THEN kind = "keyed" ELSE filter,
                 kind = "keyed")
        /\ Answered(toClient) => IsResult(Head(toClient)) \/ Answered(Tail(toClient))
        /\ Answered(Tail(toClient)) => Answered(toClient)
    BY <1>0, <2>2, TailAgree
  <2>4. IsResult(Head(toClient)) => Answered(toClient)
    BY <1>0, TailAll DEF Answered
  <2>5. filter' = IF IsResult(Head(toClient)) THEN kind = "keyed" ELSE filter
    BY <2>1
  <2>6. Agree(toClient', filter', kind = "keyed")
    BY <2>3, <2>5
  <2> QED
    BY <1>1, <1>2, <2>3, <2>4, <2>5, <2>6 DEF KeyInv, Shared
<1> QED
  BY <1>1, <1>2 DEF KeyInv, Shared

-------------------------------------------------------------------------------
(***************************************************************************)
(* What the steps do to what is said.                                      *)
(***************************************************************************)

\* A step that answers nothing.
LEMMA TalkSame ==
  ASSUME TalkInv, UNCHANGED <<state, task, outbox, said>>
  PROVE  TalkInv'
BY DEF TalkInv, OutMsg, Welcomed, Once

\* A step that drops what was to be sent.
LEMMA TalkNothing ==
  ASSUME TalkInv, outbox' = <<>>, said' = said, state' = "active" <=> state = "active",
         task' = "modern" => state' = "authenticating"
  PROVE  TalkInv'
<1>1. Len(outbox') = 0
  OBVIOUS
<1> QED
  BY <1>1 DEF TalkInv, Welcomed, Once

\* A step that starts one answer, not a log-on's.
LEMMA TalkOne ==
  ASSUME TalkInv, NEW x, x.msg \in {"LogOnFail", "Reply"},
         x.job # NoJob => x.msg = "Reply",
         outbox' = <<x>>, said' = said, state' = "active" <=> state = "active",
         task' # "modern"
  PROVE  TalkInv'
<1>1. Len(outbox') = 1 /\ outbox'[1] = x /\ \A k \in 1..Len(outbox') : k = 1
  OBVIOUS
<1>2. \A k \in 1..Len(outbox') : outbox'[k] = x
  BY <1>1
<1>3. x.msg \notin {"LogOnOK"} \cup Session /\ x.msg # "EncryptResult"
  BY DEF Session
<1>4. \A k \in 1..Len(outbox') : outbox'[k].msg # "LogOnOK" /\ outbox'[k].msg \notin Session
  BY <1>2, <1>3
<1>5. \A k \in 1..Len(outbox') : OutMsg(outbox'[k], state')
  BY <1>2, <1>3 DEF OutMsg
<1>6. (state' # "active" => ~Welcomed(said')) /\ Once(said')
  BY DEF TalkInv, Welcomed, Once
<1> QED
  BY <1>4, <1>5, <1>6 DEF TalkInv

\* The modern session is ready: the welcome begins with the log-on's answer.
LEMMA TalkReady ==
  ASSUME TypeOK, TalkInv, ModernReady
  PROVE  TalkInv' /\ outbox' \in Seq(Messages(FromServer))
<1>1. PICK names \in Welcome : outbox' = [i \in 1..Len(names) |-> Msg(names[i])]
  BY DEF ModernReady
<1>2. /\ Len(names) \in Nat /\ names[1] = "LogOnOK"
      /\ \A i \in 1..Len(names) : names[i] \in {"LogOnOK"} \cup Session
      /\ \A i \in 1..Len(names) : names[i] = "LogOnOK" => i = 1
  BY DEF Welcome, Session
<1>3. /\ outbox' \in Seq(Messages(FromServer)) /\ Len(outbox') = Len(names)
      /\ \A i \in 1..Len(outbox') : outbox'[i].msg = names[i] /\ outbox'[i].job = NoJob
  <2>1. \A i \in 1..Len(names) : Msg(names[i]) \in Messages(FromServer)
    BY <1>2, TranslatorAssumption DEF Msg, Messages, FromServer, Session, NoJob
  <2>2. \A i \in 1..Len(names) : Msg(names[i]).msg = names[i] /\ Msg(names[i]).job = NoJob
    BY DEF Msg
  <2>3. outbox' \in Seq(Messages(FromServer))
    BY <1>1, <1>2, <2>1
  <2>4. Len(outbox') = Len(names)
    BY <1>1, <1>2
  <2> QED
    BY <1>1, <2>2, <2>3, <2>4
<1>4. state' = "active" /\ task' = "reading" /\ said' = said /\ ~Welcomed(said)
  BY DEF ModernReady, TalkInv
<1>5. \A k \in 1..Len(outbox') : OutMsg(outbox'[k], state')
  BY <1>2, <1>3, <1>4 DEF OutMsg, Session
<1>6. \A k \in 1..Len(outbox') : 1 \in 1..Len(outbox') /\ outbox'[1].msg = "LogOnOK"
  BY <1>2, <1>3
<1>7. Once(said') /\ ~Welcomed(said')
  BY <1>4 DEF TalkInv
<1>8. \A k \in 1..Len(outbox') : outbox'[k].msg = "LogOnOK" => k = 1
  BY <1>2, <1>3
<1> QED
  BY <1>3, <1>4, <1>5, <1>6, <1>7, <1>8 DEF TalkInv

\* The next message of the answer goes out.
LEMMA TalkNext ==
  ASSUME TypeOK, TalkInv, SendNext
  PROVE  TalkInv' /\ said' \in Seq(FromServer) /\ outbox' \in Seq(Messages(FromServer))
<1> DEFINE x == Head(outbox)
<1>1. /\ outbox \in Seq(Messages(FromServer)) /\ outbox # <<>> /\ said \in Seq(FromServer)
      /\ said' = Append(said, x.msg) /\ outbox' = Tail(outbox)
      /\ state' = state /\ task' = task
  BY DEF TypeOK, SendNext
<1>2. /\ outbox' \in Seq(Messages(FromServer)) /\ x \in Messages(FromServer) /\ x = outbox[1]
      /\ 1 \in 1..Len(outbox)
      /\ \A k \in 1..Len(outbox') : k + 1 \in 1..Len(outbox) /\ k + 1 # 1 /\ outbox'[k] = outbox[k + 1]
  BY <1>1, TailAll
<1> HIDE DEF x
<1>3. x.msg \in FromServer
  BY <1>2 DEF Messages
<1>4. /\ x.msg = "LogOnOK" => ~Welcomed(said)
      /\ x.msg \in Session => Welcomed(said)
      /\ Once(said) /\ OutMsg(x, state)
  BY <1>2 DEF TalkInv, Session
<1>5. Once(said') /\ (Welcomed(said') <=> Welcomed(said) \/ x.msg = "LogOnOK")
  BY <1>1, <1>3, <1>4, SaysNext
<1>6. said' \in Seq(FromServer)
  BY <1>1, <1>3, AppendAll
<1>7. \A k \in 1..Len(outbox') : OutMsg(outbox'[k], state') /\ outbox'[k].msg # "LogOnOK"
  BY <1>1, <1>2 DEF TalkInv
<1>8. \A k \in 1..Len(outbox') : outbox'[k].msg \in Session => Welcomed(said')
  BY <1>2, <1>5 DEF TalkInv
<1>9. state' # "active" => ~Welcomed(said')
  BY <1>1, <1>4, <1>5 DEF TalkInv, OutMsg
<1>10. task' # "modern"
  BY <1>1 DEF TalkInv
<1> QED
  BY <1>2, <1>5, <1>6, <1>7, <1>8, <1>9, <1>10 DEF TalkInv

-------------------------------------------------------------------------------
(***************************************************************************)
(* The invariant.                                                          *)
(***************************************************************************)

\* Nothing is sent, nothing is known.
LEMMA InitInv == Init => IInv
<1> SUFFICES ASSUME Init PROVE IInv
  OBVIOUS
<1> DEFINE x == Msg("EncryptRequest")
           f == Frame(FALSE, <<x>>)
<1>1. x \in Messages(FromServer) /\ x.msg = "EncryptRequest" /\ x.job = NoJob
  BY TranslatorAssumption DEF Messages, Msg, FromServer, NoJob
<1>2. f \in ClientFrames /\ f.enc = FALSE /\ ClientFrame(f) /\ ~IsResult(f)
  <2> HIDE DEF x
  <2>1. f \in ClientFrames /\ f.enc = FALSE /\ f.parts = <<x>>
        /\ Len(<<x>>) = 1 /\ <<x>>[1] = x /\ Head(<<x>>) = x
    BY <1>1, OneMessage DEF ClientFrames
  <2> HIDE DEF f
  <2> QED
    BY <1>1, <2>1 DEF ClientFrame, IsResult
<1>3. toClient = <<f>>
  BY DEF Init
<1> HIDE DEF f
<1>4. toClient \in Seq(ClientFrames) /\ Len(toClient) = 1 /\ toClient[1] = f
  BY <1>2, <1>3
<1>5. \A i \in 1..Len(toClient) : i = 1 /\ 1..(i-1) = {}
  BY <1>4
<1>6. said = <<"EncryptRequest">> /\ said \in Seq(FromServer)
      /\ \A i \in 1..Len(said) : said[i] = "EncryptRequest"
  BY DEF Init, FromServer
<1>7. TypeOK
  <2>1. /\ state = "await_encrypt" /\ armed = FALSE /\ task = "reading"
        /\ kind \in Clients /\ filter = FALSE /\ peer = "open" /\ asked = {} /\ sends = 0
    BY DEF Init
  <2>2. outbox \in Seq(Messages(FromServer))
        /\ toServer \in Seq([enc : BOOLEAN, parts : Seq(Messages(FromClient))])
    BY DEF Init
  <2>3. sends \in 0..MaxSends /\ asked \subseteq 1..MaxSends
    BY <2>1, TranslatorAssumption
  <2> QED
    BY <1>4, <1>6, <2>1, <2>2, <2>3 DEF TypeOK, ClientFrames
<1>8. ServerInv
  BY DEF Init, ServerInv
<1>9. KeyInv
  BY <1>2, <1>4, <1>5 DEF Init, KeyInv, Shared, Answered, Agree
<1>10. TalkInv
  BY <1>6 DEF Init, TalkInv, Once, Welcomed, Session
<1> QED
  BY <1>7, <1>8, <1>9, <1>10 DEF IInv

\* What a client's own step changes.
LEMMA ClientKeeps ==
  ASSUME IInv, ClientReceives \/ ClientLeaves \/ ClientSendsFreely
  PROVE  IInv'
<1> USE DEF IInv
<1>1. TalkInv'
  <2>1. UNCHANGED <<state, task, outbox, said>>
    BY DEF ClientReceives, ClientLeaves, ClientSendsFreely, gateway
  <2> QED
    BY <2>1, TalkSame
<1>2. CASE ClientReceives
  <2> DEFINE f == Head(toClient)
             part == Head(f.parts)
  <2>1. /\ peer = "open" /\ toClient # <<>> /\ toClient' = Tail(toClient)
        /\ React(part.msg, part.job)
        /\ UNCHANGED <<state, armed, task, outbox, said, kind, peer, sends>>
    BY <1>2 DEF ClientReceives, gateway
  <2>2. f \in ClientFrames /\ ClientFrame(f)
    BY <2>1, TailAll DEF TypeOK, ClientFrames, KeyInv
  <2>3. part \in Messages(FromServer) /\ part.msg \in FromServer /\ part.job \in 0..MaxSends
    <3>1. f.parts \in Seq(Messages(FromServer)) /\ f.parts # <<>>
      BY <2>2 DEF ClientFrames, ClientFrame
    <3>2. part \in Messages(FromServer)
      BY <3>1, TailAll
    <3> QED
      BY <3>2 DEF Messages
  <2>4. IsResult(f) <=> part.msg = "EncryptResult"
    BY DEF IsResult
  <2> HIDE DEF part
  <2>5. filter' = IF IsResult(f) THEN kind # "plain" ELSE filter
    BY <2>1, <2>4 DEF React
  <2>6. toClient' \in Seq(ClientFrames) /\ KeyInv'
    BY <2>1, <2>5, KeyReceive
  <2>7. asked' \subseteq 1..MaxSends
    BY <2>1, <2>3 DEF React, TypeOK
  <2>8. toServer' \in Seq(ServerFrames) /\ ServerInv'
    <3>1. CASE toServer' = toServer
      BY <2>1, <3>1, ServerSame DEF TypeOK, ServerFrames
    <3>2. CASE toServer' # toServer
      <4>1. PICK m \in FromClient : ClientSends(<<Msg(m)>>)
        BY <2>1, <3>2 DEF React, FromClient, Ignored
      <4>2. Msg(m) \in Messages(FromClient) /\ Msg(m).job = NoJob
        BY TranslatorAssumption DEF Msg, Messages, NoJob
      <4>3. <<Msg(m)>> \in Seq(Messages(FromClient)) /\ <<Msg(m)>> # <<>>
            /\ \A k \in 1..Len(<<Msg(m)>>) : <<Msg(m)>>[k] = Msg(m)
        BY <4>2
      <4> QED
        BY <2>1, <4>1, <4>2, <4>3, ServerSends
    <3> QED
      BY <3>1, <3>2
  <2>9. filter' \in BOOLEAN
    BY <2>5 DEF TypeOK
  <2>10. TypeOK'
    BY <2>1, <2>6, <2>7, <2>8, <2>9 DEF TypeOK, ClientFrames, ServerFrames
  <2> QED
    BY <1>1, <2>6, <2>8, <2>10
<1>3. CASE ClientLeaves
  <2>1. /\ peer' = "gone" /\ toClient' = <<>>
        /\ UNCHANGED <<state, armed, task, outbox, said, kind, filter, asked, sends, toServer>>
    BY <1>3 DEF ClientLeaves, gateway
  <2>2. Len(toClient') = 0 /\ toClient' \in Seq(ClientFrames)
    BY <2>1
  <2>3. TypeOK'
    BY <2>1, <2>2 DEF TypeOK, ClientFrames
  <2>4. KeyInv'
    BY <2>1, <2>2 DEF KeyInv, Shared, Answered, Agree
  <2> QED
    BY <1>1, <2>1, <2>3, <2>4, ServerSame
<1>4. CASE ClientSendsFreely
  <2>1. PICK names \in UNION {[1..n -> FromClient] : n \in 1..MaxBatch} :
          LET n   == Len(names)
              job == [i \in 1..n |->
                        IF names[i] \in Requests /\ Settled THEN sends + i ELSE NoJob]
          IN
          /\ peer = "open" /\ sends + n <= MaxSends
          /\ ClientSends([i \in 1..n |-> MsgJob(names[i], job[i])])
          /\ sends' = sends + n
          /\ asked' = asked \cup ({job[i] : i \in 1..n} \ {NoJob})
          /\ UNCHANGED <<gateway, kind, filter, peer, toClient>>
    BY <1>4 DEF ClientSendsFreely
  <2>2. PICK n \in 1..MaxBatch : names \in [1..n -> FromClient]
    BY <2>1
  <2>3. Len(names) = n /\ n \in Nat /\ 1 \in 1..n
    BY <2>2, TranslatorAssumption
  <2> DEFINE job == [i \in 1..n |->
                       IF names[i] \in Requests /\ Settled THEN sends + i ELSE NoJob]
             ms  == [i \in 1..n |-> MsgJob(names[i], job[i])]
  <2>4. /\ sends + n <= MaxSends /\ ClientSends(ms) /\ sends' = sends + n
        /\ asked' = asked \cup ({job[i] : i \in 1..n} \ {NoJob})
        /\ UNCHANGED <<state, armed, task, outbox, said, kind, filter, peer, toClient>>
    BY <2>1, <2>3 DEF gateway
  <2>5. sends \in Nat /\ MaxSends \in Nat
    BY TranslatorAssumption DEF TypeOK
  <2>6. \A i \in 1..n : /\ job[i] \in 0..MaxSends
                        /\ job[i] # NoJob => names[i] \in Requests /\ Settled
    BY <2>3, <2>4, <2>5 DEF NoJob
  <2> HIDE DEF job
  <2>7. \A i \in 1..n : /\ ms[i] \in Messages(FromClient)
                        /\ ms[i].msg = names[i] /\ ms[i].job = job[i]
    BY <2>2, <2>6 DEF MsgJob, Messages
  <2>8. ms \in Seq(Messages(FromClient)) /\ Len(ms) = n
    <3>1. ms \in [1..n -> Messages(FromClient)]
      BY <2>7
    <3> HIDE DEF ms
    <3> QED
      BY <2>3, <3>1
  <2> HIDE DEF ms
  <2>9. ms # <<>>
    BY <2>3, <2>8
  <2>10. \A k \in 1..Len(ms) :
           ms[k].job # NoJob => ms[k].msg \in Requests /\ (kind = "keyed" => filter)
    BY <2>6, <2>7, <2>8 DEF Settled
  <2>11. toServer' \in Seq(ServerFrames) /\ ServerInv'
    BY <2>4, <2>8, <2>9, <2>10, ServerSends
  <2>12. asked' \subseteq 1..MaxSends
    <3>1. \A i \in 1..n : job[i] # NoJob => job[i] \in 1..MaxSends
      BY <2>5, <2>6 DEF NoJob
    <3>2. asked \subseteq 1..MaxSends
      BY DEF TypeOK
    <3> QED
      BY <2>4, <3>1, <3>2
  <2>13. sends' \in 0..MaxSends
    BY <2>3, <2>4, <2>5
  <2>14. TypeOK'
    BY <2>4, <2>11, <2>12, <2>13 DEF TypeOK, ServerFrames
  <2> QED
    BY <1>1, <2>4, <2>11, <2>14, KeySame
<1> QED
  BY <1>2, <1>3, <1>4

\* What a handler's step changes.
LEMMA HandlerKeeps ==
  ASSUME IInv,
         HandleEncryptResponse \/ ResultFails \/ HandleLogon \/ HandleBadLogon
           \/ HandleRequest \/ HandleIgnored \/ HandleGarbage
  PROVE  IInv'
<1> USE DEF IInv
<1>1. /\ toServer # <<>> /\ toServer' = Tail(toServer) /\ outbox = <<>> /\ task = "reading"
      /\ UNCHANGED <<kind, filter, peer, asked, sends>>
  BY DEF HandleEncryptResponse, ResultFails, HandleLogon, HandleBadLogon, HandleRequest,
         HandleIgnored, HandleGarbage, Handles, CanRead, client
<1>2. CASE HandleEncryptResponse
  <2>1. /\ state = "await_encrypt" /\ state' = "channel_open" /\ armed' \in Decrypted
        /\ SendResult /\ said' = Append(said, "EncryptResult") /\ UNCHANGED <<task, outbox>>
    BY <1>2 DEF HandleEncryptResponse, SendResult, SendClear
  <2>2. toClient' \in Seq(ClientFrames) /\ KeyInv' /\ armed' \in BOOLEAN
    BY <1>1, <2>1, KeyResult
  <2>3. kind = "keyed" => armed'
    BY <2>1 DEF Decrypted
  <2>4. toServer' \in Seq(ServerFrames) /\ ServerInv'
    BY <1>1, <2>3, ServerReads
  <2>5. said' \in Seq(FromServer) /\ Once(said') /\ ~Welcomed(said')
    <3>1. said \in Seq(FromServer) /\ "EncryptResult" \in FromServer
          /\ Once(said) /\ ~Welcomed(said)
      BY <2>1 DEF TypeOK, FromServer, TalkInv
    <3>2. "EncryptResult" \notin Session
      BY DEF Session
    <3> QED
      BY <2>1, <3>1, <3>2, SaysNext, AppendAll
  <2>6. TalkInv'
    <3>1. Len(outbox') = 0
      BY <1>1, <2>1
    <3> QED
      BY <1>1, <2>1, <2>5, <3>1 DEF TalkInv
  <2>7. TypeOK'
    BY <1>1, <2>1, <2>2, <2>4, <2>5 DEF TypeOK, ClientFrames, ServerFrames
  <2> QED
    BY <2>2, <2>4, <2>6, <2>7
<1>5. CASE ResultFails
  <2>1. /\ state = "await_encrypt" /\ peer = "gone" /\ armed' \in Decrypted /\ task' = "closed"
        /\ UNCHANGED <<state, outbox, said, toClient>>
    BY <1>5 DEF ResultFails
  <2>2. armed' \in BOOLEAN /\ (kind = "keyed" => armed')
    BY <2>1 DEF Decrypted
  <2>3. toServer' \in Seq(ServerFrames) /\ ServerInv'
    BY <1>1, <2>2, ServerReads
  <2>4. Shared' => Shared
    BY <1>1, <2>1 DEF KeyInv, Shared
  <2>5. KeyInv'
    BY <1>1, <2>1, <2>2, <2>4 DEF KeyInv, Shared, ClientFrame, Answered, Agree, IsResult
  <2>6. TalkInv'
    BY <1>1, <2>1, TalkNothing
  <2>7. TypeOK'
    BY <1>1, <2>1, <2>2, <2>3 DEF TypeOK, ServerFrames
  <2> QED
    BY <2>3, <2>5, <2>6, <2>7
<1>3. CASE armed' = armed /\ UNCHANGED <<said, toClient>>
  <2>1. toServer' \in Seq(ServerFrames) /\ ServerInv'
    BY <1>1, <1>3, ServerReads
  <2>2. CASE HandleLogon
    <3>1. state = "channel_open" /\ state' = "authenticating" /\ task' = "modern"
          /\ outbox' = <<>>
      BY <1>1, <2>2 DEF HandleLogon, LogonAllowed
    <3>2. TalkInv'
      BY <1>3, <3>1, TalkNothing
    <3>3. TypeOK'
      BY <1>1, <1>3, <2>1, <3>1 DEF TypeOK, ServerFrames
    <3> QED
      BY <1>1, <1>3, <2>1, <3>1, <3>2, <3>3, KeySame
  <2>3. CASE HandleBadLogon
    <3>1. state = "channel_open" /\ state' = "authenticating" /\ task' = "reading"
          /\ outbox' = <<Msg("LogOnFail")>>
      BY <1>1, <2>3 DEF HandleBadLogon, LogonAllowed
    <3>2. /\ Msg("LogOnFail") \in Messages(FromServer)
          /\ Msg("LogOnFail").msg = "LogOnFail" /\ Msg("LogOnFail").job = NoJob
      BY TranslatorAssumption DEF Messages, Msg, FromServer, NoJob
    <3>3. TalkInv'
      BY <1>3, <3>1, <3>2, TalkOne
    <3>4. TypeOK'
      <4>1. outbox' \in Seq(Messages(FromServer))
        BY <3>1, <3>2
      <4> QED
        BY <1>1, <1>3, <2>1, <3>1, <4>1 DEF TypeOK, ServerFrames
    <3> QED
      BY <1>1, <1>3, <2>1, <3>1, <3>3, <3>4, KeySame
  <2>4. CASE HandleRequest
    <3> DEFINE x == MsgJob("Reply", Message.job)
    <3>1. state' = state /\ task' = "reading" /\ outbox' = <<x>>
      BY <1>1, <2>4 DEF HandleRequest
    <3>2. x \in Messages(FromServer) /\ x.msg = "Reply"
      BY <1>1, HeadOfServer DEF Messages, MsgJob, FromServer
    <3> HIDE DEF x
    <3>3. TalkInv'
      BY <1>3, <3>1, <3>2, TalkOne
    <3>4. TypeOK'
      <4>1. outbox' \in Seq(Messages(FromServer))
        BY <3>1, <3>2
      <4> QED
        BY <1>1, <1>3, <2>1, <3>1, <4>1 DEF TypeOK, ServerFrames
    <3> QED
      BY <1>1, <1>3, <2>1, <3>1, <3>3, <3>4, KeySame
  <2>5. CASE HandleIgnored
    <3>1. UNCHANGED <<state, task, outbox>>
      BY <2>5 DEF HandleIgnored, gateway
    <3>2. TalkInv'
      BY <1>3, <3>1, TalkSame
    <3>3. TypeOK'
      BY <1>1, <1>3, <2>1, <3>1 DEF TypeOK, ServerFrames
    <3> QED
      BY <1>1, <1>3, <2>1, <3>1, <3>2, <3>3, KeySame
  <2>6. CASE HandleGarbage
    <3>1. state' = state /\ outbox' = <<>> /\ task' \in {"reading", "closed"}
      BY <1>1, <2>6 DEF HandleGarbage
    <3>2. TalkInv'
      BY <1>3, <3>1, TalkNothing
    <3>3. TypeOK'
      <4>1. outbox' \in Seq(Messages(FromServer))
        BY <3>1
      <4> QED
        BY <1>1, <1>3, <2>1, <3>1, <4>1 DEF TypeOK, ServerFrames
    <3> QED
      BY <1>1, <1>3, <2>1, <3>1, <3>2, <3>3, KeySame
  <2>7. CASE ResultFails
    BY <1>5, <2>7
  <2> QED
    BY <1>2, <2>2, <2>3, <2>4, <2>5, <2>6, <2>7
<1>4. HandleEncryptResponse \/ ResultFails \/ (armed' = armed /\ UNCHANGED <<said, toClient>>)
  BY DEF HandleLogon, HandleBadLogon, HandleRequest, HandleIgnored, HandleGarbage, gateway
<1> QED
  BY <1>2, <1>3, <1>4, <1>5

\* What the gateway's other steps change.
LEMMA GatewayKeeps ==
  ASSUME IInv, SendNext \/ SendFails \/ ReadEnds \/ ModernReady \/ ModernRefuses
  PROVE  IInv'
<1> USE DEF IInv
<1>1. UNCHANGED <<armed, kind, filter, peer, asked, sends, toServer>>
  BY DEF SendNext, SendFails, ReadEnds, Close, ModernReady, ModernRefuses, client
<1>2. ServerInv'
  BY <1>1, ServerSame
<1>3. CASE SendNext
  <2> DEFINE x == Head(outbox)
  <2>1. /\ outbox # <<>> /\ Deliver(Frame(armed, <<x>>)) /\ UNCHANGED <<state, task>>
    BY <1>3 DEF SendNext
  <2>2. x \in Messages(FromServer) /\ OutMsg(x, state)
    BY <2>1, TailAll DEF TypeOK, TalkInv
  <2> HIDE DEF x
  <2>3. toClient' \in Seq(ClientFrames) /\ KeyInv'
    BY <1>1, <2>1, <2>2, KeySend DEF OutMsg
  <2>4. TalkInv' /\ said' \in Seq(FromServer) /\ outbox' \in Seq(Messages(FromServer))
    BY <1>3, TalkNext
  <2>5. TypeOK'
    BY <1>1, <2>1, <2>3, <2>4 DEF TypeOK, ClientFrames
  <2> QED
    BY <1>2, <2>3, <2>4, <2>5
<1>4. CASE SendFails \/ ReadEnds
  <2>1. task' = "closed" /\ outbox' = <<>> /\ UNCHANGED <<state, said, toClient>>
    BY <1>4 DEF SendFails, ReadEnds, Close
  <2>2. TalkInv'
    BY <2>1, TalkNothing
  <2>3. outbox' \in Seq(Messages(FromServer))
    BY <2>1
  <2>4. TypeOK'
    BY <1>1, <2>1, <2>3 DEF TypeOK
  <2> QED
    BY <1>1, <1>2, <2>1, <2>2, <2>4, KeySame
<1>5. CASE ModernReady
  <2>1. task' = "reading" /\ state = "authenticating" /\ state' = "active" /\ task = "modern"
        /\ UNCHANGED <<said, toClient>>
    BY <1>5 DEF ModernReady, TalkInv
  <2>2. TalkInv' /\ outbox' \in Seq(Messages(FromServer))
    BY <1>5, TalkReady
  <2>3. TypeOK'
    BY <1>1, <2>1, <2>2 DEF TypeOK
  <2> QED
    BY <1>1, <1>2, <2>1, <2>2, <2>3, KeySame
<1>6. CASE ModernRefuses
  <2>1. /\ task = "modern" /\ task' = "reading" /\ outbox' = <<Msg("LogOnFail")>>
        /\ UNCHANGED <<state, said, toClient>>
    BY <1>6 DEF ModernRefuses
  <2>2. /\ Msg("LogOnFail") \in Messages(FromServer)
        /\ Msg("LogOnFail").msg = "LogOnFail" /\ Msg("LogOnFail").job = NoJob
    BY TranslatorAssumption DEF Messages, Msg, FromServer, NoJob
  <2>3. TalkInv'
    BY <2>1, <2>2, TalkOne
  <2>4. outbox' \in Seq(Messages(FromServer))
    BY <2>1, <2>2
  <2>5. TypeOK'
    BY <1>1, <2>1, <2>4 DEF TypeOK
  <2> QED
    BY <1>1, <1>2, <2>1, <2>3, <2>5, KeySame
<1> QED
  BY <1>3, <1>4, <1>5, <1>6

\* Every action, by its lemma.
LEMMA NextKeeps == IInv /\ [Next]_vars => IInv'
<1> SUFFICES ASSUME IInv, [Next]_vars PROVE IInv'
  OBVIOUS
<1>1. CASE UNCHANGED vars
  <2>1. /\ UNCHANGED <<state, armed, task, outbox, said>>
        /\ UNCHANGED <<kind, filter, peer, asked, sends, toServer, toClient>>
    BY <1>1 DEF vars, gateway, client
  <2>2. TypeOK'
    BY <2>1 DEF IInv, TypeOK
  <2> QED
    BY <2>1, <2>2, ServerSame, KeySame, TalkSame DEF IInv
<1>2. CASE Next
  BY <1>2, ClientKeeps, HandlerKeeps, GatewayKeeps DEF Next, GatewayStep
<1> QED
  BY <1>1, <1>2

\* The invariant holds of every behaviour.
LEMMA Inductive == Spec => []IInv
BY InitInv, NextKeeps, PTL DEF Spec

\* Every variable of the connection keeps its type, and the request ids stay
\* within what the client has sent, however many messages there are.
THEOREM TypesHold == Spec => []TypeOK
<1>1. IInv => TypeOK
  BY DEF IInv
<1> QED
  BY <1>1, Inductive, PTL

\* Of two ends that share a key, or neither of which encrypts, the client can read
\* every frame, and the gateway is armed for every encrypted one: the gateway arms
\* before it sends 1305, 1305 itself goes out in the clear, and the client arms on
\* 1305 (_on_ChannelEncryptResponse, _send_proto).  It says nothing of a client whose
\* key the gateway got wrong: the client cannot read what that gateway encrypts.
THEOREM SharedKeyInStep == Spec => []FiltersAgree
BY FiltersFollow, Inductive, PTL

\* Whatever the client sends, in any order and any batches, _on_ClientLogon and
\* _send_logon_success welcome it at most once, and session data comes after.
THEOREM LoggedOnOnce == Spec => []OneLogon
<1>1. IInv => OneLogon
  BY OneLogonIsOnce DEF IInv, TalkInv
<1> QED
  BY <1>1, Inductive, PTL

-------------------------------------------------------------------------------
(***************************************************************************)
(* The script.                                                             *)
(***************************************************************************)

\* What ms are may be said in their order behind what q are.
Sayable(q, ms) ==
  \A k \in 1..Len(ms) : ms[k].msg # "Reply" =>
    /\ ms[k].msg \in Script!Steps \ {"EncryptRequest"}
    /\ \/ Script!In(Script!Before(ms[k].msg), q)
       \/ \E j \in 1..(k-1) : ms[j].msg = Script!Before(ms[k].msg)
    /\ \A x \in Script!Spent(ms[k].msg) :
         ~Script!In(x, q) /\ \A j \in 1..(k-1) : ms[j].msg # x

\* A logon's answer and what comes behind it.
Spoken == {"LogOnOK", "LogOnFail"} \cup Session

\* Neither said nor to be said.
Unspoken(q, ms) ==
  \A m \in Spoken : ~Script!In(m, q) /\ \A k \in 1..Len(ms) : ms[k].msg # m

ScriptInv ==
  /\ Script!In("EncryptRequest", said)
  /\ Script!In("EncryptResult", said) <=> state # "await_encrypt"
  /\ state \in {"await_encrypt", "channel_open"} \/ task = "modern" => Unspoken(said, outbox)
  /\ Sayable(said, outbox)

\* Saying a message adds it to what was said.
LEMMA InMore ==
  ASSUME NEW S, NEW q \in Seq(S), NEW x \in S
  PROVE  \A m : Script!In(m, Append(q, x)) <=> Script!In(m, q) \/ m = x
<1>1. /\ Len(q) \in Nat /\ Len(Append(q, x)) = Len(q) + 1
      /\ \A i \in 1..Len(q) : Append(q, x)[i] = q[i]
      /\ Append(q, x)[Len(q) + 1] = x
      /\ \A i \in 1..(Len(q) + 1) : i \in 1..Len(q) \/ i = Len(q) + 1
  BY AppendAll
<1>2. 1..Len(q) \subseteq 1..(Len(q) + 1) /\ Len(q) + 1 \in 1..(Len(q) + 1)
  BY <1>1
<1> QED
  BY <1>1, <1>2 DEF Script!In

\* Nothing to say is always sayable.
LEMMA NothingSayable ==
  ASSUME NEW q
  PROVE  Sayable(q, <<>>) /\ \A m : \A k \in 1..Len(<<>>) : <<>>[k].msg # m
<1>1. Len(<<>>) = 0 /\ 1..0 = {}
  OBVIOUS
<1> QED
  BY <1>1 DEF Sayable

\* Steps that say nothing: those that change none of it,
LEMMA ScriptSame ==
  ASSUME ScriptInv, UNCHANGED <<state, task, outbox, said>>
  PROVE  ScriptInv'
BY DEF ScriptInv, Sayable, Unspoken, Script!In, Script!Before, Script!Spent, Script!Steps

\* those that leave nothing to say,
LEMMA ScriptNothing ==
  ASSUME ScriptInv, outbox' = <<>>, said' = said,
         state' = "await_encrypt" <=> state = "await_encrypt",
         state' \in {"await_encrypt", "channel_open"} \/ task' = "modern" =>
           state \in {"await_encrypt", "channel_open"} \/ task = "modern"
  PROVE  ScriptInv'
<1>1. Sayable(said', outbox')
  BY NothingSayable
<1>2. Unspoken(said, outbox) => Unspoken(said', outbox')
  BY NothingSayable DEF Unspoken
<1> QED
  BY <1>1, <1>2 DEF ScriptInv

\* and those that leave one answer to say.
LEMMA ScriptOne ==
  ASSUME ScriptInv, NEW x, outbox' = <<x>>, said' = said, task' # "modern",
         state' = "await_encrypt" <=> state = "await_encrypt",
         \/ x.msg = "Reply" /\ state' = state /\ task # "modern" /\ outbox = <<>>
         \/ /\ x.msg = "LogOnFail" /\ state # "await_encrypt"
            /\ state' \notin {"await_encrypt", "channel_open"}
            /\ Unspoken(said, outbox)
  PROVE  ScriptInv'
<1>1. Len(<<x>>) = 1 /\ <<x>>[1] = x /\ \A k \in 1..Len(<<x>>) : k = 1 /\ 1..(k-1) = {}
  OBVIOUS
<1>2. \A k \in 1..Len(<<x>>) : <<x>>[k].msg = x.msg
  BY <1>1
<1>3. CASE x.msg = "Reply" /\ state' = state /\ task # "modern" /\ outbox = <<>>
  <2>1. Sayable(said', outbox')
    BY <1>2, <1>3 DEF Sayable
  <2>2. Unspoken(said, outbox) => Unspoken(said', outbox')
    BY <1>2, <1>3 DEF Unspoken, Spoken, Session
  <2> QED
    BY <1>3, <2>1, <2>2 DEF ScriptInv
<1>4. CASE /\ x.msg = "LogOnFail" /\ state # "await_encrypt"
           /\ state' \notin {"await_encrypt", "channel_open"}
           /\ Unspoken(said, outbox)
  <2>1. /\ "LogOnFail" \in Script!Steps \ {"EncryptRequest"}
        /\ Script!Before("LogOnFail") = "EncryptResult"
        /\ Script!Spent("LogOnFail") = {"LogOnOK", "LogOnFail"}
    BY DEF Script!Steps, Script!Before, Script!Spent
  <2>2. Script!In("EncryptResult", said)
    BY <1>4 DEF ScriptInv
  <2>3. ~Script!In("LogOnOK", said) /\ ~Script!In("LogOnFail", said)
    BY <1>4 DEF Unspoken, Spoken
  <2>4. Sayable(said, <<x>>)
    BY <1>1, <1>2, <1>4, <2>1, <2>2, <2>3 DEF Sayable
  <2> QED
    BY <1>4, <2>4 DEF ScriptInv
<1> QED
  BY <1>3, <1>4

\* The welcome is said in the order of the script.
LEMMA ScriptReady ==
  ASSUME TypeOK, TalkInv, ScriptInv, ModernReady
  PROVE  ScriptInv'
<1>1. PICK names \in Welcome : outbox' = [i \in 1..Len(names) |-> Msg(names[i])]
  BY DEF ModernReady
<1>2. /\ task = "modern" /\ task' = "reading" /\ state' = "active" /\ said' = said
      /\ state = "authenticating"
  BY DEF ModernReady, TalkInv
<1>3. Script!In("EncryptResult", said) /\ \A m \in Spoken : ~Script!In(m, said)
  BY <1>2 DEF ScriptInv, Unspoken
<1>4. /\ Len(names) \in Nat
      /\ \A k \in 1..Len(names) :
           /\ names[k] \in Spoken \ {"LogOnFail"}
           /\ \/ names[k] = "LogOnOK"
              \/ \E j \in 1..(k-1) : names[j] = Script!Before(names[k])
           /\ \A x \in Script!Spent(names[k]) : \A j \in 1..(k-1) : names[j] # x
  <2>1. CASE names = <<"LogOnOK", "SessionToken", "AccountInfo", "CMList", "NewLoginKey">>
    <3>1. /\ Len(names) = 5
          /\ names[1] = "LogOnOK" /\ names[2] = "SessionToken" /\ names[3] = "AccountInfo"
          /\ names[4] = "CMList" /\ names[5] = "NewLoginKey"
      BY <2>1
    <3>2. \A k \in 1..Len(names) : k = 1 \/ k = 2 \/ k = 3 \/ k = 4 \/ k = 5
      BY <3>1
    <3> QED
      BY <3>1, <3>2 DEF Spoken, Session, Script!Before, Script!Spent
  <2>2. CASE names = <<"LogOnOK", "SessionToken", "AccountInfo", "CMList",
                       "UpdateMachineAuth", "NewLoginKey">>
    <3>1. /\ Len(names) = 6
          /\ names[1] = "LogOnOK" /\ names[2] = "SessionToken" /\ names[3] = "AccountInfo"
          /\ names[4] = "CMList" /\ names[5] = "UpdateMachineAuth" /\ names[6] = "NewLoginKey"
      BY <2>2
    <3>2. \A k \in 1..Len(names) : k = 1 \/ k = 2 \/ k = 3 \/ k = 4 \/ k = 5 \/ k = 6
      BY <3>1
    <3> QED
      BY <3>1, <3>2 DEF Spoken, Session, Script!Before, Script!Spent
  <2> QED
    BY <2>1, <2>2 DEF Welcome
<1>5. /\ Len(outbox') = Len(names)
      /\ \A k \in 1..Len(outbox') : outbox'[k].msg = names[k]
  BY <1>1, <1>4 DEF Msg
<1>6. \A m \in Spoken : /\ m \in Script!Steps \ {"EncryptRequest"}
                        /\ Script!Spent(m) \subseteq Spoken
  BY DEF Spoken, Session, Script!Steps, Script!Spent
<1>7. Script!Before("LogOnOK") = "EncryptResult"
  BY DEF Script!Before
<1>8. \A k \in 1..Len(outbox') : \A j \in 1..(k-1) : j \in 1..Len(outbox')
  BY <1>4, <1>5
<1>9. Sayable(said', outbox')
  BY <1>2, <1>3, <1>4, <1>5, <1>6, <1>7, <1>8 DEF Sayable
<1> QED
  BY <1>2, <1>3, <1>9 DEF ScriptInv

\* The result of the handshake is said where the script has it.
LEMMA ScriptResult ==
  ASSUME TypeOK, ScriptInv, HandleEncryptResponse
  PROVE  ScriptInv' /\ Script!Tell("EncryptResult")
<1>1. /\ said' = Append(said, "EncryptResult") /\ outbox' = outbox /\ outbox = <<>>
      /\ state = "await_encrypt" /\ state' = "channel_open" /\ task' = task /\ task = "reading"
  BY DEF HandleEncryptResponse, SendResult, SendClear, Handles, CanRead
<1>2. \A m : Script!In(m, said') <=> Script!In(m, said) \/ m = "EncryptResult"
  <2>1. said \in Seq(FromServer) /\ "EncryptResult" \in FromServer
    BY DEF TypeOK, FromServer
  <2> QED
    BY <1>1, <2>1, InMore
<1>3. Unspoken(said', outbox')
  BY <1>1, <1>2 DEF ScriptInv, Unspoken, Spoken, Session
<1>4. Sayable(said', outbox')
  BY <1>1, NothingSayable
<1>5. ScriptInv'
  BY <1>1, <1>2, <1>3, <1>4 DEF ScriptInv
<1>6. /\ Script!Before("EncryptResult") = "EncryptRequest"
      /\ Script!Spent("EncryptResult") = {"EncryptResult"}
  BY DEF Script!Before, Script!Spent
<1>7. Script!Tell("EncryptResult")
  BY <1>1, <1>6 DEF ScriptInv, Script!Tell
<1> QED
  BY <1>5, <1>7

\* The next message of the answer is the next of the script.
LEMMA ScriptNext ==
  ASSUME TypeOK, TalkInv, ScriptInv, SendNext
  PROVE  ScriptInv' /\ Script!Next
<1> DEFINE x == Head(outbox)
<1>1. /\ outbox \in Seq(Messages(FromServer)) /\ outbox # <<>> /\ said \in Seq(FromServer)
      /\ said' = Append(said, x.msg) /\ outbox' = Tail(outbox)
      /\ state' = state /\ task' = task /\ task # "closed"
  BY DEF TypeOK, SendNext
<1>2. /\ outbox' \in Seq(Messages(FromServer)) /\ x \in Messages(FromServer) /\ x = outbox[1]
      /\ 1 \in 1..Len(outbox) /\ Len(outbox) \in Nat /\ Len(outbox') = Len(outbox) - 1
      /\ \A k \in 1..Len(outbox') : k + 1 \in 1..Len(outbox) /\ k + 1 # 1 /\ outbox'[k] = outbox[k + 1]
  BY <1>1, TailAll
<1> HIDE DEF x
<1>3. x.msg \in FromServer /\ x.msg # "EncryptResult"
  BY <1>2 DEF Messages, TalkInv, OutMsg
<1>4. \A m : Script!In(m, said') <=> Script!In(m, said) \/ m = x.msg
  BY <1>1, <1>3, InMore
<1>5. task # "modern"
  BY <1>1 DEF TalkInv
<1>6. Unspoken(said, outbox) => Unspoken(said', outbox')
  BY <1>2, <1>4 DEF Unspoken
<1>7. Sayable(said', outbox')
  <2> SUFFICES ASSUME NEW k \in 1..Len(outbox'), outbox'[k].msg # "Reply"
               PROVE  /\ outbox'[k].msg \in Script!Steps \ {"EncryptRequest"}
                      /\ \/ Script!In(Script!Before(outbox'[k].msg), said')
                         \/ \E j \in 1..(k-1) : outbox'[j].msg = Script!Before(outbox'[k].msg)
                      /\ \A y \in Script!Spent(outbox'[k].msg) :
                           ~Script!In(y, said') /\ \A j \in 1..(k-1) : outbox'[j].msg # y
    BY DEF Sayable
  <2> DEFINE m == outbox'[k].msg
  <2>1. k + 1 \in 1..Len(outbox) /\ m = outbox[k + 1].msg /\ k \in Nat
    BY <1>2
  <2>2. /\ m \in Script!Steps \ {"EncryptRequest"}
        /\ \/ Script!In(Script!Before(m), said)
           \/ \E j \in 1..k : outbox[j].msg = Script!Before(m)
        /\ \A y \in Script!Spent(m) : ~Script!In(y, said) /\ \A j \in 1..k : outbox[j].msg # y
    <3>1. (k + 1) - 1 = k
      BY <2>1
    <3> QED
      BY <2>1, <3>1 DEF ScriptInv, Sayable
  <2> HIDE DEF m
  <2>3. \A j \in 1..k : \/ j = 1 /\ outbox[j] = x
                        \/ j - 1 \in 1..(k-1) /\ outbox'[j - 1] = outbox[j]
    <3> TAKE j \in 1..k
    <3>1. CASE j = 1
      BY <1>2, <3>1
    <3>2. CASE j # 1
      <4>1. j - 1 \in 1..(k-1) /\ j - 1 \in 1..Len(outbox') /\ (j - 1) + 1 = j
        BY <1>2, <2>1, <3>2
      <4> QED
        BY <1>2, <4>1
    <3> QED
      BY <3>1, <3>2
  <2>4. \A j \in 1..(k-1) : j + 1 \in 1..k /\ outbox'[j] = outbox[j + 1]
    <3> TAKE j \in 1..(k-1)
    <3>1. j \in 1..Len(outbox') /\ j + 1 \in 1..k
      BY <1>2, <2>1
    <3> QED
      BY <1>2, <3>1
  <2>5. 1 \in 1..k
    BY <2>1
  <2>6. \/ Script!In(Script!Before(m), said')
        \/ \E j \in 1..(k-1) : outbox'[j].msg = Script!Before(m)
    BY <1>4, <2>2, <2>3
  <2>7. \A y \in Script!Spent(m) :
          ~Script!In(y, said') /\ \A j \in 1..(k-1) : outbox'[j].msg # y
    BY <1>2, <1>4, <2>2, <2>4, <2>5
  <2> QED
    BY <2>2, <2>6, <2>7 DEF m
<1>8. ScriptInv'
  BY <1>1, <1>3, <1>4, <1>5, <1>6, <1>7 DEF ScriptInv
<1>9. Script!Next
  <2>1. CASE x.msg = "Reply"
    BY <1>1, <2>1 DEF Script!Next, Script!Reply
  <2>2. CASE x.msg # "Reply"
    <3>1. /\ x.msg \in Script!Steps \ {"EncryptRequest"}
          /\ Script!In(Script!Before(x.msg), said)
          /\ \A y \in Script!Spent(x.msg) : ~Script!In(y, said)
      <4>1. 1..(1-1) = {}
        OBVIOUS
      <4> QED
        BY <1>2, <2>2, <4>1 DEF ScriptInv, Sayable
    <3>2. Script!Tell(x.msg)
      BY <1>1, <3>1 DEF Script!Tell
    <3> QED
      BY <3>1, <3>2 DEF Script!Next
  <2> QED
    BY <2>1, <2>2
<1> QED
  BY <1>8, <1>9

\* A step that says nothing is one of the script if it does not reopen what is closed.
LEMMA SilentStep ==
  ASSUME said' = said, task = "closed" => task' = "closed"
  PROVE  [Script!Next]_(Script!conversation)
<1>1. CASE task' = "closed"
  BY <1>1 DEF Script!Next, Script!End
<1>2. CASE task' # "closed"
  BY <1>2 DEF Script!conversation
<1> QED
  BY <1>1, <1>2

\* Every step keeps to the script.
LEMMA ScriptStep ==
  IInv /\ ScriptInv /\ [Next]_vars => ScriptInv' /\ [Script!Next]_(Script!conversation)
<1> SUFFICES ASSUME IInv, ScriptInv, [Next]_vars
             PROVE  ScriptInv' /\ [Script!Next]_(Script!conversation)
  OBVIOUS
<1>0. TypeOK /\ TalkInv
  BY DEF IInv
<1>1. ASSUME UNCHANGED gateway
      PROVE  ScriptInv' /\ [Script!Next]_(Script!conversation)
  <2>1. UNCHANGED <<state, task, outbox, said>>
    BY <1>1 DEF gateway
  <2> QED
    BY <2>1, ScriptSame, SilentStep
<1>2. CASE UNCHANGED vars
  BY <1>1, <1>2 DEF vars
<1>3. CASE ClientReceives \/ ClientLeaves \/ ClientSendsFreely
  BY <1>1, <1>3 DEF ClientReceives, ClientLeaves, ClientSendsFreely
<1>4. CASE SendNext
  BY <1>0, <1>4, ScriptNext
<1>5. CASE SendFails \/ ReadEnds \/ ResultFails
  <2>1. /\ task' = "closed" /\ outbox' = <<>> /\ said' = said /\ state' = state
    BY <1>5 DEF SendFails, ReadEnds, Close, ResultFails, Handles, CanRead
  <2> QED
    BY <2>1, ScriptNothing, SilentStep
<1>6. CASE HandleEncryptResponse
  <2>1. ScriptInv' /\ Script!Tell("EncryptResult")
    BY <1>0, <1>6, ScriptResult
  <2>2. "EncryptResult" \in Script!Steps \ {"EncryptRequest"}
    BY DEF Script!Steps
  <2> QED
    BY <2>1, <2>2 DEF Script!Next
<1>7. CASE HandleLogon
  <2>1. /\ outbox' = <<>> /\ said' = said /\ task = "reading" /\ task' = "modern"
        /\ state = "channel_open" /\ state' = "authenticating"
    BY <1>7 DEF HandleLogon, LogonAllowed, Handles, CanRead
  <2> QED
    BY <2>1, ScriptNothing, SilentStep
<1>8. CASE HandleBadLogon
  <2>1. /\ outbox' = <<Msg("LogOnFail")>> /\ said' = said /\ task = "reading" /\ task' = task
        /\ state = "channel_open" /\ state' = "authenticating"
    BY <1>8 DEF HandleBadLogon, LogonAllowed, Handles, CanRead
  <2>2. Msg("LogOnFail").msg = "LogOnFail" /\ Unspoken(said, outbox)
    BY <2>1 DEF Msg, ScriptInv
  <2> QED
    BY <2>1, <2>2, ScriptOne, SilentStep
<1>9. CASE ModernReady
  <2>1. said' = said /\ task = "modern"
    BY <1>9 DEF ModernReady
  <2> QED
    BY <1>0, <1>9, <2>1, ScriptReady, SilentStep
<1>10. CASE ModernRefuses
  <2>1. /\ outbox' = <<Msg("LogOnFail")>> /\ said' = said /\ task = "modern" /\ task' = "reading"
        /\ state = "authenticating" /\ state' = state
    BY <1>0, <1>10 DEF ModernRefuses, TalkInv
  <2>2. Msg("LogOnFail").msg = "LogOnFail" /\ Unspoken(said, outbox)
    BY <2>1 DEF Msg, ScriptInv
  <2> QED
    BY <2>1, <2>2, ScriptOne, SilentStep
<1>11. CASE HandleRequest
  <2>1. /\ outbox' = <<MsgJob("Reply", Message.job)>> /\ said' = said
        /\ task = "reading" /\ task' = task /\ state' = state /\ outbox = <<>>
    BY <1>11 DEF HandleRequest, Handles, CanRead
  <2>2. MsgJob("Reply", Message.job).msg = "Reply"
    BY DEF MsgJob
  <2> QED
    BY <2>1, <2>2, ScriptOne, SilentStep
<1>12. CASE HandleIgnored
  BY <1>1, <1>12 DEF HandleIgnored
<1>13. CASE HandleGarbage
  <2>1. /\ said' = said /\ state' = state /\ task = "reading" /\ outbox' = <<>>
        /\ task' \in {"reading", "closed"}
    BY <1>13 DEF HandleGarbage, CanRead
  <2> QED
    BY <2>1, ScriptNothing, SilentStep
<1> QED
  BY <1>2, <1>3, <1>4, <1>5, <1>6, <1>7, <1>8, <1>9, <1>10, <1>11, <1>12, <1>13
     DEF Next, GatewayStep

\* The request has been sent.
LEMMA ScriptInit == Init => ScriptInv /\ Script!Init
<1> SUFFICES ASSUME Init PROVE ScriptInv /\ Script!Init
  OBVIOUS
<1>1. said = <<"EncryptRequest">> /\ outbox = <<>> /\ state = "await_encrypt" /\ task = "reading"
  BY DEF Init
<1>2. Len(said) = 1 /\ said[1] = "EncryptRequest"
  BY <1>1
<1>3. \A m : Script!In(m, said) <=> m = "EncryptRequest"
  BY <1>2 DEF Script!In
<1>4. Unspoken(said, outbox) /\ Sayable(said, outbox)
  BY <1>1, <1>3, NothingSayable DEF Unspoken, Spoken, Session
<1>5. ScriptInv
  BY <1>1, <1>3, <1>4 DEF ScriptInv
<1>6. Script!Init
  BY <1>1 DEF Script!Init
<1> QED
  BY <1>5, <1>6

\* Whatever kind of client sends what, in which order and batches, TranslatorSession
\* keeps to the script of Conversation: the steps of a logon in order and once, one
\* answer, session data only behind a good one, nothing when it is closed.
THEOREM ScriptIsKept == Spec => KeepsToScript
BY ScriptInit, ScriptStep, Inductive, PTL DEF Spec, KeepsToScript, Script!Spec

-------------------------------------------------------------------------------
(***************************************************************************)
(* The logon in hand.                                                      *)
(***************************************************************************)

LogonReply == {"LogOnOK", "LogOnFail"}

\* A logon that was taken up is with the factory, or its answer waits to be sent,
\* or the answer was said: in no state of a live connection has it been dropped.
LogonInHand ==
  state \in {"authenticating", "active"} /\ task # "closed" =>
    \/ task = "modern"
    \/ \E k \in 1..Len(outbox) : outbox[k].msg \in LogonReply
    \/ \E m \in LogonReply : Script!In(m, said)

\* Sending a message moves it from the outbox to what was said.
LEMMA InHandSend ==
  ASSUME TypeOK, LogonInHand, SendNext
  PROVE  LogonInHand'
<1> SUFFICES ASSUME state \in {"authenticating", "active"}, task # "closed", task # "modern"
             PROVE  \/ \E k \in 1..Len(outbox') : outbox'[k].msg \in LogonReply
                    \/ \E m \in LogonReply : Script!In(m, said')
  BY DEF LogonInHand, SendNext
<1>1. outbox \in Seq(Messages(FromServer)) /\ outbox # <<>>
  BY DEF TypeOK, SendNext
<1>2. said \in Seq(FromServer) /\ Head(outbox).msg \in FromServer
  <2>1. Head(outbox) \in Messages(FromServer)
    BY <1>1
  <2> QED
    BY <2>1 DEF TypeOK, Messages
<1>3. \A m : Script!In(m, said') <=> Script!In(m, said) \/ m = Head(outbox).msg
  BY <1>2, InMore DEF SendNext
<1>4. CASE \E m \in LogonReply : Script!In(m, said)
  BY <1>3, <1>4
<1>5. CASE \E k \in 1..Len(outbox) : outbox[k].msg \in LogonReply
  <2>1. PICK k \in 1..Len(outbox) : outbox[k].msg \in LogonReply
    BY <1>5
  <2>2. CASE k = 1
    BY <1>1, <1>3, <2>1, <2>2
  <2>3. CASE k # 1
    <3>1. /\ outbox' = Tail(outbox) /\ k - 1 \in 1..Len(Tail(outbox))
          /\ Tail(outbox)[k - 1] = outbox[k]
      BY <1>1, <2>3 DEF SendNext
    <3> QED
      BY <2>1, <3>1
  <2> QED
    BY <2>2, <2>3
<1> QED
  BY <1>4, <1>5 DEF LogonInHand

\* Every path of a logon's handler ends in an answer, and no other handler starts
\* before it is sent.
LEMMA InHandStep ==
  ASSUME IInv, LogonInHand, [Next]_vars
  PROVE  LogonInHand'
<1>0. TypeOK
  BY DEF IInv
<1>1. CASE UNCHANGED <<gateway>>
  BY <1>1 DEF gateway, LogonInHand
<1>2. CASE UNCHANGED vars \/ ClientReceives \/ ClientLeaves \/ ClientSendsFreely
  <2>1. UNCHANGED <<gateway>>
    BY <1>2 DEF vars, ClientReceives, ClientLeaves, ClientSendsFreely, gateway
  <2> QED
    BY <1>1, <2>1
<1>3. CASE SendNext
  BY <1>0, <1>3, InHandSend
<1>4. CASE SendFails \/ ReadEnds \/ ResultFails
  BY <1>4 DEF SendFails, ReadEnds, Close, ResultFails, LogonInHand
<1>5. CASE HandleEncryptResponse
  BY <1>5 DEF HandleEncryptResponse, LogonInHand
<1>6. CASE HandleLogon
  BY <1>6 DEF HandleLogon, LogonInHand
<1>7. CASE HandleBadLogon \/ ModernRefuses
  <2>1. outbox' = <<Msg("LogOnFail")>>
    BY <1>7 DEF HandleBadLogon, ModernRefuses
  <2>2. 1 \in 1..Len(outbox') /\ outbox'[1].msg = "LogOnFail"
    BY <2>1 DEF Msg
  <2> QED
    BY <2>2 DEF LogonInHand, LogonReply
<1>8. CASE ModernReady
  <2>1. PICK names \in Welcome : outbox' = [i \in 1..Len(names) |-> Msg(names[i])]
    BY <1>8 DEF ModernReady
  <2>2. names[1] = "LogOnOK" /\ Len(names) \in {5, 6}
    BY <2>1 DEF Welcome
  <2>3. 1 \in 1..Len(names) /\ outbox'[1] = Msg("LogOnOK")
    BY <2>1, <2>2
  <2>4. Len(outbox') = Len(names)
    BY <2>1, <2>2
  <2> QED
    BY <2>3, <2>4 DEF LogonInHand, LogonReply, Msg
<1>9. CASE HandleRequest
  <2>1. /\ outbox = <<>> /\ task = "reading" /\ said' = said /\ state' = state /\ task' = task
    BY <1>9 DEF HandleRequest, Handles, CanRead
  <2>2. ~\E k \in 1..Len(outbox) : outbox[k].msg \in LogonReply
    BY <2>1
  <2> QED
    BY <2>1, <2>2 DEF LogonInHand
<1>10. CASE HandleIgnored
  BY <1>1, <1>10 DEF HandleIgnored
<1>11. CASE HandleGarbage
  <2>1. outbox = <<>> /\ task = "reading" /\ said' = said /\ state' = state
        /\ (task' = "closed" \/ task' = task)
    BY <1>11 DEF HandleGarbage, CanRead
  <2>2. ~\E k \in 1..Len(outbox) : outbox[k].msg \in LogonReply
    BY <2>1
  <2> QED
    BY <2>1, <2>2 DEF LogonInHand
<1> QED
  BY <1>2, <1>3, <1>4, <1>5, <1>6, <1>7, <1>8, <1>9, <1>10, <1>11 DEF Next, GatewayStep

\* What LogonAnswered rests on: whatever the client sends or batches, and wherever the
\* factory's answer and the peer's going fall, a logon that _on_ClientLogon has taken
\* up is awaited, about to be answered, or answered, as long as the connection lives.
THEOREM LogonStaysInHand == Spec => []LogonInHand
<1>1. Init => LogonInHand
  BY DEF Init, LogonInHand
<1> QED
  BY <1>1, InHandStep, Inductive, PTL DEF Spec

-------------------------------------------------------------------------------
(***************************************************************************)
(* The jobs, of a client that packs one message into a frame.              *)
(***************************************************************************)

\* The messages of one frame are in turn.
Rising(ms) ==
  \A k, l \in 1..Len(ms) : k < l => Older({ms[k].job} \ {NoJob}, {ms[l].job} \ {NoJob})

Live == Shared /\ task # "closed" /\ peer = "open"

Conserved ==
  /\ asked = JobsOf(toClient) \cup JobsIn(outbox) \cup JobsOf(toServer)
  /\ InTurn(toClient) /\ Rising(outbox) /\ InTurn(toServer)
  /\ Older(JobsOf(toClient), JobsIn(outbox))
  /\ Older(JobsOf(toClient), JobsOf(toServer))
  /\ Older(JobsIn(outbox), JobsOf(toServer))

\* Ids come from the count of what was sent, and every frame has one message.
JobInv ==
  /\ asked \subseteq 1..sends
  /\ \A i \in 1..Len(toServer) : Len(toServer[i].parts) = 1
  /\ Live => Conserved

\* A single frame is in turn when its messages are.
LEMMA InTurnOfOne ==
  ASSUME NEW e, NEW ms
  PROVE  InTurn(<<Frame(e, ms)>>) <=> Rising(ms)
<1>1. Len(<<Frame(e, ms)>>) = 1 /\ <<Frame(e, ms)>>[1] = Frame(e, ms) /\ Frame(e, ms).parts = ms
  BY DEF Frame
<1>2. \A i \in 1..Len(<<Frame(e, ms)>>) : <<Frame(e, ms)>>[i].parts = ms /\ i = 1
  BY <1>1
<1>3. 1 \in 1..Len(<<Frame(e, ms)>>)
  BY <1>1
<1> DEFINE q == <<Frame(e, ms)>>
<1>4. q[1].parts = ms /\ \A i \in 1..Len(q) : i = 1
  BY <1>2, <1>3
<1>5. \A i, j \in 1..Len(q) : ~(i < j)
  BY <1>4
<1> HIDE DEF q
<1>6. InTurn(q) <=> \A i \in 1..Len(q) : Rising(q[i].parts)
  BY <1>5 DEF InTurn, Rising
<1>7. InTurn(q) <=> Rising(ms)
  BY <1>3, <1>4, <1>6 DEF q
<1> QED
  BY <1>7 DEF q

\* One message: at most one job, and always in turn.
LEMMA OneJob ==
  ASSUME NEW x
  PROVE  JobsIn(<<x>>) = {x.job} \ {NoJob} /\ Rising(<<x>>)
<1>1. Len(<<x>>) = 1 /\ <<x>>[1] = x /\ 1 \in 1..Len(<<x>>) /\ \A k \in 1..Len(<<x>>) : k = 1
  OBVIOUS
<1>2. JobsIn(<<x>>) = {x.job} \ {NoJob}
  BY <1>1 DEF JobsIn
<1>3. Rising(<<x>>)
  BY <1>1 DEF Rising
<1> QED
  BY <1>2, <1>3

\* Messages without a job are in any order.
LEMMA NoJobs ==
  ASSUME NEW ms, \A k \in 1..Len(ms) : ms[k].job = NoJob
  PROVE  JobsIn(ms) = {} /\ Rising(ms)
BY DEF JobsIn, Rising, Older

\* Taking the first of a sequence of messages.
LEMMA JobsOfTail ==
  ASSUME NEW S, NEW ms \in Seq(S), ms # <<>>
  PROVE  /\ JobsIn(ms) = ({Head(ms).job} \ {NoJob}) \cup JobsIn(Tail(ms))
         /\ Rising(ms) => /\ Rising(Tail(ms))
                          /\ Older({Head(ms).job} \ {NoJob}, JobsIn(Tail(ms)))
<1> DEFINE t == Tail(ms)
<1>1. /\ Head(ms) = ms[1] /\ Len(ms) \in Nat /\ 1 \in 1..Len(ms) /\ Len(t) = Len(ms) - 1
      /\ \A i \in 1..Len(t) : i + 1 \in 1..Len(ms) /\ i + 1 # 1 /\ t[i] = ms[i + 1]
  BY TailAll
<1> HIDE DEF t
<1>2. \A i \in 1..Len(ms) : i = 1 \/ (i - 1 \in 1..Len(t) /\ t[i - 1] = ms[i])
  <2>1. ASSUME NEW i \in 1..Len(ms), i # 1 PROVE i - 1 \in 1..Len(t) /\ (i - 1) + 1 = i
    BY <1>1, <2>1
  <2> QED
    BY <1>1, <2>1
<1>3. JobsIn(ms) = ({Head(ms).job} \ {NoJob}) \cup JobsIn(t)
  <2>1. ASSUME NEW j \in JobsIn(ms) PROVE j \in ({Head(ms).job} \ {NoJob}) \cup JobsIn(t)
    <3>1. PICK k \in 1..Len(ms) : j = ms[k].job /\ j # NoJob
      BY DEF JobsIn
    <3>2. CASE k = 1
      BY <1>1, <3>1, <3>2
    <3>3. CASE k # 1
      <4>1. k - 1 \in 1..Len(t) /\ t[k - 1].job = j
        BY <1>2, <3>1, <3>3
      <4> QED
        BY <3>1, <4>1 DEF JobsIn
    <3> QED
      BY <3>2, <3>3
  <2>2. ASSUME NEW j \in ({Head(ms).job} \ {NoJob}) \cup JobsIn(t) PROVE j \in JobsIn(ms)
    BY <1>1 DEF JobsIn
  <2> QED
    BY <2>1, <2>2
<1>4. ASSUME Rising(ms) PROVE Rising(t) /\ Older({Head(ms).job} \ {NoJob}, JobsIn(t))
  <2>1. Rising(t)
    <3>1. \A k, l \in 1..Len(t) : k < l => k + 1 < l + 1
      BY <1>1
    <3> QED
      BY <1>1, <1>4, <3>1 DEF Rising
  <2>2. \A l \in 1..Len(t) : Older({ms[1].job} \ {NoJob}, {t[l].job} \ {NoJob})
    <3>1. \A l \in 1..Len(t) : 1 < l + 1
      BY <1>1
    <3> QED
      BY <1>1, <1>4, <3>1 DEF Rising
  <2>3. Older({Head(ms).job} \ {NoJob}, JobsIn(t))
    BY <1>1, <2>2 DEF Older, JobsIn
  <2> QED
    BY <2>1, <2>3
<1> QED
  BY <1>3, <1>4 DEF t

\* The first frame of a queue taken.
LEMMA FrameTaken ==
  ASSUME NEW S, NEW q \in Seq(S), q # <<>>
  PROVE  /\ JobsOf(q) = JobsIn(Head(q).parts) \cup JobsOf(Tail(q))
         /\ InTurn(q) => /\ InTurn(Tail(q))
                         /\ Older(JobsIn(Head(q).parts), JobsOf(Tail(q)))
<1> DEFINE t == Tail(q)
<1>1. /\ Head(q) = q[1] /\ Len(q) \in Nat /\ 1 \in 1..Len(q) /\ Len(t) = Len(q) - 1
      /\ \A i \in 1..Len(t) : i + 1 \in 1..Len(q) /\ i + 1 # 1 /\ t[i] = q[i + 1]
  BY TailAll
<1> HIDE DEF t
<1>2. \A i \in 1..Len(q) : i = 1 \/ (i - 1 \in 1..Len(t) /\ t[i - 1] = q[i])
  <2>1. ASSUME NEW i \in 1..Len(q), i # 1 PROVE i - 1 \in 1..Len(t) /\ (i - 1) + 1 = i
    BY <1>1, <2>1
  <2> QED
    BY <1>1, <2>1
<1>3. JobsOf(q) = JobsIn(Head(q).parts) \cup JobsOf(t)
  <2>1. ASSUME NEW j \in JobsOf(q) PROVE j \in JobsIn(Head(q).parts) \cup JobsOf(t)
    <3>1. PICK i \in 1..Len(q) : j \in JobsIn(q[i].parts)
      BY DEF JobsOf
    <3> QED
      BY <1>1, <1>2, <3>1 DEF JobsOf
  <2>2. ASSUME NEW j \in JobsIn(Head(q).parts) \cup JobsOf(t) PROVE j \in JobsOf(q)
    BY <1>1 DEF JobsOf
  <2> QED
    BY <2>1, <2>2
<1>4. ASSUME InTurn(q) PROVE InTurn(t) /\ Older(JobsIn(Head(q).parts), JobsOf(t))
  <2>1. /\ \A i, j \in 1..Len(q) : i < j => Older(JobsIn(q[i].parts), JobsIn(q[j].parts))
        /\ \A i \in 1..Len(q) : Rising(q[i].parts)
    BY <1>4 DEF InTurn, Rising
  <2>2. \A i, j \in 1..Len(t) : i < j => Older(JobsIn(t[i].parts), JobsIn(t[j].parts))
    <3>1. \A k, l \in 1..Len(t) : k < l => k + 1 < l + 1
      BY <1>1
    <3> QED
      BY <1>1, <2>1, <3>1
  <2>3. \A i \in 1..Len(t) : Rising(t[i].parts)
    BY <1>1, <2>1
  <2>4. \A l \in 1..Len(t) : Older(JobsIn(q[1].parts), JobsIn(t[l].parts))
    <3>1. \A l \in 1..Len(t) : 1 < l + 1
      BY <1>1
    <3> QED
      BY <1>1, <2>1, <3>1
  <2>5. Older(JobsIn(Head(q).parts), JobsOf(t))
    BY <1>1, <2>4 DEF Older, JobsOf
  <2> QED
    BY <2>2, <2>3, <2>5 DEF InTurn, Rising
<1> QED
  BY <1>3, <1>4 DEF t

\* A frame put at the end of a queue.
LEMMA FramePut ==
  ASSUME NEW S, NEW q \in Seq(S), NEW f \in S
  PROVE  /\ JobsOf(Append(q, f)) = JobsOf(q) \cup JobsIn(f.parts)
         /\ InTurn(q) /\ Rising(f.parts) /\ Older(JobsOf(q), JobsIn(f.parts))
              => InTurn(Append(q, f))
<1> DEFINE p == Append(q, f)
<1>1. /\ Len(q) \in Nat /\ Len(p) = Len(q) + 1
      /\ \A i \in 1..Len(q) : p[i] = q[i]
      /\ p[Len(q) + 1] = f
      /\ \A i \in 1..(Len(q) + 1) : i \in 1..Len(q) \/ i = Len(q) + 1
  BY AppendAll
<1> HIDE DEF p
<1>2. Len(q) + 1 \in 1..Len(p) /\ 1..Len(q) \subseteq 1..Len(p)
      /\ \A i \in 1..Len(q) : ~(Len(q) + 1 < i)
      /\ ~(Len(q) + 1 < Len(q) + 1)
  BY <1>1
<1>3. JobsOf(p) = JobsOf(q) \cup JobsIn(f.parts)
  <2>1. ASSUME NEW j \in JobsOf(p) PROVE j \in JobsOf(q) \cup JobsIn(f.parts)
    <3>1. PICK i \in 1..Len(p) : j \in JobsIn(p[i].parts)
      BY DEF JobsOf
    <3> QED
      BY <1>1, <3>1 DEF JobsOf
  <2>2. ASSUME NEW j \in JobsOf(q) \cup JobsIn(f.parts) PROVE j \in JobsOf(p)
    BY <1>1, <1>2 DEF JobsOf
  <2> QED
    BY <2>1, <2>2
<1>4. ASSUME InTurn(q), Rising(f.parts), Older(JobsOf(q), JobsIn(f.parts)) PROVE InTurn(p)
  <2>1. /\ \A i, j \in 1..Len(q) : i < j => Older(JobsIn(q[i].parts), JobsIn(q[j].parts))
        /\ \A i \in 1..Len(q) : Rising(q[i].parts)
    BY <1>4 DEF InTurn, Rising
  <2>2. \A i \in 1..Len(q) : Older(JobsIn(q[i].parts), JobsIn(f.parts))
    BY <1>4 DEF Older, JobsOf
  <2>3. \A i, j \in 1..Len(p) : i < j => Older(JobsIn(p[i].parts), JobsIn(p[j].parts))
    BY <1>1, <1>2, <2>1, <2>2
  <2>4. \A i \in 1..Len(p) : Rising(p[i].parts)
    BY <1>1, <1>4, <2>1
  <2> QED
    BY <2>3, <2>4 DEF InTurn, Rising
<1> QED
  BY <1>3, <1>4 DEF p

\* The invariant has JobsConserved as a part.
LEMMA JobsFollow == JobInv => JobsConserved
<1>1. InTurn(<<Frame(armed, outbox)>>) <=> Rising(outbox)
  BY InTurnOfOne
<1> QED
  BY <1>1 DEF JobInv, Live, Conserved, JobsConserved, Older

\* The gateway takes a frame whose job, if it has one, it answers.
LEMMA JobsRead ==
  ASSUME TypeOK, ServerInv, JobInv, toServer # <<>>, outbox = <<>>,
         toServer' = Tail(toServer),
         Live' => Live /\ JobsOf(toClient') = JobsOf(toClient) /\ InTurn(toClient'),
         Live' => JobsIn(outbox') = {Message.job} \ {NoJob} /\ Rising(outbox'),
         UNCHANGED <<asked, sends>>
  PROVE  JobInv'
<1>1. toServer \in Seq(ServerFrames)
  BY DEF TypeOK, ServerFrames
<1>2. \A i \in 1..Len(toServer') : Len(toServer'[i].parts) = 1
  BY <1>1, TailAll DEF JobInv
<1>3. JobsIn(Wire.parts) = {Message.job} \ {NoJob}
  <2>1. Wire.parts \in Seq(Messages(FromClient)) /\ Wire.parts # <<>>
    BY HeadOfServer DEF ServerFrames, ServerFrame
  <2>2. Wire = toServer[1] /\ 1 \in 1..Len(toServer)
    BY <1>1, TailAll DEF Wire
  <2>3. Len(Wire.parts) = 1 /\ Message = Wire.parts[1]
    BY <2>1, <2>2, TailAll DEF Message, JobInv
  <2>4. 1 \in 1..Len(Wire.parts) /\ \A k \in 1..Len(Wire.parts) : k = 1
    BY <2>3
  <2> QED
    BY <2>3, <2>4 DEF JobsIn
<1>4. ASSUME Live' PROVE Conserved'
  <2> DEFINE j == {Message.job} \ {NoJob}
  <2>1. Conserved /\ JobsOf(toClient') = JobsOf(toClient) /\ InTurn(toClient')
        /\ JobsIn(outbox') = j /\ Rising(outbox')
    BY <1>4 DEF JobInv
  <2>2. JobsOf(toServer) = j \cup JobsOf(toServer')
        /\ InTurn(toServer') /\ Older(j, JobsOf(toServer'))
    BY <1>1, <1>3, <2>1, FrameTaken DEF Wire, Conserved
  <2>3. JobsIn(outbox) = {}
    BY DEF JobsIn
  <2> HIDE DEF j
  <2>4. asked' = JobsOf(toClient') \cup JobsIn(outbox') \cup JobsOf(toServer')
    BY <2>1, <2>2, <2>3 DEF Conserved
  <2>5. /\ Older(JobsOf(toClient'), JobsIn(outbox'))
        /\ Older(JobsOf(toClient'), JobsOf(toServer'))
        /\ Older(JobsIn(outbox'), JobsOf(toServer'))
    BY <2>1, <2>2 DEF Conserved, Older
  <2> QED
    BY <2>1, <2>2, <2>4, <2>5 DEF Conserved
<1>5. asked' \subseteq 1..sends'
  BY DEF JobInv
<1> QED
  BY <1>2, <1>4, <1>5 DEF JobInv

\* A frame without a job changes nothing, wherever it stands.
LEMMA JobsHandled ==
  ASSUME IInv, JobInv,
         HandleEncryptResponse \/ ResultFails \/ HandleLogon \/ HandleBadLogon
           \/ HandleRequest \/ HandleIgnored \/ HandleGarbage
  PROVE  JobInv'
<1> USE DEF IInv
<1>1. /\ toServer # <<>> /\ toServer' = Tail(toServer) /\ outbox = <<>> /\ task = "reading"
      /\ UNCHANGED <<kind, peer, asked, sends>> /\ (Live' => Live)
  <2>1. /\ toServer # <<>> /\ toServer' = Tail(toServer) /\ outbox = <<>> /\ task = "reading"
        /\ UNCHANGED <<kind, peer, asked, sends>>
        /\ state = "await_encrypt" \/ armed' = armed
    BY DEF HandleEncryptResponse, ResultFails, HandleLogon, HandleBadLogon, HandleRequest,
           HandleIgnored, HandleGarbage, Handles, CanRead, client, gateway
  <2>2. armed => armed' = armed
    BY <2>1 DEF KeyInv
  <2> QED
    BY <2>1, <2>2 DEF Live, Shared
<1>2. /\ Message.msg \in FromClient
      /\ Message.job # NoJob =>
           Message.msg \in Requests /\ (kind = "keyed" => Wire.enc)
      /\ kind # "foreign" /\ Wire.enc => armed /\ kind = "keyed"
  <2>1. ServerFrame(Wire, kind, armed) /\ Wire \in ServerFrames /\ Message.msg \in FromClient
    BY <1>1, HeadOfServer
  <2>2. Message = Wire.parts[1] /\ 1 \in 1..Len(Wire.parts)
    <3>1. Wire.parts \in Seq(Messages(FromClient)) /\ Wire.parts # <<>>
      BY <2>1 DEF ServerFrames, ServerFrame
    <3> QED
      BY <3>1, TailAll DEF Message
  <2> QED
    BY <2>1, <2>2 DEF ServerFrame
<1>3. CASE HandleRequest
  <2> DEFINE x == MsgJob("Reply", Message.job)
  <2>1. outbox' = <<x>> /\ x.job = Message.job /\ toClient' = toClient
    BY <1>3 DEF HandleRequest, MsgJob
  <2> HIDE DEF x
  <2>2. JobsIn(outbox') = {Message.job} \ {NoJob} /\ Rising(outbox')
    BY <2>1, OneJob
  <2>3. Live' => InTurn(toClient')
    BY <1>1, <2>1 DEF JobInv, Conserved
  <2> QED
    BY <1>1, <2>1, <2>2, <2>3, JobsRead
<1>4. CASE Live' /\ ~HandleRequest
  <2>1. Message.job = NoJob
    <3>1. CASE HandleGarbage
      <4>1. ASSUME Message.job # NoJob PROVE FALSE
        <5>1. Garbled /\ Live
          BY <1>1, <1>4, <3>1 DEF HandleGarbage
        <5>2. armed \in BOOLEAN /\ Wire.enc \in BOOLEAN
          BY <1>1, HeadOfServer DEF TypeOK, ServerFrames
        <5>3. CASE kind = "keyed"
          BY <1>2, <4>1, <5>1, <5>2, <5>3 DEF Garbled, SameKey, Live
        <5>4. CASE kind # "keyed"
          <6>1. ~armed /\ ~Wire.enc
            BY <1>2, <5>1, <5>4 DEF Live, Shared
          <6> QED
            BY <5>1, <5>2, <6>1 DEF Garbled
        <5> QED
          BY <5>3, <5>4
      <4> QED
        BY <4>1
    <3>2. CASE ~HandleGarbage
      BY <1>2, <1>4, <3>2 DEF HandleEncryptResponse, ResultFails, HandleLogon, HandleBadLogon,
                              HandleIgnored, Handles, Requests, Logons
    <3> QED
      BY <3>1, <3>2
  <2>2. JobsIn(outbox') = {} /\ Rising(outbox')
    <3>1. outbox' = <<>> \/ outbox' = <<Msg("LogOnFail")>>
      BY <1>1, <1>4 DEF HandleEncryptResponse, ResultFails, HandleLogon, HandleBadLogon,
                        HandleIgnored, HandleGarbage, gateway
    <3>2. Msg("LogOnFail").job = NoJob
      BY DEF Msg
    <3>3. CASE outbox' = <<>>
      <4>1. Len(outbox') = 0
        BY <3>3
      <4> QED
        BY <4>1, NoJobs
    <3>4. CASE outbox' = <<Msg("LogOnFail")>>
      BY <3>2, <3>4, OneJob
    <3> QED
      BY <3>1, <3>3, <3>4
  <2>3. JobsOf(toClient') = JobsOf(toClient) /\ InTurn(toClient')
    <3>1. InTurn(toClient) /\ toClient \in Seq(ClientFrames)
      BY <1>1, <1>4 DEF JobInv, Conserved, TypeOK, ClientFrames
    <3>2. CASE HandleEncryptResponse
      <4> DEFINE x == Msg("EncryptResult")
                 f == Frame(FALSE, <<x>>)
      <4>1. toClient' = Append(toClient, f)
        BY <3>2 DEF HandleEncryptResponse, SendResult, SendClear
      <4>2. x.job = NoJob /\ x \in Messages(FromServer)
        BY TranslatorAssumption DEF Msg, Messages, FromServer, NoJob
      <4> HIDE DEF x
      <4>3. f \in ClientFrames /\ f.parts = <<x>>
        BY <4>2, OneMessage DEF ClientFrames
      <4>4. JobsIn(f.parts) = {} /\ Rising(f.parts)
        <5> HIDE DEF f
        <5> QED
          BY <4>2, <4>3, OneJob
      <4> HIDE DEF f
      <4>5. Older(JobsOf(toClient), JobsIn(f.parts))
        BY <4>4 DEF Older
      <4>6. /\ JobsOf(toClient') = JobsOf(toClient) \cup JobsIn(f.parts)
            /\ InTurn(toClient')
        BY <3>1, <4>1, <4>3, <4>4, <4>5, FramePut
      <4> QED
        BY <4>4, <4>6
    <3>3. CASE ~HandleEncryptResponse
      <4>1. toClient' = toClient
        BY <1>4, <3>3 DEF ResultFails, HandleLogon, HandleBadLogon, HandleIgnored, HandleGarbage
      <4> QED
        BY <3>1, <4>1
    <3> QED
      BY <3>2, <3>3
  <2> QED
    BY <1>1, <2>1, <2>2, <2>3, JobsRead
<1>5. CASE ~Live'
  BY <1>1, <1>5, JobsRead
<1> QED
  BY <1>3, <1>4, <1>5

\* A message that is sent takes its job from the outbox to the wire.
LEMMA JobsSent ==
  ASSUME IInv, JobInv, SendNext
  PROVE  JobInv'
<1> USE DEF IInv
<1> DEFINE x == Head(outbox)
           f == Frame(armed, <<x>>)
           j == {x.job} \ {NoJob}
<1>1. /\ outbox # <<>> /\ outbox' = Tail(outbox) /\ Deliver(f)
      /\ UNCHANGED <<armed, task, asked, sends, kind, peer, toServer>>
  BY DEF SendNext, client
<1>2. ASSUME Live' PROVE Conserved'
  <2>1. Conserved /\ toClient' = Append(toClient, f)
    BY <1>1, <1>2 DEF JobInv, Live, Shared, Deliver
  <2>2. /\ JobsIn(outbox) = j \cup JobsIn(outbox')
        /\ Rising(outbox') /\ Older(j, JobsIn(outbox'))
    BY <1>1, <2>1, JobsOfTail DEF TypeOK, Conserved
  <2>3. x \in Messages(FromServer)
    BY <1>1, TailAll DEF TypeOK
  <2> HIDE DEF x
  <2>4. f \in ClientFrames /\ f.parts = <<x>>
    <3>1. armed \in BOOLEAN
      BY DEF TypeOK
    <3> QED
      BY <2>3, <3>1, OneMessage DEF ClientFrames
  <2> HIDE DEF f
  <2>5. JobsIn(f.parts) = j /\ Rising(f.parts)
    BY <2>4, OneJob
  <2> HIDE DEF j
  <2>6. Older(JobsOf(toClient), JobsIn(f.parts))
    BY <2>1, <2>2, <2>5 DEF Conserved, Older
  <2>7. JobsOf(toClient') = JobsOf(toClient) \cup j /\ InTurn(toClient')
    <3>1. toClient \in Seq(ClientFrames) /\ InTurn(toClient)
      BY <2>1 DEF TypeOK, ClientFrames, Conserved
    <3> QED
      BY <2>1, <2>4, <2>5, <2>6, <3>1, FramePut
  <2>8. JobsOf(toServer') = JobsOf(toServer) /\ InTurn(toServer') /\ asked' = asked
    BY <1>1, <2>1 DEF Conserved
  <2>9. asked' = JobsOf(toClient') \cup JobsIn(outbox') \cup JobsOf(toServer')
    BY <2>1, <2>2, <2>7, <2>8 DEF Conserved
  <2>10. /\ Older(JobsOf(toClient'), JobsIn(outbox'))
         /\ Older(JobsOf(toClient'), JobsOf(toServer'))
         /\ Older(JobsIn(outbox'), JobsOf(toServer'))
    BY <2>1, <2>2, <2>7, <2>8 DEF Conserved, Older
  <2> QED
    BY <2>2, <2>7, <2>8, <2>9, <2>10 DEF Conserved
<1> QED
  BY <1>1, <1>2 DEF JobInv

\* A handler that puts messages without a job into an empty outbox, or closes.
LEMMA JobsOther ==
  ASSUME IInv, JobInv, SendFails \/ ReadEnds \/ ModernReady \/ ModernRefuses
  PROVE  JobInv'
<1> USE DEF IInv
<1>1. UNCHANGED <<armed, asked, sends, kind, peer, toServer, toClient>>
  BY DEF SendFails, ReadEnds, Close, ModernReady, ModernRefuses, client
<1>2. ASSUME Live' PROVE Conserved'
  <2>1. task = "modern" /\ outbox = <<>> /\ (ModernReady \/ ModernRefuses)
    BY <1>2 DEF SendFails, ReadEnds, Close, Live, ModernReady, ModernRefuses, TalkInv
  <2>2. Conserved
    BY <1>1, <1>2, <2>1 DEF Live, Shared, JobInv
  <2>3. JobsIn(outbox') = {} /\ Rising(outbox')
    <3>1. CASE ModernRefuses
      <4>1. outbox' = <<Msg("LogOnFail")>> /\ Msg("LogOnFail").job = NoJob
        BY <3>1 DEF ModernRefuses, Msg
      <4> QED
        BY <4>1, OneJob
    <3>2. CASE ModernReady
      <4>1. PICK names \in Welcome : outbox' = [i \in 1..Len(names) |-> Msg(names[i])]
        BY <3>2 DEF ModernReady
      <4>2. Len(outbox') = Len(names) /\ \A k \in 1..Len(outbox') : outbox'[k].job = NoJob
        <5>1. Len(names) \in Nat
          BY DEF Welcome
        <5>2. \A k \in 1..Len(names) : Msg(names[k]).job = NoJob
          BY DEF Msg
        <5>3. Len(outbox') = Len(names)
          BY <4>1, <5>1
        <5> QED
          BY <4>1, <5>2, <5>3
      <4> QED
        BY <4>2, NoJobs
    <3> QED
      BY <2>1, <3>1, <3>2
  <2>4. JobsIn(outbox) = {}
    BY <2>1 DEF JobsIn
  <2> QED
    BY <1>1, <2>2, <2>3, <2>4 DEF Conserved, Older
<1> QED
  BY <1>1, <1>2 DEF JobInv

\* The client sends one message: its job, if it has one, is behind the others.
LEMMA JobsPut ==
  ASSUME TypeOK, JobInv, NEW x \in Messages(FromClient), ClientSends(<<x>>)
  PROVE  /\ \A i \in 1..Len(toServer') : Len(toServer'[i].parts) = 1
         /\ JobsOf(toServer') = JobsOf(toServer) \cup ({x.job} \ {NoJob})
         /\ InTurn(toServer) /\ Older(JobsOf(toServer), {x.job} \ {NoJob}) => InTurn(toServer')
<1> DEFINE f == Frame(filter, <<x>>)
<1>1. filter \in BOOLEAN /\ toServer \in Seq(ServerFrames) /\ toServer' = Append(toServer, f)
  BY DEF TypeOK, ServerFrames, ClientSends
<1>2. f \in ServerFrames /\ f.parts = <<x>> /\ Len(<<x>>) = 1
  <2>1. filter \in BOOLEAN
    BY <1>1
  <2> QED
    BY <2>1, OneMessage DEF ServerFrames
<1> HIDE DEF f
<1>3. JobsIn(f.parts) = {x.job} \ {NoJob} /\ Rising(f.parts)
  BY <1>2, OneJob
<1>4. \A i \in 1..Len(toServer') : Len(toServer'[i].parts) = 1
  BY <1>1, <1>2, AppendAll DEF JobInv
<1>5. /\ JobsOf(toServer') = JobsOf(toServer) \cup JobsIn(f.parts)
      /\ InTurn(toServer) /\ Rising(f.parts) /\ Older(JobsOf(toServer), JobsIn(f.parts))
           => InTurn(toServer')
  BY <1>1, <1>2, FramePut
<1> QED
  BY <1>3, <1>4, <1>5

\* The client takes an answer off its list, or adds the newest job to it.
LEMMA JobsClient ==
  ASSUME MaxBatch = 1, IInv, JobInv, ClientReceives \/ ClientLeaves \/ ClientSendsFreely
  PROVE  JobInv'
<1> USE DEF IInv
<1>0. UNCHANGED <<kind, armed, task, outbox>> /\ sends \in Nat
  <2>1. UNCHANGED <<kind, armed, task, outbox>>
    BY DEF ClientReceives, ClientLeaves, ClientSendsFreely, gateway
  <2>2. sends \in Nat
    BY TranslatorAssumption DEF TypeOK
  <2> QED
    BY <2>1, <2>2
<1>1. CASE ClientReceives
  <2> DEFINE f == Head(toClient)
             part == Head(f.parts)
             j == {part.job} \ {NoJob}
  <2>1. /\ peer = "open" /\ toClient # <<>> /\ toClient' = Tail(toClient)
        /\ React(part.msg, part.job) /\ UNCHANGED <<peer, sends>>
    BY <1>1 DEF ClientReceives
  <2>2. f \in ClientFrames /\ ClientFrame(f)
    BY <2>1, TailAll DEF TypeOK, ClientFrames, KeyInv
  <2>3. /\ part = f.parts[1] /\ JobsIn(f.parts) = j
        /\ part.job # NoJob => part.msg = "Reply"
    <3>1. f.parts \in Seq(Messages(FromServer)) /\ f.parts # <<>> /\ Len(f.parts) = 1
      BY <2>2 DEF ClientFrames, ClientFrame
    <3>2. part = f.parts[1] /\ 1 \in 1..Len(f.parts) /\ \A k \in 1..Len(f.parts) : k = 1
      <4> HIDE DEF f
      <4>1. part = f.parts[1]
        BY <3>1, TailAll
      <4> QED
        BY <3>1, <4>1
    <3> QED
      BY <2>2, <3>2 DEF ClientFrame, JobsIn
  <2> HIDE DEF part
  <2>4. asked' = asked \ j
    <3>1. asked' = IF part.msg = "Reply" THEN asked \ {part.job} ELSE asked
      BY <2>1 DEF React
    <3>2. NoJob \notin asked
      BY DEF TypeOK, NoJob
    <3> QED
      BY <2>3, <3>1, <3>2
  <2>5. /\ \A i \in 1..Len(toServer') : Len(toServer'[i].parts) = 1
        /\ JobsOf(toServer') = JobsOf(toServer)
        /\ InTurn(toServer) => InTurn(toServer')
    <3>1. CASE toServer' = toServer
      BY <3>1 DEF JobInv
    <3>2. CASE toServer' # toServer
      <4>1. PICK m \in FromClient : ClientSends(<<Msg(m)>>)
        BY <2>1, <3>2 DEF React, FromClient, Ignored
      <4>2. Msg(m) \in Messages(FromClient) /\ Msg(m).job = NoJob
        BY TranslatorAssumption DEF Msg, Messages, NoJob
      <4>3. {Msg(m).job} \ {NoJob} = {}
        BY <4>2
      <4> QED
        BY <4>1, <4>2, <4>3, JobsPut DEF Older
    <3> QED
      BY <3>1, <3>2
  <2>6. ASSUME Live' PROVE Conserved'
    <3>1. Conserved
      BY <1>0, <2>1, <2>6 DEF Live, Shared, JobInv
    <3>2. /\ JobsOf(toClient) = j \cup JobsOf(toClient')
          /\ InTurn(toClient') /\ Older(j, JobsOf(toClient'))
      BY <2>1, <2>3, <3>1, FrameTaken DEF TypeOK, Conserved
    <3>3. /\ Older(j, JobsOf(toClient')) /\ Older(j, JobsIn(outbox))
          /\ Older(j, JobsOf(toServer)) /\ j \subseteq Nat
      BY <3>1, <3>2 DEF Conserved, Older, JobInv
    <3> HIDE DEF j
    <3>4. asked = j \cup (JobsOf(toClient') \cup JobsIn(outbox') \cup JobsOf(toServer'))
      BY <1>0, <2>5, <3>1, <3>2 DEF Conserved
    <3>5. \A k \in j : k \notin JobsOf(toClient') \cup JobsIn(outbox') \cup JobsOf(toServer')
      BY <1>0, <2>5, <3>3 DEF Older
    <3>6. asked' = JobsOf(toClient') \cup JobsIn(outbox') \cup JobsOf(toServer')
      BY <2>4, <3>4, <3>5
    <3>7. /\ Older(JobsOf(toClient'), JobsIn(outbox'))
          /\ Older(JobsOf(toClient'), JobsOf(toServer'))
          /\ Older(JobsIn(outbox'), JobsOf(toServer'))
          /\ Rising(outbox') /\ InTurn(toServer')
      BY <1>0, <2>5, <3>1, <3>2 DEF Conserved, Older
    <3> QED
      BY <3>2, <3>6, <3>7 DEF Conserved
  <2>7. asked' \subseteq 1..sends'
    BY <2>1, <2>4 DEF JobInv
  <2> QED
    BY <2>5, <2>6, <2>7 DEF JobInv
<1>2. CASE ClientLeaves
  <2>1. ~Live' /\ UNCHANGED <<toServer, asked, sends>>
    BY <1>2 DEF ClientLeaves, Live
  <2> QED
    BY <2>1 DEF JobInv
<1>3. CASE ClientSendsFreely
  <2>1. PICK names \in [1..1 -> FromClient] :
          LET job == [i \in 1..1 |->
                        IF names[i] \in Requests /\ Settled THEN sends + i ELSE NoJob]
          IN
          /\ ClientSends([i \in 1..1 |-> MsgJob(names[i], job[i])])
          /\ sends' = sends + 1
          /\ asked' = asked \cup ({job[i] : i \in 1..1} \ {NoJob})
          /\ UNCHANGED <<peer, toClient>>
    <3>1. \A names : names \in UNION {[1..n -> FromClient] : n \in 1..MaxBatch}
                       => names \in [1..1 -> FromClient] /\ Len(names) = 1
      OBVIOUS
    <3>2. PICK names \in UNION {[1..n -> FromClient] : n \in 1..MaxBatch} :
            LET n   == Len(names)
                job == [i \in 1..n |->
                          IF names[i] \in Requests /\ Settled THEN sends + i ELSE NoJob]
            IN
            /\ ClientSends([i \in 1..n |-> MsgJob(names[i], job[i])])
            /\ sends' = sends + n
            /\ asked' = asked \cup ({job[i] : i \in 1..n} \ {NoJob})
            /\ UNCHANGED <<peer, toClient>>
      BY <1>3 DEF ClientSendsFreely
    <3>3. names \in [1..1 -> FromClient] /\ Len(names) = 1
      BY <3>1
    <3> QED
      BY <3>2, <3>3
  <2> DEFINE id == IF names[1] \in Requests /\ Settled THEN sends + 1 ELSE NoJob
             x  == MsgJob(names[1], id)
             j  == {id} \ {NoJob}
  <2>2. /\ ClientSends(<<x>>) /\ sends' = sends + 1 /\ asked' = asked \cup j
        /\ UNCHANGED <<peer, toClient>>
    <3>1. 1..1 = {1}
      OBVIOUS
    <3> DEFINE job == [i \in 1..1 |->
                         IF names[i] \in Requests /\ Settled THEN sends + i ELSE NoJob]
    <3>2. job[1] = id /\ {job[i] : i \in 1..1} = {id}
      BY <3>1
    <3> HIDE DEF job
    <3>3. [i \in 1..1 |-> MsgJob(names[i], job[i])] = <<x>>
      BY <3>2
    <3> QED
      BY <2>1, <3>2, <3>3 DEF job
  <2>3. x.job = id /\ x \in Messages(FromClient) /\ sends' \in 0..MaxSends
    <3>1. sends' \in 0..MaxSends
      BY ClientKeeps, <1>3 DEF TypeOK
    <3>2. id \in 0..MaxSends /\ names[1] \in FromClient
      BY <1>0, <2>1, <2>2, <3>1, TranslatorAssumption DEF NoJob
    <3> HIDE DEF id
    <3> QED
      BY <3>1, <3>2 DEF MsgJob, Messages
  <2>4. j \subseteq 1..(sends + 1) /\ \A k \in 1..sends : \A l \in j : k < l
    BY <1>0 DEF NoJob
  <2> HIDE DEF id, x, j
  <2>5. {x.job} \ {NoJob} = j
    BY <2>3 DEF j
  <2>6. /\ \A i \in 1..Len(toServer') : Len(toServer'[i].parts) = 1
        /\ JobsOf(toServer') = JobsOf(toServer) \cup j
        /\ InTurn(toServer) /\ Older(JobsOf(toServer), j) => InTurn(toServer')
    BY <2>2, <2>3, <2>5, JobsPut
  <2>7. asked' \subseteq 1..sends'
    <3>1. asked \subseteq 1..sends /\ 1..sends \subseteq 1..(sends + 1)
      BY <1>0 DEF JobInv
    <3> QED
      BY <2>2, <2>4, <3>1
  <2>8. ASSUME Live' PROVE Conserved'
    <3>1. Conserved
      BY <1>0, <2>2, <2>8 DEF Live, Shared, JobInv
    <3>2. /\ JobsOf(toClient) \subseteq 1..sends /\ JobsIn(outbox) \subseteq 1..sends
          /\ JobsOf(toServer) \subseteq 1..sends
      BY <3>1 DEF Conserved, JobInv
    <3>3. /\ Older(JobsOf(toClient), j) /\ Older(JobsIn(outbox), j) /\ Older(JobsOf(toServer), j)
      BY <2>4, <3>2 DEF Older
    <3>4. asked' = JobsOf(toClient') \cup JobsIn(outbox') \cup JobsOf(toServer')
      BY <1>0, <2>2, <2>6, <3>1 DEF Conserved
    <3>5. /\ InTurn(toServer') /\ InTurn(toClient') /\ Rising(outbox')
      BY <1>0, <2>2, <2>6, <3>1, <3>3 DEF Conserved
    <3>6. /\ Older(JobsOf(toClient'), JobsIn(outbox'))
          /\ Older(JobsOf(toClient'), JobsOf(toServer'))
          /\ Older(JobsIn(outbox'), JobsOf(toServer'))
      BY <1>0, <2>2, <2>6, <3>1, <3>3 DEF Conserved, Older
    <3> QED
      BY <3>4, <3>5, <3>6 DEF Conserved
  <2> QED
    BY <2>6, <2>7, <2>8 DEF JobInv
<1> QED
  BY <1>1, <1>2, <1>3

\* No job is out yet.
LEMMA JobsInit == Init => JobInv
<1> SUFFICES ASSUME Init PROVE JobInv
  OBVIOUS
<1> DEFINE x == Msg("EncryptRequest")
           f == Frame(FALSE, <<x>>)
<1>1. /\ asked = {} /\ outbox = <<>> /\ toServer = <<>> /\ toClient = <<f>>
  BY DEF Init
<1>2. x.job = NoJob /\ f.parts = <<x>>
  BY DEF Msg, Frame
<1> HIDE DEF x
<1>3. JobsIn(f.parts) = {} /\ Rising(f.parts)
  BY <1>2, OneJob
<1> HIDE DEF f
<1>4. Len(toClient) = 1 /\ toClient[1] = f /\ \A i \in 1..Len(toClient) : i = 1
  BY <1>1
<1>5. JobsOf(toClient) = {} /\ InTurn(toClient)
  BY <1>3, <1>4 DEF JobsOf, InTurn, Rising
<1>6. Len(toServer) = 0 /\ Len(outbox) = 0
  BY <1>1
<1>7. JobsOf(toServer) = {} /\ InTurn(toServer) /\ JobsIn(outbox) = {} /\ Rising(outbox)
  BY <1>6 DEF JobsOf, InTurn, JobsIn, Rising
<1> QED
  BY <1>1, <1>5, <1>6, <1>7 DEF JobInv, Conserved, Older

\* Every action, by its lemma.
LEMMA JobsNext == ASSUME MaxBatch = 1 PROVE IInv /\ JobInv /\ [Next]_vars => JobInv'
<1> SUFFICES ASSUME IInv, JobInv, [Next]_vars PROVE JobInv'
  OBVIOUS
<1>1. CASE UNCHANGED vars
  BY <1>1 DEF vars, gateway, client, JobInv, Live, Shared, Conserved
<1>2. CASE Next
  BY <1>2, JobsClient, JobsHandled, JobsSent, JobsOther DEF Next, GatewayStep
<1> QED
  BY <1>1, <1>2

\* Of a client that packs one message into a frame and shares the bridge's key (or
\* does not encrypt to an unarmed one), every request is answered to the job that
\* asked, in its order, and none is lost, as long as the connection lives.  A Multi of two breaks it: _handle_multi handles its first message only.
THEOREM JobsAreConserved ==
  ASSUME MaxBatch = 1
  PROVE  Spec => []JobsConserved
<1>1. Init => JobInv
  BY JobsInit
<1>2. IInv /\ JobInv /\ [Next]_vars => JobInv'
  BY JobsNext
<1>3. JobInv => JobsConserved
  BY JobsFollow
<1> QED
  BY <1>1, <1>2, <1>3, Inductive, PTL DEF Spec

===============================================================================
