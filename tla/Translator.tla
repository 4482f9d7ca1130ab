------------------------------ MODULE Translator ------------------------------
(***************************************************************************)
(* One legacy CM connection: the read loop of src/gateway/cm/server.py,    *)
(* the state machine of TranslatorSession in src/gateway/cm/translator.py, *)
(* and the client at the other end (src/gateway/cm/sim_client.py, made     *)
(* freer: it may send any message at any time).                            *)
(*                                                                         *)
(* The gateway handles one frame at a time.  A handler suspends while it   *)
(* waits for the modern session and at every frame it sends, and nothing   *)
(* is read from the connection meanwhile; the client runs on.              *)
(*                                                                         *)
(* A frame carries `parts`, the messages packed in it (more than one for a *)
(* Multi), and `enc`, whether its payload went out under the session key.  *)
(* What the factory and the sentry store decide is a free choice here;     *)
(* ModernFactory and SentinelStore model them.                             *)
(***************************************************************************)
EXTENDS Naturals, Sequences

CONSTANTS
  Clients,     \* the kinds of client, a subset of ClientKinds
  MaxSends,    \* bound: messages the client sends beyond its reactions
  MaxBatch     \* bound: messages packed into one Multi

\* "plain"    never encrypts: the simulator's default, with an opaque key blob
\* "keyed"    encrypts its session key to the bridge's RSA key
\* "foreign"  encrypts it to a key the bridge does not have: keys not swapped, or
\*            a bridge without a key
ClientKinds == {"plain", "keyed", "foreign"}

ASSUME TranslatorAssumption ==
  /\ Clients \subseteq ClientKinds
  /\ MaxSends \in Nat /\ MaxBatch \in Nat \ {0}

VARIABLES
  state,       \* TranslatorSession.state
  armed,       \* _session_key is set
  task,        \* "reading" | "modern": awaiting the session | "closed"
  outbox,      \* what the current handler has still to send
  said,        \* history: every message the gateway has sent
  kind,        \* the kind of client
  filter,      \* the client has armed its encryption
  peer,        \* the client's end: "open" | "gone"
  asked,       \* the job ids of the client's requests not yet answered
  sends,       \* free sends so far; also the source of job ids
  toServer,
  toClient

gateway == <<state, armed, task, outbox, said>>
client  == <<kind, filter, peer, asked, sends>>
vars    == <<gateway, client, toServer, toClient>>

NoJob == 0

Logons   == {"Logon", "LogonNoAccount", "LogonBadPassword"}
Requests == {"ReadMachineAuth", "RequestMachineAuth"}
Ignored  == {"HeartBeat", "NewLoginKeyAccepted", "UpdateMachineAuthResponse",
             "Unmapped"}
FromClient == {"EncryptResponse", "EncryptResponseShort"}
                \cup Logons \cup Requests \cup Ignored
FromServer == {"EncryptRequest", "EncryptResult", "LogOnOK", "LogOnFail",
               "SessionToken", "AccountInfo", "CMList", "UpdateMachineAuth",
               "NewLoginKey", "Reply"}

Msg(m)        == [msg |-> m, job |-> NoJob]
MsgJob(m, j)  == [msg |-> m, job |-> j]
Frame(e, ms)  == [enc |-> e, parts |-> ms]

Messages(names) == [msg : names, job : 0..MaxSends]

TypeOK ==
  /\ state  \in {"await_encrypt", "channel_open", "authenticating", "active"}
  /\ armed  \in BOOLEAN
  /\ task   \in {"reading", "modern", "closed"}
  /\ outbox \in Seq(Messages(FromServer))
  /\ said   \in Seq(FromServer)
  /\ kind   \in Clients
  /\ filter \in BOOLEAN
  /\ peer   \in {"open", "gone"}
  /\ asked  \subseteq 1..MaxSends
  /\ sends  \in 0..MaxSends
  /\ toServer \in Seq([enc : BOOLEAN, parts : Seq(Messages(FromClient))])
  /\ toClient \in Seq([enc : BOOLEAN, parts : Seq(Messages(FromServer))])

\* start_handshake sends ChannelEncryptRequest before the first read.
Init ==
  /\ state = "await_encrypt" /\ armed = FALSE
  /\ task = "reading" /\ outbox = <<>> /\ said = <<"EncryptRequest">>
  /\ kind \in Clients /\ filter = FALSE
  /\ peer = "open" /\ asked = {} /\ sends = 0
  /\ toServer = <<>>
  /\ toClient = <<Frame(FALSE, <<Msg("EncryptRequest")>>)>>

(***************************************************************************)
(* The client.                                                             *)
(***************************************************************************)

\* A frame goes out encrypted once the filter is armed.
ClientSends(ms) == toServer' = Append(toServer, Frame(filter, ms))

\* What the client does on its own for each message it can read.
React(m, job) ==
  CASE m = "EncryptRequest" ->
         ClientSends(<<Msg("EncryptResponse")>>) /\ UNCHANGED <<filter, asked>>
    [] m = "EncryptResult" ->
         filter' = (kind # "plain") /\ UNCHANGED <<toServer, asked>>
    [] m = "UpdateMachineAuth" ->
         /\ ClientSends(<<Msg("UpdateMachineAuthResponse")>>)
         /\ UNCHANGED <<filter, asked>>
    [] m = "NewLoginKey" ->
         /\ ClientSends(<<Msg("NewLoginKeyAccepted")>>)
         /\ UNCHANGED <<filter, asked>>
    [] m = "Reply" ->
         /\ asked' = asked \ {job}
         /\ UNCHANGED <<filter, toServer>>
    [] OTHER -> UNCHANGED <<filter, asked, toServer>>

ClientReceives ==
  /\ peer = "open" /\ toClient # <<>>
  /\ Head(toClient).enc = filter
  /\ toClient' = Tail(toClient)
  /\ LET part == Head(Head(toClient).parts) IN React(part.msg, part.job)
  /\ UNCHANGED <<gateway, kind, peer, sends>>

\* A frame that the client cannot read ends the connection, and it may leave
\* at any other time.
ClientLeaves ==
  /\ peer = "open"
  /\ peer' = "gone"
  /\ toClient' = <<>>
  /\ UNCHANGED <<gateway, kind, filter, asked, sends, toServer>>

\* A client that encrypts sends in earnest only once its filter is armed.
Settled == kind # "keyed" \/ filter

\* Any message at any time, several of them in one Multi.  The n-th message
\* sent this way, if it is a request on a settled channel, has job id n.
ClientSendsFreely ==
  \E names \in UNION {[1..n -> FromClient] : n \in 1..MaxBatch} :
    LET n   == Len(names)
        job == [i \in 1..n |-> IF names[i] \in Requests /\ Settled THEN sends + i ELSE NoJob]
    IN
    /\ peer = "open" /\ sends + n <= MaxSends
    /\ ClientSends([i \in 1..n |-> MsgJob(names[i], job[i])])
    /\ sends' = sends + n
    /\ asked' = asked \cup ({job[i] : i \in 1..n} \ {NoJob})
    /\ UNCHANGED <<gateway, kind, filter, peer, toClient>>

(***************************************************************************)
(* The gateway sends.                                                      *)
(***************************************************************************)

\* Slip: 1305 goes through _send_proto, which encrypts once the key is there.
SendClearAfterArming(m) ==
  /\ toClient' = Append(toClient, Frame(armed', <<Msg(m)>>))
  /\ said' = Append(said, m)

\* encode_handshake: always in the clear.
SendClear(m) ==
  /\ toClient' = Append(toClient, Frame(FALSE, <<Msg(m)>>))
  /\ said' = Append(said, m)

SendResult == SendClear("EncryptResult")

Deliver(f) == toClient' = IF peer = "open" THEN Append(toClient, f) ELSE toClient

\* _send_proto: encrypted when there is a session key.
SendNext ==
  /\ task # "closed" /\ outbox # <<>>
  /\ Deliver(Frame(armed, <<Head(outbox)>>))
  /\ said'   = Append(said, Head(outbox).msg)
  /\ outbox' = Tail(outbox)
  /\ UNCHANGED <<state, armed, task, client, toServer>>

Close ==
  /\ task'   = "closed"
  /\ outbox' = <<>>
  /\ UNCHANGED <<state, armed, said, client, toServer, toClient>>

\* drain() raises once the peer is gone: the exception ends the read loop.
SendFails == task # "closed" /\ outbox # <<>> /\ peer = "gone" /\ Close

(***************************************************************************)
(* The gateway handles a frame.                                            *)
(***************************************************************************)

CanRead == task = "reading" /\ outbox = <<>> /\ toServer # <<>>
Wire    == Head(toServer)

\* Only the first message of a frame is ever handled: decode_frame takes all
\* the bytes it is given as one frame, so _handle_multi's loop runs once.
Message == Head(Wire.parts)

\* A frame in the clear on an armed connection fails to decrypt and is decoded
\* as it stands, or decrypts by chance, to garbage; one encrypted under a key
\* the connection does not have decodes to garbage.
SameKey  == kind = "keyed"
Readable == Wire.enc => armed /\ SameKey
Garbled  == Wire.enc # armed \/ (armed /\ ~SameKey)

\* What becomes of the client's key blob.  A bridge without an RSA key takes
\* nothing from it.  One with a key decrypts whatever it gets: of a blob that was
\* not encrypted to that key, the decryption makes nothing or (implicit rejection)
\* random bytes, which may have a session key's length.
Decrypted == IF kind = "keyed" THEN {TRUE} ELSE BOOLEAN

Handles(names) ==
  /\ CanRead /\ Readable
  /\ Message.msg \in names
  /\ toServer' = Tail(toServer)

\* Slip: the state the docstring's diagram has between 1305 and the logon.
HandleEncryptResponseAwaiting ==
  /\ Handles({"EncryptResponse"})
  /\ state = "await_encrypt"
  /\ armed' \in Decrypted
  /\ SendResult
  /\ state' = "await_logon"
  /\ UNCHANGED <<task, outbox, client>>

\* _on_ChannelEncryptResponse.
HandleEncryptResponse ==
  /\ Handles({"EncryptResponse"})
  /\ state = "await_encrypt"
  /\ armed' \in Decrypted
  /\ SendResult
  /\ state' = "channel_open"
  /\ UNCHANGED <<task, outbox, client>>

\* The same with the peer gone: the drain() behind 1305 raises before the state is
\* set, and the exception ends the read loop.
ResultFails ==
  /\ Handles({"EncryptResponse"})
  /\ state = "await_encrypt" /\ peer = "gone"
  /\ armed' \in Decrypted
  /\ task' = "closed"
  /\ UNCHANGED <<state, outbox, said, client, toClient>>

\* Slip: _on_ClientLogon without its guard on the state.
AnyState == TRUE

LogonAllowed == state = "channel_open"

\* _on_ClientLogon up to the first await of the path it takes.  Nothing on the
\* failure paths takes the state back.
HandleLogon ==
  /\ Handles({"Logon"})
  /\ LogonAllowed
  /\ state' = "authenticating"
  /\ task'  = "modern"
  /\ UNCHANGED <<armed, outbox, said, client, toClient>>

\* Slip: a logon that cannot be read returns without an answer.
HandleBadLogonSilent ==
  /\ Handles(Logons \ {"Logon"})
  /\ LogonAllowed
  /\ state' = "authenticating"
  /\ UNCHANGED <<armed, task, outbox, said, client, toClient>>

HandleBadLogon ==
  /\ Handles(Logons \ {"Logon"})
  /\ LogonAllowed
  /\ state'  = "authenticating"
  /\ outbox' = <<Msg("LogOnFail")>>
  /\ UNCHANGED <<armed, task, said, client, toClient>>

\* The awaited session is ready: _send_logon_success.  Whether a sentry file is
\* pushed depends on the store.
Welcome ==
  {<<"LogOnOK", "SessionToken", "AccountInfo", "CMList", "NewLoginKey">>,
   <<"LogOnOK", "SessionToken", "AccountInfo", "CMList",
     "UpdateMachineAuth", "NewLoginKey">>}

ModernReady ==
  /\ task = "modern"
  /\ task'  = "reading"
  /\ state' = "active"
  /\ \E names \in Welcome : outbox' = [i \in 1..Len(names) |-> Msg(names[i])]
  /\ UNCHANGED <<armed, said, client, toServer, toClient>>

\* get() raised, returned None or a session that is not ready, or the preset
\* is another account's.
ModernRefuses ==
  /\ task = "modern"
  /\ task'   = "reading"
  /\ outbox' = <<Msg("LogOnFail")>>
  /\ UNCHANGED <<state, armed, said, client, toServer, toClient>>

\* Slip: a request that comes before the logon is dropped without a reply.
HandleRequestWhenActive ==
  /\ Handles(Requests)
  /\ outbox' = IF state = "active" THEN <<MsgJob("Reply", Message.job)>> ELSE <<>>
  /\ UNCHANGED <<state, armed, task, said, client, toClient>>

\* ReadMachineAuth and RequestMachineAuth: answered in every state, to the job
\* that asked.
HandleRequest ==
  /\ Handles(Requests)
  /\ outbox' = <<MsgJob("Reply", Message.job)>>
  /\ UNCHANGED <<state, armed, task, said, client, toClient>>

\* Messages that are only logged or stored, messages without a handler, and the
\* early returns: a short or late 1304, a logon in the wrong state.
HandleIgnored ==
  /\ Handles(FromClient \ Requests)
  /\ \/ Message.msg \in Ignored \cup {"EncryptResponseShort"}
     \/ Message.msg = "EncryptResponse" /\ state # "await_encrypt"
     \/ Message.msg \in Logons /\ ~LogonAllowed
  /\ UNCHANGED <<gateway, client, toClient>>

\* Garbage is an unmapped message or a FramingError, which ends the loop.
HandleGarbage ==
  /\ CanRead /\ Garbled
  /\ toServer' = Tail(toServer)
  /\ \/ UNCHANGED <<task, outbox>>
     \/ task' = "closed" /\ outbox' = <<>>
  /\ UNCHANGED <<state, armed, said, client, toClient>>

\* End of stream after the last frame, or 180 s without one.
ReadEnds ==
  /\ task = "reading" /\ outbox = <<>> /\ toServer = <<>>
  /\ Close

GatewayStep ==
  \/ SendNext \/ SendFails
  \/ HandleEncryptResponse \/ ResultFails
  \/ HandleLogon \/ HandleBadLogon
  \/ ModernReady \/ ModernRefuses
  \/ HandleRequest \/ HandleIgnored \/ HandleGarbage

Next ==
  \/ GatewayStep
  \/ ReadEnds
  \/ ClientReceives \/ ClientLeaves \/ ClientSendsFreely

Spec == Init /\ [][Next]_vars

\* The loop runs the connection's task whenever it can run, and the factory
\* answers (Gateway says when it does).  The client owes nothing.
FairSpec == Spec /\ WF_vars(GatewayStep)

(***************************************************************************)
(* Properties.                                                             *)
(***************************************************************************)

IsResult(f) == Head(f.parts).msg = "EncryptResult"

\* The two ends have a key in common: the client encrypts to the bridge's, or
\* neither of them encrypts.
Shared == kind = "keyed" \/ (kind = "plain" /\ ~armed)

\* The handshake keeps ends that share a key in step.  Such a client can read every
\* frame: it is encrypted exactly if the client will have armed its filter by the
\* time the frame reaches it.  The gateway sets its key before it sends 1305 and the
\* client arms on receiving 1305, so 1305 itself must go out in the clear and
\* everything behind it encrypted.  And every encrypted frame finds the gateway
\* armed.  (One in the clear may find it armed too, if the client sent it ahead of
\* 1305; it is then taken as it stands or, by chance, as garbage.)  Nothing is said
\* of ends that do not share a key: where the decryption of a blob that was not
\* encrypted to the bridge's key has a session key's length, only the gateway is armed.
FiltersAgree ==
  Shared =>
    /\ \A i \in 1..Len(toClient) :
         LET armedByThen == \/ filter
                            \/ kind = "keyed" /\ \E j \in 1..(i-1) : IsResult(toClient[j])
         IN  toClient[i].enc = armedByThen
    /\ \A i \in 1..Len(toServer) : toServer[i].enc => armed

\* One logon per connection: whatever the client sends and however its frames
\* interleave with the awaits of the logon, it is welcomed at most once, and
\* session data follows only an OK.
OneLogon ==
  LET welcomes == {i \in 1..Len(said) : said[i] = "LogOnOK"}
      session  == {i \in 1..Len(said) :
                     said[i] \in {"SessionToken", "AccountInfo", "CMList",
                                  "UpdateMachineAuth", "NewLoginKey"}}
  IN
  /\ \A i, j \in welcomes : i = j
  /\ \A i \in session : \E j \in welcomes : j < i

Script == INSTANCE Conversation WITH told <- said, over <- (task = "closed")

\* The connection keeps to the script, whatever kind of client sends what in which
\* order and batches, at every await of a handler: it says the steps of a logon in
\* their order and once, gives one answer, and after a bad one no session data.
KeepsToScript == Script!Spec

\* The jobs of a sequence of messages and of one of frames.
JobsIn(ms) == {ms[k].job : k \in 1..Len(ms)} \ {NoJob}
JobsOf(frames) == UNION {JobsIn(frames[i].parts) : i \in 1..Len(frames)}

\* Every job of S is older than every one of T: ids go up as the client asks.
Older(S, T) == \A j \in S, k \in T : j < k

\* No job occurs twice, and none stands before an older one.
InTurn(frames) ==
  /\ \A i, j \in 1..Len(frames) :
       i < j => Older(JobsIn(frames[i].parts), JobsIn(frames[j].parts))
  /\ \A i \in 1..Len(frames) :
       LET ms == frames[i].parts
       IN  \A k, l \in 1..Len(ms) :
             k < l => Older({ms[k].job} \ {NoJob}, {ms[l].job} \ {NoJob})

\* Job correlation: while the connection lives and its ends share a key, the replies
\* on the way, the one being sent and the requests not yet read are the client's open
\* jobs, in the order it made them: none is lost, answered twice or out of turn.
JobsConserved ==
  Shared /\ task # "closed" /\ peer = "open" =>
    /\ asked = JobsOf(toClient) \cup JobsIn(outbox) \cup JobsOf(toServer)
    /\ InTurn(toClient) /\ InTurn(<<Frame(armed, outbox)>>) /\ InTurn(toServer)
    /\ Older(JobsOf(toClient), JobsIn(outbox))
    /\ Older(JobsOf(toClient) \cup JobsIn(outbox), JobsOf(toServer))

Answers == Len(SelectSeq(said, LAMBDA m : m \in {"LogOnOK", "LogOnFail"}))

\* The logon that the gateway takes up is answered, unless the connection ends.
LogonAnswered ==
  (state = "authenticating") ~> (Answers > 0 \/ task = "closed")
===============================================================================
