------------------------------ MODULE TlsProxy ------------------------------
(***************************************************************************)
(* One connection of the HTTP(S) forwarder (_handle in                     *)
(* src/gateway/tls_proxy.py): the first request is read and routed, then   *)
(* two pumps copy bytes both ways until one of them ends or time runs out. *)
(*                                                                         *)
(* Bytes are numbered pieces: piece 1 of the client is its first request   *)
(* head, what follows is a body or further requests.  Each side has the    *)
(* proxy's transport and, under the reader, what arrived and was not read. *)
(* Closing a transport discards what has not arrived yet and ends the      *)
(* stream after what has; writes made before still go out.                 *)
(***************************************************************************)
EXTENDS Naturals, Sequences, SequencesExt

CONSTANTS
  Pieces,   \* Pieces[side]: how many pieces that side has to send
  Hosts     \* the classes of host names the client may name

Sides == {"client", "upstream"}

\* Slip: a pump is given the reader and the writer of one connection.
Itself(side) == side

\* Where the pump that reads a side writes.
Other(side) == IF side = "client" THEN "upstream" ELSE "client"

HostClasses == {"missing", "dropped", "content", "cacheN", "valve", "unlisted"}
ASSUME ProxyAssumption == Hosts \subseteq HostClasses /\ Pieces \in [Sides -> Nat \ {0}]

VARIABLES
  stage,    \* where _handle stands
  secure,   \* TLS on that side: there, a peer that closes closes both ways
  route,    \* the kind of the route, or "none"
  peer,     \* what the other end did: "sending", "finished" or "reset"
  sent,     \* how many pieces it has sent
  trans,    \* the transport: "none", "open", "closed" or "lost" (reset)
  buffer,   \* pieces that arrived and were not read
  eof,      \* the stream ends after the buffer
  got,      \* pieces written to that side
  pump,     \* the pump that reads that side: "off", "running" or "done"
  cut       \* a time limit ended the exchange

link == <<peer, sent, trans, buffer, eof, got>>
vars == <<stage, secure, route, link, pump, cut>>

Refusal == 0   \* the 403 response, written by the proxy itself

TypeOK ==
  /\ stage  \in {"peek", "connect", "pumping", "draining", "done"}
  /\ secure \in [Sides -> BOOLEAN]
  /\ route  \in {"none", "drop", "local", "forward"}
  /\ peer   \in [Sides -> {"sending", "finished", "reset"}]
  /\ \A side \in Sides :
       /\ sent[side]   \in 0..Pieces[side]
       /\ buffer[side] \in Seq(1..Pieces[side])
  /\ got["upstream"] \in Seq(1..Pieces["client"])
  /\ got["client"]   \in Seq({Refusal} \cup 1..Pieces["upstream"])
  /\ trans  \in [Sides -> {"none", "open", "closed", "lost"}]
  /\ eof    \in [Sides -> BOOLEAN]
  /\ pump   \in [Sides -> {"off", "running", "done"}]
  /\ cut    \in BOOLEAN

Init ==
  /\ stage  = "peek"
  /\ secure \in {s \in [Sides -> BOOLEAN] : ~s["upstream"]}
  /\ route  = "none"
  /\ peer   = [side \in Sides |-> "sending"]
  /\ sent   = [side \in Sides |-> 0]
  /\ trans  = [side \in Sides |-> IF side = "client" THEN "open" ELSE "none"]
  /\ buffer = [side \in Sides |-> <<>>]
  /\ eof    = [side \in Sides |-> FALSE]
  /\ got    = [side \in Sides |-> <<>>]
  /\ pump   = [side \in Sides |-> "off"]
  /\ cut    = FALSE

(***************************************************************************)
(* The two ends.                                                           *)
(***************************************************************************)

\* The upstream has something to say once it has a request.
MaySend(side) ==
  /\ peer[side] = "sending" /\ sent[side] < Pieces[side]
  /\ side = "upstream" => got[side] # <<>>

PeerSends(side) ==
  /\ MaySend(side)
  /\ sent'   = [sent EXCEPT ![side] = @ + 1]
  /\ buffer' = IF trans[side] = "open"
               THEN [buffer EXCEPT ![side] = Append(@, sent[side] + 1)]
               ELSE buffer
  /\ UNCHANGED <<stage, secure, route, peer, trans, eof, got, pump, cut>>

\* A peer that is done with sending.  Over plain TCP the other direction stays
\* open on the proxy's side; over TLS the transport closes.
PeerFinishes(side) ==
  /\ peer[side] = "sending" /\ trans[side] # "none"
  /\ peer' = [peer EXCEPT ![side] = "finished"]
  /\ eof'  = [eof EXCEPT ![side] = TRUE]
  /\ trans' = IF trans[side] = "open" /\ secure[side]
              THEN [trans EXCEPT ![side] = "closed"] ELSE trans
  /\ UNCHANGED <<stage, secure, route, sent, buffer, got, pump, cut>>

PeerResets(side) ==
  /\ peer[side] # "reset" /\ trans[side] = "open"
  /\ peer'  = [peer EXCEPT ![side] = "reset"]
  /\ trans' = [trans EXCEPT ![side] = "lost"]
  /\ UNCHANGED <<stage, secure, route, sent, buffer, eof, got, pump, cut>>

(***************************************************************************)
(* The proxy's end of a side.                                              *)
(***************************************************************************)

\* transport.close() on the sides in S.
Close(S) ==
  /\ trans' = [side \in Sides |->
                 IF side \in S /\ trans[side] = "open" THEN "closed" ELSE trans[side]]
  /\ eof'   = [side \in Sides |-> eof[side] \/ (side \in S /\ trans[side] = "open")]

\* A reader raises after a reset, even with pieces left in its buffer.
CanRead(side) == trans[side] # "lost" /\ buffer[side] # <<>>
AtEnd(side)   == trans[side] = "lost" \/ (buffer[side] = <<>> /\ eof[side])

Consume(side) == buffer' = [buffer EXCEPT ![side] = Tail(@)]

(***************************************************************************)
(* The pumps.                                                              *)
(***************************************************************************)

\* A peer that has closed altogether answers what is still written with a reset.
PumpCopies(side) ==
  LET to == Other(side)
  IN /\ pump[side] = "running"
     /\ CanRead(side) /\ trans[to] = "open"
     /\ Consume(side)
     /\ got' = [got EXCEPT ![to] = Append(@, Head(buffer[side]))]
     /\ trans' \in {trans} \cup IF peer[to] = "finished"
                                THEN {[trans EXCEPT ![to] = "lost"]} ELSE {}
     /\ UNCHANGED <<stage, secure, route, peer, sent, eof, pump, cut>>

\* The write fails, or there is nothing more to read: either way the pump closes
\* the writer it writes to, and with it that side's transport.
PumpEnds(side) ==
  LET to == Other(side)
  IN /\ pump[side] = "running"
     /\ \/ AtEnd(side) /\ UNCHANGED buffer
        \/ CanRead(side) /\ trans[to] # "open" /\ Consume(side)
     /\ pump' = [pump EXCEPT ![side] = "done"]
     /\ Close({to})
     /\ UNCHANGED <<stage, secure, route, peer, sent, got, cut>>

(***************************************************************************)
(* _handle.                                                                *)
(***************************************************************************)

\* route_for: rules in the order of the code, first match wins.
RouteFor(host) ==
  CASE host \in {"missing", "dropped"}  -> "drop"
    [] host \in {"content", "cacheN"}   -> "local"
    [] host \in {"valve", "unlisted"}   -> "forward"

\* The end of _handle on a path without an upstream.  (close() is awaited, which
\* raises a TypeError that the last except catches, to close once more.)
GiveUp ==
  /\ stage' = "done"
  /\ Close({"client"})

\* Within 30 s no complete request head comes: the stream ends, the head is
\* longer than the limit, or time runs out.
PeekFails ==
  /\ stage = "peek"
  /\ GiveUp
  /\ UNCHANGED <<secure, route, peer, sent, buffer, got, pump, cut>>

PeekRoutes ==
  /\ stage = "peek" /\ CanRead("client")
  /\ Consume("client")
  /\ \E host \in Hosts :
       /\ route'  = RouteFor(host)
       /\ secure' = [secure EXCEPT !["upstream"] = RouteFor(host) = "forward"]
  /\ IF route' = "drop"
     THEN /\ GiveUp
          /\ got' = IF trans["client"] = "open"
                    THEN [got EXCEPT !["client"] = <<Refusal>>] ELSE got
     ELSE /\ stage' = "connect"
          /\ UNCHANGED <<trans, eof, got>>
  /\ UNCHANGED <<peer, sent, pump, cut>>

\* Slip: an error on the way up leaves the client's connection open.
ConnectFailsSilently ==
  /\ stage = "connect"
  /\ stage' = "done"
  /\ UNCHANGED <<secure, route, link, pump, cut>>

ConnectFails ==
  /\ stage = "connect"
  /\ GiveUp
  /\ UNCHANGED <<secure, route, peer, sent, buffer, got, pump, cut>>

StartPumps(first) ==
  /\ stage = "connect"
  /\ stage' = "pumping"
  /\ trans' = [trans EXCEPT !["upstream"] = "open"]
  /\ got'   = [got EXCEPT !["upstream"] = first]
  /\ pump'  = [side \in Sides |-> "running"]
  /\ UNCHANGED <<secure, route, peer, sent, buffer, eof, cut>>

\* Slip: what was read in order to route is not passed on.
ConnectsForgetting == StartPumps(<<>>)

\* The upstream connection is up; the request head that was read goes first.
Connects == StartPumps(<<1>>)

\* Slip: once one pump has ended, the other is cancelled.
FinishAtOnce ==
  /\ stage = "pumping" /\ \E side \in Sides : pump[side] = "done"
  /\ stage' = "done"
  /\ pump'  = [side \in Sides |-> "done"]
  /\ Close(Sides)
  /\ UNCHANGED <<secure, route, peer, sent, buffer, got, cut>>

\* Cancel what still runs, wait for both pumps, close both writers.
Finish(timeout) ==
  /\ stage' = "done"
  /\ pump'  = [side \in Sides |-> "done"]
  /\ cut'   = timeout
  /\ Close(Sides)
  /\ UNCHANGED <<secure, route, peer, sent, buffer, got>>

\* The upstream has closed: the response is complete.
ResponseEnds ==
  /\ stage \in {"pumping", "draining"} /\ pump["upstream"] = "done"
  /\ Finish(FALSE)

\* The client's pump ended first: wait for the rest of the response.
ClientEndsFirst ==
  /\ stage = "pumping"
  /\ pump["client"] = "done" /\ pump["upstream"] = "running"
  /\ stage' = "draining"
  /\ UNCHANGED <<secure, route, link, pump, cut>>

\* Slip: the wait for the first pump has no limit.
DrainRunsOut ==
  stage = "draining" /\ pump["upstream"] = "running" /\ Finish(TRUE)

\* 90 s after the pumps were started, however much was copied since, or 30 s
\* after the client's pump ended.
TimeRunsOut ==
  \/ stage = "pumping" /\ (\A side \in Sides : pump[side] = "running") /\ Finish(TRUE)
  \/ stage = "draining" /\ pump["upstream"] = "running" /\ Finish(TRUE)

\* The time limits of the code are the only ones: each ends its stage.
ProxyStep ==
  \/ PeekFails \/ PeekRoutes \/ ConnectFails \/ Connects
  \/ \E side \in Sides : PumpCopies(side) \/ PumpEnds(side)
  \/ ResponseEnds \/ ClientEndsFirst \/ TimeRunsOut

PeerStep(side) == PeerSends(side) \/ PeerFinishes(side) \/ PeerResets(side)

Next == ProxyStep \/ \E side \in Sides : PeerStep(side)

\* The loop goes on, time passes, and an attempt to connect comes back.  Neither
\* end has to send, to read or to close.
Spec == Init /\ [][Next]_vars /\ WF_vars(ProxyStep)

(***************************************************************************)
(* Properties.                                                             *)
(***************************************************************************)

Stream(side) == [i \in 1..Pieces[side] |-> i]

\* The bytes each end gets are a prefix of what the other sent: the upstream's
\* begin with the request head that was read to find the route, whatever the
\* client has sent behind it meanwhile, and nothing is skipped, doubled or put
\* out of order by the change from peeking to pumping.
InOrder ==
  /\ IsPrefix(got["upstream"], Stream("client"))
  /\ route # "drop" => IsPrefix(got["client"], Stream("upstream"))

\* A response that the upstream completed and closed in order reaches the client
\* whole, if the client kept its own side open, the upstream never answered with
\* a reset, and no time limit struck: also when the client's pump fails first
\* because the upstream closed while a body was still being sent.  (A client that
\* only closes its sending side is left out: its pump closes the transport that
\* the response is read from.)
WholeResponse ==
  /\ stage = "done" /\ ~cut
  /\ peer["client"] = "sending"
  /\ peer["upstream"] = "finished" /\ trans["upstream"] # "lost"
  /\ sent["upstream"] = Pieces["upstream"]
  => got["client"] = Stream("upstream")

\* However the exchange ends - no request, a refusal, no upstream, either end
\* gone, time - both connections have been closed.
NothingLeftOpen ==
  stage = "done" => \A side \in Sides : trans[side] # "open"

\* Every connection ends, whatever its two ends do or leave undone.
ConnectionEnds == <>(stage = "done")
===============================================================================
