--------------------------- MODULE TlsProxyProofs ---------------------------
(***************************************************************************)
(* TlsProxy, for requests and responses of any length: the bytes arrive in *)
(* order, a response that is completed arrives whole, and both connections *)
(* are closed in the end.                                                  *)
(*                                                                         *)
(* BufferInv is the heart: what waits in a reader continues what its pump  *)
(* has passed on, up to the last piece sent as long as the transport is    *)
(* open.  ResponseInv follows the response from there to its end.          *)
(***************************************************************************)
EXTENDS TlsProxy, SequenceTheorems, TLAPS

Shape ==
  /\ sent   \in [Sides -> Nat]
  /\ buffer \in [Sides -> Seq(Nat)]
  /\ got    \in [Sides -> Seq(Nat)]

\* What is possible at each stage of _handle.
StageInv ==
  /\ stage \in {"peek", "connect"} =>
       /\ trans["upstream"] = "none" /\ sent["upstream"] = 0
       /\ buffer["upstream"] = <<>>
       /\ \A side \in Sides : pump[side] = "off" /\ got[side] = <<>>
  /\ stage \in {"pumping", "draining"} =>
       \A side \in Sides : pump[side] # "off" /\ trans[side] # "none"
  /\ stage = "done" => \A side \in Sides : pump[side] # "running" /\ trans[side] # "open"
  /\ pump["upstream"] = "off" => trans["upstream"] = "none"
  /\ trans["upstream"] = "none" => peer["upstream"] = "sending" /\ ~eof["upstream"]
  /\ route = "drop" => stage = "done" /\ trans["upstream"] = "none"
  /\ cut => stage = "done"
  /\ trans["client"] # "none"

\* Somebody reads, or will read, from that side.
Reading(side) == stage \in {"peek", "connect"} \/ pump[side] = "running"

\* How much of what that side sent has been read.
Taken(side) ==
  CASE side = "client" /\ stage = "peek"    -> 0
    [] side = "client" /\ stage = "connect" -> 1
    [] OTHER                                -> Len(got[Other(side)])

\* A buffer that continues what was taken, up to piece n if it has `all` of them.
Continues(b, taken, n, all) ==
  /\ \A i \in 1..Len(b) : b[i] = taken + i
  /\ taken + Len(b) <= n
  /\ all => taken + Len(b) = n

BufferInv ==
  \A side \in Sides : Reading(side) =>
    Continues(buffer[side], Taken(side), sent[side], trans[side] = "open")

GotInv ==
  /\ \A i \in 1..Len(got["upstream"]) : got["upstream"][i] = i
  /\ route # "drop" => \A i \in 1..Len(got["client"]) : got["client"][i] = i

\* Only the end of the response, or a reset, ends the pump that carries it, as
\* long as the client does nothing but send.
ResponseInv ==
  /\ peer["client"] = "sending" /\ Reading("upstream") =>
       trans["client"] = "open" /\ ~eof["client"]
  /\ peer["client"] = "sending" /\ pump["upstream"] = "running" /\ trans["upstream"] # "lost" =>
       /\ trans["upstream"] = "closed" \/ eof["upstream"] => peer["upstream"] = "finished"
       /\ Len(got["client"]) + Len(buffer["upstream"]) = sent["upstream"]
  /\ peer["client"] = "sending" /\ pump["upstream"] = "done" /\ ~cut
       /\ trans["upstream"] # "lost" =>
       peer["upstream"] = "finished" /\ Len(got["client"]) = sent["upstream"]

IInv == TypeOK /\ Shape /\ StageInv /\ BufferInv /\ GotInv /\ ResponseInv

-------------------------------------------------------------------------------

\* A connection begins with nothing sent, nothing read and no upstream.
LEMMA InitInv == Init => IInv
<1> SUFFICES ASSUME Init PROVE IInv
  OBVIOUS
<1> USE DEF Init, Sides
<1>1. TypeOK
  <2>2. /\ secure \in [Sides -> BOOLEAN]
        /\ trans  \in [Sides -> {"none", "open", "closed", "lost"}]
    OBVIOUS
  <2>3. \A side \in Sides : sent[side] \in 0..Pieces[side] /\ buffer[side] \in Seq(1..Pieces[side])
    BY ProxyAssumption
  <2>4. /\ got["upstream"] \in Seq(1..Pieces["client"])
        /\ got["client"]   \in Seq({Refusal} \cup 1..Pieces["upstream"])
    OBVIOUS
  <2> QED
    BY <2>2, <2>3, <2>4 DEF TypeOK
<1>2. Shape
  BY DEF Shape
<1>3. StageInv
  BY DEF StageInv
<1>4. BufferInv
  <2>1. \A side \in Sides : Taken(side) = 0 /\ buffer[side] = <<>> /\ sent[side] = 0
    BY DEF Taken, Other
  <2> QED
    BY <2>1 DEF BufferInv, Continues
<1>5. GotInv /\ ResponseInv
  BY DEF GotInv, ResponseInv, Reading
<1> QED
  BY <1>1, <1>2, <1>3, <1>4, <1>5 DEF IInv

\* Reading the first piece of a buffer.
LEMMA ReadsNext ==
  ASSUME NEW S, S \subseteq Nat, NEW b \in Seq(S), b # <<>>,
         NEW k \in Nat, NEW n \in Nat, NEW all, Continues(b, k, n, all)
  PROVE  /\ Head(b) = k + 1 /\ Head(b) \in S
         /\ Tail(b) \in Seq(S) /\ Len(Tail(b)) = Len(b) - 1 /\ Len(b) \in Nat
         /\ Continues(Tail(b), k + 1, n, all)
<1>1. /\ Head(b) \in S /\ Head(b) = b[1]
      /\ Tail(b) \in Seq(S) /\ Len(Tail(b)) = Len(b) - 1 /\ Len(b) \in Nat /\ Len(b) # 0
      /\ \A i \in 1..Len(Tail(b)) : Tail(b)[i] = b[i + 1]
  BY HeadTailProperties, LenProperties
<1>2. b[1] = k + 1 /\ \A i \in 1..Len(Tail(b)) : Tail(b)[i] = (k + 1) + i
  BY <1>1 DEF Continues
<1>3. (k + 1) + Len(Tail(b)) = k + Len(b)
  BY <1>1
<1> QED
  BY <1>1, <1>2, <1>3 DEF Continues

\* A piece arrives behind the others.
LEMMA ArrivesNext ==
  ASSUME NEW S, S \subseteq Nat, NEW b \in Seq(S),
         NEW k \in Nat, NEW n \in Nat, Continues(b, k, n, TRUE), n + 1 \in S
  PROVE  /\ Append(b, n + 1) \in Seq(S) /\ Len(Append(b, n + 1)) = Len(b) + 1
         /\ Continues(Append(b, n + 1), k, n + 1, TRUE)
BY AppendProperties, LenProperties DEF Continues

\* How many pieces a side has is a number.
LEMMA PiecesAreNumbers ==
  \A side \in Sides : Pieces[side] \in Nat /\ 1..Pieces[side] \subseteq Nat
BY ProxyAssumption

\* What the variables of one side are, by the type invariant.
LEMMA SideTypes ==
  ASSUME TypeOK, Shape, NEW side \in Sides
  PROVE  /\ Other(side) \in Sides
         /\ sent[side] \in Nat /\ sent[side] <= Pieces[side]
         /\ buffer[side] \in Seq(1..Pieces[side]) /\ buffer[side] \in Seq(Nat)
         /\ Len(buffer[side]) \in Nat
         /\ got[side] \in Seq(Nat) /\ Len(got[side]) \in Nat
         /\ Taken(side) \in Nat
<1>1. Other(side) \in Sides
  BY DEF Other, Sides
<1>2. sent[side] \in Nat /\ sent[side] <= Pieces[side]
  BY PiecesAreNumbers DEF TypeOK
<1>3. buffer[side] \in Seq(1..Pieces[side]) /\ buffer[side] \in Seq(Nat)
  BY DEF TypeOK, Shape
<1>4. \A s \in Sides : got[s] \in Seq(Nat)
  BY DEF Shape
<1>5. Len(buffer[side]) \in Nat /\ \A s \in Sides : Len(got[s]) \in Nat
  BY <1>3, <1>4, LenProperties
<1> QED
  BY <1>1, <1>2, <1>3, <1>4, <1>5 DEF Taken

\* A piece joins the end of a buffer.
LEMMA PeerSendsKeeps ==
  ASSUME IInv, NEW side \in Sides, PeerSends(side)
  PROVE  IInv'
<1> USE DEF IInv, PeerSends, MaySend
<1> DEFINE piece == sent[side] + 1
           b     == buffer[side]
<1>1. piece \in 1..Pieces[side] /\ piece \in Nat /\ sent' = [sent EXCEPT ![side] = piece]
  BY SideTypes, PiecesAreNumbers
<1>2. stage \notin {"peek", "connect"} \/ side = "client"
  BY DEF StageInv, Sides
<1>3. /\ buffer' \in [Sides -> Seq(Nat)]
      /\ buffer'[side] \in Seq(1..Pieces[side])
      /\ \A other \in Sides : other # side => buffer'[other] = buffer[other]
  <2>1. Append(b, piece) \in Seq(Nat) /\ Append(b, piece) \in Seq(1..Pieces[side])
    BY <1>1, SideTypes, AppendProperties
  <2> QED
    BY <1>1, <2>1, SideTypes DEF Shape
<1>4. TypeOK' /\ Shape'
  <2>1. \A s \in Sides : /\ sent'[s] \in 0..Pieces[s] /\ sent'[s] \in Nat
                         /\ buffer'[s] \in Seq(1..Pieces[s])
    BY <1>1, <1>3 DEF TypeOK, Shape
  <2>2. sent' \in [Sides -> Nat]
    BY <1>1 DEF Shape
  <2> HIDE DEF piece, b
  <2> QED
    BY <1>3, <2>1, <2>2 DEF TypeOK, Shape
<1>5. StageInv'
  BY <1>1, <1>2, <1>3 DEF StageInv, Sides, Shape
<1>6. BufferInv'
  <2>1. \A s \in Sides : Taken(s)' = Taken(s) /\ Reading(s)' = Reading(s)
    BY DEF Taken, Reading
  <2>2. CASE trans[side] = "open"
    <3>1. b' = Append(b, piece)
      BY <2>2 DEF Shape
    <3>2. ASSUME Reading(side)
          PROVE  Continues(Append(b, piece), Taken(side), piece, TRUE)
      <4>1. Continues(b, Taken(side), sent[side], TRUE)
        BY <2>2, <3>2 DEF BufferInv
      <4> QED
        BY <1>1, <4>1, SideTypes, PiecesAreNumbers, ArrivesNext
    <3>3. /\ sent'[side] = piece /\ trans' = trans
          /\ \A s \in Sides : s # side => sent'[s] = sent[s] /\ buffer'[s] = buffer[s]
      BY <1>1, <1>3 DEF Shape
    <3>4. buffer'[side] = Append(b, piece)
      BY <3>1
    <3> HIDE DEF piece, b
    <3> QED
      BY <2>1, <2>2, <3>2, <3>3, <3>4 DEF BufferInv
  <2>3. CASE trans[side] # "open"
    <3>1. \A s \in Sides : /\ buffer'[s] = buffer[s] /\ sent[s] <= sent'[s]
                           /\ s # side => sent'[s] = sent[s]
                           /\ sent[s] \in Nat /\ sent'[s] \in Nat /\ Len(buffer[s]) \in Nat
                           /\ Taken(s) \in Nat
      <4>1. \A s \in Sides : sent[s] \in Nat /\ Len(buffer[s]) \in Nat /\ Taken(s) \in Nat
        BY SideTypes
      <4> QED
        BY <1>1, <2>3, <4>1 DEF Shape
    <3> QED
      BY <2>1, <2>3, <3>1 DEF BufferInv, Continues
  <2> QED
    BY <2>2, <2>3
<1>7. GotInv'
  BY DEF GotInv
<1>8. ResponseInv'
  <2>1. CASE side = "client"
    BY <1>1, <1>3, <2>1 DEF ResponseInv, Reading, Sides, Shape
  <2>2. CASE side = "upstream"
    <3>1. CASE pump["upstream"] = "running" /\ peer["client"] = "sending" /\ trans["upstream"] # "lost"
      <4>1. trans["upstream"] = "open"
        BY <2>2, <3>1, <1>2 DEF ResponseInv, Reading, TypeOK, StageInv, Sides
      <4>2. Len(Append(b, piece)) = Len(b) + 1
        BY <1>1, SideTypes, AppendProperties
      <4> QED
        BY <1>1, <2>2, <3>1, <4>1, <4>2, SideTypes DEF ResponseInv, Reading, Shape, Sides
    <3>2. CASE ~(pump["upstream"] = "running" /\ peer["client"] = "sending" /\ trans["upstream"] # "lost")
      BY <2>2, <3>2 DEF ResponseInv, Reading
    <3> QED
      BY <3>1, <3>2
  <2> QED
    BY <2>1, <2>2 DEF Sides
<1> QED
  BY <1>4, <1>5, <1>6, <1>7, <1>8

\* A side says that it has sent all.
LEMMA PeerFinishesKeeps ==
  ASSUME IInv, NEW side \in Sides, PeerFinishes(side)
  PROVE  IInv'
<1> USE DEF IInv, PeerFinishes
<1>1. TypeOK' /\ Shape'
  BY DEF TypeOK, Shape
<1>2. StageInv'
  BY DEF TypeOK, StageInv, Sides
<1>3. BufferInv'
  <2>1. \A s \in Sides : /\ Taken(s)' = Taken(s) /\ Reading(s)' = Reading(s)
                         /\ trans'[s] = "open" => trans[s] = "open"
    BY DEF Taken, Reading, TypeOK
  <2> QED
    BY <2>1 DEF BufferInv, Continues
<1>4. GotInv'
  BY DEF GotInv
<1>5. ResponseInv'
  BY DEF TypeOK, ResponseInv, Reading, Sides
<1> QED
  BY <1>1, <1>2, <1>3, <1>4, <1>5

\* A side breaks the connection.
LEMMA PeerResetsKeeps ==
  ASSUME IInv, NEW side \in Sides, PeerResets(side)
  PROVE  IInv'
<1> USE DEF IInv, PeerResets
<1>1. TypeOK' /\ Shape'
  BY DEF TypeOK, Shape
<1>2. StageInv'
  BY DEF TypeOK, StageInv, Sides
<1>3. BufferInv'
  <2>1. \A s \in Sides : /\ Taken(s)' = Taken(s) /\ Reading(s)' = Reading(s)
                         /\ trans'[s] = "open" => trans[s] = "open"
    BY DEF Taken, Reading, TypeOK
  <2> QED
    BY <2>1 DEF BufferInv, Continues
<1>4. GotInv'
  BY DEF GotInv
<1>5. ResponseInv'
  BY DEF TypeOK, ResponseInv, Reading, Sides
<1> QED
  BY <1>1, <1>2, <1>3, <1>4, <1>5

\* A pump moves the first piece of a buffer on.
LEMMA PumpCopiesKeeps ==
  ASSUME IInv, NEW side \in Sides, PumpCopies(side)
  PROVE  IInv'
<1> USE DEF IInv, PumpCopies, CanRead, Consume
<1> DEFINE to    == Other(side)
           b     == buffer[side]
           piece == Len(got[to]) + 1
<1>0. /\ UNCHANGED <<stage, secure, route, peer, sent, eof, pump, cut>>
      /\ trans[to] = "open"
  OBVIOUS
<1>1. /\ to \in Sides /\ to # side /\ pump[side] = "running"
      /\ stage \in {"pumping", "draining"} /\ route # "drop"
      /\ Taken(side) = Len(got[to])
  BY DEF Other, Sides, StageInv, TypeOK, Taken
<1>2. /\ Head(b) = piece /\ Head(b) \in 1..Pieces[side]
      /\ Tail(b) \in Seq(1..Pieces[side]) /\ Len(Tail(b)) = Len(b) - 1 /\ Len(b) \in Nat
      /\ Continues(Tail(b), piece, sent[side], trans[side] = "open")
  <2>1. Continues(b, Len(got[to]), sent[side], trans[side] = "open")
    BY <1>1 DEF BufferInv, Reading
  <2>2. /\ b # <<>> /\ b \in Seq(1..Pieces[side]) /\ 1..Pieces[side] \subseteq Nat
        /\ Len(got[to]) \in Nat /\ sent[side] \in Nat
    BY <1>1, SideTypes, PiecesAreNumbers
  <2> HIDE DEF to, b
  <2> QED
    BY <2>1, <2>2, ReadsNext
<1>3. /\ got[to] \in Seq(Nat) /\ Append(got[to], piece) \in Seq(Nat)
      /\ Len(got[to]) \in Nat /\ piece \in Nat
      /\ Len(Append(got[to], piece)) = piece
      /\ \A i \in 1..Len(got[to]) : Append(got[to], piece)[i] = got[to][i]
      /\ Append(got[to], piece)[piece] = piece
  <2>1. got[to] \in Seq(Nat) /\ Len(got[to]) \in Nat
    BY <1>1, SideTypes
  <2> QED
    BY <2>1, AppendProperties
<1>4. /\ got' = [got EXCEPT ![to] = Append(got[to], piece)]
      /\ got'[to] = Append(got[to], piece) /\ got'[side] = got[side]
      /\ buffer' = [buffer EXCEPT ![side] = Tail(b)]
      /\ buffer'[side] = Tail(b) /\ buffer'[to] = buffer[to]
      /\ Tail(b) \in Seq(Nat)
  BY <1>1, <1>2, SideTypes, HeadTailProperties DEF Shape
<1>5. /\ trans' \in [Sides -> {"none", "open", "closed", "lost"}]
      /\ trans'[side] = trans[side]
      /\ trans'[to] \in {"open", "lost"}
      /\ trans'[to] # "open" => peer[to] = "finished"
  BY <1>1 DEF TypeOK
<1> HIDE DEF PumpCopies
<1>6. TypeOK' /\ Shape'
  <2>1. Shape'
    BY <1>0, <1>1, <1>3, <1>4 DEF Shape
  <2>2. \A s \in Sides : buffer'[s] \in Seq(1..Pieces[s])
    BY <1>0, <1>1, <1>2, <1>4 DEF TypeOK, Other, Sides
  <2>0. /\ side = "client" => to = "upstream"
        /\ side = "upstream" => to = "client"
    BY DEF Other
  <2>3. CASE side = "client"
    <3>1. got[to] \in Seq(1..Pieces["client"]) /\ piece \in 1..Pieces["client"]
      BY <1>0, <1>2, <2>0, <2>3 DEF TypeOK
    <3>2. Append(got[to], piece) \in Seq(1..Pieces["client"])
      BY <3>1, AppendProperties
    <3> QED
      BY <1>0, <1>4, <1>5, <2>0, <2>1, <2>2, <2>3, <3>2 DEF TypeOK
  <2>4. CASE side = "upstream"
    <3>1. /\ got[to] \in Seq({Refusal} \cup 1..Pieces["upstream"])
          /\ piece \in {Refusal} \cup 1..Pieces["upstream"]
      BY <1>0, <1>2, <2>0, <2>4 DEF TypeOK
    <3>2. Append(got[to], piece) \in Seq({Refusal} \cup 1..Pieces["upstream"])
      BY <3>1, AppendProperties
    <3> QED
      BY <1>0, <1>4, <1>5, <2>0, <2>1, <2>2, <2>4, <3>2 DEF TypeOK
  <2> QED
    BY <2>1, <2>3, <2>4 DEF Sides
<1>7. StageInv'
  BY <1>0, <1>1, <1>5 DEF StageInv, Sides, Other
<1>8. BufferInv'
  <2>1. /\ \A s \in Sides : Reading(s)' = Reading(s)
        /\ Taken(side)' = piece /\ Taken(to)' = Taken(to)
    BY <1>0, <1>1, <1>3, <1>4 DEF Taken, Reading, Other, Sides
  <2>2. \A s \in Sides : trans'[s] = "open" => trans[s] = "open"
    BY <1>0, <1>1, <1>5 DEF Other, Sides
  <2>3. Continues(Tail(b), piece, sent[side], trans'[side] = "open")
    BY <1>0, <1>2, <1>5 DEF Continues
  <2>4. Reading(to) => Continues(buffer[to], Taken(to), sent[to], trans'[to] = "open")
    BY <1>0, <1>1, <2>2 DEF BufferInv, Continues
  <2>5. \A s \in Sides : s = side \/ s = to
    BY DEF Other, Sides
  <2> QED
    BY <1>0, <1>4, <2>1, <2>3, <2>4, <2>5 DEF BufferInv
<1>9. GotInv'
  BY <1>0, <1>1, <1>3, <1>4 DEF GotInv, Other, Sides
<1>10. ResponseInv'
  <2>1. CASE side = "client"
    <3>1. /\ to = "upstream" /\ buffer'["upstream"] = buffer["upstream"]
          /\ got'["client"] = got["client"]
          /\ trans'["client"] = trans["client"] /\ trans["upstream"] = "open"
          /\ trans'["upstream"] \in {"open", "lost"}
      BY <1>0, <1>1, <1>4, <1>5, <2>1 DEF Other
    <3> QED
      BY <1>0, <3>1 DEF ResponseInv, Reading
  <2>2. CASE side = "upstream"
    <3>1. /\ to = "client"
          /\ Len(buffer'["upstream"]) = Len(buffer["upstream"]) - 1
          /\ Len(got'["client"]) = Len(got["client"]) + 1
          /\ Len(buffer["upstream"]) \in Nat /\ Len(got["client"]) \in Nat
          /\ trans'["upstream"] = trans["upstream"] /\ trans["client"] = "open"
          /\ trans'["client"] # "open" => peer["client"] = "finished"
      BY <1>0, <1>1, <1>2, <1>3, <1>4, <1>5, <2>2 DEF Other
    <3>2. Len(got'["client"]) + Len(buffer'["upstream"]) = Len(got["client"]) + Len(buffer["upstream"])
      <4>1. \A m, n \in Nat : (m + 1) + (n - 1) = m + n
        OBVIOUS
      <4> QED
        BY <3>1, <4>1
    <3>3. pump'["upstream"] = "running"
      BY <1>0, <1>1, <2>2
    <3>4. ASSUME peer'["client"] = "sending"
          PROVE  trans'["client"] = "open" /\ ~eof'["client"]
      BY <1>0, <1>1, <2>2, <3>1, <3>4 DEF ResponseInv, Reading
    <3>5. ASSUME peer'["client"] = "sending", trans'["upstream"] # "lost"
          PROVE  /\ trans'["upstream"] = "closed" \/ eof'["upstream"] => peer'["upstream"] = "finished"
                 /\ Len(got'["client"]) + Len(buffer'["upstream"]) = sent'["upstream"]
      BY <1>0, <1>1, <2>2, <3>1, <3>2, <3>5 DEF ResponseInv, Reading
    <3> QED
      BY <3>3, <3>4, <3>5 DEF ResponseInv, Reading
  <2> QED
    BY <2>1, <2>2 DEF Sides
<1> QED
  BY <1>6, <1>7, <1>8, <1>9, <1>10

\* A pump ends, and closes the side that it writes to.
LEMMA PumpEndsKeeps ==
  ASSUME IInv, NEW side \in Sides, PumpEnds(side)
  PROVE  IInv'
<1> USE DEF IInv
<1> DEFINE to == Other(side)
           b  == buffer[side]
<1>1. /\ UNCHANGED <<stage, secure, route, peer, sent, got, cut>>
      /\ pump[side] = "running" /\ pump' = [pump EXCEPT ![side] = "done"]
  BY DEF PumpEnds
<1>2. /\ to \in Sides /\ to # side /\ \A s \in Sides : s = side \/ s = to
      /\ stage \in {"pumping", "draining"}
  BY <1>1 DEF Other, Sides, StageInv, TypeOK
<1>3. /\ pump' \in [Sides -> {"off", "running", "done"}]
      /\ pump'[side] = "done" /\ pump'[to] = pump[to]
  BY <1>1, <1>2 DEF TypeOK
<1>4. /\ trans' \in [Sides -> {"none", "open", "closed", "lost"}]
      /\ trans'[side] = trans[side]
      /\ trans'[to] = IF trans[to] = "open" THEN "closed" ELSE trans[to]
      /\ eof' \in [Sides -> BOOLEAN]
      /\ eof'[side] = eof[side]
      /\ trans[to] # "open" => eof'[to] = eof[to]
  BY <1>2 DEF PumpEnds, Close, TypeOK
<1>5. /\ buffer' \in [Sides -> Seq(Nat)]
      /\ buffer'[side] \in Seq(1..Pieces[side])
      /\ buffer'[to] = buffer[to]
  <2>1. CASE buffer' = buffer
    BY <1>2, <2>1 DEF TypeOK, Shape
  <2>2. CASE b # <<>> /\ buffer' = [buffer EXCEPT ![side] = Tail(b)]
    <3>1. Tail(b) \in Seq(Nat) /\ Tail(b) \in Seq(1..Pieces[side])
      BY <2>2, SideTypes, HeadTailProperties
    <3> QED
      BY <1>2, <2>2, <3>1 DEF Shape
  <2> QED
    BY <2>1, <2>2 DEF PumpEnds, CanRead, Consume
<1>6. TypeOK' /\ Shape'
  BY <1>1, <1>2, <1>3, <1>4, <1>5 DEF TypeOK, Shape
<1>7. StageInv'
  <2>1. \A s \in Sides : pump'[s] # "off" /\ trans'[s] # "none"
    BY <1>2, <1>3, <1>4 DEF StageInv
  <2> QED
    BY <1>1, <1>2, <2>1 DEF StageInv, Sides
<1>8. BufferInv'
  <2>1. /\ ~Reading(side)' /\ Reading(to)' = Reading(to)
        /\ Taken(to)' = Taken(to) /\ trans'[to] # "open"
    BY <1>1, <1>2, <1>3, <1>4 DEF Taken, Reading
  <2>2. ASSUME Reading(to)
        PROVE  Continues(buffer[to], Taken(to), sent[to], FALSE)
    BY <1>2, <2>2 DEF BufferInv, Continues
  <2>3. sent' = sent /\ buffer'[to] = buffer[to] /\ (trans'[to] = "open") = FALSE
    BY <1>1, <1>5, <2>1
  <2> HIDE DEF to, b
  <2> QED
    BY <1>2, <2>1, <2>2, <2>3 DEF BufferInv
<1>9. GotInv'
  BY <1>1 DEF GotInv
<1>10. ResponseInv'
  <2>1. CASE side = "client"
    <3>1. to = "upstream"
      BY <2>1 DEF Other
    <3>2. ASSUME peer["client"] = "sending", pump["upstream"] = "running"
          PROVE  trans["upstream"] # "open" /\ trans["client"] = "open" /\ ~eof["client"]
      BY <2>1, <3>1, <3>2 DEF ResponseInv, Reading, PumpEnds, AtEnd
    <3> QED
      <4>1. /\ pump'["upstream"] = pump["upstream"] /\ buffer'["upstream"] = buffer["upstream"]
            /\ trans'["client"] = trans["client"] /\ eof'["client"] = eof["client"]
            /\ trans["upstream"] # "open" => trans'["upstream"] = trans["upstream"]
                                             /\ eof'["upstream"] = eof["upstream"]
            /\ trans'["upstream"] # "lost" => trans["upstream"] # "lost"
        BY <1>2, <1>3, <1>4, <1>5, <2>1, <3>1
      <4>2. Reading("upstream")' = (pump["upstream"] = "running")
        BY <1>1, <1>2, <4>1 DEF Reading
      <4> QED
        BY <1>1, <3>2, <4>1, <4>2 DEF ResponseInv, Reading
  <2>2. CASE side = "upstream"
    <3>1. ASSUME peer["client"] = "sending", trans["upstream"] # "lost"
          PROVE  peer["upstream"] = "finished" /\ Len(got["client"]) = sent["upstream"]
      <4>1. trans[to] = "open"
        BY <1>1, <2>2, <3>1 DEF ResponseInv, Reading, Other
      <4>2. eof["upstream"] /\ buffer["upstream"] = <<>> /\ Len(<<>>) = 0
        BY <2>2, <3>1, <4>1 DEF PumpEnds, AtEnd, Other
      <4>3. Len(got["client"]) \in Nat
        BY SideTypes DEF Sides
      <4> QED
        BY <1>1, <2>2, <3>1, <4>2, <4>3 DEF ResponseInv, Reading
    <3> QED
      BY <1>1, <1>2, <1>3, <1>4, <2>2, <3>1 DEF ResponseInv, Reading
  <2> QED
    BY <2>1, <2>2 DEF Sides
<1> QED
  BY <1>6, <1>7, <1>8, <1>9, <1>10

\* Nothing to peek at: the connection is closed.
LEMMA PeekFailsKeeps ==
  ASSUME IInv, PeekFails
  PROVE  IInv'
<1> USE ProxyAssumption DEF IInv, Sides, Other, PeekFails, GiveUp, Close
<1>1. TypeOK' /\ Shape'
  BY HeadTailProperties, AppendProperties DEF TypeOK, Shape
<1>2. StageInv'
  BY DEF TypeOK, Shape, StageInv
<1>3. BufferInv'
  BY DEF TypeOK, Shape, StageInv, BufferInv, Reading, Taken
<1>4. GotInv'
  BY DEF TypeOK, Shape, StageInv, GotInv, BufferInv, Reading, Taken
<1>5. ResponseInv'
  BY DEF TypeOK, Shape, StageInv, ResponseInv, BufferInv, Reading, Taken
<1> QED
  BY <1>1, <1>2, <1>3, <1>4, <1>5

\* The first bytes are read, and decide where the connection goes.
LEMMA PeekRoutesKeeps ==
  ASSUME IInv, PeekRoutes
  PROVE  IInv'
<1> USE DEF IInv
<1> DEFINE b == buffer["client"]
<1>1. /\ stage = "peek" /\ b # <<>> /\ trans["client"] # "lost"
      /\ buffer' = [buffer EXCEPT !["client"] = Tail(b)]
      /\ UNCHANGED <<peer, sent, pump, cut>>
      /\ \A side \in Sides : Reading(side) /\ pump[side] = "off" /\ got[side] = <<>>
      /\ trans["upstream"] = "none" /\ "client" \in Sides /\ "upstream" \in Sides
  BY DEF PeekRoutes, CanRead, Consume, Reading, StageInv, Sides
<1>2. /\ Tail(b) \in Seq(Nat) /\ Tail(b) \in Seq(1..Pieces["client"])
      /\ Continues(Tail(b), 1, sent["client"], trans["client"] = "open")
  <2>1. Taken("client") = 0
    BY <1>1 DEF Taken
  <2>2. Continues(b, 0, sent["client"], trans["client"] = "open")
    BY <1>1, <2>1 DEF BufferInv
  <2>3. /\ b \in Seq(1..Pieces["client"]) /\ b \in Seq(Nat) /\ sent["client"] \in Nat
        /\ 1..Pieces["client"] \subseteq Nat
    BY <1>1, SideTypes, PiecesAreNumbers
  <2>4. Tail(b) \in Seq(Nat)
    BY <1>1, <2>3, HeadTailProperties
  <2>5. Continues(Tail(b), 0 + 1, sent["client"], trans["client"] = "open")
    BY <1>1, <2>2, <2>3, ReadsNext
  <2>6. Tail(b) \in Seq(1..Pieces["client"])
    BY <1>1, <2>3, HeadTailProperties
  <2> QED
    BY <2>4, <2>5, <2>6
<1>3. /\ buffer' \in [Sides -> Seq(Nat)]
      /\ buffer'["client"] = Tail(b) /\ buffer'["upstream"] = buffer["upstream"]
  BY <1>1, <1>2 DEF Shape
<1>4. /\ route' \in {"drop", "local", "forward"}
      /\ secure' \in [Sides -> BOOLEAN]
  <2>1. PICK host \in Hosts :
          /\ route'  = RouteFor(host)
          /\ secure' = [secure EXCEPT !["upstream"] = RouteFor(host) = "forward"]
    BY DEF PeekRoutes
  <2>2. host \in HostClasses
    BY ProxyAssumption
  <2>3. RouteFor(host) \in {"drop", "local", "forward"}
    BY <2>2 DEF RouteFor, HostClasses
  <2>4. secure \in [Sides -> BOOLEAN]
    BY DEF TypeOK
  <2>5. (RouteFor(host) = "forward") \in BOOLEAN
    BY <2>3
  <2> QED
    BY <2>1, <2>3, <2>4, <2>5
<1>5. CASE route' = "drop"
  <2>1. /\ stage' = "done"
        /\ trans' = [side \in Sides |-> IF side \in {"client"} /\ trans[side] = "open"
                                        THEN "closed" ELSE trans[side]]
        /\ eof' \in [Sides -> BOOLEAN]
        /\ eof'["upstream"] = (eof["upstream"] \/ ("upstream" \in {"client"} /\ trans["upstream"] = "open"))
        /\ got' \in {got, [got EXCEPT !["client"] = <<Refusal>>]}
    BY <1>1, <1>5 DEF PeekRoutes, GiveUp, Close
  <2>2. /\ trans' \in [Sides -> {"none", "open", "closed", "lost"}]
        /\ trans'["upstream"] = "none" /\ trans'["client"] # "open"
    BY <1>1, <2>1 DEF TypeOK
  <2>3. got' \in [Sides -> Seq(Nat)] /\ got'["upstream"] = <<>> /\ got'["client"] \in {<<>>, <<Refusal>>}
    <3>1. <<Refusal>> \in Seq(Nat) /\ got \in [Sides -> Seq(Nat)]
      BY DEF Shape, Refusal
    <3> QED
      BY <1>1, <2>1, <3>1
  <2>4. TypeOK' /\ Shape'
    <3>1. /\ got'["upstream"] \in Seq(1..Pieces["client"])
          /\ got'["client"] \in Seq({Refusal} \cup 1..Pieces["upstream"])
      <4>1. /\ <<>> \in Seq(1..Pieces["client"])
            /\ <<>> \in Seq({Refusal} \cup 1..Pieces["upstream"])
            /\ <<Refusal>> \in Seq({Refusal} \cup 1..Pieces["upstream"])
        OBVIOUS
      <4> QED
        BY <2>3, <4>1
    <3>2. \A side \in Sides : buffer'[side] \in Seq(1..Pieces[side])
      BY <1>2, <1>3 DEF TypeOK, Sides
    <3> QED
      BY <1>1, <1>3, <1>4, <2>1, <2>2, <2>3, <3>1, <3>2 DEF TypeOK, Shape
  <2>5. StageInv'
    BY <1>1, <2>1, <2>2 DEF StageInv, Sides
  <2>6. BufferInv' /\ GotInv' /\ ResponseInv'
    BY <1>1, <1>5, <2>1, <2>3 DEF BufferInv, Reading, GotInv, ResponseInv, Reading
  <2> QED
    BY <2>4, <2>5, <2>6
<1>6. CASE route' # "drop"
  <2>1. stage' = "connect" /\ UNCHANGED <<trans, eof, got>>
    BY <1>6 DEF PeekRoutes
  <2>2. TypeOK' /\ Shape'
    BY <1>1, <1>2, <1>3, <1>4, <2>1 DEF TypeOK, Shape, Sides
  <2>3. StageInv'
    BY <1>1, <1>3, <1>6, <2>1 DEF StageInv
  <2>4. BufferInv'
    <3>1. Taken("client")' = 1 /\ Taken("upstream")' = Taken("upstream")
      BY <1>1, <2>1 DEF Taken
    <3> QED
      BY <1>1, <1>2, <1>3, <2>1, <3>1 DEF BufferInv, Sides, Continues
  <2>5. GotInv' /\ ResponseInv'
    BY <1>1, <1>6, <2>1 DEF GotInv, ResponseInv, Reading, StageInv
  <2> QED
    BY <2>2, <2>3, <2>4, <2>5
<1> QED
  BY <1>5, <1>6

\* The upstream cannot be reached.
LEMMA ConnectFailsKeeps ==
  ASSUME IInv, ConnectFails
  PROVE  IInv'
<1> USE ProxyAssumption DEF IInv, Sides, Other, ConnectFails, GiveUp, Close
<1>1. TypeOK' /\ Shape'
  BY HeadTailProperties, AppendProperties DEF TypeOK, Shape
<1>2. StageInv'
  BY DEF TypeOK, Shape, StageInv
<1>3. BufferInv'
  BY DEF TypeOK, Shape, StageInv, BufferInv, Reading, Taken
<1>4. GotInv'
  BY DEF TypeOK, Shape, StageInv, GotInv, BufferInv, Reading, Taken
<1>5. ResponseInv'
  BY DEF TypeOK, Shape, StageInv, ResponseInv, BufferInv, Reading, Taken
<1> QED
  BY <1>1, <1>2, <1>3, <1>4, <1>5

\* The upstream answers: the peeked bytes go first, and the pumps start.
LEMMA ConnectsKeeps ==
  ASSUME IInv, Connects
  PROVE  IInv'
<1> USE DEF IInv
<1>1. /\ stage = "connect" /\ stage' = "pumping"
      /\ trans' = [trans EXCEPT !["upstream"] = "open"]
      /\ got'   = [got EXCEPT !["upstream"] = <<1>>]
      /\ pump'  = [side \in Sides |-> "running"]
      /\ UNCHANGED <<secure, route, peer, sent, buffer, eof, cut>>
  BY DEF Connects, StartPumps
<1>2. /\ "client" \in Sides /\ "upstream" \in Sides
      /\ sent["upstream"] = 0 /\ buffer["upstream"] = <<>> /\ ~cut /\ route # "drop"
      /\ trans["upstream"] = "none" /\ peer["upstream"] = "sending"
      /\ \A side \in Sides : got[side] = <<>>
      /\ Continues(buffer["client"], 1, sent["client"], trans["client"] = "open")
  BY <1>1 DEF StageInv, BufferInv, Reading, Taken, Sides
<1>3. 1 \in 1..Pieces["client"]
  BY ProxyAssumption, <1>2
<1>4. /\ got' \in [Sides -> Seq(Nat)]
      /\ got'["upstream"] = <<1>> /\ got'["client"] = <<>>
      /\ trans' \in [Sides -> {"none", "open", "closed", "lost"}]
      /\ trans'["upstream"] = "open" /\ trans'["client"] = trans["client"]
  BY <1>1, <1>2 DEF Shape, TypeOK
<1>5. TypeOK' /\ Shape'
  BY <1>1, <1>2, <1>3, <1>4 DEF TypeOK, Shape
<1>6. StageInv'
  BY <1>1, <1>2, <1>4 DEF StageInv, Sides
<1>7. BufferInv'
  <2>1. Taken("client")' = 1 /\ Taken("upstream")' = 0
    BY <1>1, <1>4 DEF Taken, Other
  <2> QED
    BY <1>1, <1>2, <1>4, <2>1 DEF BufferInv, Sides, Continues
<1>8. GotInv'
  BY <1>4 DEF GotInv
<1>9. ResponseInv'
  <2>1. peer["client"] = "sending" => trans["client"] = "open" /\ ~eof["client"]
    BY <1>1 DEF ResponseInv, Reading
  <2> QED
    <3>1. Len(got'["client"]) + Len(buffer'["upstream"]) = sent'["upstream"]
      BY <1>1, <1>2, <1>4
    <3>2. pump'["upstream"] = "running" /\ trans'["upstream"] = "open"
      BY <1>1, <1>2, <1>4
    <3>3. /\ trans'["client"] = trans["client"] /\ eof' = eof /\ peer' = peer
      BY <1>1, <1>4
    <3>4. ~eof["upstream"]
      BY <1>1, <1>2 DEF StageInv
    <3> QED
      BY <2>1, <3>1, <3>2, <3>3, <3>4 DEF ResponseInv
<1> QED
  BY <1>5, <1>6, <1>7, <1>8, <1>9

\* Both pumps end, and both sides are closed.
LEMMA FinishKeeps ==
  ASSUME IInv, NEW timeout \in BOOLEAN, stage \in {"pumping", "draining"},
         timeout \/ pump["upstream"] = "done", Finish(timeout)
  PROVE  IInv'
<1> USE DEF IInv
<1>1. /\ stage' = "done" /\ cut' = timeout
      /\ pump' = [side \in Sides |-> "done"]
      /\ UNCHANGED <<secure, route, peer, sent, buffer, got>>
      /\ trans' = [side \in Sides |->
                     IF side \in Sides /\ trans[side] = "open" THEN "closed" ELSE trans[side]]
      /\ eof' \in [Sides -> BOOLEAN]
  BY DEF Finish, Close
<1>2. /\ trans' \in [Sides -> {"none", "open", "closed", "lost"}]
      /\ \A side \in Sides : /\ trans'[side] \notin {"none", "open"}
                             /\ trans'[side] # "lost" => trans[side] # "lost"
  BY <1>1 DEF TypeOK, StageInv
<1>3. TypeOK' /\ Shape'
  BY <1>1, <1>2 DEF TypeOK, Shape
<1>4. StageInv'
  BY <1>1, <1>2 DEF StageInv, Sides
<1>5. BufferInv' /\ GotInv'
  BY <1>1 DEF BufferInv, Reading, GotInv
<1>6. ResponseInv'
  BY <1>1, <1>2 DEF ResponseInv, Reading, StageInv, Sides
<1> QED
  BY <1>3, <1>4, <1>5, <1>6

\* The client's pump is the first to end: the rest of the response is waited for.
LEMMA ClientEndsFirstKeeps ==
  ASSUME IInv, ClientEndsFirst
  PROVE  IInv'
<1> USE ProxyAssumption DEF IInv, Sides, Other, ClientEndsFirst, link
<1>1. TypeOK' /\ Shape'
  BY HeadTailProperties, AppendProperties DEF TypeOK, Shape
<1>2. StageInv'
  BY DEF TypeOK, Shape, StageInv
<1>3. BufferInv'
  BY DEF TypeOK, Shape, StageInv, BufferInv, Reading, Taken
<1>4. GotInv'
  BY DEF TypeOK, Shape, StageInv, GotInv, BufferInv, Reading, Taken
<1>5. ResponseInv'
  BY DEF TypeOK, Shape, StageInv, ResponseInv, BufferInv, Reading, Taken
<1> QED
  BY <1>1, <1>2, <1>3, <1>4, <1>5

\* Every step keeps the invariant.
LEMMA NextKeeps == IInv /\ [Next]_vars => IInv'
<1> SUFFICES ASSUME IInv, [Next]_vars PROVE IInv'
  OBVIOUS
<1>1. CASE PeekFails
  BY <1>1, PeekFailsKeeps
<1>2. CASE PeekRoutes
  BY <1>2, PeekRoutesKeeps
<1>3. CASE ConnectFails
  BY <1>3, ConnectFailsKeeps
<1>4. CASE Connects
  BY <1>4, ConnectsKeeps
<1>5. ASSUME NEW side \in Sides, PumpCopies(side) \/ PumpEnds(side) PROVE IInv'
  BY <1>5, PumpCopiesKeeps, PumpEndsKeeps
<1>6. CASE ResponseEnds
  BY <1>6, FinishKeeps DEF ResponseEnds
<1>7. CASE ClientEndsFirst
  BY <1>7, ClientEndsFirstKeeps
<1>8. CASE TimeRunsOut
  <2>1. Finish(TRUE) /\ stage \in {"pumping", "draining"}
    BY <1>8 DEF TimeRunsOut
  <2> QED
    BY <2>1, FinishKeeps
<1>9. ASSUME NEW side \in Sides, PeerStep(side) PROVE IInv'
  BY <1>9, PeerSendsKeeps, PeerFinishesKeeps, PeerResetsKeeps DEF PeerStep
<1>10. CASE UNCHANGED vars
  <2>1. UNCHANGED <<stage, secure, route, peer, sent, trans, buffer, eof, got, pump, cut>>
    BY <1>10 DEF vars, link
  <2>2. \A side \in Sides : Taken(side)' = Taken(side) /\ Reading(side)' = Reading(side)
    BY <2>1 DEF Taken, Reading
  <2>3. TypeOK' /\ Shape' /\ StageInv' /\ GotInv'
    BY <2>1 DEF IInv, TypeOK, Shape, StageInv, GotInv
  <2>4. BufferInv'
    BY <2>1, <2>2 DEF IInv, BufferInv, Continues
  <2>5. ResponseInv'
    BY <2>1, <2>2 DEF IInv, ResponseInv, Sides
  <2> QED
    BY <2>3, <2>4, <2>5 DEF IInv
<1> QED
  BY <1>1, <1>2, <1>3, <1>4, <1>5, <1>6, <1>7, <1>8, <1>9, <1>10 DEF Next, ProxyStep

\* The invariant holds of every behaviour.
LEMMA Inductive == Spec => []IInv
<1> QED
  BY InitInv, NextKeeps, PTL DEF Spec

\* What the proxy keeps of a connection is what it should be, however long the
\* request and the response are.
THEOREM TypesHold == Spec => []TypeOK
<1>1. IInv => TypeOK
  BY DEF IInv
<1> QED
  BY <1>1, Inductive, PTL

\* A sequence that counts from 1 is no longer than what it counts in.
LEMMA CountsUpTo ==
  ASSUME NEW n \in Nat, NEW s \in Seq({0} \cup 1..n), \A i \in 1..Len(s) : s[i] = i
  PROVE  Len(s) <= n
<1>1. Len(s) \in Nat /\ \A i \in 1..Len(s) : s[i] \in {0} \cup 1..n
  BY LenProperties, ElementOfSeq
<1> QED
  BY <1>1

\* A sequence that counts from 1 is a prefix of the stream it counts along.
LEMMA CountsAlong ==
  ASSUME NEW side \in Sides, NEW s \in Seq(Nat), Len(s) <= Pieces[side],
         \A i \in 1..Len(s) : s[i] = i
  PROVE  IsPrefix(s, Stream(side))
<1>1. /\ Stream(side) \in Seq(Nat) /\ Len(Stream(side)) = Pieces[side]
      /\ \A i \in 1..Pieces[side] : Stream(side)[i] = i
  BY PiecesAreNumbers DEF Stream
<1>2. Len(s) \in Nat
  BY LenProperties
<1>3. s = SubSeq(Stream(side), 1, Len(s))
  BY <1>1, <1>2, PiecesAreNumbers
<1> QED
  BY <1>1, <1>3 DEF IsPrefix

\* Each end gets a prefix of what the other sent, in order and without a gap:
\* what _peek_host read in order to route goes first, and the pumps go on from
\* there.
THEOREM BytesInOrder == Spec => []InOrder
<1>1. ASSUME IInv PROVE InOrder
  <2>1. \A side \in Sides : Pieces[side] \in Nat
    BY PiecesAreNumbers
  <2>2. IsPrefix(got["upstream"], Stream("client"))
    <3>1. Len(got["upstream"]) <= Pieces["client"]
      <4>1. /\ Pieces["client"] \in Nat /\ got["upstream"] \in Seq(1..Pieces["client"])
            /\ \A i \in 1..Len(got["upstream"]) : got["upstream"][i] = i
        BY <1>1, <2>1 DEF IInv, TypeOK, GotInv, Sides
      <4>2. got["upstream"] \in Seq({0} \cup 1..Pieces["client"])
        BY <4>1
      <4> QED
        BY <4>1, <4>2, CountsUpTo
    <3> QED
      BY <1>1, <3>1, CountsAlong DEF IInv, Shape, GotInv, Sides
  <2>3. ASSUME route # "drop" PROVE IsPrefix(got["client"], Stream("upstream"))
    <3>1. Len(got["client"]) <= Pieces["upstream"]
      BY <1>1, <2>1, <2>3, CountsUpTo DEF IInv, TypeOK, GotInv, Sides, Refusal
    <3> QED
      BY <1>1, <2>3, <3>1, CountsAlong DEF IInv, Shape, GotInv, Sides
  <2> QED
    BY <2>2, <2>3 DEF InOrder
<1> QED
  BY <1>1, Inductive, PTL

\* A response that the upstream completed is delivered whole to a client that
\* kept its connection, if no reset and no time limit came between: _handle
\* lets the pump that carries it run to its end.
THEOREM ResponseWhole == Spec => []WholeResponse
<1>1. ASSUME IInv, stage = "done", ~cut, peer["client"] = "sending",
             peer["upstream"] = "finished", trans["upstream"] # "lost",
             sent["upstream"] = Pieces["upstream"]
      PROVE  got["client"] = Stream("upstream")
  <2>1. pump["upstream"] = "done" /\ route # "drop"
    BY <1>1 DEF IInv, StageInv, TypeOK, Sides
  <2>2. Len(got["client"]) = Pieces["upstream"]
    BY <1>1, <2>1 DEF IInv, ResponseInv
  <2>3. got["client"] \in Seq(Nat) /\ \A i \in 1..Len(got["client"]) : got["client"][i] = i
    BY <1>1, <2>1 DEF IInv, Shape, GotInv, Sides
  <2> QED
    BY <2>2, <2>3 DEF Stream
<1>2. IInv => WholeResponse
  BY <1>1 DEF WholeResponse
<1> QED
  BY <1>2, Inductive, PTL

\* By whatever path _handle ends, it has closed both connections.
THEOREM AllClosed == Spec => []NothingLeftOpen
<1>1. IInv => NothingLeftOpen
  BY DEF IInv, StageInv, NothingLeftOpen
<1> QED
  BY <1>1, Inductive, PTL

===============================================================================
