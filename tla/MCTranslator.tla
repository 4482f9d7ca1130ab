---------------------------- MODULE MCTranslator ----------------------------
(***************************************************************************)
(* Translator with the codec of its messages, the latter tried over every  *)
(* number of eight bits and a few texts, one of which reads as a key.      *)
(***************************************************************************)
EXTENDS Translator, Codec

\* The numbers and texts below, and every job id, fit.
ASSUME MCAssumption == Width >= 8 /\ Group >= 3 /\ MaxSends < JobNone

Numbers == {0, 1, 7, 8, 255}
Texts   == {<<>>, <<1>>, <<10, 4, 0>>, <<15, 15, 2>>}

CodecLaws == VarintsRoundTrip /\ MessagesRoundTrip(Numbers, Texts)

\* The codec neither loses nor makes up anything: varints and messages survive a
\* round trip, what is cut short is never taken for something else, and the job
\* ids that replies are matched by come out of a header as they went in.
CodecKeepsMeaning ==
  /\ CodecLaws
  /\ \A job \in asked : \A header \in {Header(job, JobNone, 0, 0)} :
       Parse(HeaderFields, header) = [steamid |-> 0, source |-> job, target |-> JobNone]
===============================================================================
