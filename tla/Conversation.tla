---------------------------- MODULE Conversation ----------------------------
(***************************************************************************)
(* What one CM connection says to its client, whoever that is and whatever *)
(* it sends: the steps of a logon in their order, each at most once, one   *)
(* of the two answers, the session's data only behind the good one and     *)
(* complete up to where it has come, and nothing when it is over.  Replies *)
(* to requests may come at any place.                                      *)
(***************************************************************************)
EXTENDS Naturals, Sequences

VARIABLES
  told,   \* the messages, in their order
  over    \* the connection is closed

conversation == <<told, over>>

Steps == {"EncryptRequest", "EncryptResult", "LogOnOK", "LogOnFail", "SessionToken",
          "AccountInfo", "CMList", "UpdateMachineAuth", "NewLoginKey"}

\* The message that a step comes behind.
Before(m) ==
  CASE m = "EncryptResult"            -> "EncryptRequest"
    [] m \in {"LogOnOK", "LogOnFail"} -> "EncryptResult"
    [] m = "SessionToken"             -> "LogOnOK"
    [] m = "AccountInfo"              -> "SessionToken"
    [] m = "CMList"                   -> "AccountInfo"
    [] OTHER                          -> "CMList"

\* The messages that it cannot come behind.
Spent(m) ==
  CASE m \in {"LogOnOK", "LogOnFail"} -> {"LogOnOK", "LogOnFail"}
    [] m = "UpdateMachineAuth"        -> {"UpdateMachineAuth", "NewLoginKey"}
    [] OTHER                          -> {m}

In(m, q) == \E i \in 1..Len(q) : q[i] = m

Init == told = <<"EncryptRequest">> /\ over = FALSE

Tell(m) ==
  /\ ~over
  /\ In(Before(m), told) /\ \A x \in Spent(m) : ~In(x, told)
  /\ told' = Append(told, m)
  /\ UNCHANGED over

Reply ==
  /\ ~over
  /\ told' = Append(told, "Reply")
  /\ UNCHANGED over

End ==
  /\ over' = TRUE
  /\ UNCHANGED told

Next ==
  \/ \E m \in Steps \ {"EncryptRequest"} : Tell(m)
  \/ Reply
  \/ End

Spec == Init /\ [][Next]_conversation
===============================================================================
