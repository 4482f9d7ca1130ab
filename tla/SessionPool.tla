----------------------------- MODULE SessionPool -----------------------------
(***************************************************************************)
(* What the factory of modern sessions promises a connection, without the  *)
(* lock, the thread or the futures: an account is absent, being logged in  *)
(* by one connection, or served by the one session that connection made;   *)
(* a failed attempt leaves it absent, to be tried again; and a connection  *)
(* is served for the account it named, by that account's session.          *)
(*                                                                         *)
(* Several accounts may be logging in at once here.  ModernFactory, which  *)
(* lets only one, implements this specification.                           *)
(***************************************************************************)
CONSTANTS
  Accounts,
  Conns,        \* a connection makes at most one session, which has its name
  BootSession,  \* the session of the configured account
  BootAccount,  \* that account
  None

VARIABLES
  preset,    \* BootSession, if the gateway serves the configured account only
  served,    \* the session that serves an account, or None
  attempt,   \* the connection that is logging an account in, or None
  used,      \* the connections that have made their session
  riding     \* the account and the session a connection is served with

poolVars == <<preset, served, attempt, used, riding>>

Ride(a, s) == [account |-> a, session |-> s]
NoRide     == Ride(None, None)

Init ==
  /\ preset  \in {BootSession, None}
  /\ served  = [a \in Accounts |-> None]
  /\ attempt = [a \in Accounts |-> None]
  /\ used    = {}
  /\ riding  = [c \in Conns |-> NoRide]

\* The first logon for an account that nothing serves.
Begin(c, a) ==
  /\ preset = None
  /\ served[a] = None /\ attempt[a] = None
  /\ c \notin used
  /\ attempt' = [attempt EXCEPT ![a] = c]
  /\ used'    = used \cup {c}
  /\ UNCHANGED <<preset, served, riding>>

Succeed(a) ==
  /\ attempt[a] # None
  /\ served'  = [served EXCEPT ![a] = attempt[a]]
  /\ riding'  = [riding EXCEPT ![attempt[a]] = Ride(a, attempt[a])]
  /\ attempt' = [attempt EXCEPT ![a] = None]
  /\ UNCHANGED <<preset, used>>

Fail(a) ==
  /\ attempt[a] # None
  /\ attempt' = [attempt EXCEPT ![a] = None]
  /\ UNCHANGED <<preset, served, used, riding>>

\* A later logon for an account that is served.
Join(c, a) ==
  /\ preset = None
  /\ served[a] # None /\ riding[c] = NoRide
  /\ riding' = [riding EXCEPT ![c] = Ride(a, served[a])]
  /\ UNCHANGED <<preset, served, attempt, used>>

JoinPreset(c) ==
  /\ preset # None /\ riding[c] = NoRide
  /\ riding' = [riding EXCEPT ![c] = Ride(BootAccount, preset)]
  /\ UNCHANGED <<preset, served, attempt, used>>

Next ==
  \/ \E a \in Accounts : Succeed(a) \/ Fail(a)
  \/ \E c \in Conns, a \in Accounts : Begin(c, a) \/ Join(c, a)
  \/ \E c \in Conns : JoinPreset(c)

Spec == Init /\ [][Next]_poolVars
===============================================================================
