----------------------------- MODULE LocalFiles -----------------------------
(***************************************************************************)
(* The files that the set-up commands rewrite: the client's binary and its *)
(* backup, the hosts file and its backup, the keys and certificates of the *)
(* gateway.  Path.write_bytes(), Path.write_text(), shutil.copy2() and cp  *)
(* write a file in place: one that is killed (or meets a full disk) leaves *)
(* it cut short.  The commands are given one at a time at a terminal; a    *)
(* command is the list of its writes, made one after the other.            *)
(***************************************************************************)
EXTENDS Naturals, Sequences, FiniteSets

CONSTANTS
  Absent,    \* the content of a file that does not exist
  Gateways,  \* the addresses that the gateway may have
  MaxKills   \* bound: interrupted commands

ASSUME KillsAssumption == MaxKills \in Nat

Files == {"dylib", "dylib.orig", "cm-rsa.key", "hosts", "hosts.bak",
          "ca.crt", "ca.key", "leaf.crt", "leaf.key"}

VARIABLES
  files,   \* name -> content, a sequence, or Absent
  job,     \* the writes that the running command has before it
  kills,   \* how many commands were interrupted
  harmed   \* history: the files of which an interrupted write lost something

fileVars == <<files, job, kills, harmed>>

Exists(f) == files[f] # Absent
Idle == job = <<>>

\* One write: `kept` says how much of the file is safe whatever happens.
InPlace(f, data)  == [to |-> f, data |-> data, kept |-> 0]
AtOnce(f, data)   == [to |-> f, data |-> data, kept |-> Len(data)]
AtTheEnd(f, old, more) == [to |-> f, data |-> old \o more, kept |-> Len(old)]

\* A command begins: it has read what it needs and makes its writes.
Begin(writes) == /\ Idle /\ job' = writes
                 /\ UNCHANGED <<files, kills, harmed>>

Write ==
  /\ ~Idle
  /\ files' = [files EXCEPT ![Head(job).to] = Head(job).data]
  /\ job' = Tail(job)
  /\ UNCHANGED <<kills, harmed>>

\* The command is killed before a write, or in the middle of it.
Killed ==
  /\ ~Idle /\ kills < MaxKills
  /\ kills' = kills + 1
  /\ job' = <<>>
  /\ LET w == Head(job)
     IN \/ UNCHANGED <<files, harmed>>
        \/ \E n \in w.kept .. Len(w.data) - 1 :
             /\ files' = [files EXCEPT ![w.to] = SubSeq(w.data, 1, n)]
             /\ harmed' = IF w.kept = 0 THEN harmed \cup {w.to} ELSE harmed
===============================================================================
