-------------------------------- MODULE Setup --------------------------------
(***************************************************************************)
(* The machine of the user and that of the gateway being set up, and set up *)
(* again: the commands of ClientPatcher, HostsFile and Certificates, in any *)
(* order, each of which may be killed.                                     *)
(***************************************************************************)
EXTENDS ClientPatcher, HostsFile, Certificates

CONSTANT Budgets   \* bound: how many commands of each kind, one of these

\* A file that does not exist is no binary, no text, no key and no certificate.
ASSUME AbsentAssumption ==
  Absent \notin Seq(Slots) \cup Seq(Lines) \cup Seq(Nat) \cup Seq([key : Nat, issuer : Nat])

VARIABLE budget

vars == <<fileVars, generated, hostsVars, pairs, budget>>

Kinds == {"client", "hosts", "certs"}

\* A file holds what commands wrote to it, or a beginning of that.
TypeOK ==
  /\ SlotsKeepToThemselves
  /\ DOMAIN files = Files
  /\ files["dylib"] \in Seq(Slots) /\ files["hosts"] \in Seq(Lines)
  /\ Exists("dylib.orig") => files["dylib.orig"] \in Seq(Slots)
  /\ Exists("hosts.bak")  => files["hosts.bak"] \in Seq(Lines)
  /\ Exists("cm-rsa.key") => files["cm-rsa.key"] \in {<<>>} \cup {<<k>> : k \in generated}
  /\ \A f \in {"ca.key", "leaf.key"} :
       Exists(f) => files[f] \in {<<>>} \cup {<<k>> : k \in 1..pairs}
  /\ generated \subseteq BridgeKeys /\ mixed \in BOOLEAN /\ saved \in Seq(Lines)
  /\ harmed \subseteq Files /\ kills \in 0..MaxKills

Init ==
  /\ files \in {[f \in Files |-> CASE f = "dylib" -> Pristine
                                    [] f = "hosts" -> <<UserLine(u)>>
                                    [] f = "cm-rsa.key" -> key
                                    [] OTHER -> Absent] :
                 u \in UserLines, key \in {Absent} \cup {<<k>> : k \in BridgeKeys}}
  /\ ClientInit /\ HostsInit /\ CertsInit
  /\ job = <<>> /\ kills = 0 /\ harmed = {}
  /\ budget \in Budgets

Spend(kind) ==
  budget[kind] > 0 /\ budget' = [budget EXCEPT ![kind] = @ - 1]

Next ==
  \/ Spend("client") /\ ClientCommand /\ UNCHANGED <<hostsVars, pairs>>
  \/ Spend("hosts") /\ HostsCommand /\ UNCHANGED <<generated, pairs>>
  \/ Spend("certs") /\ EnsureBundleCert /\ UNCHANGED <<generated, hostsVars>>
  \/ (Write \/ Killed) /\ UNCHANGED <<generated, hostsVars, pairs, budget>>

Spec == Init /\ [][Next]_vars

\* A backup is what its file held before the tool that made it first changed the
\* file: the client's is Valve's binary, the hosts file's has no block that the script
\* wrote.  Either is a beginning of that, if the one copy that made it was
\* interrupted, and the whole of it otherwise.
BackupsAreFromBefore == BackupIsOriginal /\ CopyIsFromBefore
===============================================================================
