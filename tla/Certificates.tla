---------------------------- MODULE Certificates ----------------------------
(***************************************************************************)
(* src/gateway/certs.py: the local CA and the one leaf certificate that    *)
(* covers every name, made by gen-certs or at the start of the TLS         *)
(* forwarder, and reused from then on.                                     *)
(***************************************************************************)
EXTENDS LocalFiles

CONSTANT MaxPairs   \* bound: key pairs made

VARIABLE pairs      \* how many key pairs were made

Certificate(key, issuer) == [key |-> key, issuer |-> issuer]

CertsInit ==
  /\ \A f \in {"ca.crt", "ca.key", "leaf.crt", "leaf.key"} : files[f] = Absent
  /\ pairs = 0

\* Slip: the key goes first, and what exists is not written again.
WriteMissing(crt, key, certificate, k) ==
  (IF Exists(key) THEN <<>> ELSE <<InPlace(key, <<k>>)>>) \o
  (IF Exists(crt) THEN <<>> ELSE <<InPlace(crt, <<certificate>>)>>)

\* Both files, or both anew: the certificate first.
WritePair(crt, key, certificate, k) ==
  <<InPlace(crt, <<certificate>>), InPlace(key, <<k>>)>>

EnsureCa(k) ==
  IF Exists("ca.crt") /\ Exists("ca.key") THEN <<>>
  ELSE WritePair("ca.crt", "ca.key", Certificate(k, k), k)

EnsureLeaf(issuer, k) ==
  IF Exists("leaf.crt") /\ Exists("leaf.key") THEN <<>>
  ELSE WritePair("leaf.crt", "leaf.key", Certificate(k, issuer), k)

\* ensure_bundle_cert().  A CA file that is cut short cannot be loaded: nothing
\* is written then.
EnsureBundleCert ==
  LET ca   == EnsureCa(pairs + 1)
      key  == IF ca # <<>> THEN <<pairs + 1>> ELSE files["ca.key"]
      cert == IF ca # <<>> THEN <<Certificate(pairs + 1, pairs + 1)>> ELSE files["ca.crt"]
  IN /\ pairs + 2 <= MaxPairs
     /\ key # <<>> /\ cert # <<>>
     /\ Begin(ca \o EnsureLeaf(key[1], pairs + 2))
     /\ pairs' = pairs + 2

\* The handshake the client can verify needs the leaf's key to be that of its
\* certificate, and the certificate to be signed by the key of the CA
\* certificate that the user trusts.  Whenever all four files are there and none
\* was cut short, they are of one piece, whatever was interrupted before and in
\* the middle of a command too.
CertificatesMatch ==
  LET whole(f) == Exists(f) /\ files[f] # <<>>
  IN whole("ca.crt") /\ whole("ca.key") /\ whole("leaf.crt") /\ whole("leaf.key") =>
       /\ files["ca.crt"][1].key      = files["ca.key"][1]
       /\ files["leaf.crt"][1].key    = files["leaf.key"][1]
       /\ files["leaf.crt"][1].issuer = files["ca.key"][1]
===============================================================================
