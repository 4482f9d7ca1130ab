---------------------------- MODULE ClientPatcher ----------------------------
(***************************************************************************)
(* scripts/patch_client.py on the client's binary, and the key of the      *)
(* gateway it puts there (gen-cm-key, load_or_create_cm_key in             *)
(* src/gateway/cm/crypto.py).                                              *)
(*                                                                         *)
(* A binary is the sequence of its slots: CM addresses and RSA public keys. *)
(* The room for an address is the string that is there now: NUL padding is *)
(* not matched again.  What --dry-run, --verify and refused arguments do   *)
(* leaves every file as it is.  --all-binaries does to other files what is *)
(* done to this one.                                                       *)
(***************************************************************************)
EXTENDS LocalFiles

CONSTANTS
  Pristine,    \* the binary that was downloaded
  Addresses,   \* the addresses a slot may hold
  Chars,       \* their lengths
  ValveKey,    \* the Public universe key
  OtherKeys,   \* the keys of the other universes
  BridgeKeys   \* the keys a gateway may generate

ASSUME PatcherAssumption ==
  /\ Pristine \in Seq(Addresses \cup {ValveKey} \cup OtherKeys)
  /\ Chars \in [Addresses -> Nat] /\ Gateways \subseteq Addresses
  /\ ValveKey \notin OtherKeys \cup BridgeKeys
  /\ OtherKeys \cap BridgeKeys = {}
  /\ Addresses \cap ({ValveKey} \cup OtherKeys \cup BridgeKeys) = {}

VARIABLE generated   \* the keys generated so far

ClientFiles == {"dylib", "dylib.orig", "cm-rsa.key"}
Slots == Addresses \cup {ValveKey} \cup OtherKeys \cup BridgeKeys

\* The key file of the gateway may have been generated before.
ClientInit ==
  /\ files["dylib"] = Pristine
  /\ files["dylib.orig"] = Absent
  /\ generated \in {{}} \cup {{k} : k \in BridgeKeys}
  /\ files["cm-rsa.key"] \in {<<k>> : k \in generated} \cup
                             (IF generated = {} THEN {Absent} ELSE {})

Scan(binary) == {i \in DOMAIN binary : binary[i] \in Addresses}
FindKeySlots(binary) == DOMAIN binary \ Scan(binary)

\* Slip: an address that is too long runs over what follows it.
AnyLength(new, old) == TRUE

Fits(new, old) == Chars[new] <= Chars[old]

Patched(binary, ip) ==
  [i \in DOMAIN binary |->
     IF i \in Scan(binary) /\ Fits(ip, binary[i]) THEN ip ELSE binary[i]]

\* Slip: the swap stops at the first slot.
SwappedOnce(binary, key) ==
  [i \in DOMAIN binary |->
     IF binary[i] = ValveKey /\ \A j \in 1 .. i - 1 : binary[j] # ValveKey
     THEN key ELSE binary[i]]

\* Only slots that hold Valve's Public key are swapped.
Swapped(binary, key) ==
  [i \in DOMAIN binary |-> IF binary[i] = ValveKey THEN key ELSE binary[i]]

\* Slip: the copy is made each time.
BackUpAlways == <<InPlace("dylib.orig", files["dylib"])>>

BackUpOnce ==
  IF Exists("dylib.orig") THEN <<>> ELSE <<InPlace("dylib.orig", files["dylib"])>>

\* Every slot that is too long may be skipped, or none changed: the file is
\* written, and the exit code is 0, all the same.
PatchClient(ip) ==
  /\ Scan(files["dylib"]) # {}
  /\ Begin(BackUpOnce \o <<InPlace("dylib", Patched(files["dylib"], ip))>>)
  /\ UNCHANGED generated

\* --swap-key; --verify-key together with --all-binaries does the same.  A key
\* file that is absent or cut short stops it.
SwapKey ==
  /\ Exists("cm-rsa.key") /\ files["cm-rsa.key"] # <<>>
  /\ ValveKey \in {files["dylib"][i] : i \in FindKeySlots(files["dylib"])}
  /\ Begin(BackUpOnce \o
           <<InPlace("dylib", Swapped(files["dylib"], files["cm-rsa.key"][1]))>>)
  /\ UNCHANGED generated

Restore ==
  /\ Exists("dylib.orig")
  /\ Begin(<<InPlace("dylib", files["dylib.orig"])>>)
  /\ UNCHANGED generated

\* gen-cm-key, or the gateway's start.  A file that is there is used.
LoadOrCreateCmKey(k) ==
  /\ ~Exists("cm-rsa.key") /\ k \notin generated
  /\ Begin(<<InPlace("cm-rsa.key", <<k>>)>>)
  /\ generated' = generated \cup {k}

\* The gateway is deployed anew, without its key.
LoseKey ==
  /\ Idle /\ Exists("cm-rsa.key")
  /\ files' = [files EXCEPT !["cm-rsa.key"] = Absent]
  /\ UNCHANGED <<job, kills, harmed, generated>>

ClientCommand ==
  \/ \E ip \in Gateways : PatchClient(ip)
  \/ SwapKey \/ Restore \/ LoseKey
  \/ \E k \in BridgeKeys : LoadOrCreateCmKey(k)

\* verify_key() returns 0.
VerifyKey(key) ==
  LET binary == files["dylib"]
      held   == {binary[i] : i \in FindKeySlots(binary)}
  IN key \in held /\ ValveKey \notin held

(***************************************************************************)
(* Properties.                                                             *)
(***************************************************************************)

\* The backup is the original: never a patched binary, and all of it unless the
\* one copy that made it was interrupted.  So --restore brings back what was
\* downloaded, after any sequence of patches, swaps, restores and interrupted
\* ones.
BackupIsOriginal ==
  Exists("dylib.orig") =>
    /\ files["dylib.orig"] = SubSeq(Pristine, 1, Len(files["dylib.orig"]))
    /\ "dylib.orig" \notin harmed => files["dylib.orig"] = Pristine

\* When --verify-key accepts a key, the client encrypts everything to it: all
\* the slots that Valve's Public key had hold this one key, also after keys were
\* lost, generated again and swapped in, and however commands were interrupted.
VerifiedKeyIsTheOnlyOne ==
  \A key \in BridgeKeys :
    VerifyKey(key) =>
      \A i \in DOMAIN files["dylib"] : Pristine[i] = ValveKey => files["dylib"][i] = key

\* No sequence of commands makes a string outgrow the room it has in the original
\* binary, turns an address slot into a key slot or the reverse, or touches a key
\* of another universe.
SlotsKeepToThemselves ==
  \A i \in DOMAIN files["dylib"] :
    LET was == Pristine[i]  is == files["dylib"][i]
    IN /\ was \in Addresses => is \in Addresses /\ Chars[is] <= Chars[was]
       /\ was = ValveKey    => is \in BridgeKeys \cup {ValveKey}
       /\ was \in OtherKeys => is = was
===============================================================================
