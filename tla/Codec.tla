-------------------------------- MODULE Codec --------------------------------
(***************************************************************************)
(* The protobuf wire format of src/gateway/cm/proto.py and the headers and *)
(* machine-auth messages that src/gateway/cm/machineauth.py builds and     *)
(* parses with it, as functions on sequences of bytes.                     *)
(*                                                                         *)
(* The code's Group, Width and FixedBytes are 7, 64 and 8.  Smaller ones   *)
(* with the same shape (a byte is a group and a bit, a varint may run past *)
(* the width, a fixed field is the width) let TLC try every value.  Text is *)
(* its bytes.                                                              *)
(***************************************************************************)
EXTENDS Integers, Sequences, SequencesExt, FiniteSetsExt, Functions

CONSTANTS
  Group,       \* value bits in a byte of a varint
  Width,       \* bits of a number
  FixedBytes,  \* bytes of a fixed64
  Raises,      \* the result of a call that raises
  NotThere     \* the result of a search that finds nothing

\* Seven bits hold every key of these messages.  An error is no result.
ASSUME CodecAssumption ==
  /\ {Group, Width, FixedBytes} \subseteq Nat \ {0}
  /\ FixedBytes * (Group + 1) = Width
  /\ Width >= 7
  /\ Raises # NotThere
  /\ {Raises, NotThere} \cap
       ([value : Nat, next : Nat] \cup
        [number : Nat, wire : Nat, value : Nat \cup Seq(Nat), next : Nat]) = {}

Pow(base, n) ==
  LET power[i \in 0..n] == IF i = 0 THEN 1 ELSE base * power[i - 1]
  IN power[n]

Byte   == Pow(2, Group + 1)
More   == Pow(2, Group)
Limit  == Pow(2, Width)
Masked(value) == value % Limit
Groups == (Width + Group - 1) \div Group   \* the bytes of the longest varint
LesserOf(a, b) == IF a < b THEN a ELSE b

\* The first n digits of a number, the least first, and the number that digits make.
Split(value, base, n) == [i \in 1..n |-> (value \div Pow(base, i - 1)) % base]

Joined(digits, base) ==
  LET last[k \in 0..Len(digits)] ==   \* what the last k of them make
        IF k = 0 THEN 0 ELSE digits[Len(digits) - k + 1] + base * last[k - 1]
  IN last[Len(digits)]

(***************************************************************************)
(* Encoding.                                                               *)
(***************************************************************************)

Varint(value) ==
  LET groups == CHOOSE n \in 1..Groups :
                  /\ Masked(value) < Pow(More, n)
                  /\ n = 1 \/ Masked(value) >= Pow(More, n - 1)
      group  == Split(Masked(value), More, groups)
  IN [i \in 1..groups |-> group[i] + (IF i < groups THEN More ELSE 0)]

Key(field, wire) == Varint(8 * field + wire)
VarintField(field, value) == Key(field, 0) \o Varint(value)
BytesField(field, payload) == Key(field, 2) \o Varint(Len(payload)) \o payload
Fixed64Field(field, value) == Key(field, 1) \o Split(Masked(value), Byte, FixedBytes)

(***************************************************************************)
(* Decoding.                                                               *)
(***************************************************************************)

\* Slip: a varint that is cut short counts for what is there of it.
ReadVarintLeniently(data, off) ==
  LET ends == {i \in 1 .. Len(data) - off : data[off + i] < More \/ off + i = Len(data)}
  IN IF ends = {} THEN Raises
     ELSE LET n == Min(ends)
          IN [value |-> Joined([i \in 1..n |-> data[off + i] % More], More),
              next  |-> off + n]

\* Read behind the first `off` bytes.  Groups that begin below the width count in
\* full: the value is not masked.
ReadVarint(data, off) ==
  LET ends == {i \in 1 .. LesserOf(Groups, Len(data) - off) : data[off + i] < More}
  IN IF ends = {} THEN Raises
     ELSE LET n == Min(ends)
          IN [value |-> Joined([i \in 1..n |-> data[off + i] % More], More),
              next  |-> off + n]

\* data[off:off + n], which may be short.
Slice(data, off, n) == SubSeq(data, off + 1, LesserOf(off + n, Len(data)))

\* The field that begins behind `off`, and where the next one does: parse_fields()
\* up to its next yield.  NotThere: a wire type that it stops at.
FieldAt(data, off) ==
  LET key  == ReadVarint(data, off)
      wire == key.value % 8
      arg  == ReadVarint(data, key.next)
      field(value, next) == [number |-> key.value \div 8, wire |-> wire, value |-> value,
                             next |-> LesserOf(next, Len(data))]
      fixed(n) == field(Slice(data, key.next, n), key.next + n)
  IN IF key = Raises \/ (wire \in {0, 2} /\ arg = Raises) THEN Raises
     ELSE CASE wire = 0 -> field(arg.value, arg.next)
            [] wire = 1 -> fixed(FixedBytes)
            [] wire = 2 -> field(Slice(data, arg.next, arg.value), arg.next + arg.value)
            [] wire = 5 -> fixed(FixedBytes \div 2)
            [] OTHER    -> NotThere

Unpacked(bytes) == IF Len(bytes) # FixedBytes THEN Raises ELSE Joined(bytes, Byte)

\* What a parser asks for: a field's number, its wire type, and what it takes if
\* there is none.
Number(field)        == [field |-> field, wire |-> 0, default |-> 0]
Text(field)          == [field |-> field, wire |-> 2, default |-> <<>>]
Long(field, default) == [field |-> field, wire |-> 1, default |-> default]

\* What it finds in the last bytes of the data, by how many are left: the first
\* field of that number and wire type; an error behind it is not met.
Found(want, data) ==
  LET last[left \in 0..Len(data)] ==
        LET f == FieldAt(data, Len(data) - left)
        IN CASE left = 0 -> want.default
             [] left > 0 /\ f = Raises   -> Raises
             [] left > 0 /\ f = NotThere -> want.default
             [] OTHER -> IF f.number # want.field \/ f.wire # want.wire
                           THEN last[Len(data) - f.next]
                         ELSE IF f.wire = 1 THEN Unpacked(f.value) ELSE f.value
  IN last

Lookup(want, data) == Found(want, data)[Len(data)]

Parse(wants, data) == [name \in DOMAIN wants |-> Lookup(wants[name], data)]

(***************************************************************************)
(* The messages.                                                           *)
(***************************************************************************)

JobNone == Limit - 1

JobField(field, job) == IF job \in {0, JobNone} THEN <<>> ELSE Fixed64Field(field, job)

Header(source, target, steamid, session) ==
  (IF steamid = 0 THEN <<>> ELSE Fixed64Field(1, steamid)) \o
  (IF session = 0 THEN <<>> ELSE VarintField(2, session)) \o
  JobField(10, source) \o JobField(11, target)

HeaderFields ==
  [steamid |-> Long(1, 0), source |-> Long(10, JobNone), target |-> Long(11, JobNone)]

BuildUpdate(filename, offset, data) ==
  BytesField(1, filename) \o VarintField(2, offset)
    \o VarintField(3, Len(data)) \o BytesField(4, data)

UpdateFields ==
  [filename |-> Text(1), offset |-> Number(2), cubtowrite |-> Number(3), bytes |-> Text(4)]

BuildRead(filename, offset, cubtoread) ==
  BytesField(1, filename) \o VarintField(2, offset) \o VarintField(3, cubtoread)

ReadFields == [filename |-> Text(1), offset |-> Number(2), cubtoread |-> Number(3)]

\* The answer to an update ends with how much was written, the answer to a read
\* with how much was read and what.
BuildResponse(filename, eresult, filesize, sha, offset, count) ==
  BytesField(1, filename) \o VarintField(2, eresult) \o VarintField(3, filesize)
    \o BytesField(4, sha) \o VarintField(6, offset) \o VarintField(7, count)

BuildReadResponse(filename, eresult, filesize, sha, offset, data) ==
  BuildResponse(filename, eresult, filesize, sha, offset, Len(data)) \o BytesField(8, data)

ResponseFields ==
  [filename |-> Text(1), eresult |-> Number(2), filesize |-> Number(3), sha |-> Text(4),
   offset |-> Number(6), count |-> Number(7)]

ReadResponseFields ==
  [filename |-> Text(1), eresult |-> Number(2), filesize |-> Number(3), sha |-> Text(4),
   offset |-> Number(6), count |-> Number(7), bytes |-> Text(8)]

\* A request's parser also asks for the OTP fields, which nobody reads, here as in the
\* other parsers.
RequestFields == [filename |-> Text(1), filesize |-> Number(3), sha |-> Text(4)]

BuildNewLoginKey(id, key) == VarintField(1, id) \o BytesField(2, key)
NewLoginKeyFields == [id |-> Number(1), key |-> Text(2)]

(***************************************************************************)
(* Properties, over the numbers and texts given.                           *)
(***************************************************************************)

\* A number of any size in the width, and -1 as the width has it, survives being
\* written and read, whatever stands behind it.
VarintsRoundTrip ==
  \A v \in -1 .. Limit - 1, rest \in {<<>>, <<Byte - 1>>} :
    ReadVarint(Varint(v) \o rest, 0) = [value |-> Masked(v), next |-> Len(Varint(v))]

\* What is written with these arguments: the message, what its parser asks for, and
\* what it has to find.
Written(n, m, f, d) ==
  <<[msg |-> BuildUpdate(f, n, d), wants |-> UpdateFields,
     means |-> [filename |-> f, offset |-> n, cubtowrite |-> Len(d), bytes |-> d]],
    [msg |-> BuildRead(f, n, m), wants |-> ReadFields,
     means |-> [filename |-> f, offset |-> n, cubtoread |-> m]],
    [msg |-> BuildResponse(f, n, m, d, n, m), wants |-> ResponseFields,
     means |-> [filename |-> f, eresult |-> n, filesize |-> m, sha |-> d,
                offset |-> n, count |-> m]],
    [msg |-> BuildReadResponse(f, n, m, d, n, d), wants |-> ReadResponseFields,
     means |-> [filename |-> f, eresult |-> n, filesize |-> m, sha |-> d,
                offset |-> n, count |-> Len(d), bytes |-> d]],
    [msg |-> BuildResponse(f, n, m, d, n, m), wants |-> RequestFields,
     means |-> [filename |-> f, filesize |-> m, sha |-> d]],
    [msg |-> BuildNewLoginKey(n, f), wants |-> NewLoginKeyFields,
     means |-> [id |-> n, key |-> f]],
    [msg |-> Header(n, m, m, n), wants |-> HeaderFields,
     means |-> [steamid |-> m, source |-> IF n = 0 THEN JobNone ELSE n,
                target |-> IF m = 0 THEN JobNone ELSE m]]>>

\* A message parses to what it was built from: builder and parser agree on every
\* field's number and wire type, and no value, empty, zero, or looking like a key
\* itself, shadows another.  A message that is cut short, as a Multi that is taken
\* apart wrongly leaves it, never yields a wrong number: it yields the right one,
\* none, or an error.  Only bytes may come out short.
MessagesRoundTrip(numbers, texts) ==
  \A n, m \in numbers, f, d \in texts : \A w \in Range(Written(n, m, f, d)) :
    \A k \in 0..Len(w.msg) :
      \A got \in {Parse(w.wants, SubSeq(w.msg, 1, k))} :
        /\ k = Len(w.msg) => got = w.means
        /\ \A name \in DOMAIN w.wants :
             \/ got[name] \in {w.means[name], w.wants[name].default, Raises}
             \/ w.wants[name].wire = 2 /\ IsPrefix(got[name], w.means[name])
===============================================================================
