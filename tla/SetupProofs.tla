----------------------------- MODULE SetupProofs -----------------------------
(***************************************************************************)
(* Setup, for any binary, addresses, keys, user's lines and numbers of     *)
(* commands and interruptions: everything that a run checks of it.         *)
(*                                                                         *)
(* All of it hangs on what the running command has still to write: its     *)
(* writes were planned from the files as they were, and an interruption    *)
(* drops a tail of them.  ClientWrites and CertJob say what that can be    *)
(* for the binary and the certificates, HostsWrites for the hosts file,    *)
(* KeyWrites for the keys.                                                 *)
(*                                                                         *)
(* The first sections are about texts: what the two hosts tools make of a  *)
(* file that has the lines of the user and at most one block.  The lines   *)
(* at some places are defined by counting, so their lemmas begin with      *)
(* counts: the n-th of the places is there, and is the one place with n of *)
(* them up to it.                                                          *)
(***************************************************************************)
EXTENDS Setup, SequenceTheorems, FiniteSetTheorems, TLAPS

-------------------------------------------------------------------------------
(***************************************************************************)
(* Lines at places.                                                        *)
(***************************************************************************)

\* How many of the places there are up to one of them grows from each to the next.
LEMMA CountsGrow ==
  ASSUME NEW K, IsFiniteSet(K), K \subseteq Nat \ {0}, NEW i \in K
  PROVE  /\ Cardinality(K \cap (1..i)) \in 1..Cardinality(K)
         /\ \A j \in K : i < j => Cardinality(K \cap (1..i)) < Cardinality(K \cap (1..j))
<1>1. /\ IsFiniteSet(K \cap (1..i)) /\ Cardinality(K \cap (1..i)) <= Cardinality(K)
      /\ Cardinality(K) \in Nat /\ Cardinality(K \cap (1..i)) \in Nat
  BY FS_Subset, FS_CardinalityType
<1>2. i \in K \cap (1..i)
  OBVIOUS
<1>3. Cardinality(K \cap (1..i)) # 0
  BY <1>1, <1>2, FS_EmptySet
<1>4. ASSUME NEW j \in K, i < j
      PROVE  Cardinality(K \cap (1..i)) < Cardinality(K \cap (1..j))
  <2> DEFINE A == K \cap (1..i)
             B == K \cap (1..j)
  <2>1. A \subseteq B /\ j \in B /\ j \notin A
    BY <1>4
  <2>2. IsFiniteSet(B)
    BY FS_Subset
  <2> HIDE DEF A, B
  <2>3. /\ Cardinality(A) <= Cardinality(B) /\ Cardinality(A) # Cardinality(B)
        /\ Cardinality(A) \in Nat /\ Cardinality(B) \in Nat
    BY <2>1, <2>2, FS_Subset, FS_CardinalityType
  <2> QED
    BY <2>3 DEF A, B
<1> QED
  BY <1>1, <1>3, <1>4

\* So each count is that of one of the places.
LEMMA CountsMet ==
  ASSUME NEW K, IsFiniteSet(K), K \subseteq Nat \ {0}, NEW n \in 1..Cardinality(K)
  PROVE  \E i \in K : Cardinality(K \cap (1..i)) = n
<1> DEFINE f == [i \in K |-> Cardinality(K \cap (1..i))]
           N == 1..Cardinality(K)
<1>1. Cardinality(K) \in Nat /\ IsFiniteSet(N) /\ Cardinality(N) = Cardinality(K)
  BY FS_CardinalityType, FS_Interval
<1>2. f \in [K -> N]
  BY CountsGrow
<1>3. \A i, j \in K : f[i] = f[j] => i = j
  <2> SUFFICES ASSUME NEW i \in K, NEW j \in K, i < j PROVE f[i] # f[j]
    OBVIOUS
  <2>1. Cardinality(K \cap (1..i)) < Cardinality(K \cap (1..j))
    BY CountsGrow
  <2>2. /\ Cardinality(K \cap (1..i)) \in 1..Cardinality(K)
        /\ Cardinality(K \cap (1..j)) \in 1..Cardinality(K)
    BY CountsGrow
  <2> QED
    BY <1>1, <2>1, <2>2
<1> HIDE DEF N
<1>4. f \in Injection(K, N)
  BY <1>2, <1>3 DEF Injection, IsInjective
<1>5. f \in Surjection(K, N)
  BY <1>1, <1>4, FS_Injection
<1>6. PICK i \in K : f[i] = n
  BY <1>5 DEF Surjection, N
<1> QED
  BY <1>6

\* The lines at some places are lines of the text.
LEMMA LinesAtType ==
  ASSUME NEW L, NEW text \in Seq(L), NEW K \in SUBSET DOMAIN text
  PROVE  LinesAt(text, K) \in Seq(L)
<1>1. IsFiniteSet(K) /\ K \subseteq Nat \ {0}
  <2>1. DOMAIN text = 1..Len(text) /\ Len(text) \in Nat
    BY LenProperties
  <2>2. IsFiniteSet(1..Len(text))
    BY <2>1, FS_Interval
  <2> QED
    BY <2>1, <2>2, FS_Subset
<1>2. ASSUME NEW n \in 1..Cardinality(K)
      PROVE  LinesAt(text, K)[n] \in L
  <2> DEFINE P(i) == Cardinality(K \cap (1..i)) = n
  <2>1. \E i \in K : P(i)
    BY <1>1, CountsMet
  <2>2. (CHOOSE i \in K : P(i)) \in K
    BY <2>1
  <2>3. LinesAt(text, K)[n] = text[CHOOSE i \in K : P(i)]
    BY DEF LinesAt
  <2>4. \A i \in K : text[i] \in L
    BY ElementOfSeq, LenProperties
  <2> QED
    BY <2>2, <2>3, <2>4
<1>3. Cardinality(K) \in Nat /\ LinesAt(text, K) = [n \in 1..Cardinality(K) |-> LinesAt(text, K)[n]]
  BY <1>1, FS_CardinalityType DEF LinesAt
<1> QED
  BY <1>2, <1>3, SeqDef

\* How many places there are in all lines but those from a + 1 to b, up to the i-th.
LEMMA CountsAround ==
  ASSUME NEW a \in Nat, NEW b \in Nat, a <= b, NEW i \in Nat, i >= b
  PROVE  /\ IsFiniteSet((1..a) \cup (b + 1 .. i))
         /\ Cardinality((1..a) \cup (b + 1 .. i)) = a + (i - b)
<1>1. IsFiniteSet(1..a) /\ Cardinality(1..a) = a
  BY FS_Interval
<1>2. IsFiniteSet(b + 1 .. i)
  BY FS_Interval
<1>3. Cardinality(b + 1 .. i) = IF b + 1 > i THEN 0 ELSE i - (b + 1) + 1
  BY FS_Interval
<1>4. (1..a) \cap (b + 1 .. i) = {}
  OBVIOUS
<1> DEFINE A == 1..a
           B == b + 1 .. i
<1> HIDE DEF A, B
<1>5. /\ IsFiniteSet(A \cup B)
      /\ Cardinality(A \cup B) = Cardinality(A) + Cardinality(B) - Cardinality(A \cap B)
  BY <1>1, <1>2, FS_Union DEF A, B
<1>6. Cardinality(A \cap B) = 0
  BY <1>4, FS_EmptySet DEF A, B
<1>7. Cardinality(A) = a /\ Cardinality(B) = i - b
  BY <1>1, <1>3 DEF A, B
<1>8. Cardinality(A \cup B) = a + (i - b)
  BY <1>5, <1>6, <1>7
<1> QED
  BY <1>5, <1>8 DEF A, B

\* And up to a place that is left.
LEMMA CountsWithout ==
  ASSUME NEW a \in Nat, NEW b \in Nat, a <= b, NEW N \in Nat, b <= N
  PROVE  LET K == (1..a) \cup (b + 1 .. N)
         IN \A i \in K : Cardinality(K \cap (1..i)) = IF i <= a THEN i ELSE i - (b - a)
<1> DEFINE K == (1..a) \cup (b + 1 .. N)
<1> SUFFICES ASSUME NEW i \in K
             PROVE  Cardinality(K \cap (1..i)) = IF i <= a THEN i ELSE i - (b - a)
  OBVIOUS
<1>1. CASE i <= a
  <2>1. K \cap (1..i) = 1..i /\ i \in Nat /\ i >= 1
    BY <1>1
  <2>2. Cardinality(1..i) = i
    BY <2>1, FS_Interval
  <2> QED
    BY <1>1, <2>1, <2>2
<1>2. CASE i > a
  <2>1. i > b /\ i \in Nat /\ i <= N
    BY <1>2
  <2>2. K \cap (1..i) = (1..a) \cup (b + 1 .. i)
    BY <2>1
  <2>3. i >= b
    BY <2>1
  <2>4. Cardinality((1..a) \cup (b + 1 .. i)) = a + (i - b)
    BY <2>1, <2>3, CountsAround
  <2>5. a + (i - b) = i - (b - a)
    BY <2>1
  <2> HIDE DEF K
  <2>6. Cardinality(K \cap (1..i)) = a + (i - b)
    BY <2>2, <2>4
  <2>7. ~(i <= a)
    BY <1>2, <2>1
  <2> QED
    BY <2>5, <2>6, <2>7
<1> QED
  BY <1>1, <1>2

\* A text without its (a + 1)-th to b-th line.
Around(text, a, b) == SubSeq(text, 1, a) \o SubSeq(text, b + 1, Len(text))

\* It has what is before and what is behind, in order.
LEMMA CutAround ==
  ASSUME NEW L, NEW text \in Seq(L), NEW a \in Nat, NEW b \in Nat, a <= b, b <= Len(text)
  PROVE  /\ Around(text, a, b) \in Seq(L) /\ Len(Around(text, a, b)) = a + (Len(text) - b)
         /\ \A n \in 1 .. a + (Len(text) - b) :
              Around(text, a, b)[n] = text[IF n <= a THEN n ELSE n + (b - a)]
<1> DEFINE N == Len(text)
           x == SubSeq(text, 1, a)
           y == SubSeq(text, b + 1, N)
<1>1. N \in Nat
  BY LenProperties
<1>2. \A i \in 1..N : text[i] \in L
  BY ElementOfSeq
<1>3. /\ x \in Seq(L) /\ Len(x) = (IF 1 <= a THEN a - 1 + 1 ELSE 0)
      /\ \A i \in 1 .. a - 1 + 1 : x[i] = text[1 + i - 1]
  BY <1>1, <1>2, SubSeqProperties
<1>4. /\ y \in Seq(L) /\ Len(y) = (IF b + 1 <= N THEN N - (b + 1) + 1 ELSE 0)
      /\ \A i \in 1 .. N - (b + 1) + 1 : y[i] = text[(b + 1) + i - 1]
  BY <1>1, <1>2, SubSeqProperties
<1> HIDE DEF x, y
<1>5. /\ x \o y \in Seq(L) /\ Len(x \o y) = Len(x) + Len(y)
      /\ \A n \in 1 .. Len(x) + Len(y) :
           (x \o y)[n] = IF n <= Len(x) THEN x[n] ELSE y[n - Len(x)]
  BY <1>3, <1>4, ConcatProperties
<1>6. b <= N
  OBVIOUS
<1> HIDE DEF N
<1>7. Len(x) = a /\ Len(y) = N - b
  BY <1>1, <1>3, <1>4, <1>6
<1>8. ASSUME NEW n \in 1 .. a + (N - b)
      PROVE  (x \o y)[n] = text[IF n <= a THEN n ELSE n + (b - a)]
  <2>1. CASE n <= a
    <3>1. (x \o y)[n] = x[n]
      BY <1>1, <1>5, <1>6, <1>7, <2>1
    <3>2. x[n] = text[n]
      <4>1. n \in 1 .. a - 1 + 1 /\ 1 + n - 1 = n
        BY <1>1, <1>6, <2>1
      <4> QED
        BY <1>3, <4>1
    <3> QED
      BY <2>1, <3>1, <3>2
  <2>2. CASE n > a
    <3>1. (x \o y)[n] = y[n - a]
      BY <1>1, <1>5, <1>6, <1>7, <2>2
    <3>2. y[n - a] = text[n + (b - a)]
      <4>1. n - a \in 1 .. N - (b + 1) + 1 /\ (b + 1) + (n - a) - 1 = n + (b - a)
        BY <1>1, <1>6, <2>2
      <4> QED
        BY <1>4, <4>1
    <3> QED
      BY <1>1, <1>6, <2>2, <3>1, <3>2
  <2>3. n <= a \/ n > a
    BY <1>1
  <2> QED
    BY <2>1, <2>2, <2>3
<1> QED
  BY <1>5, <1>7, <1>8 DEF Around, x, y, N

\* All lines but those from a + 1 to b.
LEMMA LinesAround ==
  ASSUME NEW L, NEW text \in Seq(L), NEW a \in Nat, NEW b \in Nat, a <= b, b <= Len(text)
  PROVE  LinesAt(text, DOMAIN text \ (a + 1 .. b)) = Around(text, a, b)
<1> DEFINE K    == DOMAIN text \ (a + 1 .. b)
           N    == Len(text)
           at   == LinesAt(text, K)
           cut  == Around(text, a, b)
           g(n) == IF n <= a THEN n ELSE n + (b - a)
<1>1. N \in Nat /\ DOMAIN text = 1..N /\ b <= N
  BY LenProperties
<1>2. K = (1..a) \cup (b + 1 .. N)
  BY <1>1
<1>3. K \in SUBSET DOMAIN text
  OBVIOUS
<1> HIDE DEF K, N
<1>4. IsFiniteSet(K) /\ Cardinality(K) = a + (N - b)
  BY <1>1, <1>2, CountsAround
<1>5. K \subseteq Nat \ {0}
  BY <1>1, <1>2
<1>6. \A i \in K : Cardinality(K \cap (1..i)) = IF i <= a THEN i ELSE i - (b - a)
  <2> DEFINE M == (1..a) \cup (b + 1 .. N)
  <2>1. \A i \in M : Cardinality(M \cap (1..i)) = IF i <= a THEN i ELSE i - (b - a)
    BY <1>1, CountsWithout
  <2>2. K = M
    BY <1>2
  <2> HIDE DEF M
  <2> QED
    BY <2>1, <2>2
<1>7. ASSUME NEW n \in 1..Cardinality(K)
      PROVE  at[n] = text[g(n)]
  <2> DEFINE P(i) == Cardinality(K \cap (1..i)) = n
  <2>1. \E i \in K : P(i)
    BY <1>4, <1>5, CountsMet
  <2> DEFINE c == CHOOSE i \in K : P(i)
  <2>2. c \in K /\ P(c)
    BY <2>1
  <2>3. at[n] = text[c]
    BY DEF LinesAt
  <2> HIDE DEF c, at
  <2>4. c = g(n)
    <3>1. n = (IF c <= a THEN c ELSE c - (b - a))
      BY <1>6, <2>2
    <3>2. (c <= a \/ c > b) /\ c \in Nat
      BY <1>1, <1>2, <2>2
    <3> QED
      BY <1>1, <3>1, <3>2
  <2> QED
    BY <2>3, <2>4
<1>8. at \in Seq(L) /\ DOMAIN at = 1 .. a + (N - b)
  BY <1>3, <1>4, LinesAtType DEF LinesAt
<1>9. /\ cut \in Seq(L) /\ Len(cut) = a + (N - b)
      /\ \A n \in 1 .. a + (N - b) : cut[n] = text[g(n)]
  <2> USE DEF N
  <2> QED
    BY CutAround
<1> HIDE DEF at, cut, g
<1>10. a + (N - b) \in Nat
  BY <1>1
<1>11. Len(at) = a + (N - b)
  BY <1>8, <1>10, LenProperties
<1>12. \A n \in 1..Len(at) : at[n] = cut[n]
  BY <1>4, <1>7, <1>9, <1>11
<1>13. at = cut
  BY <1>8, <1>9, <1>11, <1>12, SeqEqual
<1> QED
  BY <1>13 DEF at, cut, K, N

\* Pieces of a text are texts.
LEMMA PiecesType ==
  ASSUME NEW L, NEW text \in Seq(L), NEW n \in 0..Len(text), NEW m \in 1 .. Len(text) + 1
  PROVE  SubSeq(text, 1, n) \in Seq(L) /\ SubSeq(text, 1, n) \o SubSeq(text, m, Len(text)) \in Seq(L)
<1>1. Len(text) \in Nat /\ \A i \in 1..Len(text) : text[i] \in L
  BY LenProperties, ElementOfSeq
<1>2. SubSeq(text, 1, n) \in Seq(L)
  <2>1. n \in Nat /\ 1 \in Nat /\ \A i \in 1..n : text[i] \in L
    BY <1>1
  <2> QED
    BY <2>1, SubSeqProperties
<1>3. SubSeq(text, m, Len(text)) \in Seq(L)
  <2>1. m \in Nat /\ \A i \in m..Len(text) : text[i] \in L
    BY <1>1
  <2> QED
    BY <1>1, <2>1, SubSeqProperties
<1> QED
  BY <1>2, <1>3, ConcatProperties

\* The first of some places.
LEMMA LeastIsIn ==
  ASSUME NEW K, IsFiniteSet(K), K \subseteq Nat \ {0}, K # {}
  PROVE  Least(K) \in K
<1>1. 1 \in 1..Cardinality(K)
  BY FS_CardinalityType, FS_EmptySet
<1>2. PICK i \in K : Cardinality(K \cap (1..i)) = 1
  BY <1>1, CountsMet
<1>3. ASSUME NEW j \in K, j < i
      PROVE  FALSE
  <2>1. Cardinality(K \cap (1..j)) < Cardinality(K \cap (1..i))
    BY <1>3, CountsGrow
  <2>2. Cardinality(K \cap (1..j)) \in 1..Cardinality(K)
    BY CountsGrow
  <2> QED
    BY <1>2, <2>1, <2>2
<1>4. \A j \in K : i <= j
  BY <1>3
<1> QED
  BY <1>4 DEF Least

\* The first of one place.
LEMMA LeastOfOne ==
  ASSUME NEW i \in Nat
  PROVE  Least({i}) = i
BY DEF Least

\* Places are finitely many.
LEMMA PlacesFinite ==
  ASSUME NEW L, NEW text \in Seq(L), NEW K \in SUBSET DOMAIN text
  PROVE  IsFiniteSet(K) /\ K \subseteq Nat \ {0}
<1>1. DOMAIN text = 1..Len(text) /\ Len(text) \in Nat
  BY LenProperties
<1>2. IsFiniteSet(1..Len(text))
  BY <1>1, FS_Interval
<1> QED
  BY <1>1, <1>2, FS_Subset

-------------------------------------------------------------------------------
(***************************************************************************)
(* What the tools make of any text.                                        *)
(***************************************************************************)

\* Neither tool invents a line.
LEMMA StripBlockType ==
  ASSUME NEW L, NEW text \in Seq(L)
  PROVE  StripBlock(text) \in Seq(L)
<1> DEFINE P == Places(text, PyHeader)
           Q == Places(text, Footer)
<1>1. P \in SUBSET DOMAIN text /\ Q \in SUBSET DOMAIN text
  BY DEF Places
<1>2. DOMAIN text = 1..Len(text) /\ Len(text) \in Nat
  BY LenProperties
<1>3. CASE P = {} \/ Q = {}
  BY <1>3 DEF StripBlock
<1>4. CASE P # {} /\ Q # {}
  <2> DEFINE p == Least(P)
             q == Least(Q)
  <2>1. StripBlock(text) = SubSeq(text, 1, p - 1) \o SubSeq(text, q + 1, Len(text))
    BY <1>4 DEF StripBlock
  <2>2. p \in P /\ q \in Q
    <3> HIDE DEF P, Q
    <3>1. IsFiniteSet(P) /\ P \subseteq Nat \ {0} /\ IsFiniteSet(Q) /\ Q \subseteq Nat \ {0}
      BY <1>1, PlacesFinite
    <3> QED
      BY <1>4, <3>1, LeastIsIn
  <2> HIDE DEF p, q, P, Q
  <2>3. p - 1 \in 0..Len(text) /\ q + 1 \in 1 .. Len(text) + 1
    BY <1>1, <1>2, <2>2
  <2> QED
    BY <2>1, <2>3, PiecesType
<1> QED
  BY <1>3, <1>4

\* sed makes a text of a text.
LEMMA SedBlocksType ==
  ASSUME NEW L, NEW text \in Seq(L)
  PROVE  SedBlocks(text) \in Seq(L)
<1>1. PICK K \in SUBSET DOMAIN text : SedBlocks(text) = LinesAt(text, K)
  BY DEF SedBlocks, WithoutRanges
<1> QED
  BY <1>1, LinesAtType

-------------------------------------------------------------------------------
(***************************************************************************)
(* The shape that a file keeps.                                            *)
(***************************************************************************)

Entries == {Entry(ip) : ip \in Gateways}

\* The lines up to a and those after b are the user's; what is in between is
\* nothing, a block, or at the end of the file a block that the script began.
Shaped(text, users, a, b) ==
  /\ a <= b /\ b <= Len(text) /\ Len(text) = Len(users) + (b - a)
  /\ \A i \in 1..a : text[i] = UserLine(users[i])
  /\ \A i \in b + 1 .. Len(text) : text[i] = UserLine(users[i - (b - a)])
  /\ \/ b = a
     \/ /\ b = a + 3 /\ text[a + 1] \in HeaderLines
        /\ text[a + 2] \in Entries /\ text[b] = Footer
     \/ /\ b \in {a + 1, a + 2} /\ b = Len(text) /\ text[a + 1] = ShHeader
        /\ b = a + 2 => text[b] \in Entries

InShape(text, users) ==
  text \in Seq(Lines) /\ \E a, b \in Nat : Shaped(text, users, a, b)

\* The lines of a block are not the user's, and none is another's.
LEMMA KindsOfLines ==
  /\ PyHeader # ShHeader /\ PastedHeader # ShHeader /\ Footer \notin HeaderLines
  /\ \A h \in HeaderLines : h.is \notin {"user", "entry"}
  /\ Footer.is \notin {"user", "entry"} /\ {PyHeader, ShHeader, PastedHeader} = HeaderLines
  /\ \A e \in Entries : e.is = "entry" /\ e \notin HeaderLines \cup {Footer}
  /\ \A u : UserLine(u).is = "user" /\ UserLine(u) \notin HeaderLines \cup {Footer}
<1>1. /\ PyHeader.is = "py" /\ ShHeader.is = "sh" /\ PastedHeader.is = "pasted"
      /\ Footer.is = "end" /\ HeaderLines = {PyHeader, ShHeader, PastedHeader}
  BY DEF PyHeader, ShHeader, PastedHeader, Footer, HeaderLines
<1>2. \A e \in Entries : e.is = "entry"
  BY DEF Entries, Entry
<1>3. \A u : UserLine(u).is = "user"
  BY DEF UserLine
<1> QED
  BY <1>1, <1>2, <1>3

\* Where what is.
LEMMA ShapePlaces ==
  ASSUME NEW text \in Seq(Lines), NEW users \in Seq(UserLines), NEW a \in Nat, NEW b \in Nat,
         Shaped(text, users, a, b)
  PROVE  /\ DOMAIN text = 1..Len(text) /\ Len(text) \in Nat /\ Len(users) \in Nat
         /\ {i \in DOMAIN text : text[i].is = "user"} = DOMAIN text \ (a + 1 .. b)
         /\ {i \in DOMAIN text : text[i].is = "entry"} \subseteq {a + 2}
         /\ Headers(text) = IF b = a THEN {} ELSE {a + 1}
         /\ Places(text, Footer) = IF b = a + 3 THEN {b} ELSE {}
<1> DEFINE N == Len(text)
<1>1. DOMAIN text = 1..N /\ N \in Nat /\ Len(users) \in Nat
  BY LenProperties
<1>2. a <= b /\ b <= N /\ b \in {a, a + 1, a + 2, a + 3}
  BY DEF Shaped
<1>3. ASSUME NEW i \in DOMAIN text, i <= a \/ i > b
      PROVE  text[i].is = "user" /\ text[i] \notin HeaderLines \cup {Footer}
  <2>1. \E u : text[i] = UserLine(u)
    BY <1>1, <1>3 DEF Shaped
  <2> QED
    BY <2>1, KindsOfLines
<1>4. b # a => text[a + 1] \in HeaderLines
  BY KindsOfLines DEF Shaped
<1>5. b \in {a + 2, a + 3} => text[a + 2] \in Entries
  BY DEF Shaped
<1>6. b = a + 3 => text[a + 3] = Footer
  BY DEF Shaped
<1> HIDE DEF N
<1>7. ASSUME NEW i \in DOMAIN text, i > a, i <= b
      PROVE  /\ text[i].is # "user" /\ (text[i].is = "entry" => i = a + 2)
             /\ text[i] \in HeaderLines <=> i = a + 1
             /\ text[i] = Footer <=> i = a + 3
  <2>1. i \in {a + 1, a + 2, a + 3} /\ i \in Nat
    BY <1>1, <1>2, <1>7
  <2>2. CASE i = a + 1
    <3>1. b # a /\ a + 1 # a + 3 /\ a + 1 # a + 2
      BY <1>7, <2>2
    <3>2. text[i] \in HeaderLines
      BY <1>4, <2>2, <3>1
    <3> QED
      BY <2>2, <3>1, <3>2, KindsOfLines
  <2>3. CASE i = a + 2
    <3>1. b \in {a + 2, a + 3} /\ a + 1 # a + 2 /\ a + 2 # a + 3
      BY <1>2, <1>7, <2>3
    <3>2. text[i] \in Entries
      BY <1>5, <2>3, <3>1
    <3> QED
      BY <2>3, <3>1, <3>2, KindsOfLines
  <2>4. CASE i = a + 3
    <3>1. b = a + 3 /\ a + 1 # a + 3 /\ a + 2 # a + 3
      BY <1>2, <1>7, <2>4
    <3>2. text[i] = Footer
      BY <1>6, <2>4, <3>1
    <3> QED
      BY <2>4, <3>1, <3>2, KindsOfLines
  <2> QED
    BY <2>1, <2>2, <2>3, <2>4
<1>8. \A i \in DOMAIN text : i \in a + 1 .. b <=> i > a /\ i <= b
  BY <1>1
<1>9. {i \in DOMAIN text : text[i].is = "user"} = DOMAIN text \ (a + 1 .. b)
  BY <1>1, <1>3, <1>7, <1>8
<1>10. {i \in DOMAIN text : text[i].is = "entry"} \subseteq {a + 2}
  BY <1>1, <1>3, <1>7
<1>11. Headers(text) = IF b = a THEN {} ELSE {a + 1}
  <2>1. Headers(text) = {i \in DOMAIN text : text[i] \in HeaderLines}
    BY DEF Headers
  <2>2. \A i \in DOMAIN text : text[i] \in HeaderLines <=> b # a /\ i = a + 1
    BY <1>1, <1>2, <1>3, <1>7
  <2>3. b # a => a + 1 \in DOMAIN text
    BY <1>1, <1>2
  <2> QED
    BY <2>1, <2>2, <2>3
<1>12. Places(text, Footer) = IF b = a + 3 THEN {b} ELSE {}
  <2>1. \A i \in DOMAIN text : text[i] = Footer <=> b = a + 3 /\ i = b
    BY <1>1, <1>2, <1>3, <1>7
  <2>2. b = a + 3 => b \in DOMAIN text
    BY <1>1, <1>2
  <2> QED
    BY <2>1, <2>2 DEF Places
<1> QED
  BY <1>1, <1>9, <1>10, <1>11, <1>12 DEF N

\* The user's lines are lines, and none is a header.
LEMMA OwnLinesType ==
  ASSUME NEW users \in Seq(UserLines)
  PROVE  /\ OwnLines(users) \in Seq(Lines \ {ShHeader}) /\ OwnLines(users) \in Seq(Lines)
         /\ Len(OwnLines(users)) = Len(users) /\ Len(users) \in Nat
         /\ \A i \in 1..Len(users) : OwnLines(users)[i] = UserLine(users[i])
<1>1. /\ DOMAIN users = 1..Len(users) /\ Len(users) \in Nat
      /\ \A i \in 1..Len(users) : users[i] \in UserLines
  BY LenProperties, ElementOfSeq
<1>2. \A u \in UserLines : UserLine(u) \in Lines \ {ShHeader}
  BY KindsOfLines DEF Lines
<1>3. OwnLines(users) \in [1..Len(users) -> Lines \ {ShHeader}]
  BY <1>1, <1>2 DEF OwnLines
<1>4. OwnLines(users) \in Seq(Lines \ {ShHeader})
  BY <1>1, <1>3, SeqDef
<1>5. OwnLines(users) \in Seq(Lines)
  BY <1>4, SeqMonotonic
<1>6. Len(OwnLines(users)) = Len(users)
  BY <1>1, <1>3, <1>4, LenProperties
<1>7. \A i \in 1..Len(users) : OwnLines(users)[i] = UserLine(users[i])
  BY <1>1 DEF OwnLines
<1> QED
  BY <1>1, <1>4, <1>5, <1>6, <1>7

-------------------------------------------------------------------------------
(***************************************************************************)
(* What the tools make of a file that has it.                              *)
(***************************************************************************)

\* Without what is in between, the lines are the user's.
LEMMA ShapeAround ==
  ASSUME NEW text \in Seq(Lines), NEW users \in Seq(UserLines), NEW a \in Nat, NEW b \in Nat,
         Shaped(text, users, a, b)
  PROVE  Around(text, a, b) = OwnLines(users)
<1> DEFINE N == Len(text)
           cut == Around(text, a, b)
<1>1. N \in Nat /\ Len(users) \in Nat
  BY LenProperties
<1>2. a <= b /\ b <= N /\ N = Len(users) + (b - a)
  BY DEF Shaped
<1>3. /\ \A i \in 1..a : text[i] = UserLine(users[i])
      /\ \A i \in b + 1 .. N : text[i] = UserLine(users[i - (b - a)])
  BY DEF Shaped
<1>4. /\ cut \in Seq(Lines) /\ Len(cut) = a + (N - b)
      /\ \A n \in 1 .. a + (N - b) : cut[n] = text[IF n <= a THEN n ELSE n + (b - a)]
  <2>1. a <= b /\ b <= Len(text)
    BY <1>2
  <2>2. /\ Around(text, a, b) \in Seq(Lines) /\ Len(Around(text, a, b)) = a + (Len(text) - b)
        /\ \A n \in 1 .. a + (Len(text) - b) :
             Around(text, a, b)[n] = text[IF n <= a THEN n ELSE n + (b - a)]
    BY <2>1, CutAround
  <2> QED
    BY <2>2
<1> HIDE DEF N, cut
<1>5. Len(cut) = Len(users) /\ a + (N - b) = Len(users)
  BY <1>1, <1>2, <1>4
<1>6. ASSUME NEW n \in 1..Len(users)
      PROVE  cut[n] = UserLine(users[n])
  <2>1. CASE n <= a
    BY <1>3, <1>4, <1>5, <2>1
  <2>2. CASE ~(n <= a)
    <3>1. n + (b - a) \in b + 1 .. N /\ (n + (b - a)) - (b - a) = n
      BY <1>1, <1>2, <2>2
    <3>2. cut[n] = text[n + (b - a)]
      BY <1>4, <1>5, <2>2
    <3> QED
      BY <1>3, <3>1, <3>2
  <2> QED
    BY <2>1, <2>2
<1>7. /\ OwnLines(users) \in Seq(Lines) /\ Len(OwnLines(users)) = Len(users)
      /\ \A i \in 1..Len(users) : OwnLines(users)[i] = UserLine(users[i])
  BY OwnLinesType
<1>8. cut = OwnLines(users)
  BY <1>4, <1>5, <1>6, <1>7, SeqEqual
<1> QED
  BY <1>8 DEF cut

\* What the properties ask of a text.
LEMMA ShapeKeeps ==
  ASSUME NEW text, NEW users \in Seq(UserLines), InShape(text, users)
  PROVE  /\ LinesAt(text, {i \in DOMAIN text : text[i].is = "user"}) = OwnLines(users)
         /\ Cardinality(Headers(text)) <= 1
         /\ Cardinality({i \in DOMAIN text : text[i].is = "entry"}) <= 1
<1>1. PICK a, b \in Nat : Shaped(text, users, a, b)
  BY DEF InShape
<1>2. text \in Seq(Lines) /\ a <= b /\ b <= Len(text)
  BY <1>1 DEF InShape, Shaped
<1>3. /\ {i \in DOMAIN text : text[i].is = "user"} = DOMAIN text \ (a + 1 .. b)
      /\ {i \in DOMAIN text : text[i].is = "entry"} \subseteq {a + 2}
      /\ Headers(text) \subseteq {a + 1}
  <2>1. Headers(text) = IF b = a THEN {} ELSE {a + 1}
    BY <1>1, <1>2, ShapePlaces
  <2>2. Headers(text) \subseteq {a + 1}
    BY <2>1
  <2> QED
    BY <1>1, <1>2, <2>2, ShapePlaces
<1>4. LinesAt(text, {i \in DOMAIN text : text[i].is = "user"}) = OwnLines(users)
  <2>1. LinesAt(text, DOMAIN text \ (a + 1 .. b)) = Around(text, a, b)
    BY <1>2, LinesAround
  <2>2. Around(text, a, b) = OwnLines(users)
    BY <1>1, <1>2, ShapeAround
  <2> QED
    BY <1>3, <2>1, <2>2
<1>5. \A i, K : K \subseteq {i} => Cardinality(K) <= 1
  <2> SUFFICES ASSUME NEW i, NEW K, K \subseteq {i} PROVE Cardinality(K) <= 1
    OBVIOUS
  <2>1. K = {} \/ K = {i}
    OBVIOUS
  <2>2. CASE K = {}
    <3>1. Cardinality(K) = 0
      BY <2>2, FS_EmptySet
    <3> QED
      BY <3>1
  <2>3. CASE K = {i}
    <3>1. Cardinality(K) = 1
      BY <2>3, FS_Singleton
    <3> QED
      BY <3>1
  <2> QED
    BY <2>1, <2>2, <2>3
<1> QED
  BY <1>3, <1>4, <1>5

\* Where the block is, without the rest of ShapePlaces.
LEMMA ShapeBlock ==
  ASSUME NEW text \in Seq(Lines), NEW users \in Seq(UserLines), NEW a \in Nat, NEW b \in Nat,
         Shaped(text, users, a, b)
  PROVE  /\ DOMAIN text = 1..Len(text) /\ Len(text) \in Nat
         /\ Headers(text) = (IF b = a THEN {} ELSE {a + 1})
         /\ Places(text, Footer) = (IF b = a + 3 THEN {b} ELSE {})
<1> HIDE DEF Shaped, Headers, Places
<1> QED
  BY ShapePlaces

\* The script takes out either block, and one it began itself.
LEMMA SedTakesBlock ==
  ASSUME NEW text, NEW users \in Seq(UserLines), InShape(text, users)
  PROVE  SedBlocks(text) = OwnLines(users)
<1>1. PICK a, b \in Nat : Shaped(text, users, a, b)
  BY DEF InShape
<1>2. text \in Seq(Lines) /\ a <= b /\ b <= Len(text)
  BY <1>1 DEF InShape, Shaped
<1>3. /\ DOMAIN text = 1..Len(text) /\ Len(text) \in Nat
      /\ Headers(text) = (IF b = a THEN {} ELSE {a + 1})
      /\ Places(text, Footer) = (IF b = a + 3 THEN {b} ELSE {})
  BY <1>1, <1>2, ShapeBlock
<1>4. b \in {a, a + 1, a + 2, a + 3} /\ (b \notin {a, a + 3} => b = Len(text))
  BY <1>1 DEF Shaped
<1> DEFINE inRange(i) == \E h \in Headers(text) \cap (1..i) : \A j \in h .. i - 1 : text[j] # Footer
<1>5. \A i \in DOMAIN text : inRange(i) <=> i \in a + 1 .. b
  <2> SUFFICES ASSUME NEW i \in DOMAIN text PROVE inRange(i) <=> i \in a + 1 .. b
    OBVIOUS
  <2>1. \A j \in DOMAIN text : text[j] = Footer <=> b = a + 3 /\ j = b
    BY <1>3 DEF Places
  <2>2. CASE b = a
    BY <1>3, <2>2
  <2>3. CASE b # a
    <3>1. inRange(i) <=> a + 1 <= i /\ \A j \in a + 1 .. i - 1 : text[j] # Footer
      BY <1>3, <2>3
    <3>2. a + 1 <= i => \A j \in a + 1 .. i - 1 : j \in DOMAIN text
      BY <1>3
    <3>3. CASE b = a + 3
      <4>1. a + 1 <= i => ((\A j \in a + 1 .. i - 1 : text[j] # Footer) <=> b \notin a + 1 .. i - 1)
        BY <2>1, <3>2, <3>3
      <4>2. i \in Nat /\ (b \notin a + 1 .. i - 1 <=> i <= b)
        BY <1>3, <3>3
      <4>3. i \in a + 1 .. b <=> a + 1 <= i /\ i <= b
        BY <4>2
      <4> HIDE DEF inRange
      <4> QED
        BY <3>1, <4>1, <4>2, <4>3
    <3>4. CASE b # a + 3
      <4>1. a + 1 <= i => \A j \in a + 1 .. i - 1 : text[j] # Footer
        BY <2>1, <3>2, <3>4
      <4>2. b = Len(text)
        BY <1>4, <2>3, <3>4
      <4>3. i \in 1..b
        BY <1>3, <4>2
      <4>4. i \in a + 1 .. b <=> a + 1 <= i
        BY <4>3
      <4> HIDE DEF inRange
      <4> QED
        BY <3>1, <4>1, <4>4
    <3> QED
      BY <3>3, <3>4
  <2> QED
    BY <2>2, <2>3
<1>6. SedBlocks(text) = LinesAt(text, {i \in DOMAIN text : ~inRange(i)})
  BY DEF SedBlocks, WithoutRanges
<1> HIDE DEF inRange
<1>7. {i \in DOMAIN text : ~inRange(i)} = DOMAIN text \ (a + 1 .. b)
  BY <1>5
<1>8. LinesAt(text, DOMAIN text \ (a + 1 .. b)) = Around(text, a, b)
  BY <1>2, LinesAround
<1> QED
  BY <1>1, <1>2, <1>6, <1>7, <1>8, ShapeAround

\* hosts.py takes out its own.
LEMMA StripTakesBlock ==
  ASSUME NEW text, NEW users \in Seq(UserLines), InShape(text, users),
         Headers(text) = Places(text, PyHeader)
  PROVE  StripBlock(text) = OwnLines(users)
<1>1. PICK a, b \in Nat : Shaped(text, users, a, b)
  BY DEF InShape
<1>2. text \in Seq(Lines) /\ a <= b /\ b <= Len(text)
  BY <1>1 DEF InShape, Shaped
<1>3. /\ DOMAIN text = 1..Len(text) /\ Len(text) \in Nat
      /\ Headers(text) = (IF b = a THEN {} ELSE {a + 1})
      /\ Places(text, Footer) = (IF b = a + 3 THEN {b} ELSE {})
  BY <1>1, <1>2, ShapeBlock
<1>4. Places(text, PyHeader) = Headers(text)
  OBVIOUS
<1>5. Around(text, a, b) = OwnLines(users)
  BY <1>1, <1>2, ShapeAround
<1>6. CASE b = a
  <2>1. StripBlock(text) = text
    BY <1>3, <1>4, <1>6 DEF StripBlock
  <2>2. text = OwnLines(users)
    <3>1. Len(users) \in Nat /\ Len(text) = Len(users)
      BY <1>1, <1>3, <1>6, LenProperties DEF Shaped
    <3>2. \A i \in 1..Len(text) : text[i] = UserLine(users[i])
      <4> TAKE i \in 1..Len(text)
      <4>1. CASE i <= a
        BY <1>1, <4>1 DEF Shaped
      <4>2. CASE ~(i <= a)
        <5>1. i \in b + 1 .. Len(text) /\ i - (b - a) = i
          BY <1>3, <1>6, <4>2
        <5> QED
          BY <1>1, <5>1 DEF Shaped
      <4> QED
        BY <4>1, <4>2
    <3>3. /\ OwnLines(users) \in Seq(Lines) /\ Len(OwnLines(users)) = Len(users)
          /\ \A i \in 1..Len(users) : OwnLines(users)[i] = UserLine(users[i])
      BY OwnLinesType
    <3> QED
      BY <1>2, <3>1, <3>2, <3>3, SeqEqual
  <2> QED
    BY <2>1, <2>2
<1>7. CASE b # a
  <2>1. a + 1 \in DOMAIN text
    BY <1>2, <1>3, <1>7
  <2>2. text[a + 1] = PyHeader
    BY <1>3, <1>4, <1>7 DEF Places
  <2>3. b = a + 3
    BY <1>1, <1>7, <2>2, KindsOfLines DEF Shaped
  <2>4. Places(text, PyHeader) = {a + 1} /\ Places(text, Footer) = {b} /\ a + 1 - 1 = a
    BY <1>3, <1>4, <1>7, <2>3
  <2>5. Least({a + 1}) = a + 1 /\ Least({b}) = b
    BY LeastOfOne
  <2>6. StripBlock(text) = SubSeq(text, 1, a + 1 - 1) \o SubSeq(text, b + 1, Len(text))
    <3> DEFINE P == Places(text, PyHeader)
               Q == Places(text, Footer)
    <3>1. P # {} /\ Q # {}
      BY <2>4
    <3>2. StripBlock(text) = SubSeq(text, 1, Least(P) - 1) \o SubSeq(text, Least(Q) + 1, Len(text))
      BY <3>1 DEF StripBlock
    <3>3. Least(P) = a + 1 /\ Least(Q) = b
      BY <2>4, <2>5
    <3>4. Least(P) - 1 = a + 1 - 1 /\ Least(Q) + 1 = b + 1
      BY <3>3
    <3> HIDE DEF P, Q
    <3> QED
      BY <3>2, <3>4, Zenon
  <2> QED
    BY <1>5, <2>4, <2>6 DEF Around
<1> QED
  BY <1>6, <1>7

\* A block is three lines, and one that the script did not write has no header of the
\* script's.
LEMMA BlockType ==
  ASSUME NEW header \in HeaderLines, NEW ip \in Gateways
  PROVE  /\ Block(header, ip) \in Seq(Lines) /\ Len(Block(header, ip)) = 3
         /\ header # ShHeader => Block(header, ip) \in Seq(Lines \ {ShHeader})
         /\ Block(header, ip)[1] = header /\ Block(header, ip)[2] \in Entries
         /\ Block(header, ip)[3] = Footer
<1> DEFINE e == Entry(ip)
<1>1. e \in Entries /\ e \in Lines /\ header \in Lines /\ Footer \in Lines
  BY DEF Entries, Lines
<1>2. e # ShHeader /\ Footer # ShHeader /\ PyHeader # ShHeader
  BY <1>1, KindsOfLines
<1>3. Block(header, ip) = <<header, e, Footer>>
  BY DEF Block
<1> HIDE DEF e
<1>4. <<header, e, Footer>> \in Seq(Lines)
  BY <1>1
<1>5. header # ShHeader => <<header, e, Footer>> \in Seq(Lines \ {ShHeader})
  BY <1>1, <1>2
<1>6. /\ Len(<<header, e, Footer>>) = 3 /\ <<header, e, Footer>>[1] = header
      /\ <<header, e, Footer>>[2] = e /\ <<header, e, Footer>>[3] = Footer
  OBVIOUS
<1> QED
  BY <1>1, <1>3, <1>4, <1>5, <1>6

\* A file without a block has the shape.
LEMMA OwnInShape ==
  ASSUME NEW users \in Seq(UserLines)
  PROVE  InShape(OwnLines(users), users)
<1> DEFINE text == OwnLines(users)
<1>1. /\ text \in Seq(Lines) /\ Len(text) = Len(users) /\ Len(users) \in Nat
      /\ \A i \in 1..Len(users) : text[i] = UserLine(users[i])
  BY OwnLinesType
<1> HIDE DEF text
<1>2. \A i \in 0 + 1 .. Len(text) : text[i] = UserLine(users[i - (0 - 0)])
  <2> TAKE i \in 0 + 1 .. Len(text)
  <2>1. i \in 1..Len(users) /\ i - (0 - 0) = i
    BY <1>1
  <2> QED
    BY <1>1, <2>1
<1>3. Shaped(text, users, 0, 0)
  BY <1>1, <1>2 DEF Shaped
<1>4. InShape(text, users)
  BY <1>1, <1>3 DEF InShape
<1> QED
  BY <1>4 DEF text

\* A block at the end, and one of the script's that is only begun.
LEMMA BlockInShape ==
  ASSUME NEW users \in Seq(UserLines), NEW header \in HeaderLines, NEW ip \in Gateways
  PROVE  LET text == OwnLines(users) \o Block(header, ip)
         IN /\ InShape(text, users) /\ Len(text) = Len(users) + 3
            /\ header = ShHeader =>
                 \A n \in Len(users) .. Len(text) - 1 : InShape(SubSeq(text, 1, n), users)
<1> DEFINE x == OwnLines(users)
           y == Block(header, ip)
           a == Len(users)
           text == x \o y
<1>1. /\ x \in Seq(Lines) /\ Len(x) = a /\ a \in Nat
      /\ \A i \in 1..a : x[i] = UserLine(users[i])
  BY OwnLinesType
<1>2. /\ y \in Seq(Lines) /\ Len(y) = 3
      /\ y[1] = header /\ y[2] \in Entries /\ y[3] = Footer
  BY BlockType
<1> HIDE DEF x, y
<1>3. /\ text \in Seq(Lines) /\ Len(text) = a + 3
      /\ \A i \in 1 .. a + 3 : text[i] = IF i <= a THEN x[i] ELSE y[i - a]
  <2>1. /\ text \in Seq(Lines) /\ Len(text) = Len(x) + Len(y)
        /\ \A i \in 1 .. Len(x) + Len(y) :
             text[i] = IF i <= Len(x) THEN x[i] ELSE y[i - Len(x)]
    <3>1. x \in Seq(Lines) /\ y \in Seq(Lines)
      BY <1>1, <1>2
    <3> QED
      BY <3>1, ConcatProperties
  <2>2. Len(x) = a /\ Len(x) + Len(y) = a + 3
    BY <1>1, <1>2
  <2> HIDE DEF text, a
  <2> QED
    BY <2>1, <2>2
<1> HIDE DEF text, a
<1>4. \A i \in 1..a : text[i] = UserLine(users[i])
  BY <1>1, <1>3
<1>5. text[a + 1] = header /\ text[a + 2] \in Entries /\ text[a + 3] = Footer
  <2>1. text[a + 1] = y[(a + 1) - a] /\ text[a + 2] = y[(a + 2) - a] /\ text[a + 3] = y[(a + 3) - a]
    BY <1>1, <1>3
  <2>2. (a + 1) - a = 1 /\ (a + 2) - a = 2 /\ (a + 3) - a = 3
    BY <1>1
  <2> QED
    BY <1>2, <2>1, <2>2
<1>6. InShape(text, users)
  <2>1. \A i \in (a + 3) + 1 .. Len(text) : FALSE
    BY <1>1, <1>3
  <2>2. a <= a + 3 /\ a + 3 <= Len(text) /\ Len(text) = a + ((a + 3) - a) /\ a + 3 \in Nat
    BY <1>1, <1>3
  <2>3. Shaped(text, users, a, a + 3)
    BY <1>4, <1>5, <2>1, <2>2 DEF Shaped, a
  <2> QED
    BY <1>1, <1>3, <2>2, <2>3 DEF InShape
<1>7. ASSUME header = ShHeader, NEW n \in a .. Len(text) - 1
      PROVE  InShape(SubSeq(text, 1, n), users)
  <2> DEFINE s == SubSeq(text, 1, n)
  <2>1. n \in Nat /\ n \in 0..Len(text) /\ n \in {a, a + 1, a + 2}
    BY <1>1, <1>3
  <2>2. \A i \in 1..Len(text) : text[i] \in Lines
    BY <1>3, ElementOfSeq
  <2>3. s \in Seq(Lines) /\ Len(s) = n /\ \A i \in 1..n : s[i] = text[i]
    <3>1. \A i \in 1..n : text[i] \in Lines
      BY <1>1, <1>3, <2>1, <2>2
    <3>2. /\ s \in Seq(Lines) /\ Len(s) = (IF 1 <= n THEN n - 1 + 1 ELSE 0)
          /\ \A i \in 1 .. n - 1 + 1 : s[i] = text[1 + i - 1]
      BY <2>1, <3>1, SubSeqProperties
    <3> HIDE DEF s
    <3>3. Len(s) = n
      BY <2>1, <3>2
    <3>4. \A i \in 1..n : i \in 1 .. n - 1 + 1 /\ 1 + i - 1 = i
      BY <2>1
    <3> QED
      BY <3>2, <3>3, <3>4
  <2> HIDE DEF s
  <2>4. \A i \in 1..a : s[i] = UserLine(users[i])
    BY <1>1, <1>4, <2>1, <2>3
  <2>5. \A i \in n + 1 .. Len(s) : FALSE
    BY <2>1, <2>3
  <2>6. a <= n /\ n <= Len(s) /\ Len(s) = a + (n - a)
    BY <1>1, <2>1, <2>3
  <2>7. /\ n # a => s[a + 1] = ShHeader
        /\ n = a + 2 => s[n] \in Entries
    BY <1>1, <1>5, <1>7, <2>1, <2>3
  <2>8. Shaped(s, users, a, n)
    BY <2>1, <2>3, <2>4, <2>5, <2>6, <2>7 DEF Shaped, a
  <2>9. InShape(s, users)
    BY <1>1, <2>1, <2>3, <2>8 DEF InShape
  <2> QED
    BY <2>9 DEF s
<1> QED
  BY <1>3, <1>6, <1>7 DEF text, x, y, a

\* A line before a text.
LEMMA PutBefore ==
  ASSUME NEW L, NEW text \in Seq(L), NEW line \in L
  PROVE  /\ <<line>> \o text \in Seq(L) /\ Len(<<line>> \o text) = Len(text) + 1
         /\ (<<line>> \o text)[1] = line
         /\ \A i \in 1..Len(text) : (<<line>> \o text)[i + 1] = text[i]
<1> DEFINE x == <<line>>
<1>1. x \in Seq(L) /\ Len(x) = 1 /\ x[1] = line
  OBVIOUS
<1> HIDE DEF x
<1>2. /\ x \o text \in Seq(L) /\ Len(x \o text) = 1 + Len(text) /\ Len(text) \in Nat
      /\ \A i \in 1 .. 1 + Len(text) : (x \o text)[i] = IF i <= 1 THEN x[i] ELSE text[i - 1]
  <2>1. /\ x \o text \in Seq(L) /\ Len(x \o text) = Len(x) + Len(text)
        /\ \A i \in 1 .. Len(x) + Len(text) :
             (x \o text)[i] = IF i <= Len(x) THEN x[i] ELSE text[i - Len(x)]
    BY <1>1, ConcatProperties
  <2>2. Len(text) \in Nat
    BY LenProperties
  <2> QED
    BY <1>1, <2>1, <2>2
<1>3. (x \o text)[1] = line
  BY <1>1, <1>2
<1>4. ASSUME NEW i \in 1..Len(text)
      PROVE  (x \o text)[i + 1] = text[i]
  <2>1. i + 1 \in 1 .. 1 + Len(text) /\ ~(i + 1 <= 1) /\ (i + 1) - 1 = i
    BY <1>2
  <2> QED
    BY <1>2, <2>1
<1>5. Len(x \o text) = Len(text) + 1
  BY <1>2
<1> QED
  BY <1>2, <1>3, <1>4, <1>5 DEF x

\* The user's edits.
LEMMA AddedInShape ==
  ASSUME NEW text, NEW users \in Seq(UserLines), NEW u \in UserLines, InShape(text, users)
  PROVE  /\ ~Unfinished(text) => InShape(Append(text, UserLine(u)), Append(users, u))
         /\ InShape(<<UserLine(u)>> \o text, <<u>> \o users)
<1>1. PICK a, b \in Nat : Shaped(text, users, a, b)
  BY DEF InShape
<1>2. text \in Seq(Lines) /\ UserLine(u) \in Lines
  BY DEF InShape, Lines
<1>3. /\ DOMAIN text = 1..Len(text) /\ Len(text) \in Nat /\ Len(users) \in Nat
  BY <1>1, <1>2, ShapePlaces
<1>4. a <= b /\ b <= Len(text) /\ Len(text) = Len(users) + (b - a)
  BY <1>1 DEF Shaped
<1>5. ASSUME ~Unfinished(text)
      PROVE  InShape(Append(text, UserLine(u)), Append(users, u))
  <2>1. b = a \/ b = a + 3
    <3> SUFFICES ASSUME b # a, b # a + 3 PROVE Unfinished(text)
      BY <1>5
    <3>1. a + 1 \in Headers(text) /\ Places(text, Footer) = {}
      BY <1>1, <1>2, ShapePlaces
    <3>2. \A j \in a + 1 .. Len(text) : text[j] # Footer
      BY <1>3, <3>1 DEF Places
    <3> QED
      BY <3>1, <3>2 DEF Unfinished
  <2> DEFINE t == Append(text, UserLine(u))
             w == Append(users, u)
  <2>2. /\ t \in Seq(Lines) /\ Len(t) = Len(text) + 1 /\ t[Len(text) + 1] = UserLine(u)
        /\ \A i \in 1..Len(text) : t[i] = text[i]
    BY <1>2, AppendProperties
  <2>3. /\ w \in Seq(UserLines) /\ Len(w) = Len(users) + 1 /\ w[Len(users) + 1] = u
        /\ \A i \in 1..Len(users) : w[i] = users[i]
    BY AppendProperties
  <2> HIDE DEF t, w
  <2>4. ASSUME NEW i \in 1..a
        PROVE  t[i] = UserLine(w[i])
    <3>1. i \in 1..Len(text) /\ i \in 1..Len(users)
      BY <1>3, <1>4
    <3>2. text[i] = UserLine(users[i])
      BY <1>1 DEF Shaped
    <3> QED
      BY <2>2, <2>3, <3>1, <3>2
  <2>5. ASSUME NEW i \in b + 1 .. Len(t)
        PROVE  t[i] = UserLine(w[i - (b - a)])
    <3>1. CASE i = Len(t)
      <4>1. i - (b - a) = Len(users) + 1 /\ i = Len(text) + 1
        BY <1>3, <1>4, <2>2, <3>1
      <4> QED
        BY <2>2, <2>3, <4>1
    <3>2. CASE i # Len(t)
      <4>1. i \in Nat /\ b + 1 <= i /\ i <= Len(text)
        BY <1>3, <2>2, <3>2
      <4>2. i \in b + 1 .. Len(text) /\ i \in 1..Len(text) /\ i - (b - a) \in 1..Len(users)
        BY <1>3, <1>4, <4>1
      <4>3. text[i] = UserLine(users[i - (b - a)])
        BY <1>1, <4>2 DEF Shaped
      <4> QED
        BY <2>2, <2>3, <4>2, <4>3
    <3> QED
      BY <3>1, <3>2
  <2>6. b <= Len(t) /\ Len(t) = Len(w) + (b - a)
    BY <1>3, <1>4, <2>2, <2>3
  <2>7. b = a + 3 => /\ t[a + 1] \in HeaderLines /\ t[a + 2] \in Entries /\ t[b] = Footer
    <3> SUFFICES ASSUME b = a + 3
                 PROVE  t[a + 1] \in HeaderLines /\ t[a + 2] \in Entries /\ t[b] = Footer
      OBVIOUS
    <3>1. text[a + 1] \in HeaderLines /\ text[a + 2] \in Entries /\ text[b] = Footer
      BY <1>1 DEF Shaped
    <3>2. a + 1 \in 1..Len(text) /\ a + 2 \in 1..Len(text) /\ b \in 1..Len(text)
      BY <1>3, <1>4
    <3> QED
      BY <2>2, <3>1, <3>2
  <2>8. Shaped(t, w, a, b)
    BY <1>4, <2>1, <2>4, <2>5, <2>6, <2>7 DEF Shaped
  <2>9. InShape(t, w)
    BY <2>2, <2>8 DEF InShape
  <2> QED
    BY <2>9 DEF t, w
<1>6. InShape(<<UserLine(u)>> \o text, <<u>> \o users)
  <2> DEFINE t == <<UserLine(u)>> \o text
             w == <<u>> \o users
  <2>1. /\ t \in Seq(Lines) /\ Len(t) = Len(text) + 1 /\ t[1] = UserLine(u)
        /\ \A i \in 1..Len(text) : t[i + 1] = text[i]
    BY <1>2, PutBefore
  <2>2. /\ w \in Seq(UserLines) /\ Len(w) = Len(users) + 1 /\ w[1] = u
        /\ \A i \in 1..Len(users) : w[i + 1] = users[i]
    BY PutBefore
  <2> HIDE DEF t, w
  <2>3. ASSUME NEW i \in 1 .. a + 1
        PROVE  t[i] = UserLine(w[i])
    <3>1. CASE i = 1
      BY <2>1, <2>2, <3>1
    <3>2. CASE i # 1
      <4> DEFINE j == i - 1
      <4>1. j \in 1..a /\ j \in 1..Len(text) /\ j \in 1..Len(users) /\ i = j + 1
        BY <1>3, <1>4, <3>2
      <4> HIDE DEF j
      <4>2. text[j] = UserLine(users[j])
        BY <1>1, <4>1 DEF Shaped
      <4> QED
        BY <2>1, <2>2, <4>1, <4>2
    <3> QED
      BY <3>1, <3>2
  <2>4. ASSUME NEW i \in (b + 1) + 1 .. Len(t)
        PROVE  t[i] = UserLine(w[i - ((b + 1) - (a + 1))])
    <3> DEFINE j == i - 1
               k == j - (b - a)
    <3>1. /\ j \in b + 1 .. Len(text) /\ j \in 1..Len(text) /\ i = j + 1
          /\ k \in 1..Len(users) /\ i - ((b + 1) - (a + 1)) = k + 1
      BY <1>3, <1>4, <2>1
    <3>2. text[j] = UserLine(users[k])
      BY <1>1, <3>1 DEF Shaped
    <3> HIDE DEF j, k
    <3>3. t[i] = text[j] /\ w[k + 1] = users[k]
      BY <2>1, <2>2, <3>1
    <3> QED
      BY <3>1, <3>2, <3>3
  <2>5. /\ a + 1 <= b + 1 /\ b + 1 <= Len(t) /\ Len(t) = Len(w) + ((b + 1) - (a + 1))
        /\ a + 1 \in Nat /\ b + 1 \in Nat
    BY <1>3, <1>4, <2>1, <2>2
  <2>6. \/ b + 1 = a + 1
        \/ /\ b + 1 = (a + 1) + 3 /\ t[(a + 1) + 1] \in HeaderLines
           /\ t[(a + 1) + 2] \in Entries /\ t[b + 1] = Footer
        \/ /\ b + 1 \in {(a + 1) + 1, (a + 1) + 2} /\ b + 1 = Len(t) /\ t[(a + 1) + 1] = ShHeader
           /\ b + 1 = (a + 1) + 2 => t[b + 1] \in Entries
    <3>1. CASE b = a
      BY <3>1
    <3>2. CASE /\ b = a + 3 /\ text[a + 1] \in HeaderLines
               /\ text[a + 2] \in Entries /\ text[b] = Footer
      <4>1. a + 1 \in 1..Len(text) /\ a + 2 \in 1..Len(text) /\ b \in 1..Len(text)
        BY <1>3, <1>4, <3>2
      <4>2. (a + 1) + 2 = (a + 2) + 1 /\ b + 1 = (a + 1) + 3
        BY <3>2
      <4>3. t[(a + 1) + 1] = text[a + 1] /\ t[(a + 2) + 1] = text[a + 2] /\ t[b + 1] = text[b]
        BY <2>1, <4>1
      <4> QED
        BY <3>2, <4>2, <4>3
    <3>3. CASE /\ b \in {a + 1, a + 2} /\ b = Len(text) /\ text[a + 1] = ShHeader
               /\ b = a + 2 => text[b] \in Entries
      <4>1. a + 1 \in 1..Len(text) /\ b \in 1..Len(text)
        BY <1>3, <1>4, <3>3
      <4>2. /\ b + 1 \in {(a + 1) + 1, (a + 1) + 2} /\ b + 1 = Len(t)
            /\ b + 1 = (a + 1) + 2 => b = a + 2
        <5>1. b + 1 = Len(t)
          BY <2>1, <3>3
        <5>2. b + 1 = (a + 1) + 2 => b = a + 2
          OBVIOUS
        <5>3. b + 1 \in {(a + 1) + 1, (a + 1) + 2}
          BY <3>3
        <5> QED
          BY <5>1, <5>2, <5>3
      <4>3. t[(a + 1) + 1] = text[a + 1] /\ t[b + 1] = text[b]
        BY <2>1, <4>1
      <4> QED
        BY <3>3, <4>2, <4>3
    <3> QED
      BY <1>1, <3>1, <3>2, <3>3 DEF Shaped
  <2>7. Shaped(t, w, a + 1, b + 1)
    BY <2>3, <2>4, <2>5, <2>6 DEF Shaped
  <2>8. InShape(t, w)
    BY <2>1, <2>5, <2>7 DEF InShape
  <2> QED
    BY <2>8 DEF t, w
<1> QED
  BY <1>5, <1>6

-------------------------------------------------------------------------------
(***************************************************************************)
(* What the running command has still to write.                            *)
(***************************************************************************)

CertFiles == {"ca.crt", "ca.key", "leaf.crt", "leaf.key"}

\* A sequence, of whatever.
Proper(s) == s \in Seq({s[i] : i \in DOMAIN s})

\* What slot i of the binary may hold, and what a whole binary.
InSlot(i, is) ==
  /\ Pristine[i] \in Addresses => is \in Addresses /\ Chars[is] <= Chars[Pristine[i]]
  /\ Pristine[i] = ValveKey    => is \in BridgeKeys \cup {ValveKey}
  /\ Pristine[i] \in OtherKeys => is = Pristine[i]

GoodBinary(binary) ==
  /\ binary \in Seq(Slots) /\ Len(binary) <= Len(Pristine)
  /\ \A i \in 1..Len(binary) : InSlot(i, binary[i])
  /\ \A i, j \in 1..Len(binary) :
       Pristine[i] = ValveKey /\ Pristine[j] = ValveKey => binary[i] = binary[j]

BinaryInv == GoodBinary(files["dylib"])

\* The binary is changed only when there is a backup.
BackupInv ==
  /\ ~Exists("dylib.orig") => files["dylib"] = Pristine
  /\ Exists("dylib.orig") =>
       /\ \E n \in 0..Len(Pristine) : files["dylib.orig"] = SubSeq(Pristine, 1, n)
       /\ "dylib.orig" \notin harmed => files["dylib.orig"] = Pristine

KeyInv ==
  files["cm-rsa.key"] \in {Absent, <<>>} \cup {<<k>> : k \in BridgeKeys}

\* The backup comes before the binary.
ClientWrites ==
  \A i \in DOMAIN job :
    /\ job[i].to = "dylib" =>
         /\ GoodBinary(job[i].data) /\ job[i].kept = 0
         /\ Exists("dylib.orig") \/ \E j \in 1 .. i - 1 : job[j].to = "dylib.orig"
    /\ job[i].to = "dylib.orig" => job[i].data = Pristine /\ job[i].kept = 0
    /\ job[i].to = "cm-rsa.key" =>
         job[i].data \in {<<k>> : k \in BridgeKeys} /\ job[i].kept = 0

ClientInv == BinaryInv /\ BackupInv /\ KeyInv /\ ClientWrites

\* A key file is there only behind its certificate, the leaf's only behind the CA's.
PairInv ==
  /\ Exists("ca.key") =>
       \E k \in Nat : /\ files["ca.crt"] = <<Certificate(k, k)>>
                      /\ files["ca.key"] \in {<<>>, <<k>>}
  /\ Exists("leaf.key") =>
       \E k, l \in Nat : /\ files["ca.key"]   = <<k>>
                         /\ files["leaf.crt"] = <<Certificate(l, k)>>
                         /\ files["leaf.key"] \in {<<>>, <<l>>}

\* What is left of ensure_bundle_cert(), for a CA key k and a leaf key l.
LastOne(l)      == <<InPlace("leaf.key", <<l>>)>>
LastTwo(k, l)   == <<InPlace("leaf.crt", <<Certificate(l, k)>>), InPlace("leaf.key", <<l>>)>>
LastThree(k, l) == <<InPlace("ca.key", <<k>>),
                     InPlace("leaf.crt", <<Certificate(l, k)>>), InPlace("leaf.key", <<l>>)>>
AllFour(k, l)   == <<InPlace("ca.crt", <<Certificate(k, k)>>), InPlace("ca.key", <<k>>),
                     InPlace("leaf.crt", <<Certificate(l, k)>>), InPlace("leaf.key", <<l>>)>>

OtherJob == \A i \in DOMAIN job : job[i].to \notin CertFiles

CertJob ==
  \/ OtherJob
  \/ \E k, l \in Nat :
       \/ job = AllFour(k, l) /\ ~Exists("ca.key")
       \/ job = LastThree(k, l) /\ ~Exists("ca.key") /\ files["ca.crt"] = <<Certificate(k, k)>>
       \/ job = LastTwo(k, l) /\ ~Exists("leaf.key") /\ files["ca.key"] = <<k>>
       \/ /\ job = LastOne(l) /\ ~Exists("leaf.key") /\ files["ca.key"] = <<k>>
          /\ files["leaf.crt"] = <<Certificate(l, k)>>

Frame == DOMAIN files = Files /\ Proper(job) /\ pairs \in Nat

IInv == Frame /\ ClientInv /\ PairInv /\ CertJob

\* The hosts file is the user's lines and a block; a copy is from before the
\* script's first block, and until there is one there is no such block.
TextInv ==
  /\ own \in Seq(UserLines) /\ files["hosts"] \in Seq(Lines)
  /\ InOrder => InShape(files["hosts"], own)

BeforeScript == Seq(Lines \ {ShHeader})

\* A beginning of what was to be copied, all of it unless a kill cut it.
IsSaved(text) ==
  /\ text \in BeforeScript /\ Len(text) <= Len(saved) /\ text = SubSeq(saved, 1, Len(text))
  /\ "hosts.bak" \notin harmed => text = saved

CopyInv ==
  /\ saved \in BeforeScript
  /\ IF Exists("hosts.bak") THEN IsSaved(files["hosts.bak"])
                            ELSE files["hosts"] \in BeforeScript

\* What is written to the hosts file has its shape, and so has what an interrupted
\* write leaves of it where nothing that was there can be lost.
KeepsShape(w, users) ==
  /\ InShape(w.data, users)
  /\ w.kept # 0 => \A n \in w.kept .. Len(w.data) - 1 : InShape(SubSeq(w.data, 1, n), users)

HostsWrites ==
  \A i \in DOMAIN job :
    /\ job[i].to = "hosts" =>
         /\ job[i].data \in Seq(Lines) /\ job[i].kept \in Nat
         /\ InOrder => KeepsShape(job[i], own)
         /\ \/ job[i].data \in BeforeScript \/ Exists("hosts.bak")
            \/ \E j \in 1 .. i - 1 : job[j].to = "hosts.bak"
    /\ job[i].to = "hosts.bak" => job[i].data = saved /\ job[i].kept = 0

HostsInv == TextInv /\ CopyInv /\ HostsWrites

\* A key file has a key that was made, or a beginning of it.
KeyTexts ==
  /\ files["cm-rsa.key"] \in {Absent, <<>>} \cup {<<k>> : k \in generated}
  /\ \A f \in {"ca.key", "leaf.key"} : files[f] \in {Absent, <<>>} \cup {<<k>> : k \in 1..pairs}

KeyWrites ==
  \A i \in DOMAIN job :
    /\ job[i].to \in Files
    /\ job[i].to = "cm-rsa.key" =>
         job[i].kept = 0 /\ job[i].data \in {<<k>> : k \in generated}
    /\ job[i].to \in {"ca.key", "leaf.key"} =>
         job[i].kept = 0 /\ job[i].data \in {<<k>> : k \in 1..pairs}

KeysInv ==
  /\ generated \subseteq BridgeKeys /\ mixed \in BOOLEAN
  /\ harmed \subseteq Files /\ kills \in 0..MaxKills
  /\ KeyTexts /\ KeyWrites

-------------------------------------------------------------------------------
(***************************************************************************)
(* Sequences of writes.                                                    *)
(***************************************************************************)

\* A sequence of anything is one of what is in it.
LEMMA ProperIf ==
  ASSUME NEW W, NEW s \in Seq(W)
  PROVE  Proper(s)
<1>1. Len(s) \in Nat /\ s \in [1..Len(s) -> W] /\ DOMAIN s = 1..Len(s)
  BY LenProperties
<1>2. s \in [1..Len(s) -> {s[i] : i \in DOMAIN s}]
  BY <1>1
<1> QED
  BY <1>1, <1>2, SeqDef DEF Proper

\* What a list holds.
LEMMA AllIn ==
  ASSUME NEW W, NEW s \in Seq(W)
  PROVE  \A i \in DOMAIN s : s[i] \in W
BY LenProperties, ElementOfSeq

\* What a command has before it after its first write.
LEMMA ProperTail ==
  ASSUME NEW s, Proper(s), s # <<>>
  PROVE  /\ Proper(Tail(s)) /\ 1 \in DOMAIN s /\ Head(s) = s[1]
         /\ \E n \in Nat : DOMAIN Tail(s) = 1..n
         /\ \A i \in DOMAIN Tail(s) :
              i \in Nat \ {0} /\ i + 1 \in DOMAIN s /\ Tail(s)[i] = s[i + 1]
<1> DEFINE W == {s[i] : i \in DOMAIN s}
<1>1. s \in Seq(W)
  BY DEF Proper
<1> HIDE DEF W
<1>2. /\ Tail(s) \in Seq(W) /\ Len(Tail(s)) = Len(s) - 1
      /\ \A i \in 1..Len(Tail(s)) : Tail(s)[i] = s[i + 1]
  BY <1>1, HeadTailProperties
<1>3. DOMAIN Tail(s) = 1..Len(Tail(s)) /\ DOMAIN s = 1..Len(s) /\ Len(s) \in Nat /\ Len(s) # 0
  BY <1>1, <1>2, LenProperties, EmptySeq
<1>4. Head(s) = s[1]
  BY <1>1
<1>5. Proper(Tail(s))
  BY <1>2, ProperIf
<1>6. /\ 1 \in DOMAIN s /\ Len(Tail(s)) \in Nat
      /\ \A i \in 1..Len(Tail(s)) : i \in Nat \ {0} /\ i + 1 \in DOMAIN s
  BY <1>2, <1>3
<1> QED
  BY <1>2, <1>3, <1>4, <1>5, <1>6

\* Lists of one to four writes.
LEMMA ListOfOne ==
  ASSUME NEW a
  PROVE  Proper(<<a>>) /\ DOMAIN <<a>> = {1} /\ Head(<<a>>) = a /\ Tail(<<a>>) = <<>>
<1>1. <<a>> \in Seq({a})
  OBVIOUS
<1>2. DOMAIN <<a>> = {1} /\ Head(<<a>>) = a /\ Tail(<<a>>) = <<>>
  OBVIOUS
<1> QED
  BY <1>1, <1>2, ProperIf

\* Two of them.
LEMMA ListOfTwo ==
  ASSUME NEW a, NEW b
  PROVE  /\ Proper(<<a, b>>) /\ DOMAIN <<a, b>> = {1, 2}
         /\ Head(<<a, b>>) = a /\ Tail(<<a, b>>) = <<b>>
<1>1. <<a, b>> \in Seq({a, b})
  OBVIOUS
<1>2. DOMAIN <<a, b>> = {1, 2} /\ Head(<<a, b>>) = a /\ Tail(<<a, b>>) = <<b>>
  OBVIOUS
<1> QED
  BY <1>1, <1>2, ProperIf

\* Three.
LEMMA ListOfThree ==
  ASSUME NEW a, NEW b, NEW c
  PROVE  /\ Proper(<<a, b, c>>) /\ DOMAIN <<a, b, c>> = {1, 2, 3}
         /\ Head(<<a, b, c>>) = a /\ Tail(<<a, b, c>>) = <<b, c>>
<1>1. <<a, b, c>> \in Seq({a, b, c})
  OBVIOUS
<1>2. DOMAIN <<a, b, c>> = {1, 2, 3} /\ Head(<<a, b, c>>) = a /\ Tail(<<a, b, c>>) = <<b, c>>
  OBVIOUS
<1> QED
  BY <1>1, <1>2, ProperIf

\* Four.
LEMMA ListOfFour ==
  ASSUME NEW a, NEW b, NEW c, NEW d
  PROVE  /\ Proper(<<a, b, c, d>>) /\ DOMAIN <<a, b, c, d>> = {1, 2, 3, 4}
         /\ Head(<<a, b, c, d>>) = a /\ Tail(<<a, b, c, d>>) = <<b, c, d>>
<1>1. <<a, b, c, d>> \in Seq({a, b, c, d})
  OBVIOUS
<1>2. /\ DOMAIN <<a, b, c, d>> = {1, 2, 3, 4}
      /\ Head(<<a, b, c, d>>) = a /\ Tail(<<a, b, c, d>>) = <<b, c, d>>
  OBVIOUS
<1> QED
  BY <1>1, <1>2, ProperIf

\* A list behind an empty one, or behind another.
LEMMA JoinedToNothing ==
  ASSUME NEW a, NEW b
  PROVE  /\ <<>> \o <<>> = <<>> /\ <<>> \o <<a>> = <<a>> /\ <<>> \o <<a, b>> = <<a, b>>
<1>1. <<>> \in Seq({a, b}) /\ <<a>> \in Seq({a, b}) /\ <<a, b>> \in Seq({a, b})
  OBVIOUS
<1> QED
  BY <1>1, ConcatEmptySeq

\* Lists put together, behind one write.
LEMMA JoinedToOne ==
  ASSUME NEW a, NEW b, NEW c
  PROVE  <<a>> \o <<b>> = <<a, b>> /\ <<a>> \o <<b, c>> = <<a, b, c>>
<1> DEFINE W == {a, b, c}
<1>1. /\ <<a>> \in Seq(W) /\ <<b>> \in Seq(W) /\ <<a, b>> \in Seq(W)
      /\ <<b, c>> \in Seq(W) /\ <<a, b, c>> \in Seq(W)
  OBVIOUS
<1>2. /\ Len(<<a>>) = 1 /\ Len(<<b>>) = 1 /\ Len(<<a, b>>) = 2 /\ Len(<<b, c>>) = 2
      /\ Len(<<a, b, c>>) = 3
  OBVIOUS
<1> HIDE DEF W
<1>3. <<a>> \o <<b>> = <<a, b>>
  <2>1. /\ <<a>> \o <<b>> \in Seq(W) /\ Len(<<a>> \o <<b>>) = 2
        /\ (<<a>> \o <<b>>)[1] = a /\ (<<a>> \o <<b>>)[2] = b
    BY <1>1, <1>2, ConcatProperties
  <2>2. \A i \in 1..2 : (<<a>> \o <<b>>)[i] = <<a, b>>[i]
    BY <2>1
  <2> QED
    BY <1>1, <1>2, <2>1, <2>2, SeqEqual
<1>4. <<a>> \o <<b, c>> = <<a, b, c>>
  <2>1. /\ <<a>> \o <<b, c>> \in Seq(W) /\ Len(<<a>> \o <<b, c>>) = 3
        /\ (<<a>> \o <<b, c>>)[1] = a /\ (<<a>> \o <<b, c>>)[2] = b
        /\ (<<a>> \o <<b, c>>)[3] = c
    BY <1>1, <1>2, ConcatProperties
  <2>2. \A i \in 1..3 : (<<a>> \o <<b, c>>)[i] = <<a, b, c>>[i]
    BY <2>1
  <2> QED
    BY <1>1, <1>2, <2>1, <2>2, SeqEqual
<1> QED
  BY <1>3, <1>4

\* And behind two.
LEMMA JoinedToTwo ==
  ASSUME NEW a, NEW b, NEW c, NEW d
  PROVE  <<a, b>> \o <<c, d>> = <<a, b, c, d>>
<1> DEFINE W == {a, b, c, d}
<1>1. <<a, b>> \in Seq(W) /\ <<c, d>> \in Seq(W) /\ <<a, b, c, d>> \in Seq(W)
  OBVIOUS
<1>2. Len(<<a, b>>) = 2 /\ Len(<<c, d>>) = 2 /\ Len(<<a, b, c, d>>) = 4
  OBVIOUS
<1> HIDE DEF W
<1>3. <<a, b>> \o <<c, d>> = <<a, b, c, d>>
  <2>1. /\ <<a, b>> \o <<c, d>> \in Seq(W) /\ Len(<<a, b>> \o <<c, d>>) = 4
        /\ (<<a, b>> \o <<c, d>>)[1] = a /\ (<<a, b>> \o <<c, d>>)[2] = b
        /\ (<<a, b>> \o <<c, d>>)[3] = c /\ (<<a, b>> \o <<c, d>>)[4] = d
    BY <1>1, <1>2, ConcatProperties
  <2>2. \A i \in 1..4 : (<<a, b>> \o <<c, d>>)[i] = <<a, b, c, d>>[i]
    BY <2>1
  <2> QED
    BY <1>1, <1>2, <2>1, <2>2, SeqEqual
<1> QED
  BY <1>3

-------------------------------------------------------------------------------
(***************************************************************************)
(* Binaries.                                                               *)
(***************************************************************************)

\* The binary that was downloaded is good, and so is a beginning of a good one.
LEMMA PristineIsGood == GoodBinary(Pristine)
<1>1. /\ Pristine \in Seq(Addresses \cup {ValveKey} \cup OtherKeys)
      /\ Addresses \cup {ValveKey} \cup OtherKeys \subseteq Slots
  BY PatcherAssumption DEF Slots
<1>2. Pristine \in Seq(Slots)
  BY <1>1, SeqMonotonic
<1>3. \A i \in 1..Len(Pristine) :
        Pristine[i] \in Addresses \cup {ValveKey} \cup OtherKeys
  BY <1>1, ElementOfSeq
<1>4. Len(Pristine) \in Nat /\ \A a \in Addresses : Chars[a] \in Nat
  BY <1>1, PatcherAssumption, LenProperties
<1> QED
  BY <1>2, <1>3, <1>4 DEF GoodBinary, InSlot

\* A beginning of a good binary is one: what an interrupted write leaves.
LEMMA BeginningIsGood ==
  ASSUME NEW b, GoodBinary(b), NEW n \in 0..Len(b)
  PROVE  GoodBinary(SubSeq(b, 1, n)) /\ Len(SubSeq(b, 1, n)) = n
<1>1. b \in Seq(Slots) /\ Len(b) \in Nat /\ \A i \in 1..n : b[i] \in Slots
  BY LenProperties, ElementOfSeq DEF GoodBinary
<1>2. /\ SubSeq(b, 1, n) \in Seq(Slots) /\ Len(SubSeq(b, 1, n)) = n
      /\ \A i \in 1..n : SubSeq(b, 1, n)[i] = b[i]
  BY <1>1, SubSeqProperties
<1>3. n <= Len(Pristine) /\ 1..n \subseteq 1..Len(b)
  <2>1. Len(Pristine) \in Nat
    BY PatcherAssumption, LenProperties
  <2> QED
    BY <1>1, <2>1 DEF GoodBinary
<1> QED
  BY <1>2, <1>3 DEF GoodBinary

\* --patch writes addresses where there is room, --swap-key swaps all of them.
LEMMA PatchedIsGood ==
  ASSUME NEW b, GoodBinary(b), NEW ip \in Gateways
  PROVE  GoodBinary(Patched(b, ip))
<1> DEFINE p == Patched(b, ip)
<1>1. b \in Seq(Slots) /\ Len(b) \in Nat /\ DOMAIN b = 1..Len(b) /\ Len(b) <= Len(Pristine)
  BY LenProperties DEF GoodBinary
<1>2. ip \in Addresses /\ ip \in Slots
  BY PatcherAssumption DEF Slots
<1>3. /\ p \in [1..Len(b) -> Slots]
      /\ \A i \in 1..Len(b) :
           \/ p[i] = b[i]
           \/ p[i] = ip /\ b[i] \in Addresses /\ Chars[ip] <= Chars[b[i]]
  BY <1>1, <1>2 DEF Patched, Scan, Fits
<1>4. p \in Seq(Slots) /\ Len(p) = Len(b)
  BY <1>1, <1>3, SeqDef
<1> HIDE DEF p
<1>5. ASSUME NEW i \in 1..Len(b)
      PROVE  InSlot(i, p[i]) /\ (Pristine[i] = ValveKey => p[i] = b[i])
  <2>1. InSlot(i, b[i])
    BY DEF GoodBinary
  <2>2. CASE p[i] = b[i]
    BY <2>1, <2>2
  <2>3. CASE p[i] = ip /\ b[i] \in Addresses /\ Chars[ip] <= Chars[b[i]]
    <3>1. Pristine[i] \in Addresses \cup {ValveKey} \cup OtherKeys
      <4>1. i \in 1..Len(Pristine)
        BY <1>1, PatcherAssumption, LenProperties
      <4> QED
        BY <4>1, PatcherAssumption, ElementOfSeq
    <3>2. Pristine[i] \in Addresses
      BY <2>1, <2>3, <3>1, PatcherAssumption DEF InSlot
    <3>3. Chars[ip] \in Nat /\ Chars[b[i]] \in Nat /\ Chars[Pristine[i]] \in Nat
      BY <1>2, <2>3, <3>2, PatcherAssumption
    <3> QED
      BY <1>2, <2>1, <2>3, <3>2, <3>3, PatcherAssumption DEF InSlot
  <2> QED
    BY <1>3, <2>2, <2>3
<1> QED
  BY <1>1, <1>4, <1>5 DEF GoodBinary, p

\* swap_modulus() keeps it good.
LEMMA SwappedIsGood ==
  ASSUME NEW b, GoodBinary(b), NEW k \in BridgeKeys
  PROVE  GoodBinary(Swapped(b, k))
<1> DEFINE p == Swapped(b, k)
<1>1. b \in Seq(Slots) /\ Len(b) \in Nat /\ DOMAIN b = 1..Len(b) /\ Len(b) <= Len(Pristine)
  BY LenProperties DEF GoodBinary
<1>2. /\ p \in [1..Len(b) -> Slots]
      /\ \A i \in 1..Len(b) : p[i] = IF b[i] = ValveKey THEN k ELSE b[i]
  BY <1>1 DEF Swapped, Slots
<1>3. p \in Seq(Slots) /\ Len(p) = Len(b)
  BY <1>1, <1>2, SeqDef
<1> HIDE DEF p
<1>4. ASSUME NEW i \in 1..Len(b)
      PROVE  InSlot(i, p[i])
  <2>1. InSlot(i, b[i])
    BY DEF GoodBinary
  <2> QED
    BY <1>2, <2>1, PatcherAssumption DEF InSlot
<1>5. \A i, j \in 1..Len(b) :
        Pristine[i] = ValveKey /\ Pristine[j] = ValveKey => p[i] = p[j]
  BY <1>2 DEF GoodBinary
<1> QED
  BY <1>1, <1>3, <1>4, <1>5 DEF GoodBinary, p

-------------------------------------------------------------------------------
(***************************************************************************)
(* Writes and interruptions keep the invariant.                            *)
(***************************************************************************)

\* What was written is there.
LEMMA Present ==
  /\ <<>> # Absent /\ Pristine # Absent
  /\ \A n \in 0..Len(Pristine) : SubSeq(Pristine, 1, n) # Absent
  /\ SubSeq(Pristine, 1, Len(Pristine)) = Pristine /\ Len(Pristine) \in Nat
  /\ \A k \in BridgeKeys : <<k>> # Absent
  /\ \A k, l \in Nat : <<k>> # Absent /\ <<Certificate(k, l)>> # Absent
<1>1. Pristine \in Seq(Slots) /\ Len(Pristine) \in Nat
  BY PristineIsGood, LenProperties DEF GoodBinary
<1>2. \A n \in 0..Len(Pristine) : SubSeq(Pristine, 1, n) \in Seq(Slots)
  BY PristineIsGood, BeginningIsGood DEF GoodBinary
<1>3. SubSeq(Pristine, 1, Len(Pristine)) = Pristine
  BY <1>1, SubSeqFull
<1>4. \A k \in BridgeKeys : <<k>> \in Seq(Slots)
  BY DEF Slots
<1>5. \A k, l \in Nat : <<k>> \in Seq(Nat) /\ <<Certificate(k, l)>> \in Seq([key : Nat, issuer : Nat])
  BY DEF Certificate
<1>6. <<>> \in Seq(Slots)
  OBVIOUS
<1> QED
  BY <1>1, <1>2, <1>3, <1>4, <1>5, <1>6, AbsentAssumption

\* A write: the binary's backup comes before the binary.
LEMMA WriteKeepsClient ==
  ASSUME IInv, Write, UNCHANGED pairs
  PROVE  Frame' /\ ClientInv'
<1> USE DEF IInv, Frame, ClientInv
<1> DEFINE w == Head(job)
<1>1. /\ job # <<>> /\ job' = Tail(job) /\ UNCHANGED harmed
      /\ files' = [files EXCEPT ![w.to] = w.data]
  BY DEF Write, Idle
<1>2. /\ Proper(job') /\ 1 \in DOMAIN job /\ w = job[1]
      /\ \E n \in Nat : DOMAIN job' = 1..n
      /\ \A i \in DOMAIN job' :
           i \in Nat \ {0} /\ i + 1 \in DOMAIN job /\ job'[i] = job[i + 1]
  BY <1>1, ProperTail
<1>3. /\ w.to = "dylib" => GoodBinary(w.data) /\ Exists("dylib.orig")
      /\ w.to = "dylib.orig" => w.data = Pristine
      /\ w.to = "cm-rsa.key" => w.data \in {<<k>> : k \in BridgeKeys}
  BY <1>2 DEF ClientWrites
<1> HIDE DEF w
<1>4. DOMAIN files' = Files /\ \A f \in Files : files'[f] = IF f = w.to THEN w.data ELSE files[f]
  BY <1>1
<1>5. {"dylib", "dylib.orig", "cm-rsa.key"} \subseteq Files
  BY DEF Files
<1>6. Frame'
  BY <1>2, <1>4
<1>7. BinaryInv'
  BY <1>3, <1>4, <1>5 DEF BinaryInv
<1>8. /\ Exists("dylib.orig") => Exists("dylib.orig")'
      /\ w.to = "dylib.orig"  => Exists("dylib.orig")'
  BY <1>3, <1>4, <1>5, Present DEF Exists
<1>9. BackupInv'
  <2>1. CASE w.to = "dylib.orig"
    <3>1. files'["dylib.orig"] = Pristine
      BY <1>3, <1>4, <1>5, <2>1
    <3>2. Len(Pristine) \in 0..Len(Pristine) /\ files'["dylib.orig"] = SubSeq(Pristine, 1, Len(Pristine))
      BY <3>1, Present
    <3> QED
      BY <1>8, <2>1, <3>1, <3>2 DEF BackupInv
  <2>2. CASE w.to # "dylib.orig"
    <3>1. files'["dylib.orig"] = files["dylib.orig"] /\ (Exists("dylib.orig")' <=> Exists("dylib.orig"))
      BY <1>4, <1>5, <2>2 DEF Exists
    <3>2. ~Exists("dylib.orig") => files'["dylib"] = files["dylib"]
      BY <1>3, <1>4, <1>5
    <3> QED
      BY <1>1, <3>1, <3>2 DEF BackupInv
  <2> QED
    BY <2>1, <2>2
<1>10. KeyInv'
  BY <1>3, <1>4, <1>5 DEF KeyInv
<1>11. ClientWrites'
  <2> SUFFICES ASSUME NEW i \in DOMAIN job',
                      job[i + 1].to = "dylib",
                      \E j \in 1..i : job[j].to = "dylib.orig"
               PROVE  Exists("dylib.orig")' \/ \E j \in 1 .. i - 1 : job'[j].to = "dylib.orig"
    BY <1>2, <1>8 DEF ClientWrites
  <2> PICK j \in 1..i : job[j].to = "dylib.orig"
    OBVIOUS
  <2>1. CASE j = 1
    BY <1>2, <1>8, <2>1
  <2>2. CASE j # 1
    <3>1. j - 1 \in 1 .. i - 1 /\ j - 1 \in DOMAIN job' /\ (j - 1) + 1 = j
      BY <1>2, <2>2
    <3> QED
      BY <1>2, <3>1
  <2> QED
    BY <2>1, <2>2
<1> QED
  BY <1>6, <1>7, <1>9, <1>10, <1>11

\* The beginning of a binary is good, that of a backup still one of the original's,
\* and that of a key file empty.
LEMMA KillKeepsClient ==
  ASSUME IInv, Killed, UNCHANGED pairs
  PROVE  Frame' /\ ClientInv'
<1> USE DEF IInv, Frame, ClientInv
<1> DEFINE w == Head(job)
<1>1. /\ job # <<>> /\ job' = <<>>
      /\ \/ UNCHANGED <<files, harmed>>
         \/ \E n \in w.kept .. Len(w.data) - 1 :
              /\ files' = [files EXCEPT ![w.to] = SubSeq(w.data, 1, n)]
              /\ harmed' = IF w.kept = 0 THEN harmed \cup {w.to} ELSE harmed
  BY DEF Killed, Idle
<1>2. 1 \in DOMAIN job /\ w = job[1]
  BY <1>1, ProperTail
<1>3. /\ w.to = "dylib" => GoodBinary(w.data) /\ Exists("dylib.orig") /\ w.kept = 0
      /\ w.to = "dylib.orig" => w.data = Pristine /\ w.kept = 0
      /\ w.to = "cm-rsa.key" => w.data \in {<<k>> : k \in BridgeKeys} /\ w.kept = 0
  BY <1>2 DEF ClientWrites
<1> HIDE DEF w
<1>4. Proper(job') /\ DOMAIN job' = {}
  BY <1>1 DEF Proper
<1>5. ClientWrites'
  BY <1>4 DEF ClientWrites
<1>6. {"dylib", "dylib.orig", "cm-rsa.key"} \subseteq Files
  BY DEF Files
<1>7. CASE UNCHANGED <<files, harmed>>
  BY <1>4, <1>5, <1>7 DEF BinaryInv, BackupInv, KeyInv, Exists
<1>8. ASSUME NEW n \in w.kept .. Len(w.data) - 1,
             files' = [files EXCEPT ![w.to] = SubSeq(w.data, 1, n)],
             harmed' = IF w.kept = 0 THEN harmed \cup {w.to} ELSE harmed
      PROVE  Frame' /\ ClientInv'
  <2>1. /\ DOMAIN files' = Files
        /\ \A f \in Files : files'[f] = IF f = w.to THEN SubSeq(w.data, 1, n) ELSE files[f]
    BY <1>8
  <2>2. BinaryInv'
    <3>1. CASE w.to = "dylib"
      <4>1. GoodBinary(w.data) /\ n \in 0..Len(w.data)
        <5>1. Len(w.data) \in Nat
          BY <1>3, <3>1, LenProperties DEF GoodBinary
        <5> QED
          BY <1>3, <1>8, <3>1, <5>1
      <4>2. GoodBinary(SubSeq(w.data, 1, n))
        BY <4>1, BeginningIsGood
      <4> QED
        BY <1>6, <2>1, <3>1, <4>2 DEF BinaryInv
    <3> QED
      BY <1>6, <2>1, <3>1 DEF BinaryInv
  <2>3. BackupInv'
    <3>1. CASE w.to = "dylib.orig"
      <4>1. /\ n \in 0..Len(Pristine) /\ harmed' = harmed \cup {"dylib.orig"}
            /\ files'["dylib.orig"] = SubSeq(Pristine, 1, n)
        BY <1>3, <1>6, <1>8, <2>1, <3>1, Present
      <4> QED
        BY <4>1, Present DEF BackupInv, Exists
    <3>2. CASE w.to # "dylib.orig"
      <4>1. /\ files'["dylib.orig"] = files["dylib.orig"]
            /\ Exists("dylib.orig")' <=> Exists("dylib.orig")
            /\ "dylib.orig" \notin harmed' => "dylib.orig" \notin harmed
        BY <1>6, <1>8, <2>1, <3>2 DEF Exists
      <4>2. ~Exists("dylib.orig") => files'["dylib"] = files["dylib"]
        BY <1>3, <1>6, <2>1
      <4> QED
        BY <4>1, <4>2 DEF BackupInv
    <3> QED
      BY <3>1, <3>2
  <2>4. KeyInv'
    <3>1. CASE w.to = "cm-rsa.key"
      <4>1. PICK k \in BridgeKeys : w.data = <<k>>
        BY <1>3, <3>1
      <4>2. n = 0 /\ SubSeq(<<k>>, 1, 0) = <<>>
        BY <1>3, <1>8, <3>1, <4>1
      <4> QED
        BY <1>6, <2>1, <3>1, <4>1, <4>2 DEF KeyInv
    <3> QED
      BY <1>6, <2>1, <3>1 DEF KeyInv
  <2> QED
    BY <1>4, <1>5, <2>1, <2>2, <2>3, <2>4
<1> QED
  BY <1>1, <1>7, <1>8

\* Each write of ensure_bundle_cert() leaves what the next ones need.
LEMMA WriteKeepsCerts ==
  ASSUME IInv, Write
  PROVE  PairInv' /\ CertJob'
<1> USE DEF IInv, Frame
<1> DEFINE w == Head(job)
<1>1. /\ job # <<>> /\ job' = Tail(job)
      /\ files' = [files EXCEPT ![w.to] = w.data]
  BY DEF Write, Idle
<1>2. /\ 1 \in DOMAIN job /\ w = job[1]
      /\ \A i \in DOMAIN job' : i + 1 \in DOMAIN job /\ job'[i] = job[i + 1]
  BY <1>1, ProperTail
<1>3. \A f \in Files : files'[f] = IF f = w.to THEN w.data ELSE files[f]
  BY <1>1
<1>4. CertFiles \subseteq Files
  BY DEF CertFiles, Files
<1>5. CASE OtherJob
  <2>1. OtherJob'
    BY <1>2, <1>5 DEF OtherJob
  <2>2. \A f \in CertFiles : files'[f] = files[f]
    BY <1>2, <1>3, <1>4, <1>5 DEF OtherJob
  <2> QED
    BY <2>1, <2>2 DEF PairInv, CertJob, Exists, CertFiles
<1>6. ASSUME NEW k \in Nat, NEW l \in Nat, job = AllFour(k, l), ~Exists("ca.key")
      PROVE  PairInv' /\ CertJob'
  <2>1. w = InPlace("ca.crt", <<Certificate(k, k)>>) /\ job' = LastThree(k, l)
    BY <1>1, <1>6, ListOfFour DEF AllFour, LastThree
  <2> HIDE DEF w
  <2>2. w.to = "ca.crt" /\ w.data = <<Certificate(k, k)>>
    BY <2>1 DEF InPlace
  <2>3. /\ files'["ca.crt"] = <<Certificate(k, k)>>
        /\ \A f \in CertFiles \ {"ca.crt"} : files'[f] = files[f]
    BY <1>3, <1>4, <2>2 DEF CertFiles
  <2>4. ~Exists("ca.key")' /\ ~Exists("leaf.key")'
    BY <1>6, <2>3, Present DEF PairInv, Exists, CertFiles
  <2> QED
    BY <2>1, <2>3, <2>4 DEF PairInv, CertJob
<1>7. ASSUME NEW k \in Nat, NEW l \in Nat, job = LastThree(k, l), ~Exists("ca.key"),
             files["ca.crt"] = <<Certificate(k, k)>>
      PROVE  PairInv' /\ CertJob'
  <2>1. w = InPlace("ca.key", <<k>>) /\ job' = LastTwo(k, l)
    BY <1>1, <1>7, ListOfThree DEF LastThree, LastTwo
  <2> HIDE DEF w
  <2>2. w.to = "ca.key" /\ w.data = <<k>>
    BY <2>1 DEF InPlace
  <2>3. /\ files'["ca.key"] = <<k>>
        /\ \A f \in CertFiles \ {"ca.key"} : files'[f] = files[f]
    BY <1>3, <1>4, <2>2 DEF CertFiles
  <2>4. ~Exists("leaf.key")' /\ files'["ca.crt"] = <<Certificate(k, k)>>
    BY <1>7, <2>3, Present DEF PairInv, Exists, CertFiles
  <2> QED
    BY <2>1, <2>3, <2>4 DEF PairInv, CertJob
<1>8. ASSUME NEW k \in Nat, NEW l \in Nat, job = LastTwo(k, l), ~Exists("leaf.key"),
             files["ca.key"] = <<k>>
      PROVE  PairInv' /\ CertJob'
  <2>1. w = InPlace("leaf.crt", <<Certificate(l, k)>>) /\ job' = LastOne(l)
    BY <1>1, <1>8, ListOfTwo DEF LastTwo, LastOne
  <2> HIDE DEF w
  <2>2. w.to = "leaf.crt" /\ w.data = <<Certificate(l, k)>>
    BY <2>1 DEF InPlace
  <2>3. /\ files'["leaf.crt"] = <<Certificate(l, k)>>
        /\ \A f \in CertFiles \ {"leaf.crt"} : files'[f] = files[f]
    BY <1>3, <1>4, <2>2 DEF CertFiles
  <2>4. /\ ~Exists("leaf.key")' /\ files'["ca.key"] = <<k>>
        /\ files'["ca.crt"] = files["ca.crt"] /\ (Exists("ca.key")' <=> Exists("ca.key"))
    BY <1>8, <2>3 DEF Exists, CertFiles
  <2> QED
    BY <1>8, <2>1, <2>3, <2>4 DEF PairInv, CertJob
<1>9. ASSUME NEW k \in Nat, NEW l \in Nat, job = LastOne(l), ~Exists("leaf.key"),
             files["ca.key"] = <<k>>, files["leaf.crt"] = <<Certificate(l, k)>>
      PROVE  PairInv' /\ CertJob'
  <2>1. w = InPlace("leaf.key", <<l>>) /\ job' = <<>>
    BY <1>1, <1>9, ListOfOne DEF LastOne
  <2> HIDE DEF w
  <2>2. w.to = "leaf.key" /\ w.data = <<l>>
    BY <2>1 DEF InPlace
  <2>3. /\ files'["leaf.key"] = <<l>>
        /\ \A f \in CertFiles \ {"leaf.key"} : files'[f] = files[f]
    BY <1>3, <1>4, <2>2 DEF CertFiles
  <2>4. /\ files'["leaf.crt"] = <<Certificate(l, k)>> /\ files'["ca.key"] = <<k>>
        /\ files'["ca.crt"] = files["ca.crt"] /\ (Exists("ca.key")' <=> Exists("ca.key"))
    BY <1>9, <2>3 DEF Exists, CertFiles
  <2>5. OtherJob'
    BY <2>1 DEF OtherJob
  <2> QED
    BY <1>9, <2>3, <2>4, <2>5 DEF PairInv, CertJob
<1> QED
  BY <1>5, <1>6, <1>7, <1>8, <1>9 DEF CertJob

\* A write that is cut short leaves an empty file, and nothing behind it.
LEMMA KillKeepsCerts ==
  ASSUME IInv, Killed
  PROVE  PairInv' /\ CertJob'
<1> USE DEF IInv, Frame
<1> DEFINE w == Head(job)
<1>1. /\ job # <<>> /\ job' = <<>>
      /\ \/ UNCHANGED files
         \/ \E n \in w.kept .. Len(w.data) - 1 :
              files' = [files EXCEPT ![w.to] = SubSeq(w.data, 1, n)]
  BY DEF Killed, Idle
<1>2. OtherJob' /\ CertJob'
  BY <1>1 DEF OtherJob, CertJob
<1>3. CASE UNCHANGED files
  BY <1>2, <1>3 DEF PairInv, Exists
<1>4. ASSUME NEW n \in w.kept .. Len(w.data) - 1,
             files' = [files EXCEPT ![w.to] = SubSeq(w.data, 1, n)]
      PROVE  PairInv'
  <2>1. \A f \in Files : files'[f] = IF f = w.to THEN SubSeq(w.data, 1, n) ELSE files[f]
    BY <1>4
  <2>2. CertFiles \subseteq Files
    BY DEF CertFiles, Files
  <2>3. CASE OtherJob
    <3>1. w.to \notin CertFiles
      BY <1>1, <2>3, ProperTail DEF OtherJob
    <3>2. \A f \in CertFiles : files'[f] = files[f]
      BY <2>1, <2>2, <3>1
    <3> QED
      BY <3>2 DEF PairInv, Exists, CertFiles
  <2>4. ASSUME NEW f \in CertFiles, NEW x, w = InPlace(f, <<x>>)
        PROVE  files'[f] = <<>> /\ \A g \in CertFiles \ {f} : files'[g] = files[g]
    <3>1. w.to = f /\ w.data = <<x>> /\ w.kept = 0
      BY <2>4 DEF InPlace
    <3> HIDE DEF w
    <3>2. n = 0 /\ SubSeq(<<x>>, 1, 0) = <<>>
      BY <1>4, <3>1
    <3> QED
      BY <2>1, <2>2, <3>1, <3>2
  <2>5. ASSUME NEW k \in Nat, NEW l \in Nat, job = AllFour(k, l), ~Exists("ca.key")
        PROVE  PairInv'
    <3>1. w = InPlace("ca.crt", <<Certificate(k, k)>>)
      BY <2>5, ListOfFour DEF AllFour
    <3>2. \A f \in CertFiles \ {"ca.crt"} : files'[f] = files[f]
      BY <2>4, <3>1 DEF CertFiles
    <3>3. ~Exists("ca.key")' /\ ~Exists("leaf.key")'
      BY <2>5, <3>2, Present DEF PairInv, Exists, CertFiles
    <3> QED
      BY <3>3 DEF PairInv
  <2>6. ASSUME NEW k \in Nat, NEW l \in Nat, job = LastThree(k, l), ~Exists("ca.key"),
               files["ca.crt"] = <<Certificate(k, k)>>
        PROVE  PairInv'
    <3>1. w = InPlace("ca.key", <<k>>)
      BY <2>6, ListOfThree DEF LastThree
    <3>2. files'["ca.key"] = <<>> /\ \A f \in CertFiles \ {"ca.key"} : files'[f] = files[f]
      BY <2>4, <3>1 DEF CertFiles
    <3>3. ~Exists("leaf.key")' /\ files'["ca.crt"] = <<Certificate(k, k)>>
      BY <2>6, <3>2, Present DEF PairInv, Exists, CertFiles
    <3> QED
      BY <3>2, <3>3 DEF PairInv
  <2>7. ASSUME NEW k \in Nat, NEW l \in Nat, job = LastTwo(k, l), ~Exists("leaf.key")
        PROVE  PairInv'
    <3>1. w = InPlace("leaf.crt", <<Certificate(l, k)>>)
      BY <2>7, ListOfTwo DEF LastTwo
    <3>2. \A f \in CertFiles \ {"leaf.crt"} : files'[f] = files[f]
      BY <2>4, <3>1 DEF CertFiles
    <3> QED
      BY <2>7, <3>2 DEF PairInv, Exists, CertFiles
  <2>8. ASSUME NEW k \in Nat, NEW l \in Nat, job = LastOne(l),
               files["ca.key"] = <<k>>, files["leaf.crt"] = <<Certificate(l, k)>>
        PROVE  PairInv'
    <3>1. w = InPlace("leaf.key", <<l>>)
      BY <2>8, ListOfOne DEF LastOne
    <3>2. files'["leaf.key"] = <<>> /\ \A f \in CertFiles \ {"leaf.key"} : files'[f] = files[f]
      BY <2>4, <3>1 DEF CertFiles
    <3>3. /\ files'["leaf.crt"] = <<Certificate(l, k)>> /\ files'["ca.key"] = <<k>>
          /\ files'["ca.crt"] = files["ca.crt"] /\ (Exists("ca.key")' <=> Exists("ca.key"))
      BY <2>8, <3>2 DEF Exists, CertFiles
    <3> QED
      BY <2>8, <3>2, <3>3 DEF PairInv
  <2> QED
    BY <2>3, <2>5, <2>6, <2>7, <2>8 DEF CertJob
<1> QED
  BY <1>1, <1>2, <1>3, <1>4

-------------------------------------------------------------------------------
(***************************************************************************)
(* So do the commands that begin.                                          *)
(***************************************************************************)

\* A command that begins has only planned its writes.
LEMMA BeginKeeps ==
  ASSUME IInv, NEW writes, Begin(writes), Proper(writes), pairs' \in Nat,
         ClientWrites', CertJob'
  PROVE  IInv'
BY DEF IInv, Frame, ClientInv, BinaryInv, BackupInv, KeyInv, PairInv, Exists, Begin

\* A command that backs the binary up once, and then writes a good one.
LEMMA BackedUpKeeps ==
  ASSUME IInv, NEW b, GoodBinary(b), UNCHANGED pairs,
         Begin(BackUpOnce \o <<InPlace("dylib", b)>>)
  PROVE  IInv'
<1> DEFINE backup == InPlace("dylib.orig", files["dylib"])
           new    == InPlace("dylib", b)
<1>1. /\ new.to = "dylib" /\ new.data = b /\ new.kept = 0
      /\ backup.to = "dylib.orig" /\ backup.data = files["dylib"] /\ backup.kept = 0
  BY DEF InPlace
<1>2. \/ Exists("dylib.orig") /\ job' = <<new>>
      \/ files["dylib"] = Pristine /\ job' = <<backup, new>>
  BY JoinedToNothing, JoinedToOne DEF Begin, BackUpOnce, IInv, ClientInv, BackupInv
<1>3. files' = files /\ (Exists("dylib.orig")' <=> Exists("dylib.orig")) /\ pairs' \in Nat
  BY DEF Begin, Exists, IInv, Frame
<1> HIDE DEF new, backup
<1>4. Proper(job')
  <2>1. Proper(<<new>>)
    BY ListOfOne
  <2>2. Proper(<<backup, new>>)
    BY ListOfTwo
  <2> QED
    BY <1>2, <2>1, <2>2
<1>5. CASE Exists("dylib.orig") /\ job' = <<new>>
  <2>1. DOMAIN job' = {1} /\ job'[1] = new
    BY <1>5, ListOfOne
  <2>2. ClientWrites' /\ OtherJob'
    BY <1>1, <1>3, <1>5, <2>1 DEF ClientWrites, OtherJob, CertFiles
  <2> QED
    BY <1>3, <1>4, <2>2, BeginKeeps DEF Begin, CertJob
<1>6. CASE files["dylib"] = Pristine /\ job' = <<backup, new>>
  <2>1. DOMAIN job' = {1, 2} /\ job'[1] = backup /\ job'[2] = new
    BY <1>6, ListOfTwo
  <2>2. 1 \in 1 .. 2 - 1
    OBVIOUS
  <2>3. ClientWrites' /\ OtherJob'
    BY <1>1, <1>6, <2>1, <2>2 DEF ClientWrites, OtherJob, CertFiles
  <2> QED
    BY <1>3, <1>4, <2>3, BeginKeeps DEF Begin, CertJob
<1> QED
  BY <1>2, <1>5, <1>6

\* --restore writes the backup back.
LEMMA RestoreKeeps ==
  ASSUME IInv, Restore, UNCHANGED pairs
  PROVE  IInv'
<1> DEFINE b   == files["dylib.orig"]
           new == InPlace("dylib", b)
<1>1. GoodBinary(b)
  <2>1. PICK n \in 0..Len(Pristine) : b = SubSeq(Pristine, 1, n)
    BY DEF Restore, IInv, ClientInv, BackupInv
  <2> QED
    BY <2>1, PristineIsGood, BeginningIsGood
<1>2. new.to = "dylib" /\ new.data = b /\ new.kept = 0
  BY DEF InPlace
<1>3. /\ Exists("dylib.orig")' /\ job' = <<new>> /\ Begin(<<new>>) /\ pairs' \in Nat
  BY DEF Restore, Begin, Exists, IInv, Frame
<1> HIDE DEF new, b
<1>4. DOMAIN job' = {1} /\ job'[1] = new /\ Proper(<<new>>)
  BY <1>3, ListOfOne
<1>5. ClientWrites' /\ OtherJob'
  BY <1>1, <1>2, <1>3, <1>4 DEF ClientWrites, OtherJob, CertFiles
<1> QED
  BY <1>3, <1>4, <1>5, BeginKeeps DEF CertJob

\* A new CM key is written where none was.
LEMMA CreateKeyKeeps ==
  ASSUME IInv, NEW k \in BridgeKeys, LoadOrCreateCmKey(k), UNCHANGED pairs
  PROVE  IInv'
<1> DEFINE new == InPlace("cm-rsa.key", <<k>>)
<1>1. new.to = "cm-rsa.key" /\ new.data = <<k>> /\ new.kept = 0
  BY DEF InPlace
<1>2. job' = <<new>> /\ Begin(<<new>>) /\ pairs' \in Nat
  BY DEF LoadOrCreateCmKey, Begin, IInv, Frame
<1> HIDE DEF new
<1>3. DOMAIN job' = {1} /\ job'[1] = new /\ Proper(<<new>>)
  BY <1>2, ListOfOne, ListOfTwo
<1>4. ClientWrites' /\ OtherJob'
  BY <1>1, <1>3 DEF ClientWrites, OtherJob, CertFiles
<1> QED
  BY <1>2, <1>3, <1>4, BeginKeeps DEF CertJob

\* Every command about the client.
LEMMA ClientCommandKeeps ==
  ASSUME IInv, ClientCommand, UNCHANGED pairs
  PROVE  IInv'
<1>1. GoodBinary(files["dylib"])
  BY DEF IInv, ClientInv, BinaryInv
<1>2. ASSUME NEW ip \in Gateways, PatchClient(ip)
      PROVE  IInv'
  BY <1>1, <1>2, PatchedIsGood, BackedUpKeeps DEF PatchClient
<1>3. CASE SwapKey
  <2>1. PICK k \in BridgeKeys : files["cm-rsa.key"] = <<k>>
    BY <1>3 DEF SwapKey, Exists, IInv, ClientInv, KeyInv
  <2>2. GoodBinary(Swapped(files["dylib"], files["cm-rsa.key"][1]))
    BY <1>1, <2>1, SwappedIsGood
  <2> QED
    BY <1>3, <2>2, BackedUpKeeps DEF SwapKey
<1>4. CASE LoseKey
  <2>1. /\ files' = [files EXCEPT !["cm-rsa.key"] = Absent]
        /\ job = <<>> /\ UNCHANGED <<job, harmed, pairs>>
    BY <1>4 DEF LoseKey, Idle
  <2>2. /\ DOMAIN files' = Files /\ files'["cm-rsa.key"] = Absent
        /\ \A f \in Files \ {"cm-rsa.key"} : files'[f] = files[f]
    BY <2>1 DEF IInv, Frame, Files
  <2>3. \A f \in CertFiles \cup {"dylib", "dylib.orig"} : files'[f] = files[f]
    BY <2>2 DEF CertFiles, Files
  <2>4. Frame' /\ ClientInv'
    BY <2>1, <2>2, <2>3
       DEF IInv, Frame, ClientInv, BinaryInv, BackupInv, KeyInv, ClientWrites, Exists
  <2>5. PairInv' /\ CertJob'
    BY <2>1, <2>3 DEF IInv, PairInv, CertJob, OtherJob, Exists, CertFiles
  <2> QED
    BY <2>4, <2>5 DEF IInv
<1> QED
  BY <1>2, <1>3, <1>4, RestoreKeeps, CreateKeyKeeps DEF ClientCommand

\* The hosts tools write other files.
LEMMA HostsPlan ==
  ASSUME IInv, HostsCommand
  PROVE  /\ UNCHANGED kills /\ (harmed' = harmed \/ harmed' = harmed \cup {"hosts"})
         /\ DOMAIN files' = Files /\ \A f \in Files \ {"hosts"} : files'[f] = files[f]
         /\ Proper(job') /\ \A i \in DOMAIN job' : job'[i].to \in {"hosts", "hosts.bak"}
         /\ mixed \in BOOLEAN => mixed' \in BOOLEAN
<1>1. ASSUME NEW W, NEW writes \in Seq(W), Begin(writes), \A w \in W : w.to \in {"hosts", "hosts.bak"}
      PROVE  /\ UNCHANGED <<files, harmed, kills>>
             /\ Proper(job') /\ \A i \in DOMAIN job' : job'[i].to \in {"hosts", "hosts.bak"}
  BY <1>1, AllIn, ProperIf DEF Begin
<1>2. ASSUME NEW text, PyRewrites(text)
      PROVE  /\ UNCHANGED <<files, harmed, kills>> /\ (mixed \in BOOLEAN => mixed' \in BOOLEAN)
             /\ Proper(job') /\ \A i \in DOMAIN job' : job'[i].to \in {"hosts", "hosts.bak"}
  <2> DEFINE w == InPlace("hosts", text)
  <2>1. Begin(<<w>>) /\ w.to = "hosts" /\ (mixed \in BOOLEAN => mixed' \in BOOLEAN)
    BY <1>2 DEF PyRewrites, InPlace
  <2> HIDE DEF w
  <2>2. job' = <<w>> /\ UNCHANGED <<files, harmed, kills>>
    BY <2>1 DEF Begin
  <2>3. DOMAIN job' = {1} /\ job'[1] = w /\ Proper(job')
    BY <2>2, ListOfOne
  <2> QED
    BY <2>1, <2>2, <2>3
<1>3. ASSUME NEW ip \in Gateways, ShInstall(ip)
      PROVE  /\ UNCHANGED <<files, harmed, kills>> /\ mixed' = mixed
             /\ Proper(job') /\ \A i \in DOMAIN job' : job'[i].to \in {"hosts", "hosts.bak"}
  <2> DEFINE text == files["hosts"]
             b == InPlace("hosts.bak", text)
             x == AtOnce("hosts", SedBlocks(text))
             y == AtTheEnd("hosts", SedBlocks(text), Block(ShHeader, ip))
             W == {b, x, y}
  <2>1. /\ Begin(CopyOnce(text) \o <<x, y>>) /\ mixed' = mixed
        /\ CopyOnce(text) \in {<<>>, <<b>>}
    BY <1>3 DEF ShInstall, CopyOnce
  <2>2. b.to = "hosts.bak" /\ x.to = "hosts" /\ y.to = "hosts"
    BY DEF InPlace, AtOnce, AtTheEnd
  <2> HIDE DEF b, x, y, text
  <2>3. <<>> \in Seq(W) /\ <<b>> \in Seq(W) /\ <<x, y>> \in Seq(W)
    OBVIOUS
  <2>4. CopyOnce(text) \o <<x, y>> \in Seq(W)
    BY <2>1, <2>3, ConcatProperties
  <2>5. \A w \in W : w.to \in {"hosts", "hosts.bak"}
    BY <2>2
  <2> HIDE DEF W
  <2> QED
    BY <1>1, <2>1, <2>4, <2>5
<1>4. DOMAIN files = Files
  BY DEF IInv, Frame
<1>5. CASE ShRemove
  <2> DEFINE w == AtOnce("hosts", SedBlocks(files["hosts"]))
  <2>1. Begin(<<w>>) /\ w.to = "hosts" /\ mixed' = mixed
    BY <1>5 DEF ShRemove, AtOnce, hostsVars
  <2> HIDE DEF w
  <2>2. job' = <<w>> /\ UNCHANGED <<files, harmed, kills>>
    BY <2>1 DEF Begin
  <2>3. DOMAIN job' = {1} /\ job'[1] = w /\ Proper(job')
    BY <2>2, ListOfOne
  <2> QED
    BY <1>4, <2>1, <2>2, <2>3
<1>6. ASSUME NEW u \in UserLines, UserAdds(u)
      PROVE  /\ UNCHANGED <<kills, mixed>> /\ (harmed' = harmed \/ harmed' = harmed \cup {"hosts"})
             /\ job' = <<>> /\ Proper(job') /\ DOMAIN files' = Files
             /\ \A f \in Files \ {"hosts"} : files'[f] = files[f]
  BY <1>6 DEF UserAdds, Idle, IInv, Frame
<1>7. ASSUME NEW ip \in Gateways, UserPastes(ip)
      PROVE  /\ UNCHANGED <<kills, harmed>> /\ (mixed \in BOOLEAN => mixed' \in BOOLEAN)
             /\ job' = <<>> /\ Proper(job') /\ DOMAIN files' = Files
             /\ \A f \in Files \ {"hosts"} : files'[f] = files[f]
  BY <1>7 DEF UserPastes, Idle, IInv, Frame
<1> QED
  BY <1>2, <1>3, <1>4, <1>5, <1>6, <1>7 DEF HostsCommand, HostsApply, HostsRemove

\* And so the rest of the invariant.
LEMMA HostsCommandKeeps ==
  ASSUME IInv, HostsCommand, UNCHANGED pairs
  PROVE  IInv'
<1>1. /\ "dylib.orig" \notin harmed' => "dylib.orig" \notin harmed
      /\ DOMAIN files' = Files /\ \A f \in Files \ {"hosts"} : files'[f] = files[f]
      /\ Proper(job') /\ \A i \in DOMAIN job' : job'[i].to \in {"hosts", "hosts.bak"}
  BY HostsPlan
<1>2. \A f \in CertFiles \cup {"dylib", "dylib.orig", "cm-rsa.key"} : files'[f] = files[f]
  BY <1>1 DEF CertFiles, Files
<1>3. ClientWrites' /\ OtherJob'
  BY <1>1 DEF ClientWrites, OtherJob, CertFiles
<1>4. Frame' /\ ClientInv'
  BY <1>1, <1>2, <1>3 DEF IInv, Frame, ClientInv, BinaryInv, BackupInv, KeyInv, Exists
<1>5. PairInv' /\ CertJob'
  BY <1>2, <1>3 DEF IInv, PairInv, CertJob, Exists, CertFiles
<1> QED
  BY <1>4, <1>5 DEF IInv

\* What ensure_bundle_cert() plans writes certificates and their keys only.
LEMMA CertsOnly ==
  ASSUME NEW k, NEW l
  PROVE  /\ Proper(AllFour(k, l)) /\ Proper(LastTwo(k, l))
         /\ \A i \in DOMAIN AllFour(k, l) : AllFour(k, l)[i].to \in CertFiles
         /\ \A i \in DOMAIN LastTwo(k, l) : LastTwo(k, l)[i].to \in CertFiles
<1> DEFINE a == InPlace("ca.crt", <<Certificate(k, k)>>)
           b == InPlace("ca.key", <<k>>)
           c == InPlace("leaf.crt", <<Certificate(l, k)>>)
           d == InPlace("leaf.key", <<l>>)
<1>1. AllFour(k, l) = <<a, b, c, d>> /\ LastTwo(k, l) = <<c, d>>
  BY DEF AllFour, LastTwo
<1>2. a.to \in CertFiles /\ b.to \in CertFiles /\ c.to \in CertFiles /\ d.to \in CertFiles
  BY DEF InPlace, CertFiles
<1> HIDE DEF a, b, c, d
<1>3. Proper(<<a, b, c, d>>) /\ DOMAIN <<a, b, c, d>> = {1, 2, 3, 4}
  <2>1. <<a, b, c, d>> \in Seq({a, b, c, d})
    OBVIOUS
  <2>2. Proper(<<a, b, c, d>>)
    BY <2>1, ProperIf
  <2>3. DOMAIN <<a, b, c, d>> = {1, 2, 3, 4}
    OBVIOUS
  <2> QED
    BY <2>2, <2>3
<1>4. Proper(<<c, d>>) /\ DOMAIN <<c, d>> = {1, 2}
  BY ListOfTwo
<1> QED
  BY <1>1, <1>2, <1>3, <1>4

\* The leaf is made anew together with the CA, or behind the one that is there.
LEMMA EnsureCertsKeeps ==
  ASSUME IInv, EnsureBundleCert
  PROVE  IInv'
<1> DEFINE k == pairs + 1
           l == pairs + 2
<1>1. k \in Nat /\ l \in Nat /\ pairs' \in Nat /\ job = <<>> /\ files' = files
  BY DEF IInv, Frame, EnsureBundleCert, Begin, Idle
<1>2. CASE ~(Exists("ca.crt") /\ Exists("ca.key"))
  <2>1. ~Exists("ca.key") /\ ~Exists("leaf.key")
    BY <1>2, Present DEF IInv, PairInv, Exists
  <2>2. /\ EnsureCa(k) = <<InPlace("ca.crt", <<Certificate(k, k)>>), InPlace("ca.key", <<k>>)>>
        /\ EnsureLeaf(k, l) =
             <<InPlace("leaf.crt", <<Certificate(l, k)>>), InPlace("leaf.key", <<l>>)>>
    BY <1>2, <2>1 DEF EnsureCa, EnsureLeaf, WritePair
  <2>3. EnsureCa(k) # <<>> /\ <<k>>[1] = k
    BY <2>2
  <2>4. Begin(EnsureCa(k) \o EnsureLeaf(k, l))
    BY <2>3 DEF EnsureBundleCert
  <2>5. EnsureCa(k) \o EnsureLeaf(k, l) = AllFour(k, l)
    BY <2>2, JoinedToTwo DEF AllFour
  <2> HIDE DEF k, l
  <2>6. job' = AllFour(k, l) /\ Begin(AllFour(k, l)) /\ ~Exists("ca.key")'
    BY <1>1, <2>1, <2>4, <2>5 DEF Begin, Exists
  <2>7. Proper(AllFour(k, l)) /\ \A i \in DOMAIN AllFour(k, l) : AllFour(k, l)[i].to \in CertFiles
    BY CertsOnly
  <2>8. ClientWrites' /\ CertJob'
    BY <1>1, <2>6, <2>7 DEF ClientWrites, CertJob, CertFiles
  <2> QED
    BY <1>1, <2>6, <2>7, <2>8, BeginKeeps
<1>3. CASE Exists("ca.crt") /\ Exists("ca.key")
  <2>1. EnsureCa(k) = <<>>
    BY <1>3 DEF EnsureCa
  <2>2. PICK n \in Nat : files["ca.key"] = <<n>>
    BY <1>3, <2>1 DEF EnsureBundleCert, IInv, PairInv
  <2>3. Begin(<<>> \o EnsureLeaf(n, l))
    <3>1. Begin(<<>> \o EnsureLeaf(files["ca.key"][1], l))
      BY <2>1 DEF EnsureBundleCert
    <3>2. files["ca.key"][1] = n
      BY <2>2
    <3> QED
      BY <3>1, <3>2
  <2> HIDE DEF k, l
  <2>4. CASE Exists("leaf.crt") /\ Exists("leaf.key")
    <3>1. Begin(<<>>) /\ job' = <<>> /\ Proper(<<>>)
      BY <2>3, <2>4, JoinedToNothing DEF EnsureLeaf, Begin, Proper
    <3>2. ClientWrites' /\ OtherJob'
      BY <3>1 DEF ClientWrites, OtherJob
    <3> QED
      BY <1>1, <3>1, <3>2, BeginKeeps DEF CertJob
  <2>5. CASE ~(Exists("leaf.crt") /\ Exists("leaf.key"))
    <3>1. ~Exists("leaf.key")
      BY <2>5, Present DEF IInv, PairInv, Exists
    <3>2. Begin(LastTwo(n, l)) /\ job' = LastTwo(n, l)
      BY <2>3, <2>5, JoinedToNothing DEF EnsureLeaf, WritePair, LastTwo, Begin
    <3>3. Proper(LastTwo(n, l)) /\ \A i \in DOMAIN LastTwo(n, l) : LastTwo(n, l)[i].to \in CertFiles
      BY CertsOnly
    <3>4. CertJob'
      BY <1>1, <2>2, <3>1, <3>2 DEF CertJob, Exists
    <3>5. ClientWrites'
      BY <3>2, <3>3 DEF ClientWrites, CertFiles
    <3> QED
      BY <1>1, <3>2, <3>3, <3>4, <3>5, BeginKeeps
  <2> QED
    BY <2>4, <2>5
<1> QED
  BY <1>2, <1>3

-------------------------------------------------------------------------------

\* A fresh installation.
LEMMA InitInv == Init => IInv
<1> SUFFICES ASSUME Init PROVE IInv
  OBVIOUS
<1>1. /\ DOMAIN files = Files /\ files["dylib"] = Pristine /\ files["dylib.orig"] = Absent
      /\ job = <<>> /\ pairs = 0
      /\ \A f \in CertFiles : files[f] = Absent
      /\ files["cm-rsa.key"] \in {Absent} \cup {<<k>> : k \in BridgeKeys}
  BY DEF Init, ClientInit, CertsInit, CertFiles, Files
<1>2. Frame
  BY <1>1 DEF Frame, Proper
<1>3. ClientInv
  BY <1>1, PristineIsGood
     DEF ClientInv, BinaryInv, BackupInv, KeyInv, ClientWrites, Exists
<1>4. PairInv /\ CertJob
  BY <1>1 DEF PairInv, CertJob, OtherJob, CertFiles, Exists
<1> QED
  BY <1>2, <1>3, <1>4 DEF IInv

\* What holds of the files and of the running command's writes in every state.
THEOREM Invariance == Spec => []IInv
<1>1. IInv /\ [Next]_vars => IInv'
  <2> SUFFICES ASSUME IInv, [Next]_vars PROVE IInv'
    OBVIOUS
  <2>1. CASE UNCHANGED vars
    <3>1. UNCHANGED <<files, job, harmed, pairs>>
      BY <2>1 DEF vars, fileVars
    <3>2. Frame' /\ BinaryInv' /\ BackupInv' /\ KeyInv'
      BY <3>1 DEF IInv, Frame, ClientInv, BinaryInv, BackupInv, KeyInv, Exists
    <3>3. ClientWrites'
      BY <3>1 DEF IInv, ClientInv, ClientWrites, Exists
    <3>4. PairInv'
      BY <3>1 DEF IInv, PairInv, Exists
    <3>5. CertJob'
      BY <3>1 DEF IInv, CertJob, OtherJob, Exists
    <3> QED
      BY <3>2, <3>3, <3>4, <3>5 DEF IInv, ClientInv
  <2>2. CASE Write /\ UNCHANGED pairs
    BY <2>2, WriteKeepsClient, WriteKeepsCerts DEF IInv
  <2>3. CASE Killed /\ UNCHANGED pairs
    BY <2>3, KillKeepsClient, KillKeepsCerts DEF IInv
  <2> QED
    BY <2>1, <2>2, <2>3, ClientCommandKeeps, HostsCommandKeeps, EnsureCertsKeeps DEF Next
<1> QED
  BY <1>1, InitInv, PTL DEF Spec

\* What --restore brings back is never a patched binary: the backup is a beginning of
\* the one that was downloaded, and all of it unless the one copy that made it was
\* interrupted (BackUpOnce, PatchClient, SwapKey and Restore, under any interruptions).
THEOREM BackupStaysOriginal == Spec => []BackupIsOriginal
<1>1. IInv => BackupIsOriginal
  <2> SUFFICES ASSUME IInv, Exists("dylib.orig") PROVE BackupIsOriginal
    BY DEF BackupIsOriginal
  <2>1. PICK n \in 0..Len(Pristine) : files["dylib.orig"] = SubSeq(Pristine, 1, n)
    BY DEF IInv, ClientInv, BackupInv
  <2>2. Len(files["dylib.orig"]) = n
    BY <2>1, PristineIsGood, BeginningIsGood
  <2> QED
    BY <2>1, <2>2 DEF BackupIsOriginal, IInv, ClientInv, BackupInv
<1> QED
  BY <1>1, Invariance, PTL

\* However often and with whatever addresses the client is patched, swapped and
\* restored, no string outgrows its room in the original and no slot changes kind.
THEOREM SlotsKeep == Spec => []SlotsKeepToThemselves
<1>1. IInv => SlotsKeepToThemselves
  <2> SUFFICES ASSUME IInv, NEW i \in DOMAIN files["dylib"]
               PROVE  InSlot(i, files["dylib"][i])
    BY DEF SlotsKeepToThemselves, InSlot
  <2>1. i \in 1..Len(files["dylib"])
    BY LenProperties DEF IInv, ClientInv, BinaryInv, GoodBinary
  <2> QED
    BY <2>1 DEF IInv, ClientInv, BinaryInv, GoodBinary
<1> QED
  BY <1>1, Invariance, PTL

\* A key that --verify-key accepts is in every slot that Valve's Public key had:
\* keys are swapped in whole binaries, so a client never mixes two of them.
THEOREM AcceptedKeyIsTheOnlyOne == Spec => []VerifiedKeyIsTheOnlyOne
<1>1. IInv => VerifiedKeyIsTheOnlyOne
  <2> DEFINE b == files["dylib"]
  <2> SUFFICES ASSUME IInv, NEW key \in BridgeKeys, VerifyKey(key),
                      NEW i \in DOMAIN b, Pristine[i] = ValveKey
               PROVE  b[i] = key
    BY DEF VerifiedKeyIsTheOnlyOne
  <2>1. GoodBinary(b) /\ DOMAIN b = 1..Len(b) /\ Len(b) \in Nat
    BY LenProperties DEF IInv, ClientInv, BinaryInv, GoodBinary
  <2>2. PICK j \in DOMAIN b : b[j] = key
    BY DEF VerifyKey, FindKeySlots
  <2>3. Pristine[j] \in Addresses \cup {ValveKey} \cup OtherKeys
    <3>1. j \in 1..Len(Pristine)
      BY <2>1, PatcherAssumption, LenProperties DEF GoodBinary
    <3> QED
      BY <3>1, PatcherAssumption, ElementOfSeq
  <2>4. Pristine[j] = ValveKey
    BY <2>1, <2>2, <2>3, PatcherAssumption DEF GoodBinary, InSlot
  <2> QED
    BY <2>1, <2>2, <2>4 DEF GoodBinary
<1> QED
  BY <1>1, Invariance, PTL

\* Whenever all four files are there and whole, each key is that of its
\* certificate, and the leaf is signed by the CA that the user trusts: the
\* certificate is written before its key, and ensure_bundle_cert() takes the two
\* files for a pair only when it finds both.
THEOREM CertificatesStayMatched == Spec => []CertificatesMatch
<1>1. IInv => CertificatesMatch
  <2> SUFFICES ASSUME IInv,
                      Exists("ca.key"), files["ca.key"] # <<>>,
                      Exists("leaf.key"), files["leaf.key"] # <<>>
               PROVE  /\ files["ca.crt"][1].key      = files["ca.key"][1]
                      /\ files["leaf.crt"][1].key    = files["leaf.key"][1]
                      /\ files["leaf.crt"][1].issuer = files["ca.key"][1]
    BY DEF CertificatesMatch
  <2>1. PICK k \in Nat : files["ca.crt"] = <<Certificate(k, k)>> /\ files["ca.key"] = <<k>>
    BY DEF IInv, PairInv
  <2>2. PICK k2, l \in Nat : /\ files["ca.key"] = <<k2>>
                             /\ files["leaf.crt"] = <<Certificate(l, k2)>>
                             /\ files["leaf.key"] = <<l>>
    BY DEF IInv, PairInv
  <2>3. files["ca.crt"][1] = Certificate(k, k) /\ files["leaf.crt"][1] = Certificate(l, k2)
    BY <2>1, <2>2
  <2>4. files["ca.key"][1] = k /\ files["ca.key"][1] = k2 /\ files["leaf.key"][1] = l
    BY <2>1, <2>2
  <2> QED
    BY <2>3, <2>4 DEF Certificate
<1> QED
  BY <1>1, Invariance, PTL

-------------------------------------------------------------------------------
(***************************************************************************)
(* The hosts file.                                                         *)
(***************************************************************************)

\* A file with a text exists.
LEMMA TextIsThere == \A text : text \in Seq(Lines) \/ text \in BeforeScript => text # Absent
<1>1. \A text : text \in BeforeScript => text \in Seq(Lines)
  BY SeqMonotonic DEF BeforeScript
<1> QED
  BY <1>1, AbsentAssumption

\* The beginning of a text is a text.
LEMMA BeginningType ==
  ASSUME NEW L, NEW text \in Seq(L), NEW n \in 0..Len(text)
  PROVE  /\ SubSeq(text, 1, n) \in Seq(L) /\ Len(SubSeq(text, 1, n)) = n
         /\ n = Len(text) => SubSeq(text, 1, n) = text
<1> DEFINE s == SubSeq(text, 1, n)
<1>1. Len(text) \in Nat /\ n \in Nat /\ \A i \in 1..n : text[i] \in L
  BY LenProperties, ElementOfSeq
<1>2. /\ s \in Seq(L) /\ Len(s) = (IF 1 <= n THEN n - 1 + 1 ELSE 0)
      /\ \A i \in 1 .. n - 1 + 1 : s[i] = text[1 + i - 1]
  BY <1>1, SubSeqProperties
<1> HIDE DEF s
<1>3. Len(s) = n
  BY <1>1, <1>2
<1>4. ASSUME n = Len(text) PROVE s = text
  <2>1. \A i \in 1..n : s[i] = text[i]
    <3> TAKE i \in 1..n
    <3>1. i \in 1 .. n - 1 + 1 /\ 1 + i - 1 = i
      BY <1>1
    <3> QED
      BY <1>2, <3>1
  <2> QED
    BY <1>2, <1>3, <1>4, <2>1, SeqEqual
<1> QED
  BY <1>2, <1>3, <1>4 DEF s

\* A write was planned to keep the shape, the copy comes before the script's block.
LEMMA WriteKeepsHosts ==
  ASSUME IInv, HostsInv, Write, UNCHANGED hostsVars
  PROVE  HostsInv'
<1> USE DEF HostsInv
<1> DEFINE w == Head(job)
<1>1. /\ job # <<>> /\ job' = Tail(job) /\ UNCHANGED <<harmed, own, mixed, saved>>
      /\ files' = [files EXCEPT ![w.to] = w.data]
  BY DEF Write, Idle, hostsVars
<1>2. /\ 1 \in DOMAIN job /\ w = job[1]
      /\ \E n \in Nat : DOMAIN job' = 1..n
      /\ \A i \in DOMAIN job' :
           i \in Nat \ {0} /\ i + 1 \in DOMAIN job /\ job'[i] = job[i + 1]
  BY <1>1, ProperTail DEF IInv, Frame
<1>3. /\ w.to = "hosts" =>
           /\ w.data \in Seq(Lines) /\ (InOrder => InShape(w.data, own))
           /\ w.data \in BeforeScript \/ Exists("hosts.bak")
      /\ w.to = "hosts.bak" => w.data = saved /\ w.data \in BeforeScript
  BY <1>2 DEF HostsWrites, KeepsShape, CopyInv
<1> HIDE DEF w
<1>4. \A f \in Files : files'[f] = IF f = w.to THEN w.data ELSE files[f]
  BY <1>1 DEF IInv, Frame
<1>5. {"hosts", "hosts.bak"} \subseteq Files
  BY DEF Files
<1>6. InOrder' <=> InOrder
  BY <1>1 DEF InOrder
<1>7. TextInv'
  BY <1>1, <1>3, <1>4, <1>5, <1>6 DEF TextInv
<1>8. /\ Exists("hosts.bak") => Exists("hosts.bak")'
      /\ w.to = "hosts.bak"  => Exists("hosts.bak")'
  BY <1>3, <1>4, <1>5, TextIsThere DEF Exists
<1>9. CopyInv'
  <2>1. CASE w.to = "hosts.bak"
    <3>1. files'["hosts.bak"] = saved /\ saved \in BeforeScript
      BY <1>3, <1>4, <1>5, <2>1
    <3>2. saved = SubSeq(saved, 1, Len(saved)) /\ Len(saved) <= Len(saved)
      <4>1. saved \in Seq(Lines \ {ShHeader}) /\ Len(saved) \in 0..Len(saved)
        BY <3>1, LenProperties DEF BeforeScript
      <4> QED
        BY <4>1, BeginningType
    <3> QED
      BY <1>1, <1>8, <2>1, <3>1, <3>2 DEF CopyInv, IsSaved
  <2>2. CASE w.to # "hosts.bak"
    <3>1. files'["hosts.bak"] = files["hosts.bak"] /\ (Exists("hosts.bak")' <=> Exists("hosts.bak"))
      BY <1>4, <1>5, <2>2 DEF Exists
    <3> QED
      BY <1>1, <1>3, <1>4, <1>5, <3>1 DEF CopyInv, IsSaved
  <2> QED
    BY <2>1, <2>2
<1>10. HostsWrites'
  <2> SUFFICES ASSUME NEW i \in DOMAIN job',
                      job[i + 1].to = "hosts",
                      \E j \in 1..i : job[j].to = "hosts.bak"
               PROVE  Exists("hosts.bak")' \/ \E j \in 1 .. i - 1 : job'[j].to = "hosts.bak"
    <3>1. ASSUME NEW i \in DOMAIN job', job'[i].to = "hosts"
          PROVE  /\ job'[i].data \in Seq(Lines) /\ job'[i].kept \in Nat
                 /\ InOrder' => KeepsShape(job'[i], own')
                 /\ \/ job'[i].data \in BeforeScript \/ Exists("hosts.bak")'
                    \/ \E j \in 1..i : job[j].to = "hosts.bak"
      <4>1. job'[i] = job[i + 1] /\ i + 1 \in DOMAIN job /\ (i + 1) - 1 = i
        BY <1>2
      <4> QED
        BY <1>1, <1>6, <1>8, <3>1, <4>1 DEF HostsWrites
    <3>2. ASSUME NEW i \in DOMAIN job', job'[i].to = "hosts.bak"
          PROVE  job'[i].data = saved' /\ job'[i].kept = 0
      BY <1>1, <1>2, <3>2 DEF HostsWrites
    <3> QED
      BY <1>2, <3>1, <3>2 DEF HostsWrites
  <2> PICK j \in 1..i : job[j].to = "hosts.bak"
    OBVIOUS
  <2>1. CASE j = 1
    BY <1>2, <1>8, <2>1
  <2>2. CASE j # 1
    <3>1. j - 1 \in 1 .. i - 1 /\ j - 1 \in DOMAIN job' /\ (j - 1) + 1 = j
      BY <1>2, <2>2
    <3> QED
      BY <1>2, <3>1
  <2> QED
    BY <2>1, <2>2
<1> QED
  BY <1>7, <1>9, <1>10

\* What an interrupted write leaves has the shape, or the file is harmed.
LEMMA KillKeepsHosts ==
  ASSUME IInv, HostsInv, Killed, UNCHANGED hostsVars
  PROVE  HostsInv'
<1> USE DEF HostsInv
<1> DEFINE w == Head(job)
<1>1. /\ job # <<>> /\ job' = <<>> /\ UNCHANGED <<own, mixed, saved>>
      /\ \/ UNCHANGED <<files, harmed>>
         \/ \E n \in w.kept .. Len(w.data) - 1 :
              /\ files' = [files EXCEPT ![w.to] = SubSeq(w.data, 1, n)]
              /\ harmed' = IF w.kept = 0 THEN harmed \cup {w.to} ELSE harmed
  BY DEF Killed, Idle, hostsVars
<1>2. 1 \in DOMAIN job /\ w = job[1]
  BY <1>1, ProperTail DEF IInv, Frame
<1>3. /\ w.to = "hosts" =>
           /\ w.data \in Seq(Lines) /\ w.kept \in Nat /\ (InOrder => KeepsShape(w, own))
           /\ w.data \in BeforeScript \/ Exists("hosts.bak")
      /\ w.to = "hosts.bak" =>
           w.data = saved /\ w.data \in Seq(Lines \ {ShHeader}) /\ w.kept = 0
  BY <1>2 DEF HostsWrites, CopyInv, BeforeScript
<1> HIDE DEF w
<1>4. HostsWrites'
  BY <1>1 DEF HostsWrites
<1>5. {"hosts", "hosts.bak"} \subseteq Files
  BY DEF Files
<1>6. CASE UNCHANGED <<files, harmed>>
  BY <1>1, <1>4, <1>6 DEF TextInv, CopyInv, IsSaved, InOrder, Exists
<1>7. ASSUME NEW n \in w.kept .. Len(w.data) - 1,
             files' = [files EXCEPT ![w.to] = SubSeq(w.data, 1, n)],
             harmed' = IF w.kept = 0 THEN harmed \cup {w.to} ELSE harmed
      PROVE  HostsInv'
  <2> DEFINE left == SubSeq(w.data, 1, n)
  <2>1. \A f \in Files : files'[f] = IF f = w.to THEN left ELSE files[f]
    BY <1>7 DEF IInv, Frame
  <2>0. \A L : w.to \in {"hosts", "hosts.bak"} /\ w.data \in Seq(L) => n \in 0..Len(w.data)
    BY <1>3, <1>7, LenProperties
  <2>2. w.to = "hosts" =>
          left \in Seq(Lines) /\ (w.data \in BeforeScript => left \in BeforeScript)
    BY <1>3, <2>0, BeginningType DEF BeforeScript
  <2>3. w.to = "hosts.bak" =>
          /\ left \in BeforeScript /\ Len(left) <= Len(saved)
          /\ left = SubSeq(saved, 1, Len(left)) /\ "hosts.bak" \in harmed'
    <3> SUFFICES ASSUME w.to = "hosts.bak"
                 PROVE  /\ left \in BeforeScript /\ Len(left) <= Len(saved)
                        /\ left = SubSeq(saved, 1, Len(left)) /\ "hosts.bak" \in harmed'
      OBVIOUS
    <3>1. left \in BeforeScript /\ "hosts.bak" \in harmed'
      BY <1>3, <1>7, <2>0, BeginningType DEF BeforeScript
    <3>2. Len(left) = n /\ n <= Len(saved)
      BY <1>3, <2>0, BeginningType
    <3> QED
      BY <1>3, <3>1, <3>2
  <2>4. InOrder' => InOrder /\ ~(w.to = "hosts" /\ w.kept = 0)
    BY <1>1, <1>7 DEF InOrder
  <2>5. w.to = "hosts" /\ InOrder' => InShape(left, own)
    BY <1>3, <1>7, <2>4 DEF KeepsShape
  <2> HIDE DEF left
  <2>6. TextInv'
    BY <1>1, <1>5, <2>1, <2>2, <2>4, <2>5 DEF TextInv
  <2>7. Exists("hosts.bak") => Exists("hosts.bak")'
    BY <1>5, <2>1, <2>3, TextIsThere DEF Exists
  <2>8. CopyInv'
    <3>1. CASE w.to = "hosts.bak"
      <4>1. files'["hosts.bak"] = left /\ Exists("hosts.bak")'
        BY <1>5, <2>1, <2>3, <3>1, TextIsThere DEF Exists
      <4> QED
        BY <1>1, <2>3, <3>1, <4>1 DEF CopyInv, IsSaved
    <3>2. CASE w.to # "hosts.bak"
      <4>1. files'["hosts.bak"] = files["hosts.bak"] /\ (Exists("hosts.bak")' <=> Exists("hosts.bak"))
        BY <1>5, <2>1, <3>2 DEF Exists
      <4>2. "hosts.bak" \notin harmed' => "hosts.bak" \notin harmed
        BY <1>7
      <4> QED
        BY <1>1, <1>3, <1>5, <2>1, <2>2, <4>1, <4>2 DEF CopyInv, IsSaved
    <3> QED
      BY <3>1, <3>2
  <2> QED
    BY <1>4, <2>6, <2>8
<1> QED
  BY <1>1, <1>6, <1>7

\* The other commands leave the file alone.
LEMMA OthersKeepHosts ==
  ASSUME HostsInv, UNCHANGED <<own, mixed, saved, harmed>>,
         files'["hosts"] = files["hosts"], files'["hosts.bak"] = files["hosts.bak"],
         \A i \in DOMAIN job' : job'[i].to \notin {"hosts", "hosts.bak"}
  PROVE  HostsInv'
<1>1. TextInv' /\ CopyInv'
  BY DEF HostsInv, TextInv, CopyInv, IsSaved, InOrder, Exists
<1>2. HostsWrites'
  BY DEF HostsWrites
<1> QED
  BY <1>1, <1>2 DEF HostsInv

\* A hosts tool that begins.
LEMMA HostsBeginKeeps ==
  ASSUME HostsInv, NEW writes, Begin(writes), own' = own, mixed => mixed', HostsWrites',
         saved' = saved \/ (~Exists("hosts.bak") /\ saved' = files["hosts"])
  PROVE  HostsInv'
<1>1. files' = files /\ harmed' = harmed /\ (InOrder' => InOrder)
  BY DEF Begin, InOrder
<1> QED
  BY <1>1 DEF HostsInv, TextInv, CopyInv, IsSaved, Exists

\* hosts.py writes the user's lines, with its block or without, unless it meets one
\* of the script's.
LEMMA PyRewritesKeeps ==
  ASSUME HostsInv, NEW new \in Seq(Lines), PyRewrites(new),
         files["hosts"] \in BeforeScript => new \in BeforeScript,
         /\ InShape(files["hosts"], own)
         /\ Headers(files["hosts"]) = Places(files["hosts"], PyHeader)
         => InShape(new, own)
  PROVE  HostsInv'
<1> DEFINE w == InPlace("hosts", new)
<1>1. w.to = "hosts" /\ w.data = new /\ w.kept = 0
  BY DEF InPlace
<1>2. /\ Begin(<<w>>) /\ own' = own /\ saved' = saved
      /\ mixed' = (mixed \/ Headers(files["hosts"]) # Places(files["hosts"], PyHeader))
  BY DEF PyRewrites
<1> HIDE DEF w
<1>3. job' = <<w>> /\ files' = files /\ harmed' = harmed
  BY <1>2 DEF Begin
<1>4. DOMAIN job' = {1} /\ job'[1] = w
  BY <1>3, ListOfOne
<1>5. InOrder' => InOrder /\ Headers(files["hosts"]) = Places(files["hosts"], PyHeader)
  BY <1>2, <1>3 DEF InOrder
<1>6. InOrder' => KeepsShape(w, own)
  BY <1>1, <1>5 DEF HostsInv, TextInv, KeepsShape
<1>7. new \in BeforeScript \/ Exists("hosts.bak")'
  BY <1>3 DEF HostsInv, CopyInv, Exists
<1>8. HostsWrites'
  BY <1>1, <1>2, <1>4, <1>6, <1>7 DEF HostsWrites
<1>9. mixed => mixed'
  BY <1>2
<1> QED
  BY <1>2, <1>8, <1>9, HostsBeginKeeps

\* hosts --apply and hosts --remove.
LEMMA PyCommandsKeep ==
  ASSUME HostsInv, \/ \E ip \in Gateways : HostsApply(ip)
               \/ HostsRemove
  PROVE  HostsInv'
<1> DEFINE text == files["hosts"]
           rest == StripBlock(text)
<1>1. own \in Seq(UserLines) /\ text \in Seq(Lines)
  BY DEF HostsInv, TextInv
<1>2. rest \in Seq(Lines) /\ (text \in BeforeScript => rest \in BeforeScript)
  BY <1>1, StripBlockType DEF BeforeScript
<1>3. InShape(text, own) /\ Headers(text) = Places(text, PyHeader) => rest = OwnLines(own)
  BY <1>1, StripTakesBlock
<1> HIDE DEF rest
<1>4. ASSUME NEW ip \in Gateways, HostsApply(ip)
      PROVE  HostsInv'
  <2> DEFINE b   == Block(PyHeader, ip)
             new == rest \o b
  <2>0. PyHeader \in HeaderLines /\ PyHeader # ShHeader
    BY KindsOfLines
  <2>1. b \in Seq(Lines) /\ b \in BeforeScript
    BY <2>0, BlockType DEF BeforeScript
  <2>2. InShape(OwnLines(own) \o b, own)
    BY <1>1, <2>0, BlockInShape
  <2> HIDE DEF b
  <2>3. new \in Seq(Lines) /\ (text \in BeforeScript => new \in BeforeScript)
    BY <1>2, <2>1, ConcatProperties DEF BeforeScript
  <2>4. InShape(text, own) /\ Headers(text) = Places(text, PyHeader) => InShape(new, own)
    BY <1>3, <2>2
  <2>5. PyRewrites(new)
    BY <1>4 DEF HostsApply, rest, b
  <2> HIDE DEF new
  <2> QED
    BY <2>3, <2>4, <2>5, PyRewritesKeeps
<1>5. CASE HostsRemove
  <2>1. PyRewrites(rest)
    BY <1>5 DEF HostsRemove, rest
  <2>2. InShape(text, own) /\ Headers(text) = Places(text, PyHeader) => InShape(rest, own)
    BY <1>1, <1>3, OwnInShape
  <2> QED
    BY <1>2, <2>1, <2>2, PyRewritesKeeps
<1> QED
  BY <1>4, <1>5

\* sed replaces the file at once, by the user's lines.
LEMMA SedKeepsShape ==
  ASSUME HostsInv
  PROVE  LET w == AtOnce("hosts", SedBlocks(files["hosts"]))
         IN /\ w.to = "hosts" /\ w.data \in Seq(Lines) /\ w.kept \in Nat
            /\ InOrder => KeepsShape(w, own)
            /\ w.data \in BeforeScript \/ Exists("hosts.bak")
<1> DEFINE text == files["hosts"]
           rest == SedBlocks(text)
           w    == AtOnce("hosts", rest)
<1>1. own \in Seq(UserLines) /\ text \in Seq(Lines)
  BY DEF HostsInv, TextInv
<1>2. rest \in Seq(Lines) /\ (text \in BeforeScript => rest \in BeforeScript)
  BY <1>1, SedBlocksType DEF BeforeScript
<1>3. InOrder => InShape(rest, own)
  BY <1>1, SedTakesBlock, OwnInShape DEF HostsInv, TextInv
<1> HIDE DEF rest
<1>4. w.to = "hosts" /\ w.data = rest /\ w.kept = Len(rest) /\ Len(rest) \in Nat
  BY <1>2, LenProperties DEF AtOnce
<1>5. \A n \in Len(rest) .. Len(rest) - 1 : FALSE
  BY <1>4
<1> HIDE DEF w
<1>6. InOrder => KeepsShape(w, own)
  BY <1>3, <1>4, <1>5 DEF KeepsShape
<1>7. w.data \in BeforeScript \/ Exists("hosts.bak")
  BY <1>2, <1>4 DEF HostsInv, CopyInv
<1> QED
  BY <1>2, <1>4, <1>6, <1>7 DEF w, rest

\* What is appended may be cut short, but not what it is appended to.
LEMMA AppendKeepsShape ==
  ASSUME HostsInv, NEW ip \in Gateways
  PROVE  LET w == AtTheEnd("hosts", SedBlocks(files["hosts"]), Block(ShHeader, ip))
         IN /\ w.to = "hosts" /\ w.data \in Seq(Lines) /\ w.kept \in Nat
            /\ InOrder => KeepsShape(w, own)
<1> DEFINE text == files["hosts"]
           rest == SedBlocks(text)
           b    == Block(ShHeader, ip)
           w    == AtTheEnd("hosts", rest, b)
<1>1. own \in Seq(UserLines) /\ text \in Seq(Lines)
  BY DEF HostsInv, TextInv
<1>2. rest \in Seq(Lines) /\ Len(rest) \in Nat
  BY <1>1, SedBlocksType, LenProperties
<1>3. InOrder => rest = OwnLines(own)
  BY <1>1, SedTakesBlock DEF HostsInv, TextInv
<1>0. ShHeader \in HeaderLines
  BY KindsOfLines
<1>4. b \in Seq(Lines)
  BY <1>0, BlockType
<1>5. LET new == OwnLines(own) \o b
      IN /\ InShape(new, own)
         /\ \A n \in Len(own) .. Len(new) - 1 : InShape(SubSeq(new, 1, n), own)
  BY <1>1, <1>0, BlockInShape
<1> HIDE DEF rest, b
<1>6. w.to = "hosts" /\ w.data = rest \o b /\ w.kept = Len(rest) /\ rest \o b \in Seq(Lines)
  BY <1>2, <1>4, ConcatProperties DEF AtTheEnd
<1>7. Len(OwnLines(own)) = Len(own)
  BY <1>1, OwnLinesType
<1> HIDE DEF w
<1>8. InOrder => KeepsShape(w, own)
  BY <1>3, <1>5, <1>6, <1>7 DEF KeepsShape
<1> QED
  BY <1>2, <1>6, <1>8 DEF w, rest, b

\* install_hosts.sh: the copy once, the old block out, the new one behind the lines.
LEMMA ShCommandsKeep ==
  ASSUME HostsInv, \/ \E ip \in Gateways : ShInstall(ip)
               \/ ShRemove
  PROVE  HostsInv'
<1> DEFINE text == files["hosts"]
           x    == AtOnce("hosts", SedBlocks(text))
           b    == InPlace("hosts.bak", text)
<1>1. /\ x.to = "hosts" /\ x.data \in Seq(Lines) /\ x.kept \in Nat
      /\ InOrder => KeepsShape(x, own)
      /\ x.data \in BeforeScript \/ Exists("hosts.bak")
  BY SedKeepsShape
<1>2. b.to = "hosts.bak" /\ b.data = text /\ b.kept = 0
  BY DEF InPlace
<1>3. ASSUME NEW ip \in Gateways, ShInstall(ip)
      PROVE  HostsInv'
  <2> DEFINE y == AtTheEnd("hosts", SedBlocks(text), Block(ShHeader, ip))
  <2>1. /\ y.to = "hosts" /\ y.data \in Seq(Lines) /\ y.kept \in Nat
        /\ InOrder => KeepsShape(y, own)
    BY AppendKeepsShape
  <2>2. /\ Begin(CopyOnce(text) \o <<x, y>>) /\ UNCHANGED <<own, mixed>>
        /\ saved' = IF Exists("hosts.bak") THEN saved ELSE files["hosts"]
    BY <1>3 DEF ShInstall
  <2>3. CopyOnce(text) = IF Exists("hosts.bak") THEN <<>> ELSE <<b>>
    BY DEF CopyOnce
  <2>3a. ~Exists("hosts.bak") => saved' = b.data
    BY <1>2, <2>2
  <2> HIDE DEF x, y, b, text
  <2>4. /\ Exists("hosts.bak")  => Begin(<<x, y>>)
        /\ ~Exists("hosts.bak") => Begin(<<b, x, y>>)
    <3>1. <<>> \o <<x, y>> = <<x, y>>
      BY JoinedToNothing
    <3>2. <<b>> \o <<x, y>> = <<b, x, y>>
      BY JoinedToOne
    <3> QED
      BY <2>2, <2>3, <3>1, <3>2
  <2>5. (InOrder' <=> InOrder) /\ (Exists("hosts.bak")' <=> Exists("hosts.bak"))
    BY <2>2 DEF Begin, InOrder, Exists
  <2>6. CASE Exists("hosts.bak")
    <3>1. job' = <<x, y>>
      BY <2>4, <2>6 DEF Begin
    <3>2. DOMAIN job' = {1, 2} /\ job'[1] = x /\ job'[2] = y
      BY <3>1, ListOfTwo
    <3>3. HostsWrites'
      BY <1>1, <2>1, <2>2, <2>5, <2>6, <3>2 DEF HostsWrites
    <3> QED
      BY <2>2, <2>4, <2>6, <3>3, HostsBeginKeeps
  <2>7. CASE ~Exists("hosts.bak")
    <3>1. job' = <<b, x, y>>
      BY <2>4, <2>7 DEF Begin
    <3>2. DOMAIN job' = {1, 2, 3} /\ job'[1] = b /\ job'[2] = x /\ job'[3] = y
      BY <3>1, ListOfThree
    <3>3. 1 \in 1 .. 2 - 1 /\ 1 \in 1 .. 3 - 1
      OBVIOUS
    <3>4. HostsWrites'
      BY <1>1, <1>2, <2>1, <2>2, <2>5, <2>7, <2>3a, <3>2, <3>3 DEF HostsWrites
    <3> QED
      BY <2>2, <2>4, <2>7, <3>4, HostsBeginKeeps
  <2> QED
    BY <2>6, <2>7
<1>4. CASE ShRemove
  <2>1. Begin(<<x>>) /\ UNCHANGED <<own, mixed, saved>>
    BY <1>4 DEF ShRemove, hostsVars
  <2> HIDE DEF x, b, text
  <2>2. (InOrder' <=> InOrder) /\ (Exists("hosts.bak")' <=> Exists("hosts.bak")) /\ job' = <<x>>
    BY <2>1 DEF Begin, InOrder, Exists
  <2>3. DOMAIN job' = {1} /\ job'[1] = x
    BY <2>2, ListOfOne
  <2>4. HostsWrites'
    BY <1>1, <2>1, <2>2, <2>3 DEF HostsWrites
  <2> QED
    BY <2>1, <2>4, HostsBeginKeeps
<1> QED
  BY <1>3, <1>4

\* The user's edits, before and behind the block.
LEMMA UserAddsKeeps ==
  ASSUME IInv, HostsInv, NEW u \in UserLines, UserAdds(u)
  PROVE  HostsInv'
<1> DEFINE text == files["hosts"]
           line == UserLine(u)
           end  == Append(text, line)
           front == <<line>> \o text
<1>1. own \in Seq(UserLines) /\ text \in Seq(Lines) /\ line \in Lines /\ line # ShHeader
  <2>1. own \in Seq(UserLines) /\ text \in Seq(Lines)
    BY DEF HostsInv, TextInv
  <2>2. line \in Lines
    BY DEF Lines
  <2>3. UserLine(u) \notin HeaderLines
    BY KindsOfLines
  <2>4. line # ShHeader
    BY <2>3 DEF HeaderLines
  <2> QED
    BY <2>1, <2>2, <2>4
<1>2. /\ Append(own, u) \in Seq(UserLines) /\ <<u>> \o own \in Seq(UserLines)
      /\ end \in Seq(Lines) /\ front \in Seq(Lines)
  BY <1>1, AppendProperties, PutBefore
<1>3. text \in BeforeScript => end \in BeforeScript /\ front \in BeforeScript
  BY <1>1, AppendProperties, PutBefore DEF BeforeScript
<1>4. InOrder => /\ ~Unfinished(text) => InShape(end, Append(own, u))
                 /\ InShape(front, <<u>> \o own)
  BY <1>1, AddedInShape DEF HostsInv, TextInv
<1>5. /\ job = <<>> /\ job' = job /\ mixed' = mixed /\ saved' = saved
      /\ \/ /\ files' = [files EXCEPT !["hosts"] = end] /\ own' = Append(own, u)
            /\ harmed' = IF Unfinished(text) THEN harmed \cup {"hosts"} ELSE harmed
         \/ /\ files' = [files EXCEPT !["hosts"] = front] /\ own' = <<u>> \o own
            /\ harmed' = harmed
  BY DEF UserAdds, Idle
<1> HIDE DEF text, line, end, front
<1>6. /\ files'["hosts.bak"] = files["hosts.bak"]
      /\ \/ files'["hosts"] = end /\ own' = Append(own, u)
         \/ files'["hosts"] = front /\ own' = <<u>> \o own
  BY <1>5 DEF IInv, Frame, Files
<1>7. InOrder' => InShape(files'["hosts"], own')
  <2> SUFFICES ASSUME InOrder' PROVE InShape(files'["hosts"], own')
    OBVIOUS
  <2>1. InOrder
    BY <1>5 DEF InOrder
  <2>2. CASE files' = [files EXCEPT !["hosts"] = front] /\ own' = <<u>> \o own
    <3>1. files'["hosts"] = front
      BY <2>2 DEF IInv, Frame, Files
    <3> QED
      BY <1>4, <2>1, <2>2, <3>1
  <2>3. CASE /\ files' = [files EXCEPT !["hosts"] = end] /\ own' = Append(own, u)
             /\ harmed' = IF Unfinished(text) THEN harmed \cup {"hosts"} ELSE harmed
    <3>1. files'["hosts"] = end
      BY <2>3 DEF IInv, Frame, Files
    <3>2. ~Unfinished(text)
      BY <2>3 DEF InOrder
    <3> QED
      BY <1>4, <2>1, <2>3, <3>1, <3>2
  <2> QED
    BY <1>5, <2>2, <2>3
<1>8. TextInv'
  BY <1>2, <1>6, <1>7 DEF TextInv
<1>9. CopyInv'
  <2>1. "hosts.bak" \notin harmed' => "hosts.bak" \notin harmed
    BY <1>5
  <2> QED
    BY <1>3, <1>5, <1>6, <2>1 DEF HostsInv, CopyInv, IsSaved, Exists, text
<1>10. HostsWrites'
  BY <1>5 DEF HostsWrites
<1> QED
  BY <1>8, <1>9, <1>10 DEF HostsInv

\* A block that is pasted into a file without one.
LEMMA UserPastesKeeps ==
  ASSUME IInv, HostsInv, NEW ip \in Gateways, UserPastes(ip)
  PROVE  HostsInv'
<1> DEFINE text == files["hosts"]
           b    == Block(PastedHeader, ip)
           new  == text \o b
<1>1. own \in Seq(UserLines) /\ text \in Seq(Lines)
  BY DEF HostsInv, TextInv
<1>2. PastedHeader \in HeaderLines /\ PastedHeader # ShHeader
  BY KindsOfLines
<1>3. b \in Seq(Lines) /\ b \in BeforeScript
  BY <1>2, BlockType DEF BeforeScript
<1>4. InShape(OwnLines(own) \o b, own)
  BY <1>1, <1>2, BlockInShape
<1>5. InShape(text, own) /\ Headers(text) = {} => text = OwnLines(own)
  <2> SUFFICES ASSUME InShape(text, own), Headers(text) = {} PROVE text = OwnLines(own)
    OBVIOUS
  <2>1. StripBlock(text) = OwnLines(own)
    <3>1. Places(text, PyHeader) \subseteq Headers(text)
      BY <1>1, KindsOfLines DEF Places, Headers
    <3> QED
      BY <1>1, <3>1, StripTakesBlock
  <2>2. StripBlock(text) = text
    <3>1. Places(text, PyHeader) = {}
      BY KindsOfLines DEF Places, Headers
    <3> QED
      BY <3>1 DEF StripBlock
  <2> QED
    BY <2>1, <2>2
<1>6. /\ job = <<>> /\ job' = job /\ UNCHANGED <<harmed, own, saved>>
      /\ mixed' = (mixed \/ Headers(text) # {}) /\ files' = [files EXCEPT !["hosts"] = new]
  BY DEF UserPastes, Idle
<1> HIDE DEF text, b
<1>7. new \in Seq(Lines) /\ (text \in BeforeScript => new \in BeforeScript)
  BY <1>1, <1>3, ConcatProperties DEF BeforeScript
<1>8. InOrder' => InShape(new, own)
  <2>1. InOrder' => InOrder /\ Headers(text) = {}
    BY <1>6 DEF InOrder
  <2> QED
    BY <1>4, <1>5, <2>1 DEF HostsInv, TextInv, text
<1> HIDE DEF new
<1>9. files'["hosts"] = new /\ files'["hosts.bak"] = files["hosts.bak"]
  BY <1>6 DEF IInv, Frame, Files
<1>10. TextInv'
  BY <1>1, <1>6, <1>7, <1>8, <1>9 DEF TextInv
<1>11. CopyInv'
  BY <1>6, <1>7, <1>9 DEF HostsInv, CopyInv, IsSaved, Exists, text
<1>12. HostsWrites'
  BY <1>6 DEF HostsWrites
<1> QED
  BY <1>10, <1>11, <1>12 DEF HostsInv

-------------------------------------------------------------------------------
(***************************************************************************)
(* The keys.                                                               *)
(***************************************************************************)

\* A key that is written was made.
LEMMA WriteKeepsKeys ==
  ASSUME IInv, KeysInv, Write, UNCHANGED <<generated, mixed, pairs>>
  PROVE  KeysInv'
<1> DEFINE w == Head(job)
<1>1. /\ job # <<>> /\ job' = Tail(job) /\ UNCHANGED <<harmed, kills>>
      /\ files' = [files EXCEPT ![w.to] = w.data]
  BY DEF Write, Idle
<1>2. /\ 1 \in DOMAIN job /\ w = job[1]
      /\ \A i \in DOMAIN job' : i + 1 \in DOMAIN job /\ job'[i] = job[i + 1]
  BY <1>1, ProperTail DEF IInv, Frame
<1>3. /\ w.to = "cm-rsa.key" => w.data \in {<<k>> : k \in generated}
      /\ w.to \in {"ca.key", "leaf.key"} => w.data \in {<<k>> : k \in 1..pairs}
  BY <1>2 DEF KeysInv, KeyWrites
<1> HIDE DEF w
<1>4. \A f \in {"cm-rsa.key", "ca.key", "leaf.key"} :
        files'[f] = IF f = w.to THEN w.data ELSE files[f]
  BY <1>1 DEF IInv, Frame, Files
<1>5. KeyTexts'
  BY <1>3, <1>4 DEF KeysInv, KeyTexts
<1>6. KeyWrites'
  BY <1>2 DEF KeysInv, KeyWrites
<1> QED
  BY <1>1, <1>5, <1>6 DEF KeysInv

\* An interrupted write leaves an empty key file.
LEMMA KillKeepsKeys ==
  ASSUME IInv, KeysInv, Killed, UNCHANGED <<generated, mixed, pairs>>
  PROVE  KeysInv'
<1> DEFINE w == Head(job)
<1>1. /\ job # <<>> /\ job' = <<>> /\ kills < MaxKills /\ kills' = kills + 1
      /\ \/ UNCHANGED <<files, harmed>>
         \/ \E n \in w.kept .. Len(w.data) - 1 :
              /\ files' = [files EXCEPT ![w.to] = SubSeq(w.data, 1, n)]
              /\ harmed' = IF w.kept = 0 THEN harmed \cup {w.to} ELSE harmed
  BY DEF Killed, Idle
<1>2. 1 \in DOMAIN job /\ w = job[1]
  BY <1>1, ProperTail DEF IInv, Frame
<1>3. /\ w.to \in Files
      /\ w.to \in {"cm-rsa.key", "ca.key", "leaf.key"} => w.kept = 0 /\ \E k : w.data = <<k>>
  BY <1>2 DEF KeysInv, KeyWrites
<1> HIDE DEF w
<1>4. KeyWrites'
  BY <1>1 DEF KeyWrites
<1>5. kills' \in 0..MaxKills
  BY <1>1, KillsAssumption DEF KeysInv
<1>6. CASE UNCHANGED <<files, harmed>>
  BY <1>4, <1>5, <1>6 DEF KeysInv, KeyTexts
<1>7. ASSUME NEW n \in w.kept .. Len(w.data) - 1,
             files' = [files EXCEPT ![w.to] = SubSeq(w.data, 1, n)],
             harmed' = IF w.kept = 0 THEN harmed \cup {w.to} ELSE harmed
      PROVE  KeysInv'
  <2>1. w.to \in {"cm-rsa.key", "ca.key", "leaf.key"} => SubSeq(w.data, 1, n) = <<>>
    <3> SUFFICES ASSUME w.to \in {"cm-rsa.key", "ca.key", "leaf.key"}
                 PROVE  SubSeq(w.data, 1, n) = <<>>
      OBVIOUS
    <3>1. PICK k : w.data = <<k>>
      BY <1>3
    <3>2. n = 0
      BY <1>3, <1>7, <3>1
    <3> QED
      BY <3>1, <3>2
  <2>2. \A f \in {"cm-rsa.key", "ca.key", "leaf.key"} :
          files'[f] = IF f = w.to THEN SubSeq(w.data, 1, n) ELSE files[f]
    BY <1>7 DEF IInv, Frame, Files
  <2>3. KeyTexts'
    BY <2>1, <2>2 DEF KeysInv, KeyTexts
  <2>4. harmed' \subseteq Files
    BY <1>3, <1>7 DEF KeysInv
  <2> QED
    BY <1>4, <1>5, <2>3, <2>4 DEF KeysInv
<1> QED
  BY <1>1, <1>6, <1>7

\* What --patch and --swap-key write.
LEMMA BackedUpPlans ==
  ASSUME NEW b, Begin(BackUpOnce \o <<InPlace("dylib", b)>>)
  PROVE  \A i \in DOMAIN job' : job'[i].to \in {"dylib", "dylib.orig"}
<1> DEFINE backup == InPlace("dylib.orig", files["dylib"])
           new    == InPlace("dylib", b)
           W      == {backup, new}
<1>1. backup.to = "dylib.orig" /\ new.to = "dylib"
  BY DEF InPlace
<1>2. job' = BackUpOnce \o <<new>> /\ BackUpOnce \in {<<>>, <<backup>>}
  BY DEF Begin, BackUpOnce
<1> HIDE DEF backup, new
<1>3. <<>> \in Seq(W) /\ <<backup>> \in Seq(W) /\ <<new>> \in Seq(W)
  OBVIOUS
<1>4. job' \in Seq(W)
  BY <1>2, <1>3, ConcatProperties
<1>5. \A i \in DOMAIN job' : job'[i] \in W
  BY <1>4, AllIn
<1> QED
  BY <1>1, <1>5

\* The files that no command of a kind touches stay, until its writes come.
Plans(fs) ==
  /\ UNCHANGED <<harmed, kills>>
  /\ \A f \in Files \ {"cm-rsa.key"} : files'[f] = files[f]
  /\ files'["cm-rsa.key"] \in {Absent, files["cm-rsa.key"]}
  /\ \A i \in DOMAIN job' : job'[i].to \in fs

\* What the client's commands plan.
LEMMA ClientPlans ==
  ASSUME IInv, ClientCommand
  PROVE  /\ Plans(ClientFiles)
         /\ generated \subseteq generated' /\ generated' \ generated \subseteq BridgeKeys
         /\ \A i \in DOMAIN job' :
              job'[i].to = "cm-rsa.key" =>
                job'[i].kept = 0 /\ job'[i].data \in {<<k>> : k \in generated'}
<1>1. ASSUME NEW b, Begin(BackUpOnce \o <<InPlace("dylib", b)>>)
      PROVE  Plans(ClientFiles) /\ \A i \in DOMAIN job' : job'[i].to # "cm-rsa.key"
  <2>1. \A i \in DOMAIN job' : job'[i].to \in {"dylib", "dylib.orig"}
    BY <1>1, BackedUpPlans
  <2>2. UNCHANGED <<files, harmed, kills>>
    BY <1>1 DEF Begin
  <2> QED
    BY <2>1, <2>2 DEF Plans, ClientFiles
<1>2. CASE LoseKey
  <2>1. /\ job' = <<>> /\ UNCHANGED <<harmed, kills, generated>>
        /\ files' = [files EXCEPT !["cm-rsa.key"] = Absent]
    BY <1>2 DEF LoseKey, Idle
  <2>2. /\ files'["cm-rsa.key"] = Absent
        /\ \A f \in Files \ {"cm-rsa.key"} : files'[f] = files[f]
    BY <2>1 DEF IInv, Frame, Files
  <2> QED
    BY <2>1, <2>2 DEF Plans
<1>3. CASE Restore
  <2> DEFINE w == InPlace("dylib", files["dylib.orig"])
  <2>1. Begin(<<w>>) /\ w.to = "dylib" /\ generated' = generated
    BY <1>3 DEF Restore, InPlace
  <2> HIDE DEF w
  <2>2. job' = <<w>> /\ UNCHANGED <<files, harmed, kills>>
    BY <2>1 DEF Begin
  <2>3. DOMAIN job' = {1} /\ job'[1] = w
    BY <2>2, ListOfOne
  <2> QED
    BY <2>1, <2>2, <2>3 DEF Plans, ClientFiles
<1>4. ASSUME NEW k \in BridgeKeys, LoadOrCreateCmKey(k)
      PROVE  /\ Plans(ClientFiles) /\ generated' = generated \cup {k}
             /\ \A i \in DOMAIN job' : job'[i].kept = 0 /\ job'[i].data = <<k>>
  <2> DEFINE w == InPlace("cm-rsa.key", <<k>>)
  <2>1. /\ Begin(<<w>>) /\ generated' = generated \cup {k}
        /\ w.to = "cm-rsa.key" /\ w.kept = 0 /\ w.data = <<k>>
    BY <1>4 DEF LoadOrCreateCmKey, InPlace
  <2> HIDE DEF w
  <2>2. job' = <<w>> /\ UNCHANGED <<files, harmed, kills>>
    BY <2>1 DEF Begin
  <2>3. DOMAIN job' = {1} /\ job'[1] = w
    BY <2>2, ListOfOne
  <2> QED
    BY <2>1, <2>2, <2>3 DEF Plans, ClientFiles
<1>5. ASSUME NEW ip \in Gateways, PatchClient(ip)
      PROVE  /\ Plans(ClientFiles) /\ generated' = generated
             /\ \A i \in DOMAIN job' : job'[i].to # "cm-rsa.key"
  BY <1>1, <1>5 DEF PatchClient
<1>6. CASE SwapKey
  <2>1. /\ Plans(ClientFiles) /\ generated' = generated
        /\ \A i \in DOMAIN job' : job'[i].to # "cm-rsa.key"
    BY <1>1, <1>6 DEF SwapKey
  <2> QED
    BY <2>1
<1>7. CASE \E ip \in Gateways : PatchClient(ip)
  BY <1>5, <1>7
<1>8. CASE LoseKey \/ Restore
  <2>1. generated' = generated
    BY <1>8 DEF LoseKey, Restore
  <2>2. \A i \in DOMAIN job' : job'[i].to # "cm-rsa.key"
    <3>1. CASE LoseKey
      BY <3>1 DEF LoseKey, Idle
    <3>2. CASE Restore
      <4> DEFINE w == InPlace("dylib", files["dylib.orig"])
      <4>1. job' = <<w>> /\ w.to = "dylib"
        BY <3>2 DEF Restore, Begin, InPlace
      <4> HIDE DEF w
      <4>2. DOMAIN job' = {1} /\ job'[1] = w
        BY <4>1, ListOfOne
      <4> QED
        BY <4>1, <4>2
    <3> QED
      BY <1>8, <3>1, <3>2
  <2> QED
    BY <1>2, <1>3, <1>8, <2>1, <2>2
<1>9. CASE \E k \in BridgeKeys : LoadOrCreateCmKey(k)
  BY <1>4, <1>9
<1> QED
  BY <1>6, <1>7, <1>8, <1>9 DEF ClientCommand

\* What ensure_bundle_cert() plans: keys that are made now.
LEMMA CertsPlan ==
  ASSUME IInv, EnsureBundleCert
  PROVE  /\ Plans(CertFiles)
         /\ pairs' = pairs + 2
         /\ \A i \in DOMAIN job' :
              job'[i].to \in {"ca.key", "leaf.key"} =>
                job'[i].kept = 0 /\ job'[i].data \in {<<k>> : k \in 1..pairs'}
<1> DEFINE k == pairs + 1
           l == pairs + 2
<1>1. pairs \in Nat /\ k \in 1..l /\ l \in 1..l
  BY DEF IInv, Frame
<1>2. PICK issuer : Begin(EnsureCa(k) \o EnsureLeaf(issuer, l)) /\ pairs' = l
  BY DEF EnsureBundleCert
<1> HIDE DEF k, l
<1> DEFINE a == InPlace("ca.crt", <<Certificate(k, k)>>)
           b == InPlace("ca.key", <<k>>)
           c == InPlace("leaf.crt", <<Certificate(l, issuer)>>)
           d == InPlace("leaf.key", <<l>>)
           W == {a, b, c, d}
<1>3. /\ a.to = "ca.crt" /\ b.to = "ca.key" /\ c.to = "leaf.crt" /\ d.to = "leaf.key"
      /\ b.kept = 0 /\ b.data = <<k>> /\ d.kept = 0 /\ d.data = <<l>>
  BY DEF InPlace
<1>4. EnsureCa(k) \in {<<>>, <<a, b>>} /\ EnsureLeaf(issuer, l) \in {<<>>, <<c, d>>}
  BY DEF EnsureCa, EnsureLeaf, WritePair
<1> HIDE DEF a, b, c, d
<1>5. <<>> \in Seq(W) /\ <<a, b>> \in Seq(W) /\ <<c, d>> \in Seq(W)
  OBVIOUS
<1>6. EnsureCa(k) \o EnsureLeaf(issuer, l) \in Seq(W)
  BY <1>4, <1>5, ConcatProperties
<1>7. job' \in Seq(W) /\ UNCHANGED <<files, harmed, kills>>
  BY <1>2, <1>6 DEF Begin
<1>8. \A i \in DOMAIN job' : job'[i] \in W
  BY <1>7, AllIn
<1>9. Plans(CertFiles)
  BY <1>3, <1>7, <1>8 DEF Plans, CertFiles
<1>10. \A i \in DOMAIN job' :
         job'[i].to \in {"ca.key", "leaf.key"} =>
           job'[i].kept = 0 /\ job'[i].data \in {<<k>>, <<l>>}
  BY <1>3, <1>8
<1> QED
  BY <1>1, <1>2, <1>9, <1>10 DEF l

\* So the keys keep to those that were made.
LEMMA CommandsKeepKeys ==
  ASSUME IInv, KeysInv,
         \/ ClientCommand /\ UNCHANGED <<hostsVars, pairs>>
         \/ HostsCommand /\ UNCHANGED <<generated, pairs>>
         \/ EnsureBundleCert /\ UNCHANGED <<generated, hostsVars>>
  PROVE  KeysInv'
<1>1. /\ generated \subseteq BridgeKeys /\ mixed \in BOOLEAN
      /\ harmed \subseteq Files /\ kills \in 0..MaxKills /\ KeyTexts /\ pairs \in Nat
  BY DEF KeysInv, IInv, Frame
<1>2. CASE ClientCommand /\ UNCHANGED <<hostsVars, pairs>>
  <2>1. /\ Plans(ClientFiles)
        /\ generated \subseteq generated' /\ generated' \ generated \subseteq BridgeKeys
        /\ \A i \in DOMAIN job' :
             job'[i].to = "cm-rsa.key" =>
               job'[i].kept = 0 /\ job'[i].data \in {<<k>> : k \in generated'}
    BY <1>2, ClientPlans
  <2>2. KeyTexts'
    <3>1. \A f \in {"ca.key", "leaf.key"} : files'[f] = files[f]
      BY <2>1 DEF Plans, Files
    <3>2. files'["cm-rsa.key"] \in {Absent, files["cm-rsa.key"]}
      BY <2>1 DEF Plans
    <3> QED
      BY <1>1, <1>2, <2>1, <3>1, <3>2 DEF KeyTexts
  <2>3. KeyWrites'
    <3>1. \A i \in DOMAIN job' : job'[i].to \in ClientFiles
      BY <2>1 DEF Plans
    <3>2. ClientFiles \subseteq Files /\ ClientFiles \cap {"ca.key", "leaf.key"} = {}
      BY DEF ClientFiles, Files
    <3> QED
      BY <2>1, <3>1, <3>2 DEF KeyWrites
  <2> QED
    BY <1>1, <1>2, <2>1, <2>2, <2>3 DEF KeysInv, Plans, hostsVars
<1>3. CASE HostsCommand /\ UNCHANGED <<generated, pairs>>
  <2>1. /\ UNCHANGED kills /\ (harmed' = harmed \/ harmed' = harmed \cup {"hosts"})
        /\ \A f \in Files \ {"hosts"} : files'[f] = files[f]
        /\ \A i \in DOMAIN job' : job'[i].to \in {"hosts", "hosts.bak"}
        /\ mixed \in BOOLEAN => mixed' \in BOOLEAN
    BY <1>3, HostsPlan
  <2>2. KeyTexts'
    <3>1. \A f \in {"cm-rsa.key", "ca.key", "leaf.key"} : files'[f] = files[f]
      BY <2>1 DEF Files
    <3> QED
      BY <1>1, <1>3, <3>1 DEF KeyTexts
  <2>3. KeyWrites' /\ harmed' \subseteq Files
    <3>1. {"hosts", "hosts.bak"} \subseteq Files
      BY DEF Files
    <3>2. KeyWrites'
      BY <2>1, <3>1 DEF KeyWrites
    <3>3. harmed' \subseteq Files
      BY <1>1, <2>1, <3>1
    <3> QED
      BY <3>2, <3>3
  <2> QED
    BY <1>1, <1>3, <2>1, <2>2, <2>3 DEF KeysInv
<1>4. CASE EnsureBundleCert /\ UNCHANGED <<generated, hostsVars>>
  <2>1. /\ Plans(CertFiles) /\ pairs' = pairs + 2
        /\ \A i \in DOMAIN job' :
             job'[i].to \in {"ca.key", "leaf.key"} =>
               job'[i].kept = 0 /\ job'[i].data \in {<<k>> : k \in 1..pairs'}
    BY <1>4, CertsPlan
  <2>2. KeyTexts'
    <3>1. \A f \in {"ca.key", "leaf.key"} : files'[f] = files[f]
      BY <2>1 DEF Plans, Files
    <3>2. files'["cm-rsa.key"] \in {Absent, files["cm-rsa.key"]}
      BY <2>1 DEF Plans
    <3>3. 1..pairs \subseteq 1..pairs'
      BY <1>1, <2>1
    <3> QED
      BY <1>1, <1>4, <3>1, <3>2, <3>3 DEF KeyTexts
  <2>3. KeyWrites'
    <3>1. \A i \in DOMAIN job' : job'[i].to \in CertFiles
      BY <2>1 DEF Plans
    <3>2. CertFiles \subseteq Files /\ "cm-rsa.key" \notin CertFiles
      BY DEF CertFiles, Files
    <3> QED
      BY <2>1, <3>1, <3>2 DEF KeyWrites
  <2> QED
    BY <1>1, <1>4, <2>1, <2>2, <2>3 DEF KeysInv, Plans, hostsVars
<1> QED
  BY <1>2, <1>3, <1>4

-------------------------------------------------------------------------------
(***************************************************************************)
(* All of it.                                                              *)
(***************************************************************************)

\* Each command of the hosts tools, and of the others, keeps the hosts file.
LEMMA HostsCommandKeepsHosts ==
  ASSUME IInv, HostsInv, HostsCommand
  PROVE  HostsInv'
BY PyCommandsKeep, ShCommandsKeep, UserAddsKeeps, UserPastesKeeps DEF HostsCommand

\* The other tools leave the hosts file and its copy alone.
LEMMA PlansKeepHosts ==
  ASSUME HostsInv, NEW fs, Plans(fs), fs \cap {"hosts", "hosts.bak"} = {}, UNCHANGED hostsVars
  PROVE  HostsInv'
<1>1. files'["hosts"] = files["hosts"] /\ files'["hosts.bak"] = files["hosts.bak"]
  BY DEF Plans, Files
<1>2. \A i \in DOMAIN job' : job'[i].to \notin {"hosts", "hosts.bak"}
  BY DEF Plans
<1> QED
  BY <1>1, <1>2, OthersKeepHosts DEF Plans, hostsVars

\* The user's one line, and the key that may be there.
LEMMA InitMore == Init => HostsInv /\ KeysInv
<1> SUFFICES ASSUME Init PROVE HostsInv /\ KeysInv
  OBVIOUS
<1>1. PICK u \in UserLines : own = <<u>> /\ files["hosts"] = <<UserLine(u)>>
  BY DEF Init, HostsInit
<1>2. /\ files["hosts.bak"] = Absent /\ mixed = FALSE /\ saved = <<>> /\ job = <<>> /\ kills = 0 /\ harmed = {}
      /\ generated \in {{}} \cup {{k} : k \in BridgeKeys}
      /\ files["cm-rsa.key"] \in {Absent} \cup {<<k>> : k \in generated}
      /\ files["ca.key"] = Absent /\ files["leaf.key"] = Absent
  BY DEF Init, ClientInit, HostsInit, CertsInit
<1>3. own \in Seq(UserLines) /\ files["hosts"] = OwnLines(own)
  <2>1. own \in Seq(UserLines)
    BY <1>1
  <2>2. DOMAIN <<u>> = {1} /\ <<u>>[1] = u
    OBVIOUS
  <2>3. OwnLines(<<u>>) = <<UserLine(u)>>
    BY <2>2 DEF OwnLines
  <2> QED
    BY <1>1, <2>1, <2>3
<1>4. InShape(files["hosts"], own) /\ files["hosts"] \in Seq(Lines) /\ files["hosts"] \in BeforeScript
  BY <1>3, OwnInShape, OwnLinesType DEF BeforeScript
<1>5. HostsInv
  BY <1>2, <1>3, <1>4 DEF HostsInv, TextInv, CopyInv, HostsWrites, Exists, BeforeScript
<1>6. KeyTexts /\ KeyWrites
  BY <1>2 DEF KeyTexts, KeyWrites
<1>7. generated \subseteq BridgeKeys /\ mixed \in BOOLEAN /\ harmed \subseteq Files
  BY <1>2
<1>8. kills \in 0..MaxKills
  BY <1>2, KillsAssumption
<1> QED
  BY <1>5, <1>6, <1>7, <1>8 DEF KeysInv

\* What holds of all the files, and of what is still to be written to them, in every
\* state.
THEOREM SetupInvariance == Spec => [](IInv /\ HostsInv /\ KeysInv)
<1>1. IInv /\ HostsInv /\ KeysInv /\ [Next]_vars => HostsInv' /\ KeysInv'
  <2> SUFFICES ASSUME IInv, HostsInv, KeysInv, [Next]_vars PROVE HostsInv' /\ KeysInv'
    OBVIOUS
  <2>1. CASE UNCHANGED vars
    <3>1. UNCHANGED <<files, job, harmed, kills, generated, own, mixed, saved, pairs>>
      BY <2>1 DEF vars, fileVars, hostsVars
    <3>2. TextInv' /\ CopyInv' /\ HostsWrites'
      BY <3>1 DEF HostsInv, TextInv, CopyInv, IsSaved, HostsWrites, InOrder, Exists
    <3>3. KeysInv'
      BY <3>1 DEF KeysInv, KeyTexts, KeyWrites
    <3> QED
      BY <3>2, <3>3 DEF HostsInv
  <2>2. CASE ClientCommand /\ UNCHANGED <<hostsVars, pairs>>
    <3>1. Plans(ClientFiles)
      BY <2>2, ClientPlans
    <3>2. ClientFiles \cap {"hosts", "hosts.bak"} = {}
      BY DEF ClientFiles
    <3> QED
      BY <2>2, <3>1, <3>2, PlansKeepHosts, CommandsKeepKeys
  <2>3. CASE HostsCommand /\ UNCHANGED <<generated, pairs>>
    BY <2>3, HostsCommandKeepsHosts, CommandsKeepKeys
  <2>4. CASE EnsureBundleCert /\ UNCHANGED <<generated, hostsVars>>
    <3>1. Plans(CertFiles)
      BY <2>4, CertsPlan
    <3>2. CertFiles \cap {"hosts", "hosts.bak"} = {}
      BY DEF CertFiles
    <3> QED
      BY <2>4, <3>1, <3>2, PlansKeepHosts, CommandsKeepKeys
  <2>5. CASE Write /\ UNCHANGED <<generated, hostsVars, pairs>>
    BY <2>5, WriteKeepsHosts, WriteKeepsKeys DEF hostsVars
  <2>6. CASE Killed /\ UNCHANGED <<generated, hostsVars, pairs>>
    BY <2>6, KillKeepsHosts, KillKeepsKeys DEF hostsVars
  <2> QED
    BY <2>1, <2>2, <2>3, <2>4, <2>5, <2>6 DEF Next
<1> QED
  BY <1>1, InitMore, Invariance, PTL DEF Spec

\* A file holds what commands wrote to it, or a beginning of that: its slots, its
\* lines, a key that was made.
THEOREM TypesHold == Spec => []TypeOK
<1>1. IInv /\ HostsInv /\ KeysInv /\ SlotsKeepToThemselves => TypeOK
  <2> SUFFICES ASSUME IInv, HostsInv, KeysInv, SlotsKeepToThemselves PROVE TypeOK
    OBVIOUS
  <2>1. DOMAIN files = Files /\ files["dylib"] \in Seq(Slots)
    BY DEF IInv, Frame, ClientInv, BinaryInv, GoodBinary
  <2>2. Exists("dylib.orig") => files["dylib.orig"] \in Seq(Slots)
    BY PristineIsGood, BeginningIsGood DEF IInv, ClientInv, BackupInv, GoodBinary
  <2>3. /\ files["hosts"] \in Seq(Lines) /\ saved \in Seq(Lines)
        /\ Exists("hosts.bak") => files["hosts.bak"] \in Seq(Lines)
    BY SeqMonotonic DEF HostsInv, TextInv, CopyInv, IsSaved, BeforeScript
  <2>4. /\ Exists("cm-rsa.key") => files["cm-rsa.key"] \in {<<>>} \cup {<<k>> : k \in generated}
        /\ \A f \in {"ca.key", "leaf.key"} :
             Exists(f) => files[f] \in {<<>>} \cup {<<k>> : k \in 1..pairs}
    BY DEF KeysInv, KeyTexts, Exists
  <2> QED
    BY <2>1, <2>2, <2>3, <2>4 DEF TypeOK, KeysInv
<1> QED
  BY <1>1, SetupInvariance, SlotsKeep, PTL

\* A backup is a beginning of what its file held before the tool that made it first
\* changed the file, and the whole of it unless the one copy was interrupted.  The
\* client's is of Valve's binary.  That of the hosts file has no block that the script
\* wrote, since install_hosts.sh copies once, and before it writes; it may have one that
\* the Python tool wrote or the user pasted before that.
THEOREM BackupsStay == Spec => []BackupsAreFromBefore
<1>1. HostsInv => CopyIsFromBefore
  <2> DEFINE copy == files["hosts.bak"]
  <2> SUFFICES ASSUME HostsInv, Exists("hosts.bak")
               PROVE  /\ Places(copy, ShHeader) = {} /\ IsPrefix(copy, saved)
                      /\ "hosts.bak" \notin harmed => copy = saved
    BY DEF CopyIsFromBefore
  <2>1. /\ copy \in Seq(Lines \ {ShHeader}) /\ saved \in Seq(Lines \ {ShHeader})
        /\ copy = SubSeq(saved, 1, Len(copy)) /\ Len(copy) <= Len(saved)
        /\ "hosts.bak" \notin harmed => copy = saved
    BY DEF HostsInv, CopyInv, IsSaved, BeforeScript
  <2>2. \A i \in DOMAIN copy : copy[i] \in Lines \ {ShHeader}
    BY <2>1, AllIn
  <2>3. SubSeq(copy, 1, Len(copy)) = copy
    <3>1. Len(copy) \in 0..Len(copy)
      BY <2>1, LenProperties
    <3> QED
      BY <2>1, <3>1, BeginningType
  <2>4. IsPrefix(copy, saved)
    BY <2>1, <2>3 DEF IsPrefix
  <2> QED
    BY <2>1, <2>2, <2>4 DEF Places
<1> QED
  BY <1>1, SetupInvariance, BackupStaysOriginal, PTL DEF BackupsAreFromBefore

\* The user's lines survive, in their order, any installations and removals by either
\* tool, or by hand, the script's being interrupted at any point, unless the Python tool
\* meets a block with the script's header, a block is pasted behind another, or a kill
\* loses what was there.
THEOREM UserLinesStay == Spec => []UserLinesKept
<1>1. HostsInv => UserLinesKept
  BY ShapeKeeps DEF HostsInv, TextInv, UserLinesKept
<1> QED
  BY <1>1, SetupInvariance, PTL

\* And there is one block at most: each tool takes the old one out before it puts its
\* own behind the user's lines.
THEOREM OneBlockOnly == Spec => []OneBlock
<1>1. HostsInv => OneBlock
  BY ShapeKeeps DEF HostsInv, TextInv, OneBlock
<1> QED
  BY <1>1, SetupInvariance, PTL
===============================================================================
