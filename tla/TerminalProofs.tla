----------------------------- MODULE TerminalProofs -----------------------------
(* The terminal keeps the client's text as well-formed UTF-8 and its cursor    *)
(* where the session lets a client type, for any characters, any number of     *)
(* clients and whatever they press.                                            *)
EXTENDS Terminal, SessionOrderProofs, FiniteSetTheorems

Byte == 0 .. 255

-----------------------------------------------------------------------------
(* Recursive functions and splices *)

\* F tells how each of n steps leads from a value to the next; f goes through
\* the values from start on.
Steps(F, n, S) == F \in [1 .. n -> [S -> S]]
Runs(f, F, n, S, start) ==
  f \in [0 .. n -> S] /\ f[0] = start /\ \A i \in 1 .. n : f[i] = F[i][f[i - 1]]

\* A function computed step by step over 1 .. n exists.
LEMMA Iterated ==
  ASSUME NEW S, NEW n \in Nat, NEW start \in S, NEW F, Steps(F, n, S)
  PROVE  \E f : Runs(f, F, n, S, start)
<1>0. F \in [1 .. n -> [S -> S]]
  BY DEF Steps
<1> DEFINE Stages(f, m) == /\ f \in [0 .. m -> S]
                           /\ f[0] = start
                           /\ \A i \in 1 .. m : f[i] = F[i][f[i - 1]]
           T == {m \in Nat : m <= n => \E f : Stages(f, m)}
<1>1. 0 \in T
  <2>1. Stages([i \in 0 .. 0 |-> start], 0)
    OBVIOUS
  <2> QED
    BY <2>1
<1>2. ASSUME NEW m \in Nat, m \in T
      PROVE  m + 1 \in T
  <2>1. SUFFICES ASSUME m + 1 <= n
                 PROVE  \E f : Stages(f, m + 1)
    OBVIOUS
  <2>2. PICK f : Stages(f, m)
    BY <1>2, <2>1
  <2> DEFINE next == F[m + 1][f[m]]
             g == [i \in 0 .. m + 1 |-> IF i <= m THEN f[i] ELSE next]
  <2>3. next \in S
    BY <1>0, <2>1, <2>2
  <2> HIDE DEF next
  <2>4. g \in [0 .. m + 1 -> S] /\ g[0] = start
    BY <2>2, <2>3
  <2>5. ASSUME NEW i \in 1 .. m + 1
        PROVE  g[i] = F[i][g[i - 1]]
    <3>1. CASE i <= m
      BY <2>2, <3>1
    <3>2. CASE i = m + 1
      <4>1. g[i] = next
        BY <3>2
      <4>2. i - 1 = m /\ g[i - 1] = f[m]
        BY <3>2
      <4> QED
        BY <3>2, <4>1, <4>2 DEF next
    <3> QED
      BY <3>1, <3>2
  <2> QED
    BY <2>4, <2>5
<1> HIDE DEF T
<1>3. n \in T
  BY <1>1, <1>2, NatSetInduction
<1> QED
  BY <1>3 DEF T, Runs

\* A sequence in which what is between two places gives way to another.
Splice(b, x, w, y) == SubSeq(b, 1, x) \o w \o SubSeq(b, y + 1, Len(b))

\* What is before and after stays, and w stands between.
Between(new, b, x, w, y) ==
  /\ Len(new) = x + Len(w) + (Len(b) - y)
  /\ \A k \in 1 .. x : new[k] = b[k]
  /\ \A k \in 1 .. Len(w) : new[x + k] = w[k]
  /\ \A k \in 1 .. Len(b) - y : new[x + Len(w) + k] = b[y + k]

\* That is what a splice makes.
LEMMA Spliced ==
  ASSUME NEW S, NEW b \in Seq(S), NEW w \in Seq(S), NEW x \in Nat, NEW y \in Nat, x <= y, y <= Len(b)
  PROVE  Splice(b, x, w, y) \in Seq(S) /\ Between(Splice(b, x, w, y), b, x, w, y)
<1> DEFINE left == SubSeq(b, 1, x)
           right == SubSeq(b, y + 1, Len(b))
           front == left \o w
           new == front \o right
<1>0. Len(b) \in Nat /\ Len(w) \in Nat
  OBVIOUS
<1>1. \A i \in 1 .. Len(b) : b[i] \in S
  BY ElementOfSeq
<1>2. left \in Seq(S) /\ Len(left) = x /\ \A k \in 1 .. x : left[k] = b[k]
  <2>1. \A i \in 1 .. x : b[i] \in S
    BY <1>0, <1>1
  <2> QED
    BY <1>0, <2>1, SubSeqProperties
<1>3. right \in Seq(S) /\ Len(right) = Len(b) - y /\ \A k \in 1 .. Len(b) - y : right[k] = b[y + k]
  <2>1. \A i \in y + 1 .. Len(b) : b[i] \in S
    BY <1>0, <1>1
  <2>2. /\ right \in Seq(S)
        /\ Len(right) = IF y + 1 <= Len(b) THEN Len(b) - (y + 1) + 1 ELSE 0
        /\ \A k \in 1 .. Len(b) - (y + 1) + 1 : right[k] = b[y + 1 + k - 1]
    BY <1>0, <2>1, SubSeqProperties
  <2> HIDE DEF right
  <2>3. \A k \in 1 .. Len(b) - y : k \in 1 .. Len(b) - (y + 1) + 1 /\ y + 1 + k - 1 = y + k
    BY <1>0
  <2> QED
    BY <1>0, <2>2, <2>3
<1> HIDE DEF left, right
<1>4. /\ front \in Seq(S) /\ Len(front) = x + Len(w)
      /\ \A k \in 1 .. x + Len(w) : front[k] = IF k <= x THEN left[k] ELSE w[k - x]
  BY <1>2, ConcatProperties
<1> HIDE DEF front
<1>5. /\ new \in Seq(S) /\ Len(new) = x + Len(w) + (Len(b) - y)
      /\ \A k \in 1 .. x + Len(w) + (Len(b) - y) :
           new[k] = IF k <= x + Len(w) THEN front[k] ELSE right[k - (x + Len(w))]
  <2>0. front \in Seq(S) /\ right \in Seq(S)
    BY <1>3, <1>4
  <2>1. /\ front \o right \in Seq(S) /\ Len(front \o right) = Len(front) + Len(right)
        /\ \A k \in 1 .. Len(front) + Len(right) :
             (front \o right)[k] = IF k <= Len(front) THEN front[k] ELSE right[k - Len(front)]
    BY <2>0, ConcatProperties
  <2>2. Len(front) = x + Len(w) /\ Len(right) = Len(b) - y
    BY <1>3, <1>4
  <2>3. new = front \o right
    OBVIOUS
  <2> HIDE DEF new
  <2> QED
    BY <2>1, <2>2, <2>3
<1> HIDE DEF new
<1>6. ASSUME NEW k \in 1 .. x PROVE new[k] = b[k]
  <2>1. k \in 1 .. x + Len(w) /\ k \in 1 .. x + Len(w) + (Len(b) - y) /\ k <= x + Len(w) /\ k <= x
    BY <1>0
  <2> QED
    BY <1>2, <1>4, <1>5, <2>1
<1>7. ASSUME NEW k \in 1 .. Len(w) PROVE new[x + k] = w[k]
  <2> DEFINE l == x + k
  <2>1. l \in 1 .. x + Len(w) /\ l \in 1 .. x + Len(w) + (Len(b) - y) /\ l <= x + Len(w) /\ ~(l <= x) /\ l - x = k
    BY <1>0
  <2> HIDE DEF l
  <2>2. new[l] = w[k]
    BY <1>4, <1>5, <2>1
  <2> QED
    BY <2>2 DEF l
<1>8. ASSUME NEW k \in 1 .. Len(b) - y PROVE new[x + Len(w) + k] = b[y + k]
  <2> DEFINE l == x + Len(w) + k
  <2>1. l \in 1 .. x + Len(w) + (Len(b) - y) /\ ~(l <= x + Len(w)) /\ l - (x + Len(w)) = k
    BY <1>0
  <2> HIDE DEF l
  <2>2. new[l] = right[k]
    BY <1>5, <2>1
  <2> QED
    BY <1>3, <2>2 DEF l
<1> QED
  <2>1. Splice(b, x, w, y) = new
    BY DEF new, front, left, right, Splice
  <2>2. Between(new, b, x, w, y)
    BY <1>5, <1>6, <1>7, <1>8 DEF Between
  <2> QED
    BY <1>5, <2>1, <2>2

-----------------------------------------------------------------------------
(* UTF-8 *)

\* The number of bytes of a character.
Width(char) == Len(Utf8Of[char])

\* A character has one to four bytes, and only its first begins a character.
LEMMA CharacterBytes ==
  ASSUME NEW char \in Char
  PROVE  /\ Utf8Of[char] \in Seq(Byte)
         /\ Width(char) \in 1 .. 4 /\ Width(char) = U!CharBytes(Utf8Of[char][1])
         /\ ~ U!IsContinuation(Utf8Of[char][1])
         /\ \A k \in 2 .. Width(char) : U!IsContinuation(Utf8Of[char][k])
<1> DEFINE u == Utf8Of[char]
           n == Len(u)
           first == u[1]
<1>1. \/ n = 1 /\ first \in 1 .. 127
      \/ n = 2 /\ first \in 192 .. 223
      \/ n = 3 /\ first \in 224 .. 239
      \/ n = 4 /\ first \in 240 .. 247
  BY Utf8Assumption
<1>2. \A k \in 2 .. n : u[k] \in 128 .. 191
  BY Utf8Assumption
<1>3. u \in Seq(1 .. 255)
  BY Utf8Assumption
<1> HIDE DEF n, first
<1>4. n \in 1 .. 4 /\ n = U!CharBytes(first) /\ ~ U!IsContinuation(first)
  BY <1>1 DEF U!CharBytes, U!IsContinuation
<1>5. \A k \in 2 .. n : U!IsContinuation(u[k])
  BY <1>2 DEF U!IsContinuation
<1> HIDE DEF u
<1>6. u \in Seq(Byte)
  <2>1. 1 .. 255 \subseteq Byte
    BY DEF Byte
  <2>2. /\ Len(u) \in Nat /\ DOMAIN u = 1 .. Len(u) /\ \A k \in 1 .. Len(u) : u[k] \in 1 .. 255
        /\ u = [k \in 1 .. Len(u) |-> u[k]]
    <3>1. Len(u) \in Nat /\ DOMAIN u = 1 .. Len(u) /\ u = [k \in 1 .. Len(u) |-> u[k]]
      BY <1>3
    <3>2. \A k \in 1 .. Len(u) : u[k] \in 1 .. 255
      BY <1>3, ElementOfSeq
    <3> QED
      BY <3>1, <3>2
  <2>3. u \in [1 .. Len(u) -> Byte]
    BY <2>1, <2>2
  <2> QED
    BY <2>2, <2>3
<1> QED
  BY <1>4, <1>5, <1>6 DEF u, n, first, Width

\* b begins with the bytes of the first n characters of s: off[i] is where the
\* i-th ends.
Encodes(b, s, n, off) ==
  /\ off \in [0 .. n -> Nat]
  /\ off[0] = 0
  /\ \A i \in 1 .. n : /\ off[i] = off[i - 1] + Width(s[i])
                       /\ off[i] <= Len(b)
                       /\ \A k \in 1 .. Width(s[i]) : b[off[i - 1] + k] = Utf8Of[s[i]][k]

\* The bytes of the whole text, and nothing else.
EncodesAll(b, s, off) == Encodes(b, s, Len(s), off) /\ off[Len(s)] = Len(b)

\* Characters do not overlap: where one ends is before where the next does.
LEMMA OffsetsGrow ==
  ASSUME NEW s \in Seq(Char), NEW b \in Seq(Byte), NEW n \in Nat, n <= Len(s), NEW off, Encodes(b, s, n, off)
  PROVE  \A i, j \in 0 .. n : /\ off[i] \in Nat
                              /\ off[i] <= Len(b)
                              /\ i < j => off[i] < off[j]
<1>0. /\ off \in [0 .. n -> Nat] /\ off[0] = 0 /\ Len(b) \in Nat /\ Len(s) \in Nat
      /\ \A i \in 1 .. n : off[i] = off[i - 1] + Width(s[i]) /\ off[i] <= Len(b)
  BY DEF Encodes
<1>1. \A i \in 1 .. n : Width(s[i]) \in 1 .. 4
  <2> TAKE i \in 1 .. n
  <2>1. s[i] \in Char
    BY <1>0, ElementOfSeq
  <2> QED
    BY <2>1, CharacterBytes
<1>2. ASSUME NEW i \in 0 .. n
      PROVE  \A j \in 0 .. n : i < j => off[i] < off[j]
  <2> DEFINE T == {d \in Nat : i + (d + 1) <= n => off[i] < off[i + (d + 1)]}
  <2>1. 0 \in T
    <3>1. SUFFICES ASSUME i + 1 <= n PROVE off[i] < off[i + 1]
      OBVIOUS
    <3> DEFINE j == i + 1
    <3>2. j \in 1 .. n /\ j - 1 = i /\ i \in 0 .. n
      BY <3>1
    <3> HIDE DEF j
    <3>3. off[j] = off[i] + Width(s[j]) /\ Width(s[j]) \in 1 .. 4 /\ off[i] \in Nat
      BY <1>0, <1>1, <3>2
    <3>4. off[i] < off[j]
      BY <3>3
    <3> QED
      BY <3>4 DEF j
  <2>2. ASSUME NEW d \in Nat, d \in T
        PROVE  d + 1 \in T
    <3> DEFINE j == i + (d + 1)
    <3>1. SUFFICES ASSUME i + ((d + 1) + 1) <= n PROVE off[i] < off[i + ((d + 1) + 1)]
      OBVIOUS
    <3>2. j + 1 = i + ((d + 1) + 1) /\ j + 1 \in 1 .. n /\ (j + 1) - 1 = j /\ j \in 0 .. n /\ off[i] < off[j]
      BY <2>2, <3>1
    <3> DEFINE l == j + 1
    <3>3. l \in 1 .. n /\ l - 1 = j /\ j \in 0 .. n /\ off[i] < off[j] /\ l = i + ((d + 1) + 1)
      BY <3>2
    <3> HIDE DEF j, l
    <3>4. off[l] = off[j] + Width(s[l]) /\ Width(s[l]) \in 1 .. 4 /\ off[i] \in Nat /\ off[j] \in Nat
      BY <1>0, <1>1, <3>3
    <3>5. off[i] < off[l]
      BY <3>3, <3>4
    <3> QED
      BY <3>3, <3>5
  <2> HIDE DEF T
  <2>3. Nat \subseteq T
    BY <2>1, <2>2, NatSetInduction
  <2> TAKE j \in 0 .. n
  <2> HAVE i < j
  <2> DEFINE d == j - i - 1
  <2>4. d \in Nat /\ i + (d + 1) = j
    OBVIOUS
  <2> HIDE DEF d
  <2>5. d \in T
    BY <2>3, <2>4
  <2>6. i + (d + 1) <= n
    BY <2>4
  <2>7. off[i] < off[i + (d + 1)]
    BY <2>5, <2>6 DEF T
  <2> QED
    BY <2>4, <2>7
<1>3. \A i \in 0 .. n : off[i] <= Len(b)
  <2> TAKE i \in 0 .. n
  <2>1. i = 0 \/ i \in 1 .. n
    OBVIOUS
  <2> QED
    BY <1>0, <2>1
<1> QED
  BY <1>0, <1>2, <1>3

\* Every byte belongs to one of the characters.
LEMMA BytesCovered ==
  ASSUME NEW s \in Seq(Char), NEW b \in Seq(Byte), NEW n \in Nat, n <= Len(s), NEW off, Encodes(b, s, n, off),
         NEW x \in 1 .. off[n]
  PROVE  \E i \in 1 .. n : \E k \in 1 .. Width(s[i]) : x = off[i - 1] + k
<1>0. /\ off \in [0 .. n -> Nat] /\ off[0] = 0
      /\ \A i \in 1 .. n : off[i] = off[i - 1] + Width(s[i])
  BY DEF Encodes
<1> DEFINE T == {m \in Nat : m <= n => \A z \in 1 .. off[m] : \E i \in 1 .. m : off[i - 1] < z /\ z <= off[i]}
<1>1. 0 \in T
  BY <1>0
<1>2. ASSUME NEW m \in Nat, m \in T
      PROVE  m + 1 \in T
  <2>1. SUFFICES ASSUME m + 1 <= n, NEW z \in 1 .. off[m + 1]
                 PROVE  \E i \in 1 .. m + 1 : off[i - 1] < z /\ z <= off[i]
    OBVIOUS
  <2>2. off[m] \in Nat /\ off[m + 1] \in Nat /\ (m + 1) - 1 = m /\ m <= n
    BY <1>0, <2>1
  <2>3. CASE z <= off[m]
    <3>1. PICK i \in 1 .. m : off[i - 1] < z /\ z <= off[i]
      BY <1>2, <2>2, <2>3
    <3>2. i \in 1 .. m + 1
      OBVIOUS
    <3> QED
      BY <3>1, <3>2
  <2>4. CASE ~(z <= off[m])
    <3>1. off[(m + 1) - 1] < z /\ z <= off[m + 1] /\ m + 1 \in 1 .. m + 1
      BY <2>2, <2>4
    <3> QED
      BY <3>1
  <2> QED
    BY <2>3, <2>4
<1> HIDE DEF T
<1>3. n \in T
  BY <1>1, <1>2, NatSetInduction
<1>4. PICK i \in 1 .. n : off[i - 1] < x /\ x <= off[i]
  BY <1>3 DEF T
<1>5. s[i] \in Char /\ off[i - 1] \in Nat /\ off[i] = off[i - 1] + Width(s[i]) /\ Width(s[i]) \in Nat
  <2>1. i \in 1 .. Len(s) /\ i - 1 \in 0 .. n
    OBVIOUS
  <2>2. s[i] \in Char
    BY <2>1, ElementOfSeq
  <2>3. Width(s[i]) \in 1 .. 4
    BY <2>2, CharacterBytes
  <2> QED
    BY <1>0, <2>1, <2>2, <2>3
<1> DEFINE k == x - off[i - 1]
<1>6. k \in 1 .. Width(s[i]) /\ x = off[i - 1] + k
  BY <1>0, <1>4, <1>5, SMTT(30)
<1> QED
  BY <1>6

\* A text has one encoding.
LEMMA EncodingUnique ==
  ASSUME NEW s \in Seq(Char), NEW b \in Seq(Byte), NEW off, EncodesAll(b, s, off),
         NEW d \in Seq(Byte), NEW dff, EncodesAll(d, s, dff)
  PROVE  b = d
<1> DEFINE n == Len(s)
<1>0. /\ n \in Nat /\ off[n] = Len(b) /\ dff[n] = Len(d)
      /\ off \in [0 .. n -> Nat] /\ off[0] = 0 /\ dff \in [0 .. n -> Nat] /\ dff[0] = 0
      /\ \A i \in 1 .. n : off[i] = off[i - 1] + Width(s[i]) /\ dff[i] = dff[i - 1] + Width(s[i])
      /\ \A i \in 1 .. n : \A k \in 1 .. Width(s[i]) : b[off[i - 1] + k] = Utf8Of[s[i]][k]
      /\ \A i \in 1 .. n : \A k \in 1 .. Width(s[i]) : d[dff[i - 1] + k] = Utf8Of[s[i]][k]
  BY DEF EncodesAll, Encodes
<1> DEFINE T == {m \in Nat : m <= n => off[m] = dff[m]}
<1>1. 0 \in T
  BY <1>0
<1>2. ASSUME NEW m \in Nat, m \in T
      PROVE  m + 1 \in T
  <2>1. SUFFICES ASSUME m + 1 <= n PROVE off[m + 1] = dff[m + 1]
    OBVIOUS
  <2> DEFINE i == m + 1
  <2>2. i \in 1 .. n /\ i - 1 = m /\ off[m] = dff[m]
    BY <1>0, <1>2, <2>1
  <2> HIDE DEF i, n
  <2>3. off[i] = dff[i]
    BY <1>0, <2>2
  <2> QED
    BY <2>3 DEF i
<1> HIDE DEF T
<1>3. \A i \in 0 .. n : off[i] = dff[i]
  <2>1. Nat \subseteq T
    BY <1>1, <1>2, NatSetInduction
  <2> QED
    BY <1>0, <2>1 DEF T
<1>4. Len(b) = Len(d)
  BY <1>0, <1>3, SMTT(30)
<1>5. ASSUME NEW x \in 1 .. Len(b)
      PROVE  b[x] = d[x]
  <2>0. n \in Nat /\ n <= Len(s) /\ Encodes(b, s, n, off) /\ x \in 1 .. off[n]
    BY <1>0 DEF EncodesAll
  <2> HIDE DEF n
  <2>1. PICK i \in 1 .. n : \E k \in 1 .. Width(s[i]) : x = off[i - 1] + k
    BY <2>0, BytesCovered
  <2>2. PICK k \in 1 .. Width(s[i]) : x = off[i - 1] + k
    BY <2>1
  <2>3. off[i - 1] = dff[i - 1]
    BY <1>0, <1>3
  <2> QED
    BY <1>0, <2>2, <2>3
<1> QED
  BY <1>4, <1>5, SeqEqual

\* One character more.
LEMMA EncodingGrows ==
  ASSUME NEW s \in Seq(Char), NEW b \in Seq(Byte), NEW n \in Nat, n + 1 <= Len(s),
         NEW off, Encodes(b, s, n, off), off[n] = Len(b)
  PROVE  LET more == b \o Utf8Of[s[n + 1]]
         IN  more \in Seq(Byte) /\ \E new : Encodes(more, s, n + 1, new) /\ new[n + 1] = Len(more)
<1> DEFINE u == Utf8Of[s[n + 1]]
           more == b \o u
           new == [i \in 0 .. n + 1 |-> IF i <= n THEN off[i] ELSE off[n] + Width(s[n + 1])]
<1>0. /\ off \in [0 .. n -> Nat] /\ off[0] = 0 /\ off[n] = Len(b)
      /\ \A i \in 1 .. n : off[i] = off[i - 1] + Width(s[i]) /\ off[i] <= Len(b)
      /\ \A i \in 1 .. n : \A k \in 1 .. Width(s[i]) : b[off[i - 1] + k] = Utf8Of[s[i]][k]
  BY DEF Encodes
<1>1. \A i \in 1 .. n + 1 : s[i] \in Char
  BY ElementOfSeq
<1>2. u \in Seq(Byte) /\ Len(u) = Width(s[n + 1]) /\ Width(s[n + 1]) \in 1 .. 4
  BY <1>1, CharacterBytes DEF Width
<1>3. \A i \in 1 .. n : Width(s[i]) \in 1 .. 4
  BY <1>1, CharacterBytes
<1> HIDE DEF u
<1>4. /\ more \in Seq(Byte) /\ Len(more) = Len(b) + Width(s[n + 1])
      /\ \A x \in 1 .. Len(b) + Width(s[n + 1]) : more[x] = IF x <= Len(b) THEN b[x] ELSE u[x - Len(b)]
  BY <1>2, ConcatProperties
<1>5. Len(b) \in Nat
  OBVIOUS
<1> HIDE DEF more
<1>6. new \in [0 .. n + 1 -> Nat] /\ new[0] = 0 /\ new[n + 1] = Len(more)
  BY <1>0, <1>2, <1>4, <1>5
<1>7. \A i \in 0 .. n : new[i] = off[i]
  OBVIOUS
<1> HIDE DEF new
<1>8. ASSUME NEW i \in 1 .. n + 1
      PROVE  /\ new[i] = new[i - 1] + Width(s[i])
             /\ new[i] <= Len(more)
             /\ \A k \in 1 .. Width(s[i]) : more[new[i - 1] + k] = Utf8Of[s[i]][k]
  <2>1. CASE i \in 1 .. n
    <3>1. new[i] = off[i] /\ new[i - 1] = off[i - 1] /\ off[i - 1] \in Nat /\ off[i] = off[i - 1] + Width(s[i])
      BY <1>0, <1>7, <2>1
    <3>2. new[i] <= Len(more)
      BY <1>0, <1>2, <1>4, <1>5, <2>1, <3>1
    <3>3. ASSUME NEW k \in 1 .. Width(s[i])
          PROVE  more[new[i - 1] + k] = Utf8Of[s[i]][k]
      <4> DEFINE before == off[i - 1]
                 width == Width(s[i])
                 x == before + k
      <4>0. before \in Nat /\ before + width <= Len(b) /\ width \in 1 .. 4 /\ k \in 1 .. width
        BY <1>0, <1>3, <2>1, <3>1
      <4>1. b[x] = Utf8Of[s[i]][k]
        BY <1>0, <2>1
      <4> HIDE DEF before, width
      <4>2. x \in 1 .. Len(b) + Width(s[n + 1]) /\ x <= Len(b)
        BY <1>2, <1>5, <4>0
      <4> HIDE DEF x
      <4>3. more[x] = b[x]
        BY <1>4, <4>2
      <4> QED
        BY <3>1, <4>1, <4>3 DEF x, before
    <3> QED
      BY <3>1, <3>2, <3>3
  <2>2. CASE i = n + 1
    <3>1. new[i] = Len(more) /\ new[i - 1] = Len(b) /\ Len(more) = Len(b) + Width(s[i])
      BY <1>0, <1>4, <1>6, <1>7, <2>2
    <3>2. ASSUME NEW k \in 1 .. Width(s[i])
          PROVE  more[new[i - 1] + k] = Utf8Of[s[i]][k]
      <4> DEFINE x == Len(b) + k
      <4>1. x \in 1 .. Len(b) + Width(s[n + 1]) /\ ~(x <= Len(b)) /\ x - Len(b) = k
        BY <1>2, <1>5, <2>2
      <4> HIDE DEF x
      <4>2. more[x] = u[k]
        BY <1>4, <4>1
      <4> QED
        BY <2>2, <3>1, <4>2 DEF x, u
    <3>3. Len(more) \in Nat
      BY <1>4
    <3> QED
      BY <3>1, <3>2, <3>3
  <2> QED
    BY <2>1, <2>2
<1>9. Encodes(more, s, n + 1, new)
  BY <1>6, <1>8 DEF Encodes
<1> QED
  BY <1>4, <1>6, <1>9 DEF more, u

\* The bytes of a text encode it.
LEMMA BytesOfEncodes ==
  ASSUME NEW s \in Seq(Char)
  PROVE  BytesOf(s) \in Seq(Byte) /\ \E off : EncodesAll(BytesOf(s), s, off)
<1> DEFINE n == Len(s)
           w == [i \in DOMAIN s |-> Utf8Of[s[i]]]
<1>1. n \in Nat /\ DOMAIN s = 1 .. n
  OBVIOUS
<1>2. \A i \in 1 .. n : s[i] \in Char /\ w[i] = Utf8Of[s[i]] /\ w[i] \in Seq(Byte)
  <2> TAKE i \in 1 .. n
  <2>1. s[i] \in Char
    BY ElementOfSeq
  <2>2. Utf8Of[s[i]] \in Seq(Byte)
    BY <2>1, CharacterBytes
  <2> QED
    BY <1>1, <2>1, <2>2
<1>3. w \in Seq(Seq(Byte)) /\ Len(w) = n
  BY <1>1, <1>2
<1>4. BytesOf(s) = FlattenSeq(w)
  BY DEF BytesOf
<1> DEFINE F == [i \in 1 .. n |-> [front \in Seq(Byte) |-> front \o w[i]]]
<1>5. F \in [1 .. n -> [Seq(Byte) -> Seq(Byte)]]
  <2>1. ASSUME NEW i \in 1 .. n, NEW front \in Seq(Byte)
        PROVE  front \o w[i] \in Seq(Byte)
    <3>1. w[i] \in Seq(Byte)
      BY <1>2
    <3> HIDE DEF w
    <3> QED
      BY <3>1, ConcatProperties
  <2> HIDE DEF w
  <2> QED
    BY <2>1
<1> HIDE DEF w
<1>6. PICK f \in [0 .. n -> Seq(Byte)] : f[0] = <<>> /\ \A i \in 1 .. n : f[i] = F[i][f[i - 1]]
  <2>1. <<>> \in Seq(Byte)
    BY EmptySeq
  <2> DEFINE S == Seq(Byte)
             none == <<>>
  <2>2. n \in Nat /\ none \in S /\ Steps(F, n, S)
    BY <1>1, <1>5, <2>1 DEF Steps
  <2> HIDE DEF F, n, S, none
  <2>3. \E f : Runs(f, F, n, S, none)
    BY <2>2, Iterated
  <2> QED
    BY <2>3 DEF S, none, Runs
<1>7. ASSUME NEW i \in 1 .. n PROVE f[i] = f[i - 1] \o w[i]
  <2>1. f[i - 1] \in Seq(Byte)
    BY <1>1
  <2>2. f[i] = F[i][f[i - 1]]
    BY <1>6
  <2> QED
    BY <2>1, <2>2
<1> DEFINE T == {m \in Nat : m <= n => \E off : Encodes(f[m], s, m, off) /\ off[m] = Len(f[m])}
<1>8. 0 \in T
  <2> DEFINE off == [i \in 0 .. 0 |-> 0]
  <2>1. Encodes(f[0], s, 0, off) /\ off[0] = Len(f[0])
    BY <1>6 DEF Encodes
  <2> QED
    BY <2>1
<1>9. ASSUME NEW m \in Nat, m \in T
      PROVE  m + 1 \in T
  <2>1. SUFFICES ASSUME m + 1 <= n
                 PROVE  \E off : Encodes(f[m + 1], s, m + 1, off) /\ off[m + 1] = Len(f[m + 1])
    OBVIOUS
  <2>2. PICK off : Encodes(f[m], s, m, off) /\ off[m] = Len(f[m])
    BY <1>1, <1>9, <2>1
  <2>3. f[m] \in Seq(Byte) /\ f[m + 1] = f[m] \o Utf8Of[s[m + 1]]
    <3>1. m + 1 \in 1 .. n /\ (m + 1) - 1 = m /\ m \in 0 .. n
      BY <1>1, <2>1
    <3>2. f[m + 1] = f[(m + 1) - 1] \o w[m + 1]
      BY <1>7, <3>1
    <3> QED
      BY <1>2, <1>6, <3>1, <3>2
  <2>4. m + 1 <= Len(s)
    BY <2>1
  <2> DEFINE sofar == f[m]
             more == sofar \o Utf8Of[s[m + 1]]
  <2>5. sofar \in Seq(Byte) /\ Encodes(sofar, s, m, off) /\ off[m] = Len(sofar) /\ f[m + 1] = more
    BY <2>2, <2>3
  <2> HIDE DEF sofar
  <2>6. \E new : Encodes(more, s, m + 1, new) /\ new[m + 1] = Len(more)
    BY <2>4, <2>5, EncodingGrows
  <2> QED
    BY <2>5, <2>6
<1> HIDE DEF T
<1>10. f[n] \in Seq(Byte) /\ \E off : EncodesAll(f[n], s, off)
  <2>1. n \in T
    BY <1>1, <1>8, <1>9, NatSetInduction
  <2>2. f[n] \in Seq(Byte)
    BY <1>1, <1>6
  <2> QED
    BY <1>1, <2>1, <2>2 DEF T, EncodesAll
<1>11. FlattenSeq(w) = f[n]
  <2>1. CASE n = 0
    <3>1. w = <<>>
      BY <1>3, <2>1
    <3> QED
      BY <1>3, <1>6, <2>1, <3>1 DEF FlattenSeq
  <2>2. CASE n # 0
    <3> DEFINE Rec(h) == h = [i \in 1 .. Len(w) |-> IF i = 1 THEN w[i] ELSE h[i - 1] \o w[i]]
               flatten == CHOOSE h : Rec(h)
    <3>1. FlattenSeq(w) = flatten[Len(w)]
      BY <1>3, <2>2 DEF FlattenSeq
    <3> DEFINE g == [i \in 1 .. n |-> f[i]]
    <3>2. f[1] = w[1]
      <4> DEFINE l == 1
      <4>1. l \in 1 .. n /\ l - 1 = 0
        BY <1>1, <2>2
      <4> HIDE DEF l
      <4>2. w[l] \in Seq(Byte) /\ f[l] = f[0] \o w[l] /\ f[0] = <<>>
        BY <1>2, <1>6, <1>7, <4>1
      <4>3. f[l] = w[l]
        <5> DEFINE part == w[l]
        <5>1. part \in Seq(Byte) /\ f[l] = <<>> \o part
          BY <4>2
        <5> HIDE DEF part
        <5>2. <<>> \o part = part
          BY <5>1, ConcatEmptySeq
        <5> QED
          BY <5>1, <5>2 DEF part
      <4> QED
        BY <4>3 DEF l
    <3>3. Rec(g)
      <4>1. \A i \in 1 .. n : g[i] = IF i = 1 THEN w[i] ELSE g[i - 1] \o w[i]
        <5> TAKE i \in 1 .. n
        <5>1. CASE i = 1
          BY <3>2, <5>1
        <5>2. CASE i # 1
          <6>1. i - 1 \in 1 .. n /\ g[i - 1] = f[i - 1] /\ g[i] = f[i]
            BY <1>1, <5>2
          <6> QED
            BY <1>7, <5>2, <6>1
        <5> QED
          BY <5>1, <5>2
      <4> QED
        BY <1>3, <4>1
    <3> HIDE DEF Rec
    <3>4. Rec(flatten)
      BY <3>3
    <3> HIDE DEF flatten
    <3>5. /\ flatten[1] = w[1]
          /\ \A i \in 2 .. n : flatten[i] = flatten[i - 1] \o w[i]
      <4>1. flatten = [i \in 1 .. n |-> IF i = 1 THEN w[i] ELSE flatten[i - 1] \o w[i]]
        BY <1>3, <3>4 DEF Rec
      <4>2. \A i \in 1 .. n : flatten[i] = IF i = 1 THEN w[i] ELSE flatten[i - 1] \o w[i]
        BY <4>1
      <4>3. 1 \in 1 .. n /\ \A i \in 2 .. n : i \in 1 .. n /\ i # 1
        BY <1>1, <2>2
      <4> QED
        BY <4>2, <4>3
    <3> DEFINE R == {m \in Nat : m + 1 <= n => flatten[m + 1] = f[m + 1]}
    <3>6. 0 \in R
      BY <3>2, <3>5
    <3>7. ASSUME NEW m \in Nat, m \in R
          PROVE  m + 1 \in R
      <4>1. SUFFICES ASSUME (m + 1) + 1 <= n PROVE flatten[(m + 1) + 1] = f[(m + 1) + 1]
        OBVIOUS
      <4> DEFINE i == (m + 1) + 1
      <4>2. i \in 2 .. n /\ i \in 1 .. n /\ i - 1 = m + 1 /\ flatten[i - 1] = f[i - 1]
        BY <1>1, <3>7, <4>1
      <4> HIDE DEF i, n
      <4>3. flatten[i] = f[i]
        BY <1>7, <3>5, <4>2
      <4> QED
        BY <4>3 DEF i
    <3> HIDE DEF R
    <3>8. n - 1 \in R
      <4>1. n - 1 \in Nat
        BY <1>1, <2>2
      <4> HIDE DEF n
      <4> QED
        BY <3>6, <3>7, <4>1, NatSetInduction
    <3>9. flatten[n] = f[n]
      <4>1. (n - 1) + 1 = n
        BY <1>1
      <4> QED
        BY <1>1, <3>8, <4>1 DEF R
    <3> QED
      BY <1>3, <3>1, <3>9
  <2> QED
    BY <2>1, <2>2
<1> QED
  BY <1>4, <1>10, <1>11

\* Each character has one byte that continues no other: counting those counts
\* the characters (ts_utf8_char_count).
LEMMA EncodedCount ==
  ASSUME NEW s \in Seq(Char), NEW b \in Seq(Byte), NEW off, EncodesAll(b, s, off)
  PROVE  U!CharCount(b) = Len(s)
<1> DEFINE n == Len(s)
           Starts == {i \in DOMAIN b : ~ U!IsContinuation(b[i])}
           g == [i \in 1 .. n |-> off[i - 1] + 1]
<1>0. /\ n \in Nat /\ n <= Len(s) /\ Encodes(b, s, n, off) /\ off[n] = Len(b) /\ Len(b) \in Nat
      /\ DOMAIN b = 1 .. Len(b) /\ off \in [0 .. n -> Nat]
      /\ \A i \in 1 .. n : off[i] = off[i - 1] + Width(s[i])
      /\ \A i \in 1 .. n : \A k \in 1 .. Width(s[i]) : b[off[i - 1] + k] = Utf8Of[s[i]][k]
  BY DEF EncodesAll, Encodes
<1>1. \A i \in 1 .. n : s[i] \in Char
  BY ElementOfSeq
<1>2. U!CharCount(b) = Cardinality(Starts)
  <2>1. U!CharCount(b) = U!Cardinality(Starts)
    BY DEF U!CharCount
  <2> HIDE DEF Starts
  <2>2. U!Cardinality(Starts) = Cardinality(Starts)
    BY DEF U!Cardinality, Cardinality
  <2> QED
    BY <2>1, <2>2
<1> HIDE DEF n
<1>3. \A i, j \in 0 .. n : off[i] \in Nat /\ off[i] <= Len(b) /\ (i < j => off[i] < off[j])
  BY <1>0, OffsetsGrow
<1>4. ASSUME NEW i \in 1 .. n
      PROVE  g[i] \in Starts
  <2>1. Width(s[i]) \in 1 .. 4 /\ ~ U!IsContinuation(Utf8Of[s[i]][1])
    BY <1>1, CharacterBytes
  <2>2. i - 1 \in 0 .. n /\ i \in 0 .. n /\ i - 1 < i
    BY <1>0
  <2>3. off[i - 1] \in Nat /\ off[i - 1] < off[i] /\ off[i] \in Nat /\ off[i] <= Len(b)
    BY <1>3, <2>2
  <2>4. 1 \in 1 .. Width(s[i])
    BY <2>1
  <2>5. b[off[i - 1] + 1] = Utf8Of[s[i]][1]
    BY <1>0, <2>4
  <2>6. off[i - 1] + 1 \in 1 .. Len(b)
    BY <1>0, <2>3
  <2> QED
    BY <1>0, <2>1, <2>5, <2>6
<1>5. ASSUME NEW i \in 1 .. n, NEW j \in 1 .. n, i < j
      PROVE  g[i] # g[j]
  <2>1. i - 1 \in 0 .. n /\ j - 1 \in 0 .. n /\ i - 1 < j - 1
    BY <1>0, <1>5, SMTT(30)
  <2>2. off[i - 1] \in Nat /\ off[j - 1] \in Nat /\ off[i - 1] < off[j - 1]
    BY <1>3, <2>1
  <2> QED
    BY <2>2
<1>6. ASSUME NEW x \in Starts
      PROVE  \E i \in 1 .. n : g[i] = x
  <2>1. x \in 1 .. off[n] /\ n \in Nat /\ n <= Len(s) /\ Encodes(b, s, n, off)
    BY <1>0
  <2>2. PICK i \in 1 .. n : \E k \in 1 .. Width(s[i]) : x = off[i - 1] + k
    BY <2>1, BytesCovered
  <2>3. PICK k \in 1 .. Width(s[i]) : x = off[i - 1] + k
    BY <2>2
  <2>4. b[x] = Utf8Of[s[i]][k]
    BY <1>0, <2>3
  <2>5. Width(s[i]) \in 1 .. 4 /\ \A l \in 2 .. Width(s[i]) : U!IsContinuation(Utf8Of[s[i]][l])
    BY <1>1, CharacterBytes
  <2>6. k = 1
    <3>1. SUFFICES ASSUME k # 1 PROVE FALSE
      OBVIOUS
    <3>2. k \in 2 .. Width(s[i])
      BY <2>5, <3>1
    <3> QED
      BY <2>4, <2>5, <3>2
  <2> QED
    BY <2>3, <2>6
<1> HIDE DEF Starts, g
<1>7. g \in Bijection(1 .. n, Starts)
  <2>1. g \in [1 .. n -> Starts]
    BY <1>4 DEF g
  <2>2. \A i, j \in 1 .. n : i # j => g[i] # g[j]
    <3> TAKE i, j \in 1 .. n
    <3>1. i = j \/ i < j \/ j < i
      BY <1>0
    <3> QED
      BY <1>5, <3>1
  <2>3. \A x \in Starts : \E i \in 1 .. n : g[i] = x
    BY <1>6
  <2> QED
    BY <2>1, <2>2, <2>3 DEF Bijection, Injection, Surjection, IsInjective
<1>8. IsFiniteSet(1 .. n) /\ Cardinality(1 .. n) = n
  <2>1. n \in Int /\ 1 \in Int
    BY <1>0
  <2>2. IsFiniteSet(1 .. n) /\ Cardinality(1 .. n) = IF 1 > n THEN 0 ELSE n - 1 + 1
    BY <2>1, FS_Interval
  <2> QED
    BY <1>0, <2>2
<1>9. Cardinality(Starts) = Cardinality(1 .. n)
  BY <1>7, <1>8, FS_Bijection DEF ExistsBijection
<1> QED
  BY <1>2, <1>8, <1>9 DEF n

\* Two functions go on alike, and are alike.
GoOnAlike(f, g, n) == f[0] = g[0] /\ \A i \in 1 .. n : f[i - 1] = g[i - 1] => f[i] = g[i]
Alike(f, g, n) == \A i \in 0 .. n : f[i] = g[i]

\* Two functions that agree at first, and agree at each place if they do at
\* the one before, agree.
LEMMA Determined ==
  ASSUME NEW n \in Nat, NEW f, NEW g, GoOnAlike(f, g, n)
  PROVE  Alike(f, g, n)
<1>0. f[0] = g[0] /\ \A i \in 1 .. n : f[i - 1] = g[i - 1] => f[i] = g[i]
  BY DEF GoOnAlike
<1> DEFINE T == {m \in Nat : m <= n => f[m] = g[m]}
<1>1. 0 \in T
  BY <1>0
<1>2. ASSUME NEW m \in Nat, m \in T
      PROVE  m + 1 \in T
  <2>1. SUFFICES ASSUME m + 1 <= n PROVE f[m + 1] = g[m + 1]
    OBVIOUS
  <2> DEFINE i == m + 1
  <2>2. i \in 1 .. n /\ i - 1 = m /\ f[m] = g[m]
    BY <1>2, <2>1
  <2> HIDE DEF i
  <2>3. f[i] = g[i]
    BY <1>0, <2>2
  <2> QED
    BY <2>3 DEF i
<1> HIDE DEF T
<1>3. Nat \subseteq T
  BY <1>1, <1>2, NatSetInduction
<1> QED
  BY <1>3 DEF T, Alike

\* Walking from first byte to first byte finds where a character begins
\* (ts_utf8_byte_offset).
LEMMA EncodedOffset ==
  ASSUME NEW s \in Seq(Char), NEW b \in Seq(Byte), NEW off, EncodesAll(b, s, off), NEW p \in 0 .. Len(s)
  PROVE  U!ByteOffset(b, p) = off[p]
<1> DEFINE n == Len(s)
           Rec(h) == h = [m \in 0 .. p |->
                            IF m = 0 THEN 0
                            ELSE IF h[m - 1] >= Len(b) THEN h[m - 1]
                            ELSE h[m - 1] + U!CharBytes(b[h[m - 1] + 1])]
           offset == CHOOSE h : Rec(h)
           g == [m \in 0 .. p |-> off[m]]
<1>0. /\ n \in Nat /\ n <= Len(s) /\ Encodes(b, s, n, off) /\ Len(b) \in Nat
      /\ off \in [0 .. n -> Nat] /\ off[0] = 0
      /\ \A i \in 1 .. n : off[i] = off[i - 1] + Width(s[i])
      /\ \A i \in 1 .. n : \A k \in 1 .. Width(s[i]) : b[off[i - 1] + k] = Utf8Of[s[i]][k]
  BY DEF EncodesAll, Encodes
<1>1. U!ByteOffset(b, p) = offset[p]
  BY DEF U!ByteOffset
<1>2. \A i \in 1 .. n : s[i] \in Char
  BY ElementOfSeq
<1>3. p \in 0 .. n /\ p \in Nat
  BY <1>0
<1> HIDE DEF n
<1>4. \A i, j \in 0 .. n : off[i] \in Nat /\ off[i] <= Len(b) /\ (i < j => off[i] < off[j])
  BY <1>0, OffsetsGrow
<1>5. ASSUME NEW m \in 1 .. p
      PROVE  g[m - 1] \in Nat /\ ~(g[m - 1] >= Len(b)) /\ g[m] = g[m - 1] + U!CharBytes(b[g[m - 1] + 1])
  <2>1. m \in 1 .. n /\ m - 1 \in 0 .. n /\ m \in 0 .. n /\ m - 1 < m /\ g[m] = off[m] /\ g[m - 1] = off[m - 1]
    BY <1>0, <1>3
  <2> HIDE DEF g
  <2>2. off[m - 1] \in Nat /\ off[m] \in Nat /\ off[m - 1] < off[m] /\ off[m] <= Len(b)
    BY <1>4, <2>1
  <2>3. /\ Width(s[m]) \in 1 .. 4 /\ Width(s[m]) = U!CharBytes(Utf8Of[s[m]][1])
    BY <1>2, <2>1, CharacterBytes
  <2>4. 1 \in 1 .. Width(s[m])
    BY <2>3
  <2>5. b[off[m - 1] + 1] = Utf8Of[s[m]][1] /\ off[m] = off[m - 1] + Width(s[m])
    BY <1>0, <2>1, <2>4
  <2>6. ~(off[m - 1] >= Len(b))
    BY <1>0, <2>2
  <2> QED
    BY <2>1, <2>2, <2>3, <2>5, <2>6
<1>6. g[0] = 0
  BY <1>0, <1>3
<1>7. Rec(g)
  <2>1. \A m \in 0 .. p : m = 0 \/ m \in 1 .. p
    OBVIOUS
  <2>2. \A m \in 0 .. p : g[m] = IF m = 0 THEN 0
                                 ELSE IF g[m - 1] >= Len(b) THEN g[m - 1]
                                 ELSE g[m - 1] + U!CharBytes(b[g[m - 1] + 1])
    <3> TAKE m \in 0 .. p
    <3> HIDE DEF g
    <3>1. CASE m = 0
      BY <1>6, <3>1
    <3>2. CASE m \in 1 .. p
      BY <1>5, <3>2
    <3> QED
      BY <2>1, <3>1, <3>2
  <2> QED
    BY <2>2
<1>8. Rec(offset)
  <2> HIDE DEF Rec
  <2> QED
    BY <1>7
<1> HIDE DEF offset
<1>9. offset[0] = 0 /\ \A m \in 1 .. p : offset[m] = IF offset[m - 1] >= Len(b) THEN offset[m - 1]
                                                      ELSE offset[m - 1] + U!CharBytes(b[offset[m - 1] + 1])
  <2> DEFINE Walk(h, m) == IF h[m - 1] >= Len(b) THEN h[m - 1]
                           ELSE h[m - 1] + U!CharBytes(b[h[m - 1] + 1])
  <2>1. offset = [m \in 0 .. p |-> IF m = 0 THEN 0 ELSE Walk(offset, m)]
    BY <1>8
  <2> HIDE DEF Walk
  <2>2. 0 \in 0 .. p /\ \A m \in 1 .. p : m \in 0 .. p /\ m # 0
    OBVIOUS
  <2>3. offset[0] = 0 /\ \A m \in 1 .. p : offset[m] = Walk(offset, m)
    BY <2>1, <2>2
  <2> QED
    BY <2>3 DEF Walk
<1> HIDE DEF Rec, g
<1>10. ASSUME NEW m \in 1 .. p, g[m - 1] = offset[m - 1]
       PROVE  g[m] = offset[m]
  BY <1>5, <1>9, <1>10
<1>11. \A m \in 0 .. p : g[m] = offset[m]
  <2>1. g[0] = offset[0] /\ p \in Nat
    BY <1>3, <1>6, <1>9
  <2>2. \A m \in 1 .. p : g[m - 1] = offset[m - 1] => g[m] = offset[m]
    BY <1>10
  <2>3. GoOnAlike(g, offset, p)
    BY <2>1, <2>2 DEF GoOnAlike
  <2>4. Alike(g, offset, p)
    BY <2>1, <2>3, Determined
  <2> QED
    BY <2>4 DEF Alike
<1>12. g[p] = off[p]
  BY <1>3 DEF g
<1> QED
  BY <1>1, <1>3, <1>11, <1>12

\* A character's bytes put where a character begins are that character put
\* there.
LEMMA InsertedEncodes ==
  ASSUME NEW s \in Seq(Char), NEW b \in Seq(Byte), NEW off, EncodesAll(b, s, off),
         NEW p \in 0 .. Len(s), NEW char \in Char
  PROVE  LET new == SubSeq(b, 1, off[p]) \o Utf8Of[char] \o SubSeq(b, off[p] + 1, Len(b))
         IN  new \in Seq(Byte) /\ \E o : EncodesAll(new, InsertAt(s, p + 1, char), o)
<1> DEFINE n == Len(s)
           x == off[p]
           u == Utf8Of[char]
           v == Width(char)
           more == InsertAt(s, p + 1, char)
           new == SubSeq(b, 1, x) \o u \o SubSeq(b, x + 1, Len(b))
           o == [i \in 0 .. n + 1 |-> IF i <= p THEN off[i] ELSE off[i - 1] + v]
<1>0. /\ n \in Nat /\ n <= Len(s) /\ Encodes(b, s, n, off) /\ Len(b) \in Nat /\ off[n] = Len(b)
      /\ off \in [0 .. n -> Nat] /\ off[0] = 0
      /\ \A i \in 1 .. n : off[i] = off[i - 1] + Width(s[i])
      /\ \A i \in 1 .. n : \A k \in 1 .. Width(s[i]) : b[off[i - 1] + k] = Utf8Of[s[i]][k]
  BY DEF EncodesAll, Encodes
<1>1. \A i \in 1 .. n : s[i] \in Char /\ Width(s[i]) \in 1 .. 4
  <2> TAKE i \in 1 .. n
  <2>1. s[i] \in Char
    BY ElementOfSeq
  <2> QED
    BY <2>1, CharacterBytes
<1>2. p \in 0 .. n /\ p \in Nat
  BY <1>0
<1>3. /\ more \in Seq(Char) /\ Len(more) = n + 1 /\ more[p + 1] = char
      /\ \A j \in 1 .. p : more[j] = s[j]
      /\ \A j \in p + 1 .. n : more[j + 1] = s[j]
  <2> DEFINE q == p + 1
  <2>1. q \in 1 .. Len(s) + 1 /\ q - 1 = p
    BY <1>2
  <2> HIDE DEF q
  <2>2. /\ InsertAt(s, q, char) \in Seq(Char) /\ Len(InsertAt(s, q, char)) = Len(s) + 1
        /\ InsertAt(s, q, char)[q] = char
        /\ \A j \in 1 .. q - 1 : InsertAt(s, q, char)[j] = s[j]
        /\ \A j \in q .. Len(s) : InsertAt(s, q, char)[j + 1] = s[j]
    BY <2>1, InsertAtProperties
  <2> QED
    BY <2>1, <2>2 DEF q
<1>4. u \in Seq(Byte) /\ Len(u) = v /\ v \in 1 .. 4
  BY CharacterBytes DEF Width
<1> HIDE DEF n, more
<1>5. \A i, j \in 0 .. n : off[i] \in Nat /\ off[i] <= Len(b) /\ (i < j => off[i] < off[j])
  BY <1>0, OffsetsGrow
<1>6. x \in Nat /\ x <= Len(b)
  BY <1>2, <1>5
<1>7. \A i \in 0 .. n : (i <= p => off[i] <= x) /\ (p <= i => x <= off[i])
  <2> TAKE i \in 0 .. n
  <2>1. i = p \/ i < p \/ p < i
    BY <1>2
  <2> QED
    BY <1>2, <1>5, <2>1
<1> HIDE DEF x, u, v
<1>8. /\ new \in Seq(Byte) /\ Len(new) = Len(b) + v
      /\ \A k \in 1 .. x : new[k] = b[k]
      /\ \A k \in 1 .. v : new[x + k] = u[k]
      /\ \A k \in 1 .. Len(b) - x : new[x + v + k] = b[x + k]
  <2> DEFINE new2 == Splice(b, x, u, x)
  <2>0. x <= x /\ x + v + (Len(b) - x) = Len(b) + v
    BY <1>0, <1>4, <1>6
  <2>1. new2 \in Seq(Byte) /\ Between(new2, b, x, u, x)
    BY <1>4, <1>6, <2>0, Spliced
  <2>2. new = new2
    BY DEF Splice
  <2> HIDE DEF new, new2
  <2> QED
    BY <1>4, <2>0, <2>1, <2>2 DEF Between
<1> HIDE DEF new
<1>9. \A i \in 0 .. n + 1 : o[i] = IF i <= p THEN off[i] ELSE off[i - 1] + v
  OBVIOUS
<1>10. o \in [0 .. n + 1 -> Nat]
  <2>1. \A i \in 0 .. n + 1 : (IF i <= p THEN off[i] ELSE off[i - 1] + v) \in Nat
    <3> TAKE i \in 0 .. n + 1
    <3>1. CASE i <= p
      BY <1>0, <1>2, <3>1
    <3>2. CASE ~(i <= p)
      <4>1. i - 1 \in 0 .. n
        BY <1>0, <1>2, <3>2
      <4> QED
        BY <1>0, <1>4, <3>2, <4>1
    <3> QED
      BY <3>1, <3>2
  <2> QED
    BY <2>1
<1> HIDE DEF o
<1>11. o[0] = 0 /\ o[n + 1] = Len(new)
  <2>1. 0 \in 0 .. n + 1 /\ 0 <= p /\ n + 1 \in 0 .. n + 1 /\ ~(n + 1 <= p) /\ (n + 1) - 1 = n
    BY <1>0, <1>2
  <2> QED
    BY <1>0, <1>8, <1>9, <2>1
<1>12. ASSUME NEW i \in 1 .. n + 1
       PROVE  /\ o[i] = o[i - 1] + Width(more[i])
              /\ o[i] <= Len(new)
              /\ \A k \in 1 .. Width(more[i]) : new[o[i - 1] + k] = Utf8Of[more[i]][k]
  <2>0. i \in 0 .. n + 1 /\ i - 1 \in 0 .. n + 1
    BY <1>0
  <2>1. CASE i <= p
    <3>1. i \in 1 .. n /\ i \in 0 .. n /\ i - 1 \in 0 .. n /\ i - 1 <= p /\ i \in 1 .. p
      BY <1>0, <1>2, <2>1
    <3>2. o[i] = off[i] /\ o[i - 1] = off[i - 1] /\ more[i] = s[i]
      BY <1>3, <1>9, <2>0, <2>1, <3>1
    <3>3. off[i] = off[i - 1] + Width(s[i]) /\ off[i - 1] \in Nat /\ off[i] <= x /\ Width(s[i]) \in 1 .. 4
      BY <1>0, <1>1, <1>5, <1>7, <2>1, <3>1
    <3>4. o[i] <= Len(new)
      BY <1>0, <1>4, <1>6, <1>8, <3>2, <3>3, SMTT(30)
    <3>5. ASSUME NEW k \in 1 .. Width(s[i])
          PROVE  new[off[i - 1] + k] = Utf8Of[s[i]][k]
      <4> DEFINE before == off[i - 1]
                 width == Width(s[i])
                 l == before + k
      <4>1. before \in Nat /\ before + width <= x /\ width \in 1 .. 4 /\ k \in 1 .. width
        BY <3>3
      <4>2. b[l] = Utf8Of[s[i]][k]
        BY <1>0, <3>1
      <4> HIDE DEF before, width
      <4>3. l \in 1 .. x
        BY <1>6, <4>1
      <4> HIDE DEF l
      <4>4. new[l] = b[l]
        BY <1>8, <4>3
      <4> QED
        BY <4>2, <4>4 DEF l, before
    <3> QED
      BY <3>2, <3>3, <3>4, <3>5
  <2>2. CASE i = p + 1
    <3>1. i - 1 = p /\ ~(i <= p) /\ p <= p /\ p \in 0 .. n + 1
      BY <1>0, <1>2, <2>2
    <3>2. o[i] = x + v /\ o[i - 1] = x /\ more[i] = char
      <4>1. o[i] = off[i - 1] + v
        BY <1>9, <2>0, <3>1
      <4>2. o[p] = off[p]
        BY <1>9, <3>1
      <4> QED
        BY <1>3, <2>2, <3>1, <4>1, <4>2 DEF x
    <3>3. o[i] <= Len(new)
      BY <1>0, <1>4, <1>6, <1>8, <3>2
    <3> QED
      BY <1>8, <3>2, <3>3 DEF v, u
  <2>3. CASE i > p + 1
    <3> DEFINE j == i - 1
    <3>1. /\ j \in 1 .. n /\ j \in 0 .. n + 1 /\ j \in 0 .. n /\ j - 1 \in 0 .. n /\ p <= j - 1
          /\ ~(i <= p) /\ ~(j <= p) /\ j \in p + 1 .. n /\ i = j + 1
      BY <1>0, <1>2, <2>3, SMTT(30)
    <3>2. o[i] = off[j] + v
      BY <1>9, <2>0, <3>1
    <3> HIDE DEF j
    <3>3. o[j] = off[j - 1] + v /\ more[i] = s[j]
      BY <1>3, <1>9, <3>1
    <3>4. /\ off[j] = off[j - 1] + Width(s[j]) /\ off[j - 1] \in Nat /\ x <= off[j - 1] /\ off[j] <= Len(b)
          /\ Width(s[j]) \in 1 .. 4
      BY <1>0, <1>1, <1>5, <1>7, <3>1
    <3>5. o[i] <= Len(new) /\ o[i] = o[j] + Width(s[j])
      BY <1>0, <1>4, <1>8, <3>2, <3>3, <3>4, SMTT(30)
    <3>6. ASSUME NEW k \in 1 .. Width(s[j])
          PROVE  new[o[j] + k] = Utf8Of[s[j]][k]
      <4> DEFINE before == off[j - 1]
                 width == Width(s[j])
                 l == (before - x) + k
      <4>1. before \in Nat /\ x <= before /\ before + width <= Len(b) /\ width \in 1 .. 4 /\ k \in 1 .. width
        BY <3>4
      <4>2. b[before + k] = Utf8Of[s[j]][k]
        BY <1>0, <3>1
      <4>3. o[j] = before + v
        BY <3>3
      <4> HIDE DEF before, width
      <4>4. l \in 1 .. Len(b) - x /\ x + l = before + k /\ o[j] + k = x + v + l
        BY <1>0, <1>4, <1>6, <4>1, <4>3
      <4> HIDE DEF l
      <4>5. new[x + v + l] = b[x + l]
        BY <1>8, <4>4
      <4> QED
        BY <4>2, <4>4, <4>5
    <3> QED
      BY <3>1, <3>3, <3>5, <3>6 DEF j
  <2> QED
    BY <1>2, <2>1, <2>2, <2>3
<1>13. Encodes(new, more, n + 1, o)
  BY <1>10, <1>11, <1>12 DEF Encodes
<1>14. EncodesAll(new, more, o)
  BY <1>3, <1>11, <1>13 DEF EncodesAll
<1> QED
  BY <1>8, <1>14 DEF new, more, x, u

\* The bytes between the beginnings of two neighbours taken out are that
\* character taken out.
LEMMA RemovedEncodes ==
  ASSUME NEW s \in Seq(Char), NEW b \in Seq(Byte), NEW off, EncodesAll(b, s, off),
         NEW p \in Nat, p < Len(s)
  PROVE  LET new == SubSeq(b, 1, off[p]) \o SubSeq(b, off[p + 1] + 1, Len(b))
         IN  new \in Seq(Byte) /\ \E o : EncodesAll(new, RemoveAt(s, p + 1), o)
<1> DEFINE n == Len(s)
           x == off[p]
           y == off[p + 1]
           v == Width(s[p + 1])
           less == RemoveAt(s, p + 1)
           new == SubSeq(b, 1, x) \o SubSeq(b, y + 1, Len(b))
           o == [i \in 0 .. n - 1 |-> IF i <= p THEN off[i] ELSE off[i + 1] - v]
<1>0. /\ n \in Nat /\ n <= Len(s) /\ Encodes(b, s, n, off) /\ Len(b) \in Nat /\ off[n] = Len(b)
      /\ off \in [0 .. n -> Nat] /\ off[0] = 0
      /\ \A i \in 1 .. n : off[i] = off[i - 1] + Width(s[i])
      /\ \A i \in 1 .. n : \A k \in 1 .. Width(s[i]) : b[off[i - 1] + k] = Utf8Of[s[i]][k]
  BY DEF EncodesAll, Encodes
<1>1. \A i \in 1 .. n : s[i] \in Char /\ Width(s[i]) \in 1 .. 4
  <2> TAKE i \in 1 .. n
  <2>1. s[i] \in Char
    BY ElementOfSeq
  <2> QED
    BY <2>1, CharacterBytes
<1>2. p \in 0 .. n /\ p + 1 \in 1 .. n /\ p + 1 \in 0 .. n /\ (p + 1) - 1 = p
  BY <1>0
<1>3. /\ less \in Seq(Char) /\ Len(less) = n - 1
      /\ \A j \in 1 .. p : less[j] = s[j]
      /\ \A j \in p + 2 .. n : less[j - 1] = s[j]
  <2>1. p + 1 \in 1 .. Len(s) /\ (p + 1) - 1 = p /\ (p + 1) + 1 = p + 2
    BY <1>2
  <2> QED
    BY <2>1, RemoveAtProperties
<1> HIDE DEF n, less
<1>5. \A i, j \in 0 .. n : off[i] \in Nat /\ off[i] <= Len(b) /\ (i < j => off[i] < off[j])
  BY <1>0, OffsetsGrow
<1>6. x \in Nat /\ y \in Nat /\ y <= Len(b) /\ y = x + v /\ v \in 1 .. 4
  <2> DEFINE q == p + 1
  <2>1. q \in 1 .. n /\ q \in 0 .. n /\ q - 1 = p
    BY <1>2
  <2> HIDE DEF q
  <2>2. off[p] \in Nat /\ off[q] \in Nat /\ off[q] <= Len(b) /\ off[q] = off[p] + Width(s[q]) /\ Width(s[q]) \in 1 .. 4
    BY <1>0, <1>1, <1>2, <1>5, <2>1
  <2> QED
    BY <2>2 DEF q
<1>7. \A i \in 0 .. n : (i <= p => off[i] <= x) /\ (p + 1 <= i => y <= off[i])
  <2> TAKE i \in 0 .. n
  <2>1. i <= p => i = p \/ i < p
    BY <1>2
  <2>2. p + 1 <= i => i = p + 1 \/ p + 1 < i
    BY <1>2
  <2> QED
    BY <1>2, <1>5, <1>6, <2>1, <2>2
<1> HIDE DEF x, y, v
<1>8. /\ new \in Seq(Byte) /\ Len(new) = Len(b) - v
      /\ \A k \in 1 .. x : new[k] = b[k]
      /\ \A k \in 1 .. Len(b) - y : new[x + k] = b[y + k]
  <2> DEFINE left == SubSeq(b, 1, x)
             right == SubSeq(b, y + 1, Len(b))
             none == <<>>
             long == Splice(b, x, none, y)
  <2>0. none \in Seq(Byte) /\ Len(none) = 0 /\ x <= y
    BY <1>6, EmptySeq
  <2>1. long \in Seq(Byte) /\ Between(long, b, x, none, y)
    <3> HIDE DEF none
    <3> QED
      BY <1>6, <2>0, Spliced
  <2>2. left \in Seq(Byte)
    <3>1. \A i \in 1 .. x : b[i] \in Byte
      <4>1. \A i \in 1 .. x : i \in 1 .. Len(b)
        BY <1>0, <1>6
      <4> QED
        BY <4>1, ElementOfSeq
    <3> QED
      BY <1>6, <3>1, SubSeqProperties
  <2> HIDE DEF left, right
  <2>3. left \o none = left
    BY <2>2, ConcatEmptySeq DEF none
  <2>4. new = long
    BY <2>3 DEF left, right, Splice
  <2> HIDE DEF long, new, none
  <2>6. x + Len(none) = x /\ x + Len(none) + (Len(b) - y) = Len(b) - v
    BY <1>0, <1>6, <2>0
  <2> QED
    BY <2>1, <2>4, <2>6 DEF Between
<1> HIDE DEF new
<1>9. \A i \in 0 .. n - 1 : o[i] = IF i <= p THEN off[i] ELSE off[i + 1] - v
  OBVIOUS
<1>10. \A i \in 0 .. n - 1 : p <= i => o[i] = off[i + 1] - v
  <2> TAKE i \in 0 .. n - 1
  <2> HAVE p <= i
  <2>1. CASE i = p
    <3>1. o[i] = x
      BY <1>2, <1>9, <2>1 DEF x
    <3>2. off[i + 1] = y
      BY <2>1 DEF y
    <3> QED
      BY <1>6, <3>1, <3>2
  <2>2. CASE i # p
    <3>1. ~(i <= p)
      BY <1>0, <1>2, <2>2
    <3> QED
      BY <1>9, <3>1
  <2> QED
    BY <2>1, <2>2
<1>11. o \in [0 .. n - 1 -> Nat]
  <2>1. \A i \in 0 .. n - 1 : (IF i <= p THEN off[i] ELSE off[i + 1] - v) \in Nat
    <3> TAKE i \in 0 .. n - 1
    <3>1. CASE i <= p
      BY <1>0, <1>2, <3>1
    <3>2. CASE ~(i <= p)
      <4> DEFINE j == i + 1
      <4>1. j \in 0 .. n /\ p + 1 <= j
        BY <1>0, <1>2, <3>2
      <4> HIDE DEF j
      <4>2. off[j] \in Nat /\ y <= off[j]
        BY <1>5, <1>7, <4>1
      <4>3. off[j] - v \in Nat
        BY <1>6, <4>2
      <4> QED
        BY <3>2, <4>3 DEF j
    <3> QED
      BY <3>1, <3>2
  <2> QED
    BY <2>1
<1> HIDE DEF o
<1>12. o[0] = 0 /\ o[n - 1] = Len(new)
  <2>1. 0 \in 0 .. n - 1 /\ 0 <= p /\ n - 1 \in 0 .. n - 1 /\ p <= n - 1 /\ (n - 1) + 1 = n
    BY <1>0, <1>2
  <2> QED
    BY <1>0, <1>8, <1>9, <1>10, <2>1
<1>13. ASSUME NEW i \in 1 .. n - 1
       PROVE  /\ o[i] = o[i - 1] + Width(less[i])
              /\ o[i] <= Len(new)
              /\ \A k \in 1 .. Width(less[i]) : new[o[i - 1] + k] = Utf8Of[less[i]][k]
  <2>0. i \in 0 .. n - 1 /\ i - 1 \in 0 .. n - 1
    BY <1>0
  <2>1. CASE i <= p
    <3>1. i \in 1 .. n /\ i \in 0 .. n /\ i - 1 \in 0 .. n /\ i - 1 <= p /\ i \in 1 .. p
      BY <1>0, <1>2, <2>1
    <3>2. o[i] = off[i] /\ o[i - 1] = off[i - 1] /\ less[i] = s[i]
      BY <1>3, <1>9, <2>0, <2>1, <3>1
    <3>3. off[i] = off[i - 1] + Width(s[i]) /\ off[i - 1] \in Nat /\ off[i] <= x /\ Width(s[i]) \in 1 .. 4
      BY <1>0, <1>1, <1>5, <1>7, <2>1, <3>1
    <3>4. o[i] <= Len(new)
      BY <1>0, <1>6, <1>8, <3>2, <3>3, SMTT(30)
    <3>5. ASSUME NEW k \in 1 .. Width(s[i])
          PROVE  new[off[i - 1] + k] = Utf8Of[s[i]][k]
      <4> DEFINE before == off[i - 1]
                 width == Width(s[i])
                 l == before + k
      <4>1. before \in Nat /\ before + width <= x /\ width \in 1 .. 4 /\ k \in 1 .. width
        BY <3>3
      <4>2. b[l] = Utf8Of[s[i]][k]
        BY <1>0, <3>1
      <4> HIDE DEF before, width
      <4>3. l \in 1 .. x
        BY <1>6, <4>1
      <4> HIDE DEF l
      <4>4. new[l] = b[l]
        BY <1>8, <4>3
      <4> QED
        BY <4>2, <4>4 DEF l, before
    <3> QED
      BY <3>2, <3>3, <3>4, <3>5
  <2>2. CASE ~(i <= p)
    <3> DEFINE j == i + 1
    <3>1. /\ j \in 1 .. n /\ j \in 0 .. n /\ i \in 0 .. n /\ p + 1 <= i /\ p <= i /\ p <= i - 1
          /\ j \in p + 2 .. n /\ j - 1 = i /\ (i - 1) + 1 = i
      BY <1>0, <1>2, <2>2
    <3>2. o[i] = off[j] - v
      BY <1>10, <2>0, <3>1
    <3> HIDE DEF j
    <3>3. o[i - 1] = off[i] - v
      BY <1>10, <2>0, <3>1
    <3>4. less[i] = s[j]
      BY <1>3, <3>1
    <3>5. /\ off[j] = off[i] + Width(s[j]) /\ off[i] \in Nat /\ y <= off[i] /\ off[j] <= Len(b)
          /\ Width(s[j]) \in 1 .. 4
      BY <1>0, <1>1, <1>5, <1>7, <3>1
    <3>6. o[i] <= Len(new) /\ o[i] = o[i - 1] + Width(s[j])
      <4> DEFINE before == off[i]
                 after == off[j]
                 width == Width(s[j])
                 long == Len(b)
                 here == o[i]
                 last == o[i - 1]
      <4>1. /\ before \in Nat /\ after = before + width /\ width \in 1 .. 4 /\ after <= long
            /\ here = after - v /\ last = before - v
        BY <3>2, <3>3, <3>5
      <4>2. long \in Nat /\ Len(new) = long - v /\ v \in 1 .. 4
        BY <1>0, <1>6, <1>8
      <4> HIDE DEF before, after, width, long, here, last
      <4>3. here <= Len(new) /\ here = last + width
        BY <4>1, <4>2
      <4> QED
        BY <4>3 DEF width, here, last
    <3>7. ASSUME NEW k \in 1 .. Width(s[j])
          PROVE  new[o[i - 1] + k] = Utf8Of[s[j]][k]
      <4> DEFINE before == off[i]
                 width == Width(s[j])
                 l == (before - y) + k
      <4>1. before \in Nat /\ y <= before /\ before + width <= Len(b) /\ width \in 1 .. 4 /\ k \in 1 .. width
        BY <3>5
      <4>2. b[before + k] = Utf8Of[s[j]][k]
        BY <1>0, <3>1
      <4>3. o[i - 1] = before - v
        BY <3>3
      <4> HIDE DEF before, width
      <4>4. l \in 1 .. Len(b) - y /\ y + l = before + k /\ o[i - 1] + k = x + l
        BY <1>0, <1>6, <4>1, <4>3
      <4> HIDE DEF l
      <4>5. new[x + l] = b[y + l]
        BY <1>8, <4>4
      <4> QED
        BY <4>2, <4>4, <4>5
    <3> QED
      BY <3>4, <3>6, <3>7
  <2> QED
    BY <2>1, <2>2
<1>14. Encodes(new, less, n - 1, o)
  BY <1>11, <1>12, <1>13 DEF Encodes
<1>15. EncodesAll(new, less, o)
  BY <1>3, <1>12, <1>14 DEF EncodesAll
<1> QED
  BY <1>8, <1>15 DEF new, less, x, y

\* What encodes a text is its bytes.
LEMMA EncodedIsBytesOf ==
  ASSUME NEW s \in Seq(Char), NEW b \in Seq(Byte), \E off : EncodesAll(b, s, off)
  PROVE  b = BytesOf(s)
<1>1. PICK off : EncodesAll(b, s, off)
  OBVIOUS
<1>2. BytesOf(s) \in Seq(Byte) /\ \E o : EncodesAll(BytesOf(s), s, o)
  BY BytesOfEncodes
<1>3. PICK o : EncodesAll(BytesOf(s), s, o)
  BY <1>2
<1> QED
  BY <1>1, <1>2, <1>3, EncodingUnique

\* An operation as the bytes of its character.
Written(op) == IF op.kind = "insert" THEN [op EXCEPT !.ch = Utf8Of[op.ch]] ELSE op

\* Applied to the bytes of a text an operation gives the bytes of the text it
\* gives: no character is cut in two (ts_apply_operation_to_text).
LEMMA AppliedToBytes ==
  ASSUME NEW s \in Seq(Char), NEW op \in Operation(Char)
  PROVE  U!ApplyToBytes(BytesOf(s), Written(op)) = BytesOf(ApplyOperation(s, op))
<1> DEFINE b == BytesOf(s)
           n == Len(s)
           wr == Written(op)
           place == Clamp(op.pos, n)
           at == U!ByteOffset(b, IF wr.pos > U!CharCount(b) THEN U!CharCount(b) ELSE wr.pos)
           next == U!ByteOffset(b, wr.pos + 1)
<1>1. b \in Seq(Byte) /\ \E off : EncodesAll(b, s, off)
  BY BytesOfEncodes
<1>2. PICK off : EncodesAll(b, s, off)
  BY <1>1
<1>3. n \in Nat /\ op.pos \in Nat /\ op.kind \in {"insert", "delete", "noop"}
  BY DEF Operation
<1>4. wr.kind = op.kind /\ wr.pos = op.pos
  BY DEF Written, Operation
<1>5. U!ApplyToBytes(b, wr) =
        CASE wr.kind = "insert" -> SubSeq(b, 1, at) \o wr.ch \o SubSeq(b, at + 1, Len(b))
          [] wr.kind = "delete" /\ wr.pos < U!CharCount(b) -> SubSeq(b, 1, at) \o SubSeq(b, next + 1, Len(b))
          [] OTHER -> b
  BY DEF U!ApplyToBytes
<1> HIDE DEF b
<1>6. U!CharCount(b) = n
  BY <1>1, <1>2, EncodedCount
<1> DEFINE done == U!ApplyToBytes(b, wr)
<1> HIDE DEF done
<1>7. CASE op.kind = "insert"
  <2>1. wr.ch = Utf8Of[op.ch] /\ op.ch \in Char
    BY <1>7 DEF Written, Operation
  <2>2. place \in 0 .. n /\ at = U!ByteOffset(b, place)
    BY <1>3, <1>4, <1>6 DEF Clamp
  <2>3. U!ByteOffset(b, place) = off[place]
    BY <1>1, <1>2, <2>2, EncodedOffset
  <2>4. done = SubSeq(b, 1, off[place]) \o Utf8Of[op.ch] \o SubSeq(b, off[place] + 1, Len(b))
    <3>1. at = off[place]
      BY <2>2, <2>3
    <3>2. wr.kind = "insert"
      BY <1>4, <1>7
    <3> HIDE DEF at, place, next, wr
    <3> QED
      BY <1>5, <2>1, <3>1, <3>2 DEF done
  <2> DEFINE q == place
  <2>5. q \in 0 .. Len(s)
    BY <2>2
  <2> HIDE DEF q
  <2>6. /\ SubSeq(b, 1, off[q]) \o Utf8Of[op.ch] \o SubSeq(b, off[q] + 1, Len(b)) \in Seq(Byte)
        /\ \E o : EncodesAll(SubSeq(b, 1, off[q]) \o Utf8Of[op.ch] \o SubSeq(b, off[q] + 1, Len(b)),
                             InsertAt(s, q + 1, op.ch), o)
    BY <1>1, <1>2, <2>1, <2>5, InsertedEncodes
  <2>7. done \in Seq(Byte) /\ \E o : EncodesAll(done, InsertAt(s, q + 1, op.ch), o)
    BY <2>4, <2>6 DEF q
  <2>8. InsertAt(s, q + 1, op.ch) = ApplyOperation(s, op)
    BY <1>7 DEF ApplyOperation, q
  <2>9. ApplyOperation(s, op) \in Seq(Char)
    BY ApplyOperationType
  <2> QED
    BY <2>7, <2>8, <2>9, EncodedIsBytesOf DEF done, b
<1>8. CASE op.kind = "delete" /\ op.pos < n
  <2> DEFINE q == op.pos
             q1 == q + 1
  <2>1. q \in 0 .. n /\ q1 \in 0 .. n /\ q \in Nat /\ q < Len(s) /\ at = U!ByteOffset(b, q) /\ next = U!ByteOffset(b, q1)
    BY <1>3, <1>4, <1>6, <1>8
  <2>2. at = off[q] /\ next = off[q1]
    <3> HIDE DEF q1, q, at, next
    <3> QED
      BY <1>1, <1>2, <2>1, EncodedOffset
  <2>3. done = SubSeq(b, 1, at) \o SubSeq(b, next + 1, Len(b))
    <3>1. wr.kind = "delete" /\ wr.pos < U!CharCount(b)
      BY <1>4, <1>6, <1>8
    <3> HIDE DEF at, place, next, wr
    <3> QED
      BY <1>5, <3>1 DEF done
  <2>4. /\ SubSeq(b, 1, off[q]) \o SubSeq(b, off[q + 1] + 1, Len(b)) \in Seq(Byte)
        /\ \E o : EncodesAll(SubSeq(b, 1, off[q]) \o SubSeq(b, off[q + 1] + 1, Len(b)), RemoveAt(s, q + 1), o)
    <3>1. q \in Nat /\ q < Len(s)
      BY <2>1
    <3> HIDE DEF q
    <3> QED
      BY <1>1, <1>2, <3>1, RemovedEncodes
  <2>5. done \in Seq(Byte) /\ \E o : EncodesAll(done, RemoveAt(s, q + 1), o)
    <3>1. done = SubSeq(b, 1, off[q]) \o SubSeq(b, off[q + 1] + 1, Len(b))
      BY <2>2, <2>3
    <3> QED
      BY <2>4, <3>1
  <2>6. RemoveAt(s, q + 1) = ApplyOperation(s, op)
    BY <1>8 DEF ApplyOperation
  <2>7. ApplyOperation(s, op) \in Seq(Char)
    BY ApplyOperationType
  <2> QED
    BY <2>5, <2>6, <2>7, EncodedIsBytesOf DEF done, b
<1>9. CASE op.kind # "insert" /\ ~(op.kind = "delete" /\ op.pos < n)
  <2>1. wr.kind # "insert" /\ ~(wr.kind = "delete" /\ wr.pos < U!CharCount(b))
    BY <1>4, <1>6, <1>9
  <2>2. U!ApplyToBytes(b, wr) = b
    <3> HIDE DEF at, place, next, wr
    <3> QED
      BY <1>5, <2>1
  <2>3. ApplyOperation(s, op) = s
    BY <1>9 DEF ApplyOperation
  <2> QED
    BY <2>2, <2>3 DEF b
<1> QED
  BY <1>7, <1>8, <1>9

-----------------------------------------------------------------------------
(* The length the client expects *)

\* The length expected with nothing pending, and with one operation more.
LEMMA ReachSteps ==
  ASSUME NEW s, s.content \in Seq(Char), NEW pending \in Seq([id : OpIds, op : Operation(Char)]),
         Pending(s) = pending
  PROVE  \E reach \in [0 .. Len(pending) -> Nat] :
           /\ reach[0] = Len(s.content)
           /\ \A i \in 1 .. Len(pending) :
                reach[i] = IF reach[i - 1] + Delta(pending[i].op) < 0 THEN 0
                           ELSE reach[i - 1] + Delta(pending[i].op)
           /\ Reach(s) = reach[Len(pending)]
<1> DEFINE n == Len(pending)
           start == Len(s.content)
           Far(h, i) == IF h[i - 1] + Delta(pending[i].op) < 0 THEN 0 ELSE h[i - 1] + Delta(pending[i].op)
           Rec(h) == h = [i \in 0 .. n |-> IF i = 0 THEN start ELSE Far(h, i)]
           reach == CHOOSE h : Rec(h)
           F == [i \in 1 .. n |-> [l \in Nat |-> IF l + Delta(pending[i].op) < 0 THEN 0 ELSE l + Delta(pending[i].op)]]
<1>0. n \in Nat /\ start \in Nat
  OBVIOUS
<1>1. \A i \in 1 .. n : Delta(pending[i].op) \in {-1, 0, 1}
  BY DEF Delta
<1>2. Reach(s) = reach[n]
  BY DEF Reach
<1> HIDE DEF n, start
<1>3. Steps(F, n, Nat)
  <2>1. \A i \in 1 .. n : \A l \in Nat :
          (IF l + Delta(pending[i].op) < 0 THEN 0 ELSE l + Delta(pending[i].op)) \in Nat
    BY <1>1
  <2> QED
    BY <2>1 DEF Steps
<1> HIDE DEF F
<1>4. PICK f : Runs(f, F, n, Nat, start)
  BY <1>0, <1>3, Iterated
<1>5. f \in [0 .. n -> Nat] /\ f[0] = start /\ \A i \in 1 .. n : f[i] = Far(f, i)
  <2>1. f \in [0 .. n -> Nat] /\ f[0] = start /\ \A i \in 1 .. n : f[i] = F[i][f[i - 1]]
    BY <1>4 DEF Runs
  <2>2. ASSUME NEW i \in 1 .. n
        PROVE  f[i] = Far(f, i)
    <3>1. f[i - 1] \in Nat
      BY <1>0, <2>1
    <3> QED
      BY <2>1, <3>1 DEF F
  <2> QED
    BY <2>1, <2>2
<1> HIDE DEF Far
<1>6. Rec(f)
  <2>1. \A i \in 0 .. n : f[i] = IF i = 0 THEN start ELSE Far(f, i)
    <3> TAKE i \in 0 .. n
    <3>1. i = 0 \/ i \in 1 .. n
      BY <1>0
    <3> QED
      BY <1>5, <3>1
  <2> QED
    BY <1>5, <2>1
<1>7. Rec(reach)
  <2> HIDE DEF Rec
  <2> QED
    BY <1>6
<1> HIDE DEF reach
<1>8. reach[0] = start /\ \A i \in 1 .. n : reach[i] = Far(reach, i)
  <2>1. 0 \in 0 .. n /\ \A i \in 1 .. n : i \in 0 .. n /\ i # 0
    BY <1>0
  <2> QED
    BY <1>7, <2>1
<1> HIDE DEF Rec
<1>9. \A i \in 1 .. n : f[i - 1] = reach[i - 1] => f[i] = reach[i]
  BY <1>5, <1>8 DEF Far
<1>10. \A i \in 0 .. n : f[i] = reach[i]
  <2>1. f[0] = reach[0]
    BY <1>5, <1>8
  <2>2. GoOnAlike(f, reach, n)
    BY <1>9, <2>1 DEF GoOnAlike
  <2>3. Alike(f, reach, n)
    BY <1>0, <2>2, Determined
  <2> QED
    BY <2>3 DEF Alike
<1>11. Reach(s) = f[n]
  BY <1>0, <1>2, <1>10
<1> QED
  BY <1>5, <1>11 DEF n, start, Far

\* What is pending has types of its own.
LEMMA PendingType ==
  ASSUME NEW s \in ClientType
  PROVE  Pending(s) \in Seq(Item) /\ s.content \in Seq(Char)
BY ConcatProperties DEF Pending, ClientType

\* The length expected, one pending operation after the other
\* (projected_content_length).
LEMMA ProjectedSteps ==
  ASSUME NEW content \in Seq(Char), NEW pending \in Seq(Item)
  PROVE  \E length \in [0 .. Len(pending) -> Int] :
           /\ length[0] = Len(content)
           /\ \A i \in 1 .. Len(pending) : length[i] = length[i - 1] + Delta(pending[i].op)
           /\ ProjectedLength(BytesOf(content), pending) =
                IF length[Len(pending)] < 0 THEN 0 ELSE length[Len(pending)]
<1> DEFINE n == Len(pending)
           count == U!CharCount(BytesOf(content))
           On(h, i) == h[i - 1] + Delta(pending[i].op)
           Rec(h) == h = [i \in 0 .. n |-> IF i = 0 THEN count ELSE On(h, i)]
           length == CHOOSE h : Rec(h)
           F == [i \in 1 .. n |-> [l \in Int |-> l + Delta(pending[i].op)]]
<1>2. n \in Nat
  OBVIOUS
<1>3. \A i \in 1 .. n : Delta(pending[i].op) \in {-1, 0, 1}
  BY DEF Delta
<1>4. count = Len(content) /\ count \in Nat
  <2> DEFINE b == BytesOf(content)
  <2>1. b \in Seq(Byte) /\ \E off : EncodesAll(b, content, off)
    BY BytesOfEncodes
  <2> HIDE DEF b
  <2>2. U!CharCount(b) = Len(content)
    BY <2>1, EncodedCount
  <2> QED
    BY <2>2 DEF b
<1>5. ProjectedLength(BytesOf(content), pending) = IF length[n] < 0 THEN 0 ELSE length[n]
  BY DEF ProjectedLength
<1> HIDE DEF n, count
<1>7. PICK f : Runs(f, F, n, Int, count)
  <2>1. Steps(F, n, Int)
    <3>1. \A i \in 1 .. n : \A l \in Int : l + Delta(pending[i].op) \in Int
      BY <1>3
    <3> QED
      BY <3>1 DEF Steps
  <2>2. count \in Int
    BY <1>4
  <2> HIDE DEF F
  <2> QED
    BY <1>2, <2>1, <2>2, Iterated
<1>8. f \in [0 .. n -> Int] /\ f[0] = count /\ \A i \in 1 .. n : f[i] = On(f, i)
  <2> HIDE DEF F
  <2>1. f \in [0 .. n -> Int] /\ f[0] = count /\ \A i \in 1 .. n : f[i] = F[i][f[i - 1]]
    BY <1>7 DEF Runs
  <2>2. ASSUME NEW i \in 1 .. n
        PROVE  f[i] = On(f, i)
    <3>1. f[i - 1] \in Int
      BY <1>2, <2>1
    <3> QED
      BY <2>1, <3>1 DEF F
  <2> QED
    BY <2>1, <2>2
<1> HIDE DEF F
<1>9. \A i \in 0 .. n : length[i] = f[i]
  <2> HIDE DEF On
  <2>1. Rec(f)
    <3>1. \A i \in 0 .. n : f[i] = IF i = 0 THEN count ELSE On(f, i)
      <4> TAKE i \in 0 .. n
      <4>1. i = 0 \/ i \in 1 .. n
        BY <1>2
      <4> QED
        BY <1>8, <4>1
    <3> QED
      BY <1>8, <3>1
  <2>2. Rec(length)
    <3> HIDE DEF Rec
    <3> QED
      BY <2>1
  <2> HIDE DEF length
  <2>3. length[0] = count /\ \A i \in 1 .. n : length[i] = On(length, i)
    <3>1. 0 \in 0 .. n /\ \A i \in 1 .. n : i \in 0 .. n /\ i # 0
      BY <1>2
    <3> QED
      BY <2>2, <3>1
  <2> HIDE DEF Rec
  <2>4. \A i \in 1 .. n : length[i - 1] = f[i - 1] => length[i] = f[i]
    BY <1>8, <2>3 DEF On
  <2>5. length[0] = f[0]
    BY <1>8, <2>3
  <2>6. GoOnAlike(length, f, n)
    BY <2>4, <2>5 DEF GoOnAlike
  <2>7. Alike(length, f, n)
    BY <1>2, <2>6, Determined
  <2> QED
    BY <2>7 DEF Alike
<1> HIDE DEF length
<1>10. n \in 0 .. n /\ length[n] = f[n]
  BY <1>2, <1>9
<1>11. ProjectedLength(BytesOf(content), pending) = IF f[n] < 0 THEN 0 ELSE f[n]
  BY <1>5, <1>10
<1> QED
  BY <1>4, <1>8, <1>11 DEF n

\* The length the client expects is a length, and no more than how far what it
\* types can reach: only there a deletion of nothing costs nothing
\* (projected_content_length).
LEMMA ProjectedWithinReach ==
  ASSUME NEW s \in ClientType
  PROVE  /\ ProjectedLength(BytesOf(s.content), Pending(s)) \in Nat
         /\ ProjectedLength(BytesOf(s.content), Pending(s)) <= Reach(s)
         /\ Reach(s) \in Nat
<1> DEFINE pending == Pending(s)
           content == s.content
           n == Len(pending)
<1>1. pending \in Seq(Item) /\ content \in Seq(Char)
  BY PendingType
<1>2. n \in Nat
  BY <1>1
<1>3. \A i \in 1 .. n : Delta(pending[i].op) \in {-1, 0, 1}
  BY DEF Delta
<1>6. PICK reach \in [0 .. n -> Nat] :
        /\ reach[0] = Len(content)
        /\ \A i \in 1 .. n : reach[i] = IF reach[i - 1] + Delta(pending[i].op) < 0 THEN 0
                                        ELSE reach[i - 1] + Delta(pending[i].op)
        /\ Reach(s) = reach[n]
  <2>1. pending \in Seq([id : OpIds, op : Operation(Char)])
    BY <1>1 DEF Item
  <2> HIDE DEF pending
  <2>2. Pending(s) = pending
    BY DEF pending
  <2> QED
    BY <1>1, <2>1, <2>2, ReachSteps
<1> HIDE DEF pending, content
<1>8. PICK f \in [0 .. n -> Int] :
        /\ f[0] = Len(content)
        /\ \A i \in 1 .. n : f[i] = f[i - 1] + Delta(pending[i].op)
        /\ ProjectedLength(BytesOf(content), pending) = IF f[n] < 0 THEN 0 ELSE f[n]
  BY <1>1, ProjectedSteps
<1> HIDE DEF n
<1>10. \A i \in 0 .. n : f[i] <= reach[i]
  <2> DEFINE T == {m \in Nat : m <= n => f[m] <= reach[m]}
  <2>1. 0 \in T
    BY <1>1, <1>2, <1>6, <1>8
  <2>2. ASSUME NEW m \in Nat, m \in T
        PROVE  m + 1 \in T
    <3>1. SUFFICES ASSUME m + 1 <= n PROVE f[m + 1] <= reach[m + 1]
      OBVIOUS
    <3> DEFINE i == m + 1
    <3>2. i \in 1 .. n /\ i - 1 = m /\ m \in 0 .. n /\ f[m] <= reach[m]
      BY <1>2, <2>2, <3>1
    <3> HIDE DEF i
    <3>3. /\ f[m] \in Int /\ reach[m] \in Nat /\ f[i] = f[m] + Delta(pending[i].op)
          /\ reach[i] = IF reach[m] + Delta(pending[i].op) < 0 THEN 0 ELSE reach[m] + Delta(pending[i].op)
          /\ Delta(pending[i].op) \in {-1, 0, 1}
      BY <1>3, <1>6, <1>8, <3>2
    <3>4. f[i] <= reach[i]
      BY <3>2, <3>3
    <3> QED
      BY <3>4 DEF i
  <2> HIDE DEF T
  <2>3. Nat \subseteq T
    BY <2>1, <2>2, NatSetInduction
  <2> QED
    BY <2>3 DEF T
<1>11. n \in 0 .. n /\ f[n] \in Int /\ reach[n] \in Nat /\ f[n] <= reach[n]
  BY <1>2, <1>6, <1>8, <1>10
<1>12. LET projected == IF f[n] < 0 THEN 0 ELSE f[n]
       IN  projected \in Nat /\ projected <= reach[n]
  BY <1>11
<1> QED
  BY <1>6, <1>8, <1>11, <1>12 DEF pending, content

\* How far one can type is decided by the text and by what is pending.
LEMMA SameReach ==
  ASSUME NEW s, NEW t, s.content = t.content, Pending(s) = Pending(t)
  PROVE  Reach(s) = Reach(t)
BY DEF Reach

\* Sending moves the first of the queue in flight: the same is pending.
LEMMA PumpReach ==
  ASSUME NEW s \in ClientType
  PROVE  Pump(s).content = s.content /\ Pending(Pump(s)) = Pending(s)
<1>1. CASE Pump(s) = s
  BY <1>1
<1>2. CASE s.inflight = <<>> /\ s.queue # <<>> /\ Pump(s) = Pumped(s)
  <2>1. s.queue \in Seq(Item)
    BY DEF ClientType
  <2>2. Pumped(s).content = s.content /\ Pumped(s).inflight = <<Head(s.queue)>> /\ Pumped(s).queue = Tail(s.queue)
    BY DEF Pumped, ClientType
  <2> DEFINE q == s.queue
  <2> HIDE DEF q
  <2>3. q \in Seq(Item) /\ q # <<>> /\ Head(q) \in Item /\ Tail(q) \in Seq(Item) /\ Head(q) = q[1]
        /\ Len(Tail(q)) = Len(q) - 1 /\ \A i \in 1 .. Len(q) - 1 : Tail(q)[i] = q[i + 1]
    BY <1>2, <2>1, HeadTailProperties DEF q
  <2> DEFINE one == <<Head(q)>>
             rest == Tail(q)
  <2>4. one \in Seq(Item) /\ Len(one) = 1 /\ one[1] = q[1]
    BY <2>3
  <2> HIDE DEF one, rest
  <2>5. one \o rest = q
    <3>1. /\ one \o rest \in Seq(Item) /\ Len(one \o rest) = Len(one) + Len(rest)
          /\ \A i \in 1 .. Len(one) + Len(rest) :
               (one \o rest)[i] = IF i <= Len(one) THEN one[i] ELSE rest[i - Len(one)]
      BY <2>3, <2>4, ConcatProperties, SMTT(30) DEF rest
    <3> DEFINE whole == one \o rest
    <3> HIDE DEF whole
    <3>2. Len(q) \in Nat /\ whole \in Seq(Item) /\ Len(whole) = Len(q)
      BY <2>3, <2>4, <3>1 DEF rest, whole
    <3>3. ASSUME NEW i \in 1 .. Len(q)
          PROVE  whole[i] = q[i]
      <4>1. CASE i = 1
        BY <2>3, <2>4, <3>1, <3>2, <4>1 DEF whole, rest
      <4>2. CASE i # 1
        <5> DEFINE j == i - 1
        <5>1. j \in 1 .. Len(q) - 1 /\ j + 1 = i /\ i \in 1 .. Len(one) + Len(rest) /\ ~(i <= Len(one)) /\ i - Len(one) = j
          BY <2>3, <2>4, <3>2, <4>2 DEF rest
        <5> HIDE DEF j
        <5>2. whole[i] = rest[j] /\ rest[j] = q[i]
          BY <2>3, <3>1, <5>1 DEF whole, rest
        <5> QED
          BY <5>2
      <4> QED
        BY <4>1, <4>2
    <3>4. whole = q
      BY <2>3, <3>2, <3>3, SeqEqual
    <3> QED
      BY <3>4 DEF whole
  <2>6. <<>> \o q = q
    BY <2>3, ConcatEmptySeq
  <2>7. Pending(s) = q
    BY <1>2, <2>6 DEF Pending, q
  <2>8. Pending(Pumped(s)) = q
    BY <2>2, <2>5 DEF Pending, q, one, rest
  <2> QED
    BY <1>2, <2>2, <2>7, <2>8
<1> QED
  BY <1>1, <1>2, PumpFacts

\* What is typed counts at once (queue_insert, delete_before_cursor).
LEMMA QueuedReach ==
  ASSUME NEW s \in ClientType, NEW id \in OpIds, NEW op \in Operation(Char)
  PROVE  Reach(QueueOperation(s, id, op)) = IF Reach(s) + Delta(op) < 0 THEN 0 ELSE Reach(s) + Delta(op)
<1> DEFINE item == [id |-> id, op |-> op]
           q == [s EXCEPT !.queue = Append(s.queue, item), !.nextOp = s.nextOp + 1]
           pending == Pending(s)
           more == Append(pending, item)
           n == Len(pending)
<1>1. item \in Item /\ item.op = op
  BY DEF Item
<1> HIDE DEF item
<1>2. pending \in Seq(Item) /\ s.content \in Seq(Char) /\ s.queue \in Seq(Item) /\ s.inflight \in Seq(Item)
  BY PendingType DEF ClientType
<1>3. q \in ClientType /\ q.content = s.content /\ q.inflight = s.inflight /\ q.queue = Append(s.queue, item)
  <2>1. Append(s.queue, item) \in Seq(Item) /\ s.nextOp + 1 \in Nat \ {0}
    BY <1>1, <1>2, AppendProperties DEF ClientType
  <2> QED
    BY <2>1 DEF ClientType
<1>4. Pending(q) = more
  <2> DEFINE a == s.inflight
             b == s.queue
             o == <<item>>
  <2>1. a \in Seq(Item) /\ b \in Seq(Item) /\ o \in Seq(Item)
    BY <1>1, <1>2
  <2>2. Append(b, item) = b \o o /\ Append(a \o b, item) = (a \o b) \o o
    BY <1>1, <1>2, AppendIsConcat DEF Pending
  <2> HIDE DEF a, b, o
  <2>3. a \o (b \o o) = (a \o b) \o o
    BY <2>1, ConcatAssociative
  <2> QED
    BY <1>3, <2>2, <2>3 DEF Pending, a, b
<1> HIDE DEF q
<1>5. QueueOperation(s, id, op) = Pump(q)
  BY DEF QueueOperation, q, item
<1>6. Reach(QueueOperation(s, id, op)) = Reach(q)
  <2>1. Pump(q).content = q.content /\ Pending(Pump(q)) = Pending(q)
    BY <1>3, PumpReach
  <2> QED
    BY <1>5, <2>1, SameReach
<1> HIDE DEF pending
<1>7. more \in Seq(Item) /\ Len(more) = n + 1 /\ more[n + 1] = item /\ \A i \in 1 .. n : more[i] = pending[i]
  BY <1>1, <1>2, AppendProperties
<1>8. PICK reach \in [0 .. n -> Nat] :
        /\ reach[0] = Len(s.content)
        /\ \A i \in 1 .. n : reach[i] = IF reach[i - 1] + Delta(pending[i].op) < 0 THEN 0
                                        ELSE reach[i - 1] + Delta(pending[i].op)
        /\ Reach(s) = reach[n]
  <2>1. pending \in Seq([id : OpIds, op : Operation(Char)]) /\ Pending(s) = pending
    BY <1>2 DEF Item, pending
  <2> QED
    BY <1>2, <2>1, ReachSteps
<1> HIDE DEF more
<1>9. PICK far \in [0 .. Len(more) -> Nat] :
        /\ far[0] = Len(q.content)
        /\ \A i \in 1 .. Len(more) : far[i] = IF far[i - 1] + Delta(more[i].op) < 0 THEN 0
                                              ELSE far[i - 1] + Delta(more[i].op)
        /\ Reach(q) = far[Len(more)]
  <2>1. more \in Seq([id : OpIds, op : Operation(Char)]) /\ Pending(q) = more /\ q.content \in Seq(Char)
    BY <1>2, <1>3, <1>4, <1>7 DEF Item
  <2> QED
    BY <2>1, ReachSteps
<1>10. n \in Nat
  BY <1>2
<1> HIDE DEF n
<1>11. \A i \in 0 .. n : far[i] = reach[i]
  <2>1. \A i \in 1 .. n : far[i - 1] = reach[i - 1] => far[i] = reach[i]
    <3> TAKE i \in 1 .. n
    <3>1. i \in 1 .. Len(more) /\ more[i] = pending[i]
      BY <1>7, <1>10
    <3> QED
      BY <1>8, <1>9, <3>1
  <2>2. GoOnAlike(far, reach, n)
    BY <1>3, <1>8, <1>9, <2>1 DEF GoOnAlike
  <2>3. Alike(far, reach, n)
    BY <1>10, <2>2, Determined
  <2> QED
    BY <2>3 DEF Alike
<1>12. Reach(q) = IF reach[n] + Delta(op) < 0 THEN 0 ELSE reach[n] + Delta(op)
  <2> DEFINE l == n + 1
  <2>1. l \in 1 .. Len(more) /\ l - 1 = n /\ n \in 0 .. n /\ more[l] = item /\ Len(more) = l
    BY <1>7, <1>10
  <2> HIDE DEF l
  <2> QED
    BY <1>1, <1>9, <1>11, <2>1
<1> QED
  BY <1>6, <1>8, <1>12

-----------------------------------------------------------------------------
(* The inductive invariant *)

\* The cursor of a client that runs lies where Session lets it type.
TerminalInv ==
  /\ cursor \in [Clients -> Nat]
  /\ bytes \in [Clients -> Seq(Byte)]
  /\ \A c \in Clients : bytes[c] = BytesOf(client[c].content)
  /\ \A c \in running : cursor[c] <= Reach(client[c])

\* The bytes a message leaves are those of the text it leaves (apply_authoritative_op).
LEMMA BytesFollow ==
  ASSUME NEW c \in Clients, client[c] \in ClientType, NEW m \in ServerMessage,
         bytes[c] = BytesOf(client[c].content)
  PROVE  BytesAfter(c, m) = BytesOf(HandleMessage(client[c], m).content)
<1> DEFINE s == client[c]
           new == HandleMessage(s, m)
<1>0. s \in ClientType /\ s.content \in Seq(Char) /\ bytes[c] = BytesOf(s.content)
  BY DEF ClientType
<1>1. BytesAfter(c, m) =
        CASE m.type = "DOC_STATE" -> BytesOf(m.text)
          [] m.type = "ACK" /\ s.inflight # <<>> /\ s.inflight[1].id = m.id -> U!ApplyToBytes(bytes[c], Written(m.op))
          [] m.type = "REMOTE_OP" /\ m.version = s.version + 1 -> U!ApplyToBytes(bytes[c], Written(m.op))
          [] OTHER -> bytes[c]
  BY DEF BytesAfter, Written
<1>2. \A op \in Operation(Char) : U!ApplyToBytes(bytes[c], Written(op)) = BytesOf(ApplyOperation(s.content, op))
  BY <1>0, AppliedToBytes
<1>3. m.type \in {"ACK", "REMOTE_OP"} => m.op \in Operation(Char)
  BY DEF ServerMessage
<1> HIDE DEF s
<1>4. \A t \in ClientType : Pump(t).content = t.content
  BY PumpReach
<1>5. \A msg : Send(s, msg).content = s.content /\ Send(Refused(s), msg).content = s.content
  BY <1>0 DEF Send, Refused, ClientType
<1>6. ApplyAuthoritative(s, m).content = ApplyOperation(s.content, m.op)
      /\ Acknowledged(s, m).content = ApplyOperation(s.content, m.op)
      /\ Loaded(s, m).content = m.text
  BY <1>0 DEF ApplyAuthoritative, Acknowledged, Loaded, ClientType
<1>7. CASE m.type = "DOC_STATE"
  <2>1. new.content = m.text
    BY <1>0, <1>4, <1>6, <1>7, HandleCases
  <2> QED
    BY <1>1, <1>7, <2>1 DEF s
<1>8. CASE m.type = "ACK" /\ s.inflight # <<>> /\ s.inflight[1].id = m.id
  <2>1. new.content = ApplyOperation(s.content, m.op)
    BY <1>0, <1>4, <1>6, <1>8, HandleCases
  <2>2. BytesAfter(c, m) = U!ApplyToBytes(bytes[c], Written(m.op))
    BY <1>1, <1>8
  <2> QED
    BY <1>2, <1>3, <1>8, <2>1, <2>2 DEF s
<1>9. CASE m.type = "REMOTE_OP" /\ m.version = s.version + 1
  <2>0. m.version \in Nat /\ s.version \in Nat /\ ~(m.version <= s.version) /\ ~(m.version > s.version + 1)
    BY <1>0, <1>9 DEF ServerMessage, ClientType
  <2>1. new.content = ApplyOperation(s.content, m.op)
    BY <1>0, <1>6, <1>9, <2>0, HandleCases
  <2>2. BytesAfter(c, m) = U!ApplyToBytes(bytes[c], Written(m.op))
    BY <1>1, <1>9
  <2> QED
    BY <1>2, <1>3, <1>9, <2>1, <2>2 DEF s
<1>10. CASE /\ m.type # "DOC_STATE"
            /\ ~(m.type = "ACK" /\ s.inflight # <<>> /\ s.inflight[1].id = m.id)
            /\ ~(m.type = "REMOTE_OP" /\ m.version = s.version + 1)
  <2>1. new.content = s.content
    BY <1>0, <1>5, <1>10, HandleCases
  <2>2. BytesAfter(c, m) = bytes[c]
    BY <1>1, <1>10
  <2> QED
    BY <1>0, <2>1, <2>2 DEF s
<1> QED
  BY <1>7, <1>8, <1>9, <1>10

\* A message changes the bytes with the text, and then the cursor is where the
\* new text lets it be (drain_messages).
LEMMA DrainKeeps ==
  ASSUME SessionInv, SessionInv', TerminalInv, NEW c \in Clients, Drain(c)
  PROVE  TerminalInv'
<1> DEFINE s == client[c]
           m == Head(toClient[c])
           t == HandleMessage(s, m)
           length == ProjectedLength(bytes'[c], Pending(client'[c]))
<1>1. /\ toClient[c] # <<>> /\ client' = [client EXCEPT ![c] = t] /\ running' = running
      /\ bytes' = [bytes EXCEPT ![c] = BytesAfter(c, m)]
      /\ cursor' = [cursor EXCEPT ![c] = IF cursor[c] > length THEN length ELSE cursor[c]]
  BY DEF Drain, Handle, ClampCursor
<1>2. client \in [Clients -> ClientType] /\ client' \in [Clients -> ClientType] /\ running \subseteq Clients
      /\ toClient \in [Clients -> Seq(ServerMessage)]
  BY DEF SessionInv, SessionTypeOK
<1>3. /\ cursor \in [Clients -> Nat] /\ bytes \in [Clients -> Seq(Byte)]
      /\ \A d \in Clients : bytes[d] = BytesOf(client[d].content)
      /\ \A d \in running : cursor[d] <= Reach(client[d])
  BY DEF TerminalInv
<1>4. m \in ServerMessage
  <2>1. toClient[c] \in Seq(ServerMessage)
    BY <1>2
  <2> QED
    BY <1>1, <2>1, HeadTailProperties
<1>5. client'[c] = t /\ t \in ClientType /\ \A d \in Clients : d # c => client'[d] = client[d]
  BY <1>1, <1>2
<1>6. BytesAfter(c, m) = BytesOf(t.content)
  BY <1>2, <1>3, <1>4, BytesFollow
<1>7. t.content \in Seq(Char) /\ BytesOf(t.content) \in Seq(Byte)
  BY <1>5, BytesOfEncodes DEF ClientType
<1>8. bytes'[c] = BytesOf(t.content) /\ \A d \in Clients : d # c => bytes'[d] = bytes[d]
  BY <1>1, <1>3, <1>6
<1>9. length \in Nat /\ length <= Reach(t) /\ Reach(t) \in Nat
  BY <1>5, <1>8, ProjectedWithinReach
<1> HIDE DEF length, t, m
<1>10. /\ cursor'[c] \in Nat /\ cursor'[c] <= Reach(t)
       /\ \A d \in Clients : d # c => cursor'[d] = cursor[d]
  BY <1>1, <1>3, <1>9
<1>11. cursor' \in [Clients -> Nat] /\ bytes' \in [Clients -> Seq(Byte)]
  BY <1>1, <1>3, <1>6, <1>7, <1>10
<1>12. \A d \in Clients : bytes'[d] = BytesOf(client'[d].content)
  BY <1>3, <1>5, <1>8
<1>13. \A d \in running' : cursor'[d] <= Reach(client'[d])
  <2> TAKE d \in running'
  <2>1. d \in running /\ d \in Clients
    BY <1>1, <1>2
  <2>2. CASE d = c
    BY <1>5, <1>10, <2>2
  <2>3. CASE d # c
    BY <1>3, <1>5, <1>10, <2>1, <2>3
  <2> QED
    BY <2>2, <2>3
<1> QED
  BY <1>11, <1>12, <1>13 DEF TerminalInv

\* A key that edits at the cursor moves it along with what can be typed.
LEMMA KeyKeeps ==
  ASSUME SessionInv, TerminalInv, NEW c \in running, NEW op \in Operation(Char), MayType(c), Queue(c, op),
         NEW d \in {-1, 1}, d = Delta(op), cursor[c] + d >= 0,
         cursor' = [cursor EXCEPT ![c] = cursor[c] + d]
  PROVE  TerminalInv'
<1> DEFINE s == client[c]
           id == <<c, s.nextOp>>
           t == QueueOperation(s, id, op)
<1>1. client' = [client EXCEPT ![c] = t] /\ running' = running /\ bytes' = bytes /\ id \in OpIds
  BY DEF Queue, MayType
<1>2. client \in [Clients -> ClientType] /\ running \subseteq Clients /\ c \in Clients
  BY DEF SessionInv, SessionTypeOK
<1>3. s \in ClientType
  BY <1>2
<1>4. /\ cursor \in [Clients -> Nat] /\ bytes \in [Clients -> Seq(Byte)]
      /\ \A e \in Clients : bytes[e] = BytesOf(client[e].content)
      /\ \A e \in running : cursor[e] <= Reach(client[e])
  BY DEF TerminalInv
<1>5. Reach(t) = IF Reach(s) + d < 0 THEN 0 ELSE Reach(s) + d
  BY <1>1, <1>3, QueuedReach
<1>6. Reach(s) \in Nat
  BY <1>3, ProjectedWithinReach
<1>7. t.content = s.content
  <2> DEFINE item == [id |-> id, op |-> op]
             q == [s EXCEPT !.queue = Append(@, item), !.nextOp = @ + 1]
  <2>1. q.content = s.content /\ Pump(q).content = q.content
    BY <1>3 DEF Pump, Send, ClientType
  <2> QED
    BY <2>1 DEF QueueOperation
<1> HIDE DEF t, s, id
<1>8. client'[c] = t /\ \A e \in Clients : e # c => client'[e] = client[e]
  BY <1>1, <1>2
<1>9. cursor'[c] = cursor[c] + d /\ \A e \in Clients : e # c => cursor'[e] = cursor[e]
  BY <1>2, <1>4
<1>10. cursor' \in [Clients -> Nat]
  BY <1>2, <1>4
<1>11. cursor'[c] <= Reach(t)
  BY <1>2, <1>4, <1>5, <1>6, <1>9 DEF s
<1>12. \A e \in Clients : bytes'[e] = BytesOf(client'[e].content)
  BY <1>1, <1>4, <1>7, <1>8 DEF s
<1>13. \A e \in running' : cursor'[e] <= Reach(client'[e])
  BY <1>1, <1>2, <1>4, <1>8, <1>9, <1>11
<1> QED
  BY <1>1, <1>4, <1>10, <1>12, <1>13 DEF TerminalInv

\* What the server's threads do, and leaving, change no client's text and
\* nothing that is pending.
LEMMA OthersKeep ==
  ASSUME SessionInv, TerminalInv, NEW c \in Clients, Quit(c) \/ ServerStep(c), UNCHANGED <<cursor, bytes>>
  PROVE  TerminalInv'
<1>1. client \in [Clients -> ClientType] /\ running \subseteq Clients
  BY DEF SessionInv, SessionTypeOK
<1>2. running' \subseteq running /\ \A d \in Clients : /\ client'[d].content = client[d].content
                                                       /\ client'[d].queue = client[d].queue
                                                       /\ client'[d].inflight = client[d].inflight
  <2>1. CASE Quit(c)
    BY <1>1, <2>1 DEF Quit, ClientType
  <2>2. CASE Receive(c)
    BY <1>1, <2>2 DEF Receive, ClientType
  <2>3. CASE Register(c) \/ TakeSnapshot(c) \/ Answer(c) \/ StartBroadcast(c) \/ BroadcastNext(c)
             \/ EndBroadcast(c) \/ Leave(c)
    <3>1. UNCHANGED <<client, running>>
      BY <2>3 DEF Register, TakeSnapshot, Answer, StartBroadcast, BroadcastNext, EndBroadcast, Leave
    <3> QED
      BY <3>1
  <2> QED
    BY <2>1, <2>2, <2>3 DEF ServerStep
<1>3. \A d \in Clients : Reach(client'[d]) = Reach(client[d])
  <2> TAKE d \in Clients
  <2>1. client'[d].content = client[d].content /\ Pending(client'[d]) = Pending(client[d])
    BY <1>2 DEF Pending
  <2> QED
    BY <2>1, SameReach
<1>4. cursor' = cursor /\ bytes' = bytes
  OBVIOUS
<1> QED
  BY <1>1, <1>2, <1>3, <1>4 DEF TerminalInv

\* Moving keeps the cursor within what is expected.
LEMMA MoveKeeps ==
  ASSUME SessionInv, TerminalInv, NEW c \in Clients, Move(c)
  PROVE  TerminalInv'
<1>1. client \in [Clients -> ClientType] /\ running \subseteq Clients /\ cursor \in [Clients -> Nat]
  BY DEF SessionInv, SessionTypeOK, TerminalInv
<1>2. client' = client /\ running' = running /\ bytes' = bytes
  BY DEF Move, sessionVars
<1>3. c \in running /\ cursor[c] \in Nat /\ cursor[c] <= Reach(client[c]) /\ bytes[c] = BytesOf(client[c].content)
  BY <1>1 DEF Move, TerminalInv
<1> DEFINE reach == Reach(client[c])
           length == ProjectedLength(bytes[c], Pending(client[c]))
<1>4. length \in Nat /\ length <= reach /\ reach \in Nat
  <2>1. client[c] \in ClientType
    BY <1>1
  <2> QED
    BY <1>3, <2>1, ProjectedWithinReach
<1>5. PICK p \in Nat : cursor' = [cursor EXCEPT ![c] = p] /\ p <= reach
  <2>1. CASE cursor[c] > 0 /\ cursor' = [cursor EXCEPT ![c] = @ - 1]
    <3>1. cursor[c] - 1 \in Nat /\ cursor[c] - 1 <= reach
      BY <1>3, <1>4, <2>1
    <3> QED
      BY <2>1, <3>1
  <2>2. CASE cursor[c] < length /\ cursor' = [cursor EXCEPT ![c] = @ + 1]
    <3> HIDE DEF length
    <3>1. cursor[c] + 1 \in Nat /\ cursor[c] + 1 <= reach
      BY <1>3, <1>4, <2>2
    <3> QED
      BY <2>2, <3>1
  <2> QED
    BY <2>1, <2>2 DEF Move
<1>6. cursor' \in [Clients -> Nat] /\ \A d \in Clients : cursor'[d] = IF d = c THEN p ELSE cursor[d]
  BY <1>1, <1>5
<1>7. \A d \in running' : cursor'[d] <= Reach(client'[d])
  BY <1>1, <1>2, <1>5, <1>6 DEF TerminalInv
<1> QED
  BY <1>2, <1>6, <1>7 DEF TerminalInv

\* What is typed at the cursor could be typed in Session (queue_insert,
\* delete_before_cursor).
LEMMA KeyIsTyped ==
  ASSUME Positions = Nat, SessionInv, TerminalInv, NEW c \in Clients, Insert(c) \/ Backspace(c)
  PROVE  Type(c) /\ TerminalInv'
<1> DEFINE s == client[c]
           id == <<c, s.nextOp>>
<1>1. MayType(c) /\ c \in running /\ id \in OpIds
  BY DEF Insert, Backspace, MayType
<1>2. cursor \in [Clients -> Nat] /\ s \in ClientType
  BY DEF TerminalInv, SessionInv, SessionTypeOK
<1>3. cursor[c] \in Nat /\ cursor[c] <= Reach(s) /\ Reach(s) \in Nat
  BY <1>1, <1>2, ProjectedWithinReach DEF TerminalInv
<1>4. CASE Insert(c)
  <2> DEFINE op == InsertOp(cursor[c], id)
  <2>1. Queue(c, op) /\ cursor' = [cursor EXCEPT ![c] = cursor[c] + 1]
    BY <1>4 DEF Insert
  <2>2. op \in Operation(Char) /\ Delta(op) = 1
    BY <1>1, <1>3 DEF InsertOp, Operation, Char, Delta
  <2>3. op \in {InsertOp(p, id) : p \in (0 .. Reach(s)) \cap Positions}
    <3>1. cursor[c] \in (0 .. Reach(s)) \cap Positions
      BY <1>3
    <3> QED
      BY <3>1
  <2>4. Type(c)
    BY <1>1, <2>1, <2>3 DEF Type, Queue
  <2>5. cursor[c] + 1 >= 0
    BY <1>3
  <2> HIDE DEF op
  <2>6. TerminalInv'
    BY <1>1, <2>1, <2>2, <2>5, KeyKeeps
  <2> QED
    BY <2>4, <2>6
<1>5. CASE Backspace(c)
  <2> DEFINE op == DeleteOp(cursor[c] - 1)
  <2>1. Queue(c, op) /\ cursor[c] # 0 /\ cursor' = [cursor EXCEPT ![c] = cursor[c] - 1]
    BY <1>5 DEF Backspace
  <2>2. op \in Operation(Char) /\ Delta(op) = -1
    BY <1>1, <1>3, <2>1 DEF DeleteOp, Operation, Char, Delta
  <2>3. op \in {DeleteOp(p) : p \in (0 .. Reach(s) - 1) \cap Positions}
    <3>1. cursor[c] - 1 \in (0 .. Reach(s) - 1) \cap Positions
      BY <1>3, <2>1
    <3> QED
      BY <3>1
  <2>4. Type(c)
    BY <1>1, <2>1, <2>3 DEF Type, Queue
  <2>5. cursor[c] + (-1) >= 0 /\ cursor[c] + (-1) = cursor[c] - 1
    BY <1>3, <2>1
  <2> HIDE DEF op
  <2>6. TerminalInv'
    BY <1>1, <1>3, <2>1, <2>2, <2>5, KeyKeeps
  <2> QED
    BY <2>4, <2>6
<1> QED
  BY <1>4, <1>5

\* At first there is nothing to draw but the document.
LEMMA TerminalInitInv ==
  ASSUME TerminalInit
  PROVE  SessionInv /\ TerminalInv
<1>1. SessionInit /\ cursor = [c \in Clients |-> 0] /\ bytes = [c \in Clients |-> BytesOf(client[c].content)]
  BY DEF TerminalInit
<1>2. SessionInv
  BY <1>1, SessionInitInv
<1>3. client \in [Clients -> ClientType] /\ running \subseteq Clients
  BY <1>2 DEF SessionInv, SessionTypeOK
<1>4. \A c \in Clients : BytesOf(client[c].content) \in Seq(Byte) /\ Reach(client[c]) \in Nat
  <2> TAKE c \in Clients
  <2>1. client[c] \in ClientType /\ client[c].content \in Seq(Char)
    BY <1>3 DEF ClientType
  <2> QED
    BY <2>1, BytesOfEncodes, ProjectedWithinReach
<1>5. cursor \in [Clients -> Nat] /\ \A c \in running : cursor[c] <= Reach(client[c])
  BY <1>1, <1>3, <1>4
<1>6. bytes \in [Clients -> Seq(Byte)] /\ \A c \in Clients : bytes[c] = BytesOf(client[c].content)
  BY <1>1, <1>4
<1> QED
  BY <1>2, <1>5, <1>6 DEF TerminalInv

\* Every step of the terminal is a step of the session and leaves the bytes and
\* the cursor right.
LEMMA TerminalStep ==
  ASSUME Positions = Nat, SessionInv, TerminalInv, [TerminalNext]_terminalVars
  PROVE  [SessionNext]_sessionVars /\ SessionInv' /\ TerminalInv'
<1>1. CASE UNCHANGED terminalVars
  <2>1. UNCHANGED sessionVars /\ client' = client /\ running' = running /\ cursor' = cursor /\ bytes' = bytes
    BY <1>1 DEF terminalVars, sessionVars
  <2>2. SessionInv'
    BY <2>1, SessionStep
  <2>3. TerminalInv'
    BY <2>1 DEF TerminalInv
  <2> QED
    BY <2>1, <2>2, <2>3
<1>2. CASE TerminalNext
  <2>1. PICK c \in Clients :
          \/ Insert(c) \/ Backspace(c) \/ Move(c) \/ Drain(c)
          \/ (Quit(c) \/ ServerStep(c)) /\ UNCHANGED <<cursor, bytes>>
    BY <1>2 DEF TerminalNext
  <2>2. CASE Insert(c) \/ Backspace(c)
    <3>1. SessionNext /\ TerminalInv'
      BY <2>2, KeyIsTyped DEF SessionNext
    <3> QED
      BY <3>1, SessionStep
  <2>3. CASE Move(c)
    <3>1. UNCHANGED sessionVars
      BY <2>3 DEF Move
    <3> QED
      BY <2>3, <3>1, SessionStep, MoveKeeps
  <2>4. CASE Drain(c)
    <3>1. SessionNext
      BY <2>4 DEF Drain, SessionNext
    <3>2. SessionInv'
      BY <3>1, SessionStep
    <3> QED
      BY <2>4, <3>1, <3>2, DrainKeeps
  <2>5. CASE (Quit(c) \/ ServerStep(c)) /\ UNCHANGED <<cursor, bytes>>
    <3>1. SessionNext
      BY <2>5 DEF SessionNext
    <3> QED
      BY <2>5, <3>1, SessionStep, OthersKeep
  <2> QED
    BY <2>1, <2>2, <2>3, <2>4, <2>5
<1> QED
  BY <1>1, <1>2

-----------------------------------------------------------------------------
(* Answers *)

\* When the first of what is pending is done, and the text is no shorter than
\* that had it, the length expected is no less.
LEMMA FirstDone ==
  ASSUME NEW pending \in Seq(Item), NEW queue \in Seq(Item),
         Len(pending) = Len(queue) + 1, \A i \in 1 .. Len(queue) : pending[i + 1] = queue[i],
         NEW before \in Seq(Char), NEW after \in Seq(Char),
         Len(after) >= Len(before) + Delta(pending[1].op)
  PROVE  ProjectedLength(BytesOf(before), pending) <= ProjectedLength(BytesOf(after), queue)
<1> DEFINE n == Len(queue)
           d(i) == Delta(pending[i].op)
           start == Len(before)
           next == Len(after)
<1>1. n \in Nat /\ Len(pending) = n + 1 /\ start \in Nat /\ next \in Nat /\ next >= start + d(1)
  OBVIOUS
<1>2. \A i \in 1 .. n + 1 : d(i) \in {-1, 0, 1}
  BY DEF Delta
<1>3. PICK f \in [0 .. Len(pending) -> Int] :
        /\ f[0] = start
        /\ \A i \in 1 .. Len(pending) : f[i] = f[i - 1] + Delta(pending[i].op)
        /\ ProjectedLength(BytesOf(before), pending) = IF f[Len(pending)] < 0 THEN 0 ELSE f[Len(pending)]
  BY ProjectedSteps
<1>4. PICK g \in [0 .. n -> Int] :
        /\ g[0] = next
        /\ \A i \in 1 .. n : g[i] = g[i - 1] + Delta(queue[i].op)
        /\ ProjectedLength(BytesOf(after), queue) = IF g[n] < 0 THEN 0 ELSE g[n]
  BY ProjectedSteps
<1>5. /\ f \in [0 .. n + 1 -> Int]
      /\ \A i \in 1 .. n + 1 : f[i] = f[i - 1] + d(i)
      /\ ProjectedLength(BytesOf(before), pending) = IF f[n + 1] < 0 THEN 0 ELSE f[n + 1]
  BY <1>1, <1>3
<1>6. \A i \in 1 .. n : g[i] = g[i - 1] + d(i + 1)
  BY <1>4
<1> HIDE DEF n, d, start, next
<1> DEFINE T == {m \in Nat : m <= n => f[m + 1] <= g[m]}
<1>7. 0 \in T
  <2>1. f[1] = f[0] + d(1) /\ f[0] = start /\ g[0] = next /\ 0 + 1 = 1
    BY <1>1, <1>3, <1>4, <1>5
  <2> QED
    BY <1>1, <1>2, <2>1
<1>8. ASSUME NEW m \in Nat, m \in T
      PROVE  m + 1 \in T
  <2>1. SUFFICES ASSUME m + 1 <= n PROVE f[(m + 1) + 1] <= g[m + 1]
    OBVIOUS
  <2> DEFINE k == m + 1
             l == k + 1
  <2>2. /\ k \in 1 .. n /\ k - 1 = m /\ m \in 0 .. n /\ l \in 1 .. n + 1 /\ l - 1 = k
        /\ k \in 0 .. n + 1 /\ f[k] <= g[m]
    BY <1>1, <1>8, <2>1
  <2>3. l = k + 1
    OBVIOUS
  <2> HIDE DEF k, l
  <2>4. f[l] = f[k] + d(l)
    BY <1>5, <2>2
  <2>5. g[k] = g[m] + d(l)
    BY <1>6, <2>2, <2>3
  <2>6. f[k] \in Int /\ g[m] \in Int /\ d(l) \in Int
    <3>1. f[k] \in Int
      BY <1>5, <2>2
    <3>2. g[m] \in Int
      BY <1>4, <2>2
    <3>3. d(l) \in {-1, 0, 1}
      BY <1>2, <2>2
    <3> QED
      BY <3>1, <3>2, <3>3
  <2>7. f[l] <= g[k]
    BY <2>2, <2>4, <2>5, <2>6
  <2> QED
    BY <2>7 DEF k, l
<1> HIDE DEF T
<1>9. n \in T
  BY <1>1, <1>7, <1>8, NatSetInduction
<1>10. f[n + 1] <= g[n] /\ f[n + 1] \in Int /\ g[n] \in Int
  <2>1. n + 1 \in 0 .. n + 1 /\ n \in 0 .. n
    BY <1>1
  <2> QED
    BY <1>1, <1>4, <1>5, <1>9, <2>1 DEF T
<1> QED
  BY <1>4, <1>5, <1>10

\* An operation changes the length by no more than one, and only an insertion
\* makes a text longer (ts_apply_operation_to_text).
LEMMA AppliedLength ==
  ASSUME NEW chars \in Seq(Char), NEW op \in Operation(Char)
  PROVE  /\ ApplyOperation(chars, op) \in Seq(Char)
         /\ Len(ApplyOperation(chars, op)) >= Len(chars) - 1
         /\ op.kind = "insert" => Len(ApplyOperation(chars, op)) = Len(chars) + 1
<1>1. ApplyOperation(chars, op) \in Seq(Char)
  BY ApplyOperationType
<1>2. CASE op.kind = "insert"
  <2> DEFINE q == Clamp(op.pos, Len(chars)) + 1
             done == InsertAt(chars, q, op.ch)
  <2>1. q \in 1 .. Len(chars) + 1 /\ op.ch \in Char
    BY <1>2 DEF Clamp, Operation
  <2>2. ApplyOperation(chars, op) = done
    BY <1>2 DEF ApplyOperation
  <2> HIDE DEF q
  <2>3. Len(done) = Len(chars) + 1
    BY <2>1, InsertAtProperties
  <2> HIDE DEF done
  <2> QED
    BY <1>1, <2>2, <2>3
<1>3. CASE op.kind = "delete" /\ op.pos < Len(chars)
  <2> DEFINE q == op.pos + 1
             done == RemoveAt(chars, q)
  <2>1. q \in 1 .. Len(chars)
    BY <1>3 DEF Operation
  <2>2. ApplyOperation(chars, op) = done
    BY <1>3 DEF ApplyOperation
  <2> HIDE DEF q
  <2>3. Len(done) = Len(chars) - 1
    BY <2>1, RemoveAtProperties
  <2> HIDE DEF done
  <2> QED
    BY <1>1, <1>3, <2>2, <2>3
<1>4. CASE op.kind # "insert" /\ ~(op.kind = "delete" /\ op.pos < Len(chars))
  <2>1. ApplyOperation(chars, op) = chars
    BY <1>4 DEF ApplyOperation
  <2> QED
    BY <1>4, <2>1
<1> QED
  BY <1>2, <1>3, <1>4

\* An ACK brings what was in flight into the text, so the client expects no
\* shorter text than before (handle_ack, projected_content_length).
LEMMA AckKeepsLength ==
  ASSUME NEW c, NEW s \in ClientType, NEW m \in ServerMessage, m.type = "ACK",
         NEW n \in Nat, NEW entries, NEW texts, Right(c, m, n, entries, texts), Unaltered(s, n, entries)
  PROVE  ProjectedLength(BytesOf(s.content), Pending(s))
           <= ProjectedLength(BytesOf(HandleMessage(s, m).content), Pending(HandleMessage(s, m)))
<1> DEFINE t == HandleMessage(s, m)
<1>1. CASE t = s
  <2>1. ProjectedLength(BytesOf(s.content), Pending(s)) \in Nat
    BY ProjectedWithinReach
  <2> QED
    BY <1>1, <2>1
<1>2. CASE /\ s.inflight # <<>> /\ s.inflight[1].id = m.id
           /\ Acknowledged(s, m) \in ClientType /\ t = Pump(Acknowledged(s, m))
  <2> DEFINE item == s.inflight[1]
             one == s.inflight
             queue == s.queue
             after == ApplyOperation(s.content, m.op)
  <2>1. one \in Seq(Item) /\ queue \in Seq(Item) /\ s.content \in Seq(Char) /\ Len(one) = 1 /\ item \in Item
    <3>1. one \in Seq(Item) /\ queue \in Seq(Item) /\ s.content \in Seq(Char)
      BY DEF ClientType
    <3> DEFINE l == Len(one)
    <3>2. l <= 1
      BY DEF Unaltered
    <3>3. one # <<>>
      BY <1>2
    <3> HIDE DEF one
    <3>4. l \in Nat \ {0}
      BY <3>1, <3>3, EmptySeq
    <3> HIDE DEF l
    <3>5. l = 1
      BY <3>2, <3>4
    <3>6. Len(one) = 1
      BY <3>5 DEF l
    <3>7. one[1] \in Item
      <4>1. 1 \in 1 .. Len(one)
        BY <3>6
      <4> QED
        BY <3>1, <4>1, ElementOfSeq
    <3> QED
      BY <3>1, <3>6, <3>7 DEF one
  <2>2. m.op \in Operation(Char) /\ m.version \in 1 .. n /\ m.op = entries[m.version].op
        /\ entries[m.version].id = item.id
    BY <1>2 DEF ServerMessage, Right, Done
  <2>3. item.op \in Submission(item.id) /\ (item.op.kind = "insert" => m.op.kind = "insert")
    BY <1>2, <2>2 DEF Unaltered
  <2>4. Acknowledged(s, m).content = after /\ Acknowledged(s, m).inflight = <<>>
        /\ Acknowledged(s, m).queue = queue
    BY DEF Acknowledged, ApplyAuthoritative, ClientType
  <2>5. t.content = after /\ Pending(t) = queue
    <3>1. t.content = after /\ Pending(t) = Pending(Acknowledged(s, m))
      BY <1>2, <2>4, PumpReach
    <3> HIDE DEF queue
    <3>2. <<>> \o queue = queue
      BY <2>1, ConcatEmptySeq
    <3> QED
      BY <2>4, <3>1, <3>2 DEF Pending
  <2> HIDE DEF t, one, queue
  <2> DEFINE pending == one \o queue
  <2>6. /\ pending \in Seq(Item) /\ Len(pending) = Len(one) + Len(queue)
        /\ \A i \in 1 .. Len(one) + Len(queue) :
             pending[i] = IF i <= Len(one) THEN one[i] ELSE queue[i - Len(one)]
    BY <2>1, ConcatProperties
  <2>7. Pending(s) = pending
    BY DEF Pending, one, queue
  <2> HIDE DEF pending
  <2>8. Len(pending) = Len(queue) + 1 /\ pending[1] = item
    <3>1. Len(queue) \in Nat /\ item = one[1]
      BY <2>1 DEF one
    <3> HIDE DEF item
    <3> QED
      BY <2>1, <2>6, <3>1
  <2>9. ASSUME NEW i \in 1 .. Len(queue)
        PROVE  pending[i + 1] = queue[i]
    <3> DEFINE k == i + 1
    <3>1. k \in 1 .. Len(one) + Len(queue) /\ ~(k <= Len(one)) /\ k - Len(one) = i
      BY <2>1
    <3> HIDE DEF k
    <3>2. pending[k] = queue[i]
      BY <2>6, <3>1
    <3> QED
      BY <3>2 DEF k
  <2> HIDE DEF item
  <2>10. after \in Seq(Char) /\ Len(after) >= Len(s.content) + Delta(pending[1].op)
    <3>1. /\ after \in Seq(Char) /\ Len(after) >= Len(s.content) - 1
          /\ m.op.kind = "insert" => Len(after) = Len(s.content) + 1
      BY <2>1, <2>2, AppliedLength
    <3>2. item.op.kind \in {"insert", "delete"}
      BY <2>3 DEF Submission, InsertOp, DeleteOp
    <3>3. Delta(item.op) = IF item.op.kind = "insert" THEN 1 ELSE -1
      BY <3>2 DEF Delta
    <3> DEFINE a == Len(after)
               b == Len(s.content)
               d == Delta(item.op)
    <3>4. b \in Nat /\ a \in Nat
      BY <2>1, <3>1
    <3>5. a >= b - 1 /\ (item.op.kind = "insert" => a = b + 1)
      BY <2>3, <3>1
    <3>6. d = IF item.op.kind = "insert" THEN 1 ELSE -1
      BY <3>3
    <3> HIDE DEF a, b, d
    <3>7. a >= b + d
      BY <3>4, <3>5, <3>6
    <3> QED
      BY <2>8, <3>1, <3>7 DEF a, b, d
  <2> HIDE DEF after
  <2>11. ProjectedLength(BytesOf(s.content), pending) <= ProjectedLength(BytesOf(after), queue)
    BY <2>1, <2>6, <2>8, <2>9, <2>10, FirstDone
  <2> QED
    BY <2>5, <2>7, <2>11 DEF t
<1> QED
  BY <1>1, <1>2, HandleCases

\* The cursor is where the client expects text, before and after an ACK.
LEMMA AckStep ==
  ASSUME SessionInv, TerminalInv, UnalteredInv, [TerminalNext]_terminalVars,
         NEW c \in running, HandlesAck(c), ~Overdrawn(c)
  PROVE  cursor'[c] = cursor[c]
<1>1. /\ client \in [Clients -> ClientType] /\ running \subseteq Clients /\ c \in Clients
      /\ toClient \in [Clients -> Seq(ServerMessage)] /\ version \in Nat
      /\ cursor \in [Clients -> Nat] /\ bytes \in [Clients -> Seq(Byte)]
  BY DEF SessionInv, SessionTypeOK, TypeOK, TerminalInv
<1>2. Len(toClient'[c]) < Len(toClient[c]) /\ Head(toClient[c]).type = "ACK"
  BY DEF HandlesAck
<1>3. CASE toClient' = toClient
  <2>1. Len(toClient[c]) \in Nat /\ Len(toClient[c]) < Len(toClient[c])
    BY <1>1, <1>2, <1>3
  <2> QED
    BY <2>1
<1>4. CASE UNCHANGED terminalVars
  BY <1>4 DEF terminalVars
<1>5. CASE TerminalNext
  <2>1. PICK d \in Clients :
          \/ Insert(d) \/ Backspace(d) \/ Move(d) \/ Drain(d)
          \/ (Quit(d) \/ ServerStep(d)) /\ UNCHANGED <<cursor, bytes>>
    BY <1>5 DEF TerminalNext
  <2>2. CASE Insert(d) \/ Backspace(d) \/ Move(d)
    <3>1. toClient' = toClient
      BY <2>2 DEF Insert, Backspace, Move, Queue, sessionVars
    <3> QED
      BY <1>3, <3>1
  <2>3. CASE UNCHANGED <<cursor, bytes>>
    BY <2>3
  <2>4. CASE Drain(d)
    <3> DEFINE length == ProjectedLength(bytes'[d], Pending(client'[d]))
               m == Head(toClient[d])
               t == HandleMessage(client[d], m)
    <3>1. /\ toClient[d] # <<>> /\ client' = [client EXCEPT ![d] = t]
          /\ bytes' = [bytes EXCEPT ![d] = BytesAfter(d, m)]
          /\ cursor' = [cursor EXCEPT ![d] = IF cursor[d] > length THEN length ELSE cursor[d]]
      BY <2>4 DEF Drain, Handle, ClampCursor
    <3> DEFINE clamped == IF cursor[d] > length THEN length ELSE cursor[d]
    <3> HIDE DEF length
    <3>2. CASE d # c
      <4>1. cursor' = [cursor EXCEPT ![d] = clamped]
        BY <3>1
      <4> HIDE DEF clamped
      <4> QED
        BY <1>1, <3>2, <4>1
    <3>3. CASE d = c
      <4>1. m \in ServerMessage /\ m \in Range(toClient[c]) /\ m.type = "ACK"
        <5>1. toClient[c] \in Seq(ServerMessage)
          BY <1>1
        <5> QED
          BY <1>2, <3>1, <3>3, <5>1, RangeFacts
      <4>2. client[c] \in ClientType /\ Right(c, m, version, log, past) /\ Unaltered(client[c], version, log)
        BY <1>1, <4>1 DEF SessionInv, Carried, UnalteredInv
      <4>3. client'[c] = t
        BY <1>1, <3>1, <3>3
      <4>4. bytes[c] = BytesOf(client[c].content) /\ bytes'[c] = BytesOf(t.content)
        <5>1. bytes[c] = BytesOf(client[c].content)
          BY <1>1 DEF TerminalInv
        <5>2. BytesAfter(c, m) = BytesOf(t.content)
          BY <1>1, <3>3, <4>1, <4>2, <5>1, BytesFollow
        <5> QED
          BY <1>1, <3>1, <3>3, <5>1, <5>2
      <4> HIDE DEF m
      <4>5. ProjectedLength(BytesOf(client[c].content), Pending(client[c]))
              <= ProjectedLength(BytesOf(t.content), Pending(t))
        BY <1>1, <3>3, <4>1, <4>2, AckKeepsLength
      <4>6. /\ t \in ClientType
            /\ ProjectedLength(BytesOf(t.content), Pending(t)) \in Nat
        <5>1. t \in ClientType
          BY <3>3, <4>1, <4>2, HandleType
        <5> HIDE DEF t
        <5> QED
          BY <5>1, ProjectedWithinReach
      <4> HIDE DEF t
      <4>7. /\ ProjectedLength(BytesOf(client[c].content), Pending(client[c])) \in Nat
            /\ Reach(client[c]) \in Nat
            /\ Reach(client[c]) <= ProjectedLength(BytesOf(client[c].content), Pending(client[c]))
        BY <4>2, <4>4, ProjectedWithinReach DEF Overdrawn
      <4>8. cursor[c] \in Nat /\ cursor[c] <= Reach(client[c])
        BY <1>1 DEF TerminalInv
      <4>9. length = ProjectedLength(BytesOf(t.content), Pending(t))
        BY <3>3, <4>3, <4>4 DEF length
      <4>10. ~(cursor[c] > length)
        <5> DEFINE p == ProjectedLength(BytesOf(client[c].content), Pending(client[c]))
                   q == ProjectedLength(BytesOf(t.content), Pending(t))
                   r == Reach(client[c])
        <5>1. p <= q /\ q \in Nat /\ p \in Nat /\ r \in Nat /\ r <= p /\ cursor[c] <= r /\ length = q
          BY <4>5, <4>6, <4>7, <4>8, <4>9
        <5> HIDE DEF p, q, r
        <5> QED
          BY <4>8, <5>1
      <4> QED
        BY <1>1, <3>1, <3>3, <4>10
    <3> QED
      BY <3>2, <3>3
  <2> QED
    BY <2>1, <2>2, <2>3, <2>4
<1> QED
  BY <1>4, <1>5

-----------------------------------------------------------------------------
(* Theorems *)

\* With no bound on positions, for any characters and any number of clients:
\* the bytes of a client's text are the UTF-8 of its characters, and its cursor
\* lies where it may type (ts_utf8_byte_offset, clamp_cursor_to_projected_content).
THEOREM TerminalInvariant ==
  ASSUME Positions = Nat
  PROVE  TerminalSpec => [](SessionInv /\ TerminalInv)
<1>1. TerminalInit => SessionInv /\ TerminalInv
  BY TerminalInitInv
<1>2. (SessionInv /\ TerminalInv) /\ [TerminalNext]_terminalVars => (SessionInv /\ TerminalInv)'
  BY TerminalStep
<1> QED
  BY <1>1, <1>2, PTL DEF TerminalSpec

\* The same for the type invariant: the cursor is never negative and the text
\* a sequence of bytes.
THEOREM TerminalTypeCorrect ==
  ASSUME Positions = Nat
  PROVE  TerminalSpec => []TerminalTypeOK
<1>1. SessionInv /\ TerminalInv => TerminalTypeOK
  BY DEF TerminalInv, TerminalTypeOK, Byte
<1> QED
  BY <1>1, TerminalInvariant, PTL

\* No operation, whatever overtakes it, cuts a character in two or counts bytes
\* for characters (ts_apply_operation_to_text, ts_utf8_byte_offset).
THEOREM TextInBytes ==
  ASSUME Positions = Nat
  PROVE  TerminalSpec => []BytesAreTheText
<1>1. SessionInv /\ TerminalInv => BytesAreTheText
  BY DEF TerminalInv, BytesAreTheText
<1> QED
  BY <1>1, TerminalInvariant, PTL

\* The terminal implements the session: a key edits where the session lets a
\* client type, whatever was handled since the cursor was last looked at
\* (clamp_cursor_to_projected_content), so all that is proved of the session
\* holds of the terminal.
THEOREM TerminalImplementsSession ==
  ASSUME Positions = Nat
  PROVE  TerminalSpec => ImplementsSession
<1>1. TerminalInit => SessionInit
  BY DEF TerminalInit
<1>2. SessionInv /\ TerminalInv /\ [TerminalNext]_terminalVars => [SessionNext]_sessionVars
  BY TerminalStep
<1> QED
  BY <1>1, <1>2, TerminalInvariant, PTL DEF TerminalSpec, ImplementsSession, SessionSpec

\* With no bound on positions, for any characters and any number of clients:
\* an ACK, whatever the server made of the operation and however many ACKs or
\* remote operations came before, leaves the cursor alone, but when more
\* deletions are pending than there are characters (handle_ack,
\* clamp_cursor_to_projected_content).
THEOREM AcksMoveNoCursor ==
  ASSUME Positions = Nat
  PROVE  TerminalSpec => AnAckMovesNoCursor
<1>1. SessionInv /\ TerminalInv /\ UnalteredInv /\ [TerminalNext]_terminalVars
        => [\A c \in running : HandlesAck(c) /\ ~ Overdrawn(c) => cursor'[c] = cursor[c]]_terminalVars
  BY AckStep
<1>2. TerminalSpec => []UnalteredInv
  BY TerminalImplementsSession, UnalteredInvariant, PTL DEF ImplementsSession
<1> QED
  BY <1>1, <1>2, TerminalInvariant, PTL DEF TerminalSpec, AnAckMovesNoCursor

================================================================================
