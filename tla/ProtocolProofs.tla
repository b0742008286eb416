--------------------------- MODULE ProtocolProofs ---------------------------
(***************************************************************************)
(* From the stream of a connection to messages.                            *)
(*   Framing, for any messages, sizes of read and buffer, as long as a     *)
(*     record arrives whole: the cells in the Buffer, in OpenSSL and in    *)
(*     the socket are one run of the stream, and what is queued is all     *)
(*     before it.                                                          *)
(*   Wire, for any length of a tail: what a serializer leaves at each      *)
(*     offset is what a deserializer that goes over the same fields finds  *)
(*     there, and the fields of each message are as long as its macro.     *)
(***************************************************************************)
EXTENDS Framing, Wire, SequenceTheorems, WellFoundedInduction, TLAPS

LEMMA LeastOf ==
  ASSUME NEW S \in SUBSET Nat, S # {}
  PROVE  \E x \in S : \A y \in S : x <= y
  <1>1. \E x \in S : \A y \in S : ~(<<y, x>> \in OpToRel(<, Nat))
    BY NatLessThanWellFounded, WFMin
  <1>2. \A x, y \in Nat : ~(<<y, x>> \in OpToRel(<, Nat)) => x <= y
    BY DEF OpToRel
  <1> QED
    BY <1>1, <1>2

-----------------------------------------------------------------------------
(* Runs of the stream *)

Cells == Nat \X Nat
PduLen(p) == FHeader + FBodies[p]
IsCell(c) == c = <<c[1], c[2]>> /\ c[1] \in 1..Len(FBodies) /\ c[2] \in 1..PduLen(c[1])

\* The cell that follows c in the stream, and the first of a PDU.
After(c) == IF c[2] = PduLen(c[1]) THEN <<c[1] + 1, 1>> ELSE <<c[1], c[2] + 1>>
Start(p) == <<p, 1>>

\* s is what the stream has from a on, up to the cell before b.
Run(s, a, b) ==
  /\ s \in Seq(Cells)
  /\ \A k \in 1..Len(s) : IsCell(s[k])
  /\ \A k \in 1..Len(s) : k > 1 => s[k] = After(s[k - 1])
  /\ Len(s) = 0 => b = a
  /\ Len(s) > 0 => s[1] = a /\ b = After(s[Len(s)])

LEMMA PduLenType ==
  ASSUME NEW p \in 1..Len(FBodies)
  PROVE  PduLen(p) \in Nat /\ PduLen(p) >= 2 /\ FBodies[p] \in Nat /\ p \in Nat
  <1>1. FBodies \in Seq(Nat)
    BY FramingAssumption
  <1>2. FBodies[p] \in Nat /\ p \in Nat
    BY <1>1
  <1> QED
    BY <1>2 DEF PduLen, FHeader

LEMMA EmptyRun ==
  ASSUME NEW a
  PROVE  Run(<<>>, a, a)
  <1>1. <<>> \in Seq(Cells) /\ Len(<<>>) = 0
    OBVIOUS
  <1>2. \A k \in 1..0 : FALSE
    OBVIOUS
  <1> QED
    BY <1>1, <1>2 DEF Run

\* A PDU is the run from its first cell to the next one's.
LEMMA PduIsRun ==
  ASSUME NEW p \in 1..Len(FBodies)
  PROVE  Run(FPdu(p), Start(p), Start(p + 1)) /\ Len(FPdu(p)) = PduLen(p)
  <1> DEFINE n == PduLen(p)
  <1>1. n \in Nat /\ n >= 2 /\ p \in Nat
    BY PduLenType
  <1>2. FPdu(p) = [i \in 1..n |-> <<p, i>>]
    BY DEF FPdu, PduLen
  <1> HIDE DEF n
  <1>3. \A i \in 1..n : <<p, i>> \in Cells
    BY <1>1 DEF Cells
  <1>4. FPdu(p) \in Seq(Cells) /\ Len(FPdu(p)) = n
    BY <1>1, <1>2, <1>3
  <1>5. \A i \in 1..n : FPdu(p)[i] = <<p, i>>
    BY <1>2
  <1>6. \A i \in 1..n : IsCell(FPdu(p)[i])
    BY <1>5 DEF IsCell, n
  <1>7. \A i \in 1..n : i > 1 => FPdu(p)[i] = After(FPdu(p)[i - 1])
    <2> SUFFICES ASSUME NEW i \in 1..n, i > 1 PROVE FPdu(p)[i] = After(FPdu(p)[i - 1])
      OBVIOUS
    <2>1. i - 1 \in 1..n /\ i - 1 # n /\ (i - 1) + 1 = i
      BY <1>1
    <2>2. FPdu(p)[i] = <<p, i>> /\ FPdu(p)[i - 1] = <<p, i - 1>>
      BY <1>5, <2>1
    <2> QED
      BY <2>1, <2>2 DEF After, n
  <1>8. FPdu(p)[1] = Start(p) /\ Start(p + 1) = After(FPdu(p)[n])
    <2>1. 1 \in 1..n /\ n \in 1..n
      BY <1>1
    <2> QED
      BY <1>5, <2>1 DEF Start, After, n
  <1> QED
    BY <1>1, <1>4, <1>6, <1>7, <1>8 DEF Run, n

LEMMA RunsJoin ==
  ASSUME NEW s, NEW t, NEW a, NEW b, NEW c, Run(s, a, b), Run(t, b, c)
  PROVE  Run(s \o t, a, c)
  <1> DEFINE u == s \o t
  <1> DEFINE m == Len(s)
  <1> DEFINE n == Len(t)
  <1>1. s \in Seq(Cells) /\ t \in Seq(Cells) /\ m \in Nat /\ n \in Nat
    BY DEF Run
  <1>2. /\ u \in Seq(Cells) /\ Len(u) = m + n
        /\ \A k \in 1..m : u[k] = s[k]
        /\ \A k \in 1..(m + n) : k > m => k - m \in 1..n /\ u[k] = t[k - m]
    BY <1>1
  <1> HIDE DEF u
  <1>3. /\ \A k \in 1..m : IsCell(s[k]) /\ (k > 1 => s[k] = After(s[k - 1]))
        /\ \A k \in 1..n : IsCell(t[k]) /\ (k > 1 => t[k] = After(t[k - 1]))
        /\ m = 0 => b = a
        /\ m > 0 => s[1] = a /\ b = After(s[m])
        /\ n = 0 => c = b
        /\ n > 0 => t[1] = b /\ c = After(t[n])
    BY DEF Run
  <1> HIDE DEF m, n
  <1>4. ASSUME NEW k \in 1..(m + n) PROVE IsCell(u[k]) /\ (k > 1 => u[k] = After(u[k - 1]))
    <2>1. CASE k <= m
      <3>1. k \in 1..m /\ (k > 1 => k - 1 \in 1..m)
        BY <1>1, <2>1
      <3> QED
        BY <1>2, <1>3, <3>1
    <2>2. CASE k = m + 1
      <3>1. k - m = 1 /\ 1 \in 1..n /\ n > 0 /\ k > m /\ k - 1 = m
        BY <1>1, <2>2
      <3>2. u[k] = t[1] /\ t[1] = b /\ IsCell(t[1])
        BY <1>2, <1>3, <3>1
      <3>3. ASSUME k > 1 PROVE u[k] = After(u[k - 1])
        <4>1. m > 0 /\ m \in 1..m
          BY <1>1, <2>2, <3>3
        <4> QED
          BY <1>2, <1>3, <3>1, <3>2, <4>1
      <3> QED
        BY <3>2, <3>3
    <2>3. CASE k > m + 1
      <3>1. /\ k > m /\ k - 1 > m /\ k - 1 \in 1..(m + n) /\ k - m > 1
            /\ (k - 1) - m = (k - m) - 1
        BY <1>1, <2>3
      <3>2. k - m \in 1..n /\ u[k] = t[k - m] /\ u[k - 1] = t[(k - m) - 1]
        BY <1>2, <3>1
      <3> QED
        BY <1>3, <3>1, <3>2
    <2>4. k <= m \/ k = m + 1 \/ k > m + 1
      BY <1>1
    <2> QED
      BY <2>1, <2>2, <2>3, <2>4
  <1>5. ASSUME m + n = 0 PROVE c = a
    <2>1. m = 0 /\ n = 0
      BY <1>1, <1>5
    <2> QED
      BY <1>3, <2>1
  <1>6. ASSUME m + n > 0 PROVE u[1] = a /\ c = After(u[m + n])
    <2>1. CASE m = 0
      <3>1. n > 0 /\ 1 \in 1..(m + n) /\ 1 > m /\ 1 - m = 1
            /\ m + n \in 1..(m + n) /\ m + n > m /\ (m + n) - m = n
        BY <1>1, <1>6, <2>1
      <3>2. u[1] = t[1] /\ u[m + n] = t[n]
        BY <1>2, <3>1
      <3> QED
        BY <1>3, <2>1, <3>1, <3>2
    <2>2. CASE m > 0
      <3>1. u[1] = a
        BY <1>1, <1>2, <1>3, <2>2
      <3>2. CASE n = 0
        <4>1. m + n = m /\ m \in 1..m
          BY <1>1, <2>2, <3>2
        <4> QED
          BY <1>2, <1>3, <2>2, <3>1, <3>2, <4>1
      <3>3. CASE n > 0
        <4>1. m + n \in 1..(m + n) /\ m + n > m /\ (m + n) - m = n
          BY <1>1, <3>3
        <4> QED
          BY <1>2, <1>3, <3>1, <3>3, <4>1
      <3> QED
        BY <1>1, <3>2, <3>3
    <2> QED
      BY <1>1, <2>1, <2>2
  <1> QED
    BY <1>2, <1>4, <1>5, <1>6 DEF Run, u

\* The cells from i on to j.
LEMMA PartIs ==
  ASSUME NEW S, NEW s \in Seq(S), NEW i \in Nat, NEW j \in Nat, i <= j, j <= Len(s)
  PROVE  LET t == SubSeq(s, i + 1, j)
         IN  t \in Seq(S) /\ Len(t) = j - i /\ \A k \in 1..(j - i) : t[k] = s[i + k]
  OBVIOUS

LEMMA RunSplits ==
  ASSUME NEW s, NEW a, NEW c, Run(s, a, c), NEW n \in 0..Len(s)
  PROVE  LET b == IF n = 0 THEN a ELSE After(s[n])
         IN  Run(SubSeq(s, 1, n), a, b) /\ Run(SubSeq(s, n + 1, Len(s)), b, c)
  <1> DEFINE m == Len(s)
  <1> DEFINE u == SubSeq(s, 1, n)
  <1> DEFINE v == SubSeq(s, n + 1, m)
  <1> DEFINE b == IF n = 0 THEN a ELSE After(s[n])
  <1>1. s \in Seq(Cells) /\ m \in Nat /\ n \in Nat /\ n <= m
    BY DEF Run
  <1>2. u \in Seq(Cells) /\ Len(u) = n /\ \A k \in 1..n : u[k] = s[k]
    BY <1>1
  <1>3. v \in Seq(Cells) /\ Len(v) = m - n /\ \A k \in 1..(m - n) : v[k] = s[n + k]
    BY <1>1, PartIs
  <1> HIDE DEF u, v
  <1>4. /\ \A k \in 1..m : IsCell(s[k]) /\ (k > 1 => s[k] = After(s[k - 1]))
        /\ m = 0 => c = a
        /\ m > 0 => s[1] = a /\ c = After(s[m])
    BY DEF Run
  <1> HIDE DEF m
  <1>5. Run(u, a, b)
    <2>1. \A k \in 1..n : k \in 1..m /\ (k > 1 => k - 1 \in 1..n)
      BY <1>1
    <2>2. \A k \in 1..n : IsCell(u[k]) /\ (k > 1 => u[k] = After(u[k - 1]))
      BY <1>2, <1>4, <2>1
    <2>3. n > 0 => m > 0 /\ 1 \in 1..n /\ n \in 1..n /\ n # 0
      BY <1>1
    <2>4. n > 0 => u[1] = a /\ b = After(u[n])
      BY <1>2, <1>4, <2>3
    <2> QED
      BY <1>2, <2>2, <2>4 DEF Run
  <1>6. Run(v, b, c)
    <2>2. ASSUME NEW k \in 1..(m - n) PROVE IsCell(v[k]) /\ (k > 1 => v[k] = After(v[k - 1]))
      <3>0. n + k \in 1..m /\ n + k \in Nat
        BY <1>1
      <3>1. v[k] = s[n + k] /\ n + k \in 1..m /\ IsCell(s[n + k])
        BY <1>3, <1>4, <3>0
      <3>2. ASSUME k > 1 PROVE v[k] = After(v[k - 1])
        <4>1. k - 1 \in 1..(m - n) /\ n + (k - 1) = (n + k) - 1 /\ n + k > 1
          BY <1>1, <3>2
        <4>2. v[k - 1] = s[(n + k) - 1] /\ s[n + k] = After(s[(n + k) - 1])
          BY <1>3, <1>4, <3>1, <4>1
        <4> QED
          BY <3>1, <4>2
      <3> QED
        BY <3>1, <3>2
    <2>3. ASSUME m - n = 0 PROVE c = b
      <3>1. m = n /\ (n = 0 \/ m > 0)
        BY <1>1, <2>3
      <3> QED
        BY <1>4, <3>1
    <2>4. ASSUME m - n > 0 PROVE v[1] = b /\ c = After(v[m - n])
      <3>1. /\ m > 0 /\ 1 \in 1..(m - n) /\ m - n \in 1..(m - n) /\ n + (m - n) = m
            /\ n + 1 \in 1..m /\ (n + 1) - 1 = n /\ (n = 0 \/ n + 1 > 1)
        BY <1>1, <2>4
      <3>2. v[1] = s[n + 1] /\ v[m - n] = s[m]
        BY <1>3, <3>1
      <3>3. c = After(v[m - n])
        BY <1>4, <3>1, <3>2
      <3>4. CASE n = 0
        <4>1. n + 1 = 1
          BY <3>4
        <4>2. v[1] = a /\ b = a
          BY <1>4, <3>1, <3>2, <3>4, <4>1
        <4> QED
          BY <3>3, <4>2
      <3>5. CASE n # 0
        <4>1. s[n + 1] = After(s[n]) /\ b = After(s[n])
          BY <1>4, <3>1, <3>5
        <4> QED
          BY <3>2, <3>3, <4>1
      <3> QED
        BY <3>4, <3>5
    <2> QED
      BY <1>3, <2>2, <2>3, <2>4 DEF Run
  <1> QED
    BY <1>5, <1>6 DEF u, v, m

LEMMA SeqsEqual ==
  ASSUME NEW S, NEW s \in Seq(S), NEW t \in Seq(S), Len(s) = Len(t),
         \A k \in 1..Len(s) : s[k] = t[k]
  PROVE  s = t
  OBVIOUS

\* A run from the start of a PDU is that PDU as far as it goes.
LEMMA RunIsPdu ==
  ASSUME NEW s, NEW p \in Nat, NEW c, Run(s, Start(p), c)
  PROVE  /\ Len(s) > 0 => p \in 1..Len(FBodies)
         /\ \A i \in 1..Len(s) : i <= PduLen(p) => s[i] = <<p, i>>
  <1> DEFINE m == Len(s)
  <1>1. /\ m \in Nat
        /\ \A k \in 1..m : IsCell(s[k]) /\ (k > 1 => s[k] = After(s[k - 1]))
        /\ m > 0 => s[1] = Start(p)
    BY DEF Run
  <1> HIDE DEF m
  <1>2. ASSUME m > 0 PROVE p \in 1..Len(FBodies)
    <2>1. 1 \in 1..m /\ s[1] = <<p, 1>> /\ IsCell(s[1])
      BY <1>1, <1>2 DEF Start
    <2> QED
      BY <2>1 DEF IsCell
  <1> DEFINE bad == {i \in 1..m : i <= PduLen(p) /\ s[i] # <<p, i>>}
  <1>3. bad = {}
    <2> SUFFICES ASSUME bad # {} PROVE FALSE
      OBVIOUS
    <2>1. bad \in SUBSET Nat
      OBVIOUS
    <2>2. PICK i \in bad : \A y \in bad : i <= y
      BY <2>1, LeastOf
    <2>3. i \in 1..m /\ i <= PduLen(p) /\ s[i] # <<p, i>> /\ m > 0
      BY <1>1
    <2>4. PduLen(p) \in Nat
      BY <1>2, <2>3, PduLenType
    <2>5. i # 1
      BY <1>1, <2>3 DEF Start
    <2>6. i > 1 /\ i - 1 \in 1..m /\ i - 1 <= PduLen(p) /\ i - 1 # PduLen(p) /\ (i - 1) + 1 = i
      BY <1>1, <2>3, <2>4, <2>5
    <2>7. s[i - 1] = <<p, i - 1>>
      <3>1. i - 1 \notin bad
        BY <2>2, <2>3
      <3> QED
        BY <2>6, <3>1
    <2>8. s[i] = After(<<p, i - 1>>)
      BY <1>1, <2>3, <2>6, <2>7
    <2>9. After(<<p, i - 1>>) = <<p, i>>
      BY <2>6 DEF After
    <2> QED
      BY <2>3, <2>8, <2>9
  <1> QED
    BY <1>2, <1>3 DEF m

-----------------------------------------------------------------------------
(* Cutting *)

\* Between two cuts: what has been cut off are the PDUs after the first q, and what
\* is left is a run that starts with the next one.
Cutting(mem, q, read, end, c, acc) ==
  /\ acc = [at |-> acc.at, pdus |-> acc.pdus]
  /\ acc.at \in read..end
  /\ acc.pdus \in Seq(Seq(Cells))
  /\ \A j \in 1..Len(acc.pdus) : acc.pdus[j] = FPdu(q + j)
  /\ q + Len(acc.pdus) <= Len(FBodies)
  /\ Run(SubSeq(mem, acc.at + 1, end), Start(q + Len(acc.pdus) + 1), c)

LEMMA CutOneIs ==
  ASSUME NEW mem \in Seq(Cells), NEW q \in Nat, NEW read \in Nat, NEW end \in Nat,
         end <= Len(mem), NEW c, NEW acc, Cutting(mem, q, read, end, c, acc)
  PROVE  /\ Cutting(mem, q, read, end, c, CutOne(mem, end, acc))
         /\ ~Whole(mem, acc.at, end) => CutOne(mem, end, acc) = acc
         /\ Whole(mem, acc.at, end) => Len(CutOne(mem, end, acc).pdus) = Len(acc.pdus) + 1
         /\ Whole(mem, acc.at, end) => q + Len(acc.pdus) < Len(FBodies)
  <1>1. CASE ~Whole(mem, acc.at, end)
    BY <1>1 DEF CutOne
  <1>2. CASE Whole(mem, acc.at, end)
    <2> DEFINE at == acc.at
    <2> DEFINE s == SubSeq(mem, at + 1, end)
    <2> DEFINE l == Len(acc.pdus)
    <2> DEFINE p == q + l + 1
    <2> DEFINE n == PduLen(p)
    <2> DEFINE cell == mem[at + 1]
    <2> DEFINE piece == SubSeq(mem, at + 1, at + n)
    <2>1. /\ acc = [at |-> at, pdus |-> acc.pdus] /\ at \in read..end /\ acc.pdus \in Seq(Seq(Cells))
          /\ \A j \in 1..l : acc.pdus[j] = FPdu(q + j)
          /\ q + l <= Len(FBodies) /\ Run(s, Start(p), c)
      BY DEF Cutting
    <2>2. at \in Nat /\ at <= end /\ l \in Nat /\ p \in Nat
      BY <2>1
    <2>3. s \in Seq(Cells) /\ Len(s) = end - at /\ \A k \in 1..(end - at) : s[k] = mem[at + k]
      <3>1. mem \in Seq(Cells) /\ at \in Nat /\ end \in Nat /\ at <= end /\ end <= Len(mem)
        BY <2>2
      <3> HIDE DEF at
      <3> QED
        BY ONLY <3>1, PartIs DEF s
    <2> HIDE DEF at, s, l, p, n
    <2>4. end - at >= 2 /\ end - at >= FHeader + FBodies[cell[1]]
      BY <1>2 DEF Whole, FHeader, at
    <2>5. end - at \in Nat /\ 1 \in 1..(end - at) /\ Len(s) > 0
      BY <2>2, <2>3, <2>4
    <2>6. p \in 1..Len(FBodies) /\ \A i \in 1..Len(s) : i <= n => s[i] = <<p, i>>
      BY <2>1, <2>2, <2>5, RunIsPdu DEF n
    <2>7. n \in Nat /\ n >= 2
      BY <2>6, PduLenType DEF n
    <2>8. cell = <<p, 1>> /\ cell[1] = p
      BY <2>3, <2>5, <2>6, <2>7
    <2>9. n <= end - at /\ at + n <= end /\ at + n \in Nat /\ n \in 0..Len(s) /\ n # 0 /\ n \in 1..Len(s)
      BY <2>2, <2>3, <2>4, <2>7, <2>8, SMTT(20) DEF n, PduLen
    <2>10. at + n <= Len(mem) /\ at <= at + n /\ (at + n) - at = n
      BY <2>2, <2>7, <2>9
    <2>11. piece \in Seq(Cells) /\ Len(piece) = n /\ \A k \in 1..n : piece[k] = mem[at + k]
      <3>1. /\ piece \in Seq(Cells) /\ Len(piece) = (at + n) - at
            /\ \A k \in 1..((at + n) - at) : piece[k] = mem[at + k]
        BY <2>2, <2>9, <2>10, PartIs
      <3> QED
        BY <2>10, <3>1
    <2> HIDE DEF piece, cell
    <2>12. piece = FPdu(p)
      <3>1. FPdu(p) \in Seq(Cells) /\ Len(FPdu(p)) = n
        BY <2>6, PduIsRun DEF Run, n
      <3>2. \A k \in 1..n : FPdu(p)[k] = <<p, k>>
        BY DEF FPdu, n, PduLen
      <3>3. \A k \in 1..n : k \in 1..(end - at) /\ k \in 1..Len(s) /\ k <= n
        BY <2>2, <2>3, <2>7, <2>9
      <3>4. \A k \in 1..n : piece[k] = FPdu(p)[k]
        BY <2>3, <2>6, <2>11, <3>2, <3>3
      <3> QED
        BY <2>11, <3>1, <3>4, SeqsEqual
    <2> DEFINE next == CutOne(mem, end, acc)
    <2>13. next = [at |-> at + n, pdus |-> Append(acc.pdus, piece)]
      BY <1>2, <2>8 DEF CutOne, at, n, PduLen, cell, piece
    <2> HIDE DEF next
    <2>14. next.at = at + n /\ next.pdus = Append(acc.pdus, piece)
      BY <2>13
    <2>15. /\ next.pdus \in Seq(Seq(Cells)) /\ Len(next.pdus) = l + 1
           /\ next.pdus[l + 1] = piece /\ \A j \in 1..l : next.pdus[j] = acc.pdus[j]
      BY <2>1, <2>11, <2>14 DEF l
    <2>16. \A j \in 1..(l + 1) : next.pdus[j] = FPdu(q + j)
      <3>1. \A j \in 1..(l + 1) : j \in 1..l \/ (j = l + 1 /\ q + j = p)
        BY <2>2 DEF p
      <3> QED
        BY <2>1, <2>12, <2>15, <3>1
    <2> DEFINE rest == SubSeq(mem, at + n + 1, end)
    <2>17. Run(rest, Start(p + 1), c)
      <3> DEFINE v == SubSeq(s, n + 1, Len(s))
      <3>1. Run(v, After(s[n]), c)
        BY <2>1, <2>9, RunSplits
      <3>2. After(s[n]) = Start(p + 1)
        BY <2>6, <2>9 DEF After, Start, n
      <3>3. v \in Seq(Cells) /\ Len(v) = Len(s) - n /\ \A k \in 1..(Len(s) - n) : v[k] = s[n + k]
        BY <2>3, <2>7, <2>9, PartIs
      <3>4. /\ rest \in Seq(Cells) /\ Len(rest) = end - (at + n)
            /\ \A k \in 1..(end - (at + n)) : rest[k] = mem[(at + n) + k]
        BY <2>9, PartIs
      <3> HIDE DEF v, rest
      <3>5. Len(s) - n = end - (at + n)
        BY <2>2, <2>3, <2>7
      <3>6. ASSUME NEW k \in 1..(Len(s) - n) PROVE v[k] = rest[k]
        <4>1. n + k \in 1..(end - at) /\ at + (n + k) = (at + n) + k
          BY <2>2, <2>3, <2>7
        <4> QED
          BY <2>3, <3>3, <3>4, <3>5, <4>1
      <3>7. v = rest
        BY <3>3, <3>4, <3>5, <3>6, SeqsEqual
      <3> QED
        BY <3>1, <3>2, <3>7
    <2>18. q + (l + 1) <= Len(FBodies) /\ q + l < Len(FBodies)
      <3>1. Len(FBodies) \in Nat
        BY FramingAssumption
      <3> QED
        BY <2>2, <2>6, <3>1 DEF p
    <2>19. at + n \in read..end
      BY <2>1, <2>2, <2>7, <2>9, SMTT(20)
    <2>20. q + (l + 1) + 1 = p + 1
      BY <2>2 DEF p
    <2>21. Cutting(mem, q, read, end, c, next)
      BY <2>13, <2>14, <2>15, <2>16, <2>17, <2>18, <2>19, <2>20 DEF Cutting
    <2> QED
      BY <1>2, <2>15, <2>18, <2>21 DEF next, l
  <1> QED
    BY <1>1, <1>2

Cuts(g, s0, M, mem, end) ==
  g = [k \in 0..M |-> IF k = 0 THEN s0 ELSE CutOne(mem, end, g[k - 1])]

LEMMA CutsExist ==
  ASSUME NEW s0, NEW M \in Nat, NEW mem, NEW end
  PROVE  \E g : Cuts(g, s0, M, mem, end)
  <1> DEFINE Is(g, n) == g = [k \in 0..n |-> IF k = 0 THEN s0 ELSE CutOne(mem, end, g[k - 1])]
  <1> DEFINE bad == {n \in Nat : ~\E g : Is(g, n)}
  <1>1. SUFFICES ASSUME bad # {} PROVE FALSE
    BY <1>1 DEF Cuts
  <1>2. PICK n \in bad : \A y \in bad : n <= y
    BY <1>1, LeastOf
  <1>3. n # 0
    <2>1. Is([k \in 0..0 |-> s0], 0)
      OBVIOUS
    <2> QED
      BY <2>1
  <1>4. n - 1 \in Nat /\ n - 1 \notin bad
    BY <1>2, <1>3, SMTT(20)
  <1>5. PICK f : Is(f, n - 1)
    BY <1>4
  <1> DEFINE g == [k \in 0..n |-> IF k = n THEN CutOne(mem, end, f[n - 1]) ELSE f[k]]
  <1>6. Is(g, n)
    <2>1. /\ DOMAIN f = 0..(n - 1) /\ f[0] = s0
          /\ \A k \in 1..(n - 1) : f[k] = CutOne(mem, end, f[k - 1])
      BY <1>4, <1>5
    <2>2. g[0] = s0 /\ g[n] = CutOne(mem, end, f[n - 1]) /\ \A k \in 0..(n - 1) : g[k] = f[k]
      BY <1>3, <1>4, <2>1
    <2>3. ASSUME NEW k \in 0..n, k # 0 PROVE g[k] = CutOne(mem, end, g[k - 1])
      <3>1. k - 1 \in 0..(n - 1) /\ g[k - 1] = f[k - 1]
        BY <1>4, <2>2, <2>3
      <3>2. CASE k = n
        BY <2>2, <3>1, <3>2
      <3>3. CASE k # n
        <4>1. k \in 1..(n - 1) /\ k \in 0..(n - 1)
          BY <1>4, <2>3, <3>3
        <4> QED
          BY <2>1, <2>2, <3>1, <4>1
      <3> QED
        BY <3>2, <3>3
    <2>4. g = [k \in 0..n |-> g[k]]
      OBVIOUS
    <2> HIDE DEF g
    <2> QED
      BY <2>2, <2>3, <2>4
  <1> QED
    BY <1>6 DEF Cuts

\* Cut takes off whole PDUs in order, and leaves no whole one.
LEMMA CutIs ==
  ASSUME NEW mem \in Seq(Cells), NEW q \in 0..Len(FBodies), NEW read \in Nat, NEW avail \in Nat,
         read + avail <= Len(mem), NEW c,
         Run(SubSeq(mem, read + 1, read + avail), Start(q + 1), c)
  PROVE  LET r == Cut(mem, read, avail)
         IN  Cutting(mem, q, read, read + avail, c, r) /\ ~Whole(mem, r.at, read + avail)
  <1> DEFINE M == Len(FBodies)
  <1> DEFINE end == read + avail
  <1> DEFINE s0 == [at |-> read, pdus |-> <<>>]
  <1> DEFINE t == CHOOSE g : g = [k \in 0..M |-> IF k = 0 THEN s0 ELSE CutOne(mem, end, g[k - 1])]
  <1>1. M \in Nat /\ q \in Nat /\ q <= M /\ end \in Nat
    BY FramingAssumption
  <1>2. Cut(mem, read, avail) = t[M]
    BY DEF Cut
  <1>3. t = [k \in 0..M |-> IF k = 0 THEN s0 ELSE CutOne(mem, end, t[k - 1])]
    <2> HIDE DEF M, end, s0
    <2>1. \E g : Cuts(g, s0, M, mem, end)
      BY <1>1, CutsExist
    <2> QED
      BY <2>1 DEF t, Cuts
  <1> HIDE DEF t
  <1>4. t[0] = s0 /\ \A k \in 1..M : t[k] = CutOne(mem, end, t[k - 1])
    <2> HIDE DEF s0, M, end
    <2>1. \A k \in 0..M : t[k] = IF k = 0 THEN s0 ELSE CutOne(mem, end, t[k - 1])
      BY <1>3
    <2>2. 0 \in 0..M /\ \A k \in 1..M : k \in 0..M /\ k # 0
      BY <1>1
    <2> QED
      BY <2>1, <2>2
  <1>5. Cutting(mem, q, read, end, c, s0)
    <2>1. s0.at = read /\ s0.pdus = <<>> /\ Len(s0.pdus) = 0 /\ s0.pdus \in Seq(Seq(Cells))
      OBVIOUS
    <2>2. read \in read..end /\ q + 0 + 1 = q + 1 /\ q + 0 <= M
      BY <1>1
    <2>3. \A j \in 1..0 : FALSE
      OBVIOUS
    <2>4. s0 = [at |-> s0.at, pdus |-> s0.pdus]
      OBVIOUS
    <2> HIDE DEF s0
    <2> QED
      BY <2>1, <2>2, <2>3, <2>4 DEF Cutting
  <1> DEFINE Good(k) == /\ Cutting(mem, q, read, end, c, t[k])
                        /\ ~Whole(mem, t[k].at, end) \/ Len(t[k].pdus) >= k
  <1> DEFINE bad == {k \in 0..M : ~Good(k)}
  <1>6. bad = {}
    <2>1. SUFFICES ASSUME bad # {} PROVE FALSE
      BY <2>1
    <2>2. bad \in SUBSET Nat
      OBVIOUS
    <2>3. PICK k \in bad : \A y \in bad : k <= y
      BY <2>1, <2>2, LeastOf
    <2>4. k # 0
      BY <1>4, <1>5
    <2>5. k \in 1..M /\ k - 1 \in 0..M /\ k - 1 \in Nat
      BY <1>1, <2>4
    <2>6. Good(k - 1)
      BY <2>3, <2>5, SMTT(20)
    <2>7. t[k] = CutOne(mem, end, t[k - 1])
      BY <1>4, <2>5
    <2>8. end <= Len(mem)
      OBVIOUS
    <2> HIDE DEF end, M
    <2>9. /\ Cutting(mem, q, read, end, c, t[k])
          /\ ~Whole(mem, t[k - 1].at, end) => t[k] = t[k - 1]
          /\ Whole(mem, t[k - 1].at, end) => Len(t[k].pdus) = Len(t[k - 1].pdus) + 1
      <3> DEFINE acc == t[k - 1]
      <3>1. Cutting(mem, q, read, end, c, acc) /\ q \in Nat /\ end \in Nat
        BY <1>1, <2>6
      <3> HIDE DEF acc, Good
      <3>2. /\ Cutting(mem, q, read, end, c, CutOne(mem, end, acc))
            /\ ~Whole(mem, acc.at, end) => CutOne(mem, end, acc) = acc
            /\ Whole(mem, acc.at, end) => Len(CutOne(mem, end, acc).pdus) = Len(acc.pdus) + 1
        BY <2>8, <3>1, CutOneIs
      <3> QED
        BY <2>7, <3>2 DEF acc
    <2>10. ~Whole(mem, t[k].at, end) \/ Len(t[k].pdus) >= k
      <3>1. CASE ~Whole(mem, t[k - 1].at, end)
        BY <2>9, <3>1
      <3>2. CASE Whole(mem, t[k - 1].at, end)
        <4>1. Len(t[k - 1].pdus) >= k - 1 /\ Len(t[k].pdus) = Len(t[k - 1].pdus) + 1
          BY <2>6, <2>9, <3>2
        <4>2. Len(t[k - 1].pdus) \in Nat
          BY <2>6 DEF Cutting
        <4> QED
          BY <2>5, <4>1, <4>2
      <3> QED
        BY <3>1, <3>2
    <2>11. Good(k)
      BY <2>9, <2>10
    <2> QED
      BY <2>3, <2>11
  <1>7. Good(M)
    BY <1>1, <1>6
  <1>8. ~Whole(mem, t[M].at, end)
    <2> SUFFICES ASSUME Whole(mem, t[M].at, end) PROVE FALSE
      OBVIOUS
    <2>1. Len(t[M].pdus) >= M /\ Cutting(mem, q, read, end, c, t[M])
      BY <1>7
    <2>2. end <= Len(mem)
      OBVIOUS
    <2> HIDE DEF end, M
    <2>3. q + Len(t[M].pdus) < Len(FBodies)
      BY <1>1, <2>1, <2>2, CutOneIs
    <2>4. Len(t[M].pdus) \in Nat
      BY <2>1 DEF Cutting
    <2> QED
      BY <1>1, <2>1, <2>3, <2>4 DEF M
  <1> QED
    BY <1>2, <1>7, <1>8

-----------------------------------------------------------------------------
(* The Buffer *)

LEMMA SubSeqIs ==
  ASSUME NEW s \in Seq(Cells), NEW i \in Nat, NEW j \in Nat, i <= j, j <= Len(s)
  PROVE  /\ SubSeq(s, i + 1, j) \in Seq(Cells) /\ Len(SubSeq(s, i + 1, j)) = j - i
         /\ \A k \in 1..(j - i) : SubSeq(s, i + 1, j)[k] = s[i + k]
  BY PartIs

BufferTypes == fMem \in Seq(Cells) /\ fRead \in Nat /\ fWrite \in Nat
               /\ fRead <= fWrite /\ fWrite <= Len(fMem)

\* A buffer with the cells that have not been read, and room for more.
HasRoom(b, room) ==
  /\ b = [mem |-> b.mem, read |-> b.read, write |-> b.write]
  /\ b.mem \in Seq(Cells) /\ b.read \in Nat /\ b.write \in Nat /\ b.read <= b.write
  /\ b.write - b.read = fWrite - fRead /\ b.write + room <= Len(b.mem)
  /\ \A k \in 1..(fWrite - fRead) : b.mem[b.read + k] = fMem[fRead + k]

\* However room is made, what has not been read stays as it is.
LEMMA Ensured ==
  ASSUME BufferTypes, NEW room \in Nat
  PROVE  HasRoom(EnsureWriteAble(room), room)
  <1> DEFINE b == EnsureWriteAble(room)
  <1> DEFINE n == Len(fMem)
  <1>1. /\ fMem \in Seq(Cells) /\ fRead \in Nat /\ fWrite \in Nat /\ n \in Nat
        /\ fRead <= fWrite /\ fWrite <= n
    BY DEF BufferTypes
  <1>2. CASE n - fWrite >= room
    <2>1. b = [mem |-> fMem, read |-> fRead, write |-> fWrite]
      BY <1>2 DEF EnsureWriteAble
    <2>2. fWrite + room <= n
      BY <1>1, <1>2
    <2> HIDE DEF b
    <2>3. b.mem = fMem /\ b.read = fRead /\ b.write = fWrite
      BY <2>1
    <2>4. HasRoom(b, room)
      BY <1>1, <2>1, <2>3, <2>2 DEF HasRoom
    <2> QED
      BY <2>4 DEF b
  <1>3. CASE ~(n - fWrite >= room) /\ n - fWrite + fRead < room
    <2> DEFINE more == fWrite + room + 1 - n
    <2> DEFINE junk == [i \in 1..more |-> FJunk]
    <2>1. b = [mem |-> fMem \o junk, read |-> fRead, write |-> fWrite]
      BY <1>3 DEF EnsureWriteAble
    <2>2. more \in Nat /\ n + more = fWrite + room + 1
      BY <1>1, <1>3
    <2> HIDE DEF b, more
    <2>3. FJunk \in Cells
      BY DEF FJunk, Cells
    <2>4. junk \in Seq(Cells) /\ Len(junk) = more
      BY <2>2, <2>3
    <2> HIDE DEF junk
    <2>5. b.mem = fMem \o junk /\ b.read = fRead /\ b.write = fWrite
      BY <2>1
    <2>6. /\ fMem \o junk \in Seq(Cells) /\ Len(fMem \o junk) = n + more
          /\ \A i \in 1..n : (fMem \o junk)[i] = fMem[i]
      BY <1>1, <2>4
    <2> HIDE DEF n
    <2>7. \A k \in 1..(fWrite - fRead) : fRead + k \in 1..n
      BY <1>1
    <2>8. fWrite + room <= n + more
      BY <1>1, <2>2
    <2>9. \A k \in 1..(fWrite - fRead) : b.mem[b.read + k] = fMem[fRead + k]
      BY <2>5, <2>6, <2>7
    <2>10. b = [mem |-> b.mem, read |-> b.read, write |-> b.write]
      BY <2>1, <2>5
    <2>11. /\ b.mem \in Seq(Cells) /\ b.read \in Nat /\ b.write \in Nat /\ b.read <= b.write
           /\ b.write - b.read = fWrite - fRead
      BY <1>1, <2>5, <2>6
    <2>12. b.write + room <= Len(b.mem)
      BY <2>5, <2>6, <2>8
    <2>13. HasRoom(b, room)
      BY <2>9, <2>10, <2>11, <2>12 DEF HasRoom
    <2> QED
      BY <2>13 DEF b
  <1>4. CASE ~(n - fWrite >= room) /\ ~(n - fWrite + fRead < room)
    <2> DEFINE moved == [i \in DOMAIN fMem |->
                           IF i <= ReadAbleBytes THEN fMem[fRead + i] ELSE fMem[i]]
    <2>1. b = [mem |-> moved, read |-> 0, write |-> ReadAbleBytes]
      BY <1>4 DEF EnsureWriteAble
    <2>2. DOMAIN fMem = 1..n /\ \A i \in 1..n : fMem[i] \in Cells
      BY <1>1
    <2>3. ASSUME NEW i \in 1..n, i <= fWrite - fRead PROVE fRead + i \in 1..n
      BY <1>1, <2>3
    <2>4. \A i \in 1..n : (IF i <= ReadAbleBytes THEN fMem[fRead + i] ELSE fMem[i]) \in Cells
      BY <2>2, <2>3 DEF ReadAbleBytes
    <2>5. /\ moved \in Seq(Cells) /\ Len(moved) = n
          /\ \A i \in 1..n : i <= fWrite - fRead => moved[i] = fMem[fRead + i]
      <3>1. moved = [i \in 1..n |-> IF i <= ReadAbleBytes THEN fMem[fRead + i] ELSE fMem[i]]
        BY <2>2
      <3>2. moved \in Seq(Cells) /\ Len(moved) = n
        BY <1>1, <2>4, <3>1
      <3>3. \A i \in 1..n : i <= fWrite - fRead => moved[i] = fMem[fRead + i]
        BY <3>1 DEF ReadAbleBytes
      <3> QED
        BY <3>2, <3>3
    <2> HIDE DEF b, moved, n
    <2>6. b.mem = moved /\ b.read = 0 /\ b.write = fWrite - fRead
      BY <2>1 DEF ReadAbleBytes
    <2>7. \A k \in 1..(fWrite - fRead) : k \in 1..n /\ k <= fWrite - fRead /\ 0 + k = k
      BY <1>1
    <2>8. \A k \in 1..(fWrite - fRead) : b.mem[b.read + k] = fMem[fRead + k]
      BY <2>6, <2>5, <2>7
    <2>9. fWrite - fRead \in Nat /\ 0 <= fWrite - fRead /\ (fWrite - fRead) - 0 = fWrite - fRead
          /\ (fWrite - fRead) + room <= n
      BY <1>1, <1>4 DEF n
    <2>10. b = [mem |-> b.mem, read |-> b.read, write |-> b.write]
      BY <2>1, <2>6 DEF ReadAbleBytes
    <2>11. /\ b.mem \in Seq(Cells) /\ b.read \in Nat /\ b.write \in Nat /\ b.read <= b.write
           /\ b.write - b.read = fWrite - fRead
      BY <1>1, <2>6, <2>5, <2>9
    <2>12. b.write + room <= Len(b.mem)
      BY <2>6, <2>5, <2>9
    <2>13. HasRoom(b, room)
      BY <2>8, <2>10, <2>11, <2>12 DEF HasRoom
    <2> QED
      BY <2>13 DEF b
  <1> QED
    BY <1>2, <1>3, <1>4

LEMMA Stored ==
  ASSUME NEW mem \in Seq(Cells), NEW at \in Nat, NEW cells \in Seq(Cells),
         at + Len(cells) <= Len(mem)
  PROVE  LET t == Store(mem, at, cells)
         IN  /\ t \in Seq(Cells) /\ Len(t) = Len(mem)
             /\ \A k \in 1..at : t[k] = mem[k]
             /\ \A k \in 1..Len(cells) : t[at + k] = cells[k]
  <1> DEFINE t == Store(mem, at, cells)
  <1> DEFINE n == Len(mem)
  <1> DEFINE l == Len(cells)
  <1>1. n \in Nat /\ l \in Nat /\ at + l <= n /\ DOMAIN mem = 1..n /\ DOMAIN cells = 1..l
    OBVIOUS
  <1>2. t = [i \in 1..n |-> IF i - at \in 1..l THEN cells[i - at] ELSE mem[i]]
    BY <1>1 DEF Store
  <1>3. (\A i \in 1..n : mem[i] \in Cells) /\ \A i \in 1..l : cells[i] \in Cells
    OBVIOUS
  <1>4. \A i \in 1..n : (IF i - at \in 1..l THEN cells[i - at] ELSE mem[i]) \in Cells
    BY <1>3
  <1>5. t \in Seq(Cells) /\ Len(t) = n
    BY <1>1, <1>2, <1>4
  <1> HIDE DEF t, n, l
  <1>6. \A k \in 1..at : k \in 1..n /\ k - at \notin 1..l
    BY <1>1
  <1>7. \A k \in 1..l : at + k \in 1..n /\ (at + k) - at = k
    BY <1>1
  <1>8. (\A k \in 1..at : t[k] = mem[k]) /\ \A k \in 1..l : t[at + k] = cells[k]
    BY <1>2, <1>6, <1>7
  <1> QED
    BY <1>5, <1>8 DEF t, n, l

\* What can be read after a read: what could be, and the cells that came.
LEMMA ReadAppends ==
  ASSUME BufferTypes, NEW room \in Nat, NEW cells \in Seq(Cells), Len(cells) <= room
  PROVE  LET b == EnsureWriteAble(room)
             mem == Store(b.mem, b.write, cells)
         IN  /\ mem \in Seq(Cells) /\ b.read \in Nat /\ b.write \in Nat /\ b.read <= b.write
             /\ b.write + Len(cells) <= Len(mem)
             /\ SubSeq(mem, b.read + 1, b.write + Len(cells)) = SubSeq(fMem, fRead + 1, fWrite) \o cells
  <1> DEFINE b == EnsureWriteAble(room)
  <1> DEFINE mem == Store(b.mem, b.write, cells)
  <1> DEFINE l == Len(cells)
  <1> DEFINE a == SubSeq(fMem, fRead + 1, fWrite)
  <1> DEFINE d == fWrite - fRead
  <1>1. /\ b.mem \in Seq(Cells) /\ b.read \in Nat /\ b.write \in Nat /\ b.read <= b.write
        /\ b.write - b.read = d /\ b.write + room <= Len(b.mem)
        /\ \A k \in 1..d : b.mem[b.read + k] = fMem[fRead + k]
    BY Ensured DEF HasRoom
  <1> HIDE DEF b
  <1>2. l \in Nat /\ l <= room
    OBVIOUS
  <1>3. b.write + l <= Len(b.mem)
    <2>1. Len(b.mem) \in Nat
      BY <1>1
    <2> QED
      BY <1>1, <1>2, <2>1
  <1>4. /\ mem \in Seq(Cells) /\ Len(mem) = Len(b.mem)
        /\ \A k \in 1..b.write : mem[k] = b.mem[k]
        /\ \A k \in 1..l : mem[b.write + k] = cells[k]
    BY <1>1, <1>3, Stored
  <1> HIDE DEF mem
  <1>5. a \in Seq(Cells) /\ Len(a) = d /\ \A k \in 1..d : a[k] = fMem[fRead + k]
    BY SubSeqIs DEF BufferTypes
  <1>6. d \in Nat
    BY DEF BufferTypes
  <1> HIDE DEF a, d
  <1> DEFINE u == SubSeq(mem, b.read + 1, b.write + l)
  <1>7. u \in Seq(Cells) /\ Len(u) = (b.write + l) - b.read
        /\ \A k \in 1..((b.write + l) - b.read) : u[k] = mem[b.read + k]
    <2>1. b.write + l \in Nat /\ b.read <= b.write + l /\ b.write + l <= Len(mem)
      BY <1>1, <1>2, <1>3, <1>4
    <2> QED
      BY <1>1, <1>4, <2>1, SubSeqIs
  <1> HIDE DEF u
  <1>8. (b.write + l) - b.read = d + l
    BY <1>1, <1>2, <1>6, SMTT(20)
  <1>9. /\ a \o cells \in Seq(Cells) /\ Len(a \o cells) = d + l
        /\ \A k \in 1..d : (a \o cells)[k] = a[k]
        /\ \A k \in 1..l : (a \o cells)[d + k] = cells[k]
    BY <1>2, <1>5, <1>6
  <1> HIDE DEF l
  <1>10. \A k \in 1..d : u[k] = (a \o cells)[k]
    <2> SUFFICES ASSUME NEW k \in 1..d PROVE u[k] = (a \o cells)[k]
      OBVIOUS
    <2>1. k \in 1..(d + l) /\ b.read + k \in 1..b.write
      BY <1>1, <1>2, <1>6
    <2>2. u[k] = mem[b.read + k]
      BY <1>7, <1>8, <2>1
    <2> QED
      BY <1>1, <1>4, <1>5, <1>9, <2>1, <2>2
  <1>11. \A k \in 1..l : u[d + k] = (a \o cells)[d + k]
    <2> SUFFICES ASSUME NEW k \in 1..l PROVE u[d + k] = (a \o cells)[d + k]
      OBVIOUS
    <2>1. d + k \in 1..(d + l)
      BY <1>2, <1>6
    <2>2. b.read + (d + k) = b.write + k
      <3>1. b.read \in Nat /\ b.write \in Nat /\ b.write - b.read = d /\ k \in Nat
        BY <1>1, <1>2
      <3> QED
        BY <1>6, <3>1
    <2> QED
      BY <1>4, <1>7, <1>8, <1>9, <2>1, <2>2
  <1>12. \A k \in 1..(d + l) : k \in 1..d \/ \E i \in 1..l : k = d + i
    <2> SUFFICES ASSUME NEW k \in 1..(d + l), k \notin 1..d PROVE \E i \in 1..l : k = d + i
      OBVIOUS
    <2>1. k - d \in 1..l /\ k = d + (k - d)
      BY <1>2, <1>6
    <2> QED
      BY <2>1
  <1>13. \A k \in 1..Len(u) : u[k] = (a \o cells)[k]
    <2>1. Len(u) = d + l
      BY <1>7, <1>8
    <2> QED
      BY <1>10, <1>11, <1>12, <2>1
  <1>14. u = a \o cells
    BY <1>7, <1>8, <1>9, <1>13, SeqsEqual
  <1> QED
    BY <1>1, <1>3, <1>4, <1>14 DEF u, l, a, mem, b

-----------------------------------------------------------------------------
(* The invariant: while records arrive whole, no read returns SIZE_MAX, and what *)
(* can be read in the Buffer, then what OpenSSL holds, then the records in the   *)
(* socket are what the client sent after what is queued.                         *)

Records == [cells : Seq(Cells), whole : BOOLEAN]
InBuffer == SubSeq(fMem, fRead + 1, fWrite)
FirstIn == fNext - Len(fSocket)   \* the PDU of the first record in the socket

\* SSL_read meets a record that has not all arrived, and returns -1.
FReadFails == FSslRead /\ fSsl = <<>> /\ ~Head(fSocket).whole

FTypes ==
  /\ fNext \in 1..(Len(FBodies) + 1) /\ fRest \in Seq(Cells) /\ fPiece = <<>>
  /\ BufferTypes
  /\ fTotal \in 0..FReadSize /\ (fPhase = "read" => fTotal < FReadSize)
  /\ fPhase \in {"idle", "read", "frame", "again"}
  /\ fEvent \in BOOLEAN /\ fClosed \in BOOLEAN

\* Each record is a PDU, in order; the last may be a piece whose rest is under way.
FSocketIs ==
  /\ fSocket \in Seq(Records) /\ FirstIn \in Nat /\ FirstIn >= 1
  /\ \A k \in 1..Len(fSocket) :
       k < Len(fSocket) \/ fRest = <<>> =>
         fSocket[k] = [cells |-> FPdu(FirstIn + k - 1), whole |-> TRUE]
  /\ fRest # <<>> => /\ fSocket # <<>> /\ ~fSocket[Len(fSocket)].whole
                     /\ fSocket[Len(fSocket)].cells \o fRest = FPdu(fNext - 1)

FStream ==
  /\ Len(fQueued) <= Len(FBodies) /\ fQueued \in Seq(Seq(Cells))
  /\ \A k \in 1..Len(fQueued) : fQueued[k] = FPdu(k)
  /\ FSocketIs
  /\ fSsl \in Seq(Cells) /\ Run(InBuffer \o fSsl, Start(Len(fQueued) + 1), Start(FirstIn))

\* Where the reactor waits or looks again, no whole PDU is in the Buffer; where it
\* waits, OpenSSL holds nothing, and an edge announces what is in the socket.
FQuiet ==
  /\ fPhase \in {"again", "idle"} => ~Whole(fMem, fRead, fWrite)
  /\ fPhase = "idle" => fSsl = <<>> /\ (fSocket # <<>> => fEvent)

FInv == FTypes /\ FStream /\ FQuiet

LEMMA FInitInv ==
  ASSUME FInit
  PROVE  FInv
  <1>1. /\ fNext = 1 /\ fRest = <<>> /\ fSocket = <<>> /\ fPiece = <<>> /\ fSsl = <<>>
        /\ fMem = [i \in 1..FBufSize |-> FJunk] /\ fRead = 0 /\ fWrite = 0
        /\ fTotal = 0 /\ fPhase = "idle" /\ fEvent = FALSE /\ fQueued = <<>> /\ fClosed = FALSE
    BY DEF FInit
  <1>2. Len(FBodies) \in Nat /\ FReadSize \in Nat /\ FReadSize > 0 /\ FBufSize \in Nat
    BY FramingAssumption
  <1>3. fMem \in Seq(Cells) /\ Len(fMem) = FBufSize
    <2>1. FJunk \in Cells
      BY DEF FJunk, Cells
    <2> QED
      BY <1>1, <1>2, <2>1
  <1>4. FTypes
    <2>1. BufferTypes
      BY <1>1, <1>2, <1>3 DEF BufferTypes
    <2>2. fNext \in 1..(Len(FBodies) + 1) /\ fTotal \in 0..FReadSize /\ fRest \in Seq(Cells)
      BY <1>1, <1>2
    <2> QED
      BY <1>1, <2>1, <2>2 DEF FTypes
  <1>5. FStream
    <2>1. Len(fQueued) = 0 /\ Len(fSocket) = 0 /\ fQueued \in Seq(Seq(Cells)) /\ fSocket \in Seq(Records)
          /\ fSsl \in Seq(Cells)
      BY <1>1
    <2>2. FirstIn = 1
      BY <1>1, <2>1 DEF FirstIn
    <2>3. InBuffer \in Seq(Cells) /\ Len(InBuffer) = 0
      <3>1. /\ SubSeq(fMem, 0 + 1, 0) \in Seq(Cells) /\ Len(SubSeq(fMem, 0 + 1, 0)) = 0 - 0
        BY <1>2, <1>3, SubSeqIs
      <3> QED
        BY <1>1, <3>1 DEF InBuffer
    <2>4. InBuffer \o fSsl = <<>>
      BY <1>1, <2>3
    <2>5. Run(InBuffer \o fSsl, Start(1), Start(1))
      BY <2>4, EmptyRun
    <2>6. \A k \in 1..0 : FALSE
      OBVIOUS
    <2>7. Len(fQueued) + 1 = 1 /\ Len(fQueued) <= Len(FBodies)
      BY <1>2, <2>1
    <2>8. FSocketIs
      BY <1>1, <2>1, <2>2, <2>6 DEF FSocketIs
    <2> QED
      BY <2>1, <2>2, <2>5, <2>6, <2>7, <2>8 DEF FStream
  <1>6. FQuiet
    <2>1. ~Whole(fMem, fRead, fWrite)
      BY <1>1 DEF Whole, FHeader
    <2> QED
      BY <1>1, <2>1 DEF FQuiet
  <1> QED
    BY <1>4, <1>5, <1>6 DEF FInv

\* The socket after a delivery: of a PDU or the first piece of one,
LEMMA FirstPiece ==
  ASSUME FInv, FDeliver, fRest = <<>>
  PROVE  /\ fNext' \in 1..(Len(FBodies) + 1) /\ fRest' \in Seq(Cells)
         /\ FSocketIs' /\ FirstIn' = FirstIn
  <1> DEFINE pdu == FPdu(fNext)
  <1>1. PICK k \in 1..Len(pdu) : /\ fNext <= Len(FBodies)
             /\ fSocket' = Append(fSocket, [cells |-> SubSeq(pdu, 1, k), whole |-> k = Len(pdu)])
             /\ fRest' = SubSeq(pdu, k + 1, Len(pdu))
             /\ fNext' = fNext + 1
    BY DEF FDeliver
  <1>2. /\ fNext \in 1..Len(FBodies) /\ fNext + 1 \in 1..(Len(FBodies) + 1)
        /\ fNext + 1 - 1 = fNext /\ fNext \in Nat
    BY <1>1, FramingAssumption DEF FInv, FTypes
  <1>3. pdu \in Seq(Cells)
    BY <1>2, PduIsRun DEF Run
  <1> DEFINE record == [cells |-> SubSeq(pdu, 1, k), whole |-> k = Len(pdu)]
  <1> HIDE DEF pdu
  <1>4. /\ SubSeq(pdu, 1, k) \in Seq(Cells) /\ fRest' \in Seq(Cells) /\ record \in Records
        /\ SubSeq(pdu, 1, k) \o fRest' = pdu
        /\ k = Len(pdu) => fRest' = <<>> /\ record.cells = pdu
        /\ k # Len(pdu) => fRest' # <<>>
    <2>1. Len(pdu) \in Nat /\ k \in 1..Len(pdu)
      BY <1>3
    <2>2. /\ SubSeq(pdu, k + 1, Len(pdu)) \in Seq(Cells)
          /\ Len(SubSeq(pdu, k + 1, Len(pdu))) = Len(pdu) - k
      BY <1>3, <2>1, SubSeqIs
    <2>3. SubSeq(pdu, 1, k) \in Seq(Cells)
      BY <1>3, <2>1
    <2>4. SubSeq(pdu, 1, k) \o SubSeq(pdu, k + 1, Len(pdu)) = SubSeq(pdu, 1, Len(pdu))
      <3>1. 1 \in 1..(Len(pdu) + 1) /\ k \in (1 - 1)..Len(pdu) /\ Len(pdu) \in k..Len(pdu)
        BY <2>1
      <3> QED
        BY <1>3, <3>1, ConcatAdjacentSubSeq
    <2>5. SubSeq(pdu, 1, Len(pdu)) = pdu
      BY <1>3, SubSeqFull
    <2>6. k = Len(pdu) => fRest' = <<>>
      BY <1>1, <2>1, <2>2
    <2>7. k # Len(pdu) => fRest' # <<>>
      <3>1. k # Len(pdu) => Len(fRest') # 0
        BY <1>1, <2>1, <2>2
      <3>2. Len(<<>>) = 0
        OBVIOUS
      <3> QED
        BY <3>1, <3>2
    <2> QED
      BY <1>1, <2>2, <2>3, <2>4, <2>5, <2>6, <2>7 DEF Records
  <1>5. /\ fSocket \in Seq(Records) /\ FirstIn \in Nat /\ FirstIn >= 1
        /\ \A i \in 1..Len(fSocket) : fSocket[i] = [cells |-> FPdu(FirstIn + i - 1), whole |-> TRUE]
    BY DEF FInv, FStream, FSocketIs
  <1>6. record.cells = SubSeq(pdu, 1, k) /\ record.whole = (k = Len(pdu))
    OBVIOUS
  <1>7. k = Len(pdu) => record = [cells |-> pdu, whole |-> TRUE]
    BY <1>4, <1>6
  <1> HIDE DEF record
  <1>8. /\ fSocket' \in Seq(Records) /\ Len(fSocket') = Len(fSocket) + 1 /\ Len(fSocket) \in Nat
        /\ fSocket'[Len(fSocket')] = record /\ fSocket' # <<>>
        /\ \A i \in 1..Len(fSocket) : fSocket'[i] = fSocket[i]
    <2>1. fSocket' = Append(fSocket, record) /\ record \in Records
      BY <1>1, <1>4 DEF record
    <2>2. /\ Append(fSocket, record) \in Seq(Records) /\ Len(fSocket) \in Nat
          /\ Len(Append(fSocket, record)) = Len(fSocket) + 1
          /\ Append(fSocket, record)[Len(fSocket) + 1] = record
          /\ \A i \in 1..Len(fSocket) : Append(fSocket, record)[i] = fSocket[i]
      BY <1>5, <2>1
    <2> QED
      BY <2>1, <2>2
  <1>9. FirstIn' = FirstIn /\ FirstIn + Len(fSocket') - 1 = fNext
    BY <1>1, <1>2, <1>8 DEF FirstIn
  <1>10. ASSUME NEW i \in 1..Len(fSocket'), i < Len(fSocket') \/ fRest' = <<>>
         PROVE  fSocket'[i] = [cells |-> FPdu(FirstIn + i - 1), whole |-> TRUE]
    <2>1. CASE i < Len(fSocket')
      <3>1. i \in 1..Len(fSocket)
        BY <1>8, <2>1
      <3> QED
        BY <1>5, <1>8, <3>1
    <2>2. CASE ~(i < Len(fSocket'))
      <3>1. i = Len(fSocket')
        BY <1>8, <2>2
      <3>2. fSocket'[i] = [cells |-> pdu, whole |-> TRUE]
        BY <1>4, <1>7, <1>8, <1>10, <2>2, <3>1
      <3> QED
        BY <1>9, <3>1, <3>2 DEF pdu
    <2> QED
      BY <2>1, <2>2
  <1>11. fRest' # <<>> => /\ ~fSocket'[Len(fSocket')].whole
                          /\ fSocket'[Len(fSocket')].cells \o fRest' = FPdu(fNext' - 1)
    <2>1. fNext' - 1 = fNext
      BY <1>1, <1>2
    <2>2. fRest' # <<>> => ~record.whole
      BY <1>4, <1>6
    <2>3. record.cells \o fRest' = FPdu(fNext)
      BY <1>4, <1>6 DEF pdu
    <2> QED
      BY <1>8, <2>1, <2>2, <2>3
  <1> QED
    BY <1>1, <1>2, <1>4, <1>5, <1>8, <1>9, <1>10, <1>11 DEF FSocketIs

\* and of the rest.
LEMMA LastPiece ==
  ASSUME FInv, FDeliver, fRest # <<>>
  PROVE  /\ fNext' \in 1..(Len(FBodies) + 1) /\ fRest' \in Seq(Cells)
         /\ FSocketIs' /\ FirstIn' = FirstIn
  <1> DEFINE n == Len(fSocket)
  <1> DEFINE record == [cells |-> fSocket[n].cells \o fRest, whole |-> TRUE]
  <1>1. /\ fSocket \in Seq(Records) /\ fSocket # <<>> /\ FirstIn \in Nat /\ FirstIn >= 1
        /\ fSocket[n].cells \o fRest = FPdu(fNext - 1)
        /\ \A i \in 1..n : i < n => fSocket[i] = [cells |-> FPdu(FirstIn + i - 1), whole |-> TRUE]
        /\ fNext \in 1..(Len(FBodies) + 1) /\ fRest \in Seq(Cells)
    BY DEF FInv, FTypes, FStream, FSocketIs
  <1>2. n \in Nat /\ n >= 1
    BY <1>1
  <1>3. fSocket' = Append(SubSeq(fSocket, 1, n - 1), record) /\ fRest' = <<>> /\ fNext' = fNext
    BY <1>1 DEF FDeliver, Front, Last
  <1>4. record \in Records
    <2>1. fSocket[n] \in Records
      BY <1>1, <1>2
    <2>2. fSocket[n].cells \in Seq(Cells)
      BY <2>1 DEF Records
    <2>3. \A cells \in Seq(Cells) : cells \o fRest \in Seq(Cells)
      BY <1>1
    <2>4. fSocket[n].cells \o fRest \in Seq(Cells)
      BY <2>2, <2>3
    <2> QED
      BY <2>4 DEF Records
  <1>5. record = [cells |-> FPdu(fNext - 1), whole |-> TRUE]
    BY <1>1
  <1> HIDE DEF record
  <1>6. /\ SubSeq(fSocket, 1, n - 1) \in Seq(Records) /\ Len(SubSeq(fSocket, 1, n - 1)) = n - 1
        /\ \A i \in 1..(n - 1) : SubSeq(fSocket, 1, n - 1)[i] = fSocket[i]
    <2>1. n - 1 \in Nat /\ 0 <= n - 1 /\ n - 1 <= Len(fSocket) /\ 0 \in Nat /\ 0 + 1 = 1
          /\ n - 1 - 0 = n - 1 /\ \A i \in 1..(n - 1) : 0 + i = i
      BY <1>2
    <2> HIDE DEF n
    <2> QED
      BY <1>1, <2>1, SubSeqIs
  <1>7. /\ fSocket' \in Seq(Records) /\ Len(fSocket') = n /\ fSocket'[n] = record
        /\ \A i \in 1..(n - 1) : fSocket'[i] = fSocket[i]
    BY <1>2, <1>3, <1>4, <1>6
  <1>8. FirstIn' = FirstIn /\ FirstIn + n - 1 = fNext - 1
    BY <1>1, <1>2, <1>3, <1>7 DEF FirstIn
  <1>9. ASSUME NEW i \in 1..n PROVE fSocket'[i] = [cells |-> FPdu(FirstIn + i - 1), whole |-> TRUE]
    <2>1. CASE i = n
      BY <1>5, <1>7, <1>8, <2>1
    <2>2. CASE i # n
      <3>1. i < n /\ i \in 1..(n - 1)
        BY <1>2, <2>2
      <3> QED
        BY <1>1, <1>7, <3>1
    <2> QED
      BY <2>1, <2>2
  <1> HIDE DEF n
  <1> QED
    BY <1>1, <1>3, <1>7, <1>8, <1>9, SMTT(20) DEF FSocketIs

LEMMA FDeliverKeeps ==
  ASSUME FInv, FDeliver
  PROVE  FInv'
  <1>1. /\ fNext' \in 1..(Len(FBodies) + 1) /\ fRest' \in Seq(Cells)
        /\ FSocketIs' /\ FirstIn' = FirstIn
    BY FirstPiece, LastPiece
  <1>2. /\ fEvent' = TRUE /\ fPiece' = fPiece /\ fSsl' = fSsl /\ fMem' = fMem /\ fRead' = fRead
        /\ fWrite' = fWrite /\ fTotal' = fTotal /\ fPhase' = fPhase /\ fQueued' = fQueued
        /\ fClosed' = fClosed
    BY DEF FDeliver, fBuffer
  <1>3. FTypes'
    <2>1. BufferTypes'
      BY <1>2 DEF BufferTypes, FInv, FTypes
    <2> QED
      BY <1>1, <1>2, <2>1 DEF FInv, FTypes
  <1>4. FStream'
    <2>1. InBuffer' = InBuffer
      BY <1>2 DEF InBuffer
    <2> QED
      BY <1>1, <1>2, <2>1 DEF FInv, FStream
  <1>5. FQuiet'
    BY <1>2 DEF FInv, FQuiet, Whole
  <1> QED
    BY <1>3, <1>4, <1>5 DEF FInv

\* What the client hangs up or a wait that ends leaves as it is.
LEMMA FWaitKeeps ==
  ASSUME FInv, FHangUp \/ FWake \/ FAgain
  PROVE  FInv'
  <1>1. /\ fNext' = fNext /\ fRest' = fRest /\ fSocket' = fSocket /\ fPiece' = fPiece
        /\ fSsl' = fSsl /\ fMem' = fMem /\ fRead' = fRead /\ fWrite' = fWrite /\ fQueued' = fQueued
    BY DEF FHangUp, FWake, FAgain, fNet, fTls, fBuffer
  <1>2. FStream'
    <2>1. InBuffer' = InBuffer /\ FirstIn' = FirstIn
      BY <1>1 DEF InBuffer, FirstIn
    <2> QED
      BY <1>1, <2>1 DEF FInv, FStream, FSocketIs
  <1>3. Whole(fMem, fRead, fWrite)' = Whole(fMem, fRead, fWrite)
    BY <1>1 DEF Whole
  <1>4. FReadSize \in Nat /\ FReadSize > 0
    BY FramingAssumption
  <1>5. FTypes'
    <2>1. BufferTypes'
      BY <1>1 DEF BufferTypes, FInv, FTypes
    <2>2. /\ fNext \in 1..(Len(FBodies) + 1) /\ fRest \in Seq(Cells) /\ fPiece = <<>>
          /\ fTotal \in 0..FReadSize /\ (fPhase = "read" => fTotal < FReadSize)
          /\ fPhase \in {"idle", "read", "frame", "again"}
          /\ fEvent \in BOOLEAN /\ fClosed \in BOOLEAN
      BY DEF FInv, FTypes
    <2>3. fTotal' \in 0..FReadSize /\ (fPhase' = "read" => fTotal' < FReadSize)
      <3>1. fTotal' = 0 \/ (fTotal' = fTotal /\ fPhase' = fPhase)
        BY DEF FHangUp, FWake, FAgain
      <3> QED
        BY <1>4, <2>2, <3>1
    <2>4. fPhase' \in {"idle", "read", "frame", "again"}
      BY <2>2 DEF FHangUp, FWake, FAgain
    <2>5. fEvent' \in BOOLEAN /\ fClosed' \in BOOLEAN
      BY <2>2 DEF FHangUp, FWake, FAgain
    <2> QED
      BY <1>1, <2>1, <2>2, <2>3, <2>4, <2>5 DEF FTypes
  <1>6. FQuiet'
    <2>1. /\ fPhase \in {"again", "idle"} => ~Whole(fMem, fRead, fWrite)
          /\ fPhase = "idle" => fSsl = <<>> /\ (fSocket # <<>> => fEvent)
      BY DEF FInv, FQuiet
    <2>2. CASE FHangUp
      <3>1. fPhase' = fPhase /\ fEvent' = fEvent
        BY <2>2 DEF FHangUp
      <3> QED
        BY <1>1, <1>3, <2>1, <3>1 DEF FQuiet
    <2>3. CASE FWake
      BY <2>3 DEF FWake, FQuiet
    <2>4. CASE FAgain
      <3>1. /\ fPhase = "again"
            /\ fPhase' = IF NothingPending THEN "idle" ELSE "read"
        BY <2>4 DEF FAgain
      <3>2. CASE NothingPending
        BY <1>1, <1>3, <2>1, <3>1, <3>2 DEF FQuiet, NothingPending
      <3>3. CASE ~NothingPending
        BY <3>1, <3>3 DEF FQuiet
      <3> QED
        BY <3>2, <3>3
    <2> QED
      BY <2>2, <2>3, <2>4
  <1> QED
    BY <1>2, <1>5, <1>6 DEF FInv

Least(a, b) == IF a < b THEN a ELSE b

LEMMA Associates ==
  \A S : \A s, t, u \in Seq(S) : (s \o t) \o u = s \o (t \o u)
  BY ConcatAssociative

\* One SSL_read moves cells from OpenSSL to what can be read, in order.
LEMMA GiveKeeps ==
  ASSUME FTypes, fTotal < FReadSize, NEW cells \in Seq(Cells),
         LET room == FReadSize - fTotal
             b == EnsureWriteAble(room)
             n == Least(Len(cells), room)
         IN  /\ HasWritten([b EXCEPT !.mem = Store(@, b.write, SubSeq(cells, 1, n))], n)
             /\ fSsl' = SubSeq(cells, n + 1, Len(cells))
             /\ fTotal' = fTotal + n
  PROVE  /\ BufferTypes' /\ fTotal' \in 0..FReadSize /\ fSsl' \in Seq(Cells)
         /\ InBuffer' \o fSsl' = InBuffer \o cells
  <1> DEFINE room == FReadSize - fTotal
  <1> DEFINE b == EnsureWriteAble(room)
  <1> DEFINE n == Least(Len(cells), room)
  <1> DEFINE come == SubSeq(cells, 1, n)
  <1> DEFINE left == SubSeq(cells, n + 1, Len(cells))
  <1>1. FReadSize \in Nat /\ fTotal \in Nat /\ Len(cells) \in Nat /\ BufferTypes
    BY FramingAssumption DEF FTypes
  <1>2. room \in Nat
    BY <1>1
  <1>3. n \in Nat /\ n <= Len(cells) /\ n <= room
    BY <1>1, <1>2 DEF Least
  <1>4. fTotal + n \in 0..FReadSize
    BY <1>1, <1>3
  <1>5. HasRoom(b, room)
    BY <1>1, <1>2, Ensured
  <1>6. /\ HasWritten([b EXCEPT !.mem = Store(@, b.write, come)], n)
        /\ fSsl' = left /\ fTotal' = fTotal + n
    OBVIOUS
  <1> HIDE DEF n, b
  <1>7. /\ come \in Seq(Cells) /\ Len(come) = n /\ left \in Seq(Cells)
        /\ come \o left = cells
    <2>1. come \in Seq(Cells) /\ Len(come) = n /\ \A k \in 1..n : come[k] = cells[k]
      BY <1>3
    <2>2. left \in Seq(Cells) /\ Len(left) = Len(cells) - n
          /\ \A k \in 1..(Len(cells) - n) : left[k] = cells[n + k]
      BY <1>1, <1>3, SubSeqIs
    <2>3. 1 \in 1..(Len(cells) + 1) /\ n \in (1 - 1)..Len(cells) /\ Len(cells) \in n..Len(cells)
      BY <1>1, <1>3
    <2>4. come \o left = SubSeq(cells, 1, Len(cells))
      BY <2>3, ConcatAdjacentSubSeq
    <2>5. SubSeq(cells, 1, Len(cells)) = cells
      BY SubSeqFull
    <2> HIDE DEF come, left
    <2> QED
      BY <2>1, <2>2, <2>4, <2>5
  <1> HIDE DEF come, left
  <1> DEFINE mem == Store(b.mem, b.write, come)
  <1>8. fMem' = mem /\ fRead' = b.read /\ fWrite' = b.write + n
    BY <1>5, <1>6 DEF HasWritten, HasRoom
  <1>9. /\ mem \in Seq(Cells) /\ b.read \in Nat /\ b.write \in Nat /\ b.read <= b.write
        /\ b.write + n <= Len(mem)
        /\ SubSeq(mem, b.read + 1, b.write + n) = InBuffer \o come
    <2> HIDE DEF mem
    <2>1. Len(come) <= room
      BY <1>3, <1>7
    <2> QED
      BY <1>1, <1>2, <1>7, <2>1, ReadAppends DEF b, mem, InBuffer
  <1> HIDE DEF mem
  <1>10. InBuffer' = InBuffer \o come
    BY <1>8, <1>9 DEF InBuffer
  <1>11. BufferTypes'
    <2>1. b.write + n \in Nat /\ b.read <= b.write + n
      BY <1>3, <1>9
    <2> QED
      BY <1>8, <1>9, <2>1 DEF BufferTypes
  <1>12. InBuffer \in Seq(Cells)
    BY <1>1, SubSeqIs DEF InBuffer, BufferTypes
  <1>13. (InBuffer \o come) \o left = InBuffer \o (come \o left)
    <2>1. InBuffer \in Seq(Cells) /\ come \in Seq(Cells) /\ left \in Seq(Cells)
      BY <1>7, <1>12
    <2> QED
      BY ONLY <2>1, Associates
  <1>14. InBuffer' \o fSsl' = InBuffer \o cells
    BY <1>6, <1>7, <1>10, <1>13
  <1>15. fTotal' \in 0..FReadSize
    BY <1>4, <1>6
  <1> QED
    BY <1>6, <1>7, <1>11, <1>14, <1>15

LEMMA FSslReadKeeps ==
  ASSUME FInv, FSslRead, ~FReadFails
  PROVE  FInv'
  <1>1. /\ fNext \in 1..(Len(FBodies) + 1) /\ fRest \in Seq(Cells) /\ fPiece = <<>> /\ FTypes
        /\ fPhase = "read" /\ fTotal < FReadSize /\ fTotal \in 0..FReadSize
        /\ fEvent \in BOOLEAN /\ fClosed \in BOOLEAN
    BY DEF FInv, FTypes, FSslRead
  <1>2. /\ Len(fQueued) <= Len(FBodies) /\ fQueued \in Seq(Seq(Cells))
        /\ \A k \in 1..Len(fQueued) : fQueued[k] = FPdu(k)
        /\ fSocket \in Seq(Records) /\ FirstIn \in Nat /\ FirstIn >= 1
        /\ \A k \in 1..Len(fSocket) :
             k < Len(fSocket) \/ fRest = <<>> =>
               fSocket[k] = [cells |-> FPdu(FirstIn + k - 1), whole |-> TRUE]
        /\ fRest # <<>> => /\ fSocket # <<>> /\ ~fSocket[Len(fSocket)].whole
                           /\ fSocket[Len(fSocket)].cells \o fRest = FPdu(fNext - 1)
        /\ fSsl \in Seq(Cells) /\ Run(InBuffer \o fSsl, Start(Len(fQueued) + 1), Start(FirstIn))
    BY DEF FInv, FStream, FSocketIs
  <1>3. /\ fNext' = fNext /\ fRest' = fRest /\ fEvent' = fEvent /\ fQueued' = fQueued
        /\ fClosed' = fClosed
    BY DEF FSslRead, fNet
  <1>4. FReadSize \in Nat /\ Len(fSocket) \in Nat /\ Len(FBodies) \in Nat
    BY <1>2, FramingAssumption
  <1> DEFINE Gives(cells) ==
        LET room == FReadSize - fTotal
            b == EnsureWriteAble(room)
            n == Least(Len(cells), room)
        IN  /\ HasWritten([b EXCEPT !.mem = Store(@, b.write, SubSeq(cells, 1, n))], n)
            /\ fSsl' = SubSeq(cells, n + 1, Len(cells))
            /\ fTotal' = fTotal + n
  <1> DEFINE first == Head(fSocket)
  <1>5. /\ \/ fSsl # <<>> /\ Gives(fSsl) /\ fSocket' = fSocket /\ fPiece' = fPiece
           \/ /\ fSsl = <<>> /\ fSocket # <<>> /\ first.whole
              /\ Gives(fPiece \o first.cells) /\ fSocket' = Tail(fSocket) /\ fPiece' = <<>>
        /\ fPhase' = IF NothingPending' THEN "frame"
                     ELSE IF fTotal' \in 0..(FReadSize - 1) THEN "read"
                     ELSE IF fTotal' = -1 THEN "idle" ELSE "frame"
    BY DEF FSslRead, FReadFails, Least
  <1>6. ASSUME fSocket # <<>>, first.whole
        PROVE  /\ fRest # <<>> => Len(fSocket) > 1
               /\ first.cells = FPdu(FirstIn) /\ FirstIn \in 1..Len(FBodies)
               /\ Tail(fSocket) \in Seq(Records) /\ Len(Tail(fSocket)) = Len(fSocket) - 1
               /\ \A k \in 1..Len(Tail(fSocket)) : Tail(fSocket)[k] = fSocket[k + 1]
    <2>1. /\ Len(fSocket) >= 1 /\ Tail(fSocket) \in Seq(Records)
          /\ Len(Tail(fSocket)) = Len(fSocket) - 1
          /\ first = fSocket[1] /\ \A k \in 1..Len(Tail(fSocket)) : Tail(fSocket)[k] = fSocket[k + 1]
      BY <1>2, <1>6
    <2>2. 1 \in 1..Len(fSocket) /\ FirstIn + 1 - 1 = FirstIn
      BY <1>2, <1>4, <2>1
    <2>3. fRest # <<>> => Len(fSocket) > 1
      <3> SUFFICES ASSUME fRest # <<>>, Len(fSocket) = 1 PROVE FALSE
        BY <1>4, <2>1
      <3>1. ~fSocket[1].whole
        BY <1>2
      <3> QED
        BY <1>6, <2>1, <3>1
    <2>5. first = [cells |-> FPdu(FirstIn), whole |-> TRUE]
      <3>1. 1 < Len(fSocket) \/ fRest = <<>>
        BY <2>3
      <3> QED
        BY <1>2, <2>1, <2>2, <3>1
    <2>4. FirstIn \in 1..Len(FBodies)
      BY <1>1, <1>2, <1>4, <2>1 DEF FirstIn
    <2> HIDE DEF first
    <2> QED
      BY <2>1, <2>3, <2>4, <2>5
  <1> HIDE DEF first
  <1>7. ASSUME NEW cells \in Seq(Cells), Gives(cells)
        PROVE  /\ BufferTypes' /\ fTotal' \in 0..FReadSize /\ fSsl' \in Seq(Cells)
               /\ InBuffer' \o fSsl' = InBuffer \o cells
    BY <1>1, <1>7, GiveKeeps
  <1> HIDE DEF Gives
  <1>8. /\ BufferTypes' /\ fTotal' \in 0..FReadSize /\ fSsl' \in Seq(Cells) /\ fPiece' = <<>>
        /\ FSocketIs'
        /\ Run(InBuffer' \o fSsl', Start(Len(fQueued) + 1), Start(FirstIn'))
    <2>1. CASE fSsl # <<>> /\ Gives(fSsl) /\ fSocket' = fSocket /\ fPiece' = fPiece
      <3>1. FirstIn' = FirstIn
        BY <1>3, <2>1 DEF FirstIn
      <3>2. /\ BufferTypes' /\ fTotal' \in 0..FReadSize /\ fSsl' \in Seq(Cells)
            /\ InBuffer' \o fSsl' = InBuffer \o fSsl
        BY <1>2, <1>7, <2>1
      <3>3. FSocketIs'
        BY <1>2, <1>3, <2>1, <3>1 DEF FSocketIs
      <3> QED
        BY <1>1, <1>2, <2>1, <3>1, <3>2, <3>3
    <2>2. CASE /\ fSsl = <<>> /\ fSocket # <<>> /\ first.whole /\ Gives(fPiece \o first.cells)
               /\ fSocket' = Tail(fSocket) /\ fPiece' = <<>>
      <3> DEFINE pdu == FPdu(FirstIn)
      <3>1. /\ FirstIn \in 1..Len(FBodies) /\ fSocket' \in Seq(Records)
            /\ Len(fSocket') = Len(fSocket) - 1
            /\ \A k \in 1..Len(fSocket') : fSocket'[k] = fSocket[k + 1]
            /\ first.cells = pdu /\ (fRest # <<>> => Len(fSocket) > 1)
        BY <1>6, <2>2
      <3>2. Run(pdu, Start(FirstIn), Start(FirstIn + 1)) /\ pdu \in Seq(Cells)
        BY <3>1, PduIsRun DEF Run
      <3> HIDE DEF pdu
      <3>3. fPiece \o first.cells = pdu
        BY <1>1, <3>1, <3>2
      <3>4. /\ BufferTypes' /\ fTotal' \in 0..FReadSize /\ fSsl' \in Seq(Cells)
            /\ InBuffer' \o fSsl' = InBuffer \o pdu
        BY <1>7, <2>2, <3>2, <3>3
      <3>5. FirstIn' = FirstIn + 1
        BY <1>1, <1>3, <1>4, <3>1 DEF FirstIn
      <3>6. Run(InBuffer, Start(Len(fQueued) + 1), Start(FirstIn))
        <4>1. InBuffer \in Seq(Cells)
          BY <1>1, SubSeqIs DEF InBuffer, FTypes, BufferTypes
        <4>2. InBuffer \o fSsl = InBuffer
          BY <2>2, <4>1
        <4> QED
          BY <1>2, <4>2
      <3>7. Run(InBuffer \o pdu, Start(Len(fQueued) + 1), Start(FirstIn + 1))
        BY <3>2, <3>6, RunsJoin
      <3>8. ASSUME NEW k \in 1..Len(fSocket'), k < Len(fSocket') \/ fRest = <<>>
            PROVE  fSocket'[k] = [cells |-> FPdu((FirstIn + 1) + k - 1), whole |-> TRUE]
        <4>1. /\ k + 1 \in 1..Len(fSocket) /\ FirstIn + (k + 1) - 1 = (FirstIn + 1) + k - 1
              /\ k + 1 < Len(fSocket) \/ fRest = <<>>
          BY <1>2, <1>4, <3>1, <3>8
        <4>2. fSocket'[k] = fSocket[k + 1]
          BY <3>1
        <4>3. fSocket[k + 1] = [cells |-> FPdu(FirstIn + (k + 1) - 1), whole |-> TRUE]
          BY <1>2, <4>1
        <4> QED
          BY <4>1, <4>2, <4>3
      <3>9. FirstIn + 1 \in Nat /\ FirstIn + 1 >= 1
        BY <1>2
      <3>10. ASSUME fRest # <<>>
             PROVE  fSocket' # <<>> /\ fSocket'[Len(fSocket')] = fSocket[Len(fSocket)]
        <4>1. Len(fSocket') \in 1..Len(fSocket') /\ Len(fSocket') + 1 = Len(fSocket)
          BY <1>4, <3>1, <3>10
        <4>2. fSocket' # <<>>
          BY <4>1
        <4> QED
          BY <3>1, <4>1, <4>2
      <3>11. FSocketIs'
        BY <1>2, <1>3, <3>1, <3>5, <3>8, <3>9, <3>10 DEF FSocketIs
      <3> QED
        BY <2>2, <3>4, <3>5, <3>7, <3>11
    <2> QED
      BY <1>5, <2>1, <2>2
  <1>9. /\ fPhase' \in {"read", "frame"} /\ (fPhase' = "read" => fTotal' < FReadSize)
    <2>1. fTotal' # -1 /\ fTotal' \in Nat
      BY <1>8
    <2> QED
      BY <1>4, <1>5, <2>1
  <1>10. FTypes'
    BY <1>1, <1>3, <1>8, <1>9 DEF FTypes
  <1>11. FStream'
    BY <1>2, <1>3, <1>8 DEF FStream
  <1>12. FQuiet'
    BY <1>9 DEF FQuiet
  <1> QED
    BY <1>10, <1>11, <1>12 DEF FInv

LEMMA FFrameKeeps ==
  ASSUME FInv, FFrame
  PROVE  FInv'
  <1>1. /\ FTypes /\ BufferTypes /\ fTotal \in 0..FReadSize /\ fTotal # -1
        /\ fMem \in Seq(Cells) /\ fRead \in Nat /\ fWrite \in Nat
        /\ fRead <= fWrite /\ fWrite <= Len(fMem)
    BY FramingAssumption DEF FInv, FTypes, BufferTypes
  <1>2. /\ Len(fQueued) <= Len(FBodies) /\ fQueued \in Seq(Seq(Cells))
        /\ \A k \in 1..Len(fQueued) : fQueued[k] = FPdu(k)
        /\ fSsl \in Seq(Cells) /\ Run(InBuffer \o fSsl, Start(Len(fQueued) + 1), Start(FirstIn))
    BY DEF FInv, FStream
  <1>3. /\ fNext' = fNext /\ fRest' = fRest /\ fSocket' = fSocket /\ fPiece' = fPiece
        /\ fSsl' = fSsl /\ fMem' = fMem /\ fWrite' = fWrite /\ fTotal' = fTotal
        /\ fEvent' = fEvent /\ fClosed' = fClosed
    BY DEF FFrame, fNet, fTls
  <1> DEFINE r == Cut(fMem, fRead, ReadAbleBytes)
  <1> DEFINE q == Len(fQueued)
  <1>4. fQueued' = fQueued \o r.pdus /\ fRead' = fRead + (r.at - fRead) /\ fPhase' = "again"
    BY <1>1 DEF FFrame, Retrieve
  <1>5. /\ ReadAbleBytes \in Nat /\ fRead + ReadAbleBytes = fWrite
    BY <1>1 DEF ReadAbleBytes
  <1>6. q \in 0..Len(FBodies) /\ q \in Nat
    BY <1>2, FramingAssumption
  <1>7. InBuffer \in Seq(Cells) /\ Len(InBuffer) \in Nat
    BY <1>1, SubSeqIs DEF InBuffer
  <1> DEFINE all == InBuffer \o fSsl
  <1> DEFINE mid == IF Len(InBuffer) = 0 THEN Start(q + 1) ELSE After(all[Len(InBuffer)])
  <1>8. Run(InBuffer, Start(q + 1), mid) /\ Run(fSsl, mid, Start(FirstIn))
    <2>1. all \in Seq(Cells) /\ Len(all) = Len(InBuffer) + Len(fSsl) /\ Len(fSsl) \in Nat
      BY <1>2, <1>7
    <2>2. SubSeq(all, 1, Len(InBuffer)) = InBuffer /\ SubSeq(all, Len(InBuffer) + 1, Len(all)) = fSsl
      BY <1>2, <1>7
    <2>3. Len(InBuffer) \in 0..Len(all)
      BY <1>7, <2>1
    <2> HIDE DEF all
    <2>4. /\ Run(SubSeq(all, 1, Len(InBuffer)), Start(q + 1), mid)
          /\ Run(SubSeq(all, Len(InBuffer) + 1, Len(all)), mid, Start(FirstIn))
      BY <1>2, <2>3, RunSplits DEF all
    <2> QED
      BY <2>2, <2>4
  <1> HIDE DEF mid, r
  <1>9. Cutting(fMem, q, fRead, fWrite, mid, r) /\ ~Whole(fMem, r.at, fWrite)
    <2>1. Run(SubSeq(fMem, fRead + 1, fRead + ReadAbleBytes), Start(q + 1), mid)
      BY <1>5, <1>8 DEF InBuffer
    <2>2. fRead + ReadAbleBytes <= Len(fMem)
      BY <1>1, <1>5
    <2> HIDE DEF q
    <2>3. /\ Cutting(fMem, q, fRead, fRead + ReadAbleBytes, mid, Cut(fMem, fRead, ReadAbleBytes))
          /\ ~Whole(fMem, Cut(fMem, fRead, ReadAbleBytes).at, fRead + ReadAbleBytes)
      BY <1>1, <1>5, <1>6, <2>1, <2>2, CutIs
    <2> QED
      BY <1>5, <2>3 DEF r
  <1> DEFINE l == Len(r.pdus)
  <1>10. /\ r.at \in fRead..fWrite /\ r.pdus \in Seq(Seq(Cells)) /\ q + l <= Len(FBodies)
         /\ \A j \in 1..l : r.pdus[j] = FPdu(q + j)
         /\ Run(SubSeq(fMem, r.at + 1, fWrite), Start(q + l + 1), mid)
    BY <1>9 DEF Cutting
  <1>11. fRead' = r.at /\ r.at \in Nat /\ r.at <= fWrite
    BY <1>1, <1>4, <1>10
  <1>12. FTypes'
    <2>1. BufferTypes'
      BY <1>1, <1>3, <1>11 DEF BufferTypes
    <2>2. fPhase' # "read" /\ fPhase' \in {"idle", "read", "frame", "again"}
      BY <1>4
    <2> QED
      BY <1>1, <1>3, <2>1, <2>2 DEF FTypes
  <1>13. /\ fQueued' \in Seq(Seq(Cells)) /\ Len(fQueued') = q + l /\ l \in Nat
         /\ \A k \in 1..(q + l) : fQueued'[k] = IF k <= q THEN fQueued[k] ELSE r.pdus[k - q]
    BY <1>2, <1>4, <1>10, ConcatProperties, SMTT(20)
  <1>14. ASSUME NEW k \in 1..(q + l) PROVE fQueued'[k] = FPdu(k)
    <2>1. CASE k <= q
      <3>1. k \in 1..q
        BY <1>6, <2>1
      <3> QED
        BY <1>2, <1>13, <2>1, <3>1
    <2>2. CASE ~(k <= q)
      <3>1. k - q \in 1..l /\ q + (k - q) = k
        BY <1>6, <1>13, <2>2
      <3>2. fQueued'[k] = r.pdus[k - q] /\ r.pdus[k - q] = FPdu(q + (k - q))
        BY <1>10, <1>13, <2>2, <3>1
      <3> QED
        BY <3>1, <3>2
    <2> QED
      BY <2>1, <2>2
  <1>15. FStream'
    <2>1. FirstIn' = FirstIn
      BY <1>3 DEF FirstIn
    <2>2. InBuffer' = SubSeq(fMem, r.at + 1, fWrite)
      BY <1>3, <1>11 DEF InBuffer
    <2>3. Run(InBuffer' \o fSsl', Start(q + l + 1), Start(FirstIn))
      BY <1>3, <1>8, <1>10, <2>2, RunsJoin
    <2>4. FSocketIs'
      BY <1>3, <2>1 DEF FInv, FStream, FSocketIs
    <2> HIDE DEF l, q
    <2> QED
      BY <1>2, <1>3, <1>10, <1>13, <1>14, <2>1, <2>3, <2>4 DEF FStream
  <1>16. FQuiet'
    BY <1>3, <1>4, <1>9, <1>11 DEF FQuiet, Whole
  <1> QED
    BY <1>12, <1>15, <1>16 DEF FInv

LEMMA FStutterKeeps ==
  ASSUME FInv, UNCHANGED fVars
  PROVE  FInv'
  <1>1. /\ fNext' = fNext /\ fRest' = fRest /\ fSocket' = fSocket /\ fPiece' = fPiece
        /\ fSsl' = fSsl /\ fMem' = fMem /\ fRead' = fRead /\ fWrite' = fWrite
        /\ fTotal' = fTotal /\ fPhase' = fPhase /\ fEvent' = fEvent /\ fQueued' = fQueued
        /\ fClosed' = fClosed
    BY DEF fVars, fNet, fTls, fBuffer
  <1>2. InBuffer' = InBuffer /\ FirstIn' = FirstIn
    BY <1>1 DEF InBuffer, FirstIn
  <1>3. FTypes'
    BY <1>1 DEF FInv, FTypes, BufferTypes
  <1>4. FStream'
    BY <1>1, <1>2 DEF FInv, FStream, FSocketIs
  <1>5. FQuiet'
    BY <1>1 DEF FInv, FQuiet, Whole
  <1> QED
    BY <1>3, <1>4, <1>5 DEF FInv

LEMMA FInvAlways == FSpec /\ [][~FReadFails]_fVars => []FInv
  <1>1. FInit => FInv
    BY FInitInv
  <1>2. FInv /\ [FNext]_fVars /\ [~FReadFails]_fVars => FInv'
    <2> SUFFICES ASSUME FInv, [FNext]_fVars, [~FReadFails]_fVars PROVE FInv'
      OBVIOUS
    <2> QED
      BY FDeliverKeeps, FWaitKeeps, FSslReadKeeps, FFrameKeeps, FStutterKeeps DEF FNext
  <1> QED
    BY <1>1, <1>2, PTL DEF FSpec

\* A PDU that is not whole ends the stream only if nothing of it is there.
LEMMA NothingUnread ==
  ASSUME FInv, fPhase = "idle", fSocket = <<>>, fNext > Len(FBodies)
  PROVE  Len(fQueued) = Len(FBodies)
  <1> DEFINE M == Len(FBodies)
  <1> DEFINE q == Len(fQueued)
  <1> DEFINE m == fWrite - fRead
  <1>1. /\ M \in Nat /\ fNext \in 1..(M + 1) /\ fMem \in Seq(Cells) /\ fRead \in Nat
        /\ fWrite \in Nat /\ fRead <= fWrite /\ fWrite <= Len(fMem)
    BY FramingAssumption DEF FInv, FTypes, BufferTypes
  <1>2. /\ q <= M /\ q \in Nat /\ fSsl = <<>> /\ ~Whole(fMem, fRead, fWrite)
        /\ Run(InBuffer \o fSsl, Start(q + 1), Start(FirstIn))
    BY DEF FInv, FStream, FQuiet
  <1>3. FirstIn = M + 1
    BY <1>1 DEF FirstIn
  <1>4. /\ InBuffer \in Seq(Cells) /\ Len(InBuffer) = m /\ m \in Nat
        /\ \A k \in 1..m : InBuffer[k] = fMem[fRead + k]
    BY <1>1, SubSeqIs DEF InBuffer
  <1> HIDE DEF M, q, m
  <1>5. Run(InBuffer, Start(q + 1), Start(M + 1))
    <2>1. InBuffer \o fSsl = InBuffer
      BY <1>2, <1>4
    <2> QED
      BY <1>2, <1>3, <2>1
  <1>6. m = 0
    <2> SUFFICES ASSUME m # 0 PROVE FALSE
      OBVIOUS
    <2> DEFINE p == q + 1
    <2>1. p \in Nat /\ m > 0 /\ m \in 1..m /\ 1 \in 1..m
      BY <1>2, <1>4
    <2> HIDE DEF p
    <2>2. /\ p \in 1..Len(FBodies)
          /\ \A i \in 1..m : i <= PduLen(p) => InBuffer[i] = <<p, i>>
      BY <1>4, <1>5, <2>1, RunIsPdu DEF p
    <2>3. PduLen(p) \in Nat /\ PduLen(p) >= 2 /\ p \in Nat /\ p # 0
      BY <2>2, PduLenType
    <2>4. m < PduLen(p)
      <3> SUFFICES ASSUME m >= PduLen(p) PROVE FALSE
        BY <1>4, <2>3
      <3>1. 1 <= PduLen(p) /\ fMem[fRead + 1] = <<p, 1>>
        BY <1>4, <2>1, <2>2, <2>3
      <3>2. fMem[fRead + 1][1] = p /\ fMem[fRead + 1][2] = 1
        BY <3>1
      <3>3. fWrite - fRead >= 2 /\ fWrite - fRead >= FHeader + FBodies[p]
        BY <1>4, <2>3 DEF m, PduLen
      <3>4. Whole(fMem, fRead, fWrite)
        BY <2>3, <3>2, <3>3 DEF Whole, FHeader
      <3> QED
        BY <1>2, <3>4
    <2>5. InBuffer[m] = <<p, m>> /\ m # PduLen(p)
      BY <1>4, <2>1, <2>2, <2>3, <2>4
    <2>6. Start(M + 1) = After(InBuffer[m])
      BY <1>4, <1>5, <2>1 DEF Run
    <2>7. After(InBuffer[m]) = <<p, m + 1>>
      BY <2>5 DEF After
    <2>8. m + 1 = 1
      BY <2>6, <2>7 DEF Start
    <2> QED
      BY <1>4, <2>1, <2>8
  <1>7. Start(q + 1) = Start(M + 1)
    BY <1>4, <1>5, <1>6 DEF Run
  <1>8. q + 1 = M + 1
    BY <1>7 DEF Start
  <1> QED
    BY <1>1, <1>2, <1>8 DEF q, M

-----------------------------------------------------------------------------
(* The theorems *)

\* Where the network delivers records whole, no SSL_read returns -1.  The theorems
\* after this one ask for that alone: a record may come in pieces, as long as they
\* have all come when it is read.
THEOREM WholeRecordsAreRead == ~FSplit => (FSpec => [][~FReadFails]_fVars)
  <1> SUFFICES ASSUME ~FSplit PROVE FSpec => [][~FReadFails]_fVars
    OBVIOUS
  <1> DEFINE AllWhole == FInv /\ fRest = <<>>
  <1>1. FInit => AllWhole
    BY FInitInv DEF FInit
  <1>2. AllWhole /\ [FNext]_fVars => AllWhole' /\ [~FReadFails]_fVars
    <2> SUFFICES ASSUME FInv, fRest = <<>>, [FNext]_fVars
                 PROVE  FInv' /\ fRest' = <<>> /\ ~FReadFails
      OBVIOUS
    <2>1. ~FReadFails
      <3> SUFFICES ASSUME FReadFails PROVE FALSE
        OBVIOUS
      <3>1. fSocket # <<>> /\ ~Head(fSocket).whole
        BY DEF FReadFails, FSslRead
      <3>2. fSocket \in Seq(Records) /\ \A k \in 1..Len(fSocket) : fSocket[k].whole
        <4>1. /\ fSocket \in Seq(Records)
              /\ \A k \in 1..Len(fSocket) :
                   fSocket[k] = [cells |-> FPdu(FirstIn + k - 1), whole |-> TRUE]
          BY DEF FInv, FStream, FSocketIs
        <4>2. ASSUME NEW k \in 1..Len(fSocket) PROVE fSocket[k].whole
          <5>1. PICK c : fSocket[k] = [cells |-> c, whole |-> TRUE]
            BY <4>1
          <5> QED
            BY <5>1
        <4> QED
          BY <4>1, <4>2
      <3>3. Head(fSocket) = fSocket[1] /\ 1 \in 1..Len(fSocket)
        BY <3>1, <3>2
      <3> QED
        BY <3>1, <3>2, <3>3
    <2>2. fRest' = <<>>
      <3>1. CASE FDeliver
        <4> DEFINE pdu == FPdu(fNext)
        <4>1. fNext <= Len(FBodies) /\ fRest' = SubSeq(pdu, Len(pdu) + 1, Len(pdu))
          BY <3>1 DEF FDeliver
        <4>2. fNext \in 1..Len(FBodies)
          BY <4>1, FramingAssumption DEF FInv, FTypes
        <4>3. pdu \in Seq(Cells)
          BY <4>2, PduIsRun DEF Run
        <4> HIDE DEF pdu
        <4> QED
          BY <4>1, <4>3
      <3>2. CASE FHangUp \/ FWake \/ FSslRead \/ FFrame \/ FAgain \/ UNCHANGED fVars
        BY <3>2 DEF FHangUp, FWake, FSslRead, FFrame, FAgain, fVars, fNet
      <3> QED
        BY <3>1, <3>2 DEF FNext
    <2> QED
      BY <2>1, <2>2, FDeliverKeeps, FWaitKeeps, FSslReadKeeps, FFrameKeeps, FStutterKeeps DEF FNext
  <1> HIDE DEF AllWhole
  <1> QED
    BY <1>1, <1>2, PTL DEF FSpec

\* Types: while no SSL_read returns -1, the positions of the Buffer stay within it and
\* in order, and no read is taken for SIZE_MAX bytes.
THEOREM FramingTypes ==
  FSpec /\ [][~FReadFails]_fVars => [](FTypeOK /\ fTotal >= 0 /\ fRead <= fWrite)
  <1>1. FInv => FTypeOK /\ fTotal >= 0 /\ fRead <= fWrite
    <2> SUFFICES ASSUME FInv PROVE FTypeOK /\ fTotal >= 0 /\ fRead <= fWrite
      OBVIOUS
    <2>1. /\ fMem \in Seq(Cells) /\ fRead \in Nat /\ fWrite \in Nat
          /\ fRead <= fWrite /\ fWrite <= Len(fMem) /\ fTotal \in 0..FReadSize
          /\ FReadSize \in Nat /\ Len(fMem) \in Nat
      BY FramingAssumption DEF FInv, FTypes, BufferTypes
    <2>2. fRead \in 0..Len(fMem) /\ fWrite \in -1..Len(fMem) /\ fTotal \in -1..FReadSize
          /\ fTotal >= 0
      BY <2>1
    <2> QED
      BY <2>1, <2>2 DEF FInv, FTypes, FTypeOK
  <1> QED
    BY <1>1, FInvAlways, PTL

\* While no SSL_read returns -1, what handleClientData queues is what the client sent,
\* in order and complete, for any lengths of message, of read and of Buffer, however
\* records are cut: the -1 that is taken for a count is the only thing that breaks it.
THEOREM QueuedInOrder == FSpec /\ [][~FReadFails]_fVars => []FInOrder
  <1>1. FInv => FInOrder
    BY DEF FInv, FStream, FInOrder
  <1> QED
    BY <1>1, FInvAlways, PTL

\* While no SSL_read returns -1, a reactor that waits with nothing announced has handed
\* over all that the client sent and that has arrived.
THEOREM NothingStaysBehind == FSpec /\ [][~FReadFails]_fVars => []FNothingLeft
  <1>1. FInv => FNothingLeft
    <2> SUFFICES ASSUME FInv, fPhase = "idle", ~EdgePending, fNext > Len(FBodies)
                 PROVE  Len(fQueued) = Len(FBodies)
      BY DEF FNothingLeft
    <2>1. fSocket = <<>>
      BY DEF FInv, FQuiet, EdgePending
    <2> QED
      BY <2>1, NothingUnread
  <1> QED
    BY <1>1, FInvAlways, PTL
-----------------------------------------------------------------------------
(* Wire: a field of a message *)

\* The names of fields, and that of a byte no field takes.
Names ==
  {"type", "body_len", "version", "reserved", "code", "user", "pwd", "file_name",
   "msg_len", "status", "msg_amount", "tran_pdu_code", "file_md5", "file_size",
   "sended_size", "parent_dir_id", "file_offset", "chunk_size", "total_chunks",
   "chunk_index", "check_sum", "action", "cipher", "is_vip", "capacity_sum",
   "used_capacity", "salt", "vip_date", "file_id", "dir_grade", "file_type",
   "parent_dir", "file_date", "name", "ip", "sport", "lport", "cur_con_count", "msg",
   "data", "stale"}

Tok == [name : Names, value : Nat, place : Nat]

\* A field is of a fixed width, or a tail as long as a length before it says.
Fixed(field) == field.how \in {"net", "raw"}
Width(widths, n, field) == IF Fixed(field) THEN widths[field.name] ELSE n
Value(r, n, field) == IF Fixed(field) THEN ValueOf(r, n, field.name) ELSE 0

\* What a deserializer should find in it.
Found(widths, r, n, field) ==
  IF Width(widths, n, field) = 0 THEN [name |-> "empty", value |-> 0]
  ELSE [name |-> field.name, value |-> Value(r, n, field)]

FieldOK(widths, r, n, field) ==
  /\ field.name \in Names /\ field.name # "stale" /\ Value(r, n, field) \in Nat
  /\ Width(widths, n, field) \in Nat /\ (Fixed(field) => Width(widths, n, field) # 0)

LEMMA HostIs ==
  ASSUME NEW f \in Names, NEW v \in Nat, NEW w \in Nat
  PROVE  /\ Host(f, v, w) \in Seq(Tok) /\ Len(Host(f, v, w)) = w
         /\ \A i \in 1..w : Host(f, v, w)[i] = [name |-> f, value |-> v, place |-> i]
  <1>1. \A i \in 1..w : [name |-> f, value |-> v, place |-> i] \in Tok
    BY DEF Tok
  <1> QED
    BY <1>1 DEF Host

\* t is s turned round.
Turned(S, s, t) ==
  t \in Seq(S) /\ Len(t) = Len(s) /\ \A i \in 1..Len(s) : t[i] = s[(Len(s) - i) + 1]

LEMMA ReverseIs ==
  ASSUME NEW S, NEW s \in Seq(S)
  PROVE  Turned(S, s, Reverse(s))
  <1>1. Len(s) \in Nat /\ \A i \in 1..Len(s) : (Len(s) - i) + 1 \in 1..Len(s)
    OBVIOUS
  <1>2. \A i \in 1..Len(s) : s[(Len(s) - i) + 1] \in S
    BY <1>1
  <1> QED
    BY <1>1, <1>2 DEF Reverse, Turned

\* Two halves, each turned round and exchanged, are the whole turned round.
LEMMA HtonllIs ==
  ASSUME NEW S, NEW s \in Seq(S), Len(s) = 8
  PROVE  Htonll(s) = Reverse(s)
  <1> DEFINE a == SubSeq(s, 5, 8)
  <1> DEFINE b == SubSeq(s, 1, 4)
  <1>1. /\ a \in Seq(S) /\ Len(a) = 4
        /\ \A i \in 1..4 : a[i] = s[4 + i]
    <2>1. a \in Seq(S) /\ Len(a) = 4
      <3>1. 4 \in Nat /\ 8 \in Nat /\ 4 <= 8 /\ 8 <= Len(s) /\ 4 + 1 = 5 /\ 8 - 4 = 4
        OBVIOUS
      <3>2. \A i, j \in Nat : i <= j /\ j <= Len(s) =>
              SubSeq(s, i + 1, j) \in Seq(S) /\ Len(SubSeq(s, i + 1, j)) = j - i
        BY PartIs
      <3>3. SubSeq(s, 4 + 1, 8) \in Seq(S) /\ Len(SubSeq(s, 4 + 1, 8)) = 8 - 4
        BY <3>1, <3>2
      <3> QED
        BY <3>1, <3>3
    <2>2. ASSUME NEW i \in 1..4 PROVE a[i] = s[4 + i]
      <3>1. i \in 1..((8 - 5) + 1) /\ (5 + i) - 1 = 4 + i
        OBVIOUS
      <3>2. a = [k \in 1..((8 - 5) + 1) |-> s[(5 + k) - 1]]
        OBVIOUS
      <3> QED
        BY <3>1, <3>2
    <2> QED
      BY <2>1, <2>2
  <1>2. /\ b \in Seq(S) /\ Len(b) = 4
        /\ \A i \in 1..4 : b[i] = s[i]
    OBVIOUS
  <1> HIDE DEF a, b
  <1>3. Turned(S, a, Reverse(a)) /\ Turned(S, b, Reverse(b)) /\ Turned(S, s, Reverse(s))
    BY <1>1, <1>2, ReverseIs
  <1> DEFINE ra == Reverse(a)
  <1> DEFINE rb == Reverse(b)
  <1> DEFINE rs == Reverse(s)
  <1> HIDE DEF ra, rb, rs
  <1>4. /\ ra \in Seq(S) /\ Len(ra) = 4 /\ \A i \in 1..4 : ra[i] = a[(4 - i) + 1]
        /\ rb \in Seq(S) /\ Len(rb) = 4 /\ \A i \in 1..4 : rb[i] = b[(4 - i) + 1]
        /\ rs \in Seq(S) /\ Len(rs) = 8 /\ \A i \in 1..8 : rs[i] = s[(8 - i) + 1]
    BY <1>1, <1>2, <1>3 DEF Turned, ra, rb, rs
  <1> DEFINE u == ra \o rb
  <1>5. /\ u \in Seq(S) /\ Len(u) = 8
        /\ \A i \in 1..8 : u[i] = IF i <= 4 THEN ra[i] ELSE rb[i - 4]
    <2>1. /\ u \in Seq(S) /\ Len(u) = Len(ra) + Len(rb)
          /\ \A i \in 1..(Len(ra) + Len(rb)) : u[i] = IF i <= Len(ra) THEN ra[i] ELSE rb[i - Len(ra)]
      BY <1>4, ConcatProperties
    <2> HIDE DEF u
    <2>2. Len(ra) + Len(rb) = 8
      BY <1>4
    <2> QED
      BY <1>4, <2>1, <2>2
  <1> HIDE DEF u
  <1>6. ASSUME NEW i \in 1..8 PROVE u[i] = rs[i]
    <2>1. CASE i <= 4
      <3>1. i \in 1..4 /\ (4 - i) + 1 \in 1..4 /\ 4 + ((4 - i) + 1) = (8 - i) + 1
        BY <2>1
      <3>2. u[i] = a[(4 - i) + 1]
        BY <1>4, <1>5, <2>1, <3>1
      <3>3. a[(4 - i) + 1] = s[4 + ((4 - i) + 1)]
        BY <1>1, <3>1
      <3> QED
        BY <1>4, <3>1, <3>2, <3>3
    <2>2. CASE ~(i <= 4)
      <3>1. i - 4 \in 1..4 /\ (4 - (i - 4)) + 1 \in 1..4 /\ (4 - (i - 4)) + 1 = (8 - i) + 1
        BY <2>2
      <3>2. u[i] = b[(4 - (i - 4)) + 1]
        BY <1>4, <1>5, <2>2, <3>1
      <3>3. b[(4 - (i - 4)) + 1] = s[(4 - (i - 4)) + 1]
        BY <1>2, <3>1
      <3> QED
        BY <1>4, <3>1, <3>2, <3>3
    <2> QED
      BY <2>1, <2>2
  <1>7. \A i \in 1..Len(u) : u[i] = rs[i]
    BY <1>5, <1>6
  <1>8. u = rs
    BY <1>4, <1>5, <1>7, SeqsEqual
  <1> QED
    BY <1>8 DEF Htonll, Htonl, u, a, b, ra, rb, rs

\* Turning into network order and back is turning nothing.
LEMMA NetTwice ==
  ASSUME NEW S, NEW s \in Seq(S)
  PROVE  Net(s) \in Seq(S) /\ Len(Net(s)) = Len(s) /\ Net(Net(s)) = s
  <1>1. \A t \in Seq(S) : Net(t) = Reverse(t)
    <2> SUFFICES ASSUME NEW t \in Seq(S) PROVE Net(t) = Reverse(t)
      OBVIOUS
    <2>1. CASE Len(t) = 8
      BY <2>1, HtonllIs DEF Net
    <2>2. CASE Len(t) # 8
      BY <2>2 DEF Net, Htonl
    <2> QED
      BY <2>1, <2>2
  <1> DEFINE t == Reverse(s)
  <1>2. /\ t \in Seq(S) /\ Len(t) = Len(s)
        /\ \A i \in 1..Len(s) : t[i] = s[(Len(s) - i) + 1]
    BY ReverseIs DEF Turned
  <1>3. Net(s) = t
    BY <1>1
  <1> HIDE DEF t
  <1>4. /\ Reverse(t) \in Seq(S) /\ Len(Reverse(t)) = Len(s)
        /\ \A i \in 1..Len(s) : Reverse(t)[i] = t[(Len(s) - i) + 1]
    <2>1. Turned(S, t, Reverse(t))
      BY <1>2, ReverseIs
    <2> QED
      BY <1>2, <2>1 DEF Turned
  <1>5. ASSUME NEW i \in 1..Len(s) PROVE Reverse(t)[i] = s[i]
    <2>1. /\ (Len(s) - i) + 1 \in 1..Len(s)
          /\ (Len(s) - ((Len(s) - i) + 1)) + 1 = i
      OBVIOUS
    <2>2. t[(Len(s) - i) + 1] = s[(Len(s) - ((Len(s) - i) + 1)) + 1]
      BY <1>2, <2>1
    <2> QED
      BY <1>4, <2>1, <2>2
  <1>6. Reverse(t) = s
    BY <1>4, <1>5, SeqsEqual
  <1>7. Net(t) = s
    BY <1>1, <1>2, <1>6
  <1> QED
    BY <1>2, <1>3, <1>7

\* The bytes of a field, which in the host's order are its number.
InHost(field, d) == IF field.how = "net" THEN Net(d) ELSE d
DataOf(field, w, v, d) ==
  /\ d \in Seq(Tok) /\ Len(d) = w
  /\ \A i \in 1..w : d[i].name # "stale"
  /\ \A i \in 1..w : InHost(field, d)[i] = [name |-> field.name, value |-> v, place |-> i]

\* One writeData: as many bytes as the field is wide, all of that field.
LEMMA DataIs ==
  ASSUME NEW widths, NEW r, NEW n, NEW field, FieldOK(widths, r, n, field)
  PROVE  DataOf(field, Width(widths, n, field), Value(r, n, field), WriteData(widths, r, n, field))
  <1> DEFINE w == Width(widths, n, field)
  <1> DEFINE v == Value(r, n, field)
  <1> DEFINE h == Host(field.name, v, w)
  <1> DEFINE d == WriteData(widths, r, n, field)
  <1>1. w \in Nat /\ v \in Nat /\ field.name \in Names /\ field.name # "stale"
    BY DEF FieldOK
  <1>2. d = IF field.how = "net" THEN Net(h) ELSE h
    BY DEF WriteData, Fixed, Width, Value
  <1> HIDE DEF w, v, d
  <1>3. /\ h \in Seq(Tok) /\ Len(h) = w
        /\ \A i \in 1..w : h[i] = [name |-> field.name, value |-> v, place |-> i]
    BY <1>1, HostIs
  <1> HIDE DEF h
  <1>4. CASE field.how = "net"
    <2>1. d = Net(h) /\ Net(h) \in Seq(Tok) /\ Len(Net(h)) = w /\ Net(d) = h
      BY <1>2, <1>3, <1>4, NetTwice
    <2>2. \A i \in 1..w : d[i].name # "stale"
      <3>1. Net(h) = Reverse(h)
        <4>1. CASE Len(h) = 8
          BY <1>3, <4>1, HtonllIs DEF Net
        <4>2. CASE Len(h) # 8
          BY <4>2 DEF Net, Htonl
        <4> QED
          BY <4>1, <4>2
      <3>2. \A i \in 1..w : Reverse(h)[i] = h[(w - i) + 1] /\ (w - i) + 1 \in 1..w
        <4>1. \A i \in 1..w : (w - i) + 1 \in 1..w
          BY <1>1
        <4> QED
          BY <1>3, <4>1, ReverseIs DEF Turned
      <3> SUFFICES ASSUME NEW i \in 1..w PROVE d[i].name # "stale"
        OBVIOUS
      <3>3. d[i] = h[(w - i) + 1] /\ (w - i) + 1 \in 1..w
        BY <2>1, <3>1, <3>2
      <3>4. d[i] = [name |-> field.name, value |-> v, place |-> (w - i) + 1]
        BY <1>3, <3>3
      <3> QED
        BY <1>1, <3>4
    <2> QED
      BY <1>3, <1>4, <2>1, <2>2 DEF DataOf, InHost, d, w, v
  <1>5. CASE field.how # "net"
    <2>1. d = h
      BY <1>2, <1>5
    <2>2. \A i \in 1..w : d[i].name # "stale"
      <3> SUFFICES ASSUME NEW i \in 1..w PROVE d[i].name # "stale"
        OBVIOUS
      <3>1. d[i] = [name |-> field.name, value |-> v, place |-> i]
        BY <1>3, <2>1
      <3> QED
        BY <1>1, <3>1
    <2> QED
      BY <1>3, <1>5, <2>1, <2>2 DEF DataOf, InHost, d, w, v
  <1> QED
    BY <1>4, <1>5

\* One readData of the bytes of one writeData finds the field.
LEMMA FieldIsFound ==
  ASSUME NEW widths, NEW r, NEW n, NEW field, FieldOK(widths, r, n, field),
         NEW bs, NEW at, NEW w, w = Width(widths, n, field),
         SubSeq(bs, at + 1, at + w) = WriteData(widths, r, n, field)
  PROVE  ReadField(bs, at, w, field.how) = Found(widths, r, n, field)
  <1> DEFINE d == WriteData(widths, r, n, field)
  <1> DEFINE host == InHost(field, d)
  <1> DEFINE v == Value(r, n, field)
  <1>1. /\ Len(d) = w
        /\ \A i \in 1..w : host[i] = [name |-> field.name, value |-> v, place |-> i]
    BY DataIs DEF DataOf
  <1>2. w \in Nat
    BY DEF FieldOK
  <1>3. ReadField(bs, at, w, field.how)
          = IF w = 0 THEN [name |-> "empty", value |-> 0]
            ELSE IF Len(d) = w /\ \A i \in 1..w : host[i] = [host[1] EXCEPT !.place = i]
            THEN [name |-> host[1].name, value |-> host[1].value]
            ELSE Garbled
    BY DEF ReadField, InHost
  <1> HIDE DEF host, d, v
  <1>4. CASE w = 0
    BY <1>3, <1>4 DEF Found
  <1>5. CASE w # 0
    <2>1. 1 \in 1..w
      BY <1>2, <1>5
    <2>2. host[1] = [name |-> field.name, value |-> v, place |-> 1]
      BY <1>1, <2>1
    <2>3. \A i \in 1..w : [host[1] EXCEPT !.place = i] = [name |-> field.name, value |-> v, place |-> i]
      BY <2>2
    <2>4. \A i \in 1..w : host[i] = [host[1] EXCEPT !.place = i]
      BY <1>1, <2>3
    <2>5. host[1].name = field.name /\ host[1].value = v
      BY <2>2
    <2> QED
      BY <1>1, <1>3, <1>5, <2>4, <2>5 DEF Found, v
  <1> QED
    BY <1>4, <1>5

-----------------------------------------------------------------------------
(* Wire: a list of fields *)

\* Each field is well formed, no name comes twice, and a tail's length comes before it.
ListOK(widths, fields, r, n) ==
  /\ Len(fields) \in Nat
  /\ \A i \in 1..Len(fields) : FieldOK(widths, r, n, fields[i])
  /\ \A i, j \in 1..Len(fields) : fields[i].name = fields[j].name => i = j
  /\ \A i \in 1..Len(fields) : ~Fixed(fields[i]) =>
       \E j \in 1..(i - 1) : /\ fields[j].name = fields[i].how /\ Fixed(fields[j])
                             /\ Value(r, n, fields[j]) = n

\* What has been written after each field.
Outs(o, m, widths, fields, r, n) ==
  o = [i \in 0..m |-> IF i = 0 THEN <<>> ELSE o[i - 1] \o WriteData(widths, r, n, fields[i])]

OutSteps(o, widths, fields, r, n) ==
  /\ o[0] = <<>>
  /\ \A i \in 1..Len(fields) : o[i] = o[i - 1] \o WriteData(widths, r, n, fields[i])

LEMMA OutsExist ==
  ASSUME NEW m \in Nat, NEW widths, NEW fields, NEW r, NEW n
  PROVE  \E o : Outs(o, m, widths, fields, r, n)
  <1> DEFINE bad == {k \in Nat : ~\E o : Outs(o, k, widths, fields, r, n)}
  <1>1. SUFFICES ASSUME bad # {} PROVE FALSE
    BY <1>1
  <1>2. PICK k \in bad : \A y \in bad : k <= y
    BY <1>1, LeastOf
  <1>3. k # 0
    <2>1. Outs([i \in 0..0 |-> <<>>], 0, widths, fields, r, n)
      BY DEF Outs
    <2> QED
      BY <2>1
  <1>4. k - 1 \in Nat /\ k - 1 \notin bad
    BY <1>2, <1>3
  <1>5. PICK f : Outs(f, k - 1, widths, fields, r, n)
    BY <1>4
  <1> DEFINE g == [i \in 0..k |-> IF i = k THEN f[k - 1] \o WriteData(widths, r, n, fields[k])
                                  ELSE f[i]]
  <1>6. Outs(g, k, widths, fields, r, n)
    <2>1. /\ DOMAIN f = 0..(k - 1) /\ f[0] = <<>>
          /\ \A i \in 1..(k - 1) : f[i] = f[i - 1] \o WriteData(widths, r, n, fields[i])
      <3> HIDE DEF g
      <3>1. DOMAIN f = 0..(k - 1)
        BY ONLY <1>5, Zenon DEF Outs
      <3>2. \A i \in 0..(k - 1) :
              f[i] = IF i = 0 THEN <<>> ELSE f[i - 1] \o WriteData(widths, r, n, fields[i])
        BY ONLY <1>5, Zenon DEF Outs
      <3>3. 0 \in 0..(k - 1) /\ \A i \in 1..(k - 1) : i \in 0..(k - 1) /\ i # 0
        BY <1>4
      <3> QED
        BY ONLY <3>1, <3>2, <3>3, Zenon
    <2>2. /\ g[0] = <<>> /\ g[k] = f[k - 1] \o WriteData(widths, r, n, fields[k])
          /\ \A i \in 0..(k - 1) : g[i] = f[i]
      BY <1>3, <1>4, <2>1
    <2>3. g = [i \in 0..k |-> g[i]]
      OBVIOUS
    <2> HIDE DEF g
    <2>4. ASSUME NEW i \in 0..k, i # 0
          PROVE  g[i] = g[i - 1] \o WriteData(widths, r, n, fields[i])
      <3>1. i - 1 \in 0..(k - 1) /\ g[i - 1] = f[i - 1]
        BY <1>4, <2>2, <2>4
      <3>2. CASE i = k
        BY <2>2, <3>1, <3>2
      <3>3. CASE i # k
        <4>1. i \in 1..(k - 1) /\ i \in 0..(k - 1)
          BY <1>4, <2>4, <3>3
        <4> QED
          BY <2>1, <2>2, <3>1, <4>1
      <3> QED
        BY <3>2, <3>3
    <2> QED
      BY <2>2, <2>3, <2>4 DEF Outs
  <1> QED
    BY <1>2, <1>6

LEMMA WriteIs ==
  ASSUME NEW widths, NEW fields, NEW r, NEW n, Len(fields) \in Nat
  PROVE  \E o : /\ OutSteps(o, widths, fields, r, n)
                /\ WriteFields(widths, fields, r, n) = o[Len(fields)]
  <1> DEFINE m == Len(fields)
  <1> DEFINE o == CHOOSE g : g = [i \in 0..m |-> IF i = 0 THEN <<>>
                                  ELSE g[i - 1] \o WriteData(widths, r, n, fields[i])]
  <1>1. Outs(o, m, widths, fields, r, n)
    <2> HIDE DEF m
    <2>1. \E g : Outs(g, m, widths, fields, r, n)
      BY OutsExist DEF m
    <2> QED
      BY <2>1 DEF Outs
  <1>2. WriteFields(widths, fields, r, n) = o[m]
    BY DEF WriteFields
  <1> HIDE DEF o
  <1>3. OutSteps(o, widths, fields, r, n)
    <2> HIDE DEF m
    <2>1. \A i \in 0..m : o[i] = IF i = 0 THEN <<>>
                                 ELSE o[i - 1] \o WriteData(widths, r, n, fields[i])
      BY <1>1 DEF Outs
    <2>2. m \in Nat /\ 0 \in 0..m /\ \A i \in 1..m : i \in 0..m /\ i # 0
      BY DEF m
    <2> QED
      BY <2>1, <2>2 DEF OutSteps, m
  <1> QED
    BY <1>2, <1>3

\* Each field lies behind what was written before it, and stays there.
LaidOut(o, widths, fields, r, n) ==
  LET m == Len(fields)
  IN  /\ \A i \in 0..m : o[i] \in Seq(Tok) /\ \A k \in 1..Len(o[i]) : o[i][k].name # "stale"
      /\ \A i \in 1..m :
           LET d == WriteData(widths, r, n, fields[i])
               l == Len(o[i - 1])
           IN  /\ Len(o[i]) = l + Width(widths, n, fields[i])
               /\ \A k \in 1..l : o[i][k] = o[i - 1][k]
               /\ \A k \in 1..Width(widths, n, fields[i]) : o[i][l + k] = d[k]
      /\ \A i \in 0..m : Len(o[i]) <= Len(o[m]) /\ \A k \in 1..Len(o[i]) : o[m][k] = o[i][k]

LEMMA OutsAre ==
  ASSUME NEW widths, NEW fields, NEW r, NEW n, ListOK(widths, fields, r, n),
         NEW o, OutSteps(o, widths, fields, r, n)
  PROVE  LaidOut(o, widths, fields, r, n)
  <1> DEFINE m == Len(fields)
  <1> DEFINE D(i) == WriteData(widths, r, n, fields[i])
  <1> DEFINE W(i) == Width(widths, n, fields[i])
  <1> DEFINE Clean(s) == s \in Seq(Tok) /\ \A k \in 1..Len(s) : s[k].name # "stale"
  <1> DEFINE Extends(s, i) == /\ Len(s) = Len(o[i - 1]) + W(i)
                              /\ \A k \in 1..Len(o[i - 1]) : s[k] = o[i - 1][k]
                              /\ \A k \in 1..W(i) : s[Len(o[i - 1]) + k] = D(i)[k]
  <1>1. m \in Nat /\ o[0] = <<>> /\ \A i \in 1..m : o[i] = o[i - 1] \o D(i)
    BY DEF ListOK, OutSteps
  <1>2. \A i \in 1..m : W(i) \in Nat /\ Clean(D(i)) /\ Len(D(i)) = W(i)
    <2> SUFFICES ASSUME NEW i \in 1..m PROVE W(i) \in Nat /\ Clean(D(i)) /\ Len(D(i)) = W(i)
      OBVIOUS
    <2>1. FieldOK(widths, r, n, fields[i])
      BY DEF ListOK
    <2>2. W(i) \in Nat
      BY <2>1 DEF FieldOK
    <2>3. D(i) \in Seq(Tok) /\ Len(D(i)) = W(i) /\ \A k \in 1..W(i) : D(i)[k].name # "stale"
      BY <2>1, DataIs DEF DataOf
    <2> QED
      BY <2>2, <2>3
  <1> HIDE DEF m, D, W
  <1>3. ASSUME NEW i \in 1..m, Clean(o[i - 1]) PROVE Clean(o[i]) /\ Extends(o[i], i)
    <2> DEFINE s == o[i - 1]
    <2> DEFINE d == D(i)
    <2> DEFINE w == W(i)
    <2>0. Clean(d) /\ Len(d) = w /\ w \in Nat /\ o[i] = s \o d
      BY <1>1, <1>2, <1>3
    <2> HIDE DEF s, d, w
    <2>1. /\ s \in Seq(Tok) /\ d \in Seq(Tok) /\ Len(d) = w /\ w \in Nat /\ Len(s) \in Nat
          /\ \A k \in 1..Len(s) : s[k].name # "stale"
          /\ \A k \in 1..w : d[k].name # "stale"
          /\ o[i] = s \o d
      <3>1. Clean(s)
        BY <1>3 DEF s
      <3> QED
        BY <2>0, <3>1
    <2>2. /\ s \o d \in Seq(Tok) /\ Len(s \o d) = Len(s) + w
          /\ \A k \in 1..(Len(s) + w) :
               (s \o d)[k] = IF k <= Len(s) THEN s[k] ELSE d[k - Len(s)]
      BY ONLY <2>1, ConcatProperties
    <2>3. \A k \in 1..Len(s) : (s \o d)[k] = s[k]
      <3>1. \A k \in 1..Len(s) : k \in 1..(Len(s) + w) /\ k <= Len(s)
        BY <2>1
      <3> QED
        BY <2>2, <3>1
    <2>4. \A k \in 1..w : (s \o d)[Len(s) + k] = d[k]
      <3>1. \A k \in 1..w : /\ Len(s) + k \in 1..(Len(s) + w) /\ ~(Len(s) + k <= Len(s))
                               /\ (Len(s) + k) - Len(s) = k
        BY <2>1
      <3> QED
        BY <2>2, <3>1
    <2>5. \A k \in 1..(Len(s) + w) : (s \o d)[k].name # "stale"
      <3> SUFFICES ASSUME NEW k \in 1..(Len(s) + w) PROVE (s \o d)[k].name # "stale"
        OBVIOUS
      <3>1. CASE k <= Len(s)
        <4>1. k \in 1..Len(s)
          BY <2>1, <3>1
        <4> QED
          BY <2>1, <2>3, <4>1
      <3>2. CASE ~(k <= Len(s))
        <4>1. k - Len(s) \in 1..w
          BY <2>1, <3>2
        <4>2. (s \o d)[k] = d[k - Len(s)]
          BY <2>2, <3>2
        <4> QED
          BY <2>1, <4>1, <4>2
      <3> QED
        BY <3>1, <3>2
    <2>6. Clean(o[i])
      BY <2>1, <2>2, <2>5
    <2> QED
      BY <2>1, <2>2, <2>3, <2>4, <2>6 DEF s, d, w
  <1> HIDE DEF Clean, Extends
  <1>4. \A i \in 0..m : Clean(o[i])
    <2> DEFINE bad == {i \in 0..m : ~Clean(o[i])}
    <2> SUFFICES ASSUME bad # {} PROVE FALSE
      OBVIOUS
    <2>1. bad \in SUBSET Nat
      OBVIOUS
    <2>2. PICK i \in bad : \A y \in bad : i <= y
      BY <2>1, LeastOf
    <2>3. Clean(<<>>)
      <3>1. <<>> \in Seq(Tok) /\ Len(<<>>) = 0 /\ \A k \in 1..0 : FALSE
        OBVIOUS
      <3> QED
        BY <3>1 DEF Clean
    <2>4. i # 0
      BY <1>1, <2>3
    <2>5. i \in 1..m /\ i - 1 \in 0..m /\ ~(i <= i - 1)
      BY <1>1, <2>4
    <2>6. Clean(o[i - 1])
      BY <2>2, <2>5
    <2> QED
      BY <1>3, <2>5, <2>6
  <1>5. \A i \in 1..m : Extends(o[i], i)
    <2> SUFFICES ASSUME NEW i \in 1..m PROVE Extends(o[i], i)
      OBVIOUS
    <2>1. i - 1 \in 0..m
      BY <1>1
    <2> QED
      BY <1>3, <1>4, <2>1
  <1> DEFINE Begins(s, t) == Len(s) <= Len(t) /\ \A k \in 1..Len(s) : t[k] = s[k]
  <1>6. ASSUME NEW i \in 0..m PROVE \A j \in i..m : Begins(o[i], o[j])
    <2> DEFINE bad == {j \in i..m : ~Begins(o[i], o[j])}
    <2> SUFFICES ASSUME bad # {} PROVE FALSE
      OBVIOUS
    <2>1. bad \in SUBSET Nat
      BY <1>1
    <2>2. PICK j \in bad : \A y \in bad : j <= y
      BY <2>1, LeastOf
    <2>3. j # i
      <3>1. Len(o[i]) \in Nat
        BY <1>4, <1>6 DEF Clean
      <3>2. Begins(o[i], o[i])
        BY <3>1
      <3> QED
        BY <2>2, <3>2
    <2>4. j \in 1..m /\ j - 1 \in i..m /\ j - 1 \in 0..m /\ j \in 0..m /\ ~(j <= j - 1)
      BY <1>1, <1>6, <2>3
    <2>5. Begins(o[i], o[j - 1])
      BY <2>2, <2>4
    <2>6. Extends(o[j], j) /\ W(j) \in Nat
      BY <1>2, <1>5, <2>4
    <2>7. Len(o[i]) \in Nat /\ Len(o[j - 1]) \in Nat
      BY <1>4, <1>6, <2>4 DEF Clean
    <2>8. Begins(o[i], o[j])
      <3>1. Len(o[j]) = Len(o[j - 1]) + W(j) /\ \A k \in 1..Len(o[j - 1]) : o[j][k] = o[j - 1][k]
        BY <2>6 DEF Extends
      <3>2. Len(o[i]) <= Len(o[j])
        BY <2>5, <2>6, <2>7, <3>1
      <3>3. \A k \in 1..Len(o[i]) : k \in 1..Len(o[j - 1])
        BY <2>5, <2>7
      <3> QED
        BY <2>5, <3>1, <3>2, <3>3
    <2> QED
      BY <2>2, <2>8
  <1>7. \A i \in 0..m : Begins(o[i], o[m])
    <2>1. \A i \in 0..m : m \in i..m
      BY <1>1
    <2> QED
      BY <1>6, <2>1
  <1> QED
    BY <1>4, <1>5, <1>7 DEF LaidOut, Clean, Extends, m, D, W

\* What a deserializer has found after each field.
Passes(p, m, widths, fields, bs, start) ==
  p = [i \in 0..m |-> IF i = 0 THEN [at |-> start, got |-> [f \in {} |-> Garbled]]
                      ELSE ReadOne(widths, bs, p[i - 1], fields[i])]

LEMMA PassesExist ==
  ASSUME NEW m \in Nat, NEW widths, NEW fields, NEW bs, NEW start
  PROVE  \E p : Passes(p, m, widths, fields, bs, start)
  <1> DEFINE s0 == [at |-> start, got |-> [f \in {} |-> Garbled]]
  <1> DEFINE bad == {k \in Nat : ~\E p : Passes(p, k, widths, fields, bs, start)}
  <1>1. SUFFICES ASSUME bad # {} PROVE FALSE
    BY <1>1
  <1>2. PICK k \in bad : \A y \in bad : k <= y
    BY <1>1, LeastOf
  <1>3. k # 0
    <2>1. Passes([i \in 0..0 |-> s0], 0, widths, fields, bs, start)
      BY DEF Passes
    <2> QED
      BY <2>1
  <1>4. k - 1 \in Nat /\ k - 1 \notin bad
    BY <1>2, <1>3
  <1>5. PICK f : Passes(f, k - 1, widths, fields, bs, start)
    BY <1>4
  <1> HIDE DEF s0
  <1> DEFINE g == [i \in 0..k |-> IF i = k THEN ReadOne(widths, bs, f[k - 1], fields[k]) ELSE f[i]]
  <1>6. Passes(g, k, widths, fields, bs, start)
    <2>1. /\ DOMAIN f = 0..(k - 1) /\ f[0] = s0
          /\ \A i \in 1..(k - 1) : f[i] = ReadOne(widths, bs, f[i - 1], fields[i])
      BY <1>4, <1>5 DEF Passes, s0
    <2>2. /\ g[0] = s0 /\ g[k] = ReadOne(widths, bs, f[k - 1], fields[k])
          /\ \A i \in 0..(k - 1) : g[i] = f[i]
      BY <1>3, <1>4, <2>1
    <2>3. g = [i \in 0..k |-> g[i]]
      OBVIOUS
    <2> HIDE DEF g
    <2>4. ASSUME NEW i \in 0..k, i # 0 PROVE g[i] = ReadOne(widths, bs, g[i - 1], fields[i])
      <3>1. i - 1 \in 0..(k - 1) /\ g[i - 1] = f[i - 1]
        BY <1>4, <2>2, <2>4
      <3>2. CASE i = k
        BY <2>2, <3>1, <3>2
      <3>3. CASE i # k
        <4>1. i \in 1..(k - 1) /\ i \in 0..(k - 1)
          BY <1>4, <2>4, <3>3
        <4> QED
          BY <2>1, <2>2, <3>1, <4>1
      <3> QED
        BY <3>2, <3>3
    <2> QED
      BY <2>2, <2>3, <2>4 DEF Passes, s0
  <1> QED
    BY <1>2, <1>6

Finds(got, widths, fields, r, n) ==
  /\ DOMAIN got = {fields[i].name : i \in 1..Len(fields)}
  /\ \A i \in 1..Len(fields) : got[fields[i].name] = Found(widths, r, n, fields[i])

\* A deserializer that goes over bytes written for the same list finds each field.
LEMMA ReadIs ==
  ASSUME NEW widths, NEW fields, NEW r, NEW n, ListOK(widths, fields, r, n),
         NEW o, OutSteps(o, widths, fields, r, n),
         NEW bs \in Seq(Tok), NEW start \in Nat,
         start + Len(o[Len(fields)]) <= Len(bs),
         \A k \in 1..Len(o[Len(fields)]) : bs[start + k] = o[Len(fields)][k]
  PROVE  Finds(ReadFields(widths, fields, bs, start).got, widths, fields, r, n)
  <1> DEFINE m == Len(fields)
  <1> DEFINE s0 == [at |-> start, got |-> [f \in {} |-> Garbled]]
  <1> DEFINE p == CHOOSE g : g = [i \in 0..m |-> IF i = 0 THEN s0
                                  ELSE ReadOne(widths, bs, g[i - 1], fields[i])]
  <1>1. ReadFields(widths, fields, bs, start) = p[m]
    BY DEF ReadFields
  <1>2. m \in Nat
    BY DEF ListOK
  <1>3. Passes(p, m, widths, fields, bs, start)
    <2> HIDE DEF m
    <2>1. \E g : Passes(g, m, widths, fields, bs, start)
      BY <1>2, PassesExist
    <2> QED
      BY <2>1 DEF Passes
  <1> HIDE DEF p
  <1>4. p[0] = s0 /\ \A i \in 1..m : p[i] = ReadOne(widths, bs, p[i - 1], fields[i])
    <2> HIDE DEF m, s0
    <2>1. \A i \in 0..m : p[i] = IF i = 0 THEN s0 ELSE ReadOne(widths, bs, p[i - 1], fields[i])
      BY <1>3 DEF Passes, s0
    <2>2. 0 \in 0..m /\ \A i \in 1..m : i \in 0..m /\ i # 0
      BY <1>2
    <2> QED
      BY <2>1, <2>2
  <1> DEFINE Name(i) == fields[i].name
  <1> DEFINE W(i) == Width(widths, n, fields[i])
  <1> DEFINE D(i) == WriteData(widths, r, n, fields[i])
  <1> DEFINE F(i) == Found(widths, r, n, fields[i])
  <1>5. /\ \A i \in 0..m : o[i] \in Seq(Tok) /\ Len(o[i]) <= Len(o[m])
                           /\ \A k \in 1..Len(o[i]) : o[m][k] = o[i][k]
        /\ \A i \in 1..m : /\ Len(o[i]) = Len(o[i - 1]) + W(i)
                           /\ \A k \in 1..W(i) : o[i][Len(o[i - 1]) + k] = D(i)[k]
    <2>1. LaidOut(o, widths, fields, r, n)
      BY OutsAre
    <2> QED
      BY <2>1 DEF LaidOut
  <1>6. o[0] = <<>> /\ Len(o[0]) = 0
    BY DEF OutSteps
  <1>7. \A i \in 1..m : FieldOK(widths, r, n, fields[i]) /\ W(i) \in Nat
    BY DEF ListOK, FieldOK
  <1>8. \A i, j \in 1..m : Name(i) = Name(j) => i = j
    BY DEF ListOK
  <1>9. \A i \in 1..m : ~Fixed(fields[i]) =>
          \E j \in 1..(i - 1) : /\ Name(j) = fields[i].how /\ Fixed(fields[j])
                                /\ Value(r, n, fields[j]) = n
    BY DEF ListOK
  <1>10. \A i \in 1..m : D(i) \in Seq(Tok) /\ Len(D(i)) = W(i)
    BY <1>7, DataIs DEF DataOf
  <1> DEFINE Done(k) == /\ p[k] = [at |-> p[k].at, got |-> p[k].got]
                        /\ p[k].at = start + Len(o[k])
                        /\ DOMAIN p[k].got = {Name(i) : i \in 1..k}
                        /\ \A i \in 1..k : p[k].got[Name(i)] = F(i)
  <1>11. Done(0)
    <2>1. {Name(i) : i \in 1..0} = {} /\ \A i \in 1..0 : FALSE
      OBVIOUS
    <2>2. /\ s0 = [at |-> s0.at, got |-> s0.got] /\ s0.at = start
          /\ DOMAIN s0.got = {}
      OBVIOUS
    <2> HIDE DEF s0, Name, F
    <2> QED
      BY <1>4, <1>6, <2>1, <2>2
  <1>12. ASSUME NEW k \in 1..m, Done(k - 1) PROVE Done(k)
    <2> DEFINE acc == p[k - 1]
    <2> DEFINE field == fields[k]
    <2> DEFINE width == IF field.how \in {"net", "raw"} THEN widths[field.name]
                        ELSE acc.got[field.how].value
    <2>1. k - 1 \in 0..m /\ k \in 0..m /\ k \in Nat /\ k >= 1
      BY <1>2
    <2>2. /\ acc.at = start + Len(o[k - 1]) /\ DOMAIN acc.got = {Name(i) : i \in 1..(k - 1)}
          /\ \A i \in 1..(k - 1) : acc.got[Name(i)] = F(i)
      BY <1>12
    <2>3. width = W(k)
      <3>1. CASE Fixed(field)
        BY <3>1 DEF Fixed, Width
      <3>2. CASE ~Fixed(field)
        <4>1. PICK j \in 1..(k - 1) : /\ Name(j) = field.how /\ Fixed(fields[j])
                                      /\ Value(r, n, fields[j]) = n
          BY <1>9, <3>2
        <4>2. j \in 1..m
          BY <1>2
        <4>3. acc.got[field.how] = F(j)
          BY <2>2, <4>1
        <4>4. F(j).value = n
          <5>1. Width(widths, n, fields[j]) # 0
            BY <1>7, <4>1, <4>2 DEF FieldOK
          <5> QED
            BY <4>1, <5>1 DEF Found
        <4>5. width = n
          BY <3>2, <4>3, <4>4 DEF Fixed
        <4>6. W(k) = n
          BY <3>2 DEF Width
        <4> QED
          BY <4>5, <4>6
      <3> QED
        BY <3>1, <3>2
    <2>4. p[k] = [at |-> acc.at + width,
                  got |-> [f \in DOMAIN acc.got \cup {field.name} |->
                             IF f = field.name THEN ReadField(bs, acc.at, width, field.how)
                             ELSE acc.got[f]]]
      BY <1>4 DEF ReadOne
    <2> HIDE DEF width, acc
    <2>5. W(k) \in Nat /\ Len(o[k - 1]) \in Nat /\ Len(o[k]) \in Nat /\ Len(o[m]) \in Nat
          /\ Len(bs) \in Nat
      <3>1. m \in 0..m
        BY <1>2
      <3> QED
        BY <1>5, <1>7, <2>1, <3>1
    <2>6. /\ Len(o[k]) = Len(o[k - 1]) + W(k) /\ Len(o[k]) <= Len(o[m])
          /\ \A i \in 1..Len(o[k]) : o[m][i] = o[k][i]
          /\ \A i \in 1..W(k) : o[k][Len(o[k - 1]) + i] = D(k)[i]
      BY <1>5, <2>1
    <2>7. \A i \in 1..W(k) : bs[acc.at + i] = D(k)[i]
      <3> SUFFICES ASSUME NEW i \in 1..W(k) PROVE bs[acc.at + i] = D(k)[i]
        OBVIOUS
      <3> DEFINE at == Len(o[k - 1])
      <3>1. /\ at + i \in 1..Len(o[k]) /\ at + i \in 1..Len(o[m]) /\ (start + at) + i = start + (at + i)
        BY <2>5, <2>6, SMTT(20)
      <3>2. bs[start + (at + i)] = o[m][at + i]
        BY <3>1
      <3>3. o[m][at + i] = D(k)[i]
        BY <2>6, <3>1
      <3> QED
        BY <2>2, <3>1, <3>2, <3>3
    <2>8. SubSeq(bs, acc.at + 1, acc.at + W(k)) = D(k)
      <3> DEFINE t == SubSeq(bs, acc.at + 1, acc.at + W(k))
      <3>1. /\ acc.at \in Nat /\ acc.at + W(k) \in Nat /\ acc.at <= acc.at + W(k)
            /\ acc.at + W(k) <= Len(bs) /\ (acc.at + W(k)) - acc.at = W(k)
        <4> DEFINE a == acc.at
        <4> DEFINE w == W(k)
        <4> DEFINE u == Len(o[k - 1])
        <4> DEFINE v == Len(o[k])
        <4> DEFINE z == Len(o[m])
        <4> DEFINE b == Len(bs)
        <4>1. start + z <= b /\ start \in Nat
          BY DEF m
        <4>2. /\ w \in Nat /\ u \in Nat /\ v \in Nat /\ z \in Nat /\ b \in Nat
              /\ a = start + u /\ v = u + w /\ v <= z
          BY <2>2, <2>5, <2>6
        <4> HIDE DEF a, w, u, v, z, b
        <4>3. a \in Nat /\ a + w \in Nat /\ a <= a + w /\ a + w <= b /\ (a + w) - a = w
          BY ONLY <4>1, <4>2
        <4> QED
          BY <4>3 DEF a, w, b
      <3>2. /\ t \in Seq(Tok) /\ Len(t) = (acc.at + W(k)) - acc.at
            /\ \A i \in 1..((acc.at + W(k)) - acc.at) : t[i] = bs[acc.at + i]
        <4> DEFINE a == acc.at
        <4> DEFINE e == acc.at + W(k)
        <4>1. a \in Nat /\ e \in Nat /\ a <= e /\ e <= Len(bs) /\ bs \in Seq(Tok)
          BY <3>1
        <4> HIDE DEF a, e
        <4>2. LET u == SubSeq(bs, a + 1, e)
              IN  u \in Seq(Tok) /\ Len(u) = e - a /\ \A i \in 1..(e - a) : u[i] = bs[a + i]
          BY ONLY <4>1, PartIs
        <4> QED
          BY <4>2 DEF a, e
      <3> HIDE DEF t
      <3>3. D(k) \in Seq(Tok) /\ Len(D(k)) = W(k)
        BY <1>10
      <3> HIDE DEF D, W
      <3>4. \A i \in 1..Len(t) : t[i] = D(k)[i]
        BY <2>7, <3>1, <3>2
      <3>5. t = D(k)
        BY <3>1, <3>2, <3>3, <3>4, SeqsEqual
      <3> QED
        BY <3>5 DEF t
    <2>9. ReadField(bs, acc.at, width, field.how) = F(k)
      <3>1. FieldOK(widths, r, n, field)
        BY <1>7
      <3> QED
        BY <2>3, <2>8, <3>1, FieldIsFound
    <2> HIDE DEF F, D, W, field, Name
    <2>10. /\ p[k] = [at |-> p[k].at, got |-> p[k].got]
           /\ p[k].at = acc.at + W(k)
           /\ p[k].got = [f \in DOMAIN acc.got \cup {Name(k)} |->
                            IF f = Name(k) THEN F(k) ELSE acc.got[f]]
      BY <2>3, <2>4, <2>9 DEF field, Name
    <2>11. p[k].at = start + Len(o[k])
      BY <2>2, <2>5, <2>6, <2>10
    <2>12. \A i \in 1..k : i \in 1..m /\ (i = k \/ i \in 1..(k - 1))
      BY <1>2
    <2>13. \A i \in 1..(k - 1) : i \in 1..k /\ i # k /\ i \in 1..m
      BY <1>2
    <2>14. DOMAIN p[k].got = {Name(i) : i \in 1..k}
      <3>1. DOMAIN p[k].got = {Name(i) : i \in 1..(k - 1)} \cup {Name(k)}
        BY <2>2, <2>10
      <3>2. k \in 1..k
        BY <2>1
      <3> QED
        BY <2>12, <2>13, <3>1, <3>2
    <2>15. ASSUME NEW i \in 1..k PROVE p[k].got[Name(i)] = F(i)
      <3>1. CASE i = k
        BY <2>10, <3>1
      <3>2. CASE i # k
        <4>1. i \in 1..(k - 1) /\ Name(i) \in DOMAIN acc.got
          BY <2>2, <2>12, <3>2
        <4>2. Name(i) # Name(k)
          <5>1. i \in 1..m /\ k \in 1..m
            BY <2>12
          <5> QED
            BY <1>8, <3>2, <5>1
        <4>3. p[k].got[Name(i)] = acc.got[Name(i)]
          BY <2>10, <4>1, <4>2
        <4> QED
          BY <2>2, <4>1, <4>3
      <3> QED
        BY <3>1, <3>2
    <2> QED
      BY <2>10, <2>11, <2>14, <2>15
  <1> HIDE DEF Done
  <1>13. Done(m)
    <2> DEFINE bad == {k \in 0..m : ~Done(k)}
    <2>1. bad = {}
      <3> SUFFICES ASSUME bad # {} PROVE FALSE
        OBVIOUS
      <3>1. bad \in SUBSET Nat
        OBVIOUS
      <3>2. PICK k \in bad : \A y \in bad : k <= y
        BY <3>1, LeastOf
      <3>3. k # 0
        BY <1>11
      <3>4. k \in 1..m /\ k - 1 \in 0..m /\ ~(k <= k - 1)
        BY <1>2, <3>3
      <3>5. Done(k - 1)
        BY <3>2, <3>4
      <3> QED
        BY <1>12, <3>4, <3>5
    <2>2. m \in 0..m
      BY <1>2
    <2> QED
      BY <2>1, <2>2
  <1> QED
    BY <1>1, <1>13 DEF Done, Finds

-----------------------------------------------------------------------------
(* Wire: the messages *)

FixedIs(widths, field, name, w) == Fixed(field) /\ field.name = name /\ widths[name] = w
HeadAndTail(field, name, length) == ~Fixed(field) /\ field.name = name /\ field.how = length

\* The lengths of what has been written add up.
Sums(l, widths, fields, n) ==
  /\ \A i \in 0..Len(fields) : l[i] \in Nat
  /\ l[0] = 0 /\ \A i \in 1..Len(fields) : l[i] = l[i - 1] + Width(widths, n, fields[i])

\* The bytes of the macro for a message that no field takes.
Surplus(kind) == IF kind = "PDU" THEN 4 ELSE 0

\* A list of fields that is a message: all the fields of the struct, and as many
\* bytes as the macro says but for the surplus.
BodyOK(r, fields, n) ==
  /\ ListOK(Struct[r.kind], fields, r, n)
  /\ \A f \in DOMAIN Struct[r.kind] :
       \E i \in 1..Len(fields) : Fixed(fields[i]) /\ fields[i].name = f
  /\ \A l : Sums(l, Struct[r.kind], fields, n) =>
              l[Len(fields)] + Surplus(r.kind) = BodyLen[r.kind] + n
  /\ BodyLen[r.kind] \in Nat

LEMMA FixedFieldOK ==
  ASSUME NEW widths, NEW r, NEW n \in Nat, NEW field, NEW name \in Names, NEW w \in Nat \ {0},
         FixedIs(widths, field, name, w), name # "stale", name # "body_len"
  PROVE  FieldOK(widths, r, n, field) /\ Width(widths, n, field) = w
  BY DEF FixedIs, FieldOK, Width, Value, ValueOf

LEMMA LengthFieldIs ==
  ASSUME NEW widths, NEW field, NEW name \in {"msg_len", "chunk_size"}, NEW w,
         NEW r, NEW n, FixedIs(widths, field, name, w)
  PROVE  Value(r, n, field) = n
  BY DEF FixedIs, Value, ValueOf

LEMMA TailFieldOK ==
  ASSUME NEW widths, NEW field, NEW name \in Names, NEW length,
         HeadAndTail(field, name, length), name # "stale", NEW r, NEW n \in Nat
  PROVE  FieldOK(widths, r, n, field) /\ Width(widths, n, field) = n
  BY DEF HeadAndTail, FieldOK, Width, Value

LEMMA PDUList ==
  ASSUME NEW r, NEW n \in Nat, r.kind = "PDU"
  PROVE  BodyOK(r, ClientWritesPDU, n)
  <1> DEFINE ws == Struct[r.kind]
  <1> DEFINE fs == ClientWritesPDU
  <1>1. /\ Len(fs) = 6
        /\ FixedIs(ws, fs[1], "code", 4)
        /\ FixedIs(ws, fs[2], "user", 20)
        /\ FixedIs(ws, fs[3], "pwd", 20)
        /\ FixedIs(ws, fs[4], "file_name", 100)
        /\ FixedIs(ws, fs[5], "msg_len", 4)
        /\ HeadAndTail(fs[6], "msg", "msg_len")
    BY DEF ClientWritesPDU, Struct, PDU, N, R, T, FixedIs, HeadAndTail, Fixed
  <1>2. DOMAIN ws = {"code", "user", "pwd", "file_name", "msg_len"}
    BY DEF Struct, PDU
  <1>3. BodyLen[r.kind] = 152 /\ Surplus(r.kind) = 4
    BY DEF BodyLen, Surplus
  <1> HIDE DEF ws, fs
  <1>4. /\ FieldOK(ws, r, n, fs[1]) /\ Width(ws, n, fs[1]) = 4
        /\ FieldOK(ws, r, n, fs[2]) /\ Width(ws, n, fs[2]) = 20
        /\ FieldOK(ws, r, n, fs[3]) /\ Width(ws, n, fs[3]) = 20
        /\ FieldOK(ws, r, n, fs[4]) /\ Width(ws, n, fs[4]) = 100
        /\ FieldOK(ws, r, n, fs[5]) /\ Width(ws, n, fs[5]) = 4
        /\ FieldOK(ws, r, n, fs[6]) /\ Width(ws, n, fs[6]) = n
        /\ Value(r, n, fs[5]) = n
    <2>1. /\ "code" \in Names /\ "user" \in Names /\ "pwd" \in Names
          /\ "file_name" \in Names /\ "msg_len" \in Names /\ "msg" \in Names
      BY DEF Names
    <2>2. /\ FieldOK(ws, r, n, fs[1]) /\ Width(ws, n, fs[1]) = 4
          /\ FieldOK(ws, r, n, fs[2]) /\ Width(ws, n, fs[2]) = 20
          /\ FieldOK(ws, r, n, fs[3]) /\ Width(ws, n, fs[3]) = 20
      BY ONLY <1>1, <2>1, n \in Nat, FixedFieldOK
    <2>3. /\ FieldOK(ws, r, n, fs[4]) /\ Width(ws, n, fs[4]) = 100
          /\ FieldOK(ws, r, n, fs[5]) /\ Width(ws, n, fs[5]) = 4
      BY ONLY <1>1, <2>1, n \in Nat, FixedFieldOK
    <2>4. FieldOK(ws, r, n, fs[6]) /\ Width(ws, n, fs[6]) = n
      BY ONLY <1>1, <2>1, n \in Nat, TailFieldOK
    <2>5. Value(r, n, fs[5]) = n
      BY ONLY <1>1, LengthFieldIs
    <2> QED
      BY <2>2, <2>3, <2>4, <2>5
  <1>5. \A i \in 1..6 : i = 1 \/ i = 2 \/ i = 3 \/ i = 4 \/ i = 5 \/ i = 6
    OBVIOUS
  <1>6. ListOK(ws, fs, r, n)
    <2>1. \A i \in 1..6 : FieldOK(ws, r, n, fs[i])
      BY <1>4, <1>5
    <2>2. \A i, j \in 1..6 : fs[i].name = fs[j].name => i = j
      BY <1>1, <1>5 DEF FixedIs, HeadAndTail
    <2>3. ASSUME NEW i \in 1..6, ~Fixed(fs[i])
          PROVE  \E j \in 1..(i - 1) : fs[j].name = fs[i].how /\ Fixed(fs[j]) /\ Value(r, n, fs[j]) = n
      <3>1. i = 6
        BY <1>1, <1>5, <2>3 DEF FixedIs
      <3>2. 5 \in 1..(i - 1) /\ fs[5].name = fs[i].how /\ Fixed(fs[5])
        BY <1>1, <3>1 DEF FixedIs, HeadAndTail
      <3> QED
        BY <1>4, <3>2
    <2> QED
      BY <1>1, <2>1, <2>2, <2>3 DEF ListOK
  <1>7. \A f \in DOMAIN ws : \E i \in 1..6 : Fixed(fs[i]) /\ fs[i].name = f
    BY <1>1, <1>2 DEF FixedIs
  <1>8. ASSUME NEW l, Sums(l, ws, fs, n) PROVE l[6] + Surplus(r.kind) = BodyLen[r.kind] + n
    <2>1. /\ l[0] = 0 /\ \A i \in 0..6 : l[i] \in Nat
          /\ \A i \in 1..6 : l[i] = l[i - 1] + Width(ws, n, fs[i])
      BY <1>1, <1>8 DEF Sums
    <2>2. /\ l[1] = l[0] + 4
          /\ l[2] = l[1] + 20
          /\ l[3] = l[2] + 20
          /\ l[4] = l[3] + 100
          /\ l[5] = l[4] + 4
          /\ l[6] = l[5] + n
      BY <1>4, <2>1
    <2> QED
      BY <1>3, <2>1, <2>2
  <1> QED
    BY <1>1, <1>3, <1>6, <1>7, <1>8 DEF BodyOK, ws, fs

LEMMA PDURespondList ==
  ASSUME NEW r, NEW n \in Nat, r.kind = "PDURespond"
  PROVE  BodyOK(r, ServerWritesPDURespond, n)
  <1> DEFINE ws == Struct[r.kind]
  <1> DEFINE fs == ServerWritesPDURespond
  <1>1. /\ Len(fs) = 5
        /\ FixedIs(ws, fs[1], "code", 4)
        /\ FixedIs(ws, fs[2], "status", 4)
        /\ FixedIs(ws, fs[3], "msg_amount", 4)
        /\ FixedIs(ws, fs[4], "msg_len", 4)
        /\ HeadAndTail(fs[5], "msg", "msg_len")
    BY DEF ServerWritesPDURespond, Struct, PDURespond, N, R, T, FixedIs, HeadAndTail, Fixed
  <1>2. DOMAIN ws = {"code", "status", "msg_amount", "msg_len"}
    BY DEF Struct, PDURespond
  <1>3. BodyLen[r.kind] = 16 /\ Surplus(r.kind) = 0
    BY DEF BodyLen, Surplus
  <1> HIDE DEF ws, fs
  <1>4. /\ FieldOK(ws, r, n, fs[1]) /\ Width(ws, n, fs[1]) = 4
        /\ FieldOK(ws, r, n, fs[2]) /\ Width(ws, n, fs[2]) = 4
        /\ FieldOK(ws, r, n, fs[3]) /\ Width(ws, n, fs[3]) = 4
        /\ FieldOK(ws, r, n, fs[4]) /\ Width(ws, n, fs[4]) = 4
        /\ FieldOK(ws, r, n, fs[5]) /\ Width(ws, n, fs[5]) = n
        /\ Value(r, n, fs[4]) = n
    <2>1. /\ "code" \in Names /\ "status" \in Names /\ "msg_amount" \in Names
          /\ "msg_len" \in Names /\ "msg" \in Names
      BY DEF Names
    <2>2. /\ FieldOK(ws, r, n, fs[1]) /\ Width(ws, n, fs[1]) = 4
          /\ FieldOK(ws, r, n, fs[2]) /\ Width(ws, n, fs[2]) = 4
          /\ FieldOK(ws, r, n, fs[3]) /\ Width(ws, n, fs[3]) = 4
      BY ONLY <1>1, <2>1, n \in Nat, FixedFieldOK
    <2>3. FieldOK(ws, r, n, fs[4]) /\ Width(ws, n, fs[4]) = 4
      BY ONLY <1>1, <2>1, n \in Nat, FixedFieldOK
    <2>4. FieldOK(ws, r, n, fs[5]) /\ Width(ws, n, fs[5]) = n
      BY ONLY <1>1, <2>1, n \in Nat, TailFieldOK
    <2>5. Value(r, n, fs[4]) = n
      BY ONLY <1>1, LengthFieldIs
    <2> QED
      BY <2>2, <2>3, <2>4, <2>5
  <1>5. \A i \in 1..5 : i = 1 \/ i = 2 \/ i = 3 \/ i = 4 \/ i = 5
    OBVIOUS
  <1>6. ListOK(ws, fs, r, n)
    <2>1. \A i \in 1..5 : FieldOK(ws, r, n, fs[i])
      BY <1>4, <1>5
    <2>2. \A i, j \in 1..5 : fs[i].name = fs[j].name => i = j
      BY <1>1, <1>5 DEF FixedIs, HeadAndTail
    <2>3. ASSUME NEW i \in 1..5, ~Fixed(fs[i])
          PROVE  \E j \in 1..(i - 1) : fs[j].name = fs[i].how /\ Fixed(fs[j]) /\ Value(r, n, fs[j]) = n
      <3>1. i = 5
        BY <1>1, <1>5, <2>3 DEF FixedIs
      <3>2. 4 \in 1..(i - 1) /\ fs[4].name = fs[i].how /\ Fixed(fs[4])
        BY <1>1, <3>1 DEF FixedIs, HeadAndTail
      <3> QED
        BY <1>4, <3>2
    <2> QED
      BY <1>1, <2>1, <2>2, <2>3 DEF ListOK
  <1>7. \A f \in DOMAIN ws : \E i \in 1..5 : Fixed(fs[i]) /\ fs[i].name = f
    BY <1>1, <1>2 DEF FixedIs
  <1>8. ASSUME NEW l, Sums(l, ws, fs, n) PROVE l[5] + Surplus(r.kind) = BodyLen[r.kind] + n
    <2>1. /\ l[0] = 0 /\ \A i \in 0..5 : l[i] \in Nat
          /\ \A i \in 1..5 : l[i] = l[i - 1] + Width(ws, n, fs[i])
      BY <1>1, <1>8 DEF Sums
    <2>2. /\ l[1] = l[0] + 4
          /\ l[2] = l[1] + 4
          /\ l[3] = l[2] + 4
          /\ l[4] = l[3] + 4
          /\ l[5] = l[4] + n
      BY <1>4, <2>1
    <2> QED
      BY <1>3, <2>1, <2>2
  <1> QED
    BY <1>1, <1>3, <1>6, <1>7, <1>8 DEF BodyOK, ws, fs

LEMMA TranPduList ==
  ASSUME NEW r, NEW n \in Nat, r.kind = "TranPdu", n = 0
  PROVE  BodyOK(r, ClientWritesTranPdu, n)
  <1> DEFINE ws == Struct[r.kind]
  <1> DEFINE fs == ClientWritesTranPdu
  <1>1. /\ Len(fs) = 8
        /\ FixedIs(ws, fs[1], "tran_pdu_code", 4)
        /\ FixedIs(ws, fs[2], "user", 20)
        /\ FixedIs(ws, fs[3], "pwd", 20)
        /\ FixedIs(ws, fs[4], "file_name", 100)
        /\ FixedIs(ws, fs[5], "file_md5", 100)
        /\ FixedIs(ws, fs[6], "file_size", 8)
        /\ FixedIs(ws, fs[7], "sended_size", 8)
        /\ FixedIs(ws, fs[8], "parent_dir_id", 8)
    BY DEF ClientWritesTranPdu, Struct, TranPdu, N, R, T, FixedIs, HeadAndTail, Fixed
  <1>2. DOMAIN ws = {"tran_pdu_code", "user", "pwd", "file_name", "file_md5", "file_size", "sended_size", "parent_dir_id"}
    BY DEF Struct, TranPdu
  <1>3. BodyLen[r.kind] = 268 /\ Surplus(r.kind) = 0
    BY DEF BodyLen, Surplus
  <1> HIDE DEF ws, fs
  <1>4. /\ FieldOK(ws, r, n, fs[1]) /\ Width(ws, n, fs[1]) = 4
        /\ FieldOK(ws, r, n, fs[2]) /\ Width(ws, n, fs[2]) = 20
        /\ FieldOK(ws, r, n, fs[3]) /\ Width(ws, n, fs[3]) = 20
        /\ FieldOK(ws, r, n, fs[4]) /\ Width(ws, n, fs[4]) = 100
        /\ FieldOK(ws, r, n, fs[5]) /\ Width(ws, n, fs[5]) = 100
        /\ FieldOK(ws, r, n, fs[6]) /\ Width(ws, n, fs[6]) = 8
        /\ FieldOK(ws, r, n, fs[7]) /\ Width(ws, n, fs[7]) = 8
        /\ FieldOK(ws, r, n, fs[8]) /\ Width(ws, n, fs[8]) = 8
    <2>1. /\ "tran_pdu_code" \in Names /\ "user" \in Names /\ "pwd" \in Names
          /\ "file_name" \in Names /\ "file_md5" \in Names /\ "file_size" \in Names
          /\ "sended_size" \in Names /\ "parent_dir_id" \in Names
      BY DEF Names
    <2>2. /\ FieldOK(ws, r, n, fs[1]) /\ Width(ws, n, fs[1]) = 4
          /\ FieldOK(ws, r, n, fs[2]) /\ Width(ws, n, fs[2]) = 20
          /\ FieldOK(ws, r, n, fs[3]) /\ Width(ws, n, fs[3]) = 20
      BY ONLY <1>1, <2>1, n \in Nat, FixedFieldOK
    <2>3. /\ FieldOK(ws, r, n, fs[4]) /\ Width(ws, n, fs[4]) = 100
          /\ FieldOK(ws, r, n, fs[5]) /\ Width(ws, n, fs[5]) = 100
          /\ FieldOK(ws, r, n, fs[6]) /\ Width(ws, n, fs[6]) = 8
      BY ONLY <1>1, <2>1, n \in Nat, FixedFieldOK
    <2>4. /\ FieldOK(ws, r, n, fs[7]) /\ Width(ws, n, fs[7]) = 8
          /\ FieldOK(ws, r, n, fs[8]) /\ Width(ws, n, fs[8]) = 8
      BY ONLY <1>1, <2>1, n \in Nat, FixedFieldOK
    <2> QED
      BY <2>2, <2>3, <2>4
  <1>5. \A i \in 1..8 : i = 1 \/ i = 2 \/ i = 3 \/ i = 4 \/ i = 5 \/ i = 6 \/ i = 7 \/ i = 8
    OBVIOUS
  <1>6. ListOK(ws, fs, r, n)
    <2>1. \A i \in 1..8 : FieldOK(ws, r, n, fs[i])
      BY <1>4, <1>5
    <2>2. \A i, j \in 1..8 : fs[i].name = fs[j].name => i = j
      BY <1>1, <1>5 DEF FixedIs
    <2>3. \A i \in 1..8 : Fixed(fs[i])
      BY <1>1, <1>5 DEF FixedIs
    <2> QED
      BY <1>1, <2>1, <2>2, <2>3 DEF ListOK
  <1>7. \A f \in DOMAIN ws : \E i \in 1..8 : Fixed(fs[i]) /\ fs[i].name = f
    BY <1>1, <1>2 DEF FixedIs
  <1>8. ASSUME NEW l, Sums(l, ws, fs, n) PROVE l[8] + Surplus(r.kind) = BodyLen[r.kind] + n
    <2>1. /\ l[0] = 0 /\ \A i \in 0..8 : l[i] \in Nat
          /\ \A i \in 1..8 : l[i] = l[i - 1] + Width(ws, n, fs[i])
      BY <1>1, <1>8 DEF Sums
    <2>2. /\ l[1] = l[0] + 4
          /\ l[2] = l[1] + 20
          /\ l[3] = l[2] + 20
          /\ l[4] = l[3] + 100
          /\ l[5] = l[4] + 100
          /\ l[6] = l[5] + 8
          /\ l[7] = l[6] + 8
          /\ l[8] = l[7] + 8
      BY <1>4, <2>1
    <2> QED
      BY <1>3, <2>1, <2>2
  <1> QED
    BY <1>1, <1>3, <1>6, <1>7, <1>8 DEF BodyOK, ws, fs

LEMMA TranDataPduList ==
  ASSUME NEW r, NEW n \in Nat, r.kind = "TranDataPdu"
  PROVE  BodyOK(r, ClientWritesTranDataPdu, n)
  <1> DEFINE ws == Struct[r.kind]
  <1> DEFINE fs == ClientWritesTranDataPdu
  <1>1. /\ Len(fs) = 8
        /\ FixedIs(ws, fs[1], "code", 4)
        /\ FixedIs(ws, fs[2], "status", 4)
        /\ FixedIs(ws, fs[3], "file_offset", 8)
        /\ FixedIs(ws, fs[4], "chunk_size", 4)
        /\ FixedIs(ws, fs[5], "total_chunks", 4)
        /\ FixedIs(ws, fs[6], "chunk_index", 4)
        /\ FixedIs(ws, fs[7], "check_sum", 4)
        /\ HeadAndTail(fs[8], "data", "chunk_size")
    BY DEF ClientWritesTranDataPdu, Struct, TranDataPdu, N, R, T, FixedIs, HeadAndTail, Fixed
  <1>2. DOMAIN ws = {"code", "status", "file_offset", "chunk_size", "total_chunks", "chunk_index", "check_sum"}
    BY DEF Struct, TranDataPdu
  <1>3. BodyLen[r.kind] = 32 /\ Surplus(r.kind) = 0
    BY DEF BodyLen, Surplus
  <1> HIDE DEF ws, fs
  <1>4. /\ FieldOK(ws, r, n, fs[1]) /\ Width(ws, n, fs[1]) = 4
        /\ FieldOK(ws, r, n, fs[2]) /\ Width(ws, n, fs[2]) = 4
        /\ FieldOK(ws, r, n, fs[3]) /\ Width(ws, n, fs[3]) = 8
        /\ FieldOK(ws, r, n, fs[4]) /\ Width(ws, n, fs[4]) = 4
        /\ FieldOK(ws, r, n, fs[5]) /\ Width(ws, n, fs[5]) = 4
        /\ FieldOK(ws, r, n, fs[6]) /\ Width(ws, n, fs[6]) = 4
        /\ FieldOK(ws, r, n, fs[7]) /\ Width(ws, n, fs[7]) = 4
        /\ FieldOK(ws, r, n, fs[8]) /\ Width(ws, n, fs[8]) = n
        /\ Value(r, n, fs[4]) = n
    <2>1. /\ "code" \in Names /\ "status" \in Names /\ "file_offset" \in Names
          /\ "chunk_size" \in Names /\ "total_chunks" \in Names /\ "chunk_index" \in Names
          /\ "check_sum" \in Names /\ "data" \in Names
      BY DEF Names
    <2>2. /\ FieldOK(ws, r, n, fs[1]) /\ Width(ws, n, fs[1]) = 4
          /\ FieldOK(ws, r, n, fs[2]) /\ Width(ws, n, fs[2]) = 4
          /\ FieldOK(ws, r, n, fs[3]) /\ Width(ws, n, fs[3]) = 8
      BY ONLY <1>1, <2>1, n \in Nat, FixedFieldOK
    <2>3. /\ FieldOK(ws, r, n, fs[4]) /\ Width(ws, n, fs[4]) = 4
          /\ FieldOK(ws, r, n, fs[5]) /\ Width(ws, n, fs[5]) = 4
          /\ FieldOK(ws, r, n, fs[6]) /\ Width(ws, n, fs[6]) = 4
      BY ONLY <1>1, <2>1, n \in Nat, FixedFieldOK
    <2>4. FieldOK(ws, r, n, fs[7]) /\ Width(ws, n, fs[7]) = 4
      BY ONLY <1>1, <2>1, n \in Nat, FixedFieldOK
    <2>5. FieldOK(ws, r, n, fs[8]) /\ Width(ws, n, fs[8]) = n
      BY ONLY <1>1, <2>1, n \in Nat, TailFieldOK
    <2>6. Value(r, n, fs[4]) = n
      BY ONLY <1>1, LengthFieldIs
    <2> QED
      BY <2>2, <2>3, <2>4, <2>5, <2>6
  <1>5. \A i \in 1..8 : i = 1 \/ i = 2 \/ i = 3 \/ i = 4 \/ i = 5 \/ i = 6 \/ i = 7 \/ i = 8
    OBVIOUS
  <1>6. ListOK(ws, fs, r, n)
    <2>1. \A i \in 1..8 : FieldOK(ws, r, n, fs[i])
      BY <1>4, <1>5
    <2>2. \A i, j \in 1..8 : fs[i].name = fs[j].name => i = j
      BY <1>1, <1>5 DEF FixedIs, HeadAndTail
    <2>3. ASSUME NEW i \in 1..8, ~Fixed(fs[i])
          PROVE  \E j \in 1..(i - 1) : fs[j].name = fs[i].how /\ Fixed(fs[j]) /\ Value(r, n, fs[j]) = n
      <3>1. i = 8
        BY <1>1, <1>5, <2>3 DEF FixedIs
      <3>2. 4 \in 1..(i - 1) /\ fs[4].name = fs[i].how /\ Fixed(fs[4])
        BY <1>1, <3>1 DEF FixedIs, HeadAndTail
      <3> QED
        BY <1>4, <3>2
    <2> QED
      BY <1>1, <2>1, <2>2, <2>3 DEF ListOK
  <1>7. \A f \in DOMAIN ws : \E i \in 1..8 : Fixed(fs[i]) /\ fs[i].name = f
    BY <1>1, <1>2 DEF FixedIs
  <1>8. ASSUME NEW l, Sums(l, ws, fs, n) PROVE l[8] + Surplus(r.kind) = BodyLen[r.kind] + n
    <2>1. /\ l[0] = 0 /\ \A i \in 0..8 : l[i] \in Nat
          /\ \A i \in 1..8 : l[i] = l[i - 1] + Width(ws, n, fs[i])
      BY <1>1, <1>8 DEF Sums
    <2>2. /\ l[1] = l[0] + 4
          /\ l[2] = l[1] + 4
          /\ l[3] = l[2] + 8
          /\ l[4] = l[3] + 4
          /\ l[5] = l[4] + 4
          /\ l[6] = l[5] + 4
          /\ l[7] = l[6] + 4
          /\ l[8] = l[7] + n
      BY <1>4, <2>1
    <2> QED
      BY <1>3, <2>1, <2>2
  <1> QED
    BY <1>1, <1>3, <1>6, <1>7, <1>8 DEF BodyOK, ws, fs

LEMMA TranFinishPduList ==
  ASSUME NEW r, NEW n \in Nat, r.kind = "TranFinishPdu", n = 0
  PROVE  BodyOK(r, ClientWritesTranFinishPdu, n)
  <1> DEFINE ws == Struct[r.kind]
  <1> DEFINE fs == ClientWritesTranFinishPdu
  <1>1. /\ Len(fs) = 3
        /\ FixedIs(ws, fs[1], "code", 4)
        /\ FixedIs(ws, fs[2], "file_size", 8)
        /\ FixedIs(ws, fs[3], "file_md5", 100)
    BY DEF ClientWritesTranFinishPdu, Struct, TranFinishPdu, N, R, T, FixedIs, HeadAndTail, Fixed
  <1>2. DOMAIN ws = {"code", "file_size", "file_md5"}
    BY DEF Struct, TranFinishPdu
  <1>3. BodyLen[r.kind] = 112 /\ Surplus(r.kind) = 0
    BY DEF BodyLen, Surplus
  <1> HIDE DEF ws, fs
  <1>4. /\ FieldOK(ws, r, n, fs[1]) /\ Width(ws, n, fs[1]) = 4
        /\ FieldOK(ws, r, n, fs[2]) /\ Width(ws, n, fs[2]) = 8
        /\ FieldOK(ws, r, n, fs[3]) /\ Width(ws, n, fs[3]) = 100
    <2>1. "code" \in Names /\ "file_size" \in Names /\ "file_md5" \in Names
      BY DEF Names
    <2>2. /\ FieldOK(ws, r, n, fs[1]) /\ Width(ws, n, fs[1]) = 4
          /\ FieldOK(ws, r, n, fs[2]) /\ Width(ws, n, fs[2]) = 8
          /\ FieldOK(ws, r, n, fs[3]) /\ Width(ws, n, fs[3]) = 100
      BY ONLY <1>1, <2>1, n \in Nat, FixedFieldOK
    <2> QED
      BY <2>2
  <1>5. \A i \in 1..3 : i = 1 \/ i = 2 \/ i = 3
    OBVIOUS
  <1>6. ListOK(ws, fs, r, n)
    <2>1. \A i \in 1..3 : FieldOK(ws, r, n, fs[i])
      BY <1>4, <1>5
    <2>2. \A i, j \in 1..3 : fs[i].name = fs[j].name => i = j
      BY <1>1, <1>5 DEF FixedIs
    <2>3. \A i \in 1..3 : Fixed(fs[i])
      BY <1>1, <1>5 DEF FixedIs
    <2> QED
      BY <1>1, <2>1, <2>2, <2>3 DEF ListOK
  <1>7. \A f \in DOMAIN ws : \E i \in 1..3 : Fixed(fs[i]) /\ fs[i].name = f
    BY <1>1, <1>2 DEF FixedIs
  <1>8. ASSUME NEW l, Sums(l, ws, fs, n) PROVE l[3] + Surplus(r.kind) = BodyLen[r.kind] + n
    <2>1. /\ l[0] = 0 /\ \A i \in 0..3 : l[i] \in Nat
          /\ \A i \in 1..3 : l[i] = l[i - 1] + Width(ws, n, fs[i])
      BY <1>1, <1>8 DEF Sums
    <2>2. /\ l[1] = l[0] + 4
          /\ l[2] = l[1] + 8
          /\ l[3] = l[2] + 100
      BY <1>4, <2>1
    <2> QED
      BY <1>3, <2>1, <2>2
  <1> QED
    BY <1>1, <1>3, <1>6, <1>7, <1>8 DEF BodyOK, ws, fs

LEMMA TranControlPduList ==
  ASSUME NEW r, NEW n \in Nat, r.kind = "TranControlPdu"
  PROVE  BodyOK(r, ClientWritesTranControlPdu, n)
  <1> DEFINE ws == Struct[r.kind]
  <1> DEFINE fs == ClientWritesTranControlPdu
  <1>1. /\ Len(fs) = 4
        /\ FixedIs(ws, fs[1], "code", 4)
        /\ FixedIs(ws, fs[2], "action", 4)
        /\ FixedIs(ws, fs[3], "msg_len", 4)
        /\ HeadAndTail(fs[4], "msg", "msg_len")
    BY DEF ClientWritesTranControlPdu, Struct, TranControlPdu, N, R, T, FixedIs, HeadAndTail, Fixed
  <1>2. DOMAIN ws = {"code", "action", "msg_len"}
    BY DEF Struct, TranControlPdu
  <1>3. BodyLen[r.kind] = 12 /\ Surplus(r.kind) = 0
    BY DEF BodyLen, Surplus
  <1> HIDE DEF ws, fs
  <1>4. /\ FieldOK(ws, r, n, fs[1]) /\ Width(ws, n, fs[1]) = 4
        /\ FieldOK(ws, r, n, fs[2]) /\ Width(ws, n, fs[2]) = 4
        /\ FieldOK(ws, r, n, fs[3]) /\ Width(ws, n, fs[3]) = 4
        /\ FieldOK(ws, r, n, fs[4]) /\ Width(ws, n, fs[4]) = n
        /\ Value(r, n, fs[3]) = n
    <2>1. /\ "code" \in Names /\ "action" \in Names /\ "msg_len" \in Names
          /\ "msg" \in Names
      BY DEF Names
    <2>2. /\ FieldOK(ws, r, n, fs[1]) /\ Width(ws, n, fs[1]) = 4
          /\ FieldOK(ws, r, n, fs[2]) /\ Width(ws, n, fs[2]) = 4
          /\ FieldOK(ws, r, n, fs[3]) /\ Width(ws, n, fs[3]) = 4
      BY ONLY <1>1, <2>1, n \in Nat, FixedFieldOK
    <2>3. FieldOK(ws, r, n, fs[4]) /\ Width(ws, n, fs[4]) = n
      BY ONLY <1>1, <2>1, n \in Nat, TailFieldOK
    <2>4. Value(r, n, fs[3]) = n
      BY ONLY <1>1, LengthFieldIs
    <2> QED
      BY <2>2, <2>3, <2>4
  <1>5. \A i \in 1..4 : i = 1 \/ i = 2 \/ i = 3 \/ i = 4
    OBVIOUS
  <1>6. ListOK(ws, fs, r, n)
    <2>1. \A i \in 1..4 : FieldOK(ws, r, n, fs[i])
      BY <1>4, <1>5
    <2>2. \A i, j \in 1..4 : fs[i].name = fs[j].name => i = j
      BY <1>1, <1>5 DEF FixedIs, HeadAndTail
    <2>3. ASSUME NEW i \in 1..4, ~Fixed(fs[i])
          PROVE  \E j \in 1..(i - 1) : fs[j].name = fs[i].how /\ Fixed(fs[j]) /\ Value(r, n, fs[j]) = n
      <3>1. i = 4
        BY <1>1, <1>5, <2>3 DEF FixedIs
      <3>2. 3 \in 1..(i - 1) /\ fs[3].name = fs[i].how /\ Fixed(fs[3])
        BY <1>1, <3>1 DEF FixedIs, HeadAndTail
      <3> QED
        BY <1>4, <3>2
    <2> QED
      BY <1>1, <2>1, <2>2, <2>3 DEF ListOK
  <1>7. \A f \in DOMAIN ws : \E i \in 1..4 : Fixed(fs[i]) /\ fs[i].name = f
    BY <1>1, <1>2 DEF FixedIs
  <1>8. ASSUME NEW l, Sums(l, ws, fs, n) PROVE l[4] + Surplus(r.kind) = BodyLen[r.kind] + n
    <2>1. /\ l[0] = 0 /\ \A i \in 0..4 : l[i] \in Nat
          /\ \A i \in 1..4 : l[i] = l[i - 1] + Width(ws, n, fs[i])
      BY <1>1, <1>8 DEF Sums
    <2>2. /\ l[1] = l[0] + 4
          /\ l[2] = l[1] + 4
          /\ l[3] = l[2] + 4
          /\ l[4] = l[3] + n
      BY <1>4, <2>1
    <2> QED
      BY <1>3, <2>1, <2>2
  <1> QED
    BY <1>1, <1>3, <1>6, <1>7, <1>8 DEF BodyOK, ws, fs

LEMMA UserInfoList ==
  ASSUME NEW r, NEW n \in Nat, r.kind = "UserInfo", n = 0
  PROVE  BodyOK(r, ServerWritesUserInfo, n)
  <1> DEFINE ws == Struct[r.kind]
  <1> DEFINE fs == ServerWritesUserInfo
  <1>1. /\ Len(fs) = 8
        /\ FixedIs(ws, fs[1], "user", 50)
        /\ FixedIs(ws, fs[2], "pwd", 50)
        /\ FixedIs(ws, fs[3], "cipher", 50)
        /\ FixedIs(ws, fs[4], "is_vip", 50)
        /\ FixedIs(ws, fs[5], "capacity_sum", 50)
        /\ FixedIs(ws, fs[6], "used_capacity", 50)
        /\ FixedIs(ws, fs[7], "salt", 50)
        /\ FixedIs(ws, fs[8], "vip_date", 50)
    BY DEF ServerWritesUserInfo, Struct, UserInfo, N, R, T, FixedIs, HeadAndTail, Fixed
  <1>2. DOMAIN ws = {"user", "pwd", "cipher", "is_vip", "capacity_sum", "used_capacity", "salt", "vip_date"}
    BY DEF Struct, UserInfo
  <1>3. BodyLen[r.kind] = 400 /\ Surplus(r.kind) = 0
    BY DEF BodyLen, Surplus
  <1> HIDE DEF ws, fs
  <1>4. /\ FieldOK(ws, r, n, fs[1]) /\ Width(ws, n, fs[1]) = 50
        /\ FieldOK(ws, r, n, fs[2]) /\ Width(ws, n, fs[2]) = 50
        /\ FieldOK(ws, r, n, fs[3]) /\ Width(ws, n, fs[3]) = 50
        /\ FieldOK(ws, r, n, fs[4]) /\ Width(ws, n, fs[4]) = 50
        /\ FieldOK(ws, r, n, fs[5]) /\ Width(ws, n, fs[5]) = 50
        /\ FieldOK(ws, r, n, fs[6]) /\ Width(ws, n, fs[6]) = 50
        /\ FieldOK(ws, r, n, fs[7]) /\ Width(ws, n, fs[7]) = 50
        /\ FieldOK(ws, r, n, fs[8]) /\ Width(ws, n, fs[8]) = 50
    <2>1. /\ "user" \in Names /\ "pwd" \in Names /\ "cipher" \in Names /\ "is_vip" \in Names
          /\ "capacity_sum" \in Names /\ "used_capacity" \in Names /\ "salt" \in Names
          /\ "vip_date" \in Names
      BY DEF Names
    <2>2. /\ FieldOK(ws, r, n, fs[1]) /\ Width(ws, n, fs[1]) = 50
          /\ FieldOK(ws, r, n, fs[2]) /\ Width(ws, n, fs[2]) = 50
          /\ FieldOK(ws, r, n, fs[3]) /\ Width(ws, n, fs[3]) = 50
      BY ONLY <1>1, <2>1, n \in Nat, FixedFieldOK
    <2>3. /\ FieldOK(ws, r, n, fs[4]) /\ Width(ws, n, fs[4]) = 50
          /\ FieldOK(ws, r, n, fs[5]) /\ Width(ws, n, fs[5]) = 50
      BY ONLY <1>1, <2>1, n \in Nat, FixedFieldOK
    <2>4. /\ FieldOK(ws, r, n, fs[6]) /\ Width(ws, n, fs[6]) = 50
          /\ FieldOK(ws, r, n, fs[7]) /\ Width(ws, n, fs[7]) = 50
      BY ONLY <1>1, <2>1, n \in Nat, FixedFieldOK
    <2>5. FieldOK(ws, r, n, fs[8]) /\ Width(ws, n, fs[8]) = 50
      BY ONLY <1>1, <2>1, n \in Nat, FixedFieldOK
    <2> QED
      BY <2>2, <2>3, <2>4, <2>5
  <1>5. \A i \in 1..8 : i = 1 \/ i = 2 \/ i = 3 \/ i = 4 \/ i = 5 \/ i = 6 \/ i = 7 \/ i = 8
    OBVIOUS
  <1>6. ListOK(ws, fs, r, n)
    <2>1. \A i \in 1..8 : FieldOK(ws, r, n, fs[i])
      BY <1>4, <1>5
    <2>2. \A i, j \in 1..8 : fs[i].name = fs[j].name => i = j
      BY <1>1, <1>5 DEF FixedIs
    <2>3. \A i \in 1..8 : Fixed(fs[i])
      BY <1>1, <1>5 DEF FixedIs
    <2> QED
      BY <1>1, <2>1, <2>2, <2>3 DEF ListOK
  <1>7. \A f \in DOMAIN ws : \E i \in 1..8 : Fixed(fs[i]) /\ fs[i].name = f
    BY <1>1, <1>2 DEF FixedIs
  <1>8. ASSUME NEW l, Sums(l, ws, fs, n) PROVE l[8] + Surplus(r.kind) = BodyLen[r.kind] + n
    <2>1. /\ l[0] = 0 /\ \A i \in 0..8 : l[i] \in Nat
          /\ \A i \in 1..8 : l[i] = l[i - 1] + Width(ws, n, fs[i])
      BY <1>1, <1>8 DEF Sums
    <2>2. /\ l[1] = l[0] + 50
          /\ l[2] = l[1] + 50
          /\ l[3] = l[2] + 50
          /\ l[4] = l[3] + 50
          /\ l[5] = l[4] + 50
          /\ l[6] = l[5] + 50
          /\ l[7] = l[6] + 50
          /\ l[8] = l[7] + 50
      BY <1>4, <2>1
    <2> QED
      BY <1>3, <2>1, <2>2
  <1> QED
    BY <1>1, <1>3, <1>6, <1>7, <1>8 DEF BodyOK, ws, fs

LEMMA FileInfoList ==
  ASSUME NEW r, NEW n \in Nat, r.kind = "FileInfo", n = 0
  PROVE  BodyOK(r, ServerWritesFileInfo, n)
  <1> DEFINE ws == Struct[r.kind]
  <1> DEFINE fs == ServerWritesFileInfo
  <1>1. /\ Len(fs) = 7
        /\ FixedIs(ws, fs[1], "file_id", 8)
        /\ FixedIs(ws, fs[2], "file_name", 100)
        /\ FixedIs(ws, fs[3], "dir_grade", 4)
        /\ FixedIs(ws, fs[4], "file_type", 10)
        /\ FixedIs(ws, fs[5], "file_size", 8)
        /\ FixedIs(ws, fs[6], "parent_dir", 8)
        /\ FixedIs(ws, fs[7], "file_date", 100)
    BY DEF ServerWritesFileInfo, Struct, FileInfo, N, R, T, FixedIs, HeadAndTail, Fixed
  <1>2. DOMAIN ws = {"file_id", "file_name", "dir_grade", "file_type", "file_size", "parent_dir", "file_date"}
    BY DEF Struct, FileInfo
  <1>3. BodyLen[r.kind] = 238 /\ Surplus(r.kind) = 0
    BY DEF BodyLen, Surplus
  <1> HIDE DEF ws, fs
  <1>4. /\ FieldOK(ws, r, n, fs[1]) /\ Width(ws, n, fs[1]) = 8
        /\ FieldOK(ws, r, n, fs[2]) /\ Width(ws, n, fs[2]) = 100
        /\ FieldOK(ws, r, n, fs[3]) /\ Width(ws, n, fs[3]) = 4
        /\ FieldOK(ws, r, n, fs[4]) /\ Width(ws, n, fs[4]) = 10
        /\ FieldOK(ws, r, n, fs[5]) /\ Width(ws, n, fs[5]) = 8
        /\ FieldOK(ws, r, n, fs[6]) /\ Width(ws, n, fs[6]) = 8
        /\ FieldOK(ws, r, n, fs[7]) /\ Width(ws, n, fs[7]) = 100
    <2>1. /\ "file_id" \in Names /\ "file_name" \in Names /\ "dir_grade" \in Names
          /\ "file_type" \in Names /\ "file_size" \in Names /\ "parent_dir" \in Names
          /\ "file_date" \in Names
      BY DEF Names
    <2>2. /\ FieldOK(ws, r, n, fs[1]) /\ Width(ws, n, fs[1]) = 8
          /\ FieldOK(ws, r, n, fs[2]) /\ Width(ws, n, fs[2]) = 100
          /\ FieldOK(ws, r, n, fs[3]) /\ Width(ws, n, fs[3]) = 4
      BY ONLY <1>1, <2>1, n \in Nat, FixedFieldOK
    <2>3. /\ FieldOK(ws, r, n, fs[4]) /\ Width(ws, n, fs[4]) = 10
          /\ FieldOK(ws, r, n, fs[5]) /\ Width(ws, n, fs[5]) = 8
          /\ FieldOK(ws, r, n, fs[6]) /\ Width(ws, n, fs[6]) = 8
      BY ONLY <1>1, <2>1, n \in Nat, FixedFieldOK
    <2>4. FieldOK(ws, r, n, fs[7]) /\ Width(ws, n, fs[7]) = 100
      BY ONLY <1>1, <2>1, n \in Nat, FixedFieldOK
    <2> QED
      BY <2>2, <2>3, <2>4
  <1>5. \A i \in 1..7 : i = 1 \/ i = 2 \/ i = 3 \/ i = 4 \/ i = 5 \/ i = 6 \/ i = 7
    OBVIOUS
  <1>6. ListOK(ws, fs, r, n)
    <2>1. \A i \in 1..7 : FieldOK(ws, r, n, fs[i])
      BY <1>4, <1>5
    <2>2. \A i, j \in 1..7 : fs[i].name = fs[j].name => i = j
      BY <1>1, <1>5 DEF FixedIs
    <2>3. \A i \in 1..7 : Fixed(fs[i])
      BY <1>1, <1>5 DEF FixedIs
    <2> QED
      BY <1>1, <2>1, <2>2, <2>3 DEF ListOK
  <1>7. \A f \in DOMAIN ws : \E i \in 1..7 : Fixed(fs[i]) /\ fs[i].name = f
    BY <1>1, <1>2 DEF FixedIs
  <1>8. ASSUME NEW l, Sums(l, ws, fs, n) PROVE l[7] + Surplus(r.kind) = BodyLen[r.kind] + n
    <2>1. /\ l[0] = 0 /\ \A i \in 0..7 : l[i] \in Nat
          /\ \A i \in 1..7 : l[i] = l[i - 1] + Width(ws, n, fs[i])
      BY <1>1, <1>8 DEF Sums
    <2>2. /\ l[1] = l[0] + 8
          /\ l[2] = l[1] + 100
          /\ l[3] = l[2] + 4
          /\ l[4] = l[3] + 10
          /\ l[5] = l[4] + 8
          /\ l[6] = l[5] + 8
          /\ l[7] = l[6] + 100
      BY <1>4, <2>1
    <2> QED
      BY <1>3, <2>1, <2>2
  <1> QED
    BY <1>1, <1>3, <1>6, <1>7, <1>8 DEF BodyOK, ws, fs

LEMMA ServerInfoPackList ==
  ASSUME NEW r, NEW n \in Nat, r.kind = "ServerInfoPack", n = 0
  PROVE  BodyOK(r, ServerWritesServerInfoPack, n)
  <1> DEFINE ws == Struct[r.kind]
  <1> DEFINE fs == ServerWritesServerInfoPack
  <1>1. /\ Len(fs) = 5
        /\ FixedIs(ws, fs[1], "name", 31)
        /\ FixedIs(ws, fs[2], "ip", 21)
        /\ FixedIs(ws, fs[3], "sport", 4)
        /\ FixedIs(ws, fs[4], "lport", 4)
        /\ FixedIs(ws, fs[5], "cur_con_count", 8)
    BY DEF ServerWritesServerInfoPack, Struct, ServerInfoPack, N, R, T, FixedIs, HeadAndTail, Fixed
  <1>2. DOMAIN ws = {"name", "ip", "sport", "lport", "cur_con_count"}
    BY DEF Struct, ServerInfoPack
  <1>3. BodyLen[r.kind] = 68 /\ Surplus(r.kind) = 0
    BY DEF BodyLen, Surplus
  <1> HIDE DEF ws, fs
  <1>4. /\ FieldOK(ws, r, n, fs[1]) /\ Width(ws, n, fs[1]) = 31
        /\ FieldOK(ws, r, n, fs[2]) /\ Width(ws, n, fs[2]) = 21
        /\ FieldOK(ws, r, n, fs[3]) /\ Width(ws, n, fs[3]) = 4
        /\ FieldOK(ws, r, n, fs[4]) /\ Width(ws, n, fs[4]) = 4
        /\ FieldOK(ws, r, n, fs[5]) /\ Width(ws, n, fs[5]) = 8
    <2>1. /\ "name" \in Names /\ "ip" \in Names /\ "sport" \in Names /\ "lport" \in Names
          /\ "cur_con_count" \in Names
      BY DEF Names
    <2>2. /\ FieldOK(ws, r, n, fs[1]) /\ Width(ws, n, fs[1]) = 31
          /\ FieldOK(ws, r, n, fs[2]) /\ Width(ws, n, fs[2]) = 21
          /\ FieldOK(ws, r, n, fs[3]) /\ Width(ws, n, fs[3]) = 4
      BY ONLY <1>1, <2>1, n \in Nat, FixedFieldOK
    <2>3. /\ FieldOK(ws, r, n, fs[4]) /\ Width(ws, n, fs[4]) = 4
          /\ FieldOK(ws, r, n, fs[5]) /\ Width(ws, n, fs[5]) = 8
      BY ONLY <1>1, <2>1, n \in Nat, FixedFieldOK
    <2> QED
      BY <2>2, <2>3
  <1>5. \A i \in 1..5 : i = 1 \/ i = 2 \/ i = 3 \/ i = 4 \/ i = 5
    OBVIOUS
  <1>6. ListOK(ws, fs, r, n)
    <2>1. \A i \in 1..5 : FieldOK(ws, r, n, fs[i])
      BY <1>4, <1>5
    <2>2. \A i, j \in 1..5 : fs[i].name = fs[j].name => i = j
      BY <1>1, <1>5 DEF FixedIs
    <2>3. \A i \in 1..5 : Fixed(fs[i])
      BY <1>1, <1>5 DEF FixedIs
    <2> QED
      BY <1>1, <2>1, <2>2, <2>3 DEF ListOK
  <1>7. \A f \in DOMAIN ws : \E i \in 1..5 : Fixed(fs[i]) /\ fs[i].name = f
    BY <1>1, <1>2 DEF FixedIs
  <1>8. ASSUME NEW l, Sums(l, ws, fs, n) PROVE l[5] + Surplus(r.kind) = BodyLen[r.kind] + n
    <2>1. /\ l[0] = 0 /\ \A i \in 0..5 : l[i] \in Nat
          /\ \A i \in 1..5 : l[i] = l[i - 1] + Width(ws, n, fs[i])
      BY <1>1, <1>8 DEF Sums
    <2>2. /\ l[1] = l[0] + 31
          /\ l[2] = l[1] + 21
          /\ l[3] = l[2] + 4
          /\ l[4] = l[3] + 4
          /\ l[5] = l[4] + 8
      BY <1>4, <2>1
    <2> QED
      BY <1>3, <2>1, <2>2
  <1> QED
    BY <1>1, <1>3, <1>6, <1>7, <1>8 DEF BodyOK, ws, fs

LEMMA ServerStateList ==
  ASSUME NEW r, NEW n \in Nat, r.kind = "ServerState", n = 0
  PROVE  BodyOK(r, ServerWritesServerState, n)
  <1> DEFINE ws == Struct[r.kind]
  <1> DEFINE fs == ServerWritesServerState
  <1>1. /\ Len(fs) = 2
        /\ FixedIs(ws, fs[1], "code", 4)
        /\ FixedIs(ws, fs[2], "cur_con_count", 8)
    BY DEF ServerWritesServerState, Struct, ServerState, N, R, T, FixedIs, HeadAndTail, Fixed
  <1>2. DOMAIN ws = {"code", "cur_con_count"}
    BY DEF Struct, ServerState
  <1>3. BodyLen[r.kind] = 12 /\ Surplus(r.kind) = 0
    BY DEF BodyLen, Surplus
  <1> HIDE DEF ws, fs
  <1>4. /\ FieldOK(ws, r, n, fs[1]) /\ Width(ws, n, fs[1]) = 4
        /\ FieldOK(ws, r, n, fs[2]) /\ Width(ws, n, fs[2]) = 8
    <2>1. "code" \in Names /\ "cur_con_count" \in Names
      BY DEF Names
    <2>2. /\ FieldOK(ws, r, n, fs[1]) /\ Width(ws, n, fs[1]) = 4
          /\ FieldOK(ws, r, n, fs[2]) /\ Width(ws, n, fs[2]) = 8
      BY ONLY <1>1, <2>1, n \in Nat, FixedFieldOK
    <2> QED
      BY <2>2
  <1>5. \A i \in 1..2 : i = 1 \/ i = 2
    OBVIOUS
  <1>6. ListOK(ws, fs, r, n)
    <2>1. \A i \in 1..2 : FieldOK(ws, r, n, fs[i])
      BY <1>4, <1>5
    <2>2. \A i, j \in 1..2 : fs[i].name = fs[j].name => i = j
      BY <1>1, <1>5 DEF FixedIs
    <2>3. \A i \in 1..2 : Fixed(fs[i])
      BY <1>1, <1>5 DEF FixedIs
    <2> QED
      BY <1>1, <2>1, <2>2, <2>3 DEF ListOK
  <1>7. \A f \in DOMAIN ws : \E i \in 1..2 : Fixed(fs[i]) /\ fs[i].name = f
    BY <1>1, <1>2 DEF FixedIs
  <1>8. ASSUME NEW l, Sums(l, ws, fs, n) PROVE l[2] + Surplus(r.kind) = BodyLen[r.kind] + n
    <2>1. /\ l[0] = 0 /\ \A i \in 0..2 : l[i] \in Nat
          /\ \A i \in 1..2 : l[i] = l[i - 1] + Width(ws, n, fs[i])
      BY <1>1, <1>8 DEF Sums
    <2>2. /\ l[1] = l[0] + 4
          /\ l[2] = l[1] + 8
      BY <1>4, <2>1
    <2> QED
      BY <1>3, <2>1, <2>2
  <1> QED
    BY <1>1, <1>3, <1>6, <1>7, <1>8 DEF BodyOK, ws, fs

\* The header is eight bytes; the length in it is macro and tail together.
HeaderOK(r, n) ==
  /\ ListOK(Header, HeaderBytes, r, n) /\ Len(HeaderBytes) = 4
  /\ \A l : Sums(l, Header, HeaderBytes, n) => l[4] = 8
  /\ HeaderBytes[1].name = "type" /\ HeaderBytes[2].name = "body_len"
  /\ Found(Header, r, n, HeaderBytes[1]).name = "type"
  /\ Found(Header, r, n, HeaderBytes[2]).value = BodyLen[r.kind] + n

LEMMA HeaderList ==
  ASSUME NEW r, NEW n \in Nat, BodyLen[r.kind] \in Nat
  PROVE  HeaderOK(r, n)
  <1> DEFINE ws == Header
  <1> DEFINE fs == HeaderBytes
  <1>1. /\ Len(fs) = 4
        /\ FixedIs(ws, fs[1], "type", 2)
        /\ FixedIs(ws, fs[2], "body_len", 4)
        /\ FixedIs(ws, fs[3], "version", 1)
        /\ FixedIs(ws, fs[4], "reserved", 1)
    BY DEF HeaderBytes, Header, N, R, FixedIs, Fixed
  <1> HIDE DEF ws, fs
  <1>2. /\ FieldOK(ws, r, n, fs[1]) /\ Width(ws, n, fs[1]) = 2
        /\ FieldOK(ws, r, n, fs[3]) /\ Width(ws, n, fs[3]) = 1
        /\ FieldOK(ws, r, n, fs[4]) /\ Width(ws, n, fs[4]) = 1
    <2>1. /\ "type" \in Names /\ "body_len" \in Names /\ "version" \in Names
          /\ "reserved" \in Names
      BY DEF Names
    <2>2. /\ FieldOK(ws, r, n, fs[1]) /\ Width(ws, n, fs[1]) = 2
          /\ FieldOK(ws, r, n, fs[3]) /\ Width(ws, n, fs[3]) = 1
          /\ FieldOK(ws, r, n, fs[4]) /\ Width(ws, n, fs[4]) = 1
      BY ONLY <1>1, <2>1, n \in Nat, FixedFieldOK
    <2> QED
      BY <2>2
  <1>3. FieldOK(ws, r, n, fs[2]) /\ Width(ws, n, fs[2]) = 4 /\ Value(r, n, fs[2]) = BodyLen[r.kind] + n
    <2>1. BodyLen[r.kind] + n \in Nat /\ "body_len" \in Names
      BY DEF Names
    <2> QED
      BY <1>1, <2>1 DEF FixedIs, FieldOK, Width, Value, ValueOf
  <1>4. \A i \in 1..4 : i = 1 \/ i = 2 \/ i = 3 \/ i = 4
    OBVIOUS
  <1>5. ListOK(ws, fs, r, n)
    <2>1. \A i \in 1..4 : FieldOK(ws, r, n, fs[i])
      BY <1>2, <1>3, <1>4
    <2>2. \A i, j \in 1..4 : fs[i].name = fs[j].name => i = j
      BY <1>1, <1>4 DEF FixedIs
    <2>3. \A i \in 1..4 : Fixed(fs[i])
      BY <1>1, <1>4 DEF FixedIs
    <2> QED
      BY <1>1, <2>1, <2>2, <2>3 DEF ListOK
  <1>6. ASSUME NEW l, Sums(l, ws, fs, n) PROVE l[4] = 8
    <2>1. /\ l[0] = 0 /\ \A i \in 0..4 : l[i] \in Nat
          /\ \A i \in 1..4 : l[i] = l[i - 1] + Width(ws, n, fs[i])
      BY <1>1, <1>6 DEF Sums
    <2>2. l[1] = l[0] + 2 /\ l[2] = l[1] + 4 /\ l[3] = l[2] + 1 /\ l[4] = l[3] + 1
      BY <1>2, <1>3, <2>1
    <2> QED
      BY <2>1, <2>2
  <1>7. /\ fs[1].name = "type" /\ fs[2].name = "body_len"
        /\ Found(ws, r, n, fs[1]).name = "type"
        /\ Found(ws, r, n, fs[2]).value = BodyLen[r.kind] + n
    BY <1>1, <1>2, <1>3 DEF Found, FixedIs
  <1> QED
    BY <1>1, <1>5, <1>6, <1>7 DEF HeaderOK, ws, fs

\* A length that a message of the route may have.
TailOf(r, n) == n \in Nat /\ (n > 0 => HasTail(r))

LEMMA RouteIs ==
  ASSUME NEW r \in Routes, NEW n, TailOf(r, n)
  PROVE  r.reads = r.writes /\ BodyOK(r, r.writes, n)
  <1>1. n \in Nat /\ (n > 0 => HasTail(r))
    BY DEF TailOf
  <1>2. CASE r = Route("PDU", ClientWritesPDU, ServerReadsPDU)
    <2>1. r.kind = "PDU" /\ r.writes = ClientWritesPDU /\ r.reads = r.writes
      BY <1>2 DEF Route, ClientWritesPDU, ServerReadsPDU
    <2> QED
      BY <1>1, <2>1, PDUList
  <1>3. CASE r = Route("TranPdu", ClientWritesTranPdu, ServerReadsTranPdu)
    <2>1. r.kind = "TranPdu" /\ r.writes = ClientWritesTranPdu /\ r.reads = r.writes
      BY <1>3 DEF Route, ClientWritesTranPdu, ServerReadsTranPdu
    <2>2. ~HasTail(r)
      BY <2>1 DEF HasTail, ClientWritesTranPdu, N, R
    <2> QED
      BY <1>1, <2>1, <2>2, TranPduList
  <1>4. CASE r = Route("TranDataPdu", ClientWritesTranDataPdu, ServerReadsTranDataPdu)
    <2>1. r.kind = "TranDataPdu" /\ r.writes = ClientWritesTranDataPdu /\ r.reads = r.writes
      BY <1>4 DEF Route, ClientWritesTranDataPdu, ServerReadsTranDataPdu
    <2> QED
      BY <1>1, <2>1, TranDataPduList
  <1>5. CASE r = Route("TranFinishPdu", ClientWritesTranFinishPdu, ServerReadsTranFinishPdu)
    <2>1. r.kind = "TranFinishPdu" /\ r.writes = ClientWritesTranFinishPdu /\ r.reads = r.writes
      BY <1>5 DEF Route, ClientWritesTranFinishPdu, ServerReadsTranFinishPdu
    <2>2. ~HasTail(r)
      BY <2>1 DEF HasTail, ClientWritesTranFinishPdu, N, R
    <2> QED
      BY <1>1, <2>1, <2>2, TranFinishPduList
  <1>6. CASE r = Route("TranControlPdu", ClientWritesTranControlPdu, ServerReadsTranControlPdu)
    <2>1. r.kind = "TranControlPdu" /\ r.writes = ClientWritesTranControlPdu /\ r.reads = r.writes
      BY <1>6 DEF Route, ClientWritesTranControlPdu, ServerReadsTranControlPdu
    <2> QED
      BY <1>1, <2>1, TranControlPduList
  <1>7. CASE r = Route("PDURespond", ServerWritesPDURespond, ClientReadsPDURespond)
    <2>1. r.kind = "PDURespond" /\ r.writes = ServerWritesPDURespond /\ r.reads = r.writes
      BY <1>7 DEF Route, ServerWritesPDURespond, ClientReadsPDURespond
    <2> QED
      BY <1>1, <2>1, PDURespondList
  <1>8. CASE r = Route("TranDataPdu", ServerWritesTranDataPdu, ClientReadsTranDataPdu)
    <2>1. r.kind = "TranDataPdu" /\ r.writes = ClientWritesTranDataPdu /\ r.reads = r.writes
      BY <1>8 DEF Route, ServerWritesTranDataPdu, ClientReadsTranDataPdu, ClientWritesTranDataPdu
    <2> QED
      BY <1>1, <2>1, TranDataPduList
  <1>9. CASE r = Route("UserInfo", ServerWritesUserInfo, ClientReadsUserInfo)
    <2>1. r.kind = "UserInfo" /\ r.writes = ServerWritesUserInfo /\ r.reads = r.writes
      BY <1>9 DEF Route, ServerWritesUserInfo, ClientReadsUserInfo
    <2>2. ~HasTail(r)
      BY <2>1 DEF HasTail, ServerWritesUserInfo, R
    <2> QED
      BY <1>1, <2>1, <2>2, UserInfoList
  <1>10. CASE r = Route("FileInfo", ServerWritesFileInfo, ClientReadsFileInfo)
    <2>1. r.kind = "FileInfo" /\ r.writes = ServerWritesFileInfo /\ r.reads = r.writes
      BY <1>10 DEF Route, ServerWritesFileInfo, ClientReadsFileInfo
    <2>2. ~HasTail(r)
      BY <2>1 DEF HasTail, ServerWritesFileInfo, N, R
    <2> QED
      BY <1>1, <2>1, <2>2, FileInfoList
  <1>11. CASE \/ r = Route("ServerInfoPack", ServerWritesServerInfoPack, BalancerReadsServerInfoPack)
              \/ r = Route("ServerInfoPack", BalancerWritesServerInfoPack, ClientReadsServerInfoPack)
    <2>1. r.kind = "ServerInfoPack" /\ r.writes = ServerWritesServerInfoPack /\ r.reads = r.writes
      BY <1>11 DEF Route, ServerWritesServerInfoPack, BalancerReadsServerInfoPack,
                   BalancerWritesServerInfoPack, ClientReadsServerInfoPack
    <2>2. ~HasTail(r)
      BY <2>1 DEF HasTail, ServerWritesServerInfoPack, N, R
    <2> QED
      BY <1>1, <2>1, <2>2, ServerInfoPackList
  <1>12. CASE r = Route("ServerState", ServerWritesServerState, BalancerReadsServerState)
    <2>1. r.kind = "ServerState" /\ r.writes = ServerWritesServerState /\ r.reads = r.writes
      BY <1>12 DEF Route, ServerWritesServerState, BalancerReadsServerState
    <2>2. ~HasTail(r)
      BY <2>1 DEF HasTail, ServerWritesServerState, N
    <2> QED
      BY <1>1, <2>1, <2>2, ServerStateList
  <1> QED
    BY <1>2, <1>3, <1>4, <1>5, <1>6, <1>7, <1>8, <1>9, <1>10, <1>11, <1>12 DEF Routes

LEMMA OutsSum ==
  ASSUME NEW widths, NEW fields, NEW r, NEW n, ListOK(widths, fields, r, n),
         NEW o, OutSteps(o, widths, fields, r, n)
  PROVE  Sums([i \in 0..Len(fields) |-> Len(o[i])], widths, fields, n)
  <1> DEFINE m == Len(fields)
  <1> DEFINE l == [i \in 0..m |-> Len(o[i])]
  <1>1. /\ m \in Nat /\ \A i \in 0..m : o[i] \in Seq(Tok)
        /\ \A i \in 1..m : Len(o[i]) = Len(o[i - 1]) + Width(widths, n, fields[i])
    <2>1. LaidOut(o, widths, fields, r, n)
      BY OutsAre
    <2> QED
      BY <2>1 DEF ListOK, LaidOut
  <1>2. o[0] = <<>> /\ Len(o[0]) = 0 /\ 0 \in 0..m
    BY <1>1 DEF OutSteps
  <1> HIDE DEF m
  <1>3. \A i \in 1..m : i \in 0..m /\ i - 1 \in 0..m
    BY <1>1
  <1>4. \A i \in 0..m : l[i] = Len(o[i])
    OBVIOUS
  <1>5. \A i \in 0..m : Len(o[i]) \in Nat
    BY <1>1
  <1> HIDE DEF l
  <1> QED
    BY <1>1, <1>2, <1>3, <1>4, <1>5 DEF Sums, m, l

\* What is transmitted: header and fields, then what the macro counts too much; and
\* what header and body give who reads them.
Readable(r, n, bs) ==
  LET h == ReadFields(Header, ServerReadsHeader, bs, 0).got
  IN  /\ Len(bs) = 8 + BodyLen[r.kind] + n
      /\ {i \in DOMAIN bs : bs[i].name = "stale"}
           = IF r.kind = "PDU" THEN (Len(bs) - 3)..Len(bs) ELSE {}
      /\ h["type"].name = "type" /\ h["body_len"].value = BodyLen[r.kind] + n
      /\ Finds(ReadFields(Struct[r.kind], r.reads, bs, 8).got, Struct[r.kind], r.writes, r, n)

LEMMA TransmittedIs ==
  ASSUME NEW r \in Routes, NEW n, TailOf(r, n)
  PROVE  Readable(r, n, Transmitted(r, n))
  <1> DEFINE ws == Struct[r.kind]
  <1> DEFINE fs == r.writes
  <1> DEFINE m == Len(fs)
  <1> DEFINE body == BodyLen[r.kind]
  <1> DEFINE bs == Transmitted(r, n)
  <1>1. r.reads = fs /\ BodyOK(r, fs, n)
    BY RouteIs
  <1>2. n \in Nat /\ body \in Nat /\ ListOK(ws, fs, r, n) /\ m \in Nat
    BY <1>1 DEF TailOf, BodyOK, ListOK
  <1>3. /\ ListOK(Header, HeaderBytes, r, n) /\ Len(HeaderBytes) = 4
        /\ \A l : Sums(l, Header, HeaderBytes, n) => l[4] = 8
        /\ HeaderBytes[1].name = "type" /\ HeaderBytes[2].name = "body_len"
        /\ Found(Header, r, n, HeaderBytes[1]).name = "type"
        /\ Found(Header, r, n, HeaderBytes[2]).value = body + n
    BY <1>2, HeaderList DEF HeaderOK
  <1>4. PICK oh : /\ OutSteps(oh, Header, HeaderBytes, r, n)
                  /\ WriteFields(Header, HeaderBytes, r, n) = oh[Len(HeaderBytes)]
    <2>1. Len(HeaderBytes) \in Nat
      BY <1>3
    <2> QED
      BY ONLY <2>1, WriteIs
  <1>5. PICK ob : OutSteps(ob, ws, fs, r, n) /\ WriteFields(ws, fs, r, n) = ob[m]
    BY <1>2, WriteIs
  <1> DEFINE hd == oh[4]
  <1> DEFINE bd == ob[m]
  <1>6. hd \in Seq(Tok) /\ Len(hd) = 8 /\ \A k \in 1..Len(hd) : hd[k].name # "stale"
    <2>1. Sums([i \in 0..4 |-> Len(oh[i])], Header, HeaderBytes, n)
      BY <1>3, <1>4, OutsSum
    <2>2. [i \in 0..4 |-> Len(oh[i])][4] = 8
      BY <1>3, <2>1
    <2>3. 4 \in 0..4
      OBVIOUS
    <2>4. Len(oh[4]) = 8
      BY <2>2, <2>3
    <2>5. \A i \in 0..4 : oh[i] \in Seq(Tok) /\ \A k \in 1..Len(oh[i]) : oh[i][k].name # "stale"
      <3>1. LaidOut(oh, Header, HeaderBytes, r, n)
        BY <1>3, <1>4, OutsAre
      <3> QED
        BY <1>3, <3>1 DEF LaidOut
    <2> QED
      BY <2>3, <2>4, <2>5
  <1>7. /\ bd \in Seq(Tok) /\ Len(bd) + Surplus(r.kind) = body + n
        /\ \A k \in 1..Len(bd) : bd[k].name # "stale"
    <2> HIDE DEF m, fs, ws, body
    <2>1. Sums([i \in 0..m |-> Len(ob[i])], ws, fs, n)
      BY <1>2, <1>5, OutsSum DEF m
    <2>2. \A l : Sums(l, ws, fs, n) => l[m] + Surplus(r.kind) = body + n
      BY <1>1 DEF BodyOK, ws, m, body
    <2>3. [i \in 0..m |-> Len(ob[i])][m] + Surplus(r.kind) = body + n
      BY <2>1, <2>2
    <2>4. m \in 0..m
      BY <1>2
    <2>5. \A i \in 0..m : ob[i] \in Seq(Tok) /\ \A k \in 1..Len(ob[i]) : ob[i][k].name # "stale"
      <3>1. LaidOut(ob, ws, fs, r, n)
        BY <1>2, <1>5, OutsAre
      <3> QED
        BY <3>1 DEF LaidOut, m
    <2> QED
      BY <2>3, <2>4, <2>5
  <1>8. bs = [i \in 1..(8 + body + n) |-> IF i <= Len(hd \o bd) THEN (hd \o bd)[i] ELSE Stale]
    BY <1>3, <1>4, <1>5 DEF Transmitted, Written
  <1> DEFINE total == 8 + body + n
  <1> DEFINE w == hd \o bd
  <1> DEFINE b == Len(bd)
  <1> HIDE DEF hd, bd, bs, body, m, fs, ws
  <1>9. /\ w \in Seq(Tok) /\ Len(w) = 8 + b /\ b \in Nat
        /\ \A k \in 1..(8 + b) : w[k] = IF k <= 8 THEN hd[k] ELSE bd[k - 8]
    <2>1. hd \in Seq(Tok) /\ bd \in Seq(Tok) /\ Len(hd) = 8 /\ b \in Nat
      BY <1>6, <1>7
    <2>2. /\ w \in Seq(Tok) /\ Len(w) = Len(hd) + Len(bd)
          /\ \A k \in 1..(Len(hd) + Len(bd)) : w[k] = IF k <= Len(hd) THEN hd[k] ELSE bd[k - Len(hd)]
      BY ONLY <2>1, ConcatProperties
    <2> HIDE DEF w
    <2> QED
      BY <2>1, <2>2
  <1>10. Surplus(r.kind) \in Nat /\ Surplus(r.kind) = IF r.kind = "PDU" THEN 4 ELSE 0
    BY DEF Surplus
  <1>11. total \in Nat /\ 8 + b + Surplus(r.kind) = total /\ 8 + b <= total
    BY <1>2, <1>7, <1>9, <1>10
  <1> HIDE DEF w, b, total
  <1>12. bs = [i \in 1..total |-> IF i <= 8 + b THEN w[i] ELSE Stale]
    BY <1>8, <1>9 DEF total, w
  <1>13. Stale \in Tok /\ Stale.name = "stale"
    BY DEF Stale, Tok, Names
  <1>14. bs \in Seq(Tok) /\ Len(bs) = total
    <2>1. \A i \in 1..total : (IF i <= 8 + b THEN w[i] ELSE Stale) \in Tok
      <3> SUFFICES ASSUME NEW i \in 1..total, i <= 8 + b PROVE w[i] \in Tok
        BY <1>13
      <3>1. i \in 1..(8 + b)
        BY <1>9, <1>11
      <3> QED
        BY <1>9, <3>1
    <2> QED
      BY <1>11, <1>12, <2>1
  <1>15. \A k \in 1..8 : bs[0 + k] = hd[k]
    <2> SUFFICES ASSUME NEW k \in 1..8 PROVE bs[0 + k] = hd[k]
      OBVIOUS
    <2>1. 0 + k = k /\ k <= 8 /\ k \in 1..(8 + b) /\ k <= 8 + b /\ k \in 1..total
      BY <1>9, <1>11
    <2> QED
      BY <1>9, <1>12, <2>1
  <1>16. \A k \in 1..b : bs[8 + k] = bd[k]
    <2> SUFFICES ASSUME NEW k \in 1..b PROVE bs[8 + k] = bd[k]
      OBVIOUS
    <2>1. /\ ~(8 + k <= 8) /\ 8 + k \in 1..(8 + b) /\ 8 + k <= 8 + b /\ 8 + k \in 1..total
          /\ (8 + k) - 8 = k
      BY <1>9, <1>11
    <2> QED
      BY <1>9, <1>12, <2>1
  <1>17. {i \in DOMAIN bs : bs[i].name = "stale"} = (8 + b + 1)..total
    <2>1. DOMAIN bs = 1..total
      BY <1>12
    <2>2. ASSUME NEW i \in 1..total, i <= 8 + b PROVE bs[i].name # "stale"
      <3>1. bs[i] = w[i] /\ i \in 1..(8 + b)
        BY <1>9, <1>11, <1>12, <2>2
      <3>2. CASE i <= 8
        <4>1. i \in 1..Len(hd)
          BY <1>6, <3>2
        <4> QED
          BY <1>6, <1>9, <3>1, <3>2, <4>1
      <3>3. CASE ~(i <= 8)
        <4>1. i - 8 \in 1..Len(bd)
          BY <1>9, <3>1, <3>3 DEF b
        <4> QED
          BY <1>7, <1>9, <3>1, <3>3, <4>1
      <3> QED
        BY <3>2, <3>3
    <2>3. ASSUME NEW i \in 1..total, ~(i <= 8 + b) PROVE bs[i].name = "stale"
      BY <1>12, <1>13, <2>3
    <2>4. \A i : i \in (8 + b + 1)..total <=> i \in 1..total /\ ~(i <= 8 + b)
      BY <1>9, <1>11
    <2> QED
      BY <2>1, <2>2, <2>3, <2>4
  <1>18. (8 + b + 1)..total = IF r.kind = "PDU" THEN (total - 3)..total ELSE {}
    <2>1. CASE r.kind = "PDU"
      <3>1. 8 + b + 1 = total - 3
        BY <1>9, <1>10, <1>11, <2>1
      <3> QED
        BY <2>1, <3>1
    <2>2. CASE r.kind # "PDU"
      <3>1. 8 + b = total
        BY <1>9, <1>10, <1>11, <2>2
      <3>2. (8 + b + 1)..total = {}
        BY <1>11, <3>1
      <3> QED
        BY <2>2, <3>2
    <2> QED
      BY <2>1, <2>2
  <1> DEFINE h == ReadFields(Header, ServerReadsHeader, bs, 0).got
  <1>19. h["type"].name = "type" /\ h["body_len"].value = body + n
    <2>1. ServerReadsHeader = HeaderBytes
      BY DEF ServerReadsHeader
    <2>2. 0 + Len(oh[Len(HeaderBytes)]) <= Len(bs)
      BY <1>3, <1>6, <1>9, <1>11, <1>14 DEF hd
    <2>3. \A k \in 1..Len(oh[Len(HeaderBytes)]) : bs[0 + k] = oh[Len(HeaderBytes)][k]
      BY <1>3, <1>6, <1>15 DEF hd
    <2>4. \A i \in 1..Len(HeaderBytes) : h[HeaderBytes[i].name] = Found(Header, r, n, HeaderBytes[i])
      <3>1. 0 \in Nat
        OBVIOUS
      <3> QED
        <4>1. Finds(h, Header, HeaderBytes, r, n)
          BY <1>3, <1>4, <1>14, <2>1, <2>2, <2>3, <3>1, ReadIs
        <4> QED
          BY <4>1 DEF Finds
    <2> HIDE DEF h
    <2>5. 1 \in 1..Len(HeaderBytes) /\ 2 \in 1..Len(HeaderBytes)
      BY <1>3
    <2> QED
      BY <1>3, <2>4, <2>5
  <1> DEFINE got == ReadFields(ws, fs, bs, 8).got
  <1>20. Finds(got, ws, fs, r, n)
    <2>1. 8 \in Nat
      OBVIOUS
    <2>2. 8 + Len(ob[Len(fs)]) <= Len(bs)
      BY <1>11, <1>14 DEF b, bd, m
    <2>3. \A k \in 1..Len(ob[Len(fs)]) : bs[8 + k] = ob[Len(fs)][k]
      BY <1>16 DEF b, bd, m
    <2> QED
      BY <1>2, <1>5, <1>14, <2>1, <2>2, <2>3, ReadIs DEF m
  <1> HIDE DEF h, got
  <1> QED
    BY <1>1, <1>14, <1>17, <1>18, <1>19, <1>20 DEF Readable, bs, total, body, h, got, ws, fs, m

-----------------------------------------------------------------------------
(* Wire: the steps *)

WInv ==
  /\ wPhase \in {"idle", "sent", "read"}
  /\ wRoute \in Routes /\ wTail \in (IF HasTail(wRoute) THEN WTails ELSE {0})
  /\ wPhase = "idle" => wWire = <<>>
  /\ wPhase # "idle" => /\ wWire = Transmitted(wRoute, wTail)
                        /\ 8 + BodyLen[wRoute.kind] + wTail <= WBufferSize
  /\ wPhase = "read" => wGot = ReadFields(Struct[wRoute.kind], wRoute.reads, wWire, 8).got

LEMMA WTailIs ==
  ASSUME WInv
  PROVE  wRoute \in Routes /\ TailOf(wRoute, wTail) /\ wTail \in Nat /\ wTail \in WTails \cup {0}
  BY WireAssumption DEF WInv, TailOf

LEMMA WInvAlways == WSpec => []WInv
  <1>1. WInit => WInv
    BY DEF WInit, WInv
  <1>2. WInv /\ [WNext]_wVars => WInv'
    <2> SUFFICES ASSUME WInv, [WNext]_wVars PROVE WInv'
      OBVIOUS
    <2>1. CASE WSerialize
      BY <2>1 DEF WSerialize, WInv
    <2>2. CASE WDeserialize
      <3>1. wPhase = "sent" /\ wPhase' = "read" /\ wRoute' = wRoute /\ wTail' = wTail /\ wWire' = wWire
            /\ wGot' = ReadFields(Struct[wRoute.kind], wRoute.reads, wWire, 8).got
        BY <2>2 DEF WDeserialize
      <3> QED
        BY <3>1 DEF WInv
    <2>3. CASE UNCHANGED wVars
      BY <2>3 DEF wVars, WInv
    <2> QED
      BY <2>1, <2>2, <2>3 DEF WNext
  <1> QED
    BY <1>1, <1>2, PTL DEF WSpec

\* Types; what is sent fits the buffer of the pool, header and all.
THEOREM WireTypes == WSpec => []WTypeOK
  <1>1. WInv => WTypeOK
    <2> SUFFICES ASSUME WInv PROVE WTypeOK
      OBVIOUS
    <2>1. Len(wWire) <= WBufferSize
      <3>1. CASE wPhase = "idle"
        <4>1. Len(wWire) = 0
          BY <3>1 DEF WInv
        <4> QED
          BY <4>1, WireAssumption
      <3>2. CASE wPhase # "idle"
        <4>1. Len(Transmitted(wRoute, wTail)) = 8 + BodyLen[wRoute.kind] + wTail
          BY WTailIs, TransmittedIs DEF Readable
        <4> QED
          BY <3>2, <4>1 DEF WInv
      <3> QED
        BY <3>1, <3>2
    <2> QED
      BY <2>1, WTailIs DEF WInv, WTypeOK
  <1> QED
    BY <1>1, WInvAlways, PTL

\* For any length of a tail, each field of each message arrives under its own name
\* with its own value, in whichever program's copies it was written and read.
THEOREM FieldsReadBack == WSpec => []WReadBack
  <1>1. WInv => WReadBack
    <2> SUFFICES ASSUME WInv, wPhase = "read" PROVE WReadBack
      BY DEF WReadBack
    <2> DEFINE r == wRoute
    <2> DEFINE n == wTail
    <2> DEFINE fs == wRoute.writes
    <2> DEFINE ws == Struct[wRoute.kind]
    <2>1. r \in Routes /\ TailOf(r, n) /\ n \in Nat
      BY WTailIs
    <2>2. /\ DOMAIN wGot = {fs[i].name : i \in 1..Len(fs)}
          /\ \A i \in 1..Len(fs) : wGot[fs[i].name] = Found(ws, r, n, fs[i])
      <3>1. wGot = ReadFields(ws, r.reads, Transmitted(r, n), 8).got
        BY DEF WInv
      <3> QED
        <4>1. Readable(r, n, Transmitted(r, n))
          BY <2>1, TransmittedIs
        <4>2. Finds(wGot, ws, fs, r, n)
          BY <3>1, <4>1 DEF Readable
        <4> QED
          BY <4>2 DEF Finds
    <2>3. BodyOK(r, fs, n)
      BY <2>1, RouteIs
    <2>4. /\ \A i \in 1..Len(fs) : FieldOK(ws, r, n, fs[i])
          /\ \A f \in DOMAIN ws : \E i \in 1..Len(fs) : Fixed(fs[i]) /\ fs[i].name = f
      BY <2>3 DEF BodyOK, ListOK
    <2>5. ASSUME NEW f \in DOMAIN ws
          PROVE  f \in DOMAIN wGot /\ wGot[f] = [name |-> f, value |-> ValueOf(r, n, f)]
      <3>1. PICK i \in 1..Len(fs) : Fixed(fs[i]) /\ fs[i].name = f
        BY <2>4
      <3>2. Found(ws, r, n, fs[i]) = [name |-> f, value |-> ValueOf(r, n, f)]
        BY <2>4, <3>1 DEF Found, FieldOK, Value
      <3> QED
        BY <2>2, <3>1, <3>2
    <2>6. ASSUME n > 0 PROVE \E f \in DOMAIN wGot : f \in {"msg", "data"} /\ wGot[f].name = f
      <3>1. HasTail(r)
        BY <2>1, <2>6 DEF TailOf
      <3>2. DOMAIN fs = 1..Len(fs)
        BY <2>1 DEF Routes, Route, ClientWritesPDU, ClientWritesTranPdu, ClientWritesTranDataPdu,
          ClientWritesTranFinishPdu, ClientWritesTranControlPdu, ServerWritesPDURespond,
          ServerWritesTranDataPdu, ServerWritesUserInfo, ServerWritesFileInfo,
          ServerWritesServerInfoPack, BalancerWritesServerInfoPack, ServerWritesServerState
      <3>3. PICK i \in 1..Len(fs) : fs[i].name \in {"msg", "data"}
        BY <3>1, <3>2 DEF HasTail
      <3>4. Width(ws, n, fs[i]) # 0
        <4>1. CASE Fixed(fs[i])
          BY <2>4, <4>1 DEF FieldOK
        <4>2. CASE ~Fixed(fs[i])
          BY <2>1, <2>6, <4>2 DEF Width
        <4> QED
          BY <4>1, <4>2
      <3>5. Found(ws, r, n, fs[i]).name = fs[i].name
        BY <3>4 DEF Found
      <3> QED
        BY <2>2, <3>3, <3>5
    <2> QED
      BY <2>5, <2>6 DEF WReadBack
  <1> QED
    BY <1>1, WInvAlways, PTL

\* For any length of a tail, the length in the header is what was written, but for
\* the four stale bytes behind each PDU.
THEOREM LengthIsHonest == WSpec => []WLengthHonest
  <1>1. WInv => WLengthHonest
    <2> SUFFICES ASSUME WInv PROVE WLengthHonest
      OBVIOUS
    <2>1. CASE wPhase = "idle"
      <3>1. wWire = <<>> /\ DOMAIN wWire = {}
        BY <2>1 DEF WInv
      <3> QED
        BY <2>1, <3>1 DEF WLengthHonest
    <2>2. CASE wPhase # "idle"
      <3>1. wWire = Transmitted(wRoute, wTail)
        BY <2>2 DEF WInv
      <3>2. {i \in DOMAIN wWire : wWire[i].name = "stale"}
              = IF wRoute.kind = "PDU" THEN (Len(wWire) - 3)..Len(wWire) ELSE {}
        BY <3>1, WTailIs, TransmittedIs DEF Readable
      <3> QED
        BY <2>2, <3>2 DEF WLengthHonest
    <2> QED
      BY <2>1, <2>2
  <1> QED
    BY <1>1, WInvAlways, PTL

\* Every message that was sent can be read: its header names a type, and the length
\* in it is that of what came.
WHeaderRead ==
  wPhase = "sent" =>
    LET h == ReadFields(Header, ServerReadsHeader, wWire, 0).got
    IN  h["type"].name = "type" /\ Len(wWire) = 8 + h["body_len"].value

\* Whoever reads a header waits for as many bytes as come, no more and no fewer.
THEOREM HeaderIsRead == WSpec => []WHeaderRead
  <1>1. WInv => WHeaderRead
    <2> SUFFICES ASSUME WInv, wPhase = "sent" PROVE WHeaderRead
      BY DEF WHeaderRead
    <2> DEFINE h == ReadFields(Header, ServerReadsHeader, wWire, 0).got
    <2>1. wWire = Transmitted(wRoute, wTail)
      BY DEF WInv
    <2>2. /\ Len(wWire) = 8 + BodyLen[wRoute.kind] + wTail
          /\ h["type"].name = "type" /\ h["body_len"].value = BodyLen[wRoute.kind] + wTail
      BY <2>1, WTailIs, TransmittedIs DEF Readable
    <2>3. BodyLen[wRoute.kind] \in Nat /\ wTail \in Nat
      BY WTailIs, RouteIs DEF BodyOK
    <2> QED
      BY <2>2, <2>3 DEF WHeaderRead
  <1> QED
    BY <1>1, WInvAlways, PTL

=============================================================================
