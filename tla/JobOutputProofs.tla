-------------------------- MODULE JobOutputProofs ---------------------------
(***************************************************************************)
(* Proofs, for any texts the child may write, of what TLC checks of        *)
(* JobOutput on short ones: how chunks relate to the whole text, that the  *)
(* log is complete, and that the events stored are those of the output.    *)
(***************************************************************************)
EXTENDS JobOutput, FiniteSetTheorems, WellFoundedInduction, TLAPS

Text == Seq(Chars)

-----------------------------------------------------------------------------
(* Texts and their records                                                 *)

LEMMA LeastExists ==
    ASSUME NEW T, T \subseteq Nat, T # {}
    PROVE  \E x \in T : \A y \in T : x <= y
  <1>1. PICK x \in T : \A y \in T : <<y, x>> \notin OpToRel(<, Nat)
    BY NatLessThanWellFounded, WFMin, Zenon
  <1>2. \A y \in T : ~(y < x)
    BY <1>1 DEF OpToRel
  <1> QED
    BY <1>2

LEMMA MaxIs ==
    ASSUME NEW n \in Nat, NEW S \in SUBSET (0 .. n), S # {}
    PROVE  Max(S) \in S /\ \A y \in S : y <= Max(S)
  <1> DEFINE T == {n - x : x \in S}
  <1>0. \A x \in S : x \in Int /\ n - x \in Nat
    OBVIOUS
  <1>1. T \subseteq Nat /\ T # {}
    BY <1>0
  <1>2. PICK t \in T : \A y \in T : t <= y
    BY <1>1, LeastExists
  <1>3. PICK m \in S : t = n - m
    BY <1>2
  <1>4. \A y \in S : n - y \in T
    OBVIOUS
  <1>5. \A y \in S : m >= y
    BY <1>2, <1>3, <1>4
  <1> QED
    BY <1>5 DEF Max

\* A record starts behind an end of line, and no end of line is in it.
LEMMA StartIs ==
    ASSUME NEW text \in Text, NEW i \in 1 .. Len(text) + 1
    PROVE  /\ StartOf(text, i) \in 1 .. i
           /\ StartOf(text, i) = 1 \/ StartOf(text, i) - 1 \in Ends(text)
           /\ \A j \in Ends(text) : j < i => j < StartOf(text, i)
  <1> DEFINE S == {0} \cup {j \in Ends(text) : j < i}
  <1>1. S \in SUBSET (0 .. Len(text)) /\ S # {}
    BY DEF Text, Ends
  <1>2. Len(text) \in Nat
    BY DEF Text
  <1>3. Max(S) \in S /\ \A y \in S : y <= Max(S)
    BY <1>1, <1>2, MaxIs
  <1>4. StartOf(text, i) = Max(S) + 1
    BY DEF StartOf
  <1> HIDE DEF S
  <1>5. Max(S) \in 0 .. i - 1 /\ (Max(S) = 0 \/ Max(S) \in Ends(text))
    BY <1>1, <1>2, <1>3 DEF S
  <1>6. \A j \in Ends(text) : j < i => j <= Max(S)
    BY <1>3 DEF S
  <1> QED
    BY <1>1, <1>2, <1>4, <1>5, <1>6 DEF Ends, Text

LEMMA StartIsOnly ==
    ASSUME NEW text \in Text, NEW i \in 1 .. Len(text) + 1, NEW k \in 1 .. i,
           k = 1 \/ k - 1 \in Ends(text), \A j \in Ends(text) : j < i => j < k
    PROVE  StartOf(text, i) = k
  <1> DEFINE start == StartOf(text, i)
  <1>1. /\ start \in 1 .. i
        /\ start = 1 \/ start - 1 \in Ends(text)
        /\ \A j \in Ends(text) : j < i => j < start
    BY StartIs
  <1> HIDE DEF start
  <1>2. Len(text) \in Nat /\ start - 1 < i /\ k - 1 < i
    BY <1>1 DEF Text
  <1>3. start <= k
    BY <1>1, <1>2
  <1>4. k <= start
    BY <1>1, <1>2
  <1>5. start = k
    BY <1>1, <1>3, <1>4
  <1> QED
    BY <1>5 DEF start

LEMMA RecordIs ==
    ASSUME NEW text, NEW i
    PROVE  RecordAt(text, i) = SubSeq(text, StartOf(text, i), i - 1)
  BY DEF RecordAt

LEMMA RecordIsText ==
    ASSUME NEW text \in Text, NEW i \in 1 .. Len(text) + 1
    PROVE  RecordAt(text, i) \in Text
  <1>1. StartOf(text, i) \in 1 .. i
    BY StartIs
  <1> QED
    BY <1>1 DEF RecordAt, Text

LEMMA RemainderHasNoEnds ==
    ASSUME NEW text \in Text
    PROVE  Remainder(text) \in Text /\ Ends(Remainder(text)) = {}
  <1> DEFINE n == Len(text)
             start == StartOf(text, n + 1)
  <1>1. n \in Nat /\ n + 1 \in 1 .. n + 1
    BY DEF Text
  <1>2. start \in 1 .. n + 1 /\ \A j \in Ends(text) : j < n + 1 => j < start
    BY <1>1, StartIs
  <1>0. (n + 1) - 1 = n
    BY <1>1
  <1>3a. RecordAt(text, n + 1) = SubSeq(text, start, (n + 1) - 1)
    BY RecordIs, Zenon
  <1>3. Remainder(text) = SubSeq(text, start, n)
    BY <1>0, <1>3a DEF Remainder
  <1> HIDE DEF start
  <1>4. /\ Remainder(text) \in Text /\ Len(Remainder(text)) = n - start + 1
        /\ \A i \in 1 .. n - start + 1 : Remainder(text)[i] = text[start + i - 1]
    BY <1>1, <1>2, <1>3 DEF Text
  <1>5. \A i \in 1 .. n - start + 1 : start + i - 1 \notin Ends(text) /\ start + i - 1 \in 1 .. n
    BY <1>1, <1>2
  <1> QED
    BY <1>1, <1>4, <1>5 DEF Ends, Text

-----------------------------------------------------------------------------
(* A text that grows by a chunk                                            *)

\* What was a record of the text stays one.
LEMMA RecordsStay ==
    ASSUME NEW old \in Text, NEW chunk \in Text, NEW new, new = old \o chunk
    PROVE  /\ Ends(old) = {i \in Ends(new) : i <= Len(old)}
           /\ Breaks(old) = {i \in Breaks(new) : i <= Len(old)}
           /\ \A i \in 1 .. Len(old) + 1 : RecordAt(new, i) = RecordAt(old, i)
  <1>1. /\ new \in Text /\ Len(new) = Len(old) + Len(chunk)
        /\ \A i \in 1 .. Len(old) : new[i] = old[i]
    BY DEF Text
  <1>2. Len(old) \in Nat /\ Len(new) \in Nat /\ Len(old) <= Len(new)
    BY <1>1, Len(chunk) \in Nat DEF Text
  <1>3. Ends(old) = {i \in Ends(new) : i <= Len(old)}
    BY <1>1, <1>2 DEF Ends, Text
  <1>4. Breaks(old) = {i \in Breaks(new) : i <= Len(old)}
    <2>1. \A i \in Ends(old) : i \in Nat /\ 1 <= i /\ i <= Len(old)
      BY <1>2 DEF Ends, Text
    <2>2. \A i \in Ends(old) : new[i] = old[i] /\ (i > 1 => new[i - 1] = old[i - 1])
      BY <2>1, <1>1, <1>2
    <2> QED
      BY <2>2, <1>3 DEF Breaks
  <1>5. ASSUME NEW i \in 1 .. Len(old) + 1
        PROVE  RecordAt(new, i) = RecordAt(old, i)
    <2> DEFINE start == StartOf(old, i)
    <2>1. i \in 1 .. Len(new) + 1
      BY <1>2
    <2>2. /\ start \in 1 .. i
          /\ start = 1 \/ start - 1 \in Ends(old)
          /\ \A j \in Ends(old) : j < i => j < start
      BY StartIs
    <2> HIDE DEF start
    <2>3. start = 1 \/ start - 1 \in Ends(new)
      BY <2>2, <1>3
    <2>4. \A j \in Ends(new) : j < i => j < start
      BY <2>2, <1>2, <1>3 DEF Ends
    <2>5. StartOf(new, i) = start
      BY <1>1, <2>1, <2>2, <2>3, <2>4, StartIsOnly
    <2>6. SubSeq(new, start, i - 1) = SubSeq(old, start, i - 1)
      BY <1>1, <1>2, <2>2 DEF Text
    <2> QED
      BY <2>5, <2>6 DEF RecordAt, start
  <1> QED
    BY <1>3, <1>4, <1>5

\* The text behind an end of line is cut as it is in the whole text, except
\* that a \n at its front counts as a break.
LEMMA Window ==
    ASSUME NEW whole \in Text, NEW base \in 0 .. Len(whole),
           base = 0 \/ base \in Ends(whole),
           NEW text \in Text, Len(text) = Len(whole) - base,
           \A i \in 1 .. Len(text) : text[i] = whole[base + i]
    PROVE  /\ \A i \in 1 .. Len(text) + 1 : RecordAt(text, i) = RecordAt(whole, base + i)
           /\ \A i \in Breaks(text) : base + i \in Ends(whole)
           /\ \A e \in Breaks(whole) : e > base => e - base \in Breaks(text)
  <1>1. Len(text) \in Nat /\ Len(whole) \in Nat
    BY DEF Text
  <1>2. \A i \in 1 .. Len(text) : i \in Ends(text) <=> base + i \in Ends(whole)
    BY <1>1 DEF Ends, Text
  <1>3. ASSUME NEW i \in 1 .. Len(text) + 1
        PROVE  RecordAt(text, i) = RecordAt(whole, base + i)
    <2> DEFINE start == StartOf(text, i)
    <2>1. base + i \in 1 .. Len(whole) + 1
      BY <1>1
    <2>2. /\ start \in 1 .. i
          /\ start = 1 \/ start - 1 \in Ends(text)
          /\ \A j \in Ends(text) : j < i => j < start
      BY StartIs
    <2> HIDE DEF start
    <2>3. base + start \in 1 .. base + i
      BY <2>2
    <2>4. base + start = 1 \/ (base + start) - 1 \in Ends(whole)
      <3>1. CASE start = 1
        BY <3>1
      <3>2. CASE start # 1
        BY <3>2, <2>2, <1>1, <1>2
      <3> QED
        BY <3>1, <3>2
    <2>5. ASSUME NEW j \in Ends(whole), j < base + i
          PROVE  j < base + start
      <3>1. j \in 1 .. Len(whole)
        BY DEF Ends, Text
      <3>2. CASE j <= base
        BY <3>1, <3>2, <2>2
      <3>3. CASE j > base
        <4>1. j - base \in 1 .. Len(text) /\ base + (j - base) = j
          BY <3>1, <3>3, <1>1
        <4>2. j - base \in Ends(text) /\ j - base < i
          BY <4>1, <1>2, <2>5, <3>1
        <4> QED
          BY <4>2, <2>2, <3>1
      <3> QED
        BY <3>1, <3>2, <3>3
    <2>6. StartOf(whole, base + i) = base + start
      <3> DEFINE to == base + i
                 from == base + start
      <3>1. /\ to \in 1 .. Len(whole) + 1 /\ from \in 1 .. to
            /\ from = 1 \/ from - 1 \in Ends(whole)
            /\ \A j \in Ends(whole) : j < to => j < from
        <4>1. from = 1 \/ from - 1 \in Ends(whole)
          BY <2>4, Zenon
        <4>2. \A j \in Ends(whole) : j < to => j < from
          BY <2>5
        <4> QED
          BY <2>1, <2>3, <4>1, <4>2
      <3> HIDE DEF to, from
      <3>2. StartOf(whole, to) = from
        BY <3>1, StartIsOnly
      <3> QED
        BY <3>2 DEF to, from
    <2>7. SubSeq(whole, base + start, (base + i) - 1) = SubSeq(text, start, i - 1)
      BY <1>1, <2>2 DEF Text
    <2>8. RecordAt(whole, base + i) = SubSeq(whole, base + start, (base + i) - 1)
      BY <2>6, RecordIs, Zenon
    <2>9. RecordAt(text, i) = SubSeq(text, start, i - 1)
      BY DEF RecordAt, start
    <2> QED
      BY <2>7, <2>8, <2>9
  <1>4. \A i \in Breaks(text) : base + i \in Ends(whole)
    BY <1>2 DEF Breaks, Ends, Text
  <1>5. ASSUME NEW e \in Breaks(whole), e > base
        PROVE  e - base \in Breaks(text)
    <2>1. e \in Ends(whole) /\ e \in 1 .. Len(whole)
      BY DEF Breaks, Ends, Text
    <2>2. e - base \in 1 .. Len(text) /\ base + (e - base) = e
      BY <2>1, <1>1, <1>5
    <2>3. e - base \in Ends(text) /\ text[e - base] = whole[e]
      BY <2>1, <2>2, <1>2
    <2>4. e - base > 1 => text[e - base - 1] = whole[e - 1] /\ e > 1
      BY <2>1, <2>2, <1>1
    <2> QED
      BY <2>3, <2>4 DEF Breaks
  <1> QED
    BY <1>3, <1>4, <1>5

Records == [at : Nat, text : Text]

\* The buffer with the next chunk, and the place before it in the whole text.
Buffered(old, chunk) == Remainder(old) \o chunk
Base(old) == Len(old) - Len(Remainder(old))

\* What a chunk completes are the records of the whole text that end in it,
\* and the rest of the buffer is the rest of the whole text.
LEMMA ChunkIsCut ==
    ASSUME NEW old \in Text, NEW chunk \in Text
    PROVE  LET new == old \o chunk
               cut == CompletedRecords(Buffered(old, chunk), Base(old))
           IN  /\ cut \in SUBSET Records
               /\ \A p \in cut :
                     p.at \in Ends(new) /\ p.at > Len(old) /\ p.text = RecordAt(new, p.at)
               /\ \A e \in Breaks(new) : e > Len(old) => \E p \in cut : p.at = e
               /\ Remainder(Buffered(old, chunk)) = Remainder(new)
  <1> DEFINE rest == Remainder(old)
             new == old \o chunk
             text == Buffered(old, chunk)
             base == Base(old)
             n == Len(old)
             start == StartOf(old, n + 1)
  <1>1. n \in Nat /\ n + 1 \in 1 .. n + 1 /\ (n + 1) - 1 = n
    BY DEF Text
  <1>2. rest \in Text /\ Ends(rest) = {} /\ Len(rest) \in Nat
    BY RemainderHasNoEnds DEF Text
  <1>3. start \in 1 .. n + 1 /\ (start = 1 \/ start - 1 \in Ends(old))
    BY <1>1, StartIs
  <1>4. rest = SubSeq(old, start, n)
    <2>1. rest = SubSeq(old, start, (n + 1) - 1)
      BY RecordIs, Zenon DEF Remainder
    <2> QED
      BY <2>1, <1>1
  <1> HIDE DEF start
  <1>0. n = Len(old) /\ rest = Remainder(old) /\ base = n - Len(rest)
    BY DEF Base
  <1>5. Len(rest) = (n - start) + 1 /\ \A i \in 1 .. Len(rest) : rest[i] = old[(start - 1) + i]
    BY <1>1, <1>3, <1>4 DEF Text
  <1>6. /\ new \in Text /\ Len(new) = n + Len(chunk) /\ Len(chunk) \in Nat
        /\ \A i \in 1 .. n : new[i] = old[i]
        /\ \A i \in 1 .. Len(chunk) : new[n + i] = chunk[i]
    BY DEF Text
  <1>7. /\ text \in Text /\ Len(text) = Len(rest) + Len(chunk)
        /\ \A i \in 1 .. Len(rest) : text[i] = rest[i]
        /\ \A i \in 1 .. Len(chunk) : text[Len(rest) + i] = chunk[i]
    BY <1>2 DEF Text, Buffered
  <1>8. base = start - 1 /\ base \in Nat /\ base \in 0 .. Len(new) /\ base + Len(rest) = n
    BY <1>0, <1>1, <1>3, <1>5, <1>6
  <1>9. Ends(old) \subseteq Ends(new)
    <2>1. Ends(old) = {i \in Ends(new) : i <= Len(old)}
      BY RecordsStay
    <2> QED
      BY <2>1
  <1> HIDE DEF rest, new, text, base, n
  <1>10. base = 0 \/ base \in Ends(new)
    BY <1>3, <1>8, <1>9
  <1> DEFINE m == Len(rest)
             k == Len(chunk)
             size == Len(text)
             newSize == Len(new)
  <1>11. /\ n \in Nat /\ m \in Nat /\ k \in Nat /\ base \in Nat /\ base + m = n
         /\ size = m + k /\ newSize = n + k
    BY <1>1, <1>2, <1>6, <1>7, <1>8, Zenon
  <1> HIDE DEF m, k, size, newSize
  <1>11a. /\ size = newSize - base /\ size \in Nat
          /\ size + 1 \in 1 .. size + 1 /\ base + (size + 1) = newSize + 1
    BY <1>11
  <1> USE DEF m, k, size, newSize
  <1>12. ASSUME NEW i \in 1 .. Len(text)
         PROVE  text[i] = new[base + i]
    <2>1. i \in 1 .. m + k
      BY <1>7
    <2>2. \A j \in 1 .. m : rest[j] = old[base + j]
      BY <1>5, <1>8
    <2>3. /\ \A j \in 1 .. n : new[j] = old[j]
          /\ \A j \in 1 .. k : new[n + j] = chunk[j]
          /\ \A j \in 1 .. m : text[j] = rest[j]
          /\ \A j \in 1 .. k : text[m + j] = chunk[j]
      BY <1>6, <1>7, Zenon
    <2> HIDE DEF m, k
    <2> QED
      <3>1. CASE i <= m
        <4>1. i \in 1 .. m /\ base + i \in 1 .. n
          BY <3>1, <2>1, <1>11
        <4> QED
          BY <4>1, <2>2, <2>3
      <3>2. CASE i > m
        <4>1. i - m \in 1 .. k /\ m + (i - m) = i /\ n + (i - m) = base + i
          BY <3>2, <2>1, <1>11
        <4> QED
          BY <4>1, <2>3
      <3> QED
        BY <3>1, <3>2, <2>1, <1>11
  <1>13. /\ \A i \in 1 .. Len(text) + 1 : RecordAt(text, i) = RecordAt(new, base + i)
         /\ \A i \in Breaks(text) : base + i \in Ends(new)
         /\ \A e \in Breaks(new) : e > base => e - base \in Breaks(text)
    BY <1>6, <1>7, <1>8, <1>10, <1>11a, <1>12, Window
  <1>14. \A i \in Breaks(text) : i \in 1 .. Len(text)
    BY <1>7 DEF Breaks, Ends, Text
  <1>15. \A i \in Breaks(text) : i > Len(rest)
    <2> SUFFICES ASSUME NEW i \in Breaks(text), i <= Len(rest)
                 PROVE  FALSE
      BY <1>2, <1>14
    <2>1. i \in 1 .. Len(rest) /\ text[i] = rest[i] /\ text[i] \in {CR, LF}
      BY <1>2, <1>7, <1>14 DEF Breaks, Ends
    <2> QED
      BY <2>1, <1>2 DEF Ends, Text
  <1>16. CompletedRecords(text, base) \in SUBSET Records
    <2> SUFFICES ASSUME NEW i \in Breaks(text)
                 PROVE  base + i \in Nat /\ RecordAt(text, i) \in Text
      BY DEF CompletedRecords, Records
    <2> QED
      <3>1. i \in 1 .. Len(text) + 1 /\ base + i \in Nat
        BY <1>2, <1>6, <1>7, <1>8, <1>14
      <3> QED
        BY <1>7, <3>1, RecordIsText
  <1>17. \A p \in CompletedRecords(text, base) :
            p.at \in Ends(new) /\ p.at > Len(old) /\ p.text = RecordAt(new, p.at)
    <2> SUFFICES ASSUME NEW i \in Breaks(text)
                 PROVE  /\ base + i \in Ends(new) /\ base + i > n
                        /\ RecordAt(text, i) = RecordAt(new, base + i)
      BY <1>0 DEF CompletedRecords
    <2> QED
      BY <1>1, <1>2, <1>7, <1>8, <1>13, <1>14, <1>15
  <1>18. ASSUME NEW e \in Breaks(new), e > Len(old)
         PROVE  \E p \in CompletedRecords(text, base) : p.at = e
    <2>1. e > base /\ e \in Nat
      BY <1>0, <1>1, <1>2, <1>6, <1>8, <1>18 DEF n, Breaks, Ends, Text
    <2>2. e - base \in Breaks(text) /\ base + (e - base) = e
      BY <2>1, <1>8, <1>13
    <2> DEFINE i == e - base
    <2>3. [at |-> base + i, text |-> RecordAt(text, i)] \in CompletedRecords(text, base)
      BY <2>2 DEF CompletedRecords
    <2> QED
      BY <2>2, <2>3
  <1>19. Remainder(text) = Remainder(new)
    <2>1. Len(text) + 1 \in 1 .. Len(text) + 1 /\ base + (Len(text) + 1) = Len(new) + 1
      BY <1>11a
    <2>2. RecordAt(text, Len(text) + 1) = RecordAt(new, base + (Len(text) + 1))
      BY <2>1, <1>13
    <2> QED
      BY <2>1, <2>2 DEF Remainder
  <1> QED
    BY <1>0, <1>16, <1>17, <1>18, <1>19 DEF new, text, base

-----------------------------------------------------------------------------
(* The state of one task, and what it has stored.  text is the log of its  *)
(* stream, ahead its pending records, held the event in its hand.          *)

Rows == [stream : Streams, at : Nat, line : Nat, event : Text]
Wanted(text, phase) == Expected(text, phase \in {"draining", "done"})
Passed(ahead, e) == \A r \in ahead : e < r.at
PassedOf(places, ahead) == {e \in places : Passed(ahead, e)}
PassedBars(text, ahead) == {e \in PassedOf(Breaks(text), ahead) : RecordAt(text, e) \in Bars}

\* The pending records are records of the text, and none is missing among them.
AheadFits(text, ahead, phase) ==
    /\ ahead # {} => phase \in {"reading", "draining"}
    /\ \A r \in ahead :
          /\ r.text = RecordAt(text, r.at)
          /\ IF phase = "reading" THEN r.at \in Ends(text) ELSE r.at = Len(text) + 1
    /\ \A e \in Breaks(text) : Passed(ahead, e) \/ \E r \in ahead : r.at = e

\* The last signature is that of the last bar passed.
LastFits(text, ahead, signature, phase) ==
    phase = "reading" =>
        \/ signature = None /\ PassedBars(text, ahead) = {}
        \/ \E b \in PassedBars(text, ahead) :
              /\ signature = Signature[RecordAt(text, b)]
              /\ \A m \in PassedBars(text, ahead) : m <= b

\* The number is that of the records passed, with the \n of some \r\n.
CountFits(text, ahead, number, phase) ==
    phase = "reading" \/ ahead # {} =>
        /\ Cardinality(PassedOf(Breaks(text), ahead)) <= number
        /\ number <= Cardinality(PassedOf(Ends(text), ahead))

RowFits(row, text, ahead, phase) ==
    row.at \in Wanted(text, phase) /\ RowIsRecord(row, text) /\ Passed(ahead, row.at)

\* The row that Store is going to insert comes after those that are stored.
RowOf(held, number) == [at |-> held.at, line |-> number, event |-> held.text]
HeldFits(text, ahead, number, held, phase, rows) ==
    held # None =>
        /\ phase \in {"reading", "draining"}
        /\ RowFits(RowOf(held, number), text, ahead, phase)
        /\ \A r \in rows : r.at < held.at

RowsFit(text, ahead, phase, rows) == \A r \in rows : RowFits(r, text, ahead, phase)

\* A record that should be stored is, or it still will be.
NoneLost(text, ahead, held, phase, rows) ==
    \A e \in Wanted(text, phase) :
        \/ \E r \in rows : r.at = e
        \/ held # None /\ held.at = e
        \/ \E r \in ahead : r.at = e
        \/ phase = "failed" /\ \A r \in rows : r.at < e

TaskFits(text, ahead, number, signature, held, phase, rows) ==
    /\ AheadFits(text, ahead, phase) /\ LastFits(text, ahead, signature, phase)
    /\ CountFits(text, ahead, number, phase)
    /\ HeldFits(text, ahead, number, held, phase, rows)
    /\ RowsFit(text, ahead, phase, rows) /\ NoneLost(text, ahead, held, phase, rows)

Stored(s) == {events[i] : i \in RowsOf(s)}
TasksFit ==
    \A s \in Streams :
        TaskFits(log[s], pending[s], count[s], last[s], hand[s], capture[s], Stored(s))

RowsInOrder ==
    \A s \in Streams : \A i, j \in RowsOf(s) : i < j => events[i].at < events[j].at

-----------------------------------------------------------------------------
(* Facts about places in a text                                            *)

LEMMA PlacesFacts ==
    ASSUME NEW text \in Text
    PROVE  /\ Len(text) \in Nat /\ Ends(text) \subseteq 1 .. Len(text)
           /\ Breaks(text) \subseteq Ends(text)
           /\ \A S \in SUBSET Ends(text) : IsFiniteSet(S) /\ Cardinality(S) \in Nat
           /\ \A phase : \A e \in Wanted(text, phase) :
                 e \in Breaks(text) \/ e = Len(text) + 1
  <1>1. /\ Len(text) \in Nat /\ Ends(text) \subseteq 1 .. Len(text)
        /\ Breaks(text) \subseteq Ends(text)
    BY DEF Text, Ends, Breaks
  <1>2. IsFiniteSet(1 .. Len(text))
    BY <1>1, FS_Interval
  <1>3. ASSUME NEW S \in SUBSET Ends(text)
        PROVE  IsFiniteSet(S) /\ Cardinality(S) \in Nat
    <2>1. S \subseteq 1 .. Len(text)
      BY <1>1
    <2>2. IsFiniteSet(S)
      BY <2>1, <1>2, FS_Subset
    <2> QED
      BY <2>2, FS_CardinalityType
  <1>4. \A phase : \A e \in Wanted(text, phase) : e \in Breaks(text) \/ e = Len(text) + 1
    BY DEF Wanted, Expected
  <1> QED
    BY <1>1, <1>3, <1>4

\* The \n of a \r\n ends an empty record.
LEMMA EmptyRecord ==
    ASSUME NEW text \in Text, NEW e \in Ends(text), e \notin Breaks(text)
    PROVE  RecordAt(text, e) = <<>>
  <1>1. Len(text) \in Nat /\ e \in 1 .. Len(text) /\ e \in 1 .. Len(text) + 1
    BY PlacesFacts
  <1>2. e > 1 /\ text[e - 1] = CR
    BY <1>1 DEF Breaks
  <1>3. e - 1 \in Ends(text) /\ e - 1 < e
    BY <1>1, <1>2 DEF Ends, Text
  <1>4. StartOf(text, e) \in 1 .. e /\ e - 1 < StartOf(text, e)
    BY <1>1, <1>3, StartIs
  <1>5. StartOf(text, e) = e
    BY <1>1, <1>4
  <1>6. SubSeq(text, e, e - 1) = <<>>
    BY <1>1 DEF Text
  <1> QED
    BY <1>5, <1>6 DEF RecordAt

\* A text that grows keeps what it wants of its records.
LEMMA WantedStays ==
    ASSUME NEW old \in Text, NEW chunk \in Text, NEW e \in Nat, e <= Len(old)
    PROVE  e \in Wanted(old \o chunk, "reading") <=> e \in Wanted(old, "reading")
  <1> DEFINE new == old \o chunk
  <1>1. /\ Breaks(old) = {i \in Breaks(new) : i <= Len(old)}
        /\ \A i \in 1 .. Len(old) + 1 : RecordAt(new, i) = RecordAt(old, i)
    BY RecordsStay
  <1>2. new \in Text
    BY DEF Text
  <1> HIDE DEF new
  <1>3. /\ Len(old) \in Nat /\ \A i \in Breaks(old) : i \in 1 .. Len(old)
        /\ \A i \in Breaks(new) : i \in Nat
    BY <1>2, PlacesFacts
  <1>4. \A i \in Breaks(old) : i \in Breaks(new) /\ RecordAt(new, i) = RecordAt(old, i)
    BY <1>1, <1>3
  <1>5. ASSUME e \in Breaks(old)
        PROVE  RepeatsBar(new, e) <=> RepeatsBar(old, e)
    <2> DEFINE B(text) == {i \in Breaks(text) : RecordAt(text, i) \in Bars}
    <2>1. \A i \in Nat : i <= e => (i \in B(new) <=> i \in B(old))
      BY <1>1, <1>3, <1>4, <1>5
    <2>2. \A i \in B(new) \cup B(old) : i \in Nat
      BY <1>3
    <2>3. \A i \in B(old) : RecordAt(new, i) = RecordAt(old, i)
      BY <1>4
    <2>4. \A text : RepeatsBar(text, e) <=>
             /\ e \in B(text)
             /\ \E b \in B(text) :
                   /\ b < e /\ \A m \in B(text) : ~(b < m /\ m < e)
                   /\ Signature[RecordAt(text, b)] = Signature[RecordAt(text, e)]
      BY DEF RepeatsBar
    <2> HIDE DEF B
    <2>5. e \in B(old) => RecordAt(new, e) = RecordAt(old, e)
      BY <2>3
    <2> QED
      BY <2>1, <2>2, <2>3, <2>4, <2>5
  <1>6. e # Len(old) + 1 /\ (e \in Breaks(new) <=> e \in Breaks(old))
    BY <1>1, <1>3
  <1>7. \A text : e \in Wanted(text, "reading") <=>
                     e \in Breaks(text) /\ IsEvent(RecordAt(text, e)) /\ ~RepeatsBar(text, e)
    BY DEF Wanted, Expected
  <1>8. e \in Wanted(new, "reading") <=> e \in Wanted(old, "reading")
    BY <1>4, <1>5, <1>6, <1>7
  <1> QED
    BY <1>8 DEF new

-----------------------------------------------------------------------------
(* What each step does to a task                                           *)

LEMMA TaskReads ==
    ASSUME NEW text \in Text, NEW chunk \in Text, NEW number \in Nat, NEW signature,
           NEW rows \in SUBSET Rows,
           TaskFits(text, {}, number, signature, None, "reading", rows)
    PROVE  TaskFits(text \o chunk, CompletedRecords(Buffered(text, chunk), Base(text)),
                    number, signature, None, "reading", rows)
  <1> DEFINE new == text \o chunk
             cut == CompletedRecords(Buffered(text, chunk), Base(text))
  <1>1. /\ cut \in SUBSET Records
        /\ \A p \in cut : p.at \in Ends(new) /\ p.at > Len(text) /\ p.text = RecordAt(new, p.at)
        /\ \A e \in Breaks(new) : e > Len(text) => \E p \in cut : p.at = e
    BY ChunkIsCut
  <1>2. /\ Ends(text) = {i \in Ends(new) : i <= Len(text)}
        /\ Breaks(text) = {i \in Breaks(new) : i <= Len(text)}
        /\ \A i \in 1 .. Len(text) + 1 : RecordAt(new, i) = RecordAt(text, i)
    BY RecordsStay
  <1>3. \A e \in Nat : e <= Len(text) =>
           (e \in Wanted(new, "reading") <=> e \in Wanted(text, "reading"))
    BY WantedStays
  <1>4. new \in Text
    BY DEF Text
  <1> HIDE DEF new, cut
  <1>5. /\ Len(text) \in Nat /\ Ends(text) \subseteq 1 .. Len(text)
        /\ Breaks(text) \subseteq Ends(text)
        /\ \A S \in SUBSET Ends(text) : IsFiniteSet(S) /\ Cardinality(S) \in Nat
    BY PlacesFacts
  <1>6. /\ Len(new) \in Nat /\ Ends(new) \subseteq 1 .. Len(new)
        /\ Breaks(new) \subseteq Ends(new)
        /\ \A S \in SUBSET Ends(new) : IsFiniteSet(S) /\ Cardinality(S) \in Nat
    BY <1>4, PlacesFacts
  <1>7. \A e \in Nat : e <= Len(text) => Passed(cut, e)
    BY <1>1, <1>5, <1>6 DEF Passed
  <1>8. PassedOf(Breaks(new), cut) = Breaks(text) /\ PassedOf(Breaks(text), {}) = Breaks(text)
    <2>1. ASSUME NEW e \in Breaks(new), Passed(cut, e)
          PROVE  e \in Breaks(text)
      <3>1. ~\E p \in cut : p.at = e
        BY <2>1, <1>6 DEF Passed
      <3> QED
        BY <3>1, <1>1, <1>2, <1>5, <1>6
    <2>2. \A e \in Breaks(text) : e \in Breaks(new) /\ Passed(cut, e)
      BY <1>2, <1>5, <1>7
    <2> QED
      BY <2>1, <2>2 DEF PassedOf, Passed
  <1>9. \A e \in Breaks(text) : RecordAt(new, e) = RecordAt(text, e)
    BY <1>2, <1>5
  <1>10. AheadFits(new, cut, "reading")
    <2>1. \A e \in Breaks(new) : Passed(cut, e) \/ \E r \in cut : r.at = e
      <3> SUFFICES ASSUME NEW e \in Breaks(new)
                   PROVE  Passed(cut, e) \/ \E r \in cut : r.at = e
        OBVIOUS
      <3>1. e \in Nat
        BY <1>6
      <3> QED
        BY <3>1, <1>1, <1>5, <1>7
    <2> QED
      BY <2>1, <1>1 DEF AheadFits
  <1>11. LastFits(new, cut, signature, "reading")
    <2>1. PassedBars(new, cut) = PassedBars(text, {})
      BY <1>8, <1>9 DEF PassedBars
    <2>2. LastFits(text, {}, signature, "reading")
      BY DEF TaskFits
    <2>3. \A b \in PassedBars(text, {}) : RecordAt(new, b) = RecordAt(text, b)
      BY <1>8, <1>9 DEF PassedBars
    <2> QED
      BY <2>1, <2>2, <2>3 DEF LastFits
  <1>12. CountFits(new, cut, number, "reading")
    <2>1. /\ Cardinality(Breaks(text)) <= number
          /\ number <= Cardinality(Ends(text))
      <3>1. PassedOf(Ends(text), {}) = Ends(text)
        BY DEF PassedOf, Passed
      <3> QED
        BY <3>1, <1>8 DEF TaskFits, CountFits
    <2>2. Ends(text) \subseteq PassedOf(Ends(new), cut)
      BY <1>2, <1>5, <1>7 DEF PassedOf
    <2>3. PassedOf(Ends(new), cut) \subseteq Ends(new)
      BY DEF PassedOf
    <2>4. Cardinality(Ends(text)) <= Cardinality(PassedOf(Ends(new), cut))
      BY <2>2, <2>3, <1>6, FS_Subset
    <2>5. Cardinality(Ends(text)) \in Nat /\ Cardinality(PassedOf(Ends(new), cut)) \in Nat
      BY <2>3, <1>5, <1>6
    <2> QED
      BY <2>1, <2>4, <2>5, <1>8 DEF CountFits
  <1>13. RowsFit(new, cut, "reading", rows)
    <2> SUFFICES ASSUME NEW r \in rows
                 PROVE  RowFits(r, new, cut, "reading")
      BY DEF RowsFit
    <2>1. RowFits(r, text, {}, "reading")
      BY DEF TaskFits, RowsFit
    <2>2. r.at \in Breaks(text)
      BY <2>1 DEF RowFits, Wanted, Expected
    <2>3. r.at \in Nat /\ 1 <= r.at /\ r.at <= Len(text)
      BY <2>2, <1>5
    <2>4. RowIsRecord(r, new)
      <3>1. {i \in Breaks(new) : i < r.at} = {i \in Breaks(text) : i < r.at}
        BY <2>3, <1>2, <1>5, <1>6
      <3>2. {i \in Ends(new) : i < r.at} = {i \in Ends(text) : i < r.at}
        BY <2>3, <1>2, <1>5, <1>6
      <3>3. RecordAt(new, r.at) = RecordAt(text, r.at)
        BY <2>2, <1>9
      <3> QED
        BY <2>1, <3>1, <3>2, <3>3 DEF RowFits, RowIsRecord
    <2> QED
      BY <2>1, <2>3, <2>4, <1>3, <1>7 DEF RowFits
  <1>14. NoneLost(new, cut, None, "reading", rows)
    <2> SUFFICES ASSUME NEW e \in Wanted(new, "reading")
                 PROVE  (\E r \in rows : r.at = e) \/ \E r \in cut : r.at = e
      BY DEF NoneLost
    <2>1. e \in Breaks(new) /\ e \in Nat
      BY <1>6 DEF Wanted, Expected
    <2>2. CASE e <= Len(text)
      <3>1. e \in Wanted(text, "reading")
        BY <2>1, <2>2, <1>3
      <3> QED
        BY <3>1 DEF TaskFits, NoneLost
    <2>3. CASE e > Len(text)
      BY <2>1, <2>3, <1>1
    <2> QED
      BY <2>1, <2>2, <2>3, <1>5
  <1>15. HeldFits(new, cut, number, None, "reading", rows)
    BY DEF HeldFits
  <1>16. TaskFits(new, cut, number, signature, None, "reading", rows)
    BY <1>10, <1>11, <1>12, <1>13, <1>14, <1>15 DEF TaskFits
  <1> QED
    BY <1>16 DEF new, cut

LEMMA TaskSeesEnd ==
    ASSUME NEW text \in Text, NEW number \in Nat, NEW signature, NEW rows \in SUBSET Rows,
           TaskFits(text, {}, number, signature, None, "reading", rows)
    PROVE  TaskFits(text,
                    IF Remainder(text) = <<>> THEN {}
                    ELSE {[at |-> Len(text) + 1, text |-> Remainder(text)]},
                    number, signature, None, "draining", rows)
  <1> DEFINE final == [at |-> Len(text) + 1, text |-> Remainder(text)]
             ahead == IF Remainder(text) = <<>> THEN {} ELSE {final}
  <1>1. /\ Len(text) \in Nat /\ Ends(text) \subseteq 1 .. Len(text)
        /\ Breaks(text) \subseteq Ends(text)
    BY PlacesFacts
  <1>2. /\ \A r \in ahead : r.at = Len(text) + 1 /\ r.text = RecordAt(text, Len(text) + 1)
        /\ Remainder(text) # <<>> => \E r \in ahead : r.at = Len(text) + 1
    <2>1. final.at = Len(text) + 1 /\ final.text = RecordAt(text, Len(text) + 1)
      BY DEF Remainder
    <2> HIDE DEF final
    <2> QED
      BY <2>1
  <1> HIDE DEF ahead
  <1>3. \A e \in Ends(text) : Passed(ahead, e)
    BY <1>1, <1>2 DEF Passed
  <1>4. /\ PassedOf(Ends(text), ahead) = PassedOf(Ends(text), {})
        /\ PassedOf(Breaks(text), ahead) = PassedOf(Breaks(text), {})
    BY <1>1, <1>3 DEF PassedOf, Passed
  <1>5. \A e : e \in Wanted(text, "draining") <=>
           e \in Wanted(text, "reading") \/ (e = Len(text) + 1 /\ IsEvent(RecordAt(text, e)))
    BY DEF Wanted, Expected
  <1>6. AheadFits(text, ahead, "draining")
    BY <1>1, <1>2, <1>3 DEF AheadFits
  <1>7. LastFits(text, ahead, signature, "draining")
    BY DEF LastFits
  <1>8. CountFits(text, ahead, number, "draining")
    BY <1>4 DEF TaskFits, CountFits
  <1>9. RowsFit(text, ahead, "draining", rows)
    <2> SUFFICES ASSUME NEW r \in rows
                 PROVE  RowFits(r, text, ahead, "draining")
      BY DEF RowsFit
    <2>1. RowFits(r, text, {}, "reading")
      BY DEF TaskFits, RowsFit
    <2>2. r.at \in Breaks(text)
      BY <2>1 DEF RowFits, Wanted, Expected
    <2> QED
      BY <2>1, <2>2, <1>1, <1>3, <1>5 DEF RowFits
  <1>10. NoneLost(text, ahead, None, "draining", rows)
    <2> SUFFICES ASSUME NEW e \in Wanted(text, "draining")
                 PROVE  (\E r \in rows : r.at = e) \/ \E r \in ahead : r.at = e
      BY DEF NoneLost
    <2>1. CASE e \in Wanted(text, "reading")
      BY <2>1 DEF TaskFits, NoneLost
    <2>2. CASE e = Len(text) + 1 /\ IsEvent(RecordAt(text, e))
      BY <2>2, <1>2, OutputAssumption DEF IsEvent, Remainder
    <2> QED
      BY <2>1, <2>2, <1>5
  <1>11. HeldFits(text, ahead, number, None, "draining", rows)
    BY DEF HeldFits
  <1>12. TaskFits(text, ahead, number, signature, None, "draining", rows)
    BY <1>6, <1>7, <1>8, <1>9, <1>10, <1>11 DEF TaskFits
  <1> QED
    BY <1>12 DEF ahead

LEMMA TaskIsDone ==
    ASSUME NEW text \in Text, NEW number \in Nat, NEW signature, NEW rows \in SUBSET Rows,
           TaskFits(text, {}, number, signature, None, "draining", rows)
    PROVE  TaskFits(text, {}, number, signature, None, "done", rows)
  <1>1. Wanted(text, "done") = Wanted(text, "draining")
    BY DEF Wanted
  <1>2. AheadFits(text, {}, "done") /\ LastFits(text, {}, signature, "done")
    BY DEF TaskFits, AheadFits, LastFits
  <1>3. CountFits(text, {}, number, "done") /\ HeldFits(text, {}, number, None, "done", rows)
    BY DEF CountFits, HeldFits
  <1>4. RowsFit(text, {}, "done", rows) /\ NoneLost(text, {}, None, "done", rows)
    BY <1>1 DEF TaskFits, RowsFit, RowFits, NoneLost
  <1> QED
    BY <1>2, <1>3, <1>4 DEF TaskFits

\* The task drops a bar exactly if it should not be stored.
LEMMA DroppedIsUnwanted ==
    ASSUME NEW text \in Text, NEW ahead \in SUBSET Records, NEW signature, NEW phase,
           AheadFits(text, ahead, phase), LastFits(text, ahead, signature, phase),
           NEW r \in ahead, \A q \in ahead : r.at <= q.at
    PROVE  r.at \in Wanted(text, phase) <=>
              /\ IsEvent(r.text)
              /\ ~(phase = "reading" /\ r.text \in Bars /\ Signature[r.text] = signature)
  <1> DEFINE at == r.at
  <1>0. r.at \in Nat /\ \A q \in ahead : q.at \in Nat
    BY DEF Records
  <1>1. /\ Len(text) \in Nat /\ Ends(text) \subseteq 1 .. Len(text)
        /\ Breaks(text) \subseteq Ends(text)
    BY PlacesFacts
  <1>2. /\ phase \in {"reading", "draining"} /\ r.text = RecordAt(text, at)
        /\ IF phase = "reading" THEN at \in Ends(text) ELSE at = Len(text) + 1
    BY DEF AheadFits
  <1>3. \A e \in Nat : Passed(ahead, e) <=> e < at
    BY <1>0 DEF Passed
  <1> HIDE DEF at
  <1>4. CASE phase = "draining"
    <2>1. at \notin Breaks(text) /\ at = Len(text) + 1
      BY <1>1, <1>2, <1>4
    <2>2. at \in Wanted(text, phase) <=> IsEvent(RecordAt(text, at))
      BY <2>1, <1>4 DEF Wanted, Expected
    <2> QED
      BY <2>2, <1>2, <1>4 DEF at
  <1>5. CASE phase = "reading"
    <2>1. at \in Wanted(text, phase) <=>
             at \in Breaks(text) /\ IsEvent(RecordAt(text, at)) /\ ~RepeatsBar(text, at)
      BY <1>1, <1>2, <1>5 DEF Wanted, Expected
    <2>2. IsEvent(r.text) => at \in Breaks(text)
      BY <1>2, <1>5, EmptyRecord, OutputAssumption DEF IsEvent
    <2>3. ASSUME at \in Breaks(text), r.text \in Bars
          PROVE  RepeatsBar(text, at) <=> Signature[r.text] = signature
      <3> DEFINE B == {i \in Breaks(text) : RecordAt(text, i) \in Bars}
      <3>1. at \in B /\ \A i \in B : i \in Nat
        BY <1>1, <1>2, <2>3
      <3>2. RepeatsBar(text, at) <=>
               \E b \in B : /\ b < at /\ \A m \in B : ~(b < m /\ m < at)
                            /\ Signature[RecordAt(text, b)] = Signature[r.text]
        BY <3>1, <1>2 DEF RepeatsBar
      <3>3. PassedBars(text, ahead) = {i \in B : i < at}
        BY <3>1, <1>3 DEF PassedBars, PassedOf
      <3>4. Signature[r.text] # None
        BY <2>3, OutputAssumption
      <3> HIDE DEF B
      <3>5. CASE signature = None /\ PassedBars(text, ahead) = {}
        BY <3>2, <3>3, <3>4, <3>5
      <3>6. CASE \E b \in PassedBars(text, ahead) :
                   /\ signature = Signature[RecordAt(text, b)]
                   /\ \A m \in PassedBars(text, ahead) : m <= b
        <4>1. PICK b \in B : /\ b < at /\ signature = Signature[RecordAt(text, b)]
                             /\ \A m \in B : m < at => m <= b
          BY <3>3, <3>6
        <4>2. \A m \in B : ~(b < m /\ m < at)
          BY <4>1, <3>1
        <4>3. ASSUME NEW c \in B, c < at, \A m \in B : ~(c < m /\ m < at)
              PROVE  c = b
          BY <4>1, <4>3, <3>1
        <4> QED
          BY <3>2, <4>1, <4>2, <4>3
      <3> QED
        BY <3>5, <3>6, <1>5 DEF LastFits
    <2>4. r.text \in Bars => IsEvent(r.text)
      BY DEF IsEvent
    <2>5. r.text \notin Bars => ~RepeatsBar(text, at)
      BY <1>2 DEF RepeatsBar
    <2>6. at \in Wanted(text, phase) <=>
             at \in Breaks(text) /\ IsEvent(r.text) /\ ~RepeatsBar(text, at)
      BY <2>1, <1>2
    <2>7. at \in Wanted(text, phase) <=>
             IsEvent(r.text) /\ ~(r.text \in Bars /\ Signature[r.text] = signature)
      <3>1. CASE IsEvent(r.text) /\ r.text \in Bars
        <4>1. RepeatsBar(text, at) <=> Signature[r.text] = signature
          BY <2>2, <2>3, <3>1
        <4> QED
          BY <4>1, <3>1, <2>2, <2>6
      <3>2. CASE IsEvent(r.text) /\ r.text \notin Bars
        BY <3>2, <2>2, <2>5, <2>6
      <3>3. CASE ~IsEvent(r.text)
        BY <3>3, <2>6
      <3> QED
        BY <3>1, <3>2, <3>3
    <2> QED
      BY <2>7, <1>5 DEF at
  <1> QED
    BY <1>2, <1>4, <1>5

\* Without its first record, the task has passed that record and no other.
LEMMA NextIsPassed ==
    ASSUME NEW text \in Text, NEW ahead \in SUBSET Records, NEW phase,
           AheadFits(text, ahead, phase),
           NEW r \in ahead, \A q \in ahead : r.at <= q.at
    PROVE  /\ \A q \in ahead \ {r} : r.at < q.at
           /\ \A e \in Nat : Passed(ahead, e) <=> e < r.at
           /\ \A e \in Nat : e <= r.at => Passed(ahead \ {r}, e)
           /\ \A e \in Breaks(text) : Passed(ahead \ {r}, e) => e <= r.at
           /\ AheadFits(text, ahead \ {r}, phase)
  <1>0. r.at \in Nat /\ \A q \in ahead : q.at \in Nat
    BY DEF Records
  <1>1. \A q \in ahead : q.text = RecordAt(text, q.at)
    BY DEF AheadFits
  <1>2. ASSUME NEW q \in ahead \ {r}
        PROVE  r.at < q.at
    <2>1. q.at = r.at => q.text = r.text
      BY <1>1
    <2>2. q.at = r.at => q = r
      BY <2>1 DEF Records
    <2> QED
      BY <2>2, <1>0
  <1>3. \A e \in Nat : Passed(ahead, e) <=> e < r.at
    BY <1>0 DEF Passed
  <1>4. \A e \in Nat : e <= r.at => Passed(ahead \ {r}, e)
    BY <1>0, <1>2 DEF Passed
  <1>5. \A e \in Breaks(text) : e \in Nat
    BY PlacesFacts
  <1>6. ASSUME NEW e \in Breaks(text)
        PROVE  /\ Passed(ahead \ {r}, e) => e <= r.at
               /\ Passed(ahead \ {r}, e) \/ \E q \in ahead \ {r} : q.at = e
    <2>1. Passed(ahead, e) \/ \E q \in ahead : q.at = e
      BY DEF AheadFits
    <2>2. CASE Passed(ahead, e)
      <3>1. e \in Nat /\ e < r.at
        BY <2>2, <1>3, <1>5
      <3> QED
        BY <3>1, <1>0, <1>4
    <2>3. CASE \E q \in ahead : q.at = e
      <3>1. PICK q \in ahead : q.at = e
        BY <2>3
      <3>2. CASE q = r
        BY <3>1, <3>2, <1>0, <1>4
      <3>3. CASE q # r
        <4>1. ~(e < e)
          BY <1>5
        <4> QED
          BY <3>1, <3>3, <4>1 DEF Passed
      <3> QED
        BY <3>2, <3>3
    <2> QED
      BY <2>1, <2>2, <2>3
  <1>7. AheadFits(text, ahead \ {r}, phase)
    BY <1>6 DEF AheadFits
  <1> QED
    BY <1>2, <1>3, <1>4, <1>6, <1>7

LEMMA TaskTakes ==
    ASSUME NEW text \in Text, NEW ahead \in SUBSET Records, NEW number \in Nat,
           NEW signature, NEW phase, NEW rows \in SUBSET Rows,
           TaskFits(text, ahead, number, signature, None, phase, rows),
           NEW r \in ahead, \A q \in ahead : r.at <= q.at,
           NEW nextHeld, NEW nextSignature,
           IF /\ IsEvent(r.text)
              /\ ~(phase = "reading" /\ r.text \in Bars /\ Signature[r.text] = signature)
           THEN /\ nextHeld = r
                /\ nextSignature = IF r.text \in Bars /\ phase = "reading"
                                   THEN Signature[r.text] ELSE signature
           ELSE nextHeld = None /\ nextSignature = signature
    PROVE  TaskFits(text, ahead \ {r}, number + 1, nextSignature, nextHeld, phase, rows)
  <1> DEFINE rest == ahead \ {r}
  <1>0. r.at \in Nat /\ \A q \in ahead : q.at \in Nat
    BY DEF Records
  <1>1. /\ Len(text) \in Nat /\ Ends(text) \subseteq 1 .. Len(text)
        /\ Breaks(text) \subseteq Ends(text)
        /\ \A S \in SUBSET Ends(text) : IsFiniteSet(S) /\ Cardinality(S) \in Nat
    BY PlacesFacts
  <1>2. AheadFits(text, ahead, phase) /\ LastFits(text, ahead, signature, phase)
    BY DEF TaskFits
  <1>3. /\ \A q \in rest : r.at < q.at
        /\ \A e \in Nat : Passed(ahead, e) <=> e < r.at
        /\ \A e \in Nat : e <= r.at => Passed(rest, e)
        /\ \A e \in Breaks(text) : Passed(rest, e) => e <= r.at
        /\ AheadFits(text, rest, phase)
    BY <1>2, NextIsPassed
  <1>4. /\ phase \in {"reading", "draining"} /\ r.text = RecordAt(text, r.at)
        /\ IF phase = "reading" THEN r.at \in Ends(text) ELSE r.at = Len(text) + 1
    BY <1>2 DEF AheadFits
  <1>5. phase = "draining" => rest = {}
    <2> SUFFICES ASSUME phase = "draining", NEW q \in rest
                 PROVE  FALSE
      OBVIOUS
    <2>1. q.at = Len(text) + 1 /\ r.at = Len(text) + 1
      BY <1>2 DEF AheadFits
    <2> QED
      BY <2>1, <1>1, <1>3
  <1>6. r.at \in Wanted(text, phase) <=> nextHeld = r
    <2>1. r # None
      BY OutputAssumption DEF Records, Text
    <2>2. nextHeld = r <=>
             /\ IsEvent(r.text)
             /\ ~(phase = "reading" /\ r.text \in Bars /\ Signature[r.text] = signature)
      BY <2>1
    <2> QED
      BY <2>2, <1>2, DroppedIsUnwanted
  <1>7. nextHeld \in {r, None}
    OBVIOUS
  <1>8. /\ PassedOf(Ends(text), ahead) = {e \in Ends(text) : e < r.at}
        /\ PassedOf(Breaks(text), ahead) = {e \in Breaks(text) : e < r.at}
    BY <1>1, <1>3 DEF PassedOf
  <1>9. /\ Cardinality({e \in Breaks(text) : e < r.at}) <= number
        /\ number <= Cardinality({e \in Ends(text) : e < r.at})
    BY <1>8 DEF TaskFits, CountFits
  <1>3a. /\ \A e \in Breaks(text) : e \in Nat /\ (Passed(rest, e) <=> e <= r.at)
         /\ \A e \in Ends(text) : e \in Nat /\ (e <= r.at => Passed(rest, e))
    <2>1. \A e \in Ends(text) : e \in Nat
      BY <1>1
    <2> HIDE DEF rest
    <2>2. \A e \in Breaks(text) : Passed(rest, e) <=> e <= r.at
      BY <2>1, <1>1, <1>3
    <2>3. \A e \in Ends(text) : e <= r.at => Passed(rest, e)
      BY <2>1, <1>3
    <2> QED
      BY <2>1, <2>2, <2>3, <1>1
  <1>10. CountFits(text, rest, number + 1, phase)
    <2> SUFFICES ASSUME phase = "reading"
                 PROVE  /\ Cardinality(PassedOf(Breaks(text), rest)) <= number + 1
                        /\ number + 1 <= Cardinality(PassedOf(Ends(text), rest))
      BY <1>4, <1>5 DEF CountFits
    <2> DEFINE before == {e \in Breaks(text) : e < r.at}
               endsBefore == {e \in Ends(text) : e < r.at}
    <2>1. /\ IsFiniteSet(before) /\ Cardinality(before) \in Nat /\ r.at \notin before
          /\ IsFiniteSet(endsBefore) /\ Cardinality(endsBefore) \in Nat /\ r.at \notin endsBefore
      BY <1>0, <1>1
    <2>2. /\ IsFiniteSet(before \cup {r.at}) /\ IsFiniteSet(endsBefore \cup {r.at})
          /\ Cardinality(before \cup {r.at}) = Cardinality(before) + 1
          /\ Cardinality(endsBefore \cup {r.at}) = Cardinality(endsBefore) + 1
      BY <2>1, FS_AddElement
    <2>3. PassedOf(Breaks(text), rest) \subseteq before \cup {r.at}
      <3> SUFFICES ASSUME NEW e \in Breaks(text), Passed(rest, e)
                   PROVE  e < r.at \/ e = r.at
        BY DEF PassedOf
      <3>1. e \in Nat /\ e <= r.at
        BY <1>3a
      <3> QED
        BY <3>1, <1>0
    <2>4. /\ endsBefore \cup {r.at} \subseteq PassedOf(Ends(text), rest)
          /\ PassedOf(Ends(text), rest) \subseteq Ends(text)
      <3>1. r.at \in Ends(text) /\ r.at <= r.at
        BY <1>0, <1>4
      <3>2. \A e \in endsBefore \cup {r.at} : e \in Ends(text) /\ Passed(rest, e)
        <4>1. \A e \in endsBefore : e \in Ends(text) /\ e <= r.at
          BY <1>0, <1>3a
        <4>2. \A e \in Ends(text) : e <= r.at => Passed(rest, e)
          BY <1>3a
        <4> HIDE DEF rest, endsBefore
        <4> QED
          BY <4>1, <4>2, <3>1
      <3> QED
        BY <3>2 DEF PassedOf
    <2>5. PassedOf(Breaks(text), rest) \subseteq Ends(text)
      BY <1>1 DEF PassedOf
    <2>6. /\ Cardinality(PassedOf(Breaks(text), rest)) <= Cardinality(before \cup {r.at})
          /\ Cardinality(PassedOf(Breaks(text), rest)) \in Nat
      BY <2>2, <2>3, <2>5, <1>1, FS_Subset
    <2>7. /\ Cardinality(endsBefore \cup {r.at}) <= Cardinality(PassedOf(Ends(text), rest))
          /\ Cardinality(PassedOf(Ends(text), rest)) \in Nat
      BY <2>4, <1>1, FS_Subset
    <2>8. Cardinality(before) <= number /\ number <= Cardinality(endsBefore)
      BY <1>9
    <2> HIDE DEF before, endsBefore
    <2> QED
      BY <2>1, <2>2, <2>6, <2>7, <2>8
  <1>11. LastFits(text, rest, nextSignature, phase)
    <2> SUFFICES ASSUME phase = "reading"
                 PROVE  \/ nextSignature = None /\ PassedBars(text, rest) = {}
                        \/ \E b \in PassedBars(text, rest) :
                              /\ nextSignature = Signature[RecordAt(text, b)]
                              /\ \A m \in PassedBars(text, rest) : m <= b
      BY DEF LastFits
    <2>1. \A e : e \in PassedBars(text, ahead) <=>
                    e \in Breaks(text) /\ RecordAt(text, e) \in Bars /\ e < r.at
      BY <1>1, <1>3 DEF PassedBars, PassedOf
    <2>2. \A e : e \in PassedBars(text, rest) <=>
                    e \in Breaks(text) /\ RecordAt(text, e) \in Bars /\ e <= r.at
      BY <1>3a DEF PassedBars, PassedOf
    <2>3. \A e \in Breaks(text) : e \in Nat
      BY <1>1
    <2>4. CASE r.text \in Bars
      <3>1. r.at \in Breaks(text)
        BY <2>4, <1>4, EmptyRecord, OutputAssumption
      <3>2. r.at \in PassedBars(text, rest) /\ \A m \in PassedBars(text, rest) : m <= r.at
        BY <3>1, <2>2, <2>4, <1>0, <1>4
      <3>3. nextSignature = Signature[r.text]
        BY <2>4 DEF IsEvent
      <3> QED
        BY <3>2, <3>3, <1>4
    <2>5. CASE r.text \notin Bars
      <3>1. \A e : e \in PassedBars(text, rest) <=> e \in PassedBars(text, ahead)
        <4>1. \A e \in Nat : e <= r.at <=> e < r.at \/ e = r.at
          BY <1>0
        <4>2. RecordAt(text, r.at) \notin Bars
          BY <2>5, <1>4
        <4> QED
          BY <4>1, <4>2, <2>1, <2>2, <2>3
      <3>2. PassedBars(text, rest) = PassedBars(text, ahead)
        BY <3>1
      <3>3. nextSignature = signature
        BY <2>5
      <3> QED
        BY <3>2, <3>3, <1>2 DEF LastFits
    <2> QED
      BY <2>4, <2>5
  <1>12. RowsFit(text, rest, phase, rows)
    BY DEF TaskFits, RowsFit, RowFits, Passed
  <1>13. HeldFits(text, rest, number + 1, nextHeld, phase, rows)
    <2> SUFFICES ASSUME nextHeld = r
                 PROVE  /\ RowFits(RowOf(r, number + 1), text, rest, phase)
                        /\ \A q \in rows : q.at < r.at
      BY <1>4, <1>7 DEF HeldFits
    <2>1. RowIsRecord(RowOf(r, number + 1), text)
      <3>1. /\ Cardinality({e \in Breaks(text) : e < r.at}) \in Nat
            /\ Cardinality({e \in Ends(text) : e < r.at}) \in Nat
        BY <1>1
      <3> QED
        BY <3>1, <1>4, <1>9 DEF RowIsRecord, RowOf
    <2>2. Passed(rest, r.at)
      BY <1>0, <1>3
    <2>3. \A q \in rows : q.at < r.at
      BY DEF TaskFits, RowsFit, RowFits, Passed
    <2> QED
      BY <2>1, <2>2, <2>3, <1>6 DEF RowFits, RowOf
  <1>14. NoneLost(text, rest, nextHeld, phase, rows)
    <2> SUFFICES ASSUME NEW e \in Wanted(text, phase)
                 PROVE  \/ \E q \in rows : q.at = e
                        \/ nextHeld = r /\ r.at = e
                        \/ \E q \in rest : q.at = e
      BY OutputAssumption DEF NoneLost, Records, Text
    <2>1. (\E q \in rows : q.at = e) \/ \E q \in ahead : q.at = e
      BY <1>4 DEF TaskFits, NoneLost
    <2> QED
      BY <2>1, <1>6
  <1>15. TaskFits(text, rest, number + 1, nextSignature, nextHeld, phase, rows)
    BY <1>3, <1>10, <1>11, <1>12, <1>13, <1>14 DEF TaskFits
  <1> QED
    BY <1>15

LEMMA TaskStores ==
    ASSUME NEW text \in Text, NEW ahead \in SUBSET Records, NEW number \in Nat,
           NEW signature, NEW held \in Records, NEW phase, NEW rows \in SUBSET Rows,
           TaskFits(text, ahead, number, signature, held, phase, rows),
           NEW row \in Rows, row.at = held.at, row.line = number, row.event = held.text
    PROVE  TaskFits(text, ahead, number, signature, None, phase, rows \cup {row})
  <1>1. held # None
    BY OutputAssumption DEF Records, Text
  <1>2. /\ phase \in {"reading", "draining"}
        /\ RowFits(RowOf(held, number), text, ahead, phase)
    BY <1>1 DEF TaskFits, HeldFits
  <1>3. RowFits(row, text, ahead, phase)
    BY <1>2 DEF RowFits, RowOf, RowIsRecord
  <1>4. RowsFit(text, ahead, phase, rows \cup {row})
    BY <1>3 DEF TaskFits, RowsFit
  <1>5. NoneLost(text, ahead, None, phase, rows \cup {row})
    BY <1>2 DEF TaskFits, NoneLost
  <1>6. HeldFits(text, ahead, number, None, phase, rows \cup {row})
    BY DEF HeldFits
  <1> QED
    BY <1>4, <1>5, <1>6 DEF TaskFits

LEMMA TaskFailsWell ==
    ASSUME NEW text \in Text, NEW ahead \in SUBSET Records, NEW number \in Nat,
           NEW signature, NEW held \in Records \cup {None}, NEW phase,
           NEW rows \in SUBSET Rows,
           TaskFits(text, ahead, number, signature, held, phase, rows),
           held # None \/ phase = "reading"
    PROVE  TaskFits(text, {}, number, signature, None, "failed", rows)
  <1>1. /\ Len(text) \in Nat /\ Ends(text) \subseteq 1 .. Len(text)
        /\ Breaks(text) \subseteq Ends(text)
        /\ \A e \in Wanted(text, phase) : e \in Breaks(text) \/ e = Len(text) + 1
    BY PlacesFacts
  <1>2. phase \in {"reading", "draining"}
    BY DEF TaskFits, HeldFits
  <1>3. \A e : e \in Wanted(text, "failed") <=> e \in Wanted(text, phase) /\ e \in Breaks(text)
    <2>1. Len(text) + 1 \notin Breaks(text)
      BY <1>1
    <2> QED
      BY <2>1 DEF Wanted, Expected
  <1>4. AheadFits(text, {}, "failed") /\ LastFits(text, {}, signature, "failed")
    BY DEF AheadFits, LastFits, Passed
  <1>5. CountFits(text, {}, number, "failed") /\ HeldFits(text, {}, number, None, "failed", rows)
    BY DEF CountFits, HeldFits
  <1>6. RowsFit(text, {}, "failed", rows)
    <2> SUFFICES ASSUME NEW r \in rows
                 PROVE  RowFits(r, text, {}, "failed")
      BY DEF RowsFit
    <2>1. RowFits(r, text, ahead, phase) /\ r.at \in Nat
      BY DEF TaskFits, RowsFit, Rows
    <2>2. r.at \in Breaks(text)
      <3>1. CASE phase = "reading"
        BY <2>1, <3>1 DEF RowFits, Wanted, Expected
      <3>2. CASE held # None
        <4>1. held.at \in Wanted(text, phase) /\ r.at < held.at
          BY <3>2 DEF TaskFits, HeldFits, RowFits, RowOf
        <4>2. r.at # Len(text) + 1
          BY <4>1, <2>1, <1>1
        <4> QED
          BY <4>2, <2>1, <1>1 DEF RowFits
      <3> QED
        BY <3>1, <3>2
    <2> QED
      BY <2>1, <2>2, <1>3 DEF RowFits, Passed
  <1>7. NoneLost(text, {}, None, "failed", rows)
    <2> SUFFICES ASSUME NEW e \in Wanted(text, "failed")
                 PROVE  (\E r \in rows : r.at = e) \/ \A r \in rows : r.at < e
      BY DEF NoneLost
    <2>1. \/ \E r \in rows : r.at = e
          \/ held # None /\ held.at = e
          \/ \E r \in ahead : r.at = e
      BY <1>2, <1>3 DEF TaskFits, NoneLost
    <2>2. CASE held # None /\ held.at = e
      BY <2>2 DEF TaskFits, HeldFits
    <2>3. CASE \E r \in ahead : r.at = e
      BY <2>3 DEF TaskFits, RowsFit, RowFits, Passed
    <2> QED
      BY <2>1, <2>2, <2>3
  <1> QED
    BY <1>4, <1>5, <1>6, <1>7 DEF TaskFits

-----------------------------------------------------------------------------
(* Type correctness, and the log                                           *)

Signatures == {Signature[bar] : bar \in Bars}

Fields ==
    /\ script \in Scripts /\ script \in [Streams -> Text]
    /\ sent \in [Streams -> Nat] /\ read \in [Streams -> Nat]
    /\ log \in [Streams -> Text] /\ buffer \in [Streams -> Text]
    /\ pending \in [Streams -> SUBSET Records]
    /\ count \in [Streams -> Nat] /\ last \in [Streams -> Signatures \cup {None}]
    /\ hand \in [Streams -> Records \cup {None}]
    /\ capture \in [Streams -> {"reading", "draining", "done", "failed"}]
    /\ events \in Seq(Rows)
    /\ child \in {"running", "exited"} /\ run \in {"running", "final"}
    /\ faults \in 0 .. MaxFaults

\* Only events are stored, and a task that has ended holds nothing.
EventsOnly ==
    /\ \A s \in Streams : hand[s] # None => IsEvent(hand[s].text)
    /\ \A i \in DOMAIN events : IsEvent(events[i].event)
    /\ \A s \in Streams :
          capture[s] \in {"done", "failed"} => pending[s] = {} /\ hand[s] = None

\* The log is what the task has read, and a task that has seen the end of its
\* stream has read all that its child wrote.
LogFollows ==
    \A s \in Streams :
        /\ read[s] <= sent[s] /\ sent[s] <= Len(script[s]) /\ sent[s] - read[s] <= Capacity
        /\ capture[s] # "failed" => log[s] = SubSeq(script[s], 1, read[s])
        /\ capture[s] = "reading" => buffer[s] = Remainder(log[s])
        /\ buffer[s] \in {Remainder(log[s]), <<>>}
        /\ capture[s] \in {"draining", "done"} => child = "exited" /\ read[s] = sent[s]

TypeInv == Fields /\ EventsOnly /\ LogFollows

LEMMA Prefixes ==
    ASSUME NEW all \in Text, NEW n \in Nat, NEW to \in Nat, n < to, to <= Len(all)
    PROVE  /\ SubSeq(all, n + 1, to) \in Text /\ Len(SubSeq(all, 1, n)) = n
           /\ SubSeq(all, 1, n) \o SubSeq(all, n + 1, to) = SubSeq(all, 1, to)
  <1> DEFINE a == SubSeq(all, 1, n)
             b == SubSeq(all, n + 1, to)
  <1>1. a \in Text /\ Len(a) = n /\ \A i \in 1 .. n : a[i] = all[i]
    BY DEF Text
  <1>2. b \in Text /\ Len(b) = to - n /\ \A i \in 1 .. to - n : b[i] = all[n + i]
    BY DEF Text
  <1>3. /\ SubSeq(all, 1, to) \in Text /\ Len(SubSeq(all, 1, to)) = to
        /\ \A i \in 1 .. to : SubSeq(all, 1, to)[i] = all[i]
    BY DEF Text
  <1> HIDE DEF a, b
  <1>4. /\ a \o b \in Text /\ Len(a \o b) = to
        /\ \A i \in 1 .. n : (a \o b)[i] = a[i]
        /\ \A i \in 1 .. to - n : (a \o b)[n + i] = b[i]
    <2>1. /\ a \o b \in Text /\ Len(a \o b) = Len(a) + Len(b)
          /\ \A i \in 1 .. Len(a) : (a \o b)[i] = a[i]
          /\ \A i \in 1 .. Len(b) : (a \o b)[Len(a) + i] = b[i]
      <3>1. a \in Text /\ b \in Text
        BY <1>1, <1>2
      <3> QED
        BY <3>1 DEF Text
    <2>2. Len(a) + Len(b) = to
      BY <1>1, <1>2
    <2> QED
      BY <2>1, <2>2, <1>1, <1>2
  <1>5. ASSUME NEW i \in 1 .. to
        PROVE  (a \o b)[i] = all[i]
    <2>1. CASE i <= n
      BY <2>1, <1>1, <1>4
    <2>2. CASE i > n
      <3>1. i - n \in 1 .. to - n /\ n + (i - n) = i
        BY <2>2
      <3> QED
        BY <3>1, <1>2, <1>4
    <2>3. i <= n \/ i > n
      OBVIOUS
    <2> QED
      BY <2>1, <2>2, <2>3
  <1>6. a \o b = SubSeq(all, 1, to)
    BY <1>3, <1>4, <1>5 DEF Text
  <1> QED
    BY <1>1, <1>2, <1>6 DEF a, b

\* ReadChunk in terms of the whole output.
LEMMA ChunkIsRead ==
    ASSUME TypeInv, NEW s \in Streams, ReadChunk(s)
    PROVE  \E to \in Nat, chunk \in Text :
              /\ read[s] < to /\ to <= sent[s]
              /\ log[s] \o chunk = SubSeq(script[s], 1, to)
              /\ read' = [read EXCEPT ![s] = to]
              /\ log' = [log EXCEPT ![s] = log[s] \o chunk]
              /\ pending' = [pending EXCEPT ![s] =
                               CompletedRecords(Buffered(log[s], chunk), Base(log[s]))]
              /\ buffer' = [buffer EXCEPT ![s] = Remainder(log[s] \o chunk)]
  <1> DEFINE all == script[s]
             n == read[s]
  <1>1. PICK to \in n + 1 .. sent[s] :
           LET chunk == SubSeq(all, n + 1, to)
               text == buffer[s] \o chunk
           IN  /\ read' = [read EXCEPT ![s] = to]
               /\ log' = [log EXCEPT ![s] = @ \o chunk]
               /\ pending' = [pending EXCEPT ![s] =
                                CompletedRecords(text, n - Len(buffer[s]))]
               /\ buffer' = [buffer EXCEPT ![s] = Remainder(text)]
    BY DEF ReadChunk
  <1> DEFINE chunk == SubSeq(all, n + 1, to)
  <1>2. /\ all \in Text /\ n \in Nat /\ sent[s] \in Nat /\ sent[s] <= Len(all)
        /\ log[s] \in Text /\ log[s] = SubSeq(all, 1, n) /\ buffer[s] = Remainder(log[s])
    BY DEF TypeInv, Fields, LogFollows, ReadChunk, AwaitsChunk
  <1>3. to \in Nat /\ n < to /\ to <= sent[s] /\ to <= Len(all)
    BY <1>1, <1>2
  <1>4. chunk \in Text /\ log[s] \o chunk = SubSeq(all, 1, to) /\ Len(log[s]) = n
    <2>1. /\ SubSeq(all, n + 1, to) \in Text /\ Len(SubSeq(all, 1, n)) = n
          /\ SubSeq(all, 1, n) \o SubSeq(all, n + 1, to) = SubSeq(all, 1, to)
      BY <1>2, <1>3, Prefixes, Zenon
    <2> HIDE DEF n, all
    <2> QED
      BY <2>1, <1>2 DEF chunk
  <1>5. n - Len(buffer[s]) = Base(log[s]) /\ buffer[s] \o chunk = Buffered(log[s], chunk)
    BY <1>2, <1>4 DEF Base, Buffered
  <1>6. Remainder(Buffered(log[s], chunk)) = Remainder(log[s] \o chunk)
    BY <1>2, <1>4, ChunkIsCut
  <1>7. /\ read' = [read EXCEPT ![s] = to]
        /\ log' = [log EXCEPT ![s] = log[s] \o chunk]
        /\ pending' = [pending EXCEPT ![s] =
                         CompletedRecords(Buffered(log[s], chunk), Base(log[s]))]
        /\ buffer' = [buffer EXCEPT ![s] = Remainder(log[s] \o chunk)]
    BY <1>1, <1>5, <1>6
  <1> HIDE DEF chunk
  <1> QED
    BY <1>3, <1>4, <1>7

LEMMA TypeInit == Init => TypeInv
  <1> SUFFICES ASSUME Init PROVE TypeInv
    OBVIOUS
  <1>1. script \in [Streams -> Text]
    BY OutputAssumption DEF Init, Text
  <1>2. <<>> \in Text /\ Remainder(<<>>) = <<>>
    <2>1. <<>> \in Text
      BY DEF Text
    <2>2. Remainder(<<>>) \in Text /\ Ends(<<>>) = {} /\ Len(<<>>) + 1 \in 1 .. Len(<<>>) + 1
      BY <2>1, RemainderHasNoEnds DEF Ends
    <2>3. StartOf(<<>>, Len(<<>>) + 1) = 1
      BY <2>1, <2>2, StartIs
    <2>4. Remainder(<<>>) = SubSeq(<<>>, 1, (Len(<<>>) + 1) - 1)
      BY <2>3, RecordIs DEF Remainder
    <2> QED
      BY <2>1, <2>4
  <1>3. Fields
    BY <1>1, <1>2, OutputAssumption DEF Init, Fields
  <1>4. EventsOnly
    BY DEF Init, EventsOnly
  <1>5. LogFollows
    <2> SUFFICES ASSUME NEW s \in Streams
                 PROVE  /\ 0 <= Len(script[s]) /\ 0 - 0 <= Capacity
                        /\ <<>> = SubSeq(script[s], 1, 0)
      BY <1>2 DEF Init, LogFollows
    <2>1. script[s] \in Text
      BY <1>1
    <2> QED
      BY <2>1, OutputAssumption DEF Text
  <1> QED
    BY <1>3, <1>4, <1>5 DEF TypeInv

LEMMA TypeNext == TypeInv /\ [Next]_vars => TypeInv'
  <1> SUFFICES ASSUME TypeInv, [Next]_vars
               PROVE  TypeInv'
    OBVIOUS
  <1> USE DEF jobVars, bytesVars, recordVars
  <1>1. CASE Exit \/ Kill \/ Finalize
    <2>1. Fields'
      BY <1>1 DEF Exit, Kill, Finalize, TypeInv, Fields
    <2>2. EventsOnly'
      BY <1>1 DEF Exit, Kill, Finalize, TypeInv, EventsOnly
    <2>3. LogFollows'
      BY <1>1 DEF Exit, Kill, Finalize, TypeInv, LogFollows
    <2> QED
      BY <2>1, <2>2, <2>3 DEF TypeInv
  <1>2. ASSUME NEW s \in Streams, Write(s)
        PROVE  TypeInv'
    <2>1. Fields'
      BY <1>2 DEF Write, TypeInv, Fields
    <2>2. EventsOnly'
      BY <1>2 DEF Write, TypeInv, EventsOnly
    <2>3. LogFollows'
      BY <1>2, OutputAssumption DEF Write, TypeInv, LogFollows, Fields, Text
    <2> QED
      BY <2>1, <2>2, <2>3 DEF TypeInv
  <1>3. ASSUME NEW s \in Streams, ReadChunk(s)
        PROVE  TypeInv'
    <2>1. PICK to \in Nat, chunk \in Text :
              /\ read[s] < to /\ to <= sent[s]
              /\ log[s] \o chunk = SubSeq(script[s], 1, to)
              /\ read' = [read EXCEPT ![s] = to]
              /\ log' = [log EXCEPT ![s] = log[s] \o chunk]
              /\ pending' = [pending EXCEPT ![s] =
                               CompletedRecords(Buffered(log[s], chunk), Base(log[s]))]
              /\ buffer' = [buffer EXCEPT ![s] = Remainder(log[s] \o chunk)]
      BY <1>3, ChunkIsRead
    <2>2. log[s] \in Text
      BY DEF TypeInv, Fields
    <2>3. log[s] \o chunk \in Text
      BY <2>2 DEF Text
    <2>4. /\ Remainder(log[s] \o chunk) \in Text
          /\ CompletedRecords(Buffered(log[s], chunk), Base(log[s])) \in SUBSET Records
      BY <2>2, <2>3, RemainderHasNoEnds, ChunkIsCut
    <2>5. Fields'
      BY <1>3, <2>1, <2>3, <2>4 DEF ReadChunk, TypeInv, Fields
    <2>6. EventsOnly'
      BY <1>3, <2>1 DEF ReadChunk, AwaitsChunk, TypeInv, Fields, EventsOnly
    <2>7. LogFollows'
      <3> SUFFICES ASSUME NEW t \in Streams
                   PROVE  /\ read'[t] <= sent[t] /\ sent[t] <= Len(script[t])
                          /\ sent[t] - read'[t] <= Capacity
                          /\ capture[t] # "failed" => log'[t] = SubSeq(script[t], 1, read'[t])
                          /\ capture[t] = "reading" => buffer'[t] = Remainder(log'[t])
                          /\ buffer'[t] \in {Remainder(log'[t]), <<>>}
                          /\ capture[t] \in {"draining", "done"} =>
                                child = "exited" /\ read'[t] = sent[t]
        BY <1>3 DEF ReadChunk, LogFollows
      <3>1. CASE t = s
        <4>1. /\ read'[s] = to /\ log'[s] = log[s] \o chunk
              /\ buffer'[s] = Remainder(log[s] \o chunk) /\ capture[s] = "reading"
          BY <1>3, <2>1 DEF TypeInv, Fields, ReadChunk, AwaitsChunk
        <4>2. sent[s] - to <= Capacity
          BY <2>1, OutputAssumption DEF TypeInv, Fields, LogFollows
        <4> QED
          BY <2>1, <3>1, <4>1, <4>2 DEF TypeInv, LogFollows
      <3>2. CASE t # s
        BY <2>1, <3>2 DEF TypeInv, Fields, LogFollows
      <3> QED
        BY <3>1, <3>2
    <2> QED
      BY <2>5, <2>6, <2>7 DEF TypeInv
  <1>4. ASSUME NEW s \in Streams, TakeRecord(s)
        PROVE  TypeInv'
    <2>1. PICK record \in pending[s] :
             /\ pending' = [pending EXCEPT ![s] = @ \ {record}]
             /\ IF IsEvent(record.text) /\ ~Repeats(s, record.text)
                THEN /\ hand' = [hand EXCEPT ![s] = record]
                     /\ last' = IF record.text \in Bars /\ capture[s] = "reading"
                                THEN [last EXCEPT ![s] = Signature[record.text]] ELSE last
                ELSE UNCHANGED <<hand, last>>
      BY <1>4 DEF TakeRecord
    <2>2. record \in Records /\ capture[s] \notin {"done", "failed"}
      BY <2>1 DEF TypeInv, Fields, EventsOnly
    <2>3. Fields'
      <3>1. last' \in [Streams -> Signatures \cup {None}]
        <4>1. last \in [Streams -> Signatures \cup {None}]
          BY DEF TypeInv, Fields
        <4>2. record.text \in Bars => Signature[record.text] \in Signatures
          BY DEF Signatures
        <4>3. last' = last \/ (record.text \in Bars /\
                                  last' = [last EXCEPT ![s] = Signature[record.text]])
          BY <2>1
        <4> QED
          BY <4>1, <4>2, <4>3
      <3>2. hand' \in [Streams -> Records \cup {None}]
        BY <2>1, <2>2 DEF TypeInv, Fields
      <3>3. pending' \in [Streams -> SUBSET Records]
        BY <2>1 DEF TypeInv, Fields
      <3>4. count' \in [Streams -> Nat]
        BY <1>4 DEF TakeRecord, TypeInv, Fields
      <3> QED
        BY <1>4, <3>1, <3>2, <3>3, <3>4 DEF TakeRecord, TypeInv, Fields
    <2>4. EventsOnly'
      <3>1. UNCHANGED <<capture, events>>
        BY <1>4 DEF TakeRecord
      <3>2. \A t \in Streams : hand'[t] # None => IsEvent(hand'[t].text)
        BY <2>1 DEF TypeInv, Fields, EventsOnly
      <3>3. \A t \in Streams : t # s => pending'[t] = pending[t] /\ hand'[t] = hand[t]
        BY <2>1 DEF TypeInv, Fields
      <3>4. \A t \in Streams :
               capture[t] \in {"done", "failed"} => pending'[t] = {} /\ hand'[t] = None
        BY <2>2, <3>3 DEF TypeInv, EventsOnly
      <3> QED
        BY <3>1, <3>2, <3>4 DEF TypeInv, EventsOnly
    <2>5. LogFollows'
      BY <1>4 DEF TakeRecord, TypeInv, LogFollows
    <2> QED
      BY <2>3, <2>4, <2>5 DEF TypeInv
  <1>5. ASSUME NEW s \in Streams, Store(s)
        PROVE  TypeInv'
    <2> DEFINE row == [stream |-> s, at |-> hand[s].at, line |-> count[s],
                       event |-> hand[s].text]
    <2>1. row \in Rows /\ IsEvent(row.event)
      BY <1>5 DEF Store, TypeInv, Fields, EventsOnly, Records, Rows
    <2>2. events' = Append(events, row) /\ hand' = [hand EXCEPT ![s] = None]
      BY <1>5 DEF Store
    <2> HIDE DEF row
    <2>3. Fields'
      BY <1>5, <2>1, <2>2 DEF Store, TypeInv, Fields
    <2>4. EventsOnly'
      <3>1. \A i \in DOMAIN events' : IsEvent(events'[i].event)
        BY <2>1, <2>2 DEF TypeInv, Fields, EventsOnly
      <3>2. \A t \in Streams : hand'[t] # None => IsEvent(hand'[t].text)
        BY <2>2 DEF TypeInv, Fields, EventsOnly
      <3>3. \A t \in Streams :
               capture[t] \in {"done", "failed"} => pending[t] = {} /\ hand'[t] = None
        BY <2>2 DEF TypeInv, Fields, EventsOnly
      <3> QED
        BY <1>5, <3>1, <3>2, <3>3 DEF Store, EventsOnly
    <2>5. LogFollows'
      BY <1>5 DEF Store, TypeInv, LogFollows
    <2> QED
      BY <2>3, <2>4, <2>5 DEF TypeInv
  <1>6. ASSUME NEW s \in Streams, EndOfStream(s)
        PROVE  TypeInv'
    <2>1. buffer[s] \in Text /\ log[s] \in Text /\ Len(log[s]) + 1 \in Nat /\ <<>> \in Text
      BY DEF TypeInv, Fields, Text
    <2>2. Fields'
      BY <1>6, <2>1 DEF EndOfStream, TypeInv, Fields, Records
    <2>3. EventsOnly'
      BY <1>6 DEF EndOfStream, AwaitsChunk, TypeInv, Fields, EventsOnly
    <2>4. LogFollows'
      BY <1>6 DEF EndOfStream, AwaitsChunk, AtEnd, TypeInv, Fields, LogFollows
    <2> QED
      BY <2>2, <2>3, <2>4 DEF TypeInv
  <1>7. ASSUME NEW s \in Streams, CaptureDone(s)
        PROVE  TypeInv'
    <2>1. Fields'
      BY <1>7 DEF CaptureDone, TypeInv, Fields
    <2>2. EventsOnly'
      BY <1>7 DEF CaptureDone, TypeInv, Fields, EventsOnly
    <2>3. LogFollows'
      BY <1>7 DEF CaptureDone, TypeInv, Fields, LogFollows
    <2> QED
      BY <2>1, <2>2, <2>3 DEF TypeInv
  <1>8. ASSUME NEW s \in Streams, LogFails(s)
        PROVE  TypeInv'
    <2>1. PICK to \in read[s] + 1 .. sent[s] : read' = [read EXCEPT ![s] = to]
      BY <1>8 DEF LogFails
    <2>2. to \in Nat /\ read[s] < to /\ to <= sent[s] /\ sent[s] - to <= Capacity
      BY <2>1, OutputAssumption DEF TypeInv, Fields, LogFollows
    <2>3. Fields'
      BY <1>8, <2>1, <2>2, OutputAssumption DEF LogFails, TaskFails, TypeInv, Fields
    <2>4. EventsOnly'
      BY <1>8 DEF LogFails, TaskFails, TypeInv, Fields, EventsOnly
    <2>5. LogFollows'
      BY <1>8, <2>1, <2>2 DEF LogFails, TaskFails, TypeInv, Fields, LogFollows
    <2> QED
      BY <2>3, <2>4, <2>5 DEF TypeInv
  <1>9. ASSUME NEW s \in Streams, StoreFails(s)
        PROVE  TypeInv'
    <2>1. Fields'
      BY <1>9, OutputAssumption DEF StoreFails, TaskFails, TypeInv, Fields
    <2>2. EventsOnly'
      BY <1>9 DEF StoreFails, TaskFails, TypeInv, Fields, EventsOnly
    <2>3. LogFollows'
      BY <1>9 DEF StoreFails, TaskFails, TypeInv, Fields, LogFollows
    <2> QED
      BY <2>1, <2>2, <2>3 DEF TypeInv
  <1>10. CASE UNCHANGED vars
    BY <1>10 DEF vars, TypeInv, Fields, EventsOnly, LogFollows
  <1> QED
    BY <1>1, <1>2, <1>3, <1>4, <1>5, <1>6, <1>7, <1>8, <1>9, <1>10 DEF Next, Capture

LEMMA TypeAlways == Spec => []TypeInv
  BY TypeInit, TypeNext, PTL DEF Spec

\* The variables hold what they are declared to hold, no end of line waits in
\* a buffer, and a task that has ended holds nothing.
THEOREM TypeCorrect == Spec => []TypeOK
  <1>1. TypeInv => TypeOK
    <2> SUFFICES ASSUME TypeInv PROVE TypeOK
      OBVIOUS
    <2>1. ASSUME NEW s \in Streams
          PROVE  /\ 0 <= read[s] /\ read[s] <= sent[s] /\ sent[s] <= Len(script[s])
                 /\ sent[s] - read[s] <= Capacity
                 /\ Ends(buffer[s]) = {}
                 /\ last[s] = None \/ \E b \in Bars : last[s] = Signature[b]
                 /\ hand[s] = None \/ IsEvent(hand[s].text)
                 /\ capture[s] \in {"reading", "draining", "done", "failed"}
                 /\ capture[s] \in {"done", "failed"} => pending[s] = {} /\ hand[s] = None
      <3>1. Ends(buffer[s]) = {}
        <4>1. log[s] \in Text /\ buffer[s] \in {Remainder(log[s]), <<>>}
          BY DEF TypeInv, Fields, LogFollows
        <4>2. Ends(<<>>) = {}
          BY DEF Ends
        <4> QED
          BY <4>1, <4>2, RemainderHasNoEnds
      <3>2. last[s] = None \/ \E b \in Bars : last[s] = Signature[b]
        BY DEF TypeInv, Fields, Signatures
      <3> QED
        BY <3>1, <3>2 DEF TypeInv, Fields, EventsOnly, LogFollows
    <2>2. \A i \in DOMAIN events : events[i].stream \in Streams /\ IsEvent(events[i].event)
      <3>1. \A i \in DOMAIN events : events[i] \in Rows
        BY DEF TypeInv, Fields
      <3> QED
        BY <3>1 DEF TypeInv, EventsOnly, Rows
    <2> QED
      BY <2>1, <2>2 DEF TypeInv, Fields, TypeOK
  <1> QED
    BY <1>1, TypeAlways, PTL

\* The log of a stream whose task has ended well holds all that the child wrote,
\* although the child may have been killed in the middle of a record.
THEOREM LogsAreComplete == Spec => []LogIsComplete
  <1>1. TypeInv => LogIsComplete
    BY DEF TypeInv, LogFollows, LogIsComplete
  <1> QED
    BY <1>1, TypeAlways, PTL

-----------------------------------------------------------------------------
(* The events stored are those of the output                               *)

LEMMA StoredFacts ==
    ASSUME TypeInv
    PROVE  /\ \A s \in Streams : Stored(s) \in SUBSET Rows
           /\ events' = events => \A s \in Streams : Stored(s)' = Stored(s)
  <1>1. \A s \in Streams : Stored(s) \in SUBSET Rows
    BY DEF TypeInv, Fields, Stored, RowsOf
  <1>2. events' = events => \A s \in Streams : Stored(s)' = Stored(s)
    BY DEF Stored, RowsOf
  <1> QED
    BY <1>1, <1>2

LEMMA StoredGrows ==
    ASSUME TypeInv, NEW row \in Rows, events' = Append(events, row)
    PROVE  /\ Stored(row.stream)' = Stored(row.stream) \cup {row}
           /\ \A s \in Streams \ {row.stream} : Stored(s)' = Stored(s)
  <1> DEFINE n == Len(events)
  <1>1. events \in Seq(Rows) /\ n \in Nat /\ DOMAIN events = 1 .. n
    BY DEF TypeInv, Fields
  <1>2. /\ DOMAIN events' = 1 .. n + 1 /\ events'[n + 1] = row
        /\ \A i \in 1 .. n : events'[i] = events[i]
    BY <1>1
  <1> HIDE DEF n
  <1>3. ASSUME NEW s \in Streams, s # row.stream
        PROVE  Stored(s)' = Stored(s)
    <2>1. RowsOf(s)' = RowsOf(s) /\ \A i \in RowsOf(s) : events'[i] = events[i]
      BY <1>1, <1>2, <1>3 DEF RowsOf
    <2> QED
      BY <2>1 DEF Stored
  <1>4. Stored(row.stream)' = Stored(row.stream) \cup {row}
    <2> DEFINE s == row.stream
    <2>1. /\ RowsOf(s)' = RowsOf(s) \cup {n + 1}
          /\ \A i \in RowsOf(s) : events'[i] = events[i]
      BY <1>1, <1>2 DEF RowsOf
    <2> QED
      BY <2>1, <1>2 DEF Stored
  <1> QED
    BY <1>3, <1>4

LEMMA TasksInit == Init => TasksFit /\ RowsInOrder
  <1> SUFFICES ASSUME Init PROVE TasksFit /\ RowsInOrder
    OBVIOUS
  <1>1. <<>> \in Text /\ Ends(<<>>) = {} /\ Breaks(<<>>) = {} /\ Cardinality({}) = 0
    BY FS_EmptySet DEF Text, Ends, Breaks
  <1>2. Wanted(<<>>, "reading") = {}
    BY <1>1 DEF Wanted, Expected
  <1>3. PassedOf({}, {}) = {} /\ PassedBars(<<>>, {}) = {}
    BY <1>1 DEF PassedOf, PassedBars
  <1>4. TaskFits(<<>>, {}, 0, None, None, "reading", {})
    <2>1. AheadFits(<<>>, {}, "reading") /\ LastFits(<<>>, {}, None, "reading")
      BY <1>1, <1>3 DEF AheadFits, LastFits
    <2>2. CountFits(<<>>, {}, 0, "reading")
      <3>1. PassedOf(Breaks(<<>>), {}) = {} /\ PassedOf(Ends(<<>>), {}) = {}
        BY <1>1, <1>3
      <3>2. Cardinality({}) <= 0 /\ 0 <= Cardinality({})
        BY <1>1
      <3> QED
        BY <3>1, <3>2 DEF CountFits
    <2>3. HeldFits(<<>>, {}, 0, None, "reading", {}) /\ RowsFit(<<>>, {}, "reading", {})
      BY DEF HeldFits, RowsFit
    <2>4. NoneLost(<<>>, {}, None, "reading", {})
      BY <1>2 DEF NoneLost
    <2> QED
      BY <2>1, <2>2, <2>3, <2>4 DEF TaskFits
  <1>5. \A s \in Streams : RowsOf(s) = {} /\ Stored(s) = {}
    BY DEF Init, RowsOf, Stored
  <1> QED
    BY <1>4, <1>5 DEF Init, TasksFit, RowsInOrder

LEMMA TasksNext == TypeInv /\ TasksFit /\ [Next]_vars => TasksFit'
  <1> SUFFICES ASSUME TypeInv, TasksFit, [Next]_vars, NEW t \in Streams
               PROVE  TaskFits(log'[t], pending'[t], count'[t], last'[t], hand'[t],
                               capture'[t], Stored(t)')
    BY DEF TasksFit
  <1> DEFINE Fits == TaskFits(log[t], pending[t], count[t], last[t], hand[t],
                              capture[t], Stored(t))
             FitsNext == TaskFits(log'[t], pending'[t], count'[t], last'[t], hand'[t],
                                  capture'[t], Stored(t)')
  <1>0. Fits
    BY DEF TasksFit
  <1>t. /\ log[t] \in Text /\ pending[t] \in SUBSET Records /\ count[t] \in Nat
        /\ hand[t] \in Records \cup {None} /\ Stored(t) \in SUBSET Rows
    BY StoredFacts DEF TypeInv, Fields
  <1>u. events' = events => Stored(t)' = Stored(t)
    BY StoredFacts
  <1> USE DEF jobVars, bytesVars, recordVars
  <1>1. CASE Exit \/ Kill \/ Finalize \/ UNCHANGED vars
    BY <1>0, <1>1, <1>u DEF Exit, Kill, Finalize, vars
  <1>2. ASSUME NEW s \in Streams, Write(s)
        PROVE  FitsNext
    BY <1>0, <1>2, <1>u DEF Write
  <1>3. ASSUME NEW s \in Streams, ReadChunk(s)
        PROVE  FitsNext
    <2>1. PICK to \in Nat, chunk \in Text :
              /\ read[s] < to /\ to <= sent[s]
              /\ log[s] \o chunk = SubSeq(script[s], 1, to)
              /\ read' = [read EXCEPT ![s] = to]
              /\ log' = [log EXCEPT ![s] = log[s] \o chunk]
              /\ pending' = [pending EXCEPT ![s] =
                               CompletedRecords(Buffered(log[s], chunk), Base(log[s]))]
              /\ buffer' = [buffer EXCEPT ![s] = Remainder(log[s] \o chunk)]
      BY <1>3, ChunkIsRead
    <2>2. /\ UNCHANGED <<count, last, hand, capture>> /\ Stored(t)' = Stored(t)
      BY <1>3, <1>u DEF ReadChunk
    <2>3. CASE t = s
      <3>1. pending[t] = {} /\ hand[t] = None /\ capture[t] = "reading"
        BY <1>3, <2>3 DEF ReadChunk, AwaitsChunk
      <3>2. /\ log'[t] = log[t] \o chunk
            /\ pending'[t] = CompletedRecords(Buffered(log[t], chunk), Base(log[t]))
        BY <2>1, <2>3 DEF TypeInv, Fields
      <3>3. TaskFits(log[t], {}, count[t], last[t], None, "reading", Stored(t))
        BY <1>0, <3>1
      <3>4. TaskFits(log[t] \o chunk, CompletedRecords(Buffered(log[t], chunk), Base(log[t])),
                     count[t], last[t], None, "reading", Stored(t))
        BY <1>t, <3>3, TaskReads
      <3> QED
        BY <2>2, <3>1, <3>2, <3>4
    <2>4. CASE t # s
      <3>1. log'[t] = log[t] /\ pending'[t] = pending[t]
        BY <2>1, <2>4 DEF TypeInv, Fields
      <3> QED
        BY <1>0, <2>2, <3>1
    <2> QED
      BY <2>3, <2>4
  <1>4. ASSUME NEW s \in Streams, TakeRecord(s)
        PROVE  FitsNext
    <2>1. PICK record \in pending[s] :
             /\ \A other \in pending[s] : record.at <= other.at
             /\ pending' = [pending EXCEPT ![s] = @ \ {record}]
             /\ IF IsEvent(record.text) /\ ~Repeats(s, record.text)
                THEN /\ hand' = [hand EXCEPT ![s] = record]
                     /\ last' = IF record.text \in Bars /\ capture[s] = "reading"
                                THEN [last EXCEPT ![s] = Signature[record.text]] ELSE last
                ELSE UNCHANGED <<hand, last>>
      BY <1>4 DEF TakeRecord
    <2>2. /\ hand[s] = None /\ count' = [count EXCEPT ![s] = @ + 1]
          /\ UNCHANGED <<log, capture>> /\ Stored(t)' = Stored(t)
      BY <1>4, <1>u DEF TakeRecord
    <2>3. CASE t = s
      <3>1. /\ pending'[t] = pending[t] \ {record} /\ count'[t] = count[t] + 1
            /\ hand[t] = None
        BY <2>1, <2>2, <2>3 DEF TypeInv, Fields
      <3>2. IF /\ IsEvent(record.text)
               /\ ~(capture[t] = "reading" /\ record.text \in Bars
                       /\ Signature[record.text] = last[t])
            THEN /\ hand'[t] = record
                 /\ last'[t] = IF record.text \in Bars /\ capture[t] = "reading"
                               THEN Signature[record.text] ELSE last[t]
            ELSE hand'[t] = None /\ last'[t] = last[t]
        BY <2>1, <2>2, <2>3 DEF TypeInv, Fields, Repeats
      <3>3. TaskFits(log[t], pending[t], count[t], last[t], None, capture[t], Stored(t))
        BY <1>0, <3>1
      <3>4. record \in pending[t] /\ \A other \in pending[t] : record.at <= other.at
        BY <2>1, <2>3
      <3>5. TaskFits(log[t], pending[t] \ {record}, count[t] + 1, last'[t], hand'[t],
                     capture[t], Stored(t))
        BY <1>t, <3>2, <3>3, <3>4, TaskTakes
      <3> QED
        BY <2>2, <3>1, <3>5
    <2>4. CASE t # s
      <3>1. /\ pending'[t] = pending[t] /\ count'[t] = count[t]
            /\ hand'[t] = hand[t] /\ last'[t] = last[t]
        BY <2>1, <2>2, <2>4 DEF TypeInv, Fields
      <3> QED
        BY <1>0, <2>2, <3>1
    <2> QED
      BY <2>3, <2>4
  <1>5. ASSUME NEW s \in Streams, Store(s)
        PROVE  FitsNext
    <2> DEFINE row == [stream |-> s, at |-> hand[s].at, line |-> count[s],
                       event |-> hand[s].text]
    <2>1. hand[s] # None /\ hand[s] \in Records /\ row \in Rows
      BY <1>5 DEF Store, TypeInv, Fields, Records, Rows
    <2>2. events' = Append(events, row) /\ hand' = [hand EXCEPT ![s] = None]
      BY <1>5 DEF Store
    <2>3. /\ row.stream = s /\ row.at = hand[s].at /\ row.line = count[s]
          /\ row.event = hand[s].text
      OBVIOUS
    <2> HIDE DEF row
    <2>4. /\ Stored(s)' = Stored(s) \cup {row}
          /\ \A q \in Streams \ {s} : Stored(q)' = Stored(q)
      BY <2>1, <2>2, <2>3, StoredGrows
    <2>5. UNCHANGED <<log, pending, count, last, capture>>
      BY <1>5 DEF Store
    <2>6. CASE t = s
      <3>1. hand'[t] = None
        BY <2>2, <2>6 DEF TypeInv, Fields
      <3>2. TaskFits(log[t], pending[t], count[t], last[t], None, capture[t],
                     Stored(t) \cup {row})
        BY <1>0, <1>t, <2>1, <2>3, <2>6, TaskStores
      <3> QED
        BY <2>4, <2>5, <2>6, <3>1, <3>2
    <2>7. CASE t # s
      <3>1. hand'[t] = hand[t] /\ Stored(t)' = Stored(t)
        BY <2>2, <2>4, <2>7 DEF TypeInv, Fields
      <3> QED
        BY <1>0, <2>5, <3>1
    <2> QED
      BY <2>6, <2>7
  <1>6. ASSUME NEW s \in Streams, EndOfStream(s)
        PROVE  FitsNext
    <2>1. UNCHANGED <<log, count, last, hand>> /\ Stored(t)' = Stored(t)
      BY <1>6, <1>u DEF EndOfStream
    <2>2. CASE t = s
      <3>1. /\ pending[t] = {} /\ hand[t] = None /\ capture[t] = "reading"
            /\ buffer[t] = Remainder(log[t])
        BY <1>6, <2>2 DEF EndOfStream, AwaitsChunk, TypeInv, LogFollows
      <3>2. /\ capture'[t] = "draining"
            /\ pending'[t] = IF buffer[t] = <<>> THEN {}
                             ELSE {[at |-> Len(log[t]) + 1, text |-> buffer[t]]}
        BY <1>6, <2>2 DEF EndOfStream, TypeInv, Fields
      <3>3. TaskFits(log[t], {}, count[t], last[t], None, "reading", Stored(t))
        BY <1>0, <3>1
      <3>4. TaskFits(log[t],
                     IF Remainder(log[t]) = <<>> THEN {}
                     ELSE {[at |-> Len(log[t]) + 1, text |-> Remainder(log[t])]},
                     count[t], last[t], None, "draining", Stored(t))
        BY <1>t, <3>3, TaskSeesEnd
      <3> QED
        BY <2>1, <3>1, <3>2, <3>4
    <2>3. CASE t # s
      <3>1. pending'[t] = pending[t] /\ capture'[t] = capture[t]
        BY <1>6, <2>3 DEF EndOfStream, TypeInv, Fields
      <3> QED
        BY <1>0, <2>1, <3>1
    <2> QED
      BY <2>2, <2>3
  <1>7. ASSUME NEW s \in Streams, CaptureDone(s)
        PROVE  FitsNext
    <2>1. UNCHANGED <<log, pending, count, last, hand>> /\ Stored(t)' = Stored(t)
      BY <1>7, <1>u DEF CaptureDone
    <2>2. CASE t = s
      <3>1. pending[t] = {} /\ hand[t] = None /\ capture[t] = "draining"
            /\ capture'[t] = "done"
        BY <1>7, <2>2 DEF CaptureDone, TypeInv, Fields
      <3>2. TaskFits(log[t], {}, count[t], last[t], None, "done", Stored(t))
        BY <1>0, <1>t, <3>1, TaskIsDone
      <3> QED
        BY <2>1, <3>1, <3>2
    <2>3. CASE t # s
      <3>1. capture'[t] = capture[t]
        BY <1>7, <2>3 DEF CaptureDone, TypeInv, Fields
      <3> QED
        BY <1>0, <2>1, <3>1
    <2> QED
      BY <2>2, <2>3
  <1>8. ASSUME NEW s \in Streams, LogFails(s) \/ StoreFails(s)
        PROVE  FitsNext
    <2>1. TaskFails(s) /\ (hand[s] # None \/ capture[s] = "reading")
      BY <1>8 DEF LogFails, StoreFails, AwaitsChunk
    <2>2. UNCHANGED <<log, count, last>> /\ Stored(t)' = Stored(t)
      BY <1>u, <2>1 DEF TaskFails
    <2>3. CASE t = s
      <3>1. pending'[t] = {} /\ hand'[t] = None /\ capture'[t] = "failed"
        BY <2>1, <2>3 DEF TaskFails, TypeInv, Fields
      <3>2. TaskFits(log[t], {}, count[t], last[t], None, "failed", Stored(t))
        BY <1>0, <1>t, <2>1, <2>3, TaskFailsWell
      <3> QED
        BY <2>2, <3>1, <3>2
    <2>4. CASE t # s
      <3>1. pending'[t] = pending[t] /\ hand'[t] = hand[t] /\ capture'[t] = capture[t]
        BY <2>1, <2>4 DEF TaskFails, TypeInv, Fields
      <3> QED
        BY <1>0, <2>2, <3>1
    <2> QED
      BY <2>3, <2>4
  <1> QED
    BY <1>1, <1>2, <1>3, <1>4, <1>5, <1>6, <1>7, <1>8 DEF Next, Capture

LEMMA OrderNext == TypeInv /\ TasksFit /\ RowsInOrder /\ [Next]_vars => RowsInOrder'
  <1> SUFFICES ASSUME TypeInv, TasksFit, RowsInOrder, [Next]_vars
               PROVE  RowsInOrder'
    OBVIOUS
  <1>1. CASE events' = events
    BY <1>1 DEF RowsInOrder, RowsOf
  <1>2. ASSUME NEW s \in Streams, Store(s)
        PROVE  RowsInOrder'
    <2> DEFINE row == [stream |-> s, at |-> hand[s].at, line |-> count[s],
                       event |-> hand[s].text]
               n == Len(events)
    <2>1. events \in Seq(Rows) /\ n \in Nat /\ DOMAIN events = 1 .. n
      BY DEF TypeInv, Fields
    <2>2. hand[s] # None /\ events' = Append(events, row)
      BY <1>2 DEF Store
    <2>3. row.stream = s /\ row.at = hand[s].at
      OBVIOUS
    <2> HIDE DEF row
    <2>4. /\ DOMAIN events' = 1 .. n + 1 /\ events'[n + 1] = row
          /\ \A i \in 1 .. n : events'[i] = events[i]
      BY <2>1, <2>2
    <2>5. \A i \in RowsOf(s) : events[i].at < hand[s].at
      <3>1. \A r \in Stored(s) : r.at < hand[s].at
        BY <2>2 DEF TasksFit, TaskFits, HeldFits
      <3> QED
        BY <3>1 DEF Stored
    <2> HIDE DEF n
    <2>6. ASSUME NEW t \in Streams, NEW i \in RowsOf(t)', NEW j \in RowsOf(t)', i < j
          PROVE  events'[i].at < events'[j].at
      <3>1. /\ i \in 1 .. n + 1 /\ j \in 1 .. n + 1
            /\ events'[i].stream = t /\ events'[j].stream = t
        BY <2>4 DEF RowsOf
      <3>2. i \in 1 .. n /\ events'[i] = events[i] /\ i \in RowsOf(t)
        BY <3>1, <2>1, <2>4, <2>6 DEF RowsOf
      <3>3. CASE j \in 1 .. n
        BY <3>1, <3>2, <3>3, <2>1, <2>4, <2>6 DEF RowsInOrder, RowsOf
      <3>4. CASE j = n + 1
        BY <3>1, <3>2, <3>4, <2>3, <2>4, <2>5
      <3> QED
        BY <3>1, <3>3, <3>4, <2>1
    <2> QED
      BY <2>6 DEF RowsInOrder
  <1> USE DEF jobVars, bytesVars, recordVars
  <1>3. ASSUME NEW s \in Streams,
               \/ Write(s) \/ ReadChunk(s) \/ TakeRecord(s) \/ EndOfStream(s)
               \/ CaptureDone(s) \/ LogFails(s) \/ StoreFails(s)
        PROVE  events' = events
    BY <1>3 DEF Write, ReadChunk, TakeRecord, EndOfStream, CaptureDone, LogFails,
                StoreFails, TaskFails
  <1>4. Exit \/ Kill \/ Finalize \/ UNCHANGED vars => events' = events
    BY DEF Exit, Kill, Finalize, vars
  <1> QED
    BY <1>1, <1>2, <1>3, <1>4 DEF Next, Capture

\* Whatever the child writes, however its output is cut into chunks, and
\* wherever a kill or an error ends it: what is stored for a stream are the
\* events of its records, each once, in order, and none left out.
THEOREM EventsAreTheOutput == Spec => []EventsFollowOutput
  <1>1. TypeInv /\ TasksFit /\ RowsInOrder => EventsFollowOutput
    <2> SUFFICES ASSUME TypeInv, TasksFit, RowsInOrder, NEW s \in Streams
                 PROVE  LET expected == Expected(log[s], Ended(s))
                        IN  /\ \A i \in RowsOf(s) :
                                  events[i].at \in expected /\ RowIsRecord(events[i], log[s])
                            /\ \A i, j \in RowsOf(s) : i < j => events[i].at < events[j].at
                            /\ \A e \in expected :
                                  \/ \E i \in RowsOf(s) : events[i].at = e
                                  \/ ~Settled(s) /\ \A i \in RowsOf(s) : events[i].at < e
      BY DEF EventsFollowOutput
    <2> DEFINE expected == Expected(log[s], Ended(s))
    <2>1. expected = Wanted(log[s], capture[s])
      BY DEF Wanted, Ended
    <2>2. /\ HeldFits(log[s], pending[s], count[s], hand[s], capture[s], Stored(s))
          /\ RowsFit(log[s], pending[s], capture[s], Stored(s))
          /\ NoneLost(log[s], pending[s], hand[s], capture[s], Stored(s))
      BY DEF TasksFit, TaskFits
    <2> HIDE DEF expected
    <2>3. \A i \in RowsOf(s) : RowFits(events[i], log[s], pending[s], capture[s])
      BY <2>2 DEF RowsFit, Stored
    <2>4. \A i \in RowsOf(s) : events[i].at \in expected /\ RowIsRecord(events[i], log[s])
      BY <2>1, <2>3 DEF RowFits
    <2>5. ASSUME NEW e \in expected
          PROVE  \/ \E i \in RowsOf(s) : events[i].at = e
                 \/ ~Settled(s) /\ \A i \in RowsOf(s) : events[i].at < e
      <3>1. \/ \E r \in Stored(s) : r.at = e
            \/ hand[s] # None /\ hand[s].at = e
            \/ \E r \in pending[s] : r.at = e
            \/ capture[s] = "failed" /\ \A r \in Stored(s) : r.at < e
        BY <2>1, <2>2 DEF NoneLost
      <3>2. CASE \E r \in Stored(s) : r.at = e
        BY <3>2 DEF Stored
      <3>3. CASE hand[s] # None /\ hand[s].at = e
        BY <3>3, <2>2 DEF HeldFits, Stored, Settled
      <3>4. CASE \E r \in pending[s] : r.at = e
        BY <3>4, <2>3 DEF RowFits, Passed, Settled
      <3>5. CASE capture[s] = "failed" /\ \A r \in Stored(s) : r.at < e
        BY <3>5 DEF Stored, Settled
      <3> QED
        BY <3>1, <3>2, <3>3, <3>4, <3>5
    <2> QED
      BY <2>4, <2>5 DEF RowsInOrder, expected
  <1> QED
    BY <1>1, TypeAlways, TypeInit, TypeNext, TasksInit, TasksNext, OrderNext, PTL DEF Spec

=============================================================================
