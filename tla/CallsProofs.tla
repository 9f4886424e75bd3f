---------------------------- MODULE CallsProofs -----------------------------
(***************************************************************************)
(* What the calls are promised: a record reads back from the line it is    *)
(* written as, and is refused exactly beyond the bounds; however many      *)
(* threads call the embedded session, each gets the reply to its own call, *)
(* which is what the mutex is for; and that reply is the right answer,     *)
(* though arguments and answers cross the bridge as padded buffers, lanes  *)
(* and bytes.                                                              *)
(***************************************************************************)
EXTENDS Calls, FieldProofs, FiniteSetTheorems, FunctionTheorems

-----------------------------------------------------------------------------
(* What the encoder writes reads back. *)

Spells(s, field, k) ==
    s \in Seq(Byte) /\ Len(s) = k /\ \A i \in 1..k : s[i] = field[i]

LEMMA SpellsOneMore ==
    ASSUME NEW field \in Seq(Byte), NEW k \in 1..Len(field), NEW s,
           Spells(s, field, k - 1)
    PROVE  Spells(Append(s, field[k]), field, k)
<1>1. /\ Append(s, field[k]) \in Seq(Byte) /\ Len(Append(s, field[k])) = Len(s) + 1
      /\ \A i \in 1..Len(s) : Append(s, field[k])[i] = s[i]
      /\ Append(s, field[k])[Len(s) + 1] = field[k]
  BY AppendProperties DEF Spells
<1>2. PICK t : t = Append(s, field[k])
  OBVIOUS
<1>3. Len(s) = k - 1 /\ (k - 1) + 1 = k
      /\ \A i \in 1..k : i \in 1..(k - 1) \/ i = k
  BY DEF Spells
<1>4. \A i \in 1..k : t[i] = field[i]
  BY <1>1, <1>2, <1>3 DEF Spells
<1> QED BY <1>1, <1>2, <1>3, <1>4 DEF Spells

LEMMA SpellsAll ==
    ASSUME NEW field \in Seq(Byte), NEW s, Spells(s, field, Len(field))
    PROVE  s = field
BY SeqEqual DEF Spells

\* The first k bytes of a field are read back from the p bytes they are
\* written as.
ReadBack(rest, run, field, k, p) ==
    /\ ~Escaped(rest)[p + 1]
    /\ Spells(run[p], field, k)
    /\ \A i \in 1..p : ~Separates(rest, i)
    /\ \A i \in 1..p : IsBadByte(rest[i]) => \E j \in 1..k : IsBadByte(field[j])

LEMMA ByteReadsBack ==
    ASSUME NEW rest \in Seq(Byte), NEW stop \in 0..Len(rest), NEW run,
           ValueRun(run, rest, stop),
           NEW field \in Seq(Byte), NEW k \in 1..Len(field), NEW p \in Nat,
           NEW e, e = Len(EncodeByte(field[k])), p + e <= stop,
           \A i \in 1..e : rest[p + i] = EncodeByte(field[k])[i],
           ReadBack(rest, run, field, k - 1, p)
    PROVE  ReadBack(rest, run, field, k, p + e)
<1> DEFINE b == field[k]
<1>1. stop \in Nat /\ Len(rest) \in Nat /\ stop <= Len(rest) /\ k \in Nat
  OBVIOUS
<1>2. \A i \in 1..Len(rest) :
          Escaped(rest)[i + 1] <=> rest[i] = "esc" /\ ~Escaped(rest)[i]
  BY EscapedRuns
<1>3. \A j \in 1..(k - 1) : j \in 1..k
  BY <1>1
<1>4. k \in 1..k
  BY <1>1
<1>5. CASE b \in {"comma", "esc"}
  <2>1. EncodeByte(b) = <<"esc", b>> /\ Len(<<"esc", b>>) = 2
        /\ <<"esc", b>>[1] = "esc" /\ <<"esc", b>>[2] = b
    BY <1>5 DEF EncodeByte
  <2>2. p + 2 <= stop /\ rest[p + 1] = "esc" /\ rest[p + 2] = b
    BY <2>1
  <2>3. PICK q \in 1..stop, r \in 1..stop :
            /\ q = p + 1 /\ r = p + 2 /\ r = q + 1 /\ q - 1 = p /\ r - 1 = q
            /\ q \in 1..Len(rest) /\ r \in 1..Len(rest)
            /\ \A i \in 1..(p + 2) : i \in 1..p \/ i = q \/ i = r
    BY <1>1, <2>2
  <2>4. ~Escaped(rest)[q] /\ Escaped(rest)[r] /\ ~Escaped(rest)[r + 1]
    BY <1>2, <2>2, <2>3 DEF ReadBack
  <2>5. run[q] = run[p]
    BY <2>2, <2>3, <2>4 DEF ValueRun, Opens
  <2>6. run[r] = Append(run[q], b)
    BY <2>2, <2>3, <2>4 DEF ValueRun, Opens
  <2>7. Spells(run[r], field, k)
    BY <2>5, <2>6, SpellsOneMore DEF ReadBack
  <2>8. ~Separates(rest, q) /\ ~Separates(rest, r)
    BY <2>2, <2>3, <2>4 DEF Separates
  <2>9. ~IsBadByte(rest[q]) /\ ~IsBadByte(rest[r])
    BY <1>5, <2>2, <2>3 DEF IsBadByte
  <2>10. ReadBack(rest, run, field, k, r)
    <3>1. \A i \in 1..r : ~Separates(rest, i)
      BY <2>3, <2>8 DEF ReadBack
    <3>2. \A i \in 1..r : IsBadByte(rest[i]) => \E j \in 1..k : IsBadByte(field[j])
      BY <1>3, <2>3, <2>9 DEF ReadBack
    <3> QED BY <2>4, <2>7, <3>1, <3>2 DEF ReadBack
  <2> QED BY <2>1, <2>3, <2>10
<1>6. CASE b \notin {"comma", "esc"}
  <2>1. EncodeByte(b) = <<b>> /\ Len(<<b>>) = 1 /\ <<b>>[1] = b
    BY <1>6 DEF EncodeByte
  <2>2. p + 1 <= stop /\ rest[p + 1] = b
    BY <2>1
  <2>3. PICK q \in 1..stop :
            /\ q = p + 1 /\ q - 1 = p /\ q \in 1..Len(rest)
            /\ \A i \in 1..(p + 1) : i \in 1..p \/ i = q
    BY <1>1, <2>2
  <2>4. ~Escaped(rest)[q] /\ ~Escaped(rest)[q + 1]
    BY <1>2, <1>6, <2>2, <2>3 DEF ReadBack
  <2>5. run[q] = Append(run[p], b)
    BY <1>6, <2>2, <2>3 DEF ValueRun, Opens
  <2>6. Spells(run[q], field, k)
    BY <2>5, SpellsOneMore DEF ReadBack
  <2>7. ~Separates(rest, q)
    BY <1>6, <2>2, <2>3 DEF Separates
  <2>8. ReadBack(rest, run, field, k, q)
    <3>1. \A i \in 1..q : ~Separates(rest, i)
      BY <2>3, <2>7 DEF ReadBack
    <3>2. \A i \in 1..q : IsBadByte(rest[i]) => \E j \in 1..k : IsBadByte(field[j])
      BY <1>3, <1>4, <2>2, <2>3 DEF ReadBack
    <3> QED BY <2>4, <2>6, <3>1, <3>2 DEF ReadBack
  <2> QED BY <2>1, <2>3, <2>8
<1> QED BY <1>5, <1>6

\* A field and what follows it, where the field is written.
BeginsWith(rest, written) ==
    /\ Len(written) <= Len(rest)
    /\ \A i \in 1..Len(written) : rest[i] = written[i]

LEMMA EncodedTyped ==
    ASSUME NEW field \in Seq(Byte)
    PROVE  /\ [i \in 1..Len(field) |-> EncodeByte(field[i])] \in Seq(Seq(Byte))
           /\ EncodeField(field) \in Seq(Byte)
           /\ Len(EncodeField(field)) \in Nat
<1> DEFINE seqs == [i \in 1..Len(field) |-> EncodeByte(field[i])]
<1>1. ASSUME NEW b \in Byte PROVE EncodeByte(b) \in Seq(Byte)
  <2>1. "esc" \in Byte
    BY DEF Byte
  <2> HIDE DEF Byte
  <2> QED BY <2>1 DEF EncodeByte
<1>2. seqs \in Seq(Seq(Byte))
  BY <1>1
<1>3. EncodeField(field) = FlattenSeq(seqs)
  BY DEF EncodeField
<1> HIDE DEF seqs
<1>4. EncodeField(field) \in Seq(Byte)
  BY <1>2, <1>3, FlattenTyped
<1> QED BY <1>2, <1>4 DEF seqs

LEMMA FieldReadsBack ==
    ASSUME NEW field \in Seq(Byte), NEW rest \in Seq(Byte),
           BeginsWith(rest, EncodeField(field))
    PROVE  LET stop == Len(EncodeField(field))
           IN  /\ stop \in 0..Len(rest)
               /\ ~Escaped(rest)[stop + 1]
               /\ ValueOf(rest, stop) = field
               /\ \A i \in 1..stop : ~Separates(rest, i)
               /\ (\E i \in 1..stop : IsBadByte(rest[i]))
                      <=> \E j \in 1..Len(field) : IsBadByte(field[j])
<1> DEFINE seqs == [i \in 1..Len(field) |-> EncodeByte(field[i])]
           written == EncodeField(field)
           stop == Len(written)
<1>1. PICK n \in Nat : n = Len(field) /\ \A k \in 1..n : field[k] \in Byte
  OBVIOUS
<1>2. seqs \in Seq(Seq(Byte)) /\ Len(seqs) = n
      /\ \A k \in 1..n : seqs[k] = EncodeByte(field[k])
  <2>1. seqs \in Seq(Seq(Byte))
    BY EncodedTyped
  <2>2. Len(seqs) = n /\ \A k \in 1..n : seqs[k] = EncodeByte(field[k])
    BY <1>1
  <2> QED BY <2>1, <2>2
<1>3. written \in Seq(Byte) /\ written = FlattenSeq(seqs)
  BY EncodedTyped DEF EncodeField
<1> HIDE DEF seqs
<1>4. PICK at : PlacesOf(at, seqs, written)
  BY <1>2, <1>3, FlattenPlaces
<1> HIDE DEF written
<1>5. stop \in Nat /\ Len(rest) \in Nat /\ stop <= Len(rest)
      /\ \A i \in 1..stop : rest[i] = written[i]
  BY <1>3 DEF BeginsWith, written
<1>6. PICK run : ValueRun(run, rest, stop) /\ ValueOf(rest, stop) = run[stop]
  BY <1>5, ValueRuns
<1>7. /\ at \in [0..n -> Nat] /\ at[0] = 0 /\ at[n] = stop
      /\ \A k \in 1..n :
             /\ at[k] = at[k - 1] + Len(EncodeByte(field[k]))
             /\ \A j \in 1..Len(EncodeByte(field[k])) :
                    written[at[k - 1] + j] = EncodeByte(field[k])[j]
  <2>1. /\ at \in [0..n -> Nat] /\ at[0] = 0 /\ at[n] = Len(written)
        /\ \A k \in 1..n :
               /\ at[k] = at[k - 1] + Len(seqs[k])
               /\ \A j \in 1..Len(seqs[k]) : written[at[k - 1] + j] = seqs[k][j]
    BY <1>2, <1>4, Zenon DEF PlacesOf
  <2>2. ASSUME NEW k \in 1..n
        PROVE  /\ at[k] = at[k - 1] + Len(EncodeByte(field[k]))
               /\ \A j \in 1..Len(EncodeByte(field[k])) :
                      written[at[k - 1] + j] = EncodeByte(field[k])[j]
    <3>1. seqs[k] = EncodeByte(field[k])
      BY <1>2
    <3> QED BY <2>1, <3>1, Zenon
  <2> QED BY <2>1, <2>2
<1>8. \A k \in 1..n : Len(EncodeByte(field[k])) \in 1..2
  BY DEF EncodeByte
<1>9. \A k \in 0..n : at[k] <= stop
  <2> DEFINE Low == {m \in 0..n : at[n - m] <= stop}
  <2>1. 0 \in Low
    BY <1>1, <1>5, <1>7
  <2>2. ASSUME NEW m \in 1..n, m - 1 \in Low PROVE m \in Low
    <3> DEFINE k == n - (m - 1)
    <3>1. k \in 1..n /\ k - 1 = n - m /\ k \in 0..n /\ k - 1 \in 0..n /\ m \in 0..n
      BY <1>1
    <3>2. at[k] <= stop /\ at[k] \in Nat /\ at[k - 1] \in Nat
      BY <1>7, <2>2, <3>1
    <3> HIDE DEF k
    <3>3. at[k - 1] <= stop
      BY <1>5, <1>7, <1>8, <3>1, <3>2
    <3> QED BY <3>1, <3>3
  <2>3. Low \in SUBSET (0..n)
    OBVIOUS
  <2>4. Low = 0..n
    <3> HIDE DEF Low
    <3> QED BY <1>1, <2>1, <2>2, <2>3, AtEveryPosition
  <2>5. ASSUME NEW k \in 0..n PROVE at[k] <= stop
    <3>1. n - k \in 0..n /\ n - (n - k) = k
      BY <1>1
    <3>2. n - k \in Low
      BY <2>4, <3>1
    <3> QED BY <3>1, <3>2
  <2> QED BY <2>5
<1> DEFINE Read == {k \in 0..n : ReadBack(rest, run, field, k, at[k])}
<1>10. 0 \in Read
  <2>1. ~Escaped(rest)[1]
    BY EscapedRuns
  <2>2. Spells(run[0], field, 0)
    BY <1>6, EmptySeq DEF ValueRun, Spells
  <2>3. ReadBack(rest, run, field, 0, 0)
    BY <2>1, <2>2 DEF ReadBack
  <2> QED BY <1>1, <1>7, <2>3
<1>11. ASSUME NEW k \in 1..n, k - 1 \in Read PROVE k \in Read
  <2>1. /\ k \in 0..n /\ k - 1 \in 0..n /\ k \in 1..Len(field)
        /\ at[k - 1] \in Nat /\ at[k] \in Nat /\ at[k] <= stop
        /\ at[k] = at[k - 1] + Len(EncodeByte(field[k]))
    <3>1. k \in 0..n /\ k - 1 \in 0..n
      BY <1>1
    <3> QED BY <1>1, <1>7, <1>9, <3>1
  <2>2. PICK p \in Nat, e \in Nat :
            /\ p = at[k - 1] /\ e = Len(EncodeByte(field[k])) /\ at[k] = p + e
            /\ p + e <= stop
    <3>1. Len(EncodeByte(field[k])) \in Nat
      BY <1>8
    <3> QED BY <2>1, <3>1
  <2>3. \A i \in 1..e : rest[p + i] = EncodeByte(field[k])[i]
    <3> SUFFICES ASSUME NEW i \in 1..e PROVE rest[p + i] = EncodeByte(field[k])[i]
      OBVIOUS
    <3>1. p + i \in 1..stop
      BY <1>5, <2>2
    <3>2. written[p + i] = EncodeByte(field[k])[i]
      BY <1>7, <2>2
    <3> QED BY <1>5, <3>1, <3>2
  <2>4. ReadBack(rest, run, field, k - 1, p)
    BY <1>11, <2>2
  <2>6. stop \in 0..Len(rest)
    BY <1>5
  <2>5. ReadBack(rest, run, field, k, p + e)
    BY <1>6, <2>1, <2>2, <2>3, <2>4, <2>6, ByteReadsBack
  <2> QED BY <2>1, <2>2, <2>5
<1>12. Read = 0..n
  <2>1. Read \in SUBSET (0..n)
    OBVIOUS
  <2> HIDE DEF Read
  <2> QED BY <1>1, <1>10, <1>11, <2>1, AtEveryPosition
<1>13. ReadBack(rest, run, field, n, stop)
  BY <1>1, <1>7, <1>12
<1>14. ASSUME NEW k \in 1..n, IsBadByte(field[k])
       PROVE  \E i \in 1..stop : IsBadByte(rest[i])
  <2>1. field[k] \notin {"comma", "esc"}
    BY <1>14 DEF IsBadByte
  <2>2. EncodeByte(field[k]) = <<field[k]>> /\ Len(<<field[k]>>) = 1
        /\ <<field[k]>>[1] = field[k]
    BY <2>1 DEF EncodeByte
  <2>3. k \in 0..n /\ k - 1 \in 0..n
    BY <1>1
  <2>8. Len(EncodeByte(field[k])) = 1 /\ EncodeByte(field[k])[1] = field[k]
        /\ 1 \in 1..1
    BY <2>2
  <2>4. at[k - 1] \in Nat /\ at[k] <= stop /\ at[k] = at[k - 1] + 1
        /\ written[at[k - 1] + 1] = field[k]
    BY <1>7, <1>9, <2>3, <2>8
  <2>7. PICK p \in Nat : p = at[k - 1] /\ p + 1 <= stop /\ written[p + 1] = field[k]
    BY <2>4
  <2>5. p + 1 \in 1..stop
    BY <1>5, <2>7
  <2>6. rest[p + 1] = field[k]
    BY <1>5, <2>7, <2>5
  <2> QED BY <1>14, <2>5, <2>6
<1>15. ValueOf(rest, stop) = field
  BY <1>1, <1>6, <1>13, SpellsAll DEF ReadBack
<1>16. \A i \in 1..stop : ~Separates(rest, i)
  BY <1>13 DEF ReadBack
<1>17. ~Escaped(rest)[stop + 1]
  BY <1>13 DEF ReadBack
<1>18. (\E i \in 1..stop : IsBadByte(rest[i]))
           <=> \E j \in 1..Len(field) : IsBadByte(field[j])
  BY <1>1, <1>13, <1>14 DEF ReadBack
<1> QED BY <1>5, <1>15, <1>16, <1>17, <1>18 DEF written

-----------------------------------------------------------------------------
(* A record as it is written. *)

Wider(line, k, written) ==
    line \o (IF k = 1 THEN << >> ELSE <<"comma">>) \o written

FieldBegin(line, k) == IF k = 1 THEN 0 ELSE Len(line) + 1

Widens(wide, line, k, written) ==
    /\ wide \in Seq(Byte) /\ Len(wide) = FieldBegin(line, k) + Len(written)
    /\ \A i \in 1..Len(line) : wide[i] = line[i]
    /\ \A i \in 1..Len(written) : wide[FieldBegin(line, k) + i] = written[i]
    /\ k # 1 => wide[FieldBegin(line, k)] = "comma"

LEMMA WiderBytes ==
    ASSUME NEW line \in Seq(Byte), NEW written \in Seq(Byte), NEW k,
           k = 1 => line = << >>
    PROVE  Widens(Wider(line, k, written), line, k, written)
<1>1. PICK n \in Nat, m \in Nat : n = Len(line) /\ m = Len(written)
  OBVIOUS
<1>2. CASE k = 1
  <2>1. line = << >> /\ << >> \o << >> = << >> /\ << >> \o written = written
    BY <1>2, ConcatEmptySeq, EmptySeq
  <2>2. Wider(line, k, written) = written
    BY <1>2, <2>1 DEF Wider
  <2>3. Len(line) = 0
    BY <2>1
  <2> QED BY <1>1, <1>2, <2>2, <2>3 DEF Widens, FieldBegin
<1>3. CASE k # 1
  <2>1. <<"comma">> \in Seq(Byte) /\ Len(<<"comma">>) = 1 /\ <<"comma">>[1] = "comma"
    BY DEF Byte
  <2>2. PICK sep \in Seq(Byte) : sep = <<"comma">> /\ Len(sep) = 1 /\ sep[1] = "comma"
    BY <2>1
  <2> DEFINE both == line \o sep
             wide == both \o written
  <2>3. /\ both \in Seq(Byte) /\ Len(both) = n + 1
        /\ \A i \in 1..(n + 1) : both[i] = IF i <= n THEN line[i] ELSE sep[i - n]
    BY <1>1, <2>2, ConcatProperties
  <2> HIDE DEF both
  <2>4. /\ wide \in Seq(Byte) /\ Len(wide) = (n + 1) + m
        /\ \A i \in 1..((n + 1) + m) :
               wide[i] = IF i <= n + 1 THEN both[i] ELSE written[i - (n + 1)]
    <3>1. PICK b \in Nat : b = Len(both) /\ b = n + 1
      BY <1>1, <2>3
    <3>2. /\ wide \in Seq(Byte) /\ Len(wide) = b + m
          /\ \A i \in 1..(b + m) :
                 wide[i] = IF i <= b THEN both[i] ELSE written[i - b]
      <4>1. /\ wide \in Seq(Byte) /\ Len(wide) = Len(both) + Len(written)
            /\ \A i \in 1..(Len(both) + Len(written)) :
                   wide[i] = IF i <= Len(both) THEN both[i]
                             ELSE written[i - Len(both)]
        BY <2>3, ConcatProperties
      <4> HIDE DEF wide
      <4> QED BY <1>1, <3>1, <4>1
    <3> QED BY <3>1, <3>2
  <2> HIDE DEF wide
  <2>5. \A i \in 1..n : wide[i] = line[i]
    BY <2>3, <2>4
  <2>6. wide[n + 1] = "comma"
    BY <2>2, <2>3, <2>4
  <2>7. \A i \in 1..m : wide[n + 1 + i] = written[i]
    BY <2>4
  <2>8. Wider(line, k, written) = wide
    BY <1>3, <2>2, Zenon DEF Wider, wide, both
  <2> QED BY <1>1, <1>3, <2>4, <2>5, <2>6, <2>7, <2>8 DEF Widens, FieldBegin
<1> QED BY <1>2, <1>3

LEMMA RecordRuns ==
    ASSUME NEW fields \in Seq(Seq(Byte))
    PROVE  \E lines \in [0..Len(fields) -> Seq(Byte)] :
               /\ lines[0] = << >> /\ EncodeRecord(fields) = lines[Len(fields)]
               /\ \A k \in 1..Len(fields) :
                      lines[k] = Wider(lines[k - 1], k, EncodeField(fields[k]))
<1> DEFINE places == [i \in DOMAIN fields |-> i]
           Recurs(f, n) ==
               f = [T \in SUBSET (1..n) |->
                       IF T = {} THEN << >>
                       ELSE Wider(f[T \ {Max(T)}], places[Max(T)],
                                  EncodeField(fields[places[Max(T)]]))]
           V == Seq(Byte)
           base == << >>
           step(n) == [i \in 1..n |-> [v \in V |->
                          Wider(v, i, EncodeField(fields[i]))]]
<1>1. PICK n \in Nat : n = Len(fields) /\ \A i \in 1..n : fields[i] \in Seq(Byte)
  OBVIOUS
<1>2. DOMAIN places = 1..n /\ \A i \in 1..n : places[i] = i
  BY <1>1
<1>3. EncodeRecord(fields) = (CHOOSE f : Recurs(f, n))[1..n]
  <2>1. EncodeRecord(fields) = FoldLeft(
            LAMBDA line, k : Wider(line, k, EncodeField(fields[k])),
            << >>, places)
    BY DEF EncodeRecord, FoldLeftDomain, Wider
  <2> HIDE DEF places
  <2>2. Len(places) = n
    BY <1>1, <1>2
  <2> QED BY <1>2, <2>1, <2>2 DEF FoldLeft, MapThenFoldSet
<1> HIDE DEF places
<1>4. ASSUME NEW i \in 1..n, NEW v \in V
      PROVE  /\ step(n)[i][v] = Wider(v, i, EncodeField(fields[i]))
             /\ step(n)[i][v] \in V
  <2>1. EncodeField(fields[i]) \in Seq(Byte)
    BY <1>1, EncodedTyped
  <2>2. PICK w \in Seq(Byte) : w = EncodeField(fields[i])
    BY <2>1
  <2>3. <<"comma">> \in Seq(Byte) /\ << >> \in Seq(Byte)
    BY DEF Byte
  <2>4. Wider(v, i, w) \in V
    BY <2>2, <2>3, ConcatProperties DEF Wider
  <2> QED BY <2>2, <2>4
<1>5. base \in V
  BY EmptySeq
<1> DEFINE steps == step(n)
<1> HIDE DEF step, steps
<1>6. \A i \in 1..n : \A v \in V :
          /\ steps[i][v] = Wider(v, i, EncodeField(fields[i]))
          /\ steps[i][v] \in V
  BY <1>4 DEF steps
<1> HIDE DEF V, base
<1>7. PICK f : FoldOf(f, n, V, base, steps)
  BY <1>1, <1>5, <1>6, SetRecursion
<1>8. \E h : Recurs(h, n)
  <2>1. ASSUME NEW T \in SUBSET (1..n), T # {}
        PROVE  steps[Max(T)][f[T \ {Max(T)}]]
                 = Wider(f[T \ {Max(T)}], places[Max(T)],
                         EncodeField(fields[places[Max(T)]]))
    <3>1. Max(T) \in 1..n /\ f[T \ {Max(T)}] \in V
      BY <1>1, <1>7, <2>1, MaxOfPositions DEF FoldOf
    <3> QED BY <1>2, <1>6, <3>1
  <2>2. Recurs(f, n)
    BY <1>7, <2>1 DEF FoldOf, base
  <2> QED BY <2>2
<1>9. PICK g : Recurs(g, n) /\ EncodeRecord(fields) = g[1..n]
  <2> HIDE DEF Recurs
  <2> QED BY <1>3, <1>8
<1>10. FoldsIn(g, n, V, base, steps)
  <2>1. ASSUME NEW T \in (SUBSET (1..n)) \ {{}}, g[T \ {Max(T)}] \in V
        PROVE  g[T] = steps[Max(T)][g[T \ {Max(T)}]]
    <3>1. Max(T) \in 1..n
      BY <1>1, MaxOfPositions
    <3>2. g[T] = Wider(g[T \ {Max(T)}], places[Max(T)],
                       EncodeField(fields[places[Max(T)]]))
      BY <1>9
    <3> QED BY <1>2, <1>6, <2>1, <3>1, <3>2
  <2>2. g[{}] = base
    BY <1>9 DEF base
  <2> QED BY <2>1, <2>2 DEF FoldsIn
<1> HIDE DEF Recurs
<1>11. PICK run \in [0..n -> V] :
           /\ run[0] = base /\ g[1..n] = run[n]
           /\ \A i \in 1..n : run[i] = steps[i][run[i - 1]]
  BY <1>1, <1>5, <1>6, <1>10, FoldRuns
<1>12. ASSUME NEW i \in 1..n
       PROVE  run[i] = Wider(run[i - 1], i, EncodeField(fields[i]))
  <2>1. i - 1 \in 0..n
    BY <1>1
  <2> QED BY <1>6, <1>11, <2>1
<1> QED BY <1>1, <1>9, <1>11, <1>12 DEF V, base

\* The fields of a record, where they are written in line; t is 1 if a lone
\* backslash follows them.
Layout(line, at, fields, t) ==
    /\ at \in [1..Len(fields) -> 0..Len(line)] /\ at[1] = 0
    /\ \A k \in 1..Len(fields) :
           /\ at[k] + Len(EncodeField(fields[k])) <= Len(line)
           /\ \A i \in 1..Len(EncodeField(fields[k])) :
                  line[at[k] + i] = EncodeField(fields[k])[i]
           /\ k < Len(fields) =>
                  /\ at[k + 1] = at[k] + Len(EncodeField(fields[k])) + 1
                  /\ line[at[k + 1]] = "comma"
           /\ k = Len(fields) =>
                  Len(line) = at[k] + Len(EncodeField(fields[k])) + t
    /\ t \in 0..1 /\ (t = 1 => line[Len(line)] = "esc")

StartIn(lines, k) == FieldBegin(lines[k - 1], k)

LEMMA RecordLayout ==
    ASSUME NEW fields \in Seq(Seq(Byte)), Len(fields) # 0
    PROVE  /\ EncodeRecord(fields) \in Seq(Byte)
           /\ \E at : Layout(EncodeRecord(fields), at, fields, 0)
<1>1. PICK n \in Nat \ {0} : n = Len(fields) /\ \A k \in 1..n : fields[k] \in Seq(Byte)
  OBVIOUS
<1> DEFINE line == EncodeRecord(fields)
           written(k) == EncodeField(fields[k])
<1>2. PICK lines \in [0..n -> Seq(Byte)] :
          /\ lines[0] = << >> /\ line = lines[n]
          /\ \A k \in 1..n : lines[k] = Wider(lines[k - 1], k, written(k))
  BY <1>1, RecordRuns
<1> HIDE DEF line
<1> DEFINE at == [k \in 1..n |-> StartIn(lines, k)]
<1>3. ASSUME NEW k \in 1..n
      PROVE  /\ k \in 0..n /\ k - 1 \in 0..n
             /\ lines[k] \in Seq(Byte) /\ lines[k - 1] \in Seq(Byte)
             /\ written(k) \in Seq(Byte) /\ Len(written(k)) \in Nat
             /\ StartIn(lines, k) \in Nat
             /\ Len(lines[k]) = StartIn(lines, k) + Len(written(k))
             /\ \A i \in 1..Len(lines[k - 1]) : lines[k][i] = lines[k - 1][i]
             /\ \A i \in 1..Len(written(k)) :
                    lines[k][StartIn(lines, k) + i] = written(k)[i]
             /\ k # 1 => lines[k][StartIn(lines, k)] = "comma"
  <2>1. k \in 0..n /\ k - 1 \in 0..n
    BY <1>1
  <2>2. /\ lines[k] \in Seq(Byte) /\ lines[k - 1] \in Seq(Byte)
        /\ written(k) \in Seq(Byte) /\ Len(written(k)) \in Nat
    BY <1>1, <1>2, <2>1, EncodedTyped
  <2> HIDE DEF written
  <2>3. StartIn(lines, k) \in Nat
    BY <2>2 DEF StartIn, FieldBegin
  <2>4. k = 1 => lines[k - 1] = << >>
    BY <1>2
  <2>5. lines[k] = Wider(lines[k - 1], k, written(k))
    BY <1>2
  <2>6. Widens(lines[k], lines[k - 1], k, written(k))
    BY <2>2, <2>4, <2>5, WiderBytes
  <2> QED BY <2>1, <2>2, <2>3, <2>6 DEF Widens, StartIn
<1> HIDE DEF written
<1> DEFINE Prefix(k, j) == /\ Len(lines[k]) <= Len(lines[j])
                           /\ \A i \in 1..Len(lines[k]) : lines[j][i] = lines[k][i]
           Good == {j \in 0..n : \A k \in 0..j : Prefix(k, j)}
<1>4. \A k \in 0..n : lines[k] \in Seq(Byte) /\ Len(lines[k]) \in Nat
  BY <1>2
<1>5. \A j \in 0..n : Prefix(j, j)
  BY <1>4
<1>6. 0 \in Good
  <2>1. \A k \in 0..0 : k = 0
    OBVIOUS
  <2> HIDE DEF Prefix
  <2> QED BY <1>1, <1>5, <2>1
<1>7. ASSUME NEW j \in 1..n, j - 1 \in Good PROVE j \in Good
  <2>1. /\ j \in 0..n /\ j - 1 \in 0..n
        /\ \A k \in 0..j : k \in 0..n /\ (k = j \/ k \in 0..(j - 1))
    BY <1>1
  <2>2. Len(lines[j - 1]) <= Len(lines[j])
    <3>1. PICK a \in Nat, b \in Nat, s \in Nat, w \in Nat :
              /\ a = Len(lines[j - 1]) /\ b = Len(lines[j])
              /\ s = StartIn(lines, j) /\ w = Len(written(j)) /\ b = s + w
      <4>1. /\ Len(lines[j - 1]) \in Nat /\ Len(lines[j]) \in Nat
            /\ StartIn(lines, j) \in Nat /\ Len(written(j)) \in Nat
            /\ Len(lines[j]) = StartIn(lines, j) + Len(written(j))
        BY <1>3, <1>4, <2>1
      <4> QED BY <4>1
    <3>2. j = 1 => lines[j - 1] = << >>
      BY <1>2
    <3>3. a <= s
      <4>1. CASE j = 1
        <5>1. Len(<< >>) = 0
          OBVIOUS
        <5> QED BY <3>1, <3>2, <4>1, <5>1
      <4>2. CASE j # 1
        BY <3>1, <4>2 DEF StartIn, FieldBegin
      <4> QED BY <4>1, <4>2
    <3> QED BY <3>1, <3>3
  <2>3. ASSUME NEW k \in 0..(j - 1) PROVE Prefix(k, j)
    <3>1. Prefix(k, j - 1) /\ k \in 0..n
      BY <1>7, <2>1
    <3>2. PICK a \in Nat, b \in Nat, c \in Nat :
              a = Len(lines[k]) /\ b = Len(lines[j - 1]) /\ c = Len(lines[j])
      BY <1>4, <2>1, <3>1
    <3>3. a <= b /\ b <= c /\ \A i \in 1..a : lines[j - 1][i] = lines[k][i]
      BY <2>2, <3>1, <3>2
    <3>4. \A i \in 1..b : lines[j][i] = lines[j - 1][i]
      BY <1>3, <3>2
    <3>5. a <= c /\ \A i \in 1..a : lines[j][i] = lines[k][i]
      BY <3>3, <3>4
    <3> QED BY <3>2, <3>5
  <2> HIDE DEF Prefix
  <2> QED BY <1>5, <2>1, <2>3
<1>8. \A k \in 0..n : Prefix(k, n)
  <2>1. Good \in SUBSET (0..n) /\ n \in 0..n
    BY <1>1
  <2>2. Good = 0..n
    <3> HIDE DEF Good
    <3> QED BY <1>1, <1>6, <1>7, <2>1, AtEveryPosition
  <2> HIDE DEF Prefix
  <2> QED BY <2>1, <2>2
<1>9. line \in Seq(Byte) /\ Len(line) \in Nat /\ n \in 0..n
  <2>1. n \in 0..n
    BY <1>1
  <2> QED BY <1>2, <1>4, <2>1
<1>10. ASSUME NEW k \in 1..n
       PROVE  /\ StartIn(lines, k) \in 0..Len(line)
              /\ StartIn(lines, k) + Len(written(k)) <= Len(line)
              /\ \A i \in 1..Len(written(k)) :
                     line[StartIn(lines, k) + i] = written(k)[i]
              /\ k # 1 => line[StartIn(lines, k)] = "comma"
              /\ k = n => Len(line) = StartIn(lines, k) + Len(written(k)) + 0
  <2>1. PICK a \in Nat, s \in Nat, w \in Nat, m \in Nat :
            a = Len(lines[k]) /\ s = StartIn(lines, k) /\ w = Len(written(k))
            /\ a = s + w /\ m = Len(line)
    BY <1>3, <1>4, <1>9
  <2>2. a <= m /\ \A i \in 1..a : line[i] = lines[k][i]
    BY <1>2, <1>3, <1>8, <2>1
  <2>3. \A i \in 1..w : lines[k][s + i] = written(k)[i]
    BY <1>3, <2>1
  <2>4. ASSUME NEW i \in 1..w PROVE line[s + i] = written(k)[i]
    <3>1. s + i \in 1..a
      <4>1. a = s + w
        BY <2>1
      <4> QED BY <4>1, s \in Nat, w \in Nat
    <3> QED BY <2>2, <2>3, <3>1
  <2>5. k # 1 => s \in 1..a
    <3>1. PICK b \in Nat : b = Len(lines[k - 1])
      BY <1>3, <1>4
    <3>2. k # 1 => s = b + 1
      BY <2>1, <3>1 DEF StartIn, FieldBegin
    <3>3. a = s + w
      BY <2>1
    <3> QED BY <3>2, <3>3
  <2>6. k # 1 => line[s] = "comma"
    BY <1>3, <2>1, <2>2, <2>5
  <2>7. k = n => a = m
    BY <1>2, <2>1
  <2> QED BY <2>1, <2>2, <2>4, <2>6, <2>7
<1>11. ASSUME NEW k \in 1..n, k < n
       PROVE  /\ k + 1 \in 1..n /\ k + 1 # 1
              /\ StartIn(lines, k + 1) = StartIn(lines, k) + Len(written(k)) + 1
  <2>1. k + 1 \in 1..n /\ k + 1 # 1 /\ (k + 1) - 1 = k
    BY <1>1, <1>11
  <2>2. StartIn(lines, k + 1) = Len(lines[k]) + 1
    BY <2>1 DEF StartIn, FieldBegin
  <2> QED BY <1>3, <2>1, <2>2
<1>12. at \in [1..n -> 0..Len(line)] /\ at[1] = 0
  <2>1. 1 \in 1..n /\ StartIn(lines, 1) = 0
    BY <1>1 DEF StartIn, FieldBegin
  <2> QED BY <1>10, <2>1
<1>13. \A k \in 1..n : at[k] = StartIn(lines, k)
  OBVIOUS
<1> HIDE DEF at
<1>14. Layout(line, at, fields, 0)
  <2> SUFFICES ASSUME NEW k \in 1..n
               PROVE  /\ at[k] + Len(written(k)) <= Len(line)
                      /\ \A i \in 1..Len(written(k)) :
                             line[at[k] + i] = written(k)[i]
                      /\ k < n => /\ at[k + 1] = at[k] + Len(written(k)) + 1
                                  /\ line[at[k + 1]] = "comma"
                      /\ k = n => Len(line) = at[k] + Len(written(k)) + 0
    BY <1>1, <1>12 DEF Layout, written
  <2> QED BY <1>10, <1>11, <1>13
<1> QED BY <1>9, <1>14 DEF line

LEMMA LoneEscape ==
    ASSUME NEW fields \in Seq(Seq(Byte)), Len(fields) # 0,
           NEW line \in Seq(Byte), NEW at, Layout(line, at, fields, 0)
    PROVE  /\ Append(line, "esc") \in Seq(Byte)
           /\ Append(line, "esc") # << >>
           /\ Layout(Append(line, "esc"), at, fields, 1)
<1> DEFINE longer == Append(line, "esc")
<1>1. PICK n \in Nat \ {0}, m \in Nat : n = Len(fields) /\ m = Len(line)
  OBVIOUS
<1>2. "esc" \in Byte
  BY DEF Byte
<1>3. /\ longer \in Seq(Byte) /\ longer # << >> /\ Len(longer) = m + 1
      /\ \A i \in 1..m : longer[i] = line[i]
      /\ longer[m + 1] = "esc"
  <2>1. /\ longer \in Seq(Byte) /\ longer # << >> /\ Len(longer) = Len(line) + 1
        /\ \A i \in 1..Len(line) : longer[i] = line[i]
        /\ longer[Len(line) + 1] = "esc"
    BY <1>2, AppendProperties
  <2> HIDE DEF longer
  <2> QED BY <1>1, <2>1
<1> HIDE DEF longer
<1>4. at \in [1..n -> 0..(m + 1)] /\ at[1] = 0
  BY <1>1 DEF Layout
<1>5. ASSUME NEW k \in 1..n
      PROVE  /\ at[k] + Len(EncodeField(fields[k])) <= m + 1
             /\ \A i \in 1..Len(EncodeField(fields[k])) :
                    longer[at[k] + i] = EncodeField(fields[k])[i]
             /\ k < n =>
                    /\ at[k + 1] = at[k] + Len(EncodeField(fields[k])) + 1
                    /\ longer[at[k + 1]] = "comma"
             /\ k = n => m + 1 = at[k] + Len(EncodeField(fields[k])) + 1
  <2>1. fields[k] \in Seq(Byte)
    BY <1>1
  <2>2. at[k] \in 0..m /\ Len(EncodeField(fields[k])) \in Nat
    BY <1>1, <2>1, EncodedTyped DEF Layout
  <2>3. PICK a \in Nat, w \in Nat : a = at[k] /\ w = Len(EncodeField(fields[k]))
    BY <2>2
  <2>4. /\ a + w <= m
        /\ \A i \in 1..w : line[a + i] = EncodeField(fields[k])[i]
        /\ k < n => at[k + 1] = a + w + 1 /\ line[at[k + 1]] = "comma"
        /\ k = n => m = a + w + 0
    BY <1>1, <2>3 DEF Layout
  <2>5. ASSUME NEW i \in 1..w PROVE longer[a + i] = EncodeField(fields[k])[i]
    <3>1. a + i \in 1..m
      BY <2>4
    <3> QED BY <1>3, <2>4, <3>1
  <2>6. k < n => at[k + 1] \in 1..m
    <3>1. k < n => k + 1 \in 1..n
      BY <1>1
    <3>2. k < n => at[k + 1] \in 0..m
      BY <1>1, <3>1 DEF Layout
    <3> QED BY <2>4, <3>2
  <2>7. k < n => longer[at[k + 1]] = "comma"
    BY <1>3, <2>4, <2>6
  <2>8. /\ a + w <= m + 1
        /\ k = n => m + 1 = a + w + 1
    BY <2>4, a \in Nat, w \in Nat, m \in Nat
  <2> QED BY <2>3, <2>4, <2>5, <2>7, <2>8
<1>6. Layout(longer, at, fields, 1)
  BY <1>1, <1>3, <1>4, <1>5 DEF Layout
<1> QED BY <1>3, <1>6 DEF longer

HasBadByte(field) == \E j \in 1..Len(field) : IsBadByte(field[j])

\* What a field is asked to be that the splitter reads as field k.
IsFieldOf(answer, at, fields, k) ==
    /\ answer.status = "field" /\ answer.value = fields[k]
    /\ answer.has_more = (k < Len(fields))
    /\ k < Len(fields) => answer.next_start = at[k + 1]

\* One field of a record, read where it is written.
LEMMA WrittenField ==
    ASSUME NEW fields \in Seq(Seq(Byte)), NEW line \in Seq(Byte), line # << >>,
           NEW at, NEW t, Layout(line, at, fields, t), NEW k \in 1..Len(fields)
    PROVE  LET answer == FieldAt(line, at[k])
               last == t = 1 /\ k = Len(fields)
           IN  /\ last => answer.status = "malformed"
               /\ ~last /\ HasBadByte(fields[k]) => answer.status = "malformed"
               /\ ~last /\ ~HasBadByte(fields[k]) /\ TooLong(fields[k]) =>
                      answer.status = "overlong"
               /\ ~last /\ ~HasBadByte(fields[k]) /\ ~TooLong(fields[k]) =>
                      IsFieldOf(answer, at, fields, k)
<1> DEFINE answer == FieldAt(line, at[k])
           rest == RestOf(line, at[k])
           written == EncodeField(fields[k])
           last == t = 1 /\ k = Len(fields)
<1>1. PICK n \in Nat, m \in Nat : n = Len(fields) /\ m = Len(line) /\ k \in 1..n
  OBVIOUS
<1>2. fields[k] \in Seq(Byte)
  BY <1>1
<1>3. at[k] \in 0..m /\ Len(written) \in Nat /\ t \in 0..1
  BY <1>1, <1>2, EncodedTyped DEF Layout
<1>4. /\ rest \in Seq(Byte) /\ Len(rest) = m - at[k]
      /\ \A i \in 1..(m - at[k]) : rest[i] = line[at[k] + i]
  BY <1>1, <1>3, RestTyped
<1>5. PICK a \in Nat, w \in Nat, r \in Nat :
          a = at[k] /\ w = Len(written) /\ r = Len(rest) /\ r = m - a
  BY <1>3, <1>4
<1>6. /\ a + w <= m
      /\ \A i \in 1..w : line[a + i] = written[i]
      /\ k < n => at[k + 1] = a + w + 1 /\ line[at[k + 1]] = "comma"
      /\ k = n => m = a + w + t
      /\ t = 1 => line[m] = "esc"
  BY <1>1, <1>5 DEF Layout
<1>7. k < n => a + w + 1 <= m
  <2>1. k < n => k + 1 \in 1..n
    BY <1>1
  <2>2. k < n => at[k + 1] \in 0..m
    BY <1>1, <2>1 DEF Layout
  <2> QED BY <1>6, <2>2
<1> HIDE DEF rest, written
<1>8. BeginsWith(rest, written)
  <2>1. w <= r
    BY <1>5, <1>6
  <2>2. ASSUME NEW i \in 1..w PROVE rest[i] = written[i]
    <3>1. i \in 1..(m - at[k])
      BY <1>1, <1>5, <1>6
    <3> QED BY <1>4, <1>5, <1>6, <3>1
  <2> QED BY <1>5, <2>1, <2>2 DEF BeginsWith
<1>9. /\ w \in 0..r /\ ~Escaped(rest)[w + 1] /\ ValueOf(rest, w) = fields[k]
      /\ \A i \in 1..w : ~Separates(rest, i)
      /\ (\E i \in 1..w : IsBadByte(rest[i])) <=> HasBadByte(fields[k])
  BY <1>2, <1>4, <1>5, <1>8, FieldReadsBack DEF HasBadByte, written
<1>10. ~(at[k] = 0 /\ line = << >>)
  OBVIOUS
<1>11. CASE last
  <2>1. r = w + 1 /\ rest[w + 1] = "esc"
    <3>1. m = a + w + 1
      BY <1>1, <1>6, <1>11
    <3>2. r = m - a
      BY <1>5
    <3>3. r = w + 1 /\ w + 1 \in 1..(m - a) /\ a + (w + 1) = m
      BY <3>1, <3>2, a \in Nat, w \in Nat
    <3> QED BY <1>4, <1>5, <1>6, <1>11, <3>3
  <2>2. w + 1 \in 1..Len(rest) /\ (w + 1) + 1 = Len(rest) + 1
    BY <1>5, <2>1
  <2>3. Dangling(rest)
    <3>1. Escaped(rest)[(w + 1) + 1]
      BY <1>4, <1>9, <2>1, <2>2, EscapedRuns
    <3> QED BY <2>2, <3>1 DEF Dangling
  <2>4. ~Separates(rest, w + 1)
    BY <2>1 DEF Separates
  <2>5. EndsAt(rest, w + 1)
    <3>1. \A i \in 1..(w + 1) : i \in 1..w \/ i = w + 1
      BY <1>5
    <3> QED BY <1>5, <1>9, <2>1, <2>4, <3>1 DEF EndsAt
  <2>6. Unreadable(rest, w + 1)
    BY <1>5, <2>1, <2>3 DEF Unreadable
  <2>7. answer = FailField("malformed")
    BY <1>4, <1>10, <2>5, <2>6, FieldAnswer DEF rest
  <2> QED BY <1>11, <2>7 DEF FailField
<1>12. CASE ~last
  <2>1. r # w <=> k < n
    <3>1. CASE k < n
      <4>1. a + w + 1 <= m
        BY <1>7, <3>1
      <4>2. r = m - a
        BY <1>5
      <4>3. r # w
        BY <4>1, <4>2, m \in Nat, a \in Nat, w \in Nat
      <4> QED BY <3>1, <4>3, Zenon
    <3>2. CASE ~(k < n)
      <4>1. k = n /\ t = 0
        BY <1>1, <1>3, <1>12, <3>2
      <4>2. m = a + w
        BY <1>1, <1>5, <1>6, <4>1
      <4> QED BY <1>1, <1>5, <3>2, <4>2
    <3> QED BY <3>1, <3>2
  <2>2. w < r => rest[w + 1] = "comma"
    <3>1. w < r => w + 1 \in 1..r /\ r # w
      BY w \in Nat, r \in Nat
    <3>2. a + (w + 1) = a + w + 1
      BY a \in Nat, w \in Nat
    <3>3. \A i \in 1..r : rest[i] = line[a + i]
      BY <1>4, <1>5
    <3>4. k < n => line[a + w + 1] = "comma"
      BY <1>6
    <3> QED BY <2>1, <3>1, <3>2, <3>3, <3>4
  <2>3. EndsAt(rest, w)
    BY <1>5, <1>9, <2>2 DEF EndsAt, Separates
  <2>4. w = Len(rest) => ~Dangling(rest)
    BY <1>9 DEF Dangling
  <2>5. Unreadable(rest, w) <=> HasBadByte(fields[k])
    BY <1>9, <2>4 DEF Unreadable
  <2>6. /\ HasBadByte(fields[k]) => answer = FailField("malformed")
        /\ ~HasBadByte(fields[k]) /\ TooLong(fields[k]) =>
               answer = FailField("overlong")
        /\ ~HasBadByte(fields[k]) /\ ~TooLong(fields[k]) =>
               answer = FieldOf(rest, w, line, at[k])
    BY <1>4, <1>9, <1>10, <2>3, <2>5, FieldAnswer DEF rest
  <2>7. FieldOf(rest, w, line, at[k]).status = "field"
        /\ FieldOf(rest, w, line, at[k]).value = ValueOf(rest, w)
        /\ FieldOf(rest, w, line, at[k]).has_more = (w # Len(rest))
        /\ FieldOf(rest, w, line, at[k]).next_start
               = IF w = Len(rest) THEN Len(line) ELSE at[k] + w + 1
    BY DEF FieldOf
  <2>8. IsFieldOf(FieldOf(rest, w, line, at[k]), at, fields, k)
    <3>1. (w # Len(rest)) = (k < Len(fields))
      BY <1>1, <1>5, <2>1
    <3>2. k < Len(fields) => w # Len(rest) /\ at[k + 1] = at[k] + w + 1
      BY <1>1, <1>5, <1>6, <2>1
    <3> QED BY <1>9, <2>7, <3>1, <3>2 DEF IsFieldOf
  <2>9. \A code : FailField(code).status = code
    BY DEF FailField
  <2> HIDE DEF answer
  <2> QED BY <1>12, <2>6, <2>8, <2>9 DEF answer
<1> QED BY <1>11, <1>12

-----------------------------------------------------------------------------
(* The loop over what was written. *)

\* Why the loop refuses a record at its field k.
FaultAt(fields, k, t) ==
    \/ HasBadByte(fields[k]) \/ TooLong(fields[k])
    \/ k = MaxFields + 1
    \/ t = 1 /\ k = Len(fields)

\* A loop over a line that holds a record, and more than nothing.
ReadsRecord(loop, line, at, fields, t) ==
    /\ line \in Seq(Byte) /\ line # << >> /\ Loops(loop, line)
    /\ fields \in Seq(Seq(Byte)) /\ Len(fields) # 0
    /\ Layout(line, at, fields, t)

\* What becomes of field k and what is behind it.
IsTurn(result, fields, k, t, behind) ==
    /\ FaultAt(fields, k, t) => result.status # "ok"
    /\ ~FaultAt(fields, k, t) /\ k = Len(fields) =>
           result = Parsed(<<fields[k]>>)
    /\ ~FaultAt(fields, k, t) /\ k < Len(fields) =>
           result = IF behind.status = "ok"
                    THEN Parsed(<<fields[k]>> \o behind.fields)
                    ELSE behind
    /\ TooLong(fields[k]) /\ ~HasBadByte(fields[k])
           /\ (k = Len(fields) => t # 1) => result.status = "overlong"
    /\ t = 1 /\ k = Len(fields) => result.status = "malformed"

LEMMA WrittenTurn ==
    ASSUME NEW loop, NEW line, NEW at, NEW fields, NEW t,
           ReadsRecord(loop, line, at, fields, t),
           NEW k \in 1..Len(fields), k <= MaxFields + 1
    PROVE  IsTurn(loop[k - 1][at[k]], fields, k, t, loop[k][at[k + 1]])
<1> DEFINE field == FieldAt(line, at[k])
           got == k - 1
           after == loop[got + 1][field.next_start]
           result == loop[got][at[k]]
           last == t = 1 /\ k = Len(fields)
<1>1. PICK n \in Nat : n = Len(fields) /\ k \in 1..n
  BY DEF ReadsRecord
<1>2. got \in 0..MaxFields /\ got + 1 = k
      /\ (got = MaxFields <=> k = MaxFields + 1)
      /\ (got < MaxFields <=> k # MaxFields + 1)
  BY <1>1, FieldsAssumption
<1>3. at[k] \in 0..Len(line)
  BY <1>1 DEF ReadsRecord, Layout
<1> HIDE DEF got
<1>4. result = Turn(field, got, after)
  BY <1>2, <1>3 DEF ReadsRecord, Loops
<1>5. /\ last => field.status = "malformed"
      /\ ~last /\ HasBadByte(fields[k]) => field.status = "malformed"
      /\ ~last /\ ~HasBadByte(fields[k]) /\ TooLong(fields[k]) =>
             field.status = "overlong"
      /\ ~last /\ ~HasBadByte(fields[k]) /\ ~TooLong(fields[k]) =>
             IsFieldOf(field, at, fields, k)
  BY <1>1, WrittenField DEF ReadsRecord
<1> HIDE DEF field, result
<1> DEFINE behind == loop[k][at[k + 1]]
<1>6. ASSUME field.status \in {"malformed", "overlong"}
      PROVE  result.status = field.status /\ result.status # "ok"
  <2>1. Turn(field, got, after) = Refused(field.status)
    BY <1>6 DEF Turn
  <2> QED BY <1>4, <1>6, <2>1 DEF Refused
<1>7. ASSUME IsFieldOf(field, at, fields, k)
      PROVE  /\ k = MaxFields + 1 => result.status # "ok"
             /\ k # MaxFields + 1 /\ k = Len(fields) =>
                    result = Parsed(<<fields[k]>>)
             /\ k # MaxFields + 1 /\ k < Len(fields) =>
                    result = IF behind.status = "ok"
                             THEN Parsed(<<fields[k]>> \o behind.fields)
                             ELSE behind
  <2>1. field.status = "field" /\ field.value = fields[k]
        /\ (field.has_more <=> k < Len(fields))
    BY <1>7 DEF IsFieldOf
  <2>2. CASE k = MaxFields + 1
    <3>1. got = MaxFields /\ ~(got < MaxFields)
      BY <1>2, <2>2
    <3>2. Turn(field, got, after) = Refused("malformed")
      BY <2>1, <3>1, Zenon DEF Turn
    <3>3. result.status # "ok"
      BY <1>4, <3>2 DEF Refused
    <3> QED BY <2>2, <3>3
  <2>3. CASE k # MaxFields + 1
    <3>1. got # MaxFields /\ got < MaxFields
      BY <1>2, <2>3
    <3>2. CASE k = Len(fields)
      <4>1. ~field.has_more
        BY <1>1, <2>1, <3>2
      <4>2. Turn(field, got, after) = Parsed(<<field.value>>)
        BY <2>1, <3>1, <4>1, Zenon DEF Turn
      <4> QED BY <1>1, <1>4, <2>1, <2>3, <3>2, <4>2
    <3>3. CASE k < Len(fields)
      <4>1. field.has_more /\ field.next_start = at[k + 1]
        BY <1>7, <2>1, <3>3 DEF IsFieldOf
      <4>2. Turn(field, got, after) = IF after.status = "ok"
                                      THEN Parsed(<<field.value>> \o after.fields)
                                      ELSE after
        BY <2>1, <3>1, <4>1, Zenon DEF Turn
      <4>3. after = behind
        BY <1>2, <4>1
      <4> QED BY <1>1, <1>4, <2>1, <2>3, <3>3, <4>2, <4>3
    <3> QED BY <1>1, <2>3, <3>2, <3>3
  <2> QED BY <2>2, <2>3
<1>8. k = Len(fields) \/ k < Len(fields)
  BY <1>1
<1>9. loop[k - 1][at[k]] = result
  BY DEF result, got
<1> HIDE DEF behind
<1>10. FaultAt(fields, k, t) <=> \/ HasBadByte(fields[k]) \/ TooLong(fields[k])
                                 \/ k = MaxFields + 1 \/ last
  BY DEF FaultAt
<1>11. /\ FaultAt(fields, k, t) => result.status # "ok"
       /\ ~HasBadByte(fields[k]) /\ TooLong(fields[k]) /\ ~last =>
              result.status = "overlong"
       /\ last => result.status = "malformed"
  BY <1>5, <1>6, <1>7, <1>10
<1>12. ~FaultAt(fields, k, t) =>
           /\ k = Len(fields) => result = Parsed(<<fields[k]>>)
           /\ k < Len(fields) =>
                  result = IF behind.status = "ok"
                           THEN Parsed(<<fields[k]>> \o behind.fields)
                           ELSE behind
  BY <1>5, <1>7, <1>10
<1> QED BY <1>9, <1>11, <1>12 DEF behind, IsTurn

LEMMA Backwards ==
    ASSUME NEW n \in Nat \ {0}, NEW T \in SUBSET (1..n), n \in T,
           \A k \in 1..n : k < n /\ k + 1 \in T => k \in T
    PROVE  1 \in T
<1> DEFINE Back == {i \in 0..(n - 1) : n - i \in T}
           m == n - 1
<1>1. m \in Nat /\ m + 1 = n
  OBVIOUS
<1>2. 0 \in Back
  BY n - 0 = n
<1>3. ASSUME NEW i \in 1..m, i - 1 \in Back PROVE i \in Back
  <2>1. n - i \in 1..n /\ n - i < n /\ (n - i) + 1 = n - (i - 1) /\ i \in 0..(n - 1)
    OBVIOUS
  <2> QED BY <1>3, <2>1
<1>4. Back \in SUBSET (0..m)
  OBVIOUS
<1>5. Back = 0..m
  <2> HIDE DEF Back, m
  <2> QED BY <1>1, <1>2, <1>3, <1>4, AtEveryPosition
<1>6. m \in Back /\ n - m = 1
  BY <1>1, <1>5
<1> QED BY <1>6

LEMMA LoopOfRecord ==
    ASSUME NEW loop, NEW line, NEW at, NEW fields, NEW t,
           ReadsRecord(loop, line, at, fields, t)
    PROVE  /\ loop[1 - 1][at[1]] = loop[0][0]
           /\ 1 \in 1..Len(fields) /\ Len(fields) \in Nat \ {0}
           /\ \A k \in 1..Len(fields) : fields[k] \in Seq(Byte)
<1>1. PICK n \in Nat \ {0} : n = Len(fields) /\ \A k \in 1..n : fields[k] \in Seq(Byte)
  BY DEF ReadsRecord
<1>2. at[1] = 0
  BY DEF ReadsRecord, Layout
<1> QED BY <1>1, <1>2

\* A fault is not passed over.
LEMMA FaultIsRefused ==
    ASSUME NEW loop, NEW line, NEW at, NEW fields, NEW t,
           ReadsRecord(loop, line, at, fields, t),
           NEW j \in 1..Len(fields), j <= MaxFields + 1, FaultAt(fields, j, t)
    PROVE  loop[0][0].status # "ok"
<1> DEFINE T == {k \in 1..j : loop[k - 1][at[k]].status # "ok"}
<1>1. PICK n \in Nat \ {0} : n = Len(fields) /\ j \in 1..n
  BY LoopOfRecord
<1>2. j \in Nat \ {0} /\ j \in 1..j
  BY <1>1
<1>3. j \in T
  BY <1>2, WrittenTurn DEF IsTurn
<1>4. ASSUME NEW k \in 1..j, k < j, k + 1 \in T PROVE k \in T
  <2>1. k \in 1..Len(fields) /\ k <= MaxFields + 1 /\ k < Len(fields)
        /\ (k + 1) - 1 = k
    BY <1>1, <1>4, FieldsAssumption
  <2>2. loop[k][at[k + 1]].status # "ok"
    BY <1>4, <2>1
  <2> QED BY <2>1, <2>2, WrittenTurn DEF IsTurn
<1>5. 1 \in T
  <2>1. T \in SUBSET (1..j)
    OBVIOUS
  <2> HIDE DEF T
  <2> QED BY <1>2, <1>3, <1>4, <2>1, Backwards
<1> QED BY <1>5, LoopOfRecord

\* A record without a fault reads back.
LEMMA SoundReadsBack ==
    ASSUME NEW loop, NEW line, NEW at, NEW fields, NEW t,
           ReadsRecord(loop, line, at, fields, t),
           Len(fields) <= MaxFields,
           \A k \in 1..Len(fields) : ~FaultAt(fields, k, t)
    PROVE  loop[0][0] = Parsed(fields)
<1> DEFINE ReadsFrom(k, fs) ==
               /\ fs \in Seq(Seq(Byte)) /\ Len(fs) = Len(fields) - (k - 1)
               /\ \A i \in 1..(Len(fields) - (k - 1)) : fs[i] = fields[(k - 1) + i]
           T == {k \in 1..Len(fields) :
                    \E fs : ReadsFrom(k, fs) /\ loop[k - 1][at[k]] = Parsed(fs)}
<1>1. PICK n \in Nat \ {0} : /\ n = Len(fields) /\ n <= MaxFields
                             /\ \A k \in 1..n : fields[k] \in Seq(Byte)
  BY LoopOfRecord
<1>2. n \in 1..n
  BY <1>1
<1>3. n \in T
  <2>1. loop[n - 1][at[n]] = Parsed(<<fields[n]>>)
    <3>1. n \in 1..Len(fields) /\ n <= MaxFields + 1 /\ n = Len(fields)
      BY <1>1, <1>2, FieldsAssumption
    <3>2. IsTurn(loop[n - 1][at[n]], fields, n, t, loop[n][at[n + 1]])
      BY <3>1, WrittenTurn
    <3> QED BY <3>1, <3>2 DEF IsTurn
  <2>2. ReadsFrom(n, <<fields[n]>>)
    <3>1. n - (n - 1) = 1 /\ (n - 1) + 1 = n
      BY <1>1
    <3>2. \A i \in 1..1 : i = 1
      OBVIOUS
    <3>3. <<fields[n]>> \in Seq(Seq(Byte)) /\ Len(<<fields[n]>>) = 1
          /\ <<fields[n]>>[1] = fields[n]
      BY <1>1, <1>2
    <3> QED BY <1>1, <3>1, <3>2, <3>3
  <2> HIDE DEF ReadsFrom
  <2> QED BY <1>1, <1>2, <2>1, <2>2
<1>4. ASSUME NEW k \in 1..n, k < n, k + 1 \in T PROVE k \in T
  <2>1. /\ k \in 1..Len(fields) /\ k <= MaxFields + 1 /\ k < Len(fields)
        /\ (k + 1) - 1 = k
    BY <1>1, <1>4, FieldsAssumption
  <2>2. PICK fs : ReadsFrom(k + 1, fs) /\ loop[k][at[k + 1]] = Parsed(fs)
    BY <1>4, <2>1
  <2> DEFINE more == <<fields[k]>> \o fs
  <2>3. Parsed(fs).status = "ok" /\ Parsed(fs).fields = fs
    BY DEF Parsed
  <2>4. loop[k - 1][at[k]] = Parsed(more)
    <3>1. ~FaultAt(fields, k, t)
      BY <2>1
    <3>2. loop[k - 1][at[k]] = IF loop[k][at[k + 1]].status = "ok"
                               THEN Parsed(<<fields[k]>> \o loop[k][at[k + 1]].fields)
                               ELSE loop[k][at[k + 1]]
      BY <2>1, <3>1, WrittenTurn DEF IsTurn
    <3> QED BY <2>2, <2>3, <3>2, Zenon
  <2>5. PICK one \in Seq(Seq(Byte)) :
            one = <<fields[k]>> /\ Len(one) = 1 /\ one[1] = fields[k]
    <3>1. fields[k] \in Seq(Byte)
      BY <1>1
    <3>2. <<fields[k]>> \in Seq(Seq(Byte)) /\ Len(<<fields[k]>>) = 1
          /\ <<fields[k]>>[1] = fields[k]
      BY <3>1
    <3> QED BY <3>2
  <2>6. PICK m \in Nat : m = n - k /\ m + 1 = n - (k - 1)
    <3>1. n - k \in Nat /\ (n - k) + 1 = n - (k - 1)
      BY <1>1, <1>4
    <3> QED BY <3>1
  <2>7. /\ fs \in Seq(Seq(Byte)) /\ Len(fs) = m
        /\ \A i \in 1..m : fs[i] = fields[k + i]
    BY <1>1, <2>1, <2>2, <2>6
  <2>8. /\ one \o fs \in Seq(Seq(Byte)) /\ Len(one \o fs) = Len(one) + Len(fs)
        /\ \A i \in 1..(Len(one) + Len(fs)) :
               (one \o fs)[i] = IF i <= Len(one) THEN one[i] ELSE fs[i - Len(one)]
    BY <2>5, <2>7, ConcatProperties
  <2>9. more = one \o fs
    BY <2>5
  <2> HIDE DEF more
  <2>10. /\ more \in Seq(Seq(Byte)) /\ Len(more) = m + 1
         /\ \A i \in 1..(m + 1) : more[i] = IF i <= 1 THEN one[i] ELSE fs[i - 1]
    BY <2>5, <2>7, <2>8, <2>9
  <2>11. ASSUME NEW i \in 1..(m + 1) PROVE more[i] = fields[(k - 1) + i]
    <3>1. CASE i = 1
      <4>1. (k - 1) + i = k
        BY <3>1
      <4> QED BY <2>5, <2>10, <3>1, <4>1
    <3>2. CASE i # 1
      <4>1. i - 1 \in 1..m /\ k + (i - 1) = (k - 1) + i /\ ~(i <= 1)
        BY <3>2
      <4> QED BY <2>7, <2>10, <4>1
    <3> QED BY <3>1, <3>2
  <2>12. ReadsFrom(k, more)
    BY <1>1, <2>6, <2>10, <2>11
  <2> HIDE DEF ReadsFrom
  <2> QED BY <1>1, <2>4, <2>12
<1>5. 1 \in T
  <2>1. T \in SUBSET (1..n)
    BY <1>1
  <2> HIDE DEF T
  <2> QED BY <1>1, <1>3, <1>4, <2>1, Backwards
<1>6. PICK fs : ReadsFrom(1, fs) /\ loop[0][0] = Parsed(fs)
  <2> HIDE DEF ReadsFrom
  <2> QED BY <1>5, LoopOfRecord
<1>7. fs = fields
  <2>1. n - (1 - 1) = n /\ \A i \in 1..n : (1 - 1) + i = i
    BY <1>1
  <2>2. fs \in Seq(Seq(Byte)) /\ Len(fs) = n /\ \A i \in 1..n : fs[i] = fields[i]
    BY <1>1, <1>6, <2>1
  <2>3. fields \in Seq(Seq(Byte))
    BY DEF ReadsRecord
  <2> QED BY <1>1, <2>2, <2>3, SeqEqual
<1> QED BY <1>6, <1>7

\* Length is the only fault of a printable record with few enough fields.
LEMMA OnlyOverlong ==
    ASSUME NEW loop, NEW line, NEW at, NEW fields,
           NEW t, t = 0, ReadsRecord(loop, line, at, fields, t), Len(fields) <= MaxFields,
           \A k \in 1..Len(fields) : ~HasBadByte(fields[k])
    PROVE  loop[0][0].status \in {"ok", "overlong"}
<1> DEFINE T == {k \in 1..Len(fields) :
                    loop[k - 1][at[k]].status \in {"ok", "overlong"}}
<1>1. PICK n \in Nat \ {0} : n = Len(fields) /\ n <= MaxFields
  BY LoopOfRecord
<1>2. ASSUME NEW k \in 1..n
      PROVE  /\ k \in 1..Len(fields) /\ k <= MaxFields + 1 /\ k # MaxFields + 1
             /\ FaultAt(fields, k, t) <=> TooLong(fields[k])
  <2>1. k \in 1..Len(fields) /\ k <= MaxFields + 1 /\ k # MaxFields + 1
    BY <1>1, FieldsAssumption
  <2> QED BY <2>1 DEF FaultAt
<1>3. \A fs : Parsed(fs).status = "ok"
  BY DEF Parsed
<1>4. n \in T
  <2>1. n \in 1..n
    BY <1>1
  <2>2. TooLong(fields[n]) => loop[n - 1][at[n]].status = "overlong"
    <3>1. n \in 1..Len(fields) /\ n <= MaxFields + 1 /\ ~(t = 1)
          /\ ~HasBadByte(fields[n])
      BY <1>1, <1>2, <2>1
    <3>2. IsTurn(loop[n - 1][at[n]], fields, n, t, loop[n][at[n + 1]])
      BY <3>1, WrittenTurn
    <3> QED BY <3>1, <3>2 DEF IsTurn
  <2>3. ~TooLong(fields[n]) => loop[n - 1][at[n]] = Parsed(<<fields[n]>>)
    BY <1>1, <1>2, <2>1, WrittenTurn DEF IsTurn
  <2> QED BY <1>1, <1>3, <2>1, <2>2, <2>3
<1>5. ASSUME NEW k \in 1..n, k < n, k + 1 \in T PROVE k \in T
  <2>1. (k + 1) - 1 = k /\ k < Len(fields)
    BY <1>1, <1>5
  <2>2. loop[k][at[k + 1]].status \in {"ok", "overlong"}
    BY <1>5, <2>1
  <2>3. TooLong(fields[k]) => loop[k - 1][at[k]].status = "overlong"
    <3>1. ~(t = 1) /\ ~HasBadByte(fields[k])
      BY <1>2
    <3>2. IsTurn(loop[k - 1][at[k]], fields, k, t, loop[k][at[k + 1]])
      BY <1>2, WrittenTurn
    <3> QED BY <3>1, <3>2 DEF IsTurn
  <2>4. ~TooLong(fields[k]) =>
            loop[k - 1][at[k]] = IF loop[k][at[k + 1]].status = "ok"
                                 THEN Parsed(<<fields[k]>> \o loop[k][at[k + 1]].fields)
                                 ELSE loop[k][at[k + 1]]
    BY <1>2, <2>1, WrittenTurn DEF IsTurn
  <2>5. loop[k - 1][at[k]].status \in {"ok", "overlong"}
    BY <1>3, <2>2, <2>3, <2>4
  <2> QED BY <1>2, <2>5
<1>6. 1 \in T
  <2>1. T \in SUBSET (1..n)
    BY <1>1
  <2> HIDE DEF T
  <2> QED BY <1>1, <1>4, <1>5, <2>1, Backwards
<1> QED BY <1>6, LoopOfRecord

\* A lone backslash is all that is wrong with a record that is sound up to it.
LEMMA LoneIsMalformed ==
    ASSUME NEW loop, NEW line, NEW at, NEW fields,
           NEW t, t = 1, ReadsRecord(loop, line, at, fields, t), Len(fields) <= MaxFields,
           \A k \in 1..Len(fields) : ~HasBadByte(fields[k]) /\ ~TooLong(fields[k])
    PROVE  loop[0][0].status = "malformed"
<1> DEFINE T == {k \in 1..Len(fields) : loop[k - 1][at[k]].status = "malformed"}
<1>1. PICK n \in Nat \ {0} : n = Len(fields) /\ n <= MaxFields
  BY LoopOfRecord
<1>2. n \in T
  <2>1. n \in 1..Len(fields) /\ n <= MaxFields + 1
    BY <1>1, FieldsAssumption
  <2>2. loop[n - 1][at[n]].status = "malformed"
    <3>1. t = 1 /\ n = Len(fields)
      BY <1>1
    <3>2. IsTurn(loop[n - 1][at[n]], fields, n, t, loop[n][at[n + 1]])
      BY <2>1, WrittenTurn
    <3> QED BY <3>1, <3>2 DEF IsTurn
  <2> QED BY <2>1, <2>2
<1>3. ASSUME NEW k \in 1..n, k < n, k + 1 \in T PROVE k \in T
  <2>1. /\ k \in 1..Len(fields) /\ k <= MaxFields + 1 /\ k # MaxFields + 1
        /\ (k + 1) - 1 = k /\ k < Len(fields)
    BY <1>1, <1>3, FieldsAssumption
  <2>2. ~FaultAt(fields, k, t)
    BY <2>1 DEF FaultAt
  <2>3. loop[k][at[k + 1]].status = "malformed"
    BY <1>3, <2>1
  <2>4. loop[k - 1][at[k]] = IF loop[k][at[k + 1]].status = "ok"
                             THEN Parsed(<<fields[k]>> \o loop[k][at[k + 1]].fields)
                             ELSE loop[k][at[k + 1]]
    BY <2>1, <2>2, WrittenTurn DEF IsTurn
  <2> QED BY <2>1, <2>3, <2>4
<1>4. 1 \in T
  <2>1. T \in SUBSET (1..n)
    BY <1>1
  <2> HIDE DEF T
  <2> QED BY <1>1, <1>2, <1>3, <2>1, Backwards
<1> QED BY <1>4, LoopOfRecord

-----------------------------------------------------------------------------
(* What is promised of a record. *)

LEMMA NothingWritten == EncodeField(<< >>) = << >>
<1> DEFINE seqs == [i \in 1..Len(<< >>) |-> EncodeByte(<< >>[i])]
<1>1. EncodeField(<< >>) = FlattenSeq(seqs)
  BY DEF EncodeField
<1>2. Len(<< >>) = 0 /\ seqs = << >>
  OBVIOUS
<1> HIDE DEF seqs
<1>3. FlattenSeq(seqs) = seqs
  BY <1>2 DEF FlattenSeq
<1> QED BY <1>1, <1>2, <1>3

\* The empty line is the record of one empty field, and of no other.
LEMMA EmptyRecord ==
    ASSUME NEW fields \in Seq(Seq(Byte)), Len(fields) # 0
    PROVE  EncodeRecord(fields) = << >> <=> fields = << << >> >>
<1> DEFINE line == EncodeRecord(fields)
<1>1. PICK n \in Nat \ {0} : n = Len(fields) /\ \A k \in 1..n : fields[k] \in Seq(Byte)
  OBVIOUS
<1>2. line \in Seq(Byte)
  BY RecordLayout
<1>3. PICK at : Layout(line, at, fields, 0)
  BY RecordLayout
<1> HIDE DEF line
<1>4. ASSUME line = << >> PROVE fields = << << >> >>
  <2>1. Len(line) = 0
    BY <1>4
  <2>2. at[1] = 0 /\ 1 \in 1..n
    BY <1>1, <1>3 DEF Layout
  <2>3. n = 1
    <3>1. n # 1 => /\ 2 \in 1..n /\ 1 < n /\ 1 + 1 = 2
      BY <1>1
    <3>2. n # 1 => at[2] = at[1] + Len(EncodeField(fields[1])) + 1 /\ at[2] \in 0..0
      BY <1>1, <1>3, <2>1, <2>2, <3>1 DEF Layout
    <3>3. Len(EncodeField(fields[1])) \in Nat
      BY <1>1, <2>2, EncodedTyped
    <3> QED BY <2>2, <3>2, <3>3
  <2>4. PICK field \in Seq(Byte) : field = fields[1]
    BY <1>1, <2>2
  <2>5. BeginsWith(<< >>, EncodeField(field))
    <3>1. at[1] + Len(EncodeField(fields[1])) <= Len(line)
      BY <1>1, <1>3, <2>2 DEF Layout
    <3>2. PICK w \in Nat : w = Len(EncodeField(field))
      BY <2>4, EncodedTyped
    <3>3. w = 0
      BY <2>1, <2>2, <2>4, <3>1, <3>2
    <3>4. Len(<< >>) = 0 /\ \A i \in 1..0 : FALSE
      OBVIOUS
    <3> QED BY <3>2, <3>3, <3>4 DEF BeginsWith
  <2>6. << >> \in Seq(Byte) /\ Len(<< >>) = 0
    BY EmptySeq
  <2>7. ValueOf(<< >>, Len(EncodeField(field))) = field
        /\ Len(EncodeField(field)) \in 0..0
    BY <2>4, <2>5, <2>6, FieldReadsBack
  <2>8. field = << >>
    <3>1. Len(EncodeField(field)) = 0
      BY <2>7
    <3>2. \E run : ValueRun(run, << >>, 0) /\ ValueOf(<< >>, 0) = run[0]
      <4>1. 0 \in 0..Len(<< >>)
        OBVIOUS
      <4> QED BY <2>6, <4>1, ValueRuns
    <3> QED BY <2>7, <3>1, <3>2 DEF ValueRun
  <2>9. fields = << field >>
    <3>1. fields \in Seq(Seq(Byte)) /\ <<field>> \in Seq(Seq(Byte))
          /\ Len(<<field>>) = 1 /\ <<field>>[1] = field
      BY <2>4
    <3>2. Len(fields) = 1 /\ \A i \in 1..1 : i = 1
      BY <1>1, <2>3
    <3> QED BY <2>4, <3>1, <3>2, SeqEqual
  <2> QED BY <2>8, <2>9
<1>5. ASSUME fields = << << >> >> PROVE line = << >>
  <2>1. n = 1 /\ fields[1] = << >>
    BY <1>1, <1>5
  <2>2. Len(line) = at[1] + Len(EncodeField(fields[1])) + 0 /\ at[1] = 0
    BY <1>1, <1>3, <2>1 DEF Layout
  <2>3. Len(EncodeField(fields[1])) = 0
    BY <2>1, NothingWritten
  <2>4. Len(line) = 0
    BY <2>2, <2>3
  <2> QED BY <1>2, <2>4, EmptySeq
<1> QED BY <1>4, <1>5 DEF line

LEMMA NothingIsParsed == ParseFields(<< >>) = Parsed(<< >>)
<1> DEFINE none == << >>
<1>1. none \in Seq(Byte) /\ 0 \in 0..Len(none) /\ 0 \in 0..MaxFields
  BY EmptySeq, FieldsAssumption
<1>2. FieldAt(none, 0).status = "end"
  <2>1. FieldAt(none, 0) = FailField("end")
    BY Zenon DEF FieldAt
  <2> QED BY <2>1 DEF FailField
<1>3. none = << >>
  OBVIOUS
<1> HIDE DEF none
<1>4. PICK loop : Loops(loop, none) /\ ParseFields(none) = loop[0][0]
  BY <1>1, ParseLoops
<1>5. loop[0][0] = Turn(FieldAt(none, 0), 0, loop[0 + 1][FieldAt(none, 0).next_start])
  BY <1>1, <1>4 DEF Loops
<1>6. \A rest : Turn(FieldAt(none, 0), 0, rest) = Parsed(<< >>)
  BY <1>2 DEF Turn
<1> QED BY <1>3, <1>4, <1>5, <1>6

\* Parsing a record is the loop over where it is written.
LEMMA RecordIsRead ==
    ASSUME NEW fields \in Seq(Seq(Byte)), Len(fields) # 0
    PROVE  /\ fields # << << >> >> =>
                  \E loop, at :
                      /\ ReadsRecord(loop, EncodeRecord(fields), at, fields, 0)
                      /\ ParseFields(EncodeRecord(fields)) = loop[0][0]
           /\ \E loop, at :
                  /\ ReadsRecord(loop, Append(EncodeRecord(fields), "esc"), at,
                                 fields, 1)
                  /\ ParseFields(Append(EncodeRecord(fields), "esc")) = loop[0][0]
<1>1. PICK line \in Seq(Byte) : line = EncodeRecord(fields)
  BY RecordLayout
<1>2. PICK at : Layout(line, at, fields, 0)
  BY <1>1, RecordLayout
<1>3. ASSUME fields # << << >> >>
      PROVE  \E loop : ReadsRecord(loop, line, at, fields, 0)
                       /\ ParseFields(line) = loop[0][0]
  <2>1. line # << >>
    BY <1>1, <1>3, EmptyRecord
  <2>2. PICK loop : Loops(loop, line) /\ ParseFields(line) = loop[0][0]
    BY ParseLoops
  <2> QED BY <1>2, <2>1, <2>2 DEF ReadsRecord
<1>4. PICK longer \in Seq(Byte) :
          /\ longer = Append(line, "esc") /\ longer # << >>
          /\ Layout(longer, at, fields, 1)
  BY <1>2, LoneEscape
<1>5. \E loop : ReadsRecord(loop, longer, at, fields, 1)
                /\ ParseFields(longer) = loop[0][0]
  <2>1. PICK loop : Loops(loop, longer) /\ ParseFields(longer) = loop[0][0]
    BY ParseLoops
  <2> QED BY <1>4, <2>1 DEF ReadsRecord
<1> QED BY <1>1, <1>3, <1>4, <1>5

RecordTyped == record \in Seq(Seq(Byte)) /\ Len(record) # 0

LEMMA PrintableIs ==
    Printable <=> \A k \in 1..Len(record) : ~HasBadByte(record[k])
BY DEF Printable, AllPrintable, HasBadByte, IsBadByte

LEMMA WithinIs ==
    RecordTyped => (Within <=> /\ Len(record) <= MaxFields
                               /\ \A k \in 1..Len(record) : ~TooLong(record[k]))
<1> SUFFICES ASSUME RecordTyped
             PROVE  Within <=> /\ Len(record) <= MaxFields
                               /\ \A k \in 1..Len(record) : ~TooLong(record[k])
  OBVIOUS
<1>1. \A k \in 1..Len(record) : Len(record[k]) \in Nat
  BY DEF RecordTyped
<1>2. \A k \in 1..Len(record) : ~TooLong(record[k]) <=> Len(record[k]) <= FieldMax
  BY <1>1, FieldsAssumption DEF TooLong
<1> QED BY <1>2 DEF Within

LEMMA RecordsReadBack == RecordTyped => RoundTrip
<1> SUFFICES ASSUME RecordTyped, Printable, Within
             PROVE  ParseFields(Line) =
                        Parsed(IF record = << << >> >> THEN << >> ELSE record)
  BY DEF RoundTrip
<1>1. CASE record = << << >> >>
  <2>1. Line = << >>
    BY <1>1, EmptyRecord DEF RecordTyped, Line
  <2> QED BY <1>1, <2>1, NothingIsParsed
<1>2. CASE record # << << >> >>
  <2>1. PICK loop, at : ReadsRecord(loop, Line, at, record, 0)
                        /\ ParseFields(Line) = loop[0][0]
    BY <1>2, RecordIsRead DEF RecordTyped, Line
  <2>2. Len(record) <= MaxFields
    BY WithinIs
  <2>3. PICK t : t = 0
    OBVIOUS
  <2>4. ASSUME NEW k \in 1..Len(record) PROVE ~FaultAt(record, k, t)
    <3>1. ~HasBadByte(record[k]) /\ ~TooLong(record[k])
      BY PrintableIs, WithinIs
    <3>2. k # MaxFields + 1
      BY <2>2, FieldsAssumption DEF RecordTyped
    <3> QED BY <2>3, <3>1, <3>2 DEF FaultAt
  <2>5. loop[0][0] = Parsed(record)
    BY <2>1, <2>2, <2>3, <2>4, SoundReadsBack
  <2> QED BY <1>2, <2>1, <2>5
<1> QED BY <1>1, <1>2

LEMMA BoundsMeet == RecordTyped => BoundsAreExact
<1> SUFFICES ASSUME RecordTyped, Printable, ~Within
             PROVE  /\ ParseFields(Line).status # "ok"
                    /\ Len(record) <= MaxFields =>
                           ParseFields(Line).status = "overlong"
  BY DEF BoundsAreExact
<1>1. record # << << >> >>
  <2> SUFFICES ASSUME record = << << >> >> PROVE Within
    OBVIOUS
  <2>1. Len(record) = 1 /\ record[1] = << >> /\ Len(<< >>) = 0
        /\ \A k \in 1..1 : k = 1
    OBVIOUS
  <2> QED BY <2>1, FieldsAssumption DEF Within
<1>2. PICK loop, at : ReadsRecord(loop, Line, at, record, 0)
                      /\ ParseFields(Line) = loop[0][0]
  BY <1>1, RecordIsRead DEF RecordTyped, Line
<1>3. PICK t : t = 0
  OBVIOUS
<1>4. PICK n \in Nat : n = Len(record)
  BY DEF RecordTyped
<1>5. \E j \in 1..Len(record) : j <= MaxFields + 1 /\ FaultAt(record, j, t)
  <2>1. CASE n <= MaxFields
    <3>1. PICK j \in 1..Len(record) : TooLong(record[j])
      BY <1>4, <2>1, WithinIs
    <3>2. j <= MaxFields + 1
      BY <1>4, <2>1, FieldsAssumption
    <3> QED BY <3>1, <3>2 DEF FaultAt
  <2>2. CASE ~(n <= MaxFields)
    <3>1. MaxFields + 1 \in 1..Len(record) /\ MaxFields + 1 <= MaxFields + 1
      BY <1>4, <2>2, FieldsAssumption
    <3>2. FaultAt(record, MaxFields + 1, t)
      BY DEF FaultAt
    <3> QED BY <3>1, <3>2
  <2> QED BY <2>1, <2>2
<1>6. loop[0][0].status # "ok"
  BY <1>2, <1>3, <1>5, FaultIsRefused
<1>7. ASSUME Len(record) <= MaxFields PROVE loop[0][0].status = "overlong"
  <2>1. loop[0][0].status \in {"ok", "overlong"}
    BY <1>2, <1>3, <1>7, PrintableIs, OnlyOverlong
  <2> QED BY <1>6, <2>1
<1> QED BY <1>2, <1>6, <1>7

LEMMA UnreadableMeets == RecordTyped => UnreadableIsRefused
<1> SUFFICES ASSUME RecordTyped PROVE UnreadableIsRefused
  OBVIOUS
<1>1. PICK n \in Nat : n = Len(record)
  BY DEF RecordTyped
<1>2. ASSUME ~Printable PROVE ParseFields(Line).status # "ok"
  <2>1. PICK k \in 1..Len(record) : HasBadByte(record[k])
    BY <1>2, PrintableIs
  <2>2. record # << << >> >>
    <3> SUFFICES ASSUME record = << << >> >> PROVE FALSE
      OBVIOUS
    <3>1. record[k] = << >> /\ Len(<< >>) = 0
      OBVIOUS
    <3> QED BY <2>1, <3>1 DEF HasBadByte
  <2>3. PICK loop, at : ReadsRecord(loop, Line, at, record, 0)
                        /\ ParseFields(Line) = loop[0][0]
    BY <2>2, RecordIsRead DEF RecordTyped, Line
  <2>4. PICK t : t = 0
    OBVIOUS
  <2>5. \E j \in 1..Len(record) : j <= MaxFields + 1 /\ FaultAt(record, j, t)
    <3>1. CASE k <= MaxFields + 1
      BY <2>1, <3>1 DEF FaultAt
    <3>2. CASE ~(k <= MaxFields + 1)
      <4>1. MaxFields + 1 \in 1..Len(record) /\ MaxFields + 1 <= MaxFields + 1
        BY <1>1, <3>2, FieldsAssumption
      <4>2. FaultAt(record, MaxFields + 1, t)
        BY DEF FaultAt
      <4> QED BY <4>1, <4>2
    <3> QED BY <3>1, <3>2
  <2>6. loop[0][0].status # "ok"
    BY <2>3, <2>4, <2>5, FaultIsRefused
  <2> QED BY <2>3, <2>6
<1>3. ASSUME Printable, Within
      PROVE  ParseFields(Append(Line, "esc")).status = "malformed"
  <2>1. PICK loop, at : ReadsRecord(loop, Append(Line, "esc"), at, record, 1)
                        /\ ParseFields(Append(Line, "esc")) = loop[0][0]
    BY RecordIsRead DEF RecordTyped, Line
  <2>2. /\ Len(record) <= MaxFields
        /\ \A k \in 1..Len(record) : ~HasBadByte(record[k]) /\ ~TooLong(record[k])
    BY <1>3, PrintableIs, WithinIs
  <2>3. PICK t : t = 1
    OBVIOUS
  <2>4. loop[0][0].status = "malformed"
    BY <2>1, <2>2, <2>3, LoneIsMalformed
  <2> QED BY <2>1, <2>4
<1> QED BY <1>2, <1>3 DEF UnreadableIsRefused

LEMMA WrittenRecordTyped ==
    /\ Init => RecordTyped
    /\ RecordTyped /\ [Next]_record => RecordTyped'
<1>1. ASSUME Init PROVE RecordTyped
  <2>1. << >> \in Seq(Byte)
    BY EmptySeq
  <2> QED BY <1>1, <2>1 DEF Init, RecordTyped
<1>2. ASSUME RecordTyped, [Next]_record PROVE RecordTyped'
  <2>1. PICK n \in Nat \ {0} : n = Len(record) /\ n \in 1..Len(record)
    BY <1>2 DEF RecordTyped
  <2>2. CASE NextField
    <3>1. << >> \in Seq(Byte)
      BY EmptySeq
    <3>2. Append(record, << >>) \in Seq(Seq(Byte))
          /\ Len(Append(record, << >>)) = Len(record) + 1
      BY <1>2, <3>1, AppendProperties DEF RecordTyped
    <3> QED BY <2>1, <2>2, <3>2 DEF NextField, RecordTyped
  <2>3. ASSUME NEW b \in Alphabet, WriteByte(b) PROVE RecordTyped'
    <3>1. b \in Byte
      BY FieldsCheckAssumption
    <3>2. Append(record[n], b) \in Seq(Byte)
      <4>1. record[n] \in Seq(Byte)
        BY <1>2, <2>1 DEF RecordTyped
      <4> QED BY <3>1, <4>1, AppendProperties
    <3>3. record' = [record EXCEPT ![n] = Append(record[n], b)]
      BY <2>1, <2>3 DEF WriteByte
    <3> QED BY <1>2, <2>1, <3>2, <3>3 DEF RecordTyped
  <2>4. CASE UNCHANGED record
    BY <1>2, <2>4 DEF RecordTyped
  <2> QED BY <1>2, <2>2, <2>3, <2>4 DEF Next
<1> QED BY <1>1, <1>2

-----------------------------------------------------------------------------
(* The records of the calls. *)

\* Only the writer touches the record.
LEMMA CallsRecordTyped == CallsSpec => []RecordTyped
<1>1. CallsInit => RecordTyped
  BY WrittenRecordTyped DEF CallsInit
<1>2. RecordTyped /\ [CallsNext]_callsVars => RecordTyped'
  <2>1. [CallsNext]_callsVars => [Next]_record
    BY DEF CallsNext, WriteRecord, AskField, AskWord, AskInterpreter,
           ThreadInterprets, ThreadStep, ThreadPanics, callsVars
  <2> QED BY <2>1, WrittenRecordTyped
<1> QED BY <1>1, <1>2, PTL DEF CallsSpec

\* A record within the bounds, whatever commas and backslashes it holds, is
\* read back by the field splitter as it was written (parse_fields).
THEOREM RecordsRoundTrip == CallsSpec => []RoundTrip
<1>1. RecordTyped => RoundTrip
  BY RecordsReadBack
<1> QED BY <1>1, CallsRecordTyped, PTL

\* The bounds on fields and their bytes are exact: one more of either is
\* refused, and a field that is too long as overlong when it is read at all.
THEOREM RecordBoundsAreExact == CallsSpec => []BoundsAreExact
<1>1. RecordTyped => BoundsAreExact
  BY BoundsMeet
<1> QED BY <1>1, CallsRecordTyped, PTL

\* Control bytes and terminators in a field are refused wherever they sit, and
\* so is a lone backslash behind the last field (field_at).
THEOREM RecordUnreadableIsRefused == CallsSpec => []UnreadableIsRefused
<1>1. RecordTyped => UnreadableIsRefused
  BY UnreadableMeets
<1> QED BY <1>1, CallsRecordTyped, PTL

-----------------------------------------------------------------------------
(* The session. *)


Places == {"idle", "acquire", "holding", "inside", "interpret", "answered",
           "panicked"}

\* The functions of threads are functions, and panics are counted.
ThreadState ==
    /\ pc \in [Threads -> Places]
    /\ asked = [t \in Threads |-> asked[t]]
    /\ reply = [t \in Threads |-> reply[t]]
    /\ panics \in Nat

InSession(t) == pc[t] \in {"holding", "inside"}

\* One thread at a time is in the session.
Exclusive == \A t \in Threads : InSession(t) => owner = {t}

\* The session works on the call of the thread inside.
FrameIsItsOwn ==
    \A t \in Threads :
        pc[t] = "inside" =>
            frame = [function |-> asked[t].function, values |-> Values(t)]

PoisonedByPanic == poisoned => panics > 0

SessionInv ==
    ThreadState /\ Exclusive /\ FrameIsItsOwn /\ PoisonedByPanic /\ SessionParity

ParityOf(t) ==
    pc[t] = "answered" /\ asked[t].route = "session" =>
        \/ reply[t] = ReplyTo(t, Execute(asked[t].function, Values(t)))
        \/ panics > 0 /\ reply[t] = LanguageError

-----------------------------------------------------------------------------
\* A step of thread t that leaves the others where they are, and the session
\* to whoever of them is in it, and does what t's part of the invariant asks.
StepOf(t) ==
    /\ pc' \in [Threads -> Places]
    /\ asked' = [u \in Threads |-> asked'[u]]
    /\ reply' = [u \in Threads |-> reply'[u]]
    /\ \A u \in Threads \ {t} :
           /\ pc'[u] = pc[u]
           /\ asked'[u] = asked[u]
           /\ reply'[u] = reply[u]
           /\ InSession(u) => owner' = owner /\ frame' = frame
    /\ panics' \in Nat /\ panics' >= panics
    /\ PoisonedByPanic'
    /\ ParityOf(t)'
    /\ InSession(t)' => owner' = {t}
    /\ pc'[t] = "inside" =>
           frame' = [function |-> asked'[t].function, values |-> Values(t)']

LEMMA OthersKeep ==
    ASSUME SessionInv, NEW t \in Threads, StepOf(t)
    PROVE  SessionInv'
<1>. USE DEF StepOf
<1>1. ThreadState'
  BY DEF ThreadState
<1>2. Exclusive'
  BY DEF SessionInv, Exclusive, InSession
<1>3. FrameIsItsOwn'
  <2>. SUFFICES ASSUME NEW u \in Threads, u # t, pc'[u] = "inside"
               PROVE  frame' = [function |-> asked'[u].function,
                                values |-> Values(u)']
    BY DEF FrameIsItsOwn
  <2>1. asked'[u] = asked[u] /\ pc[u] = "inside"
    OBVIOUS
  <2>2. frame' = frame
    BY <2>1 DEF InSession
  <2>. QED
    BY <2>1, <2>2 DEF SessionInv, FrameIsItsOwn, Values
<1>4. PoisonedByPanic'
  OBVIOUS
<1>5. SessionParity'
  <2>. SUFFICES ASSUME NEW u \in Threads, u # t PROVE ParityOf(u)'
    BY DEF SessionParity, ParityOf
  <2>1. ParityOf(u)
    BY DEF SessionInv, SessionParity, ParityOf
  <2>2. panics \in Nat
    BY DEF SessionInv, ThreadState
  <2>. QED
    BY <2>1, <2>2 DEF ParityOf, ReplyTo, Values
<1>. QED
  BY <1>1, <1>2, <1>3, <1>4, <1>5 DEF SessionInv

LEMMA SessionInvInit == CallsInit => SessionInv
<1>. SUFFICES ASSUME CallsInit PROVE SessionInv
  OBVIOUS
<1>. USE DEF CallsInit, SessionInit
<1>1. ThreadState
  BY DEF ThreadState, Places
<1>2. \A t \in Threads : pc[t] = "idle"
  OBVIOUS
<1>3. ~poisoned
  OBVIOUS
<1>. QED
  BY <1>1, <1>2, <1>3 DEF SessionInv, Exclusive, InSession, FrameIsItsOwn,
                          PoisonedByPanic, SessionParity

LEMMA CallKeeps ==
    ASSUME SessionInv, NEW t \in Threads, NEW route, NEW function, NEW args,
           Call(t, route, function, args)
    PROVE  SessionInv'
<1>. USE DEF ThreadState, Set, Places
<1>0. ThreadState /\ Exclusive /\ FrameIsItsOwn /\ PoisonedByPanic
  BY DEF SessionInv
<1>1. UNCHANGED <<owner, poisoned, panics, frame>>
  BY <1>0 DEF Call, mutex
<1>2. /\ pc' \in [Threads -> Places]
      /\ asked' = [u \in Threads |-> asked'[u]]
      /\ reply' = [u \in Threads |-> reply'[u]]
  BY <1>0 DEF Call, Answer
<1>3. ASSUME NEW u \in Threads \ {t}
      PROVE  pc'[u] = pc[u] /\ asked'[u] = asked[u] /\ reply'[u] = reply[u]
  BY <1>0 DEF Call, Answer
<1>4. ~InSession(t)' /\ pc'[t] # "inside"
  BY <1>0 DEF Call, Answer, InSession
<1>5. ParityOf(t)'
  <2>1. asked'[t] = [route |-> route, function |-> function, args |-> args]
    BY <1>0 DEF Call
  <2>2. route = "session" => Acceptable(function, args)
    BY <1>0 DEF Call, Embedded, Acceptable
  <2>3. pc'[t] = "answered" => ~Acceptable(function, args)
    BY <1>0 DEF Call, Answer
  <2>. QED
    BY <2>1, <2>2, <2>3 DEF ParityOf
<1>6. PoisonedByPanic'
  BY <1>0, <1>1 DEF PoisonedByPanic
<1>7. StepOf(t)
  BY <1>0, <1>1, <1>2, <1>3, <1>4, <1>5, <1>6 DEF StepOf
<1>. QED
  BY <1>7, OthersKeep

LEMMA InterpretKeeps ==
    ASSUME SessionInv, NEW t \in Threads, Interpret(t)
    PROVE  SessionInv'
<1>. USE DEF ThreadState, Set, Places
<1>0. ThreadState /\ Exclusive /\ FrameIsItsOwn /\ PoisonedByPanic
  BY DEF SessionInv
<1>1. UNCHANGED <<asked, owner, poisoned, panics, frame>>
  BY <1>0 DEF Interpret, mutex
<1>2. /\ pc' \in [Threads -> Places]
      /\ reply' = [u \in Threads |-> reply'[u]]
  BY <1>0 DEF Interpret, Answer
<1>3. ASSUME NEW u \in Threads \ {t}
      PROVE  pc'[u] = pc[u] /\ reply'[u] = reply[u]
  BY <1>0 DEF Interpret, Answer
<1>4. pc'[t] = "answered"
  BY <1>0 DEF Interpret, Answer
<1>5. ParityOf(t)'
  <2>1. reply'[t] = ReplyTo(t, Execute(asked[t].function, Values(t)))
    BY <1>0 DEF Interpret, Answer
  <2>. QED
    BY <1>1, <2>1 DEF ParityOf, ReplyTo, Values
<1>6. PoisonedByPanic'
  BY <1>0, <1>1 DEF PoisonedByPanic
<1>7. ~InSession(t)'
  BY <1>4 DEF InSession
<1>8. StepOf(t)
  BY <1>0, <1>1, <1>2, <1>3, <1>4, <1>5, <1>6, <1>7 DEF StepOf
<1>. QED
  BY <1>8, OthersKeep

\* The mutex is free, so nobody else is in the session.
LEMMA AcquireKeeps ==
    ASSUME SessionInv, NEW t \in Threads, Acquire(t)
    PROVE  SessionInv'
<1>. USE DEF ThreadState, Set, Places
<1>0. ThreadState /\ Exclusive /\ FrameIsItsOwn /\ PoisonedByPanic
  BY DEF SessionInv
<1>1. UNCHANGED <<asked, poisoned, panics, frame>>
  BY <1>0 DEF Acquire
<1>2. /\ pc' \in [Threads -> Places]
      /\ reply' = [u \in Threads |-> reply'[u]]
  BY <1>0 DEF Acquire, Answer
<1>3. ASSUME NEW u \in Threads \ {t}
      PROVE  pc'[u] = pc[u] /\ reply'[u] = reply[u]
  BY <1>0 DEF Acquire, Answer
<1>4. \A u \in Threads : ~InSession(u)
  BY <1>0 DEF Acquire, Exclusive
<1>5. InSession(t)' => owner' = {t}
  BY <1>0 DEF Acquire, Answer, InSession
<1>6. ParityOf(t)'
  <2>1. pc'[t] = "answered" => poisoned /\ reply'[t] = LanguageError
    BY <1>0 DEF Acquire, Answer
  <2>. QED
    BY <1>0, <1>1, <2>1 DEF ParityOf, PoisonedByPanic
<1>7. PoisonedByPanic'
  BY <1>0, <1>1 DEF PoisonedByPanic
<1>8. pc'[t] # "inside"
  BY <1>0 DEF Acquire, Answer
<1>9. StepOf(t)
  BY <1>0, <1>1, <1>2, <1>3, <1>4, <1>5, <1>6, <1>7, <1>8 DEF StepOf
<1>. QED
  BY <1>9, OthersKeep

LEMMA OnlyOneInSession ==
    ASSUME SessionInv, NEW t \in Threads, InSession(t),
           NEW u \in Threads \ {t}
    PROVE  ~InSession(u)
  BY DEF SessionInv, Exclusive

LEMMA EnterKeeps ==
    ASSUME SessionInv, NEW t \in Threads, Enter(t)
    PROVE  SessionInv'
<1>. USE DEF ThreadState, Set, Places
<1>0. ThreadState /\ Exclusive /\ FrameIsItsOwn /\ PoisonedByPanic
  BY DEF SessionInv
<1>1. UNCHANGED <<asked, reply, owner, poisoned, panics>>
  BY <1>0 DEF Enter
<1>2. pc' \in [Threads -> Places]
  BY <1>0 DEF Enter
<1>3. ASSUME NEW u \in Threads \ {t} PROVE pc'[u] = pc[u]
  BY <1>0 DEF Enter
<1>4. InSession(t) /\ owner = {t}
  BY <1>0 DEF Enter, InSession, Exclusive
<1>5. \A u \in Threads \ {t} : ~InSession(u)
  BY <1>4, OnlyOneInSession
<1>6. pc'[t] = "inside"
  BY <1>0 DEF Enter
<1>7. frame' = [function |-> asked'[t].function, values |-> Values(t)']
  BY <1>0 DEF Enter, Values
<1>8. ParityOf(t)'
  BY <1>6 DEF ParityOf
<1>9. PoisonedByPanic'
  BY <1>0, <1>1 DEF PoisonedByPanic
<1>10. StepOf(t)
  BY <1>0, <1>1, <1>2, <1>3, <1>4, <1>5, <1>6, <1>7, <1>8, <1>9 DEF StepOf
<1>. QED
  BY <1>10, OthersKeep

\* The answer is computed from the frame, which is the leaver's own.
LEMMA LeaveKeeps ==
    ASSUME SessionInv, NEW t \in Threads, Leave(t)
    PROVE  SessionInv'
<1>. USE DEF ThreadState, Set, Places
<1>0. ThreadState /\ Exclusive /\ FrameIsItsOwn /\ PoisonedByPanic
  BY DEF SessionInv
<1>1. UNCHANGED <<asked, poisoned, panics, frame>>
  BY <1>0 DEF Leave
<1>2. /\ pc' \in [Threads -> Places]
      /\ reply' = [u \in Threads |-> reply'[u]]
  BY <1>0 DEF Leave, Answer
<1>3. ASSUME NEW u \in Threads \ {t}
      PROVE  pc'[u] = pc[u] /\ reply'[u] = reply[u]
  BY <1>0 DEF Leave, Answer
<1>4. pc[t] = "inside" /\ pc'[t] = "answered"
  BY <1>0 DEF Leave, Answer
<1>5. \A u \in Threads \ {t} : ~InSession(u)
  BY <1>4, OnlyOneInSession DEF InSession
<1>6. ParityOf(t)'
  <2>1. reply'[t] = ReplyTo(t, Execute(frame.function, frame.values))
    BY <1>0 DEF Leave, Answer
  <2>2. frame = [function |-> asked[t].function, values |-> Values(t)]
    BY <1>0, <1>4 DEF FrameIsItsOwn
  <2>3. frame.function = asked[t].function /\ frame.values = Values(t)
    BY <2>2
  <2>. QED
    BY <1>1, <2>1, <2>3 DEF ParityOf, ReplyTo, Values
<1>7. PoisonedByPanic'
  BY <1>0, <1>1 DEF PoisonedByPanic
<1>8. ~InSession(t)'
  BY <1>4 DEF InSession
<1>9. StepOf(t)
  BY <1>0, <1>1, <1>2, <1>3, <1>4, <1>5, <1>6, <1>7, <1>8 DEF StepOf
<1>. QED
  BY <1>9, OthersKeep

LEMMA PanicKeeps ==
    ASSUME SessionInv, NEW t \in Threads, Panic(t)
    PROVE  SessionInv'
<1>. USE DEF ThreadState, Set, Places
<1>0. ThreadState /\ Exclusive /\ FrameIsItsOwn /\ PoisonedByPanic
  BY DEF SessionInv
<1>1. UNCHANGED <<asked, reply, frame>> /\ panics' = panics + 1
  BY <1>0 DEF Panic
<1>2. pc' \in [Threads -> Places]
  BY <1>0 DEF Panic
<1>3. ASSUME NEW u \in Threads \ {t} PROVE pc'[u] = pc[u]
  BY <1>0 DEF Panic
<1>4. pc[t] = "inside" /\ pc'[t] = "panicked"
  BY <1>0 DEF Panic
<1>5. \A u \in Threads \ {t} : ~InSession(u)
  BY <1>4, OnlyOneInSession DEF InSession
<1>6. ParityOf(t)' /\ ~InSession(t)'
  BY <1>4 DEF ParityOf, InSession
<1>7. PoisonedByPanic' /\ panics' \in Nat /\ panics' >= panics
  BY <1>0, <1>1 DEF PoisonedByPanic
<1>8. StepOf(t)
  BY <1>0, <1>1, <1>2, <1>3, <1>4, <1>5, <1>6, <1>7 DEF StepOf
<1>. QED
  BY <1>8, OthersKeep

-----------------------------------------------------------------------------
LEMMA StutterKeeps ==
    ASSUME SessionInv, UNCHANGED sessionVars
    PROVE  SessionInv'
  BY DEF SessionInv, ThreadState, Exclusive, InSession, FrameIsItsOwn,
         PoisonedByPanic, SessionParity, ReplyTo, Values, sessionVars, mutex

LEMMA SessionInvStep == SessionInv /\ [CallsNext]_callsVars => SessionInv'
<1>. SUFFICES ASSUME SessionInv, [CallsNext]_callsVars PROVE SessionInv'
  OBVIOUS
<1>1. CASE WriteRecord
  BY <1>1, StutterKeeps DEF WriteRecord
<1>2. ASSUME NEW t \in Threads, AskField(t) \/ AskWord(t) \/ AskInterpreter(t)
      PROVE  SessionInv'
  BY <1>2, CallKeeps DEF AskField, AskWord, AskInterpreter
<1>3. ASSUME NEW t \in Threads, ThreadInterprets(t) PROVE SessionInv'
  BY <1>3, InterpretKeeps DEF ThreadInterprets
<1>4. ASSUME NEW t \in Threads, ThreadStep(t) PROVE SessionInv'
  BY <1>4, AcquireKeeps, EnterKeeps, LeaveKeeps DEF ThreadStep, SessionStep
<1>5. ASSUME NEW t \in Threads, ThreadPanics(t) PROVE SessionInv'
  BY <1>5, PanicKeeps DEF ThreadPanics
<1>6. CASE UNCHANGED callsVars
  BY <1>6, StutterKeeps DEF callsVars
<1>. QED
  BY <1>1, <1>2, <1>3, <1>4, <1>5, <1>6 DEF CallsNext

\* src/embed.rs, and what tests/embed_parity.rs samples: for any number of
\* threads and calls, whatever the functions compute, the session replies to
\* each thread what the interpreter would, or that the session has panicked.
THEOREM SessionRepliesAreTheInterpreters == CallsSpec => []SessionParity
<1>1. SessionInv => SessionParity
  BY DEF SessionInv
<1>. QED
  BY <1>1, SessionInvInit, SessionInvStep, PTL DEF CallsSpec

-----------------------------------------------------------------------------
(* Answers are right, whoever calls; first each function on its own. *)

\* What a call is replied, by whichever way, when nothing panics.
Replies(function, a) == Reply(function, a, Execute(function, Arguments(function, a)))

\* An answer is right, or what was asked is out of bounds.
IsRight(fields, function, a, r) ==
    IF r.status = "ok"
    THEN InBounds(function, a) /\ IsAnswer(fields, function, a, r.value)
    ELSE ~InBounds(function, a)

-----------------------------------------------------------------------------
(* Staging and reading back. *)

\* A sequence is the live part of itself.
LEMMA LiveIsAll ==
    ASSUME NEW S, NEW s \in Seq(S)
    PROVE  LiveBytes(s, Len(s)) = s
<1>1. Len(s) \in Nat /\ Len(s) <= Len(s)
  OBVIOUS
<1>2. LiveBytes(s, Len(s)) = SubSeq(s, 1, Len(s))
  BY <1>1 DEF LiveBytes
<1> QED BY <1>2, SubSeqFull

\* A buffer of a width holds s, or is s when s is longer.
Holds(buffer, s, width) ==
    /\ Len(buffer) = IF Len(s) < width THEN width ELSE Len(s)
    /\ \A i \in 1..Len(s) : buffer[i] = s[i]
    /\ TakeBytes(buffer, Len(s)) = s
    /\ LiveBytes(buffer, Len(s)) = s

\* What is padded is got back by its length, and fits when it is no longer
\* than the buffer.
LEMMA PaddedBack ==
    ASSUME NEW S, NEW s \in Seq(S), NEW width \in Nat, NEW filler \in S
    PROVE  Padded(s, width, filler) \in Seq(S) /\ Holds(Padded(s, width, filler), s, width)
<1> DEFINE padded == Padded(s, width, filler)
<1>1. PICK n \in Nat : n = Len(s)
  OBVIOUS
<1>2. /\ padded \in Seq(S) /\ Len(padded) = IF n < width THEN width ELSE n
      /\ \A i \in 1..n : padded[i] = s[i]
  <2>1. CASE n < width
    <3> DEFINE rest == [i \in 1..(width - n) |-> filler]
    <3>1. rest \in Seq(S) /\ Len(rest) = width - n
      BY <1>1, <2>1
    <3>2. padded = s \o rest
      BY <1>1, <2>1 DEF Padded
    <3> HIDE DEF rest, padded
    <3>3. /\ s \o rest \in Seq(S) /\ Len(s \o rest) = Len(s) + Len(rest)
          /\ \A i \in 1..Len(s) + Len(rest) :
                 (s \o rest)[i] = IF i <= Len(s) THEN s[i] ELSE rest[i - Len(s)]
      BY <3>1, ConcatProperties
    <3> QED BY <1>1, <2>1, <3>1, <3>2, <3>3
  <2>2. CASE ~(n < width)
    BY <1>1, <2>2 DEF Padded
  <2> QED BY <2>1, <2>2
<1> HIDE DEF padded
<1>3. SubSeq(padded, 1, n) = s
  <2>1. 1 \in 1..Len(padded) + 1 /\ n \in (1 - 1)..Len(padded) /\ Len(s) = n - 1 + 1
        /\ \A i \in 1..Len(s) : s[i] = padded[1 + i - 1]
    BY <1>1, <1>2
  <2>2. padded \in Seq(S) /\ s \in Seq(S)
    BY <1>2
  <2>3. s = SubSeq(padded, 1, n)
    BY <2>1, <2>2, PieceIsUnique
  <2> QED BY <2>3
<1>4. LiveBytes(padded, n) = SubSeq(padded, 1, n)
  <2>1. n <= Len(padded)
    BY <1>1, <1>2
  <2> QED BY <2>1 DEF LiveBytes
<1> QED BY <1>1, <1>2, <1>3, <1>4 DEF padded, TakeBytes, Holds

\* A reply is right when calls are stopped out of bounds and only there, and
\* answers within them are what they must be.
LEMMA RightWithinBounds ==
    ASSUME NEW fields, NEW function, NEW a, NEW v, v = Arguments(function, a),
           WellTyped(function, v) <=> InBounds(function, a),
           WellTyped(function, v) =>
               IsAnswer(fields, function, a,
                        ReadAnswer(function, a, Facade(function, v)))
    PROVE  IsRight(fields, function, a, Replies(function, a))
<1>1. Replies(function, a) =
        IF WellTyped(function, v)
        THEN [status |-> "ok", value |-> ReadAnswer(function, a, Facade(function, v))]
        ELSE LanguageError
  BY DEF Replies, Execute, Stopped, Reply
<1>2. LanguageError.status # "ok"
  BY DEF LanguageError
<1> QED BY <1>1, <1>2 DEF IsRight

-----------------------------------------------------------------------------
(* Words and facts. *)

\* A word that is asked about alone, src/language.rs.
LEMMA WordCallsAreRight ==
    ASSUME NEW fields, NEW a \in [word : Seq(Piece)],
           NEW function \in {"classify_event", "classify_object", "parse_transfer"}
    PROVE  IsRight(fields, function, a, Replies(function, a))
<1> DEFINE v == <<a.word, Len(a.word)>>
<1>1. v = Arguments(function, a)
  BY DEF Arguments
<1>2. v[1] = a.word /\ LiveBytes(v[1], v[2]) = a.word
  BY LiveIsAll
<1> HIDE DEF v
<1>3. WellTyped(function, v) <=> InBounds(function, a)
  BY <1>2 DEF WellTyped, InBounds, UpTo
<1>4. IsAnswer(fields, function, a, ReadAnswer(function, a, Facade(function, v)))
  <2>1. CASE function = "classify_event"
    BY <1>2, <2>1 DEF IsAnswer, ReadAnswer, Facade
  <2>2. CASE function = "classify_object"
    BY <1>2, <2>2 DEF IsAnswer, ReadAnswer, Facade
  <2>3. CASE function = "parse_transfer"
    BY <1>2, <2>3 DEF IsAnswer, ReadAnswer, Facade
  <2> QED BY <2>1, <2>2, <2>3
<1> QED BY <1>1, <1>3, <1>4, RightWithinBounds

\* object_spelling_matches: a word and a code.
LEMMA SpellingCallsAreRight ==
    ASSUME NEW fields, NEW a \in [word : Seq(Piece), code : Int]
    PROVE  IsRight(fields, "object_spelling_matches", a,
                   Replies("object_spelling_matches", a))
<1> DEFINE f == "object_spelling_matches"
           v == <<a.word, Len(a.word), a.code>>
<1>1. v = Arguments(f, a)
  BY DEF Arguments
<1>2. v[1] = a.word /\ LiveBytes(v[1], v[2]) = a.word /\ v[3] = a.code
  BY LiveIsAll
<1> HIDE DEF v
<1>3. WellTyped(f, v) <=> InBounds(f, a)
  BY <1>2 DEF WellTyped, InBounds, UpTo
<1>4. IsAnswer(fields, f, a, ReadAnswer(f, a, Facade(f, v)))
  BY <1>2 DEF IsAnswer, ReadAnswer, Facade
<1> HIDE DEF f
<1>5. IsRight(fields, f, a, Replies(f, a))
  BY <1>1, <1>3, <1>4, RightWithinBounds
<1> QED BY <1>5 DEF f

\* spell_equal: two words, one behind the other.
LEMMA EqualCallsAreRight ==
    ASSUME NEW fields, NEW a \in [left : Seq(Piece), right : Seq(Piece)]
    PROVE  IsRight(fields, "spell_equal", a, Replies("spell_equal", a))
<1> DEFINE f == "spell_equal"
           v == <<a.left, Len(a.left), a.right, Len(a.right)>>
<1>1. v = Arguments(f, a)
  BY DEF Arguments
<1>2. /\ v[1] = a.left /\ LiveBytes(v[1], v[2]) = a.left
      /\ v[3] = a.right /\ LiveBytes(v[3], v[4]) = a.right
  BY LiveIsAll
<1> HIDE DEF v
<1>3. WellTyped(f, v) <=> InBounds(f, a)
  BY <1>2 DEF WellTyped, InBounds, UpTo
<1>4. IsAnswer(fields, f, a, ReadAnswer(f, a, Facade(f, v)))
  BY <1>2 DEF IsAnswer, ReadAnswer, Facade, SpellEqual
<1> HIDE DEF f
<1>5. IsRight(fields, f, a, Replies(f, a))
  BY <1>1, <1>3, <1>4, RightWithinBounds
<1> QED BY <1>5 DEF f

\* A quantity crosses as a flag and a number.
LEMMA QuantityCrosses ==
    ASSUME NEW q \in Quantities
    PROVE  /\ QuantityOf(Present(q), UnwrapOrZero(q)) = q
           /\ q # << >> => q = <<q[1]>> /\ q[1] \in Int
           /\ UnwrapOrZero(q) \in Int /\ Present(q) \in BOOLEAN
<1>1. q \in Seq(Int) /\ Len(q) \in 0..1
  <2>1. q \in Seq(Int) /\ Len(q) <= 1
    BY Zenon DEF Quantities
  <2>2. PICK n \in Nat : n = Len(q)
    BY <2>1
  <2>3. n \in 0..1
    BY <2>1, <2>2
  <2> QED BY <2>1, <2>2, <2>3
<1>2. q # << >> => q = <<q[1]>> /\ q[1] \in Int
  <2> SUFFICES ASSUME q # << >> PROVE q = <<q[1]>> /\ q[1] \in Int
    OBVIOUS
  <2>1. Len(q) = 1
    BY <1>1, EmptySeq
  <2>2. q[1] \in Int
    BY <1>1, <2>1
  <2>3. <<q[1]>> \in Seq(Int) /\ Len(<<q[1]>>) = 1 /\ \A i \in 1..1 : <<q[1]>>[i] = q[i]
    BY <2>2
  <2> HIDE DEF Quantities
  <2>4. q = <<q[1]>>
    BY <1>1, <2>1, <2>3, SeqEqual
  <2> QED BY <2>2, <2>4
<1>3. CASE q = << >>
  BY <1>3 DEF QuantityOf, Present, UnwrapOrZero
<1>4. CASE q # << >>
  <2>1. QuantityOf(Present(q), UnwrapOrZero(q)) = <<q[1]>>
    BY <1>4 DEF QuantityOf, Present, UnwrapOrZero
  <2>2. UnwrapOrZero(q) = q[1] /\ Present(q) \in BOOLEAN
    BY <1>4 DEF UnwrapOrZero, Present
  <2> QED BY <1>2, <1>4, <2>1, <2>2
<1> QED BY <1>3, <1>4

\* object_status and canonical_status: the quantity that is not there crosses
\* as one that does not count.
LEMMA StatusCallsAreRight ==
    ASSUME NEW fields, NEW a \in [code : Int, quantity : Quantities],
           NEW function \in {"object_status", "canonical_status"}
    PROVE  IsRight(fields, function, a, Replies(function, a))
<1>1. CASE function = "object_status"
  <2> DEFINE v == <<a.code>>
  <2>1. v = Arguments(function, a)
    BY <1>1 DEF Arguments
  <2>2. v[1] = a.code
    OBVIOUS
  <2> HIDE DEF v
  <2>3. WellTyped(function, v) /\ InBounds(function, a)
    BY <1>1 DEF WellTyped, InBounds
  <2>4. IsAnswer(fields, function, a, ReadAnswer(function, a, Facade(function, v)))
    BY <1>1, <2>2 DEF IsAnswer, ReadAnswer, Facade
  <2> QED BY <2>1, <2>3, <2>4, RightWithinBounds
<1>2. CASE function = "canonical_status"
  <2> DEFINE v == <<a.code, Present(a.quantity)>>
  <2>1. v = Arguments(function, a)
    BY <1>2 DEF Arguments
  <2>2. v[1] = a.code /\ v[2] = Present(a.quantity)
    OBVIOUS
  <2> HIDE DEF v
  <2>3. WellTyped(function, v) /\ InBounds(function, a)
    BY <1>2 DEF WellTyped, InBounds
  <2>4. CanonicalStatus(v[1], QuantityOf(v[2], 0)) = CanonicalStatus(a.code, a.quantity)
    <3>1. QuantityOf(Present(a.quantity), 0) = << >> <=> a.quantity = << >>
      BY DEF QuantityOf, Present
    <3> QED BY <2>2, <3>1 DEF CanonicalStatus
  <2>5. IsAnswer(fields, function, a, ReadAnswer(function, a, Facade(function, v)))
    BY <1>2, <2>4 DEF IsAnswer, ReadAnswer, Facade
  <2> QED BY <2>1, <2>3, <2>5, RightWithinBounds
<1> QED BY <1>1, <1>2

\* A quantity is in range when it is not there or its number is.
LEMMA QuantityWithin ==
    ASSUME NEW q \in Quantities, NEW S
    PROVE  ToSet(q) \subseteq S <=> (q # << >> => q[1] \in S)
<1>1. CASE q = << >>
  <2>1. ToSet(q) = {}
    BY <1>1 DEF ToSet
  <2> QED BY <1>1, <2>1
<1>2. CASE q # << >>
  <2>1. PICK n \in Int : q = <<n>> /\ q[1] = n
    BY <1>2, QuantityCrosses
  <2>2. ToSet(<<n>>) = {n}
    BY DEF ToSet
  <2>3. ToSet(q) = {n}
    BY <2>1, <2>2
  <2> QED BY <1>2, <2>1, <2>3
<1> QED BY <1>1, <1>2

\* validate accepts exactly transfers that have their parts and a quantity in
\* range, or none.
LEMMA TransferCallsAreRight ==
    ASSUME NEW fields,
           NEW a \in [event : Int, source_present : BOOLEAN, target_present : BOOLEAN,
                      quantity : Quantities]
    PROVE  IsRight(fields, "validate", a, Replies("validate", a))
<1> DEFINE f == "validate"
           q == a.quantity
           v == <<a.event, a.source_present, a.target_present, Present(q), UnwrapOrZero(q)>>
<1>1. v = Arguments(f, a)
  BY DEF Arguments
<1>2. /\ v[1] = a.event /\ v[2] = a.source_present /\ v[3] = a.target_present
      /\ v[4] = Present(q) /\ v[5] = UnwrapOrZero(q)
  BY Zenon
<1>3. QuantityOf(v[4], v[5]) = q
  BY <1>2, QuantityCrosses, Zenon
<1> HIDE DEF v
<1>4. WellTyped(f, v) /\ InBounds(f, a)
  BY DEF WellTyped, InBounds
<1> DEFINE answer == ValidateStructured(a.event, a.source_present, a.target_present, q)
<1>5. ReadAnswer(f, a, Facade(f, v)) = answer
  BY <1>2, <1>3 DEF ReadAnswer, Facade
<1>6. (answer = "ok") <=> /\ a.event = EventTransfer
                          /\ a.source_present /\ a.target_present
                          /\ ToSet(q) \subseteq 0..999
  <2>1. ToSet(q) \subseteq 0..999 <=> (q # << >> => q[1] \in 0..999)
    <3> DEFINE range == 0..999
    <3>1. q \in Quantities
      OBVIOUS
    <3> HIDE DEF range, q, answer
    <3>2. ToSet(q) \subseteq range <=> (q # << >> => q[1] \in range)
      BY <3>1, QuantityWithin
    <3> QED BY <3>2, Zenon DEF range
  <2>2. (answer = "ok") <=> /\ a.event = EventTransfer
                            /\ a.source_present /\ a.target_present
                            /\ (q # << >> => q[1] \in 0..999)
    <3> DEFINE within == q[1] \in 0..999
    <3>1. answer = IF a.event # EventTransfer THEN "unsupported"
                   ELSE IF ~a.source_present \/ ~a.target_present THEN "missing_field"
                   ELSE IF q # << >> /\ ~within THEN "malformed" ELSE "ok"
      BY Zenon DEF ValidateStructured
    <3> HIDE DEF within, answer
    <3>2. (answer = "ok") <=> /\ a.event = EventTransfer
                              /\ a.source_present /\ a.target_present
                              /\ (q # << >> => within)
      BY <3>1, Zenon
    <3> QED BY <3>2, Zenon DEF within
  <2> DEFINE within == ToSet(q) \subseteq 0..999
             ranges == q # << >> => q[1] \in 0..999
  <2>3. within <=> ranges
    BY <2>1, Zenon
  <2>4. (answer = "ok") <=> /\ a.event = EventTransfer
                            /\ a.source_present /\ a.target_present /\ ranges
    BY <2>2, Zenon
  <2> HIDE DEF answer, within, ranges
  <2>5. (answer = "ok") <=> /\ a.event = EventTransfer
                            /\ a.source_present /\ a.target_present /\ within
    BY <2>3, <2>4, Zenon
  <2> QED BY <2>5, Zenon DEF within
<1> HIDE DEF answer
<1>7. IsAnswer(fields, f, a, answer)
  BY <1>6 DEF IsAnswer
<1> HIDE DEF f
<1>8. IsRight(fields, f, a, Replies(f, a))
  BY <1>1, <1>4, <1>5, <1>7, RightWithinBounds
<1> QED BY <1>8 DEF f

\* Two times four lanes.
LEMMA EightLanes ==
    ASSUME NEW S, NEW l \in Seq(S), NEW r \in Seq(S), Len(l) = 4, Len(r) = 4
    PROVE  \A i \in 1..4 : (l \o r)[i] = l[i] /\ (l \o r)[4 + i] = r[i]
<1> DEFINE v == l \o r
<1>1. \A i \in 1..Len(l) + Len(r) : v[i] = IF i <= Len(l) THEN l[i] ELSE r[i - Len(l)]
  BY ConcatProperties
<1> HIDE DEF v
<1>2. \A i \in 1..4 : v[i] = l[i]
  BY <1>1
<1>3. ASSUME NEW i \in 1..4 PROVE v[4 + i] = r[i]
  <2>1. 4 + i \in 1..8 /\ ~(4 + i <= 4) /\ 4 + i - 4 = i
    OBVIOUS
  <2> QED BY <1>1, <2>1
<1> QED BY <1>2, <1>3 DEF v

\* codes_equal: both facts cross in one row of lanes and are told apart again.
LEMMA CodesCallsAreRight ==
    ASSUME NEW fields, NEW a \in [left : CodedFacts, right : CodedFacts]
    PROVE  IsRight(fields, "codes_equal", a, Replies("codes_equal", a))
<1> DEFINE f == "codes_equal"
           l == a.left
           r == a.right
           Lane == Int \cup BOOLEAN
<1>1. /\ l.quantity \in Quantities /\ l.event \in Lane /\ l.object_code \in Lane
      /\ r.quantity \in Quantities /\ r.event \in Lane /\ r.object_code \in Lane
  BY DEF CodedFacts
<1>2. \A q \in Quantities : Present(q) \in Lane /\ UnwrapOrZero(q) \in Lane
  BY QuantityCrosses, Zenon
<1> HIDE DEF Lane
<1>3. PICK v : /\ v = CodeLanes(l) \o CodeLanes(r)
               /\ v[1] = l.event /\ v[2] = l.object_code
               /\ v[3] = Present(l.quantity) /\ v[4] = UnwrapOrZero(l.quantity)
               /\ v[5] = r.event /\ v[6] = r.object_code
               /\ v[7] = Present(r.quantity) /\ v[8] = UnwrapOrZero(r.quantity)
  <2>1. CodeLanes(l) = <<l.event, l.object_code, Present(l.quantity), UnwrapOrZero(l.quantity)>>
    BY Zenon DEF CodeLanes
  <2>2. CodeLanes(r) = <<r.event, r.object_code, Present(r.quantity), UnwrapOrZero(r.quantity)>>
    BY Zenon DEF CodeLanes
  <2> HIDE DEF l, r
  <2>3. /\ Present(l.quantity) \in Lane /\ UnwrapOrZero(l.quantity) \in Lane
        /\ Present(r.quantity) \in Lane /\ UnwrapOrZero(r.quantity) \in Lane
    BY <1>1, <1>2, Zenon
  <2>4. /\ l.event \in Lane /\ l.object_code \in Lane
        /\ r.event \in Lane /\ r.object_code \in Lane
    BY <1>1
  <2>5. /\ CodeLanes(l) \in Seq(Lane) /\ Len(CodeLanes(l)) = 4
        /\ CodeLanes(l)[1] = l.event /\ CodeLanes(l)[2] = l.object_code
        /\ CodeLanes(l)[3] = Present(l.quantity)
        /\ CodeLanes(l)[4] = UnwrapOrZero(l.quantity)
    BY <2>1, <2>3, <2>4
  <2>6. /\ CodeLanes(r) \in Seq(Lane) /\ Len(CodeLanes(r)) = 4
        /\ CodeLanes(r)[1] = r.event /\ CodeLanes(r)[2] = r.object_code
        /\ CodeLanes(r)[3] = Present(r.quantity)
        /\ CodeLanes(r)[4] = UnwrapOrZero(r.quantity)
    BY <2>2, <2>3, <2>4
  <2> DEFINE v == CodeLanes(l) \o CodeLanes(r)
  <2>7. \A i \in 1..4 : v[i] = CodeLanes(l)[i] /\ v[4 + i] = CodeLanes(r)[i]
    <3>1. PICK s \in Seq(Lane) : s = CodeLanes(l) /\ Len(s) = 4
      BY <2>5
    <3>2. PICK z \in Seq(Lane) : z = CodeLanes(r) /\ Len(z) = 4
      BY <2>6
    <3>3. \A i \in 1..4 : (s \o z)[i] = s[i] /\ (s \o z)[4 + i] = z[i]
      BY <3>1, <3>2, EightLanes
    <3> QED BY <3>1, <3>2, <3>3
  <2>8. /\ v[1] = CodeLanes(l)[1] /\ v[2] = CodeLanes(l)[2]
        /\ v[3] = CodeLanes(l)[3] /\ v[4] = CodeLanes(l)[4]
        /\ v[5] = CodeLanes(r)[1] /\ v[6] = CodeLanes(r)[2]
        /\ v[7] = CodeLanes(r)[3] /\ v[8] = CodeLanes(r)[4]
    <3> HIDE DEF v
    <3>1. 4 + 1 = 5 /\ 4 + 2 = 6 /\ 4 + 3 = 7 /\ 4 + 4 = 8
      OBVIOUS
    <3> QED BY <2>7, <3>1
  <2> QED BY <2>5, <2>6, <2>8, Zenon DEF v
<1>4. v = Arguments(f, a)
  BY <1>3 DEF Arguments
<1>5. WellTyped(f, v) /\ InBounds(f, a)
  BY DEF WellTyped, InBounds
<1>6. FactLanes(v[1], v[2], v[3], v[4])
        = [event |-> l.event, object_code |-> l.object_code, quantity |-> l.quantity]
  BY <1>1, <1>3, QuantityCrosses, Zenon DEF FactLanes
<1>7. FactLanes(v[5], v[6], v[7], v[8])
        = [event |-> r.event, object_code |-> r.object_code, quantity |-> r.quantity]
  BY <1>1, <1>3, QuantityCrosses, Zenon DEF FactLanes
<1>8. CodesEqual(FactLanes(v[1], v[2], v[3], v[4]), FactLanes(v[5], v[6], v[7], v[8]))
        = CodesEqual(l, r)
  BY <1>6, <1>7 DEF CodesEqual
<1>9. IsAnswer(fields, f, a, ReadAnswer(f, a, Facade(f, v)))
  <2>1. ReadAnswer(f, a, Facade(f, v)) = CodesEqual(l, r)
    BY <1>8 DEF ReadAnswer, Facade
  <2> QED BY <2>1 DEF IsAnswer
<1> HIDE DEF f
<1>10. IsRight(fields, f, a, Replies(f, a))
  BY <1>4, <1>5, <1>9, RightWithinBounds
<1> QED BY <1>10 DEF f

-----------------------------------------------------------------------------
(* Lines. *)

\* What is staged as 256 bytes, or stored so, is got back by its length.
LEMMA BytesBack ==
    ASSUME NEW s \in Seq(Byte)
    PROVE  /\ Len(Bytes256(s)) = IF Len(s) < CarryCap THEN CarryCap ELSE Len(s)
           /\ TakeBytes(Bytes256(s), Len(s)) = s
           /\ LiveBytes(Bytes256(s), Len(s)) = s
<1> DEFINE padded == Padded(s, CarryCap, Zero)
<1>1. Zero \in Byte /\ CarryCap \in Nat
  BY LinesAssumption DEF Zero, Byte
<1>2. /\ Len(padded) = IF Len(s) < CarryCap THEN CarryCap ELSE Len(s)
      /\ TakeBytes(padded, Len(s)) = s /\ LiveBytes(padded, Len(s)) = s
  <2>1. Holds(padded, s, CarryCap)
    BY <1>1, PaddedBack
  <2> QED BY <2>1 DEF Holds
<1>3. Bytes256(s) = padded
  BY Zenon DEF Bytes256
<1> HIDE DEF padded
<1> QED BY <1>2, <1>3

\* What the line splitter answers is a record of its four parts.
LEMMA LineOutBack ==
    ASSUME NEW out, NEW status, NEW line \in Seq(Byte), NEW held \in Seq(Byte),
           NEW consumed, out = LineOut(status, line, held, consumed)
    PROVE  ReadLineOut(StoredLine(out)) = out
<1>2. /\ TakeBytes(Bytes256(line), Len(line)) = line
      /\ TakeBytes(Bytes256(held), Len(held)) = held
  BY BytesBack
<1>3. out.status = status /\ out.line = line /\ out.carry = held /\ out.consumed = consumed
  BY DEF LineOut
<1> DEFINE stored == StoredLine(out)
<1>4. /\ stored.status = status
      /\ stored.line = Bytes256(line) /\ stored.line_len = Len(line)
      /\ stored.carry = Bytes256(held) /\ stored.carry_len = Len(held)
      /\ stored.consumed = consumed
  BY <1>3 DEF StoredLine
<1> HIDE DEF stored
<1>5. ReadLineOut(stored) = LineOut(status, line, held, consumed)
  BY <1>2, <1>4 DEF ReadLineOut
<1> QED BY <1>5 DEF stored

\* What next_line answers has the parts that are stored one by one.
LEMMA NextLineParts ==
    ASSUME NEW carry \in Seq(Byte), NEW view \in Seq(Byte), NEW eof
    PROVE  \E status, consumed : \E line, held \in Seq(Byte) :
               NextLine(carry, view, eof) = LineOut(status, line, held, consumed)
<1> DEFINE staged == carry \o view
           at == FirstNewline(staged)
           raw == SubSeq(staged, 1, at - 1)
           kept == SubSeq(staged, at + 1, at + Kept(staged, at, CarryCap))
           IsParts(out) == \E status, consumed : \E line, held \in Seq(Byte) :
                               out = LineOut(status, line, held, consumed)
<1>1. staged \in Seq(Byte) /\ << >> \in Seq(Byte)
  BY ConcatProperties, EmptySeq
<1>2. \A code : IsParts(FailLine(code, view))
  BY <1>1 DEF FailLine
<1>3. ASSUME Newlines(staged) # {} PROVE IsParts(EmitLine(carry, view))
  <2>1. PICK n \in Nat : n = Len(staged)
    BY <1>1
  <2>2. at \in 1..n
    <3>1. Newlines(staged) \in SUBSET Nat /\ Newlines(staged) \in SUBSET (1..n)
      BY <2>1 DEF Newlines
    <3>2. \E i \in Newlines(staged) : \A j \in Newlines(staged) : i <= j
      BY <1>3, <3>1, LeastNumber
    <3>3. at \in Newlines(staged)
      BY <3>2, Zenon DEF FirstNewline
    <3> QED BY <3>1, <3>3
  <2> HIDE DEF staged, at
  <2>3. raw \in Seq(Byte) /\ Len(raw) = at - 1 /\ \A i \in 1..(at - 1) : raw[i] = staged[i]
    <3>1. 1 \in 1..Len(staged) + 1 /\ at - 1 \in (1 - 1)..Len(staged)
          /\ at - 1 - 1 + 1 = at - 1 /\ \A i \in 1..(at - 1) : 1 + i - 1 = i
      BY <2>1, <2>2
    <3> QED BY <1>1, <3>1, PieceProperties
  <2>4. kept \in Seq(Byte)
    <3>1. at + 1 \in 1..Len(staged) + 1
          /\ at + Kept(staged, at, CarryCap) \in (at + 1 - 1)..Len(staged)
      BY <2>1, <2>2, LinesAssumption DEF Kept, AtMost
    <3> QED BY <1>1, <3>1, PieceProperties
  <2> HIDE DEF raw, kept
  <2>5. StripCR(raw) \in Seq(Byte)
    <3>1. CASE EndsWithCR(raw)
      <4>1. Len(raw) \in Nat \ {0}
        BY <2>3, <3>1, EmptySeq DEF EndsWithCR
      <4>2. 1 \in 1..Len(raw) + 1 /\ Len(raw) - 1 \in (1 - 1)..Len(raw)
        BY <4>1
      <4>3. SubSeq(raw, 1, Len(raw) - 1) \in Seq(Byte)
        BY <2>3, <4>2, PieceProperties
      <4> QED BY <3>1, <4>3 DEF StripCR
    <3>2. CASE ~EndsWithCR(raw)
      BY <2>3, <3>2 DEF StripCR
    <3> QED BY <3>1, <3>2
  <2>6. \/ \E code : EmitLine(carry, view) = FailLine(code, view)
        \/ EmitLine(carry, view) =
               LineOut("line", StripCR(raw), kept, Consumed(carry, view, at, CarryCap))
    BY Zenon DEF EmitLine, staged, at, raw, kept
  <2> QED BY <1>2, <2>4, <2>5, <2>6
<1>4. IsParts(EmitTail(carry, view))
  <2>1. \/ \E code : EmitTail(carry, view) = FailLine(code, view)
        \/ EmitTail(carry, view) = LineOut("complete", << >>, << >>, Len(view))
        \/ EmitTail(carry, view) = LineOut("line", staged, << >>, Len(view))
    BY Zenon DEF EmitTail
  <2> HIDE DEF staged
  <2> QED BY <1>1, <1>2, <2>1
<1>5. IsParts(Hold(carry, view))
  <2>1. \/ \E code : Hold(carry, view) = FailLine(code, view)
        \/ Hold(carry, view) = LineOut("need_more", << >>, staged, Len(view))
    BY Zenon DEF Hold
  <2> HIDE DEF staged
  <2> QED BY <1>1, <1>2, <2>1
<1>6. \/ \E code : NextLine(carry, view, eof) = FailLine(code, view)
      \/ Newlines(staged) # {} /\ NextLine(carry, view, eof) = EmitLine(carry, view)
      \/ NextLine(carry, view, eof) = EmitTail(carry, view)
      \/ NextLine(carry, view, eof) = Hold(carry, view)
  BY Zenon DEF NextLine
<1>7. IsParts(NextLine(carry, view, eof))
  <2> HIDE DEF IsParts
  <2> QED BY <1>2, <1>3, <1>4, <1>5, <1>6, Zenon
<1> QED BY <1>7

\* next_line: the carry in its buffer, the view and both answers are cut back
\* to what counts.
LEMMA LineCallsAreRight ==
    ASSUME NEW fields, NEW a \in [carry : Seq(Byte), view : Seq(Byte), eof : BOOLEAN],
           StagingFits("next_line", a)
    PROVE  IsRight(fields, "next_line", a, Replies("next_line", a))
<1> DEFINE f == "next_line"
           v == <<Bytes256(a.carry), Len(a.carry), a.view, Len(a.view), a.eof>>
<1>1. v = Arguments(f, a)
  BY DEF Arguments
<1>2. /\ v[1] = Bytes256(a.carry) /\ v[2] = Len(a.carry) /\ v[3] = a.view
      /\ v[4] = Len(a.view) /\ v[5] = a.eof
  BY Zenon
<1>3. Len(a.carry) \in Nat /\ Len(a.carry) <= CarryCap
  BY DEF StagingFits
<1>4. LiveBytes(v[1], v[2]) = a.carry /\ Exactly(v[1], CarryCap)
  <2>1. CarryCap \in Nat
    BY LinesAssumption
  <2>2. LiveBytes(Bytes256(a.carry), Len(a.carry)) = a.carry
    BY BytesBack
  <2>3. Len(Bytes256(a.carry)) = IF Len(a.carry) < CarryCap THEN CarryCap ELSE Len(a.carry)
    BY BytesBack
  <2>4. Len(Bytes256(a.carry)) = CarryCap
    BY <1>3, <2>1, <2>3
  <2> QED BY <1>2, <2>2, <2>4 DEF Exactly
<1>5. LiveBytes(v[3], v[4]) = a.view
  BY <1>2, LiveIsAll
<1> HIDE DEF v
<1>6. WellTyped(f, v) <=> InBounds(f, a)
  BY <1>2, <1>4 DEF WellTyped, InBounds, UpTo
<1> DEFINE out == NextLine(a.carry, a.view, a.eof)
<1>7. ReadAnswer(f, a, Facade(f, v)) = out
  <2>1. Facade(f, v) = StoredLine(out)
    BY <1>2, <1>4, <1>5 DEF Facade
  <2>2. PICK status, consumed : \E line, held \in Seq(Byte) :
            out = LineOut(status, line, held, consumed)
    BY NextLineParts
  <2> HIDE DEF out
  <2>3. ReadLineOut(StoredLine(out)) = out
    BY <2>2, LineOutBack
  <2> QED BY <2>1, <2>3 DEF ReadAnswer
<1>8. IsAnswer(fields, f, a, out)
  BY DEF IsAnswer
<1> HIDE DEF f, out
<1>9. IsRight(fields, f, a, Replies(f, a))
  BY <1>1, <1>6, <1>7, <1>8, RightWithinBounds
<1> QED BY <1>9 DEF f

-----------------------------------------------------------------------------
(* Fields. *)

\* A field or a refusal, as field_at makes them.
IsFieldOut(out, line) ==
    \/ \E code \in {"end", "malformed", "overlong"} : out = FailField(code)
    \/ \E value \in Seq(Byte) : \E next_start : \E more \in BOOLEAN :
           /\ out = [status |-> "field", value |-> value,
                     next_start |-> next_start, has_more |-> more]
           /\ ~more => next_start = Len(line)

\* field_at answers a field, or a refusal, and ends where the line ends.
LEMMA FieldParts ==
    ASSUME NEW line \in Seq(Byte), NEW start \in 0..Len(line)
    PROVE  IsFieldOut(FieldAt(line, start), line)
<1> DEFINE rest == RestOf(line, start)
<1>1. rest \in Seq(Byte)
  BY RestTyped
<1>2. PICK stop : EndsAt(rest, stop)
  BY <1>1, FieldsEnd
<1>3. CASE start = 0 /\ line = << >>
  <2>1. FieldAt(line, start) = FailField("end")
    BY <1>3, Zenon DEF FieldAt
  <2> QED BY <2>1 DEF IsFieldOut
<1>4. CASE ~(start = 0 /\ line = << >>)
  <2>1. \/ FieldAt(line, start) = FailField("malformed")
        \/ FieldAt(line, start) = FailField("overlong")
        \/ FieldAt(line, start) = FieldOf(rest, stop, line, start)
    BY <1>1, <1>2, <1>4, FieldAnswer
  <2>2. ValueOf(rest, stop) \in Seq(Byte)
    <3>1. stop \in 0..Len(rest)
      BY <1>2 DEF EndsAt
    <3>2. PICK run : ValueRun(run, rest, stop) /\ ValueOf(rest, stop) = run[stop]
      BY <1>1, <3>1, ValueRuns
    <3>3. stop \in 0..stop
      BY <1>1, <3>1
    <3> QED BY <3>2, <3>3 DEF ValueRun
  <2> HIDE DEF rest
  <2>3. IsFieldOut(FieldOf(rest, stop, line, start), line)
    <3> DEFINE value == ValueOf(rest, stop)
               next == IF stop = Len(rest) THEN Len(line) ELSE start + stop + 1
               more == stop # Len(rest)
    <3>1. FieldOf(rest, stop, line, start) =
              [status |-> "field", value |-> value, next_start |-> next, has_more |-> more]
      BY Zenon DEF FieldOf
    <3>2. more \in BOOLEAN /\ (~more => next = Len(line)) /\ value \in Seq(Byte)
      BY <2>2
    <3> HIDE DEF value, next, more
    <3> QED BY <3>1, <3>2, Zenon DEF IsFieldOut
  <2> QED BY <2>1, <2>3 DEF IsFieldOut
<1> QED BY <1>3, <1>4

\* What field_at answers survives being stored and read back.
LEMMA FieldOutBack ==
    ASSUME NEW out, NEW status, NEW value \in Seq(Byte), NEW next_start, NEW more,
           out = [status |-> status, value |-> value,
                  next_start |-> next_start, has_more |-> more]
    PROVE  ReadFieldOut(StoredField(out)) = out
<1> DEFINE width == FieldMax + 1
           filler == Zero
           stored == StoredField(out)
<1>1. width \in Nat /\ filler \in Byte
  BY FieldsAssumption DEF Zero, Byte
<1>2. /\ stored.status = status /\ stored.value = Padded(value, width, filler)
      /\ stored.value_len = Len(value) /\ stored.next_start = next_start
      /\ stored.has_more = more
  BY DEF StoredField
<1> HIDE DEF width, filler
<1>3. TakeBytes(Padded(value, width, filler), Len(value)) = value
  BY <1>1, PaddedBack DEF Holds
<1> HIDE DEF stored
<1>4. ReadFieldOut(stored) = [status |-> status, value |-> value,
                              next_start |-> next_start, has_more |-> more]
  BY <1>2, <1>3 DEF ReadFieldOut
<1> QED BY <1>4 DEF stored

\* field_at asked within a line that fits its buffer answers what FieldAt does.
LEMMA FieldIsReadBack ==
    ASSUME NEW line \in Seq(Byte), NEW start \in 0..Len(line)
    PROVE  ReadFieldOut(StoredField(FieldAt(line, start))) = FieldAt(line, start)
<1> DEFINE out == FieldAt(line, start)
<1>1. IsFieldOut(out, line)
  BY FieldParts
<1>2. << >> \in Seq(Byte)
  BY EmptySeq
<1> HIDE DEF out
<1>3. CASE \E code \in {"end", "malformed", "overlong"} : out = FailField(code)
  <2>1. PICK code : out = FailField(code)
    BY <1>3
  <2>2. out = [status |-> code, value |-> << >>, next_start |-> 0, has_more |-> FALSE]
    BY <2>1 DEF FailField
  <2> QED BY <1>2, <2>2, FieldOutBack DEF out
<1>4. CASE \E value \in Seq(Byte) : \E next_start, more :
               out = [status |-> "field", value |-> value,
                      next_start |-> next_start, has_more |-> more]
  <2>1. ReadFieldOut(StoredField(out)) = out
    BY <1>4, FieldOutBack
  <2> QED BY <2>1 DEF out
<1> QED BY <1>1, <1>3, <1>4 DEF IsFieldOut

-----------------------------------------------------------------------------
\* part is the fields that fields begins with.
IsBeginning(part, fields) ==
    /\ Len(fields) \in Nat /\ Len(part) \in 1..Len(fields)
    /\ \A k \in 1..Len(part) : part[k] = fields[k]

\* Layouts of one beginning have one place for each field of it.
LEMMA PlacesAgree ==
    ASSUME NEW fields, NEW part, IsBeginning(part, fields),
           NEW line, NEW at, Layout(line, at, fields, 0),
           NEW short, NEW bt, Layout(short, bt, part, 0)
    PROVE  \A k \in 1..Len(part) : bt[k] = at[k]
<1>0. PICK n \in Nat, m \in Nat \ {0} :
          /\ Len(fields) = n /\ Len(part) = m /\ m <= n
          /\ \A k \in 1..m : part[k] = fields[k]
  BY DEF IsBeginning
<1> DEFINE T == {j \in 0..m : j # 0 => bt[j] = at[j]}
<1>1. 0 \in T
  OBVIOUS
<1>2. ASSUME NEW j \in 1..m, j - 1 \in T PROVE j \in T
  <2>1. CASE j = 1
    BY <2>1 DEF Layout
  <2>2. CASE j # 1
    <3>1. PICK i \in 1..m : i = j - 1 /\ i + 1 = j /\ i < m /\ i < n /\ i \in 1..n
      BY <1>0, <2>2
    <3>2. bt[i] = at[i]
      BY <1>2, <3>1
    <3>3. at[i + 1] = at[i] + Len(EncodeField(fields[i])) + 1
      BY <1>0, <3>1 DEF Layout
    <3>4. bt[i + 1] = bt[i] + Len(EncodeField(part[i])) + 1
      BY <1>0, <3>1 DEF Layout
    <3>5. bt[i + 1] = at[i + 1]
      BY <1>0, <3>1, <3>2, <3>3, <3>4
    <3> QED BY <3>1, <3>5
  <2> QED BY <2>1, <2>2
<1>3. T \in SUBSET (0..m) /\ m \in Nat
  OBVIOUS
<1> HIDE DEF T
<1>4. T = 0..m
  BY <1>1, <1>2, <1>3, AtEveryPosition
<1>5. ASSUME NEW k \in 1..m PROVE k \in T /\ k # 0
  BY <1>4
<1> QED BY <1>0, <1>5 DEF T

\* A field begins where it was written.
LEMMA FieldStartsAt ==
    ASSUME NEW fields \in Seq(Seq(Byte)), Len(fields) # 0,
           NEW at, Layout(EncodeRecord(fields), at, fields, 0),
           NEW k \in 1..Len(fields)
    PROVE  FieldStart(fields, k) = at[k]
<1>1. PICK n \in Nat \ {0} : n = Len(fields) /\ k \in 1..n
  OBVIOUS
<1>2. CASE k = 1
  BY <1>2 DEF FieldStart, Layout
<1>3. CASE k # 1
  <2>1. PICK m \in 1..n : m = k - 1 /\ m + 1 = k /\ m < n
    BY <1>1, <1>3
  <2> DEFINE part == SubSeq(fields, 1, k - 1)
  <2>2. /\ part \in Seq(Seq(Byte)) /\ Len(part) = m
        /\ \A i \in 1..m : part[i] = fields[i]
    <3>1. 1 \in 1..Len(fields) + 1 /\ m \in (1 - 1)..Len(fields) /\ m - 1 + 1 = m
          /\ \A i \in 1..m : 1 + i - 1 = i
      BY <1>1, <2>1
    <3> QED BY <2>1, <3>1, PieceProperties
  <2>3. FieldStart(fields, k) = Len(EncodeRecord(part)) + 1
    BY <1>3 DEF FieldStart
  <2> HIDE DEF part
  <2>4. Len(part) # 0
    BY <2>1, <2>2
  <2>5. PICK bt : Layout(EncodeRecord(part), bt, part, 0)
    BY <2>2, <2>4, RecordLayout
  <2>6. \A i \in 1..n : fields[i] \in Seq(Byte)
    BY <1>1
  <2>7. bt[m] = at[m]
    <3>1. \A i \in 1..m : bt[i] = at[i]
      <4> DEFINE line == EncodeRecord(fields)
                 short == EncodeRecord(part)
      <4>1. Layout(line, at, fields, 0) /\ Layout(short, bt, part, 0)
        BY <2>5
      <4>2. IsBeginning(part, fields)
        BY <1>1, <2>1, <2>2 DEF IsBeginning
      <4> HIDE DEF line, short
      <4>3. \A i \in 1..Len(part) : bt[i] = at[i]
        BY <4>1, <4>2, PlacesAgree
      <4> QED BY <2>2, <4>3
    <3> QED BY <2>1, <3>1
  <2>8. Len(EncodeRecord(part)) = bt[m] + Len(EncodeField(part[m])) + 0
    BY <2>1, <2>2, <2>5 DEF Layout
  <2>9. at[m + 1] = at[m] + Len(EncodeField(fields[m])) + 1
    BY <1>1, <2>1 DEF Layout
  <2>10. Len(EncodeField(fields[m])) \in Nat /\ at[m] \in Nat /\ part[m] = fields[m]
    <3>1. EncodeField(fields[m]) \in Seq(Byte)
      BY <2>1, <2>6, EncodedTyped
    <3>2. EncodeRecord(fields) \in Seq(Byte)
      BY RecordLayout
    <3>3. at[m] \in 0..Len(EncodeRecord(fields))
      BY <1>1, <2>1 DEF Layout
    <3> QED BY <2>1, <2>2, <3>1, <3>2, <3>3
  <2> QED BY <2>1, <2>3, <2>7, <2>8, <2>9, <2>10
<1> QED BY <1>2, <1>3

\* Places of different fields differ.
LEMMA PlacesApart ==
    ASSUME NEW fields \in Seq(Seq(Byte)), NEW line \in Seq(Byte), NEW at,
           Layout(line, at, fields, 0),
           NEW i \in 1..Len(fields), NEW j \in 1..Len(fields), at[i] = at[j]
    PROVE  i = j
<1>1. PICK n \in Nat \ {0} : n = Len(fields) /\ i \in 1..n /\ j \in 1..n
  OBVIOUS
<1>2. \A k \in 1..n : at[k] \in Nat
  <2>1. Len(line) \in Nat
    OBVIOUS
  <2>2. at \in [1..Len(fields) -> 0..Len(line)]
    BY Zenon DEF Layout
  <2>3. at \in [1..n -> 0..Len(line)]
    BY <1>1, <2>2, Zenon
  <2> SUFFICES ASSUME NEW k \in 1..n PROVE at[k] \in Nat
    OBVIOUS
  <2>4. at[k] \in 0..Len(line)
    BY <2>3, Zenon
  <2> QED BY <2>1, <2>4
<1>3. ASSUME NEW a \in 1..n, NEW b \in 1..n, a < b PROVE at[a] < at[b]
  <2> DEFINE T == {k \in 0..n : k > a => at[a] < at[k]}
  <2>1. 0 \in T
    OBVIOUS
  <2>2. ASSUME NEW k \in 1..n, k - 1 \in T PROVE k \in T
    <3>1. CASE k > a
      <4>1. PICK h \in 1..n : h = k - 1 /\ h + 1 = k /\ h < n /\ h >= a
        BY <3>1
      <4>2. at[h + 1] = at[h] + Len(EncodeField(fields[h])) + 1
        BY <1>1, <4>1 DEF Layout
      <4>3. Len(EncodeField(fields[h])) \in Nat
        BY <1>1, EncodedTyped
      <4>4. at[a] <= at[h]
        <5>1. CASE h > a
          <6>1. at[a] < at[h]
            BY <2>2, <4>1, <5>1
          <6>2. at[a] \in Nat /\ at[h] \in Nat
            BY <1>2
          <6> QED BY <6>1, <6>2
        <5>2. CASE h = a
          <6>1. at[a] \in Nat
            BY <1>2
          <6> QED BY <5>2, <6>1
        <5> QED BY <4>1, <5>1, <5>2
      <4>5. PICK x \in Nat, y \in Nat, w \in Nat :
                x = at[a] /\ y = at[h] /\ w = Len(EncodeField(fields[h]))
        BY <1>2, <4>3
      <4>6. at[k] = y + w + 1 /\ x <= y
        BY <4>1, <4>2, <4>4, <4>5
      <4>7. at[a] < at[k]
        <5>1. x < y + w + 1
          BY <4>6
        <5>2. at[a] = x /\ at[k] = y + w + 1
          BY <4>5, <4>6
        <5> HIDE DEF T
        <5> QED BY <5>1, <5>2, Zenon
      <4> QED BY <4>7
    <3>2. CASE ~(k > a)
      BY <3>2
    <3> QED BY <3>1, <3>2
  <2>3. T \in SUBSET (0..n)
    OBVIOUS
  <2> HIDE DEF T
  <2>4. T = 0..n
    BY <2>1, <2>2, <2>3, AtEveryPosition
  <2>5. b \in T
    BY <2>4
  <2> QED BY <1>3, <2>5 DEF T
<1>4. i < j \/ j < i \/ i = j
  BY <1>1
<1>5. ~(at[i] < at[j]) /\ ~(at[j] < at[i])
  BY <1>1, <1>2
<1> QED BY <1>1, <1>3, <1>4, <1>5

\* field_at, asked where a field was written, answers that field and where the
\* next one begins: the place names one field only, and it reads back.
LEMMA FieldCallsAreRight ==
    ASSUME NEW fields \in Seq(Seq(Byte)), Len(fields) # 0, NEW k \in 1..Len(fields),
           NEW a, a = [line |-> EncodeRecord(fields), start |-> FieldStart(fields, k)],
           StagingFits("field_at", a)
    PROVE  IsRight(fields, "field_at", a, Replies("field_at", a))
<1> DEFINE f == "field_at"
           v == <<Bytes256(a.line), Len(a.line), a.start>>
<1>1. PICK line \in Seq(Byte) : line = EncodeRecord(fields)
  BY RecordLayout
<1>2. PICK at : Layout(line, at, fields, 0)
  BY <1>1, RecordLayout
<1>3. a.line = line /\ a.start = at[k] /\ \A i \in 1..Len(fields) : FieldStart(fields, i) = at[i]
  BY <1>1, <1>2, FieldStartsAt
<1>4. at[k] \in 0..Len(line)
  BY <1>2 DEF Layout
<1>5. v = Arguments(f, a)
  BY DEF Arguments
<1>6. v[1] = Bytes256(line) /\ v[2] = Len(line) /\ v[3] = at[k]
  BY <1>3
<1> HIDE DEF v
<1>7. Len(line) \in Nat /\ Len(line) <= CarryCap
  BY <1>3 DEF StagingFits
<1>8. LiveBytes(v[1], v[2]) = line /\ Exactly(v[1], CarryCap)
  <2>1. CarryCap \in Nat
    BY LinesAssumption
  <2>2. LiveBytes(Bytes256(line), Len(line)) = line
    BY BytesBack
  <2>3. Len(Bytes256(line)) = IF Len(line) < CarryCap THEN CarryCap ELSE Len(line)
    BY BytesBack
  <2>4. Len(Bytes256(line)) = CarryCap
    BY <1>7, <2>1, <2>3
  <2> QED BY <1>6, <2>2, <2>4 DEF Exactly
<1>9. WellTyped(f, v) /\ InBounds(f, a)
  BY <1>8 DEF WellTyped, InBounds
<1> DEFINE out == FieldAt(line, at[k])
<1>10. ReadAnswer(f, a, Facade(f, v)) = out
  <2>1. Facade(f, v) = StoredField(out)
    BY <1>6, <1>8 DEF Facade
  <2> HIDE DEF out
  <2>2. ReadFieldOut(StoredField(out)) = out
    BY <1>4, FieldIsReadBack DEF out
  <2> QED BY <2>1, <2>2 DEF ReadAnswer
<1>11. (CHOOSE n \in 1..Len(fields) : FieldStart(fields, n) = a.start) = k
  <2>1. ASSUME NEW n \in 1..Len(fields), FieldStart(fields, n) = a.start PROVE n = k
    <3>1. at[n] = at[k]
      BY <1>3, <2>1
    <3>2. Layout(line, at, fields, 0)
      BY <1>2
    <3> QED BY <3>1, <3>2, PlacesApart, Zenon
  <2>2. FieldStart(fields, k) = a.start
    BY <1>3
  <2> QED BY <2>1, <2>2
<1>12. IsFieldAt(fields, out, a)
  <2> DEFINE sought == [status |-> "field", value |-> fields[k],
                        next_start |-> IF k < Len(fields)
                                       THEN FieldStart(fields, k + 1) ELSE Len(a.line),
                        has_more |-> k < Len(fields)]
  <2>1. ASSUME AllPrintable(fields), Len(fields[k]) <= FieldMax
        PROVE  IF fields = << << >> >> THEN out.status = "end" ELSE out = sought
    <3>1. CASE fields = << << >> >>
      <4>1. line = << >>
        BY <1>1, <3>1, EmptyRecord
      <4>2. Len(line) = 0
        BY <4>1
      <4>3. at[k] = 0
        BY <1>4, <4>2
      <4>4. out = FailField("end")
        BY <4>1, <4>3, Zenon DEF FieldAt
      <4>5. out.status = "end"
        BY <4>4 DEF FailField
      <4> HIDE DEF out, sought
      <4> QED BY <3>1, <4>5
    <3>2. CASE fields # << << >> >>
      <4>1. line # << >>
        BY <1>1, <3>2, EmptyRecord
      <4>2. ~HasBadByte(fields[k]) /\ ~TooLong(fields[k])
        <5>1. ~HasBadByte(fields[k])
          BY <2>1 DEF AllPrintable, HasBadByte, IsBadByte
        <5>2. Len(fields[k]) \in Nat
          OBVIOUS
        <5>3. ~TooLong(fields[k])
          BY <2>1, <5>2, FieldsAssumption DEF TooLong
        <5> QED BY <5>1, <5>3
      <4>3. IsFieldOf(out, at, fields, k)
        <5>1. PICK t : t = 0
          OBVIOUS
        <5>2. Layout(line, at, fields, t) /\ ~(t = 1 /\ k = Len(fields))
          BY <1>2, <5>1
        <5> QED BY <4>1, <4>2, <5>2, WrittenField
      <4>4. IsFieldOut(out, line)
        BY <1>4, FieldParts
      <4> HIDE DEF out
      <4>5. out.status = "field"
        BY <4>3 DEF IsFieldOf
      <4>6. PICK value \in Seq(Byte) : \E next_start : \E more \in BOOLEAN :
                /\ out = [status |-> "field", value |-> value,
                          next_start |-> next_start, has_more |-> more]
                /\ ~more => next_start = Len(line)
        <5>1. \A code \in {"end", "malformed", "overlong"} : out # FailField(code)
          <6> SUFFICES ASSUME NEW code \in {"end", "malformed", "overlong"},
                              out = FailField(code)
                       PROVE  FALSE
            OBVIOUS
          <6>1. out.status = code
            BY DEF FailField
          <6> QED BY <4>5, <6>1
        <5> QED BY <4>4, <5>1, Zenon DEF IsFieldOut
      <4>61. PICK next_start : \E more \in BOOLEAN :
                /\ out = [status |-> "field", value |-> value,
                          next_start |-> next_start, has_more |-> more]
                /\ ~more => next_start = Len(line)
        BY <4>6, Zenon
      <4>62. PICK more \in BOOLEAN :
                /\ out = [status |-> "field", value |-> value,
                          next_start |-> next_start, has_more |-> more]
                /\ ~more => next_start = Len(line)
        BY <4>61, Zenon
      <4>7. out.value = value /\ out.next_start = next_start /\ out.has_more = more
        BY <4>62
      <4>8. value = fields[k] /\ more = (k < Len(fields))
            /\ (k < Len(fields) => next_start = at[k + 1])
        BY <4>3, <4>7 DEF IsFieldOf
      <4>9. next_start = IF k < Len(fields) THEN FieldStart(fields, k + 1) ELSE Len(a.line)
        <5>1. CASE k < Len(fields)
          <6>1. k + 1 \in 1..Len(fields)
            BY <5>1
          <6> QED BY <1>3, <4>8, <5>1, <6>1
        <5>2. CASE ~(k < Len(fields))
          BY <1>3, <4>62, <4>8, <5>2
        <5> QED BY <5>1, <5>2
      <4>10. out = sought
        BY <4>62, <4>8, <4>9, Zenon
      <4> HIDE DEF sought
      <4> QED BY <3>2, <4>10
    <3> QED BY <3>1, <3>2
  <2> HIDE DEF out
  <2> QED BY <1>11, <2>1, Zenon DEF IsFieldAt
<1>13. IsAnswer(fields, f, a, out)
  <2> HIDE DEF out
  <2> QED BY <1>12 DEF IsAnswer
<1> HIDE DEF f, out
<1>14. IsRight(fields, f, a, Replies(f, a))
  BY <1>5, <1>9, <1>10, <1>13, RightWithinBounds
<1> QED BY <1>14 DEF f

-----------------------------------------------------------------------------
(* Order. *)

Rows == [1..Lanes -> Nat]

\* One move of an insertion: lanes k and k + 1 of c live ones change places.
Moved(row, c, k) ==
    IF k \in 1..(c - 1) /\ row[k + 1] < row[k] THEN SwapLanes(row, k) ELSE row

\* The row of an insertion after each move.
MovesOf(run, row, c, at) ==
    /\ run \in [0..Lanes -> Rows] /\ run[0] = row
    /\ \A j \in 1..Lanes : run[j] = Moved(run[j - 1], c, at - (j - 1))

\* A move keeps lanes to numbers.
LEMMA MovedTyped ==
    ASSUME NEW row \in Rows, NEW c \in 0..Lanes, NEW k
    PROVE  Moved(row, c, k) \in Rows
<1>1. CASE k \in 1..(c - 1) /\ row[k + 1] < row[k]
  <2>1. k \in 1..Lanes /\ k + 1 \in 1..Lanes
    BY <1>1, OrderingAssumption
  <2>2. row[k] \in Nat /\ row[k + 1] \in Nat
    BY <2>1 DEF Rows
  <2>3. [row EXCEPT ![k] = row[k + 1], ![k + 1] = row[k]] \in [1..Lanes -> Nat]
    BY <2>1, <2>2 DEF Rows
  <2>4. Moved(row, c, k) = SwapLanes(row, k)
    BY <1>1, Zenon DEF Moved
  <2> QED BY <2>3, <2>4, Zenon DEF SwapLanes, Rows
<1>2. CASE ~(k \in 1..(c - 1) /\ row[k + 1] < row[k])
  BY <1>2, Zenon DEF Moved
<1> QED BY <1>1, <1>2

\* One insertion is a run of moves, from its place down to the first lane.
LEMMA StepMoves ==
    ASSUME NEW row \in Rows, NEW count \in Nat, NEW at \in 0..(Lanes - 1)
    PROVE  \E run : /\ MovesOf(run, row, LiveLanes(count), at)
                    /\ SortStep(row, count, at) = run[Lanes]
<1> DEFINE c == LiveLanes(count)
           places == [i \in DOMAIN row |-> i]
           Recurs(f, n) ==
               f = [T \in SUBSET (1..n) |->
                       IF T = {} THEN row
                       ELSE Moved(f[T \ {Max(T)}], c, at - (places[Max(T)] - 1))]
           V == Rows
           base == row
           step == [i \in 1..Lanes |-> [v \in V |-> Moved(v, c, at - (i - 1))]]
<1>1. Lanes \in Nat /\ c \in 0..Lanes
  BY OrderingAssumption DEF LiveLanes
<1>2. DOMAIN row = 1..Lanes
  BY DEF Rows
<1>3. DOMAIN places = 1..Lanes /\ \A i \in 1..Lanes : places[i] = i
  BY <1>2
<1>4. SortStep(row, count, at) = (CHOOSE f : Recurs(f, Lanes))[1..Lanes]
  <2>1. SortStep(row, count, at) =
            FoldLeft(LAMBDA v, j : Moved(v, c, at - (j - 1)), row, places)
    BY DEF SortStep, FoldLeftDomain, Moved
  <2> HIDE DEF places, c
  <2> QED BY <1>3, <2>1 DEF FoldLeft, MapThenFoldSet
<1> HIDE DEF c
<1>5. base \in V /\ \A i \in 1..Lanes : \A v \in V :
          /\ step[i][v] = Moved(v, c, at - (i - 1))
          /\ step[i][v] \in V
  BY <1>1, MovedTyped
<1> HIDE DEF places, step
<1>6. PICK f : FoldOf(f, Lanes, V, base, step)
  <2> HIDE DEF V, base
  <2> QED BY <1>1, <1>5, SetRecursion
<1>7. \E h : Recurs(h, Lanes)
  <2>1. ASSUME NEW T \in SUBSET (1..Lanes), T # {}
        PROVE  step[Max(T)][f[T \ {Max(T)}]]
                 = Moved(f[T \ {Max(T)}], c, at - (places[Max(T)] - 1))
    <3>1. Max(T) \in 1..Lanes /\ f[T \ {Max(T)}] \in V
      BY <1>1, <1>6, <2>1, MaxOfPositions DEF FoldOf
    <3> HIDE DEF V
    <3> QED BY <1>3, <1>5, <3>1
  <2>2. Recurs(f, Lanes)
    BY <1>6, <2>1 DEF FoldOf
  <2> QED BY <2>2
<1>8. PICK g : Recurs(g, Lanes) /\ SortStep(row, count, at) = g[1..Lanes]
  <2> HIDE DEF Recurs
  <2> QED BY <1>4, <1>7
<1>9. FoldsIn(g, Lanes, V, base, step)
  <2>1. ASSUME NEW T \in (SUBSET (1..Lanes)) \ {{}}, g[T \ {Max(T)}] \in V
        PROVE  g[T] = step[Max(T)][g[T \ {Max(T)}]]
    <3>1. Max(T) \in 1..Lanes
      BY <1>1, MaxOfPositions
    <3>2. g[T] = Moved(g[T \ {Max(T)}], c, at - (places[Max(T)] - 1))
      BY <1>8
    <3> HIDE DEF V
    <3> QED BY <1>3, <1>5, <2>1, <3>1, <3>2
  <2>2. g[{}] = base
    BY <1>8
  <2> HIDE DEF V, base
  <2> QED BY <2>1, <2>2 DEF FoldsIn
<1> HIDE DEF Recurs
<1>10. PICK run \in [0..Lanes -> V] :
           /\ run[0] = base /\ g[1..Lanes] = run[Lanes]
           /\ \A i \in 1..Lanes : run[i] = step[i][run[i - 1]]
  <2> HIDE DEF V, base
  <2> QED BY <1>1, <1>5, <1>9, FoldRuns
<1>11. ASSUME NEW i \in 1..Lanes
       PROVE  run[i] = Moved(run[i - 1], c, at - (i - 1))
  <2>1. run[i - 1] \in V
    BY <1>1
  <2> QED BY <1>5, <1>10, <2>1
<1>12. MovesOf(run, row, c, at)
  BY <1>10, <1>11 DEF MovesOf
<1> QED BY <1>8, <1>10, <1>12 DEF c

\* The row after each lane was inserted.
InsertsOf(run, row, count) ==
    /\ run \in [0..Lanes -> Rows] /\ run[0] = row
    /\ \A i \in 1..Lanes : run[i] = SortStep(run[i - 1], count, i - 1)

\* An insertion keeps lanes to numbers.
LEMMA StepTyped ==
    ASSUME NEW row \in Rows, NEW count \in Nat, NEW at \in 0..(Lanes - 1)
    PROVE  SortStep(row, count, at) \in Rows
<1>1. PICK run : /\ MovesOf(run, row, LiveLanes(count), at)
                 /\ SortStep(row, count, at) = run[Lanes]
  BY StepMoves
<1>2. Lanes \in 0..Lanes
  BY OrderingAssumption
<1> QED BY <1>1, <1>2 DEF MovesOf

\* Sorting is a run of insertions, from the first lane up to the last.
LEMMA SortInserts ==
    ASSUME NEW row \in Rows, NEW count \in Nat
    PROVE  \E run : InsertsOf(run, row, count) /\ SortCodes(row, count) = run[Lanes]
<1> DEFINE places == [i \in DOMAIN row |-> i]
           Recurs(f, n) ==
               f = [T \in SUBSET (1..n) |->
                       IF T = {} THEN row
                       ELSE SortStep(f[T \ {Max(T)}], count, places[Max(T)] - 1)]
           V == Rows
           base == row
           step == [i \in 1..Lanes |-> [v \in V |-> SortStep(v, count, i - 1)]]
<1>1. Lanes \in Nat
  BY OrderingAssumption
<1>2. DOMAIN row = 1..Lanes
  BY DEF Rows
<1>3. DOMAIN places = 1..Lanes /\ \A i \in 1..Lanes : places[i] = i
  BY <1>2
<1>4. SortCodes(row, count) = (CHOOSE f : Recurs(f, Lanes))[1..Lanes]
  <2>1. SortCodes(row, count) =
            FoldLeft(LAMBDA v, j : SortStep(v, count, j - 1), row, places)
    BY DEF SortCodes, FoldLeftDomain
  <2> HIDE DEF places
  <2> QED BY <1>3, <2>1 DEF FoldLeft, MapThenFoldSet
<1>5. base \in V /\ \A i \in 1..Lanes : \A v \in V :
          /\ step[i][v] = SortStep(v, count, i - 1)
          /\ step[i][v] \in V
  <2>1. ASSUME NEW i \in 1..Lanes, NEW v \in V PROVE SortStep(v, count, i - 1) \in V
    <3>1. i - 1 \in 0..(Lanes - 1)
      BY <1>1
    <3> QED BY <3>1, StepTyped
  <2> QED BY <2>1
<1> HIDE DEF places, step
<1>6. PICK f : FoldOf(f, Lanes, V, base, step)
  <2> HIDE DEF V, base
  <2> QED BY <1>1, <1>5, SetRecursion
<1>7. \E h : Recurs(h, Lanes)
  <2>1. ASSUME NEW T \in SUBSET (1..Lanes), T # {}
        PROVE  step[Max(T)][f[T \ {Max(T)}]]
                 = SortStep(f[T \ {Max(T)}], count, places[Max(T)] - 1)
    <3>1. Max(T) \in 1..Lanes /\ f[T \ {Max(T)}] \in V
      BY <1>1, <1>6, <2>1, MaxOfPositions DEF FoldOf
    <3> HIDE DEF V
    <3> QED BY <1>3, <1>5, <3>1
  <2>2. Recurs(f, Lanes)
    BY <1>6, <2>1 DEF FoldOf
  <2> QED BY <2>2
<1>8. PICK g : Recurs(g, Lanes) /\ SortCodes(row, count) = g[1..Lanes]
  <2> HIDE DEF Recurs
  <2> QED BY <1>4, <1>7
<1>9. FoldsIn(g, Lanes, V, base, step)
  <2>1. ASSUME NEW T \in (SUBSET (1..Lanes)) \ {{}}, g[T \ {Max(T)}] \in V
        PROVE  g[T] = step[Max(T)][g[T \ {Max(T)}]]
    <3>1. Max(T) \in 1..Lanes
      BY <1>1, MaxOfPositions
    <3>2. g[T] = SortStep(g[T \ {Max(T)}], count, places[Max(T)] - 1)
      BY <1>8
    <3> HIDE DEF V
    <3> QED BY <1>3, <1>5, <2>1, <3>1, <3>2
  <2>2. g[{}] = base
    BY <1>8
  <2> HIDE DEF V, base
  <2> QED BY <2>1, <2>2 DEF FoldsIn
<1> HIDE DEF Recurs
<1>10. PICK run \in [0..Lanes -> V] :
           /\ run[0] = base /\ g[1..Lanes] = run[Lanes]
           /\ \A i \in 1..Lanes : run[i] = step[i][run[i - 1]]
  <2> HIDE DEF V, base
  <2> QED BY <1>1, <1>5, <1>9, FoldRuns
<1>11. ASSUME NEW i \in 1..Lanes
       PROVE  run[i] = SortStep(run[i - 1], count, i - 1)
  <2>1. run[i - 1] \in V
    BY <1>1
  <2> QED BY <1>5, <1>10, <2>1
<1>12. InsertsOf(run, row, count)
  BY <1>10, <1>11 DEF InsertsOf
<1> QED BY <1>8, <1>10, <1>12

\* What lanes hold after two of them change places.
LEMMA SwapValues ==
    ASSUME NEW row \in Rows, NEW k \in 1..(Lanes - 1)
    PROVE  /\ SwapLanes(row, k) \in Rows
           /\ \A i \in 1..Lanes :
                  SwapLanes(row, k)[i] = IF i = k THEN row[k + 1]
                                         ELSE IF i = k + 1 THEN row[k] ELSE row[i]
<1>1. k \in 1..Lanes /\ k + 1 \in 1..Lanes /\ k # k + 1
  BY OrderingAssumption
<1>2. row[k] \in Nat /\ row[k + 1] \in Nat
  BY <1>1 DEF Rows
<1> QED BY <1>1, <1>2 DEF SwapLanes, Rows

-----------------------------------------------------------------------------
(* Moves keep what lanes hold. *)

LanesWith(row, c, x) == {i \in 1..c : row[i] = x}

\* x is in as many lanes of one row as of the other.
SameLanes(row, next, c) ==
    \A x : Cardinality(LanesWith(row, c, x)) = Cardinality(LanesWith(next, c, x))

\* There are finitely many lanes.
LEMMA LanesAreFinite ==
    ASSUME NEW row, NEW c \in Nat, NEW x
    PROVE  IsFiniteSet(LanesWith(row, c, x))
<1>1. IsFiniteSet(1..c)
  BY FS_Interval
<1>2. LanesWith(row, c, x) \in SUBSET (1..c)
  BY DEF LanesWith
<1> QED BY <1>1, <1>2, FS_Subset

\* A move loses and doubles nothing: each value is held by as many live lanes
\* as before, and lanes behind them are left alone.
LEMMA MovedKeeps ==
    ASSUME NEW row \in Rows, NEW c \in 0..Lanes, NEW k
    PROVE  SameLanes(row, Moved(row, c, k), c)
<1> SUFFICES ASSUME NEW x
             PROVE  Cardinality(LanesWith(row, c, x))
                        = Cardinality(LanesWith(Moved(row, c, k), c, x))
  BY DEF SameLanes
<1>1. CASE k \in 1..(c - 1) /\ row[k + 1] < row[k]
  <2> DEFINE next == SwapLanes(row, k)
             S == LanesWith(row, c, x)
             T == LanesWith(next, c, x)
             other(i) == IF i = k THEN k + 1 ELSE IF i = k + 1 THEN k ELSE i
             f == [i \in S |-> other(i)]
  <2>1. /\ c \in Nat /\ Lanes \in Nat /\ c <= Lanes /\ k \in 1..(Lanes - 1)
        /\ k \in 1..c /\ k + 1 \in 1..c
    BY <1>1, OrderingAssumption
  <2>2. Moved(row, c, k) = next
    BY <1>1, Zenon DEF Moved
  <2>3. \A i \in 1..c : next[i] = IF i = k THEN row[k + 1]
                                  ELSE IF i = k + 1 THEN row[k] ELSE row[i]
    <3>1. \A i \in 1..Lanes : next[i] = IF i = k THEN row[k + 1]
                                  ELSE IF i = k + 1 THEN row[k] ELSE row[i]
      BY <2>1, SwapValues
    <3>2. \A i \in 1..c : i \in 1..Lanes
      BY <2>1
    <3> QED BY <3>1, <3>2, Zenon
  <2> HIDE DEF next
  <2>4. \A i \in 1..c : /\ other(i) \in 1..c /\ other(other(i)) = i
                        /\ next[other(i)] = row[i]
    <3> SUFFICES ASSUME NEW i \in 1..c
                 PROVE  /\ other(i) \in 1..c /\ other(other(i)) = i
                        /\ next[other(i)] = row[i]
      OBVIOUS
    <3>1. CASE i = k
      BY <2>1, <2>3, <3>1
    <3>2. CASE i = k + 1
      BY <2>1, <2>3, <3>2
    <3>3. CASE i # k /\ i # k + 1
      BY <2>1, <2>3, <3>3
    <3> QED BY <3>1, <3>2, <3>3
  <2> HIDE DEF other
  <2>5. \A i \in S : i \in 1..c /\ row[i] = x
    BY DEF LanesWith
  <2>6. \A i \in 1..c : next[i] = x => i \in T
    BY DEF LanesWith
  <2>7. \A i \in 1..c : row[i] = x => i \in S
    BY DEF LanesWith
  <2>8. \A i \in T : i \in 1..c /\ next[i] = x
    BY DEF LanesWith
  <2>9. IsFiniteSet(S)
    BY <2>1, LanesAreFinite
  <2> HIDE DEF S, T
  <2>10. f \in [S -> T]
    BY <2>4, <2>5, <2>6
  <2>11. \A a, b \in S : f[a] = f[b] => a = b
    <3> SUFFICES ASSUME NEW a \in S, NEW b \in S, f[a] = f[b] PROVE a = b
      OBVIOUS
    <3>1. other(a) = other(b)
      OBVIOUS
    <3>2. other(other(a)) = a /\ other(other(b)) = b
      BY <2>4, <2>5
    <3> QED BY <3>1, <3>2, Zenon
  <2>12. \A t \in T : \E s \in S : f[s] = t
    <3> SUFFICES ASSUME NEW t \in T PROVE \E s \in S : f[s] = t
      OBVIOUS
    <3>1. t \in 1..c /\ next[t] = x /\ other(t) \in 1..c /\ other(other(t)) = t
      BY <2>4, <2>8
    <3>2. row[other(t)] = x
      BY <2>4, <3>1
    <3>3. other(t) \in S
      BY <2>7, <3>1, <3>2
    <3>4. f[other(t)] = t
      BY <3>1, <3>3
    <3> QED BY <3>3, <3>4
  <2> HIDE DEF f
  <2>13. f \in Bijection(S, T)
    BY <2>10, <2>11, <2>12, Fun_IsBij
  <2>14. ExistsBijection(S, T)
    BY <2>13 DEF ExistsBijection
  <2> QED BY <2>2, <2>9, <2>14, FS_Bijection DEF S, T
<1>2. CASE ~(k \in 1..(c - 1) /\ row[k + 1] < row[k])
  BY <1>2, Zenon DEF Moved
<1> QED BY <1>1, <1>2

\* Nor does an insertion.
LEMMA StepKeeps ==
    ASSUME NEW row \in Rows, NEW count \in Nat, NEW at \in 0..(Lanes - 1)
    PROVE  SameLanes(row, SortStep(row, count, at), LiveLanes(count))
<1>1. PICK c \in 0..Lanes : c = LiveLanes(count)
  BY OrderingAssumption DEF LiveLanes
<1>2. PICK run : MovesOf(run, row, c, at) /\ SortStep(row, count, at) = run[Lanes]
  BY <1>1, StepMoves
<1> DEFINE T == {j \in 0..Lanes : SameLanes(row, run[j], c)}
<1>3. run[0] = row /\ \A j \in 1..Lanes : run[j] = Moved(run[j - 1], c, at - (j - 1))
  BY <1>2, Zenon DEF MovesOf
<1>4. \A j \in 0..Lanes : run[j] \in Rows
  BY <1>2 DEF MovesOf
<1>5. Lanes \in Nat
  BY OrderingAssumption
<1>6. 0 \in T
  BY <1>3, <1>5 DEF SameLanes
<1>7. ASSUME NEW j \in 1..Lanes, j - 1 \in T PROVE j \in T
  <2>1. SameLanes(row, run[j - 1], c)
    BY <1>7
  <2>2. run[j - 1] \in Rows
    BY <1>4, <1>5
  <2>3. SameLanes(run[j - 1], run[j], c)
    BY <1>3, <2>2, MovedKeeps
  <2>4. SameLanes(row, run[j], c)
    BY <2>1, <2>3, Zenon DEF SameLanes
  <2> QED BY <1>5, <2>4
<1>8. T \in SUBSET (0..Lanes)
  OBVIOUS
<1> HIDE DEF T
<1>9. T = 0..Lanes
  BY <1>5, <1>6, <1>7, <1>8, AtEveryPosition
<1>10. Lanes \in T
  BY <1>5, <1>9
<1> QED BY <1>1, <1>2, <1>10 DEF T

\* Nor does sorting.
LEMMA SortKeeps ==
    ASSUME NEW row \in Rows, NEW count \in Nat
    PROVE  SortCodes(row, count) \in Rows
           /\ SameLanes(row, SortCodes(row, count), LiveLanes(count))
<1>1. PICK run : InsertsOf(run, row, count) /\ SortCodes(row, count) = run[Lanes]
  BY SortInserts
<1> DEFINE c == LiveLanes(count)
           T == {j \in 0..Lanes : SameLanes(row, run[j], c)}
<1>3. run[0] = row /\ \A j \in 1..Lanes : run[j] = SortStep(run[j - 1], count, j - 1)
  BY <1>1, Zenon DEF InsertsOf
<1>4. \A j \in 0..Lanes : run[j] \in Rows
  BY <1>1 DEF InsertsOf
<1>5. Lanes \in Nat
  BY OrderingAssumption
<1>6. 0 \in T
  BY <1>3, <1>5 DEF SameLanes
<1>7. ASSUME NEW j \in 1..Lanes, j - 1 \in T PROVE j \in T
  <2>1. SameLanes(row, run[j - 1], c)
    BY <1>7
  <2>2. run[j - 1] \in Rows /\ j - 1 \in 0..(Lanes - 1)
    BY <1>4, <1>5
  <2>3. SameLanes(run[j - 1], run[j], c)
    BY <1>3, <2>2, StepKeeps
  <2>4. SameLanes(row, run[j], c)
    BY <2>1, <2>3, Zenon DEF SameLanes
  <2> QED BY <1>5, <2>4
<1>8. T \in SUBSET (0..Lanes)
  OBVIOUS
<1> HIDE DEF T, c
<1>9. T = 0..Lanes
  BY <1>5, <1>6, <1>7, <1>8, AtEveryPosition
<1>10. Lanes \in T /\ Lanes \in 0..Lanes
  BY <1>5, <1>9
<1>11. SameLanes(row, run[Lanes], c)
  BY <1>10 DEF T
<1> QED BY <1>1, <1>4, <1>10, <1>11 DEF c

-----------------------------------------------------------------------------
(* Moves order. *)

\* The first m lanes are in order but for what is left of the moving code,
\* which is in lane q.
OrderedBut(row, q, m) ==
    \A a, b \in 1..m : a < b /\ b # q => row[a] <= row[b]

\* The first m lanes are in order.
Ordered(row, m) == \A a, b \in 1..m : a < b => row[a] <= row[b]

\* A move puts in order all but the one place the inserted value still has to
\* pass.
LEMMA MovedOrders ==
    ASSUME NEW row \in Rows, NEW c \in 0..Lanes, NEW m \in 0..c, NEW q \in Int, q <= m,
           OrderedBut(row, q, m)
    PROVE  OrderedBut(Moved(row, c, q - 1), q - 1, m)
<1>0. Lanes \in Nat /\ c \in Nat /\ m \in Nat /\ c <= Lanes /\ m <= c
  BY OrderingAssumption
<1>1. CASE q - 1 \in 1..(c - 1) /\ row[q - 1 + 1] < row[q - 1]
  <2> DEFINE next == SwapLanes(row, q - 1)
  <2>1. Moved(row, c, q - 1) = next
    BY <1>1, Zenon DEF Moved
  <2>2. q - 1 \in 1..(Lanes - 1) /\ q - 1 + 1 = q /\ q \in 1..Lanes
    BY <1>0, <1>1
  <2>3. \A i \in 1..Lanes : next[i] = IF i = q - 1 THEN row[q]
                                      ELSE IF i = q THEN row[q - 1] ELSE row[i]
    BY <2>2, SwapValues
  <2> HIDE DEF next
  <2>4. \A i \in 1..Lanes : row[i] \in Nat
    BY DEF Rows
  <2>5. row[q] < row[q - 1]
    BY <1>1, <2>2
  <2>6. ASSUME NEW a \in 1..m, NEW b \in 1..m, a < b, b # q - 1
        PROVE  next[a] <= next[b]
    <3>1. a \in 1..Lanes /\ b \in 1..Lanes /\ q - 1 \in 1..Lanes /\ q \in 1..Lanes
          /\ q - 1 \in 1..m /\ q \in 1..m
      BY <1>0, <2>2
    <3>2. \A x, y \in 1..m : x < y /\ y # q => row[x] <= row[y]
      BY DEF OrderedBut
    <3>3. /\ row[a] \in Nat /\ row[b] \in Nat /\ row[q] \in Nat /\ row[q - 1] \in Nat
      BY <2>4, <3>1
    <3>4. CASE b = q /\ a = q - 1
      BY <2>3, <2>5, <3>1, <3>3, <3>4
    <3>5. CASE b = q /\ a # q - 1
      <4>1. row[a] <= row[q - 1]
        BY <2>6, <3>1, <3>2, <3>5
      <4> QED BY <2>3, <2>6, <3>1, <3>5, <4>1
    <3>6. CASE b # q /\ a = q
      <4>1. q - 1 < b
        BY <2>6, <3>6
      <4>2. row[q - 1] <= row[b]
        BY <3>1, <3>2, <3>6, <4>1
      <4>3. next[a] = row[q - 1]
        BY <2>2, <2>3, <3>1, <3>6
      <4>4. next[b] = row[b]
        BY <2>3, <2>6, <3>1, <3>6
      <4> QED BY <4>2, <4>3, <4>4
    <3>7. CASE b # q /\ a = q - 1
      <4>1. q < b
        BY <2>6, <3>7
      <4>2. row[q] <= row[b]
        BY <3>1, <3>2, <3>7, <4>1
      <4>3. next[a] = row[q]
        BY <2>3, <3>1, <3>7
      <4>4. next[b] = row[b]
        BY <2>3, <2>6, <3>1, <3>7
      <4> QED BY <4>2, <4>3, <4>4
    <3>8. CASE b # q /\ a # q /\ a # q - 1
      <4>1. row[a] <= row[b]
        BY <2>6, <3>2, <3>8
      <4>2. next[a] = row[a] /\ next[b] = row[b]
        BY <2>3, <2>6, <3>1, <3>8
      <4> QED BY <4>1, <4>2
    <3> QED BY <3>4, <3>5, <3>6, <3>7, <3>8
  <2> QED BY <2>1, <2>6 DEF OrderedBut
<1>2. CASE ~(q - 1 \in 1..(c - 1) /\ row[q - 1 + 1] < row[q - 1])
  <2>1. Moved(row, c, q - 1) = row
    BY <1>2, Zenon DEF Moved
  <2>2. ASSUME NEW a \in 1..m, NEW b \in 1..m, a < b, b # q - 1
        PROVE  row[a] <= row[b]
    <3>1. \A x, y \in 1..m : x < y /\ y # q => row[x] <= row[y]
      BY DEF OrderedBut
    <3>2. CASE b # q
      BY <2>2, <3>1, <3>2
    <3>3. CASE b = q
      <4>1. q - 1 \in 1..m /\ q - 1 \in 1..(c - 1) /\ q - 1 + 1 = q
        BY <1>0, <2>2, <3>3
      <4>2. ~(row[q] < row[q - 1])
        BY <1>2, <4>1
      <4>3. row[q] \in Nat /\ row[q - 1] \in Nat /\ row[a] \in Nat
        <5>1. q \in 1..Lanes /\ q - 1 \in 1..Lanes /\ a \in 1..Lanes
          BY <1>0, <3>3, <4>1
        <5> QED BY <5>1 DEF Rows
      <4>4. CASE a = q - 1
        BY <3>3, <4>2, <4>3, <4>4
      <4>5. CASE a # q - 1
        <5>1. a < q - 1 /\ q - 1 # q
          BY <2>2, <3>3, <4>5
        <5>2. row[a] <= row[q - 1]
          BY <3>1, <4>1, <5>1
        <5> QED BY <3>3, <4>2, <4>3, <5>2
      <4> QED BY <4>4, <4>5
    <3> QED BY <3>2, <3>3
  <2> QED BY <2>1, <2>2 DEF OrderedBut
<1> QED BY <1>1, <1>2

\* An insertion within the live lanes leaves one more of them in order.
LEMMA StepOrders ==
    ASSUME NEW row \in Rows, NEW count \in Nat, NEW at \in 0..(Lanes - 1),
           at + 1 <= LiveLanes(count), Ordered(row, at)
    PROVE  Ordered(SortStep(row, count, at), at + 1)
<1>1. PICK c \in 0..Lanes : c = LiveLanes(count)
  BY OrderingAssumption DEF LiveLanes
<1>2. PICK run : MovesOf(run, row, c, at) /\ SortStep(row, count, at) = run[Lanes]
  BY <1>1, StepMoves
<1> DEFINE m == at + 1
           T == {j \in 0..Lanes : OrderedBut(run[j], m - j, m)}
<1>3. run[0] = row /\ \A j \in 1..Lanes : run[j] = Moved(run[j - 1], c, at - (j - 1))
  BY <1>2, Zenon DEF MovesOf
<1>4. \A j \in 0..Lanes : run[j] \in Rows
  BY <1>2 DEF MovesOf
<1>5. Lanes \in Nat /\ m \in 0..c /\ m \in Nat /\ m <= Lanes
  BY <1>1, OrderingAssumption
<1>6. 0 \in T
  <2>1. ASSUME NEW a \in 1..m, NEW b \in 1..m, a < b, b # m PROVE row[a] <= row[b]
    <3>1. a \in 1..at /\ b \in 1..at
      BY <2>1
    <3> QED BY <2>1, <3>1 DEF Ordered
  <2>2. OrderedBut(row, m, m)
    BY <2>1 DEF OrderedBut
  <2>3. m - 0 = m
    BY <1>5
  <2> QED BY <1>3, <1>5, <2>2, <2>3
<1>7. ASSUME NEW j \in 1..Lanes, j - 1 \in T PROVE j \in T
  <2> DEFINE q == m - (j - 1)
  <2>1. OrderedBut(run[j - 1], q, m) /\ run[j - 1] \in Rows
    BY <1>4, <1>5, <1>7
  <2>2. q \in Int /\ q <= m /\ q - 1 = at - (j - 1) /\ q - 1 = m - j
    BY <1>5
  <2> HIDE DEF q, m
  <2>3. OrderedBut(Moved(run[j - 1], c, q - 1), q - 1, m)
    BY <1>5, <2>1, <2>2, MovedOrders
  <2>4. OrderedBut(run[j], m - j, m)
    BY <1>3, <2>2, <2>3
  <2> QED BY <1>5, <2>4
<1>8. T \in SUBSET (0..Lanes)
  OBVIOUS
<1> HIDE DEF T
<1>9. T = 0..Lanes
  BY <1>5, <1>6, <1>7, <1>8, AtEveryPosition
<1>10. Lanes \in T
  BY <1>5, <1>9
<1>11. OrderedBut(run[Lanes], m - Lanes, m)
  BY <1>10 DEF T
<1>12. \A b \in 1..m : b # m - Lanes
  BY <1>5
<1>13. Ordered(run[Lanes], m)
  BY <1>11, <1>12 DEF OrderedBut, Ordered
<1> QED BY <1>2, <1>13

\* What is in order stays as it is.
LEMMA StepRests ==
    ASSUME NEW row \in Rows, NEW count \in Nat, NEW at \in 0..(Lanes - 1),
           Ordered(row, LiveLanes(count))
    PROVE  SortStep(row, count, at) = row
<1>1. PICK c \in 0..Lanes : c = LiveLanes(count)
  BY OrderingAssumption DEF LiveLanes
<1>2. PICK run : MovesOf(run, row, c, at) /\ SortStep(row, count, at) = run[Lanes]
  BY <1>1, StepMoves
<1>3. run[0] = row /\ \A j \in 1..Lanes : run[j] = Moved(run[j - 1], c, at - (j - 1))
  BY <1>2, Zenon DEF MovesOf
<1>4. Lanes \in Nat
  BY OrderingAssumption
<1>5. ASSUME NEW k PROVE Moved(row, c, k) = row
  <2>1. ASSUME k \in 1..(c - 1), row[k + 1] < row[k] PROVE FALSE
    <3>1. /\ k \in 1..c /\ k + 1 \in 1..c /\ k < k + 1
          /\ k \in 1..Lanes /\ k + 1 \in 1..Lanes
      BY <1>4, <2>1
    <3>2. row[k] <= row[k + 1]
      BY <1>1, <3>1 DEF Ordered
    <3>3. row[k] \in Nat /\ row[k + 1] \in Nat
      BY <3>1 DEF Rows
    <3> QED BY <2>1, <3>2, <3>3
  <2> QED BY <2>1, Zenon DEF Moved
<1> DEFINE T == {j \in 0..Lanes : run[j] = row}
<1>6. 0 \in T
  BY <1>3, <1>4
<1>7. ASSUME NEW j \in 1..Lanes, j - 1 \in T PROVE j \in T
  BY <1>3, <1>4, <1>5, <1>7
<1>8. T \in SUBSET (0..Lanes)
  OBVIOUS
<1> HIDE DEF T
<1>9. T = 0..Lanes
  BY <1>4, <1>6, <1>7, <1>8, AtEveryPosition
<1>10. Lanes \in T
  BY <1>4, <1>9
<1> QED BY <1>2, <1>10 DEF T

\* Sorting orders the live lanes.
LEMMA SortOrders ==
    ASSUME NEW row \in Rows, NEW count \in Nat
    PROVE  Ordered(SortCodes(row, count), LiveLanes(count))
<1>1. PICK run : InsertsOf(run, row, count) /\ SortCodes(row, count) = run[Lanes]
  BY SortInserts
<1>2. PICK c \in 0..Lanes : c = LiveLanes(count)
  BY OrderingAssumption DEF LiveLanes
<1> DEFINE least(j) == IF j <= c THEN j ELSE c
           T == {j \in 0..Lanes : Ordered(run[j], least(j))}
<1>3. run[0] = row /\ \A j \in 1..Lanes : run[j] = SortStep(run[j - 1], count, j - 1)
  BY <1>1, Zenon DEF InsertsOf
<1>4. \A j \in 0..Lanes : run[j] \in Rows
  BY <1>1 DEF InsertsOf
<1>5. Lanes \in Nat /\ c \in Nat /\ c <= Lanes
  BY OrderingAssumption
<1>6. 0 \in T
  <2>1. least(0) = 0
    BY <1>5
  <2>2. Ordered(run[0], 0)
    BY DEF Ordered
  <2> QED BY <1>5, <2>1, <2>2
<1>7. ASSUME NEW j \in 1..Lanes, j - 1 \in T PROVE j \in T
  <2>1. run[j - 1] \in Rows /\ j - 1 \in 0..(Lanes - 1) /\ j - 1 + 1 = j
        /\ Ordered(run[j - 1], least(j - 1))
    BY <1>4, <1>5, <1>7
  <2>2. CASE j <= c
    <3>1. least(j - 1) = j - 1 /\ least(j) = j
      BY <1>5, <2>2
    <3>2. Ordered(SortStep(run[j - 1], count, j - 1), j - 1 + 1)
      BY <1>2, <2>1, <2>2, <3>1, StepOrders
    <3>3. Ordered(run[j], least(j))
      BY <1>3, <2>1, <3>1, <3>2
    <3> QED BY <1>5, <3>3
  <2>3. CASE ~(j <= c)
    <3>1. least(j - 1) = c /\ least(j) = c
      BY <1>5, <2>3
    <3>2. SortStep(run[j - 1], count, j - 1) = run[j - 1]
      BY <1>2, <2>1, <3>1, StepRests
    <3>3. Ordered(run[j], least(j))
      BY <1>3, <2>1, <3>1, <3>2
    <3> QED BY <1>5, <3>3
  <2> QED BY <2>2, <2>3
<1>8. T \in SUBSET (0..Lanes)
  OBVIOUS
<1> HIDE DEF T
<1>9. T = 0..Lanes
  BY <1>5, <1>6, <1>7, <1>8, AtEveryPosition
<1>10. Lanes \in T /\ least(Lanes) = c
  BY <1>5, <1>9
<1> QED BY <1>1, <1>2, <1>10 DEF T

-----------------------------------------------------------------------------
(* Codes in a window. *)

\* The window of codes no more than it has lanes.
LEMMA WindowBack ==
    ASSUME NEW codes \in Seq(Nat)
    PROVE  /\ Exactly(U64Window(codes), Lanes) <=> Len(codes) <= Lanes
           /\ Len(codes) <= Lanes =>
                  /\ U64Window(codes) \in Rows
                  /\ LiveLanes(Len(codes)) = Len(codes)
                  /\ \A i \in 1..Len(codes) : U64Window(codes)[i] = codes[i]
<1> DEFINE window == U64Window(codes)
<1>1. PICK n \in Nat : n = Len(codes)
  OBVIOUS
<1>2. Lanes \in Nat
  BY OrderingAssumption
<1>3. /\ window \in Seq(Nat) /\ Len(window) = IF n < Lanes THEN Lanes ELSE n
      /\ \A i \in 1..n : window[i] = codes[i]
  <2> DEFINE W == Lanes
             Z == 0
  <2>1. W \in Nat /\ Z \in Nat
    BY <1>2
  <2> HIDE DEF W, Z
  <2>2. /\ Padded(codes, W, Z) \in Seq(Nat)
        /\ Len(Padded(codes, W, Z)) = IF Len(codes) < W THEN W ELSE Len(codes)
        /\ \A i \in 1..Len(codes) : Padded(codes, W, Z)[i] = codes[i]
    BY <2>1, PaddedBack DEF Holds
  <2> QED BY <1>1, <2>2 DEF W, Z, U64Window
<1> HIDE DEF window
<1>4. Exactly(window, Lanes) <=> n <= Lanes
  BY <1>2, <1>3 DEF Exactly
<1>5. ASSUME n <= Lanes PROVE window \in Rows /\ LiveLanes(n) = n
  <2>1. Len(window) = Lanes
    BY <1>2, <1>3, <1>5
  <2>2. window \in [1..Len(window) -> Nat]
    BY <1>3
  <2> QED BY <1>5, <2>1, <2>2 DEF Rows, LiveLanes
<1> QED BY <1>1, <1>3, <1>4, <1>5 DEF window

\* Neighbours in order are all in order.
LEMMA NeighboursOrder ==
    ASSUME NEW row, NEW m \in Nat, \A i \in 1..m : row[i] \in Nat,
           \A k \in 1..(m - 1) : row[k] <= row[k + 1]
    PROVE  Ordered(row, m)
<1> DEFINE T == {j \in 0..m : Ordered(row, j)}
<1>1. 0 \in T
  BY DEF Ordered
<1>2. ASSUME NEW j \in 1..m, j - 1 \in T PROVE j \in T
  <2>1. \A a, b \in 1..(j - 1) : a < b => row[a] <= row[b]
    BY <1>2 DEF Ordered
  <2>2. ASSUME NEW a \in 1..j, NEW b \in 1..j, a < b PROVE row[a] <= row[b]
    <3>1. CASE b # j
      BY <2>1, <2>2, <3>1
    <3>2. CASE b = j /\ a = j - 1
      <4>1. a \in 1..(m - 1) /\ a + 1 = b
        BY <3>2
      <4> QED BY <4>1
    <3>3. CASE b = j /\ a # j - 1
      <4>1. a \in 1..(j - 1) /\ j - 1 \in 1..(j - 1) /\ a < j - 1 /\ j - 1 \in 1..(m - 1)
            /\ j - 1 + 1 = j
        BY <2>2, <3>3
      <4>2. row[a] <= row[j - 1] /\ row[j - 1] <= row[j]
        BY <2>1, <4>1
      <4>3. row[a] \in Nat /\ row[j - 1] \in Nat /\ row[j] \in Nat
        BY <4>1
      <4> QED BY <3>3, <4>2, <4>3
    <3> QED BY <3>1, <3>2, <3>3
  <2> QED BY <2>2 DEF Ordered
<1>3. T \in SUBSET (0..m)
  OBVIOUS
<1> HIDE DEF T
<1>4. T = 0..m
  BY <1>1, <1>2, <1>3, AtEveryPosition
<1>5. m \in T
  BY <1>4
<1> QED BY <1>5 DEF T

\* is_sorted looks at live neighbours only.
LEMMA SortedCallsAreRight ==
    ASSUME NEW fields, NEW a \in [codes : Seq(Nat)]
    PROVE  IsRight(fields, "is_sorted", a, Replies("is_sorted", a))
<1> DEFINE f == "is_sorted"
           v == <<U64Window(a.codes), Len(a.codes)>>
<1>1. v = Arguments(f, a)
  BY DEF Arguments
<1>2. v[1] = U64Window(a.codes) /\ v[2] = Len(a.codes)
  OBVIOUS
<1>3. a.codes \in Seq(Nat)
  OBVIOUS
<1> HIDE DEF v
<1>4. PICK n \in Nat : n = Len(a.codes)
  BY <1>3
<1>5. WellTyped(f, v) <=> InBounds(f, a)
  BY <1>2, <1>3, WindowBack DEF WellTyped, InBounds
<1>6. ASSUME WellTyped(f, v) PROVE IsAnswer(fields, f, a, ReadAnswer(f, a, Facade(f, v)))
  <2>1. Len(a.codes) <= Lanes
    BY <1>5, <1>6 DEF InBounds
  <2>2. /\ LiveLanes(n) = n /\ \A i \in 1..n : v[1][i] = a.codes[i]
    BY <1>2, <1>3, <1>4, <2>1, WindowBack
  <2>3. \A i \in 1..n : a.codes[i] \in Nat
    BY <1>3, <1>4
  <2>4. IsSortedCodes(v[1], v[2]) <=> \A k \in 1..(n - 1) : a.codes[k] <= a.codes[k + 1]
    <3>1. \A k \in 1..(n - 1) : k \in 1..n /\ k + 1 \in 1..n
      BY <1>4
    <3> QED BY <1>2, <1>4, <2>2, <3>1 DEF IsSortedCodes
  <2>5. (\A k \in 1..(n - 1) : a.codes[k] <= a.codes[k + 1]) <=> IsNonDecreasing(a.codes)
    <3>1. ASSUME \A k \in 1..(n - 1) : a.codes[k] <= a.codes[k + 1]
          PROVE  IsNonDecreasing(a.codes)
      <4> DEFINE row == a.codes
      <4>1. \A i \in 1..n : row[i] \in Nat
        BY <2>3
      <4>2. \A k \in 1..(n - 1) : row[k] <= row[k + 1]
        BY <3>1
      <4> HIDE DEF row
      <4>3. Ordered(row, n)
        BY <4>1, <4>2, NeighboursOrder
      <4> QED BY <1>4, <4>3 DEF Ordered, IsNonDecreasing, row
    <3>2. ASSUME IsNonDecreasing(a.codes), NEW k \in 1..(n - 1)
          PROVE  a.codes[k] <= a.codes[k + 1]
      <4>1. k \in 1..n /\ k + 1 \in 1..n /\ k < k + 1
        BY <1>4
      <4> QED BY <1>4, <3>2, <4>1 DEF IsNonDecreasing
    <3> QED BY <3>1, <3>2
  <2> DEFINE answer == IsSortedCodes(v[1], v[2])
             right == IsNonDecreasing(a.codes)
  <2>6. answer = right
    <3>1. answer <=> right
      BY <2>4, <2>5
    <3>2. answer \in BOOLEAN /\ right \in BOOLEAN
      BY DEF IsSortedCodes, IsNonDecreasing
    <3> HIDE DEF answer, right
    <3> QED BY <3>1, <3>2
  <2>7. ReadAnswer(f, a, Facade(f, v)) = answer
    <3> HIDE DEF answer
    <3>1. Facade(f, v) = answer
      BY Zenon DEF Facade, answer
    <3> QED BY <3>1 DEF ReadAnswer
  <2> HIDE DEF answer
  <2> QED BY <2>6, <2>7 DEF IsAnswer
<1> HIDE DEF f
<1>7. IsRight(fields, f, a, Replies(f, a))
  BY <1>1, <1>5, <1>6, RightWithinBounds
<1> QED BY <1>7 DEF f

\* sort_codes answers the codes asked about, each as often as it was there,
\* in order; lanes behind them never show.
LEMMA SortCallsAreRight ==
    ASSUME NEW fields, NEW a \in [codes : Seq(Nat)]
    PROVE  IsRight(fields, "sort_codes", a, Replies("sort_codes", a))
<1> DEFINE f == "sort_codes"
           v == <<U64Window(a.codes), Len(a.codes)>>
<1>1. v = Arguments(f, a)
  BY DEF Arguments
<1>2. v[1] = U64Window(a.codes) /\ v[2] = Len(a.codes)
  OBVIOUS
<1>3. a.codes \in Seq(Nat)
  OBVIOUS
<1> HIDE DEF v
<1>4. PICK n \in Nat : n = Len(a.codes)
  BY <1>3
<1>5. WellTyped(f, v) <=> InBounds(f, a)
  BY <1>2, <1>3, WindowBack DEF WellTyped, InBounds
<1>6. ASSUME WellTyped(f, v) PROVE IsAnswer(fields, f, a, ReadAnswer(f, a, Facade(f, v)))
  <2> DEFINE window == v[1]
             row == SortCodes(window, n)
             answer == SubSeq(row, 1, n)
             codes == a.codes
  <2>1. Len(a.codes) <= Lanes
    BY <1>5, <1>6 DEF InBounds
  <2>2. window \in Rows /\ LiveLanes(n) = n /\ \A i \in 1..n : window[i] = codes[i]
    BY <1>2, <1>3, <1>4, <2>1, WindowBack
  <2>3. ReadAnswer(f, a, Facade(f, v)) = answer
    BY <1>2, <1>4 DEF ReadAnswer, Facade, TakeBytes
  <2> HIDE DEF window
  <2>4. row \in Rows /\ SameLanes(window, row, n) /\ Ordered(row, n)
    BY <2>2, SortKeeps, SortOrders
  <2> HIDE DEF row
  <2>5. Lanes \in Nat /\ n <= Lanes
    BY <1>4, <2>1, OrderingAssumption
  <2>6. answer \in Seq(Nat) /\ Len(answer) = n /\ \A i \in 1..n : answer[i] = row[i]
    <3>1. row \in Seq(Nat) /\ Len(row) = Lanes
      BY <2>4, <2>5 DEF Rows
    <3>2. 1 \in 1..Len(row) + 1 /\ n \in (1 - 1)..Len(row) /\ n - 1 + 1 = n
          /\ \A i \in 1..n : 1 + i - 1 = i
      BY <2>5, <3>1
    <3>3. /\ SubSeq(row, 1, n) \in Seq(Nat) /\ Len(SubSeq(row, 1, n)) = n - 1 + 1
          /\ \A i \in 1..(n - 1 + 1) : SubSeq(row, 1, n)[i] = row[1 + i - 1]
      BY <3>1, <3>2, PieceProperties
    <3> QED BY <3>2, <3>3
  <2> HIDE DEF answer, codes
  <2>7. IsNonDecreasing(answer)
    BY <2>4, <2>6 DEF Ordered, IsNonDecreasing
  <2>8. IsPermutation(answer, codes)
    <3>1. ASSUME NEW x
          PROVE  Cardinality({i \in 1..Len(answer) : answer[i] = x})
                     = Cardinality({i \in 1..Len(codes) : codes[i] = x})
      <4>1. {i \in 1..Len(answer) : answer[i] = x} = LanesWith(row, n, x)
        BY <2>6 DEF LanesWith
      <4>2. {i \in 1..Len(codes) : codes[i] = x} = LanesWith(window, n, x)
        BY <1>4, <2>2 DEF LanesWith, codes
      <4>3. Cardinality(LanesWith(window, n, x)) = Cardinality(LanesWith(row, n, x))
        BY <2>4, Zenon DEF SameLanes
      <4> QED BY <4>1, <4>2, <4>3
    <3>2. Len(answer) = Len(codes)
      BY <1>4, <2>6 DEF codes
    <3> QED BY <3>1, <3>2, Zenon DEF IsPermutation
  <2> QED BY <2>3, <2>7, <2>8 DEF IsAnswer, codes
<1> HIDE DEF f
<1>7. IsRight(fields, f, a, Replies(f, a))
  BY <1>1, <1>5, <1>6, RightWithinBounds
<1> QED BY <1>7 DEF f

-----------------------------------------------------------------------------
(* Numbers in bytes. *)

\* Powers stay positive.
LEMMA PositiveProduct ==
    ASSUME NEW x \in Nat \ {0}, NEW y \in Nat \ {0}
    PROVE  x * y \in Nat \ {0}
OBVIOUS

\* Places are the powers of the radix, whichever function it is that solves
\* their recursion.
LEMMA PlaceValues ==
    /\ Place[0] = 1
    /\ \A n \in 1..WordBytes : Place[n] = Place[n - 1] * Radix
    /\ \A n \in 0..WordBytes : Place[n] \in Nat \ {0}
<1> DEFINE Solves(f) ==
               f = [n \in 0..WordBytes |-> IF n = 0 THEN 1 ELSE f[n - 1] * Radix]
           V == Nat \ {0}
           base == 1
           step == [i \in 1..WordBytes |-> [v \in V |-> v * Radix]]
<1>1. WordBytes \in Nat /\ Radix \in V
  BY HandoffAssumption
<1>2. base \in V /\ \A i \in 1..WordBytes : \A v \in V :
          step[i][v] = v * Radix /\ step[i][v] \in V
  <2>1. \A v \in V : v * Radix \in V
    BY <1>1, PositiveProduct
  <2> QED BY <2>1
<1> HIDE DEF V, base, step
<1>3. PICK run : RunOf(run, WordBytes, V, base, step)
  BY <1>1, <1>2, PositionRecursion
<1>4. /\ run \in [0..WordBytes -> V] /\ run[0] = base
      /\ \A i \in 1..WordBytes : run[i] = step[i][run[i - 1]]
  BY <1>3 DEF RunOf
<1>5. \A n \in 0..WordBytes : run[n] = IF n = 0 THEN 1 ELSE run[n - 1] * Radix
  <2> SUFFICES ASSUME NEW n \in 0..WordBytes
               PROVE  run[n] = IF n = 0 THEN 1 ELSE run[n - 1] * Radix
    OBVIOUS
  <2>1. CASE n = 0
    BY <1>4, <2>1 DEF base
  <2>2. CASE n # 0
    <3>1. n \in 1..WordBytes /\ n - 1 \in 0..WordBytes
      BY <1>1, <2>2
    <3>2. run[n - 1] \in V
      BY <1>4, <3>1
    <3> QED BY <1>2, <1>4, <2>2, <3>1, <3>2
  <2> QED BY <2>1, <2>2
<1>6. Solves(run)
  BY <1>4, <1>5
<1>7. Place = CHOOSE f : Solves(f)
  BY DEF Place
<1>8. Solves(Place)
  <2> HIDE DEF Solves
  <2> QED BY <1>6, <1>7
<1>9. \A n \in 0..WordBytes : Place[n] = IF n = 0 THEN 1 ELSE Place[n - 1] * Radix
  <2> DEFINE p == Place
  <2>1. Solves(p)
    BY <1>8
  <2> HIDE DEF p
  <2>2. \A n \in 0..WordBytes : p[n] = IF n = 0 THEN 1 ELSE p[n - 1] * Radix
    BY <2>1
  <2> QED BY <2>2 DEF p
<1> HIDE DEF Solves
<1>10. Place[0] = 1 /\ \A n \in 1..WordBytes : Place[n] = Place[n - 1] * Radix
  <2>1. 0 \in 0..WordBytes /\ \A n \in 1..WordBytes : n \in 0..WordBytes /\ n # 0
    BY <1>1
  <2> QED BY <1>9, <2>1
<1> DEFINE T == {n \in 0..WordBytes : Place[n] \in V}
<1>11. 0 \in T
  BY <1>1, <1>2, <1>10 DEF base
<1>12. ASSUME NEW n \in 1..WordBytes, n - 1 \in T PROVE n \in T
  <2>1. Place[n - 1] \in V
    BY <1>12
  <2>2. Place[n - 1] * Radix \in V
    BY <1>1, <2>1, PositiveProduct DEF V
  <2> QED BY <1>1, <1>10, <2>2
<1>13. T \in SUBSET (0..WordBytes)
  OBVIOUS
<1> HIDE DEF T
<1>14. T = 0..WordBytes
  BY <1>1, <1>11, <1>12, <1>13, AtEveryPosition
<1> QED BY <1>10, <1>14 DEF T, V

\* A number is its quotient times what it was divided by, and the rest.
LEMMA DivMod ==
    ASSUME NEW x \in Nat, NEW p \in Nat \ {0}
    PROVE  /\ x \div p \in Nat /\ x % p \in Nat /\ x % p < p
           /\ x = (x \div p) * p + (x % p)
<1>1. PICK q \in Int, r \in Int : q = x \div p /\ r = x % p
  OBVIOUS
<1>2. 0 <= r /\ r < p
  BY <1>1
<1>3. x - p * q = r
  BY <1>1
<1>4. p * q \in Int /\ p * q = q * p
  OBVIOUS
<1>5. q >= 0
  <2>1. CASE q < 0
    <3>1. q * p <= (-1) * p
      BY <2>1
    <3> QED BY <1>2, <1>3, <1>4, <3>1
  <2> QED BY <2>1
<1>6. x = q * p + r
  BY <1>3, <1>4
<1>7. q \in Nat /\ r \in Nat
  BY <1>2, <1>5
<1> QED BY <1>1, <1>2, <1>6, <1>7

\* What is left of value when the bytes before are divided off.
RestsOf(rest, value) ==
    /\ rest[0] = value
    /\ \A i \in 0..WordBytes : rest[i] \in 0..(Place[WordBytes - i] - 1)
    /\ \A i \in 1..WordBytes : rest[i] = rest[i - 1] % Place[WordBytes - i]

\* The bytes of a number come of a run of what is left of it below each place.
LEMMA NumberRests ==
    ASSUME NEW value \in 0..(Place[WordBytes] - 1)
    PROVE  \E rest : /\ RestsOf(rest, value)
                     /\ U64Bytes(value) =
                            [i \in 1..WordBytes |-> rest[i - 1] \div Place[WordBytes - i]]
<1> DEFINE Solves(f) ==
               f = [i \in 0..WordBytes |->
                       IF i = 0 THEN value ELSE f[i - 1] % Place[WordBytes - i]]
           V == Nat
           base == value
           step == [i \in 1..WordBytes |-> [v \in V |-> v % Place[WordBytes - i]]]
<1>1. /\ WordBytes \in Nat /\ value \in Nat
      /\ \A i \in 0..WordBytes : Place[WordBytes - i] \in Nat \ {0}
  <2>1. WordBytes \in Nat
    BY HandoffAssumption
  <2>2. \A i \in 0..WordBytes : WordBytes - i \in 0..WordBytes
    BY <2>1
  <2> QED BY <2>1, <2>2, PlaceValues
<1>2. base \in V /\ \A i \in 1..WordBytes : \A v \in V :
          step[i][v] = v % Place[WordBytes - i] /\ step[i][v] \in V
  <2>1. ASSUME NEW i \in 1..WordBytes, NEW v \in V PROVE v % Place[WordBytes - i] \in V
    <3>1. Place[WordBytes - i] \in Nat \ {0}
      BY <1>1
    <3> QED BY <3>1, DivMod
  <2> QED BY <1>1, <2>1
<1> HIDE DEF V, base, step
<1>3. PICK run : RunOf(run, WordBytes, V, base, step)
  BY <1>1, <1>2, PositionRecursion
<1>4. /\ run \in [0..WordBytes -> V] /\ run[0] = base
      /\ \A i \in 1..WordBytes : run[i] = step[i][run[i - 1]]
  BY <1>3 DEF RunOf
<1>5. \A i \in 0..WordBytes :
          run[i] = IF i = 0 THEN value ELSE run[i - 1] % Place[WordBytes - i]
  <2> SUFFICES ASSUME NEW i \in 0..WordBytes
               PROVE  run[i] = IF i = 0 THEN value ELSE run[i - 1] % Place[WordBytes - i]
    OBVIOUS
  <2>1. CASE i = 0
    BY <1>4, <2>1 DEF base
  <2>2. CASE i # 0
    <3>1. i \in 1..WordBytes /\ i - 1 \in 0..WordBytes
      BY <1>1, <2>2
    <3>2. run[i - 1] \in V
      BY <1>4, <3>1
    <3> QED BY <1>2, <1>4, <2>2, <3>1, <3>2
  <2> QED BY <2>1, <2>2
<1>6. Solves(run)
  BY <1>4, <1>5
<1>7. U64Bytes(value) = [i \in 1..WordBytes |->
          (CHOOSE f : Solves(f))[i - 1] \div Place[WordBytes - i]]
  BY DEF U64Bytes
<1>8. PICK rest : /\ Solves(rest)
                  /\ U64Bytes(value) =
                         [i \in 1..WordBytes |-> rest[i - 1] \div Place[WordBytes - i]]
  <2> HIDE DEF Solves
  <2>1. Solves(CHOOSE f : Solves(f))
    BY <1>6
  <2> QED BY <1>7, <2>1
<1>9. \A i \in 0..WordBytes :
          rest[i] = IF i = 0 THEN value ELSE rest[i - 1] % Place[WordBytes - i]
  BY <1>8
<1>10. rest[0] = value /\ \A i \in 1..WordBytes : rest[i] = rest[i - 1] % Place[WordBytes - i]
  <2>1. 0 \in 0..WordBytes /\ \A i \in 1..WordBytes : i \in 0..WordBytes /\ i # 0
    BY <1>1
  <2> QED BY <1>9, <2>1
<1> DEFINE T == {i \in 0..WordBytes : rest[i] \in 0..(Place[WordBytes - i] - 1)}
<1>11. 0 \in T
  <2>1. WordBytes - 0 = WordBytes /\ 0 \in 0..WordBytes
    BY <1>1
  <2> QED BY <1>10, <2>1
<1>12. ASSUME NEW i \in 1..WordBytes, i - 1 \in T PROVE i \in T
  <2>1. /\ Place[WordBytes - (i - 1)] \in Nat \ {0} /\ Place[WordBytes - i] \in Nat \ {0}
        /\ i \in 0..WordBytes
    <3>1. i - 1 \in 0..WordBytes /\ i \in 0..WordBytes
      BY <1>1
    <3> QED BY <1>1, <3>1
  <2>2. PICK p \in Nat \ {0}, x \in Nat : p = Place[WordBytes - i] /\ x = rest[i - 1]
    BY <1>12, <2>1
  <2>3. rest[i] = x % p
    BY <1>10, <2>2
  <2>4. x % p \in 0..(p - 1)
    <3>1. x % p \in Nat /\ x % p < p
      BY DivMod
    <3> QED BY <3>1
  <2> QED BY <2>1, <2>2, <2>3, <2>4
<1>13. T \in SUBSET (0..WordBytes)
  OBVIOUS
<1> HIDE DEF T
<1>14. T = 0..WordBytes
  BY <1>1, <1>11, <1>12, <1>13, AtEveryPosition
<1>15. RestsOf(rest, value)
  BY <1>10, <1>14 DEF T, RestsOf
<1> QED BY <1>8, <1>15

\* A number read byte after byte.
ReadsOf(run, s) ==
    /\ run \in [0..Len(s) -> Nat] /\ run[0] = 0
    /\ \A i \in 1..Len(s) : run[i] = run[i - 1] * Radix + s[i]

\* Reading a number is a run over its bytes, first to last.
LEMMA NumberReads ==
    ASSUME NEW s \in Seq(Nat)
    PROVE  \E run : ReadsOf(run, s) /\ NumberOf(s) = run[Len(s)]
<1> DEFINE Recurs(f, n) ==
               f = [T \in SUBSET (1..n) |->
                       IF T = {} THEN 0 ELSE f[T \ {Max(T)}] * Radix + s[Max(T)]]
           V == Nat
           base == 0
           step == [i \in 1..Len(s) |-> [v \in V |-> v * Radix + s[i]]]
<1>0. PICK n \in Nat : n = Len(s) /\ Len(s) = n /\ DOMAIN s = 1..n /\ \A i \in 1..n : s[i] \in Nat
  OBVIOUS
<1>1. n \in Nat /\ Radix \in Nat
  BY HandoffAssumption
<1>4. NumberOf(s) = (CHOOSE f : Recurs(f, n))[1..n]
  BY <1>0 DEF NumberOf, FoldLeft, MapThenFoldSet
<1>5. base \in V /\ \A i \in 1..n : \A v \in V :
          /\ step[i][v] = v * Radix + s[i]
          /\ step[i][v] \in V
  <2>1. ASSUME NEW i \in 1..n, NEW v \in Nat PROVE v * Radix + s[i] \in Nat
    <3>1. v * Radix \in Nat
      BY <1>1
    <3> QED BY <1>0, <3>1
  <2> QED BY <1>0, <2>1
<1> HIDE DEF step
<1>6. PICK f : FoldOf(f, n, V, base, step)
  <2> HIDE DEF V, base
  <2> QED BY <1>1, <1>5, SetRecursion
<1>7. \E h : Recurs(h, n)
  <2>1. ASSUME NEW T \in SUBSET (1..n), T # {}
        PROVE  step[Max(T)][f[T \ {Max(T)}]] = f[T \ {Max(T)}] * Radix + s[Max(T)]
    <3>1. Max(T) \in 1..n /\ f[T \ {Max(T)}] \in V
      BY <1>1, <1>6, <2>1, MaxOfPositions DEF FoldOf
    <3> HIDE DEF V
    <3> QED BY <1>5, <3>1
  <2>2. Recurs(f, n)
    BY <1>6, <2>1 DEF FoldOf
  <2> QED BY <2>2
<1>8. PICK g : Recurs(g, n) /\ NumberOf(s) = g[1..n]
  <2> HIDE DEF Recurs
  <2> QED BY <1>4, <1>7
<1>9. FoldsIn(g, n, V, base, step)
  <2>1. ASSUME NEW T \in (SUBSET (1..n)) \ {{}}, g[T \ {Max(T)}] \in V
        PROVE  g[T] = step[Max(T)][g[T \ {Max(T)}]]
    <3>1. Max(T) \in 1..n
      BY <1>1, MaxOfPositions
    <3>2. g[T] = g[T \ {Max(T)}] * Radix + s[Max(T)]
      BY <1>8
    <3> HIDE DEF V
    <3> QED BY <1>5, <2>1, <3>1, <3>2
  <2>2. g[{}] = base
    BY <1>8
  <2> HIDE DEF V, base
  <2> QED BY <2>1, <2>2 DEF FoldsIn
<1> HIDE DEF Recurs
<1>10. PICK run \in [0..n -> V] :
           /\ run[0] = base /\ g[1..n] = run[n]
           /\ \A i \in 1..n : run[i] = step[i][run[i - 1]]
  <2> HIDE DEF V, base
  <2> QED BY <1>1, <1>5, <1>9, FoldRuns
<1>11. ASSUME NEW i \in 1..n
       PROVE  run[i] = run[i - 1] * Radix + s[i]
  <2>1. run[i - 1] \in V
    BY <1>1
  <2> QED BY <1>5, <1>10, <2>1
<1>12. ReadsOf(run, s)
  BY <1>0, <1>10, <1>11 DEF ReadsOf
<1> QED BY <1>0, <1>8, <1>10, <1>12

\* One byte more is one place less of the rest.
LEMMA ByteMoves ==
    ASSUME NEW got \in Nat, NEW p \in Nat \ {0}, NEW r \in Nat \ {0}, NEW x \in Nat,
           NEW b \in Nat, NEW y \in Nat, x = b * p + y
    PROVE  (got * r + b) * p + y = got * (p * r) + x
<1>1. (got * r + b) * p = (got * r) * p + b * p
  OBVIOUS
<1>2. (got * r) * p = got * (p * r)
  OBVIOUS
<1>3. (got * r) * p \in Nat /\ b * p \in Nat
  OBVIOUS
<1> QED BY <1>1, <1>2, <1>3

\* A number is read back from its bytes.
LEMMA NumberBack ==
    ASSUME NEW value \in 0..(Place[WordBytes] - 1)
    PROVE  /\ U64Bytes(value) \in Seq(Nat) /\ Len(U64Bytes(value)) = WordBytes
           /\ NumberOf(U64Bytes(value)) = value
<1>1. PICK rest : /\ RestsOf(rest, value)
                  /\ U64Bytes(value) =
                         [i \in 1..WordBytes |-> rest[i - 1] \div Place[WordBytes - i]]
  BY NumberRests
<1> DEFINE s == U64Bytes(value)
<1>2. WordBytes \in Nat /\ Radix \in Nat \ {0} /\ value \in Nat
  <2>1. WordBytes \in Nat /\ Radix \in Nat \ {0}
    BY HandoffAssumption
  <2>2. WordBytes \in 0..WordBytes
    BY <2>1
  <2>3. Place[WordBytes] \in Nat
    BY <2>2, PlaceValues
  <2> QED BY <2>1, <2>3
<1>3. \A i \in 0..WordBytes : /\ Place[WordBytes - i] \in Nat \ {0}
                              /\ rest[i] \in Nat /\ rest[i] < Place[WordBytes - i]
  <2> SUFFICES ASSUME NEW i \in 0..WordBytes
               PROVE  /\ Place[WordBytes - i] \in Nat \ {0}
                      /\ rest[i] \in Nat /\ rest[i] < Place[WordBytes - i]
    OBVIOUS
  <2>1. WordBytes - i \in 0..WordBytes
    BY <1>2
  <2>2. Place[WordBytes - i] \in Nat \ {0}
    BY <2>1, PlaceValues
  <2>3. rest[i] \in 0..(Place[WordBytes - i] - 1)
    BY <1>1 DEF RestsOf
  <2> QED BY <2>2, <2>3
<1>4. ASSUME NEW i \in 1..WordBytes
      PROVE  /\ s[i] \in Nat /\ rest[i - 1] = s[i] * Place[WordBytes - i] + rest[i]
  <2>1. i - 1 \in 0..WordBytes /\ i \in 0..WordBytes
    BY <1>2
  <2>2. PICK p \in Nat \ {0}, x \in Nat : p = Place[WordBytes - i] /\ x = rest[i - 1]
    BY <1>3, <2>1
  <2>3. s[i] = x \div p
    BY <1>1, <2>2
  <2>4. rest[i] = x % p
    BY <1>1, <2>2 DEF RestsOf
  <2>5. x \div p \in Nat /\ x = (x \div p) * p + (x % p)
    BY DivMod
  <2> HIDE DEF s
  <2>6. s[i] \in Nat /\ x = s[i] * p + rest[i]
    BY <2>3, <2>4, <2>5
  <2> QED BY <2>2, <2>6
<1>5. s \in Seq(Nat) /\ Len(s) = WordBytes
  <2>1. s = [i \in 1..WordBytes |-> s[i]]
    BY <1>1
  <2> HIDE DEF s
  <2> QED BY <1>2, <1>4, <2>1
<1> HIDE DEF s
<1>6. PICK run : ReadsOf(run, s) /\ NumberOf(s) = run[Len(s)]
  BY <1>5, NumberReads
<1>7. /\ run \in [0..WordBytes -> Nat] /\ run[0] = 0
      /\ \A i \in 1..WordBytes : run[i] = run[i - 1] * Radix + s[i]
  BY <1>5, <1>6 DEF ReadsOf
<1> DEFINE T == {i \in 0..WordBytes : run[i] * Place[WordBytes - i] + rest[i] = value}
<1>8. 0 \in T
  <2>1. rest[0] = value /\ 0 \in 0..WordBytes /\ WordBytes - 0 = WordBytes
    BY <1>1, <1>2 DEF RestsOf
  <2>2. PICK p \in Nat : p = Place[WordBytes - 0]
    BY <1>3, <2>1
  <2>3. 0 * p + value = value
    BY <1>2
  <2> QED BY <1>7, <2>1, <2>2, <2>3
<1>9. ASSUME NEW i \in 1..WordBytes, i - 1 \in T PROVE i \in T
  <2>1. i - 1 \in 0..WordBytes /\ i \in 0..WordBytes
        /\ WordBytes - (i - 1) \in 1..WordBytes
        /\ WordBytes - (i - 1) - 1 = WordBytes - i
    BY <1>2
  <2>2. PICK p \in Nat \ {0}, x \in Nat, y \in Nat :
            p = Place[WordBytes - i] /\ x = rest[i - 1] /\ y = rest[i]
    BY <1>3, <2>1
  <2>3. PICK b \in Nat, got \in Nat : b = s[i] /\ got = run[i - 1]
    BY <1>4, <1>7, <2>1
  <2>4. x = b * p + y
    BY <1>4, <2>2, <2>3
  <2>5. Place[WordBytes - (i - 1)] = p * Radix
    BY <2>1, <2>2, PlaceValues
  <2>6. got * (p * Radix) + x = value
    BY <1>9, <2>2, <2>3, <2>5
  <2>7. (got * Radix + b) * p + y = value
    BY <1>2, <2>4, <2>6, ByteMoves
  <2>8. run[i] * Place[WordBytes - i] + rest[i] = value
    BY <1>7, <2>2, <2>3, <2>7
  <2> QED BY <2>1, <2>8
<1>10. T \in SUBSET (0..WordBytes)
  OBVIOUS
<1> HIDE DEF T
<1>11. T = 0..WordBytes
  BY <1>2, <1>8, <1>9, <1>10, AtEveryPosition
<1>12. WordBytes \in T /\ WordBytes \in 0..WordBytes /\ WordBytes - WordBytes = 0
  BY <1>2, <1>11
<1>13. run[WordBytes] * Place[0] + rest[WordBytes] = value
  BY <1>12 DEF T
<1>14. Place[0] = 1 /\ rest[WordBytes] = 0 /\ run[WordBytes] \in Nat
  <2>1. Place[0] = 1
    BY PlaceValues
  <2>2. rest[WordBytes] \in Nat /\ rest[WordBytes] < Place[WordBytes - WordBytes]
    BY <1>3, <1>12
  <2>3. rest[WordBytes] \in Nat /\ rest[WordBytes] < 1
    BY <1>12, <2>1, <2>2
  <2> QED BY <1>7, <1>12, <2>1, <2>3
<1>15. run[WordBytes] = value
  <2>1. PICK x \in Nat : x = run[WordBytes]
    BY <1>14
  <2>2. x * 1 + 0 = value
    BY <1>13, <1>14, <2>1
  <2> QED BY <2>1, <2>2
<1> QED BY <1>5, <1>6, <1>15 DEF s

-----------------------------------------------------------------------------
(* The bytes of a handoff. *)

Handoffs == [1..HandoffBytes -> Nat]

\* Where the parts stand.
LEMMA PartsStand ==
    /\ WordBytes \in Nat /\ IdentityBytes \in Nat /\ HandoffBytes \in Nat
    /\ HandoffBytes = NumberAt(4) + 4 * IdentityBytes
    /\ NumberAt(0) = 4 /\ NumberAt(4) = 4 + 4 * WordBytes
    /\ \A n \in 1..4 : /\ NumberAt(n - 1) = 4 + (n - 1) * WordBytes
                       /\ NumberAt(n) = NumberAt(n - 1) + WordBytes
                       /\ IdentityAt(n - 1) = NumberAt(4) + (n - 1) * IdentityBytes
                       /\ IdentityAt(n) = IdentityAt(n - 1) + IdentityBytes
                       /\ NumberAt(n - 1) \in Nat /\ IdentityAt(n - 1) \in Nat
                       /\ NumberAt(n) <= NumberAt(4) /\ IdentityAt(n) <= HandoffBytes
<1>1. WordBytes \in Nat /\ IdentityBytes \in Nat
  BY HandoffAssumption
<1>2. Len(Tag) = 4
  BY DEF Tag
<1>3. \A n \in 0..4 : NumberAt(n) = 4 + n * WordBytes
  BY <1>2 DEF NumberAt
<1>4. \A n \in 0..4 : IdentityAt(n) = 4 + 4 * WordBytes + n * IdentityBytes
  BY <1>3 DEF IdentityAt
<1>5. NumberAt(4) = 4 + 4 * WordBytes /\ NumberAt(0) = 4
  BY <1>1, <1>3
<1>6. HandoffBytes = NumberAt(4) + 4 * IdentityBytes /\ HandoffBytes \in Nat
  BY <1>1, <1>4, <1>5 DEF HandoffBytes
<1>7. ASSUME NEW n \in 1..4
      PROVE  /\ NumberAt(n - 1) = 4 + (n - 1) * WordBytes
             /\ NumberAt(n) = NumberAt(n - 1) + WordBytes
             /\ IdentityAt(n - 1) = NumberAt(4) + (n - 1) * IdentityBytes
             /\ IdentityAt(n) = IdentityAt(n - 1) + IdentityBytes
             /\ NumberAt(n - 1) \in Nat /\ IdentityAt(n - 1) \in Nat
             /\ NumberAt(n) <= NumberAt(4) /\ IdentityAt(n) <= HandoffBytes
  <2>1. n - 1 \in 0..4 /\ n \in 0..4
    OBVIOUS
  <2>2. /\ NumberAt(n - 1) = 4 + (n - 1) * WordBytes
        /\ NumberAt(n) = 4 + n * WordBytes
        /\ IdentityAt(n - 1) = NumberAt(4) + (n - 1) * IdentityBytes
        /\ IdentityAt(n) = NumberAt(4) + n * IdentityBytes
    BY <1>3, <1>4, <1>5, <2>1
  <2>3. \A w \in Nat : n * w = (n - 1) * w + w /\ n * w \in Nat /\ (n - 1) * w \in Nat
                   /\ n * w <= 4 * w
    <3>1. n = 1 \/ n = 2 \/ n = 3 \/ n = 4
      OBVIOUS
    <3> QED BY <3>1
  <2> QED BY <1>1, <1>5, <1>6, <2>2, <2>3
<1> QED BY <1>1, <1>5, <1>6, <1>7

\* What a buffer holds after a copy: the copied part, or what was there.
LEMMA CopyValues ==
    ASSUME NEW out \in Handoffs, NEW offset \in Nat, NEW part \in Seq(Nat)
    PROVE  /\ CopyAt(out, offset, part) \in Handoffs
           /\ \A p \in 1..HandoffBytes :
                  CopyAt(out, offset, part)[p] =
                      IF p - offset \in 1..Len(part) THEN part[p - offset] ELSE out[p]
<1>1. HandoffBytes \in Nat
  BY PartsStand
<1>2. Len(out) = HandoffBytes
  BY <1>1 DEF Handoffs
<1>3. \A p \in 1..HandoffBytes :
          (IF p - offset \in 1..Len(part) THEN part[p - offset] ELSE out[p]) \in Nat
  BY DEF Handoffs
<1> QED BY <1>2, <1>3 DEF CopyAt, Handoffs

\* Four parts of one width are copied one behind the other.
CopiesOf(outs, parts, start, width) ==
    /\ outs \in [0..4 -> Handoffs] /\ parts \in [1..4 -> Seq(Nat)]
    /\ \A n \in 1..4 : /\ Len(parts[n]) = width
                       /\ outs[n] = CopyAt(outs[n - 1], start + (n - 1) * width, parts[n])

\* Four parts that are copied one after the other, apart from each other, all
\* stand where they were copied.
LEMMA FourStand ==
    ASSUME NEW outs, NEW parts, NEW start \in Nat, NEW width \in Nat,
           CopiesOf(outs, parts, start, width), start + 4 * width <= HandoffBytes
    PROVE  /\ \A n \in 1..4 : \A i \in 1..width :
                  outs[4][start + (n - 1) * width + i] = parts[n][i]
           /\ \A p \in 1..HandoffBytes :
                  p <= start \/ p > start + 4 * width => outs[4][p] = outs[0][p]
<1>1. HandoffBytes \in Nat
  BY PartsStand
<1> DEFINE put(n, out, p) ==
               IF p - (start + (n - 1) * width) \in 1..width
               THEN parts[n][p - (start + (n - 1) * width)] ELSE out[p]
<1>2. ASSUME NEW n \in 1..4, NEW p \in 1..HandoffBytes
      PROVE  outs[n][p] = put(n, outs[n - 1], p)
  <2>1. PICK at \in Nat : at = start + (n - 1) * width
    <3>1. n = 1 \/ n = 2 \/ n = 3 \/ n = 4
      OBVIOUS
    <3> QED BY <3>1
  <2>2. /\ outs[n - 1] \in Handoffs /\ parts[n] \in Seq(Nat) /\ Len(parts[n]) = width
        /\ outs[n] = CopyAt(outs[n - 1], at, parts[n])
    <3>1. n - 1 \in 0..4
      OBVIOUS
    <3> QED BY <2>1, <3>1 DEF CopiesOf
  <2>3. CopyAt(outs[n - 1], at, parts[n])[p] =
            IF p - at \in 1..Len(parts[n]) THEN parts[n][p - at] ELSE outs[n - 1][p]
    <3> DEFINE out == outs[n - 1]
               part == parts[n]
    <3>1. out \in Handoffs /\ part \in Seq(Nat)
      BY <2>2
    <3> HIDE DEF out, part
    <3>2. \A q \in 1..HandoffBytes :
              CopyAt(out, at, part)[q] =
                  IF q - at \in 1..Len(part) THEN part[q - at] ELSE out[q]
      BY <3>1, CopyValues
    <3> QED BY <3>2 DEF out, part
  <2> QED BY <2>1, <2>2, <2>3
<1>3. \A p \in 1..HandoffBytes :
          /\ outs[1][p] = IF p - start \in 1..width THEN parts[1][p - start] ELSE outs[0][p]
          /\ outs[2][p] = IF p - (start + width) \in 1..width
                          THEN parts[2][p - (start + width)] ELSE outs[1][p]
          /\ outs[3][p] = IF p - (start + 2 * width) \in 1..width
                          THEN parts[3][p - (start + 2 * width)] ELSE outs[2][p]
          /\ outs[4][p] = IF p - (start + 3 * width) \in 1..width
                          THEN parts[4][p - (start + 3 * width)] ELSE outs[3][p]
  <2> SUFFICES ASSUME NEW p \in 1..HandoffBytes
               PROVE  /\ outs[1][p] = IF p - start \in 1..width
                                      THEN parts[1][p - start] ELSE outs[0][p]
                      /\ outs[2][p] = IF p - (start + width) \in 1..width
                                      THEN parts[2][p - (start + width)] ELSE outs[1][p]
                      /\ outs[3][p] = IF p - (start + 2 * width) \in 1..width
                                      THEN parts[3][p - (start + 2 * width)] ELSE outs[2][p]
                      /\ outs[4][p] = IF p - (start + 3 * width) \in 1..width
                                      THEN parts[4][p - (start + 3 * width)] ELSE outs[3][p]
    OBVIOUS
  <2>1. outs[1][p] = put(1, outs[0], p)
    <3>1. 1 \in 1..4 /\ 1 - 1 = 0
      OBVIOUS
    <3> HIDE DEF put
    <3> QED BY <1>2, <3>1
  <2>2. outs[2][p] = put(2, outs[1], p)
    <3>1. 2 \in 1..4 /\ 2 - 1 = 1
      OBVIOUS
    <3> HIDE DEF put
    <3> QED BY <1>2, <3>1
  <2>3. outs[3][p] = put(3, outs[2], p)
    <3>1. 3 \in 1..4 /\ 3 - 1 = 2
      OBVIOUS
    <3> HIDE DEF put
    <3> QED BY <1>2, <3>1
  <2>4. outs[4][p] = put(4, outs[3], p)
    <3>1. 4 \in 1..4 /\ 4 - 1 = 3
      OBVIOUS
    <3> HIDE DEF put
    <3> QED BY <1>2, <3>1
  <2>5. /\ start + (1 - 1) * width = start /\ start + (2 - 1) * width = start + width
        /\ start + (3 - 1) * width = start + 2 * width
        /\ start + (4 - 1) * width = start + 3 * width
    OBVIOUS
  <2> QED BY <2>1, <2>2, <2>3, <2>4, <2>5
<1>4. ASSUME NEW n \in 1..4, NEW i \in 1..width
      PROVE  outs[4][start + (n - 1) * width + i] = parts[n][i]
  <2>1. CASE n = 1
    <3>1. PICK p \in 1..HandoffBytes : p = start + i
      BY <1>1
    <3>2. start + (n - 1) * width + i = p
      BY <2>1, <3>1
    <3> QED BY <1>3, <2>1, <3>1, <3>2
  <2>2. CASE n = 2
    <3>1. PICK p \in 1..HandoffBytes : p = start + width + i
      BY <1>1
    <3>2. start + (n - 1) * width + i = p
      BY <2>2, <3>1
    <3> QED BY <1>3, <2>2, <3>1, <3>2
  <2>3. CASE n = 3
    <3>1. PICK p \in 1..HandoffBytes : p = start + 2 * width + i
      BY <1>1
    <3>2. start + (n - 1) * width + i = p
      BY <2>3, <3>1
    <3> QED BY <1>3, <2>3, <3>1, <3>2
  <2>4. CASE n = 4
    <3>1. PICK p \in 1..HandoffBytes : p = start + 3 * width + i
      BY <1>1
    <3>2. start + (n - 1) * width + i = p
      BY <2>4, <3>1
    <3> QED BY <1>3, <2>4, <3>1, <3>2
  <2> QED BY <2>1, <2>2, <2>3, <2>4
<1>5. ASSUME NEW p \in 1..HandoffBytes, p <= start \/ p > start + 4 * width
      PROVE  outs[4][p] = outs[0][p]
  <2>1. /\ ~(p - start \in 1..width) /\ ~(p - (start + width) \in 1..width)
        /\ ~(p - (start + 2 * width) \in 1..width)
        /\ ~(p - (start + 3 * width) \in 1..width)
    BY <1>1, <1>5
  <2> QED BY <1>3, <2>1, Zenon
<1> QED BY <1>4, <1>5

\* The bytes with the tag in them, and then with the numbers.
Tagged == CopyAt([i \in 1..HandoffBytes |-> 0], 0, Tag)

Counted(numbers) ==
    FoldLeftDomain(LAMBDA out, n : CopyAt(out, NumberAt(n - 1), U64Bytes(numbers[n])),
                   Tagged, numbers)

FourNumbers(numbers) ==
    DOMAIN numbers = 1..4 /\ \A n \in 1..4 : U64Bytes(numbers[n]) \in Seq(Nat)

FourIdentities(identities) ==
    DOMAIN identities = 1..4 /\ \A n \in 1..4 : identities[n] \in Seq(Nat)

\* The four numbers are copied behind the tag.
LEMMA NumbersCopied ==
    ASSUME NEW numbers, FourNumbers(numbers), Tagged \in Handoffs
    PROVE  \E outs \in [0..4 -> Handoffs] :
               /\ outs[0] = Tagged /\ Counted(numbers) = outs[4]
               /\ \A n \in 1..4 :
                      outs[n] = CopyAt(outs[n - 1], NumberAt(n - 1), U64Bytes(numbers[n]))
<1>0. PICK four \in Nat : four = 4
  OBVIOUS
<1> DEFINE V == Handoffs
           base == Tagged
           put(out, n) == CopyAt(out, NumberAt(n - 1), U64Bytes(numbers[n]))
           places == [n \in DOMAIN numbers |-> n]
           Recurs(f, m) ==
               f = [T \in SUBSET (1..m) |->
                       IF T = {} THEN base ELSE put(f[T \ {Max(T)}], places[Max(T)])]
           step == [n \in 1..four |-> [v \in V |-> put(v, n)]]
<1>1. four \in Nat /\ \A n \in 1..four : n \in 1..4
  BY <1>0
<1>2. DOMAIN places = 1..four /\ \A n \in 1..four : places[n] = n
  BY <1>0 DEF FourNumbers
<1>3. Counted(numbers) = (CHOOSE f : Recurs(f, four))[1..four]
  <2>1. Counted(numbers) = FoldLeft(LAMBDA out, n : put(out, n), base, places)
    BY DEF Counted, FoldLeftDomain
  <2> HIDE DEF put, places, base
  <2> QED BY <1>2, <2>1 DEF FoldLeft, MapThenFoldSet
<1>4. base \in V /\ \A n \in 1..four : \A v \in V :
          step[n][v] = put(v, n) /\ step[n][v] \in V
  <2>1. ASSUME NEW n \in 1..4, NEW v \in V PROVE put(v, n) \in V
    <3>1. NumberAt(n - 1) \in Nat
      BY PartsStand
    <3>2. U64Bytes(numbers[n]) \in Seq(Nat)
      BY DEF FourNumbers
    <3> QED BY <3>1, <3>2, CopyValues
  <2> HIDE DEF V
  <2> QED BY <1>1, <2>1 DEF V
<1> HIDE DEF places, step, put
<1>6. PICK f : FoldOf(f, four, V, base, step)
  <2> HIDE DEF V, base
  <2> QED BY <1>1, <1>4, SetRecursion
<1>7. \E h : Recurs(h, four)
  <2>1. ASSUME NEW T \in SUBSET (1..four), T # {}
        PROVE  step[Max(T)][f[T \ {Max(T)}]] = put(f[T \ {Max(T)}], places[Max(T)])
    <3>1. Max(T) \in 1..four /\ f[T \ {Max(T)}] \in V
      BY <1>1, <1>6, <2>1, MaxOfPositions DEF FoldOf
    <3> HIDE DEF V
    <3> QED BY <1>2, <1>4, <3>1
  <2>2. Recurs(f, four)
    BY <1>6, <2>1 DEF FoldOf
  <2> QED BY <2>2
<1>8. PICK g : Recurs(g, four) /\ Counted(numbers) = g[1..four]
  <2> HIDE DEF Recurs
  <2> QED BY <1>3, <1>7
<1>9. FoldsIn(g, four, V, base, step)
  <2>1. ASSUME NEW T \in (SUBSET (1..four)) \ {{}}, g[T \ {Max(T)}] \in V
        PROVE  g[T] = step[Max(T)][g[T \ {Max(T)}]]
    <3>1. Max(T) \in 1..four
      BY <1>1, MaxOfPositions
    <3>2. g[T] = put(g[T \ {Max(T)}], places[Max(T)])
      BY <1>8
    <3> HIDE DEF V
    <3> QED BY <1>2, <1>4, <2>1, <3>1, <3>2
  <2>2. g[{}] = base
    BY <1>8
  <2> HIDE DEF V, base
  <2> QED BY <2>1, <2>2 DEF FoldsIn
<1> HIDE DEF Recurs
<1>10. PICK run \in [0..four -> V] :
           /\ run[0] = base /\ g[1..four] = run[four]
           /\ \A i \in 1..four : run[i] = step[i][run[i - 1]]
  <2> HIDE DEF V, base
  <2>1. base \in V /\ \A i \in 1..four : \A v \in V : step[i][v] \in V
    BY <1>4
  <2>2. four \in Nat
    BY <1>1
  <2> QED BY <1>9, <2>1, <2>2, FoldRuns
<1>11. ASSUME NEW n \in 1..four PROVE run[n] = put(run[n - 1], n)
  <2>1. run[n - 1] \in V
    BY <1>1
  <2> QED BY <1>4, <1>10, <2>1
<1> QED BY <1>0, <1>8, <1>10, <1>11 DEF put

\* The four identities are copied behind the numbers.
LEMMA IdentitiesCopied ==
    ASSUME NEW numbers, NEW identities, FourIdentities(identities),
           Counted(numbers) \in Handoffs
    PROVE  \E outs \in [0..4 -> Handoffs] :
               /\ outs[0] = Counted(numbers) /\ Encode(numbers, identities) = outs[4]
               /\ \A n \in 1..4 :
                      outs[n] = CopyAt(outs[n - 1], IdentityAt(n - 1), identities[n])
<1>0. PICK four \in Nat : four = 4
  OBVIOUS
<1> DEFINE V == Handoffs
           base == Counted(numbers)
           put(out, n) == CopyAt(out, IdentityAt(n - 1), identities[n])
           places == [n \in DOMAIN identities |-> n]
           Recurs(f, m) ==
               f = [T \in SUBSET (1..m) |->
                       IF T = {} THEN base ELSE put(f[T \ {Max(T)}], places[Max(T)])]
           step == [n \in 1..four |-> [v \in V |-> put(v, n)]]
<1>1. four \in Nat /\ \A n \in 1..four : n \in 1..4
  BY <1>0
<1>2. DOMAIN places = 1..four /\ \A n \in 1..four : places[n] = n
  BY <1>0 DEF FourIdentities
<1>3. Encode(numbers, identities) = (CHOOSE f : Recurs(f, four))[1..four]
  <2>1. Encode(numbers, identities) = FoldLeft(LAMBDA out, n : put(out, n), base, places)
    BY DEF Encode, Counted, Tagged, FoldLeftDomain
  <2> HIDE DEF put, places, base
  <2> QED BY <1>2, <2>1 DEF FoldLeft, MapThenFoldSet
<1>4. base \in V /\ \A n \in 1..four : \A v \in V :
          step[n][v] = put(v, n) /\ step[n][v] \in V
  <2>1. ASSUME NEW n \in 1..4, NEW v \in V PROVE put(v, n) \in V
    <3>1. IdentityAt(n - 1) \in Nat
      BY PartsStand
    <3>2. identities[n] \in Seq(Nat)
      BY DEF FourIdentities
    <3> QED BY <3>1, <3>2, CopyValues
  <2> HIDE DEF V
  <2> QED BY <1>1, <2>1 DEF V
<1> HIDE DEF places, step, put
<1>6. PICK f : FoldOf(f, four, V, base, step)
  <2> HIDE DEF V, base
  <2> QED BY <1>1, <1>4, SetRecursion
<1>7. \E h : Recurs(h, four)
  <2>1. ASSUME NEW T \in SUBSET (1..four), T # {}
        PROVE  step[Max(T)][f[T \ {Max(T)}]] = put(f[T \ {Max(T)}], places[Max(T)])
    <3>1. Max(T) \in 1..four /\ f[T \ {Max(T)}] \in V
      BY <1>1, <1>6, <2>1, MaxOfPositions DEF FoldOf
    <3> HIDE DEF V
    <3> QED BY <1>2, <1>4, <3>1
  <2>2. Recurs(f, four)
    BY <1>6, <2>1 DEF FoldOf
  <2> QED BY <2>2
<1>8. PICK g : Recurs(g, four) /\ Encode(numbers, identities) = g[1..four]
  <2> HIDE DEF Recurs
  <2> QED BY <1>3, <1>7
<1>9. FoldsIn(g, four, V, base, step)
  <2>1. ASSUME NEW T \in (SUBSET (1..four)) \ {{}}, g[T \ {Max(T)}] \in V
        PROVE  g[T] = step[Max(T)][g[T \ {Max(T)}]]
    <3>1. Max(T) \in 1..four
      BY <1>1, MaxOfPositions
    <3>2. g[T] = put(g[T \ {Max(T)}], places[Max(T)])
      BY <1>8
    <3> HIDE DEF V
    <3> QED BY <1>2, <1>4, <2>1, <3>1, <3>2
  <2>2. g[{}] = base
    BY <1>8
  <2> HIDE DEF V, base
  <2> QED BY <2>1, <2>2 DEF FoldsIn
<1> HIDE DEF Recurs
<1>10. PICK run \in [0..four -> V] :
           /\ run[0] = base /\ g[1..four] = run[four]
           /\ \A i \in 1..four : run[i] = step[i][run[i - 1]]
  <2> HIDE DEF V, base
  <2>1. base \in V /\ \A i \in 1..four : \A v \in V : step[i][v] \in V
    BY <1>4
  <2>2. four \in Nat
    BY <1>1
  <2> QED BY <1>9, <2>1, <2>2, FoldRuns
<1>11. ASSUME NEW n \in 1..four PROVE run[n] = put(run[n - 1], n)
  <2>1. run[n - 1] \in V
    BY <1>1
  <2> QED BY <1>4, <1>10, <2>1
<1> QED BY <1>0, <1>8, <1>10, <1>11 DEF put

\* A part stands in s from behind place m on.
Stands(s, m, part) == \A i \in 1..Len(part) : s[m + i] = part[i]

\* A part that stands somewhere is what is cut from there.
LEMMA CutIs ==
    ASSUME NEW s \in Seq(Nat), NEW m \in Nat, NEW part \in Seq(Nat),
           m + Len(part) <= Len(s), Stands(s, m, part)
    PROVE  SubSeq(s, m + 1, m + Len(part)) = part
<1>0. PICK w \in Nat : w = Len(part)
  OBVIOUS
<1> DEFINE from == m + 1
           to == m + w
<1>1. PICK n \in Nat : n = Len(s) /\ m + w <= n
  BY <1>0
<1>2. /\ from \in 1..n + 1 /\ to \in (from - 1)..n /\ w = to - from + 1
      /\ \A i \in 1..w : from + i - 1 = m + i
  BY <1>1
<1> HIDE DEF from, to
<1>3. \A i \in 1..Len(part) : part[i] = s[from + i - 1]
  BY <1>0, <1>2 DEF Stands
<1>4. part = SubSeq(s, from, to)
  <2>1. /\ from \in 1..Len(s) + 1 /\ to \in (from - 1)..Len(s)
        /\ Len(part) = to - from + 1
    BY <1>0, <1>1, <1>2
  <2> QED BY <1>3, <2>1, PieceIsUnique
<1> QED BY <1>0, <1>4 DEF from, to

\* Four numbers of a word and four identities, as a handoff is made of.
OfItsWidths(a) ==
    /\ FourNumbers(a.numbers)
    /\ \A n \in 1..4 : /\ a.identities[n] \in Seq(Nat)
                       /\ Len(a.identities[n]) = IdentityBytes
                       /\ a.numbers[n] \in 0..(Place[WordBytes] - 1)

\* All parts stand where they belong.
Carries(bytes, a) ==
    /\ \A i \in 1..4 : bytes[i] = Tag[i]
    /\ \A n \in 1..4 : /\ Stands(bytes, NumberAt(n - 1), U64Bytes(a.numbers[n]))
                       /\ Stands(bytes, IdentityAt(n - 1), a.identities[n])

\* What a handoff must be, said of its bytes.
LEMMA HandoffByBytes ==
    ASSUME NEW bytes \in Handoffs, NEW a, OfItsWidths(a), Carries(bytes, a)
    PROVE  IsHandoffOf(bytes, a)
<1> DEFINE H == HandoffBytes
<1>1. /\ H \in Nat /\ H >= 4 /\ WordBytes \in Nat /\ IdentityBytes \in Nat
      /\ \A n \in 1..4 : /\ NumberAt(n - 1) \in Nat /\ NumberAt(n) = NumberAt(n - 1) + WordBytes
                         /\ IdentityAt(n - 1) \in Nat
                         /\ IdentityAt(n) = IdentityAt(n - 1) + IdentityBytes
                         /\ NumberAt(n) <= H /\ IdentityAt(n) <= H
  <2>1. NumberAt(4) <= H /\ H >= 4 /\ NumberAt(4) \in Nat /\ H \in Nat
    <3>1. PICK w \in Nat, k \in Nat : NumberAt(4) = 4 + 4 * w /\ H = NumberAt(4) + 4 * k
      BY PartsStand
    <3> HIDE DEF H
    <3>2. 4 + 4 * w \in Nat /\ 4 + 4 * w + 4 * k \in Nat
          /\ 4 + 4 * w <= 4 + 4 * w + 4 * k /\ 4 + 4 * w + 4 * k >= 4
      OBVIOUS
    <3>3. NumberAt(4) \in Nat /\ H \in Nat
      BY <3>1, <3>2, Zenon
    <3>4. NumberAt(4) <= H /\ H >= 4
      BY <3>1, <3>2, Zenon
    <3> QED BY <3>3, <3>4, Zenon
  <2> HIDE DEF H
  <2>2. ASSUME NEW n \in 1..4 PROVE NumberAt(n) <= H
    <3>1. /\ NumberAt(n) = NumberAt(n - 1) + WordBytes /\ NumberAt(n - 1) \in Nat
          /\ WordBytes \in Nat /\ NumberAt(n) <= NumberAt(4)
      BY PartsStand
    <3> QED BY <2>1, <3>1
  <2> QED BY <2>1, <2>2, PartsStand DEF H
<1>2. bytes \in Seq(Nat) /\ Len(bytes) = H
  <2>1. bytes \in [1..H -> Nat] /\ H \in Nat
    BY <1>1 DEF Handoffs
  <2> HIDE DEF H
  <2> QED BY <2>1
<1> HIDE DEF H
<1>4. ValidateHandoff(bytes) = 0
  <2> DEFINE two == SubSeq(Tag, 1, 2)
  <2>1. two \in Seq(Nat) /\ Len(two) = 2 /\ \A i \in 1..2 : two[i] = Tag[i]
    <3>1. Tag \in Seq(Nat) /\ Len(Tag) = 4
      BY DEF Tag
    <3>2. PICK one \in Nat, last \in Nat : one = 1 /\ last = 2
      OBVIOUS
    <3>3. one \in 1..Len(Tag) + 1 /\ last \in (one - 1)..Len(Tag)
      BY <3>1, <3>2
    <3>4. /\ SubSeq(Tag, one, last) \in Seq(Nat)
          /\ Len(SubSeq(Tag, one, last)) = last - one + 1
          /\ \A i \in 1..(last - one + 1) : SubSeq(Tag, one, last)[i] = Tag[one + i - 1]
      BY <3>1, <3>3, PieceProperties
    <3>5. last - one + 1 = 2 /\ \A i \in 1..2 : one + i - 1 = i
      BY <3>2
    <3>6. two = SubSeq(Tag, one, last)
      BY <3>2
    <3> HIDE DEF two
    <3> QED BY <3>4, <3>5, <3>6
  <2> HIDE DEF two
  <2>2. SubSeq(bytes, 1, 2) = two
    <3>1. PICK m \in Nat : m = 0
      OBVIOUS
    <3>2. \A i \in 1..2 : m + i = i /\ i \in 1..4
      BY <3>1
    <3>3. \A i \in 1..4 : bytes[i] = Tag[i]
      BY DEF Carries
    <3>4. Stands(bytes, m, two)
      BY <2>1, <3>2, <3>3 DEF Stands
    <3>5. m + Len(two) <= Len(bytes) /\ m + Len(two) = 2 /\ m + 1 = 1
      BY <1>1, <1>2, <2>1, <3>1
    <3>6. SubSeq(bytes, m + 1, m + Len(two)) = two
      BY <1>2, <2>1, <3>4, <3>5, CutIs
    <3> QED BY <3>5, <3>6
  <2>3. bytes[3] = Tag[3] /\ bytes[4] = Tag[4]
    BY DEF Carries
  <2> QED BY <1>2, <2>2, <2>3 DEF ValidateHandoff, H, two
<1>5. ASSUME NEW n \in 1..4
      PROVE  /\ NumberOf(SubSeq(bytes, NumberAt(n - 1) + 1, NumberAt(n))) = a.numbers[n]
             /\ SubSeq(bytes, IdentityAt(n - 1) + 1, IdentityAt(n)) = a.identities[n]
  <2>1. PICK m \in Nat : m = NumberAt(n - 1) /\ NumberAt(n) = m + WordBytes
                         /\ m + WordBytes <= H
    BY <1>1
  <2>2. PICK part \in Seq(Nat) : part = U64Bytes(a.numbers[n]) /\ Len(part) = WordBytes
                                 /\ NumberOf(part) = a.numbers[n]
    BY NumberBack DEF OfItsWidths
  <2>3. Stands(bytes, m, part)
    BY <2>1, <2>2 DEF Carries
  <2>4. SubSeq(bytes, m + 1, m + Len(part)) = part
    <3>1. m + Len(part) <= Len(bytes)
      BY <1>2, <2>1, <2>2
    <3> QED BY <1>2, <2>3, <3>1, CutIs
  <2>5. PICK k \in Nat : k = IdentityAt(n - 1) /\ IdentityAt(n) = k + IdentityBytes
                         /\ k + IdentityBytes <= H
    BY <1>1
  <2>6. PICK name \in Seq(Nat) : name = a.identities[n] /\ Len(name) = IdentityBytes
    BY DEF OfItsWidths
  <2>7. Stands(bytes, k, name)
    BY <2>5, <2>6 DEF Carries
  <2>8. SubSeq(bytes, k + 1, k + Len(name)) = name
    <3>1. k + Len(name) <= Len(bytes)
      BY <1>2, <2>5, <2>6
    <3> QED BY <1>2, <2>7, <3>1, CutIs
  <2> QED BY <2>1, <2>2, <2>4, <2>5, <2>6, <2>8
<1> QED BY <1>4, <1>5 DEF IsHandoffOf

\* The tagged buffer is one of octets, of the length of a handoff.
LEMMA TaggedTyped ==
    Tagged \in Handoffs /\ \A i \in 1..4 : Tagged[i] = Tag[i]
<1> DEFINE blank == [i \in 1..HandoffBytes |-> 0]
           tag == Tag
           offset == 0
<1>1. HandoffBytes \in Nat /\ HandoffBytes >= 4
  BY PartsStand
<1>2. blank \in Handoffs
  BY DEF Handoffs
<1>3. tag \in Seq(Nat) /\ Len(tag) = 4
  BY DEF Tag
<1>4. offset \in Nat /\ \A i \in 1..4 : i - offset = i /\ i \in 1..HandoffBytes
  BY <1>1
<1> HIDE DEF blank, tag, offset
<1>5. /\ CopyAt(blank, offset, tag) \in Handoffs
      /\ \A p \in 1..HandoffBytes :
             CopyAt(blank, offset, tag)[p] =
                 IF p - offset \in 1..Len(tag) THEN tag[p - offset] ELSE blank[p]
  BY <1>2, <1>3, <1>4, CopyValues
<1>6. Tagged = CopyAt(blank, offset, tag)
  BY DEF Tagged, blank, tag, offset
<1> QED BY <1>3, <1>4, <1>5, <1>6 DEF tag

\* What is encoded is a handoff of its arguments.
LEMMA EncodedIsHandoff ==
    ASSUME NEW a, OfItsWidths(a), FourIdentities(a.identities)
    PROVE  IsHandoffOf(Encode(a.numbers, a.identities), a)
<1> DEFINE numbers == a.numbers
           identities == a.identities
           bytes == Encode(numbers, identities)
           H == HandoffBytes
           W == WordBytes
           I == IdentityBytes
           N == NumberAt(4)
<1>1. /\ W \in Nat /\ I \in Nat /\ H \in Nat /\ H = N + 4 * I /\ N = 4 + 4 * W
      /\ N \in Nat
      /\ \A n \in 1..4 : /\ NumberAt(n - 1) = 4 + (n - 1) * W
                         /\ IdentityAt(n - 1) = N + (n - 1) * I
                         /\ NumberAt(n - 1) \in Nat /\ IdentityAt(n - 1) \in Nat
  BY PartsStand
<1>2. FourNumbers(numbers) /\ FourIdentities(identities)
      /\ \A n \in 1..4 : /\ identities[n] \in Seq(Nat) /\ U64Bytes(numbers[n]) \in Seq(Nat)
                         /\ Len(identities[n]) = I /\ Len(U64Bytes(numbers[n])) = W
  <2>1. FourNumbers(numbers) /\ FourIdentities(identities)
    BY DEF OfItsWidths
  <2>2. \A n \in 1..4 : /\ identities[n] \in Seq(Nat) /\ Len(identities[n]) = I
                        /\ numbers[n] \in 0..(Place[WordBytes] - 1)
    BY DEF OfItsWidths
  <2>3. \A n \in 1..4 : U64Bytes(numbers[n]) \in Seq(Nat) /\ Len(U64Bytes(numbers[n])) = W
    BY <2>2, NumberBack
  <2> QED BY <2>1, <2>2, <2>3
<1> HIDE DEF numbers, identities, H, W, I, N
<1>3. PICK outs \in [0..4 -> Handoffs] :
          /\ outs[0] = Tagged /\ Counted(numbers) = outs[4]
          /\ \A n \in 1..4 :
                 outs[n] = CopyAt(outs[n - 1], NumberAt(n - 1), U64Bytes(numbers[n]))
  BY <1>2, TaggedTyped, NumbersCopied
<1> DEFINE written == [n \in 1..4 |-> U64Bytes(numbers[n])]
           four == 4
<1>4. CopiesOf(outs, written, four, W)
  <2>1. written \in [1..4 -> Seq(Nat)] /\ \A n \in 1..4 : written[n] = U64Bytes(numbers[n])
    BY <1>2
  <2>2. \A n \in 1..4 : outs[n] = CopyAt(outs[n - 1], four + (n - 1) * W, written[n])
    BY <1>1, <1>3, <2>1
  <2> HIDE DEF written, four
  <2> QED BY <1>2, <1>3, <2>1, <2>2 DEF CopiesOf
<1>5. \A n \in 1..4 : written[n] = U64Bytes(numbers[n])
  OBVIOUS
<1>6. four \in Nat /\ four + 4 * W = N /\ four + 4 * W <= H /\ four = 4
  BY <1>1
<1> HIDE DEF written, four
<1>7. /\ \A n \in 1..4 : \A i \in 1..W : outs[4][four + (n - 1) * W + i] = written[n][i]
      /\ \A p \in 1..H : p <= four \/ p > four + 4 * W => outs[4][p] = outs[0][p]
  <2>1. four \in Nat /\ W \in Nat /\ four + 4 * W <= HandoffBytes
    BY <1>1, <1>6 DEF H
  <2> QED BY <1>4, <2>1, FourStand, Zenon DEF H
<1>8. outs[4] \in Handoffs /\ Counted(numbers) \in Handoffs
  <2>1. 4 \in 0..4
    OBVIOUS
  <2> QED BY <1>3, <2>1
<1>9. PICK ends \in [0..4 -> Handoffs] :
          /\ ends[0] = Counted(numbers) /\ bytes = ends[4]
          /\ \A n \in 1..4 :
                 ends[n] = CopyAt(ends[n - 1], IdentityAt(n - 1), identities[n])
  <2>1. FourIdentities(identities) /\ Counted(numbers) \in Handoffs
    BY <1>2, <1>8
  <2>2. \E ends \in [0..4 -> Handoffs] :
            /\ ends[0] = Counted(numbers) /\ Encode(numbers, identities) = ends[4]
            /\ \A n \in 1..4 :
                   ends[n] = CopyAt(ends[n - 1], IdentityAt(n - 1), identities[n])
    BY <2>1, IdentitiesCopied
  <2> QED BY <2>2
<1> HIDE DEF bytes
<1> DEFINE named == [n \in 1..4 |-> identities[n]]
<1>10. CopiesOf(ends, named, N, I)
  <2>1. named \in [1..4 -> Seq(Nat)] /\ \A n \in 1..4 : named[n] = identities[n]
    BY <1>2
  <2>2. \A n \in 1..4 : ends[n] = CopyAt(ends[n - 1], N + (n - 1) * I, named[n])
    BY <1>1, <1>9, <2>1
  <2> HIDE DEF named
  <2> QED BY <1>2, <1>9, <2>1, <2>2 DEF CopiesOf
<1>11. \A n \in 1..4 : named[n] = identities[n]
  OBVIOUS
<1> HIDE DEF named
<1>12. /\ \A n \in 1..4 : \A i \in 1..I : ends[4][N + (n - 1) * I + i] = named[n][i]
       /\ \A p \in 1..H : p <= N \/ p > N + 4 * I => ends[4][p] = ends[0][p]
  <2>1. N \in Nat /\ I \in Nat /\ N + 4 * I <= HandoffBytes
    BY <1>1 DEF H
  <2> QED BY <1>10, <2>1, FourStand, Zenon DEF H
<1>13. bytes \in Handoffs
  <2>1. 4 \in 0..4
    OBVIOUS
  <2> QED BY <1>9, <2>1
<1>14. \A p \in 1..H : p <= N => bytes[p] = outs[4][p]
  BY <1>3, <1>9, <1>12
<1>15. \A i \in 1..4 : bytes[i] = Tag[i]
  <2> SUFFICES ASSUME NEW i \in 1..4 PROVE bytes[i] = Tag[i]
    OBVIOUS
  <2>1. i \in 1..H /\ i <= N /\ i <= four
    <3>1. four = 4 /\ four <= N /\ N <= H /\ N \in Nat /\ H \in Nat
      BY <1>1, <1>6
    <3> QED BY <3>1
  <2>2. bytes[i] = outs[4][i] /\ outs[4][i] = outs[0][i]
    BY <1>7, <1>14, <2>1
  <2> QED BY <1>3, <2>2, TaggedTyped
<1>16. ASSUME NEW n \in 1..4, NEW i \in 1..W
       PROVE  bytes[NumberAt(n - 1) + i] = U64Bytes(numbers[n])[i]
  <2>1. NumberAt(n - 1) + i \in 1..H /\ NumberAt(n - 1) + i <= N
    <3>1. /\ NumberAt(n) = NumberAt(n - 1) + W /\ NumberAt(n) <= N
          /\ NumberAt(n - 1) \in Nat
      BY PartsStand DEF W, N
    <3>2. N <= H /\ N \in Nat /\ H \in Nat /\ W \in Nat
      BY <1>1
    <3>3. PICK m \in Nat : m = NumberAt(n - 1)
      BY <3>1
    <3> HIDE DEF H, W, N
    <3>4. m + W <= N
      BY <3>1, <3>3, Zenon
    <3>5. m \in Nat
      BY <3>1, <3>3, Zenon
    <3>6. m + i \in 1..H /\ m + i <= N
      BY <3>2, <3>4, <3>5
    <3> QED BY <3>3, <3>6, Zenon
  <2>2. outs[4][four + (n - 1) * W + i] = written[n][i]
    BY <1>7
  <2>3. NumberAt(n - 1) + i = four + (n - 1) * W + i
    BY <1>1, <1>6
  <2> QED BY <1>5, <1>14, <2>1, <2>2, <2>3
<1>17. ASSUME NEW n \in 1..4, NEW i \in 1..I
       PROVE  bytes[IdentityAt(n - 1) + i] = identities[n][i]
  <2>1. ends[4][N + (n - 1) * I + i] = named[n][i]
    BY <1>12
  <2>2. IdentityAt(n - 1) = N + (n - 1) * I
    BY <1>1
  <2> QED BY <1>9, <1>11, <2>1, <2>2
<1>18. IsHandoffOf(bytes, a)
  <2>1. ASSUME NEW n \in 1..4
        PROVE  /\ Stands(bytes, NumberAt(n - 1), U64Bytes(numbers[n]))
               /\ Stands(bytes, IdentityAt(n - 1), identities[n])
    BY <1>2, <1>16, <1>17 DEF Stands
  <2>2. Carries(bytes, a)
    BY <1>15, <2>1 DEF Carries, numbers, identities
  <2> QED BY <1>13, <2>2, HandoffByBytes
<1> QED BY <1>18 DEF bytes, numbers, identities

\* Four of something.
LEMMA FourOfS ==
    ASSUME NEW S, NEW s \in Seq(S), Len(s) = 4
    PROVE  /\ \A n \in 1..4 : s[n] \in S
           /\ DOMAIN s = 1..4 /\ s = [n \in 1..4 |-> s[n]]
<1>1. PICK four \in Nat : four = Len(s) /\ four = 4
  OBVIOUS
<1>2. s \in [1..four -> S]
  <2>1. s \in [1..Len(s) -> S]
    BY LenProperties
  <2> QED BY <1>1, <2>1, Zenon
<1>3. /\ \A n \in 1..four : s[n] \in S
      /\ DOMAIN s = 1..four /\ s = [n \in 1..four |-> s[n]]
  BY <1>2, Zenon
<1> QED BY <1>1, <1>3

\* encode_handoff: eight lanes come apart as four numbers and four identities,
\* and what is encoded carries each of them.
LEMMA HandoffCallsAreRight ==
    ASSUME NEW fields, NEW a,
           a \in [numbers : FourOf(0..(Place[WordBytes] - 1)),
                  identities : FourOf(Seq(0..(Radix - 1)))],
           Acceptable("encode_handoff", a)
    PROVE  IsRight(fields, "encode_handoff", a, Replies("encode_handoff", a))
<1> DEFINE f == "encode_handoff"
           l == a.numbers
           r == a.identities
           v == l \o r
           Part == Nat \cup Seq(Nat)
           Word == 0..(Place[WordBytes] - 1)
           Octets == Seq(0..(Radix - 1))
<1>1. v = Arguments(f, a)
  BY DEF Arguments
<1>2. l \in Seq(Word) /\ Len(l) = 4 /\ r \in Seq(Octets) /\ Len(r) = 4
  BY DEF FourOf
<1>21. ASSUME NEW n \in 1..4 PROVE l[n] \in Word /\ r[n] \in Octets
  <2> HIDE DEF Word, Octets, l, r
  <2> QED BY <1>2, FourOfS
<1>3. \A n \in 1..4 : /\ l[n] \in 0..(Place[WordBytes] - 1) /\ l[n] \in Nat
                      /\ r[n] \in Seq(Nat) /\ Len(r[n]) = IdentityBytes
  <2> SUFFICES ASSUME NEW n \in 1..4
               PROVE  /\ l[n] \in 0..(Place[WordBytes] - 1) /\ l[n] \in Nat
                      /\ r[n] \in Seq(Nat) /\ Len(r[n]) = IdentityBytes
    OBVIOUS
  <2>1. l[n] \in 0..(Place[WordBytes] - 1)
    BY <1>21
  <2>2. Place[WordBytes] \in Nat
    <3>1. WordBytes \in 0..WordBytes
      BY HandoffAssumption
    <3> QED BY <3>1, PlaceValues
  <2>3. r[n] \in Seq(Nat)
    <3>1. r[n] \in Seq(0..(Radix - 1))
      BY <1>21
    <3>2. Radix \in Nat
      BY HandoffAssumption
    <3> QED BY <3>1, <3>2
  <2>4. Len(r[n]) = IdentityBytes
    BY DEF Acceptable
  <2> QED BY <2>1, <2>2, <2>3, <2>4
<1>4. l \in Seq(Part) /\ r \in Seq(Part)
  <2>1. \A n \in 1..4 : l[n] \in Part /\ r[n] \in Part
    BY <1>3
  <2> HIDE DEF Part
  <2>2. /\ l = [n \in 1..4 |-> l[n]] /\ r = [n \in 1..4 |-> r[n]]
    <3> HIDE DEF Word, Octets, l, r
    <3> QED BY <1>2, FourOfS
  <2>3. 4 \in Nat
    OBVIOUS
  <2> QED BY <2>1, <2>2, <2>3
<1>5. FourNumbers(l) /\ FourIdentities(r)
  <2>1. DOMAIN l = 1..4 /\ DOMAIN r = 1..4
    BY <1>2
  <2> QED BY <1>3, <2>1, NumberBack DEF FourNumbers, FourIdentities
<1> HIDE DEF l, r, Part
<1>6. /\ v \in Seq(Part) /\ Len(v) = 8
      /\ \A n \in 1..4 : v[n] = l[n] /\ v[4 + n] = r[n]
  <2>1. v \in Seq(Part) /\ Len(v) = Len(l) + Len(r)
    BY <1>4, ConcatProperties
  <2> HIDE DEF v
  <2> QED BY <1>2, <1>4, <2>1, EightLanes DEF v
<1> HIDE DEF v
<1>7. SubSeq(v, 1, 4) = l /\ SubSeq(v, 5, 8) = r
  <2>1. /\ 1 \in 1..Len(v) + 1 /\ 4 \in (1 - 1)..Len(v) /\ Len(l) = 4 - 1 + 1
        /\ \A i \in 1..Len(l) : l[i] = v[1 + i - 1]
    BY <1>2, <1>6
  <2>2. /\ 5 \in 1..Len(v) + 1 /\ 8 \in (5 - 1)..Len(v) /\ Len(r) = 8 - 5 + 1
        /\ \A i \in 1..Len(r) : r[i] = v[5 + i - 1]
    <3>1. \A i \in 1..4 : 5 + i - 1 = 4 + i
      OBVIOUS
    <3> QED BY <1>2, <1>6, <3>1
  <2>3. l = SubSeq(v, 1, 4)
    BY <1>4, <1>6, <2>1, PieceIsUnique
  <2>4. r = SubSeq(v, 5, 8)
    BY <1>4, <1>6, <2>2, PieceIsUnique
  <2> QED BY <2>3, <2>4
<1>8. WellTyped(f, v) /\ InBounds(f, a)
  <2>1. \A n \in 5..8 : Len(v[n]) = IdentityBytes
    <3> SUFFICES ASSUME NEW n \in 5..8 PROVE Len(v[n]) = IdentityBytes
      OBVIOUS
    <3>1. PICK k \in 1..4 : n = 4 + k
      <4>1. n - 4 \in 1..4 /\ n = 4 + (n - 4)
        OBVIOUS
      <4> QED BY <4>1
    <3>2. v[4 + k] = r[k]
      BY <1>6, <3>1
    <3>3. Len(r[k]) = IdentityBytes
      BY <1>3, <3>1
    <3> QED BY <3>1, <3>2, <3>3, Zenon
  <2>2. \A n \in 1..4 : Len(a.identities[n]) = IdentityBytes
    BY <1>3 DEF r
  <2> QED BY <2>1, <2>2 DEF WellTyped, InBounds, Exactly
<1>9. ReadAnswer(f, a, Facade(f, v)) = Encode(l, r)
  BY <1>7 DEF ReadAnswer, Facade
<1>10. IsAnswer(fields, f, a, Encode(l, r))
  <2>1. IsHandoffOf(Encode(a.numbers, a.identities), a)
    <3>1. FourIdentities(a.identities) /\ OfItsWidths(a)
      BY <1>3, <1>5 DEF l, r, OfItsWidths, FourIdentities
    <3> QED BY <3>1, EncodedIsHandoff
  <2> QED BY <2>1 DEF IsAnswer, l, r
<1> HIDE DEF f
<1>11. IsRight(fields, f, a, Replies(f, a))
  BY <1>1, <1>8, <1>9, <1>10, RightWithinBounds
<1> QED BY <1>11 DEF f

-----------------------------------------------------------------------------
(* Whatever threads ask. *)

\* What threads ask once the record is written.
MayBeAsked(fields, function, a) ==
    \/ function \in Functions /\ a \in Inputs(function)
    \/ /\ function = "field_at"
       /\ \E k \in 1..Len(fields) :
              a = [line |-> EncodeRecord(fields), start |-> FieldStart(fields, k)]

\* Whatever threads may ask and could stage is answered rightly, by either way.
LEMMA RepliesAreRight ==
    ASSUME NEW fields \in Seq(Seq(Byte)), Len(fields) # 0, NEW function, NEW a,
           MayBeAsked(fields, function, a),
           StagingFits(function, a), Acceptable(function, a)
    PROVE  IsRight(fields, function, a, Replies(function, a))
<1>1. CASE function = "field_at"
           /\ \E k \in 1..Len(fields) :
                  a = [line |-> EncodeRecord(fields), start |-> FieldStart(fields, k)]
  <2>1. PICK k \in 1..Len(fields) :
            a = [line |-> EncodeRecord(fields), start |-> FieldStart(fields, k)]
    BY <1>1
  <2>2. StagingFits("field_at", a)
    BY <1>1
  <2>3. IsRight(fields, "field_at", a, Replies("field_at", a))
    BY <2>1, <2>2, FieldCallsAreRight
  <2> QED BY <1>1, <2>3
<1>2. CASE function \in Functions /\ a \in Inputs(function)
  <2>1. a \in HostArguments(function)
    BY <1>2, AskedAssumption, Zenon
  <2>2. CASE function = "next_line"
    <3>1. a \in [carry : Seq(Byte), view : Seq(Byte), eof : BOOLEAN]
      BY <2>1, <2>2 DEF HostArguments
    <3>2. StagingFits("next_line", a)
      BY <2>2
    <3> QED BY <2>2, <3>1, <3>2, LineCallsAreRight, Zenon
  <2>3. CASE function \in {"classify_event", "classify_object", "parse_transfer"}
    <3>1. a \in [word : Seq(Piece)]
      BY <2>1, <2>3 DEF HostArguments
    <3> QED BY <2>3, <3>1, WordCallsAreRight, Zenon
  <2>4. CASE function = "object_spelling_matches"
    <3>1. a \in [word : Seq(Piece), code : Int]
      BY <2>1, <2>4 DEF HostArguments
    <3> QED BY <2>4, <3>1, SpellingCallsAreRight, Zenon
  <2>5. CASE function \in {"object_status", "canonical_status"}
    <3>1. a \in [code : Int, quantity : Quantities]
      BY <2>1, <2>5 DEF HostArguments
    <3> QED BY <2>5, <3>1, StatusCallsAreRight, Zenon
  <2>6. CASE function = "validate"
    <3>1. a \in [event : Int, source_present : BOOLEAN, target_present : BOOLEAN,
                 quantity : Quantities]
      BY <2>1, <2>6 DEF HostArguments
    <3> QED BY <2>6, <3>1, TransferCallsAreRight, Zenon
  <2>7. CASE function = "spell_equal"
    <3>1. a \in [left : Seq(Piece), right : Seq(Piece)]
      BY <2>1, <2>7 DEF HostArguments
    <3> QED BY <2>7, <3>1, EqualCallsAreRight, Zenon
  <2>8. CASE function = "codes_equal"
    <3>1. a \in [left : CodedFacts, right : CodedFacts]
      BY <2>1, <2>8 DEF HostArguments
    <3> QED BY <2>8, <3>1, CodesCallsAreRight, Zenon
  <2>9. CASE function \in {"sort_codes", "is_sorted"}
    <3>1. a \in [codes : Seq(Nat)]
      BY <2>1, <2>9 DEF HostArguments
    <3> QED BY <2>9, <3>1, SortCallsAreRight, SortedCallsAreRight, Zenon
  <2>10. CASE function = "encode_handoff"
    <3>1. a \in [numbers : FourOf(0..(Place[WordBytes] - 1)),
                 identities : FourOf(Seq(0..(Radix - 1)))]
      BY <2>1, <2>10 DEF HostArguments
    <3>2. Acceptable("encode_handoff", a)
      BY <2>10
    <3> QED BY <2>10, <3>1, <3>2, HandoffCallsAreRight, Zenon
  <2>11. function \in {"next_line", "classify_event", "classify_object",
                       "parse_transfer", "object_spelling_matches", "object_status",
                       "canonical_status", "validate", "spell_equal", "codes_equal",
                       "sort_codes", "is_sorted", "encode_handoff"}
    BY <1>2, AskedAssumption, Zenon
  <2> QED BY <2>2, <2>3, <2>4, <2>5, <2>6, <2>7, <2>8, <2>9, <2>10, <2>11
<1> QED BY <1>1, <1>2 DEF MayBeAsked

-----------------------------------------------------------------------------
(* Threads that ask. *)

\* A call that was staged and not yet answered.
Staged(call) ==
    StagingFits(call.function, call.args) /\ Acceptable(call.function, call.args)

\* AnswersAreRight of one thread.
AnsweredRightly(fields, at, call, r, n) ==
    at = "answered" =>
        IF r.status = "ok"
        THEN /\ InBounds(call.function, call.args)
             /\ IsAnswer(fields, call.function, call.args, r.value)
        ELSE \/ ~InBounds(call.function, call.args)
             \/ n > 0 /\ call.route = "session"

\* Answers are right when those of each thread are.
LEMMA AnswersOfThreads ==
    AnswersAreRight <=>
        \A t \in Threads :
            AnsweredRightly(record, pc[t], asked[t], reply[t], panics)
BY Zenon DEF AnswersAreRight, AnsweredRightly

\* What a thread is about, where it stands in a call.
ThreadAsks(fields, at, call, r, calls, n) ==
    /\ calls \in Nat
    /\ at # "idle" => calls # 0 /\ MayBeAsked(fields, call.function, call.args)
    /\ at \in {"acquire", "holding", "inside", "interpret"} => Staged(call)
    /\ at \in {"acquire", "holding", "inside"} => call.route = "session"
    /\ AnsweredRightly(fields, at, call, r, n)

\* What all threads are about.
AsksInv ==
    /\ made = [t \in Threads |-> made[t]]
    /\ \A t \in Threads :
           ThreadAsks(record, pc[t], asked[t], reply[t], made[t], panics)

\* A step of one thread that leaves the others and the record alone.
AskingStep(t) ==
    /\ record' = record
    /\ made' = [u \in Threads |-> made'[u]]
    /\ \A u \in Threads \ {t} :
           /\ pc'[u] = pc[u] /\ asked'[u] = asked[u]
           /\ reply'[u] = reply[u] /\ made'[u] = made[u]
    /\ panics \in Nat /\ panics' \in Nat /\ panics' >= panics
    /\ ThreadAsks(record, pc'[t], asked'[t], reply'[t], made'[t], panics')

\* Other threads stay where they are, and a panic only widens what they may
\* get.
LEMMA OthersAsk ==
    ASSUME AsksInv, NEW t \in Threads, AskingStep(t)
    PROVE  AsksInv'
<1>1. \A fields, at, call, r, calls : \A n, m \in Nat :
          n <= m /\ ThreadAsks(fields, at, call, r, calls, n)
              => ThreadAsks(fields, at, call, r, calls, m)
  <2> SUFFICES ASSUME NEW fields, NEW at, NEW call, NEW r, NEW calls,
                      NEW n \in Nat, NEW m \in Nat, n <= m,
                      ThreadAsks(fields, at, call, r, calls, n)
               PROVE  ThreadAsks(fields, at, call, r, calls, m)
    BY Zenon
  <2>1. n > 0 => m > 0
    OBVIOUS
  <2> QED BY <2>1, Zenon DEF ThreadAsks, AnsweredRightly
<1>2. ASSUME NEW u \in Threads
      PROVE  ThreadAsks(record', pc'[u], asked'[u], reply'[u], made'[u], panics')
  <2>1. CASE u = t
    BY <2>1 DEF AskingStep
  <2>2. CASE u # t
    <3>1. ThreadAsks(record, pc[u], asked[u], reply[u], made[u], panics)
      BY DEF AsksInv
    <3>2. ThreadAsks(record, pc[u], asked[u], reply[u], made[u], panics')
      BY <1>1, <3>1 DEF AskingStep
    <3> QED BY <2>2, <3>2 DEF AskingStep
  <2> QED BY <2>1, <2>2
<1>3. made' = [u \in Threads |-> made'[u]]
  BY DEF AskingStep
<1> QED BY <1>2, <1>3 DEF AsksInv


\* What a wrapper refuses is out of bounds.
LEMMA RefusedIsOut ==
    ASSUME NEW function, NEW a, ~Acceptable(function, a)
    PROVE  ~InBounds(function, a)
<1>1. function = "encode_handoff"
  BY Zenon DEF Acceptable
<1>2. ~\A n \in 1..4 : Len(a.identities[n]) = IdentityBytes
  BY <1>1, Zenon DEF Acceptable
<1>3. InBounds(function, a) <=> \A n \in 1..4 : Len(a.identities[n]) = IdentityBytes
  BY <1>1 DEF InBounds
<1> QED BY <1>2, <1>3

\* A call is staged, refused or goes down with its staging.
LEMMA CallAsks ==
    ASSUME AsksInv, SessionInv, NEW t \in Threads, NEW route, NEW function, NEW a,
           MayBeAsked(record, function, a), Call(t, route, function, a),
           record' = record
    PROVE  AsksInv'
<1>. USE DEF ThreadState, Set, Places
<1>0. ThreadState /\ made = [u \in Threads |-> made[u]]
  BY DEF SessionInv, AsksInv
<1>1. UNCHANGED panics
  BY DEF Call, mutex
<1>2. ASSUME NEW u \in Threads \ {t}
      PROVE  pc'[u] = pc[u] /\ asked'[u] = asked[u] /\ reply'[u] = reply[u]
             /\ made'[u] = made[u]
  BY <1>0 DEF Call, Answer
<1>3. made' = [u \in Threads |-> made'[u]] /\ made'[t] = made[t] + 1
  BY <1>0 DEF Call
<1>4. made[t] \in Nat
  BY DEF AsksInv, ThreadAsks
<1> DEFINE call == [route |-> route, function |-> function, args |-> a]
<1>5. asked'[t] = call
  BY <1>0 DEF Call
<1>6. call.route = route /\ call.function = function /\ call.args = a
  OBVIOUS
<1>7. made'[t] \in Nat /\ made'[t] # 0
  BY <1>3, <1>4
<1>8. \/ Staged(call) /\ pc'[t] = IF route = "session" THEN "acquire" ELSE "interpret"
      \/ /\ ~Acceptable(function, a) /\ pc'[t] = "answered"
         /\ reply'[t] = LanguageError
      \/ pc'[t] = "panicked"
  <2>1. CASE StagingFits(function, a) /\ Acceptable(function, a)
    <3>1. Staged(call)
      BY <1>6, <2>1 DEF Staged
    <3>2. pc' = [pc EXCEPT ![t] = IF route = "session" THEN "acquire" ELSE "interpret"]
      BY <2>1 DEF Call
    <3> QED BY <1>0, <3>1, <3>2
  <2>2. CASE StagingFits(function, a) /\ ~Acceptable(function, a)
    <3>1. Answer(t, LanguageError)
      BY <2>2 DEF Call
    <3> QED BY <1>0, <2>2, <3>1 DEF Answer
  <2>3. CASE ~StagingFits(function, a)
    <3>1. pc' = [pc EXCEPT ![t] = "panicked"]
      BY <2>3 DEF Call
    <3> QED BY <1>0, <3>1
  <2> QED BY <2>1, <2>2, <2>3
<1> HIDE DEF call
<1>9. ThreadAsks(record, pc'[t], asked'[t], reply'[t], made'[t], panics')
  <2>1. CASE Staged(call) /\ pc'[t] = IF route = "session" THEN "acquire" ELSE "interpret"
    BY <1>5, <1>6, <1>7, <2>1 DEF ThreadAsks, AnsweredRightly
  <2>2. CASE ~Acceptable(function, a) /\ pc'[t] = "answered" /\ reply'[t] = LanguageError
    <3>1. ~InBounds(function, a) /\ LanguageError.status # "ok"
      BY <2>2, RefusedIsOut DEF LanguageError
    <3> QED BY <1>5, <1>6, <1>7, <2>2, <3>1 DEF ThreadAsks, AnsweredRightly
  <2>3. CASE pc'[t] = "panicked"
    BY <1>5, <1>6, <1>7, <2>3 DEF ThreadAsks, AnsweredRightly
  <2> QED BY <1>8, <2>1, <2>2, <2>3
<1>10. AskingStep(t)
  BY <1>0, <1>1, <1>2, <1>3, <1>9 DEF AskingStep
<1>. QED BY <1>10, OthersAsk

\* A reply that is the language's own is right.
LEMMA ReplyIsRight ==
    ASSUME RecordTyped, NEW call, Staged(call),
           MayBeAsked(record, call.function, call.args), NEW n
    PROVE  AnsweredRightly(record, "answered", call,
                           Replies(call.function, call.args), n)
<1>1. IsRight(record, call.function, call.args, Replies(call.function, call.args))
  BY RepliesAreRight DEF RecordTyped, Staged
<1> QED BY <1>1, Zenon DEF IsRight, AnsweredRightly

\* A call of the interpreter, or the end of one of the session.
LEMMA ReplyAsks ==
    ASSUME AsksInv, SessionInv, RecordTyped, NEW t \in Threads,
           pc[t] \in {"inside", "interpret"},
           Answer(t, Replies(asked[t].function, asked[t].args)),
           UNCHANGED <<asked, made, panics, record>>
    PROVE  AsksInv'
<1>. USE DEF ThreadState, Set, Places
<1>0. ThreadState /\ made = [u \in Threads |-> made[u]]
  BY DEF SessionInv, AsksInv
<1>1. ASSUME NEW u \in Threads \ {t}
      PROVE  pc'[u] = pc[u] /\ asked'[u] = asked[u] /\ reply'[u] = reply[u]
             /\ made'[u] = made[u]
  BY <1>0 DEF Answer
<1>2. pc'[t] = "answered" /\ reply'[t] = Replies(asked[t].function, asked[t].args)
  BY <1>0 DEF Answer
<1>3. ThreadAsks(record, pc[t], asked[t], reply[t], made[t], panics)
  BY DEF AsksInv
<1>4. Staged(asked[t]) /\ MayBeAsked(record, asked[t].function, asked[t].args)
      /\ made[t] \in Nat /\ made[t] # 0
  BY <1>3 DEF ThreadAsks
<1>5. AnsweredRightly(record, "answered", asked[t],
                      Replies(asked[t].function, asked[t].args), panics)
  BY <1>4, ReplyIsRight
<1>6. ThreadAsks(record, pc'[t], asked'[t], reply'[t], made'[t], panics')
  BY <1>2, <1>4, <1>5 DEF ThreadAsks
<1>7. AskingStep(t)
  BY <1>0, <1>1, <1>6 DEF AskingStep
<1>. QED BY <1>7, OthersAsk

\* Steps of a thread in the session that answer nothing, or find it gone.
LEMMA SessionAsks ==
    ASSUME AsksInv, SessionInv, record' = record, NEW t \in Threads,
           Acquire(t) \/ Enter(t) \/ Panic(t)
    PROVE  AsksInv'
<1>. USE DEF ThreadState, Set, Places
<1>0. ThreadState /\ made = [u \in Threads |-> made[u]]
      /\ (poisoned => panics > 0)
  BY DEF SessionInv, AsksInv, PoisonedByPanic
<1>1. asked' = asked /\ made' = made
      /\ panics' \in Nat /\ panics' >= panics
  BY <1>0 DEF Acquire, Enter, Panic
<1>2. ASSUME NEW u \in Threads \ {t}
      PROVE  pc'[u] = pc[u] /\ reply'[u] = reply[u]
  BY <1>0 DEF Acquire, Enter, Panic, Answer
<1>3. ThreadAsks(record, pc[t], asked[t], reply[t], made[t], panics)
  BY DEF AsksInv
<1>4. Staged(asked[t]) /\ MayBeAsked(record, asked[t].function, asked[t].args)
      /\ made[t] \in Nat /\ made[t] # 0 /\ asked[t].route = "session"
  <2>1. pc[t] \in {"acquire", "holding", "inside"}
    BY DEF Acquire, Enter, Panic
  <2> QED BY <1>3, <2>1 DEF ThreadAsks
<1>5. \/ pc'[t] \in {"holding", "inside", "panicked"}
      \/ pc'[t] = "answered" /\ reply'[t] = LanguageError /\ panics > 0
  BY <1>0 DEF Acquire, Enter, Panic, Answer
<1>6. ThreadAsks(record, pc'[t], asked[t], reply'[t], made[t], panics')
  <2>1. CASE pc'[t] \in {"holding", "inside", "panicked"}
    BY <1>4, <2>1 DEF ThreadAsks, AnsweredRightly
  <2>2. CASE pc'[t] = "answered" /\ reply'[t] = LanguageError /\ panics > 0
    <3>1. LanguageError.status # "ok" /\ panics' > 0
      BY <1>0, <1>1, <2>2 DEF LanguageError
    <3> QED BY <1>4, <2>2, <3>1 DEF ThreadAsks, AnsweredRightly
  <2> QED BY <1>5, <2>1, <2>2
<1>7. AskingStep(t)
  BY <1>0, <1>1, <1>2, <1>6 DEF AskingStep
<1>. QED BY <1>7, OthersAsk

\* Records are written before anyone asks.
LEMMA WritingAsks ==
    ASSUME AsksInv, WriteRecord
    PROVE  AsksInv'
<1>1. ASSUME NEW t \in Threads PROVE pc[t] = "idle" /\ made[t] = 0
  BY DEF AsksInv, ThreadAsks, WriteRecord
<1>2. UNCHANGED <<pc, asked, reply, made, panics>>
  BY DEF WriteRecord, sessionVars, mutex
<1>3. ASSUME NEW t \in Threads
      PROVE  ThreadAsks(record', pc[t], asked[t], reply[t], made[t], panics)
  BY <1>1 DEF ThreadAsks, AnsweredRightly
<1> QED BY <1>2, <1>3 DEF AsksInv

\* At first nobody asks.
LEMMA AsksInvInit == CallsInit => AsksInv
<1> SUFFICES ASSUME CallsInit PROVE AsksInv
  OBVIOUS
<1>1. made = [t \in Threads |-> 0] /\ pc = [t \in Threads |-> "idle"]
  BY DEF CallsInit, SessionInit
<1>2. ASSUME NEW t \in Threads
      PROVE  ThreadAsks(record, pc[t], asked[t], reply[t], made[t], panics)
  BY <1>1 DEF ThreadAsks, AnsweredRightly
<1> QED BY <1>1, <1>2 DEF AsksInv

\* Every step keeps what threads are about.
LEMMA AsksInvStep ==
    AsksInv /\ SessionInv /\ RecordTyped /\ [CallsNext]_callsVars => AsksInv'
<1>. SUFFICES ASSUME AsksInv, SessionInv, RecordTyped, [CallsNext]_callsVars
              PROVE  AsksInv'
  OBVIOUS
<1>1. CASE WriteRecord
  BY <1>1, WritingAsks
<1>2. ASSUME NEW t \in Threads, AskField(t) PROVE AsksInv'
  <2>1. PICK route \in Routes, a \in FieldCalls : Call(t, route, "field_at", a)
    BY <1>2 DEF AskField
  <2>2. MayBeAsked(record, "field_at", a) /\ record' = record
    BY <1>2 DEF MayBeAsked, FieldCalls, AskField, Line
  <2> QED BY <2>1, <2>2, CallAsks
<1>3. ASSUME NEW t \in Threads, AskWord(t) PROVE AsksInv'
  <2>1. PICK function \in Functions \cap Embedded :
            \E a \in Inputs(function) : Call(t, "session", function, a)
    BY <1>3 DEF AskWord
  <2> PICK a \in Inputs(function) : Call(t, "session", function, a)
    BY <2>1
  <2>2. MayBeAsked(record, function, a) /\ record' = record
    BY <1>3 DEF MayBeAsked, AskWord
  <2> QED BY <2>1, <2>2, CallAsks
<1>4. ASSUME NEW t \in Threads, AskInterpreter(t) PROVE AsksInv'
  <2>1. PICK function \in Functions :
            \E a \in Inputs(function) : Call(t, "interpreter", function, a)
    BY <1>4 DEF AskInterpreter
  <2> PICK a \in Inputs(function) : Call(t, "interpreter", function, a)
    BY <2>1
  <2>2. MayBeAsked(record, function, a) /\ record' = record
    BY <1>4 DEF MayBeAsked, AskInterpreter
  <2> QED BY <2>1, <2>2, CallAsks
<1>5. ASSUME NEW t \in Threads, ThreadInterprets(t) PROVE AsksInv'
  <2>1. pc[t] = "interpret" /\ UNCHANGED <<asked, made, panics, record>>
    BY <1>5 DEF ThreadInterprets, Interpret, mutex
  <2>2. Answer(t, Replies(asked[t].function, asked[t].args))
    BY <1>5 DEF ThreadInterprets, Interpret, ReplyTo, Values, Replies
  <2> QED BY <2>1, <2>2, ReplyAsks
<1>6. ASSUME NEW t \in Threads, ThreadStep(t) PROVE AsksInv'
  <2>1. CASE Acquire(t) \/ Enter(t)
    BY <1>6, <2>1, SessionAsks DEF ThreadStep
  <2>2. CASE Leave(t)
    <3>1. pc[t] = "inside" /\ UNCHANGED <<asked, made, panics, record>>
      BY <1>6, <2>2 DEF ThreadStep, Leave
    <3>2. frame.function = asked[t].function /\ frame.values = Values(t)
      BY <3>1 DEF SessionInv, FrameIsItsOwn
    <3>3. Answer(t, ReplyTo(t, Execute(frame.function, frame.values)))
      BY <2>2 DEF Leave
    <3>4. Answer(t, Replies(asked[t].function, asked[t].args))
      BY <3>2, <3>3 DEF ReplyTo, Values, Replies
    <3> QED BY <3>1, <3>4, ReplyAsks
  <2> QED BY <1>6, <2>1, <2>2 DEF ThreadStep, SessionStep
<1>7. ASSUME NEW t \in Threads, ThreadPanics(t) PROVE AsksInv'
  BY <1>7, SessionAsks DEF ThreadPanics
<1>8. CASE UNCHANGED callsVars
  BY <1>8 DEF AsksInv, callsVars, sessionVars, mutex
<1>. QED
  BY <1>1, <1>2, <1>3, <1>4, <1>5, <1>6, <1>7, <1>8 DEF CallsNext

\* src/language.rs and src/embed.rs: for any number of threads, calls and
\* arguments of the types the wrappers take, each answer is right for its own
\* question: the padding, the lanes and the lengths in which arguments and
\* answers cross the bridge never show, sorting sorts, a handoff carries what
\* it was made of, a field that was written reads back; an error is answered
\* only beyond the bounds, or by a session that panicked.
THEOREM CallsAnswersAreRight == CallsSpec => []AnswersAreRight
<1>1. CallsInit => SessionInv /\ AsksInv
  BY SessionInvInit, AsksInvInit
<1>2. SessionInv /\ AsksInv /\ RecordTyped /\ [CallsNext]_callsVars
      => (SessionInv /\ AsksInv)'
  BY SessionInvStep, AsksInvStep
<1>3. AsksInv => AnswersAreRight
  BY AnswersOfThreads DEF AsksInv, ThreadAsks
<1>. QED
  BY <1>1, <1>2, <1>3, CallsRecordTyped, PTL DEF CallsSpec
=============================================================================
