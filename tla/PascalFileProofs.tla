--------------------------- MODULE PascalFileProofs ---------------------------
(***************************************************************************)
(* Theorems of PascalFile, for every block's size, text and data: what put *)
(* has copied is what get, cat and the mount read back.                    *)
(***************************************************************************)
EXTENDS PascalFile, FileEntryProofs

-----------------------------------------------------------------------------
(* A text as Unix has it, byte by byte.                                    *)

UnixStep(t, n, x) ==
  IF t[n] = Return /\ n > 1 /\ t[n-1] = LineFeed THEN x
  ELSE Append(x, IF t[n] = Return THEN LineFeed ELSE t[n])

UnixSteps(t) == [p \in (1..Len(t)) \X Bytes |-> UnixStep(t, p[1], p[2])]

LEMMA UnixStepsIs ==
  ASSUME NEW t \in Bytes
  PROVE  /\ UnixSteps(t) \in [(1..Len(t)) \X Bytes -> Bytes]
         /\ \A i \in 1..Len(t), x \in Bytes : UnixSteps(t)[<<i, x>>] = UnixStep(t, i, x)
<1>1. ASSUME NEW p \in (1..Len(t)) \X Bytes PROVE UnixStep(t, p[1], p[2]) \in Bytes
  <2>1. p[1] \in 1..Len(t) /\ p[2] \in Bytes
    OBVIOUS
  <2>2. PICK c : c = IF t[p[1]] = Return THEN LineFeed ELSE t[p[1]]
    OBVIOUS
  <2>3. c \in Nat
    <3>1. t[p[1]] \in Nat /\ LineFeed \in Nat
      BY <2>1, ElementOfSeq DEF Bytes, LineFeed
    <3> QED BY <2>2, <3>1
  <2>4. Append(p[2], c) \in Bytes
    BY <2>1, <2>3, AppendProperties DEF Bytes
  <2> QED BY <2>1, <2>2, <2>4 DEF UnixStep
<1> HIDE DEF Bytes
<1> QED BY <1>1 DEF UnixSteps

LEMMA UnixIs ==
  ASSUME NEW t \in Bytes
  PROVE  /\ Unix(t) \in [0..Len(t) -> Bytes] /\ Unix(t)[0] = <<>>
         /\ \A n \in 1..Len(t) : Unix(t)[n] = UnixStep(t, n, Unix(t)[n - 1])
<1> DEFINE Turn(h) == [n \in 0..Len(t) |-> IF n = 0 THEN <<>> ELSE UnixStep(t, n, h[n - 1])]
           g == CHOOSE h : h = Turn(h)
<1>1. <<>> \in Bytes /\ Len(t) \in Nat
  BY EmptySeq, LenProperties DEF Bytes
<1>2. PICK h : Recurs(h, Bytes, <<>>, Len(t), UnixSteps(t))
  <2> HIDE DEF Bytes
  <2> QED BY <1>1, UnixStepsIs, Recursion
<1>3. \A n \in 1..Len(t) : n - 1 \in 0..Len(t) /\ h[n] = UnixStep(t, n, h[n - 1])
  <2> TAKE n \in 1..Len(t)
  <2>1. n - 1 \in 0..Len(t) /\ h[n - 1] \in Bytes
    BY <1>1, <1>2 DEF Recurs
  <2> HIDE DEF Bytes
  <2> QED BY <1>2, <2>1, UnixStepsIs DEF Recurs
<1>4. h = Turn(h)
  <2>1. h = [n \in 0..Len(t) |-> h[n]]
    BY <1>2 DEF Recurs
  <2>2. \A n \in 0..Len(t) : h[n] = IF n = 0 THEN <<>> ELSE UnixStep(t, n, h[n - 1])
    BY <1>1, <1>2, <1>3 DEF Recurs
  <2> QED BY <2>1, <2>2
<1>5. g = Turn(g)
  <2>1. \E k : k = Turn(k)
    BY <1>4
  <2> HIDE DEF Turn
  <2> QED BY <2>1, Zenon
<1>6. Unix(t) = g
  BY Zenon DEF Unix, UnixStep
<1> HIDE DEF g
<1>7. g = [n \in 0..Len(t) |-> g[n]] /\ g[0] = <<>>
      /\ \A n \in 1..Len(t) : g[n] = UnixStep(t, n, g[n - 1])
  BY <1>1, <1>5
<1>8. Recurs(g, Bytes, <<>>, Len(t), UnixSteps(t))
  <2>1. \A n \in 1..Len(t) : g[n - 1] \in Bytes => g[n] = UnixSteps(t)[<<n, g[n - 1]>>]
    BY <1>7, UnixStepsIs
  <2> HIDE DEF Bytes
  <2> QED BY <1>1, <1>7, <2>1, UnixStepsIs, Recursive
<1> QED BY <1>6, <1>7, <1>8 DEF Recurs

(* Bytes that end no line are the same there.                              *)
LEMMA UnixPlain ==
  ASSUME NEW t \in Bytes, NEW a \in 1..Len(t)+1, NEW b \in a-1..Len(t),
         \A i \in a..b : t[i] \notin {Return, LineFeed}
  PROVE  Unix(t)[b] = Unix(t)[a - 1] \o SubSeq(t, a, b)
<1> DEFINE Good == {m \in 0..b-(a-1) : Unix(t)[(a - 1) + m] = Unix(t)[a - 1] \o SubSeq(t, a, (a - 1) + m)}
<1>1. Len(t) \in Nat /\ a \in Nat /\ a >= 1 /\ b \in Nat /\ b - (a - 1) \in Nat /\ b <= Len(t)
  BY DEF Bytes
<1>2. 0 \in Good
  <2>1. a - 1 \in 0..Len(t)
    BY <1>1
  <2>2. Unix(t)[a - 1] \in Bytes
    BY <2>1, UnixIs
  <2>3. SubSeq(t, a, a - 1) = <<>>
    <3>1. a \in Int /\ a - 1 \in Int /\ a - 1 < a
      BY <1>1
    <3> QED BY <3>1, SubSeqEmpty DEF Bytes
  <2>4. (a - 1) + 0 = a - 1 /\ 0 \in 0..b-(a-1)
    BY <1>1
  <2>5. Unix(t)[a - 1] = Unix(t)[a - 1] \o <<>>
    BY <2>2, ConcatEmptySeq DEF Bytes
  <2> QED BY <2>3, <2>4, <2>5
<1>3. ASSUME NEW m \in 0..b-(a-1), m \in Good, m < b - (a - 1)
      PROVE  m + 1 \in Good
  <2> DEFINE n == (a - 1) + m
  <2>1. /\ n \in Nat /\ n + 1 \in a..b /\ n + 1 \in 1..Len(t) /\ (n + 1) - 1 = n
        /\ (a - 1) + (m + 1) = n + 1 /\ m + 1 \in 0..b-(a-1) /\ n \in 0..Len(t)
    BY <1>1, <1>3
  <2>2. PICK u : u = Unix(t)[a - 1]
    OBVIOUS
  <2>3. u \in Bytes
    <3>1. a - 1 \in 0..Len(t)
      BY <1>1
    <3> QED BY <2>2, <3>1, UnixIs
  <2>4. Unix(t)[n] = u \o SubSeq(t, a, n)
    BY <1>3, <2>2
  <2> HIDE DEF n
  <2>5. PICK c : c = t[n + 1]
    OBVIOUS
  <2>6. c \in Nat /\ c # Return
    BY <2>1, <2>5, ElementOfSeq DEF Bytes
  <2>7. Unix(t)[n + 1] = Append(u \o SubSeq(t, a, n), c)
    <3>1. Unix(t)[n + 1] = UnixStep(t, n + 1, Unix(t)[n])
      BY <2>1, UnixIs
    <3> QED BY <2>4, <2>5, <2>6, <3>1 DEF UnixStep
  <2>8. PICK x : x = SubSeq(t, a, n)
    OBVIOUS
  <2>9. PICK y : y = SubSeq(t, a, n + 1)
    OBVIOUS
  <2>10. /\ x \in Seq(Nat) /\ Len(x) = n - a + 1 /\ \A i \in 1..n - a + 1 : x[i] = t[a + i - 1]
    <3>1. t \in Seq(Nat) /\ a \in 1..Len(t) + 1 /\ n \in a - 1 .. Len(t)
      BY <1>1, <2>1 DEF Bytes
    <3> QED BY <2>8, <3>1, SubSeqFacts, SMTT(30)
  <2>11. /\ y \in Seq(Nat) /\ Len(y) = (n + 1) - a + 1
         /\ \A i \in 1..(n + 1) - a + 1 : y[i] = t[a + i - 1]
    <3>1. t \in Seq(Nat) /\ a \in 1..Len(t) + 1 /\ n + 1 \in a - 1 .. Len(t)
      BY <1>1, <2>1 DEF Bytes
    <3> QED BY <2>9, <3>1, SubSeqFacts, ZenonT(60)
  <2>12. y = Append(x, c)
    <3>1. /\ Append(x, c) \in Seq(Nat) /\ Len(Append(x, c)) = (n - a + 1) + 1
          /\ Append(x, c)[(n - a + 1) + 1] = c
          /\ \A i \in 1..n - a + 1 : Append(x, c)[i] = x[i]
      BY <2>6, <2>10, AppendProperties
    <3>2. PICK l : l = n - a + 1 /\ l \in Nat /\ (n + 1) - a + 1 = l + 1 /\ a + (l + 1) - 1 = n + 1
      BY <1>1, <2>1
    <3>3. Len(y) = l + 1 /\ \A i \in 1..l+1 : y[i] = t[a + i - 1]
      BY ONLY <2>11, <3>2
    <3>4. \A i \in 1..l : x[i] = t[a + i - 1]
      BY ONLY <2>10, <3>2
    <3>5. ASSUME NEW i \in 1..l+1 PROVE y[i] = Append(x, c)[i]
      <4>1. CASE i = l + 1
        BY <2>5, <3>1, <3>2, <3>3, <4>1
      <4>2. CASE i # l + 1
        <5>1. i \in 1..l /\ i \in 1..n - a + 1
          BY <3>2, <4>2
        <5>2. Append(x, c)[i] = x[i]
          BY <3>1, <5>1
        <5> QED BY <3>3, <3>4, <5>1, <5>2
      <4> QED BY <4>1, <4>2
    <3>6. Len(Append(x, c)) = l + 1
      BY <3>1, <3>2
    <3> QED BY <2>11, <3>1, <3>3, <3>5, <3>6, EqualSeqs
  <2>13. Append(u \o x, c) = u \o Append(x, c)
    <3>1. u \in Seq(Nat) /\ x \in Seq(Nat) /\ <<c>> \in Seq(Nat) /\ u \o x \in Seq(Nat)
      BY <2>3, <2>6, <2>10, ConcatProperties DEF Bytes
    <3>2. Append(u \o x, c) = (u \o x) \o <<c>>
      BY <2>6, <3>1, AppendIsConcat
    <3>3. Append(x, c) = x \o <<c>>
      BY <2>6, <3>1, AppendIsConcat
    <3>4. (u \o x) \o <<c>> = u \o (x \o <<c>>)
      BY ONLY <3>1, Associates, Zenon
    <3> QED BY <3>2, <3>3, <3>4
  <2>14. Unix(t)[n + 1] = u \o SubSeq(t, a, n + 1)
    BY <2>7, <2>8, <2>9, <2>12, <2>13
  <2> QED BY <2>1, <2>2, <2>14
<1> HIDE DEF Good
<1>4. \A m \in 0..b-(a-1) : m \in Good
  BY <1>1, <1>2, <1>3, UpTo
<1>5. b - (a - 1) \in Good
  BY <1>1, <1>4
<1>6. (a - 1) + (b - (a - 1)) = b
  BY <1>1
<1> QED BY <1>5, <1>6 DEF Good

(* Append and concatenation.                                               *)
LEMMA AppendJoined ==
  ASSUME NEW x \in Bytes, NEW y \in Bytes, NEW c \in Nat
  PROVE  /\ x \o Append(y, c) = Append(x \o y, c)
         /\ Append(y, c) \in Bytes /\ x \o y \in Bytes /\ x \o Append(y, c) \in Bytes
         /\ Len(x \o Append(y, c)) >= 1
         /\ (x \o Append(y, c))[Len(x \o Append(y, c))] = c
<1>1. x \in Seq(Nat) /\ y \in Seq(Nat) /\ <<c>> \in Seq(Nat) /\ x \o y \in Seq(Nat)
  BY ConcatProperties DEF Bytes
<1>2. Append(x \o y, c) = (x \o y) \o <<c>>
  BY <1>1, AppendIsConcat
<1>3. Append(y, c) = y \o <<c>>
  BY <1>1, AppendIsConcat
<1>4. (x \o y) \o <<c>> = x \o (y \o <<c>>)
  BY ONLY <1>1, Associates, Zenon
<1>5. PICK z : z = x \o y
  OBVIOUS
<1>6. /\ Append(z, c) \in Seq(Nat) /\ Len(Append(z, c)) = Len(z) + 1 /\ Len(z) \in Nat
      /\ Append(z, c)[Len(z) + 1] = c
  BY <1>1, <1>5, AppendProperties, LenProperties
<1>7. Append(y, c) \in Seq(Nat)
  BY <1>1, AppendProperties
<1>8. x \o Append(y, c) = Append(z, c)
  BY <1>2, <1>3, <1>4, <1>5
<1>9. Len(Append(z, c)) >= 1 /\ Append(z, c)[Len(Append(z, c))] = c
  BY <1>6
<1> QED BY <1>1, <1>5, <1>6, <1>7, <1>8, <1>9 DEF Bytes

(* A line and its end.                                                     *)
LEMMA UnixLine ==
  ASSUME NEW t \in Bytes, NEW a \in 1..Len(t), NEW e \in a..Len(t),
         \A i \in a..e-1 : t[i] \notin {Return, LineFeed}, t[e] \in {Return, LineFeed},
         a > 1 => ~(t[a-1] = LineFeed /\ t[a] = Return)
  PROVE  Unix(t)[e] = Unix(t)[a - 1] \o Append(SubSeq(t, a, e - 1), LineFeed)
<1>1. /\ Len(t) \in Nat /\ a \in 1..Len(t)+1 /\ e - 1 \in a-1..Len(t) /\ e \in 1..Len(t)
      /\ a - 1 \in 0..Len(t) /\ e > 1 /\ e # a => e - 1 \in a..e-1
  BY DEF Bytes
<1>2. Unix(t)[e - 1] = Unix(t)[a - 1] \o SubSeq(t, a, e - 1)
  BY <1>1, UnixPlain
<1>3. ~(t[e] = Return /\ e > 1 /\ t[e - 1] = LineFeed)
  <2>1. CASE e = a
    BY <2>1
  <2>2. CASE e # a
    BY <1>1, <2>2
  <2> QED BY <2>1, <2>2
<1>4. Unix(t)[e] = Append(Unix(t)[e - 1], LineFeed)
  <2>1. Unix(t)[e] = UnixStep(t, e, Unix(t)[e - 1])
    BY <1>1, UnixIs
  <2> QED BY <1>3, <2>1 DEF UnixStep
<1>5. PICK x, y : x = Unix(t)[a - 1] /\ y = SubSeq(t, a, e - 1)
  OBVIOUS
<1>6. x \in Bytes /\ y \in Bytes /\ LineFeed \in Nat
  <2>1. x \in Bytes
    <3>1. Unix(t) \in [0..Len(t) -> Bytes]
      BY UnixIs
    <3> QED BY <1>1, <1>5, <3>1
  <2>2. y \in Bytes
    BY <1>1, <1>5, SubSeqFacts DEF Bytes
  <2> QED BY <2>1, <2>2 DEF LineFeed
<1>7. x \o Append(y, LineFeed) = Append(x \o y, LineFeed)
  BY ONLY <1>6, AppendJoined, ZenonT(60)
<1> QED BY <1>2, <1>4, <1>5, <1>7

(* The end of the text.                                                    *)
LEMMA AsUnixEnded ==
  ASSUME NEW t \in Bytes, NEW x \in Bytes, NEW y \in Bytes,
         Unix(t)[Len(t)] = x \o Append(y, LineFeed)
  PROVE  AsUnix(t) = x \o Append(y, LineFeed)
<1>1. PICK z : z = x \o Append(y, LineFeed)
  OBVIOUS
<1>2. z[Len(z)] = LineFeed
  <2>1. LineFeed \in Nat
    BY DEF LineFeed
  <2> QED BY <1>1, <2>1, AppendJoined
<1> QED BY <1>1, <1>2 DEF AsUnix

LEMMA AsUnixOpen ==
  ASSUME NEW t \in Bytes, NEW x \in Bytes, NEW y \in Bytes, Len(y) >= 1,
         y[Len(y)] # LineFeed, Unix(t)[Len(t)] = x \o y
  PROVE  AsUnix(t) = x \o Append(y, LineFeed)
<1>1. LineFeed \in Nat
  BY DEF LineFeed
<1>2. x \o Append(y, LineFeed) = Append(x \o y, LineFeed)
  BY <1>1, AppendJoined, ZenonT(60)
<1>3. PICK z : z = x \o y
  OBVIOUS
<1>4. z[Len(z)] # LineFeed
  <2>1. Len(z) = Len(x) + Len(y) /\ Len(y) \in 1..Len(y) /\ z[Len(x) + Len(y)] = y[Len(y)]
    BY <1>3, Joined
  <2> QED BY <2>1
<1> QED BY <1>2, <1>3, <1>4 DEF AsUnix

-----------------------------------------------------------------------------
(* A line of put: what it writes is what the text has there.               *)

LineIs(t, a, line, next) ==
  /\ line \in Bytes /\ \A i \in 1..Len(line) : line[i] \notin {Nul, Dle, Return, LineFeed}
  /\ next \in a+1..Len(t)+1
  /\ next <= Len(t) => ~(t[next-1] = LineFeed /\ t[next] = Return)
  /\ (IF next <= Len(t) THEN Unix(t)[next - 1] ELSE AsUnix(t)) =
       Unix(t)[a - 1] \o Append(line, LineFeed)

LEMMA LineSplit ==
  ASSUME native.bytes \in Bytes, at \in 1..Len(native.bytes),
         \A i \in 1..Len(native.bytes) : native.bytes[i] \notin {Nul, Dle},
         at > 1 => ~(native.bytes[at-1] = LineFeed /\ native.bytes[at] = Return)
  PROVE  LineIs(native.bytes, at, ThisLine, NextLine)
<1>1. PICK t, a : t = native.bytes /\ a = at
  OBVIOUS
<1>2. PICK E : E = LineEnds
  OBVIOUS
<1>3. PICK line, next : line = ThisLine /\ next = NextLine
  OBVIOUS
<1>4. /\ t \in Bytes /\ Len(t) \in Nat /\ a \in 1..Len(t) /\ a - 1 \in 0..Len(t) /\ a \in 1..Len(t)+1
      /\ \A i \in 1..Len(t) : t[i] \notin {Nul, Dle}
      /\ a > 1 => ~(t[a-1] = LineFeed /\ t[a] = Return)
  BY <1>1 DEF Bytes
<1>5. E = {i \in a..Len(t) : t[i] \in {Return, LineFeed}}
  BY <1>1, <1>2 DEF LineEnds
<1>6. PICK x : x = Unix(t)[a - 1]
  OBVIOUS
<1>7. x \in Bytes
  BY <1>4, <1>6, UnixIs
<1>8. ASSUME NEW b \in a-1..Len(t), \A i \in a..b : t[i] \notin {Return, LineFeed}
      PROVE  /\ SubSeq(t, a, b) \in Bytes /\ Len(SubSeq(t, a, b)) = b - a + 1
             /\ \A i \in 1..b - a + 1 : SubSeq(t, a, b)[i] = t[a + i - 1]
             /\ \A i \in 1..Len(SubSeq(t, a, b)) : SubSeq(t, a, b)[i] \notin {Nul, Dle, Return, LineFeed}
  <2>1. PICK y : y = SubSeq(t, a, b)
    OBVIOUS
  <2>2. y \in Seq(Nat) /\ Len(y) = b - a + 1 /\ \A i \in 1..b - a + 1 : y[i] = t[a + i - 1]
    BY <1>4, <2>1, SubSeqFacts, SMTT(30) DEF Bytes
  <2>3. ASSUME NEW i \in 1..Len(y) PROVE y[i] \notin {Nul, Dle, Return, LineFeed}
    <3>1. i \in 1..b - a + 1 /\ a + i - 1 \in a..b /\ a + i - 1 \in 1..Len(t)
      BY <1>4, <2>2
    <3>2. y[i] = t[a + i - 1]
      BY <2>2, <3>1
    <3> QED BY <1>4, <1>8, <3>1, <3>2
  <2> QED BY <2>1, <2>2, <2>3 DEF Bytes
<1>9. CASE E = {}
  <2>1. line = SubSeq(t, a, Len(t)) /\ next = Len(t) + 1
    BY <1>1, <1>2, <1>3, <1>9 DEF ThisLine, NextLine
  <2>2. Len(t) \in a-1..Len(t) /\ \A i \in a..Len(t) : t[i] \notin {Return, LineFeed}
    BY <1>4, <1>5, <1>9
  <2>3. /\ line \in Bytes /\ Len(line) = Len(t) - a + 1
        /\ \A i \in 1..Len(line) : line[i] \notin {Nul, Dle, Return, LineFeed}
    BY <1>8, <2>1, <2>2
  <2>4. Len(line) >= 1 /\ line[Len(line)] # LineFeed
    <3>1. Len(line) \in 1..Len(line)
      BY <1>4, <2>3
    <3> QED BY <2>3, <3>1
  <2>5. Unix(t)[Len(t)] = x \o line
    BY <1>4, <1>6, <2>1, <2>2, UnixPlain
  <2>6. AsUnix(t) = x \o Append(line, LineFeed)
    BY <1>4, <1>7, <2>3, <2>4, <2>5, AsUnixOpen
  <2>7. next \in a+1..Len(t)+1 /\ ~(next <= Len(t))
    BY <1>4, <2>1
  <2>8. LineIs(t, a, line, next)
    BY <1>6, <2>3, <2>6, <2>7 DEF LineIs
  <2> QED BY <1>1, <1>3, <2>8
<1>10. CASE E # {}
  <2>1. PICK e : e = Min(E)
    OBVIOUS
  <2>2. e \in E /\ \A i \in E : e <= i
    <3>1. E \subseteq Nat
      BY <1>4, <1>5
    <3> QED BY <1>10, <2>1, <3>1, MinIs
  <2>3. /\ e \in a..Len(t) /\ t[e] \in {Return, LineFeed}
        /\ \A i \in a..e-1 : t[i] \notin {Return, LineFeed}
    <3>1. e \in a..Len(t) /\ t[e] \in {Return, LineFeed}
      BY <1>5, <2>2
    <3>2. ASSUME NEW i \in a..e-1 PROVE t[i] \notin {Return, LineFeed}
      <4>1. i \in a..Len(t) /\ ~(e <= i)
        BY <1>4, <3>1
      <4> QED BY <1>5, <2>2, <4>1
    <3> QED BY <3>1, <3>2
  <2>4. /\ line = SubSeq(t, a, e - 1)
        /\ next = IF t[e] = LineFeed /\ e < Len(t) /\ t[e+1] = Return THEN e + 2 ELSE e + 1
    <3>1. line = SubSeq(t, a, e - 1)
      BY <1>1, <1>2, <1>3, <1>10, <2>1 DEF ThisLine
    <3>2. next = IF t[e] = LineFeed /\ ByteAfter(e) = Return THEN e + 2 ELSE e + 1
      BY <1>1, <1>2, <1>3, <1>10, <2>1 DEF NextLine
    <3>3. ByteAfter(e) = Return <=> e < Len(t) /\ t[e+1] = Return
      BY <1>1 DEF ByteAfter, Nul, Return
    <3> QED BY <3>1, <3>2, <3>3
  <2>5. e - 1 \in a-1..Len(t) /\ e \in 1..Len(t) /\ e \in Nat
    BY <1>4, <2>3
  <2>6. line \in Bytes /\ \A i \in 1..Len(line) : line[i] \notin {Nul, Dle, Return, LineFeed}
    BY <1>8, <2>3, <2>4, <2>5
  <2>7. Unix(t)[e] = x \o Append(line, LineFeed)
    BY <1>4, <1>6, <2>3, <2>4, UnixLine
  <2>8. CASE t[e] = LineFeed /\ e < Len(t) /\ t[e+1] = Return
    <3>1. next = e + 2 /\ next \in a+1..Len(t)+1 /\ next - 1 = e + 1 /\ e + 1 \in 1..Len(t) /\ e + 1 > 1
          /\ (e + 1) - 1 = e
      BY <1>4, <2>3, <2>4, <2>5, <2>8
    <3>2. Unix(t)[e + 1] = x \o Append(line, LineFeed)
      <4>1. Unix(t)[e + 1] = UnixStep(t, e + 1, Unix(t)[e])
        BY <1>4, <3>1, UnixIs
      <4> QED BY <2>7, <2>8, <3>1, <4>1 DEF UnixStep
    <3>3. ~(t[next - 1] = LineFeed)
      BY <2>8, <3>1 DEF Return, LineFeed
    <3>4. CASE next <= Len(t)
      <4>1. LineIs(t, a, line, next)
        BY <1>6, <2>6, <3>1, <3>2, <3>3, <3>4 DEF LineIs
      <4> QED BY <1>1, <1>3, <4>1
    <3>5. CASE ~(next <= Len(t))
      <4>1. e + 1 = Len(t)
        BY <1>4, <3>1, <3>5
      <4>2. AsUnix(t) = x \o Append(line, LineFeed)
        <5>1. Unix(t)[Len(t)] = x \o Append(line, LineFeed)
          BY <3>2, <4>1
        <5> QED BY <1>4, <1>7, <2>6, <5>1, AsUnixEnded, ZenonT(60)
      <4>3. LineIs(t, a, line, next)
        BY <1>6, <2>6, <3>1, <3>5, <4>2 DEF LineIs
      <4> QED BY <1>1, <1>3, <4>3
    <3> QED BY <3>4, <3>5
  <2>9. CASE ~(t[e] = LineFeed /\ e < Len(t) /\ t[e+1] = Return)
    <3>1. next = e + 1 /\ next \in a+1..Len(t)+1 /\ next - 1 = e
      BY <1>4, <2>3, <2>4, <2>5, <2>9
    <3>2. CASE next <= Len(t)
      <4>1. ~(t[next - 1] = LineFeed /\ t[next] = Return)
        BY <1>4, <2>5, <2>9, <3>1, <3>2
      <4>2. LineIs(t, a, line, next)
        BY <1>6, <2>6, <2>7, <3>1, <3>2, <4>1 DEF LineIs
      <4> QED BY <1>1, <1>3, <4>2
    <3>3. CASE ~(next <= Len(t))
      <4>1. e = Len(t)
        BY <1>4, <2>5, <3>1, <3>3
      <4>2. AsUnix(t) = x \o Append(line, LineFeed)
        BY <1>4, <1>7, <2>6, <2>7, <4>1, AsUnixEnded
      <4>3. LineIs(t, a, line, next)
        BY <1>6, <2>6, <3>1, <3>3, <4>2 DEF LineIs
      <4> QED BY <1>1, <1>3, <4>3
    <3> QED BY <3>2, <3>3
  <2> QED BY <2>8, <2>9
<1> QED BY <1>9, <1>10

-----------------------------------------------------------------------------
(* The invariant.                                                          *)

Entry == [kind : {"untyped", "data", "text"}, first : {First}, last : Nat,
          lastByte : 0..BlockSize, max : Nat, pages : Seq(Nat), indexed : BOOLEAN]

Natives == [kind : {"data"}, bytes : DataFiles, done : BOOLEAN]
             \union [kind : {"text"}, bytes : TextFiles, done : BOOLEAN]

BlocksOK ==
  /\ blocks \in [First..First+Room-1 -> Block]
  /\ Room \in Nat

(* What there is while the process does one thing or another.              *)
Phases ==
  /\ command \in {"none", "put", "get", "cat", "fuse"}
  /\ native \in Natives \union {Nothing}
  /\ saved \in Entry \union {NoEntry}
  /\ native = Nothing => command = "none" /\ saved = NoEntry
  /\ saved = NoEntry => command = "put" \/ native = Nothing
  /\ command = "none" => file = NoEntry
  /\ command = "put" => file = saved
  /\ command \in {"none", "put"} => got = GotNothing

(* How far put has come in a text: what it has written decodes to the text *)
(* as Unix has it, and it never stops between a LF and the CR after it.    *)
TextSoFar ==
  IF at <= Len(native.bytes) THEN Unix(native.bytes)[at - 1] ELSE AsUnix(native.bytes)

WriterOK ==
  /\ GoodWriter(writer)
  /\ at \in 1..Len(native.bytes)+1
  /\ native.kind # "text" => at = 1 /\ writer = NewWriter
  /\ native.kind = "text" =>
       /\ Decode(RawText(writer)) = TextSoFar
       /\ at > 1 => writer.current # <<>>
       /\ at > 1 /\ at <= Len(native.bytes) =>
            ~(native.bytes[at - 1] = LineFeed /\ native.bytes[at] = Return)

EmptyFile == saved.last = First + 1 /\ saved.lastByte = 0

NoneWritten == written = 0 /\ ~native.done

(* The blocks of a text that are written; its entry comes last.            *)
TextWritten ==
  /\ written \in 0..WriterBlocks(writer)
  /\ written <= Room
  /\ \A i \in 0..written-1 : blocks[First + i] = WriterData(writer, i)
  /\ ~native.done => EmptyFile
  /\ native.done =>
       /\ written = WriterBlocks(writer)
       /\ saved.last = First + (written + 1) /\ saved.lastByte = BlockSize

(* The bytes of a data file that are written: whole blocks, until the last.*)
(* The size is theirs, or a block more.                                    *)
DataWritten ==
  /\ written \in 0..Len(native.bytes) /\ written <= saved.max
  /\ native.done <=> written = Len(native.bytes)
  /\ written = Len(native.bytes) \/ written % BlockSize = 0
  /\ \A k \in 0..Room-1, j \in 1..BlockSize :
       k * BlockSize + j <= written => blocks[First + k][j] = native.bytes[k * BlockSize + j]
  /\ DataFileSize(saved) \in written..written+BlockSize

SavedOK ==
  /\ saved = NoEntry => NoneWritten
  /\ saved # NoEntry =>
       /\ saved.kind \in {"untyped", native.kind}
       /\ native.kind = "text" => at > Len(native.bytes)
       /\ saved.max = Room * BlockSize /\ saved.pages = <<>> /\ saved.indexed = FALSE
       /\ saved.last >= First + 1
       /\ saved.kind = "untyped" => EmptyFile /\ NoneWritten
       /\ saved.kind = "text" => TextWritten
       /\ saved.kind = "data" => DataWritten

(* The kernel reads whole pages: every request begins at a block.          *)
Aligned == \A r \in Requests : r[2] % BlockSize = 0

Sliced ==
  /\ got.bytes \in Bytes
  /\ got.bytes = SubSeq(Whole(file), got.from + 1, got.from + Len(got.bytes))

ReadingOK ==
  Reading =>
    /\ saved # NoEntry /\ saved.last <= First + Room
    /\ file = Indexed(blocks, saved)
    /\ got = [from |-> got.from, bytes |-> got.bytes] /\ got.from \in Nat
    /\ command # "fuse" \/ Aligned => Sliced
    /\ command \in {"get", "cat"} =>
         /\ got.from = 0 /\ Len(got.bytes) <= FileSize(file)
         /\ Len(got.bytes) = FileSize(file) \/ Len(got.bytes) % BlockSize = 0

IInv == BlocksOK /\ Phases /\ WriterOK /\ SavedOK /\ ReadingOK

-----------------------------------------------------------------------------
(* What its parts say of the native file and of an entry.                  *)

LEMMA FileIsBytes ==
  ASSUME NEW b \in DataFiles \union TextFiles
  PROVE  b \in Bytes /\ Len(b) \in Nat /\ Len(b) >= 1
<1>1. b \in Seq(Nat) /\ b # <<>>
  BY PascalFileAssumption
<1>2. Len(b) \in Nat /\ Len(b) # 0
  BY <1>1, EmptySeq, LenProperties
<1> QED BY <1>1, <1>2 DEF Bytes

LEMMA NothingIs == Nothing.kind = "none" /\ Nothing.bytes = <<>> /\ Nothing.done = FALSE
BY DEF Nothing

LEMMA NativeIs ==
  ASSUME NEW n \in Natives
  PROVE  /\ n.kind \in {"data", "text"} /\ n # Nothing
         /\ n = [kind |-> n.kind, bytes |-> n.bytes, done |-> n.done]
         /\ n.bytes \in Bytes /\ Len(n.bytes) \in Nat /\ Len(n.bytes) >= 1 /\ n.done \in BOOLEAN
         /\ n.kind = "text" => \A i \in 1..Len(n.bytes) : n.bytes[i] \notin {Nul, Dle}
<1>1. /\ n.kind \in {"data", "text"} /\ n.done \in BOOLEAN
      /\ n = [kind |-> n.kind, bytes |-> n.bytes, done |-> n.done]
      /\ n.bytes \in DataFiles \union TextFiles
      /\ n.kind = "text" => n.bytes \in TextFiles
  BY DEF Natives
<1>2. n # Nothing
  BY <1>1, NothingIs
<1>3. n.bytes \in Bytes /\ Len(n.bytes) \in Nat /\ Len(n.bytes) >= 1
  <2>1. PICK b : b = n.bytes
    OBVIOUS
  <2>2. b \in Bytes /\ Len(b) \in Nat /\ Len(b) >= 1
    BY <1>1, <2>1, FileIsBytes
  <2> QED BY <2>1, <2>2
<1>4. n.kind = "text" => \A i \in 1..Len(n.bytes) : n.bytes[i] \notin {Nul, Dle}
  <2>1. DOMAIN n.bytes = 1..Len(n.bytes)
    BY <1>3, LenProperties DEF Bytes
  <2> QED BY <1>1, <2>1, PascalFileAssumption
<1> QED BY <1>1, <1>2, <1>3, <1>4

LEMMA NativeKinds ==
  ASSUME native \in Natives \union {Nothing}
  PROVE  /\ native.kind \in {"none", "data", "text"}
         /\ native.kind = "none" <=> native = Nothing
         /\ native.bytes \in Bytes /\ Len(native.bytes) \in Nat /\ native.done \in BOOLEAN
         /\ native # Nothing => native \in Natives
<1>1. CASE native = Nothing
  BY <1>1, NothingIs, EmptyBytes
<1>2. CASE native \in Natives
  BY <1>2, NativeIs
<1> QED BY <1>1, <1>2

LEMMA NoEntryIs == NoEntry.kind = "none"
BY DEF NoEntry

LEMMA EntryIs ==
  ASSUME NEW e \in Entry
  PROVE  /\ e # NoEntry /\ e.kind \in {"untyped", "data", "text"} /\ e.first = First
         /\ e.last \in Nat /\ e.lastByte \in Nat /\ e.lastByte <= BlockSize /\ e.max \in Nat
         /\ First \in Nat /\ e \in FileEntries
<1>1. /\ e.kind \in {"untyped", "data", "text"} /\ e.first = First
      /\ e.last \in Nat /\ e.lastByte \in 0..BlockSize /\ e.max \in Nat
      /\ e.pages \in Seq(Nat) /\ e.indexed \in BOOLEAN
  BY DEF Entry
<1>2. First \in Nat /\ BlockSize \in Nat
  BY PascalFileAssumption, PageSizeIs
<1>3. e # NoEntry
  BY <1>1, NoEntryIs
<1>4. e.lastByte \in Nat /\ e.lastByte <= BlockSize
  BY <1>1, <1>2
<1>5. e \in FileEntries
  <2>1. e = [kind |-> e.kind, first |-> e.first, last |-> e.last, lastByte |-> e.lastByte,
             max |-> e.max, pages |-> e.pages, indexed |-> e.indexed]
    BY DEF Entry
  <2> QED BY <1>1, <1>2, <1>4, <2>1 DEF FileEntries
<1> QED BY <1>1, <1>2, <1>3, <1>4, <1>5

LEMMA WholeIs == \A f : Whole(f) = WholeOf(blocks, f)
BY DEF Whole, WholeOf, Flat, FlatOf, Run

(* The blocks begin as they were.                                          *)
LEMMA InitIs == Init => IInv
<1> SUFFICES ASSUME Init PROVE IInv
  OBVIOUS
<1>1. BlocksOK
  <2>1. PICK r \in Rooms, c \in Old :
               blocks = [b \in First..First+r-1 |-> [i \in 1..BlockSize |-> c]]
    BY DEF Init
  <2>2. r \in Nat /\ First \in Nat /\ c \in Nat
    BY PascalFileAssumption
  <2>3. DOMAIN blocks = First..First+r-1
    BY <2>1
  <2>4. Cardinality(First..First+r-1) = r
    <3>1. PICK x, y : x = First /\ y = First + r - 1
      OBVIOUS
    <3>2. x \in Int /\ y \in Int /\ y - x + 1 = r /\ (x > y => r = 0)
      BY <2>2, <3>1
    <3>3. Cardinality(x..y) = IF x > y THEN 0 ELSE y - x + 1
      BY <3>2, FS_Interval
    <3> QED BY <3>1, <3>2, <3>3
  <2>5. Room = r
    BY <2>3, <2>4 DEF Room
  <2>6. [i \in 1..BlockSize |-> c] \in Block
    BY <2>2 DEF Block
  <2> QED BY <2>1, <2>2, <2>5, <2>6 DEF BlocksOK
<1>2. Phases
  BY DEF Init, Phases
<1>3. WriterOK
  <2>1. Len(native.bytes) = 0 /\ native.kind # "text"
    BY NothingIs, EmptyBytes DEF Init
  <2> QED BY <2>1, NewWriterIs DEF Init, WriterOK
<1>4. SavedOK
  BY NothingIs DEF Init, SavedOK, NoneWritten
<1>5. ReadingOK
  BY DEF Init, ReadingOK, Reading
<1> QED BY <1>1, <1>2, <1>3, <1>4, <1>5 DEF IInv

-----------------------------------------------------------------------------
(* What the file reads as, whoever reads it.                               *)

FileReadsAs(f) ==
  /\ ReadsAs(blocks, f, Whole(f)) /\ f.kind = saved.kind
  /\ saved.kind # "text" => f = saved /\ FileSize(f) = DataFileSize(saved)
  /\ native.done /\ native.kind = "text" =>
       /\ Whole(f) = Expected \o Decode(blocks[First + WriterBlocks(writer)])
       /\ Expected \in Bytes
       /\ blocks[First + WriterBlocks(writer)] \in Bytes

LEMMA BlocksThere ==
  ASSUME BlocksOK, NEW b \in Nat, First <= b, b < First + Room
  PROVE  blocks[b] \in Block
BY PascalFileAssumption DEF BlocksOK

(* The heart of it: what an entry and its blocks read as, whole.  For data *)
(* it is the blocks; for a finished text it is the native one, then what   *)
(* the block after it happens to decode to.                                *)
LEMMA FileReads ==
  ASSUME BlocksOK, Phases, WriterOK, SavedOK, saved # NoEntry, saved.last <= First + Room
  PROVE  FileReadsAs(Indexed(blocks, saved))
<1>1. PICK f : f = Indexed(blocks, saved)
  OBVIOUS
<1>2. /\ saved \in Entry /\ native \in Natives /\ Room \in Nat
      /\ saved.kind \in {"untyped", native.kind} /\ saved.indexed = FALSE /\ saved.last >= First + 1
      /\ native.kind = "text" => at > Len(native.bytes)
  BY DEF Phases, SavedOK, BlocksOK
<1>3. /\ saved.kind \in {"untyped", "data", "text"} /\ saved.first = First
      /\ saved.last \in Nat /\ saved.lastByte \in Nat /\ saved.lastByte <= BlockSize
      /\ First \in Nat /\ saved \in FileEntries /\ ~saved.indexed
  BY <1>2, EntryIs
<1>4. native.kind \in {"data", "text"} /\ Len(native.bytes) >= 1 /\ native.bytes \in Bytes
  BY <1>2, NativeIs
<1>5. f.kind = saved.kind /\ f.first = saved.first
  BY <1>1, <1>3, IndexedIs
<1>6. CASE saved.kind # "text"
  <2>1. f = saved
    BY <1>1, <1>6 DEF Indexed
  <2>2. \A b \in saved.first..saved.last-1 : blocks[b] \in Block
    <3> TAKE b \in saved.first..saved.last-1
    <3>1. b \in Nat /\ First <= b /\ b < First + Room
      BY <1>2, <1>3
    <3> QED BY <3>1, BlocksThere
  <2>3. saved.last > saved.first
    BY <1>2, <1>3
  <2>4. ReadsAs(blocks, f, WholeOf(blocks, f))
    BY <1>3, <1>6, <2>1, <2>2, <2>3, DataReads
  <2>5. FileSize(f) = DataFileSize(saved)
    BY <1>6, <2>1 DEF FileSize
  <2>6. ~(native.done /\ native.kind = "text")
    BY <1>2, <1>3, <1>4, <1>6 DEF SavedOK, NoneWritten
  <2>7. ReadsAs(blocks, f, Whole(f))
    BY <2>4, WholeIs
  <2> QED BY <1>1, <2>1, <2>5, <2>6, <2>7 DEF FileReadsAs
<1>7. CASE saved.kind = "text" /\ ~native.done
  <2>1. saved.last = First + 1 /\ saved.lastByte = 0
    BY <1>2, <1>7 DEF SavedOK, TextWritten, EmptyFile
  <2>2. blocks[saved.first] \in Block
    <3>1. First \in Nat /\ First <= First /\ First < First + Room
      BY <1>2, <1>3, <2>1
    <3> QED BY <1>3, <3>1, BlocksThere
  <2>3. ReadsAs(blocks, f, WholeOf(blocks, f))
    BY <1>1, <1>3, <1>7, <2>1, <2>2, EmptyTextReads
  <2>4. ReadsAs(blocks, f, Whole(f))
    BY <2>3, WholeIs
  <2> QED BY <1>1, <1>5, <1>7, <2>4 DEF FileReadsAs
<1>8. CASE saved.kind = "text" /\ native.done
  <2>1. PICK n : n = WriterBlocks(writer)
    OBVIOUS
  <2>2. native.kind = "text" /\ at > Len(native.bytes) /\ at \in Nat /\ at > 1
    <3>1. native.kind = "text" /\ at > Len(native.bytes)
      BY <1>2, <1>8
    <3>2. Len(native.bytes) \in Nat
      BY <1>2, NativeIs
    <3> QED BY <1>4, <3>1, <3>2 DEF WriterOK
  <2>3. GoodWriter(writer) /\ writer.current # <<>> /\ Decode(RawText(writer)) = AsUnix(native.bytes)
    <3>1. ~(at <= Len(native.bytes))
      BY <1>4, <2>2 DEF Bytes
    <3> QED BY <2>2, <3>1 DEF WriterOK, TextSoFar
  <2>4. /\ n \in Nat /\ written = n /\ saved.last = First + (n + 1) /\ saved.lastByte = BlockSize
        /\ \A i \in 0..n-1 : blocks[First + i] = WriterData(writer, i)
    <3>1. n \in Nat
      BY <2>1, <2>3, WriterBlocksIs
    <3>2. TextWritten
      BY <1>2, <1>8 DEF SavedOK
    <3> QED BY <1>8, <2>1, <3>1, <3>2 DEF TextWritten
  <2>5. blocks[First + n] \in Block
    <3>1. First + n \in Nat /\ First <= First + n /\ First + n < First + Room
      BY <1>2, <1>3, <2>4
    <3> QED BY <3>1, BlocksThere
  <2>6. Laid(blocks, saved, writer, n)
    BY <1>3, <2>1, <2>3, <2>4, <2>5 DEF Laid
  <2>7. /\ ReadsAs(blocks, f, WholeOf(blocks, f))
        /\ WholeOf(blocks, f) = Decode(RawText(writer)) \o Decode(blocks[First + n])
    <3>1. LET i == Indexed(blocks, saved)
          IN  /\ ReadsAs(blocks, i, WholeOf(blocks, i))
              /\ WholeOf(blocks, i) = Decode(RawText(writer)) \o Decode(blocks[saved.first + n])
      BY <1>3, <1>8, <2>6, TextReads
    <3> QED BY <1>1, <1>3, <3>1
  <2>8. Expected = Decode(RawText(writer)) /\ Expected \in Bytes
    <3>1. RawText(writer) \in Bytes
      BY <2>3, RawTextIs
    <3> QED BY <2>2, <2>3, <3>1, DecodeBytes DEF Expected
  <2>9. blocks[First + n] \in Bytes
    BY <2>5, BlockBytes
  <2>10. ReadsAs(blocks, f, Whole(f)) /\ Whole(f) = Expected \o Decode(blocks[First + n])
    BY <2>7, <2>8, WholeIs
  <2> QED BY <1>1, <1>5, <1>8, <2>1, <2>8, <2>9, <2>10 DEF FileReadsAs
<1> QED BY <1>6, <1>7, <1>8

(* Two reads, or one, are a slice of the file.                             *)
LEMMA SlicesIs ==
  ASSUME NEW W \in Bytes, NEW a \in Nat, NEW k \in 0..Len(W), a <= k
  PROVE  /\ SubSeq(W, a + 1, k) \in Bytes /\ Len(SubSeq(W, a + 1, k)) = k - a
         /\ SubSeq(W, a + 1, k) = SubSeq(W, a + 1, a + Len(SubSeq(W, a + 1, k)))
         /\ SubSeq(W, 1, a) \o SubSeq(W, a + 1, k) = SubSeq(W, 1, k)
<1>1. W \in Seq(Nat) /\ Len(W) \in Nat /\ k \in Nat
  BY LenProperties DEF Bytes
<1>2. a + 1 \in 1..Len(W)+1 /\ k \in (a + 1)-1..Len(W) /\ k - (a + 1) + 1 = k - a
  BY <1>1
<1>3. SubSeq(W, a + 1, k) \in Seq(Nat) /\ Len(SubSeq(W, a + 1, k)) = k - a
  BY <1>1, <1>2, SubSeqFacts
<1>4. a + (k - a) = k
  BY <1>1
<1>5. SubSeq(W, 1, a) \o SubSeq(W, a + 1, k) = SubSeq(W, 1, k)
  <2>1. 1 \in 1..Len(W)+1 /\ a \in 1-1..Len(W) /\ k \in a..Len(W)
    BY <1>1
  <2> QED BY <1>1, <2>1, ConcatAdjacentSubSeq
<1> QED BY <1>3, <1>4, <1>5 DEF Bytes

-----------------------------------------------------------------------------
(* Every action keeps the invariant.                                       *)

LEMMA PutKeeps ==
  ASSUME IInv, NEW k, NEW b, Put(k, b),
         (k = "data" /\ b \in DataFiles) \/ (k = "text" /\ b \in TextFiles)
  PROVE  IInv'
<1>1. /\ BlocksOK /\ Phases /\ WriterOK /\ SavedOK
      /\ command = "none" /\ native = Nothing /\ command' = "put"
      /\ native' = [kind |-> k, bytes |-> b, done |-> FALSE]
      /\ UNCHANGED <<blocks, saved, file, writer, at, written, got>>
  BY DEF IInv, Put
<1>2. /\ native' \in Natives /\ native'.kind = k /\ native'.bytes = b /\ native'.done = FALSE
      /\ k \in {"data", "text"}
  BY <1>1 DEF Natives
<1>3. b \in Bytes /\ Len(b) \in Nat /\ Len(b) >= 1
  BY FileIsBytes
<1>4. saved = NoEntry /\ file = NoEntry /\ got = GotNothing
  BY <1>1 DEF Phases
<1>5. at = 1 /\ writer = NewWriter /\ written = 0
  BY <1>1, <1>4, NothingIs DEF WriterOK, SavedOK, NoneWritten
<1>6. BlocksOK'
  BY <1>1 DEF BlocksOK, Room
<1>7. Phases'
  BY <1>1, <1>2, <1>4, NativeIs DEF Phases
<1>8. WriterOK'
  <2>1. GoodWriter(writer')
    BY <1>1 DEF WriterOK
  <2>2. at' = 1 /\ writer' = NewWriter /\ at' \in 1..Len(native'.bytes)+1
    BY <1>1, <1>2, <1>3, <1>5
  <2>3. TextSoFar' = <<>>
    <3>1. Unix(b)[0] = <<>>
      BY <1>3, UnixIs
    <3> QED BY <1>2, <1>3, <2>2, <3>1 DEF TextSoFar
  <2> QED BY <2>1, <2>2, <2>3, NewWriterIs DEF WriterOK
<1>9. SavedOK'
  BY <1>1, <1>2, <1>4, <1>5 DEF SavedOK, NoneWritten
<1>10. ReadingOK'
  BY <1>1 DEF ReadingOK, Reading
<1> QED BY <1>6, <1>7, <1>8, <1>9, <1>10 DEF IInv

LEMMA ExitKeeps ==
  ASSUME IInv, Exit
  PROVE  IInv'
<1>1. /\ BlocksOK /\ Phases /\ WriterOK /\ SavedOK
      /\ command # "none" /\ command' = "none" /\ file' = NoEntry /\ got' = GotNothing
      /\ UNCHANGED <<blocks, saved, written>>
      /\ saved = NoEntry => native' = Nothing /\ writer' = NewWriter /\ at' = 1
      /\ saved # NoEntry => UNCHANGED <<native, writer, at>>
  BY DEF IInv, Exit
<1>2. BlocksOK'
  BY <1>1 DEF BlocksOK, Room
<1>3. Phases'
  BY <1>1 DEF Phases
<1>4. WriterOK'
  <2>1. CASE saved = NoEntry
    <3>1. native'.kind = "none" /\ native'.bytes = <<>> /\ writer' = NewWriter /\ at' = 1
      BY <1>1, <2>1, NothingIs
    <3>2. at' \in 1..Len(native'.bytes)+1
      BY <3>1, EmptyBytes
    <3> QED BY <3>1, <3>2, NewWriterIs DEF WriterOK
  <2>2. CASE saved # NoEntry
    BY <1>1, <2>2 DEF WriterOK, TextSoFar
  <2> QED BY <2>1, <2>2
<1>5. SavedOK'
  <2>1. CASE saved = NoEntry
    BY <1>1, <2>1, NothingIs DEF SavedOK, NoneWritten
  <2>2. CASE saved # NoEntry
    BY <1>1, <2>2 DEF SavedOK, EmptyFile, NoneWritten, TextWritten, DataWritten, Room
  <2> QED BY <2>1, <2>2
<1>6. ReadingOK'
  BY <1>1 DEF ReadingOK, Reading
<1> QED BY <1>2, <1>3, <1>4, <1>5, <1>6 DEF IInv

(* Nothing that put has left behind changes while it is read.              *)
LEMMA ReadersKeep ==
  ASSUME IInv, UNCHANGED <<blocks, saved, native, writer, at, written>>
  PROVE  BlocksOK' /\ WriterOK' /\ SavedOK'
<1>1. BlocksOK'
  BY DEF IInv, BlocksOK, Room
<1>2. WriterOK'
  BY DEF IInv, WriterOK, TextSoFar
<1>3. SavedOK'
  BY DEF IInv, SavedOK, EmptyFile, NoneWritten, TextWritten, DataWritten, Room
<1> QED BY <1>1, <1>2, <1>3

LEMMA GotNothingIs ==
  /\ GotNothing = [from |-> GotNothing.from, bytes |-> GotNothing.bytes]
  /\ GotNothing.from = 0 /\ GotNothing.bytes = <<>>
BY DEF GotNothing

LEMMA ReaderKeeps ==
  ASSUME IInv, NEW c \in {"get", "cat", "fuse"}, Reader(c)
  PROVE  IInv'
<1>1. /\ BlocksOK /\ Phases /\ WriterOK /\ SavedOK
      /\ command = "none" /\ Opens /\ command' = c
      /\ file' = Indexed(blocks, [saved EXCEPT !.pages = <<>>, !.indexed = FALSE])
      /\ UNCHANGED <<blocks, saved, native, writer, at, written, got>>
  BY DEF IInv, Reader
<1>2. saved # NoEntry /\ saved.last <= First + Room /\ saved \in Entry /\ got = GotNothing
      /\ saved.pages = <<>> /\ saved.indexed = FALSE
  BY <1>1 DEF Opens, Phases, SavedOK
<1>3. [saved EXCEPT !.pages = <<>>, !.indexed = FALSE] = saved
  BY <1>2 DEF Entry
<1>4. file' = Indexed(blocks, saved)
  BY <1>1, <1>3
<1>5. Phases'
  BY <1>1, <1>2 DEF Phases
<1>6. ReadingOK'
  <2>1. FileReadsAs(file')
    BY <1>1, <1>2, <1>4, FileReads
  <2>2. Whole(file') \in Bytes /\ FileSize(file') \in Nat
    BY <2>1 DEF FileReadsAs, ReadsAs, Bytes
  <2>3. PICK W : W = Whole(file')
    OBVIOUS
  <2>4. Whole(file)' = W
    BY <1>1, <2>3 DEF Whole, Flat
  <2>5. SubSeq(W, 0 + 1, 0 + 0) = <<>>
    <3>1. W \in Seq(Nat) /\ 1 \in Int /\ 0 \in Int /\ 0 < 1
      BY <2>2, <2>3 DEF Bytes
    <3>2. SubSeq(W, 1, 0) = <<>>
      BY <3>1, SubSeqEmpty
    <3> QED BY <3>2
  <2>6. Sliced'
    BY <1>1, <1>2, <2>4, <2>5, GotNothingIs, EmptyBytes DEF Sliced
  <2>7. 0 <= FileSize(file') /\ 0 % BlockSize = 0
    BY <2>2, PageSizeIs
  <2>8. Len(got'.bytes) = 0 /\ got'.from = 0 /\ got' = [from |-> got'.from, bytes |-> got'.bytes]
    BY <1>1, <1>2, GotNothingIs, EmptyBytes
  <2>9. saved' # NoEntry /\ (saved.last <= First + Room)' /\ file' = Indexed(blocks, saved)'
    BY <1>1, <1>2, <1>4 DEF Room
  <2> QED BY <2>6, <2>7, <2>8, <2>9 DEF ReadingOK
<1> QED BY <1>1, <1>5, <1>6, ReadersKeep DEF IInv

(* A whole block more is whole blocks still.                               *)
LEMMA NextBlock ==
  ASSUME NEW x \in Nat, x % BlockSize = 0
  PROVE  (x + BlockSize) % BlockSize = 0
<1>1. PICK q : q = x \div BlockSize
  OBVIOUS
<1>2. q \in Nat /\ x = q * BlockSize + 0 /\ BlockSize \in Nat \ {0}
  BY <1>1, Divided, PageSizeIs
<1>3. (q + 1) * BlockSize = q * BlockSize + BlockSize /\ q * BlockSize \in Nat
  BY <1>2, Products
<1>4. x + BlockSize = (q + 1) * BlockSize + 0
  BY ONLY <1>2, <1>3
<1>5. q + 1 \in Nat /\ 0 \in 0..BlockSize-1
  BY <1>2
<1>6. ((q + 1) * BlockSize + 0) % BlockSize = 0
  BY <1>5, Multiple
<1> QED BY <1>4, <1>6

(* What the reader of the next chunk gets, and what it has then.           *)
LEMMA ChunkIs ==
  ASSUME IInv, ReadChunk
  PROVE  /\ got' = [from |-> 0, bytes |-> got'.bytes] /\ got'.bytes \in Bytes
         /\ FileReadsAs(file) /\ FileSize(file) \in Nat
         /\ Len(got.bytes) \in Nat /\ Len(got'.bytes) > Len(got.bytes)
         /\ Len(got'.bytes) <= FileSize(file)
         /\ Len(got'.bytes) = FileSize(file) \/ Len(got'.bytes) % BlockSize = 0
         /\ got'.bytes = SubSeq(Whole(file), 1, Len(got'.bytes))
<1>1. /\ BlocksOK /\ Phases /\ WriterOK /\ SavedOK
      /\ command \in {"get", "cat"} /\ Len(got.bytes) < FileSize(file)
      /\ got' = [got EXCEPT !.bytes = @ \o Read(blocks, file, Chunk, Len(got.bytes))]
  BY DEF IInv, ReadChunk
<1>2. /\ saved # NoEntry /\ saved.last <= First + Room /\ file = Indexed(blocks, saved)
      /\ got = [from |-> got.from, bytes |-> got.bytes] /\ got.from = 0
      /\ Len(got.bytes) = FileSize(file) \/ Len(got.bytes) % BlockSize = 0
      /\ Sliced
  BY <1>1 DEF IInv, ReadingOK, Reading
<1>3. FileReadsAs(file)
  BY <1>1, <1>2, FileReads
<1>4. PICK W : W = Whole(file)
  OBVIOUS
<1>5. PICK m, l, c : m = FileSize(file) /\ l = Len(got.bytes) /\ c = Chunk
  OBVIOUS
<1>6. W \in Bytes /\ m = Len(W) /\ m \in Nat /\ ReadsAs(blocks, file, W)
  BY <1>3, <1>4, <1>5 DEF FileReadsAs, ReadsAs, Bytes
<1>7. l \in Nat /\ l < m /\ l % BlockSize = 0 /\ BlockSize \in Nat \ {0}
  <2>1. l \in Nat
    BY <1>2, <1>5 DEF Sliced, Bytes
  <2> QED BY <1>1, <1>2, <1>5, <1>6, <2>1, PageSizeIs
<1>8. c = IF BlockSize <= m - l THEN BlockSize ELSE m - l
  BY <1>5 DEF Chunk, Smaller
<1>9. c \in Nat /\ c >= 1 /\ l + c <= m /\ (l + c = m \/ c = BlockSize)
  BY <1>6, <1>7, <1>8
<1>10. Read(blocks, file, c, l) = SubSeq(W, l + 1, l + c)
  <2>1. Read(blocks, file, c, l) =
           IF l >= Len(W) THEN <<>>
           ELSE SubSeq(W, l + 1, IF l + c > Len(W) THEN Len(W) ELSE l + c)
    BY <1>6, <1>7, <1>9 DEF ReadsAs
  <2> QED BY <1>6, <1>7, <1>9, <2>1
<1>11. got.bytes = SubSeq(W, 1, l)
  <2>1. got.bytes = SubSeq(W, 0 + 1, 0 + l)
    BY <1>2, <1>4, <1>5 DEF Sliced
  <2> QED BY <1>7, <2>1
<1>12. PICK k : k = l + c
  OBVIOUS
<1>13. k \in 0..Len(W) /\ l <= k /\ k > l
  BY <1>6, <1>7, <1>9, <1>12
<1>14. /\ SubSeq(W, 1, l) \o SubSeq(W, l + 1, k) = SubSeq(W, 1, k)
       /\ SubSeq(W, 1, k) \in Bytes /\ Len(SubSeq(W, 1, k)) = k
  <2>1. SubSeq(W, 1, l) \o SubSeq(W, l + 1, k) = SubSeq(W, 1, k)
    BY <1>6, <1>7, <1>13, SlicesIs
  <2>2. 0 \in Nat /\ 0 <= k /\ 0 + 1 = 1 /\ k - 0 = k
    BY <1>13
  <2>3. SubSeq(W, 0 + 1, k) \in Bytes /\ Len(SubSeq(W, 0 + 1, k)) = k - 0
    BY <1>6, <1>13, <2>2, SlicesIs
  <2> QED BY <2>1, <2>2, <2>3
<1>15. got' = [from |-> 0, bytes |-> SubSeq(W, 1, k)]
  <2>1. PICK z : z = SubSeq(W, 1, k)
    OBVIOUS
  <2>2. got.bytes \o Read(blocks, file, Chunk, Len(got.bytes)) = z
    BY <1>5, <1>10, <1>11, <1>12, <1>14, <2>1
  <2>3. got = [from |-> 0, bytes |-> got.bytes]
    BY <1>2
  <2>4. got' = [from |-> 0, bytes |-> z]
    BY <1>1, <2>2, <2>3
  <2> QED BY <2>1, <2>4
<1>16. got'.bytes = SubSeq(W, 1, k) /\ Len(got'.bytes) = k /\ got'.bytes \in Bytes
  BY <1>14, <1>15
<1>17. k = m \/ k % BlockSize = 0
  BY <1>7, <1>9, <1>12, NextBlock
<1>18. k > l /\ k <= m
  BY <1>6, <1>13
<1> QED BY <1>3, <1>4, <1>5, <1>6, <1>7, <1>15, <1>16, <1>17, <1>18

LEMMA ReadChunkKeeps ==
  ASSUME IInv, ReadChunk
  PROVE  IInv'
<1>1. /\ Phases /\ command \in {"get", "cat"}
      /\ UNCHANGED <<blocks, saved, command, file, native, writer, at, written>>
  BY DEF IInv, ReadChunk
<1>2. saved # NoEntry /\ saved.last <= First + Room /\ file = Indexed(blocks, saved)
  BY <1>1 DEF IInv, ReadingOK, Reading
<1>3. Phases'
  BY <1>1 DEF Phases
<1>4. PICK l : l = Len(got'.bytes)
  OBVIOUS
<1>5. l \in Nat /\ got'.from = 0 /\ got'.bytes \in Bytes
  BY <1>4, ChunkIs DEF Bytes
<1>6. Sliced'
  <2>1. PICK W : W = Whole(file)
    OBVIOUS
  <2>2. Whole(file)' = W
    BY <1>1, <2>1 DEF Whole, Flat
  <2>3. got'.bytes = SubSeq(W, 1, l)
    BY <1>4, <2>1, ChunkIs
  <2>4. got'.bytes = SubSeq(W, got'.from + 1, got'.from + l)
    BY <1>5, <2>3
  <2> QED BY <1>4, <1>5, <2>2, <2>4 DEF Sliced
<1>7. ReadingOK'
  <2>1. saved' # NoEntry /\ (saved.last <= First + Room)' /\ file' = Indexed(blocks, saved)'
    BY <1>1, <1>2 DEF Room
  <2>2. got' = [from |-> got'.from, bytes |-> got'.bytes] /\ got'.from = 0
    BY <1>5, ChunkIs
  <2>3. /\ Len(got'.bytes) <= FileSize(file')
        /\ Len(got'.bytes) = FileSize(file') \/ Len(got'.bytes) % BlockSize = 0
    BY <1>1, ChunkIs
  <2> QED BY <1>6, <2>1, <2>2, <2>3 DEF ReadingOK
<1> QED BY <1>1, <1>3, <1>7, ReadersKeep DEF IInv

LEMMA FuseReadKeeps ==
  ASSUME IInv, NEW r \in Requests, FuseRead(r[1], r[2])
  PROVE  IInv'
<1>1. /\ BlocksOK /\ Phases /\ WriterOK /\ SavedOK /\ command = "fuse"
      /\ got' = [from |-> r[2], bytes |-> Read(blocks, file, r[1], r[2])]
      /\ UNCHANGED <<blocks, saved, command, file, native, writer, at, written>>
  BY DEF IInv, FuseRead
<1>2. saved # NoEntry /\ saved.last <= First + Room /\ file = Indexed(blocks, saved)
  BY <1>1 DEF IInv, ReadingOK, Reading
<1>3. FileReadsAs(file)
  BY <1>1, <1>2, FileReads
<1>4. PICK size, offset : size = r[1] /\ offset = r[2]
  OBVIOUS
<1>5. size \in Nat /\ offset \in Nat
  BY <1>4, PascalFileAssumption
<1>6. Phases'
  BY <1>1 DEF Phases
<1>7. got'.from = offset /\ got'.bytes = Read(blocks, file, size, offset)
  BY <1>1, <1>4
<1>8. ASSUME Aligned PROVE Sliced'
  <2>1. PICK W : W = Whole(file)
    OBVIOUS
  <2>2. Whole(file)' = W
    BY <1>1, <2>1 DEF Whole, Flat
  <2>3. W \in Bytes /\ Len(W) \in Nat /\ ReadsAs(blocks, file, W)
    BY <1>3, <2>1 DEF FileReadsAs, ReadsAs, Bytes
  <2>4. PICK z, m : z = got'.bytes /\ m = Len(W)
    OBVIOUS
  <2>5. z = IF offset >= m THEN <<>>
            ELSE SubSeq(W, offset + 1, IF offset + size > m THEN m ELSE offset + size)
    <3>1. offset % BlockSize = 0
      BY <1>4, <1>8 DEF Aligned
    <3> QED BY <1>5, <1>7, <2>3, <2>4, <3>1 DEF ReadsAs
  <2>6. z \in Bytes /\ z = SubSeq(W, offset + 1, offset + Len(z))
    <3>1. CASE offset >= m
      <4>1. z = <<>> /\ Len(z) = 0
        BY <2>5, <3>1, EmptyBytes
      <4>2. W \in Seq(Nat) /\ offset + 1 \in Int /\ offset + 0 \in Int /\ offset + 0 < offset + 1
        BY <1>5, <2>3 DEF Bytes
      <4>3. SubSeq(W, offset + 1, offset + 0) = <<>>
        BY <4>2, SubSeqEmpty
      <4> QED BY <4>1, <4>3, EmptyBytes
    <3>2. CASE ~(offset >= m)
      <4>1. PICK k : k = IF offset + size > m THEN m ELSE offset + size
        OBVIOUS
      <4>2. k \in 0..Len(W) /\ offset <= k
        BY <1>5, <2>3, <2>4, <3>2, <4>1
      <4>3. z = SubSeq(W, offset + 1, k)
        BY <2>5, <3>2, <4>1
      <4> QED BY <1>5, <2>3, <4>2, <4>3, SlicesIs
    <3> QED BY <3>1, <3>2
  <2> QED BY <1>7, <2>2, <2>4, <2>6 DEF Sliced
<1>9. ReadingOK'
  <2>1. saved' # NoEntry /\ (saved.last <= First + Room)' /\ file' = Indexed(blocks, saved)'
    BY <1>1, <1>2 DEF Room
  <2>2. got' = [from |-> got'.from, bytes |-> got'.bytes] /\ got'.from \in Nat
    BY <1>1, <1>5, <1>7
  <2> QED BY <1>1, <1>8, <2>1, <2>2 DEF ReadingOK
<1> QED BY <1>1, <1>6, <1>9, ReadersKeep DEF IInv

-----------------------------------------------------------------------------
(* put.                                                                    *)

LEMMA WriterGrows ==
  ASSUME IInv, WriteLine
  PROVE  /\ GoodWriter(writer') /\ writer'.current # <<>>
         /\ at' \in at+1..Len(native.bytes)+1
         /\ at' <= Len(native.bytes) =>
              ~(native.bytes[at' - 1] = LineFeed /\ native.bytes[at'] = Return)
         /\ Decode(RawText(writer')) =
              IF at' <= Len(native.bytes) THEN Unix(native.bytes)[at' - 1] ELSE AsUnix(native.bytes)
<1>1. /\ Phases /\ WriterOK /\ command = "put" /\ native.kind = "text"
      /\ at <= Len(native.bytes) /\ Len(Stored(ThisLine)) <= PageSize
      /\ writer' = LineWritten(writer, Stored(ThisLine)) /\ at' = NextLine
  BY DEF IInv, WriteLine, Splitting
<1>2. native \in Natives
  BY <1>1 DEF Phases
<1>3. PICK t, a, line, next, w :
             t = native.bytes /\ a = at /\ line = ThisLine /\ next = NextLine /\ w = writer
  OBVIOUS
<1>4. /\ t \in Bytes /\ Len(t) \in Nat /\ \A i \in 1..Len(t) : t[i] \notin {Nul, Dle}
      /\ a \in 1..Len(t)
      /\ a > 1 => ~(t[a - 1] = LineFeed /\ t[a] = Return)
      /\ GoodWriter(w) /\ Decode(RawText(w)) = Unix(t)[a - 1]
  <2>1. t \in Bytes /\ Len(t) \in Nat /\ \A i \in 1..Len(t) : t[i] \notin {Nul, Dle}
    BY <1>1, <1>2, <1>3, NativeIs
  <2>2. a \in 1..Len(t)+1 /\ a <= Len(t)
    BY <1>1, <1>3 DEF WriterOK
  <2>3. a \in 1..Len(t)
    BY <2>1, <2>2
  <2> QED BY <1>1, <1>3, <2>1, <2>2, <2>3 DEF WriterOK, TextSoFar
<1>5. LineIs(t, a, line, next)
  BY <1>3, <1>4, LineSplit
<1>6. PICK out : out = Append(line, LineFeed)
  OBVIOUS
<1>7. LineOf(Stored(line), out)
  BY <1>5, <1>6, StoredIs DEF LineIs
<1>8. PICK c, v : c = Stored(line) /\ v = LineWritten(w, c)
  OBVIOUS
<1>9. LineOf(c, out) /\ Len(c) <= PageSize /\ writer' = v
  BY <1>1, <1>3, <1>7, <1>8
<1>10. GoodWriter(v) /\ v.current # <<>> /\ Decode(RawText(v)) = Decode(RawText(w)) \o out
  BY <1>4, <1>8, <1>9, LineWrittenIs
<1>11. Decode(RawText(v)) = IF next <= Len(t) THEN Unix(t)[next - 1] ELSE AsUnix(t)
  BY <1>4, <1>5, <1>6, <1>10 DEF LineIs
<1>12. at' = next
  BY <1>1, <1>3
<1> QED BY <1>3, <1>5, <1>9, <1>10, <1>11, <1>12 DEF LineIs

LEMMA WriteLineKeeps ==
  ASSUME IInv, WriteLine
  PROVE  IInv'
<1>1. /\ BlocksOK /\ Phases /\ WriterOK /\ SavedOK /\ command = "put" /\ native.kind = "text"
      /\ file = NoEntry
      /\ UNCHANGED <<blocks, saved, command, file, native, written, got>>
  BY DEF IInv, WriteLine, Splitting
<1>2. saved = NoEntry /\ native \in Natives
  BY <1>1 DEF Phases
<1>3. BlocksOK'
  BY <1>1 DEF BlocksOK, Room
<1>4. Phases'
  BY <1>1 DEF Phases
<1>5. WriterOK'
  <2>1. at \in 1..Len(native.bytes)+1 /\ Len(native.bytes) \in Nat
    BY <1>1, <1>2, NativeIs DEF WriterOK
  <2>2. at' \in 1..Len(native.bytes)+1 /\ at' > 1
    BY <2>1, WriterGrows
  <2>3. GoodWriter(writer') /\ writer'.current # <<>>
    BY WriterGrows
  <2>4. Decode(RawText(writer')) = TextSoFar'
    BY <1>1, WriterGrows DEF TextSoFar
  <2>5. at' <= Len(native.bytes) =>
          ~(native.bytes[at' - 1] = LineFeed /\ native.bytes[at'] = Return)
    BY WriterGrows
  <2> QED BY <1>1, <2>2, <2>3, <2>4, <2>5 DEF WriterOK
<1>6. SavedOK'
  BY <1>1, <1>2 DEF SavedOK, NoneWritten
<1>7. ReadingOK'
  BY <1>1 DEF ReadingOK, Reading
<1> QED BY <1>3, <1>4, <1>5, <1>6, <1>7 DEF IInv

(* The writer of a text that has come to its end has blocks.               *)
LEMMA WriterHasBlocks ==
  ASSUME Phases, WriterOK, native.kind = "text", at > Len(native.bytes)
  PROVE  GoodWriter(writer) /\ writer.current # <<>> /\ WriterBlocks(writer) \in Nat /\ WriterBlocks(writer) >= 1
<1>1. native \in Natives
  BY NothingIs DEF Phases
<1>2. Len(native.bytes) >= 1 /\ Len(native.bytes) \in Nat /\ at \in 1..Len(native.bytes)+1
  BY <1>1, NativeIs DEF WriterOK
<1>3. at > 1
  BY <1>2
<1>4. GoodWriter(writer) /\ writer.current # <<>>
  BY <1>3 DEF WriterOK
<1>5. /\ Len(writer.pages) \in Nat /\ WriterBlocks(writer) \in Nat
      /\ Len(writer.current) <= BlockSize => WriterBlocks(writer) = 2 * Len(writer.pages) + 1
      /\ ~(Len(writer.current) <= BlockSize) => WriterBlocks(writer) = 2 * Len(writer.pages) + 2
  BY <1>4, WriterBlocksIs
<1> QED BY <1>4, <1>5

LEMMA CreateKeeps ==
  ASSUME IInv, Create
  PROVE  IInv'
<1>1. /\ BlocksOK /\ Phases /\ WriterOK /\ SavedOK /\ command = "put" /\ file = NoEntry
      /\ native.kind = "text" => at > Len(native.bytes)
      /\ file' = [kind |-> "untyped", first |-> First, last |-> First + 1,
                  lastByte |-> 0, max |-> Room * BlockSize, pages |-> <<>>, indexed |-> FALSE]
      /\ saved' = file'
      /\ UNCHANGED <<blocks, command, native, writer, at, written, got>>
  BY DEF IInv, Create, ReadyToCreate
<1>2. saved = NoEntry /\ native \in Natives /\ Room \in Nat
  BY <1>1 DEF Phases, BlocksOK
<1>3. First \in Nat /\ BlockSize \in Nat \ {0} /\ Room * BlockSize \in Nat
  BY <1>2, PascalFileAssumption, PageSizeIs, Products
<1>4. saved' \in Entry
  <2>1. PICK x : x = Room * BlockSize
    OBVIOUS
  <2>2. <<>> \in Seq(Nat)
    BY EmptySeq
  <2>3. x \in Nat /\ First + 1 \in Nat /\ 0 \in 0..BlockSize
    BY <1>3, <2>1
  <2> QED BY <1>1, <2>1, <2>2, <2>3 DEF Entry
<1>5. /\ saved'.kind = "untyped" /\ saved'.last = First + 1 /\ saved'.lastByte = 0
      /\ saved'.max = Room * BlockSize /\ saved'.pages = <<>> /\ saved'.indexed = FALSE
  <2>1. PICK x, y : x = Room * BlockSize /\ y = First + 1
    OBVIOUS
  <2>2. saved' = [kind |-> "untyped", first |-> First, last |-> y,
                  lastByte |-> 0, max |-> x, pages |-> <<>>, indexed |-> FALSE]
    BY <1>1, <2>1
  <2> QED BY <2>1, <2>2
<1>6. BlocksOK' /\ Room' = Room
  BY <1>1 DEF BlocksOK, Room
<1>7. Phases'
  BY <1>1, <1>2, <1>4, EntryIs, NativeIs DEF Phases
<1>8. WriterOK'
  BY <1>1 DEF WriterOK, TextSoFar
<1>9. SavedOK'
  <2>1. EmptyFile' /\ NoneWritten'
    BY <1>1, <1>2, <1>5 DEF EmptyFile, NoneWritten, SavedOK
  <2>2. saved'.last >= First + 1
    BY <1>3, <1>5
  <2>3. saved' # NoEntry
    BY <1>4, EntryIs
  <2> QED BY <1>1, <1>3, <1>5, <1>6, <2>1, <2>2, <2>3 DEF SavedOK
<1>10. ReadingOK'
  BY <1>1 DEF ReadingOK, Reading
<1> QED BY <1>6, <1>7, <1>8, <1>9, <1>10 DEF IInv

LEMMA SetFileKindKeeps ==
  ASSUME IInv, SetFileKind
  PROVE  IInv'
<1>1. /\ BlocksOK /\ Phases /\ WriterOK /\ SavedOK /\ command = "put" /\ file.kind = "untyped"
      /\ file' = [file EXCEPT !.kind = native.kind, !.pages = <<>>, !.indexed = FALSE]
      /\ saved' = file'
      /\ UNCHANGED <<blocks, command, native, writer, at, written, got>>
  BY DEF IInv, SetFileKind
<1>2. /\ file = saved /\ saved \in Entry /\ native \in Natives /\ Room \in Nat
  BY <1>1, NoEntryIs DEF Phases, BlocksOK
<1>3. /\ saved.kind = "untyped" /\ saved.last = First + 1 /\ saved.lastByte = 0
      /\ written = 0 /\ ~native.done /\ saved.max = Room * BlockSize /\ saved.last >= First + 1
      /\ native.kind = "text" => at > Len(native.bytes)
  BY <1>1, <1>2, EntryIs DEF SavedOK, EmptyFile, NoneWritten
<1>4. /\ native.kind \in {"data", "text"} /\ Len(native.bytes) \in Nat /\ Len(native.bytes) >= 1
      /\ native.done \in BOOLEAN
  BY <1>2, NativeIs
<1>5. saved' = [kind |-> native.kind, first |-> saved.first, last |-> saved.last,
                lastByte |-> saved.lastByte, max |-> saved.max, pages |-> <<>>, indexed |-> FALSE]
  BY <1>1, <1>2 DEF Entry
<1>6. /\ saved'.kind = native.kind /\ saved'.first = saved.first /\ saved'.last = saved.last
      /\ saved'.lastByte = saved.lastByte
      /\ saved'.max = saved.max /\ saved'.pages = <<>> /\ saved'.indexed = FALSE
  BY <1>5
<1>7. saved' \in Entry
  <2>1. <<>> \in Seq(Nat)
    BY EmptySeq
  <2> QED BY <1>2, <1>4, <1>5, <2>1 DEF Entry
<1>8. BlocksOK' /\ Room' = Room
  BY <1>1 DEF BlocksOK, Room
<1>9. Phases'
  BY <1>1, <1>2, <1>7, EntryIs, NativeIs DEF Phases
<1>10. WriterOK'
  BY <1>1 DEF WriterOK, TextSoFar
<1>11. native.kind = "text" => TextWritten'
  <2> HAVE native.kind = "text"
  <2>1. WriterBlocks(writer) \in Nat
    BY <1>1, <1>3, WriterHasBlocks
  <2>2. written' = 0 /\ ~native'.done /\ writer' = writer
    BY <1>1, <1>3
  <2>3. 0 \in 0..WriterBlocks(writer) /\ 0 <= Room /\ \A i \in 0..0-1 : FALSE
    BY <1>2, <2>1
  <2>4. EmptyFile'
    BY <1>3, <1>6 DEF EmptyFile
  <2> QED BY <1>8, <2>2, <2>3, <2>4 DEF TextWritten
<1>12. native.kind = "data" => DataWritten'
  <2> HAVE native.kind = "data"
  <2>1. written' = 0 /\ native'.bytes = native.bytes /\ ~native'.done /\ native'.done \in BOOLEAN
    BY <1>1, <1>3, <1>4
  <2>2. BlockSize \in Nat \ {0} /\ First \in Nat /\ saved.first = First /\ saved.max \in Nat
    BY <1>2, EntryIs, PageSizeIs
  <2>3. 0 \in 0..Len(native.bytes) /\ 0 # Len(native.bytes) /\ 0 % BlockSize = 0
    BY <1>4, <2>2
  <2>4. ASSUME NEW k \in 0..Room-1, NEW j \in 1..BlockSize PROVE ~(k * BlockSize + j <= 0)
    <3>1. k \in Nat /\ BlockSize \in Nat
      BY <1>2, <2>2
    <3>2. k * BlockSize \in Nat /\ j \in Nat /\ j >= 1
      BY <2>2, <3>1, Products
    <3> QED BY ONLY <3>2
  <2>5. DataFileSize(saved') = 0
    <3>1. saved'.last - saved'.first = 1 /\ saved'.lastByte = 0
      BY <1>3, <1>6, <2>2
    <3>2. 1 * BlockSize - BlockSize + 0 = 0
      BY <2>2
    <3> QED BY <3>1, <3>2 DEF DataFileSize
  <2>6. saved'.max \in Nat /\ 0 <= saved'.max
    BY <1>6, <2>2
  <2>7. DataFileSize(saved') \in 0..0+BlockSize
    BY <2>2, <2>5
  <2> QED BY <1>8, <2>1, <2>3, <2>4, <2>6, <2>7 DEF DataWritten
<1>13. SavedOK'
  <2>1. saved' # NoEntry
    BY <1>7, EntryIs
  <2> QED BY <1>1, <1>3, <1>4, <1>6, <1>8, <1>11, <1>12, <2>1 DEF SavedOK
<1>14. ReadingOK'
  BY <1>1 DEF ReadingOK, Reading
<1> QED BY <1>8, <1>9, <1>10, <1>13, <1>14 DEF IInv

(* The blocks of a text.                                                   *)
LEMMA WriterDataBlock ==
  ASSUME NEW w, GoodWriter(w), NEW n \in Nat
  PROVE  WriterData(w, n) \in Block
<1>1. PICK i : i = n \div 2
  OBVIOUS
<1>2. i \in Nat /\ (n = 2 * i \/ n = 2 * i + 1)
  BY <1>1
<1>3. WriterData(w, 2 * i) \in Block /\ WriterData(w, 2 * i + 1) \in Block
  BY <1>2, WriterDataIs
<1> QED BY <1>2, <1>3

(* A block of the room, read and written.                                  *)
LEMMA InRoom ==
  ASSUME BlocksOK, NEW n \in 0..Room-1, NEW d
  PROVE  /\ WithBlock(First + n, d) = [blocks EXCEPT ![First + n] = d]
         /\ BlockAt(First + n) = blocks[First + n]
<1>1. First \in Nat /\ Room \in Nat /\ blocks \in [First..First+Room-1 -> Block]
  BY PascalFileAssumption DEF BlocksOK
<1>2. PICK r, b : r = First+Room-1 /\ b = First + n
  OBVIOUS
<1>3. b \in First..r /\ blocks \in [First..r -> Block]
  BY <1>1, <1>2
<1>4. DOMAIN blocks = First..r /\ DOMAIN blocks \union {b} = DOMAIN blocks
  BY <1>3
<1>5. WithBlock(b, d) = [x \in DOMAIN blocks |-> IF x = b THEN d ELSE blocks[x]]
  BY <1>4 DEF WithBlock
<1>6. WithBlock(b, d) = [blocks EXCEPT ![b] = d]
  BY ONLY <1>3, <1>5
<1>7. BlockAt(b) = blocks[b]
  BY <1>3, <1>4 DEF BlockAt
<1> QED BY <1>2, <1>6, <1>7

(* Another block than the one that is written stays as it was.             *)
LEMMA WrittenBlock ==
  ASSUME BlocksOK, NEW n \in 0..Room-1, NEW d \in Block, blocks' = [blocks EXCEPT ![First + n] = d]
  PROVE  /\ BlocksOK' /\ Room' = Room /\ blocks'[First + n] = d
         /\ \A k \in 0..Room-1 : k # n => blocks'[First + k] = blocks[First + k]
<1>1. First \in Nat /\ Room \in Nat /\ blocks \in [First..First+Room-1 -> Block]
  BY PascalFileAssumption DEF BlocksOK
<1>2. DOMAIN blocks' = DOMAIN blocks
  BY <1>1
<1>3. Room' = Room
  BY <1>2 DEF Room
<1>4. First + n \in First..First+Room-1
  BY <1>1
<1>5. PICK r, b : r = Room /\ b = First + n
  OBVIOUS
<1>6. blocks' \in [First..First+r-1 -> Block] /\ blocks'[b] = d
  BY <1>1, <1>4, <1>5
<1>7. \A k \in 0..r-1 : k # n => blocks'[First + k] = blocks[First + k]
  BY <1>1, <1>5
<1> QED BY <1>1, <1>3, <1>5, <1>6, <1>7 DEF BlocksOK

LEMMA WriteTextBlockKeeps ==
  ASSUME IInv, WriteTextBlock
  PROVE  IInv'
<1>1. /\ BlocksOK /\ Phases /\ WriterOK /\ SavedOK /\ command = "put" /\ file.kind = "text"
      /\ ~native.done
      /\ WriterBlocks(writer) * BlockSize <= file.max /\ written < WriterBlocks(writer)
      /\ blocks' = WithBlock(First + written, WriterData(writer, written))
      /\ written' = written + 1
      /\ UNCHANGED <<saved, command, file, native, writer, at, got>>
  BY DEF IInv, WriteTextBlock, TextOpen
<1>2. file = saved /\ saved \in Entry /\ native \in Natives /\ Room \in Nat
  BY <1>1, NoEntryIs DEF Phases, BlocksOK
<1>3. saved.kind = "text" /\ saved # NoEntry /\ native.kind = "text"
  BY <1>1, <1>2, EntryIs, NativeIs DEF SavedOK
<1>4. /\ TextWritten /\ saved.max = Room * BlockSize /\ at > Len(native.bytes)
  BY <1>1, <1>3 DEF SavedOK
<1>5. GoodWriter(writer) /\ WriterBlocks(writer) \in Nat
  BY <1>1, <1>3, <1>4, WriterHasBlocks
<1>6. PICK B, R, n : B = BlockSize /\ R = Room /\ n = WriterBlocks(writer)
  OBVIOUS
<1>7. n <= R
  <2>1. n \in Nat /\ R \in Nat /\ B \in Nat \ {0} /\ n * B <= R * B
    BY <1>1, <1>2, <1>4, <1>5, <1>6, PageSizeIs
  <2>2. R < n => R * B + B <= n * B
    BY <2>1, Products
  <2>3. R * B \in Nat /\ n * B \in Nat
    BY <2>1, Products
  <2> QED BY ONLY <2>1, <2>2, <2>3
<1>8. written \in Nat /\ written \in 0..Room-1 /\ written < n
  <2>1. written \in 0..n
    BY <1>4, <1>6 DEF TextWritten
  <2> QED BY <1>1, <1>2, <1>5, <1>6, <1>7, <2>1
<1>9. WriterData(writer, written) \in Block
  BY <1>5, <1>8, WriterDataBlock
<1>10. /\ BlocksOK' /\ Room' = Room /\ blocks'[First + written] = WriterData(writer, written)
       /\ \A k \in 0..Room-1 : k # written => blocks'[First + k] = blocks[First + k]
  <2>1. blocks' = [blocks EXCEPT ![First + written] = WriterData(writer, written)]
    BY <1>1, <1>8, InRoom
  <2> QED BY <1>1, <1>8, <1>9, <2>1, WrittenBlock
<1>11. Phases'
  BY <1>1 DEF Phases
<1>12. WriterOK'
  BY <1>1 DEF WriterOK, TextSoFar
<1>13. TextWritten'
  <2>1. written' \in 0..WriterBlocks(writer) /\ written' <= Room
    BY <1>1, <1>2, <1>5, <1>6, <1>7, <1>8
  <2>2. ASSUME NEW i \in 0..written'-1 PROVE blocks'[First + i] = WriterData(writer, i)
    <3>1. CASE i = written
      BY <1>10, <3>1
    <3>2. CASE i # written
      <4>1. i \in 0..written-1 /\ i \in 0..Room-1
        BY <1>1, <1>2, <1>8, <3>2
      <4> QED BY <1>4, <1>10, <3>2, <4>1 DEF TextWritten
    <3> QED BY <3>1, <3>2
  <2>3. EmptyFile'
    BY <1>1, <1>4 DEF TextWritten, EmptyFile
  <2> QED BY <1>1, <1>10, <2>1, <2>2, <2>3 DEF TextWritten
<1>14. SavedOK'
  BY <1>1, <1>3, <1>4, <1>10, <1>13 DEF SavedOK
<1>15. ReadingOK'
  BY <1>1 DEF ReadingOK, Reading
<1> QED BY <1>10, <1>11, <1>12, <1>14, <1>15 DEF IInv

(* setFileSize(), of a size that is not 0.                                 *)
LEMMA WithSizeIs ==
  ASSUME NEW f \in Entry, NEW s \in Nat, s # 0, NEW g, g = WithFileSize(f, s)
  PROVE  /\ g \in Entry /\ g.kind = f.kind /\ g.first = First /\ g.max = f.max
         /\ g.pages = f.pages /\ g.indexed = f.indexed
         /\ g.last = First + (1 + s \div BlockSize) /\ g.last >= First + 1
         /\ g.lastByte = IF s % BlockSize = 0 THEN BlockSize ELSE s % BlockSize
         /\ DataFileSize(g) = IF s % BlockSize = 0 THEN s + BlockSize ELSE s
<1>1. PICK B, q, r : B = BlockSize /\ q = s \div BlockSize /\ r = s % BlockSize
  OBVIOUS
<1>2. /\ B \in Nat \ {0} /\ q \in Nat /\ r \in 0..B-1 /\ s = q * B + r /\ First \in Nat
      /\ f.first = First
  BY <1>1, PageSizeIs, Divided, EntryIs
<1>3. PICK x, y : x = First + 1 + q /\ y = IF r = 0 THEN B ELSE r
  OBVIOUS
<1>4. g = [f EXCEPT !.last = x, !.lastByte = y]
  BY <1>1, <1>2, <1>3 DEF WithFileSize
<1>5. g = [kind |-> f.kind, first |-> f.first, last |-> x, lastByte |-> y, max |-> f.max,
           pages |-> f.pages, indexed |-> f.indexed]
  BY <1>4 DEF Entry
<1>6. x \in Nat /\ x = First + (1 + q) /\ x >= First + 1 /\ y \in 0..B /\ y \in Nat
  BY <1>2, <1>3
<1>7. g \in Entry
  BY <1>1, <1>5, <1>6 DEF Entry
<1>8. /\ g.kind = f.kind /\ g.first = First /\ g.max = f.max /\ g.pages = f.pages
      /\ g.indexed = f.indexed /\ g.last = x /\ g.lastByte = y
  BY <1>2, <1>5
<1>9. DataFileSize(g) = IF r = 0 THEN s + B ELSE s
  <2>1. g.last - g.first = q + 1
    BY <1>2, <1>6, <1>8
  <2>2. (q + 1) * B = q * B + B /\ q * B \in Nat
    BY <1>2, Products
  <2>3. DataFileSize(g) = (q + 1) * B - B + y
    BY <1>1, <1>8, <2>1 DEF DataFileSize
  <2>4. PICK m : m = q * B
    OBVIOUS
  <2>5. m \in Nat /\ DataFileSize(g) = (m + B) - B + y /\ s = m + r
    BY <1>2, <2>2, <2>3, <2>4
  <2> QED BY ONLY <1>2, <1>3, <1>6, <2>5
<1> QED BY <1>1, <1>3, <1>6, <1>7, <1>8, <1>9

LEMMA WriteTextEntryKeeps ==
  ASSUME IInv, WriteTextEntry
  PROVE  IInv'
<1>1. /\ BlocksOK /\ Phases /\ WriterOK /\ SavedOK /\ command = "put" /\ file.kind = "text"
      /\ ~native.done /\ written = WriterBlocks(writer)
      /\ file' = WithFileSize(file, WriterBlocks(writer) * BlockSize)
      /\ saved' = file'
      /\ native' = [native EXCEPT !.done = TRUE]
      /\ UNCHANGED <<blocks, command, writer, at, written, got>>
  BY DEF IInv, WriteTextEntry, TextOpen
<1>2. file = saved /\ saved \in Entry /\ native \in Natives
  BY <1>1, NoEntryIs DEF Phases
<1>3. saved.kind = "text" /\ saved # NoEntry /\ native.kind = "text"
  BY <1>1, <1>2, EntryIs, NativeIs DEF SavedOK
<1>4. /\ TextWritten /\ saved.max = Room * BlockSize /\ at > Len(native.bytes)
      /\ saved.pages = <<>> /\ saved.indexed = FALSE
  BY <1>1, <1>3 DEF SavedOK
<1>5. WriterBlocks(writer) \in Nat /\ WriterBlocks(writer) >= 1
  BY <1>1, <1>3, <1>4, WriterHasBlocks
<1>6. PICK n, s : n = WriterBlocks(writer) /\ s = n * BlockSize
  OBVIOUS
<1>7. /\ n \in Nat /\ s \in Nat /\ s # 0 /\ s \div BlockSize = n /\ s % BlockSize = 0
  <2>1. n \in Nat /\ n >= 1 /\ BlockSize \in Nat \ {0} /\ 0 \in 0..BlockSize-1 /\ 1 \in Nat
    BY <1>5, <1>6, PageSizeIs
  <2>2. n * BlockSize \in Nat /\ 1 * BlockSize <= n * BlockSize
    BY <2>1, Products
  <2>3. n * BlockSize + 0 = s
    BY <1>6, <2>2
  <2>4. s \div BlockSize = n /\ s % BlockSize = 0
    BY <2>1, <2>3, Multiple
  <2> QED BY <1>6, <2>1, <2>2, <2>4
<1>8. /\ saved' \in Entry /\ saved'.kind = "text" /\ saved'.max = saved.max
      /\ saved'.pages = <<>> /\ saved'.indexed = FALSE /\ saved'.last >= First + 1
      /\ saved'.last = First + (1 + n) /\ saved'.lastByte = BlockSize
  <2>1. saved' = WithFileSize(saved, s)
    BY <1>1, <1>2, <1>6
  <2> QED BY <1>2, <1>3, <1>4, <1>7, <2>1, WithSizeIs, SMTT(30)
<1>9. /\ native' \in Natives /\ native'.kind = "text" /\ native'.bytes = native.bytes
      /\ native'.done = TRUE
  <2>1. native' = [kind |-> native.kind, bytes |-> native.bytes, done |-> TRUE]
    <3>1. native = [kind |-> native.kind, bytes |-> native.bytes, done |-> native.done]
      BY <1>2, NativeIs
    <3> QED BY <1>1, <3>1
  <2> QED BY <1>2, <1>3, <2>1 DEF Natives
<1>10. BlocksOK' /\ Room' = Room
  BY <1>1 DEF BlocksOK, Room
<1>11. Phases'
  BY <1>1, <1>8, <1>9, EntryIs, NativeIs DEF Phases
<1>12. WriterOK'
  BY <1>1, <1>3, <1>9 DEF WriterOK, TextSoFar
<1>13. TextWritten'
  <2>1. First + (1 + n) = First + (written + 1)
    BY <1>1, <1>6, <1>7, PascalFileAssumption
  <2> QED BY <1>1, <1>4, <1>6, <1>8, <1>9, <1>10, <2>1 DEF TextWritten
<1>14. SavedOK'
  <2>1. saved' # NoEntry
    BY <1>8, EntryIs
  <2> QED BY <1>1, <1>4, <1>8, <1>9, <1>10, <1>13, <2>1 DEF SavedOK
<1>15. ReadingOK'
  BY <1>1 DEF ReadingOK, Reading
<1> QED BY <1>10, <1>11, <1>12, <1>14, <1>15 DEF IInv

(* Where the next write() of data begins and ends: in one block, which is  *)
(* the file's.                                                             *)
CountsAre(w, c, q, R, L) ==
  /\ w \in Nat /\ c \in Nat /\ q \in Nat /\ R \in Nat /\ L \in Nat
  /\ c >= 1 /\ c <= BlockSize /\ w = q * BlockSize /\ q \in 0..R-1 /\ w + c <= L
  /\ w + c = L \/ (w + c) % BlockSize = 0

LEMMA CountIs ==
  ASSUME IInv, WriteData
  PROVE  /\ CountsAre(written, Count, written \div BlockSize, Room, Len(native.bytes))
         /\ saved \in Entry /\ file = saved /\ native \in Natives /\ native.kind = "data"
         /\ saved.kind = "data" /\ DataWritten /\ saved.max = Room * BlockSize
         /\ FileSize(file) \in Nat /\ FileSize(file) \in written..written+BlockSize
         /\ written + Count <= saved.max
<1>1. /\ BlocksOK /\ Phases /\ WriterOK /\ SavedOK /\ command = "put" /\ file.kind = "data"
      /\ written < Len(native.bytes) /\ NewSize <= file.max
  BY DEF IInv, WriteData
<1>2. file = saved /\ saved \in Entry /\ native \in Natives /\ Room \in Nat
  BY <1>1, NoEntryIs DEF Phases, BlocksOK
<1>3. saved.kind = "data" /\ saved # NoEntry /\ native.kind = "data"
  BY <1>1, <1>2, EntryIs, NativeIs DEF SavedOK
<1>4. DataWritten /\ saved.max = Room * BlockSize
  BY <1>1, <1>3 DEF SavedOK
<1>5. PICK w, c, q, R, L, B, m : /\ w = written /\ c = Count /\ q = w \div B /\ R = Room
                                 /\ L = Len(native.bytes) /\ B = BlockSize /\ m = FileSize(file)
  OBVIOUS
<1>6. B \in Nat \ {0} /\ R \in Nat /\ L \in Nat /\ saved.max \in Nat
  BY <1>2, <1>5, PageSizeIs, NativeIs, EntryIs
<1>7. w \in Nat /\ w < L /\ w % B = 0
  <2>1. w \in 0..L /\ (w = L \/ w % B = 0)
    BY <1>4, <1>5 DEF DataWritten
  <2> QED BY <1>1, <1>5, <1>6, <2>1
<1>8. m \in w..w+B /\ m \in Nat
  <2>1. m = DataFileSize(saved)
    BY <1>1, <1>2, <1>5 DEF FileSize
  <2>2. m \in w..w+B
    BY <1>4, <1>5, <2>1 DEF DataWritten
  <2> QED BY <1>6, <1>7, <2>2
<1>9. c = IF B <= L - w THEN B ELSE L - w
  BY <1>5 DEF Count, Smaller
<1>10. c \in Nat /\ c >= 1 /\ c <= B /\ w + c <= L /\ (w + c = L \/ c = B)
  BY <1>6, <1>7, <1>9
<1>11. w + c = L \/ (w + c) % B = 0
  BY <1>5, <1>7, <1>10, NextBlock
<1>12. q \in Nat /\ w = q * B
  <2>1. q \in Nat /\ w = q * B + (w % B)
    BY <1>5, <1>7, Divided
  <2>2. q * B \in Nat
    BY <1>6, <2>1, Products
  <2> QED BY <1>7, <2>1, <2>2
<1>13. w + c <= saved.max
  <2>1. NewSize = IF w + c > m THEN w + c ELSE m
    BY <1>5 DEF NewSize
  <2>2. NewSize <= saved.max
    BY <1>1, <1>2
  <2> QED BY <1>6, <1>7, <1>8, <1>10, <2>1, <2>2
<1>14. q \in 0..R-1
  <2>1. R <= q => R * B <= q * B
    BY <1>6, <1>12, Products
  <2>2. R * B \in Nat /\ saved.max = R * B /\ q * B \in Nat
    BY <1>4, <1>5, <1>6, <1>12, Products
  <2> QED BY ONLY <1>6, <1>7, <1>10, <1>12, <1>13, <2>1, <2>2
<1>15. CountsAre(w, c, q, R, L)
  BY <1>5, <1>6, <1>7, <1>10, <1>11, <1>12, <1>14 DEF CountsAre
<1> QED BY <1>2, <1>3, <1>4, <1>5, <1>8, <1>13, <1>15

(* The block that write() lays the bytes over.                             *)
LEMMA OverlayIs ==
  ASSUME NEW old \in Block, NEW t \in Bytes, NEW w \in Nat, NEW c \in Nat, c <= BlockSize,
         w + c <= Len(t), NEW d, d = Overlay(old, SubSeq(t, w + 1, w + c))
  PROVE  d \in Block /\ \A j \in 1..BlockSize : j <= c => d[j] = t[w + j]
<1>1. PICK x : x = SubSeq(t, w + 1, w + c) /\ d = Overlay(old, x)
  OBVIOUS
<1>2. t \in Seq(Nat) /\ Len(t) \in Nat /\ w + 1 \in 1..Len(t)+1 /\ w + c \in (w + 1)-1..Len(t)
      /\ (w + c) - (w + 1) + 1 = c
  BY LenProperties DEF Bytes
<1>3. x \in Seq(Nat) /\ Len(x) = c /\ \A j \in 1..c : x[j] = t[(w + 1) + j - 1]
  BY <1>1, <1>2, SubSeqFacts, SMTT(30)
<1>4. d = [i \in 1..BlockSize |-> IF i <= c THEN x[i] ELSE old[i]]
  BY <1>1, <1>3 DEF Overlay
<1>5. BlockSize \in Nat
  BY PageSizeIs
<1>6. \A i \in 1..BlockSize : (IF i <= c THEN x[i] ELSE old[i]) \in Nat
  <2> TAKE i \in 1..BlockSize
  <2>1. CASE i <= c
    <3>1. i \in 1..c /\ i \in 1..Len(x)
      BY <1>3, <1>5, <2>1
    <3>2. x[i] \in Nat
      BY <1>3, <3>1, ElementOfSeq
    <3> QED BY <2>1, <3>2
  <2>2. CASE ~(i <= c)
    BY <2>2 DEF Block
  <2> QED BY <2>1, <2>2
<1>7. d \in Block
  BY <1>4, <1>6 DEF Block
<1>8. ASSUME NEW j \in 1..BlockSize, j <= c PROVE d[j] = t[w + j]
  <2>1. j \in 1..c /\ (w + 1) + j - 1 = w + j
    BY <1>5, <1>8
  <2> QED BY <1>3, <1>4, <1>8, <2>1
<1> QED BY <1>7, <1>8

LEMMA WriteDataKeeps ==
  ASSUME IInv, WriteData
  PROVE  IInv'
<1>1. /\ BlocksOK /\ Phases /\ WriterOK /\ SavedOK /\ command = "put" /\ written < Len(native.bytes)
      /\ blocks' = WithBlock(First + written \div BlockSize,
                      Overlay(BlockAt(First + written \div BlockSize),
                              SubSeq(native.bytes, written + 1, written + Count)))
      /\ file' = IF NewSize > FileSize(file) THEN WithFileSize(file, NewSize) ELSE file
      /\ saved' = file'
      /\ written' = written + Count
      /\ native' = [native EXCEPT !.done = written + Count = Len(native.bytes)]
      /\ UNCHANGED <<command, writer, at, got>>
  BY DEF IInv, WriteData
<1>2. PICK w, c, q, R, L, B, t, m :
             /\ w = written /\ c = Count /\ q = w \div B /\ R = Room
             /\ L = Len(t) /\ B = BlockSize /\ t = native.bytes /\ m = FileSize(file)
  OBVIOUS
<1>3. /\ CountsAre(w, c, q, R, L) /\ saved \in Entry /\ file = saved /\ native \in Natives
      /\ native.kind = "data" /\ saved.kind = "data" /\ DataWritten /\ saved.max = R * B
      /\ m \in Nat /\ m \in w..w+B /\ w + c <= saved.max
  BY <1>2, CountIs
<1>4. /\ w \in Nat /\ c \in Nat /\ q \in Nat /\ R \in Nat /\ L \in Nat
      /\ c >= 1 /\ c <= B /\ w = q * B /\ q \in 0..R-1 /\ w + c <= L
      /\ w + c = L \/ (w + c) % B = 0
  BY <1>2, <1>3 DEF CountsAre
<1>5. B \in Nat \ {0} /\ t \in Bytes /\ First \in Nat
  BY <1>2, <1>3, PageSizeIs, NativeIs, PascalFileAssumption
<1>6. saved # NoEntry /\ saved.pages = <<>> /\ saved.indexed = FALSE /\ saved.last >= First + 1
  BY <1>1, <1>3, EntryIs DEF SavedOK
<1>7. PICK old, d : old = blocks[First + q] /\ d = Overlay(old, SubSeq(t, w + 1, w + c))
  OBVIOUS
<1>8. old \in Block
  <2>1. First + q \in Nat /\ First <= First + q /\ First + q < First + Room
    BY <1>2, <1>4, <1>5
  <2> QED BY <1>1, <1>7, <2>1, BlocksThere
<1>9. d \in Block /\ \A j \in 1..B : j <= c => d[j] = t[w + j]
  <2>1. c <= BlockSize /\ w + c <= Len(t)
    BY <1>2, <1>4
  <2>2. d \in Block /\ \A j \in 1..BlockSize : j <= c => d[j] = t[w + j]
    BY ONLY <1>4, <1>5, <1>7, <1>8, <2>1, OverlayIs
  <2> QED BY <1>2, <2>2
<1>10. blocks' = [blocks EXCEPT ![First + q] = d]
  <2>1. q \in 0..Room-1
    BY <1>2, <1>4
  <2>2. BlockAt(First + q) = old
    BY <1>1, <1>7, <2>1, InRoom
  <2>3. blocks' = WithBlock(First + q, d)
    BY <1>1, <1>2, <1>7, <2>2
  <2> QED BY <1>1, <2>1, <2>3, InRoom
<1>11. /\ BlocksOK' /\ Room' = R /\ blocks'[First + q] = d
       /\ \A k \in 0..R-1 : k # q => blocks'[First + k] = blocks[First + k]
  <2>1. BlocksOK /\ q \in 0..Room-1 /\ d \in Block /\ blocks' = [blocks EXCEPT ![First + q] = d]
    BY <1>1, <1>2, <1>4, <1>9, <1>10
  <2>2. /\ BlocksOK' /\ Room' = Room /\ blocks'[First + q] = d
        /\ \A k \in 0..Room-1 : k # q => blocks'[First + k] = blocks[First + k]
    BY ONLY <2>1, WrittenBlock
  <2> QED BY <1>2, <2>2
<1>12. /\ saved' \in Entry /\ saved'.kind = "data" /\ saved'.max = saved.max
       /\ saved'.pages = <<>> /\ saved'.indexed = FALSE /\ saved'.last >= First + 1
       /\ DataFileSize(saved') \in (w + c)..(w + c)+B
  <2>1. NewSize = IF w + c > m THEN w + c ELSE m
    BY <1>2 DEF NewSize
  <2>2. CASE w + c > m
    <3>1. PICK s : s = w + c
      OBVIOUS
    <3>2. s \in Nat /\ s # 0
      BY <1>4, <3>1
    <3>3. NewSize = s /\ NewSize > m
      BY <2>1, <2>2, <3>1
    <3>4. saved' = WithFileSize(saved, s)
      BY <1>1, <1>2, <1>3, <3>3
    <3>5. /\ saved' \in Entry /\ saved'.kind = saved.kind /\ saved'.max = saved.max
          /\ saved'.pages = saved.pages /\ saved'.indexed = saved.indexed
          /\ saved'.last >= First + 1
          /\ DataFileSize(saved') = IF s % BlockSize = 0 THEN s + BlockSize ELSE s
      BY <1>3, <3>2, <3>4, WithSizeIs
    <3>6. DataFileSize(saved') \in s..s+B
      <4>1. DataFileSize(saved') = s \/ DataFileSize(saved') = s + B
        BY <1>2, <3>5
      <4> QED BY ONLY <1>5, <3>2, <4>1
    <3> QED BY <1>3, <1>6, <3>1, <3>5, <3>6
  <2>3. CASE ~(w + c > m)
    <3>1. ~(NewSize > m)
      BY <1>3, <2>1, <2>3
    <3>2. saved' = saved
      BY <1>1, <1>2, <1>3, <3>1
    <3>3. DataFileSize(saved) = m
      BY <1>2, <1>3 DEF FileSize
    <3>4. m \in (w + c)..(w + c)+B
      BY <1>3, <1>4, <1>5, <2>3
    <3> QED BY <1>3, <1>6, <3>2, <3>3, <3>4
  <2> QED BY <2>2, <2>3
<1>13. /\ native' \in Natives /\ native'.kind = "data" /\ native'.bytes = t
       /\ native'.done \in BOOLEAN /\ (native'.done <=> w + c = L)
  <2>1. PICK v : v = (w + c = L) /\ v \in BOOLEAN
    OBVIOUS
  <2>2. native = [kind |-> native.kind, bytes |-> native.bytes, done |-> native.done]
    BY <1>3, NativeIs
  <2>3. native' = [kind |-> native.kind, bytes |-> native.bytes, done |-> v]
    BY <1>1, <1>2, <2>1, <2>2
  <2> QED BY <1>2, <1>3, <2>1, <2>3 DEF Natives
<1>14. Phases'
  BY <1>1, <1>12, <1>13, EntryIs, NativeIs DEF Phases
<1>15. WriterOK'
  BY <1>1, <1>2, <1>3, <1>13 DEF WriterOK, TextSoFar
<1>16. ASSUME NEW k \in 0..R-1, NEW j \in 1..B, k * B + j <= w + c
       PROVE  blocks'[First + k][j] = t[k * B + j]
  <2>1. k \in Nat /\ j \in Nat /\ j >= 1 /\ j <= B /\ k * B \in Nat /\ q * B \in Nat
    BY <1>4, <1>5, Products
  <2>2. CASE k = q
    <3>1. j <= c /\ k * B + j = w + j
      BY ONLY <1>4, <1>16, <2>1, <2>2
    <3> QED BY <1>9, <1>11, <2>2, <3>1
  <2>3. CASE k < q
    <3>1. k * B + B <= q * B
      BY <1>4, <1>5, <2>1, <2>3, Products
    <3>2. k * B + j <= w
      BY ONLY <1>4, <1>5, <2>1, <3>1
    <3>3. blocks[First + k][j] = t[k * B + j]
      BY <1>2, <1>3, <3>2 DEF DataWritten
    <3> QED BY <1>4, <1>11, <2>1, <2>3, <3>3
  <2>4. CASE q < k
    <3>1. q * B + B <= k * B
      BY <1>4, <1>5, <2>1, <2>4, Products
    <3> QED BY ONLY <1>4, <1>5, <1>16, <2>1, <3>1
  <2> QED BY <1>4, <2>1, <2>2, <2>3, <2>4
<1>17. DataWritten'
  <2>1. written' = w + c /\ w + c \in 0..L
    BY <1>1, <1>2, <1>4
  <2>2. w + c <= saved'.max
    BY <1>3, <1>12
  <2>3. \A k \in 0..Room'-1, j \in 1..BlockSize :
          k * BlockSize + j <= written' => blocks'[First + k][j] = native'.bytes[k * BlockSize + j]
    BY <1>2, <1>11, <1>13, <1>16, <2>1
  <2> QED BY <1>2, <1>4, <1>12, <1>13, <2>1, <2>2, <2>3 DEF DataWritten
<1>18. SavedOK'
  <2>1. saved' # NoEntry
    BY <1>12, EntryIs
  <2> QED BY <1>2, <1>3, <1>11, <1>12, <1>13, <1>17, <2>1 DEF SavedOK
<1>19. ReadingOK'
  BY <1>1 DEF ReadingOK, Reading
<1> QED BY <1>11, <1>14, <1>15, <1>18, <1>19 DEF IInv

(* IInv is inductive.                                                      *)
LEMMA StepKeeps == IInv /\ [Next]_vars => IInv'
<1> SUFFICES ASSUME IInv, [Next]_vars PROVE IInv'
  OBVIOUS
<1>1. CASE \E b \in DataFiles : Put("data", b)
  <2>1. PICK b \in DataFiles : Put("data", b)
    BY <1>1
  <2> QED BY <2>1, PutKeeps
<1>2. CASE \E b \in TextFiles : Put("text", b)
  <2>1. PICK b \in TextFiles : Put("text", b)
    BY <1>2
  <2> QED BY <2>1, PutKeeps
<1>3. CASE UNCHANGED vars
  <2>1. UNCHANGED <<blocks, saved, command, file, native, writer, at, written, got>>
    BY <1>3 DEF vars
  <2>2. Phases'
    BY <2>1 DEF IInv, Phases
  <2>3. ReadingOK'
    BY <2>1 DEF IInv, ReadingOK, Reading, Sliced, Whole, Flat, Room
  <2> QED BY <2>1, <2>2, <2>3, ReadersKeep DEF IInv
<1>4. CASE OpenThrows
  BY <1>3, <1>4 DEF OpenThrows
<1>5. CASE Get \/ Cat \/ Mount
  BY <1>5, ReaderKeeps DEF Get, Cat, Mount
<1>6. CASE \E r \in Requests : FuseRead(r[1], r[2])
  BY <1>6, FuseReadKeeps
<1>7. CASE ReadsPast \/ LineTooLong \/ CreateRefused \/ Exit
  BY <1>7, ExitKeeps DEF ReadsPast, LineTooLong, CreateRefused
<1>8. CASE WriteLine
  BY <1>8, WriteLineKeeps
<1>9. CASE Create
  BY <1>9, CreateKeeps
<1>10. CASE SetFileKind
  BY <1>10, SetFileKindKeeps
<1>11. CASE WriteTextBlock
  BY <1>11, WriteTextBlockKeeps
<1>12. CASE WriteTextEntry
  BY <1>12, WriteTextEntryKeeps
<1>13. CASE WriteData
  BY <1>13, WriteDataKeeps
<1>14. CASE ReadChunk
  BY <1>14, ReadChunkKeeps
<1> QED BY <1>1, <1>2, <1>3, <1>4, <1>5, <1>6, <1>7, <1>8, <1>9, <1>10, <1>11, <1>12, <1>13,
           <1>14 DEF Next

(* The inductive invariant holds, of put and of every reader, whenever a    *)
(* process is killed.                                                      *)
THEOREM Invariance == Spec => []IInv
BY InitIs, StepKeeps, PTL DEF Spec

-----------------------------------------------------------------------------
(* What the readers promise.                                               *)

LEMMA SubSeqItems ==
  ASSUME NEW x \in Bytes, NEW a \in Nat, NEW n \in Nat, NEW i \in 1..n
  PROVE  SubSeq(x, a + 1, a + n)[i] = x[a + i]
<1>1. (1 + (a + n)) - (a + 1) = n /\ (i + (a + 1)) - 1 = a + i
  OBVIOUS
<1> QED BY <1>1 DEF Bytes

LEMMA TypesThere == IInv => TypeOK
<1> SUFFICES ASSUME IInv PROVE TypeOK
  OBVIOUS
<1>1. BlocksOK /\ Phases /\ WriterOK /\ SavedOK /\ ReadingOK
  BY DEF IInv
<1>2. \A e \in Entry : /\ e.kind \in {"untyped", "data", "text"}
                       /\ e.first = First /\ e.last \in Nat /\ e.lastByte \in 0..BlockSize
  BY DEF Entry
<1>3. /\ command \in {"none", "put", "get", "cat", "fuse"}
      /\ saved = NoEntry \/ saved \in Entry
  BY <1>1 DEF Phases
<1> saved # NoEntry => saved.max = Room * BlockSize
  BY <1>1 DEF SavedOK
<1>4. CASE Reading
  <2>1. saved \in Entry /\ file = Indexed(blocks, saved) /\ got.from \in Nat /\ saved.indexed = FALSE
    BY <1>1, <1>3, <1>4 DEF ReadingOK, SavedOK
  <2>2. saved \in FileEntries /\ ~saved.indexed
    BY <2>1, EntryIs
  <2>3. /\ file.kind = saved.kind /\ file.first = saved.first /\ file.last = saved.last
        /\ file.lastByte = saved.lastByte
    BY <2>1, <2>2, IndexedIs
  <2>4. \A e \in {saved, file} : e = NoEntry \/
          /\ e.kind \in {"untyped", "data", "text"}
          /\ e.first = First /\ e.last \in Nat /\ e.lastByte \in 0..BlockSize
    BY <1>2, <2>1, <2>3
  <2>5. native.kind \in {"none", "data", "text"}
    BY <1>1, NativeKinds DEF Phases
  <2>6. /\ \A i \in DOMAIN writer.pages : Len(writer.pages[i]) = PageSize
        /\ Len(writer.current) <= PageSize
    <3>1. GoodWriter(writer)
      BY <1>1 DEF WriterOK
    <3>2. DOMAIN writer.pages = 1..Len(writer.pages)
      BY <3>1, LenProperties DEF GoodWriter
    <3> QED BY <3>1, <3>2 DEF GoodWriter
  <2>7. at \in 1..Len(native.bytes)+1
    BY <1>1 DEF WriterOK
  <2>8. written \in Nat
    BY <1>1, <2>1, EntryIs DEF SavedOK, NoneWritten, TextWritten, DataWritten
  <2> QED BY <1>1, <1>3, <2>1, <2>4, <2>5, <2>6, <2>7, <2>8 DEF TypeOK, BlocksOK
<1>5. CASE ~Reading
  <2>1. (file = NoEntry \/ file = saved) /\ got = GotNothing
    BY <1>1, <1>3, <1>5 DEF Phases, Reading
  <2>2. \A e \in {saved, file} : e = NoEntry \/
          /\ e.kind \in {"untyped", "data", "text"}
          /\ e.first = First /\ e.last \in Nat /\ e.lastByte \in 0..BlockSize
    BY <1>2, <1>3, <2>1
  <2>3. native.kind \in {"none", "data", "text"}
    BY <1>1, NativeKinds DEF Phases
  <2>4. /\ \A i \in DOMAIN writer.pages : Len(writer.pages[i]) = PageSize
        /\ Len(writer.current) <= PageSize
    <3>1. GoodWriter(writer)
      BY <1>1 DEF WriterOK
    <3>2. DOMAIN writer.pages = 1..Len(writer.pages)
      BY <3>1, LenProperties DEF GoodWriter
    <3> QED BY <3>1, <3>2 DEF GoodWriter
  <2>5. at \in 1..Len(native.bytes)+1
    BY <1>1 DEF WriterOK
  <2>6. written \in Nat
    <3>1. saved = NoEntry => written = 0
      BY <1>1 DEF SavedOK, NoneWritten
    <3>2. saved \in Entry => written \in Nat
      BY <1>1, EntryIs DEF SavedOK, NoneWritten, TextWritten, DataWritten
    <3> QED BY <1>3, <3>1, <3>2
  <2>7. got.from \in Nat
    BY <2>1, GotNothingIs
  <2> QED BY <1>1, <1>3, <2>2, <2>3, <2>4, <2>5, <2>6, <2>7 DEF TypeOK, BlocksOK
<1> QED BY <1>4, <1>5

(* put writes whole blocks, and none outside the room it was given; the    *)
(* entries, on the disk and in memory, keep their form.                    *)
THEOREM TypesStay == Spec => []TypeOK
BY Invariance, TypesThere, PTL

(* TextWriter ends every page with the end of a line.                      *)
LEMMA LinesThere == IInv => LinesInPages
<1> SUFFICES ASSUME IInv PROVE LinesInPages
  OBVIOUS
<1>1. GoodWriter(writer)
  BY DEF IInv, WriterOK
<1>2. DOMAIN writer.pages = 1..Len(writer.pages)
  BY <1>1, LenProperties DEF GoodWriter
<1>3. LineEnded(writer.current) /\ \A i \in DOMAIN writer.pages : LineEnded(writer.pages[i])
  BY <1>1, <1>2 DEF GoodWriter, GoodPage
<1> QED BY <1>3, Zenon DEF LinesInPages, LineEnded

(* However long the lines of a text are, none of them crosses a page.      *)
THEOREM LinesStayInPages == Spec => []LinesInPages
BY Invariance, LinesThere, PTL

LEMMA ReadersFile ==
  ASSUME IInv, Reading
  PROVE  /\ FileReadsAs(file) /\ saved \in Entry /\ native \in Natives
         /\ saved.kind \in {"untyped", native.kind} /\ saved.last <= First + Room
         /\ file = Indexed(blocks, saved)
<1>1. BlocksOK /\ Phases /\ WriterOK /\ SavedOK /\ ReadingOK
  BY DEF IInv
<1>2. saved # NoEntry /\ saved.last <= First + Room /\ file = Indexed(blocks, saved)
  BY <1>1 DEF ReadingOK
<1>3. FileReadsAs(file)
  BY <1>1, <1>2, FileReads
<1>4. saved \in Entry /\ native \in Natives /\ saved.kind \in {"untyped", native.kind}
  BY <1>1, <1>2 DEF Phases, SavedOK
<1> QED BY <1>2, <1>3, <1>4

LEMMA SizesNear == IInv => SizeNearNative
<1> SUFFICES ASSUME IInv, Reading, native.done, native.kind = "data"
             PROVE  FileSize(file) <= Len(native.bytes) + BlockSize
  BY DEF SizeNearNative
<1>1. /\ FileReadsAs(file) /\ saved \in Entry /\ native \in Natives
      /\ saved.kind \in {"untyped", native.kind}
  BY ReadersFile
<1>2. saved # NoEntry /\ saved.kind = "data" /\ DataWritten
  BY <1>1, EntryIs DEF IInv, SavedOK, NoneWritten
<1>3. FileSize(file) = DataFileSize(saved)
  BY <1>1, <1>2 DEF FileReadsAs
<1>4. /\ written = Len(native.bytes) /\ DataFileSize(saved) \in written..written+BlockSize
      /\ Len(native.bytes) \in Nat /\ BlockSize \in Nat
  BY <1>1, <1>2, NativeIs, PageSizeIs DEF DataWritten
<1> QED BY <1>3, <1>4

(* setFileSize()'s block too many is the most a copy of data grows by.     *)
THEOREM SizesStayNear == Spec => []SizeNearNative
BY Invariance, SizesNear, PTL

LEMMA TextsExact == IInv => TextExact
<1> SUFFICES ASSUME IInv, Reading, native.done, native.kind = "text",
                    blocks[First + WriterBlocks(writer)] = Zeros(BlockSize)
             PROVE  FileSize(file) = Len(Expected)
  BY DEF TextExact
<1>1. /\ ReadsAs(blocks, file, Whole(file))
      /\ Whole(file) = Expected \o Decode(blocks[First + WriterBlocks(writer)])
      /\ Expected \in Bytes
  BY ReadersFile DEF FileReadsAs
<1>2. Decode(Zeros(BlockSize)) = <<>>
  BY PageSizeIs, ZerosIs
<1>3. Expected \o <<>> = Expected
  BY <1>1, ConcatEmptySeq DEF Bytes
<1> QED BY <1>1, <1>2, <1>3 DEF ReadsAs

(* What stands in the block after a text is all that is read beyond it: a  *)
(* block of zeros adds nothing.                                            *)
THEOREM TextsReadExact == Spec => []TextExact
BY Invariance, TextsExact, PTL

LEMMA Slices ==
  ASSUME IInv, Reading, command # "fuse" \/ Aligned
  PROVE  Sliced /\ got.from \in Nat /\ FileSize(file) = Len(Whole(file)) /\ Whole(file) \in Bytes
<1>1. Sliced /\ got.from \in Nat
  BY DEF IInv, ReadingOK
<1>2. ReadsAs(blocks, file, Whole(file))
  BY ReadersFile DEF FileReadsAs
<1> QED BY <1>1, <1>2 DEF ReadsAs

(* Requests that begin at a block, as the kernel makes them and get and    *)
(* cat do, read a slice of the file, in whichever page they begin or end.  *)
THEOREM ReadsStaySlices ==
  ASSUME Aligned
  PROVE  Spec => []ReadsAreSlices
<1>1. IInv => ReadsAreSlices
  BY Slices DEF ReadsAreSlices, Sliced
<1> QED BY <1>1, Invariance, PTL

(* What put has copied is where the file reads it.                         *)
LEMMA KeptIs ==
  ASSUME IInv, Reading
  PROVE  /\ Kept \in Nat /\ FileSize(file) >= Kept
         /\ \A k \in 1..Kept : Whole(file)[k] = Expected[k]
<1>1. /\ FileReadsAs(file) /\ saved \in Entry /\ native \in Natives
      /\ saved.kind \in {"untyped", native.kind} /\ saved.last <= First + Room
      /\ file = Indexed(blocks, saved)
  BY ReadersFile
<1>2. BlocksOK /\ Phases /\ WriterOK /\ SavedOK
  BY DEF IInv
<1>3. /\ native.kind \in {"data", "text"} /\ saved # NoEntry /\ saved.first = First /\ First \in Nat
      /\ native.done \in BOOLEAN /\ Room \in Nat
  BY <1>1, <1>2, NativeIs, EntryIs DEF BlocksOK
<1>4. PICK W : W = Whole(file)
  OBVIOUS
<1>5. W \in Bytes /\ FileSize(file) = Len(W) /\ Len(W) \in Nat
  BY <1>1, <1>4 DEF FileReadsAs, ReadsAs, Bytes
<1>6. CASE native.kind = "text" /\ native.done
  <2>1. /\ W = Expected \o Decode(blocks[First + WriterBlocks(writer)])
        /\ Expected \in Bytes /\ blocks[First + WriterBlocks(writer)] \in Bytes
    BY <1>1, <1>4, <1>6 DEF FileReadsAs
  <2>2. PICK x, y : x = Expected /\ y = Decode(blocks[First + WriterBlocks(writer)])
    OBVIOUS
  <2>3. x \in Bytes /\ y \in Bytes /\ W = x \o y
    BY <2>1, <2>2, DecodeBytes
  <2>4. /\ Len(x) \in Nat /\ Len(y) \in Nat /\ Len(W) = Len(x) + Len(y)
        /\ \A i \in 1..Len(x) : W[i] = x[i]
    BY <2>3, Joined
  <2>5. Kept = Len(x)
    BY <1>6, <2>2 DEF Kept
  <2>6. Len(W) >= Len(x)
    BY <2>4
  <2> QED BY <1>4, <1>5, <2>2, <2>4, <2>5, <2>6
<1>7. CASE native.kind = "text" /\ ~native.done
  <2>1. Kept = 0
    BY <1>7 DEF Kept
  <2> QED BY <1>5, <2>1
<1>8. CASE native.kind = "data" /\ saved.kind = "untyped"
  <2>1. Kept = 0
    BY <1>2, <1>3, <1>8 DEF Kept, SavedOK, NoneWritten
  <2> QED BY <1>5, <2>1
<1>9. CASE native.kind = "data" /\ saved.kind = "data"
  <2>1. DataWritten /\ saved.last >= First + 1
    BY <1>2, <1>3, <1>9 DEF SavedOK
  <2>2. Kept = written /\ Expected = native.bytes
    BY <1>9 DEF Kept, Expected
  <2>3. file = saved /\ FileSize(file) = DataFileSize(saved)
    BY <1>1, <1>9 DEF FileReadsAs
  <2>4. PICK w, m, N, B : w = written /\ m = Len(W) /\ N = saved.last - saved.first /\ B = BlockSize
    OBVIOUS
  <2>5. w \in Nat /\ m \in Nat /\ w <= m /\ B \in Nat \ {0}
    <3>1. written \in 0..Len(native.bytes) /\ m \in written..written+BlockSize
      BY <1>5, <2>1, <2>3, <2>4 DEF DataWritten
    <3> QED BY <2>4, <3>1, PageSizeIs
  <2>6. N \in Nat /\ N >= 1 /\ N <= Room /\ saved.last = First + N
    BY <1>1, <1>3, <2>1, <2>4, EntryIs
  <2>7. ASSUME NEW b \in saved.first..saved.last-1 PROVE blocks[b] \in Block
    <3>1. b \in Nat /\ First <= b /\ b < First + Room
      BY <1>3, <2>6
    <3> QED BY <1>2, <3>1, BlocksThere
  <2>8. /\ Run(blocks, saved) \in Seq(Bytes) /\ Len(Run(blocks, saved)) = N
        /\ \A i \in 0..N-1 : Run(blocks, saved)[i + 1] = blocks[First + i]
        /\ \A i \in 1..N : Len(Run(blocks, saved)[i]) = B
    <3>1. \A i \in 0..N-1 : blocks[saved.first + i] \in Block
      <4> TAKE i \in 0..N-1
      <4>1. saved.first + i \in saved.first..saved.last-1
        BY <1>3, <2>6
      <4> QED BY <2>7, <4>1
    <3>2. saved.first \in Nat /\ N \in Nat /\ saved.last = saved.first + N
      BY <1>3, <2>6
    <3>3. /\ Run(blocks, saved) \in Seq(Bytes) /\ Len(Run(blocks, saved)) = N
          /\ \A i \in 0..N-1 : Run(blocks, saved)[i + 1] = blocks[saved.first + i]
          /\ \A i \in 1..N : Len(Run(blocks, saved)[i]) = BlockSize
      BY ONLY <3>1, <3>2, RunIs
    <3> QED BY <1>3, <2>4, <3>3
  <2>9. PICK s, F : s = Run(blocks, saved) /\ F = Concat(s)
    OBVIOUS
  <2>10. /\ F \in Bytes /\ Len(F) = N * B
         /\ \A k \in 0..N-1, j \in 1..B : k * B + j \in 1..N*B /\ F[k * B + j] = s[k + 1][j]
    <3>1. s \in Seq(Bytes) /\ Len(s) = N /\ B \in Nat /\ \A i \in 1..Len(s) : Len(s[i]) = B
      BY <2>5, <2>8, <2>9
    <3>2. /\ Concat(s) \in Bytes /\ Len(Concat(s)) = Len(s) * B
          /\ \A k \in 0..Len(s)-1, j \in 1..B :
               k * B + j \in 1..Len(s) * B /\ Concat(s)[k * B + j] = s[k + 1][j]
      BY ONLY <3>1, ConcatEven
    <3> QED BY <2>9, <3>1, <3>2
  <2>11. m <= N * B /\ \A k \in 1..m : W[k] = F[k]
    <3>1. PICK n : n = N * B - B + saved.lastByte
      OBVIOUS
    <3>2. W = SubSeq(F, 1, n) /\ m = n
      <4>1. W = WholeOf(blocks, saved)
        BY <1>4, <2>3, WholeIs
      <4>2. W = SubSeq(F, 1, n)
        BY <1>9, <2>4, <2>9, <3>1, <4>1 DEF WholeOf, FlatOf
      <4>3. m = n
        BY <1>5, <2>3, <2>4, <3>1 DEF DataFileSize
      <4> QED BY <4>2, <4>3
    <3>3. saved.lastByte \in Nat /\ saved.lastByte <= B
      BY <1>1, <2>4, EntryIs
    <3>4. N * B \in Nat
      BY <2>5, <2>6, Products
    <3>5. m <= N * B
      BY ONLY <2>5, <3>1, <3>2, <3>3, <3>4
    <3>6. ASSUME NEW k \in 1..m PROVE W[k] = F[k]
      <4>1. 0 \in Nat /\ 0 + 1 = 1 /\ 0 + m = m /\ 0 + k = k
        BY <2>5
      <4>2. SubSeq(F, 0 + 1, 0 + m)[k] = F[0 + k]
        BY <2>5, <2>10, SubSeqItems
      <4> QED BY <3>2, <4>1, <4>2
    <3> QED BY <3>5, <3>6
  <2>12. ASSUME NEW k \in 1..w PROVE W[k] = native.bytes[k]
    <3>1. PICK q, j : q = (k - 1) \div B /\ j = ((k - 1) % B) + 1
      OBVIOUS
    <3>2. q \in Nat /\ j \in 1..B /\ k = q * B + j /\ q * B \in Nat
      <4>1. k - 1 \in Nat
        BY <2>5
      <4>2. /\ q \in Nat /\ (k - 1) % B \in 0..B-1 /\ k - 1 = q * B + ((k - 1) % B)
        BY <2>4, <3>1, <4>1, Divided
      <4>3. q * B \in Nat
        BY <2>5, <4>2, Products
      <4>4. PICK r, p : r = (k - 1) % B /\ p = q * B
        OBVIOUS
      <4>5. j = r + 1 /\ r \in 0..B-1 /\ p \in Nat /\ k - 1 = p + r
        BY <3>1, <4>2, <4>3, <4>4
      <4>6. j \in 1..B /\ k = p + j
        BY ONLY <2>5, <4>5, k \in 1..w
      <4> QED BY <4>2, <4>3, <4>4, <4>6
    <3>3. q < N
      <4>1. N <= q => N * B <= q * B
        BY <2>5, <2>6, <3>2, Products
      <4>2. k <= N * B /\ N * B \in Nat
        BY <2>5, <2>6, <2>11, Products
      <4>3. j \in Nat /\ j >= 1
        BY <2>5, <3>2
      <4> QED BY ONLY <2>6, <3>2, <4>1, <4>2, <4>3
    <3>4. q \in 0..N-1 /\ q \in 0..Room-1 /\ k \in 1..m /\ q * B + j <= written
      BY <1>3, <2>4, <2>5, <2>6, <3>2, <3>3
    <3>5. F[q * B + j] = s[q + 1][j] /\ s[q + 1] = blocks[First + q]
      BY <2>8, <2>9, <2>10, <3>2, <3>4
    <3>6. blocks[First + q][j] = native.bytes[q * B + j]
      BY <2>1, <2>4, <3>2, <3>4 DEF DataWritten
    <3> QED BY <2>11, <3>2, <3>4, <3>5, <3>6
  <2>13. FileSize(file) >= w
    BY <1>5, <2>4, <2>5
  <2> QED BY <1>4, <2>2, <2>4, <2>5, <2>12, <2>13
<1> QED BY <1>1, <1>3, <1>6, <1>7, <1>8, <1>9

(* Whatever put has copied, when it ended or was killed, every reader gets *)
(* back, byte for byte.                                                    *)
THEOREM CopiesReadBack ==
  ASSUME Aligned
  PROVE  Spec => []RoundTrip
<1>1. ASSUME IInv PROVE RoundTrip
  <2>1. CASE ~Reading
    <3>1. got = GotNothing
      BY <1>1, <2>1 DEF IInv, Phases, Reading
    <3>2. DOMAIN got.bytes = {}
      BY <3>1, GotNothingIs
    <3> QED BY <2>1, <3>2 DEF RoundTrip
  <2>2. CASE Reading
    <3>1. /\ Kept \in Nat /\ FileSize(file) >= Kept
          /\ \A k \in 1..Kept : Whole(file)[k] = Expected[k]
      BY <1>1, <2>2, KeptIs
    <3>2. Sliced /\ got.from \in Nat /\ Whole(file) \in Bytes
      BY <1>1, <2>2, Slices
    <3>3. PICK W, a, z, n : W = Whole(file) /\ a = got.from /\ z = got.bytes /\ n = Len(got.bytes)
      OBVIOUS
    <3>4. z \in Bytes /\ n \in Nat /\ DOMAIN z = 1..n /\ z = SubSeq(W, a + 1, a + n)
      BY <3>2, <3>3, LenProperties DEF Sliced, Bytes
    <3>5. ASSUME NEW i \in DOMAIN z, a + i <= Kept PROVE z[i] = Expected[a + i]
      <4>1. i \in 1..n /\ a \in Nat /\ a + i \in 1..Kept
        <5>1. i \in 1..n /\ a \in Nat /\ Kept \in Nat /\ a + i <= Kept
          BY <3>1, <3>2, <3>3, <3>4, <3>5
        <5> QED BY ONLY <3>4, <5>1
      <4>2. SubSeq(W, a + 1, a + n)[i] = W[a + i]
        BY <3>2, <3>3, <3>4, <4>1, SubSeqItems
      <4> QED BY <3>1, <3>3, <3>4, <4>1, <4>2
    <3> QED BY <3>1, <3>3, <3>5 DEF RoundTrip
  <2> QED BY <2>1, <2>2
<1>2. IInv => RoundTrip
  BY <1>1
<1> QED BY <1>2, Invariance, PTL

-----------------------------------------------------------------------------
(* The loops get further.                                                  *)

Fraction(f, n) ==
  (IF f.kind \in {"data", "text"} THEN 2 ELSE IF f = NoEntry THEN 0 ELSE 1)
    + (IF n.done THEN 1 ELSE 0)

LEMMA FractionIs ==
  ASSUME NEW f, NEW n
  PROVE  Fraction(f, n) \in 0..3
BY DEF Fraction

LEMMA WithinThere == IInv => WithinEnds
<1> SUFFICES ASSUME IInv PROVE WithinEnds
  OBVIOUS
<1>1. BlocksOK /\ Phases /\ WriterOK /\ SavedOK /\ ReadingOK
  BY DEF IInv
<1>2. native \in Natives \union {Nothing}
  BY <1>1 DEF Phases
<1>3. Len(native.bytes) \in Nat /\ (native.kind # "none" => native \in Natives)
  BY <1>2, NativeKinds
<1>4. at <= Len(native.bytes) + 1
  BY <1>1, <1>3 DEF WriterOK
<1>5. WriterBlocks(writer) \in Nat
  <2>1. Len(writer.pages) \in Nat
    BY <1>1, LenProperties DEF WriterOK, GoodWriter
  <2> QED BY <2>1 DEF WriterBlocks
<1>6. saved = NoEntry => written = 0
  BY <1>1 DEF SavedOK, NoneWritten
<1>7. saved # NoEntry => saved \in Entry
  BY <1>1 DEF Phases
<1>8. native.kind = "text" => written <= WriterBlocks(writer)
  BY <1>1, <1>5, <1>6, <1>7, EntryIs DEF SavedOK, NoneWritten, TextWritten
<1>9. native.kind = "data" => written <= Len(native.bytes)
  BY <1>1, <1>3, <1>6, <1>7, EntryIs DEF SavedOK, NoneWritten, DataWritten
<1>10. command \in {"get", "cat"} => Len(got.bytes) <= FileSize(file)
  BY <1>1 DEF ReadingOK, Reading
<1> QED BY <1>4, <1>8, <1>9, <1>10 DEF WithinEnds

Amounts == at \in Nat /\ written \in Nat /\ Len(got.bytes) \in Nat

LEMMA AmountsThere == IInv /\ command \in {"put", "get", "cat"} => Amounts
<1> SUFFICES ASSUME IInv, command \in {"put", "get", "cat"} PROVE Amounts
  OBVIOUS
<1>1. at \in Nat /\ written \in Nat
  <2>1. TypeOK
    BY TypesThere
  <2>2. Len(native.bytes) \in Nat
    BY NativeKinds DEF IInv, Phases
  <2> QED BY <2>1, <2>2 DEF TypeOK
<1>2. CASE command = "put"
  BY <1>1, <1>2, GotNothingIs, EmptyBytes DEF IInv, Phases, Amounts
<1>3. CASE command \in {"get", "cat"}
  <2>1. Sliced
    BY <1>3 DEF IInv, ReadingOK, Reading
  <2> QED BY <1>1, <2>1 DEF Sliced, Bytes, Amounts
<1> QED BY <1>2, <1>3

LEMMA ProgressIs ==
  Amounts => Progress = (at + written) + (Len(got.bytes) + Fraction(file, native))
<1> SUFFICES ASSUME Amounts
             PROVE  Progress = (at + written) + (Len(got.bytes) + Fraction(file, native))
  OBVIOUS
<1>1. PICK a, b, l : /\ a = (IF file.kind \in {"data", "text"} THEN 2
                             ELSE IF file = NoEntry THEN 0 ELSE 1)
                     /\ b = (IF native.done THEN 1 ELSE 0)
                     /\ l = Len(got.bytes)
  OBVIOUS
<1>2. a \in Nat /\ b \in Nat
  BY <1>1
<1>3. Fraction(file, native) = a + b
  BY <1>1 DEF Fraction
<1>4. Progress = at + written + l + a + b
  BY <1>1 DEF Progress
<1>5. at \in Nat /\ written \in Nat /\ l \in Nat
  BY <1>1 DEF Amounts
<1>6. Progress = (at + written) + (l + (a + b))
  BY ONLY <1>2, <1>4, <1>5
<1> QED BY <1>1, <1>3, <1>6

LEMMA StepsFurther ==
  ASSUME IInv, Next, command' = command, command \in {"put", "get", "cat"}
  PROVE  UNCHANGED vars \/ Progress' > Progress
<1> DEFINE l == Len(got.bytes)
           k == Len(got'.bytes)
           x == Fraction(file, native)
           y == Fraction(file', native')
<1>1. Progress = (at + written) + (l + x) /\ at \in Nat /\ written \in Nat /\ l \in Nat /\ x \in 0..3
  BY AmountsThere, ProgressIs, FractionIs DEF Amounts
<1>2. (at' + written') + (k + y) = Progress' /\ at' \in Nat /\ written' \in Nat /\ k \in Nat /\ y \in 0..3
  <2>1. IInv'
    BY StepKeeps
  <2>2. Amounts'
    <3>1. IInv' /\ command' \in {"put", "get", "cat"}
      BY <2>1
    <3>2. (IInv /\ command \in {"put", "get", "cat"} => Amounts)'
      BY AmountsThere, PTL
    <3> QED BY <3>1, <3>2
  <2>3. (Amounts => Progress = (at + written) + (Len(got.bytes) + Fraction(file, native)))'
    BY ProgressIs, PTL
  <2> QED BY <2>2, <2>3, FractionIs DEF Amounts
<1>3. SUFFICES UNCHANGED vars \/ (at' + written') + (k + y) > (at + written) + (l + x)
  BY <1>1, <1>2
<1>4. /\ Phases /\ SavedOK
      /\ native \in Natives /\ native.done \in BOOLEAN
  BY NativeIs, NothingIs DEF IInv, Phases
<1>5. CASE ReadChunk
  <2>1. UNCHANGED <<at, written, file, native>>
    BY <1>5 DEF ReadChunk
  <2>2. k > l
    BY <1>5, ChunkIs
  <2>3. y = x
    BY <2>1
  <2> HIDE DEF k, l, x, y
  <2> QED BY <1>1, <1>2, <2>1, <2>2, <2>3
<1>6. CASE WriteLine
  <2>1. UNCHANGED <<written, file, native, got>>
    BY <1>6 DEF WriteLine
  <2>2. at' \in at+1..Len(native.bytes)+1
    BY <1>6, WriterGrows
  <2>3. at' > at
    BY <1>1, <1>4, <2>2, NativeIs
  <2>4. y = x /\ k = l
    BY <2>1
  <2>5. written' = written
    BY <2>1
  <2> HIDE DEF k, l, x, y
  <2>6. PICK a, b, c, d : a = at /\ b = at' /\ c = written /\ d = l + x
    OBVIOUS
  <2>7. a \in Nat /\ b \in Nat /\ c \in Nat /\ d \in Nat /\ b > a
    BY <1>1, <1>2, <2>3, <2>6
  <2>8. (b + c) + d > (a + c) + d
    BY ONLY <2>7
  <2> QED BY <2>4, <2>5, <2>6, <2>8
<1>7. CASE Create \/ SetFileKind
  <2>1. UNCHANGED <<at, written, native, got>> /\ command = "put"
    BY <1>7 DEF Create, ReadyToCreate, SetFileKind
  <2>2. y > x
    <3>1. CASE Create
      <4>1. file = NoEntry /\ file'.kind = "untyped"
        <5>1. PICK a, b : a = First + 1 /\ b = Room * BlockSize
          OBVIOUS
        <5> QED BY <3>1, <5>1 DEF Create, ReadyToCreate
      <4> QED BY <2>1, <4>1, NoEntryIs DEF Fraction
    <3>2. CASE SetFileKind
      <4>1. file.kind = "untyped" /\ file = saved /\ saved \in Entry
        BY <1>4, <2>1, <3>2, NoEntryIs DEF SetFileKind, Phases
      <4>2. file' = [file EXCEPT !.kind = native.kind, !.pages = <<>>, !.indexed = FALSE]
        BY <3>2 DEF SetFileKind
      <4>3. file'.kind = native.kind
        BY <4>1, <4>2 DEF Entry
      <4>4. native.kind \in {"data", "text"} /\ file # NoEntry
        BY <1>4, <4>1, NativeIs, NoEntryIs
      <4> QED BY <2>1, <4>1, <4>3, <4>4 DEF Fraction
    <3> QED BY <1>7, <3>1, <3>2
  <2>3. k = l
    BY <2>1
  <2> HIDE DEF k, l, x, y
  <2> QED BY <1>1, <1>2, <2>1, <2>2, <2>3
<1>8. CASE WriteTextBlock
  <2>1. UNCHANGED <<at, file, native, got>> /\ written' = written + 1
    BY <1>8 DEF WriteTextBlock
  <2>2. y = x /\ k = l
    BY <2>1
  <2> HIDE DEF k, l, x, y
  <2> QED BY <1>1, <1>2, <2>1, <2>2
<1>9. CASE WriteTextEntry
  <2>1. /\ UNCHANGED <<at, written, got>> /\ command = "put" /\ ~native.done /\ file.kind = "text"
        /\ native' = [native EXCEPT !.done = TRUE]
        /\ file' = WithFileSize(file, WriterBlocks(writer) * BlockSize)
    BY <1>9 DEF WriteTextEntry, TextOpen
  <2>2. file' = saved' /\ IInv'
    BY <1>9, StepKeeps DEF WriteTextEntry
  <2>3. file'.kind = "text"
    BY <1>4, <2>1, NoEntryIs DEF WithFileSize, Phases, Entry
  <2>4. native'.done = TRUE
    BY <1>4, <2>1, NativeIs
  <2>5. y > x
    BY <2>1, <2>3, <2>4 DEF Fraction
  <2>6. k = l
    BY <2>1
  <2> HIDE DEF k, l, x, y
  <2> QED BY <1>1, <1>2, <2>1, <2>5, <2>6
<1>10. CASE WriteData
  <2>1. /\ UNCHANGED <<at, got>> /\ written' = written + Count /\ command = "put"
        /\ file' = IF NewSize > FileSize(file) THEN WithFileSize(file, NewSize) ELSE file
        /\ saved' = file' /\ written < Len(native.bytes)
    BY <1>10 DEF WriteData
  <2>2. /\ Count \in Nat /\ Count >= 1 /\ saved \in Entry /\ file = saved /\ saved.kind = "data"
        /\ DataWritten
    BY <1>10, CountIs DEF CountsAre
  <2>3. ~native.done
    <3>1. native.done <=> written = Len(native.bytes)
      BY <2>2 DEF DataWritten
    <3>2. Len(native.bytes) \in Nat
      BY <1>4, NativeIs
    <3> QED BY <1>1, <2>1, <3>1, <3>2
  <2>4. file'.kind = "data"
    <3>1. WithFileSize(file, NewSize).kind = "data"
      BY <2>2 DEF WithFileSize, Entry
    <3> QED BY <2>1, <2>2, <3>1
  <2>5. y >= x
    BY <2>2, <2>3, <2>4 DEF Fraction
  <2>6. k = l
    BY <2>1
  <2> HIDE DEF k, l, x, y
  <2> QED BY <1>1, <1>2, <2>1, <2>2, <2>5, <2>6
<1>11. CASE OpenThrows
  BY <1>11 DEF OpenThrows
<1>12. CASE \/ \E b \in DataFiles : Put("data", b)
            \/ \E b \in TextFiles : Put("text", b)
            \/ Get \/ Cat \/ Mount
            \/ \E r \in Requests : FuseRead(r[1], r[2])
            \/ ReadsPast \/ LineTooLong \/ CreateRefused \/ Exit
  BY <1>12 DEF Put, Get, Cat, Mount, Reader, FuseRead, ReadsPast, LineTooLong, CreateRefused, Exit
<1> QED BY <1>5, <1>6, <1>7, <1>8, <1>9, <1>10, <1>11, <1>12 DEF Next

(* Every call of put, get and cat that they go on after brings them nearer *)
(* to their end, and none past it, whatever the text, the room and the old *)
(* bytes: a text whose end is also a host page's may end put in the read   *)
(* of the byte after it, and is split no differently when it does not.     *)
THEOREM LoopsGetFurther == Spec => GetsFurther
<1> DEFINE Further == command' = command /\ command \in {"put", "get", "cat"}
                        => Progress' > Progress /\ WithinEnds'
<1>1. IInv /\ IInv' /\ [Next]_vars => [Further]_vars
  <2> SUFFICES ASSUME IInv, IInv', [Next]_vars PROVE [Further]_vars
    OBVIOUS
  <2>1. WithinEnds'
    <3>1. (IInv => WithinEnds)'
      BY WithinThere, PTL
    <3> QED BY <3>1
  <2>2. CASE UNCHANGED vars
    BY <2>2
  <2>3. CASE Next /\ ~(UNCHANGED vars)
    BY <2>1, <2>3, StepsFurther
  <2> QED BY <2>2, <2>3
<1> QED BY <1>1, Invariance, PTL DEF Spec, GetsFurther
=============================================================================
