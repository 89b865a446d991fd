-------------------------- MODULE Libraries_proofs ---------------------------
(***************************************************************************)
(* Theorems about the handlers the guest calls as libc, libstdc++ and the  *)
(* Cg compiler, and about the trace of dispatches, each about its own      *)
(* part, for the parts share no state, and one about all of them at the    *)
(* end; the tree has a module of its own.  What several of them need comes *)
(* first.                                                                  *)
(***************************************************************************)
EXTENDS Libraries, CgShaders, RbTree_proofs, FiniteSetTheorems, SequenceTheorems,
        WellFoundedInduction, TLAPS

\* Joining a list, one after the other.
LEMMA FlattenIs ==
  ASSUME NEW S, NEW ss \in Seq(Seq(S))
  PROVE  \E f \in [0..Len(ss) -> Seq(S)] :
           /\ f[0] = <<>> /\ FlattenSeq(ss) = f[Len(ss)]
           /\ \A i \in 1..Len(ss) : f[i] = f[i - 1] \o ss[i]
<1>0. PICK n \in Nat : n = Len(ss)
  BY LenProperties
<1> DEFINE F == [p \in (1..n) \X Seq(S) |-> p[2] \o ss[p[1]]]
<1>1. \A i \in 1..n : ss[i] \in Seq(S)
  BY <1>0, ElementOfSeq, LenProperties
<1>2. F \in [(1..n) \X Seq(S) -> Seq(S)]
  BY <1>1, ConcatProperties
<1>3. <<>> \in Seq(S)
  OBVIOUS
<1>4. \A i \in 1..n : \A s \in Seq(S) : F[<<i, s>>] = s \o ss[i]
  OBVIOUS
<1> HIDE DEF F
<1>5. PICK f \in [0..n -> Seq(S)] : f[0] = <<>> /\ \A i \in 1..n : f[i] = F[<<i, f[i - 1]>>]
  <2>1. PICK V : V = Seq(S)
    OBVIOUS
  <2>2. PICK empty : empty = <<>>
    OBVIOUS
  <2>3. empty \in V /\ F \in [(1..n) \X V -> V]
    BY <1>2, <1>3, <2>1, <2>2
  <2>3a. n \in Nat
    BY <1>0
  <2>4. \E f : Unfolds(f, n, V, empty, F)
    BY <2>3a, <2>3, Recursion, Zenon
  <2> QED
    BY <2>1, <2>2, <2>4 DEF Unfolds
<1>6. \A i \in 1..n : i - 1 \in 0..n /\ f[i] = f[i - 1] \o ss[i]
  <2> SUFFICES ASSUME NEW i \in 1..n PROVE i - 1 \in 0..n /\ f[i] = f[i - 1] \o ss[i]
    OBVIOUS
  <2>1. i - 1 \in 0..n
    BY <1>0
  <2>2. f[i - 1] \in Seq(S)
    BY <2>1
  <2> QED
    BY <1>4, <1>5, <2>1, <2>2
<1> DEFINE g == [i \in 1..n |-> f[i]]
           Rec(h) == [i \in 1..n |-> IF i = 1 THEN ss[i] ELSE h[i - 1] \o ss[i]]
           C == CHOOSE h : h = Rec(h)
<1>7. g = Rec(g)
  <2>1. ASSUME NEW i \in 1..n PROVE f[i] = IF i = 1 THEN ss[i] ELSE g[i - 1] \o ss[i]
    <3>1. CASE i = 1
      <4>1. <<>> \o ss[i] = ss[i]
        BY <1>1, ConcatEmptySeq
      <4>2. f[i] = f[0] \o ss[i]
        <5>1. i - 1 = 0
          BY <3>1
        <5> QED
          BY <1>6, <5>1
      <4> QED
        BY <1>5, <3>1, <4>1, <4>2
    <3>2. CASE i # 1
      <4>1. i - 1 \in 1..n
        BY <3>2
      <4>2. g[i - 1] = f[i - 1]
        BY <4>1
      <4> HIDE DEF g
      <4> QED
        BY <1>6, <3>2, <4>2
    <3> QED
      BY <3>1, <3>2
  <2> HIDE DEF g
  <2>2. [i \in 1..n |-> f[i]] = Rec(g)
    BY <2>1
  <2> QED
    BY <2>2 DEF g
<1>8. C = Rec(C)
  BY <1>7, Zenon
<1>9. n # 0 => FlattenSeq(ss) = C[n]
  BY <1>0 DEF FlattenSeq
<1> HIDE DEF C
<1>10. \A i \in 1..n : C[i] = IF i = 1 THEN ss[i] ELSE C[i - 1] \o ss[i]
  BY <1>8
<1>11. \A i \in 1..n : C[i] = f[i]
  <2> DEFINE P == {i \in Nat : i \in 1..n => C[i] = f[i]}
  <2>1. 0 \in P
    OBVIOUS
  <2>2. ASSUME NEW i \in Nat, i \in P PROVE i + 1 \in P
    <3> SUFFICES ASSUME i + 1 \in 1..n PROVE C[i + 1] = f[i + 1]
      OBVIOUS
    <3>0. (i + 1) - 1 = i
      OBVIOUS
    <3>1. C[i + 1] = IF i + 1 = 1 THEN ss[i + 1] ELSE C[i] \o ss[i + 1]
      BY <1>10, <3>0
    <3>2. f[i + 1] = f[i] \o ss[i + 1]
      BY <1>6, <3>0
    <3>3. CASE i = 0
      <4>1. <<>> \o ss[i + 1] = ss[i + 1]
        BY <1>1, ConcatEmptySeq
      <4> QED
        BY <1>0, <1>5, <3>1, <3>2, <3>3, <4>1
    <3>4. CASE i # 0
      <4>1. C[i] = f[i] /\ i + 1 # 1
        BY <2>2, <3>4
      <4> QED
        BY <3>1, <3>2, <4>1
    <3> QED
      BY <3>3, <3>4
  <2> HIDE DEF P
  <2>3. Nat \subseteq P
    BY <2>1, <2>2, SetInduction
  <2> QED
    BY <2>3 DEF P
<1>12. FlattenSeq(ss) = f[n]
  <2>1. CASE n = 0
    <3>1. ss = <<>>
      BY <1>0, <2>1, EmptySeq
    <3> QED
      BY <1>0, <1>5, <2>1, <3>1 DEF FlattenSeq
  <2>2. CASE n # 0
    <3>1. n \in 1..n
      BY <2>2
    <3> QED
      BY <1>9, <1>11, <2>2, <3>1
  <2> QED
    BY <2>1, <2>2
<1> QED
  BY <1>0, <1>5, <1>6, <1>12

\* Joining one more sequence to those joined.
LEMMA FlattenMore ==
  ASSUME NEW S, NEW ss \in Seq(Seq(S)), NEW s \in Seq(S), NEW tt \in Seq(Seq(S)),
         Len(tt) = Len(ss) + 1, tt[Len(ss) + 1] = s,
         \A i \in 1..Len(ss) : tt[i] = ss[i]
  PROVE  FlattenSeq(ss) \in Seq(S) /\ FlattenSeq(tt) = FlattenSeq(ss) \o s
<1>0. PICK n \in Nat : n = Len(ss)
  BY LenProperties
<1>1. PICK f \in [0..Len(ss) -> Seq(S)] :
        /\ f[0] = <<>> /\ FlattenSeq(ss) = f[Len(ss)]
        /\ \A i \in 1..Len(ss) : f[i] = f[i - 1] \o ss[i]
  BY FlattenIs
<1>2. PICK g \in [0..Len(tt) -> Seq(S)] :
        /\ g[0] = <<>> /\ FlattenSeq(tt) = g[Len(tt)]
        /\ \A i \in 1..Len(tt) : g[i] = g[i - 1] \o tt[i]
  BY FlattenIs
<1> DEFINE P == {i \in Nat : i <= n => g[i] = f[i]}
<1>3. 0 \in P
  BY <1>1, <1>2
<1>4. ASSUME NEW i \in Nat, i \in P PROVE i + 1 \in P
  <2> SUFFICES ASSUME i + 1 <= n PROVE g[i + 1] = f[i + 1]
    OBVIOUS
  <2>1. i + 1 \in 1..Len(ss) /\ i + 1 \in 1..Len(tt) /\ (i + 1) - 1 = i
    BY <1>0
  <2>2. f[i + 1] = f[i] \o ss[i + 1]
    BY <1>1, <2>1
  <2>3. g[i + 1] = g[i] \o tt[i + 1]
    BY <1>2, <2>1
  <2>4. tt[i + 1] = ss[i + 1]
    BY <2>1
  <2>5. g[i] = f[i]
    BY <1>4
  <2> QED
    BY <2>2, <2>3, <2>4, <2>5
<1> HIDE DEF P
<1>5. n \in P
  BY <1>3, <1>4, <1>0, SetInduction
<1>6. g[n] = f[n]
  BY <1>5, <1>0 DEF P
<1>7. n + 1 \in 1..Len(tt) /\ (n + 1) - 1 = n
  BY <1>0
<1>8. g[n + 1] = g[n] \o tt[n + 1]
  BY <1>2, <1>7
<1>9. f[n] \in Seq(S)
  BY <1>0, <1>1
<1> QED
  BY <1>0, <1>1, <1>2, <1>6, <1>8, <1>9

\* Joining no sequences.
LEMMA FlattenNone == FlattenSeq(<<>>) = <<>>
BY DEF FlattenSeq

\* The first sequences of a list.
LEMMA FirstOnes ==
  ASSUME NEW S, NEW ss \in Seq(S), NEW m \in 0..Len(ss)
  PROVE  /\ SubSeq(ss, 1, m) \in Seq(S) /\ Len(SubSeq(ss, 1, m)) = m
         /\ \A i \in 1..m : SubSeq(ss, 1, m)[i] = ss[i]
<1>1. PICK n \in Nat : n = Len(ss)
  BY LenProperties
<1>2. \A i \in 1..m : ss[i] \in S
  BY <1>1, ElementOfSeq
<1> QED
  BY <1>1, <1>2, SubSeqProperties

\* Joining the next of a list.
LEMMA FlattenNext ==
  ASSUME NEW S, NEW ss \in Seq(Seq(S)), NEW m \in 1..Len(ss)
  PROVE  /\ FlattenSeq(SubSeq(ss, 1, m - 1)) \in Seq(S) /\ ss[m] \in Seq(S)
         /\ FlattenSeq(SubSeq(ss, 1, m)) = FlattenSeq(SubSeq(ss, 1, m - 1)) \o ss[m]
<1>0. PICK n \in Nat : n = Len(ss)
  BY LenProperties
<1>1. ss[m] \in Seq(S)
  BY <1>0, ElementOfSeq
<1>2. m - 1 \in 0..Len(ss) /\ m \in 0..Len(ss) /\ m \in Nat
  BY <1>0
<1>3. PICK s1 \in Seq(Seq(S)) : s1 = SubSeq(ss, 1, m - 1) /\ Len(s1) = m - 1
                                /\ \A i \in 1..m - 1 : s1[i] = ss[i]
  BY <1>2, FirstOnes
<1>4. PICK s2 \in Seq(Seq(S)) : s2 = SubSeq(ss, 1, m) /\ Len(s2) = m
                                /\ \A i \in 1..m : s2[i] = ss[i]
  BY <1>2, FirstOnes, ZenonT(60)
<1>5. Len(s2) = Len(s1) + 1 /\ s2[Len(s1) + 1] = ss[m]
  <2>1. Len(s1) + 1 = m /\ m \in 1..m
    BY <1>2, <1>3
  <2> QED
    BY <1>4, <2>1
<1>6. \A i \in 1..Len(s1) : s2[i] = s1[i]
  BY <1>2, <1>3, <1>4
<1>7. FlattenSeq(s1) \in Seq(S) /\ FlattenSeq(s2) = FlattenSeq(s1) \o ss[m]
  BY <1>1, <1>3, <1>4, <1>5, <1>6, FlattenMore, ZenonT(60)
<1> QED
  BY <1>1, <1>3, <1>4, <1>7

\* What the first sequences make begins what all of them make.
LEMMA FlattenStarts ==
  ASSUME NEW S, NEW ss \in Seq(Seq(S)), NEW j \in 0..Len(ss)
  PROVE  /\ FlattenSeq(SubSeq(ss, 1, j)) \in Seq(S)
         /\ FlattenSeq(ss) \in Seq(S)
         /\ Len(FlattenSeq(SubSeq(ss, 1, j))) <= Len(FlattenSeq(ss))
         /\ \A i \in 1..Len(FlattenSeq(SubSeq(ss, 1, j))) :
              FlattenSeq(ss)[i] = FlattenSeq(SubSeq(ss, 1, j))[i]
<1>0. PICK n \in Nat : n = Len(ss)
  BY LenProperties
<1> DEFINE Upto(m) == FlattenSeq(SubSeq(ss, 1, m))
<1>2. ASSUME NEW m \in 0..(n - 1)
      PROVE  Upto(m) \in Seq(S) /\ ss[m + 1] \in Seq(S) /\ Upto(m + 1) = Upto(m) \o ss[m + 1]
  <2>1. m + 1 \in 1..Len(ss) /\ (m + 1) - 1 = m
    BY <1>0
  <2> QED
    BY <2>1, FlattenNext
<1>3. Upto(n) = FlattenSeq(ss)
  BY <1>0, SubSeqFull
<1>4. \A m \in 0..n : Upto(m) \in Seq(S)
  <2> SUFFICES ASSUME NEW m \in 0..n PROVE Upto(m) \in Seq(S)
    OBVIOUS
  <2>1. CASE m < n
    <3>1. m \in 0..(n - 1)
      BY <1>0, <2>1
    <3> HIDE DEF Upto
    <3> QED
      BY <1>2, <3>1
  <2>2. CASE m = n
    <3>1. PICK f \in [0..Len(ss) -> Seq(S)] : FlattenSeq(ss) = f[Len(ss)]
      BY FlattenIs
    <3>2. Len(ss) \in 0..Len(ss)
      BY <1>0
    <3>3. FlattenSeq(ss) \in Seq(S)
      BY <3>1, <3>2
    <3> HIDE DEF Upto
    <3> QED
      BY <3>3, <1>3, <2>2
  <2>3. m < n \/ m = n
    BY <1>0
  <2> QED
    BY <2>1, <2>2, <2>3
<1> HIDE DEF Upto
<1> DEFINE Q(m) == /\ Len(Upto(j)) <= Len(Upto(m))
                   /\ \A i \in 1..Len(Upto(j)) : Upto(m)[i] = Upto(j)[i]
           P == {m \in Nat : j + m <= n => Q(j + m)}
<1>5. 0 \in P
  <2>1. Len(Upto(j)) \in Nat
    BY <1>0, <1>4, LenProperties
  <2> QED
    BY <2>1, <1>0
<1>6. ASSUME NEW m \in Nat, m \in P PROVE m + 1 \in P
  <2> SUFFICES ASSUME j + (m + 1) <= n PROVE Q(j + (m + 1))
    OBVIOUS
  <2>1. PICK k \in 0..(n - 1) : k = j + m /\ j + (m + 1) = k + 1
    BY <1>0
  <2>2. Q(k)
    BY <1>0, <1>6, <2>1
  <2>3. /\ Upto(k) \in Seq(S) /\ ss[k + 1] \in Seq(S)
        /\ Upto(k + 1) = Upto(k) \o ss[k + 1]
    BY <1>2
  <2>4. Len(Upto(k)) \in Nat /\ Len(ss[k + 1]) \in Nat
    BY <2>3, LenProperties
  <2>4a. Len(Upto(j)) \in Nat
    BY <1>0, <1>4, LenProperties
  <2>5. /\ Len(Upto(k + 1)) = Len(Upto(k)) + Len(ss[k + 1])
        /\ \A i \in 1..Len(Upto(k)) : Upto(k + 1)[i] = Upto(k)[i]
    BY <2>3, <2>4, ConcatProperties
  <2>6. Q(k + 1)
    BY <2>2, <2>4, <2>4a, <2>5
  <2> QED
    BY <2>1, <2>6
<1> HIDE DEF P, Q
<1>7. n - j \in P
  <2>1. n - j \in Nat
    BY <1>0
  <2>2. Nat \subseteq P
    BY <1>5, <1>6, SetInduction, Zenon
  <2> QED
    BY <2>1, <2>2
<1>8. Q(n)
  <2>1. j + (n - j) = n /\ j + (n - j) <= n
    BY <1>0
  <2> QED
    BY <1>7, <2>1 DEF P
<1> QED
  <2>1. Upto(j) \in Seq(S) /\ Upto(n) \in Seq(S)
    BY <1>0, <1>4
  <2> QED
    BY <2>1, <1>3, <1>8 DEF Q, Upto

(***************************************************************************)
(* The heap.  gmalloc asks the host for room to move the block up to its   *)
(* boundary, so that block and header fit wherever the host's answer       *)
(* begins; and host blocks are apart.  From these two everything follows.  *)
(***************************************************************************)

\* What a cell may hold.
CellValues == Stamps \cup {ZERO, JUNK}

\* What the host's malloc is relied on for: its blocks lie in memory, are not
\* empty and do not overlap.
HostApart ==
  /\ \A b \in hostBlocks : b.len >= 1 /\ HostCells(b) \subseteq Cells
  /\ \A b, c \in hostBlocks : b # c => HostCells(b) \cap HostCells(c) = {}

HeapInv == HeapTypeOK /\ BlocksSound /\ HostApart

\* The alignments a caller of gmalloc gives.
Asked == Alignments \cup {GuestAlign}

----------------------------------------------------------------------------
\* Division with a remainder.
LEMMA DivMod ==
  ASSUME NEW x \in Int, NEW a \in Nat \ {0}
  PROVE  x = a * (x \div a) + (x % a) /\ x % a \in 0 .. (a - 1) /\ x \div a \in Int
OBVIOUS

LEMMA MultipleMod ==
  ASSUME NEW k \in Int, NEW a \in Nat \ {0}
  PROVE  (k * a) % a = 0
OBVIOUS

\* A multiple of a multiple of g is one.
LEMMA MultipleOfMultiple ==
  ASSUME NEW k \in Int, NEW a \in Nat \ {0}, NEW g \in Nat \ {0}, a % g = 0
  PROVE  (k * a) % g = 0
<1> DEFINE m == a \div g
<1>1. m \in Int /\ a = m * g
  BY DivMod
<1> HIDE DEF m
<1>2. k * a = (k * m) * g
  BY <1>1
<1>3. k * m \in Int
  BY <1>1
<1> QED BY <1>2, <1>3, MultipleMod

LEMMA DivisorIsLess ==
  ASSUME NEW a \in Nat \ {0}, NEW g \in Nat \ {0}, a % g = 0
  PROVE  g <= a
OBVIOUS

\* (raw + a - 1) & ~(a - 1): the next boundary, less than a cell past a - 1.
LEMMA RoundedUp ==
  ASSUME NEW raw \in Nat, NEW a \in Nat \ {0}
  PROVE  /\ RoundUp(raw, a) \in Nat
         /\ raw <= RoundUp(raw, a) /\ RoundUp(raw, a) < raw + a
         /\ RoundUp(raw, a) % a = 0
         /\ \A g \in Nat \ {0} : a % g = 0 => RoundUp(raw, a) % g = 0
<1> DEFINE k == (raw + a - 1) \div a
<1>1. /\ k \in Int /\ (raw + a - 1) % a \in 0 .. (a - 1)
      /\ raw + a - 1 = a * k + ((raw + a - 1) % a)
  BY DivMod, raw + a - 1 \in Int
<1>2. a * k = k * a /\ k * a \in Int
  BY <1>1
<1>3. raw <= k * a /\ k * a < raw + a
  BY <1>1, <1>2
<1>4. (k * a) % a = 0 /\ \A g \in Nat \ {0} : a % g = 0 => (k * a) % g = 0
  BY <1>1, MultipleMod, MultipleOfMultiple
<1> QED BY <1>2, <1>3, <1>4 DEF RoundUp

\* The alignment gmalloc settles on is one the caller's divides.
LEMMA EffectiveAligns ==
  ASSUME NEW n \in Nat, NEW align \in Asked
  PROVE  /\ Effective(n, align) \in Nat \ {0}
         /\ Effective(n, align) % GuestAlign = 0
         /\ Effective(n, align) % align = 0
         /\ n >= Threshold => Effective(n, align) % PageSize = 0
<1> USE HeapAssumption
<1>1. /\ align \in Nat \ {0}
      /\ GuestAlign % align = 0 \/ align % GuestAlign = 0
      /\ PageSize % align = 0 \/ align % PageSize = 0
  BY DEF Asked
<1>2. \A a \in Nat \ {0} : a % a = 0
  BY MultipleMod
<1>3. \A a, g \in Nat \ {0} : a % g = 0 => g <= a
  BY DivisorIsLess
<1>4. GuestAlign <= PageSize
  BY <1>3
<1>5. CASE n >= Threshold /\ align < PageSize
  <2>1. Effective(n, align) = PageSize
    BY <1>5, <1>4, <1>1 DEF Effective
  <2>2. PageSize % align = 0
    BY <1>1, <1>3, <1>5
  <2> QED BY <2>1, <2>2, <1>2
<1>6. CASE ~(n >= Threshold /\ align < PageSize)
  <2>1. CASE align < GuestAlign
    <3>1. Effective(n, align) = GuestAlign /\ ~(n >= Threshold)
      BY <2>1, <1>6, <1>4, <1>1 DEF Effective
    <3>2. GuestAlign % align = 0
      BY <1>1, <1>3, <2>1
    <3> QED BY <3>1, <3>2, <1>2
  <2>2. CASE ~(align < GuestAlign)
    <3>1. Effective(n, align) = align
      BY <2>2, <1>6, <1>1 DEF Effective
    <3>2. align % GuestAlign = 0
      BY <1>1, <1>2, <1>3, <2>2
    <3>3. n >= Threshold => align % PageSize = 0
      BY <1>1, <1>2, <1>3, <1>6
    <3> QED BY <3>1, <3>2, <3>3, <1>1, <1>2
  <2> QED BY <2>1, <2>2
<1> QED BY <1>5, <1>6

----------------------------------------------------------------------------
Back(old) == {b \in hostBlocks : \E p \in old : b.base = header[p].base}
Block(p) == Span(p, header[p].size)

\* The host block a block lies in.
Carries(b, p) ==
  /\ b \in hostBlocks /\ b.base = header[p].base
  /\ Span(p - HdrSize, HdrSize + header[p].size) \subseteq HostCells(b)

\* gmalloc's outcome: a new host block [base, len], and p within it.
Got(base, len, p, text, align, old) ==
  /\ base \in Cells /\ len \in Nat /\ len >= 1 /\ base + len - 1 <= HeapTop
  /\ \A b \in hostBlocks : HostCells(b) \cap Span(base, len) = {}
  /\ p \in Cells /\ p > HdrSize
  /\ Span(p - HdrSize, HdrSize + Len(text)) \subseteq Span(base, len)
  /\ p % GuestAlign = 0 /\ p % align = 0
  /\ Len(text) >= Threshold => p % PageSize = 0
  /\ hostBlocks' = (hostBlocks \ Back(old)) \cup {[base |-> base, len |-> len]}
  /\ DOMAIN header' = (DOMAIN header \ old) \cup {p}
  /\ header'[p] = [base |-> base, size |-> Len(text)]
  /\ \A q \in DOMAIN header \ old : q # p => header'[q] = header[q]
  /\ cell' = [a \in Cells |->
                IF a \in Span(p, Len(text)) THEN text[a - p + 1]
                ELSE IF a \in UNION {HostCells(b) : b \in Back(old)} THEN JUNK
                ELSE cell[a]]

LEMMA GmallocGot ==
  ASSUME NEW text \in Seq(CellValues), NEW align \in Asked, NEW old \in SUBSET DOMAIN header,
         Gmalloc(text, align, old)
  PROVE  \E base, len, p \in Nat : Got(base, len, p, text, align, old)
<1> USE HeapAssumption
<1> DEFINE n == Len(text)
           eff == Effective(n, align)
           len == Need(n, align)
           kept == Restrict(header, DOMAIN header \ old)
<1>1. n \in Nat /\ eff \in Nat \ {0} /\ eff % GuestAlign = 0 /\ eff % align = 0
      /\ (n >= Threshold => eff % PageSize = 0)
  BY EffectiveAligns
<1>2. n + eff + HdrSize + Slack \in Nat /\ n + eff + HdrSize + Slack < WordLimit
  BY <1>1 DEF Gmalloc, Servable
<1>3. len = n + eff + HdrSize + Slack
  <2>1. \A x \in Nat, a \in Nat \ {0} : x < a => x % a = x
    OBVIOUS
  <2> QED BY <1>2, <2>1 DEF Need
<1>4. PICK base \in Cells :
        LET p == RoundUp(base + HdrSize, eff) IN
        /\ HostGives(base, len)
        /\ hostBlocks' = (hostBlocks \ Back(old)) \cup {[base |-> base, len |-> len]}
        /\ header' = [q \in DOMAIN kept \cup {p} |->
                        IF q = p THEN [base |-> base, size |-> n] ELSE kept[q]]
        /\ cell' = [a \in Cells |->
                      IF a \in Span(p, n) THEN text[a - p + 1]
                      ELSE IF a \in UNION {HostCells(b) : b \in Back(old)} THEN JUNK
                      ELSE cell[a]]
  BY DEF Gmalloc, Back
<1> DEFINE p == RoundUp(base + HdrSize, eff)
<1>5. base \in Nat /\ base >= 1
  BY DEF Cells
<1>6. /\ p \in Nat /\ base + HdrSize <= p /\ p < base + HdrSize + eff
      /\ p % GuestAlign = 0 /\ p % align = 0
      /\ n >= Threshold => p % PageSize = 0
  <2>1. align \in Nat \ {0}
    BY DEF Asked
  <2>2. base + HdrSize \in Nat
    BY <1>5
  <2>3. /\ p \in Nat /\ base + HdrSize <= p /\ p < base + HdrSize + eff
        /\ \A g \in Nat \ {0} : eff % g = 0 => p % g = 0
    <3> HIDE DEF eff
    <3> QED BY <1>1, <2>2, RoundedUp
  <2> HIDE DEF p, eff, n
  <2> QED BY <1>1, <2>1, <2>3
<1>7. /\ base + len - 1 <= HeapTop
      /\ \A b \in hostBlocks : HostCells(b) \cap Span(base, len) = {}
  BY <1>4 DEF HostGives
<1>8. DOMAIN kept = DOMAIN header \ old /\ \A q \in DOMAIN header \ old : kept[q] = header[q]
  BY DEF Restrict
<1>9. p \in Cells /\ p > HdrSize /\ len \in Nat /\ len >= 1
  BY SMTT(30), <1>1, <1>3, <1>5, <1>6, <1>7 DEF Cells
<1>10. Span(p - HdrSize, HdrSize + n) \subseteq Span(base, len)
  <2>1. p - HdrSize >= base /\ p + n <= base + len
    BY SMTT(30), <1>1, <1>3, <1>5, <1>6
  <2> HIDE DEF p, len, n
  <2> QED BY <2>1, <1>1, <1>5, <1>6, <1>9 DEF Span
<1>11. header' = [q \in (DOMAIN header \ old) \cup {p} |->
                    IF q = p THEN [base |-> base, size |-> n] ELSE kept[q]]
  BY <1>4, <1>8
<1>12. /\ DOMAIN header' = (DOMAIN header \ old) \cup {p}
       /\ header'[p] = [base |-> base, size |-> n]
       /\ \A q \in DOMAIN header \ old : q # p => header'[q] = header[q]
  <2> HIDE DEF p, kept
  <2> QED BY <1>8, <1>11
<1>13. cell' = [a \in Cells |->
                 IF a \in Span(p, n) THEN text[a - p + 1]
                 ELSE IF a \in UNION {HostCells(b) : b \in Back(old)} THEN JUNK
                 ELSE cell[a]]
  BY <1>4
<1>14. hostBlocks' = (hostBlocks \ Back(old)) \cup {[base |-> base, len |-> len]}
  BY <1>4
<1>15. Got(base, len, p, text, align, old)
  <2> HIDE DEF p, kept, len, eff
  <2> QED BY <1>6, <1>7, <1>9, <1>10, <1>12, <1>13, <1>14 DEF Got
<1> QED BY <1>5, <1>6, <1>9, <1>15

\* What one host block carries no other does; and blocks of one do not overlap
\* the blocks of another.
LEMMA BlocksApart ==
  ASSUME HeapInv, NEW p \in DOMAIN header
  PROVE  /\ \E b \in hostBlocks : Carries(b, p)
         /\ Block(p) \subseteq Cells /\ p - 1 \in Cells
         /\ \A b \in hostBlocks : b.base = header[p].base =>
              Carries(b, p) /\ Block(p) \subseteq HostCells(b) /\ p - 1 \in HostCells(b)
         /\ \A q \in DOMAIN header : q # p => Block(p) \cap Block(q) = {}
<1> USE HeapAssumption
<1>1. /\ \A q \in DOMAIN header : q \in Nat /\ header[q].size \in Nat
      /\ \A b \in hostBlocks : b.base \in Nat /\ b.len \in Nat /\ b.len >= 1
                               /\ b.base \in HostCells(b)
  BY DEF HeapInv, HeapTypeOK, Cells, HostApart, HostCells, Span
<1>2. \A b, c \in hostBlocks : b.base = c.base => b = c
  BY <1>1 DEF HeapInv, HostApart
<1>3. \A q \in DOMAIN header : \E b \in hostBlocks : Carries(b, q)
  BY DEF HeapInv, BlocksSound, Carries
<1>4. \A q \in DOMAIN header : \A b \in hostBlocks : Carries(b, q) =>
        Block(q) \subseteq HostCells(b) /\ q - 1 \in HostCells(b)
  <2> SUFFICES ASSUME NEW q \in DOMAIN header, NEW b \in hostBlocks, Carries(b, q)
               PROVE  Block(q) \subseteq HostCells(b) /\ q - 1 \in HostCells(b)
    OBVIOUS
  <2>1. Block(q) \subseteq Span(q - HdrSize, HdrSize + header[q].size)
        /\ q - 1 \in Span(q - HdrSize, HdrSize + header[q].size)
    BY <1>1 DEF Block, Span
  <2> QED BY <2>1 DEF Carries
<1>5. \A b \in hostBlocks : b.base = header[p].base => Carries(b, p)
  BY <1>2, <1>3 DEF Carries
<1>6. ASSUME NEW q \in DOMAIN header, q # p
      PROVE  Block(p) \cap Block(q) = {}
  <2>1. PICK b \in hostBlocks, c \in hostBlocks : Carries(b, p) /\ Carries(c, q)
    BY <1>3
  <2>2. b # c
    BY <1>6, <2>1 DEF Carries, HeapInv, BlocksSound
  <2> QED BY <1>4, <2>1, <2>2 DEF HeapInv, HostApart
<1> QED BY <1>3, <1>4, <1>5, <1>6 DEF HeapInv, HostApart

\* The new block holds its text; it is apart from the others, and those that
\* stay keep their cells.
Untouched(p, text, old) ==
  /\ p \notin DOMAIN header
  /\ \A i \in 1..Len(text) : cell'[p + i - 1] = text[i]
  /\ \A q \in DOMAIN header : Span(p, Len(text)) \cap Block(q) = {}
  /\ \A q \in DOMAIN header \ old : \A a \in Block(q) : cell'[a] = cell[a]

\* The blocks that stay keep their cells: neither the new block nor the host
\* blocks that go back touch them.
LEMMA GotKeeps ==
  ASSUME HeapInv, NEW base \in Nat, NEW len \in Nat, NEW p \in Nat,
         NEW text \in Seq(CellValues), NEW align \in Asked, NEW old \in SUBSET DOMAIN header,
         Got(base, len, p, text, align, old)
  PROVE  Untouched(p, text, old) /\ \A b \in hostBlocks : b.base # base
<1> USE HeapAssumption
<1> DEFINE new == Span(base, len)
<1>1. /\ Span(p, Len(text)) \subseteq new /\ p - 1 \in new /\ new \subseteq Cells /\ base \in new
      /\ \A b \in hostBlocks : HostCells(b) \cap new = {}
  <2>1. /\ base >= 1 /\ len >= 1 /\ base + len - 1 <= HeapTop /\ p > HdrSize
        /\ Span(p - HdrSize, HdrSize + Len(text)) \subseteq new
        /\ \A b \in hostBlocks : HostCells(b) \cap new = {}
    BY DEF Got, Cells
  <2>2. new \subseteq Cells /\ base \in new
    BY <2>1 DEF Span, Cells
  <2>3. Span(p, Len(text)) \subseteq Span(p - HdrSize, HdrSize + Len(text))
        /\ p - 1 \in Span(p - HdrSize, HdrSize + Len(text))
    BY <2>1 DEF Span
  <2> QED BY <2>1, <2>2, <2>3
<1>2. \A q \in DOMAIN header : \E b \in hostBlocks :
        /\ b.base = header[q].base
        /\ Block(q) \subseteq HostCells(b) /\ q - 1 \in HostCells(b)
  BY BlocksApart DEF Carries
<1>3. p \notin DOMAIN header /\ \A q \in DOMAIN header : Span(p, Len(text)) \cap Block(q) = {}
  <2> HIDE DEF new
  <2> QED BY <1>1, <1>2
<1>4. \A b \in hostBlocks : b.base # base
  <2>1. \A b \in hostBlocks : b.base \in HostCells(b)
    BY DEF HeapInv, HeapTypeOK, Cells, HostApart, HostCells, Span
  <2> QED BY <2>1, <1>1
<1>5. ASSUME NEW q \in DOMAIN header \ old, NEW a \in Block(q)
      PROVE  cell'[a] = cell[a]
  <2>1. PICK b \in hostBlocks : b.base = header[q].base /\ Block(q) \subseteq HostCells(b)
    BY <1>2
  <2>2. \A c \in Back(old) : HostCells(c) \cap HostCells(b) = {}
    <3> SUFFICES ASSUME NEW c \in Back(old)  PROVE  HostCells(c) \cap HostCells(b) = {}
      OBVIOUS
    <3>1. PICK o \in old : c \in hostBlocks /\ c.base = header[o].base
      BY DEF Back
    <3>2. c # b
      BY <2>1, <3>1 DEF HeapInv, BlocksSound
    <3> QED BY <3>1, <3>2 DEF HeapInv, HostApart
  <2>3. a \in Cells /\ a \notin Span(p, Len(text))
        /\ a \notin UNION {HostCells(c) : c \in Back(old)}
    <3>1. a \in HostCells(b)
      BY <2>1
    <3>2. a \in Cells
      BY BlocksApart
    <3>3. a \notin Span(p, Len(text))
      BY <1>3
    <3> QED BY <2>2, <3>1, <3>2, <3>3
  <2> QED BY <2>3 DEF Got
<1>6. ASSUME NEW i \in 1..Len(text)
      PROVE  cell'[p + i - 1] = text[i]
  <2>1. p + i - 1 \in Span(p, Len(text)) /\ (p + i - 1) - p + 1 = i
    BY DEF Span
  <2> QED BY <1>1, <2>1 DEF Got
<1> QED
  <2> HIDE DEF new
  <2> QED BY <1>1, <1>3, <1>4, <1>5, <1>6 DEF Untouched

LEMMA GotTyped ==
  ASSUME HeapInv, NEW base \in Nat, NEW len \in Nat, NEW p \in Nat,
         NEW text \in Seq(CellValues), NEW align \in Asked, NEW old \in SUBSET DOMAIN header,
         Got(base, len, p, text, align, old)
  PROVE  HeapTypeOK'
<1> USE HeapAssumption
<1>1. hostBlocks' \subseteq [base : Cells, len : Nat]
  BY DEF Got, Back, HeapInv, HeapTypeOK
<1>2. DOMAIN header' \subseteq Cells
      /\ \A q \in DOMAIN header' : header'[q] \in [base : Cells, size : Nat]
  BY DEF Got, HeapInv, HeapTypeOK
<1>3. cell' \in [Cells -> CellValues]
  <2>1. \A a \in Span(p, Len(text)) : text[a - p + 1] \in CellValues
    <3> SUFFICES ASSUME NEW a \in Span(p, Len(text))  PROVE  text[a - p + 1] \in CellValues
      OBVIOUS
    <3>1. a - p + 1 \in 1..Len(text)
      BY DEF Span
    <3> QED BY <3>1
  <2>2. cell \in [Cells -> CellValues] /\ JUNK \in CellValues
    BY DEF HeapInv, HeapTypeOK, CellValues
  <2> QED BY <2>1, <2>2 DEF Got
<1> QED BY <1>1, <1>2, <1>3 DEF HeapTypeOK, CellValues

LEMMA GotPreserves ==
  ASSUME HeapInv, NEW base \in Nat, NEW len \in Nat, NEW p \in Nat,
         NEW text \in Seq(CellValues), NEW align \in Asked, NEW old \in SUBSET DOMAIN header,
         Got(base, len, p, text, align, old)
  PROVE  HeapInv'
<1> USE HeapAssumption
<1> DEFINE new == [base |-> base, len |-> len]
<1>1. HeapTypeOK'
  BY GotTyped
<1>2. new \in hostBlocks' /\ HostCells(new) = Span(base, len)
  BY DEF Got, HostCells
<1>3. HostApart'
  <2>1. \A b \in hostBlocks : b.len >= 1 /\ HostCells(b) \subseteq Cells
                              /\ HostCells(b) \cap HostCells(new) = {}
    BY <1>2 DEF HeapInv, HostApart, Got
  <2>2. new.len >= 1 /\ HostCells(new) \subseteq Cells
    BY <1>2 DEF Got, Span, Cells
  <2>3. \A b \in hostBlocks' : b = new \/ b \in hostBlocks
    BY DEF Got
  <2>4. \A b, c \in hostBlocks : b # c => HostCells(b) \cap HostCells(c) = {}
    BY DEF HeapInv, HostApart
  <2>5. \A b \in hostBlocks' : b.len >= 1 /\ HostCells(b) \subseteq Cells
    BY <2>1, <2>2, <2>3
  <2>6. \A b, c \in hostBlocks' : b # c => HostCells(b) \cap HostCells(c) = {}
    BY <2>1, <2>3, <2>4
  <2> QED BY <2>5, <2>6 DEF HostApart, HostCells
<1>4. \A q \in DOMAIN header' : q # p => q \in DOMAIN header \ old /\ header'[q] = header[q]
  BY DEF Got
<1>5. header'[p] = [base |-> base, size |-> Len(text)] /\ p \in DOMAIN header'
  BY DEF Got
<1>6. \A q \in DOMAIN header \ old : \E b \in hostBlocks' : Carries(b, q)
  <2> SUFFICES ASSUME NEW q \in DOMAIN header \ old
               PROVE  \E b \in hostBlocks' : Carries(b, q)
    OBVIOUS
  <2>1. PICK b \in hostBlocks : Carries(b, q)
    BY BlocksApart
  <2>2. b \notin Back(old)
    BY <2>1 DEF Back, Carries, HeapInv, BlocksSound
  <2> QED BY <2>1, <2>2 DEF Got
<1>7. BlocksSound'
  <2>1. ASSUME NEW q \in DOMAIN header'
        PROVE  /\ \E b \in hostBlocks' :
                    /\ b.base = header'[q].base
                    /\ Span(q - HdrSize, HdrSize + header'[q].size) \subseteq HostCells(b)
               /\ q % GuestAlign = 0
               /\ header'[q].size >= Threshold => q % PageSize = 0
    <3>1. CASE q = p
      <4>1. new.base = header'[q].base /\ header'[q].size = Len(text)
        BY <3>1, <1>5
      <4>2. /\ Span(p - HdrSize, HdrSize + Len(text)) \subseteq Span(base, len)
            /\ p % GuestAlign = 0
            /\ Len(text) >= Threshold => p % PageSize = 0
        BY DEF Got
      <4> HIDE DEF new
      <4> QED BY <3>1, <4>1, <4>2, <1>2
    <3>2. CASE q # p
      BY <3>2, <1>4, <1>6 DEF Carries, HeapInv, BlocksSound
    <3> QED BY <3>1, <3>2
  <2>2. ASSUME NEW q \in DOMAIN header', NEW r \in DOMAIN header',
               header'[q].base = header'[r].base
        PROVE  q = r
    <3>1. \A o \in DOMAIN header \ old : header'[o] = header[o] => header'[o].base # base
      BY BlocksApart, GotKeeps DEF Carries
    <3>2. header'[p].base = base
      BY <1>5
    <3>3. q # p /\ r # p => q = r
      BY <2>2, <1>4 DEF HeapInv, BlocksSound
    <3> QED BY <3>1, <3>2, <3>3, <1>4, <2>2
  <2> QED BY <2>1, <2>2 DEF BlocksSound, HostCells
<1> QED BY <1>1, <1>3, <1>7 DEF HeapInv

----------------------------------------------------------------------------
LEMMA GmallocPreserves ==
  ASSUME HeapInv, NEW text \in Seq(CellValues), NEW align \in Asked,
         NEW old \in SUBSET DOMAIN header, Gmalloc(text, align, old)
  PROVE  HeapInv'
BY GmallocGot, GotPreserves

LEMMA ContentsTyped ==
  ASSUME HeapInv, NEW p \in DOMAIN header
  PROVE  /\ Contents(p) \in Seq(CellValues) /\ Len(Contents(p)) = header[p].size
         /\ header[p].size \in Nat
         /\ \A i \in 1..header[p].size : Contents(p)[i] = cell[p + i - 1]
                                         /\ p + i - 1 \in Block(p)
<1>1. header[p].size \in Nat /\ p \in Nat
  BY DEF HeapInv, HeapTypeOK, Cells
<1>2. \A i \in 1..header[p].size : p + i - 1 \in Block(p)
  BY <1>1 DEF Block, Span
<1>3. \A a \in Block(p) : cell[a] \in CellValues
  BY BlocksApart DEF HeapInv, HeapTypeOK, CellValues
<1> QED BY <1>1, <1>2, <1>3 DEF Contents

\* The texts the runtime puts in a new block.
LEMMA TextsTyped ==
  ASSUME HeapInv, NEW n \in Requests
  PROVE  /\ \A x \in CellValues : Filled(n, x) \in Seq(CellValues) /\ Len(Filled(n, x)) = n
         /\ \A p \in DOMAIN header : Carried(p, n) \in Seq(CellValues) /\ Len(Carried(p, n)) = n
<1>1. n \in Nat
  BY HeapAssumption
<1>2. \A x \in CellValues : Filled(n, x) \in Seq(CellValues) /\ Len(Filled(n, x)) = n
  BY <1>1 DEF Filled
<1>3. ASSUME NEW p \in DOMAIN header
      PROVE  Carried(p, n) \in Seq(CellValues) /\ Len(Carried(p, n)) = n
  <2>1. \A i \in 1..n : i <= header[p].size => cell[p + i - 1] \in CellValues
    <3> SUFFICES ASSUME NEW i \in 1..n, i <= header[p].size
                 PROVE  cell[p + i - 1] \in CellValues
      OBVIOUS
    <3>1. i \in 1..header[p].size
      BY ContentsTyped
    <3> QED BY <3>1, ContentsTyped
  <2>2. JUNK \in CellValues
    BY DEF CellValues
  <2> QED BY <1>1, <2>1, <2>2 DEF Carried
<1> QED BY <1>2, <1>3

\* gfree of one of the allocator's blocks.
LEMMA GfreePreserves ==
  ASSUME HeapInv, NEW p \in DOMAIN header, Gfree(p)
  PROVE  /\ HeapInv'
         /\ DOMAIN header' = DOMAIN header \ {p}
         /\ \A q \in DOMAIN header' : header'[q] = header[q]
                                      /\ \A a \in Block(q) : cell'[a] = cell[a]
<1> USE HeapAssumption
<1>1. PICK b \in hostBlocks : Carries(b, p)
  BY BlocksApart
<1> DEFINE back == {c \in hostBlocks : c.base = header[p].base}
<1>2. /\ hostBlocks' = hostBlocks \ back
      /\ cell' = [a \in Cells |-> IF \E c \in back : a \in HostCells(c) THEN JUNK ELSE cell[a]]
      /\ header' = Restrict(header, DOMAIN header \ {p})
  BY DEF Gfree, Ours, GiveBack
<1>3. DOMAIN header' = DOMAIN header \ {p}
      /\ \A q \in DOMAIN header' : header'[q] = header[q]
  BY <1>2 DEF Restrict
<1>4. ASSUME NEW q \in DOMAIN header'
      PROVE  /\ \E c \in hostBlocks' : Carries(c, q)
             /\ \A a \in Block(q) : cell'[a] = cell[a]
  <2>0. q \in DOMAIN header /\ q # p
    BY <1>3
  <2>1. PICK c \in hostBlocks : Carries(c, q)
    BY <2>0, BlocksApart
  <2>2. header[q].base # header[p].base
    BY <2>0 DEF HeapInv, BlocksSound
  <2>3. c \in hostBlocks'
    BY <2>1, <2>2, <1>2 DEF Carries
  <2>4. \A d \in back : HostCells(d) \cap HostCells(c) = {}
    BY <2>1, <2>2 DEF Carries, HeapInv, HostApart
  <2>5. Block(q) \subseteq HostCells(c) /\ Block(q) \subseteq Cells
    BY <2>0, <2>1, BlocksApart DEF Carries
  <2> QED BY <2>1, <2>3, <2>4, <2>5, <1>2
<1>5. HeapTypeOK'
  <2>1. DOMAIN header' \subseteq Cells
        /\ \A q \in DOMAIN header' : header'[q] \in [base : Cells, size : Nat]
    BY <1>3 DEF HeapInv, HeapTypeOK
  <2>2. cell' \in [Cells -> Stamps \cup {ZERO, JUNK}]
    BY <1>2 DEF HeapInv, HeapTypeOK
  <2> QED BY <2>1, <2>2, <1>2 DEF HeapInv, HeapTypeOK
<1>6. HostApart'
  BY <1>2 DEF HeapInv, HostApart, HostCells
<1>7. BlocksSound'
  BY <1>3, <1>4 DEF HeapInv, BlocksSound, Carries, HostCells
<1> QED BY <1>3, <1>4, <1>5, <1>6, <1>7 DEF HeapInv

LEMMA MemsetPreserves ==
  ASSUME HeapInv, NEW p \in DOMAIN header \cup {NULLPTR}, NEW x \in Stamps, Memset(p, x)
  PROVE  HeapInv'
<1>1. cell' \in [Cells -> CellValues] /\ UNCHANGED <<hostBlocks, header>>
  BY DEF Memset, HeapInv, HeapTypeOK, CellValues, heapVars
<1> QED BY <1>1 DEF HeapInv, HeapTypeOK, BlocksSound, HostApart, HostCells, CellValues

LEMMA MemcpyPreserves ==
  ASSUME HeapInv, NEW p \in DOMAIN header \cup {NULLPTR},
         NEW q \in DOMAIN header \cup {NULLPTR}, Memcpy(p, q)
  PROVE  HeapInv'
<1>1. CASE UNCHANGED heapVars
  BY <1>1 DEF HeapInv, HeapTypeOK, BlocksSound, HostApart, HostCells, heapVars
<1>2. CASE ~UNCHANGED heapVars
  <2>1. /\ Ours(p) /\ Ours(q) /\ header[q].size <= header[p].size
        /\ cell' = [a \in Cells |-> IF a \in Span(p, header[q].size) THEN cell[q + a - p]
                                    ELSE cell[a]]
        /\ UNCHANGED <<hostBlocks, header>>
    BY <1>2 DEF Memcpy
  <2>2. \A a \in Span(p, header[q].size) : q + a - p \in Block(q)
    <3>1. p \in Nat /\ q \in Nat /\ header[q].size \in Nat
      BY <2>1 DEF Ours, HeapInv, HeapTypeOK, Cells
    <3> QED BY <3>1 DEF Span, Block
  <2>3. cell \in [Cells -> CellValues] /\ Block(q) \subseteq Cells
    BY <2>1, BlocksApart DEF Ours, HeapInv, HeapTypeOK, CellValues
  <2>4. cell' \in [Cells -> CellValues]
    BY <2>1, <2>2, <2>3
  <2> QED BY <2>1, <2>4 DEF HeapInv, HeapTypeOK, BlocksSound, HostApart, HostCells, CellValues
<1> QED BY <1>1, <1>2

LEMMA HeapInvNext == HeapInv /\ [HeapNext]_heapVars => HeapInv'
<1> SUFFICES ASSUME HeapInv, [HeapNext]_heapVars  PROVE HeapInv'
  OBVIOUS
<1> USE HeapAssumption
<1>0. /\ ZERO \in CellValues /\ JUNK \in CellValues /\ GuestAlign \in Asked
      /\ Alignments \subseteq Asked /\ {} \in SUBSET DOMAIN header
      /\ \A p \in DOMAIN header : {p} \in SUBSET DOMAIN header
  BY DEF CellValues, Asked
<1>1. ASSUME NEW n \in Requests, Malloc(n)
      PROVE  HeapInv'
  BY <1>0, <1>1, TextsTyped, GmallocPreserves DEF Malloc
<1>2. ASSUME NEW n \in Requests, Calloc(n)
      PROVE  HeapInv'
  BY <1>0, <1>2, TextsTyped, GmallocPreserves DEF Calloc
<1>3. ASSUME NEW n \in Requests, NEW align \in Alignments, Memalign(n, align)
      PROVE  HeapInv'
  BY <1>0, <1>3, TextsTyped, GmallocPreserves DEF Memalign
<1>4. CASE UNCHANGED heapVars
  BY <1>4 DEF HeapInv, HeapTypeOK, BlocksSound, HostApart, HostCells, heapVars
<1>5. ASSUME NEW n \in Requests, NEW p \in Cells \cup {NULLPTR}, Realloc(p, n)
      PROVE  HeapInv'
  <2>1. CASE Grealloc(p, n)
    <3>1. p \in DOMAIN header
      BY <2>1 DEF Grealloc, Ours
    <3> QED BY <1>0, <2>1, <3>1, TextsTyped, GmallocPreserves DEF Grealloc
  <2> QED BY <1>1, <1>4, <1>5, <2>1 DEF Realloc
<1>6. ASSUME NEW p \in Cells, Strdup(p)
      PROVE  HeapInv'
  BY <1>0, <1>6, ContentsTyped, GmallocPreserves DEF Strdup, Ours
<1>7. ASSUME NEW p \in Cells, Gfree(p)
      PROVE  HeapInv'
  BY <1>4, <1>7, GfreePreserves DEF Gfree, Ours
<1> QED BY <1>1, <1>2, <1>3, <1>4, <1>5, <1>6, <1>7, MemsetPreserves, MemcpyPreserves
     DEF HeapNext, OutOfMemory

LEMMA HeapInvInit == HeapInit => HeapInv
BY DEF HeapInit, HeapInv, HeapTypeOK, BlocksSound, HostApart

\* The inductive invariant, and with it that every block and the header under
\* it lie inside the host block the header names, aligned, one to a host block.
THEOREM HeapSound == HeapSpec => [](HeapTypeOK /\ BlocksSound)
<1>1. HeapInv => HeapTypeOK /\ BlocksSound
  BY DEF HeapInv
<1> QED BY <1>1, HeapInvInit, HeapInvNext, PTL DEF HeapSpec

----------------------------------------------------------------------------
\* What the guest sees of the heap.
Live == [p \in DOMAIN header |-> Contents(p)]

LEMMA LiveIs ==
  ASSUME HeapInv
  PROVE  /\ DOMAIN Live = DOMAIN header
         /\ \A q \in DOMAIN header :
              /\ Live[q] = Contents(q) /\ Live[q] \in Seq(CellValues)
              /\ Len(Live[q]) = header[q].size /\ q \in Nat
              /\ q .. (q + Len(Live[q]) - 1) = Block(q)
<1>1. DOMAIN Live = DOMAIN header /\ \A q \in DOMAIN header : Live[q] = Contents(q)
  BY DEF Live
<1>2. \A q \in DOMAIN header : /\ Contents(q) \in Seq(CellValues)
                               /\ Len(Contents(q)) = header[q].size /\ q \in Nat
  BY ContentsTyped DEF HeapInv, HeapTypeOK, Cells
<1> QED BY <1>1, <1>2 DEF Block, Span

Granted(p, text, align, old) ==
  /\ p % align = 0 /\ p % GuestAlign = 0
  /\ \A q \in DOMAIN Live :
       (p .. (p + Len(text) - 1)) \cap (q .. (q + Len(Live[q]) - 1)) = {}
  /\ Live' = [q \in (DOMAIN Live \ old) \cup {p} |-> IF q = p THEN text ELSE Live[q]]

\* gmalloc, as the guest sees it: a block on its boundary, apart from every
\* other, holding its text; the rest as it was.
LEMMA GotGrants ==
  ASSUME HeapInv, NEW text \in Seq(CellValues), NEW align \in Asked,
         NEW old \in SUBSET DOMAIN header, Gmalloc(text, align, old)
  PROVE  \E p \in Cells \ DOMAIN Live : Granted(p, text, align, old)
<1>1. PICK base, len, p \in Nat : Got(base, len, p, text, align, old)
  BY GmallocGot
<1>2. p \in Cells /\ p % align = 0 /\ p % GuestAlign = 0
  BY <1>1 DEF Got
<1>3. /\ p \notin DOMAIN header
      /\ \A i \in 1..Len(text) : cell'[p + i - 1] = text[i]
      /\ \A q \in DOMAIN header : Span(p, Len(text)) \cap Block(q) = {}
      /\ \A q \in DOMAIN header \ old : \A a \in Block(q) : cell'[a] = cell[a]
  <2>1. Untouched(p, text, old)
    BY <1>1, GotKeeps
  <2> QED BY <2>1 DEF Untouched
<1>4. \A q \in DOMAIN Live :
        (p .. (p + Len(text) - 1)) \cap (q .. (q + Len(Live[q]) - 1)) = {}
  BY <1>3, LiveIs DEF Span
<1>5. /\ DOMAIN header' = (DOMAIN header \ old) \cup {p}
      /\ header'[p].size = Len(text)
      /\ \A q \in DOMAIN header \ old : q # p => header'[q] = header[q]
  BY <1>1 DEF Got
<1>6. Contents(p)' = text
  <2>1. Contents(p)' = [i \in 1..Len(text) |-> cell'[p + i - 1]]
    BY <1>5 DEF Contents
  <2>2. Contents(p)' = [i \in 1..Len(text) |-> text[i]]
    BY <2>1, <1>3
  <2>3. text = [i \in 1..Len(text) |-> text[i]]
    OBVIOUS
  <2> QED BY <2>2, <2>3
<1>7. \A q \in DOMAIN header \ old : Contents(q)' = Contents(q)
  <2> SUFFICES ASSUME NEW q \in DOMAIN header \ old
               PROVE  Contents(q)' = Contents(q)
    OBVIOUS
  <2>1. header'[q] = header[q]
    BY <1>3, <1>5
  <2>2. \A i \in 1..header[q].size : cell'[q + i - 1] = cell[q + i - 1]
    BY <1>3, ContentsTyped
  <2> QED BY <2>1, <2>2 DEF Contents
<1>8. Live' = [q \in (DOMAIN header \ old) \cup {p} |-> Contents(q)']
  BY <1>5 DEF Live
<1>9. Live' = [q \in (DOMAIN Live \ old) \cup {p} |-> IF q = p THEN text ELSE Live[q]]
  BY <1>3, <1>6, <1>7, <1>8, LiveIs
<1> QED BY <1>2, <1>3, <1>4, <1>9, LiveIs DEF Granted

LEMMA GotIsGrant ==
  ASSUME HeapInv, NEW text \in Seq(CellValues), NEW align \in Asked, Gmalloc(text, align, {})
  PROVE  Promised!Grant(text, align)
<1>1. PICK p \in Cells \ DOMAIN Live : Granted(p, text, align, {})
  BY GotGrants, {} \in SUBSET DOMAIN header
<1>2. DOMAIN Live \ {} = DOMAIN Live
  OBVIOUS
<1>3. Promised!Free(p, Len(text))
  BY <1>1 DEF Granted, Promised!Free, Promised!Extent, Live
<1>4. Live' = Promised!Holding(Live, p, text)
  BY <1>1, <1>2 DEF Granted, Promised!Holding
<1> QED BY <1>1, <1>3, <1>4 DEF Granted, Promised!Grant, Live

LEMMA GreallocIsRealloc ==
  ASSUME HeapInv, NEW p \in DOMAIN header, NEW n \in Requests, Grealloc(p, n)
  PROVE  Promised!Realloc(p, n)
<1> DEFINE text == Carried(p, n)
<1>1. /\ text \in Seq(CellValues) /\ Len(text) = n
      /\ Gmalloc(text, GuestAlign, {p}) /\ {p} \in SUBSET DOMAIN header /\ GuestAlign \in Asked
  BY TextsTyped DEF Grealloc, Asked
<1>2. text = Promised!Resized(Live[p], n)
  <2>1. Len(Live[p]) = header[p].size /\ Live[p] = Contents(p) /\ header[p].size \in Nat
    BY LiveIs, ContentsTyped
  <2>2. \A i \in 1..n : i <= header[p].size => Live[p][i] = cell[p + i - 1]
    <3> SUFFICES ASSUME NEW i \in 1..n, i <= header[p].size
                 PROVE  Contents(p)[i] = cell[p + i - 1]
      BY <2>1
    <3>1. i \in 1..header[p].size
      BY <2>1
    <3> QED BY <3>1, ContentsTyped
  <2> HIDE DEF Live
  <2> QED BY <2>1, <2>2 DEF Promised!Resized, Carried
<1> HIDE DEF text
<1>3. PICK r \in Cells \ DOMAIN Live : Granted(r, text, GuestAlign, {p})
  BY <1>1, GotGrants
<1>4. Promised!Free(r, n)
  BY <1>1, <1>3 DEF Granted, Promised!Free, Promised!Extent, Live
<1>5. Live' = Promised!Holding(Promised!Restrict(Live, DOMAIN Live \ {p}), r, text)
  BY <1>3 DEF Granted, Promised!Holding, Promised!Restrict
<1>6. \E q \in Cells :
        /\ q % GuestAlign = 0
        /\ Promised!Free(q, n)
        /\ Live' = Promised!Holding(Promised!Restrict(Live, DOMAIN Live \ {p}), q,
                                    Promised!Resized(Live[p], n))
  <2> HIDE DEF Live
  <2> QED BY <1>2, <1>3, <1>4, <1>5 DEF Granted
<1> QED BY <1>6 DEF Promised!Realloc, Live

LEMMA GfreeIsRelease ==
  ASSUME HeapInv, NEW p \in DOMAIN header, Gfree(p)
  PROVE  Promised!Release(p)
<1>1. /\ DOMAIN header' = DOMAIN header \ {p}
      /\ \A q \in DOMAIN header' : header'[q] = header[q]
                                   /\ \A a \in Block(q) : cell'[a] = cell[a]
  BY GfreePreserves
<1>2. \A q \in DOMAIN header \ {p} : Contents(q)' = Contents(q)
  <2> SUFFICES ASSUME NEW q \in DOMAIN header \ {p}
               PROVE  Contents(q)' = Contents(q)
    OBVIOUS
  <2>1. \A i \in 1..header[q].size : cell'[q + i - 1] = cell[q + i - 1]
    BY <1>1, ContentsTyped
  <2> QED BY <1>1, <2>1 DEF Contents
<1>3. Live' = [q \in DOMAIN header \ {p} |-> Contents(q)]
  <2>1. Live' = [q \in DOMAIN header \ {p} |-> Contents(q)']
    BY <1>1 DEF Live
  <2> QED BY <1>2, <2>1
<1>4. Live' = Promised!Restrict(Live, DOMAIN Live \ {p})
  BY <1>3 DEF Live, Promised!Restrict
<1> QED BY <1>4 DEF Promised!Release, Live

LEMMA MemsetIsWrite ==
  ASSUME HeapInv, NEW p \in DOMAIN header, NEW x \in Stamps, Memset(p, x),
         ~UNCHANGED heapVars
  PROVE  Promised!Write(p, x)
<1>1. /\ cell' = [a \in Cells |-> IF a \in Block(p) THEN x ELSE cell[a]]
      /\ header' = header
  BY DEF Memset, Block
<1>2. Contents(p)' = Promised!All(header[p].size, x)
  <2>1. \A i \in 1..header[p].size : cell'[p + i - 1] = x
    BY <1>1, ContentsTyped, BlocksApart
  <2> QED BY <1>1, <2>1 DEF Contents, Promised!All
<1>3. \A q \in DOMAIN header : q # p => Contents(q)' = Contents(q)
  <2> SUFFICES ASSUME NEW q \in DOMAIN header, q # p
               PROVE  Contents(q)' = Contents(q)
    OBVIOUS
  <2>1. Block(q) \subseteq Cells /\ Block(p) \cap Block(q) = {}
    BY BlocksApart
  <2>2. \A i \in 1..header[q].size : cell'[q + i - 1] = cell[q + i - 1]
    <3> SUFFICES ASSUME NEW i \in 1..header[q].size
                 PROVE  cell'[q + i - 1] = cell[q + i - 1]
      OBVIOUS
    <3>1. q + i - 1 \in Block(q)
      BY ContentsTyped
    <3> QED BY <1>1, <2>1, <3>1
  <2> QED BY <1>1, <2>2 DEF Contents
<1>4. Live' = [q \in DOMAIN header |-> Contents(q)']
  BY <1>1 DEF Live
<1>5. Live' = [Live EXCEPT ![p] = Promised!All(Len(@), x)]
  <2>1. DOMAIN Live = DOMAIN header /\ Len(Live[p]) = header[p].size
        /\ \A q \in DOMAIN header : Live[q] = Contents(q)
    BY LiveIs
  <2>2. Live = [q \in DOMAIN header |-> Live[q]]
    BY DEF Live
  <2> HIDE DEF Live
  <2> QED BY <1>2, <1>3, <1>4, <2>1, <2>2
<1> QED BY <1>5 DEF Promised!Write, Live

\* Overwriting the beginning of t with s.
LEMMA Overwritten ==
  ASSUME NEW s \in Seq(CellValues), NEW t \in Seq(CellValues), Len(s) <= Len(t)
  PROVE  s \o SubSeq(t, Len(s) + 1, Len(t))
           = [i \in 1..Len(t) |-> IF i <= Len(s) THEN s[i] ELSE t[i]]
<1> DEFINE rest == SubSeq(t, Len(s) + 1, Len(t))
           whole == [i \in 1..Len(t) |-> IF i <= Len(s) THEN s[i] ELSE t[i]]
<1>1. rest \in Seq(CellValues) /\ Len(rest) = Len(t) - Len(s)
      /\ \A i \in 1..(Len(t) - Len(s)) : rest[i] = t[Len(s) + i]
  OBVIOUS
<1> HIDE DEF rest
<1>2. s \o rest \in Seq(CellValues) /\ Len(s \o rest) = Len(t)
      /\ \A i \in 1..Len(t) :
           (s \o rest)[i] = IF i <= Len(s) THEN s[i] ELSE rest[i - Len(s)]
  BY <1>1
<1>3. \A i \in 1..Len(t) : i > Len(s) => rest[i - Len(s)] = t[i]
  <2> SUFFICES ASSUME NEW i \in 1..Len(t), i > Len(s)
               PROVE  rest[i - Len(s)] = t[i]
    OBVIOUS
  <2>1. i - Len(s) \in 1..(Len(t) - Len(s)) /\ Len(s) + (i - Len(s)) = i
    OBVIOUS
  <2> QED BY <1>1, <2>1
<1>4. \A i \in 1..Len(t) : (s \o rest)[i] = whole[i]
  BY <1>2, <1>3
<1>5. s \o rest = [i \in 1..Len(t) |-> (s \o rest)[i]]
  <2>1. \A u \in Seq(CellValues) : u = [i \in 1..Len(u) |-> u[i]]
    OBVIOUS
  <2> QED BY <1>2, <2>1
<1> QED BY <1>4, <1>5 DEF rest

LEMMA MemcpyIsCopy ==
  ASSUME HeapInv, NEW p \in DOMAIN header, NEW q \in DOMAIN header, Memcpy(p, q),
         ~UNCHANGED heapVars
  PROVE  Promised!Copy(p, q)
<1>1. /\ cell' = [a \in Cells |-> IF a \in Span(p, header[q].size) THEN cell[q + a - p]
                                  ELSE cell[a]]
      /\ header' = header /\ header[q].size <= header[p].size
  BY DEF Memcpy
<1>2. /\ p \in Nat /\ q \in Nat /\ header[q].size \in Nat /\ header[p].size \in Nat
      /\ Span(p, header[q].size) \subseteq Block(p)
  <2>1. p \in Nat /\ q \in Nat /\ header[q].size \in Nat /\ header[p].size \in Nat
    BY DEF HeapInv, HeapTypeOK, Cells
  <2> QED BY <1>1, <2>1 DEF Span, Block
<1>3. Contents(p)' = [i \in 1..header[p].size |->
                        IF i <= header[q].size THEN Contents(q)[i] ELSE Contents(p)[i]]
  <2> SUFFICES ASSUME NEW i \in 1..header[p].size
               PROVE  cell'[p + i - 1] = IF i <= header[q].size THEN Contents(q)[i]
                                         ELSE Contents(p)[i]
    BY SMTT(30), <1>1 DEF Contents
  <2>1. p + i - 1 \in Cells /\ Contents(p)[i] = cell[p + i - 1]
    BY SMTT(30), ContentsTyped, BlocksApart
  <2>2. i <= header[q].size => Contents(q)[i] = cell[q + i - 1]
    BY <1>2, ContentsTyped, i <= header[q].size => i \in 1..header[q].size
  <2>3. /\ p + i - 1 \in Span(p, header[q].size) <=> i <= header[q].size
        /\ q + (p + i - 1) - p = q + i - 1
    BY <1>2 DEF Span
  <2> QED BY <1>1, <2>1, <2>2, <2>3
<1>4. \A r \in DOMAIN header : r # p => Contents(r)' = Contents(r)
  <2> SUFFICES ASSUME NEW r \in DOMAIN header, r # p
               PROVE  Contents(r)' = Contents(r)
    OBVIOUS
  <2>1. Block(r) \subseteq Cells /\ Block(p) \cap Block(r) = {}
    BY BlocksApart
  <2>2. \A i \in 1..header[r].size : cell'[r + i - 1] = cell[r + i - 1]
    <3> SUFFICES ASSUME NEW i \in 1..header[r].size
                 PROVE  cell'[r + i - 1] = cell[r + i - 1]
      OBVIOUS
    <3>1. r + i - 1 \in Block(r)
      BY ContentsTyped
    <3>2. r + i - 1 \in Cells /\ r + i - 1 \notin Span(p, header[q].size)
      BY <1>2, <2>1, <3>1
    <3> QED BY <1>1, <3>2
  <2> QED BY <1>1, <2>2 DEF Contents
<1>5. Live' = [r \in DOMAIN header |-> Contents(r)']
  BY <1>1 DEF Live
<1>6. /\ Live[p] = Contents(p) /\ Live[q] = Contents(q)
      /\ Live[p] \in Seq(CellValues) /\ Live[q] \in Seq(CellValues)
      /\ Len(Live[p]) = header[p].size /\ Len(Live[q]) = header[q].size
  BY LiveIs
<1>7. Contents(p)' = Live[q] \o SubSeq(Live[p], Len(Live[q]) + 1, Len(Live[p]))
  <2> HIDE DEF Live
  <2>1. Len(Live[q]) <= Len(Live[p])
    BY <1>1, <1>6
  <2>2. Live[q] \o SubSeq(Live[p], Len(Live[q]) + 1, Len(Live[p]))
          = [i \in 1..Len(Live[p]) |-> IF i <= Len(Live[q]) THEN Live[q][i] ELSE Live[p][i]]
    BY <1>6, <2>1, Overwritten
  <2> QED BY <1>3, <1>6, <2>2
<1>8. Live' = [Live EXCEPT ![p] = Live[q] \o SubSeq(@, Len(Live[q]) + 1, Len(@))]
  <2>1. DOMAIN Live = DOMAIN header /\ \A r \in DOMAIN header : Live[r] = Contents(r)
    BY LiveIs
  <2>2. Live = [r \in DOMAIN header |-> Live[r]]
    BY DEF Live
  <2> DEFINE text == Live[q] \o SubSeq(Live[p], Len(Live[q]) + 1, Len(Live[p]))
  <2>3. Live' = [Live EXCEPT ![p] = text]
    <3> HIDE DEF Live, text
    <3>1. Contents(p)' = text
      BY <1>7 DEF text
    <3> QED BY <1>4, <1>5, <2>1, <2>2, <3>1
  <2> QED BY <2>3
<1>9. Len(Live[q]) <= Len(Live[p])
  BY <1>1, <1>6
<1> QED BY <1>8, <1>9 DEF Promised!Copy, Live

\* A step that changes what the guest sees is one of the allocator's.
LEMMA HeapSteps ==
  ASSUME HeapInv, HeapNext, Live' # Live
  PROVE  Promised!AllocatorNext
<1> USE HeapAssumption
<1>0. ~UNCHANGED heapVars
  <2>1. UNCHANGED heapVars => Live' = Live
    BY DEF heapVars, Live, Contents
  <2> QED BY <2>1
<1> DEFINE Step ==
      \/ \E n \in Requests :
           \/ Promised!Calloc(n)
           \/ \E align \in Alignments \cup {GuestAlign} : Promised!Malloc(n, align)
      \/ \E p \in DOMAIN header :
           \/ Promised!Strdup(p)
           \/ Promised!Release(p)
           \/ \E n \in Requests : Promised!Realloc(p, n)
           \/ \E x \in Stamps : Promised!Write(p, x)
           \/ \E q \in DOMAIN header : Promised!Copy(p, q)
<1>1. /\ ZERO \in CellValues /\ JUNK \in CellValues /\ GuestAlign \in Asked
      /\ \A align \in Alignments : align \in Asked
  BY DEF CellValues, Asked
<1>2. \A n, x : Promised!All(n, x) = Filled(n, x)
  BY DEF Promised!All, Filled
<1>3. ASSUME NEW n \in Requests, NEW align \in Asked,
             Gmalloc(Filled(n, JUNK), align, {})
      PROVE  Promised!Malloc(n, align)
  <2>1. Promised!Grant(Filled(n, JUNK), align)
    BY <1>1, <1>3, TextsTyped, GotIsGrant
  <2> QED BY <2>1, <1>2 DEF Promised!Malloc
<1>4. ASSUME NEW n \in Requests, Malloc(n)
      PROVE  Step
  <2>1. Promised!Malloc(n, GuestAlign)
    BY <1>1, <1>3, <1>4 DEF Malloc
  <2> QED BY <2>1
<1>5. ASSUME NEW n \in Requests, Calloc(n)
      PROVE  Step
  <2>1. Promised!Grant(Filled(n, ZERO), GuestAlign)
    BY <1>1, <1>5, TextsTyped, GotIsGrant DEF Calloc
  <2>2. Promised!Calloc(n)
    BY <2>1, <1>2 DEF Promised!Calloc
  <2> QED BY <2>2
<1>6. ASSUME NEW n \in Requests, NEW align \in Alignments, Memalign(n, align)
      PROVE  Step
  <2>1. Promised!Malloc(n, align)
    BY <1>1, <1>3, <1>6 DEF Memalign
  <2> QED BY <2>1
<1>7. ASSUME NEW n \in Requests, NEW p \in Cells \cup {NULLPTR}, Realloc(p, n)
      PROVE  Step
  <2>1. CASE Grealloc(p, n)
    <3>1. p \in DOMAIN header
      BY <2>1 DEF Grealloc, Ours
    <3> QED BY <2>1, <3>1, GreallocIsRealloc
  <2>2. CASE ~Grealloc(p, n)
    <3>1. Malloc(n)
      BY <1>0, <1>7, <2>2 DEF Realloc
    <3> QED BY <1>4, <3>1
  <2> QED BY <2>1, <2>2
<1>8. ASSUME NEW p \in Cells, Strdup(p)
      PROVE  Step
  <2>1. p \in DOMAIN header /\ Gmalloc(Contents(p), GuestAlign, {})
    BY <1>8 DEF Strdup, Ours
  <2>2. Promised!Grant(Contents(p), GuestAlign)
    BY <1>1, <2>1, ContentsTyped, GotIsGrant
  <2>3. Promised!Grant(Live[p], GuestAlign)
    <3>1. Live[p] = Contents(p)
      BY <2>1, LiveIs
    <3> QED BY <2>2, <3>1
  <2>4. Promised!Strdup(p)
    BY <2>3 DEF Promised!Strdup, Live
  <2> QED BY <2>1, <2>4
<1>9. ASSUME NEW p \in Cells, Gfree(p)
      PROVE  Step
  <2>1. p \in DOMAIN header
    BY <1>0, <1>9 DEF Gfree, Ours
  <2> QED BY <1>9, <2>1, GfreeIsRelease
<1>10. ASSUME NEW p \in DOMAIN header \cup {NULLPTR}, NEW x \in Stamps, Memset(p, x)
       PROVE  Step
  <2>1. p \in DOMAIN header
    BY <1>0, <1>10 DEF Memset, Ours
  <2> QED BY <1>0, <1>10, <2>1, MemsetIsWrite
<1>11. ASSUME NEW p \in DOMAIN header \cup {NULLPTR}, NEW q \in DOMAIN header \cup {NULLPTR},
              Memcpy(p, q)
       PROVE  Step
  <2>1. p \in DOMAIN header /\ q \in DOMAIN header
    BY <1>0, <1>11 DEF Memcpy, Ours
  <2> QED BY <1>0, <1>11, <2>1, MemcpyIsCopy
<1>12. Step
  <2> HIDE DEF Step
  <2> QED BY <1>0, <1>4, <1>5, <1>6, <1>7, <1>8, <1>9, <1>10, <1>11 DEF HeapNext, OutOfMemory
<1>13. DOMAIN Live = DOMAIN header
  BY DEF Live
<1> QED BY <1>12, <1>13 DEF Promised!AllocatorNext, Live

\* To the guest the heap is an allocator: what the C standard and POSIX promise
\* of malloc, calloc, memalign, realloc, free and strdup.
THEOREM HeapAllocates == HeapSpec => ImplementsAllocator
<1>1. HeapInit => HeapInv /\ Promised!AllocatorInit
  <2>1. HeapInit => Live = <<>>
    BY DEF HeapInit, Live
  <2> QED BY <2>1, HeapInvInit DEF Promised!AllocatorInit, Live
<1>2. HeapInv /\ [HeapNext]_heapVars => HeapInv' /\ [Promised!AllocatorNext]_Live
  <2>1. UNCHANGED heapVars => Live' = Live
    BY DEF heapVars, Live, Contents
  <2> QED BY <2>1, HeapInvNext, HeapSteps
<1>3. [Promised!AllocatorNext]_Live => [Promised!AllocatorNext]_([p \in DOMAIN header |-> Contents(p)])
  BY DEF Live
<1> QED BY <1>1, <1>2, <1>3, PTL DEF HeapSpec, ImplementsAllocator, Promised!AllocatorSpec

----------------------------------------------------------------------------
(***************************************************************************)
(* qsort.  Putting the element in hand into the hole makes an array that   *)
(* only ever changes by exchanging neighbours, so nothing is lost; its     *)
(* first elements are in order but for the one in hand, which goes before  *)
(* everything it has passed.                                               *)
(***************************************************************************)
Element == [key : SortKeys, was : Nat]

\* The array with the element in hand put down.
Whole == IF sort.phase = "shift" THEN [sort.a EXCEPT ![sort.j] = sort.tmp] ELSE sort.a

\* x belongs before y: by the guest's function, or as they stood.
Before(f, x, y) == f[x.key, y.key] < 0 \/ (f[x.key, y.key] = 0 /\ x.was < y.was)

SortShape ==
  /\ sort = [phase |-> sort.phase, n |-> sort.n, a |-> sort.a, i |-> sort.i,
             j |-> sort.j, tmp |-> sort.tmp, cmp |-> sort.cmp]
  /\ sort.phase \in {"idle", "pick", "shift", "done"}
  /\ sort.phase # "idle" =>
       /\ sort.n \in Nat /\ sort.i \in Nat /\ sort.j \in Nat
       /\ sort.cmp \in [SortKeys \X SortKeys -> Int]
       /\ sort.a \in [Places(sort.n) -> Element]
  /\ sort.phase = "pick" => sort.i \in 1..sort.n
  /\ sort.phase = "shift" => /\ sort.i \in 1..(sort.n - 1) /\ sort.j \in 0..sort.i
                             /\ sort.tmp \in Element

\* No element is lost.
NoneLost ==
  sort.phase # "idle" => {Whole[p].was : p \in Places(sort.n)} = Places(sort.n)

\* The elements not yet taken are where they were; those before them came
\* from there.
Untaken ==
  /\ sort.phase = "pick" =>
       /\ \A p \in Places(sort.i) : sort.a[p].was < sort.i
       /\ \A p \in Places(sort.n) \ Places(sort.i) : sort.a[p].was = p
  /\ sort.phase = "shift" =>
       /\ sort.tmp.was = sort.i
       /\ \A p \in Places(sort.i + 1) \ {sort.j} : sort.a[p].was < sort.i
       /\ \A p \in Places(sort.n) \ Places(sort.i + 1) : sort.a[p].was = p

InOrder(f, a, S) == \A p, q \in S : p < q => Before(f, a[p], a[q])

\* How far the sort has come, for a function that orders.
Sorted ==
  sort.phase # "idle" /\ Orders(sort.cmp) =>
    /\ sort.phase = "pick" => InOrder(sort.cmp, sort.a, Places(sort.i))
    /\ sort.phase = "shift" =>
         /\ InOrder(sort.cmp, sort.a, Places(sort.i + 1) \ {sort.j})
         /\ \A p \in Places(sort.i + 1) :
              p > sort.j => sort.cmp[sort.tmp.key, sort.a[p].key] < 0
    /\ sort.phase = "done" /\ sort.n <= SortLimit =>
         InOrder(sort.cmp, sort.a, Places(sort.n))

SortInv == SortShape /\ NoneLost /\ Untaken /\ Sorted

\* A function that orders, orders elements that stood apart.
LEMMA BeforeOrders ==
  ASSUME NEW f \in [SortKeys \X SortKeys -> Int], Orders(f),
         NEW x \in Element, NEW y \in Element, NEW z \in Element
  PROVE  /\ Before(f, x, y) /\ Before(f, y, z) => Before(f, x, z)
         /\ f[x.key, y.key] <= 0 /\ x.was < y.was => Before(f, x, y)
         /\ ~(f[x.key, y.key] <= 0) => f[y.key, x.key] < 0
<1> DEFINE c(k, l) == f[k, l]
<1>1. /\ x.key \in SortKeys /\ y.key \in SortKeys /\ z.key \in SortKeys
      /\ x.was \in Nat /\ y.was \in Nat /\ z.was \in Nat
  BY DEF Element
<1>2. \A k, l \in SortKeys : c(k, l) \in Int
  OBVIOUS
<1>3. /\ \A k, l \in SortKeys : c(k, l) = -c(l, k)
      /\ \A k, l, m \in SortKeys : c(k, l) <= 0 /\ c(l, m) <= 0 => c(k, m) <= 0
  BY DEF Orders
<1>4. \A a, b \in Element :
        Before(f, a, b) <=> c(a.key, b.key) < 0 \/ (c(a.key, b.key) = 0 /\ a.was < b.was)
  BY DEF Before
<1> HIDE DEF c
<1>5. PICK k \in SortKeys, l \in SortKeys, m \in SortKeys : k = x.key /\ l = y.key /\ m = z.key
  BY <1>1
<1>6. ASSUME Before(f, x, y), Before(f, y, z)
      PROVE  Before(f, x, z)
  <2>1. /\ c(k, l) < 0 \/ (c(k, l) = 0 /\ x.was < y.was)
        /\ c(l, m) < 0 \/ (c(l, m) = 0 /\ y.was < z.was)
    BY <1>4, <1>5, <1>6
  <2>2. /\ c(k, l) \in Int /\ c(l, m) \in Int /\ c(k, m) \in Int
        /\ c(l, k) \in Int /\ c(m, l) \in Int /\ c(m, k) \in Int
        /\ c(l, k) = -c(k, l) /\ c(m, l) = -c(l, m) /\ c(m, k) = -c(k, m)
    BY <1>2, <1>3
  <2>3. c(k, l) <= 0 /\ c(l, m) <= 0
    BY <2>1, <2>2
  <2>4. c(k, m) <= 0
    BY <1>3, <2>3
  <2>5. c(k, m) = 0 => c(k, l) = 0 /\ c(l, m) = 0
    <3> SUFFICES ASSUME c(k, m) = 0  PROVE c(k, l) = 0 /\ c(l, m) = 0
      OBVIOUS
    <3>1. c(m, k) <= 0
      BY <2>2
    <3>2. c(m, l) <= 0 /\ c(l, k) <= 0
      BY <1>3, <2>3, <3>1
    <3> QED BY <2>2, <2>3, <3>2
  <2>6. c(k, m) < 0 \/ (c(k, m) = 0 /\ x.was < z.was)
    BY <1>1, <2>1, <2>2, <2>4, <2>5
  <2> QED BY <1>4, <1>5, <2>6
<1>7. c(k, l) <= 0 /\ x.was < y.was => Before(f, x, y)
  <2>1. c(k, l) \in Int
    BY <1>2
  <2> QED BY <1>4, <1>5, <2>1
<1>8. ~(c(k, l) <= 0) => c(l, k) < 0
  <2>1. c(k, l) \in Int /\ c(l, k) \in Int /\ c(l, k) = -c(k, l)
    BY <1>2, <1>3
  <2> QED BY <2>1
<1> QED BY <1>5, <1>6, <1>7, <1>8 DEF c

----------------------------------------------------------------------------
\* h_qsort's entry: nothing has moved, and fewer than two elements are in order.
LEMMA SortStarts ==
  ASSUME NEW n \in 0..MaxSort, NEW keys \in [Places(n) -> SortKeys], NEW f \in Comparators,
         Sort(n, keys, f)
  PROVE  SortInv'
<1> USE SortAssumption
<1> DEFINE a == [p \in Places(n) |-> [key |-> keys[p], was |-> p]]
           s == [phase |-> IF n < 2 \/ n > SortLimit THEN "done" ELSE "pick",
                 n |-> n, a |-> a, i |-> 1, j |-> 0, tmp |-> NoElement, cmp |-> f]
<1>1. sort' = s
  BY DEF Sort
<1>2. /\ s.phase = (IF n < 2 \/ n > SortLimit THEN "done" ELSE "pick")
      /\ s.n = n /\ s.a = a /\ s.i = 1 /\ s.j = 0 /\ s.cmp = f /\ s.tmp = NoElement
  OBVIOUS
<1>3. n \in Nat /\ f \in [SortKeys \X SortKeys -> Int] /\ a \in [Places(n) -> Element]
      /\ \A p \in Places(n) : a[p].was = p
  <2>1. n \in Nat
    OBVIOUS
  <2>1a. f \in [SortKeys \X SortKeys -> Int]
    OBVIOUS
  <2>2. \A p \in Places(n) : p \in Nat /\ keys[p] \in SortKeys
    BY <2>1 DEF Places
  <2> QED BY <2>1, <2>1a, <2>2 DEF Element
<1> HIDE DEF s, a
<1>4. /\ n < 2 \/ n >= 2
      /\ s.phase = "pick" => n >= 2
      /\ s.phase = "done" /\ n <= SortLimit => n < 2
      /\ s.phase \in {"pick", "done"}
  BY <1>2, <1>3
<1>5. SortShape'
  <2>1. s = [phase |-> s.phase, n |-> s.n, a |-> s.a, i |-> s.i,
             j |-> s.j, tmp |-> s.tmp, cmp |-> s.cmp]
    BY <1>2 DEF s
  <2> QED BY <1>1, <1>2, <1>3, <1>4, <2>1 DEF SortShape
<1>6. NoneLost'
  BY <1>1, <1>2, <1>3 DEF NoneLost, Whole
<1>7. \A p \in Places(1) : p = 0
  BY DEF Places
<1>8. Untaken'
  <2>1. n >= 2 => \A p \in Places(1) : p \in Places(n)
    BY <1>3 DEF Places
  <2>2. \A p \in Places(1) : n >= 2 => a[p].was < 1
    BY <1>7, <2>1, <1>3
  <2> QED BY <1>1, <1>2, <1>3, <1>4, <2>2 DEF Untaken
<1>9. Sorted'
  <2>1. \A p, q \in Places(n) : n < 2 => ~(p < q)
    BY <1>3 DEF Places
  <2>2. \A p, q \in Places(1) : ~(p < q)
    BY <1>7
  <2> QED BY <1>1, <1>2, <1>3, <1>4, <2>1, <2>2 DEF Sorted, InOrder
<1> QED BY <1>5, <1>6, <1>8, <1>9 DEF SortInv

LEMMA PickPreserves ==
  ASSUME SortInv, Pick
  PROVE  SortInv'
<1>1. /\ sort.phase = "pick" /\ sort.n \in Nat /\ sort.i \in 1..sort.n /\ sort.j \in Nat
      /\ sort.cmp \in [SortKeys \X SortKeys -> Int] /\ sort.a \in [Places(sort.n) -> Element]
      /\ sort = [phase |-> sort.phase, n |-> sort.n, a |-> sort.a, i |-> sort.i,
                 j |-> sort.j, tmp |-> sort.tmp, cmp |-> sort.cmp]
  BY DEF SortInv, SortShape, Pick
<1>2. {sort.a[p].was : p \in Places(sort.n)} = Places(sort.n)
  BY <1>1 DEF SortInv, NoneLost, Whole
<1>3. /\ \A p \in Places(sort.i) : sort.a[p].was < sort.i
      /\ \A p \in Places(sort.n) \ Places(sort.i) : sort.a[p].was = p
      /\ Orders(sort.cmp) => InOrder(sort.cmp, sort.a, Places(sort.i))
  BY <1>1 DEF SortInv, Untaken, Sorted
<1>4. CASE sort.i < sort.n
  <2>1. /\ sort'.phase = "shift" /\ sort'.n = sort.n /\ sort'.a = sort.a /\ sort'.i = sort.i
        /\ sort'.j = sort.i /\ sort'.tmp = sort.a[sort.i] /\ sort'.cmp = sort.cmp
        /\ sort' = [phase |-> "shift", n |-> sort.n, a |-> sort.a, i |-> sort.i,
                    j |-> sort.i, tmp |-> sort.a[sort.i], cmp |-> sort.cmp]
    BY <1>1, <1>4 DEF Pick
  <2>2. /\ sort.i \in Places(sort.n) \ Places(sort.i) /\ sort.i \in Nat
        /\ sort.i \in 1..(sort.n - 1)
        /\ Places(sort.i + 1) \ {sort.i} = Places(sort.i)
        /\ \A p \in Places(sort.n) \ Places(sort.i + 1) : p \in Places(sort.n) \ Places(sort.i)
    BY <1>1, <1>4 DEF Places
  <2>3. SortShape'
    BY <1>1, <2>1, <2>2 DEF SortShape
  <2>4. NoneLost'
    <3>1. [sort.a EXCEPT ![sort.i] = sort.a[sort.i]] = sort.a
      BY <1>1, <2>2
    <3> QED BY <1>2, <2>1, <3>1 DEF NoneLost, Whole
  <2>5. Untaken'
    BY <1>3, <2>1, <2>2 DEF Untaken
  <2>6. Sorted'
    <3>1. \A p \in Places(sort.i + 1) : ~(p > sort.i)
      BY <1>1 DEF Places
    <3> QED BY <1>3, <2>1, <2>2, <3>1 DEF Sorted
  <2> QED BY <2>3, <2>4, <2>5, <2>6 DEF SortInv
<1>5. CASE ~(sort.i < sort.n)
  <2>1. /\ sort'.phase = "done" /\ sort'.n = sort.n /\ sort'.a = sort.a /\ sort'.i = sort.i
        /\ sort'.j = sort.j /\ sort'.tmp = sort.tmp /\ sort'.cmp = sort.cmp
        /\ sort' = [phase |-> "done", n |-> sort.n, a |-> sort.a, i |-> sort.i,
                    j |-> sort.j, tmp |-> sort.tmp, cmp |-> sort.cmp]
    BY <1>1, <1>5 DEF Pick
  <2>2. sort.i = sort.n
    BY <1>1, <1>5
  <2>3. SortShape' /\ Untaken'
    BY <1>1, <2>1 DEF SortShape, Untaken
  <2>4. NoneLost'
    BY <1>2, <2>1 DEF NoneLost, Whole
  <2>5. Sorted'
    BY <1>3, <2>1, <2>2 DEF Sorted
  <2> QED BY <2>3, <2>4, <2>5 DEF SortInv
<1> QED BY <1>4, <1>5

\* What the inner loop has in hand.
LEMMA Shifting ==
  ASSUME SortInv, sort.phase = "shift"
  PROVE  /\ sort.n \in Nat /\ sort.i \in 1..(sort.n - 1) /\ sort.j \in 0..sort.i
         /\ sort.cmp \in [SortKeys \X SortKeys -> Int]
         /\ sort.a \in [Places(sort.n) -> Element] /\ sort.tmp \in Element
         /\ sort = [phase |-> sort.phase, n |-> sort.n, a |-> sort.a, i |-> sort.i,
                    j |-> sort.j, tmp |-> sort.tmp, cmp |-> sort.cmp]
         /\ {[sort.a EXCEPT ![sort.j] = sort.tmp][p].was : p \in Places(sort.n)}
              = Places(sort.n)
         /\ sort.tmp.was = sort.i
         /\ \A p \in Places(sort.i + 1) \ {sort.j} : sort.a[p].was < sort.i
         /\ \A p \in Places(sort.n) \ Places(sort.i + 1) : sort.a[p].was = p
         /\ Orders(sort.cmp) =>
              /\ InOrder(sort.cmp, sort.a, Places(sort.i + 1) \ {sort.j})
              /\ \A p \in Places(sort.i + 1) :
                   p > sort.j => sort.cmp[sort.tmp.key, sort.a[p].key] < 0
<1>1. /\ sort.n \in Nat /\ sort.i \in 1..(sort.n - 1) /\ sort.j \in 0..sort.i
      /\ sort.cmp \in [SortKeys \X SortKeys -> Int]
      /\ sort.a \in [Places(sort.n) -> Element] /\ sort.tmp \in Element
      /\ sort = [phase |-> sort.phase, n |-> sort.n, a |-> sort.a, i |-> sort.i,
                 j |-> sort.j, tmp |-> sort.tmp, cmp |-> sort.cmp]
  BY DEF SortInv, SortShape
<1>2. {[sort.a EXCEPT ![sort.j] = sort.tmp][p].was : p \in Places(sort.n)} = Places(sort.n)
  BY DEF SortInv, NoneLost, Whole
<1>3. /\ sort.tmp.was = sort.i
      /\ \A p \in Places(sort.i + 1) \ {sort.j} : sort.a[p].was < sort.i
      /\ \A p \in Places(sort.n) \ Places(sort.i + 1) : sort.a[p].was = p
  BY DEF SortInv, Untaken
<1>4. Orders(sort.cmp) =>
        /\ InOrder(sort.cmp, sort.a, Places(sort.i + 1) \ {sort.j})
        /\ \A p \in Places(sort.i + 1) :
             p > sort.j => sort.cmp[sort.tmp.key, sort.a[p].key] < 0
  BY DEF SortInv, Sorted
<1> QED BY <1>1, <1>2, <1>3, <1>4

LEMMA ShiftPreserves ==
  ASSUME SortInv, Shift
  PROVE  SortInv'
<1>0. sort.phase = "shift" /\ sort.j > 0
  BY DEF Shift
<1> USE SortInv
<1>1. PICK n, i, j, tmp, f, a :
        /\ n = sort.n /\ i = sort.i /\ j = sort.j /\ tmp = sort.tmp /\ f = sort.cmp /\ a = sort.a
        /\ n \in Nat /\ i \in 1..(n - 1) /\ j \in 0..i /\ tmp \in Element
        /\ f \in [SortKeys \X SortKeys -> Int] /\ a \in [Places(n) -> Element]
  BY <1>0, Shifting
<1> DEFINE b == [a EXCEPT ![j] = a[j - 1]]
<1>2. /\ sort'.phase = "shift" /\ sort'.n = n /\ sort'.a = b /\ sort'.i = i
      /\ sort'.j = j - 1 /\ sort'.tmp = tmp /\ sort'.cmp = f
      /\ sort' = [phase |-> "shift", n |-> n, a |-> b, i |-> i,
                  j |-> j - 1, tmp |-> tmp, cmp |-> f]
      /\ ~(f[a[j - 1].key, tmp.key] <= 0)
  <2>1. sort = [phase |-> sort.phase, n |-> n, a |-> a, i |-> i, j |-> j, tmp |-> tmp, cmp |-> f]
    BY <1>0, <1>1, Shifting
  <2>2. sort' = [phase |-> "shift", n |-> n, a |-> b, i |-> i,
                 j |-> j - 1, tmp |-> tmp, cmp |-> f]
    BY <1>0, <1>1, <2>1 DEF Shift
  <2>3. ~(f[a[j - 1].key, tmp.key] <= 0)
    BY <1>1 DEF Shift, Stays
  <2> HIDE DEF b
  <2> QED BY <2>2, <2>3
<1>3. /\ n \in Nat /\ i \in Nat /\ i >= 1 /\ i < n /\ j \in Nat /\ j >= 1 /\ j <= i
      /\ tmp \in Element /\ f \in [SortKeys \X SortKeys -> Int]
      /\ \A p \in Places(i + 1) : p \in Nat /\ p <= i
  BY <1>0, <1>1 DEF Places
<1>4. /\ j \in Places(n) /\ j - 1 \in Places(n) /\ j - 1 \in Nat /\ j - 1 # j
      /\ j \in Places(i + 1) /\ j - 1 \in Places(i + 1) \ {j}
      /\ Places(i + 1) \subseteq Places(n)
  BY <1>3 DEF Places
<1>a. /\ tmp.was = i
      /\ \A p \in Places(i + 1) \ {j} : a[p].was < i
      /\ \A p \in Places(n) \ Places(i + 1) : a[p].was = p
      /\ {[a EXCEPT ![j] = tmp][p].was : p \in Places(n)} = Places(n)
      /\ Orders(f) => /\ InOrder(f, a, Places(i + 1) \ {j})
                      /\ \A p \in Places(i + 1) : p > j => f[tmp.key, a[p].key] < 0
  BY <1>0, <1>1, Shifting
<1>5. /\ b \in [Places(n) -> Element] /\ b[j] = a[j - 1]
      /\ \A p \in Places(n) : p # j => b[p] = a[p]
  BY <1>1, <1>4
<1> HIDE DEF b
<1>6. SortShape'
  <2>1. sort' = [phase |-> sort'.phase, n |-> sort'.n, a |-> sort'.a, i |-> sort'.i,
                 j |-> sort'.j, tmp |-> sort'.tmp, cmp |-> sort'.cmp]
    BY <1>2
  <2>2. i \in 1..(n - 1) /\ j - 1 \in 0..i
    BY <1>3
  <2> QED BY <1>2, <1>3, <1>4, <1>5, <2>1, <2>2 DEF SortShape
<1>7. NoneLost'
  <2> DEFINE old == [a EXCEPT ![j] = tmp]
             new == [b EXCEPT ![j - 1] = tmp]
  <2>1. /\ old[j] = tmp /\ old[j - 1] = a[j - 1] /\ new[j] = a[j - 1] /\ new[j - 1] = tmp
        /\ \A p \in Places(n) : p # j /\ p # j - 1 => new[p] = old[p]
    BY <1>1, <1>4, <1>5
  <2> HIDE DEF old, new
  <2>2. {new[p].was : p \in Places(n)} = {old[p].was : p \in Places(n)}
    BY <1>4, <2>1
  <2>3. {old[p].was : p \in Places(n)} = Places(n)
    BY <1>a DEF old
  <2>4. Whole' = new
    BY <1>2 DEF Whole, new
  <2> QED BY <1>2, <2>2, <2>3, <2>4 DEF NoneLost
<1>8. Untaken'
  <2>1. \A p \in Places(i + 1) \ {j - 1} : b[p].was < i
    BY <1>a, <1>4, <1>5
  <2>2. \A p \in Places(n) \ Places(i + 1) : b[p].was = p
    BY <1>a, <1>4, <1>5
  <2> QED BY <1>2, <1>a, <2>1, <2>2 DEF Untaken
<1>9. Sorted'
  <2> SUFFICES ASSUME Orders(f)
               PROVE  /\ InOrder(f, b, Places(i + 1) \ {j - 1})
                      /\ \A p \in Places(i + 1) : p > j - 1 => f[tmp.key, b[p].key] < 0
    BY <1>2 DEF Sorted
  <2>1. ASSUME NEW p \in Places(i + 1) \ {j - 1}, NEW q \in Places(i + 1) \ {j - 1}, p < q
        PROVE  Before(f, b[p], b[q])
    <3>0. \A u, v \in Places(i + 1) \ {j} : u < v => Before(f, a[u], a[v])
      BY <1>a DEF InOrder
    <3>1. CASE q = j
      <4>1. p \in Places(i + 1) \ {j} /\ p < j - 1 /\ b[p] = a[p] /\ b[q] = a[j - 1]
        BY <1>3, <1>4, <1>5, <2>1, <3>1
      <4> QED BY <1>4, <3>0, <4>1
    <3>2. CASE p = j
      <4>1. q \in Places(i + 1) \ {j} /\ j - 1 < q /\ b[q] = a[q] /\ b[p] = a[j - 1]
        BY <1>3, <1>4, <1>5, <2>1, <3>2
      <4> QED BY <1>4, <3>0, <4>1
    <3>3. CASE p # j /\ q # j
      BY <1>4, <1>5, <2>1, <3>0, <3>3
    <3> QED BY <3>1, <3>2, <3>3
  <2>2. ASSUME NEW p \in Places(i + 1), p > j - 1
        PROVE  f[tmp.key, b[p].key] < 0
    <3>1. CASE p = j
      <4>1. a[j - 1] \in Element
        BY <1>1, <1>4
      <4> QED BY <1>2, <1>3, <1>5, <3>1, <4>1, BeforeOrders
    <3>2. CASE p # j
      <4>1. p > j /\ b[p] = a[p]
        BY <1>3, <1>4, <1>5, <2>2, <3>2
      <4> QED BY <1>a, <4>1
    <3> QED BY <3>1, <3>2
  <2> QED BY <2>1, <2>2 DEF InOrder
<1> QED BY <1>6, <1>7, <1>8, <1>9 DEF SortInv

LEMMA PutDownPreserves ==
  ASSUME SortInv, PutDown
  PROVE  SortInv'
<1>0. sort.phase = "shift"
  BY DEF PutDown
<1>1. PICK n, i, j, tmp, f, a :
        /\ n = sort.n /\ i = sort.i /\ j = sort.j /\ tmp = sort.tmp /\ f = sort.cmp /\ a = sort.a
        /\ n \in Nat /\ i \in 1..(n - 1) /\ j \in 0..i /\ tmp \in Element
        /\ f \in [SortKeys \X SortKeys -> Int] /\ a \in [Places(n) -> Element]
  BY <1>0, Shifting
<1> DEFINE b == [a EXCEPT ![j] = tmp]
<1>2. /\ sort'.phase = "pick" /\ sort'.n = n /\ sort'.a = b /\ sort'.i = i + 1
      /\ sort'.j = j /\ sort'.tmp = tmp /\ sort'.cmp = f
      /\ sort' = [phase |-> "pick", n |-> n, a |-> b, i |-> i + 1,
                  j |-> j, tmp |-> tmp, cmp |-> f]
      /\ j > 0 => f[a[j - 1].key, tmp.key] <= 0
  <2>1. sort = [phase |-> sort.phase, n |-> n, a |-> a, i |-> i, j |-> j, tmp |-> tmp, cmp |-> f]
    BY <1>0, <1>1, Shifting
  <2>2. sort' = [phase |-> "pick", n |-> n, a |-> b, i |-> i + 1,
                 j |-> j, tmp |-> tmp, cmp |-> f]
    BY <1>0, <1>1, <2>1 DEF PutDown
  <2>3. j > 0 => f[a[j - 1].key, tmp.key] <= 0
    BY <1>1 DEF PutDown, Stays
  <2> HIDE DEF b
  <2> QED BY <2>2, <2>3
<1>3. /\ n \in Nat /\ i \in Nat /\ i >= 1 /\ i < n /\ j \in Nat /\ j <= i
      /\ tmp \in Element /\ f \in [SortKeys \X SortKeys -> Int]
      /\ \A p \in Places(i + 1) : p \in Nat /\ p <= i
  BY <1>0, <1>1 DEF Places
<1>4. /\ j \in Places(n) /\ j \in Places(i + 1) /\ Places(i + 1) \subseteq Places(n)
      /\ j > 0 => j - 1 \in Places(i + 1) \ {j}
  BY <1>3 DEF Places
<1>5. /\ tmp.was = i
      /\ \A p \in Places(i + 1) \ {j} : a[p].was < i
      /\ \A p \in Places(n) \ Places(i + 1) : a[p].was = p
      /\ {b[p].was : p \in Places(n)} = Places(n)
      /\ Orders(f) => /\ InOrder(f, a, Places(i + 1) \ {j})
                      /\ \A p \in Places(i + 1) : p > j => f[tmp.key, a[p].key] < 0
  BY <1>0, <1>1, Shifting
<1>6. /\ b \in [Places(n) -> Element] /\ b[j] = tmp
      /\ \A p \in Places(n) : p # j => b[p] = a[p]
      /\ \A p \in Places(n) : a[p] \in Element
  BY <1>1, <1>4
<1> HIDE DEF b
<1>7. SortShape'
  <2>1. sort' = [phase |-> sort'.phase, n |-> sort'.n, a |-> sort'.a, i |-> sort'.i,
                 j |-> sort'.j, tmp |-> sort'.tmp, cmp |-> sort'.cmp]
    BY <1>2
  <2>2. i + 1 \in 1..n /\ i + 1 \in Nat
    BY <1>3
  <2> QED BY <1>2, <1>3, <1>6, <2>1, <2>2 DEF SortShape
<1>8. NoneLost'
  BY <1>2, <1>5 DEF NoneLost, Whole
<1>9. Untaken'
  <2>1. \A p \in Places(i + 1) : b[p].was < i + 1
    <3> SUFFICES ASSUME NEW p \in Places(i + 1)  PROVE b[p].was < i + 1
      OBVIOUS
    <3>1. CASE p = j
      <4>1. b[p].was = i
        BY <1>5, <1>6, <3>1
      <4> QED BY <1>3, <4>1
    <3>2. CASE p # j
      <4>1. b[p] = a[p] /\ a[p].was < i /\ a[p].was \in Nat
        BY <1>4, <1>5, <1>6, <3>2 DEF Element
      <4> QED BY <1>3, <4>1
    <3> QED BY <3>1, <3>2
  <2>2. \A p \in Places(n) \ Places(i + 1) : b[p].was = p
    BY <1>4, <1>5, <1>6
  <2> QED BY <1>2, <2>1, <2>2 DEF Untaken
<1>10. Sorted'
  <2> SUFFICES ASSUME Orders(f)  PROVE InOrder(f, b, Places(i + 1))
    BY <1>2 DEF Sorted
  <2>0. \A u, v \in Places(i + 1) \ {j} : u < v => Before(f, a[u], a[v])
    BY <1>5 DEF InOrder
  <2>1. ASSUME NEW p \in Places(i + 1), NEW q \in Places(i + 1), p < q
        PROVE  Before(f, b[p], b[q])
    <3>1. CASE q = j
      <4>1. /\ j > 0 /\ p \in Places(i + 1) \ {j} /\ p <= j - 1
            /\ b[p] = a[p] /\ b[q] = tmp
        BY <1>3, <1>4, <1>6, <2>1, <3>1
      <4>2. a[j - 1] \in Element /\ a[p] \in Element /\ a[j - 1].was < tmp.was
        BY <1>4, <1>5, <1>6, <4>1
      <4>3. Before(f, a[j - 1], tmp)
        BY <1>2, <1>3, <4>1, <4>2, BeforeOrders
      <4>4. p = j - 1 \/ Before(f, a[p], a[j - 1])
        BY <1>3, <1>4, <2>0, <4>1
      <4> QED BY <1>3, <4>1, <4>2, <4>3, <4>4, BeforeOrders
    <3>2. CASE p = j
      <4>1. q > j /\ b[q] = a[q] /\ b[p] = tmp
        BY <1>3, <1>4, <1>6, <2>1, <3>2
      <4>2. f[tmp.key, a[q].key] < 0
        BY <1>5, <4>1
      <4> QED BY <4>1, <4>2 DEF Before
    <3>3. CASE p # j /\ q # j
      BY <1>4, <1>6, <2>0, <2>1, <3>3
    <3> QED BY <3>1, <3>2, <3>3
  <2> QED BY <2>1 DEF InOrder
<1> QED BY <1>7, <1>8, <1>9, <1>10 DEF SortInv

LEMMA SortInvNext == SortInv /\ [SortNext]_sort => SortInv'
<1> SUFFICES ASSUME SortInv, [SortNext]_sort  PROVE SortInv'
  OBVIOUS
<1>1. CASE UNCHANGED sort
  BY <1>1 DEF SortInv, SortShape, NoneLost, Whole, Untaken, Sorted
<1>2. CASE SortReturn
  <2>1. sort'.phase = "idle"
        /\ sort' = [phase |-> sort'.phase, n |-> sort'.n, a |-> sort'.a, i |-> sort'.i,
                    j |-> sort'.j, tmp |-> sort'.tmp, cmp |-> sort'.cmp]
    BY <1>2 DEF SortReturn
  <2> QED BY <2>1 DEF SortInv, SortShape, NoneLost, Untaken, Sorted
<1> QED BY <1>1, <1>2, SortStarts, PickPreserves, ShiftPreserves, PutDownPreserves DEF SortNext

LEMMA SortInvInit == SortInit => SortInv
<1> SUFFICES ASSUME SortInit  PROVE SortInv
  OBVIOUS
<1>1. sort.phase = "idle"
      /\ sort = [phase |-> sort.phase, n |-> sort.n, a |-> sort.a, i |-> sort.i,
                 j |-> sort.j, tmp |-> sort.tmp, cmp |-> sort.cmp]
  BY DEF SortInit
<1> QED BY <1>1 DEF SortInv, SortShape, NoneLost, Untaken, Sorted

\* Whatever the guest's comparison answers, no element is lost or doubled, in
\* the midst of the sort either; and with one that orders, the array comes out
\* in its order, equals as they stood: for arrays of any length.
THEOREM SortIsSound == SortSpec => []SortSound
<1>1. SortInit => SortInv
  BY SortInvInit
<1>2. SortInv => SortSound
  <2> SUFFICES ASSUME SortInv  PROVE SortSound
    OBVIOUS
  <2>1. sort.phase # "idle" => {Whole[p].was : p \in Places(sort.n)} = Places(sort.n)
    BY DEF SortInv, NoneLost
  <2>2. sort.phase = "done" /\ sort.n <= SortLimit /\ Orders(sort.cmp) =>
          InOrder(sort.cmp, sort.a, Places(sort.n))
    BY DEF SortInv, Sorted
  <2> QED BY <2>1, <2>2 DEF SortSound, Whole, InOrder, Before
<1> QED BY <1>1, <1>2, SortInvNext, PTL DEF SortSpec

(***************************************************************************)
(* std::string.  Beside what the run checks, a game that takes no          *)
(* references of its own has none counted, so that writing in place is     *)
(* seen by one string only.                                                *)
(***************************************************************************)
Unshared == sharing \/ \A p \in DOMAIN reps : reps[p].ref = 0

StringInv == StringTypeOK /\ RepsOwned /\ Unshared

Rep == [text : Texts, ref : 0..MaxShared]

LEMMA HoldersFinite ==
  ASSUME NEW p
  PROVE  IsFiniteSet(Holders(p)) /\ Cardinality(Holders(p)) \in Nat
<1>1. Holders(p) \subseteq Strings
  BY DEF Holders
<1>2. IsFiniteSet(Holders(p))
  BY <1>1, StringAssumption, FS_Subset
<1> QED BY <1>2, FS_CardinalityType

\* What a text operation sees: the strings' pointers lead to texts.
LEMMA TextsAt ==
  ASSUME StringInv, NEW s \in Alive
  PROVE  /\ s \in Strings /\ data[s] \in DOMAIN reps \cup {NULLREP}
         /\ data[s] # NONE /\ TextAt(data[s]) \in Texts
         /\ data[s] # NULLREP => data[s] \in DOMAIN reps /\ reps[data[s]] \in Rep
<1> USE StringAssumption
<1>1. s \in Strings /\ data[s] \in DOMAIN reps \cup {NULLREP} /\ data[s] # NONE
  BY DEF StringInv, RepsOwned, Alive
<1>2. \A p \in DOMAIN reps : reps[p] \in Rep
  BY DEF StringInv, StringTypeOK, Rep
<1>3. <<>> \in Texts
  <2>1. <<>> \in [1..0 -> Letters]
    OBVIOUS
  <2> QED BY <2>1 DEF Texts
<1>4. TextAt(data[s]) \in Texts
  BY <1>1, <1>2, <1>3 DEF TextAt, Rep
<1> QED BY <1>1, <1>2, <1>4

\* Where a new representation goes: nowhere, or where none is and nobody
\* points.
LEMMA FreshIsFree ==
  ASSUME StringInv, NEW p \in Fresh
  PROVE  p = NULLREP \/ (p \in RepAddrs /\ p \notin DOMAIN reps /\ Holders(p) = {})
<1>1. p = NULLREP \/ (p \in RepAddrs /\ p \notin DOMAIN reps)
  BY DEF Fresh
<1>2. p \in RepAddrs /\ p \notin DOMAIN reps => Holders(p) = {}
  BY StringAssumption DEF Holders, StringInv, RepsOwned, Alive
<1> QED BY <1>1, <1>2

\* str_set's freeing: the representation that goes is held by its string alone.
LEMMA KeptKeeps ==
  ASSUME StringInv, NEW s \in Alive
  PROVE  /\ DOMAIN Kept(s) \subseteq DOMAIN reps
         /\ \A p \in DOMAIN Kept(s) : Kept(s)[p] = reps[p]
         /\ \A p \in DOMAIN reps \ DOMAIN Kept(s) : Holders(p) = {s}
         /\ \A p \in DOMAIN Kept(s) : p = data[s] => sharing
<1> USE StringAssumption
<1>1. CASE data[s] # NULLREP /\ reps[data[s]].ref <= 0
  <2>1. data[s] \in DOMAIN reps /\ reps[data[s]].ref \in Nat /\ s \in Holders(data[s])
    BY <1>1, TextsAt DEF Rep, Holders
  <2>2. Cardinality(Holders(data[s])) <= 1
    BY <1>1, <2>1, HoldersFinite DEF StringInv, RepsOwned
  <2>3. Holders(data[s]) = {s}
    <3>1. IsFiniteSet(Holders(data[s]) \ {s})
          /\ Cardinality(Holders(data[s]) \ {s}) = Cardinality(Holders(data[s])) - 1
      BY <2>1, HoldersFinite, FS_RemoveElement
    <3>2. Cardinality(Holders(data[s]) \ {s}) = 0
      <4>1. Cardinality(Holders(data[s]) \ {s}) \in Nat
        BY <3>1, FS_CardinalityType
      <4> QED BY <2>2, <3>1, <4>1, HoldersFinite
    <3>3. Holders(data[s]) \ {s} = {}
      BY <3>1, <3>2, FS_EmptySet
    <3> QED BY <2>1, <3>3
  <2> QED BY <1>1, <2>1, <2>3 DEF Kept, Restrict
<1>2. CASE ~(data[s] # NULLREP /\ reps[data[s]].ref <= 0)
  <2>1. Kept(s) = reps
    BY <1>2 DEF Kept
  <2>2. \A p \in DOMAIN reps : p = data[s] => sharing
    BY <1>2, TextsAt DEF StringInv, StringTypeOK, Unshared, Rep
  <2> QED BY <2>1, <2>2
<1> QED BY <1>1, <1>2

\* A constructor's or an assignment's outcome.
Rewritten(s, text, p, kept) ==
  /\ reps' = StrNew(text, p, kept)
  /\ data' = [data EXCEPT ![s] = p]
  /\ sharing' = sharing

\* What is left of the heap for the new representation to be added to.
Leaves(kept, s) ==
  /\ DOMAIN kept \subseteq DOMAIN reps
  /\ \A p \in DOMAIN kept : kept[p] = reps[p]
  /\ \A p \in DOMAIN reps \ DOMAIN kept : Holders(p) = {s}
  /\ \A p \in DOMAIN kept : p = data[s] => sharing

\* The others keep their texts; s has the new one, or none for want of memory.
OnlyChanges(s, text) ==
  /\ \A t \in Strings \ {s} : /\ data'[t] = data[t]
                              /\ data[t] # NONE => TextAt(data[t])' = TextAt(data[t])
  /\ data'[s] # NONE /\ TextAt(data[s])' \in {text, <<>>}

LEMMA RewrittenPreserves ==
  ASSUME StringInv, NEW s \in Strings, NEW text \in Texts, NEW p \in Fresh, NEW kept,
         Leaves(kept, s), Rewritten(s, text, p, kept)
  PROVE  StringInv' /\ OnlyChanges(s, text)
<1> USE StringAssumption
<1>1. p = NULLREP \/ (p \in RepAddrs /\ p \notin DOMAIN reps /\ Holders(p) = {})
  BY FreshIsFree
<1>2. /\ data \in [Strings -> RepAddrs \cup {NULLREP, NONE}] /\ DOMAIN reps \subseteq RepAddrs
      /\ \A q \in DOMAIN reps : reps[q] \in Rep
      /\ sharing \in BOOLEAN /\ NULLREP \notin DOMAIN reps /\ NONE \notin DOMAIN reps
  BY DEF StringInv, StringTypeOK, Rep
<1>3. /\ data' \in [Strings -> RepAddrs \cup {NULLREP, NONE}]
      /\ data'[s] = p /\ \A t \in Strings \ {s} : data'[t] = data[t]
  BY <1>1, <1>2 DEF Rewritten
<1>4. /\ DOMAIN kept \subseteq DOMAIN reps /\ \A q \in DOMAIN kept : kept[q] = reps[q]
      /\ DOMAIN reps' = DOMAIN kept \cup ({p} \ {NULLREP})
      /\ \A q \in DOMAIN kept : reps'[q] = reps[q]
      /\ p # NULLREP => reps'[p] = [text |-> text, ref |-> 0]
  BY <1>1, <1>2 DEF Rewritten, StrNew, Leaves
<1>5. [text |-> text, ref |-> 0] \in Rep
  BY DEF Rep
<1>6. StringTypeOK'
  BY <1>1, <1>2, <1>3, <1>4, <1>5 DEF StringTypeOK, Rep, Rewritten
<1>7. /\ \A q \in DOMAIN kept : Holders(q)' = Holders(q) \ {s}
      /\ p # NULLREP => Holders(p)' = {s}
  BY <1>1, <1>2, <1>3, <1>4 DEF Holders
<1>8. \A t \in Strings \ {s} : data[t] # NONE => data[t] \in DOMAIN kept \cup {NULLREP}
  BY DEF StringInv, RepsOwned, Alive, Leaves, Holders
<1>9. RepsOwned'
  <2>1. \A t \in Alive' : data'[t] \in DOMAIN reps' \cup {NULLREP}
    BY <1>3, <1>4, <1>8 DEF Alive
  <2>2. \A q \in DOMAIN kept : Cardinality(Holders(q)') <= reps'[q].ref + 1
    <3> SUFFICES ASSUME NEW q \in DOMAIN kept
                 PROVE  Cardinality(Holders(q)') <= reps'[q].ref + 1
      OBVIOUS
    <3>1. Cardinality(Holders(q)) <= reps[q].ref + 1 /\ reps[q].ref \in Nat
      BY <1>2, <1>4 DEF StringInv, RepsOwned, Rep
    <3>2. IsFiniteSet(Holders(q)) /\ Holders(q) \ {s} \in SUBSET Holders(q)
      BY HoldersFinite
    <3>3. Cardinality(Holders(q) \ {s}) <= Cardinality(Holders(q))
          /\ Cardinality(Holders(q) \ {s}) \in Nat /\ Cardinality(Holders(q)) \in Nat
      BY <3>2, FS_Subset, FS_CardinalityType
    <3>4. Cardinality(Holders(q)') = Cardinality(Holders(q) \ {s})
      BY <1>7
    <3>5. reps'[q].ref = reps[q].ref
      BY <1>4
    <3> QED BY <3>1, <3>3, <3>4, <3>5
  <2>3. p # NULLREP => Cardinality(Holders(p)') <= reps'[p].ref + 1
    <3>1. Cardinality({s}) = 1
      BY FS_Singleton
    <3>2. p # NULLREP => reps'[p].ref = 0
      BY <1>4
    <3>3. p # NULLREP => Cardinality(Holders(p)') = 1
      <4> SUFFICES ASSUME p # NULLREP  PROVE Cardinality(Holders(p)') = 1
        OBVIOUS
      <4>1. Holders(p)' = {s}
        BY <1>7
      <4> QED BY <3>1, <4>1
    <3> QED BY <3>2, <3>3
  <2>4. sharing' \/ \A q \in DOMAIN reps' : Holders(q)' # {}
    <3> SUFFICES ASSUME ~sharing, NEW q \in DOMAIN kept  PROVE Holders(q)' # {}
      BY <1>4, <1>7 DEF Rewritten
    <3>1. Holders(q) # {} /\ s \notin Holders(q)
      BY <1>4 DEF StringInv, RepsOwned, Leaves, Holders
    <3> QED BY <1>7, <3>1
  <2> QED BY <1>4, <2>1, <2>2, <2>3, <2>4 DEF RepsOwned
<1>10. Unshared'
  BY <1>4 DEF StringInv, Unshared, Rewritten
<1>11. OnlyChanges(s, text)
  <2>1. \A t \in Strings \ {s} : data[t] # NONE => TextAt(data[t])' = TextAt(data[t])
    BY <1>2, <1>3, <1>4, <1>8 DEF TextAt
  <2>2. data'[s] # NONE /\ TextAt(data[s])' \in {text, <<>>}
    BY <1>1, <1>3, <1>4 DEF TextAt
  <2> QED BY <1>3, <2>1, <2>2 DEF OnlyChanges
<1> QED BY <1>6, <1>9, <1>10, <1>11 DEF StringInv

LEMMA ConstructPreserves ==
  ASSUME StringInv, NEW s \in Strings, NEW text, Construct(s, text)
  PROVE  StringInv' /\ data[s] = NONE /\ text \in Texts /\ OnlyChanges(s, text)
<1>1. Leaves(reps, s)
  BY StringAssumption DEF Leaves, Construct, StringInv, StringTypeOK
<1>2. PICK p \in Fresh : Rewritten(s, text, p, reps)
  BY DEF Construct, Rewritten
<1> QED BY <1>1, <1>2, RewrittenPreserves DEF Construct

LEMMA ReplaceTextPreserves ==
  ASSUME StringInv, NEW s \in Strings, NEW text, ReplaceText(s, text)
  PROVE  StringInv' /\ s \in Alive /\ text \in Texts /\ OnlyChanges(s, text)
<1>1. Leaves(Kept(s), s)
  BY KeptKeeps DEF Leaves, ReplaceText
<1>2. PICK p \in Fresh : Rewritten(s, text, p, Kept(s))
  BY DEF ReplaceText, Rewritten
<1> QED BY <1>1, <1>2, RewrittenPreserves DEF ReplaceText

\* The guest's inlined destructor: the last to let go frees, and no one before.
LEMMA DisposePreserves ==
  ASSUME StringInv, NEW s \in Strings, Dispose(s)
  PROVE  /\ StringInv' /\ s \in Alive /\ data'[s] = NONE
         /\ \A t \in Strings \ {s} : /\ data'[t] = data[t]
                                     /\ data[t] # NONE => TextAt(data[t])' = TextAt(data[t])
<1> USE StringAssumption
<1>0. s \in Alive /\ data[s] # NULLREP
  BY DEF Dispose
<1>1. PICK p \in DOMAIN reps : p = data[s]
  BY <1>0, TextsAt
<1>2. /\ data \in [Strings -> RepAddrs \cup {NULLREP, NONE}] /\ DOMAIN reps \subseteq RepAddrs
      /\ \A q \in DOMAIN reps : reps[q] \in Rep
      /\ sharing \in BOOLEAN /\ NULLREP \notin DOMAIN reps /\ NONE \notin DOMAIN reps
  BY DEF StringInv, StringTypeOK, Rep
<1>3. /\ data' \in [Strings -> RepAddrs \cup {NULLREP, NONE}] /\ sharing' = sharing
      /\ data'[s] = NONE /\ \A t \in Strings \ {s} : data'[t] = data[t]
  BY <1>2 DEF Dispose
<1>4. \A q \in DOMAIN reps : Holders(q)' = Holders(q) \ {s}
  BY <1>2, <1>3 DEF Holders
<1>5. s \in Holders(p) /\ \A q \in DOMAIN reps : q # p => s \notin Holders(q)
  BY <1>1 DEF Holders
<1>6. \A q \in DOMAIN reps : q # p => Holders(q)' = Holders(q)
  BY <1>4, <1>5
<1>7. /\ IsFiniteSet(Holders(p) \ {s}) /\ Cardinality(Holders(p) \ {s}) \in Nat
      /\ Cardinality(Holders(p) \ {s}) = Cardinality(Holders(p)) - 1
  BY <1>5, HoldersFinite, FS_RemoveElement, FS_CardinalityType
<1>8. /\ reps[p].ref \in Nat /\ reps[p].ref <= MaxShared /\ reps[p].text \in Texts
      /\ Cardinality(Holders(p)) <= reps[p].ref + 1 /\ Cardinality(Holders(p)) \in Nat
  BY <1>2, HoldersFinite DEF StringInv, RepsOwned, Rep
<1>9. \A q \in DOMAIN reps : q # p =>
        /\ Cardinality(Holders(q)') <= reps[q].ref + 1
        /\ sharing \/ Holders(q)' # {}
  <2> SUFFICES ASSUME NEW q \in DOMAIN reps, q # p
               PROVE  /\ Cardinality(Holders(q)') <= reps[q].ref + 1
                      /\ sharing \/ Holders(q)' # {}
    OBVIOUS
  <2>1. Holders(q)' = Holders(q)
    BY <1>6
  <2> QED BY <2>1 DEF StringInv, RepsOwned
<1>10. \A t \in Strings \ {s} : data[t] # NONE => data[t] \in DOMAIN reps \cup {NULLREP}
  BY DEF StringInv, RepsOwned, Alive
<1>11. CASE reps[p].ref <= 0
  <2>1. DOMAIN reps' = DOMAIN reps \ {p} /\ \A q \in DOMAIN reps' : reps'[q] = reps[q]
    BY <1>1, <1>11 DEF Dispose, Restrict
  <2>2. Holders(p) \ {s} = {}
    <3>1. Cardinality(Holders(p) \ {s}) = 0
      BY <1>7, <1>8, <1>11
    <3> QED BY <1>7, <3>1, FS_EmptySet
  <2>3. StringTypeOK'
    BY <1>2, <1>3, <2>1 DEF StringTypeOK, Rep
  <2>4. \A t \in Strings \ {s} : data[t] # p
    BY <2>2 DEF Holders
  <2>5. RepsOwned'
    BY <1>3, <1>9, <1>10, <2>1, <2>4 DEF RepsOwned, Alive
  <2>6. Unshared'
    BY <1>3, <2>1 DEF StringInv, Unshared
  <2>7. \A t \in Strings \ {s} : data[t] # NONE => TextAt(data[t])' = TextAt(data[t])
    BY <1>3, <1>10, <2>1, <2>4 DEF TextAt
  <2> QED BY <1>0, <1>3, <2>3, <2>5, <2>6, <2>7 DEF StringInv
<1>12. CASE ~(reps[p].ref <= 0)
  <2>1. reps' = [reps EXCEPT ![p].ref = @ - 1]
    BY <1>1, <1>12 DEF Dispose
  <2>2. /\ DOMAIN reps' = DOMAIN reps /\ \A q \in DOMAIN reps : q # p => reps'[q] = reps[q]
        /\ reps'[p] \in Rep /\ reps'[p].ref = reps[p].ref - 1 /\ reps'[p].text = reps[p].text
    <3>1. reps[p] \in Rep /\ reps[p].ref - 1 \in 0..MaxShared
      BY <1>2, <1>8, <1>12
    <3>2. reps'[p] = [reps[p] EXCEPT !.ref = @ - 1]
      BY <2>1
    <3>3. DOMAIN reps' = DOMAIN reps /\ \A q \in DOMAIN reps : q # p => reps'[q] = reps[q]
      BY <2>1
    <3> QED BY <3>1, <3>2, <3>3 DEF Rep
  <2>3. StringTypeOK'
    BY <1>2, <1>3, <2>2 DEF StringTypeOK, Rep
  <2>4. Cardinality(Holders(p)') <= reps'[p].ref + 1
    <3>1. Cardinality(Holders(p)') = Cardinality(Holders(p) \ {s})
      BY <1>4
    <3> QED BY <1>7, <1>8, <2>2, <3>1
  <2>5. sharing
    BY <1>8, <1>12 DEF StringInv, Unshared
  <2>6. RepsOwned'
    BY <1>3, <1>9, <1>10, <2>2, <2>4, <2>5 DEF RepsOwned, Alive
  <2>7. Unshared'
    BY <1>3, <2>5 DEF Unshared
  <2>8. \A t \in Strings \ {s} : data[t] # NONE => TextAt(data[t])' = TextAt(data[t])
    BY <1>3, <1>10, <2>2 DEF TextAt
  <2> QED BY <1>0, <1>3, <2>3, <2>6, <2>7, <2>8 DEF StringInv
<1> QED BY <1>11, <1>12

\* The guest's own reference.
LEMMA SharePreserves ==
  ASSUME StringInv, NEW s \in Strings, NEW t \in Strings, Share(s, t)
  PROVE  /\ StringInv' /\ data[s] = NONE /\ t \in Alive
         /\ OnlyChanges(s, TextAt(data[t]))
<1> USE StringAssumption
<1>0. data[s] = NONE /\ t \in Alive /\ data[t] # NULLREP /\ sharing
  BY DEF Share
<1>1. PICK p \in DOMAIN reps : p = data[t]
  BY <1>0, TextsAt
<1>2. /\ data \in [Strings -> RepAddrs \cup {NULLREP, NONE}] /\ DOMAIN reps \subseteq RepAddrs
      /\ \A q \in DOMAIN reps : reps[q] \in Rep
      /\ sharing \in BOOLEAN /\ NULLREP \notin DOMAIN reps /\ NONE \notin DOMAIN reps
  BY DEF StringInv, StringTypeOK, Rep
<1>3. /\ data' \in [Strings -> RepAddrs \cup {NULLREP, NONE}] /\ sharing' = sharing
      /\ data'[s] = p /\ \A u \in Strings \ {s} : data'[u] = data[u]
  BY <1>1, <1>2 DEF Share
<1>4. /\ Holders(p)' = Holders(p) \cup {s}
      /\ \A q \in DOMAIN reps : q # p => Holders(q)' = Holders(q)
  BY <1>0, <1>2, <1>3 DEF Holders
<1>5. reps' = [reps EXCEPT ![p].ref = @ + 1] /\ reps[p].ref < MaxShared
  BY <1>1 DEF Share
<1>6. /\ DOMAIN reps' = DOMAIN reps /\ \A q \in DOMAIN reps : q # p => reps'[q] = reps[q]
      /\ reps'[p] \in Rep /\ reps'[p].ref = reps[p].ref + 1 /\ reps'[p].text = reps[p].text
  <2>1. reps[p] \in Rep /\ reps[p].ref + 1 \in 0..MaxShared
    BY <1>2, <1>5 DEF Rep
  <2>2. reps'[p] = [reps[p] EXCEPT !.ref = @ + 1]
    BY <1>5
  <2>3. DOMAIN reps' = DOMAIN reps /\ \A q \in DOMAIN reps : q # p => reps'[q] = reps[q]
    BY <1>5
  <2> QED BY <2>1, <2>2, <2>3 DEF Rep
<1>7. StringTypeOK'
  BY <1>2, <1>3, <1>6 DEF StringTypeOK, Rep
<1>8. Cardinality(Holders(p)') <= reps'[p].ref + 1
  <2>1. Cardinality(Holders(p) \cup {s}) <= Cardinality(Holders(p)) + 1
    <3>1. IsFiniteSet(Holders(p)) /\ Cardinality(Holders(p)) \in Nat
      BY HoldersFinite
    <3>2. Cardinality(Holders(p) \cup {s}) =
            IF s \in Holders(p) THEN Cardinality(Holders(p)) ELSE Cardinality(Holders(p)) + 1
      BY <3>1, FS_AddElement
    <3> QED BY <3>1, <3>2
  <2>2. Cardinality(Holders(p)') = Cardinality(Holders(p) \cup {s})
    BY <1>4
  <2>3. Cardinality(Holders(p)) <= reps[p].ref + 1 /\ reps[p].ref \in Nat
    BY <1>2 DEF StringInv, RepsOwned, Rep
  <2>4. Cardinality(Holders(p) \cup {s}) \in Nat /\ Cardinality(Holders(p)) \in Nat
    BY HoldersFinite, FS_AddElement, FS_CardinalityType
  <2> QED BY <1>6, <2>1, <2>2, <2>3, <2>4
<1>9. \A q \in DOMAIN reps : q # p => Cardinality(Holders(q)') <= reps[q].ref + 1
  <2> SUFFICES ASSUME NEW q \in DOMAIN reps, q # p
               PROVE  Cardinality(Holders(q)') <= reps[q].ref + 1
    OBVIOUS
  <2>1. Holders(q)' = Holders(q)
    BY <1>4
  <2> QED BY <2>1 DEF StringInv, RepsOwned
<1>10. \A u \in Strings : data[u] # NONE => data[u] \in DOMAIN reps \cup {NULLREP}
  BY DEF StringInv, RepsOwned, Alive
<1>11. RepsOwned'
  BY <1>0, <1>3, <1>6, <1>8, <1>9, <1>10 DEF RepsOwned, Alive
<1>12. Unshared'
  BY <1>0, <1>3 DEF Unshared
<1>13. OnlyChanges(s, TextAt(data[t]))
  <2>1. \A u \in Strings \ {s} : data[u] # NONE => TextAt(data[u])' = TextAt(data[u])
    BY <1>3, <1>6, <1>10 DEF TextAt
  <2>2. TextAt(data[s])' = TextAt(data[t]) /\ data'[s] # NONE
    BY <1>1, <1>2, <1>3, <1>6 DEF TextAt
  <2> QED BY <1>3, <2>1, <2>2 DEF OnlyChanges
<1> QED BY <1>0, <1>7, <1>11, <1>12, <1>13 DEF StringInv

\* Writing in place: in a game that does not share, one string sees it.
LEMMA PokePreserves ==
  ASSUME StringInv, NEW s \in Strings, NEW i \in 1..MaxText, NEW x \in Letters, Poke(s, i, x)
  PROVE  /\ StringInv' /\ s \in Alive /\ i \in DOMAIN TextAt(data[s])
         /\ [TextAt(data[s]) EXCEPT ![i] = x] \in Texts
         /\ OnlyChanges(s, [TextAt(data[s]) EXCEPT ![i] = x])
<1> USE StringAssumption
<1>0. s \in Alive /\ data[s] # NULLREP /\ ~sharing /\ i \in DOMAIN TextAt(data[s])
  BY DEF Poke
<1>1. PICK p \in DOMAIN reps : p = data[s]
  BY <1>0, TextsAt
<1>2. /\ data \in [Strings -> RepAddrs \cup {NULLREP, NONE}] /\ DOMAIN reps \subseteq RepAddrs
      /\ \A q \in DOMAIN reps : reps[q] \in Rep
      /\ sharing \in BOOLEAN /\ NULLREP \notin DOMAIN reps /\ NONE \notin DOMAIN reps
  BY DEF StringInv, StringTypeOK, Rep
<1>3. data' = data /\ sharing' = sharing /\ reps' = [reps EXCEPT ![p].text[i] = x]
  BY <1>1 DEF Poke
<1> DEFINE text == [reps[p].text EXCEPT ![i] = x]
<1>4. text \in Texts
  <2>1. PICK n \in 0..MaxText : reps[p].text \in [1..n -> Letters]
    BY <1>2 DEF Rep, Texts
  <2>2. text \in [1..n -> Letters]
    BY <2>1
  <2> QED BY <2>2 DEF Texts
<1>5. /\ DOMAIN reps' = DOMAIN reps /\ \A q \in DOMAIN reps : q # p => reps'[q] = reps[q]
      /\ reps'[p] = [text |-> text, ref |-> reps[p].ref]
  <2>1. reps'[p] = [reps[p] EXCEPT !.text = text]
    BY <1>3
  <2>2. reps[p] = [text |-> reps[p].text, ref |-> reps[p].ref]
    BY <1>2 DEF Rep
  <2>3. DOMAIN reps' = DOMAIN reps /\ \A q \in DOMAIN reps : q # p => reps'[q] = reps[q]
    BY <1>3
  <2> HIDE DEF text
  <2> QED BY <2>1, <2>2, <2>3
<1>6. TextAt(data[s]) = reps[p].text
  BY <1>1, <1>2 DEF TextAt
<1> HIDE DEF text
<1>7. reps'[p].text = text /\ reps'[p].ref = reps[p].ref /\ reps'[p] \in Rep
  BY <1>2, <1>4, <1>5 DEF Rep
<1>8. StringTypeOK'
  BY <1>2, <1>3, <1>5, <1>7 DEF StringTypeOK, Rep
<1>9. \A q \in DOMAIN reps : reps'[q].ref = reps[q].ref /\ Holders(q)' = Holders(q)
  BY <1>3, <1>5, <1>7 DEF Holders
<1>10. RepsOwned'
  <2>1. \A q \in DOMAIN reps : Cardinality(Holders(q)') <= reps'[q].ref + 1
    <3> SUFFICES ASSUME NEW q \in DOMAIN reps
                 PROVE  Cardinality(Holders(q)') <= reps'[q].ref + 1
      OBVIOUS
    <3>1. Holders(q)' = Holders(q) /\ reps'[q].ref = reps[q].ref
      BY <1>9
    <3> QED BY <3>1 DEF StringInv, RepsOwned
  <2> QED BY <1>3, <1>5, <1>9, <2>1 DEF StringInv, RepsOwned, Alive
<1>11. Unshared'
  BY <1>3, <1>5, <1>9 DEF StringInv, Unshared
<1>12. \A t \in Strings \ {s} : data[t] # p
  <2>1. reps[p].ref = 0
    BY <1>0 DEF StringInv, Unshared
  <2>2. \A q \in DOMAIN reps \ DOMAIN Kept(s) : Holders(q) = {s}
    BY <1>0, KeptKeeps
  <2>3. p \notin DOMAIN Kept(s)
    BY <1>0, <1>1, KeptKeeps
  <2> QED BY <2>2, <2>3 DEF Holders
<1>13. OnlyChanges(s, text)
  <2>1. \A t \in Strings : data[t] # NONE => data[t] \in DOMAIN reps \cup {NULLREP}
    BY DEF StringInv, RepsOwned, Alive
  <2>2. \A t \in Strings \ {s} : data[t] # NONE => TextAt(data[t])' = TextAt(data[t])
    BY <1>3, <1>5, <1>12, <2>1 DEF TextAt
  <2>3. TextAt(data[s])' = text /\ data'[s] # NONE
    BY <1>1, <1>2, <1>3, <1>7 DEF TextAt
  <2> QED BY <1>3, <2>2, <2>3 DEF OnlyChanges
<1>14. text = [TextAt(data[s]) EXCEPT ![i] = x]
  BY <1>6 DEF text
<1> QED BY <1>0, <1>4, <1>8, <1>10, <1>11, <1>13, <1>14 DEF StringInv

LEMMA StringInvNext == StringInv /\ [StringNext]_stringVars => StringInv'
<1> SUFFICES ASSUME StringInv, [StringNext]_stringVars  PROVE StringInv'
  OBVIOUS
<1>1. CASE UNCHANGED stringVars
  BY <1>1 DEF StringInv, StringTypeOK, RepsOwned, Unshared, Alive, Holders, stringVars
<1>2. ASSUME NEW s \in Strings, NEW text, AppendCstr(s, text) \/ AssignCstr(s, text)
      PROVE  StringInv'
  BY <1>2, ReplaceTextPreserves DEF AppendCstr, AssignCstr
<1>3. ASSUME NEW s \in Strings, NEW text \in Literals,
             CtorCstr(s, text) \/ \E pos, n \in 0..MaxText : Replace(s, pos, n, text)
      PROVE  StringInv'
  BY <1>3, ConstructPreserves, ReplaceTextPreserves DEF CtorCstr, Replace
<1>4. ASSUME NEW s \in Strings, NEW t \in Strings, CtorCopy(s, t) \/ Share(s, t)
      PROVE  StringInv'
  BY <1>4, ConstructPreserves, SharePreserves DEF CtorCopy
<1>5. ASSUME NEW s \in Strings, NEW t \in Strings, AppendStr(s, t) \/ AssignStr(s, t)
      PROVE  StringInv'
  BY <1>2, <1>5, ReplaceTextPreserves DEF AppendStr, AssignStr
<1>6. ASSUME NEW s \in Strings, NEW t \in Strings, NEW pos \in 0..MaxText, NEW n \in 0..MaxText,
             CtorSubstr(s, t, pos, n) \/ AppendInside(s, t, pos, n)
      PROVE  StringInv'
  BY <1>2, <1>6, ConstructPreserves DEF CtorSubstr, AppendInside
<1> QED BY <1>1, <1>2, <1>3, <1>4, <1>5, <1>6, PokePreserves, DisposePreserves DEF StringNext

LEMMA StringInvInit == StringInit => StringInv
BY DEF StringInit, StringInv, StringTypeOK, RepsOwned, Unshared, Alive

\* Nobody points at a representation that was freed, a representation is held
\* by no more strings than it counts, and in a game that takes no references
\* of its own every representation has a string that will free it.
THEOREM RepsStayOwned == StringSpec => []RepsOwned
<1>1. StringInv => RepsOwned
  BY DEF StringInv
<1> QED BY <1>1, StringInvInit, StringInvNext, PTL DEF StringSpec

----------------------------------------------------------------------------
\* What the guest sees of the strings.
Value == [s \in Strings |-> IF data[s] = NONE THEN NONE ELSE TextAt(data[s])]

LEMMA ValueIs ==
  ASSUME StringInv
  PROVE  /\ \A s \in Strings : data[s] = NONE => Value[s] = NONE
         /\ \A s \in Alive : Value[s] = TextAt(data[s]) /\ Value[s] \in Texts /\ Value[s] # NONE
         /\ Values!Alive = Alive
         /\ 0..MaxText \subseteq Values!Lengths
<1> USE StringAssumption, NoTextIsNone
<1>1. \A s \in Strings : data[s] = NONE => Value[s] = NONE
  BY DEF Value
<1>2. \A s \in Alive : Value[s] = TextAt(data[s]) /\ Value[s] \in Texts /\ Value[s] # NONE
  <2> SUFFICES ASSUME NEW s \in Alive
               PROVE  Value[s] = TextAt(data[s]) /\ Value[s] \in Texts /\ Value[s] # NONE
    OBVIOUS
  <2>1. s \in Strings /\ data[s] # NONE /\ TextAt(data[s]) \in Texts
    BY TextsAt
  <2> QED BY <2>1 DEF Value
<1>3. Values!Alive = Alive
  <2>1. Values!Alive = {s \in Strings : Value[s] # NONE}
    BY DEF Values!Alive, Value
  <2> HIDE DEF Value
  <2> QED BY <1>1, <1>2, <2>1 DEF Alive
<1>4. ASSUME NEW n \in 0..MaxText
      PROVE  n \in Values!Lengths
  <2>1. PICK x \in Letters : TRUE
    OBVIOUS
  <2> DEFINE text == [i \in 1..n |-> x]
  <2>2. text \in [1..n -> Letters]
    OBVIOUS
  <2>3. text \in Texts
    BY <2>2 DEF Texts
  <2>4. Len(text) = n
    OBVIOUS
  <2> QED BY <2>3, <2>4 DEF Values!Lengths
<1> QED BY <1>1, <1>2, <1>3, <1>4

LEMMA TextIsSeq ==
  ASSUME NEW text \in Texts
  PROVE  text \in Seq(Letters) /\ Len(text) \in 0..MaxText
BY StringAssumption DEF Texts

LEMMA EmptyIsText == <<>> \in Texts
<1>1. <<>> \in [1..0 -> Letters] /\ 0 \in 0..MaxText
  BY StringAssumption
<1> QED BY <1>1 DEF Texts

\* A cut piece of a string is a part of it, and so is the whole.
LEMMA PiecesAreParts ==
  ASSUME NEW text \in Texts
  PROVE  /\ \A pos, n \in Nat : Piece(text, Cut(text, pos, n)) = Values!Part(text, pos, n)
         /\ text = Values!Part(text, 0, Len(text))
<1>1. \A pos, n \in Nat : Piece(text, Cut(text, pos, n)) = Values!Part(text, pos, n)
  BY DEF Piece, Cut, Least, Values!Part, Values!Least
<1>2. text \in Seq(Letters) /\ Len(text) \in Nat
  BY TextIsSeq, StringAssumption
<1>3. text = SubSeq(text, 1, Len(text))
  BY <1>2
<1>4. /\ Values!Least(0, Len(text)) = 0 /\ Values!Least(Len(text), Len(text) - 0) = Len(text)
      /\ 0 + 1 = 1 /\ 0 + Len(text) = Len(text)
  BY <1>2 DEF Values!Least
<1> QED BY <1>1, <1>3, <1>4 DEF Values!Part

\* An operation that makes text of s is one the value allows.
LEMMA ChangeIsSet ==
  ASSUME StringInv, NEW s \in Strings, NEW text \in Texts, OnlyChanges(s, text),
         \/ data[s] = NONE /\ Values!Begins(text)
         \/ s \in Alive /\ Values!Follows(s, text)
  PROVE  Values!Set(s)
<1>1. PICK new : new \in {text, <<>>} /\ new = TextAt(data[s])'
  BY DEF OnlyChanges
<1>2. Value' = [Value EXCEPT ![s] = new]
  <2>1. Value' = [t \in Strings |-> IF data'[t] = NONE THEN NONE ELSE TextAt(data[t])']
    BY DEF Value
  <2>2. \A t \in Strings \ {s} :
          (IF data'[t] = NONE THEN NONE ELSE TextAt(data[t])') = Value[t]
    BY DEF Value, OnlyChanges
  <2>3. (IF data'[s] = NONE THEN NONE ELSE TextAt(data[s])') = new
    BY <1>1 DEF OnlyChanges
  <2>4. Value = [t \in Strings |-> Value[t]]
    BY DEF Value
  <2> HIDE DEF Value
  <2> QED BY <2>1, <2>2, <2>3, <2>4
<1>3. new \in Texts
  BY <1>1, EmptyIsText
<1>4. Values!MayBecome(s, new)
  <2>1. \/ Value[s] = NONE /\ Values!Begins(text)
        \/ Value[s] # NONE /\ Values!Follows(s, text)
    BY ValueIs
  <2> QED BY <1>1, <2>1 DEF Values!MayBecome, Value
<1>5. \E t \in Texts : Value' = [Value EXCEPT ![s] = t] /\ Values!MayBecome(s, t)
  <2> HIDE DEF Value
  <2> QED BY <1>2, <1>3, <1>4
<1> QED BY <1>5 DEF Values!Set, Value

\* The texts the handlers begin strings with and make of them, as the value
\* sees them.
LEMMA BeginsWith ==
  ASSUME StringInv
  PROVE  /\ \A l \in Literals : Values!Begins(l)
         /\ \A t \in Alive : Values!Begins(TextAt(data[t]))
         /\ \A t \in Alive : \A pos, n \in 0..MaxText :
              Values!Begins(Piece(TextAt(data[t]), Cut(TextAt(data[t]), pos, n)))
<1>1. /\ Values!Alive = Alive /\ 0..MaxText \subseteq Values!Lengths
      /\ \A t \in Alive : Value[t] = TextAt(data[t]) /\ TextAt(data[t]) \in Texts
  BY ValueIs
<1>2. \A t \in Alive : \A pos, n \in 0..MaxText : Values!Begins(Values!Part(Value[t], pos, n))
  BY <1>1 DEF Values!Begins, Value
<1>3. 0 \in 0..MaxText /\ \A n \in 0..MaxText : n \in Nat
  BY StringAssumption
<1>4. \A t \in Alive : Len(Value[t]) \in 0..MaxText
        /\ Value[t] = Values!Part(Value[t], 0, Len(Value[t]))
        /\ \A pos, n \in 0..MaxText :
             Piece(Value[t], Cut(Value[t], pos, n)) = Values!Part(Value[t], pos, n)
  BY <1>1, <1>3, TextIsSeq, PiecesAreParts
<1> HIDE DEF Value
<1>5. \A t \in Alive : Values!Begins(Value[t])
  BY <1>2, <1>3, <1>4
<1>6. \A t \in Alive : \A pos, n \in 0..MaxText :
        Values!Begins(Piece(Value[t], Cut(Value[t], pos, n)))
  BY <1>2, <1>4
<1>7. \A l \in Literals : Values!Begins(l)
  BY DEF Values!Begins
<1> QED BY <1>1, <1>5, <1>6, <1>7

LEMMA FollowsFrom ==
  ASSUME StringInv, NEW s \in Alive, NEW t \in Alive
  PROVE  LET text == TextAt(data[t])
             own == TextAt(data[s])
         IN  /\ \A l \in Literals : Values!Follows(s, l) /\ Values!Follows(s, own \o l)
             /\ Values!Follows(s, text) /\ Values!Follows(s, own \o text)
             /\ \A pos, n \in 0..MaxText :
                  /\ Values!Follows(s, own \o Piece(text, Cut(text, pos, n)))
                  /\ \A l \in Literals : Values!Follows(s, Values!Spliced(own, pos, n, l))
             /\ \A i \in DOMAIN own, x \in Letters : Values!Follows(s, [own EXCEPT ![i] = x])
<1>1. /\ Values!Alive = Alive /\ 0..MaxText \subseteq Values!Lengths
      /\ Value[t] = TextAt(data[t]) /\ TextAt(data[t]) \in Texts
      /\ Value[s] = TextAt(data[s])
  BY ValueIs
<1>2. /\ \A l \in Literals : Values!Follows(s, l) /\ Values!Follows(s, Value[s] \o l)
      /\ Values!Follows(s, Value[t])
  BY <1>1 DEF Values!Follows, Value
<1>3. \A pos, n \in 0..MaxText :
        /\ Values!Follows(s, Value[s] \o Values!Part(Value[t], pos, n))
        /\ \A l \in Literals : Values!Follows(s, Values!Spliced(Value[s], pos, n, l))
  <2> SUFFICES ASSUME NEW pos \in 0..MaxText, NEW n \in 0..MaxText
               PROVE  /\ Values!Follows(s, Value[s] \o Values!Part(Value[t], pos, n))
                      /\ \A l \in Literals :
                           Values!Follows(s, Values!Spliced(Value[s], pos, n, l))
    OBVIOUS
  <2>1. pos \in Values!Lengths /\ n \in Values!Lengths /\ t \in Values!Alive
    BY <1>1
  <2>2. Values!Follows(s, Value[s] \o Values!Part(Value[t], pos, n))
    BY <2>1, Zenon DEF Values!Follows, Value
  <2>3. \A l \in Literals : Values!Follows(s, Values!Spliced(Value[s], pos, n, l))
    BY <2>1, Zenon DEF Values!Follows, Value
  <2> QED BY <2>2, <2>3
<1>4. \A i \in DOMAIN Value[s], x \in Letters : Values!Follows(s, [Value[s] EXCEPT ![i] = x])
  BY DEF Values!Follows, Value
<1>5. 0 \in 0..MaxText /\ \A n \in 0..MaxText : n \in Nat
  BY StringAssumption
<1>6. /\ Len(Value[t]) \in 0..MaxText /\ Value[t] = Values!Part(Value[t], 0, Len(Value[t]))
      /\ \A pos, n \in 0..MaxText :
           Piece(Value[t], Cut(Value[t], pos, n)) = Values!Part(Value[t], pos, n)
  BY <1>1, <1>5, TextIsSeq, PiecesAreParts
<1> HIDE DEF Value
<1>7. Values!Follows(s, Value[s] \o Value[t])
  BY <1>3, <1>5, <1>6
<1>8. \A pos, n \in 0..MaxText :
        Values!Follows(s, Value[s] \o Piece(Value[t], Cut(Value[t], pos, n)))
  BY <1>3, <1>6
<1> QED BY <1>1, <1>2, <1>3, <1>4, <1>7, <1>8

LEMMA ConstructIsSet ==
  ASSUME StringInv, NEW s \in Strings, NEW text, Construct(s, text), Values!Begins(text)
  PROVE  Values!Set(s)
BY ConstructPreserves, ChangeIsSet

LEMMA ReplaceTextIsSet ==
  ASSUME StringInv, NEW s \in Strings, NEW text, ReplaceText(s, text), Values!Follows(s, text)
  PROVE  Values!Set(s)
BY ReplaceTextPreserves, ChangeIsSet

\* Replace cuts as the value's splice does.
LEMMA SplicedAlike ==
  ASSUME NEW text, NEW pos, NEW n, NEW new
  PROVE  SubSeq(text, 1, Cut(text, pos, n).from) \o new
           \o SubSeq(text, Cut(text, pos, n).from + Cut(text, pos, n).len + 1, Len(text))
         = Values!Spliced(text, pos, n, new)
BY DEF Cut, Least, Values!Spliced, Values!Least

LEMMA DisposeIsDestroy ==
  ASSUME StringInv, NEW s \in Strings, Dispose(s)
  PROVE  Values!Destroy(s)
<1>1. /\ s \in Alive /\ data'[s] = NONE
      /\ \A t \in Strings \ {s} : /\ data'[t] = data[t]
                                  /\ data[t] # NONE => TextAt(data[t])' = TextAt(data[t])
  BY DisposePreserves
<1>2. Value' = [Value EXCEPT ![s] = NONE]
  <2>1. Value' = [t \in Strings |-> IF data'[t] = NONE THEN NONE ELSE TextAt(data[t])']
    BY DEF Value
  <2>2. \A t \in Strings \ {s} :
          (IF data'[t] = NONE THEN NONE ELSE TextAt(data[t])') = Value[t]
    BY <1>1 DEF Value
  <2>3. Value = [t \in Strings |-> Value[t]]
    BY DEF Value
  <2> HIDE DEF Value
  <2> QED BY <1>1, <2>1, <2>2, <2>3
<1>3. s \in Values!Alive
  BY <1>1, ValueIs
<1> QED BY <1>2, <1>3 DEF Values!Destroy, Value

LEMMA StringSteps ==
  ASSUME StringInv, StringNext
  PROVE  Values!ValueNext
<1>1. PICK s \in Strings :
        \/ \E text \in Literals :
             \/ CtorCstr(s, text) \/ AppendCstr(s, text) \/ AssignCstr(s, text)
             \/ \E pos, n \in 0..MaxText : Replace(s, pos, n, text)
        \/ \E t \in Strings :
             \/ CtorCopy(s, t) \/ AppendStr(s, t) \/ AssignStr(s, t) \/ Share(s, t)
             \/ \E pos, n \in 0..MaxText : CtorSubstr(s, t, pos, n) \/ AppendInside(s, t, pos, n)
        \/ \E i \in 1..MaxText, x \in Letters : Poke(s, i, x)
        \/ Dispose(s)
  BY DEF StringNext
<1>2. ASSUME NEW l \in Literals,
             \/ CtorCstr(s, l) \/ AppendCstr(s, l) \/ AssignCstr(s, l)
             \/ \E pos, n \in 0..MaxText : Replace(s, pos, n, l)
      PROVE  Values!Set(s)
  <2>1. CASE CtorCstr(s, l)
    BY <2>1, BeginsWith, ConstructIsSet DEF CtorCstr
  <2>2. CASE AppendCstr(s, l) \/ AssignCstr(s, l)
    <3>1. s \in Alive
      BY <2>2 DEF AppendCstr, AssignCstr, ReplaceText
    <3>2. Values!Follows(s, l) /\ Values!Follows(s, TextAt(data[s]) \o l)
      BY <3>1, FollowsFrom
    <3> QED BY <2>2, <3>2, ReplaceTextIsSet DEF AppendCstr, AssignCstr
  <2>3. ASSUME NEW pos \in 0..MaxText, NEW n \in 0..MaxText, Replace(s, pos, n, l)
        PROVE  Values!Set(s)
    <3>1. s \in Alive /\ ReplaceText(s, Values!Spliced(TextAt(data[s]), pos, n, l))
      BY <2>3, SplicedAlike DEF Replace
    <3>2. Values!Follows(s, Values!Spliced(TextAt(data[s]), pos, n, l))
      BY <3>1, FollowsFrom
    <3> QED BY <3>1, <3>2, ReplaceTextIsSet
  <2> QED BY <1>2, <2>1, <2>2, <2>3
<1>3. ASSUME NEW t \in Strings,
             \/ CtorCopy(s, t) \/ AppendStr(s, t) \/ AssignStr(s, t) \/ Share(s, t)
             \/ \E pos, n \in 0..MaxText : CtorSubstr(s, t, pos, n) \/ AppendInside(s, t, pos, n)
      PROVE  Values!Set(s)
  <2>1. CASE CtorCopy(s, t)
    BY <2>1, BeginsWith, ConstructIsSet DEF CtorCopy
  <2>2. CASE AppendStr(s, t) \/ AssignStr(s, t)
    <3>1. s \in Alive /\ t \in Alive
      BY <2>2 DEF AppendStr, AssignStr, AppendCstr, ReplaceText
    <3>2. /\ Values!Follows(s, TextAt(data[t]))
          /\ Values!Follows(s, TextAt(data[s]) \o TextAt(data[t]))
      BY <3>1, FollowsFrom
    <3> QED BY <2>2, <3>2, ReplaceTextIsSet DEF AppendStr, AssignStr, AppendCstr
  <2>3. CASE Share(s, t)
    <3>1. data[s] = NONE /\ t \in Alive /\ OnlyChanges(s, TextAt(data[t]))
      BY <2>3, SharePreserves
    <3>2. Values!Begins(TextAt(data[t])) /\ TextAt(data[t]) \in Texts
      BY <3>1, BeginsWith, TextsAt
    <3> QED BY <3>1, <3>2, ChangeIsSet
  <2>4. ASSUME NEW pos \in 0..MaxText, NEW n \in 0..MaxText, CtorSubstr(s, t, pos, n)
        PROVE  Values!Set(s)
    BY <2>4, BeginsWith, ConstructIsSet DEF CtorSubstr
  <2>5. ASSUME NEW pos \in 0..MaxText, NEW n \in 0..MaxText, AppendInside(s, t, pos, n)
        PROVE  Values!Set(s)
    <3> DEFINE text == TextAt(data[s]) \o Piece(TextAt(data[t]), Cut(TextAt(data[t]), pos, n))
    <3>1. s \in Alive /\ t \in Alive /\ ReplaceText(s, text)
      BY <2>5 DEF AppendInside, AppendCstr
    <3>2. Values!Follows(s, text)
      BY <3>1, FollowsFrom
    <3> QED BY <3>1, <3>2, ReplaceTextIsSet
  <2> QED BY <1>3, <2>1, <2>2, <2>3, <2>4, <2>5
<1>4. ASSUME NEW i \in 1..MaxText, NEW x \in Letters, Poke(s, i, x)
      PROVE  Values!Set(s)
  <2> DEFINE text == [TextAt(data[s]) EXCEPT ![i] = x]
  <2>1. s \in Alive /\ i \in DOMAIN TextAt(data[s]) /\ text \in Texts /\ OnlyChanges(s, text)
    BY <1>4, PokePreserves
  <2>2. Values!Follows(s, text)
    BY <2>1, FollowsFrom
  <2> QED BY <2>1, <2>2, ChangeIsSet
<1>5. Dispose(s) => Values!Destroy(s)
  BY DisposeIsDestroy
<1> QED BY <1>1, <1>2, <1>3, <1>4, <1>5 DEF Values!ValueNext

\* To the guest each string is a value of its own, whichever mixture of the
\* runtime's handlers and its own inlined code works on it.
THEOREM StringsAreValues == StringSpec => ImplementsValueStrings
<1>1. StringInit => Values!ValueInit
  <2>1. StringInit => Value = [s \in Strings |-> NONE]
    BY DEF StringInit, Value
  <2> QED BY <2>1 DEF Values!ValueInit, Value
<1>2. StringInv /\ [StringNext]_stringVars => [Values!ValueNext]_Value
  <2>1. UNCHANGED stringVars => UNCHANGED Value
    BY DEF stringVars, Value, TextAt
  <2> QED BY <2>1, StringSteps
<1>3. [Values!ValueNext]_Value
        => [Values!ValueNext]_([s \in Strings |-> IF data[s] = NONE THEN NONE ELSE TextAt(data[s])])
  BY DEF Value
<1> QED BY <1>1, <1>2, <1>3, StringInvInit, StringInvNext, PTL
     DEF StringSpec, ImplementsValueStrings, Values!ValueSpec

(***************************************************************************)
(* The trace.  As long as threads keep out of one another's way, the       *)
(* counter is the number of dispatches, less what it wrapped by, and the   *)
(* slot of each of the last TraceN holds it.                               *)
(***************************************************************************)

Rings == [0..(TraceN - 1) -> Targets \cup {EMPTY}]

\* The slots hold the last of what was dispatched to.
Holds(text, slots) ==
  \A m \in 1..Len(text) : m > Len(text) - TraceN => slots[(m - 1) % TraceN] = text[m]

\* Where a thread is in guest_trace_dispatch.
Positions == [step : {"out", "bump", "store", "flush"},
              i : 0..(CounterLimit - 1), va : Targets \cup {EMPTY}]

TraceShape ==
  /\ TraceTypeOK
  /\ history \in [va : Seq(Targets), together : BOOLEAN]
  /\ at \in [TraceThreads -> Positions]
  /\ \A t \in TraceThreads : at[t].step \in {"bump", "store"} => at[t].va \in Targets
  /\ ringFile # NoFile => fileNamed

Dispatched == Len(history.va)

\* Only one thread is in the trace, and how far it has come.
InTurn ==
  /\ \A t, u \in TraceThreads : at[t].step # "out" /\ at[u].step # "out" => t = u
  /\ \A t \in TraceThreads :
       /\ at[t].step = "bump" => at[t].i = count /\ count = Dispatched % CounterLimit
       /\ at[t].step = "store" => /\ at[t].i = Dispatched % CounterLimit
                                  /\ count = (Dispatched + 1) % CounterLimit
       /\ at[t].step = "flush" => count = Dispatched % CounterLimit
  /\ AllOut => count = Dispatched % CounterLimit

\* Dispatches that have been counted towards the next write of the file.
Counted == IF \E t \in TraceThreads : at[t].step = "flush" THEN Dispatched - 1 ELSE Dispatched

\* What the file holds are the dispatches up to its last write.
Filed ==
  /\ fileNamed /\ ringFile = NoFile => sinceFlush = Counted
  /\ ringFile # NoFile =>
       /\ sinceFlush <= Counted
       /\ ringFile.count = (Counted - sinceFlush) % CounterLimit
       /\ ringFile.ring \in Rings
       /\ Holds(UpTo(Counted - sinceFlush), ringFile.ring)

Listed == \A k \in 0..(TraceN - 1) :
            ring[k] \in {EMPTY} \cup {history.va[m] : m \in DOMAIN history.va}

TraceInv ==
  /\ TraceShape /\ Listed
  /\ ~history.together => InTurn /\ Holds(history.va, ring) /\ Filed

----------------------------------------------------------------------------
LEMMA QuotientAndRest ==
  ASSUME NEW n \in Nat \ {0}, NEW x \in Int
  PROVE  \E q \in Int, r \in 0 .. (n - 1) : x = n * q + r /\ r = x % n
BY DivMod

LEMMA NoMultipleBetween ==
  ASSUME NEW n \in Nat \ {0}, NEW d \in Int, n * d < n, -n < n * d
  PROVE  d = 0
<1>1. ~(d >= 1)
  <2> SUFFICES ASSUME d >= 1 PROVE FALSE
    OBVIOUS
  <2>1. n * d >= n * 1
    OBVIOUS
  <2> QED BY <2>1
<1>2. ~(d <= -1)
  <2> SUFFICES ASSUME d <= -1 PROVE FALSE
    OBVIOUS
  <2>1. n * d <= n * (-1)
    OBVIOUS
  <2> QED BY <2>1
<1> QED BY <1>1, <1>2

\* Numbers that differ by less than n and are not equal have other remainders.
LEMMA OtherSlot ==
  ASSUME NEW n \in Nat \ {0}, NEW a \in Nat, NEW b \in Nat, a < b, b < a + n
  PROVE  a % n # b % n
<1>1. PICK p \in Int, r \in 0 .. (n - 1) : a = n * p + r /\ r = a % n
  BY QuotientAndRest, a \in Int, b \in Int
<1>2. PICK q \in Int, s \in 0 .. (n - 1) : b = n * q + s /\ s = b % n
  BY QuotientAndRest, a \in Int, b \in Int
<1> SUFFICES ASSUME r = s PROVE FALSE
  BY <1>1, <1>2
<1>3. n * (q - p) = b - a
  BY <1>1, <1>2
<1>4. q - p = 0
  BY <1>3, NoMultipleBetween
<1> QED BY <1>3, <1>4

LEMMA ShiftedSlot ==
  ASSUME NEW n \in Nat \ {0}, NEW k \in Int, NEW x \in Int
  PROVE  (n * k + x) % n = x % n
<1>1. PICK y \in Int : y = n * k + x
  OBVIOUS
<1>2. PICK p \in Int, r \in 0 .. (n - 1) : y = n * p + r /\ r = y % n
  BY QuotientAndRest
<1>3. PICK q \in Int, s \in 0 .. (n - 1) : x = n * q + s /\ s = x % n
  BY QuotientAndRest
<1>4. n * (p - q - k) = s - r
  <2>1. PICK a \in Int, b \in Int, c \in Int : a = n * p /\ b = n * q /\ c = n * k
    OBVIOUS
  <2>2. n * (p - q - k) = a - b - c
    BY <2>1
  <2>3. y = a + r /\ x = b + s /\ y = c + x
    BY <1>1, <1>2, <1>3, <2>1
  <2> QED BY <2>2, <2>3
<1>5. p - q - k = 0
  BY <1>4, NoMultipleBetween
<1>6. n * (p - q - k) = 0
  BY <1>5
<1>7. y % n = x % n
  BY <1>2, <1>3, <1>4, <1>6
<1> QED BY <1>1, <1>7, Zenon

LEMMA SlotIn ==
  ASSUME NEW n \in Nat \ {0}, NEW a \in Int
  PROVE  a % n \in 0 .. (n - 1)
BY DivMod

\* A remainder by a multiple keeps the remainder, and so what is counted back
\* from it.
LEMMA SameSlot ==
  ASSUME NEW n \in Nat \ {0}, NEW c \in Nat \ {0}, c % n = 0, NEW a \in Nat, NEW e \in Int
  PROVE  ((a % c) + e) % n = (a + e) % n
<1>1. PICK q \in Int, r \in 0 .. (c - 1) : a = c * q + r /\ r = a % c
  BY QuotientAndRest
<1>2. PICK j \in Int : c = n * j
  BY QuotientAndRest
<1>3. a + e = n * (j * q) + (r + e) /\ j * q \in Int
  BY <1>1, <1>2
<1>4. PICK k \in Int, x \in Int : k = j * q /\ x = r + e
  BY <1>1, <1>3
<1>5. (n * k + x) % n = x % n
  BY ShiftedSlot
<1> QED BY <1>1, <1>3, <1>4, <1>5

LEMMA SlotOfRest ==
  ASSUME NEW n \in Nat \ {0}, NEW c \in Nat \ {0}, c % n = 0, NEW a \in Nat
  PROVE  (a % c) % n = a % n
<1>1. PICK e \in Int : e = 0
  OBVIOUS
<1>2. ((a % c) + e) % n = (a + e) % n
  BY SameSlot
<1>3. (a % c) + e = a % c /\ a + e = a
  BY <1>1, SlotIn, a \in Int
<1> QED BY <1>2, <1>3

LEMMA RestAndOne ==
  ASSUME NEW c \in Nat \ {0}, NEW a \in Nat
  PROVE  ((a % c) + 1) % c = (a + 1) % c
<1>1. PICK q \in Int, r \in 0 .. (c - 1) : a = c * q + r /\ r = a % c
  BY QuotientAndRest, a \in Int
<1>2. (c * q + (r + 1)) % c = (r + 1) % c
  BY ShiftedSlot, r + 1 \in Int
<1> QED BY <1>1, <1>2

LEMMA StoreHolds ==
  ASSUME TraceAssumption, NEW text \in Seq(Targets), NEW slots \in Rings, NEW va \in Targets,
         Holds(text, slots)
  PROVE  Holds(Append(text, va), [slots EXCEPT ![Len(text) % TraceN] = va])
<1> DEFINE more == [slots EXCEPT ![Len(text) % TraceN] = va]
<1>1. /\ TraceN \in Nat \ {0} /\ Len(text) \in Nat /\ Append(text, va) \in Seq(Targets)
      /\ Len(Append(text, va)) = Len(text) + 1
  BY DEF TraceAssumption
<1>2. Len(text) % TraceN \in 0 .. (TraceN - 1)
  BY <1>1, SlotIn
<1> SUFFICES ASSUME NEW m \in 1..Len(text) + 1, m > Len(text) + 1 - TraceN
             PROVE  more[(m - 1) % TraceN] = Append(text, va)[m]
  BY <1>1 DEF Holds
<1>3. CASE m = Len(text) + 1
  BY <1>1, <1>2, <1>3 DEF Rings
<1>4. CASE m # Len(text) + 1
  <2>1. m \in 1..Len(text) /\ m - 1 \in Nat /\ m - 1 < Len(text) /\ Len(text) < m - 1 + TraceN
    BY <1>1, <1>4
  <2>2. (m - 1) % TraceN # Len(text) % TraceN /\ (m - 1) % TraceN \in 0 .. (TraceN - 1)
    <3>1. PICK a \in Nat, b \in Nat : a = m - 1 /\ b = Len(text) /\ a < b /\ b < a + TraceN
      BY <1>1, <2>1
    <3>2. TraceN \in Nat \ {0}
      BY <1>1
    <3>3. a % TraceN # b % TraceN
      BY <3>1, <3>2, OtherSlot
    <3>4. a % TraceN \in 0 .. (TraceN - 1)
      BY <3>2, SlotIn, a \in Int
    <3> QED BY <3>1, <3>3, <3>4
  <2>3. more[(m - 1) % TraceN] = slots[(m - 1) % TraceN]
    BY <2>2 DEF Rings
  <2>4. slots[(m - 1) % TraceN] = text[m]
    BY <1>1, <2>1 DEF Holds
  <2> QED BY <2>1, <2>3, <2>4
<1> QED BY <1>3, <1>4

\* What a report makes of a ring that holds a text: the end of the text.
LEMMA ReportEnds ==
  ASSUME TraceAssumption, NEW text \in Seq(Targets), NEW slots \in Rings, Holds(text, slots)
  PROVE  EndsWith(text, Report(Len(text) % CounterLimit, slots))
<1> DEFINE i == Len(text) % CounterLimit
           n == IF i < TraceN THEN i ELSE TraceN
           tail == Report(i, slots)
<1>1. /\ TraceN \in Nat \ {0} /\ CounterLimit \in Nat \ {0} /\ CounterLimit % TraceN = 0
      /\ Len(text) \in Nat
  BY DEF TraceAssumption
<1>2. i \in Nat /\ i <= Len(text)
  <2>1. /\ Len(text) = CounterLimit * (Len(text) \div CounterLimit) + i
        /\ i \in 0 .. (CounterLimit - 1) /\ Len(text) \div CounterLimit \in Int
    BY <1>1, DivMod
  <2>2. Len(text) \div CounterLimit >= 0
    <3> DEFINE q == Len(text) \div CounterLimit
    <3> HIDE DEF q, i
    <3> SUFFICES ASSUME q <= -1 PROVE FALSE
      BY <2>1 DEF q
    <3>1. CounterLimit * q <= CounterLimit * (-1)
      BY <1>1, <2>1 DEF q
    <3> QED BY <1>1, <2>1, <3>1 DEF q
  <2>3. CounterLimit * (Len(text) \div CounterLimit) >= 0
    BY <1>1, <2>1, <2>2
  <2> QED BY <1>1, <2>1, <2>3
<1>3. n \in Nat /\ n <= i /\ n <= TraceN
  BY <1>1, <1>2
<1>4. tail = [k \in 1..n |-> slots[(i - n + k - 1) % TraceN]]
  BY DEF Report
<1> HIDE DEF i, n, tail
<1>5. ASSUME NEW k \in 1..n PROVE slots[(i - n + k - 1) % TraceN] = text[Len(text) - n + k]
  <2>1. PICK e \in Int, m \in Int : e = k - n - 1 /\ m = Len(text) - n + k
    BY <1>1, <1>3
  <2>2. (i + e) % TraceN = (Len(text) + e) % TraceN
    BY <1>1, SameSlot DEF i
  <2>3. i - n + k - 1 = i + e /\ m - 1 = Len(text) + e
    BY <1>1, <1>2, <1>3, <2>1
  <2>4. m \in 1..Len(text) /\ m > Len(text) - TraceN
    BY <1>1, <1>2, <1>3, <2>1
  <2>5. slots[(m - 1) % TraceN] = text[m]
    BY <2>4 DEF Holds
  <2> QED BY <2>1, <2>2, <2>3, <2>5
<1>6. tail = [k \in 1..n |-> text[Len(text) - n + k]]
  BY <1>4, <1>5
<1>7. tail \in Seq(Targets) /\ Len(tail) = n
  <2>1. \A k \in 1..n : text[Len(text) - n + k] \in Targets
    BY <1>1, <1>2, <1>3
  <2> QED BY <1>3, <1>6, <2>1
<1>8. tail = SubSeq(text, Len(text) - n + 1, Len(text))
  <2> DEFINE sub == SubSeq(text, Len(text) - n + 1, Len(text))
  <2>1. sub \in Seq(Targets) /\ Len(sub) = n
    BY <1>1, <1>2, <1>3
  <2>2. \A k \in 1..n : sub[k] = text[Len(text) - n + k]
    BY <1>1, <1>2, <1>3
  <2> QED BY <1>3, <1>6, <1>7, <2>1, <2>2
<1> QED BY <1>1, <1>2, <1>3, <1>7, <1>8 DEF EndsWith, tail, i

----------------------------------------------------------------------------
LEMMA AppendIsSeq ==
  ASSUME NEW S, NEW s \in Seq(S), NEW e \in S
  PROVE  Append(s, e) \in Seq(S)
OBVIOUS

LEMMA TraceStarts == TraceAssumption /\ TraceInit => TraceInv
<1> SUFFICES ASSUME TraceAssumption, TraceInit PROVE TraceInv
  OBVIOUS
<1>1. /\ TraceN \in Nat \ {0} /\ CounterLimit \in Nat \ {0} /\ Every \in Nat \ {0}
      /\ history.va = <<>> /\ Dispatched = 0 /\ count = 0 /\ sinceFlush = 0
      /\ \A t \in TraceThreads : at[t] = Out
      /\ ringFile = NoFile
  BY DEF TraceAssumption, TraceInit, Dispatched
<1>2. TraceShape
  BY <1>1 DEF TraceShape, Positions, TraceTypeOK, TraceInit, Out
<1>3. Listed
  BY DEF Listed, TraceInit
<1>4. 0 % CounterLimit = 0
  BY <1>1
<1>5. InTurn
  BY <1>1, <1>4 DEF InTurn, Out
<1>6. Holds(history.va, ring)
  BY <1>1 DEF Holds
<1>7. Filed
  BY <1>1 DEF Filed, Counted, Out
<1> QED BY <1>2, <1>3, <1>5, <1>6, <1>7 DEF TraceInv

LEMMA DispatchKeeps ==
  ASSUME TraceInv, NEW t \in TraceThreads, NEW va \in Targets, TraceDispatch(t, va)
  PROVE  TraceInv'
<1>1. /\ at[t].step = "out" /\ UNCHANGED <<ring, count, sinceFlush, ringFile, fileNamed>>
      /\ history' = [history EXCEPT !.together = @ \/ \E u \in TraceThreads : at[u].step # "out"]
      /\ at' = [at EXCEPT ![t] = [step |-> "bump", i |-> count, va |-> va]]
  BY DEF TraceDispatch
<1>2. /\ history'.va = history.va /\ history' \in [va : Seq(Targets), together : BOOLEAN]
      /\ history'.together = (history.together \/ \E u \in TraceThreads : at[u].step # "out")
  BY <1>1 DEF TraceInv, TraceShape
<1>3. /\ at'[t] = [step |-> "bump", i |-> count, va |-> va]
      /\ \A u \in TraceThreads \ {t} : at'[u] = at[u]
  BY <1>1 DEF TraceInv, TraceShape
<1>4. TraceShape'
  <2>1. at' \in [TraceThreads -> Positions]
    <3>1. [step |-> "bump", i |-> count, va |-> va] \in Positions
      BY DEF Positions, TraceInv, TraceShape, TraceTypeOK
    <3> QED BY <1>1, <3>1 DEF TraceInv, TraceShape
  <2>2. TraceTypeOK'
    BY <1>1, <1>3 DEF TraceInv, TraceShape, TraceTypeOK
  <2> QED BY <1>1, <1>2, <1>3, <2>1, <2>2 DEF TraceInv, TraceShape
<1>5. Listed'
  BY <1>1, <1>2 DEF TraceInv, Listed
<1>6. ASSUME ~history'.together PROVE InTurn' /\ Holds(history.va, ring)' /\ Filed'
  <2>1. ~history.together /\ AllOut
    BY <1>2, <1>6 DEF AllOut
  <2>2. InTurn /\ Holds(history.va, ring) /\ Filed
    BY <2>1 DEF TraceInv
  <2>3. Dispatched' = Dispatched /\ \A u \in TraceThreads \ {t} : at'[u].step = "out"
    BY <1>2, <1>3, <2>1 DEF AllOut, Dispatched
  <2>4. InTurn'
    BY <1>1, <1>3, <2>1, <2>2, <2>3 DEF InTurn, AllOut
  <2>5. Holds(history.va, ring)'
    BY <1>1, <1>2, <2>2 DEF Holds
  <2>6. Counted' = Counted
    BY <1>3, <2>1, <2>3 DEF Counted, AllOut
  <2>7. Filed'
    BY <1>1, <1>2, <2>2, <2>6 DEF Filed, UpTo, Holds
  <2> QED BY <2>4, <2>5, <2>7
<1> QED BY <1>4, <1>5, <1>6 DEF TraceInv

LEMMA BumpKeeps ==
  ASSUME TraceAssumption, TraceInv, NEW t \in TraceThreads, TraceBump(t)
  PROVE  TraceInv'
<1>1. /\ at[t].step = "bump" /\ count' = (at[t].i + 1) % CounterLimit
      /\ UNCHANGED <<ring, sinceFlush, ringFile, fileNamed, history>>
      /\ at' = [at EXCEPT ![t].step = "store"]
  BY DEF TraceBump
<1>2. /\ at'[t].step = "store" /\ at'[t].i = at[t].i /\ at'[t].va = at[t].va
      /\ \A u \in TraceThreads \ {t} : at'[u] = at[u]
  BY <1>1 DEF TraceInv, TraceShape
<1>3. count' \in 0..(CounterLimit - 1)
  BY <1>1, SlotIn DEF TraceInv, TraceShape, Positions, TraceAssumption
<1>4. TraceShape'
  <2>1. at' \in [TraceThreads -> Positions]
    <3>1. at[t] \in Positions
      BY DEF TraceInv, TraceShape
    <3>2. [at[t] EXCEPT !.step = "store"] \in Positions
      BY <3>1 DEF Positions
    <3> QED BY <1>1, <3>2 DEF TraceInv, TraceShape
  <2>2. TraceTypeOK'
    BY <1>1, <1>2, <1>3 DEF TraceInv, TraceShape, TraceTypeOK
  <2> QED BY <1>1, <1>2, <1>3, <2>1, <2>2 DEF TraceInv, TraceShape
<1>5. Listed'
  BY <1>1 DEF TraceInv, Listed
<1>6. ASSUME ~history.together PROVE InTurn' /\ Holds(history.va, ring)' /\ Filed'
  <2>1. InTurn /\ Holds(history.va, ring) /\ Filed
    BY <1>6 DEF TraceInv
  <2>2. count' = (Dispatched + 1) % CounterLimit
    <3>1. at[t].i = Dispatched % CounterLimit
      BY <1>1, <2>1 DEF InTurn
    <3>2. CounterLimit \in Nat \ {0} /\ Dispatched \in Nat
      BY DEF TraceAssumption, TraceInv, TraceShape, Dispatched
    <3> QED BY <1>1, <3>1, <3>2, RestAndOne
  <2>3. InTurn'
    BY <1>1, <1>2, <2>1, <2>2 DEF InTurn, AllOut, Dispatched
  <2>4. Counted' = Counted
    BY <1>1, <1>2 DEF Counted, Dispatched
  <2> QED BY <1>1, <2>1, <2>3, <2>4 DEF Filed, UpTo, Holds
<1> QED BY <1>1, <1>4, <1>5, <1>6 DEF TraceInv

LEMMA StoreKeeps ==
  ASSUME TraceAssumption, TraceInv, NEW t \in TraceThreads, TraceStore(t)
  PROVE  TraceInv'
<1>1. /\ at[t].step = "store" /\ ring' = [ring EXCEPT ![Slot(at[t].i)] = at[t].va]
      /\ history' = [history EXCEPT !.va = Append(@, at[t].va)]
      /\ at' = [at EXCEPT ![t].step = "flush"]
      /\ UNCHANGED <<count, sinceFlush, ringFile, fileNamed>>
  BY DEF TraceStore
<1>2. /\ at'[t].step = "flush" /\ at'[t].i = at[t].i /\ at'[t].va = at[t].va
      /\ \A u \in TraceThreads \ {t} : at'[u] = at[u]
      /\ at[t].va \in Targets /\ at[t].i \in 0..(CounterLimit - 1)
  BY <1>1 DEF TraceInv, TraceShape, Positions
<1>3. /\ history'.va = Append(history.va, at[t].va) /\ history'.together = history.together
      /\ history' \in [va : Seq(Targets), together : BOOLEAN] /\ history.va \in Seq(Targets)
  <2>1. history \in [va : Seq(Targets), together : BOOLEAN] /\ history.va \in Seq(Targets)
    BY DEF TraceInv, TraceShape
  <2>2. PICK more \in Seq(Targets) : more = Append(history.va, at[t].va)
    <3>1. at[t].va \in Targets
      BY <1>2
    <3> QED BY <2>1, <3>1, AppendIsSeq
  <2>3. history' = [history EXCEPT !.va = more]
    BY <1>1, <2>2
  <2> QED BY <2>1, <2>2, <2>3
<1>4. /\ Dispatched \in Nat /\ Dispatched' = Dispatched + 1
      /\ \A m \in 1..Dispatched : history'.va[m] = history.va[m]
      /\ history'.va[Dispatched + 1] = at[t].va
  BY <1>2, <1>3 DEF Dispatched
<1>5. /\ TraceN \in Nat \ {0} /\ CounterLimit \in Nat \ {0} /\ CounterLimit % TraceN = 0
      /\ Slot(at[t].i) \in 0..(TraceN - 1)
  BY <1>2, SlotIn DEF Slot, TraceAssumption
<1>6. TraceShape'
  <2>1. at' \in [TraceThreads -> Positions]
    <3>1. at[t] \in Positions
      BY DEF TraceInv, TraceShape
    <3>2. [at[t] EXCEPT !.step = "flush"] \in Positions
      BY <3>1 DEF Positions
    <3> QED BY <1>1, <3>2 DEF TraceInv, TraceShape
  <2>2. TraceTypeOK'
    BY <1>1, <1>2, <1>5 DEF TraceInv, TraceShape, TraceTypeOK
  <2> QED BY <1>1, <1>2, <1>3, <2>1, <2>2 DEF TraceInv, TraceShape
<1>7. Listed'
  <2> SUFFICES ASSUME NEW k \in 0..(TraceN - 1)
               PROVE  ring'[k] \in {EMPTY} \cup {history'.va[m] : m \in DOMAIN history'.va}
    BY DEF Listed
  <2>1. /\ DOMAIN history.va = 1..Dispatched /\ DOMAIN history'.va = 1..Dispatched + 1
    BY <1>3, <1>4 DEF Dispatched
  <2>2. CASE k = Slot(at[t].i)
    <3>1. ring'[k] = history'.va[Dispatched + 1]
      BY <1>1, <1>4, <2>2 DEF TraceInv, TraceShape, TraceTypeOK
    <3>2. Dispatched + 1 \in DOMAIN history'.va
      BY <1>4, <2>1
    <3> QED BY <3>1, <3>2
  <2>3. CASE k # Slot(at[t].i)
    <3>1. ring'[k] = ring[k]
      BY <1>1, <2>3 DEF TraceInv, TraceShape, TraceTypeOK
    <3>2. ring[k] = EMPTY \/ \E m \in 1..Dispatched : ring[k] = history.va[m]
      BY <2>1 DEF TraceInv, Listed
    <3> QED BY SMTT(30), <1>4, <2>1, <3>1, <3>2
  <2> QED BY <2>2, <2>3
<1>8. ASSUME ~history.together PROVE InTurn' /\ Holds(history.va, ring)' /\ Filed'
  <2>1. InTurn /\ Holds(history.va, ring) /\ Filed
    BY <1>8 DEF TraceInv
  <2>2. /\ at[t].i = Dispatched % CounterLimit /\ count = (Dispatched + 1) % CounterLimit
        /\ \A u \in TraceThreads \ {t} : at[u].step = "out"
    BY <1>1, <2>1 DEF InTurn
  <2>3. InTurn'
    BY <1>1, <1>2, <1>4, <2>2 DEF InTurn, AllOut
  <2>4. Slot(at[t].i) = Dispatched % TraceN
    <3>1. (Dispatched % CounterLimit) % TraceN = Dispatched % TraceN
      BY <1>4, <1>5, SlotOfRest
    <3> QED BY <2>2, <3>1 DEF Slot
  <2>5. Holds(history.va, ring)'
    <3>1. ring' = [ring EXCEPT ![Len(history.va) % TraceN] = at[t].va]
      BY <1>1, <2>4 DEF Dispatched
    <3>2. ring \in Rings
      BY DEF TraceInv, TraceShape, TraceTypeOK, Rings
    <3>3. Holds(Append(history.va, at[t].va), ring')
      BY <1>2, <1>3, <2>1, <3>1, <3>2, StoreHolds
    <3> QED BY <1>3, <3>3 DEF Holds
  <2>6. Counted' = Counted /\ Counted = Dispatched
    <3>1. ~\E u \in TraceThreads : at[u].step = "flush"
      BY <1>1, <2>2
    <3>2. Counted' = Dispatched' - 1
      BY <1>2 DEF Counted
    <3> QED BY <1>4, <3>1, <3>2 DEF Counted
  <2>7. Filed'
    <3>1. ASSUME NEW k \in 0..Dispatched PROVE UpTo(k)' = UpTo(k)
      BY <1>2, <1>3, <1>4 DEF UpTo, Dispatched
    <3>2. sinceFlush \in Nat
      BY DEF TraceInv, TraceShape, TraceTypeOK, TraceAssumption
    <3>3. ringFile # NoFile => UpTo(Counted - sinceFlush)' = UpTo(Counted - sinceFlush)
      <4>1. ringFile # NoFile => Counted - sinceFlush \in 0..Dispatched
        BY <1>4, <2>1, <2>6, <3>2 DEF Filed
      <4> HIDE DEF Counted, UpTo
      <4>2. (Counted - sinceFlush)' = Counted - sinceFlush
        BY <1>1, <2>6
      <4> QED BY <3>1, <4>1, <4>2 DEF UpTo
    <3> QED BY <1>1, <2>1, <2>6, <3>3 DEF Filed
  <2> QED BY <2>3, <2>5, <2>7
<1> QED BY <1>3, <1>6, <1>7, <1>8 DEF TraceInv

LEMMA FlushKeeps ==
  ASSUME TraceAssumption, TraceInv, NEW t \in TraceThreads, TraceFlush(t)
  PROVE  TraceInv'
<1>1. /\ at[t].step = "flush" /\ at' = [at EXCEPT ![t] = Out]
      /\ UNCHANGED <<ring, count, fileNamed, history>>
      /\ IF sinceFlush + 1 >= Every
         THEN sinceFlush' = 0 /\ ringFile' = Persisted
         ELSE sinceFlush' = sinceFlush + 1 /\ UNCHANGED ringFile
  BY DEF TraceFlush
<1>2. at'[t] = Out /\ \A u \in TraceThreads \ {t} : at'[u] = at[u]
  BY <1>1 DEF TraceInv, TraceShape
<1>3. /\ sinceFlush \in 0..(Every - 1) /\ Every \in Nat \ {0} /\ sinceFlush' \in 0..(Every - 1)
      /\ CounterLimit \in Nat \ {0} /\ TraceN \in Nat \ {0}
      /\ ring \in Rings /\ history.va \in Seq(Targets)
  BY <1>1 DEF TraceInv, TraceShape, TraceTypeOK, TraceAssumption, Rings
<1>4. TraceShape'
  <2>1. ringFile' # NoFile => fileNamed'
    BY <1>1 DEF TraceInv, TraceShape, Persisted
  <2>2. TraceTypeOK'
    BY SMTT(30), <1>1, <1>2, <1>3 DEF TraceInv, TraceShape, TraceTypeOK, Out
  <2>3. at' \in [TraceThreads -> Positions]
    <3>1. Out \in Positions
      BY <1>3 DEF Out, Positions
    <3> QED BY <1>1, <3>1 DEF TraceInv, TraceShape
  <2> QED BY <1>1, <1>2, <1>3, <2>1, <2>2, <2>3 DEF TraceInv, TraceShape, Out
<1>5. Listed'
  BY <1>1 DEF TraceInv, Listed
<1>6. ASSUME ~history.together PROVE InTurn' /\ Holds(history.va, ring)' /\ Filed'
  <2>1. InTurn /\ Holds(history.va, ring) /\ Filed
    BY <1>6 DEF TraceInv
  <2>2. /\ count = Dispatched % CounterLimit
        /\ \A u \in TraceThreads \ {t} : at[u].step = "out"
    BY <1>1, <2>1 DEF InTurn
  <2>3. \A u \in TraceThreads : at'[u].step = "out"
    BY <1>2, <2>2 DEF Out
  <2>4. InTurn'
    BY <1>1, <2>2, <2>3 DEF InTurn, Dispatched
  <2>5. Dispatched \in Nat /\ Counted = Dispatched - 1 /\ Counted' = Dispatched
    BY <1>1, <1>3, <2>3 DEF Counted, Dispatched
  <2>6. CASE sinceFlush + 1 < Every
    <3>1. /\ sinceFlush' = sinceFlush + 1 /\ ringFile' = ringFile
          /\ (Counted - sinceFlush)' = Counted - sinceFlush
      <4>1. sinceFlush' = sinceFlush + 1 /\ ringFile' = ringFile
        BY <1>1, <1>3, <2>6
      <4>2. PICK d \in Nat, f \in Nat : d = Dispatched /\ f = sinceFlush
        BY <1>3, <2>5
      <4>3. Counted' - sinceFlush' = Counted - sinceFlush
        BY <2>5, <4>1, <4>2
      <4> QED BY <4>1, <4>3
    <3>2. UpTo(Counted - sinceFlush)' = UpTo(Counted - sinceFlush)
      BY <1>1, <3>1 DEF UpTo
    <3> QED BY <1>1, <1>3, <2>1, <2>4, <2>5, <3>1, <3>2, SMTT(30) DEF Filed, Holds
  <2>7. CASE sinceFlush + 1 >= Every /\ fileNamed
    <3>1. /\ sinceFlush' = 0 /\ ringFile' = [count |-> count, ring |-> ring]
          /\ (Counted - sinceFlush)' = Dispatched
      BY <1>1, <1>3, <2>5, <2>7 DEF Persisted
    <3>2. ringFile' # NoFile
      <4>1. ringFile'.ring = ring /\ 0 \in DOMAIN ring
        BY <1>3, <3>1 DEF Rings
      <4>2. NoFile.ring = <<>> /\ 0 \notin DOMAIN <<>>
        BY DEF NoFile
      <4> QED BY <4>1, <4>2
    <3>3. UpTo(Counted - sinceFlush)' = history.va
      <4>1. UpTo(Counted - sinceFlush)' = SubSeq(history.va, 1, Dispatched)
        BY <1>1, <3>1 DEF UpTo
      <4> QED BY <1>3, <4>1 DEF Dispatched
    <3> QED BY <1>1, <1>3, <2>1, <2>2, <2>4, <2>5, <3>1, <3>2, <3>3, SMTT(30) DEF Filed, Holds
  <2>8. CASE sinceFlush + 1 >= Every /\ ~fileNamed
    <3>1. ringFile' = NoFile /\ ~fileNamed'
      BY <1>1, <2>8 DEF TraceInv, TraceShape, Persisted
    <3> QED BY <1>1, <2>1, <2>4, <3>1 DEF Filed, Holds
  <2> QED BY <1>3, <2>6, <2>7, <2>8
<1> QED BY <1>1, <1>4, <1>5, <1>6 DEF TraceInv

LEMMA TraceInvNext == TraceAssumption /\ TraceInv /\ [TraceNext]_traceVars => TraceInv'
<1> SUFFICES ASSUME TraceAssumption, TraceInv, [TraceNext]_traceVars PROVE TraceInv'
  OBVIOUS
<1>1. ASSUME UNCHANGED traceVars PROVE TraceInv'
  <2>1. UNCHANGED <<ring, count, sinceFlush, ringFile, fileNamed, at, history>>
    BY <1>1 DEF traceVars
  <2>2. TraceShape' /\ Listed'
    BY <2>1 DEF TraceInv, TraceShape, TraceTypeOK, Listed
  <2>3. InTurn' <=> InTurn
    BY <2>1 DEF InTurn, AllOut, Dispatched
  <2>4. Counted' = Counted
    BY <2>1 DEF Counted, Dispatched
  <2>5. Filed' <=> Filed
    BY <2>1, <2>4 DEF Filed, UpTo, Holds
  <2>6. Holds(history.va, ring)' <=> Holds(history.va, ring)
    BY <2>1 DEF Holds
  <2> QED BY <2>1, <2>2, <2>3, <2>5, <2>6 DEF TraceInv
<1> QED BY <1>1, DispatchKeeps, BumpKeeps, StoreKeeps, FlushKeeps DEF TraceNext

\* While no two threads are in the trace together, a report between dispatches
\* lists the last of them in order, and the file those up to a dispatch no more
\* than Every back, for rings of any size and round the counter too; and at any
\* time what a report lists was dispatched to (crash_report.c:56-85, 164).
THEOREM ReportsAreSuffixes == TraceSpec => []ReportIsSuffix
<1>1. TraceAssumption /\ TraceInv => ReportIsSuffix
  <2> SUFFICES ASSUME TraceAssumption, TraceInv PROVE ReportIsSuffix
    OBVIOUS
  <2>1. /\ history.va \in Seq(Targets) /\ Dispatched \in Nat /\ ring \in Rings
        /\ Every \in Nat \ {0} /\ sinceFlush \in 0..(Every - 1)
        /\ TraceN \in Nat \ {0} /\ count \in Nat
    BY DEF TraceInv, TraceShape, TraceTypeOK, Dispatched, Rings, TraceAssumption
  <2>2. ASSUME AllOut, ~history.together
        PROVE  /\ EndsWith(history.va, Report(count, ring))
               /\ count = Len(history.va) % CounterLimit
               /\ ringFile # NoFile => \E k \in 0..(Every - 1) :
                    /\ k <= Len(history.va)
                    /\ EndsWith(UpTo(Len(history.va) - k), Report(ringFile.count, ringFile.ring))
               /\ fileNamed /\ Len(history.va) >= Every => ringFile # NoFile
    <3>1. InTurn /\ Holds(history.va, ring) /\ Filed
      BY <2>2 DEF TraceInv
    <3>2. count = Len(history.va) % CounterLimit
      BY <2>2, <3>1 DEF InTurn, Dispatched
    <3>3. EndsWith(history.va, Report(count, ring))
      BY <2>1, <3>1, <3>2, ReportEnds
    <3>4. Counted = Len(history.va)
      BY <2>2 DEF Counted, AllOut, Dispatched
    <3>5. ASSUME ringFile # NoFile
          PROVE  /\ sinceFlush <= Len(history.va)
                 /\ EndsWith(UpTo(Len(history.va) - sinceFlush),
                             Report(ringFile.count, ringFile.ring))
      <4>1. /\ sinceFlush <= Len(history.va) /\ ringFile.ring \in Rings
            /\ ringFile.count = (Len(history.va) - sinceFlush) % CounterLimit
            /\ Holds(UpTo(Len(history.va) - sinceFlush), ringFile.ring)
        BY <3>1, <3>4, <3>5 DEF Filed
      <4>2. /\ UpTo(Len(history.va) - sinceFlush) \in Seq(Targets)
            /\ Len(UpTo(Len(history.va) - sinceFlush)) = Len(history.va) - sinceFlush
        BY <2>1, <4>1 DEF UpTo
      <4> QED BY <4>1, <4>2, ReportEnds
    <3>6. fileNamed /\ Len(history.va) >= Every => ringFile # NoFile
      BY <2>1, <3>1, <3>4 DEF Filed, Dispatched
    <3> QED BY <2>1, <3>2, <3>3, <3>5, <3>6
  <2>3. \A k \in DOMAIN Report(count, ring) :
          Report(count, ring)[k] \in {EMPTY} \cup {history.va[m] : m \in DOMAIN history.va}
    <3> DEFINE n == IF count < TraceN THEN count ELSE TraceN
    <3>1. n \in Nat /\ n <= count /\ Report(count, ring) = [k \in 1..n |-> ring[(count - n + k - 1) % TraceN]]
      BY <2>1 DEF Report
    <3> HIDE DEF n
    <3>2. \A k \in 1..n : (count - n + k - 1) % TraceN \in 0..(TraceN - 1)
      <4>1. \A k \in 1..n : count - n + k - 1 \in Int
        BY <2>1, <3>1
      <4> QED BY <2>1, <4>1, SlotIn
    <3> QED BY <3>1, <3>2 DEF TraceInv, Listed
  <2> QED BY <2>2, <2>3 DEF ReportIsSuffix
<1> QED BY <1>1, TraceStarts, TraceInvNext, TraceAssumption, PTL DEF TraceSpec

(***************************************************************************)
(* printf.                                                                 *)
(***************************************************************************)

\* What each directive prints, and the words it takes.
RenderedOf(items) ==
  [k \in 1..Len(items) |-> Rendered(items[k].conv, items[k].stars, items[k].value)]
WordsOf(items) == [k \in 1..Len(items) |-> Words(items[k])]

FormatShape ==
  /\ print \in [phase : {"idle", "walk", "done"}, items : Seq(Items), at : Nat, argi : Nat,
                text : Seq(Nat), n : Nat, cap : Caps \cup {-1}, got : Seq(Nat)]
  /\ Len(print.items) <= MaxItems /\ print.at \in 1..Len(print.items) + 1
  /\ Len(print.text) < FormatCap

\* Midway: the words taken are those of the directives before, and the text and
\* its length are what these directives print.
FormatMidway ==
  LET done == SubSeq(RenderedOf(print.items), 1, print.at - 1) IN
  print.phase = "walk" =>
    /\ print.argi = Len(FlattenSeq(SubSeq(WordsOf(print.items), 1, print.at - 1)))
    /\ Pieces => /\ print.text = Start(FlattenSeq(done), FormatCap - 1)
                 /\ print.n = Len(FlattenSeq(done))

FormatInv == FormatShape /\ FormatMidway /\ PrintsAsC

\* The start of a text.
LEMMA StartIs ==
  ASSUME NEW s \in Seq(Nat), NEW n \in Nat
  PROVE  /\ Start(s, n) \in Seq(Nat)
         /\ Len(Start(s, n)) = IF n < Len(s) THEN n ELSE Len(s)
         /\ \A i \in 1..Len(Start(s, n)) : Start(s, n)[i] = s[i]
<1> DEFINE m == IF n < Len(s) THEN n ELSE Len(s)
<1>1. Len(s) \in Nat /\ m \in Nat /\ m <= Len(s)
  BY LenProperties
<1>2. \A i \in 1..m : s[i] \in Nat
  BY <1>1, ElementOfSeq
<1>3. Start(s, n) = SubSeq(s, 1, m)
  BY DEF Start
<1> HIDE DEF m
<1>4. /\ SubSeq(s, 1, m) \in Seq(Nat)
      /\ Len(SubSeq(s, 1, m)) = m
      /\ \A i \in 1..m : SubSeq(s, 1, m)[i] = s[i]
  BY <1>1, <1>2, SubSeqProperties
<1> QED
  BY <1>3, <1>4 DEF m

\* Cutting a text before more is put behind it changes nothing of the start.
LEMMA StartOver ==
  ASSUME NEW s \in Seq(Nat), NEW t \in Seq(Nat), NEW n \in Nat
  PROVE  Start(Start(s, n) \o t, n) = Start(s \o t, n)
<1>1. Len(s) \in Nat /\ Len(t) \in Nat
  BY LenProperties
<1>2. PICK a \in Seq(Nat) : a = Start(s, n)
  BY StartIs
<1>3. /\ Len(a) = IF n < Len(s) THEN n ELSE Len(s)
      /\ \A i \in 1..Len(a) : a[i] = s[i]
  BY <1>2, StartIs
<1>4. PICK b \in Seq(Nat) : b = a \o t
  BY <1>2, ConcatProperties
<1>5. PICK c \in Seq(Nat) : c = s \o t
  BY ConcatProperties
<1>6. /\ Len(b) = Len(a) + Len(t)
      /\ \A i \in 1..Len(b) : b[i] = IF i <= Len(a) THEN a[i] ELSE t[i - Len(a)]
  BY <1>2, <1>4, ConcatProperties
<1>7. /\ Len(c) = Len(s) + Len(t)
      /\ \A i \in 1..Len(c) : c[i] = IF i <= Len(s) THEN s[i] ELSE t[i - Len(s)]
  BY <1>5, ConcatProperties
<1>8. /\ Start(b, n) \in Seq(Nat)
      /\ Len(Start(b, n)) = IF n < Len(b) THEN n ELSE Len(b)
      /\ \A i \in 1..Len(Start(b, n)) : Start(b, n)[i] = b[i]
  BY <1>4, StartIs
<1>9. /\ Start(c, n) \in Seq(Nat)
      /\ Len(Start(c, n)) = IF n < Len(c) THEN n ELSE Len(c)
      /\ \A i \in 1..Len(Start(c, n)) : Start(c, n)[i] = c[i]
  BY <1>5, StartIs
<1>9a. Len(a) \in Nat /\ Len(b) \in Nat /\ Len(c) \in Nat
  BY <1>2, <1>4, <1>5, LenProperties
<1>10. Len(Start(b, n)) = Len(Start(c, n))
  <2>1. Len(b) = Len(a) + Len(t) /\ Len(c) = Len(s) + Len(t)
    BY <1>6, <1>7
  <2>2. Len(a) = IF n < Len(s) THEN n ELSE Len(s)
    BY <1>3
  <2>3. (IF n < Len(b) THEN n ELSE Len(b)) = (IF n < Len(c) THEN n ELSE Len(c))
    BY <1>1, <1>9a, <2>1, <2>2, SMTT(30)
  <2> QED
    BY <1>8, <1>9, <2>3
<1>11. ASSUME NEW i \in 1..Len(Start(b, n)) PROVE Start(b, n)[i] = Start(c, n)[i]
  <2>1. i \in 1..Len(b) /\ i \in 1..Len(c) /\ i <= n
    BY <1>1, <1>9a, <1>8, <1>9, <1>10, SMTT(30)
  <2>2. b[i] = c[i]
    <3>1. CASE i <= Len(a)
      <4>1. i \in 1..Len(a) /\ i <= Len(s)
        BY <1>1, <1>3, <1>9a, <2>1, <3>1
      <4>2. b[i] = a[i] /\ a[i] = s[i] /\ c[i] = s[i]
        BY <1>3, <1>6, <1>7, <2>1, <3>1, <4>1
      <4> QED
        BY <4>2
    <3>2. CASE ~(i <= Len(a))
      <4>1. ~(i <= Len(s)) /\ Len(a) = Len(s)
        BY <1>1, <1>3, <1>9a, <2>1, <3>2
      <4>2. b[i] = t[i - Len(s)] /\ c[i] = t[i - Len(s)]
        BY <1>6, <1>7, <2>1, <3>2, <4>1
      <4> QED
        BY <4>2
    <3> QED
      BY <3>1, <3>2
  <2> QED
    BY <1>8, <1>9, <1>10, <2>2
<1>12. Start(b, n) = Start(c, n)
  BY <1>8, <1>9, <1>10, <1>11, SeqEqual
<1> QED
  BY <1>2, <1>4, <1>5, <1>12

\* A padded text is a text.
LEMMA PaddedIs ==
  ASSUME FormatAssumption, NEW text \in Seq(Nat), NEW stars \in Seq(Nat)
  PROVE  Padded(text, stars) \in Seq(Nat)
<1> DEFINE w == IF stars = <<>> THEN 0 ELSE stars[Len(stars)]
           p == IF w > Len(text) THEN w - Len(text) ELSE 0
<1>1. w \in Nat
  <2>1. CASE stars = <<>>
    BY <2>1
  <2>2. CASE stars # <<>>
    <3>1. Len(stars) \in 1..Len(stars)
      BY <2>2, EmptySeq
    <3> QED
      BY <2>2, <3>1, ElementOfSeq
  <2> QED
    BY <2>1, <2>2
<1> HIDE DEF w
<1>2. p \in Nat
  BY <1>1, LenProperties
<1> HIDE DEF p
<1>3. BLANK \in Nat
  BY DEF FormatAssumption
<1>4. [k \in 1..p |-> BLANK] \in Seq(Nat)
  BY <1>2, <1>3, SeqDef
<1>5. [k \in 1..p |-> BLANK] \o text \in Seq(Nat)
  BY <1>4, ConcatProperties
<1> QED
  BY <1>5 DEF Padded, p, w

\* What a directive prints is a text.
LEMMA RenderedIs ==
  ASSUME FormatAssumption, NEW item \in Items
  PROVE  Rendered(item.conv, item.stars, item.value) \in Seq(Nat)
<1>1. item.stars \in Seq(Nat) /\ item.value \in Seq(Nat) /\ Len(item.value) = Width(item.conv)
      /\ {BLANK, PERCENT, PAST} \subseteq Nat /\ \A a \in DOMAIN TextOf : TextOf[a] \in Seq(Nat)
  BY DEF FormatAssumption
<1>2. <<>> \in Seq(Nat) /\ <<PERCENT>> \in Seq(Nat) /\ <<BLANK>> \in Seq(Nat) /\ <<PAST>> \in Seq(Nat)
  BY <1>1
<1>3. Padded(item.value, item.stars) \in Seq(Nat)
  BY <1>1, PaddedIs
<1>4. Padded(IF item.value[1] \in DOMAIN TextOf THEN TextOf[item.value[1]] ELSE <<PAST>>, item.stars)
        \in Seq(Nat)
  <2>1. (IF item.value[1] \in DOMAIN TextOf THEN TextOf[item.value[1]] ELSE <<PAST>>) \in Seq(Nat)
    BY <1>1, <1>2
  <2> QED
    BY <1>1, <2>1, PaddedIs
<1> QED
  BY <1>2, <1>3, <1>4 DEF Rendered

\* What the directives print and what words they take, as lists.
LEMMA ListsAre ==
  ASSUME FormatAssumption, NEW items \in Seq(Items)
  PROVE  /\ RenderedOf(items) \in Seq(Seq(Nat)) /\ Len(RenderedOf(items)) = Len(items)
         /\ WordsOf(items) \in Seq(Seq(Nat)) /\ Len(WordsOf(items)) = Len(items)
<1>0. PICK n \in Nat : n = Len(items)
  BY LenProperties
<1>1. \A k \in 1..n : items[k] \in Items
  BY <1>0, ElementOfSeq
<1>2. \A k \in 1..n : Rendered(items[k].conv, items[k].stars, items[k].value) \in Seq(Nat)
  BY <1>1, RenderedIs
<1>3. \A k \in 1..n : Words(items[k]) \in Seq(Nat)
  <2> SUFFICES ASSUME NEW k \in 1..n PROVE Words(items[k]) \in Seq(Nat)
    OBVIOUS
  <2>1. items[k].stars \in Seq(Nat) /\ items[k].value \in Seq(Nat)
    BY <1>1 DEF FormatAssumption
  <2> QED
    BY <2>1, ConcatProperties DEF Words
<1>4. RenderedOf(items) \in [1..n -> Seq(Nat)]
  BY <1>0, <1>2 DEF RenderedOf
<1>5. WordsOf(items) \in [1..n -> Seq(Nat)]
  BY <1>0, <1>3 DEF WordsOf
<1>6. ASSUME NEW g \in [1..n -> Seq(Nat)] PROVE g \in Seq(Seq(Nat)) /\ Len(g) = n
  <2>1. g \in Seq(Seq(Nat))
    <3>1. Seq(Seq(Nat)) = UNION {[1..m -> Seq(Nat)] : m \in Nat}
      BY SeqDef, Zenon
    <3> QED
      BY <1>0, <3>1, Zenon
  <2>2. DOMAIN g = 1..n /\ DOMAIN g = 1..Len(g) /\ Len(g) \in Nat
    BY <2>1, LenProperties
  <2> QED
    BY <1>0, <2>1, <2>2
<1> QED
  BY <1>0, <1>4, <1>5, <1>6

\* A directive meets its own stars and its own value, whatever stands before.
LEMMA MeetsItsOwn ==
  ASSUME FormatAssumption, FormatShape, FormatMidway, print.phase = "walk",
         print.at <= Len(print.items)
  PROVE  LET item == print.items[print.at]
             stack == Pushed(print.items)
             word(k) == IF k <= Len(stack) THEN stack[k] ELSE PAST
             s == Len(item.stars)
         IN  /\ [k \in 1..s |-> word(print.argi + k)] = item.stars
             /\ [k \in 1..Width(item.conv) |-> word(print.argi + s + k)] = item.value
<1>1. PICK items \in Seq(Items) : items = print.items
  BY DEF FormatShape
<1>2. PICK here \in Nat : here = print.at /\ here \in 1..Len(items) /\ here - 1 \in 0..Len(items)
                        /\ here \in 0..Len(items)
  BY <1>1 DEF FormatShape
<1>3. PICK item \in Items : item = items[here]
  BY <1>2, ElementOfSeq
<1>4. /\ item.stars \in Seq(Nat) /\ item.value \in Seq(Nat) /\ Len(item.value) = Width(item.conv)
      /\ Len(item.stars) \in Nat /\ Len(item.value) \in Nat
  BY <1>3, LenProperties DEF FormatAssumption
<1>5. PICK ws \in Seq(Seq(Nat)) : ws = WordsOf(items) /\ Len(ws) = Len(items)
  BY ListsAre
<1>6. PICK b \in Seq(Nat) : b = FlattenSeq(SubSeq(ws, 1, here - 1))
  BY <1>2, <1>5, FlattenStarts
<1>7. PICK c \in Seq(Nat) : c = FlattenSeq(SubSeq(ws, 1, here))
  BY <1>2, <1>5, FlattenStarts
<1>8. PICK stack \in Seq(Nat) : stack = FlattenSeq(ws)
  BY <1>2, <1>5, FlattenStarts
<1>9. Len(c) <= Len(stack) /\ \A i \in 1..Len(c) : stack[i] = c[i]
  <2>1. here \in 0..Len(ws)
    BY <1>2, <1>5
  <2>2. /\ Len(FlattenSeq(SubSeq(ws, 1, here))) <= Len(FlattenSeq(ws))
        /\ \A i \in 1..Len(FlattenSeq(SubSeq(ws, 1, here))) :
             FlattenSeq(ws)[i] = FlattenSeq(SubSeq(ws, 1, here))[i]
    BY <1>5, <2>1, FlattenStarts
  <2> QED
    BY <1>7, <1>8, <2>2, Zenon
<1>10. c = b \o Words(item)
  <2>1. here \in 1..Len(ws) /\ ws[here] = Words(item)
    BY <1>2, <1>3, <1>5 DEF WordsOf
  <2> QED
    BY <1>5, <1>6, <1>7, <2>1, FlattenNext
<1>11. PICK p \in Nat : p = Len(item.stars)
  BY <1>4
<1>12. PICK q \in Nat : q = Len(item.value)
  BY <1>4
<1>13. PICK taken \in Nat : taken = Len(b)
  BY <1>6, LenProperties
<1>N. p \in Nat /\ q \in Nat /\ taken \in Nat
  BY <1>11, <1>12, <1>13
<1>14. /\ Len(c) = taken + (p + q)
       /\ \A k \in 1..p : c[taken + k] = item.stars[k]
       /\ \A k \in 1..q : c[taken + p + k] = item.value[k]
  <2>1. PICK w \in Seq(Nat) : w = item.stars \o item.value
    BY <1>4, ConcatProperties
  <2>2. /\ Len(w) = p + q
        /\ \A k \in 1..p : w[k] = item.stars[k]
        /\ \A k \in 1..q : w[p + k] = item.value[k]
    <3>1. PICK x \in Seq(Nat) : x = item.stars
      BY <1>4
    <3>2. PICK y \in Seq(Nat) : y = item.value
      BY <1>4
    <3>3. x \in Seq(Nat) /\ y \in Seq(Nat) /\ p = Len(x) /\ q = Len(y)
      BY <1>11, <1>12, <3>1, <3>2
    <3>4. /\ Len(x \o y) = p + q
          /\ \A k \in 1..p : (x \o y)[k] = x[k]
          /\ \A k \in 1..q : (x \o y)[p + k] = y[k]
      BY <1>N, <3>3
    <3> QED
      BY <2>1, <3>1, <3>2, <3>4
  <2>3. c = b \o w
    BY <1>10, <2>1 DEF Words
  <2>4. p + q = Len(w)
    BY <2>2
  <2>5. /\ Len(c) = taken + (p + q)
        /\ \A k \in 1..p + q : c[taken + k] = w[k]
    <3>1. b \in Seq(Nat) /\ w \in Seq(Nat) /\ taken = Len(b) /\ p + q = Len(w)
      BY <1>6, <1>13, <2>1, <2>4
    <3>2. PICK m \in Nat : m = p + q
      BY <1>N
    <3>3. b \in Seq(Nat) /\ w \in Seq(Nat) /\ taken \in Nat /\ m \in Nat
          /\ taken = Len(b) /\ m = Len(w)
      BY <1>N, <3>1, <3>2
    <3>4. /\ Len(b \o w) = taken + m
          /\ \A k \in 1..m : (b \o w)[taken + k] = w[k]
      BY <3>3
    <3> QED
      BY <2>3, <3>2, <3>4
  <2>6. ASSUME NEW k \in 1..p PROVE c[taken + k] = item.stars[k]
    <3>1. k \in 1..p + q
      BY <1>N
    <3> QED
      BY <2>2, <2>5, <3>1
  <2>7. ASSUME NEW k \in 1..q PROVE c[taken + p + k] = item.value[k]
    <3>1. p + k \in 1..p + q /\ taken + p + k = taken + (p + k)
      BY <1>N
    <3> QED
      BY <2>2, <2>5, <3>1
  <2> QED
    BY <2>5, <2>6, <2>7
<1>15. print.argi = taken /\ Pushed(print.items) = stack
       /\ print.items[print.at] = item
  BY <1>1, <1>2, <1>3, <1>5, <1>6, <1>8, <1>13 DEF FormatMidway, Pushed, WordsOf
<1>16. Len(stack) \in Nat
  BY <1>8, LenProperties
<1> DEFINE word(k) == IF k <= Len(stack) THEN stack[k] ELSE PAST
<1>17. ASSUME NEW i \in 1..taken + (p + q) PROVE word(i) = c[i]
  <2>1. i <= Len(stack) /\ i \in 1..Len(c)
    BY <1>9, <1>N, <1>14, <1>16
  <2> QED
    BY <1>9, <2>1
<1>18. [k \in 1..p |-> word(taken + k)] = item.stars
  <2>1. ASSUME NEW k \in 1..p PROVE word(taken + k) = item.stars[k]
    <3>1. taken + k \in 1..taken + (p + q)
      BY <1>N
    <3> HIDE DEF word
    <3> QED
      BY <1>14, <1>17, <3>1
  <2> HIDE DEF word
  <2>2. item.stars = [k \in 1..p |-> item.stars[k]]
    BY <1>4, <1>11, LenProperties
  <2> QED
    BY <2>1, <2>2
<1>19. [k \in 1..q |-> word(taken + p + k)] = item.value
  <2>1. ASSUME NEW k \in 1..q PROVE word(taken + p + k) = item.value[k]
    <3>1. taken + p + k \in 1..taken + (p + q)
      BY <1>N
    <3> HIDE DEF word
    <3> QED
      BY <1>14, <1>17, <3>1
  <2> HIDE DEF word
  <2>2. item.value = [k \in 1..q |-> item.value[k]]
    BY <1>4, <1>12, LenProperties
  <2> QED
    BY <2>1, <2>2
<1>20. Width(item.conv) = q
  BY <1>4, <1>12
<1> QED
  BY <1>11, <1>15, <1>18, <1>19, <1>20

\* Setting out: nothing taken, nothing printed.
LEMMA FormatStarts ==
  ASSUME FormatAssumption, FormatInv, print.phase = "idle",
         NEW k \in 0..MaxItems, NEW items \in [1..k -> Items], NEW cap \in Caps \cup {-1},
         Format(items, cap)
  PROVE  FormatInv'
<1>1. k \in Nat /\ MaxItems \in Nat /\ FormatCap \in Nat \ {0}
  BY DEF FormatAssumption
<1>2. items \in Seq(Items) /\ Len(items) = k
  BY <1>1
<1>3. print' = [phase |-> "walk", items |-> items, at |-> 1, argi |-> 0, text |-> <<>>, n |-> 0,
                cap |-> cap, got |-> <<>>]
  BY DEF Format, FormatIdle
<1>4. FormatShape'
  BY <1>1, <1>2, <1>3 DEF FormatShape
<1>5. SubSeq(RenderedOf(items), 1, 0) = <<>> /\ SubSeq(WordsOf(items), 1, 0) = <<>>
  BY SubSeqEmpty
<1>6. Start(<<>>, FormatCap - 1) = <<>>
  <2>1. FormatCap - 1 \in Nat /\ ~(FormatCap - 1 < 0)
    BY <1>1
  <2> QED
    BY <2>1 DEF Start
<1>7. FormatMidway'
  <2>1. print'.items = items /\ print'.at - 1 = 0 /\ print'.argi = 0 /\ print'.text = <<>>
        /\ print'.n = 0
    BY <1>3
  <2>2. Len(FlattenSeq(SubSeq(WordsOf(items), 1, 0))) = 0
    <3>1. FlattenSeq(SubSeq(WordsOf(items), 1, 0)) = <<>>
      BY <1>5, FlattenNone
    <3> QED
      BY <3>1
  <2>3. FlattenSeq(SubSeq(RenderedOf(items), 1, 0)) = <<>>
    BY <1>5, FlattenNone
  <2> QED
    BY <1>6, <2>1, <2>2, <2>3 DEF FormatMidway
<1>8. PrintsAsC'
  BY <1>3 DEF PrintsAsC
<1> QED
  BY <1>4, <1>7, <1>8 DEF FormatInv

\* A directive takes its words and appends what they print.
LEMMA DirectivePreserves ==
  ASSUME FormatAssumption, FormatInv, Directive
  PROVE  FormatInv'
<1>1. PICK items \in Seq(Items) : items = print.items
  BY DEF FormatInv, FormatShape
<1>2. PICK here \in Nat : here = print.at /\ here \in 1..Len(items) /\ Len(items) \in Nat
  BY <1>1 DEF FormatInv, FormatShape, Directive
<1>3. PICK item \in Items : item = items[here]
  BY <1>2, ElementOfSeq
<1>4. item.stars \in Seq(Nat) /\ item.value \in Seq(Nat) /\ Len(item.value) = Width(item.conv)
      /\ FormatCap \in Nat \ {0} /\ PieceCap \in Nat \ {0}
  BY <1>3 DEF FormatAssumption
<1>5. PICK r \in Seq(Nat) : r = Rendered(item.conv, item.stars, item.value)
  BY <1>3, RenderedIs
<1>6. PICK piece \in Seq(Nat) :
        piece = Start(r, PieceCap - 1) /\ Len(piece) \in Nat
        /\ (Len(r) < PieceCap => piece = r)
  <2>1. PieceCap - 1 \in Nat
    BY <1>4
  <2>2. Start(r, PieceCap - 1) \in Seq(Nat)
    BY <1>5, <2>1, StartIs
  <2>3. ASSUME Len(r) < PieceCap PROVE Start(r, PieceCap - 1) = r
    <3>1. Len(r) \in Nat /\ (~(PieceCap - 1 < Len(r)))
      BY <1>4, <1>5, <2>3, LenProperties
    <3>2. SubSeq(r, 1, Len(r)) = r
      BY <1>5, SubSeqFull
    <3> QED
      BY <3>1, <3>2 DEF Start
  <2> QED
    BY <2>2, <2>3, LenProperties
<1>7. print' = [print EXCEPT !.at = @ + 1, !.argi = @ + Len(item.stars) + Taken(item.conv),
                             !.text = Stored(@, piece), !.n = @ + Len(piece)]
  <2>1. print.items[print.at] = item
    BY <1>1, <1>2, <1>3
  <2>2. print.phase = "walk" /\ print.at <= Len(print.items)
    BY DEF Directive
  <2> DEFINE stack == Pushed(print.items)
             word(k) == IF k <= Len(stack) THEN stack[k] ELSE PAST
  <2>3. /\ [k \in 1..Len(item.stars) |-> word(print.argi + k)] = item.stars
        /\ [k \in 1..Width(item.conv) |-> word(print.argi + Len(item.stars) + k)] = item.value
    BY <2>1, <2>2, MeetsItsOwn DEF FormatInv
  <2> HIDE DEF word
  <2>4. print' = LET stars == [k \in 1..Len(item.stars) |-> word(print.argi + k)]
                     value == [k \in 1..Width(item.conv) |-> word(print.argi + Len(item.stars) + k)]
                     out == Start(Rendered(item.conv, stars, value), PieceCap - 1)
                 IN  [print EXCEPT !.at = @ + 1, !.argi = @ + Len(item.stars) + Taken(item.conv),
                                   !.text = Stored(@, out), !.n = @ + Len(out)]
    BY <2>1 DEF Directive, word
  <2> QED
    BY <1>5, <1>6, <2>3, <2>4
<1>8. /\ print'.phase = "walk" /\ print'.items = items /\ print'.at = here + 1
      /\ print'.argi = print.argi + Len(item.stars) + Taken(item.conv)
      /\ print'.text = Stored(print.text, piece) /\ print'.n = print.n + Len(piece)
      /\ print'.cap = print.cap /\ print'.got = print.got
      /\ DOMAIN print' = DOMAIN print
  BY <1>1, <1>2, <1>7, Zenon DEF FormatInv, FormatShape, Directive
<1>9. PICK len \in Nat : len = Len(item.stars) /\ Taken(item.conv) \in Nat
  BY <1>4, LenProperties DEF Taken, Width
<1>10. PICK text \in Seq(Nat) :
         text = Stored(print.text, piece) /\ Len(text) < FormatCap
  <2>1. FormatCap - 1 \in Nat
    BY <1>4
  <2>2. print.text \o piece \in Seq(Nat)
    BY <1>6, ConcatProperties DEF FormatInv, FormatShape
  <2>3. PICK all \in Seq(Nat) : all = print.text \o piece /\ Len(all) \in Nat
    BY <2>2, LenProperties
  <2>4. /\ Start(all, FormatCap - 1) \in Seq(Nat)
        /\ Len(Start(all, FormatCap - 1)) = IF FormatCap - 1 < Len(all) THEN FormatCap - 1 ELSE Len(all)
    BY <2>1, <2>3, StartIs
  <2>5. Len(Start(all, FormatCap - 1)) < FormatCap
    BY <1>4, <2>3, <2>4
  <2> QED
    BY <2>3, <2>4, <2>5 DEF Stored
<1>11. FormatShape'
  <2>1. /\ print.phase \in {"idle", "walk", "done"} /\ print.argi \in Nat /\ print.n \in Nat
        /\ print.cap \in Caps \cup {-1} /\ print.got \in Seq(Nat) /\ Len(items) <= MaxItems
    BY <1>1 DEF FormatInv, FormatShape
  <2>2. print'.at \in Nat /\ print'.at \in 1..Len(items) + 1
    BY <1>2, <1>8
  <2>3. print'.argi \in Nat /\ print'.n \in Nat
    <3>1. PICK taken \in Nat, argi \in Nat, n \in Nat, more \in Nat :
            taken = Taken(item.conv) /\ argi = print.argi /\ n = print.n /\ more = Len(piece)
      BY <1>6, <1>9, <2>1
    <3>2. print'.argi = argi + len + taken /\ print'.n = n + more
      BY <1>8, <1>9, <3>1
    <3>3. argi + len + taken \in Nat /\ n + more \in Nat
      <4>1. len \in Nat /\ argi \in Nat /\ taken \in Nat /\ n \in Nat /\ more \in Nat
        BY <1>9, <3>1
      <4> QED
        BY <4>1
    <3> QED
      BY <3>2, <3>3
  <2>4. print' = [phase |-> "walk", items |-> items, at |-> here + 1, argi |-> print'.argi,
                  text |-> text, n |-> print'.n, cap |-> print.cap, got |-> print.got]
    BY <1>1, <1>2, <1>7, <1>8, <1>10, Zenon DEF FormatInv, FormatShape, Directive
  <2> QED
    BY <1>1, <1>8, <1>10, <2>1, <2>2, <2>3, <2>4 DEF FormatShape
<1>12. Pieces' => Pieces /\ Len(r) < PieceCap
  <2>1. Pieces' <=> Pieces
    BY <1>1, <1>8 DEF Pieces
  <2>2. Pieces => Len(r) < PieceCap
    BY <1>1, <1>2, <1>3, <1>5 DEF Pieces
  <2> QED
    BY <2>1, <2>2
<1>13. FormatMidway'
  <2>1. PICK ws \in Seq(Seq(Nat)) : ws = WordsOf(items) /\ Len(ws) = Len(items)
    BY <1>1, ListsAre
  <2>2. PICK rs \in Seq(Seq(Nat)) : rs = RenderedOf(items) /\ Len(rs) = Len(items)
    BY <1>1, ListsAre
  <2>3. here \in 1..Len(ws) /\ ws[here] = Words(item)
    BY <1>2, <1>3, <2>1 DEF WordsOf
  <2>4. here \in 1..Len(rs) /\ rs[here] = r
    BY <1>2, <1>3, <1>5, <2>2 DEF RenderedOf
  <2>5. PICK b \in Seq(Nat) : b = FlattenSeq(SubSeq(ws, 1, here - 1))
    BY <2>1, <2>3, FlattenNext
  <2>6. FlattenSeq(SubSeq(ws, 1, here)) = b \o Words(item)
    BY <2>1, <2>3, <2>5, FlattenNext
  <2>7. PICK e \in Seq(Nat) : e = FlattenSeq(SubSeq(rs, 1, here - 1))
    BY <2>2, <2>4, FlattenNext
  <2>8. FlattenSeq(SubSeq(rs, 1, here)) = e \o r
    BY <2>2, <2>4, <2>7, FlattenNext
  <2>9. (here + 1) - 1 = here
    BY <1>2
  <2>10. print.argi = Len(b)
    BY <1>1, <1>2, <2>1, <2>5 DEF FormatInv, FormatMidway, Directive
  <2>11. print'.argi = Len(b \o Words(item))
    <3>1. Len(item.stars \o item.value) = Len(item.stars) + Len(item.value)
          /\ item.stars \o item.value \in Seq(Nat)
      BY <1>4, ConcatProperties
    <3>2. Len(b \o Words(item)) = Len(b) + (Len(item.stars) + Len(item.value))
      BY <2>5, <3>1, ConcatProperties DEF Words
    <3>3. PICK before \in Nat, taken \in Nat : before = Len(b) /\ taken = Taken(item.conv)
      BY <1>9, <2>5, LenProperties
    <3>4. taken = Len(item.value)
      BY <1>4, <3>3 DEF Taken
    <3>5. print'.argi = before + len + taken
      BY <1>8, <1>9, <2>10, <3>3
    <3>6. Len(b \o Words(item)) = before + (len + taken)
      BY <1>9, <3>2, <3>3, <3>4
    <3>7. before + len + taken = before + (len + taken)
      <4>1. len \in Nat /\ before \in Nat /\ taken \in Nat
        BY <1>9, <3>3
      <4> QED
        BY <4>1
    <3> QED
      BY <3>5, <3>6, <3>7
  <2>12. ASSUME Pieces'
         PROVE  /\ print'.text = Start(e \o r, FormatCap - 1)
                /\ print'.n = Len(e \o r)
    <3>1. piece = r
      BY <1>6, <1>12, <2>12
    <3>2. print.text = Start(e, FormatCap - 1) /\ print.n = Len(e)
      BY <1>1, <1>2, <1>12, <2>2, <2>7, <2>12 DEF FormatInv, FormatMidway, Directive
    <3>3. FormatCap - 1 \in Nat
      BY <1>4
    <3>4. Start(Start(e, FormatCap - 1) \o r, FormatCap - 1) = Start(e \o r, FormatCap - 1)
      BY <1>5, <2>7, <3>3, StartOver
    <3>5. Len(e \o r) = Len(e) + Len(r)
      BY <1>5, <2>7, ConcatProperties
    <3> QED
      BY <1>8, <3>1, <3>2, <3>4, <3>5 DEF Stored
  <2> QED
    BY <1>8, <2>1, <2>2, <2>6, <2>8, <2>9, <2>11, <2>12 DEF FormatMidway
<1>14. PrintsAsC'
  BY <1>8 DEF PrintsAsC
<1> QED
  BY <1>11, <1>13, <1>14 DEF FormatInv

\* What is handed out is the start of what was printed.
LEMMA DeliverPreserves ==
  ASSUME FormatAssumption, FormatInv, Deliver \/ \E counted \in BOOLEAN : DeliverBounded(counted)
  PROVE  FormatInv'
<1>1. PICK items \in Seq(Items) : items = print.items /\ Len(items) \in Nat
  BY LenProperties DEF FormatInv, FormatShape
<1>2. /\ print.phase = "walk" /\ print.at = Len(items) + 1 /\ print.cap \in Caps \cup {-1}
      /\ print.text \in Seq(Nat) /\ Len(print.text) < FormatCap /\ Len(print.text) \in Nat
      /\ print.n \in Nat
      /\ FormatCap \in Nat \ {0} /\ Caps \subseteq Nat /\ PAST \in Nat
  <2>1. /\ print.cap \in Caps \cup {-1} /\ print.text \in Seq(Nat) /\ Len(print.text) < FormatCap
        /\ print.n \in Nat /\ print.at \in 1..Len(items) + 1
    BY <1>1 DEF FormatInv, FormatShape
  <2>2. print.phase = "walk" /\ print.at > Len(items)
    BY <1>1, Zenon DEF Deliver, DeliverBounded
  <2>3. FormatCap \in Nat \ {0} /\ Caps \subseteq Nat /\ PAST \in Nat
    BY DEF FormatAssumption
  <2>4. Len(print.text) \in Nat
    BY <2>1, LenProperties
  <2>5. print.at = Len(items) + 1
    BY <1>1, <2>1, <2>2
  <2> QED
    BY <2>1, <2>2, <2>3, <2>4, <2>5
<1> DEFINE Given(have) == [k \in 1..(IF have < print.cap - 1 THEN have ELSE print.cap - 1) |->
                             IF k <= Len(print.text) THEN print.text[k] ELSE PAST]
           Gives(got) == /\ print.cap = -1 => got = print.text
                         /\ print.cap = 0 => got = <<>>
                         /\ print.cap \in Nat \ {0} =>
                              \E have \in {print.n, Len(print.text)} : got = Given(have)
<1>3. PICK got \in Seq(Nat) : print' = [print EXCEPT !.phase = "done", !.got = got] /\ Gives(got)
  <2>1. CASE Deliver
    <3>1. print.cap = -1 /\ print' = [print EXCEPT !.phase = "done", !.got = print.text]
      BY <2>1 DEF Deliver
    <3>2. Gives(print.text)
      BY <3>1
    <3> QED
      BY <1>2, <3>1, <3>2
  <2>2. CASE \E counted \in BOOLEAN : DeliverBounded(counted)
    <3>1. print.cap \in Nat
      BY <1>2, <2>2, Zenon DEF DeliverBounded
    <3>2. PICK have \in {print.n, Len(print.text)} :
            print' = [print EXCEPT !.phase = "done",
                                   !.got = IF print.cap = 0 THEN <<>> ELSE Given(have)]
      BY <2>2, Zenon DEF DeliverBounded
    <3>3. CASE print.cap = 0
      <4>1. Gives(<<>>) /\ <<>> \in Seq(Nat)
        BY <3>3
      <4> HIDE DEF Gives, Given
      <4> QED
        BY <3>2, <3>3, <4>1
    <3>4. CASE print.cap # 0
      <4>1. PICK take \in Nat : take = IF have < print.cap - 1 THEN have ELSE print.cap - 1
        BY <1>2, <3>1, <3>2, <3>4
      <4>2. ASSUME NEW k \in 1..take
            PROVE  (IF k <= Len(print.text) THEN print.text[k] ELSE PAST) \in Nat
        <5>1. CASE k <= Len(print.text)
          <6>1. k \in 1..Len(print.text)
            BY <1>2, <4>1, <5>1
          <6>2. print.text[k] \in Nat
            BY <1>2, <6>1, ElementOfSeq
          <6> QED
            BY <5>1, <6>2
        <5> QED
          BY <1>2, <5>1
      <4>3. Given(have) \in [1..take -> Nat]
        BY <4>1, <4>2
      <4>4. Gives(Given(have))
        BY <3>1, <3>2, <3>4, SMTT(30)
      <4> HIDE DEF Gives, Given
      <4>5. Given(have) \in Seq(Nat)
        BY <4>1, <4>3
      <4> QED
        BY <3>2, <3>4, <4>4, <4>5
    <3> QED
      BY <3>3, <3>4, Zenon
  <2> QED
    BY <2>1, <2>2, Zenon
<1>4. /\ print'.phase = "done" /\ print'.items = items /\ print'.cap = print.cap
      /\ print'.n = print.n /\ print'.got = got
  BY <1>1, <1>3 DEF FormatInv, FormatShape
<1>5. FormatShape'
  BY <1>3 DEF FormatInv, FormatShape
<1>6. FormatMidway'
  BY <1>4 DEF FormatMidway
<1>7. ASSUME Pieces', print.cap <= FormatCap
      PROVE  /\ print.n = Len(Expected')
             /\ got = Start(Expected', CASE print.cap = -1 -> FormatCap - 1
                                        [] print.cap = 0 -> 0 [] OTHER -> print.cap - 1)
  <2>1. PICK rs \in Seq(Seq(Nat)) : rs = RenderedOf(items) /\ Len(rs) = Len(items)
    BY <1>1, ListsAre
  <2>2. PICK e \in Seq(Nat) : e = FlattenSeq(rs)
    <3>1. 0 \in 0..Len(rs)
      BY <1>1, <2>1
    <3>2. FlattenSeq(rs) \in Seq(Nat)
      BY <2>1, <3>1, FlattenStarts
    <3> QED
      BY <3>2
  <2>3. Expected' = e
    BY <1>4, <2>1, <2>2 DEF Expected, RenderedOf
  <2>4. Pieces
    BY <1>1, <1>4, <1>7 DEF Pieces
  <2>5. print.text = Start(e, FormatCap - 1) /\ print.n = Len(e)
    <3>1. print.at - 1 = Len(rs)
      BY <1>1, <1>2, <2>1
    <3>2. SubSeq(rs, 1, Len(rs)) = rs
      BY <2>1, SubSeqFull
    <3> QED
      BY <1>1, <1>2, <2>1, <2>2, <2>4, <3>1, <3>2 DEF FormatInv, FormatMidway
  <2>6. PICK n \in Nat : n = Len(e)
    BY <2>2, LenProperties
  <2>7. PICK cap \in Nat : cap = FormatCap - 1
    BY <1>2
  <2>8. /\ Len(print.text) = IF cap < n THEN cap ELSE n
        /\ \A i \in 1..Len(print.text) : print.text[i] = e[i]
    <3>1. Start(e, cap) \in Seq(Nat) /\ Len(Start(e, cap)) = (IF cap < Len(e) THEN cap ELSE Len(e))
          /\ \A i \in 1..Len(Start(e, cap)) : Start(e, cap)[i] = e[i]
      BY <2>2, <2>7, StartIs
    <3>2. print.text = Start(e, cap)
      BY <2>5, <2>7
    <3> QED
      BY <2>6, <3>1, <3>2
  <2>9. CASE print.cap = -1
    BY <1>3, <2>3, <2>5, <2>9
  <2>10. CASE print.cap = 0
    <3>1. Start(e, 0) = <<>>
      <4>1. SubSeq(e, 1, 0) = <<>>
        BY SubSeqEmpty
      <4>2. (IF 0 < Len(e) THEN 0 ELSE Len(e)) = 0
        BY <2>6
      <4> QED
        BY <4>1, <4>2 DEF Start
    <3> QED
      BY <1>3, <2>3, <2>5, <2>10, <3>1
  <2>11. CASE print.cap \in Nat \ {0}
    <3>1. PICK lim \in Nat : lim = print.cap - 1 /\ lim <= cap
      BY <1>2, <1>7, <2>7, <2>11
    <3>2. PICK have \in {print.n, Len(print.text)} :
            got = [k \in 1..(IF have < lim THEN have ELSE lim) |->
                     IF k <= Len(print.text) THEN print.text[k] ELSE PAST]
      BY <1>3, <2>11, <3>1
    <3>3. PICK take \in Nat : take = IF n < lim THEN n ELSE lim
      BY <2>6, <3>1
    <3>4. (IF have < lim THEN have ELSE lim) = take /\ take <= Len(print.text)
      <4>1. print.n = n /\ Len(print.text) = (IF cap < n THEN cap ELSE n)
        BY <2>5, <2>6, <2>8
      <4>2. PICK h \in Nat : h = have /\ (h = n \/ h = IF cap < n THEN cap ELSE n)
        BY <2>6, <2>7, <3>2, <4>1
      <4>3. PICK l \in Nat : l = Len(print.text) /\ l = IF cap < n THEN cap ELSE n
        BY <2>6, <2>7, <4>1
      <4>4. lim <= cap /\ take = IF n < lim THEN n ELSE lim
        BY <3>1, <3>3
      <4>5. n \in Nat /\ cap \in Nat /\ lim \in Nat /\ take \in Nat
        BY <2>6, <2>7, <3>1, <3>3
      <4>6. (IF h < lim THEN h ELSE lim) = take /\ take <= l
        BY <4>2, <4>3, <4>4, <4>5
      <4> QED
        BY <4>2, <4>3, <4>6
    <3>5. got = [k \in 1..take |-> e[k]]
      <4>1. \A k \in 1..take : k <= Len(print.text) /\ k \in 1..Len(print.text)
        BY <1>2, <3>3, <3>4
      <4> QED
        BY <2>8, <3>2, <3>4, <4>1
    <3>6. Start(e, lim) = [k \in 1..take |-> e[k]]
      <4>1. /\ Start(e, lim) \in Seq(Nat) /\ Len(Start(e, lim)) = take
            /\ \A i \in 1..Len(Start(e, lim)) : Start(e, lim)[i] = e[i]
        <5>1. Start(e, lim) \in Seq(Nat) /\ Len(Start(e, lim)) = (IF lim < Len(e) THEN lim ELSE Len(e))
              /\ \A i \in 1..Len(Start(e, lim)) : Start(e, lim)[i] = e[i]
          BY <2>2, <3>1, StartIs
        <5>2. (IF lim < n THEN lim ELSE n) = take
          BY <2>6, <3>1, <3>3
        <5> QED
          BY <2>6, <5>1, <5>2
      <4>2. DOMAIN Start(e, lim) = 1..take /\ Start(e, lim) \in [1..take -> Nat]
        BY <4>1, LenProperties
      <4> QED
        BY <4>1, <4>2
    <3>7. (CASE print.cap = -1 -> FormatCap - 1 [] print.cap = 0 -> 0 [] OTHER -> print.cap - 1) = lim
      BY <2>11, <3>1, SMTT(30)
    <3> QED
      BY <2>3, <2>5, <3>5, <3>6, <3>7
  <2> QED
    BY <1>2, <2>9, <2>10, <2>11
<1>8. PrintsAsC'
  BY <1>4, <1>7 DEF PrintsAsC
<1> QED
  BY <1>5, <1>6, <1>8 DEF FormatInv

\* Every step keeps the invariant.
LEMMA FormatInvNext == FormatAssumption /\ FormatInv /\ [FormatNext]_print => FormatInv'
<1> SUFFICES ASSUME FormatAssumption, FormatInv, [FormatNext]_print PROVE FormatInv'
  OBVIOUS
<1>1. CASE /\ print.phase = "idle"
           /\ \E k \in 0..MaxItems : \E items \in [1..k -> Items], cap \in Caps \cup {-1} :
                Format(items, cap)
  BY <1>1, FormatStarts
<1>2. CASE Directive
  BY <1>2, DirectivePreserves
<1>3. CASE Deliver \/ \E counted \in BOOLEAN : DeliverBounded(counted)
  BY <1>3, DeliverPreserves
<1>4. CASE FormatReturn
  <2>1. print' = FormatIdle /\ FormatCap \in Nat \ {0} /\ MaxItems \in Nat
    BY <1>4 DEF FormatReturn, FormatAssumption
  <2> QED
    BY <2>1 DEF FormatInv, FormatShape, FormatMidway, PrintsAsC, FormatIdle
<1>5. CASE UNCHANGED print
  BY <1>5 DEF FormatInv, FormatShape, FormatMidway, PrintsAsC, Pieces, Expected
<1> QED
  BY <1>1, <1>2, <1>3, <1>4, <1>5 DEF FormatNext

LEMMA FormatInvInit == FormatInit => FormatInv
<1> SUFFICES ASSUME FormatInit PROVE FormatInv
  OBVIOUS
<1>1. print = FormatIdle /\ FormatCap \in Nat \ {0} /\ MaxItems \in Nat
  BY FormatAssumption DEF FormatInit, FormatAssumption
<1> QED
  BY <1>1 DEF FormatInv, FormatShape, FormatMidway, PrintsAsC, FormatIdle

\* What printf hands out is what C's would.
THEOREM PrintfPrintsAsC == FormatSpec => []PrintsAsC
<1>1. FormatInit => FormatInv
  BY FormatInvInit
<1>2. FormatInv /\ [FormatNext]_print => FormatInv'
  BY FormatInvNext, FormatAssumption
<1>3. FormatInv => PrintsAsC
  BY DEF FormatInv
<1> QED
  BY <1>1, <1>2, <1>3, PTL DEF FormatSpec

(***************************************************************************)
(* scanf.                                                                  *)
(***************************************************************************)

\* How far C has come.
Progress == [at : Nat, pos : Nat, stored : Seq(Seq(Characters))]

\* C's walk, directive by directive, and the state it is in after each.
Walks(f, in, fmt) ==
  /\ f \in [0..Len(fmt) -> Progress]
  /\ \A k \in 0..Len(fmt) : f[k].pos \in 1..Len(in) + 1
  /\ f[0] = [at |-> 1, pos |-> 1, stored |-> <<>>]
  /\ \A k \in 1..Len(fmt) :
       LET found == HostScan(fmt[k], in, f[k - 1].pos)
       IN  f[k] = IF f[k - 1].at = k /\ found.ok
                  THEN [at |-> k + 1, pos |-> f[k - 1].pos + found.used,
                        stored |-> IF fmt[k] \in Converts THEN Append(f[k - 1].stored, found.text)
                                   ELSE f[k - 1].stored]
                  ELSE f[k - 1]
  /\ CWalk(in, fmt) = f[Len(fmt)]

ScanShape ==
  /\ scan \in [phase : {"idle", "walk", "done"}, from : {"string", "stream"}, in : Seq(Characters),
               fmt : Seq(ScanItems), nulls : SUBSET Nat, at : Nat, pos : Nat, arg : Nat,
               stored : Seq(Seq(Characters))]
  /\ Len(scan.in) <= MaxInput /\ Len(scan.fmt) <= MaxFormat
  /\ scan.at \in 1..Len(scan.fmt) + 1 /\ scan.pos \in 1..Len(scan.in) + 1
  /\ Len(scan.stored) = scan.arg - 1

\* Formats and inputs about which something is promised.
CPromises ==
  /\ scan.nulls = {}
  /\ IF scan.from = "string" THEN OnlyConversions(scan.fmt) ELSE CMatches(scan.in, scan.fmt)

\* Midway the position is C's, or lags over blanks that the conversions to come
\* pass anyhow.
ScanMidway ==
  scan.phase = "walk" /\ CPromises =>
    \E f : /\ Walks(f, scan.in, scan.fmt)
           /\ f[scan.at - 1].at = scan.at /\ f[scan.at - 1].stored = scan.stored
           /\ scan.pos <= f[scan.at - 1].pos
           /\ \A i \in scan.pos..(f[scan.at - 1].pos - 1) : scan.in[i] = BLANKCHAR
           /\ scan.pos # f[scan.at - 1].pos =>
                /\ scan.from = "string"
                /\ \A m \in scan.at..Len(scan.fmt) : scan.fmt[m] # "c"

ScanInv == ScanShape /\ ScanMidway /\ ScanAgrees

\* The position after the characters of a set.
LEMMA PastIs ==
  ASSUME NEW S, NEW in \in Seq(S), NEW pos \in 1..Len(in) + 1, NEW set
  PROVE  /\ Past(in, pos, set) \in pos..Len(in) + 1
         /\ Past(in, pos, set) \in Nat
         /\ \A i \in pos..(Past(in, pos, set) - 1) : in[i] \in set
         /\ Past(in, pos, set) # Len(in) + 1 => in[Past(in, pos, set)] \notin set
<1>0. PICK n \in Nat : n = Len(in)
  BY LenProperties
<1>1. PICK ends \in SUBSET Nat : ends = {i \in pos..(Len(in) + 1) : i = Len(in) + 1 \/ in[i] \notin set}
  <2>1. pos..(Len(in) + 1) \subseteq Nat
    BY <1>0
  <2>2. {i \in pos..(Len(in) + 1) : i = Len(in) + 1 \/ in[i] \notin set} \subseteq Nat
    BY <2>1, Zenon
  <2> QED
    BY <2>2, Zenon
<1>2. n + 1 \in ends
  BY <1>0, <1>1
<1>3. \E i \in ends : \A j \in ends : i <= j
  BY <1>1, <1>2, LeastNat
<1>4. PICK p : p = Past(in, pos, set)
  OBVIOUS
<1>5. p \in ends /\ \A j \in ends : p <= j
  BY <1>1, <1>3, <1>4 DEF Past
<1>6. p \in pos..n + 1 /\ p \in Nat /\ (p # n + 1 => in[p] \notin set)
  BY <1>0, <1>1, <1>5
<1>7. ASSUME NEW i \in pos..(p - 1) PROVE in[i] \in set
  <2>1. i \in pos..n + 1 /\ i \in Nat /\ ~(p <= i)
    BY <1>0, <1>6
  <2>2. i \notin ends
    BY <1>5, <2>1
  <2> QED
    BY <1>0, <1>1, <2>1, <2>2
<1> QED
  BY <1>0, <1>4, <1>6, <1>7

\* Characters of the set that are passed first make no difference.
LEMMA PastSkips ==
  ASSUME NEW in \in Seq(Characters), NEW pos \in 1..Len(in) + 1, NEW q \in pos..Len(in) + 1, NEW set,
         \A i \in pos..(q - 1) : in[i] \in set
  PROVE  Past(in, pos, set) = Past(in, q, set)
<1>0. PICK n \in Nat : n = Len(in)
  BY LenProperties
<1>1. PICK a \in Nat : /\ a = Past(in, pos, set) /\ a \in pos..n + 1
                       /\ \A i \in pos..(a - 1) : in[i] \in set
                       /\ a # n + 1 => in[a] \notin set
  BY <1>0, PastIs
<1>2. q \in 1..Len(in) + 1 /\ q \in Nat /\ pos \in Nat
  BY <1>0
<1>3. PICK b \in Nat : /\ b = Past(in, q, set) /\ b \in q..n + 1
                       /\ \A i \in q..(b - 1) : in[i] \in set
                       /\ b # n + 1 => in[b] \notin set
  BY <1>0, <1>2, PastIs
<1>4. ~(a < q)
  <2> SUFFICES ASSUME a < q PROVE FALSE
    OBVIOUS
  <2>1. a # n + 1 /\ a \in pos..(q - 1)
    BY <1>0, <1>1, <1>2
  <2> QED
    BY <1>1, <2>1
<1>5. ~(a < b)
  <2> SUFFICES ASSUME a < b PROVE FALSE
    OBVIOUS
  <2>1. a # n + 1 /\ a \in q..(b - 1)
    BY <1>0, <1>1, <1>2, <1>3, <1>4
  <2> QED
    BY <1>1, <1>3, <2>1
<1>6. ~(b < a)
  <2> SUFFICES ASSUME b < a PROVE FALSE
    OBVIOUS
  <2>1. b # n + 1 /\ b \in pos..(a - 1)
    BY <1>0, <1>1, <1>2, <1>3
  <2> QED
    BY <1>1, <1>3, <2>1
<1> QED
  BY <1>1, <1>3, <1>5, <1>6

\* Where a directive begins to read and where it ends.
From(item, in, pos) == IF item \in {"c", "comma"} THEN pos ELSE Past(in, pos, {BLANKCHAR})
Till(item, in, from) ==
  CASE item = "blank" -> from
    [] item \in {"d", "*d"} -> Past(in, from, Digits)
    [] item = "s" -> Past(in, from, Characters \ {BLANKCHAR})
    [] item = "c" -> IF from <= Len(in) THEN from + 1 ELSE from
    [] item = "comma" -> IF from <= Len(in) /\ in[from] = COMMA THEN from + 1 ELSE from

\* What C reads at a position lies in the input.
LEMMA HostScanIs ==
  ASSUME NEW in \in Seq(Characters), NEW pos \in 1..Len(in) + 1, NEW item \in ScanItems
  PROVE  /\ From(item, in, pos) \in pos..Len(in) + 1
         /\ Till(item, in, From(item, in, pos)) \in From(item, in, pos)..Len(in) + 1
         /\ HostScan(item, in, pos).used \in Nat
         /\ pos + HostScan(item, in, pos).used = Till(item, in, From(item, in, pos))
         /\ pos + HostScan(item, in, pos).used \in 1..Len(in) + 1
         /\ HostScan(item, in, pos).ok <=>
              item = "blank" \/ Till(item, in, From(item, in, pos)) > From(item, in, pos)
         /\ HostScan(item, in, pos).text =
              SubSeq(in, From(item, in, pos), Till(item, in, From(item, in, pos)) - 1)
         /\ HostScan(item, in, pos).text \in Seq(Characters)
<1>0. PICK n \in Nat : n = Len(in)
  BY LenProperties
<1>1. PICK from \in Nat : from = From(item, in, pos) /\ from \in pos..n + 1 /\ from \in 1..n + 1
  <2>1. CASE item \in {"c", "comma"}
    BY <1>0, <2>1 DEF From
  <2>2. CASE item \notin {"c", "comma"}
    BY <1>0, <2>2, PastIs DEF From
  <2> QED
    BY <2>1, <2>2
<1>2. PICK till \in Nat : till = Till(item, in, from) /\ till \in from..n + 1
  <2>1. CASE item = "blank"
    BY <1>1, <2>1 DEF Till
  <2>2. CASE item \in {"d", "*d"}
    <3>1. Till(item, in, from) = Past(in, from, Digits)
      BY <2>2 DEF Till
    <3> QED
      BY <1>0, <1>1, <3>1, PastIs
  <2>3. CASE item = "s"
    <3>1. Till(item, in, from) = Past(in, from, Characters \ {BLANKCHAR})
      BY <2>3 DEF Till
    <3> QED
      BY <1>0, <1>1, <3>1, PastIs
  <2>4. CASE item = "c"
    <3>1. Till(item, in, from) = IF from <= Len(in) THEN from + 1 ELSE from
      BY <2>4 DEF Till
    <3> QED
      BY <1>0, <1>1, <3>1
  <2>5. CASE item = "comma"
    <3>1. Till(item, in, from) = IF from <= Len(in) /\ in[from] = COMMA THEN from + 1 ELSE from
      BY <2>5 DEF Till
    <3> QED
      BY <1>0, <1>1, <3>1
  <2> QED
    BY <2>1, <2>2, <2>3, <2>4, <2>5 DEF ScanItems
<1>3. HostScan(item, in, pos) = [ok |-> item = "blank" \/ till > from, used |-> till - pos,
                                 text |-> SubSeq(in, from, till - 1)]
  BY <1>1, <1>2 DEF HostScan, From, Till
<1>4. SubSeq(in, from, till - 1) \in Seq(Characters)
  <2>1. \A i \in from..(till - 1) : in[i] \in Characters
    <3> SUFFICES ASSUME NEW i \in from..(till - 1) PROVE in[i] \in Characters
      OBVIOUS
    <3>1. i \in 1..Len(in)
      BY <1>0, <1>1, <1>2
    <3> QED
      BY <3>1, ElementOfSeq
  <2> QED
    BY <1>1, <1>2, <2>1, SubSeqProperties
<1>5. till - pos \in Nat /\ pos + (till - pos) = till /\ till \in 1..n + 1
  BY <1>0, <1>1, <1>2
<1>6. /\ HostScan(item, in, pos).ok <=> item = "blank" \/ till > from
      /\ HostScan(item, in, pos).used = till - pos
      /\ HostScan(item, in, pos).text = SubSeq(in, from, till - 1)
  <2>1. PICK b : b = (item = "blank" \/ till > from)
    OBVIOUS
  <2>2. PICK u, t : u = till - pos /\ t = SubSeq(in, from, till - 1)
    OBVIOUS
  <2>3. PICK h : h = HostScan(item, in, pos)
    OBVIOUS
  <2>4. h = [ok |-> b, used |-> u, text |-> t]
    BY <1>3, <2>1, <2>2, <2>3, Zenon
  <2>5. h.ok = b /\ h.used = u /\ h.text = t
    BY <2>4
  <2>6. h.ok <=> item = "blank" \/ till > from
    BY <2>1, <2>5, Zenon
  <2> QED
    BY <2>2, <2>3, <2>5, <2>6, Zenon
<1>7. From(item, in, pos) = from /\ Till(item, in, From(item, in, pos)) = till
  BY <1>1, <1>2
<1>8. from \in pos..Len(in) + 1 /\ till \in from..Len(in) + 1 /\ till \in 1..Len(in) + 1
  BY <1>0, <1>1, <1>2, <1>5
<1> QED
  BY <1>4, <1>5, <1>6, <1>7, <1>8

\* The blanks before a directive that skips them make no difference to it.
LEMMA SameFind ==
  ASSUME ScanAssumption, NEW in \in Seq(Characters), NEW pos \in 1..Len(in) + 1, NEW q \in pos..Len(in) + 1,
         NEW item \in ScanItems, \A i \in pos..(q - 1) : in[i] = BLANKCHAR,
         pos = q \/ item \notin {"c", "comma"}
  PROVE  /\ HostScan(item, in, pos).ok <=> HostScan(item, in, q).ok
         /\ HostScan(item, in, pos).text = HostScan(item, in, q).text
         /\ pos + HostScan(item, in, pos).used = q + HostScan(item, in, q).used
<1>1. CASE pos = q
  BY <1>1
<1>2. CASE item \notin {"c", "comma"}
  <2>1. q \in 1..Len(in) + 1
    BY LenProperties
  <2>2. Past(in, pos, {BLANKCHAR}) = Past(in, q, {BLANKCHAR})
    BY PastSkips
  <2>3. From(item, in, pos) = From(item, in, q)
    BY <1>2, <2>2 DEF From
  <2> QED
    BY <2>1, <2>3, HostScanIs
<1> QED
  BY <1>1, <1>2

\* One directive of C's walk.
Stepped(in, fmt, w, k) ==
  LET found == HostScan(fmt[k], in, w.pos)
  IN  IF w.at = k /\ found.ok
      THEN [at |-> k + 1, pos |-> w.pos + found.used,
            stored |-> IF fmt[k] \in Converts THEN Append(w.stored, found.text) ELSE w.stored]
      ELSE w

\* A step of C's walk stays in the input.
LEMMA SteppedIs ==
  ASSUME NEW in \in Seq(Characters), NEW fmt \in Seq(ScanItems), NEW k \in 1..Len(fmt),
         NEW w \in [at : Nat, pos : 1..Len(in) + 1, stored : Seq(Seq(Characters))]
  PROVE  Stepped(in, fmt, w, k) \in [at : Nat, pos : 1..Len(in) + 1, stored : Seq(Seq(Characters))]
<1>1. fmt[k] \in ScanItems
  BY ElementOfSeq
<1>2. PICK found : found = HostScan(fmt[k], in, w.pos)
  OBVIOUS
<1>3. w.pos + found.used \in 1..Len(in) + 1 /\ found.text \in Seq(Characters)
  BY <1>1, <1>2, HostScanIs
<1>4. (IF fmt[k] \in Converts THEN Append(w.stored, found.text) ELSE w.stored) \in Seq(Seq(Characters))
  BY <1>3, AppendProperties
<1>5. k + 1 \in Nat
  BY LenProperties
<1> QED
  BY <1>2, <1>3, <1>4, <1>5 DEF Stepped

\* C's walk along any format.
LEMMA WalkExists ==
  ASSUME NEW in \in Seq(Characters), NEW fmt \in Seq(ScanItems)
  PROVE  \E f : Walks(f, in, fmt)
<1>0. PICK n \in Nat : n = Len(fmt)
  BY LenProperties
<1>1. PICK V : V = [at : Nat, pos : 1..Len(in) + 1, stored : Seq(Seq(Characters))]
  OBVIOUS
<1>2. PICK start : start = [at |-> 1, pos |-> 1, stored |-> <<>>]
  OBVIOUS
<1>3. start \in V
  <2>1. 1 \in 1..Len(in) + 1
    BY LenProperties
  <2>2. <<>> \in Seq(Seq(Characters))
    OBVIOUS
  <2> QED
    BY <1>1, <1>2, <2>1, <2>2
<1> DEFINE Fn == [p \in (1..n) \X V |-> Stepped(in, fmt, p[2], p[1])]
<1>4. Fn \in [(1..n) \X V -> V]
  <2> SUFFICES ASSUME NEW p \in (1..n) \X V PROVE Stepped(in, fmt, p[2], p[1]) \in V
    OBVIOUS
  <2>1. p[1] \in 1..Len(fmt) /\ p[2] \in V
    BY <1>0
  <2> QED
    BY <1>1, <2>1, SteppedIs
<1>5. \A k \in 1..n : \A w \in V : Fn[<<k, w>>] = Stepped(in, fmt, w, k)
  OBVIOUS
<1>6. PICK F \in [(1..n) \X V -> V] : \A k \in 1..n : \A w \in V : F[<<k, w>>] = Stepped(in, fmt, w, k)
  BY <1>4, <1>5
<1>7. PICK f : Unfolds(f, n, V, start, F)
  <2>1. n \in Nat
    BY <1>0
  <2>2. F \in [(1..n) \X V -> V]
    BY <1>6
  <2> QED
    BY <1>3, <2>1, <2>2, Recursion, Zenon
<1>8. f \in [0..n -> V] /\ f[0] = start
  BY <1>7 DEF Unfolds
<1>9. \A k \in 1..n : k - 1 \in 0..n /\ f[k] = Stepped(in, fmt, f[k - 1], k)
  <2> SUFFICES ASSUME NEW k \in 1..n PROVE k - 1 \in 0..n /\ f[k] = Stepped(in, fmt, f[k - 1], k)
    OBVIOUS
  <2>1. k - 1 \in 0..n
    BY <1>0
  <2>2. f[k - 1] \in V
    BY <1>8, <2>1
  <2>3. f[k] = F[<<k, f[k - 1]>>]
    BY <1>7 DEF Unfolds
  <2> QED
    BY <1>6, <2>1, <2>2, <2>3
<1> DEFINE Body(h) == [k \in 0..n |-> IF k = 0 THEN start ELSE Stepped(in, fmt, h[k - 1], k)]
           C == CHOOSE h : h = Body(h)
<1>10. f = Body(f)
  <2>1. \A k \in 0..n : f[k] = IF k = 0 THEN start ELSE Stepped(in, fmt, f[k - 1], k)
    <3> SUFFICES ASSUME NEW k \in 0..n
                 PROVE  f[k] = IF k = 0 THEN start ELSE Stepped(in, fmt, f[k - 1], k)
      OBVIOUS
    <3>1. k # 0 => k \in 1..n
      BY <1>0
    <3> QED
      BY <1>8, <1>9, <3>1, Zenon
  <2> QED
    BY <1>8, <2>1
<1>11. C = Body(C)
  BY <1>10
<1>12. CWalk(in, fmt) = C[n]
  BY <1>0, <1>2 DEF CWalk, Stepped
<1> HIDE DEF C
<1>13. \A k \in 0..n : C[k] = IF k = 0 THEN start ELSE Stepped(in, fmt, C[k - 1], k)
  BY <1>11
<1> DEFINE P == {k \in Nat : k <= n => C[k] = f[k]}
<1>14. 0 \in P
  <2>1. 0 \in 0..n
    BY <1>0
  <2> QED
    BY <1>8, <1>13, <2>1
<1>15. ASSUME NEW k \in Nat, k \in P PROVE k + 1 \in P
  <2> SUFFICES ASSUME k + 1 <= n PROVE C[k + 1] = f[k + 1]
    OBVIOUS
  <2>1. k + 1 \in 0..n /\ k + 1 \in 1..n /\ k + 1 # 0 /\ (k + 1) - 1 = k /\ k <= n
    BY <1>0
  <2>2. C[k + 1] = Stepped(in, fmt, C[k], k + 1)
    BY <1>13, <2>1
  <2>3. f[k + 1] = Stepped(in, fmt, f[k], k + 1)
    BY <1>9, <2>1
  <2> QED
    BY <1>15, <2>1, <2>2, <2>3
<1> HIDE DEF P
<1>16. n \in P
  BY <1>0, <1>14, <1>15, SetInduction
<1>17. CWalk(in, fmt) = f[Len(fmt)]
  BY <1>0, <1>12, <1>16 DEF P
<1>18. f \in [0..Len(fmt) -> Progress] /\ \A k \in 0..Len(fmt) : f[k].pos \in 1..Len(in) + 1
  <2>1. \A k \in 0..Len(fmt) : f[k] \in V
    BY <1>0, <1>8
  <2>2. \A w \in V : w \in Progress /\ w.pos \in 1..Len(in) + 1
    BY <1>1, LenProperties DEF Progress
  <2> QED
    BY <1>0, <1>8, <2>1, <2>2
<1> QED
  BY <1>0, <1>2, <1>8, <1>9, <1>17, <1>18 DEF Walks, Stepped

\* Where C stops it stays.
LEMMA StoppedStays ==
  ASSUME NEW in \in Seq(Characters), NEW fmt \in Seq(ScanItems), NEW f, Walks(f, in, fmt),
         NEW k \in 0..Len(fmt), f[k].at <= k
  PROVE  CWalk(in, fmt) = f[k]
<1>0. PICK n \in Nat : n = Len(fmt)
  BY LenProperties
<1>1. \A m \in 1..n : f[m] = Stepped(in, fmt, f[m - 1], m)
  BY <1>0 DEF Walks, Stepped
<1>2. f[k].at \in Nat
  BY DEF Walks, Progress
<1> DEFINE P == {m \in Nat : k + m <= n => f[k + m] = f[k]}
<1>3. 0 \in P
  BY <1>0
<1>4. ASSUME NEW m \in Nat, m \in P PROVE m + 1 \in P
  <2> SUFFICES ASSUME k + (m + 1) <= n PROVE f[k + (m + 1)] = f[k]
    OBVIOUS
  <2>1. PICK j \in 1..n : j = k + (m + 1) /\ j - 1 = k + m
    BY <1>0
  <2>2. f[j - 1] = f[k] /\ f[k].at # j
    BY <1>0, <1>2, <1>4, <2>1
  <2>3. f[j] = Stepped(in, fmt, f[j - 1], j)
    BY <1>1
  <2> QED
    BY <2>1, <2>2, <2>3 DEF Stepped
<1> HIDE DEF P
<1>5. n - k \in P
  <2>1. n - k \in Nat
    BY <1>0
  <2> QED
    BY <1>3, <1>4, <2>1, SetInduction
<1>6. k + (n - k) = n /\ n <= n
  BY <1>0
<1>7. f[n] = f[k]
  BY <1>5, <1>6 DEF P
<1> QED
  BY <1>0, <1>7 DEF Walks

\* C's next directive, from where the position is, lagging or not.
LEMMA NextFind ==
  ASSUME ScanAssumption, NEW in \in Seq(Characters), NEW fmt \in Seq(ScanItems), NEW f,
         Walks(f, in, fmt), NEW here \in 1..Len(fmt), NEW pos \in 1..Len(in) + 1,
         f[here - 1].at = here, pos <= f[here - 1].pos,
         \A i \in pos..(f[here - 1].pos - 1) : in[i] = BLANKCHAR,
         pos = f[here - 1].pos \/ fmt[here] \notin {"c", "comma"}
  PROVE  LET found == HostScan(fmt[here], in, pos) IN
         /\ found.used \in Nat /\ pos + found.used \in 1..Len(in) + 1
         /\ found.text \in Seq(Characters)
         /\ found.ok => f[here] = [at |-> here + 1, pos |-> pos + found.used,
                                stored |-> IF fmt[here] \in Converts THEN Append(f[here - 1].stored, found.text)
                                           ELSE f[here - 1].stored]
         /\ ~found.ok => f[here] = f[here - 1] /\ CWalk(in, fmt) = f[here - 1]
<1>0. fmt[here] \in ScanItems
  BY ElementOfSeq
<1>1. here - 1 \in 0..Len(fmt) /\ here \in 0..Len(fmt)
  BY LenProperties
<1>2. PICK q : q = f[here - 1].pos
  OBVIOUS
<1>3. q \in pos..Len(in) + 1 /\ q \in 1..Len(in) + 1
  <2>1. q \in 1..Len(in) + 1
    BY <1>1, <1>2 DEF Walks
  <2> QED
    BY <1>2, <2>1
<1>4. PICK mine : mine = HostScan(fmt[here], in, pos)
  OBVIOUS
<1>5. PICK its : its = HostScan(fmt[here], in, q)
  OBVIOUS
<1>6. /\ mine.ok <=> its.ok
      /\ mine.text = its.text /\ pos + mine.used = q + its.used
  BY <1>0, <1>2, <1>3, <1>4, <1>5, SameFind, SMTT(30)
<1>7. mine.used \in Nat /\ pos + mine.used \in 1..Len(in) + 1 /\ mine.text \in Seq(Characters)
  BY <1>0, <1>4, HostScanIs
<1>8. f[here] = Stepped(in, fmt, f[here - 1], here)
  BY DEF Walks, Stepped
<1>9. ASSUME mine.ok
      PROVE  f[here] = [at |-> here + 1, pos |-> pos + mine.used,
                      stored |-> IF fmt[here] \in Converts THEN Append(f[here - 1].stored, mine.text)
                                 ELSE f[here - 1].stored]
  <2>1. its.ok
    BY <1>6, <1>9
  <2>2. f[here] = [at |-> here + 1, pos |-> q + its.used,
                 stored |-> IF fmt[here] \in Converts THEN Append(f[here - 1].stored, its.text)
                            ELSE f[here - 1].stored]
    BY <1>2, <1>5, <1>8, <2>1 DEF Stepped
  <2> QED
    BY <1>6, <2>2
<1>10. ASSUME ~mine.ok PROVE f[here] = f[here - 1] /\ CWalk(in, fmt) = f[here - 1]
  <2>1. ~its.ok
    BY <1>6, <1>10
  <2>2. f[here] = f[here - 1]
    BY <1>2, <1>5, <1>8, <2>1 DEF Stepped
  <2>3. f[here].at <= here
    BY <2>2
  <2>4. CWalk(in, fmt) = f[here]
    BY <1>1, <2>3, StoppedStays
  <2> QED
    BY <2>2, <2>4
<1> QED
  BY <1>4, <1>7, <1>9, <1>10

\* The walk starts where C does.
LEMMA ScanStarts ==
  ASSUME ScanAssumption, ScanInv, NEW from \in {"string", "stream"},
         NEW k \in 0..MaxInput, NEW n \in 0..MaxFormat,
         NEW in \in [1..k -> Characters], NEW fmt \in [1..n -> ScanItems], NEW nulls \in {{}, {2}},
         Scan(from, in, fmt, nulls)
  PROVE  ScanInv'
<1>1. k \in Nat /\ n \in Nat /\ MaxInput \in Nat /\ MaxFormat \in Nat
  BY DEF ScanAssumption
<1>2. in \in Seq(Characters) /\ Len(in) = k /\ fmt \in Seq(ScanItems) /\ Len(fmt) = n
  BY <1>1
<1>3. scan' = [phase |-> "walk", from |-> from, in |-> in, fmt |-> fmt, nulls |-> nulls,
               at |-> 1, pos |-> 1, arg |-> 1, stored |-> <<>>]
  BY DEF Scan, ScanIdle
<1>4. ScanShape'
  <2>1. <<>> \in Seq(Seq(Characters)) /\ Len(<<>>) = 0 /\ nulls \in SUBSET Nat
    OBVIOUS
  <2> QED
    BY <1>1, <1>2, <1>3, <2>1 DEF ScanShape
<1>5. ScanMidway'
  <2>1. PICK f : Walks(f, in, fmt)
    BY <1>2, WalkExists
  <2>2. f[0] = [at |-> 1, pos |-> 1, stored |-> <<>>]
    BY <2>1 DEF Walks
  <2>3. f[0].at = 1 /\ f[0].stored = <<>> /\ f[0].pos = 1
    BY <2>2
  <2>4. /\ scan'.in = in /\ scan'.fmt = fmt /\ scan'.at = 1 /\ scan'.at - 1 = 0 /\ scan'.pos = 1
        /\ scan'.stored = <<>>
    BY <1>3
  <2>5. 1..(1 - 1) = {}
    OBVIOUS
  <2>6. \A i \in 1..(f[0].pos - 1) : in[i] = BLANKCHAR
    BY <2>3, <2>5
  <2>7. 1 <= f[0].pos
    BY <2>3
  <2> QED
    BY <2>1, <2>3, <2>4, <2>6, <2>7 DEF ScanMidway
<1>6. ScanAgrees'
  BY <1>3 DEF ScanAgrees
<1> QED
  BY <1>4, <1>5, <1>6 DEF ScanInv

\* A walk that goes on is in step with C's if it was before.
ScanStep == Convert \/ PassThrough \/ StepOver

\* A run of literals ends within the format.
LEMMA BehindIs ==
  ASSUME scan.fmt \in Seq(ScanItems), scan.at \in 1..Len(scan.fmt)
  PROVE  Behind \in 1..Len(scan.fmt) + 1 /\ Behind \in Nat
<1>1. Len(scan.fmt) \in Nat
  BY LenProperties
<1>2. /\ Past(scan.fmt, scan.at, PassedOver) \in scan.at..Len(scan.fmt) + 1
      /\ Past(scan.fmt, scan.at, PassedOver) \in Nat
  BY <1>1, PastIs
<1>3. Behind = Past(scan.fmt, scan.at, PassedOver) \/ Behind = scan.at + 1
  BY DEF Behind
<1> QED
  BY <1>1, <1>2, <1>3

\* A directive moves on by one, a run of literals that fails to its end.
LEMMA ScanStepShapes ==
  ASSUME ScanAssumption, ScanInv, ScanStep
  PROVE  ScanShape'
<1>1. /\ scan.in \in Seq(Characters) /\ scan.fmt \in Seq(ScanItems)
      /\ scan.at \in 1..Len(scan.fmt) /\ scan.pos \in 1..Len(scan.in) + 1
      /\ Len(scan.fmt) \in Nat /\ Len(scan.in) \in Nat
  BY LenProperties DEF ScanInv, ScanShape, ScanStep, Convert, PassThrough, StepOver, Ended
<1>2. Item \in ScanItems
  BY <1>1, ElementOfSeq DEF Item
<1>3. PICK used \in Nat, text \in Seq(Characters) :
        /\ used = Found.used /\ text = Found.text
        /\ scan.pos + used \in 1..Len(scan.in) + 1
  BY <1>1, <1>2, HostScanIs DEF Found
<1>4. scan.at + 1 \in 1..Len(scan.fmt) + 1 /\ scan.at + 1 \in Nat
  BY <1>1
<1>5. CASE UNCHANGED scan \/ scan' = [scan EXCEPT !.phase = "done"]
  BY <1>5 DEF ScanInv, ScanShape
<1>6. CASE scan' = [scan EXCEPT !.at = @ + 1]
  BY <1>4, <1>6 DEF ScanInv, ScanShape
<1>7. CASE scan' = [scan EXCEPT !.at = Behind, !.pos = @ + Found.used]
  <2>1. scan.pos + used \in Nat
    BY <1>1, <1>3
  <2>2. PICK b \in Nat : b = Behind /\ b \in 1..Len(scan.fmt) + 1
    BY <1>1, BehindIs
  <2>3. scan' = [scan EXCEPT !.at = b, !.pos = scan.pos + used]
    BY <1>3, <1>7, <2>2
  <2> QED
    BY <1>3, <2>1, <2>2, <2>3 DEF ScanInv, ScanShape
<1>8. CASE scan' = [scan EXCEPT !.at = @ + 1, !.pos = @ + Consumed, !.arg = @ + 1,
                               !.stored = Append(@, Found.text)]
  <2>1. scan.pos + used \in Nat
    BY <1>1, <1>3
  <2>2. PICK stored \in Seq(Seq(Characters)) :
          stored = Append(scan.stored, text) /\ Len(stored) = Len(scan.stored) + 1
    <3>1. PICK Text : Text = Seq(Characters)
      OBVIOUS
    <3>2. scan.stored \in Seq(Text) /\ text \in Text
      BY <1>3, <3>1 DEF ScanInv, ScanShape
    <3>3. Append(scan.stored, text) \in Seq(Text) /\ Len(Append(scan.stored, text)) = Len(scan.stored) + 1
      BY <3>2, AppendProperties
    <3> QED
      BY <3>1, <3>3
  <2>3. scan' = [scan EXCEPT !.at = scan.at + 1, !.pos = scan.pos + used, !.arg = scan.arg + 1,
                             !.stored = stored]
    BY <1>3, <1>8, <2>2 DEF Consumed
  <2>4. scan.arg \in Nat /\ Len(scan.stored) = scan.arg - 1
    BY DEF ScanInv, ScanShape
  <2>5. scan.arg + 1 \in Nat /\ Len(stored) = (scan.arg + 1) - 1
    BY <2>2, <2>4
  <2> QED
    BY <1>3, <1>4, <2>1, <2>2, <2>3, <2>5 DEF ScanInv, ScanShape
<1> QED
  BY <1>5, <1>6, <1>7, <1>8 DEF ScanStep, Convert, PassThrough, StepOver

\* A directive keeps the walk beside C's.
LEMMA ScanStepAgrees ==
  ASSUME ScanAssumption, ScanInv, ScanStep, CPromises
  PROVE  ScanMidway' /\ ScanAgrees'
<1>1. PICK in, fmt, here, pos : in = scan.in /\ fmt = scan.fmt /\ here = scan.at /\ pos = scan.pos
  OBVIOUS
<1>2. /\ in \in Seq(Characters) /\ fmt \in Seq(ScanItems)
      /\ here \in 1..Len(fmt) /\ pos \in 1..Len(in) + 1
      /\ Len(fmt) \in Nat /\ Len(in) \in Nat /\ (here + 1) - 1 = here
  BY <1>1, LenProperties, SMTT(30) DEF ScanInv, ScanShape, ScanStep, Convert, PassThrough, StepOver, Ended
<1>3. Item = fmt[here] /\ fmt[here] \in ScanItems
  BY <1>1, <1>2, ElementOfSeq DEF Item
<1>4. scan.phase = "walk" /\ scan.nulls = {}
  BY DEF ScanStep, Convert, PassThrough, StepOver, CPromises
<1>5. PICK f : /\ Walks(f, in, fmt)
               /\ f[here - 1].at = here /\ f[here - 1].stored = scan.stored
               /\ pos <= f[here - 1].pos
               /\ \A i \in pos..(f[here - 1].pos - 1) : in[i] = BLANKCHAR
               /\ pos # f[here - 1].pos =>
                    scan.from = "string" /\ \A m \in here..Len(fmt) : fmt[m] # "c"
  BY <1>1, <1>4 DEF ScanInv, ScanMidway
<1>6. PICK found : found = HostScan(fmt[here], in, pos) /\ found = Found
  BY <1>1, <1>3 DEF Found
<1>7. here \in DOMAIN fmt /\ DOMAIN fmt = 1..Len(fmt)
  BY <1>2, LenProperties
<1>8. scan.from = "string" => /\ fmt[here] \in Converts \cup {"blank"}
                              /\ fmt[here] = "blank" => \A m \in DOMAIN fmt : m > here => fmt[m] # "c"
  BY <1>1, <1>7 DEF CPromises, OnlyConversions
<1>9. pos = f[here - 1].pos \/ fmt[here] \notin {"c", "comma"}
  <2>1. here \in here..Len(fmt)
    BY <1>2
  <2> QED
    BY <1>5, <1>8, <2>1 DEF Converts
<1>10. /\ found.ok => f[here] = [at |-> here + 1, pos |-> pos + found.used,
                               stored |-> IF fmt[here] \in Converts THEN Append(f[here - 1].stored, found.text)
                                          ELSE f[here - 1].stored]
       /\ ~found.ok => CWalk(in, fmt) = f[here - 1]
       /\ found.used \in Nat
  <2>1. /\ f[here - 1].at = here /\ pos <= f[here - 1].pos
        /\ \A i \in pos..(f[here - 1].pos - 1) : in[i] = BLANKCHAR
    BY <1>5
  <2>2. /\ HostScan(fmt[here], in, pos).ok =>
             f[here] = [at |-> here + 1, pos |-> pos + HostScan(fmt[here], in, pos).used,
                      stored |-> IF fmt[here] \in Converts
                                 THEN Append(f[here - 1].stored, HostScan(fmt[here], in, pos).text)
                                 ELSE f[here - 1].stored]
        /\ ~HostScan(fmt[here], in, pos).ok => CWalk(in, fmt) = f[here - 1]
        /\ HostScan(fmt[here], in, pos).used \in Nat
    <3>1. Walks(f, in, fmt)
      BY <1>5
    <3> QED
      BY <1>2, <1>9, <2>1, <3>1, NextFind
  <2> QED
    BY <1>6, <2>2, Zenon
<1>11. CASE Convert /\ found.ok
  <2>1. scan' = [scan EXCEPT !.at = @ + 1, !.pos = @ + Consumed, !.arg = @ + 1,
                             !.stored = Append(@, Found.text)]
    BY <1>4, <1>6, <1>11 DEF Convert
  <2>2. /\ scan'.in = in /\ scan'.fmt = fmt /\ scan'.at = here + 1 /\ scan'.pos = pos + found.used
        /\ scan'.stored = Append(scan.stored, found.text) /\ scan'.phase = "walk"
    BY <1>1, <1>4, <1>6, <2>1 DEF ScanInv, ScanShape, Consumed
  <2>3. fmt[here] \in Converts
    BY <1>3, <1>11 DEF Convert
  <2>4. f[here] = [at |-> here + 1, pos |-> pos + found.used, stored |-> Append(scan.stored, found.text)]
    BY <1>5, <1>10, <1>11, <2>3
  <2>5. f[here].at = here + 1 /\ f[here].pos = pos + found.used /\ f[here].stored = Append(scan.stored, found.text)
    BY <2>4
  <2>6. pos + found.used <= f[here].pos
        /\ \A i \in (pos + found.used)..(f[here].pos - 1) : in[i] = BLANKCHAR
    <3>1. PICK p \in Nat : p = pos + found.used
      BY <1>2, <1>10
    <3>2. p <= p /\ p..(p - 1) = {}
      BY <3>1
    <3> QED
      BY <2>5, <3>1, <3>2
  <2>7. ScanMidway'
    BY <1>2, <1>5, <2>2, <2>5, <2>6 DEF ScanMidway
  <2> QED
    BY <2>2, <2>7 DEF ScanAgrees
<1>12. CASE scan' = [scan EXCEPT !.phase = "done"] /\ ~found.ok
  <2>1. scan'.in = in /\ scan'.fmt = fmt /\ scan'.stored = scan.stored /\ scan'.phase = "done"
    BY <1>1, <1>12 DEF ScanInv, ScanShape
  <2> QED
    BY <1>5, <1>10, <1>12, <2>1 DEF ScanMidway, ScanAgrees
<1>13. CASE PassThrough
  <2>1. scan.from = "stream" /\ fmt[here] \notin Converts
        /\ scan' = [scan EXCEPT !.at = Behind, !.pos = @ + Found.used]
    BY <1>3, <1>13 DEF PassThrough
  <2>2. found.ok
    <3> SUFFICES ASSUME ~found.ok PROVE FALSE
      OBVIOUS
    <3>1. CWalk(in, fmt) = f[here - 1]
      BY <1>10
    <3>2. CMatches(in, fmt)
      BY <1>1, <2>1 DEF CPromises
    <3>3. here <= Len(fmt) => fmt[here] \in Converts
      BY <1>5, <3>1, <3>2 DEF CMatches
    <3> QED
      BY <1>2, <2>1, <3>3
  <2>3. f[here] = [at |-> here + 1, pos |-> pos + found.used, stored |-> scan.stored]
    BY <1>5, <1>10, <2>1, <2>2
  <2>4. f[here].at = here + 1 /\ f[here].pos = pos + found.used /\ f[here].stored = scan.stored
    BY <2>3
  <2>5. /\ scan'.in = in /\ scan'.fmt = fmt /\ scan'.at = here + 1 /\ scan'.pos = pos + found.used
        /\ scan'.stored = scan.stored /\ scan'.phase = "walk"
    <3>1. Behind = here + 1
      BY <1>1, <1>6, <2>2, Zenon DEF Behind
    <3> QED
      BY <1>1, <1>4, <1>6, <2>1, <3>1 DEF ScanInv, ScanShape
  <2>6. pos + found.used <= f[here].pos
        /\ \A i \in (pos + found.used)..(f[here].pos - 1) : in[i] = BLANKCHAR
    <3>1. PICK p \in Nat : p = pos + found.used
      BY <1>2, <1>10
    <3>2. p <= p /\ p..(p - 1) = {}
      BY <3>1
    <3> QED
      BY <2>4, <3>1, <3>2
  <2>7. ScanMidway'
    BY <1>2, <1>5, <2>4, <2>5, <2>6 DEF ScanMidway
  <2> QED
    BY <2>5, <2>7 DEF ScanAgrees
<1>14. CASE StepOver
  <2>1. scan.from = "string" /\ fmt[here] \notin Converts
    BY <1>3, <1>14 DEF StepOver
  <2>2. fmt[here] = "blank" /\ \A m \in DOMAIN fmt : m > here => fmt[m] # "c"
    BY <1>8, <2>1
  <2>3. scan' = [scan EXCEPT !.at = @ + 1]
    BY <1>3, <1>14, <2>2 DEF StepOver
  <2>4. /\ found.ok /\ pos + found.used = Past(in, pos, {BLANKCHAR})
    <3>1. From(fmt[here], in, pos) = Past(in, pos, {BLANKCHAR})
          /\ Till(fmt[here], in, From(fmt[here], in, pos)) = Past(in, pos, {BLANKCHAR})
      BY <2>2 DEF From, Till
    <3> QED
      <4>1. HostScan(fmt[here], in, pos).ok
        BY <1>2, <1>3, <2>2, HostScanIs
      <4>2. pos + HostScan(fmt[here], in, pos).used = Past(in, pos, {BLANKCHAR})
        BY <1>2, <1>3, <3>1, HostScanIs
      <4> QED
        BY <1>6, <4>1, <4>2, Zenon
  <2>5. f[here] = [at |-> here + 1, pos |-> pos + found.used, stored |-> scan.stored]
    BY <1>5, <1>10, <2>1, <2>4
  <2>6. f[here].at = here + 1 /\ f[here].pos = Past(in, pos, {BLANKCHAR}) /\ f[here].stored = scan.stored
    BY <2>4, <2>5
  <2>7. /\ scan'.in = in /\ scan'.fmt = fmt /\ scan'.at = here + 1 /\ scan'.pos = pos
        /\ scan'.stored = scan.stored /\ scan'.phase = "walk" /\ scan'.from = "string"
    BY <1>1, <1>4, <2>1, <2>3 DEF ScanInv, ScanShape
  <2>8. pos <= f[here].pos /\ \A i \in pos..(f[here].pos - 1) : in[i] = BLANKCHAR
    <3>1. PICK p : p = f[here].pos /\ p = Past(in, pos, {BLANKCHAR})
      BY <2>6
    <3>2. /\ Past(in, pos, {BLANKCHAR}) \in pos..Len(in) + 1
          /\ \A i \in pos..(Past(in, pos, {BLANKCHAR}) - 1) : in[i] \in {BLANKCHAR}
      BY <1>2, PastIs
    <3>3. p \in pos..Len(in) + 1 /\ \A i \in pos..(p - 1) : in[i] = BLANKCHAR
      BY <3>1, <3>2
    <3>4. pos <= p
      BY <1>2, <3>3
    <3> QED
      BY <3>1, <3>3, <3>4
  <2>9. \A m \in (here + 1)..Len(fmt) : fmt[m] # "c"
    <3>1. \A m \in (here + 1)..Len(fmt) : m \in 1..Len(fmt) /\ m > here
      BY <1>2
    <3> QED
      BY <1>7, <2>2, <3>1
  <2>10. ScanMidway'
    BY <1>2, <1>5, <2>6, <2>7, <2>8, <2>9 DEF ScanMidway
  <2> QED
    BY <2>7, <2>10 DEF ScanAgrees
<1> QED
  <2>1. CASE Convert
    <3>1. found.ok \/ scan' = [scan EXCEPT !.phase = "done"]
      BY <1>4, <1>6, <2>1 DEF Convert
    <3> QED
      BY <1>11, <1>12, <2>1, <3>1
  <2> QED
    BY <1>13, <1>14, <2>1 DEF ScanStep

\* Both together.
LEMMA ScanStepPreserves ==
  ASSUME ScanAssumption, ScanInv, ScanStep
  PROVE  ScanInv'
<1>1. CASE CPromises
  BY <1>1, ScanStepShapes, ScanStepAgrees DEF ScanInv
<1>2. CASE ~CPromises
  <2>1. CPromises' <=> CPromises
    BY ZenonT(60) DEF ScanInv, ScanShape, ScanStep, Convert, PassThrough, StepOver, CPromises
  <2> QED
    BY <1>2, <2>1, ScanStepShapes DEF ScanInv, ScanMidway, ScanAgrees, CPromises
<1> QED
  BY <1>1, <1>2

\* The end of the walk.
LEMMA ScanEndPreserves ==
  ASSUME ScanAssumption, ScanInv, ScanEnd
  PROVE  ScanInv'
<1>1. scan.phase = "walk" /\ scan' = [scan EXCEPT !.phase = "done"]
  BY DEF ScanEnd
<1>2. /\ scan'.phase = "done" /\ scan'.in = scan.in /\ scan'.fmt = scan.fmt
      /\ scan'.stored = scan.stored /\ scan'.from = scan.from /\ scan'.nulls = scan.nulls
  BY <1>1 DEF ScanInv, ScanShape
<1>3. ScanShape'
  BY <1>1 DEF ScanInv, ScanShape
<1>4. ScanMidway'
  BY <1>2 DEF ScanMidway
<1>5. ScanAgrees'
  <2>1. ASSUME CPromises PROVE scan.stored = CWalk(scan.in, scan.fmt).stored
    <3>1. PICK f : Walks(f, scan.in, scan.fmt) /\ f[scan.at - 1].stored = scan.stored
      BY <1>1, <2>1 DEF ScanInv, ScanMidway
    <3>2. scan.at - 1 = Len(scan.fmt)
      <4>1. Len(scan.fmt) \in Nat /\ scan.at \in 1..Len(scan.fmt) + 1 /\ scan.at > Len(scan.fmt)
        BY LenProperties DEF ScanInv, ScanShape, ScanEnd, Ended
      <4> QED
        BY <4>1
    <3> QED
      BY <3>1, <3>2 DEF Walks
  <2> QED
    BY <1>2, <2>1 DEF ScanAgrees, CPromises
<1> QED
  BY <1>3, <1>4, <1>5 DEF ScanInv

\* Before a call there is nothing to say.
LEMMA ScanIdleInv == ScanAssumption /\ scan = ScanIdle => ScanInv
<1> SUFFICES ASSUME ScanAssumption, scan = ScanIdle PROVE ScanInv
  OBVIOUS
<1>1. MaxInput \in Nat /\ MaxFormat \in Nat
  BY DEF ScanAssumption
<1>2. <<>> \in Seq(Seq(Characters)) /\ <<>> \in Seq(Characters) /\ <<>> \in Seq(ScanItems) /\ Len(<<>>) = 0
  OBVIOUS
<1>3. {} \in SUBSET Nat /\ scan.phase = "idle"
  BY DEF ScanIdle
<1> QED
  BY <1>1, <1>2, <1>3 DEF ScanInv, ScanShape, ScanMidway, ScanAgrees, ScanIdle

\* Every step keeps the invariant.
LEMMA ScanInvNext == ScanAssumption /\ ScanInv /\ [ScanNext]_scan => ScanInv'
<1> SUFFICES ASSUME ScanAssumption, ScanInv, [ScanNext]_scan PROVE ScanInv'
  OBVIOUS
<1>1. CASE \E from \in {"string", "stream"}, k \in 0..MaxInput, n \in 0..MaxFormat :
             \E in \in [1..k -> Characters], fmt \in [1..n -> ScanItems], nulls \in {{}, {2}} :
               Scan(from, in, fmt, nulls)
  <2>1. PICK from \in {"string", "stream"}, k \in 0..MaxInput, n \in 0..MaxFormat :
          \E in \in [1..k -> Characters], fmt \in [1..n -> ScanItems], nulls \in {{}, {2}} :
            Scan(from, in, fmt, nulls)
    BY <1>1
  <2>2. PICK in \in [1..k -> Characters], fmt \in [1..n -> ScanItems], nulls \in {{}, {2}} :
          Scan(from, in, fmt, nulls)
    BY <2>1
  <2>3. /\ from \in {"string", "stream"} /\ k \in 0..MaxInput /\ n \in 0..MaxFormat
        /\ in \in [1..k -> Characters] /\ fmt \in [1..n -> ScanItems] /\ nulls \in {{}, {2}}
        /\ Scan(from, in, fmt, nulls)
    BY <2>1, <2>2
  <2> QED
    BY <2>3, ScanStarts, Zenon
<1>2. CASE ScanStep
  BY <1>2, ScanStepPreserves
<1>3. CASE ScanEnd
  BY <1>3, ScanEndPreserves
<1>4. CASE ScanReturn
  <2>1. scan' = ScanIdle
    BY <1>4 DEF ScanReturn
  <2>2. MaxInput \in Nat /\ MaxFormat \in Nat
    BY DEF ScanAssumption
  <2>3. <<>> \in Seq(Seq(Characters)) /\ <<>> \in Seq(Characters) /\ <<>> \in Seq(ScanItems) /\ Len(<<>>) = 0
    OBVIOUS
  <2>4. {} \in SUBSET Nat /\ scan'.phase = "idle"
    BY <2>1 DEF ScanIdle
  <2> QED
    BY <2>1, <2>2, <2>3, <2>4 DEF ScanInv, ScanShape, ScanMidway, ScanAgrees, ScanIdle
<1>5. CASE UNCHANGED scan
  <2>1. scan' = scan
    BY <1>5
  <2>2. ScanShape'
    BY <2>1 DEF ScanInv, ScanShape
  <2>3. ScanMidway'
    BY <2>1, Zenon DEF ScanInv, ScanMidway, CPromises
  <2>4. ScanAgrees'
    BY <2>1, Zenon DEF ScanInv, ScanAgrees
  <2> QED
    BY <2>2, <2>3, <2>4 DEF ScanInv
<1>6. Convert \/ PassThrough \/ StepOver => ScanStep
  BY DEF ScanStep
<1> QED
  BY <1>1, <1>2, <1>3, <1>4, <1>5, <1>6 DEF ScanNext

\* What scanf stores is what C's would.
THEOREM ScanfAgrees == ScanSpec => []ScanAgrees
<1>1. ScanInit => ScanInv
  BY ScanIdleInv, ScanAssumption DEF ScanInit
<1>2. ScanInv /\ [ScanNext]_scan => ScanInv'
  BY ScanInvNext, ScanAssumption
<1>3. ScanInv => ScanAgrees
  BY DEF ScanInv
<1> QED
  BY <1>1, <1>2, <1>3, PTL DEF ScanSpec

(***************************************************************************)
(* The Cg compiler.                                                        *)
(***************************************************************************)

\* Joining two lists joins what they make.
LEMMA FlattenConcat ==
  ASSUME NEW S, NEW ss \in Seq(Seq(S)), NEW tt \in Seq(Seq(S))
  PROVE  /\ FlattenSeq(ss) \in Seq(S) /\ FlattenSeq(tt) \in Seq(S)
         /\ FlattenSeq(ss \o tt) = FlattenSeq(ss) \o FlattenSeq(tt)
<1>0. PICK k, n \in Nat : k = Len(ss) /\ n = Len(tt)
  BY LenProperties
<1>1. PICK T : T = Seq(S)
  OBVIOUS
<1>2. FlattenSeq(ss) \in Seq(S) /\ FlattenSeq(tt) \in Seq(S)
  <2>1. k \in 0..Len(ss) /\ n \in 0..Len(tt)
    BY <1>0
  <2> QED
    BY <2>1, FlattenStarts
<1>3. ASSUME NEW m \in 0..n
      PROVE  \E u \in Seq(T) : /\ u = ss \o SubSeq(tt, 1, m) /\ Len(u) = k + m
                               /\ \A i \in 1..k : u[i] = ss[i]
                               /\ \A i \in 1..m : u[k + i] = tt[i]
  <2>1. PICK v \in Seq(T) : v = SubSeq(tt, 1, m) /\ Len(v) = m /\ \A i \in 1..m : v[i] = tt[i]
    <3>1. m \in 0..Len(tt) /\ tt \in Seq(T)
      BY <1>0, <1>1
    <3> QED
      BY <3>1, FirstOnes, ZenonT(60)
  <2>2. ss \in Seq(T)
    BY <1>1
  <2>3. /\ ss \o v \in Seq(T) /\ Len(ss \o v) = k + m
        /\ \A i \in 1..k + m : (ss \o v)[i] = IF i <= k THEN ss[i] ELSE v[i - k]
    BY <2>1, <2>2, <1>0, ConcatProperties
  <2>4. ASSUME NEW i \in 1..m PROVE (ss \o v)[k + i] = tt[i]
    <3>1. k + i \in 1..k + m /\ ~(k + i <= k) /\ (k + i) - k = i
      BY <1>0
    <3>2. (ss \o v)[k + i] = v[i]
      BY <2>3, <3>1
    <3> QED
      BY <2>1, <3>2
  <2>5. ASSUME NEW i \in 1..k PROVE (ss \o v)[i] = ss[i]
    <3>1. i \in 1..k + m /\ i <= k
      BY <1>0
    <3> QED
      BY <2>3, <3>1
  <2> QED
    BY <2>1, <2>3, <2>4, <2>5
<1>2a. \A f, g, e \in Seq(S) : (f \o g) \o e = f \o (g \o e)
  BY ConcatAssociative
<1> DEFINE Both(m) == FlattenSeq(ss \o SubSeq(tt, 1, m))
           Second(m) == FlattenSeq(SubSeq(tt, 1, m))
           P == {m \in Nat : m <= n => Both(m) = FlattenSeq(ss) \o Second(m)}
<1>4. 0 \in P
  <2>1. SubSeq(tt, 1, 0) = <<>>
    BY SubSeqEmpty
  <2>2. ss \o <<>> = ss
    BY ConcatEmptySeq
  <2>3. FlattenSeq(ss) \o <<>> = FlattenSeq(ss)
    BY <1>2, ConcatEmptySeq
  <2> QED
    BY <2>1, <2>2, <2>3, FlattenNone
<1>5. ASSUME NEW m \in Nat, m \in P PROVE m + 1 \in P
  <2> SUFFICES ASSUME m + 1 <= n PROVE Both(m + 1) = FlattenSeq(ss) \o Second(m + 1)
    OBVIOUS
  <2>1. m \in 0..n /\ m + 1 \in 0..n /\ m + 1 \in 1..Len(tt) /\ (m + 1) - 1 = m /\ m + 1 \in 1..m + 1
    BY <1>0
  <2>2. PICK u \in Seq(T) : /\ u = ss \o SubSeq(tt, 1, m) /\ Len(u) = k + m
                            /\ \A i \in 1..k : u[i] = ss[i]
                            /\ \A i \in 1..m : u[k + i] = tt[i]
    BY <1>3, <2>1
  <2>3. PICK w \in Seq(T) : /\ w = ss \o SubSeq(tt, 1, m + 1) /\ Len(w) = k + (m + 1)
                            /\ \A i \in 1..k : w[i] = ss[i]
                            /\ \A i \in 1..m + 1 : w[k + i] = tt[i]
    BY <1>3, <2>1
  <2>4. /\ FlattenSeq(SubSeq(tt, 1, (m + 1) - 1)) \in Seq(S) /\ tt[m + 1] \in Seq(S)
        /\ FlattenSeq(SubSeq(tt, 1, m + 1))
             = FlattenSeq(SubSeq(tt, 1, (m + 1) - 1)) \o tt[m + 1]
    BY <2>1, FlattenNext
  <2>5. Second(m) \in Seq(S) /\ Second(m + 1) = Second(m) \o tt[m + 1]
    BY <2>1, <2>4
  <2>6. Len(w) = Len(u) + 1
    BY <1>0, <2>2, <2>3
  <2>6a. w[Len(u) + 1] = tt[m + 1]
    <3>1. Len(u) + 1 = k + (m + 1)
      BY <1>0, <2>2, SMTT(30)
    <3> QED
      BY <2>1, <2>3, <3>1
  <2>7. ASSUME NEW i \in 1..Len(u) PROVE w[i] = u[i]
    <3>1. CASE i <= k
      BY <1>0, <2>2, <2>3, <3>1
    <3>2. CASE ~(i <= k)
      <4>1. PICK j \in 1..m : i = k + j
        <5>1. i - k \in 1..m /\ i = k + (i - k)
          BY <1>0, <2>2, <3>2
        <5> QED
          BY <5>1
      <4>2. j \in 1..m + 1
        OBVIOUS
      <4> QED
        BY <2>2, <2>3, <4>1, <4>2
    <3> QED
      BY <3>1, <3>2
  <2>8. FlattenSeq(u) \in Seq(S) /\ FlattenSeq(w) = FlattenSeq(u) \o tt[m + 1]
    <3>1. PICK a, b \in Seq(Seq(S)) : a = u /\ b = w
      BY <1>1, <2>2, <2>3
    <3>2. PICK e \in Seq(S) : e = tt[m + 1]
      BY <2>4
    <3>3. Len(b) = Len(a) + 1 /\ b[Len(a) + 1] = e
      BY <2>6, <2>6a, <3>1, <3>2
    <3>4. \A i \in 1..Len(a) : b[i] = a[i]
      BY <2>7, <3>1
    <3>5. FlattenSeq(a) \in Seq(S) /\ FlattenSeq(b) = FlattenSeq(a) \o e
      BY <3>1, <3>2, <3>3, <3>4, FlattenMore, ZenonT(60)
    <3> QED
      BY <3>1, <3>2, <3>5
  <2>9. Both(m) = FlattenSeq(ss) \o Second(m)
    BY <1>5, <2>1
  <2>10. FlattenSeq(u) = FlattenSeq(ss) \o Second(m) /\ Both(m + 1) = FlattenSeq(w)
    BY <2>2, <2>3, <2>9
  <2>11. PICK f, g, e \in Seq(S) : f = FlattenSeq(ss) /\ g = Second(m) /\ e = tt[m + 1]
    BY <1>2, <2>4, <2>5
  <2>12. (f \o g) \o e = f \o (g \o e)
    BY <1>2a, <2>11, ZenonT(60)
  <2>13. Both(m + 1) = (f \o g) \o e /\ Second(m + 1) = g \o e
    BY <2>5, <2>8, <2>10, <2>11
  <2> HIDE DEF Both, Second
  <2> QED
    BY <2>11, <2>12, <2>13
<1> HIDE DEF P
<1>6. n \in P
  BY <1>0, <1>4, <1>5, SetInduction
<1>7. FlattenSeq(ss \o SubSeq(tt, 1, n)) = FlattenSeq(ss) \o FlattenSeq(SubSeq(tt, 1, n))
  BY <1>6 DEF P
<1>8. SubSeq(tt, 1, n) = tt
  BY <1>0, SubSeqFull
<1> QED
  BY <1>2, <1>7, <1>8

\* Joining sequences of one element each.
LEMMA FlattenOnes ==
  ASSUME NEW S, NEW x \in Seq(S), NEW ss \in Seq(Seq(S)), Len(ss) = Len(x),
         \A i \in 1..Len(x) : ss[i] = <<x[i]>>
  PROVE  FlattenSeq(ss) = x
<1>0. PICK n \in Nat : n = Len(x)
  BY LenProperties
<1> DEFINE P == {m \in Nat : m <= n => FlattenSeq(SubSeq(ss, 1, m)) = SubSeq(x, 1, m)}
<1>1. 0 \in P
  <2>1. SubSeq(ss, 1, 0) = <<>> /\ SubSeq(x, 1, 0) = <<>>
    BY SubSeqEmpty
  <2> QED
    BY <2>1, FlattenNone
<1>2. ASSUME NEW m \in Nat, m \in P PROVE m + 1 \in P
  <2> SUFFICES ASSUME m + 1 <= n
               PROVE  FlattenSeq(SubSeq(ss, 1, m + 1)) = SubSeq(x, 1, m + 1)
    OBVIOUS
  <2>1. m + 1 \in 1..Len(ss) /\ m + 1 \in 1..Len(x) /\ (m + 1) - 1 = m /\ m <= n
        /\ 1 \in 1..Len(x) /\ m + 1 \in 1..m + 1 /\ m + 1 \in 1..n
    BY <1>0
  <2>2. FlattenSeq(SubSeq(ss, 1, m + 1)) = FlattenSeq(SubSeq(ss, 1, (m + 1) - 1)) \o ss[m + 1]
    BY <2>1, FlattenNext
  <2>3. SubSeq(x, 1, m + 1) = SubSeq(x, 1, (m + 1) - 1) \o <<x[m + 1]>>
    BY <2>1, SubSeqRecursiveSecond
  <2>4. FlattenSeq(SubSeq(ss, 1, m)) = SubSeq(x, 1, m)
    BY <1>2, <2>1
  <2> QED
    BY <2>1, <2>2, <2>3, <2>4
<1> HIDE DEF P
<1>3. n \in P
  BY <1>0, <1>1, <1>2, SetInduction
<1>4. FlattenSeq(SubSeq(ss, 1, n)) = SubSeq(x, 1, n)
  BY <1>3 DEF P
<1>5. SubSeq(ss, 1, n) = ss /\ SubSeq(x, 1, n) = x
  BY <1>0, SubSeqFull
<1> QED
  BY <1>4, <1>5

\* A sequence read backwards.
LEMMA ReverseIs ==
  ASSUME NEW S, NEW b \in Seq(S), NEW n \in Nat, n = Len(b)
  PROVE  /\ Reverse(b) \in Seq(S) /\ Len(Reverse(b)) = n
         /\ \A i \in 1..n : Reverse(b)[i] = b[(n - i) + 1]
<1>1. \A i \in 1..n : b[(n - i) + 1] \in S
  <2> SUFFICES ASSUME NEW i \in 1..n PROVE b[(n - i) + 1] \in S
    OBVIOUS
  <2>1. (n - i) + 1 \in 1..Len(b)
    OBVIOUS
  <2> QED
    BY <2>1, ElementOfSeq
<1> DEFINE r == [i \in 1..n |-> b[(n - i) + 1]]
<1>2. r = Reverse(b)
  BY DEF Reverse
<1>3. r \in Seq(S) /\ Len(r) = n
  BY <1>1
<1>4. \A i \in 1..n : r[i] = b[(n - i) + 1]
  OBVIOUS
<1> HIDE DEF r
<1> QED
  BY <1>2, <1>3, <1>4

\* A sequence ends what it is put behind.
LEMMA ConcatEnds ==
  ASSUME NEW S, NEW a \in Seq(S), NEW b \in Seq(S)
  PROVE  IsSuffix(b, a \o b)
<1>0. PICK k, n \in Nat : k = Len(a) /\ n = Len(b)
  BY LenProperties
<1>1. PICK c \in Seq(S) : c = a \o b /\ Len(c) = k + n /\ \A i \in 1..n : c[k + i] = b[i]
  <2>1. /\ a \o b \in Seq(S) /\ Len(a \o b) = k + n
        /\ \A i \in 1..k + n : (a \o b)[i] = IF i <= k THEN a[i] ELSE b[i - k]
    BY <1>0, ConcatProperties
  <2>2. ASSUME NEW i \in 1..n PROVE (a \o b)[k + i] = b[i]
    <3>1. k + i \in 1..k + n /\ ~(k + i <= k) /\ (k + i) - k = i
      BY <1>0
    <3> QED
      BY <2>1, <3>1
  <2> QED
    BY <2>1, <2>2
<1>1a. k + n \in Nat
  BY <1>0
<1>2. PICK rb \in Seq(S) : /\ rb = Reverse(b) /\ Len(rb) = n
                           /\ \A i \in 1..n : rb[i] = b[(n - i) + 1]
  BY <1>0, ReverseIs
<1>3. PICK rc \in Seq(S) : /\ rc = Reverse(c) /\ Len(rc) = k + n
                           /\ \A i \in 1..k + n : rc[i] = c[((k + n) - i) + 1]
  <2>1. PICK z \in Nat : z = k + n
    BY <1>1a
  <2>2. c \in Seq(S) /\ z = Len(c)
    BY <1>1, <2>1
  <2>3. /\ Reverse(c) \in Seq(S) /\ Len(Reverse(c)) = z
        /\ \A i \in 1..z : Reverse(c)[i] = c[(z - i) + 1]
    BY <2>1, <2>2, ReverseIs
  <2> QED
    BY <2>1, <2>3
<1>4. ASSUME NEW i \in 1..n PROVE rb[i] = rc[i]
  <2>1. (n - i) + 1 \in 1..n /\ ((k + n) - i) + 1 = k + ((n - i) + 1) /\ i \in 1..k + n
    BY <1>0
  <2>2. rb[i] = b[(n - i) + 1] /\ rc[i] = c[((k + n) - i) + 1]
    BY <1>2, <1>3, <2>1
  <2> QED
    BY <1>1, <2>1, <2>2
<1>5. SubSeq(rb, 1, n) = SubSeq(rc, 1, n)
  <2>1. n \in 0..Len(rb) /\ n \in 0..Len(rc)
    BY <1>0, <1>2, <1>3
  <2>2. PICK u \in Seq(S) : u = SubSeq(rb, 1, n) /\ Len(u) = n /\ \A i \in 1..n : u[i] = rb[i]
    BY <1>2, <2>1, FirstOnes
  <2>3. PICK v \in Seq(S) : v = SubSeq(rc, 1, n) /\ Len(v) = n /\ \A i \in 1..n : v[i] = rc[i]
    <3>1. rc \in Seq(S) /\ n \in 0..Len(rc)
      BY <1>3, <2>1
    <3>2. /\ SubSeq(rc, 1, n) \in Seq(S) /\ Len(SubSeq(rc, 1, n)) = n
          /\ \A i \in 1..n : SubSeq(rc, 1, n)[i] = rc[i]
      BY <3>1, FirstOnes
    <3> QED
      BY <3>2
  <2>4. Len(u) = Len(v) /\ \A i \in 1..Len(u) : u[i] = v[i]
    BY <1>4, <2>2, <2>3
  <2>5. u = v
    BY <2>4, SeqEqual
  <2> QED
    BY <2>2, <2>3, <2>5
<1>6. Len(rb) <= Len(rc)
  BY <1>0, <1>2, <1>3
<1>7. IsPrefix(rb, rc)
  BY <1>2, <1>5, <1>6 DEF IsPrefix
<1> QED
  BY <1>1, <1>2, <1>3, <1>7 DEF IsSuffix

\* What ends with a sequence that is not empty ends with the sequence's last.
LEMMA EndsAlike ==
  ASSUME NEW S, NEW b \in Seq(S), b # <<>>, NEW c \in Seq(S), IsSuffix(b, c)
  PROVE  b[Len(b)] = c[Len(c)]
<1>0. PICK k, n \in Nat : k = Len(c) /\ n = Len(b) /\ n >= 1
  BY LenProperties, EmptySeq
<1>2. PICK rb \in Seq(S) : /\ rb = Reverse(b) /\ Len(rb) = n
                           /\ \A i \in 1..n : rb[i] = b[(n - i) + 1]
  BY <1>0, ReverseIs
<1>3. PICK rc \in Seq(S) : /\ rc = Reverse(c) /\ Len(rc) = k
                           /\ \A i \in 1..k : rc[i] = c[(k - i) + 1]
  BY <1>0, ReverseIs
<1>4. n <= k /\ SubSeq(rb, 1, n) = SubSeq(rc, 1, n)
  <2>1. IsPrefix(rb, rc)
    BY <1>2, <1>3 DEF IsSuffix
  <2> QED
    BY <2>1, <1>2, <1>3 DEF IsPrefix
<1>5. rb[1] = b[n] /\ rc[1] = c[k]
  <2>1. 1 \in 1..n /\ 1 \in 1..k /\ (n - 1) + 1 = n /\ (k - 1) + 1 = k
    BY <1>0, <1>4
  <2> QED
    BY <1>2, <1>3, <2>1
<1>6. SubSeq(rb, 1, n)[1] = rb[1] /\ SubSeq(rc, 1, n)[1] = rc[1]
  <2>1. n \in 0..Len(rb) /\ n \in 0..Len(rc) /\ 1 \in 1..n
    BY <1>0, <1>2, <1>3, <1>4
  <2>2. \A i \in 1..n : SubSeq(rb, 1, n)[i] = rb[i]
    BY <1>2, <2>1, FirstOnes
  <2>3. \A i \in 1..n : SubSeq(rc, 1, n)[i] = rc[i]
    BY <1>3, <2>1, FirstOnes
  <2> QED
    BY <2>1, <2>2, <2>3
<1> QED
  BY <1>0, <1>4, <1>5, <1>6

\* What a text is made of.
Written == Plain \cup DOMAIN Headers

\* Code alone: what is left of a text when its comments are taken out.
Uncommented == Code \cup DOMAIN Headers

Stripped(text) == [i \in DOMAIN text |-> IF text[i] = COMMENT THEN <<>> ELSE <<text[i]>>]

\* Taking out the comments.
LEMMA KeptIs ==
  ASSUME NEW S, NEW T, S \subseteq T \cup {COMMENT}, NEW a \in Seq(S)
  PROVE  /\ Stripped(a) \in Seq(Seq(T)) /\ Len(Stripped(a)) = Len(a)
         /\ \A i \in 1..Len(a) : Stripped(a)[i] = IF a[i] = COMMENT THEN <<>> ELSE <<a[i]>>
<1>0. PICK n \in Nat : n = Len(a) /\ DOMAIN a = 1..n
  BY LenProperties
<1>1. \A i \in 1..n : (IF a[i] = COMMENT THEN <<>> ELSE <<a[i]>>) \in Seq(T)
  <2> SUFFICES ASSUME NEW i \in 1..n
               PROVE  (IF a[i] = COMMENT THEN <<>> ELSE <<a[i]>>) \in Seq(T)
    OBVIOUS
  <2>1. CASE a[i] = COMMENT
    BY <2>1, EmptySeq
  <2>2. CASE a[i] # COMMENT
    <3>1. a[i] \in S
      BY <1>0, ElementOfSeq
    <3>2. PICK e \in T : e = a[i]
      BY <2>2, <3>1
    <3>3. <<e>> \in Seq(T)
      BY <3>2
    <3> QED
      BY <2>2, <3>2, <3>3
  <2> QED
    BY <2>1, <2>2
<1>2. PICK Q : Q = Seq(T)
  OBVIOUS
<1> DEFINE k == [i \in 1..n |-> IF a[i] = COMMENT THEN <<>> ELSE <<a[i]>>]
<1>3. Stripped(a) = k
  BY <1>0 DEF Stripped
<1>4. \A i \in 1..n : k[i] = IF a[i] = COMMENT THEN <<>> ELSE <<a[i]>>
  OBVIOUS
<1>5. k \in [1..n -> Q]
  BY <1>1, <1>2
<1> HIDE DEF k
<1>6. k \in Seq(Q) /\ Len(k) = n
  BY <1>5
<1> QED
  BY <1>0, <1>2, <1>3, <1>4, <1>6

\* A text without its comments.
LEMMA StripIs ==
  ASSUME NEW S, NEW T, S \subseteq T \cup {COMMENT}, NEW a \in Seq(S)
  PROVE  StripCode(a) \in Seq(T) /\ StripCode(a) = FlattenSeq(Stripped(a))
<1>1. StripCode(a) = FlattenSeq(Stripped(a))
  BY DEF StripCode, Stripped
<1>2. Stripped(a) \in Seq(Seq(T))
  BY KeptIs
<1>3. PICK n \in Nat : n = Len(Stripped(a)) /\ n \in 0..Len(Stripped(a))
  <2>1. PICK Q : Q = Seq(T) /\ Stripped(a) \in Seq(Q)
    BY <1>2
  <2>2. Len(Stripped(a)) \in Nat
    BY <2>1, LenProperties
  <2> QED
    BY <2>2
<1>4. FlattenSeq(Stripped(a)) \in Seq(T)
  BY <1>2, <1>3, FlattenStarts
<1> QED
  BY <1>1, <1>4

\* Text by text.
LEMMA StripConcat ==
  ASSUME NEW S, NEW T, S \subseteq T \cup {COMMENT}, NEW a \in Seq(S), NEW b \in Seq(S)
  PROVE  StripCode(a \o b) = StripCode(a) \o StripCode(b)
<1>0. PICK k, n \in Nat : k = Len(a) /\ n = Len(b)
  BY LenProperties
<1>1. /\ a \o b \in Seq(S) /\ Len(a \o b) = k + n
      /\ \A i \in 1..k + n : (a \o b)[i] = IF i <= k THEN a[i] ELSE b[i - k]
  BY <1>0, ConcatProperties
<1>2. PICK c \in Seq(S) : /\ c = a \o b /\ Len(c) = k + n
                          /\ \A i \in 1..k + n : c[i] = IF i <= k THEN a[i] ELSE b[i - k]
  BY <1>1
<1>3. PICK Q : Q = Seq(T)
  OBVIOUS
<1>4. PICK ka \in Seq(Q) : /\ ka = Stripped(a) /\ Len(ka) = k
                           /\ \A i \in 1..k : ka[i] = IF a[i] = COMMENT THEN <<>> ELSE <<a[i]>>
  BY <1>0, <1>3, KeptIs
<1>5. PICK kb \in Seq(Q) : /\ kb = Stripped(b) /\ Len(kb) = n
                           /\ \A i \in 1..n : kb[i] = IF b[i] = COMMENT THEN <<>> ELSE <<b[i]>>
  BY <1>0, <1>3, KeptIs
<1>6. PICK kc \in Seq(Q) :
        /\ kc = Stripped(c) /\ Len(kc) = k + n
        /\ \A i \in 1..k + n : kc[i] = IF c[i] = COMMENT THEN <<>> ELSE <<c[i]>>
  <2>1. /\ Stripped(c) \in Seq(Q) /\ Len(Stripped(c)) = Len(c)
        /\ \A i \in 1..Len(c) : Stripped(c)[i] = IF c[i] = COMMENT THEN <<>> ELSE <<c[i]>>
    BY <1>3, KeptIs
  <2> QED
    BY <1>2, <2>1
<1>7. /\ ka \o kb \in Seq(Q) /\ Len(ka \o kb) = k + n
      /\ \A i \in 1..k + n : (ka \o kb)[i] = IF i <= k THEN ka[i] ELSE kb[i - k]
  <2>1. ka \in Seq(Q) /\ kb \in Seq(Q) /\ Len(ka) = k /\ Len(kb) = n
    BY <1>4, <1>5
  <2>2. /\ ka \o kb \in Seq(Q) /\ Len(ka \o kb) = Len(ka) + Len(kb)
        /\ \A i \in 1 .. Len(ka) + Len(kb) :
             (ka \o kb)[i] = IF i <= Len(ka) THEN ka[i] ELSE kb[i - Len(ka)]
    BY <2>1, ConcatProperties
  <2> QED
    BY <2>1, <2>2, Zenon
<1>8. PICK kk \in Seq(Q) : /\ kk = ka \o kb /\ Len(kk) = k + n
                           /\ \A i \in 1..k + n : kk[i] = IF i <= k THEN ka[i] ELSE kb[i - k]
  BY <1>7
<1>9. ASSUME NEW i \in 1..k + n PROVE kk[i] = kc[i]
  <2>1. CASE i <= k
    <3>1. i \in 1..k
      BY <1>0, <2>1
    <3>2. c[i] = a[i] /\ kk[i] = ka[i]
      BY <1>2, <1>8, <2>1
    <3>3. ka[i] = IF a[i] = COMMENT THEN <<>> ELSE <<a[i]>>
      BY <1>4, <3>1
    <3>4. kc[i] = IF c[i] = COMMENT THEN <<>> ELSE <<c[i]>>
      BY <1>6
    <3> QED
      BY <3>2, <3>3, <3>4, Zenon
  <2>2. CASE ~(i <= k)
    <3>1. i - k \in 1..n
      BY <1>0, <2>2
    <3>2. c[i] = b[i - k] /\ kk[i] = kb[i - k]
      BY <1>2, <1>8, <2>2
    <3>3. kb[i - k] = IF b[i - k] = COMMENT THEN <<>> ELSE <<b[i - k]>>
      BY <1>5, <3>1
    <3>4. kc[i] = IF c[i] = COMMENT THEN <<>> ELSE <<c[i]>>
      BY <1>6
    <3> QED
      BY <3>2, <3>3, <3>4, Zenon
  <2> QED
    BY <2>1, <2>2
<1>10. kk = kc
  <2>1. Len(kk) = Len(kc) /\ \A i \in 1..Len(kk) : kk[i] = kc[i]
    BY <1>6, <1>8, <1>9
  <2>2. kk \in Seq(Q) /\ kc \in Seq(Q)
    BY <1>6, <1>8
  <2> QED
    BY <2>1, <2>2, SeqEqual
<1>11. ka \in Seq(Seq(T)) /\ kb \in Seq(Seq(T))
  BY <1>3, <1>4, <1>5
<1>12. FlattenSeq(ka \o kb) = FlattenSeq(ka) \o FlattenSeq(kb)
  BY <1>11, FlattenConcat
<1>13. StripCode(a) = FlattenSeq(ka) /\ StripCode(b) = FlattenSeq(kb) /\ StripCode(c) = FlattenSeq(kc)
  BY <1>4, <1>5, <1>6, StripIs
<1> QED
  BY <1>2, <1>8, <1>10, <1>12, <1>13

\* A text without comments.
LEMMA StripBare ==
  ASSUME NEW S, COMMENT \notin S, NEW a \in Seq(S)
  PROVE  StripCode(a) = a
<1>0. PICK n \in Nat : n = Len(a)
  BY LenProperties
<1>1. S \subseteq S \cup {COMMENT}
  OBVIOUS
<1>2. PICK ka \in Seq(Seq(S)) : /\ ka = Stripped(a) /\ Len(ka) = Len(a)
         /\ \A i \in 1..Len(a) : ka[i] = IF a[i] = COMMENT THEN <<>> ELSE <<a[i]>>
  BY <1>1, KeptIs
<1>3. ASSUME NEW i \in 1..Len(a) PROVE ka[i] = <<a[i]>>
  <2>1. a[i] \in S
    BY ElementOfSeq
  <2> QED
    BY <1>2, <2>1
<1>4. FlattenSeq(ka) = a
  BY <1>2, <1>3, FlattenOnes
<1> QED
  BY <1>1, <1>2, <1>4, StripIs
----------------------------------------------------------------------------
\* The last include of a text lies in it.
LEMMA LastIncludeIs ==
  ASSUME NEW text \in Seq(Written)
  PROVE  LastInclude(text) \in 0..Len(text)
<1>0. PICK n \in Nat : n = Len(text) /\ DOMAIN text = 1..n
  BY LenProperties
<1> DEFINE lines == {i \in DOMAIN text : text[i] \in DOMAIN Headers}
<1>1. lines \subseteq 1..n
  BY <1>0
<1>2. LastInclude(text) = IF lines = {} THEN 0
                          ELSE CHOOSE i \in lines : \A j \in lines : j <= i
  BY DEF LastInclude
<1> HIDE DEF lines
<1>3. CASE lines # {}
  <2> DEFINE rest == {n - i : i \in lines}
  <2>1. rest \in SUBSET Nat /\ rest # {}
    <3>1. ASSUME NEW i \in lines PROVE n - i \in Nat
      <4>1. i \in 1..n
        BY <1>1
      <4> QED
        BY <1>0, <4>1
    <3> QED
      BY <1>3, <3>1
  <2>2. PICK m \in rest : \A k \in rest : m <= k
    BY <2>1, LeastNat
  <2>3. PICK i \in lines : m = n - i
    BY <2>2
  <2>4. ASSUME NEW j \in lines PROVE j <= i
    <3>1. n - j \in rest
      OBVIOUS
    <3>2. n - i <= n - j
      BY <2>2, <2>3, <3>1
    <3>3. i \in 1..n /\ j \in 1..n
      BY <1>1, <2>3
    <3> QED
      BY <1>0, <3>2, <3>3
  <2>5. (CHOOSE x \in lines : \A j \in lines : j <= x) \in lines
    BY <2>3, <2>4
  <2>6. LastInclude(text) \in 1..n
    BY <1>1, <1>2, <1>3, <2>5
  <2> QED
    BY <1>0, <2>6
<1>4. CASE lines = {}
  <2>1. LastInclude(text) = 0
    BY <1>2, <1>4
  <2> QED
    BY <1>0, <2>1
<1> QED
  BY <1>3, <1>4

\* A file's own code, and what the preprocessor makes of what stands before it.
Top(text) == SubSeq(text, 1, LastInclude(text))
Pasted(text) ==
  FlattenSeq([i \in DOMAIN Top(text) |->
    IF Top(text)[i] \in DOMAIN Headers THEN Headers[Top(text)[i]] ELSE <<Top(text)[i]>>])

\* What follows the last include is a text.
LEMMA OwnCodeIs ==
  ASSUME NEW text \in Seq(Written)
  PROVE  OwnCode(text) \in Seq(Written)
<1>0. PICK n \in Nat : n = Len(text)
  BY LenProperties
<1>1. PICK l \in 0..n : l = LastInclude(text)
  BY <1>0, LastIncludeIs
<1>2. \A i \in l + 1 .. n : text[i] \in Written
  <2> SUFFICES ASSUME NEW i \in l + 1 .. n PROVE text[i] \in Written
    OBVIOUS
  <2>1. i \in 1..Len(text)
    BY <1>0
  <2> QED
    BY <2>1, ElementOfSeq
<1>3. l + 1 \in Int /\ n \in Int
  BY <1>0
<1>4. SubSeq(text, l + 1, n) \in Seq(Written)
  BY <1>2, <1>3, SubSeqProperties
<1> QED
  BY <1>0, <1>1, <1>4 DEF OwnCode

\* So is what is pasted before it.
LEMMA PastedIs ==
  ASSUME NEW text \in Seq(Written)
  PROVE  Pasted(text) \in Seq(Written)
<1>0. PICK n \in Nat : n = Len(text)
  BY LenProperties
<1>1. PICK l \in 0..n : l = LastInclude(text)
  BY <1>0, LastIncludeIs
<1>2. l \in 0..Len(text)
  BY <1>0, <1>1
<1>3. PICK top \in Seq(Written) : top = Top(text) /\ Len(top) = l /\ DOMAIN top = 1..l
  <2>1. SubSeq(text, 1, l) \in Seq(Written) /\ Len(SubSeq(text, 1, l)) = l
    BY <1>2, FirstOnes
  <2>2. DOMAIN SubSeq(text, 1, l) = 1..l
    BY <2>1, LenProperties
  <2> QED
    BY <1>1, <1>0, <2>1, <2>2, Zenon DEF Top
<1>4. PICK Q : Q = Seq(Written)
  OBVIOUS
<1>5. \A i \in 1..l : (IF top[i] \in DOMAIN Headers THEN Headers[top[i]] ELSE <<top[i]>>) \in Q
  <2> SUFFICES ASSUME NEW i \in 1..l
               PROVE  (IF top[i] \in DOMAIN Headers THEN Headers[top[i]] ELSE <<top[i]>>) \in Q
    OBVIOUS
  <2>1. CASE top[i] \in DOMAIN Headers
    <3>1. Headers[top[i]] \in Seq(Plain)
      BY <2>1, CgAssumption DEF CgAssumption
    <3>2. PICK h \in Seq(Plain) : h = Headers[top[i]]
      BY <3>1
    <3>3. Plain \subseteq Written
      BY DEF Written
    <3>4. h \in Seq(Written)
      BY <3>2, <3>3, SeqMonotonic
    <3> QED
      BY <1>4, <2>1, <3>2, <3>4
  <2>2. CASE top[i] \notin DOMAIN Headers
    <3>1. PICK e \in Written : e = top[i]
      BY <1>3, ElementOfSeq
    <3>2. <<e>> \in Seq(Written)
      BY <3>1
    <3> QED
      BY <1>4, <2>2, <3>1, <3>2
  <2> QED
    BY <2>1, <2>2
<1> DEFINE f == [i \in 1..l |-> IF top[i] \in DOMAIN Headers THEN Headers[top[i]] ELSE <<top[i]>>]
<1>6. Pasted(text) = FlattenSeq(f)
  BY <1>3 DEF Pasted
<1>7. f \in [1..l -> Q]
  BY <1>5
<1> HIDE DEF f
<1>8. f \in Seq(Q) /\ Len(f) = l
  BY <1>3, <1>7
<1>9. f \in Seq(Seq(Written)) /\ l \in 0..Len(f)
  BY <1>3, <1>4, <1>8
<1> QED
  BY <1>6, <1>9, FlattenStarts

\* What the preprocessor hands over, without its comments.
LEMMA PreprocessedIs ==
  ASSUME NEW text \in Seq(Written), NEW way \in Ways
  PROVE  /\ way # "rewritten" =>
              StripCode(Preprocessed(text, way)) = StripCode(Pasted(text)) \o StripCode(OwnCode(text))
         /\ way = "rewritten" =>
              StripCode(Preprocessed(text, way)) = StripCode(Pasted(text)) \o <<REWRITTEN>>
<1>1. PICK a, b \in Seq(Written) : a = Pasted(text) /\ b = OwnCode(text)
  BY PastedIs, OwnCodeIs
<1>2. Preprocessed(text, way) = CASE way = "comments" -> a \o b
                                  [] way = "bare" -> StripCode(a \o b)
                                  [] way = "rewritten" -> StripCode(a) \o <<REWRITTEN>>
  BY <1>1 DEF Preprocessed, Pasted, Top, OwnCode
<1>3. Written \subseteq Uncommented \cup {COMMENT} /\ COMMENT \notin Uncommented
  BY CgAssumption DEF CgAssumption, Written, Uncommented, Plain
<1>4. StripCode(a \o b) = StripCode(a) \o StripCode(b)
  BY <1>1, <1>3, StripConcat
<1>5. StripCode(a) \in Seq(Uncommented) /\ StripCode(a \o b) \in Seq(Uncommented)
  <2>1. a \o b \in Seq(Written)
    BY <1>1, ConcatProperties
  <2> QED
    BY <1>1, <1>3, <2>1, StripIs
<1>6. CASE way = "comments"
  BY <1>1, <1>2, <1>4, <1>6
<1>7. CASE way = "bare"
  <2>1. PICK c \in Seq(Uncommented) : c = StripCode(a \o b)
    BY <1>5
  <2>2. StripCode(c) = c
    BY <1>3, <2>1, StripBare
  <2> QED
    BY <1>1, <1>2, <1>4, <1>7, <2>1, <2>2
<1>8. CASE way = "rewritten"
  <2> DEFINE all == Uncommented \cup {REWRITTEN}
  <2>1. COMMENT \notin all
    BY <1>3, CgAssumption DEF CgAssumption
  <2>2. PICK c \in Seq(all) : c = StripCode(a)
    <3>1. Uncommented \subseteq all
      OBVIOUS
    <3> QED
      BY <1>5, <3>1, SeqMonotonic
  <2>3. PICK r \in Seq(all) : r = <<REWRITTEN>>
    <3>1. PICK e \in all : e = REWRITTEN
      OBVIOUS
    <3> HIDE DEF all
    <3>2. <<e>> \in Seq(all)
      BY <3>1
    <3> QED
      BY <3>1, <3>2
  <2> HIDE DEF all
  <2>4. PICK d \in Seq(all) : d = c \o r
    BY <2>2, <2>3, ConcatProperties
  <2>5. StripCode(d) = d
    BY <2>1, <2>4, StripBare
  <2>6. Preprocessed(text, way) = c \o r
    BY <1>2, <1>8, <2>2, <2>3
  <2> QED
    BY <1>1, <1>8, <2>2, <2>3, <2>4, <2>5, <2>6
<1> QED
  BY <1>6, <1>7, <1>8 DEF Ways

\* How many of the files lie among the first k.
Rank(k) == Cardinality({j \in Files : j <= k})

\* The files are numbered without a gap.
LEMMA NthExists ==
  ASSUME disc \in Discs, NEW i \in 1..Cardinality(Files)
  PROVE  Nth(i) \in Files /\ Rank(Nth(i)) = i
<1>0. PICK n \in Nat : n = Len(disc) /\ DOMAIN disc = 1..n
  BY CgAssumption, LenProperties DEF CgAssumption
<1>1. Files \subseteq 1..n /\ IsFiniteSet(Files) /\ Cardinality(Files) \in Nat
  <2>1. Files \subseteq 1..n
    BY <1>0 DEF Files
  <2>2. IsFiniteSet(1..n)
    BY <1>0, FS_Interval
  <2> QED
    BY <2>1, <2>2, FS_Subset, FS_CardinalityType
<1>1a. \A j \in Files : j \in Nat /\ 1 <= j /\ j <= n
  BY <1>0, <1>1
<1>2. PICK N \in Nat : N = Cardinality(Files) /\ i \in 1..N
  BY <1>1
<1>3. \A k \in Nat : IsFiniteSet({j \in Files : j <= k}) /\ Rank(k) \in Nat
  <2> SUFFICES ASSUME NEW k \in Nat
               PROVE  IsFiniteSet({j \in Files : j <= k}) /\ Rank(k) \in Nat
    OBVIOUS
  <2>1. {j \in Files : j <= k} \subseteq Files
    OBVIOUS
  <2>2. IsFiniteSet({j \in Files : j <= k})
    BY <1>1, <2>1, FS_Subset
  <2> QED
    BY <2>2, FS_CardinalityType DEF Rank
<1>4. Rank(0) = 0
  <2>1. {j \in Files : j <= 0} = {}
    BY <1>1a
  <2> QED
    BY <2>1, FS_EmptySet DEF Rank
<1>5. Rank(n) = N
  <2>1. {j \in Files : j <= n} = Files
    BY <1>1a
  <2> QED
    BY <1>2, <2>1 DEF Rank
<1>6. ASSUME NEW k \in Nat
      PROVE  Rank(k + 1) = IF k + 1 \in Files THEN Rank(k) + 1 ELSE Rank(k)
  <2> DEFINE A == {j \in Files : j <= k}
  <2>1. IsFiniteSet(A) /\ k + 1 \notin A
    BY <1>3
  <2>1a. \A j \in Files : j <= k + 1 <=> j <= k \/ j = k + 1
    BY <1>1a
  <2>2. CASE k + 1 \in Files
    <3>1. {j \in Files : j <= k + 1} = A \cup {k + 1}
      BY <2>1a, <2>2, Zenon
    <3> HIDE DEF A
    <3>2. Cardinality(A \cup {k + 1}) = Cardinality(A) + 1
      BY <2>1, FS_AddElement
    <3> QED
      BY <2>2, <3>1, <3>2 DEF Rank, A
  <2>3. CASE k + 1 \notin Files
    <3>1. {j \in Files : j <= k + 1} = A
      BY <2>1a, <2>3, Zenon
    <3> QED
      BY <2>3, <3>1 DEF Rank
  <2> QED
    BY <2>2, <2>3
<1> DEFINE T == {k \in Nat : Rank(k) >= i}
<1>7. T \in SUBSET Nat /\ T # {}
  <2>1. n \in T
    BY <1>0, <1>2, <1>5
  <2> QED
    BY <2>1
<1>8. PICK k \in T : \A m \in T : k <= m
  BY <1>7, LeastNat
<1>9. k \in Nat /\ Rank(k) >= i /\ k # 0
  BY <1>2, <1>4, <1>8
<1>10. PICK m \in Nat : k = m + 1 /\ m \notin T
  <2>1. k - 1 \in Nat /\ k = (k - 1) + 1 /\ ~(k <= k - 1)
    BY <1>9
  <2>2. k - 1 \notin T
    BY <1>8, <2>1
  <2> QED
    BY <2>1, <2>2
<1>11. k \in Files /\ Rank(k) = i
  <2>1. Rank(m) \in Nat /\ Rank(m) < i
    <3>1. Rank(m) \in Nat /\ ~(Rank(m) >= i)
      BY <1>3, <1>10
    <3>2. PICK r \in Nat : r = Rank(m) /\ ~(r >= i)
      BY <3>1
    <3>3. r < i
      BY <1>2, <3>2
    <3> QED
      BY <3>1, <3>2, <3>3
  <2>2. Rank(m + 1) = IF m + 1 \in Files THEN Rank(m) + 1 ELSE Rank(m)
    BY <1>6, <1>10
  <2>3. Rank(m + 1) >= i
    BY <1>9, <1>10
  <2>4. PICK r \in Nat : r = Rank(m)
    BY <2>1
  <2>5. m + 1 \in Files
    BY <1>2, <2>1, <2>2, <2>3, <2>4
  <2>6. Rank(m + 1) = i
    BY <1>2, <2>1, <2>2, <2>3, <2>4, <2>5
  <2> QED
    BY <1>10, <2>5, <2>6
<1>12. Nth(i) = CHOOSE x \in Files : Rank(x) = i
  BY DEF Nth, Rank
<1> QED
  BY <1>11, <1>12

\* The table: an entry for each of the first files, none twice.
Table == [i \in 1..Room(Cardinality(Files)) |-> Entry(Nth(i))]

\* What the entries are, each of another file.
LEMMA TableIs ==
  ASSUME disc \in Discs
  PROVE  /\ \E n \in 0..MaxShaders : DOMAIN Table = 1..n
         /\ \A i \in DOMAIN Table :
              /\ Table[i].file \in DOMAIN disc
              /\ Table[i].body = StripCode(OwnCode(disc[Table[i].file].text))
              /\ disc[Table[i].file].text \in Seq(Written)
              /\ Table[i].body \in Seq(Uncommented)
         /\ \A i, j \in DOMAIN Table : Table[i].file = Table[j].file => i = j
<1>0. PICK n \in Nat : n = Len(disc) /\ DOMAIN disc = 1..n
  BY CgAssumption, LenProperties DEF CgAssumption
<1>1. Files \subseteq 1..n /\ Cardinality(Files) \in Nat
  <2>1. Files \subseteq 1..n
    BY <1>0 DEF Files
  <2>2. IsFiniteSet(1..n)
    BY <1>0, FS_Interval
  <2> QED
    BY <2>1, <2>2, FS_Subset, FS_CardinalityType
<1>2. PICK N \in Nat : N = Room(Cardinality(Files)) /\ N <= MaxShaders /\ N <= Cardinality(Files)
  BY <1>1, CgAssumption DEF CgAssumption, Room
<1>3. ASSUME NEW i \in 1..N
      PROVE  Nth(i) \in Files /\ Rank(Nth(i)) = i
  <2>1. i \in 1..Cardinality(Files)
    BY <1>1, <1>2
  <2> QED
    BY <2>1, NthExists
<1>4. DOMAIN Table = 1..N /\ \A i \in 1..N : Table[i] = Entry(Nth(i))
  BY <1>2 DEF Table
<1>5. ASSUME NEW i \in 1..N
      PROVE  /\ Table[i].file = Nth(i) /\ Nth(i) \in DOMAIN disc
             /\ Table[i].body = StripCode(OwnCode(disc[Nth(i)].text))
             /\ disc[Nth(i)].text \in Seq(Written)
             /\ Table[i].body \in Seq(Uncommented)
  <2>1. Table[i].file = Nth(i) /\ Table[i].body = StripCode(OwnCode(disc[Nth(i)].text))
    BY <1>4 DEF Entry
  <2>2. Nth(i) \in DOMAIN disc
    BY <1>3 DEF Files
  <2>3. disc[Nth(i)].text \in Seq(Written)
    <3>1. disc \in Seq([text : Seq(Plain \cup DOMAIN Headers), defs : Seq(STRING) \cup {NOTHING}])
      BY CgAssumption DEF CgAssumption
    <3>2. Nth(i) \in 1..Len(disc)
      BY <1>0, <2>2
    <3>3. disc[Nth(i)] \in [text : Seq(Plain \cup DOMAIN Headers), defs : Seq(STRING) \cup {NOTHING}]
      BY <3>1, <3>2, ElementOfSeq
    <3> QED
      BY <3>3 DEF Written
  <2>4. PICK own \in Seq(Written) : own = OwnCode(disc[Nth(i)].text)
    BY <2>3, OwnCodeIs
  <2>5. Written \subseteq Uncommented \cup {COMMENT}
    BY DEF Written, Uncommented, Plain
  <2>6. StripCode(own) \in Seq(Uncommented)
    BY <2>4, <2>5, StripIs
  <2> QED
    BY <2>1, <2>2, <2>3, <2>4, <2>6
<1>6. ASSUME NEW i \in 1..N, NEW j \in 1..N, Table[i].file = Table[j].file
      PROVE  i = j
  <2>1. Nth(i) = Nth(j)
    BY <1>5, <1>6
  <2> QED
    BY <1>3, <2>1
<1>7. N \in 0..MaxShaders
  BY <1>2, CgAssumption DEF CgAssumption
<1> QED
  BY <1>4, <1>5, <1>6, <1>7

----------------------------------------------------------------------------
\* The table is made at the first call and holds; what was asked for last got
\* the handle the table gives.
ShadersInv ==
  /\ disc \in Discs /\ indexed \in BOOLEAN
  /\ shaders = IF indexed /\ teaDir THEN Table ELSE <<>>
  /\ asked = NotAsked \/
     /\ indexed
     /\ asked.file \in DOMAIN disc /\ asked.defs \in Variants /\ asked.way \in Ways
     /\ asked.handle = Hit(StripCode(Preprocessed(disc[asked.file].text, asked.way)),
                           ArgsDefines(asked.defs), shaders)

\* At first there is nothing to say.
LEMMA ShadersStart == CgInit => ShadersInv
BY DEF CgInit, ShadersInv

\* The table an index gives.
LEMMA IndexedIs ==
  ASSUME ShadersInv
  PROVE  Indexed = IF teaDir THEN Table ELSE <<>>
BY DEF ShadersInv, Indexed, Table

\* A call makes the table, or finds it made, and asks it.
LEMMA ShadersSteps ==
  ASSUME ShadersInv, [CgNext]_cgVars
  PROVE  ShadersInv'
<1>1. CASE UNCHANGED cgVars
  <2>1. disc' = disc /\ teaDir' = teaDir /\ indexed' = indexed /\ shaders' = shaders /\ asked' = asked
    BY <1>1 DEF cgVars
  <2> QED
    BY <2>1, SMTT(30) DEF ShadersInv, Table, Room, Files, Entry, Nth
<1>2. ASSUME disc' = disc, teaDir' = teaDir PROVE Table' = Table
  BY <1>2 DEF Table, Room, Files, Entry, Nth
<1>3. CASE CreateContext
  <2>1. /\ indexed' = TRUE /\ shaders' = Indexed
        /\ disc' = disc /\ teaDir' = teaDir /\ asked' = asked
    BY <1>3 DEF CreateContext
  <2>2. Table' = Table
    BY <1>2, <2>1
  <2>3. shaders' = IF indexed' /\ teaDir' THEN Table' ELSE <<>>
    BY <2>1, <2>2, IndexedIs
  <2>4. asked' = NotAsked \/ shaders' = shaders
    BY <2>1, IndexedIs DEF ShadersInv
  <2>5. NotAsked' = NotAsked
    BY DEF NotAsked
  <2> HIDE DEF Table
  <2> QED
    BY <2>1, <2>3, <2>4, <2>5 DEF ShadersInv
<1>4. ASSUME NEW k \in DOMAIN disc, NEW defs \in Variants, NEW way \in Ways, CreateProgram(k, defs, way)
      PROVE  ShadersInv'
  <2>1. /\ indexed' = TRUE /\ shaders' = Indexed /\ disc' = disc /\ teaDir' = teaDir
        /\ asked' = [file |-> k, defs |-> defs, way |-> way,
               handle |-> Hit(StripCode(Preprocessed(disc[k].text, way)),
                              ArgsDefines(defs), Indexed)]
    BY <1>4 DEF CreateProgram
  <2>2. Table' = Table
    BY <1>2, <2>1
  <2>3. shaders' = IF indexed' /\ teaDir' THEN Table' ELSE <<>>
    BY <2>1, <2>2, IndexedIs
  <2>4. /\ asked'.file = k /\ asked'.defs = defs /\ asked'.way = way
        /\ asked'.handle = Hit(StripCode(Preprocessed(disc'[k].text, way)),
                              ArgsDefines(defs), shaders')
    BY <2>1
  <2>5. disc' \in Discs /\ indexed' \in BOOLEAN
    BY <2>1 DEF ShadersInv
  <2>6. k \in DOMAIN disc'
    BY <2>1
  <2> QED
    BY <2>1, <2>3, <2>4, <2>5, <2>6 DEF ShadersInv
<1> QED
  BY <1>1, <1>3, <1>4 DEF CgNext

\* Of the entries with a file's definitions, the file's own is found.
LEMMA ShadersRight == ShadersInv => RightProgram
<1> DEFINE k == asked.file
           mine == StripCode(Preprocessed(disc[k].text, asked.way))
           rivals == Rivals(k, asked.defs)
<1> SUFFICES ASSUME ShadersInv, k # 0,
                    \E i \in DOMAIN shaders : shaders[i].file = k /\ shaders[i].defs = asked.defs,
                    Len(asked.defs) <= ArgLimit,
                    StripCode(OwnCode(disc[k].text)) # <<>>,
                    \A i \in rivals : ~CodeEnds(mine, shaders[i].body)
             PROVE  ProgramFile(asked.handle) =
                      IF asked.way = "rewritten" /\ rivals # {} THEN 0 ELSE k
  BY DEF RightProgram
<1> HIDE DEF mine, rivals
<1>1. PICK own \in DOMAIN shaders : shaders[own].file = k /\ shaders[own].defs = asked.defs
  OBVIOUS
<1>2. shaders = Table
  <2>1. DOMAIN <<>> = {}
    OBVIOUS
  <2> QED
    BY <1>1, <2>1 DEF ShadersInv
<1>3. /\ \E n \in 0..MaxShaders : DOMAIN shaders = 1..n
      /\ \A i \in DOMAIN shaders :
              /\ shaders[i].file \in DOMAIN disc
              /\ shaders[i].body = StripCode(OwnCode(disc[shaders[i].file].text))
              /\ disc[shaders[i].file].text \in Seq(Written)
              /\ shaders[i].body \in Seq(Uncommented)
      /\ \A i, j \in DOMAIN shaders : shaders[i].file = shaders[j].file => i = j
  <2>1. disc \in Discs
    BY DEF ShadersInv
  <2> HIDE DEF Table
  <2> QED
    BY <1>2, <2>1, TableIs
<1>4. asked.way \in Ways /\ asked.defs \in Variants /\ asked.handle = Hit(mine, ArgsDefines(asked.defs), shaders)
  <2>1. asked # NotAsked
    BY DEF NotAsked
  <2> QED
    BY <2>1 DEF ShadersInv, mine
<1>5. ArgsDefines(asked.defs) = asked.defs
  <2>1. PICK d \in Seq(STRING) : d = asked.defs
    BY <1>4, CgAssumption DEF CgAssumption
  <2>2. (IF Len(d) < ArgLimit THEN Len(d) ELSE ArgLimit) = Len(d)
    <3>1. Len(d) \in Nat /\ ArgLimit \in Nat /\ Len(d) <= ArgLimit
      BY <2>1, LenProperties, CgAssumption DEF CgAssumption
    <3> QED
      BY <3>1
  <2>3. SubSeq(d, 1, Len(d)) = d
    BY <2>1, SubSeqFull
  <2> QED
    BY <2>1, <2>2, <2>3 DEF ArgsDefines
<1> DEFINE same == {i \in DOMAIN shaders : shaders[i].defs = asked.defs}
           hits == {i \in same : CodeEnds(mine, shaders[i].body)}
<1>6. asked.handle = IF hits # {} THEN CHOOSE i \in hits : \A j \in hits : i <= j
                     ELSE IF \E i \in same : same = {i} THEN CHOOSE i \in same : TRUE
                     ELSE 0
  BY <1>4, <1>5 DEF Hit
<1>7. same = rivals \cup {own} /\ own \notin rivals
  BY <1>1, <1>3 DEF rivals, Rivals
<1>8. disc[k].text \in Seq(Written) /\ own \in Nat /\ 0 \notin DOMAIN shaders
  BY <1>1, <1>3
<1>9. shaders[own].body = StripCode(OwnCode(disc[k].text)) /\ shaders[own].body # <<>>
  BY <1>1, <1>3
<1>10. CASE asked.way # "rewritten"
  <2>1. mine = StripCode(Pasted(disc[k].text)) \o StripCode(OwnCode(disc[k].text))
    BY <1>4, <1>8, <1>10, PreprocessedIs DEF mine
  <2>2. PICK a, b \in Seq(Uncommented) : a = StripCode(Pasted(disc[k].text)) /\ b = shaders[own].body
    <3>1. PICK p \in Seq(Written) : p = Pasted(disc[k].text)
      BY <1>8, PastedIs
    <3>2. Written \subseteq Uncommented \cup {COMMENT}
      BY DEF Written, Uncommented, Plain
    <3>3. StripCode(p) \in Seq(Uncommented)
      BY <3>1, <3>2, StripIs
    <3> QED
      BY <1>3, <3>1, <3>3
  <2>3. IsSuffix(b, a \o b)
    BY <2>2, ConcatEnds
  <2>4. CodeEnds(mine, shaders[own].body)
    BY <1>9, <2>1, <2>2, <2>3 DEF CodeEnds
  <2>5. hits = {own}
    BY <1>7, <2>4
  <2> HIDE DEF hits, same
  <2>6. asked.handle = CHOOSE i \in hits : \A j \in hits : i <= j
    BY <1>6, <2>5
  <2>7. asked.handle = own
    BY <1>8, <2>5, <2>6
  <2> QED
    BY <1>1, <1>10, <2>7 DEF ProgramFile
<1>11. CASE asked.way = "rewritten"
  <2> DEFINE all == Uncommented \cup {REWRITTEN}
  <2>1. PICK a \in Seq(all) : a = StripCode(Pasted(disc[k].text))
    <3>1. PICK p \in Seq(Written) : p = Pasted(disc[k].text)
      BY <1>8, PastedIs
    <3>2. Written \subseteq all \cup {COMMENT}
      BY DEF Written, Uncommented, Plain
    <3> HIDE DEF all
    <3>3. StripCode(p) \in Seq(all)
      BY <3>1, <3>2, StripIs
    <3> QED
      BY <3>1, <3>3
  <2>2. PICK e \in all : e = REWRITTEN
    OBVIOUS
  <2>3. e \notin Uncommented
    BY <2>2, CgAssumption DEF CgAssumption, Uncommented
  <2>4. Uncommented \subseteq all
    OBVIOUS
  <2> HIDE DEF all
  <2>5. PICK r \in Seq(all) : r = <<e>> /\ Len(r) = 1 /\ r[1] = e
    <3>1. <<e>> \in Seq(all)
      BY <2>2
    <3> QED
      BY <3>1
  <2>6. PICK c \in Seq(all) : c = a \o r /\ c[Len(c)] = e
    <3>1. PICK n \in Nat : n = Len(a)
      BY <2>1, LenProperties
    <3>2. /\ a \o r \in Seq(all) /\ Len(a \o r) = Len(a) + Len(r)
          /\ \A i \in 1 .. Len(a) + Len(r) :
               (a \o r)[i] = IF i <= Len(a) THEN a[i] ELSE r[i - Len(a)]
      BY <2>1, <2>5, ConcatProperties
    <3>3. n + 1 \in 1..Len(a) + Len(r) /\ ~(n + 1 <= Len(a)) /\ (n + 1) - Len(a) = 1
          /\ Len(a) + Len(r) = n + 1
      BY <2>5, <3>1
    <3>4. (a \o r)[n + 1] = r[1]
      BY <3>2, <3>3
    <3> QED
      BY <2>5, <3>2, <3>3, <3>4
  <2>7. mine = c
    BY <1>8, <1>11, <2>1, <2>2, <2>5, <2>6, PreprocessedIs DEF mine, Ways
  <2>8. ASSUME NEW i \in DOMAIN shaders, CodeEnds(mine, shaders[i].body) PROVE FALSE
    <3>1. PICK b \in Seq(Uncommented) : b = shaders[i].body
      BY <1>3
    <3>2. b # <<>> /\ IsSuffix(b, c)
      BY <2>7, <2>8, <3>1 DEF CodeEnds
    <3>3. b \in Seq(all)
      BY <2>4, <3>1, SeqMonotonic
    <3>4. b[Len(b)] = e
      BY <2>6, <3>2, <3>3, EndsAlike
    <3>5. b[Len(b)] \in Uncommented
      <4>1. Len(b) \in Nat \ {0}
        BY <3>1, <3>2, EmptySeq
      <4>2. Len(b) \in 1..Len(b)
        BY <4>1
      <4> QED
        BY <3>1, <4>2, ElementOfSeq
    <3> QED
      BY <2>3, <3>4, <3>5
  <2>9. hits = {}
    BY <2>8
  <2> HIDE DEF hits
  <2>10. CASE rivals = {}
    <3>1. same = {own}
      BY <1>7, <2>10
    <3> HIDE DEF same
    <3>2. asked.handle = own
      BY <1>6, <2>9, <3>1
    <3> QED
      BY <1>1, <2>10, <3>2 DEF ProgramFile
  <2>11. CASE rivals # {}
    <3>1. ~\E i \in same : same = {i}
      <4>1. PICK j \in rivals : TRUE
        BY <2>11
      <4>2. own \in same /\ j \in same /\ j # own
        BY <1>7, <4>1
      <4> HIDE DEF same
      <4> QED
        BY <4>2
    <3> HIDE DEF same
    <3>2. asked.handle = 0
      BY <1>6, <2>9, <3>1
    <3> QED
      BY <1>8, <1>11, <2>11, <3>2 DEF ProgramFile
  <2> QED
    BY <2>10, <2>11
<1> QED
  BY <1>10, <1>11

\* A program asked for with its file's definitions gets its file's output.
THEOREM CompilerFindsRightProgram == CgSpec => []RightProgram
<1>1. CgInit => ShadersInv
  BY ShadersStart
<1>2. ShadersInv /\ [CgNext]_cgVars => ShadersInv'
  BY ShadersSteps
<1>3. ShadersInv => RightProgram
  BY ShadersRight
<1> QED
  BY <1>1, <1>2, <1>3, PTL DEF CgSpec
(***************************************************************************)
(* All of them in one process.                                             *)
(***************************************************************************)
\* The sort's places stay within the array the guest gave.
SortBounds == sort.n \in 0..MaxSort /\ sort.i \in 0..MaxSort /\ sort.j \in 0..MaxSort

LEMMA SortStaysInBounds ==
  SortAssumption /\ SortInv /\ SortBounds /\ [SortNext]_sort => SortBounds'
<1> SUFFICES ASSUME SortAssumption, SortInv, SortBounds, [SortNext]_sort PROVE SortBounds'
  OBVIOUS
<1>0. MaxSort \in Nat \ {0}
  BY DEF SortAssumption
<1>1. ASSUME NEW n \in 0..MaxSort, NEW keys, NEW f, Sort(n, keys, f) PROVE SortBounds'
  BY <1>0, <1>1 DEF Sort, SortBounds
<1>2. CASE Pick
  <2>1. /\ sort'.n = sort.n /\ sort'.i = sort.i
        /\ sort'.j = sort.j \/ sort'.j = sort.i
    BY <1>2 DEF Pick, SortInv, SortShape
  <2> QED
    BY <2>1 DEF SortBounds
<1>3. CASE Shift
  <2>1. sort'.n = sort.n /\ sort'.i = sort.i /\ sort'.j = sort.j - 1 /\ sort.j > 0
    BY <1>3 DEF Shift, SortInv, SortShape
  <2> QED
    BY <1>0, <2>1 DEF SortBounds
<1>4. CASE PutDown
  <2>1. sort'.n = sort.n /\ sort'.i = sort.i + 1 /\ sort'.j = sort.j /\ sort.i \in 1..(sort.n - 1)
    BY <1>4 DEF PutDown, SortInv, SortShape
  <2> QED
    BY <1>0, <2>1 DEF SortBounds
<1>5. CASE SortReturn
  BY <1>0, <1>5 DEF SortReturn, SortBounds
<1>6. CASE UNCHANGED sort
  BY <1>6 DEF SortBounds
<1> QED
  BY <1>1, <1>2, <1>3, <1>4, <1>5, <1>6 DEF SortNext

LibraryInv ==
  /\ HeapInv /\ StringInv /\ TreeInv /\ SortInv /\ SortBounds
  /\ FormatInv /\ ScanInv /\ TraceInv

LEMMA LibraryStarts == LibraryInit => LibraryInv
<1> SUFFICES ASSUME LibraryInit PROVE LibraryInv
  OBVIOUS
<1>1. HeapInit /\ StringInit /\ TreeInit /\ SortInit /\ FormatInit /\ ScanInit /\ TraceInit
  BY DEF LibraryInit
<1>2. SortBounds
  BY <1>1, SortAssumption DEF SortBounds, SortInit, SortAssumption
<1>3. HeapInv /\ StringInv /\ TreeInv /\ SortInv
  BY <1>1, HeapInvInit, StringInvInit, TreeStarts, SortInvInit
<1>4. FormatInv /\ ScanInv /\ TraceInv
  BY <1>1, FormatInvInit, ScanIdleInv, ScanAssumption, TraceStarts, TraceAssumption DEF ScanInit
<1> QED
  BY <1>2, <1>3, <1>4 DEF LibraryInv

LEMMA LibrarySteps == LibraryInv /\ [LibraryNext]_libraryVars => LibraryInv'
<1> SUFFICES ASSUME LibraryInv, [LibraryNext]_libraryVars PROVE LibraryInv'
  OBVIOUS
<1>1. /\ [HeapNext]_heapVars /\ [StringNext]_stringVars /\ [TreeNext]_treeVars /\ [SortNext]_sort
      /\ [FormatNext]_print /\ [ScanNext]_scan /\ [TraceNext]_traceVars
  BY DEF LibraryNext, libraryVars
<1>2. HeapInv' /\ StringInv' /\ TreeInv'
  BY <1>1, HeapInvNext, StringInvNext, TreeSteps DEF LibraryInv
<1>3. SortInv' /\ SortBounds'
  BY <1>1, SortInvNext, SortStaysInBounds, SortAssumption DEF LibraryInv
<1>4. FormatInv' /\ ScanInv' /\ TraceInv'
  BY <1>1, FormatInvNext, FormatAssumption, ScanInvNext, ScanAssumption, TraceInvNext,
     TraceAssumption DEF LibraryInv
<1> QED
  BY <1>2, <1>3, <1>4 DEF LibraryInv

LEMMA LibraryTyped == LibraryInv => LibraryTypeOK
<1> SUFFICES ASSUME LibraryInv PROVE LibraryTypeOK
  OBVIOUS
<1>1. HeapTypeOK /\ StringTypeOK /\ TraceTypeOK
  BY DEF LibraryInv, HeapInv, StringInv, TraceInv, TraceShape
<1>2. TreeTypeOK
  <2>1. TreeSound => node \in [Nodes -> Node]
    BY DEF TreeSound, Sound, Shape
  <2> QED
    BY <2>1 DEF LibraryInv, TreeInv, Vacant, TreeTypeOK
<1>3. SortTypeOK
  BY DEF LibraryInv, SortInv, SortShape, SortBounds, SortTypeOK
<1>4. FormatTypeOK
  <2>1. FormatShape /\ MaxItems \in Nat
    BY FormatAssumption DEF LibraryInv, FormatInv, FormatAssumption
  <2>2. /\ print.phase \in {"idle", "walk", "done"} /\ print.cap \in Caps \cup {-1}
        /\ print.items \in Seq(Items)
    BY <2>1 DEF FormatShape
  <2>3. Len(print.items) \in Nat
    BY <2>2, LenProperties
  <2> QED
    BY <2>1, <2>2, <2>3 DEF FormatShape, FormatTypeOK
<1>5. ScanTypeOK
  <2>1. ScanShape /\ MaxFormat \in Nat /\ MaxInput \in Nat
    BY ScanAssumption DEF LibraryInv, ScanInv, ScanAssumption
  <2>2. /\ scan.phase \in {"idle", "walk", "done"} /\ scan.in \in Seq(Characters)
        /\ scan.fmt \in Seq(ScanItems)
    BY <2>1 DEF ScanShape
  <2>3. Len(scan.in) \in Nat /\ Len(scan.fmt) \in Nat
    BY <2>2, LenProperties
  <2> QED
    BY <2>1, <2>2, <2>3 DEF ScanShape, ScanTypeOK
<1> QED
  BY <1>1, <1>2, <1>3, <1>4, <1>5 DEF LibraryTypeOK

\* Whichever handlers the guest calls, the state of each keeps its type: the
\* sort's places within the array, the walks through formats and inputs within
\* these, the trees made of nodes, the trace's counters below their limits.
THEOREM LibrariesKeepTypes == LibrarySpec => []LibraryTypeOK
<1> QED
  BY LibraryStarts, LibrarySteps, LibraryTyped, PTL DEF LibrarySpec

\* Each part of the process behaves as it does alone: what a call of one leaves
\* alone is all the state of the others.
THEOREM LibrariesAreTheirParts ==
  LibrarySpec => /\ HeapSpec /\ StringSpec /\ TreeSpec /\ SortSpec
                 /\ FormatSpec /\ ScanSpec /\ TraceSpec
<1>1. LibraryInit => /\ HeapInit /\ StringInit /\ TreeInit /\ SortInit
                     /\ FormatInit /\ ScanInit /\ TraceInit
  BY DEF LibraryInit
<1>2. [LibraryNext]_libraryVars =>
        /\ [HeapNext]_heapVars /\ [StringNext]_stringVars /\ [TreeNext]_treeVars
        /\ [SortNext]_sort /\ [FormatNext]_print /\ [ScanNext]_scan /\ [TraceNext]_traceVars
  BY DEF LibraryNext, libraryVars
<1> QED
  BY <1>1, <1>2, PTL DEF LibrarySpec, HeapSpec, StringSpec, TreeSpec, SortSpec, FormatSpec,
     ScanSpec, TraceSpec

\* So what was proved of each part holds of the process.
THEOREM LibrariesKeepPromises ==
  LibrarySpec =>
    /\ [](BlocksSound /\ RepsOwned /\ TreeBalanced /\ SortSound)
    /\ [](PrintsAsC /\ ScanAgrees /\ ReportIsSuffix)
    /\ ImplementsAllocator /\ ImplementsValueStrings /\ ImplementsOrderedSet
<1> QED
  BY LibrariesAreTheirParts, HeapSound, RepsStayOwned, TreesAreBalanced, SortIsSound,
     PrintfPrintsAsC, ScanfAgrees, ReportsAreSuffixes, HeapAllocates, StringsAreValues,
     TreesAreSets, PTL
=============================================================================
